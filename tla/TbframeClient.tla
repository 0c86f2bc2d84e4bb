---------------------------- MODULE TbframeClient ----------------------------
(***************************************************************************)
(* The lifetime of tbframe links and of the client they are announced to   *)
(* (frame/core.c, frame/service.c), with the client tbrxe keeps a record    *)
(* of each link for (rxe/tbrxe_frame.c).                                   *)
(*                                                                         *)
(* Four kinds of context meet here: the session work of each link, its     *)
(* verify timer and work, the caller that registers and unregisters the    *)
(* client, and the service driver that creates links, destroys them, and   *)
(* stops or shuts everything down.  They are kept apart by session_lock    *)
(* (one holder per link), the removing and parked gates, and the joins     *)
(* (cancel_delayed_work_sync() and friends).  Negotiation itself is        *)
(* TbframeSession: here a session step that may, comes up.                 *)
(***************************************************************************)
EXTENDS Naturals, Sequences, FiniteSets, SequencesExt

CONSTANTS
    Links,          \* the links that may ever be created, once each
    Hotplug,        \* what may happen to links while the client unregisters
    Stops,          \* what the service driver may do to all of them
    MaxClients,     \* bound: registrations
    MaxBounces,     \* bound: sessions that leave UP by themselves
    MaxDead         \* bound: links that are poisoned

ASSUME HotplugAssumption == Hotplug \subseteq {"create", "destroy"}
ASSUME StopsAssumption == Stops \subseteq {"stop", "shutdown"}
ASSUME BoundsAssumption ==
    MaxClients \in Nat /\ MaxBounces \in Nat /\ MaxDead \in Nat

VARIABLES
    links,      \* tf->links
    link,       \* struct tbframe_link
    session,    \* who runs link->session_lock's section, and where
    service,    \* tbframe_link_destroy() or tbframe_link_shutdown() of a link
    client,     \* the caller of register and unregister
    quiesce,    \* tbframe_prepare_quiesce()
    record,     \* the client's record of a link: its published device
    bounces, deaths

vars == <<links, link, session, service, client, quiesce, record, bounces, deaths>>

NoLink == [exists |-> "no", removing |-> FALSE, parked |-> FALSE, state |-> "INIT",
           needs_down |-> FALSE, announce |-> FALSE, up_delivered |-> FALSE,
           work |-> FALSE,          \* session_work is pending
           timer |-> "off",         \* verify_timer
           verify |-> FALSE,        \* verify_work is pending
           verifying |-> FALSE,     \* verify_work is running
           unresolved |-> FALSE]    \* a path that does not disconnect
Free == [who |-> "none", pc |-> "none", was_up |-> FALSE, terminal |-> FALSE]

Init ==
    /\ links = <<>>
    /\ link = [l \in Links |-> NoLink]
    /\ session = [l \in Links |-> Free]
    /\ service = [l \in Links |-> [kind |-> "none", pc |-> "none"]]
    /\ client = [pc |-> "out", ops |-> FALSE, skip |-> 0, at |-> {}, count |-> 0]
    /\ quiesce = [pc |-> "none", kind |-> "none", skip |-> 0, at |-> {}]
    /\ record = [l \in Links |-> "none"]
    /\ bounces = 0 /\ deaths = 0

Listed(l) == \E i \in 1 .. Len(links) : links[i] = l
Exists(l) == link[l].exists = "yes"

-----------------------------------------------------------------------------
(* Gates and joins.                                                        *)

\* tbframe_link_kick_locked()
Kick(k) ==
    IF k.removing \/ k.parked \/ k.state = "DEAD" THEN k ELSE [k EXCEPT !.work = TRUE]

\* mod_timer() does nothing to a timer that was shut down.
Arm(k) == IF k.timer = "shut" THEN k ELSE [k EXCEPT !.timer = "on"]

\* timer_delete_sync(), timer_shutdown_sync()
DeleteTimer(k) == [k EXCEPT !.timer = IF @ = "shut" THEN @ ELSE "off"]
ShutTimer(k) == [k EXCEPT !.timer = "shut"]

\* One of the three joins, in their order; a running work item is waited for.
Join(l, pc, k) ==
    \/ pc = "timer" /\ link' = [link EXCEPT ![l] = k]
    \/ /\ pc = "work" /\ session[l].who # "work"
       /\ link' = [link EXCEPT ![l].work = FALSE]
    \/ /\ pc = "verify" /\ ~link[l].verifying
       /\ link' = [link EXCEPT ![l].verify = FALSE]

AfterJoin == [timer |-> "work", work |-> "verify", verify |-> "joined"]

-----------------------------------------------------------------------------
(* The session work: __tbframe_link_session_step().                        *)

WorkStart(l) ==
    /\ link[l].work /\ session[l].who = "none"
    /\ link' = [link EXCEPT ![l].work = FALSE]
    /\ session' = [session EXCEPT ![l] = [Free EXCEPT !.who = "work", !.pc = "gate"]]
    /\ UNCHANGED <<links, service, client, quiesce, record, bounces, deaths>>

\* The entry gate; then a pending teardown, or negotiation.
WorkGate(l) ==
    /\ session[l].pc = "gate"
    /\ session' = [session EXCEPT ![l] =
          IF link[l].removing \/ link[l].parked \/ link[l].state = "DEAD" THEN Free
          ELSE IF link[l].needs_down THEN [@ EXCEPT !.pc = "down"]
          ELSE [@ EXCEPT !.pc = "up"]]
    /\ UNCHANGED <<links, link, service, client, quiesce, record, bounces, deaths>>

\* Negotiation, or the proof of the data path, fails: try again, or first
\* take the session down.
NegotiationFails(l) ==
    /\ session[l].pc = "up"
    /\ bounces < MaxBounces /\ bounces' = bounces + 1
    /\ \E down \in BOOLEAN :
          link' = [link EXCEPT ![l] = Kick([@ EXCEPT !.needs_down = @ \/ down])]
    /\ session' = [session EXCEPT ![l] = Free]
    /\ UNCHANGED <<links, service, client, quiesce, record, deaths>>

\* tbframe_link_bring_up() cannot undo a path: the link is poisoned, which is
\* a terminal end of a session that was not up.
BringUpPoisons(l) ==
    /\ session[l].pc = "up" /\ link[l].state = "INIT"
    /\ deaths < MaxDead /\ deaths' = deaths + 1
    /\ \E unresolved \in BOOLEAN :
          link' = [link EXCEPT ![l].state = "DEAD", ![l].unresolved = unresolved]
    /\ session' = [session EXCEPT ![l].pc = "notify", ![l].terminal = TRUE]
    /\ UNCHANGED <<links, service, client, quiesce, record, bounces>>

\* tbframe_link_maybe_up(), first section: up, or replay the announcement.
MaybeUp(l) ==
    /\ session[l].pc = "up"
    /\ LET up == link[l].state = "INIT" /\ ~link[l].removing /\ ~link[l].needs_down
           replay == link[l].state = "UP" /\ link[l].announce
       IN  /\ link' = IF up \/ replay
                        THEN [link EXCEPT ![l].state = "UP", ![l].announce = FALSE]
                        ELSE link
           /\ session' = [session EXCEPT ![l] =
                IF up \/ replay THEN [@ EXCEPT !.pc = "link_up"] ELSE Free]
    /\ UNCHANGED <<links, service, client, quiesce, record, bounces, deaths>>

\* tbframe_link_deliver_up() under client_rwsem, and tbrxe_client_link_up().
DeliverUp(l) ==
    /\ session[l].pc = "link_up"
    /\ record' = IF client.ops THEN [record EXCEPT ![l] = "up"] ELSE record
    /\ session' = [session EXCEPT ![l].pc = "delivered"]
    /\ UNCHANGED <<links, link, service, client, quiesce, bounces, deaths>>

\* Mutated form of Delivered: only the first session arms the verify timer.
Mut_DeliveredArmsOnce(l) ==
    /\ session[l].pc = "delivered"
    /\ link' = [link EXCEPT ![l] =
          LET k == [@ EXCEPT !.up_delivered = TRUE]
          IN  IF ~link[l].up_delivered /\ ~k.removing /\ k.state = "UP" THEN Arm(k) ELSE k]
    /\ session' = [session EXCEPT ![l] = Free]
    /\ UNCHANGED <<links, service, client, quiesce, record, bounces, deaths>>

\* ... and its last section.
Delivered(l) ==
    /\ session[l].pc = "delivered"
    /\ link' = [link EXCEPT ![l] =
          LET k == [@ EXCEPT !.up_delivered = TRUE]
          IN  IF ~k.removing /\ k.state = "UP" THEN Arm(k) ELSE k]
    /\ session' = [session EXCEPT ![l] = Free]
    /\ UNCHANGED <<links, service, client, quiesce, record, bounces, deaths>>

-----------------------------------------------------------------------------
(* tbframe_link_down_session(), for whoever holds session_lock.            *)

\* Mutated form of DownClose: was_up is read after the state was reset.
Mut_DownCloseLate(l) ==
    /\ session[l].pc = "down"
    /\ link' = [link EXCEPT ![l] = DeleteTimer(
          [@ EXCEPT !.state = IF @ = "DEAD" THEN @ ELSE "INIT", !.needs_down = FALSE])]
    /\ session' = [session EXCEPT ![l].pc = "hardware"]
    /\ UNCHANGED <<links, service, client, quiesce, record, bounces, deaths>>

\* The session leaves UP.
DownClose(l) ==
    /\ session[l].pc = "down"
    /\ link' = [link EXCEPT ![l] = DeleteTimer(
          [@ EXCEPT !.state = IF @ = "DEAD" THEN @ ELSE "INIT", !.needs_down = FALSE])]
    /\ session' = [session EXCEPT ![l].pc = "hardware", ![l].was_up = link[l].state = "UP"]
    /\ UNCHANGED <<links, service, client, quiesce, record, bounces, deaths>>

\* The publishers drain, the path disconnects, the rings stop ...
DownHardware(l) ==
    /\ session[l].pc = "hardware"
    /\ link' = [link EXCEPT ![l].unresolved = FALSE]
    /\ session' = [session EXCEPT ![l].pc = "notify"]
    /\ UNCHANGED <<links, service, client, quiesce, record, bounces, deaths>>

\* ... or one of them does not: the link is poisoned, which makes the teardown
\* terminal.  A path that is not quarantined either stays unresolved.
DownPoisons(l) ==
    /\ session[l].pc = "hardware"
    /\ deaths < MaxDead /\ deaths' = deaths + 1
    /\ \E unresolved \in BOOLEAN :
          link' = [link EXCEPT ![l].state = "DEAD", ![l].unresolved = unresolved]
    /\ session' = [session EXCEPT ![l].pc = "notify", ![l].terminal = TRUE]
    /\ UNCHANGED <<links, service, client, quiesce, record, bounces>>

\* Mutated form of NotifyDown: only a session that was UP owes a link_down.
Mut_NotifyDownWasUp(l) ==
    /\ session[l].pc = "notify"
    /\ session' = [session EXCEPT ![l].pc = IF session[l].was_up THEN "link_down" ELSE "downed"]
    /\ link' = [link EXCEPT ![l].up_delivered = @ /\ ~session[l].terminal]
    /\ UNCHANGED <<links, service, client, quiesce, record, bounces, deaths>>

\* tbframe_link_notify_down(): a client that still has the link's record is
\* told of a terminal teardown even when the session was down already.
NotifyDown(l) ==
    /\ session[l].pc = "notify"
    /\ LET deliver == \/ session[l].was_up
                      \/ link[l].up_delivered /\ session[l].terminal
       IN  session' = [session EXCEPT ![l].pc = IF deliver THEN "link_down" ELSE "downed"]
    /\ link' = [link EXCEPT ![l].up_delivered = @ /\ ~session[l].terminal]
    /\ UNCHANGED <<links, service, client, quiesce, record, bounces, deaths>>

\* The upcall, and tbrxe_client_link_down(): a terminal one unpublishes.
DeliverDown(l) ==
    /\ session[l].pc = "link_down"
    /\ record' = IF ~client.ops \/ record[l] = "none" THEN record
                 ELSE [record EXCEPT ![l] = IF session[l].terminal THEN "none" ELSE "down"]
    /\ session' = [session EXCEPT ![l].pc = "downed"]
    /\ UNCHANGED <<links, link, service, client, quiesce, bounces, deaths>>

\* Release session_lock; a teardown that is not terminal is retried.
Downed(l) ==
    /\ session[l].pc = "downed"
    /\ link' = [link EXCEPT ![l] = IF session[l].terminal THEN @ ELSE Kick(@)]
    /\ session' = [session EXCEPT ![l] = Free]
    /\ UNCHANGED <<links, service, client, quiesce, record, bounces, deaths>>

\* A caller other than the work takes session_lock for a terminal teardown.
TakeDown(l, who) ==
    /\ session[l].who = "none"
    /\ session' = [session EXCEPT ![l] = 
          [Free EXCEPT !.who = who, !.pc = "down", !.terminal = TRUE]]

-----------------------------------------------------------------------------
(* What happens to a session by itself.                                    *)

\* An inbound HELLO, READY or BYE: the session is wanted, or is to go down.
\* A parked link, or one with a teardown pending, only takes a BYE.  Whether a
\* session that is not up got far enough to be torn down is left open.
Inbound(l) ==
    /\ Listed(l) /\ ~link[l].removing /\ link[l].state # "DEAD"
    /\ bounces < MaxBounces /\ bounces' = bounces + 1
    /\ ~link[l].needs_down
    /\ \/ /\ session[l].pc \notin {"hardware", "notify", "link_down", "downed"}
          /\ link' = [link EXCEPT ![l] = Kick([@ EXCEPT !.needs_down = TRUE])]
       \/ link' = [link EXCEPT ![l] = Kick(@)]
    /\ UNCHANGED <<links, session, service, client, quiesce, record, deaths>>

\* tbframe_verify_timer_fn()
TimerFires(l) ==
    /\ link[l].timer = "on"
    /\ link' = [link EXCEPT ![l].timer = "off",
                            ![l].verify = @ \/ (~link[l].removing /\ ~link[l].parked)]
    /\ UNCHANGED <<links, session, service, client, quiesce, record, bounces, deaths>>

\* tbframe_link_verify_step() reads the routers without a lock ...
VerifyStart(l) ==
    /\ link[l].verify /\ ~link[l].verifying
    /\ link' = [link EXCEPT ![l].verify = FALSE, ![l].verifying =
          ~link[l].removing /\ ~link[l].parked /\ link[l].state = "UP"]
    /\ UNCHANGED <<links, session, service, client, quiesce, record, bounces, deaths>>

\* ... and acts on what it read.  The session died: take it down.
VerifyDead(l) ==
    /\ link[l].verifying
    /\ bounces < MaxBounces /\ bounces' = bounces + 1
    /\ link' = [link EXCEPT ![l] =
          LET k == [@ EXCEPT !.verifying = FALSE]
          IN  IF k.state = "UP" /\ ~k.needs_down
                THEN Kick([k EXCEPT !.needs_down = TRUE]) ELSE k]
    /\ UNCHANGED <<links, session, service, client, quiesce, record, deaths>>

\* It lives: look again later.
VerifyAlive(l) ==
    /\ link[l].verifying
    /\ link' = [link EXCEPT ![l] =
          LET k == [@ EXCEPT !.verifying = FALSE]
          IN  IF ~k.removing /\ k.state = "UP" THEN Arm(k) ELSE k]
    /\ UNCHANGED <<links, session, service, client, quiesce, record, bounces, deaths>>

-----------------------------------------------------------------------------
(* The client: tbframe_register_client_tf(), tbframe_unregister_client_tf(). *)

Unregistering == client.pc \notin {"out", "walk", "in", "returned"}

\* A destroy or a shutdown of the link is in progress.
Closing(l) == service[l].pc \in {"timer", "work", "verify", "joined", "downing", "refs"}

\* The walks of unregister and quiesce go by position: tbframe_dispatch_next().
NextAt(skip) == IF skip < Len(links) THEN {links[skip + 1]} ELSE {}

Register ==
    /\ client.pc = "out" /\ client.count < MaxClients /\ quiesce.pc = "none"
    /\ client' = [client EXCEPT !.pc = "walk", !.ops = TRUE, !.count = @ + 1]
    /\ UNCHANGED <<links, link, session, service, quiesce, record, bounces, deaths>>

\* Mutated form of RegisterWalk: links that are up are not announced again.
Mut_RegisterWalkSilent ==
    /\ client.pc = "walk"
    /\ link' = [l \in Links |->
          IF Listed(l) THEN Kick([link[l] EXCEPT !.parked = FALSE]) ELSE link[l]]
    /\ client' = [client EXCEPT !.pc = "in"]
    /\ UNCHANGED <<links, session, service, quiesce, record, bounces, deaths>>

\* Unpark and kick every link; one that is up replays its link_up.
RegisterWalk ==
    /\ client.pc = "walk"
    /\ link' = [l \in Links |->
          IF Listed(l) THEN Kick([link[l] EXCEPT !.parked = FALSE,
                                                 !.announce = @ \/ link[l].state = "UP"])
          ELSE link[l]]
    /\ client' = [client EXCEPT !.pc = "in"]
    /\ UNCHANGED <<links, session, service, quiesce, record, bounces, deaths>>

\* tbframe_link_mark_parked() on every link.
UnregisterPark ==
    /\ client.pc = "in"
    /\ "destroy" \in Hotplug \/ \A l \in Links : ~Closing(l)
    /\ link' = [l \in Links |->
          IF Listed(l) THEN [link[l] EXCEPT !.parked = TRUE] ELSE link[l]]
    /\ client' = [client EXCEPT !.pc = "cancel", !.skip = 0, !.at = {}]
    /\ UNCHANGED <<links, session, service, quiesce, record, bounces, deaths>>

\* Mutated form of AfterWalk: the links are joined but not taken down.
Mut_AfterWalkNoDown == [cancel |-> "cancel2", down |-> "cancel2", cancel2 |-> "fence"]

\* The three walks: cancel, down, cancel; then the fence.
AfterWalk == [cancel |-> "down", down |-> "cancel2", cancel2 |-> "fence"]

\* Mutated form of UnregisterNext: the cursor stays.
Mut_UnregisterNextStays ==
    /\ client.pc \in DOMAIN AfterWalk /\ client.at = {}
    /\ client' = IF NextAt(client.skip) = {}
         THEN [client EXCEPT !.pc = AfterWalk[@], !.skip = 0]
         ELSE [client EXCEPT
                   !.at = {[link |-> links[client.skip + 1],
                            pc |-> IF client.pc = "down" THEN "take" ELSE "timer"]}]
    /\ UNCHANGED <<links, link, session, service, quiesce, record, bounces, deaths>>

\* The next link of the walk, with a reference to it; or the next walk.
UnregisterNext ==
    /\ client.pc \in DOMAIN AfterWalk /\ client.at = {}
    /\ client' = IF NextAt(client.skip) = {}
         THEN [client EXCEPT !.pc = AfterWalk[@], !.skip = 0]
         ELSE [client EXCEPT !.skip = @ + 1,
                   !.at = {[link |-> links[client.skip + 1],
                            pc |-> IF client.pc = "down" THEN "take" ELSE "timer"]}]
    /\ UNCHANGED <<links, link, session, service, quiesce, record, bounces, deaths>>

\* tbframe_link_cancel_activity()
UnregisterCancel == \E a \in client.at :
    /\ a.pc \in DOMAIN AfterJoin
    /\ Join(a.link, a.pc, DeleteTimer(link[a.link]))
    /\ client' = [client EXCEPT !.at =
          IF a.pc = "verify" THEN {} ELSE {[a EXCEPT !.pc = AfterJoin[@]]}]
    /\ UNCHANGED <<links, session, service, quiesce, record, bounces, deaths>>

\* tbframe_link_down_parked()
UnregisterTake == \E a \in client.at :
    /\ a.pc = "take"
    /\ TakeDown(a.link, "client")
    /\ client' = [client EXCEPT !.at = {[a EXCEPT !.pc = "downing"]}]
    /\ UNCHANGED <<links, link, service, quiesce, record, bounces, deaths>>

UnregisterDowned == \E a \in client.at :
    /\ a.pc = "downing" /\ session[a.link].who # "client"
    /\ client' = [client EXCEPT !.at = {}]
    /\ UNCHANGED <<links, link, session, service, quiesce, record, bounces, deaths>>

\* client_rwsem for writing: no upcall runs, and none will.
UnregisterFence ==
    /\ client.pc = "fence"
    /\ client' = [client EXCEPT !.pc = "returned", !.ops = FALSE]
    /\ UNCHANGED <<links, link, session, service, quiesce, record, bounces, deaths>>

\* tbrxe_frame_unregister() then unpublishes whatever is left.
Sweep ==
    /\ client.pc = "returned"
    /\ client' = [client EXCEPT !.pc = "out"]
    /\ record' = [l \in Links |-> "none"]
    /\ UNCHANGED <<links, link, session, service, quiesce, bounces, deaths>>

-----------------------------------------------------------------------------
(* The service driver.                                                     *)

\* tbframe_service_probe(): tbframe_link_create() with autostart.  It takes
\* tbframe_service_lock, and finds no instance once that is stopped.
Probe(l) ==
    /\ link[l].exists = "no"
    /\ quiesce.pc = "none" \/ (quiesce.pc = "done" /\ quiesce.kind = "shutdown")
    /\ "create" \in Hotplug \/ ~Unregistering
    /\ links' = Append(links, l)
    /\ link' = [link EXCEPT ![l] = Kick([NoLink EXCEPT !.exists = "yes"])]
    /\ UNCHANGED <<session, service, client, quiesce, record, bounces, deaths>>

\* tbframe_service_remove(): tbframe_link_destroy(), also of a link that was
\* shut down.
Unbind(l) ==
    /\ Listed(l) /\ service[l].pc \in {"none", "shut"}
    /\ "destroy" \in Hotplug \/ ~Unregistering
    /\ link' = [link EXCEPT ![l].removing = TRUE]
    /\ service' = [service EXCEPT ![l] = [kind |-> "destroy", pc |-> "timer"]]
    /\ UNCHANGED <<links, session, client, quiesce, record, bounces, deaths>>

\* tbframe_service_shutdown() after the global pass: tbframe_link_shutdown().
Shutdown(l) ==
    /\ Listed(l) /\ service[l].pc = "none"
    /\ quiesce.pc = "done" /\ quiesce.kind = "shutdown"
    /\ "destroy" \in Hotplug \/ ~Unregistering
    /\ link' = [link EXCEPT ![l].parked = TRUE]
    /\ service' = [service EXCEPT ![l] = [kind |-> "shutdown", pc |-> "timer"]]
    /\ UNCHANGED <<links, session, client, quiesce, record, bounces, deaths>>

\* Mutated form of ServiceJoin: a running session step is not waited for.
Mut_ServiceJoinNoWait(l) ==
    /\ service[l].pc \in DOMAIN AfterJoin
    /\ link' = [link EXCEPT ![l] = [ShutTimer(@) EXCEPT !.work = FALSE]]
    /\ service' = [service EXCEPT ![l].pc = AfterJoin[@]]
    /\ UNCHANGED <<links, session, client, quiesce, record, bounces, deaths>>

ServiceJoin(l) ==
    /\ service[l].pc \in DOMAIN AfterJoin
    /\ Join(l, service[l].pc, ShutTimer(link[l]))
    /\ service' = [service EXCEPT ![l].pc = AfterJoin[@]]
    /\ UNCHANGED <<links, session, client, quiesce, record, bounces, deaths>>

ServiceTake(l) ==
    /\ service[l].pc = "joined"
    /\ TakeDown(l, "service")
    /\ service' = [service EXCEPT ![l].pc = "downing"]
    /\ UNCHANGED <<links, link, client, quiesce, record, bounces, deaths>>

\* Mutated form of ServiceDowned: the link is not taken off the list.
Mut_ServiceDownedKeeps(l) ==
    /\ service[l].pc = "downing" /\ session[l].who # "service"
    /\ service' = [service EXCEPT ![l].pc =
          IF service[l].kind = "shutdown" THEN "shut"
          ELSE IF link[l].unresolved THEN "leaked" ELSE "refs"]
    /\ UNCHANGED <<links, link, session, client, quiesce, record, bounces, deaths>>

\* The link is delisted; it stays listed when it was only shut down, or when
\* its path is still owned.
ServiceDowned(l) ==
    /\ service[l].pc = "downing" /\ session[l].who # "service"
    /\ LET pc == IF service[l].kind = "shutdown" THEN "shut"
                 ELSE IF link[l].unresolved THEN "leaked" ELSE "refs"
       IN  /\ service' = [service EXCEPT ![l].pc = pc]
           /\ links' = IF pc = "refs" THEN Remove(links, l) ELSE links
    /\ UNCHANGED <<link, session, client, quiesce, record, bounces, deaths>>

Holds(l) == \E a \in client.at \cup quiesce.at : a.link = l

\* The walks have put the link: it is freed.
ServiceFree(l) ==
    /\ service[l].pc = "refs" /\ ~Holds(l)
    /\ link' = [link EXCEPT ![l].exists = "freed"]
    /\ service' = [service EXCEPT ![l].pc = "freed"]
    /\ UNCHANGED <<links, session, client, quiesce, record, bounces, deaths>>

\* The bounded wait for references expires: the link is poisoned and leaked.
ServiceForce(l) ==
    /\ service[l].pc = "refs"
    /\ deaths < MaxDead /\ deaths' = deaths + 1
    /\ link' = [link EXCEPT ![l].state = "DEAD"]
    /\ service' = [service EXCEPT ![l].pc = "leaked"]
    /\ UNCHANGED <<links, session, client, quiesce, record, bounces>>

\* tbframe_prepare_stop() and tbframe_prepare_shutdown(): close every gate ...
\* A client module holds a reference to this one, which cannot stop before it.
Quiesce(kind) ==
    /\ quiesce.pc = "none" /\ kind \in Stops
    /\ kind = "stop" => client.pc = "out"
    /\ quiesce' = [quiesce EXCEPT !.pc = "cancel", !.kind = kind]
    /\ link' = [l \in Links |->
          IF Listed(l) THEN [link[l] EXCEPT !.parked = TRUE, !.removing = @ \/ kind = "stop"]
          ELSE link[l]]
    /\ UNCHANGED <<links, session, service, client, record, bounces, deaths>>

\* ... then join the activity of every link.
QuiesceNext ==
    /\ quiesce.pc = "cancel" /\ quiesce.at = {}
    /\ quiesce' = IF NextAt(quiesce.skip) = {} THEN [quiesce EXCEPT !.pc = "done"]
         ELSE [quiesce EXCEPT !.skip = @ + 1,
                   !.at = {[link |-> links[quiesce.skip + 1], pc |-> "timer"]}]
    /\ UNCHANGED <<links, link, session, service, client, record, bounces, deaths>>

QuiesceCancel == \E a \in quiesce.at :
    /\ Join(a.link, a.pc, ShutTimer(link[a.link]))
    /\ quiesce' = [quiesce EXCEPT !.at =
          IF a.pc = "verify" THEN {} ELSE {[a EXCEPT !.pc = AfterJoin[@]]}]
    /\ UNCHANGED <<links, session, service, client, record, bounces, deaths>>

-----------------------------------------------------------------------------
Work(l) == \/ WorkStart(l) \/ WorkGate(l) \/ MaybeUp(l) \/ DeliverUp(l)
           \/ Delivered(l) \/ DownClose(l) \/ DownHardware(l) \/ NotifyDown(l)
           \/ DeliverDown(l) \/ Downed(l)

Verify(l) == VerifyStart(l) \/ VerifyAlive(l)

Unregister == \/ UnregisterNext \/ UnregisterCancel \/ UnregisterTake
              \/ UnregisterDowned \/ UnregisterFence

Service(l) == \/ ServiceJoin(l) \/ ServiceTake(l) \/ ServiceDowned(l)
              \/ ServiceFree(l)

Fault(l) == \/ NegotiationFails(l) \/ BringUpPoisons(l) \/ DownPoisons(l)
            \/ ServiceForce(l) \/ VerifyDead(l) \/ Inbound(l)

Next == \/ \E l \in Links : \/ Work(l) \/ TimerFires(l) \/ Verify(l) \/ Service(l)
                            \/ Fault(l) \/ Probe(l) \/ Unbind(l) \/ Shutdown(l)
        \/ Register \/ RegisterWalk \/ UnregisterPark \/ Unregister \/ Sweep
        \/ \E kind \in Stops : Quiesce(kind)
        \/ QuiesceNext \/ QuiesceCancel

Spec == Init /\ [][Next]_vars

\* Work items and the callers that wait for them are scheduled; faults, traffic,
\* timers and what a user or a cable does need never happen.  A join waits for
\* one run only (an item cannot be queued while it is being cancelled) and a
\* mutex is handed to its waiters, hence strong fairness for the callers.
Fairness ==
    /\ \A l \in Links : /\ WF_vars(Work(l)) /\ WF_vars(Verify(l))
                         /\ SF_vars(Service(l))
    /\ WF_vars(RegisterWalk) /\ SF_vars(Unregister)
    /\ SF_vars(QuiesceNext \/ QuiesceCancel)

FairSpec == Spec /\ Fairness

-----------------------------------------------------------------------------
(* Properties.                                                             *)

LinkRec == [exists : {"no", "yes", "freed"}, removing : BOOLEAN, parked : BOOLEAN,
            state : {"INIT", "UP", "DEAD"}, needs_down : BOOLEAN, announce : BOOLEAN,
            up_delivered : BOOLEAN, work : BOOLEAN, timer : {"off", "on", "shut"},
            verify : BOOLEAN, verifying : BOOLEAN, unresolved : BOOLEAN]

\* Every variable has its type; tf->links holds each link once, and no link that
\* was freed (list_add_tail() and list_del_init() under tf->lock).
TypeOK ==
    /\ links \in Seq(Links) /\ IsInjective(links)
    /\ \A i \in 1 .. Len(links) : Exists(links[i])
    /\ link \in [Links -> LinkRec]
    /\ session \in [Links ->
          [who : {"none", "work", "client", "service"},
           pc : {"none", "gate", "up", "link_up", "delivered", "down", "hardware",
                 "notify", "link_down", "downed"},
           was_up : BOOLEAN, terminal : BOOLEAN]]
    /\ \A l \in Links : /\ service[l].kind \in {"none", "destroy", "shutdown"}
                         /\ service[l].pc \in {"none", "timer", "work", "verify", "joined",
                                               "downing", "refs", "shut", "leaked", "freed"}
    /\ client.pc \in {"out", "walk", "in", "cancel", "down", "cancel2", "fence", "returned"}
    /\ quiesce.pc \in {"none", "cancel", "done"}
    /\ record \in [Links -> {"none", "up", "down"}]

\* What unregistering promises its caller (tbframe.h): every link was closed
\* first, with a final link_down, so that the client has no record left when
\* tbframe_unregister_client() returns.
ClosedAtReturn == client.pc = "returned" => \A l \in Links : record[l] = "none"

\* A link that was freed is not in use: no session step, timer or verify work
\* is pending or running on it and no walk holds it (the joins of
\* tbframe_link_destroy() and its wait for references).
FreedQuiet == \A l \in Links : link[l].exists = "freed" =>
    /\ session[l].who = "none" /\ ~link[l].work
    /\ link[l].timer # "on" /\ ~link[l].verify /\ ~link[l].verifying
    /\ ~Holds(l)

\* The client does not keep the device of a link that is gone, even when the
\* session was down already when the link was destroyed (the delivery rule of
\* tbframe_link_notify_down()).
NoOrphan == \A l \in Links :
    (link[l].exists = "freed" /\ client.ops) => record[l] = "none"

\* A record that is up stands for a session that is up, or one whose link_down
\* is about to be delivered (was_up of tbframe_link_down_session()).
RecordTracks == \A l \in Links :
    (record[l] = "up" /\ client.ops) =>
        \/ link[l].state = "UP"
        \/ session[l].pc \in {"hardware", "notify", "link_down"} /\ session[l].was_up

\* No session that is up goes unwatched: unless its link is parked or being
\* removed, or the system shuts down, its verify timer or work is pending, or a
\* step that will arm it or tear it down (the re-arm in tbframe_link_maybe_up()
\* and tbframe_link_verify_step()).
Watched == \A l \in Links :
    (/\ link[l].state = "UP" /\ ~link[l].parked /\ ~link[l].removing
     /\ quiesce.pc = "none") =>
        \/ link[l].timer = "on" \/ link[l].verify \/ link[l].verifying
        \/ session[l].who # "none" \/ link[l].work

\* Every caller that closes links comes back: the joins, session_lock and the
\* walks never wait for each other (tbframe_unregister_client_tf(),
\* tbframe_link_destroy(), tbframe_link_shutdown()).
CloseReturns ==
    /\ Unregistering ~> ~Unregistering
    /\ \A l \in Links : Closing(l) ~> ~Closing(l)

\* A registered client is told of every link that is up and stays up, unless the
\* system is shutting down (announce_pending, and the kick of
\* tbframe_register_client_tf()).
Announced == \A l \in Links :
    (client.pc = "in" /\ link[l].state = "UP") ~>
        \/ record[l] = "up"
        \/ client.pc # "in" \/ link[l].state # "UP"
        \/ link[l].parked \/ link[l].removing \/ quiesce.pc # "none"

=============================================================================
