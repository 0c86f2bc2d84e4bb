------------------------------ MODULE TbframeTx ------------------------------
(***************************************************************************)
(* The transmit side of one tbframe link (frame/core.c): the frame pool,   *)
(* admission against the data window and the control reserve, the bounded  *)
(* hardware-ring residency with its two software queues, completion and    *)
(* refill, the publisher count that lets a teardown drain the ring users,  *)
(* the tx_released wakeup, and the reference count that keeps the link     *)
(* alive while a frame is outside the pool.                                *)
(*                                                                         *)
(* Threads: any number of client threads (alloc, xmit, free), the NHI ring *)
(* worker (completion callbacks, one at a time), the session thread        *)
(* (bring-up, keepalives, teardown; serialised by session_lock) and the    *)
(* tx_released work item.  One action is one critical section of           *)
(* link->lock, or one call into the ring.                                  *)
(***************************************************************************)
EXTENDS Naturals, FiniteSets, Sequences

CONSTANTS
    Frames,         \* the TX pool; its size is the ring_entries parameter
    CtrlReserve,    \* TBFRAME_CTRL_RESERVE
    Budget,         \* tx_ring_budget; 0 = post straight to the ring
    RemoteEntries,  \* rx_ring_entries values a peer may advertise
    MaxWakers,      \* bound: client threads between unlock and queue_work
    NoFrame         \* no frame

\* The ring sizes of the wire format (256..4096) exceed the reserve (64), and
\* the default budget (64) is not below it.
ASSUME FramesAssumption == IsFiniteSet(Frames) /\ NoFrame \notin Frames
ASSUME ReserveAssumption ==
    CtrlReserve \in Nat \ {0} /\ Cardinality(Frames) > CtrlReserve
ASSUME BudgetAssumption == Budget \in Nat /\ (Budget = 0 \/ Budget >= CtrlReserve)
ASSUME RemoteAssumption == RemoteEntries \subseteq Nat
ASSUME WakersAssumption == MaxWakers \in Nat

VARIABLES
    state,          \* link->state
    removing,       \* link->removing
    parked,         \* link->parked: no client wants this session
    rings_up,       \* link->rings_up
    running,        \* the NHI TX ring is started
    data_window,    \* link->data_window
    loc,            \* where each frame is (list, ring, or the thread holding it)
    charged,        \* f->charged_ctrl / f->charged_data
    txq_ctrl,       \* software backlog, control
    txq_data,       \* software backlog, data
    ring,           \* the hardware ring, in submission order
    ctrl_inflight,
    data_inflight,
    ring_posted,
    tx_blocked,
    hw_active,      \* publishers between the state check and ring_tx()
    refcnt,
    relwork,        \* tx_released_work is queued
    wakers,         \* client threads that decided to queue it and have not yet
    cb,             \* the ring worker inside tbframe_core_tx_complete()
    keepalive,      \* the frame the session thread is sending, or NoFrame
    pc,             \* the session thread's place
    final,          \* what its teardown is for: see Finals
    waiting         \* a producer was refused and has had no upcall since

link == <<state, removing, parked, rings_up, running, data_window>>
pool == <<loc, charged, txq_ctrl, txq_data, ring>>
count == <<ctrl_inflight, data_inflight, ring_posted, hw_active, refcnt>>
wake == <<tx_blocked, relwork, wakers, waiting>>
thread == <<cb, keepalive, pc, final>>
vars == <<link, pool, count, wake, thread>>

Locs == {"free", "owned", "posting", "ctrlq", "dataq", "ring", "refill",
         "flush", "cbflush"}
Classes == {"ctrl", "data"}
Pcs == {"idle", "step", "probed", "kxmit", "kpost", "kfree",
        "drain", "flush", "stop", "stopping", "notify",
        "cancel", "put", "wait", "freed", "leaked", "retained"}
\* A session bounce; tbframe_link_destroy(); a destroy whose path disconnect
\* failed, so that the link and its rings must be retained.
Finals == {"bounce", "destroy", "retain"}

IdleCb == [busy |-> FALSE, next |-> NoFrame, release |-> FALSE, pub |-> FALSE,
           nested |-> FALSE]

\* Mutated form of Window: the control reserve is not held back.
Mut_WindowNoReserve(remote) ==
    IF Cardinality(Frames) <= remote THEN Cardinality(Frames) ELSE remote

\* Mode A window: the smaller ring minus the control reserve, at least one.
Window(remote) ==
    LET cap == IF Cardinality(Frames) <= remote THEN Cardinality(Frames)
                                                ELSE remote
    IN  IF cap <= CtrlReserve + 1 THEN 1 ELSE cap - CtrlReserve

\* Type invariant of the link's transmit state: in particular no counter that
\* tbframe_tx_return_locked() or core_tx_complete() guard with WARN_ON goes
\* below zero.
TypeOK ==
    /\ state \in {"INIT", "UP", "DEAD"}
    /\ removing \in BOOLEAN /\ parked \in BOOLEAN
    /\ rings_up \in BOOLEAN /\ running \in BOOLEAN
    /\ data_window \in Nat
    /\ loc \in [Frames -> Locs]
    /\ charged \in [Frames -> Classes \cup {"none"}]
    /\ txq_ctrl \in Seq(Frames) /\ txq_data \in Seq(Frames) /\ ring \in Seq(Frames)
    /\ ctrl_inflight \in Nat /\ data_inflight \in Nat /\ ring_posted \in Nat
    /\ hw_active \in Nat /\ refcnt \in Nat
    /\ tx_blocked \in BOOLEAN /\ relwork \in BOOLEAN /\ waiting \in BOOLEAN
    /\ wakers \in Nat
    /\ cb \in [busy: BOOLEAN, next: Frames \cup {NoFrame}, release: BOOLEAN,
               pub: BOOLEAN, nested: BOOLEAN]
    /\ keepalive \in Frames \cup {NoFrame}
    /\ pc \in Pcs
    /\ final \in Finals

\* tbframe_link_create(): every frame in the pool, one base reference.
Init ==
    /\ state = "INIT" /\ removing = FALSE /\ parked = FALSE
    /\ rings_up = FALSE /\ running = FALSE
    /\ data_window = 0
    /\ loc = [f \in Frames |-> "free"]
    /\ charged = [f \in Frames |-> "none"]
    /\ txq_ctrl = <<>> /\ txq_data = <<>> /\ ring = <<>>
    /\ ctrl_inflight = 0 /\ data_inflight = 0 /\ ring_posted = 0
    /\ hw_active = 0 /\ refcnt = 1
    /\ tx_blocked = FALSE /\ relwork = FALSE /\ wakers = 0 /\ waiting = FALSE
    /\ cb = IdleCb /\ keepalive = NoFrame /\ pc = "idle" /\ final = "bounce"

-----------------------------------------------------------------------------
(* Allocation.                                                             *)

\* The gate of __tbframe_alloc_frame(): the window of the class, then the pool.
HasSpace(class) ==
    /\ IF class = "ctrl" THEN ctrl_inflight < CtrlReserve
                         ELSE data_inflight < data_window
    /\ \E f \in Frames : loc[f] = "free"

\* pre_up admits the data-path prover before UP; clients need UP.
AllocGate(pre_up) ==
    IF pre_up THEN rings_up /\ ~removing /\ ~parked /\ state # "DEAD"
              ELSE state = "UP"

Charge(f, class) ==
    /\ loc' = [loc EXCEPT ![f] = "owned"]
    /\ charged' = [charged EXCEPT ![f] = class]
    /\ ctrl_inflight' = IF class = "ctrl" THEN ctrl_inflight + 1 ELSE ctrl_inflight
    /\ data_inflight' = IF class = "data" THEN data_inflight + 1 ELSE data_inflight
    /\ refcnt' = refcnt + 1

ClientAlloc(f, class) ==
    /\ AllocGate(FALSE)
    /\ HasSpace(class)
    /\ loc[f] = "free"
    /\ Charge(f, class)
    /\ UNCHANGED <<link, txq_ctrl, txq_data, ring, ring_posted, hw_active, wake,
                   thread>>

\* -ENOSPC: the client stops producing and waits for tx_released().
ClientNospc(class) ==
    /\ AllocGate(FALSE)
    /\ ~HasSpace(class)
    /\ tx_blocked' = TRUE
    /\ waiting' = TRUE
    /\ UNCHANGED <<link, pool, count, relwork, wakers, thread>>

-----------------------------------------------------------------------------
(* Transmission.                                                           *)

\* Mutated form of XmitGate: the session state is not re-checked at xmit.
Mut_XmitUngated(pre_up) == TRUE

XmitGate(pre_up) ==
    /\ rings_up
    /\ IF pre_up THEN ~removing /\ ~parked /\ state # "DEAD" ELSE state = "UP"

\* Mutated form of OverBudget: an off-by-one.
Mut_OverBudgetByOne == Budget > 0 /\ ring_posted > Budget

OverBudget == Budget > 0 /\ ring_posted >= Budget

\* Mutated form of XmitAdmit: a queued data frame goes to the head of its list.
Mut_XmitAdmitHead(f, pre_up) ==
    /\ loc[f] = "owned"
    /\ XmitGate(pre_up)
    /\ IF OverBudget
       THEN /\ IF charged[f] = "ctrl"
               THEN /\ loc' = [loc EXCEPT ![f] = "ctrlq"]
                    /\ txq_ctrl' = Append(txq_ctrl, f)
                    /\ UNCHANGED txq_data
               ELSE /\ loc' = [loc EXCEPT ![f] = "dataq"]
                    /\ txq_data' = <<f>> \o txq_data
                    /\ UNCHANGED txq_ctrl
            /\ UNCHANGED <<ring_posted, hw_active>>
       ELSE /\ loc' = [loc EXCEPT ![f] = "posting"]
            /\ ring_posted' = ring_posted + 1
            /\ hw_active' = hw_active + 1
            /\ UNCHANGED <<txq_ctrl, txq_data>>
    /\ UNCHANGED <<link, charged, ring, ctrl_inflight, data_inflight, refcnt, wake>>

\* The locked half of __tbframe_xmit(): queue, or count the frame as posted
\* and leave with hw_active held.  A refusal changes nothing.
XmitAdmit(f, pre_up) ==
    /\ loc[f] = "owned"
    /\ XmitGate(pre_up)
    /\ IF OverBudget
       THEN /\ IF charged[f] = "ctrl"
               THEN /\ loc' = [loc EXCEPT ![f] = "ctrlq"]
                    /\ txq_ctrl' = Append(txq_ctrl, f)
                    /\ UNCHANGED txq_data
               ELSE /\ loc' = [loc EXCEPT ![f] = "dataq"]
                    /\ txq_data' = Append(txq_data, f)
                    /\ UNCHANGED txq_ctrl
            /\ UNCHANGED <<ring_posted, hw_active>>
       ELSE /\ loc' = [loc EXCEPT ![f] = "posting"]
            /\ ring_posted' = ring_posted + 1
            /\ hw_active' = hw_active + 1
            /\ UNCHANGED <<txq_ctrl, txq_data>>
    /\ UNCHANGED <<link, charged, ring, ctrl_inflight, data_inflight, refcnt, wake>>

ClientXmit(f) ==
    /\ f # keepalive
    /\ XmitAdmit(f, FALSE)
    /\ UNCHANGED thread

\* ring_tx(): a stopped ring refuses, and the frame stays with its owner.
RingTx(f) ==
    /\ loc[f] = "posting"
    /\ hw_active' = hw_active - 1
    /\ IF running
       THEN /\ loc' = [loc EXCEPT ![f] = "ring"]
            /\ ring' = Append(ring, f)
            /\ UNCHANGED ring_posted
       ELSE /\ loc' = [loc EXCEPT ![f] = "owned"]
            /\ ring_posted' = ring_posted - 1
            /\ UNCHANGED ring
    /\ UNCHANGED <<link, charged, txq_ctrl, txq_data, ctrl_inflight,
                   data_inflight, refcnt, wake, cb>>

ClientRingTx(f) ==
    /\ f # keepalive
    /\ RingTx(f)
    /\ UNCHANGED <<keepalive, pc, final>>

-----------------------------------------------------------------------------
(* Completion and return to the pool.                                      *)

\* tbframe_tx_return_locked() reopens the window for a blocked producer.
Reopens == tx_blocked /\ state = "UP" /\ ~removing

\* Mutated form of Uncharge: the charge flags of the frame are not consulted.
Mut_UnchargeData(f) ==
    /\ charged' = [charged EXCEPT ![f] = "none"]
    /\ data_inflight' = data_inflight - 1
    /\ tx_blocked' = (tx_blocked /\ ~Reopens)
    /\ UNCHANGED ctrl_inflight

Uncharge(f) ==
    /\ charged' = [charged EXCEPT ![f] = "none"]
    /\ ctrl_inflight' = IF charged[f] = "ctrl" THEN ctrl_inflight - 1
                                               ELSE ctrl_inflight
    /\ data_inflight' = IF charged[f] = "data" THEN data_inflight - 1
                                               ELSE data_inflight
    /\ tx_blocked' = (tx_blocked /\ ~Reopens)

\* Refill picks control before data, and only on an established session.
Refill ==
    IF Budget > 0 /\ state = "UP" /\ rings_up
    THEN IF txq_ctrl # <<>> THEN Head(txq_ctrl)
         ELSE IF txq_data # <<>> THEN Head(txq_data) ELSE NoFrame
    ELSE NoFrame

\* tbframe_core_tx_complete() from the ring worker, up to the unlock.  A frame
\* collected before the ring stopped still completes as not canceled.
TxComplete(canceled) ==
    /\ ring # <<>>
    /\ ~cb.busy
    /\ running => ~canceled
    /\ LET f == Head(ring)
           next == IF canceled THEN NoFrame ELSE Refill
           release == Reopens /\ ~canceled
           spliced == canceled /\ Budget > 0
       IN  /\ loc' = [g \in Frames |->
                        CASE g = f -> "free"
                          [] g # f /\ g = next -> "refill"
                          [] g # f /\ g # next /\ spliced
                               /\ loc[g] \in {"ctrlq", "dataq"} -> "cbflush"
                          [] OTHER -> loc[g]]
           /\ txq_ctrl' = IF spliced THEN <<>>
                          ELSE IF next # NoFrame /\ txq_ctrl # <<>>
                               THEN Tail(txq_ctrl) ELSE txq_ctrl
           /\ txq_data' = IF spliced THEN <<>>
                          ELSE IF next # NoFrame /\ txq_ctrl = <<>>
                               THEN Tail(txq_data) ELSE txq_data
           /\ ring_posted' = IF next = NoFrame THEN ring_posted - 1 ELSE ring_posted
           /\ hw_active' = hw_active + 1
           /\ Uncharge(f)
           /\ cb' = [busy |-> TRUE, next |-> next, release |-> release,
                     pub |-> TRUE, nested |-> FALSE]
    /\ ring' = Tail(ring)
    /\ UNCHANGED <<link, refcnt, relwork, wakers, waiting, keepalive, pc, final>>

\* The refill reaches the ring.
CbRefill ==
    /\ cb.next # NoFrame
    /\ running
    /\ loc' = [loc EXCEPT ![cb.next] = "ring"]
    /\ ring' = Append(ring, cb.next)
    /\ cb' = [cb EXCEPT !.next = NoFrame]
    /\ UNCHANGED <<link, charged, txq_ctrl, txq_data, count, wake, keepalive, pc, final>>

\* The ring refuses it: the nested completion cancels it and takes the whole
\* backlog out of the queues.
CbRefillFails ==
    /\ cb.next # NoFrame
    /\ ~running
    /\ loc' = [g \in Frames |->
                 IF g = cb.next THEN "free"
                 ELSE IF loc[g] \in {"ctrlq", "dataq"} THEN "cbflush" ELSE loc[g]]
    /\ txq_ctrl' = <<>> /\ txq_data' = <<>>
    /\ ring_posted' = ring_posted - 1
    /\ refcnt' = refcnt - 1
    /\ Uncharge(cb.next)
    /\ cb' = [cb EXCEPT !.next = NoFrame, !.nested = TRUE]
    /\ UNCHANGED <<link, ring, hw_active, relwork, wakers, waiting, keepalive, pc, final>>

\* The callback leaves the publisher bracket: after the backlog of a nested
\* cancellation, before the backlog of its own.
CbUnbracket ==
    /\ cb.pub /\ cb.next = NoFrame
    /\ cb.nested => \A f \in Frames : loc[f] # "cbflush"
    /\ hw_active' = hw_active - 1
    /\ cb' = [cb EXCEPT !.pub = FALSE]
    /\ UNCHANGED <<link, pool, ctrl_inflight, data_inflight, ring_posted, refcnt,
                   wake, keepalive, pc, final>>

\* Mutated form of CbTail: the wakeup decided under the lock is not queued.
Mut_CbTailNoWake ==
    /\ cb.busy /\ ~cb.pub
    /\ \A f \in Frames : loc[f] # "cbflush"
    /\ refcnt' = refcnt - 1
    /\ cb' = IdleCb
    /\ UNCHANGED <<link, pool, ctrl_inflight, data_inflight, ring_posted,
                   hw_active, wake, keepalive, pc, final>>

\* The rest of the callback: queue the wakeup, drop the frame's reference.
CbTail ==
    /\ cb.busy /\ ~cb.pub
    /\ \A f \in Frames : loc[f] # "cbflush"
    /\ relwork' = (relwork \/ cb.release)
    /\ refcnt' = refcnt - 1
    /\ cb' = IdleCb
    /\ UNCHANGED <<link, pool, ctrl_inflight, data_inflight, ring_posted,
                   hw_active, tx_blocked, wakers, waiting, keepalive, pc, final>>

\* Mutated form of FlushOne: a software-backlog flush counts as a completion
\* of the hardware ring.
Mut_FlushUnposts(f) ==
    /\ loc[f] \in {"flush", "cbflush"}
    /\ loc' = [loc EXCEPT ![f] = "free"]
    /\ Uncharge(f)
    /\ refcnt' = refcnt - 1
    /\ ring_posted' = ring_posted - 1
    /\ UNCHANGED <<link, txq_ctrl, txq_data, ring, hw_active, relwork, wakers,
                   waiting, thread>>

\* One frame of a backlog that was taken out whole completes as canceled.  A
\* canceled completion never wakes the client.
FlushOne(f) ==
    /\ loc[f] \in {"flush", "cbflush"}
    /\ loc' = [loc EXCEPT ![f] = "free"]
    /\ Uncharge(f)
    /\ refcnt' = refcnt - 1
    /\ UNCHANGED <<link, txq_ctrl, txq_data, ring, ring_posted, hw_active,
                   relwork, wakers, waiting, thread>>

\* Mutated form of FrameFree: only completions reopen the window.
Mut_FrameFreeSilent(f) ==
    /\ loc[f] = "owned"
    /\ loc' = [loc EXCEPT ![f] = "free"]
    /\ Uncharge(f)
    /\ refcnt' = refcnt - 1
    /\ UNCHANGED <<link, txq_ctrl, txq_data, ring, ring_posted, hw_active,
                   wakers, relwork, waiting, cb>>

\* tbframe_frame_free() up to the unlock.
FrameFree(f) ==
    /\ loc[f] = "owned"
    /\ Reopens => wakers < MaxWakers
    /\ loc' = [loc EXCEPT ![f] = "free"]
    /\ Uncharge(f)
    /\ IF Reopens THEN wakers' = wakers + 1 /\ UNCHANGED refcnt
                  ELSE refcnt' = refcnt - 1 /\ UNCHANGED wakers
    /\ UNCHANGED <<link, txq_ctrl, txq_data, ring, ring_posted, hw_active,
                   relwork, waiting, cb>>

ClientFree(f) ==
    /\ f # keepalive
    /\ FrameFree(f)
    /\ UNCHANGED <<keepalive, pc, final>>

\* The rest of tbframe_frame_free(): queue_work(), then tbframe_link_put().
FreeTail ==
    /\ wakers > 0
    /\ wakers' = wakers - 1
    /\ relwork' = TRUE
    /\ refcnt' = refcnt - 1
    /\ UNCHANGED <<link, pool, ctrl_inflight, data_inflight, ring_posted,
                   hw_active, tx_blocked, waiting, thread>>

\* tbframe_tx_released_workfn(): the client reschedules its send machinery.
TxReleased ==
    /\ relwork
    /\ pc # "freed"
    /\ relwork' = FALSE
    /\ waiting' = FALSE
    /\ UNCHANGED <<link, pool, count, tx_blocked, wakers, thread>>

-----------------------------------------------------------------------------
(* The session thread: one session step, its keepalive probe, going up.    *)

\* The entry gate of the session step.
StepBegin ==
    /\ pc = "idle"
    /\ ~removing /\ ~parked /\ state # "DEAD"
    /\ pc' = "step"
    /\ UNCHANGED <<link, pool, count, wake, cb, keepalive, final>>

StepEnd ==
    /\ pc \in {"step", "probed"}
    /\ pc' = "idle"
    /\ UNCHANGED <<link, pool, count, wake, cb, keepalive, final>>

\* tbframe_link_bring_up(), its transmit half.  tb_ring_start() has no result
\* and leaves the ring stopped when it cannot synchronise the index.
BringUp(remote, started) ==
    /\ pc = "step"
    /\ ~rings_up
    /\ rings_up' = TRUE
    /\ running' = started
    /\ data_window' = Window(remote)
    /\ UNCHANGED <<state, removing, parked, pool, count, wake, thread>>

\* The prober's keepalive on a session that is not UP yet.  The keepalive of
\* the verify step takes the client's path (alloc, xmit, free on failure).
ProbeAlloc(f) ==
    /\ pc = "step"
    /\ state # "UP"
    /\ AllocGate(TRUE)
    /\ HasSpace("ctrl")
    /\ loc[f] = "free"
    /\ Charge(f, "ctrl")
    /\ keepalive' = f
    /\ pc' = "kxmit"
    /\ UNCHANGED <<link, txq_ctrl, txq_data, ring, ring_posted, hw_active, wake,
                   cb, final>>

\* A keepalive, of either kind, finds no space: nobody waits for the wakeup.
KeepaliveNospc ==
    /\ AllocGate(FALSE) \/ (pc = "step" /\ AllocGate(TRUE))
    /\ ~HasSpace("ctrl")
    /\ tx_blocked' = TRUE
    /\ UNCHANGED <<link, pool, count, relwork, wakers, waiting, thread>>

ProbeXmit ==
    /\ pc = "kxmit"
    /\ XmitAdmit(keepalive, TRUE)
    /\ IF OverBudget THEN keepalive' = NoFrame /\ pc' = "probed"
                     ELSE pc' = "kpost" /\ UNCHANGED keepalive
    /\ UNCHANGED <<cb, final>>

ProbeRefused ==
    /\ pc = "kxmit"
    /\ ~XmitGate(TRUE)
    /\ pc' = "kfree"
    /\ UNCHANGED <<link, pool, count, wake, cb, keepalive, final>>

ProbeRingTx ==
    /\ pc = "kpost"
    /\ RingTx(keepalive)
    /\ IF running THEN keepalive' = NoFrame /\ pc' = "probed"
                  ELSE pc' = "kfree" /\ UNCHANGED keepalive
    /\ UNCHANGED final

ProbeFree ==
    /\ pc = "kfree"
    /\ FrameFree(keepalive)
    /\ keepalive' = NoFrame
    /\ pc' = "probed"
    /\ UNCHANGED final

\* tbframe_link_maybe_up().  The data proof needs an acknowledged keepalive,
\* so a ring that never started does not get here.
MaybeUp ==
    /\ pc \in {"step", "probed"}
    /\ state = "INIT" /\ rings_up /\ ~removing
    /\ running
    /\ state' = "UP"
    /\ tx_blocked' = FALSE
    /\ waiting' = FALSE
    /\ pc' = "idle"
    /\ UNCHANGED <<removing, parked, rings_up, running, data_window, pool, count,
                   relwork, wakers, cb, keepalive, final>>

-----------------------------------------------------------------------------
(* Teardown and destruction.                                               *)

\* tbframe_link_destroy(), or tbframe_prepare_stop() before it, closes the
\* re-arm gates.
DestroyBegin ==
    /\ ~removing
    /\ removing' = TRUE
    /\ UNCHANGED <<state, parked, rings_up, running, data_window, pool, count,
                   wake, thread>>

\* A departing client, a shutdown or a module stop parks the session ...
Park ==
    /\ ~parked
    /\ parked' = TRUE
    /\ UNCHANGED <<state, removing, rings_up, running, data_window, pool, count,
                   wake, thread>>

\* ... cancels its pending work (tbframe_link_cancel_activity) ...
ParkCancel ==
    /\ parked /\ relwork
    /\ pc # "freed"
    /\ relwork' = FALSE
    /\ UNCHANGED <<link, pool, count, tx_blocked, wakers, waiting, thread>>

\* ... and, once it has torn the session down, a new client may register.
Unpark ==
    /\ parked /\ ~rings_up
    /\ parked' = FALSE
    /\ UNCHANGED <<state, removing, rings_up, running, data_window, pool, count,
                   wake, thread>>

\* tbframe_link_down_session(), first critical section, under session_lock:
\* called by a session step, by a departing client or a shutdown, or by
\* tbframe_link_destroy().
DownBegin(for) ==
    /\ \/ for = "bounce" /\ (pc = "step" \/ (pc = "idle" /\ parked))
       \/ for = "destroy" /\ pc = "idle" /\ removing
    /\ state' = IF state = "DEAD" THEN "DEAD" ELSE "INIT"
    /\ rings_up' = FALSE
    /\ tx_blocked' = FALSE
    /\ pc' = "drain"
    /\ final' = for
    /\ UNCHANGED <<removing, parked, running, data_window, pool, count, relwork,
                   wakers, waiting, cb, keepalive>>

\* Mutated form of DownDrain: the backlog stays in its queues.
Mut_DownDrainKeepsBacklog(expired) ==
    /\ pc = "drain"
    /\ hw_active = 0 \/ expired
    /\ state' = IF expired THEN "DEAD" ELSE state
    /\ pc' = "flush"
    /\ UNCHANGED <<removing, parked, rings_up, running, data_window, pool, count,
                   wake, cb, keepalive, final>>

\* Publishers drained, or the bounded wait expired and the link is poisoned;
\* then the backlog is taken out of both queues.  The wait may expire with
\* hw_active = 0 here: a thread that has raised it and not yet taken the lock
\* is not represented.
DownDrain(expired) ==
    /\ pc = "drain"
    /\ hw_active = 0 \/ expired
    /\ state' = IF expired THEN "DEAD" ELSE state
    /\ loc' = [f \in Frames |->
                 IF loc[f] \in {"ctrlq", "dataq"} THEN "flush" ELSE loc[f]]
    /\ txq_ctrl' = <<>> /\ txq_data' = <<>>
    /\ pc' = "flush"
    /\ UNCHANGED <<removing, parked, rings_up, running, data_window, charged, ring,
                   count, wake, cb, keepalive, final>>

\* The backlog is back in the pool; the ring flush that follows is bounded and
\* best effort.
DownFlushed ==
    /\ pc = "flush"
    /\ \A f \in Frames : loc[f] # "flush"
    /\ pc' = "stop"
    /\ UNCHANGED <<link, pool, count, wake, cb, keepalive, final>>

\* tb_ring_stop(): refuse new frames, then wait for the ring worker to cancel
\* the ones it holds.
DownStop ==
    /\ pc = "stop"
    /\ running' = FALSE
    /\ pc' = "stopping"
    /\ UNCHANGED <<state, removing, parked, rings_up, data_window, pool, count,
                   wake, cb, keepalive, final>>

\* The rings are fenced.  A path that would not disconnect poisons the link,
\* and its rings are retained unless the core takes them over in quarantine.
DownStopped(disconnected, quarantined) ==
    /\ pc = "stopping"
    /\ ring = <<>> /\ ~cb.busy
    /\ state' = IF disconnected THEN state ELSE "DEAD"
    /\ final' = IF final = "destroy" /\ ~disconnected /\ ~quarantined
                THEN "retain" ELSE final
    /\ pc' = "notify"
    /\ UNCHANGED <<removing, parked, rings_up, running, data_window, pool, count,
                   wake, cb, keepalive>>

\* link_down() ends the client's wait; destruction goes on from here.
DownNotify ==
    /\ pc = "notify"
    /\ waiting' = FALSE
    /\ pc' = IF final = "bounce" THEN "idle" ELSE "cancel"
    /\ UNCHANGED <<link, pool, count, tx_blocked, relwork, wakers, cb, keepalive, final>>

\* cancel_work_sync(&link->tx_released_work); a link whose route is still
\* owned is left in place, listed and unfreed.
DestroyCancel ==
    /\ pc = "cancel"
    /\ relwork' = FALSE
    /\ pc' = IF final = "retain" THEN "retained" ELSE "put"
    /\ UNCHANGED <<link, pool, count, tx_blocked, wakers, waiting, cb, keepalive, final>>

DestroyPut ==
    /\ pc = "put"
    /\ refcnt' = refcnt - 1
    /\ pc' = "wait"
    /\ UNCHANGED <<link, pool, ctrl_inflight, data_inflight, ring_posted,
                   hw_active, wake, cb, keepalive, final>>

\* Mutated form of DestroyFree: the expired wait frees instead of leaking.
Mut_DestroyFreeForced ==
    /\ pc = "wait"
    /\ pc' = "freed"
    /\ UNCHANGED <<link, pool, count, wake, cb, keepalive, final>>

\* tbframe_link_wait_refs_zero() completed: the pools and the link are freed.
DestroyFree ==
    /\ pc = "wait"
    /\ refcnt = 0
    /\ pc' = "freed"
    /\ UNCHANGED <<link, pool, count, wake, cb, keepalive, final>>

\* Mutated form of DestroyLeak: teardown_force_ms = 0 waits for ever.
Mut_DestroyWaits == pc = "leaked" /\ UNCHANGED vars

\* It expired: the link is poisoned and deliberately leaked.
DestroyLeak ==
    /\ pc = "wait"
    /\ refcnt > 0
    /\ state' = "DEAD"
    /\ pc' = "leaked"
    /\ UNCHANGED <<removing, parked, rings_up, running, data_window, pool, count,
                   wake, cb, keepalive, final>>

\* A destroyed link has nothing left to do.
Destroyed == pc \in {"freed", "leaked", "retained"} /\ UNCHANGED vars

-----------------------------------------------------------------------------
ClientStep ==
    \E f \in Frames :
        \/ \E class \in Classes : ClientAlloc(f, class)
        \/ ClientXmit(f)
        \/ ClientRingTx(f)
        \/ ClientFree(f)

RingStep ==
    \/ \E canceled \in BOOLEAN : TxComplete(canceled)
    \/ CbRefill
    \/ CbRefillFails
    \/ CbUnbracket
    \/ CbTail

SessionStep ==
    \/ StepBegin
    \/ StepEnd
    \/ \E remote \in RemoteEntries, started \in BOOLEAN : BringUp(remote, started)
    \/ \E f \in Frames : ProbeAlloc(f)
    \/ ProbeXmit
    \/ ProbeRefused
    \/ ProbeRingTx
    \/ ProbeFree
    \/ MaybeUp
    \/ \E for \in {"bounce", "destroy"} : DownBegin(for)

DownStep ==
    \/ \E expired \in BOOLEAN : DownDrain(expired)
    \/ DownFlushed
    \/ DownStop
    \/ \E disconnected, quarantined \in BOOLEAN :
           DownStopped(disconnected, quarantined)
    \/ DownNotify
    \/ DestroyCancel
    \/ DestroyPut
    \/ DestroyFree
    \/ DestroyLeak

Next ==
    \/ ClientStep
    \/ \E class \in Classes : ClientNospc(class)
    \/ FreeTail
    \/ TxReleased
    \/ RingStep
    \/ \E f \in Frames : FlushOne(f)
    \/ SessionStep
    \/ KeepaliveNospc
    \/ DownStep
    \/ Park
    \/ ParkCancel
    \/ Unpark
    \/ DestroyBegin
    \/ Destroyed

Spec == Init /\ [][Next]_vars

\* What runs by itself: the work items, the ring worker of a ring the fabric
\* drains, a teardown once begun, and a destroy once called (session_lock is a
\* mutex, which no stream of other holders can keep from a waiter).  Nothing makes
\* a session come up or go down.
Progress ==
    /\ WF_vars(FreeTail)
    /\ WF_vars(TxReleased)
    /\ WF_vars(RingStep)
    /\ WF_vars(\E f \in Frames : FlushOne(f))
    /\ WF_vars(StepEnd \/ ProbeXmit \/ ProbeRefused \/ ProbeRingTx \/ ProbeFree)
    /\ SF_vars(DownBegin("destroy"))
    /\ WF_vars(DownStep)

ClientProgress ==
    \A f \in Frames : WF_vars(ClientXmit(f) \/ ClientRingTx(f) \/ ClientFree(f))

\* Nothing is asked of the client: it may keep its frames for ever.
FairSpec == Spec /\ Progress

-----------------------------------------------------------------------------
(* Properties.                                                             *)

Posted == {f \in Frames : loc[f] \in {"posting", "ring", "refill"}}
Publishing == {f \in Frames : loc[f] = "posting"}
ChargedTo(class) == {f \in Frames : charged[f] = class}
Out == {f \in Frames : loc[f] # "free"}
One(b) == IF b THEN 1 ELSE 0

\* The counters under link->lock are exact whatever the threads interleave: the
\* admission counters count the charged frames, ring_posted the frames handed to
\* the ring, hw_active the publishers in the bracket, and refcnt one reference
\* per frame outside the pool plus the base and the callers still to put theirs
\* (tbframe_tx_return_locked, core_tx_complete, __tbframe_xmit, frame_free).
Accounting ==
    /\ ctrl_inflight = Cardinality(ChargedTo("ctrl"))
    /\ data_inflight = Cardinality(ChargedTo("data"))
    /\ ring_posted = Cardinality(Posted)
    /\ hw_active = Cardinality(Publishing) + One(cb.pub)
    /\ refcnt = One(pc \notin {"wait", "freed", "leaked"}) + Cardinality(Out)
                + One(cb.busy) + wakers
    /\ \A f \in Frames : (charged[f] = "none") <=> (loc[f] = "free")

\* Data traffic never starves control traffic: while the control reserve has
\* room, the pool has a frame for it (tbframe_link_window, alloc_frame).
ControlNeverStarved ==
    ctrl_inflight < CtrlReserve => \E f \in Frames : loc[f] = "free"

\* Ring residency stays within the budget, and on an established session a
\* software backlog only exists behind a full budget, so that some completion
\* is still to come and will feed it (the one-in-one-out refill of
\* core_tx_complete).
BacklogBehindBudget ==
    /\ Budget > 0 => ring_posted <= Budget
    /\ state = "UP" /\ (txq_ctrl # <<>> \/ txq_data # <<>>)
         => Budget > 0 /\ ring_posted = Budget

\* A producer refused with -ENOSPC is never forgotten while the session is up:
\* a wakeup is on its way, or the link is still marked blocked and a frame is
\* outside the pool whose return will reopen the window (tx_blocked,
\* tx_released_work).
NoLostWakeup ==
    state = "UP" /\ waiting /\ ~removing /\ ~parked
      => \/ relwork \/ wakers > 0 \/ cb.release
         \/ tx_blocked /\ Out # {}

\* At link_down() "all frames in flight are gone": none is on the ring, in a
\* queue or with a publisher, unless the publisher drain expired and the link is
\* dead (tbframe_link_down_session before tbframe_link_notify_down).
DownLeavesNothingInFlight ==
    pc = "notify" =>
      /\ ring = <<>> /\ txq_ctrl = <<>> /\ txq_data = <<>> /\ ~cb.busy
      /\ \A f \in Frames : loc[f] \in {"free", "owned"}
                             \/ (state = "DEAD" /\ loc[f] = "posting")

\* The ring is only stopped under a publisher when the drain expired, so a frame
\* accepted by the admission check reaches a running ring on any healthy link
\* (the hw_active bracket of __tbframe_xmit and core_tx_complete).
RingOutlivesPublishers ==
    pc \in {"flush", "stop", "stopping", "notify"} /\ state # "DEAD"
      => \A f \in Frames : loc[f] \notin {"posting", "refill"}

\* A freed link has its whole pool back and nobody inside its code
\* (tbframe_link_put, tbframe_link_wait_refs_zero).
FreedPoolIsWhole ==
    pc = "freed" => Out = {} /\ hw_active = 0 /\ ~cb.busy /\ wakers = 0

\* The tx_released work item lives in the link, so it must not be pending once
\* the link is freed (tbframe_link_destroy cancels it before dropping the base
\* reference).
FreedHasNoWork == pc = "freed" => ~relwork

\* Every refused producer is woken, or the session leaves UP, or the link is
\* being removed or its client is leaving, as long as the client finishes with
\* each frame it owns (core_tx_complete, tbframe_frame_free, tx_released_workfn).
WakeupArrives == ClientProgress =>
    ((state = "UP" /\ waiting) ~> (state # "UP" \/ ~waiting \/ removing \/ parked))

\* "Nothing here may block indefinitely": a link being destroyed ends freed,
\* deliberately leaked or retained, even under a client that never gives a frame back
\* (tbframe_link_destroy, tbframe_link_wait_refs_zero).
DestroyReturns == removing ~> pc \in {"freed", "leaked", "retained"}
=============================================================================
