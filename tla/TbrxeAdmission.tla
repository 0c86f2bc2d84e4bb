--------------------------- MODULE TbrxeAdmission ---------------------------
(***************************************************************************)
(* Admission of requests to one tbframe link (tbrxe_frame.c), with the     *)
(* requester and completer of the queue pairs that share it (rxe_req.c,    *)
(* rxe_comp.c), session bounces, retries and the destruction of a pair.    *)
(*                                                                         *)
(* A step is one section of tbrxe.lock, or one pass of a task function     *)
(* between two of them.  A request is one packet, so that a PSN stands for *)
(* a work request; PSNs do not wrap.  The peer acknowledges cumulatively.  *)
(***************************************************************************)
EXTENDS Integers, Sequences, SequencesExt, FiniteSetsExt

CONSTANTS
    Qps,            \* reliable-connection queue pairs of the device
    Windows,        \* data_window of a session (struct tbframe_link_info)
    ReplayReserve,  \* TBRXE_REPLAY_RESERVE
    ReserveFrom,    \* windows below this have no reserve
    ReserveShare,   \* one part in ReserveShare of the window is held back
    MaxUnacked,     \* RXE_MAX_UNACKED_PSNS
    MaxPosts,       \* bound: requests posted to the device
    MaxFaults       \* bound: session bounces, losses, early timeouts, refused and
                    \* failed packets and destroyed pairs, altogether

-----------------------------------------------------------------------------
(* tbrxe_link_engine_window(), ..._replay_reserve(), ..._fresh_window(),   *)
(* ..._wire_window() and TBRXE_QP_CREDIT_CAP.                              *)

EngineWindow(w) == IF w = 0 THEN 1 ELSE w

Reserve(w) ==
    IF EngineWindow(w) < ReserveFrom THEN 0
    ELSE Min({ReplayReserve, EngineWindow(w) \div ReserveShare})

FreshWindow(w) == EngineWindow(w) - Reserve(w)

CreditCap == MaxUnacked + ReplayReserve

\* With a fresh window of one packet, a pair that fails after its admission would
\* leave nobody to wake the pair it kept out.
ASSUME AdmissionAssumption ==
    /\ MaxUnacked \in Nat /\ ReplayReserve \in Nat /\ ReserveFrom \in Nat
    /\ ReserveShare \in Nat \ {0}
    /\ \A w \in Windows : w \in Nat /\ FreshWindow(w) >= 2

VARIABLES
    link,       \* struct tbrxe_link: session_up, unacked, fresh_unacked,
                \* admission_waiters, the window of the session
    qp,         \* struct rxe_qp: PSN of req and comp, high water, credits, flags;
                \* current: its generation is that of the link;
                \* bounced (history): parked when the session last changed
    task,       \* the send task: queued or not, and where it is
    sweep,      \* a tbrxe_kick_parked_qps() is due
    blocked,    \* tbframe owes a tx_released()
    wire,       \* data frames on their way to the peer, per queue pair
    peer,       \* the next PSN the peer expects, per queue pair
    faults,
    bounces

vars == <<link, qp, task, sweep, blocked, wire, peer, faults, bounces>>
network == <<wire, peer, faults, bounces>>

NewQp == [state |-> "RTS", valid |-> TRUE, posted |-> 0, req |-> 0, comp |-> 0,
          high |-> 0, credits |-> <<>>, current |-> FALSE, need_req_skb |-> FALSE,
          bounced |-> FALSE,
          need_retry |-> FALSE, timeout |-> FALSE, timer |-> FALSE, resp |-> 0]

Init ==
    /\ \E w \in Windows : link = [session_up |-> TRUE, unacked |-> 0, fresh |-> 0,
                                 waiters |-> FALSE, window |-> w]
    /\ qp = [q \in Qps |-> NewQp]
    /\ task = [q \in Qps |-> [queued |-> FALSE, pc |-> "idle", charged |-> FALSE,
                              sent |-> FALSE]]
    /\ sweep = FALSE
    /\ blocked = FALSE
    /\ wire = [q \in Qps |-> {}]
    /\ peer = [q \in Qps |-> 0]
    /\ faults = 0
    /\ bounces = 0

-----------------------------------------------------------------------------
(* The ledger of a queue pair.                                             *)

\* Mutated form of Current: the records of the last session are kept.
Mut_CurrentKeeps(p) == [p EXCEPT !.current = TRUE]

\* tbrxe_credit_generation_locked(): records of an earlier session are void.
Current(p) ==
    IF p.current THEN p ELSE [p EXCEPT !.credits = <<>>, !.current = TRUE]

\* One decrement that stops at zero per element of s.
Less(count, s) == IF count > Len(s) THEN count - Len(s) ELSE 0

Fresh(credits) == SelectSeq(credits, LAMBDA c : ~c.replay)

\* Mutated form of Sync: a pair that is being destroyed keeps its charge.
Mut_SyncIgnoresValid(q, p) ==
    LET now == Current(p)
        gone(c) == p.state = "ERR" \/ c.psn < p.comp
        released == SelectSeq(now.credits, gone)
    IN  /\ qp' = [qp EXCEPT ![q] =
                    [now EXCEPT !.credits = SelectSeq(@, LAMBDA c : ~gone(c)),
                                !.high = IF p.valid THEN @ ELSE 0]]
        /\ link' = [link EXCEPT !.unacked = Less(@, released),
                                !.fresh = Less(@, Fresh(released)),
                                !.waiters = @ /\ released = <<>>]
        /\ sweep' = (sweep \/ (released # <<>> /\ link.waiters))

\* tbrxe_unacked_sync() for a pair whose other fields are already p's.
Sync(q, p) ==
    LET now == Current(p)
        gone(c) == ~p.valid \/ p.state = "ERR" \/ c.psn < p.comp
        released == SelectSeq(now.credits, gone)
    IN  /\ qp' = [qp EXCEPT ![q] =
                    [now EXCEPT !.credits = SelectSeq(@, LAMBDA c : ~gone(c)),
                                !.high = IF p.valid THEN @ ELSE 0]]
        /\ link' = [link EXCEPT !.unacked = Less(@, released),
                                !.fresh = Less(@, Fresh(released)),
                                !.waiters = @ /\ released = <<>>]
        /\ sweep' = (sweep \/ (released # <<>> /\ link.waiters))

Queue(q) == task' = [task EXCEPT ![q].queued = TRUE]
Goto(q, pc) == task' = [task EXCEPT ![q].pc = pc]

-----------------------------------------------------------------------------
(* The requester.                                                          *)

\* rxe_requester() up to tbrxe_admit(), on the first or a later call of the task
\* function.  req_retry() puts the cursor back to the oldest unacknowledged PSN.
\* There may be nothing to send, or too much unacknowledged.
Requester(q) ==
    /\ \/ task[q].pc = "idle" /\ task[q].queued
       \/ task[q].pc = "req"
    /\ LET live == qp[q].valid /\ qp[q].state = "RTS"
           p == IF live /\ qp[q].need_retry
                THEN [qp[q] EXCEPT !.req = qp[q].comp, !.need_retry = FALSE]
                ELSE qp[q]
           send == live /\ p.req < p.posted /\ p.req <= p.comp + MaxUnacked
       IN  /\ IF live /\ qp[q].need_retry THEN Sync(q, p) ELSE UNCHANGED <<qp, link, sweep>>
           /\ task' = [task EXCEPT ![q] =
                         [queued |-> task[q].queued /\ task[q].pc = "req",
                          pc |-> IF send THEN "admit" ELSE "comp",
                          charged |-> FALSE, sent |-> FALSE]]
    /\ UNCHANGED <<blocked, network>>

Replay(p) == p.req < p.high

Duplicate(p) == Replay(p) /\ \E c \in Range(p.credits) : c.psn = p.req

\* Mutated form of Full: an off-by-one in the fresh window.
Mut_FullByOne(p) ==
    \/ link.unacked >= EngineWindow(link.window)
    \/ ~Replay(p) /\ link.fresh > FreshWindow(link.window)
    \/ Len(p.credits) >= CreditCap

Full(p) ==
    \/ link.unacked >= EngineWindow(link.window)
    \/ ~Replay(p) /\ link.fresh >= FreshWindow(link.window)
    \/ Len(p.credits) >= CreditCap

\* Mutated form of Admit: a refusal does not leave admission_waiters set.
Mut_AdmitSilent(q) ==
    /\ task[q].pc = "admit"
    /\ LET p == Current(qp[q]) IN
       \/ /\ ~Duplicate(p) /\ Full(p)
          /\ qp' = [qp EXCEPT ![q] = [p EXCEPT !.need_req_skb = TRUE, !.bounced = FALSE]]
          /\ Goto(q, "comp")
          /\ UNCHANGED link
       \/ /\ ~Duplicate(p) /\ ~Full(p)
          /\ qp' = [qp EXCEPT ![q] =
                      [p EXCEPT !.credits = Append(@, [psn |-> p.req, replay |-> Replay(p)])]]
          /\ link' = [link EXCEPT !.unacked = @ + 1,
                                  !.fresh = IF Replay(p) THEN @ ELSE @ + 1]
          /\ task' = [task EXCEPT ![q].pc = "alloc", ![q].charged = TRUE]
       \/ /\ Duplicate(p)
          /\ qp' = [qp EXCEPT ![q] = p]
          /\ Goto(q, "alloc")
          /\ UNCHANGED link
    /\ UNCHANGED <<sweep, blocked, network>>

\* tbrxe_admit()
Admit(q) ==
    /\ task[q].pc = "admit"
    /\ LET p == Current(qp[q]) IN
       \/ /\ ~Duplicate(p) /\ Full(p)
          /\ qp' = [qp EXCEPT ![q] = [p EXCEPT !.need_req_skb = TRUE, !.bounced = FALSE]]
          /\ link' = [link EXCEPT !.waiters = TRUE]
          /\ Goto(q, "comp")
       \/ /\ ~Duplicate(p) /\ ~Full(p)
          /\ qp' = [qp EXCEPT ![q] =
                      [p EXCEPT !.credits = Append(@, [psn |-> p.req, replay |-> Replay(p)])]]
          /\ link' = [link EXCEPT !.unacked = @ + 1,
                                  !.fresh = IF Replay(p) THEN @ ELSE @ + 1]
          /\ task' = [task EXCEPT ![q].pc = "alloc", ![q].charged = TRUE]
       \/ /\ Duplicate(p)
          /\ qp' = [qp EXCEPT ![q] = p]
          /\ Goto(q, "alloc")
          /\ UNCHANGED link
    /\ UNCHANGED <<sweep, blocked, network>>

Fault == faults < MaxFaults /\ faults' = faults + 1

\* rxe_qp_error() of the requester, and its way to the exit.
Fail(q) ==
    /\ qp' = [qp EXCEPT ![q].state = "ERR"]
    /\ task' = [task EXCEPT ![q].pc = "unadmit", ![q].queued = TRUE]

\* init_req_packet(): a frame, -ENOSPC, or no session.
Alloc(q) ==
    /\ task[q].pc = "alloc"
    /\ \/ /\ link.session_up
          /\ Goto(q, "xmit")
          /\ UNCHANGED <<qp, blocked, faults>>
       \/ /\ link.session_up
          /\ Fault
          /\ qp' = [qp EXCEPT ![q].need_req_skb = TRUE, ![q].bounced = FALSE]
          /\ blocked' = TRUE
          /\ Goto(q, "unadmit")
       \/ /\ ~link.session_up /\ qp[q].need_req_skb
          /\ Goto(q, "unadmit")
          /\ UNCHANGED <<qp, blocked, faults>>
       \/ /\ ~link.session_up /\ ~qp[q].need_req_skb
          /\ Fail(q)
          /\ UNCHANGED <<blocked, faults>>
    /\ UNCHANGED <<link, sweep, wire, peer, bounces>>

\* finish_packet() fails, as the buffers of the request are not accessible, or
\* tbframe refuses the frame.
BadBuffer(q) ==
    /\ task[q].pc = "xmit"
    /\ Fault
    /\ Fail(q)
    /\ UNCHANGED <<link, sweep, blocked, wire, peer, bounces>>

\* rxe_xmit_packet(), update_wqe_psn(), update_state() and tbrxe_credit_commit():
\* between the last two sections nobody else changes what the commit looks at,
\* and records of a session that ends in between are void in either order.
Xmit(q) ==
    /\ task[q].pc = "xmit"
    /\ IF link.session_up
       THEN /\ wire' = [wire EXCEPT ![q] = @ \cup {qp[q].req}]
            /\ LET p == Current(qp[q]) IN
               qp' = [qp EXCEPT ![q] =
                        [p EXCEPT !.req = @ + 1, !.high = Max({@, p.req + 1}),
                                  !.need_req_skb = FALSE, !.bounced = FALSE,
                                  !.timer = p.valid]]
            /\ task' = [task EXCEPT ![q].pc = "comp", ![q].charged = FALSE,
                                    ![q].sent = TRUE]
       ELSE /\ Fail(q)
            /\ UNCHANGED wire
    /\ UNCHANGED <<link, sweep, blocked, peer, faults, bounces>>

\* Mutated form of Unadmit: a pass that took no record drops an older one.
Mut_UnadmitAlways(q) ==
    /\ task[q].pc = "unadmit"
    /\ LET p == Current(qp[q]) IN
       IF p.credits # <<>>
       THEN /\ qp' = [qp EXCEPT ![q] = [p EXCEPT !.credits = Front(@)]]
            /\ link' = [link EXCEPT !.unacked = Less(@, <<1>>),
                                    !.fresh = Less(@, Fresh(<<Last(p.credits)>>))]
       ELSE /\ qp' = [qp EXCEPT ![q] = p]
            /\ UNCHANGED link
    /\ task' = [task EXCEPT ![q].pc = "comp", ![q].charged = FALSE]
    /\ UNCHANGED <<sweep, blocked, network>>

\* tbrxe_unadmit(), when this pass took a record.
Unadmit(q) ==
    /\ task[q].pc = "unadmit"
    /\ LET p == Current(qp[q]) IN
       IF task[q].charged /\ p.credits # <<>>
       THEN /\ qp' = [qp EXCEPT ![q] = [p EXCEPT !.credits = Front(@)]]
            /\ link' = [link EXCEPT !.unacked = Less(@, <<1>>),
                                    !.fresh = Less(@, Fresh(<<Last(p.credits)>>))]
       ELSE /\ qp' = [qp EXCEPT ![q] = IF task[q].charged THEN p ELSE @]
            /\ UNCHANGED link
    /\ task' = [task EXCEPT ![q].pc = "comp", ![q].charged = FALSE]
    /\ UNCHANGED <<sweep, blocked, network>>

-----------------------------------------------------------------------------
(* The completer.                                                          *)

\* The oldest request is one the requester has yet to send (again).
Posted(p) == p.req = p.comp

\* The task function is called again, or ends.
Loop(q, again) ==
    task' = [task EXCEPT ![q] =
               [@ EXCEPT !.pc = IF again \/ task[q].sent THEN "req" ELSE "idle",
                         !.sent = FALSE]]

\* Acknowledgements and requests are gone; what nothing looks at any more is reset.
Flushed(q) == [NewQp EXCEPT !.valid = qp[q].valid, !.state = qp[q].state, !.posted = 1,
                            !.credits = qp[q].credits, !.current = qp[q].current]

\* A pair in error or about to go: everything is flushed.
CompFlush(q) ==
    /\ task[q].pc = "comp"
    /\ ~qp[q].valid \/ qp[q].state # "RTS"
    /\ Sync(q, Flushed(q))
    /\ Loop(q, FALSE)
    /\ UNCHANGED <<blocked, network>>

\* Mutated form of CompAck: an acknowledgement counts for requests that the
\* rewound requester has yet to send again.
Mut_CompAckAhead(q) ==
    /\ task[q].pc = "comp"
    /\ qp[q].valid /\ qp[q].state = "RTS" /\ ~qp[q].need_retry
    /\ qp[q].resp # 0
    /\ Sync(q, [qp[q] EXCEPT !.resp = 0, !.timeout = FALSE, !.comp = Max({@, qp[q].resp})])
    /\ Loop(q, TRUE)
    /\ UNCHANGED <<blocked, network>>

\* One acknowledgement; one that meets a rewound cursor is thrown away.
CompAck(q) ==
    /\ task[q].pc = "comp"
    /\ qp[q].valid /\ qp[q].state = "RTS" /\ ~qp[q].need_retry
    /\ qp[q].resp # 0
    /\ LET ack == qp[q].resp
       IN  Sync(q, [qp[q] EXCEPT !.resp = 0, !.timeout = FALSE,
                                 !.comp = IF Posted(qp[q]) THEN @
                                         ELSE Max({@, Min({ack, qp[q].req})})])
    /\ Loop(q, TRUE)
    /\ UNCHANGED <<blocked, network>>

\* No acknowledgement: start a retry after a timeout, or see to the timer.
CompExit(q) ==
    /\ task[q].pc = "comp"
    /\ qp[q].valid /\ qp[q].state = "RTS"
    /\ qp[q].need_retry \/ qp[q].resp = 0
    /\ LET p == qp[q]
           retry == p.timeout /\ ~p.need_retry /\ ~Posted(p)
           skipped == p.need_retry \/ (p.timeout /\ p.comp < p.posted)
       IN  /\ Sync(q, [p EXCEPT !.timeout = FALSE,
                                !.need_retry = @ \/ retry,
                                !.timer = @ \/ (~skipped /\ p.req > p.comp)])
           /\ Loop(q, retry)
    /\ UNCHANGED <<blocked, network>>

\* retransmit_timer().  That it fires while an answer is under way is a fault.
TimerFires(q) ==
    /\ qp[q].timer
    /\ \/ wire[q] = {} /\ qp[q].resp = 0 /\ UNCHANGED faults
       \/ (wire[q] # {} \/ qp[q].resp # 0) /\ Fault
    /\ qp' = [qp EXCEPT ![q].timer = FALSE, ![q].timeout = qp[q].valid \/ @]
    /\ IF qp[q].valid THEN Queue(q) ELSE UNCHANGED task
    /\ UNCHANGED <<link, sweep, blocked, wire, peer, bounces>>

-----------------------------------------------------------------------------
(* Wakeups.                                                                *)

\* tbrxe_kick_parked_qps()
Kick == task' = [q \in Qps |-> [task[q] EXCEPT !.queued = @ \/ qp[q].need_req_skb]]

Sweep ==
    /\ sweep
    /\ sweep' = FALSE
    /\ Kick
    /\ UNCHANGED <<link, qp, blocked, network>>

\* tbframe's admission window reopens: tbrxe_client_tx_released().
TxReleased ==
    /\ blocked
    /\ blocked' = FALSE
    /\ Kick
    /\ UNCHANGED <<link, qp, sweep, network>>

-----------------------------------------------------------------------------
(* Users, the peer and the session.                                        *)

\* rxe_post_send()
Post(q) ==
    /\ qp[q].valid /\ qp[q].state = "RTS"
    /\ qp[q].posted = 0
    /\ \E n \in 1 .. MaxPosts - FoldSet(LAMBDA r, m : m + qp[r].posted, 0, Qps) :
          qp' = [qp EXCEPT ![q].posted = n]
    /\ Queue(q)
    /\ UNCHANGED <<link, sweep, blocked, network>>

\* The peer takes the oldest frame and acknowledges what it has; it drops what
\* comes after a gap.
PeerReceives(q) ==
    /\ wire[q] # {}
    /\ LET psn == Min(wire[q])
           next == IF psn = peer[q] THEN psn + 1 ELSE peer[q]
       IN  /\ peer' = [peer EXCEPT ![q] = next]
           /\ IF psn <= peer[q] /\ qp[q].valid
              THEN /\ qp' = [qp EXCEPT ![q].resp = next]
                   /\ Queue(q)
              ELSE UNCHANGED <<qp, task>>
           /\ wire' = [wire EXCEPT ![q] = @ \ {psn}]
    /\ UNCHANGED <<link, sweep, blocked, faults, bounces>>

\* A frame is lost, or the peer takes it and its acknowledgement is lost.
Lose(q) ==
    /\ Fault
    /\ \E psn \in wire[q] :
          /\ wire' = [wire EXCEPT ![q] = @ \ {psn}]
          /\ \/ UNCHANGED peer
             \/ /\ psn = peer[q]
                /\ peer' = [peer EXCEPT ![q] = @ + 1]
    /\ UNCHANGED <<link, qp, task, sweep, blocked, bounces>>

\* credit_generation++: no ledger is of this generation.
Renumber == [q \in Qps |-> [qp[q] EXCEPT !.current = FALSE, !.bounced = qp[q].need_req_skb]]

\* tbrxe_client_link_down() for a reason that is not terminal.
LinkDown ==
    /\ link.session_up
    /\ Fault
    /\ bounces' = bounces + 1
    /\ link' = [link EXCEPT !.session_up = FALSE, !.unacked = 0, !.fresh = 0,
                         !.waiters = FALSE]
    /\ wire' = [q \in Qps |-> {}]
    /\ qp' = Renumber
    /\ blocked' = FALSE
    /\ UNCHANGED <<task, sweep, peer>>

\* tbrxe_client_link_up() of a published link.
LinkUp ==
    /\ ~link.session_up
    /\ \E w \in Windows : link' = [session_up |-> TRUE, unacked |-> 0, fresh |-> 0,
                                  waiters |-> FALSE, window |-> w]
    /\ qp' = Renumber
    /\ UNCHANGED <<task, sweep, blocked, network>>

\* rxe_qp_prepare_cleanup() up to the timers.
DestroyBegin(q) ==
    /\ qp[q].valid
    /\ Fault
    /\ Sync(q, [qp[q] EXCEPT !.valid = FALSE, !.timer = FALSE])
    /\ UNCHANGED <<task, blocked, wire, peer, bounces>>

\* The task has been cleaned up; the direct call of rxe_sender().
DestroyFlush(q) ==
    /\ ~qp[q].valid
    /\ task[q].pc = "idle"
    /\ Sync(q, Flushed(q))
    /\ task' = [task EXCEPT ![q].pc = "gone", ![q].queued = FALSE]
    /\ UNCHANGED <<blocked, network>>

-----------------------------------------------------------------------------
Step(q) ==
    \/ Requester(q) \/ Admit(q) \/ Alloc(q) \/ Xmit(q)
    \/ Unadmit(q) \/ CompFlush(q) \/ CompAck(q) \/ CompExit(q)

Next ==
    \/ \E q \in Qps :
          \/ Step(q) \/ BadBuffer(q) \/ TimerFires(q) \/ Post(q) \/ PeerReceives(q)
          \/ Lose(q) \/ DestroyBegin(q) \/ DestroyFlush(q)
    \/ Sweep \/ TxReleased \/ LinkDown \/ LinkUp

Spec == Init /\ [][Next]_vars

\* Work queues, timers and the peer go on; a session that was lost comes back.
FairSpec ==
    /\ Spec
    /\ \A q \in Qps : WF_vars(Step(q)) /\ WF_vars(TimerFires(q)) /\ WF_vars(PeerReceives(q))
    /\ WF_vars(Sweep) /\ WF_vars(TxReleased) /\ WF_vars(LinkUp)

-----------------------------------------------------------------------------
(* Properties.                                                             *)

\* The records that count in this session.
Records(p) == IF p.current THEN p.credits ELSE <<>>

Total(f(_)) == FoldSet(LAMBDA q, n : n + f(q), 0, Qps)

\* Types, and the order of the cursors: acknowledgements that meet a rewound
\* requester (check_psn, get_wqe) never move comp.psn past req.psn.
TypeOK ==
    /\ link \in [session_up : BOOLEAN, unacked : Nat, fresh : Nat, waiters : BOOLEAN,
                 window : Windows]
    /\ \A q \in Qps :
          LET p == qp[q] IN
          /\ p.state \in {"RTS", "ERR"}
          /\ 0 <= p.comp /\ p.comp <= p.req /\ p.req <= p.posted /\ p.high <= p.posted
          /\ {p.valid, p.current, p.need_req_skb, p.need_retry, p.timeout, p.timer}
                \subseteq BOOLEAN
          /\ wire[q] \subseteq 0 .. MaxPosts
          /\ task[q].pc \in {"idle", "req", "admit", "alloc", "xmit", "unadmit", "comp",
                             "gone"}
    /\ blocked \in BOOLEAN /\ sweep \in BOOLEAN

\* The counters of the link are the records of its pairs, although the records
\* of a lost session are dropped pair by pair, much later than the counters
\* were reset (tbrxe_credit_generation_locked), and a destroy, an error or a
\* rollback may release in the middle of a request.
ChargesExact ==
    /\ link.unacked = Total(LAMBDA q : Len(Records(qp[q])))
    /\ link.fresh = Total(LAMBDA q : Len(Fresh(Records(qp[q]))))

\* The invariant the comment above tbrxe_link_engine_window() calls normative:
\* fresh requests leave the replay reserve alone, and all together stay within
\* the window the peer advertised.
WithinWindow ==
    /\ link.unacked <= EngineWindow(link.window)
    /\ link.fresh <= FreshWindow(link.window)

\* PSNs of a live pair that are under way to the peer and in nobody's books.
Uncharged(q) ==
    {psn \in wire[q] : psn >= qp[q].comp /\ qp[q].valid /\ qp[q].state = "RTS"}
       \ {c.psn : c \in Range(Records(qp[q]))}

\* What is under way is charged: a rewind, a duplicate or a refused frame never
\* drops the record of a packet in flight.  The exception is one packet per pair
\* that was admitted in a session and sent in the next.
InFlightCharged == \A q \in Qps : Cardinality(Uncharged(q)) <= Min({bounces, 1})

\* A destroyed pair leaves no charge behind, also when its requester was between
\* the check of qp->valid and tbrxe_admit() (rxe_qp_prepare_cleanup).
GoneUncharged == \A q \in Qps : task[q].pc = "gone" => Records(qp[q]) = <<>>

\* A pair that was refused and has not been scheduled again.
Parked(q) ==
    /\ qp[q].valid /\ qp[q].state = "RTS" /\ qp[q].need_req_skb
    /\ qp[q].req < qp[q].posted
    /\ task[q].pc = "idle" /\ ~task[q].queued

\* A sweep or tx_released() is due, its own timer runs, or there is a record whose
\* release finds admission_waiters set.
Woken(q) ==
    \/ sweep \/ blocked \/ qp[q].timer
    \/ link.waiters /\ \E r \in Qps : Records(qp[r]) # <<>>

\* No lost wakeup within a session: whatever is acknowledged, rolled back, failed
\* or destroyed while a pair parks, something is left that schedules it
\* (tbrxe_admit, tbrxe_unacked_sync, tbrxe_kick_parked_qps).
NoLostWakeup ==
    link.session_up => \A q \in Qps : Parked(q) /\ ~qp[q].bounced => Woken(q)

\* rxe_req.c: "tbrxe_admit() parks the QP (need_req_skb, under the admission lock
\* so the release sweep cannot miss it); ACK-driven release reschedules the send
\* task."  So a posted request is acknowledged, unless its pair fails or goes.
SendsComplete ==
    \A q \in Qps : []<>(qp[q].comp = qp[q].posted \/ qp[q].state = "ERR" \/ ~qp[q].valid)
=============================================================================
