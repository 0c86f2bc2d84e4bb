------------------------------ MODULE RxeTask ------------------------------
(***************************************************************************)
(* The work-queue task of an rxe queue pair (rxe/rxe_task.c) and the life  *)
(* of the queue pair around it: packets queued by the receive path, the    *)
(* do_task() loop with its iteration limit, disable and enable around a    *)
(* reset, and the destroy that invalidates the task, flushes the queue by  *)
(* a direct call and waits for the last reference.  The task modelled is   *)
(* the responder's (recv_task, rxe_receiver); send_task uses the same code.*)
(*                                                                         *)
(* Threads: any number of receive contexts, the work item, the verbs       *)
(* caller (modify and destroy, one at a time) and the contexts that move   *)
(* the queue pair to the error state or kick a parked one.  One action is  *)
(* one critical section of task->lock or qp->state_lock, or one call of    *)
(* task->func.                                                             *)
(***************************************************************************)
EXTENDS Integers, FiniteSets

CONSTANTS
    Receivers,      \* contexts running rxe_rcv()
    MaxIterations,  \* RXE_MAX_ITERATIONS
    MaxPackets      \* bound: packets queued at a time

ASSUME ReceiversAssumption == IsFiniteSet(Receivers)
ASSUME IterationsAssumption == MaxIterations \in Nat
ASSUME PacketsAssumption == MaxPackets \in Nat

VARIABLES
    state,      \* task->state
    pending,    \* the work item is queued
    worker,     \* the work item's place in do_task()
    iterations, \* what is left of the limit in this pass
    owed,       \* task->num_sched - task->num_done
    packets,    \* length of qp->req_pkts; each packet holds a reference
    parked,     \* qp->need_resp_skb: the head packet waits for TX room
    late,       \* a packet was queued while a disabled task was already flushed
    qp_state,   \* qp->attr.qp_state, as far as the task tells states apart
    valid,      \* qp->valid
    indexed,    \* the queue pair can be looked up
    refcnt,     \* qp->elem.ref_cnt
    receiver,   \* each receive context: idle, or checked and holding a reference
    verb        \* the verbs caller's place in modify or destroy

task == <<state, pending, worker, iterations, owed>>
queue == <<packets, parked, late>>
qp == <<qp_state, valid, indexed, refcnt>>
vars == <<task, queue, qp, receiver, verb>>

TaskStates == {"IDLE", "BUSY", "ARMED", "DRAINING", "DRAINED", "INVALID"}
Workers == {"none", "enter", "run", "exit", "ranout", "resched", "put"}
Verbs == {"idle", "reset", "rwait", "rset", "rflush", "renable",
          "cleanup", "dwait", "dset", "dflush", "drop", "wait", "freed"}

One(b) == IF b THEN 1 ELSE 0

\* Type invariant: no count of references, packets or runs goes below zero.
TypeOK ==
    /\ state \in TaskStates
    /\ pending \in BOOLEAN
    /\ worker \in Workers
    /\ iterations \in 0 .. MaxIterations
    /\ owed \in Nat
    /\ packets \in Nat
    /\ parked \in BOOLEAN /\ late \in BOOLEAN
    /\ qp_state \in {"RESET", "RTR", "ERR"}
    /\ valid \in BOOLEAN /\ indexed \in BOOLEAN
    /\ refcnt \in Nat
    /\ receiver \in [Receivers -> {"idle", "checked"}]
    /\ verb \in Verbs

\* rxe_init_task() on a created queue pair: one base reference.
Init ==
    /\ state = "IDLE" /\ pending = FALSE /\ worker = "none"
    /\ iterations = MaxIterations /\ owed = 0
    /\ packets = 0 /\ parked = FALSE /\ late = FALSE
    /\ qp_state = "RESET" /\ valid = TRUE /\ indexed = TRUE /\ refcnt = 1
    /\ receiver = [r \in Receivers |-> "idle"]
    /\ verb = "idle"

-----------------------------------------------------------------------------
(* Scheduling.                                                             *)

\* Mutated form of Sched: a schedule during a run is not remembered.
Mut_SchedNoArm(refs) ==
    IF state = "IDLE"
      THEN /\ state' = "BUSY" /\ pending' = TRUE /\ owed' = owed + 1
           /\ refcnt' = refs + 1
      ELSE /\ refcnt' = refs
           /\ UNCHANGED <<state, pending, owed>>

\* Mutated form of Sched: the run does not take a reference.
Mut_SchedNoRef(refs) ==
    /\ refcnt' = refs
    /\ IF state = "IDLE"
         THEN state' = "BUSY" /\ pending' = TRUE /\ owed' = owed + 1
         ELSE /\ state' = IF state = "BUSY" THEN "ARMED" ELSE state
              /\ UNCHANGED <<pending, owed>>

\* rxe_sched_task(), with the reference count the caller leaves behind: an idle
\* task is reserved with a reference of its own and queued, a busy one armed.
Sched(refs) ==
    IF state = "IDLE"
      THEN /\ state' = "BUSY" /\ pending' = TRUE /\ owed' = owed + 1
           /\ refcnt' = refs + 1
      ELSE /\ state' = IF state = "BUSY" THEN "ARMED" ELSE state
           /\ refcnt' = refs
           /\ UNCHANGED <<pending, owed>>

\* hdr_check(): look the queue pair up, which takes a reference, and check it.
Lookup(r) ==
    /\ receiver[r] = "idle"
    /\ indexed /\ valid /\ qp_state # "RESET"
    /\ packets < MaxPackets
    /\ refcnt' = refcnt + 1
    /\ receiver' = [receiver EXCEPT ![r] = "checked"]
    /\ UNCHANGED <<task, queue, qp_state, valid, indexed, verb>>

\* Mutated form of QueuePacket: the packet is queued without checking again
\* that the queue pair is valid.
Mut_QueueUnchecked(r) ==
    /\ receiver[r] = "checked"
    /\ receiver' = [receiver EXCEPT ![r] = "idle"]
    /\ packets' = packets + 1
    /\ late' = (state # "IDLE" /\ (late \/ state = "DRAINED"))
    /\ Sched(refcnt)
    /\ UNCHANGED <<worker, iterations, parked, qp_state, valid, indexed, verb>>

\* rxe_resp_queue_pkt(): under state_lock, queue the packet with the reference
\* and schedule the task, unless the queue pair went invalid meanwhile.
QueuePacket(r) ==
    /\ receiver[r] = "checked"
    /\ receiver' = [receiver EXCEPT ![r] = "idle"]
    /\ \/ /\ valid
          /\ packets' = packets + 1
          /\ late' = (state # "IDLE" /\ (late \/ state = "DRAINED"))
          /\ Sched(refcnt)
       \/ /\ ~valid
          /\ refcnt' = refcnt - 1
          /\ UNCHANGED <<state, pending, owed, packets, late>>
    /\ UNCHANGED <<worker, iterations, parked, qp_state, valid, indexed, verb>>

\* A packet whose checks fail after the lookup drops its reference.
DropPacket(r) ==
    /\ receiver[r] = "checked"
    /\ receiver' = [receiver EXCEPT ![r] = "idle"]
    /\ refcnt' = refcnt - 1
    /\ UNCHANGED <<task, queue, qp_state, valid, indexed, verb>>

\* tbrxe_kick_parked_qps(): the TX window reopened.
Kick ==
    /\ indexed /\ parked
    /\ late' = (late /\ state # "IDLE")
    /\ Sched(refcnt)
    /\ UNCHANGED <<worker, iterations, packets, parked, qp_state, valid,
                   indexed, receiver, verb>>

\* rxe_qp_error(), from any context that found the queue pair.
QpError ==
    /\ indexed /\ qp_state # "ERR"
    /\ qp_state' = "ERR"
    /\ late' = (late /\ state # "IDLE")
    /\ Sched(refcnt)
    /\ UNCHANGED <<worker, iterations, packets, parked, valid, indexed,
                   receiver, verb>>

-----------------------------------------------------------------------------
(* The work item: do_task().                                               *)

\* The work queue starts the item; one instance runs at a time.
WorkStart ==
    /\ pending /\ worker = "none"
    /\ pending' = FALSE /\ worker' = "enter"
    /\ UNCHANGED <<state, iterations, owed, queue, qp, receiver, verb>>

\* A task that is drained or invalid is flushed, any other one runs.
Enter ==
    /\ worker = "enter"
    /\ IF state \in {"DRAINED", "INVALID"}
         THEN /\ worker' = "none" /\ owed' = owed - 1 /\ refcnt' = refcnt - 1
              /\ UNCHANGED iterations
         ELSE /\ worker' = "run" /\ iterations' = MaxIterations
              /\ UNCHANGED <<owed, refcnt>>
    /\ UNCHANGED <<state, pending, queue, qp_state, valid, indexed, receiver, verb>>

Draining == ~valid \/ qp_state \in {"RESET", "ERR"}

\* rxe_receiver() on an invalid, reset or failed queue pair: drop every packet.
Drain ==
    /\ packets' = 0 /\ late' = FALSE
    /\ refcnt' = refcnt - packets

\* Mutated form of FuncStops: dropping every packet does not end the pass.
Mut_DrainReturnsZero ==
    /\ worker = "run"
    /\ \/ Draining /\ Drain /\ worker' = "ranout" /\ UNCHANGED parked
       \/ /\ ~Draining /\ packets = 0
          /\ worker' = "exit" /\ UNCHANGED <<queue, refcnt>>
    /\ UNCHANGED <<state, pending, iterations, owed, qp_state, valid, indexed,
                   receiver, verb>>

\* One call of task->func that ends the pass: nothing left, everything
\* dropped, or a reply that found no room and parks the queue pair.
FuncStops ==
    /\ worker = "run"
    /\ worker' = "exit"
    /\ \/ Draining /\ Drain /\ UNCHANGED parked
       \/ ~Draining /\ packets = 0 /\ UNCHANGED <<queue, refcnt>>
       \/ /\ ~Draining /\ packets > 0
          /\ parked' = TRUE
          /\ UNCHANGED <<packets, late, refcnt>>
    /\ UNCHANGED <<state, pending, iterations, owed, qp_state, valid, indexed,
                   receiver, verb>>

\* Mutated form of FuncServes: the limit is tested after it is used up.
Mut_FuncServesWraps ==
    /\ worker = "run" /\ ~Draining /\ packets > 0
    /\ packets' = packets - 1 /\ parked' = FALSE /\ late' = FALSE
    /\ refcnt' = refcnt - 1
    /\ iterations' = iterations - 1 /\ UNCHANGED worker
    /\ UNCHANGED <<state, pending, owed, qp_state, valid, indexed, receiver, verb>>

\* One call that serves a packet; the limit bounds how often it is repeated.
FuncServes ==
    /\ worker = "run" /\ ~Draining /\ packets > 0
    /\ packets' = packets - 1 /\ parked' = FALSE /\ late' = FALSE
    /\ refcnt' = refcnt - 1
    /\ IF iterations > 0
         THEN iterations' = iterations - 1 /\ UNCHANGED worker
         ELSE worker' = "ranout" /\ UNCHANGED iterations
    /\ UNCHANGED <<state, pending, owed, qp_state, valid, indexed, receiver, verb>>

\* The section after a pass that ended by itself: an armed task makes another
\* pass, a draining one is drained, any other one is idle.
ExitDone ==
    /\ worker = "exit"
    /\ IF state = "ARMED"
         THEN /\ state' = "BUSY" /\ worker' = "run" /\ iterations' = MaxIterations
              /\ UNCHANGED owed
         ELSE /\ state' = IF state = "DRAINING" THEN "DRAINED" ELSE "IDLE"
              /\ worker' = "put" /\ owed' = owed - 1
              /\ UNCHANGED iterations
    /\ UNCHANGED <<pending, queue, qp, receiver, verb>>

\* Mutated form of ExitRanOut: a pass that carries on is counted as done.
Mut_ExitRanOutCounts ==
    /\ worker = "ranout"
    /\ owed' = owed - 1
    /\ IF state = "DRAINING"
         THEN worker' = "run" /\ iterations' = MaxIterations /\ UNCHANGED state
         ELSE state' = "IDLE" /\ worker' = "resched" /\ UNCHANGED iterations
    /\ UNCHANGED <<pending, queue, qp, receiver, verb>>

\* The section after a pass that hit the limit: yield and reschedule, but a
\* draining task carries on.
ExitRanOut ==
    /\ worker = "ranout"
    /\ IF state = "DRAINING"
         THEN /\ worker' = "run" /\ iterations' = MaxIterations
              /\ UNCHANGED <<state, owed>>
         ELSE /\ state' = "IDLE" /\ worker' = "resched" /\ owed' = owed - 1
              /\ UNCHANGED iterations
    /\ UNCHANGED <<pending, queue, qp, receiver, verb>>

Resched ==
    /\ worker = "resched"
    /\ worker' = "put"
    /\ late' = (late /\ state # "IDLE")
    /\ Sched(refcnt)
    /\ UNCHANGED <<iterations, packets, parked, qp_state, valid, indexed,
                   receiver, verb>>

WorkPut ==
    /\ worker = "put"
    /\ worker' = "none" /\ refcnt' = refcnt - 1
    /\ UNCHANGED <<state, pending, iterations, owed, queue, qp_state, valid,
                   indexed, receiver, verb>>

-----------------------------------------------------------------------------
(* Reset and destroy.                                                      *)

\* Mutated form of IsDone: draining counts as done.
Mut_IsDoneDraining == ~pending /\ state \in {"IDLE", "DRAINING", "DRAINED"}

\* __is_done()
IsDone == ~pending /\ state \in {"IDLE", "DRAINED"}

\* The first section of rxe_disable_task() and rxe_cleanup_task().
StopTask(target, stopped, waiting) ==
    /\ IF ~IsDone /\ state \notin {"DRAINED", "INVALID"}
         THEN state' = "DRAINING" /\ verb' = waiting
         ELSE state' = target /\ verb' = stopped
    /\ UNCHANGED <<pending, worker, iterations, owed, queue, qp, receiver>>

\* modify_qp to RTR.
ModifyRtr ==
    /\ verb = "idle" /\ qp_state = "RESET"
    /\ qp_state' = "RTR"
    /\ UNCHANGED <<task, queue, valid, indexed, refcnt, receiver, verb>>

\* modify_qp to RESET: the state first, then rxe_qp_reset().
ModifyReset ==
    /\ verb = "idle" /\ qp_state # "RESET"
    /\ qp_state' = "RESET" /\ verb' = "reset"
    /\ UNCHANGED <<task, queue, valid, indexed, refcnt, receiver>>

ResetDisable == verb = "reset" /\ StopTask("DRAINED", "rflush", "rwait")

\* The wait of rxe_disable_task() and rxe_cleanup_task().
TaskStopped(from, to) ==
    /\ verb = from /\ IsDone
    /\ verb' = to
    /\ UNCHANGED <<task, queue, qp, receiver>>

\* Their second section.
SetStopped(from, to, target) ==
    /\ verb = from
    /\ state' = target /\ verb' = to
    /\ UNCHANGED <<pending, worker, iterations, owed, queue, qp, receiver>>

ResetWait == TaskStopped("rwait", "rset")
ResetDrained == SetStopped("rset", "rflush", "DRAINED")

\* rxe_qp_reset() calls rxe_receiver() itself, then clears the park.  The
\* state is RESET or ERR, so the call drains.
ResetFlush ==
    /\ verb = "rflush"
    /\ Drain
    /\ parked' = FALSE
    /\ verb' = "renable"
    /\ UNCHANGED <<task, qp_state, valid, indexed, receiver>>

\* rxe_enable_task()
ResetEnable ==
    /\ verb = "renable"
    /\ state' = IF state = "INVALID" THEN state ELSE "IDLE"
    /\ verb' = "idle"
    /\ UNCHANGED <<pending, worker, iterations, owed, queue, qp, receiver>>

\* rxe_destroy_qp(): rxe_qp_prepare_cleanup() makes the queue pair invalid ...
DestroyBegin ==
    /\ verb = "idle"
    /\ valid' = FALSE /\ verb' = "cleanup"
    /\ UNCHANGED <<task, queue, qp_state, indexed, refcnt, receiver>>

\* ... stops the task for good ...
DestroyCleanup == verb = "cleanup" /\ StopTask("INVALID", "dflush", "dwait")
DestroyWait == TaskStopped("dwait", "dset")
DestroyInvalid == SetStopped("dset", "dflush", "INVALID")

\* ... and calls rxe_receiver() itself.
DestroyFlush ==
    /\ verb = "dflush"
    /\ Drain
    /\ verb' = "drop"
    /\ UNCHANGED <<task, parked, qp_state, valid, indexed, receiver>>

\* __rxe_cleanup(): no more lookups, drop the base reference ...
DestroyDrop ==
    /\ verb = "drop"
    /\ indexed' = FALSE /\ refcnt' = refcnt - 1
    /\ verb' = "wait"
    /\ UNCHANGED <<task, queue, qp_state, valid, receiver>>

\* ... wait for the last one, and free.
DestroyFree ==
    /\ verb = "wait" /\ refcnt = 0
    /\ verb' = "freed"
    /\ UNCHANGED <<task, queue, qp, receiver>>

Verb == \/ ResetDisable \/ ResetWait \/ ResetDrained \/ ResetFlush \/ ResetEnable
        \/ DestroyCleanup \/ DestroyWait \/ DestroyInvalid \/ DestroyFlush
        \/ DestroyDrop \/ DestroyFree

Work == \/ WorkStart \/ Enter \/ FuncStops \/ FuncServes \/ ExitDone
        \/ ExitRanOut \/ Resched \/ WorkPut

\* The freed queue pair.
Done == verb = "freed" /\ UNCHANGED vars

Next == \/ \E r \in Receivers : Lookup(r) \/ QueuePacket(r) \/ DropPacket(r)
        \/ Kick \/ QpError \/ Work
        \/ ModifyRtr \/ ModifyReset \/ DestroyBegin \/ Verb
        \/ Done

Spec == Init /\ [][Next]_vars

\* The work queue runs what is queued, a verb that began goes on, a receive
\* context finishes with the packet it has.
Fairness ==
    /\ WF_vars(Work) /\ WF_vars(Verb)
    /\ \A r \in Receivers : WF_vars(QueuePacket(r) \/ DropPacket(r))

FairSpec == Spec /\ Fairness

-----------------------------------------------------------------------------
(* Properties.                                                             *)

InFunc == worker \in {"enter", "run", "exit", "ranout"}

\* While rxe_qp_reset() or rxe_qp_prepare_cleanup() calls rxe_receiver()
\* directly, and until the task is enabled again, do_task() is neither running
\* task->func nor about to: the two never work on one queue pair at a time.
DirectCallAlone ==
    verb \in {"rflush", "renable", "dflush", "drop", "wait", "freed"} =>
        ~pending /\ ~InFunc

\* num_sched and num_done agree whenever do_task() compares them, and differ
\* by exactly the one run that is queued or in progress; a run never finds the
\* task drained or invalid when it starts, and never ends in a state the
\* switch of do_task() does not expect.
BooksBalance ==
    /\ owed = One(pending \/ InFunc)
    /\ pending => ~InFunc
    /\ InFunc => state \in {"BUSY", "ARMED", "DRAINING"}

RunRef == One(pending) + One(worker # "none")

\* Every reference is the index's, a receive context's, a queued packet's or a
\* run's, so that a run in progress always holds one.
References ==
    refcnt = One(indexed) + Cardinality({r \in Receivers : receiver[r] = "checked"})
             + packets + RunRef

\* A packet in the queue of an idle, enabled task is waiting for something
\* that will schedule the task: the reschedule of a run that hit its limit,
\* the kick of a parked queue pair; or it was queued between the flush and the
\* enable of a reset.
NoStrandedPacket ==
    state = "IDLE" /\ packets > 0 =>
        worker = "resched" \/ parked \/ late

\* Once destroy has flushed the queue nothing enters it again, so no packet
\* keeps the queue pair alive while destroy waits for its references; and at
\* the end nobody has the queue pair.
DestroyLeavesNothing ==
    /\ verb \in {"drop", "wait", "freed"} => packets = 0
    /\ verb = "freed" => /\ worker = "none" /\ ~pending
                         /\ \A r \in Receivers : receiver[r] = "idle"

\* A verb that has begun a reset or a destroy ends, whatever traffic arrives:
\* a draining task runs dry and the last reference goes.
VerbsEnd == verb # "idle" ~> verb \in {"idle", "freed"}
=============================================================================
