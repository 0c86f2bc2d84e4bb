--------------------------- MODULE RxeTaskProofs ---------------------------
(***************************************************************************)
(* The safety properties of RxeTask for any number of receive contexts and *)
(* any limits.                                                             *)
(*                                                                         *)
(* The inductive invariant is IInv: the types, the phases (which task      *)
(* states each place of the verbs caller allows, and that the task is busy *)
(* exactly while a run is queued or in progress), the two counts, and what *)
(* is known of the queue when a pass has ended.  Phases is what the        *)
(* properties do not say by themselves: that draining ends in drained and  *)
(* nowhere else, so that the second section of rxe_disable_task() finds    *)
(* what its wait saw.                                                      *)
(***************************************************************************)
EXTENDS RxeTask, FiniteSetTheorems, TLAPS

Booleans ==
    pending \in BOOLEAN /\ parked \in BOOLEAN /\ late \in BOOLEAN
    /\ valid \in BOOLEAN /\ indexed \in BOOLEAN

Values ==
    /\ state \in TaskStates /\ worker \in Workers /\ verb \in Verbs
    /\ qp_state \in {"RESET", "RTR", "ERR"}
    /\ iterations \in 0 .. MaxIterations
    /\ packets \in Nat
    /\ receiver \in [Receivers -> {"idle", "checked"}]

Live == {"idle", "reset", "rwait", "rset", "rflush", "renable"}

Phases ==
    /\ verb \in {"idle", "reset", "cleanup"} => state \in {"IDLE", "BUSY", "ARMED"}
    /\ verb \in {"rwait", "dwait"} => state \in {"DRAINING", "DRAINED"}
    /\ verb \in {"rset", "rflush", "renable", "dset"} => state = "DRAINED"
    /\ verb \in {"dflush", "drop", "wait", "freed"} => state = "INVALID"
    /\ (state \in {"BUSY", "ARMED", "DRAINING"}) <=> (pending \/ InFunc)
    /\ pending => ~InFunc
    /\ valid <=> verb \in Live
    /\ indexed <=> verb \notin {"wait", "freed"}
    /\ verb \in {"drop", "wait", "freed"} => packets = 0

Queued ==
    /\ NoStrandedPacket
    /\ worker = "exit" /\ state = "BUSY" /\ packets > 0 => parked \/ late
    /\ verb = "renable" /\ packets > 0 => late

Owed == owed = One(pending \/ InFunc)

Freed == verb = "freed" => refcnt = 0

\* The inductive invariant.
IInv == Booleans /\ Values /\ Phases /\ Owed /\ Queued /\ References /\ Freed

-----------------------------------------------------------------------------
\* The Boolean fields of the task and the queue pair stay Boolean.
LEMMA BooleansStep == IInv /\ Next => Booleans'
<1>. SUFFICES ASSUME IInv, Next PROVE Booleans'
  OBVIOUS
<1>1. ASSUME NEW r \in Receivers, Lookup(r) PROVE Booleans'
  BY <1>1, Zenon DEF Lookup, IInv, Booleans, task, queue, qp
<1>2. ASSUME NEW r \in Receivers, QueuePacket(r) PROVE Booleans'
  BY <1>2, Zenon DEF QueuePacket, Sched, IInv, Booleans, task, queue, qp
<1>3. ASSUME NEW r \in Receivers, DropPacket(r) PROVE Booleans'
  BY <1>3, Zenon DEF DropPacket, IInv, Booleans, task, queue, qp
<1>4. CASE Kick
  BY <1>4, Zenon DEF Kick, Sched, IInv, Booleans, task, queue, qp
<1>5. CASE QpError
  BY <1>5, Zenon DEF QpError, Sched, IInv, Booleans, task, queue, qp
<1>6. CASE WorkStart
  BY <1>6, Zenon DEF WorkStart, IInv, Booleans, task, queue, qp
<1>7. CASE Enter
  BY <1>7, Zenon DEF Enter, IInv, Booleans, task, queue, qp
<1>8. CASE FuncStops
  BY <1>8, Zenon DEF FuncStops, Drain, Draining, IInv, Booleans, task,
      queue, qp
<1>9. CASE FuncServes
  BY <1>9, Zenon DEF FuncServes, Draining, IInv, Booleans, task, queue, qp
<1>10. CASE ExitDone
  BY <1>10, Zenon DEF ExitDone, IInv, Booleans, task, queue, qp
<1>11. CASE ExitRanOut
  BY <1>11, Zenon DEF ExitRanOut, IInv, Booleans, task, queue, qp
<1>12. CASE Resched
  BY <1>12, Zenon DEF Resched, Sched, IInv, Booleans, task, queue, qp
<1>13. CASE WorkPut
  BY <1>13, Zenon DEF WorkPut, IInv, Booleans, task, queue, qp
<1>14. CASE ModifyRtr
  BY <1>14, Zenon DEF ModifyRtr, IInv, Booleans, task, queue, qp
<1>15. CASE ModifyReset
  BY <1>15, Zenon DEF ModifyReset, IInv, Booleans, task, queue, qp
<1>16. CASE DestroyBegin
  BY <1>16, Zenon DEF DestroyBegin, IInv, Booleans, task, queue, qp
<1>17. CASE ResetDisable
  BY <1>17, Zenon DEF ResetDisable, StopTask, IsDone, IInv, Booleans, task,
      queue, qp
<1>18. CASE ResetWait
  BY <1>18, Zenon DEF ResetWait, TaskStopped, IsDone, IInv, Booleans, task,
      queue, qp
<1>19. CASE ResetDrained
  BY <1>19, Zenon DEF ResetDrained, SetStopped, IInv, Booleans, task, queue,
      qp
<1>20. CASE ResetFlush
  BY <1>20, Zenon DEF ResetFlush, Drain, IInv, Booleans, task, queue, qp
<1>21. CASE ResetEnable
  BY <1>21, Zenon DEF ResetEnable, IInv, Booleans, task, queue, qp
<1>22. CASE DestroyCleanup
  BY <1>22, Zenon DEF DestroyCleanup, StopTask, IsDone, IInv, Booleans,
      task, queue, qp
<1>23. CASE DestroyWait
  BY <1>23, Zenon DEF DestroyWait, TaskStopped, IsDone, IInv, Booleans,
      task, queue, qp
<1>24. CASE DestroyInvalid
  BY <1>24, Zenon DEF DestroyInvalid, SetStopped, IInv, Booleans, task,
      queue, qp
<1>25. CASE DestroyFlush
  BY <1>25, Zenon DEF DestroyFlush, Drain, IInv, Booleans, task, queue, qp
<1>26. CASE DestroyDrop
  BY <1>26, Zenon DEF DestroyDrop, IInv, Booleans, task, queue, qp
<1>27. CASE DestroyFree
  BY <1>27, Zenon DEF DestroyFree, IInv, Booleans, task, queue, qp
<1>28. CASE UNCHANGED vars
  BY <1>28, Zenon DEF vars, IInv, Booleans, task, queue, qp
<1>. QED
  BY <1>1, <1>2, <1>3, <1>4, <1>5, <1>6, <1>7, <1>8, <1>9, <1>10, <1>11,
      <1>12, <1>13, <1>14, <1>15, <1>16, <1>17, <1>18, <1>19, <1>20, <1>21,
      <1>22, <1>23, <1>24, <1>25, <1>26, <1>27, <1>28 DEF Next, Work, Verb, Done

\* Every step keeps the other fields in their types.
LEMMA ValuesStep == IInv /\ Next => Values'
<1>. SUFFICES ASSUME IInv, Next PROVE Values'
  OBVIOUS
<1>1. ASSUME NEW r \in Receivers, Lookup(r) PROVE Values'
  BY <1>1, IterationsAssumption DEF Lookup, IInv, Values, TaskStates,
      Workers, Verbs, task, queue, qp
<1>2. ASSUME NEW r \in Receivers, QueuePacket(r) PROVE Values'
  BY <1>2, IterationsAssumption DEF QueuePacket, Sched, IInv, Values,
      TaskStates, Workers, Verbs, task, queue, qp
<1>3. ASSUME NEW r \in Receivers, DropPacket(r) PROVE Values'
  BY <1>3, IterationsAssumption DEF DropPacket, IInv, Values, TaskStates,
      Workers, Verbs, task, queue, qp
<1>4. CASE Kick
  BY <1>4, IterationsAssumption DEF Kick, Sched, IInv, Values, TaskStates,
      Workers, Verbs, task, queue, qp
<1>5. CASE QpError
  BY <1>5, IterationsAssumption DEF QpError, Sched, IInv, Values,
      TaskStates, Workers, Verbs, task, queue, qp
<1>6. CASE WorkStart
  BY <1>6, IterationsAssumption DEF WorkStart, IInv, Values, TaskStates,
      Workers, Verbs, task, queue, qp
<1>7. CASE Enter
  BY <1>7, IterationsAssumption DEF Enter, IInv, Values, TaskStates,
      Workers, Verbs, task, queue, qp
<1>8. CASE FuncStops
  BY <1>8, IterationsAssumption DEF FuncStops, Drain, Draining, IInv,
      Values, TaskStates, Workers, Verbs, task, queue, qp
<1>9. CASE FuncServes
  BY <1>9, IterationsAssumption DEF FuncServes, Draining, IInv, Values,
      TaskStates, Workers, Verbs, task, queue, qp
<1>10. CASE ExitDone
  BY <1>10, IterationsAssumption DEF ExitDone, IInv, Values, TaskStates,
      Workers, Verbs, task, queue, qp
<1>11. CASE ExitRanOut
  BY <1>11, IterationsAssumption DEF ExitRanOut, IInv, Values, TaskStates,
      Workers, Verbs, task, queue, qp
<1>12. CASE Resched
  BY <1>12, IterationsAssumption DEF Resched, Sched, IInv, Values,
      TaskStates, Workers, Verbs, task, queue, qp
<1>13. CASE WorkPut
  BY <1>13, IterationsAssumption DEF WorkPut, IInv, Values, TaskStates,
      Workers, Verbs, task, queue, qp
<1>14. CASE ModifyRtr
  BY <1>14, IterationsAssumption DEF ModifyRtr, IInv, Values, TaskStates,
      Workers, Verbs, task, queue, qp
<1>15. CASE ModifyReset
  BY <1>15, IterationsAssumption DEF ModifyReset, IInv, Values, TaskStates,
      Workers, Verbs, task, queue, qp
<1>16. CASE DestroyBegin
  BY <1>16, IterationsAssumption DEF DestroyBegin, IInv, Values, TaskStates,
      Workers, Verbs, task, queue, qp
<1>17. CASE ResetDisable
  BY <1>17, IterationsAssumption DEF ResetDisable, StopTask, IsDone, IInv,
      Values, TaskStates, Workers, Verbs, task, queue, qp
<1>18. CASE ResetWait
  BY <1>18, IterationsAssumption DEF ResetWait, TaskStopped, IsDone, IInv,
      Values, TaskStates, Workers, Verbs, task, queue, qp
<1>19. CASE ResetDrained
  BY <1>19, IterationsAssumption DEF ResetDrained, SetStopped, IInv, Values,
      TaskStates, Workers, Verbs, task, queue, qp
<1>20. CASE ResetFlush
  BY <1>20, IterationsAssumption DEF ResetFlush, Drain, IInv, Values,
      TaskStates, Workers, Verbs, task, queue, qp
<1>21. CASE ResetEnable
  BY <1>21, IterationsAssumption DEF ResetEnable, IInv, Values, TaskStates,
      Workers, Verbs, task, queue, qp
<1>22. CASE DestroyCleanup
  BY <1>22, IterationsAssumption DEF DestroyCleanup, StopTask, IsDone, IInv,
      Values, TaskStates, Workers, Verbs, task, queue, qp
<1>23. CASE DestroyWait
  BY <1>23, IterationsAssumption DEF DestroyWait, TaskStopped, IsDone, IInv,
      Values, TaskStates, Workers, Verbs, task, queue, qp
<1>24. CASE DestroyInvalid
  BY <1>24, IterationsAssumption DEF DestroyInvalid, SetStopped, IInv,
      Values, TaskStates, Workers, Verbs, task, queue, qp
<1>25. CASE DestroyFlush
  BY <1>25, IterationsAssumption DEF DestroyFlush, Drain, IInv, Values,
      TaskStates, Workers, Verbs, task, queue, qp
<1>26. CASE DestroyDrop
  BY <1>26, IterationsAssumption DEF DestroyDrop, IInv, Values, TaskStates,
      Workers, Verbs, task, queue, qp
<1>27. CASE DestroyFree
  BY <1>27, IterationsAssumption DEF DestroyFree, IInv, Values, TaskStates,
      Workers, Verbs, task, queue, qp
<1>28. CASE UNCHANGED vars
  BY <1>28, IterationsAssumption DEF vars, IInv, Values, TaskStates,
      Workers, Verbs, task, queue, qp
<1>. QED
  BY <1>1, <1>2, <1>3, <1>4, <1>5, <1>6, <1>7, <1>8, <1>9, <1>10, <1>11,
      <1>12, <1>13, <1>14, <1>15, <1>16, <1>17, <1>18, <1>19, <1>20, <1>21,
      <1>22, <1>23, <1>24, <1>25, <1>26, <1>27, <1>28 DEF Next, Work, Verb, Done

\* Every step keeps the task in a state that the verbs caller's place allows,
\* and busy exactly while a run is queued or in progress.
LEMMA PhasesStep == IInv /\ Next => Phases'
<1>. SUFFICES ASSUME IInv, Next PROVE Phases'
  OBVIOUS
<1>. USE DEF IInv, Values, Phases, TaskStates, Workers, Verbs, InFunc, Live,
           task, queue, qp
<1>1. ASSUME NEW r \in Receivers, Lookup(r) PROVE Phases'
  BY <1>1 DEF Lookup, Booleans
<1>2. ASSUME NEW r \in Receivers, QueuePacket(r) PROVE Phases'
  BY <1>2 DEF QueuePacket, Sched, Booleans
<1>3. ASSUME NEW r \in Receivers, DropPacket(r) PROVE Phases'
  BY <1>3 DEF DropPacket, Booleans
<1>4. CASE Kick
  BY <1>4 DEF Kick, Sched, Booleans
<1>5. CASE QpError
  BY <1>5 DEF QpError, Sched, Booleans
<1>6. CASE WorkStart
  BY <1>6 DEF WorkStart, Booleans
<1>7. CASE Enter
  BY <1>7 DEF Enter, Booleans
<1>8. CASE FuncStops
  BY <1>8 DEF FuncStops, Drain, Draining, Booleans
<1>9. CASE FuncServes
  BY <1>9 DEF FuncServes, Draining, Booleans
<1>10. CASE ExitDone
  BY <1>10 DEF ExitDone, Booleans
<1>11. CASE ExitRanOut
  BY <1>11 DEF ExitRanOut, Booleans
<1>12. CASE Resched
  BY <1>12 DEF Resched, Sched, Booleans
<1>13. CASE WorkPut
  BY <1>13 DEF WorkPut, Booleans
<1>14. CASE ModifyRtr
  BY <1>14 DEF ModifyRtr, Booleans
<1>15. CASE ModifyReset
  BY <1>15 DEF ModifyReset, Booleans
<1>16. CASE DestroyBegin
  BY <1>16 DEF DestroyBegin, Booleans
<1>17. CASE ResetDisable
  BY <1>17 DEF ResetDisable, StopTask, IsDone, Booleans
<1>18. CASE ResetWait
  BY <1>18 DEF ResetWait, TaskStopped, IsDone, Booleans
<1>19. CASE ResetDrained
  BY <1>19 DEF ResetDrained, SetStopped, Booleans
<1>20. CASE ResetFlush
  BY <1>20 DEF ResetFlush, Drain, Booleans
<1>21. CASE ResetEnable
  BY <1>21 DEF ResetEnable, Booleans
<1>22. CASE DestroyCleanup
  BY <1>22 DEF DestroyCleanup, StopTask, IsDone, Booleans
<1>23. CASE DestroyWait
  BY <1>23 DEF DestroyWait, TaskStopped, IsDone, Booleans
<1>24. CASE DestroyInvalid
  BY <1>24 DEF DestroyInvalid, SetStopped, Booleans
<1>25. CASE DestroyFlush
  BY <1>25 DEF DestroyFlush, Drain, Booleans
<1>26. CASE DestroyDrop
  BY <1>26 DEF DestroyDrop, Booleans
<1>27. CASE DestroyFree
  BY <1>27 DEF DestroyFree, Booleans
<1>28. CASE UNCHANGED vars
  BY <1>28 DEF vars, Booleans
<1>. QED
  BY <1>1, <1>2, <1>3, <1>4, <1>5, <1>6, <1>7, <1>8, <1>9, <1>10, <1>11,
      <1>12, <1>13, <1>14, <1>15, <1>16, <1>17, <1>18, <1>19, <1>20, <1>21,
      <1>22, <1>23, <1>24, <1>25, <1>26, <1>27, <1>28, Zenon DEF Next, Work, Verb, Done

\* num_sched and num_done move together.
LEMMA OwedStep == IInv /\ Next => Owed'
<1>. SUFFICES ASSUME IInv, Next PROVE Owed'
  OBVIOUS
<1>. USE DEF IInv, Values, Phases, TaskStates, Workers, Verbs, InFunc, Live,
           task, queue, qp, Owed, One
<1>1. ASSUME NEW r \in Receivers, Lookup(r) PROVE Owed'
  BY <1>1 DEF Lookup, Booleans
<1>2. ASSUME NEW r \in Receivers, QueuePacket(r) PROVE Owed'
  BY <1>2 DEF QueuePacket, Sched, Booleans
<1>3. ASSUME NEW r \in Receivers, DropPacket(r) PROVE Owed'
  BY <1>3 DEF DropPacket, Booleans
<1>4. CASE Kick
  BY <1>4 DEF Kick, Sched, Booleans
<1>5. CASE QpError
  BY <1>5 DEF QpError, Sched, Booleans
<1>6. CASE WorkStart
  BY <1>6 DEF WorkStart, Booleans
<1>7. CASE Enter
  BY <1>7 DEF Enter, Booleans
<1>8. CASE FuncStops
  BY <1>8 DEF FuncStops, Drain, Draining, Booleans
<1>9. CASE FuncServes
  BY <1>9 DEF FuncServes, Draining, Booleans
<1>10. CASE ExitDone
  BY <1>10 DEF ExitDone, Booleans
<1>11. CASE ExitRanOut
  BY <1>11 DEF ExitRanOut, Booleans
<1>12. CASE Resched
  BY <1>12 DEF Resched, Sched, Booleans
<1>13. CASE WorkPut
  BY <1>13 DEF WorkPut, Booleans
<1>14. CASE ModifyRtr
  BY <1>14 DEF ModifyRtr, Booleans
<1>15. CASE ModifyReset
  BY <1>15 DEF ModifyReset, Booleans
<1>16. CASE DestroyBegin
  BY <1>16 DEF DestroyBegin, Booleans
<1>17. CASE ResetDisable
  BY <1>17 DEF ResetDisable, StopTask, IsDone, Booleans
<1>18. CASE ResetWait
  BY <1>18 DEF ResetWait, TaskStopped, IsDone, Booleans
<1>19. CASE ResetDrained
  BY <1>19 DEF ResetDrained, SetStopped, Booleans
<1>20. CASE ResetFlush
  BY <1>20 DEF ResetFlush, Drain, Booleans
<1>21. CASE ResetEnable
  BY <1>21 DEF ResetEnable, Booleans
<1>22. CASE DestroyCleanup
  BY <1>22 DEF DestroyCleanup, StopTask, IsDone, Booleans
<1>23. CASE DestroyWait
  BY <1>23 DEF DestroyWait, TaskStopped, IsDone, Booleans
<1>24. CASE DestroyInvalid
  BY <1>24 DEF DestroyInvalid, SetStopped, Booleans
<1>25. CASE DestroyFlush
  BY <1>25 DEF DestroyFlush, Drain, Booleans
<1>26. CASE DestroyDrop
  BY <1>26 DEF DestroyDrop, Booleans
<1>27. CASE DestroyFree
  BY <1>27 DEF DestroyFree, Booleans
<1>28. CASE UNCHANGED vars
  BY <1>28 DEF vars, Booleans
<1>. QED
  BY <1>1, <1>2, <1>3, <1>4, <1>5, <1>6, <1>7, <1>8, <1>9, <1>10, <1>11,
      <1>12, <1>13, <1>14, <1>15, <1>16, <1>17, <1>18, <1>19, <1>20, <1>21,
      <1>22, <1>23, <1>24, <1>25, <1>26, <1>27, <1>28 DEF Next, Work, Verb, Done

\* No step leaves a packet in the queue of an idle task unnoticed.
LEMMA QueuedStep == IInv /\ Next => Queued'
<1>. SUFFICES ASSUME IInv, Next PROVE Queued'
  OBVIOUS
<1>. USE DEF IInv, Values, Phases, TaskStates, Workers, Verbs, InFunc, Live,
           task, queue, qp, Queued, NoStrandedPacket
<1>1. ASSUME NEW r \in Receivers, Lookup(r) PROVE Queued'
  BY <1>1 DEF Lookup, Booleans
<1>2. ASSUME NEW r \in Receivers, QueuePacket(r) PROVE Queued'
  BY <1>2 DEF QueuePacket, Sched, Booleans
<1>3. ASSUME NEW r \in Receivers, DropPacket(r) PROVE Queued'
  BY <1>3 DEF DropPacket, Booleans
<1>4. CASE Kick
  BY <1>4 DEF Kick, Sched, Booleans
<1>5. CASE QpError
  BY <1>5 DEF QpError, Sched, Booleans
<1>6. CASE WorkStart
  BY <1>6 DEF WorkStart, Booleans
<1>7. CASE Enter
  BY <1>7 DEF Enter, Booleans
<1>8. CASE FuncStops
  BY <1>8 DEF FuncStops, Drain, Draining, Booleans
<1>9. CASE FuncServes
  BY <1>9 DEF FuncServes, Draining, Booleans
<1>10. CASE ExitDone
  BY <1>10 DEF ExitDone, Booleans
<1>11. CASE ExitRanOut
  BY <1>11 DEF ExitRanOut, Booleans
<1>12. CASE Resched
  BY <1>12 DEF Resched, Sched, Booleans
<1>13. CASE WorkPut
  BY <1>13 DEF WorkPut, Booleans
<1>14. CASE ModifyRtr
  BY <1>14 DEF ModifyRtr, Booleans
<1>15. CASE ModifyReset
  BY <1>15 DEF ModifyReset, Booleans
<1>16. CASE DestroyBegin
  BY <1>16 DEF DestroyBegin, Booleans
<1>17. CASE ResetDisable
  BY <1>17 DEF ResetDisable, StopTask, IsDone, Booleans
<1>18. CASE ResetWait
  BY <1>18 DEF ResetWait, TaskStopped, IsDone, Booleans
<1>19. CASE ResetDrained
  BY <1>19 DEF ResetDrained, SetStopped, Booleans
<1>20. CASE ResetFlush
  BY <1>20 DEF ResetFlush, Drain, Booleans
<1>21. CASE ResetEnable
  BY <1>21 DEF ResetEnable, Booleans
<1>22. CASE DestroyCleanup
  BY <1>22 DEF DestroyCleanup, StopTask, IsDone, Booleans
<1>23. CASE DestroyWait
  BY <1>23 DEF DestroyWait, TaskStopped, IsDone, Booleans
<1>24. CASE DestroyInvalid
  BY <1>24 DEF DestroyInvalid, SetStopped, Booleans
<1>25. CASE DestroyFlush
  BY <1>25 DEF DestroyFlush, Drain, Booleans
<1>26. CASE DestroyDrop
  BY <1>26 DEF DestroyDrop, Booleans
<1>27. CASE DestroyFree
  BY <1>27 DEF DestroyFree, Booleans
<1>28. CASE UNCHANGED vars
  BY <1>28 DEF vars, Booleans
<1>. QED
  BY <1>1, <1>2, <1>3, <1>4, <1>5, <1>6, <1>7, <1>8, <1>9, <1>10, <1>11,
      <1>12, <1>13, <1>14, <1>15, <1>16, <1>17, <1>18, <1>19, <1>20, <1>21,
      <1>22, <1>23, <1>24, <1>25, <1>26, <1>27, <1>28, Zenon DEF Next, Work, Verb, Done

-----------------------------------------------------------------------------
(* References.                                                             *)

Checked == {r \in Receivers : receiver[r] = "checked"}

\* The receive contexts that hold a reference can be counted.
LEMMA CheckedFinite == IsFiniteSet(Checked) /\ Cardinality(Checked) \in Nat
<1>1. IsFiniteSet(Checked)
  BY FS_Subset, ReceiversAssumption DEF Checked
<1>. QED  BY <1>1, FS_CardinalityType

\* hdr_check() of one context adds it to those that hold a reference.
LEMMA CheckedAdd ==
  ASSUME NEW r \in Receivers, Values, receiver[r] = "idle",
         receiver' = [receiver EXCEPT ![r] = "checked"]
  PROVE  Cardinality(Checked') = Cardinality(Checked) + 1
<1>1. Checked' = Checked \cup {r} /\ r \notin Checked
  BY DEF Checked, Values
<1>2. Cardinality(Checked \cup {r}) = Cardinality(Checked) + 1
  BY <1>1, CheckedFinite, FS_AddElement
<1>. QED  BY <1>1, <1>2, Zenon

\* Queueing or dropping the packet takes the context out again.
LEMMA CheckedRemove ==
  ASSUME NEW r \in Receivers, Values, receiver[r] = "checked",
         receiver' = [receiver EXCEPT ![r] = "idle"]
  PROVE  /\ Cardinality(Checked') = Cardinality(Checked) - 1
         /\ Cardinality(Checked) - 1 \in Nat
<1>1. Checked' = Checked \ {r} /\ r \in Checked
  BY DEF Checked, Values
<1>2. Cardinality(Checked \ {r}) = Cardinality(Checked) - 1
  BY <1>1, CheckedFinite, FS_RemoveElement
<1>3. IsFiniteSet(Checked \ {r})
  BY CheckedFinite, FS_Subset
<1>4. Cardinality(Checked \ {r}) \in Nat
  BY <1>3, FS_CardinalityType
<1>5. Cardinality(Checked') = Cardinality(Checked \ {r})
  BY <1>1, Zenon
<1>. QED  BY <1>2, <1>4, <1>5

\* Every step that takes or gives back a reference counts it.
LEMMA ReferencesStep == IInv /\ Next => References'
<1>. SUFFICES ASSUME IInv, Next PROVE References'
  OBVIOUS
<1>. DEFINE n == Cardinality(Checked)
            m == Cardinality(Checked')
<1>a. n \in Nat /\ References = (refcnt = One(indexed) + n + packets + RunRef)
      /\ References' = (refcnt' = One(indexed') + m + packets' + RunRef')
  BY CheckedFinite, Zenon DEF References, Checked
<1>b. receiver' = receiver => m = n
  BY Zenon DEF Checked
<1>. HIDE DEF n, m
<1>. USE DEF IInv, Values, Phases, TaskStates, Workers, Verbs, InFunc, Live,
           task, queue, qp, One, RunRef
<1>c. ASSUME NEW r \in Receivers, Lookup(r) PROVE m = n + 1
  BY <1>c, CheckedAdd, Zenon DEF n, m, Lookup
<1>d. ASSUME NEW r \in Receivers, QueuePacket(r) \/ DropPacket(r)
      PROVE m = n - 1 /\ n - 1 \in Nat
  BY <1>d, CheckedRemove DEF n, m, QueuePacket, DropPacket
<1>1. ASSUME NEW r \in Receivers, Lookup(r) PROVE References'
  <2>1. m = n + 1
    BY <1>1, <1>c
  <2>. QED  BY <1>1, <1>a, <2>1 DEF Lookup, Booleans
<1>2. ASSUME NEW r \in Receivers, QueuePacket(r) PROVE References'
  <2>1. m = n - 1 /\ n - 1 \in Nat
    BY <1>2, <1>d
  <2>. QED  BY <1>2, <1>a, <2>1 DEF QueuePacket, Sched, Booleans
<1>3. ASSUME NEW r \in Receivers, DropPacket(r) PROVE References'
  <2>1. m = n - 1 /\ n - 1 \in Nat
    BY <1>3, <1>d
  <2>. QED  BY <1>3, <1>a, <2>1 DEF DropPacket, Booleans
<1>4. CASE Kick
  BY <1>4, <1>a, <1>b DEF Kick, Sched, Booleans
<1>5. CASE QpError
  BY <1>5, <1>a, <1>b DEF QpError, Sched, Booleans
<1>6. CASE WorkStart
  BY <1>6, <1>a, <1>b DEF WorkStart, Booleans
<1>7. CASE Enter
  BY <1>7, <1>a, <1>b DEF Enter, Booleans
<1>8. CASE FuncStops
  BY <1>8, <1>a, <1>b DEF FuncStops, Drain, Draining, Booleans
<1>9. CASE FuncServes
  BY <1>9, <1>a, <1>b DEF FuncServes, Draining, Booleans
<1>10. CASE ExitDone
  BY <1>10, <1>a, <1>b DEF ExitDone, Booleans
<1>11. CASE ExitRanOut
  BY <1>11, <1>a, <1>b DEF ExitRanOut, Booleans
<1>12. CASE Resched
  BY <1>12, <1>a, <1>b DEF Resched, Sched, Booleans
<1>13. CASE WorkPut
  BY <1>13, <1>a, <1>b DEF WorkPut, Booleans
<1>14. CASE ModifyRtr
  BY <1>14, <1>a, <1>b DEF ModifyRtr, Booleans
<1>15. CASE ModifyReset
  BY <1>15, <1>a, <1>b DEF ModifyReset, Booleans
<1>16. CASE DestroyBegin
  BY <1>16, <1>a, <1>b DEF DestroyBegin, Booleans
<1>17. CASE ResetDisable
  BY <1>17, <1>a, <1>b DEF ResetDisable, StopTask, IsDone, Booleans
<1>18. CASE ResetWait
  BY <1>18, <1>a, <1>b DEF ResetWait, TaskStopped, IsDone, Booleans
<1>19. CASE ResetDrained
  BY <1>19, <1>a, <1>b DEF ResetDrained, SetStopped, Booleans
<1>20. CASE ResetFlush
  BY <1>20, <1>a, <1>b DEF ResetFlush, Drain, Booleans
<1>21. CASE ResetEnable
  BY <1>21, <1>a, <1>b DEF ResetEnable, Booleans
<1>22. CASE DestroyCleanup
  BY <1>22, <1>a, <1>b DEF DestroyCleanup, StopTask, IsDone, Booleans
<1>23. CASE DestroyWait
  BY <1>23, <1>a, <1>b DEF DestroyWait, TaskStopped, IsDone, Booleans
<1>24. CASE DestroyInvalid
  BY <1>24, <1>a, <1>b DEF DestroyInvalid, SetStopped, Booleans
<1>25. CASE DestroyFlush
  BY <1>25, <1>a, <1>b DEF DestroyFlush, Drain, Booleans
<1>26. CASE DestroyDrop
  BY <1>26, <1>a, <1>b DEF DestroyDrop, Booleans
<1>27. CASE DestroyFree
  BY <1>27, <1>a, <1>b DEF DestroyFree, Booleans
<1>28. CASE UNCHANGED vars
  BY <1>28, <1>a, <1>b DEF vars, Booleans
<1>. QED
  BY <1>1, <1>2, <1>3, <1>4, <1>5, <1>6, <1>7, <1>8, <1>9, <1>10, <1>11,
      <1>12, <1>13, <1>14, <1>15, <1>16, <1>17, <1>18, <1>19, <1>20, <1>21,
      <1>22, <1>23, <1>24, <1>25, <1>26, <1>27, <1>28 DEF Next, Work, Verb, Done

-----------------------------------------------------------------------------
(* The theorems.                                                           *)

\* The references that a context, a packet or a run holds leave the count a
\* natural number, and it is zero only when nobody holds one.
LEMMA ReferencesCount ==
  ASSUME IInv
  PROVE  /\ refcnt \in Nat
         /\ refcnt = 0 => Checked = {} /\ worker = "none" /\ ~pending
<1>. DEFINE n == Cardinality(Checked)
<1>1. n \in Nat /\ refcnt = One(indexed) + n + packets + RunRef
  BY CheckedFinite, Zenon DEF IInv, References, Checked
<1>2. n = 0 => Checked = {}
  BY CheckedFinite, FS_EmptySet, Zenon
<1>. HIDE DEF n
<1>. QED  BY <1>1, <1>2 DEF IInv, Values, One, RunRef

\* Once the last reference is gone and destroy has freed the queue pair, nobody
\* takes another.
LEMMA FreedStep == IInv /\ Next => Freed'
<1>. SUFFICES ASSUME IInv, Next, verb' = "freed" PROVE refcnt' = 0
  BY DEF Freed
<1>1. CASE verb # "freed"
  <2>1. DestroyFree
    BY <1>1 DEF Next, Work, Verb, Done, Lookup, QueuePacket, DropPacket, Kick,
      QpError, WorkStart, Enter, FuncStops, FuncServes, ExitDone, ExitRanOut,
      Resched, WorkPut, ModifyRtr, ModifyReset, DestroyBegin, ResetDisable,
      ResetWait, ResetDrained, ResetFlush, ResetEnable, DestroyCleanup,
      DestroyWait, DestroyInvalid, DestroyFlush, DestroyDrop, StopTask,
      TaskStopped, SetStopped
  <2>. QED  BY <2>1 DEF DestroyFree, qp
<1>2. CASE verb = "freed"
  <2>1. refcnt = 0 /\ ~indexed
    BY <1>2 DEF IInv, Freed, Phases
  <2>2. worker = "none" /\ ~pending /\ \A r \in Receivers : receiver[r] # "checked"
    BY <2>1, ReferencesCount, Zenon DEF Checked
  <2>. QED
    BY <1>2, <2>1, <2>2 DEF Next, Work, Verb, Done, vars, qp, Lookup, QueuePacket,
      DropPacket, Kick, QpError, WorkStart, Enter, FuncStops, FuncServes,
      ExitDone, ExitRanOut, Resched, WorkPut, ModifyRtr, ModifyReset,
      DestroyBegin, ResetDisable, ResetWait, ResetDrained, ResetFlush,
      ResetEnable, DestroyCleanup, DestroyWait, DestroyInvalid, DestroyFlush,
      DestroyDrop, DestroyFree, StopTask, TaskStopped, SetStopped
<1>. QED  BY <1>1, <1>2

\* A created queue pair satisfies the inductive invariant.
LEMMA InitIInv == Init => IInv
<1>. SUFFICES ASSUME Init PROVE IInv
  OBVIOUS
<1>1. Checked = {}
  BY DEF Init, Checked
<1>2. Cardinality(Checked) = 0
  BY <1>1, FS_EmptySet, Zenon
<1>3. Cardinality({r \in Receivers : receiver[r] = "checked"}) = 0
  BY <1>2, Zenon DEF Checked
<1>4. References
  BY <1>3 DEF Init, References, RunRef, One
<1>5. Booleans
  BY Zenon DEF Init, Booleans
<1>6. Values
  BY IterationsAssumption DEF Init, Values, TaskStates, Workers, Verbs
<1>7. Phases /\ Owed /\ Queued /\ Freed
  BY DEF Init, Freed, Phases, Owed, Queued, NoStrandedPacket, InFunc, One, Live
<1>. QED  BY <1>4, <1>5, <1>6, <1>7 DEF IInv

\* The inductive invariant holds throughout.
LEMMA Inductive == Spec => []IInv
<1>1. IInv /\ [Next]_vars => IInv'
  <2>1. IInv /\ Next => IInv'
    BY BooleansStep, ValuesStep, PhasesStep, OwedStep, QueuedStep,
       ReferencesStep, FreedStep DEF IInv
  <2>2. IInv /\ UNCHANGED vars => IInv'
    BY DEF IInv, vars, task, queue, qp, Booleans, Values, Phases, Owed, Queued,
           NoStrandedPacket, References, RunRef, InFunc, Freed
  <2>. QED  BY <2>1, <2>2
<1>. QED  BY <1>1, InitIInv, PTL DEF Spec

\* Type correctness of the task and its queue pair.
THEOREM TypeCorrect == Spec => []TypeOK
<1>1. IInv => TypeOK
  <2>. SUFFICES ASSUME IInv PROVE TypeOK
    OBVIOUS
  <2>1. owed \in Nat
    BY DEF IInv, Owed, One
  <2>. QED  BY <2>1, ReferencesCount, Zenon DEF IInv, Booleans, Values, TypeOK
<1>. QED  BY <1>1, Inductive, PTL

\* A reset or destroy that calls rxe_receiver() directly never does so while
\* do_task() runs it.
THEOREM DirectCallHolds == Spec => []DirectCallAlone
<1>1. IInv => DirectCallAlone
  BY DEF IInv, Phases, DirectCallAlone
<1>. QED  BY <1>1, Inductive, PTL

\* num_sched and num_done never disagree where do_task() compares them, the
\* flush branch at its start is never taken and the default of its switch is
\* never reached.
THEOREM BooksHold == Spec => []BooksBalance
<1>1. IInv => BooksBalance
  BY DEF IInv, Phases, Owed, BooksBalance
<1>. QED  BY <1>1, Inductive, PTL

\* The reference count is exact.
THEOREM ReferencesHold == Spec => []References
<1>1. IInv => References
  BY DEF IInv
<1>. QED  BY <1>1, Inductive, PTL

\* No packet is stranded in the queue of an idle task.
THEOREM NoStrandedHolds == Spec => []NoStrandedPacket
<1>1. IInv => NoStrandedPacket
  BY DEF IInv, Queued
<1>. QED  BY <1>1, Inductive, PTL

\* destroy frees a queue pair that has no packet and that nobody uses.
THEOREM DestroyHolds == Spec => []DestroyLeavesNothing
<1>1. IInv => DestroyLeavesNothing
  <2>. SUFFICES ASSUME IInv PROVE DestroyLeavesNothing
    OBVIOUS
  <2>1. verb = "freed" => worker = "none" /\ ~pending /\ Checked = {}
    BY ReferencesCount DEF IInv, Freed
  <2>2. Checked = {} => \A r \in Receivers : receiver[r] = "idle"
    BY DEF Checked, IInv, Values
  <2>. QED  BY <2>1, <2>2 DEF IInv, Phases, DestroyLeavesNothing
<1>. QED  BY <1>1, Inductive, PTL

=============================================================================
