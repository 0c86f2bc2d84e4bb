--------------------------- MODULE TbframeTxCounts ---------------------------
(***************************************************************************)
(* The counters of TbframeTx are exact, for every pool, reserve and budget *)
(* that the assumptions allow.                                             *)
(*                                                                         *)
(* The inductive invariant is Pool: the types, the agreement of the three  *)
(* lists with the place of each frame (Shape), and the counters (Counted). *)
(* Shape is needed because a completion takes the frame at the head of a   *)
(* list and the counters count frames by place.                            *)
(***************************************************************************)
EXTENDS TbframeTx, FiniteSetTheorems, TLAPS

-----------------------------------------------------------------------------
(* A queue holds a set of frames: each of them once, and nothing else.     *)

Holds(s, S) ==
    /\ \A i \in 1..Len(s) : s[i] \in S
    /\ \A i, j \in 1..Len(s) : s[i] = s[j] => i = j
    /\ \A f \in S : \E i \in 1..Len(s) : s[i] = f

\* list_splice_init() leaves an empty list.
LEMMA HoldsEmpty == Holds(<<>>, {})
  BY DEF Holds

\* A list that holds no frame is empty.
LEMMA HoldsNothing ==
  ASSUME NEW s \in Seq(Frames), Holds(s, {})
  PROVE  s = <<>>
  BY DEF Holds

\* list_add_tail() of a frame that is on no list.
LEMMA HoldsAppend ==
  ASSUME NEW s \in Seq(Frames), NEW S, NEW f \in Frames, f \notin S, Holds(s, S)
  PROVE  Holds(Append(s, f), S \cup {f})
  BY DEF Holds

\* list_del_init() of the first frame.
LEMMA HoldsTail ==
  ASSUME NEW s \in Seq(Frames), s # <<>>, NEW S, Holds(s, S)
  PROVE  /\ Head(s) \in S
         /\ Head(s) \in Frames
         /\ Tail(s) \in Seq(Frames)
         /\ Holds(Tail(s), S \ {Head(s)})
<1>1. Len(s) \in Nat /\ Len(s) >= 1 /\ Head(s) = s[1] /\ Head(s) \in Frames
  OBVIOUS
<1>2. /\ Tail(s) \in Seq(Frames) /\ Len(Tail(s)) = Len(s) - 1
      /\ \A i \in 1..Len(Tail(s)) : Tail(s)[i] = s[i + 1] /\ i + 1 \in 1..Len(s)
  BY <1>1
<1>3. \A i \in 1..Len(Tail(s)) : Tail(s)[i] \in S \ {Head(s)}
  BY <1>1, <1>2 DEF Holds
<1>4. \A i, j \in 1..Len(Tail(s)) : Tail(s)[i] = Tail(s)[j] => i = j
  BY <1>1, <1>2 DEF Holds
<1>5. ASSUME NEW f \in S \ {Head(s)}
      PROVE  \E i \in 1..Len(Tail(s)) : Tail(s)[i] = f
  <2>1. PICK k \in 1..Len(s) : s[k] = f
    BY DEF Holds
  <2>2. k - 1 \in 1..Len(Tail(s)) /\ Tail(s)[k - 1] = s[k]
    BY <1>1, <1>2, <2>1
  <2>. QED  BY <2>1, <2>2
<1>. QED  BY <1>1, <1>2, <1>3, <1>4, <1>5 DEF Holds

-----------------------------------------------------------------------------
(* The shape of the pool: the lists and the frames agree.                  *)

At(place) == {f \in Frames : loc[f] = place}

Shape ==
    /\ Holds(txq_ctrl, At("ctrlq"))
    /\ Holds(txq_data, At("dataq"))
    /\ Holds(ring, At("ring"))
    /\ \A f \in Frames : (charged[f] = "none") <=> (loc[f] = "free")
    /\ \A f \in Frames : (loc[f] = "refill") <=> (f = cb.next)
    /\ cb.next # NoFrame => cb.pub
    /\ cb.pub => cb.busy
    /\ pc \in {"kxmit", "kpost", "kfree"} => keepalive \in Frames


\* Every list is empty and every frame in the pool at tbframe_link_create().
LEMMA ShapeInit == Init => Shape
<1>. SUFFICES ASSUME Init PROVE Shape
  OBVIOUS
<1>1. At("ctrlq") = {} /\ At("dataq") = {} /\ At("ring") = {}
  BY DEF Init, At
<1>. QED  BY <1>1, HoldsEmpty, FramesAssumption, Zenon DEF Init, Shape, IdleCb

\* A step that moves no frame keeps the lists and the frames in agreement.
LEMMA ShapeFrame ==
  ASSUME Shape, UNCHANGED pool, cb.next' = cb.next, cb.pub' => cb.busy',
         cb.next # NoFrame => cb.pub',
         pc' \in {"kxmit", "kpost", "kfree"} => keepalive' \in Frames
  PROVE  Shape'
  BY DEF Shape, pool, At

\* An allocation takes a frame that is on no list.
LEMMA ShapeCharge ==
  ASSUME TypeOK, Shape, NEW f \in Frames, NEW class \in Classes, loc[f] = "free",
         Charge(f, class), UNCHANGED <<txq_ctrl, txq_data, ring, cb>>,
         pc' \in {"kxmit", "kpost", "kfree"} => keepalive' \in Frames
  PROVE  Shape'
  BY Zenon DEF TypeOK, Shape, At, Charge, Classes

\* tbframe_xmit() appends the frame to one queue, or to none.
LEMMA ShapeXmit ==
  ASSUME TypeOK, Shape, NEW f \in Frames, NEW pre_up, XmitAdmit(f, pre_up),
         UNCHANGED cb,
         pc' \in {"kxmit", "kpost", "kfree"} => keepalive' \in Frames
  PROVE  Shape'
<1>1. loc[f] = "owned" /\ UNCHANGED <<charged, ring>> /\ f \notin At("ctrlq")
      /\ f \notin At("dataq")
  BY DEF XmitAdmit, At
<1>2. CASE OverBudget /\ charged[f] = "ctrl"
  <2>1. /\ txq_ctrl' = Append(txq_ctrl, f) /\ txq_data' = txq_data
        /\ At("ctrlq")' = At("ctrlq") \cup {f} /\ At("dataq")' = At("dataq")
        /\ At("ring")' = At("ring")
    BY <1>1, <1>2 DEF XmitAdmit, At, TypeOK
  <2>2. Holds(txq_ctrl', At("ctrlq")')
    BY <1>1, <2>1, HoldsAppend DEF TypeOK, Shape
  <2>. QED  BY <1>1, <1>2, <2>1, <2>2 DEF XmitAdmit, Shape, TypeOK
<1>3. CASE OverBudget /\ charged[f] # "ctrl"
  <2>1. /\ txq_data' = Append(txq_data, f) /\ txq_ctrl' = txq_ctrl
        /\ At("dataq")' = At("dataq") \cup {f} /\ At("ctrlq")' = At("ctrlq")
        /\ At("ring")' = At("ring")
    BY <1>1, <1>3 DEF XmitAdmit, At, TypeOK
  <2>2. Holds(txq_data', At("dataq")')
    BY <1>1, <2>1, HoldsAppend DEF TypeOK, Shape
  <2>. QED  BY <1>1, <1>3, <2>1, <2>2 DEF XmitAdmit, Shape, TypeOK
<1>4. CASE ~OverBudget
  <2>1. /\ txq_data' = txq_data /\ txq_ctrl' = txq_ctrl
        /\ At("dataq")' = At("dataq") /\ At("ctrlq")' = At("ctrlq")
        /\ At("ring")' = At("ring")
    BY <1>1, <1>4 DEF XmitAdmit, At, TypeOK
  <2>. QED  BY <1>1, <1>4, <2>1 DEF XmitAdmit, Shape, TypeOK
<1>. QED  BY <1>2, <1>3, <1>4

\* ring_tx() appends the frame to the ring, or leaves it with its owner.
LEMMA ShapeRingTx ==
  ASSUME TypeOK, Shape, NEW f \in Frames, RingTx(f),
         pc' \in {"kxmit", "kpost", "kfree"} => keepalive' \in Frames
  PROVE  Shape'
<1>1. /\ loc[f] = "posting" /\ f \notin At("ring")
      /\ UNCHANGED <<charged, txq_ctrl, txq_data, cb>>
      /\ At("ctrlq")' = At("ctrlq") /\ At("dataq")' = At("dataq")
  BY DEF RingTx, At, TypeOK
<1>2. CASE running
  <2>1. ring' = Append(ring, f) /\ At("ring")' = At("ring") \cup {f}
    BY <1>1, <1>2 DEF RingTx, At, TypeOK
  <2>2. Holds(ring', At("ring")')
    BY <1>1, <2>1, HoldsAppend DEF TypeOK, Shape
  <2>. QED  BY <1>1, <1>2, <2>2 DEF RingTx, Shape, TypeOK
<1>3. CASE ~running
  <2>1. ring' = ring /\ At("ring")' = At("ring")
    BY <1>1, <1>3 DEF RingTx, At, TypeOK
  <2>. QED  BY <1>1, <1>3, <2>1 DEF RingTx, Shape, TypeOK
<1>. QED  BY <1>2, <1>3

\* A frame that is on no list goes back to the pool.
LEMMA ShapeReturn ==
  ASSUME TypeOK, Shape, NEW f \in Frames, loc[f] \in {"owned", "flush", "cbflush"},
         loc' = [loc EXCEPT ![f] = "free"], Uncharge(f),
         UNCHANGED <<txq_ctrl, txq_data, ring, cb>>,
         pc' \in {"kxmit", "kpost", "kfree"} => keepalive' \in Frames
  PROVE  Shape'
<1>1. /\ At("ctrlq")' = At("ctrlq") /\ At("dataq")' = At("dataq")
      /\ At("ring")' = At("ring")
  BY DEF At, TypeOK
<1>. QED  BY <1>1 DEF Shape, TypeOK, Uncharge

\* A completion takes the head of the ring, and the head of a queue as refill
\* or both queues whole.
LEMMA ShapeTxComplete ==
  ASSUME TypeOK, Shape, NEW canceled \in BOOLEAN, TxComplete(canceled)
  PROVE  Shape'
<1>. DEFINE f == Head(ring)
            next == IF canceled THEN NoFrame ELSE Refill
            spliced == canceled /\ Budget > 0
<1>1. /\ f \in Frames /\ loc[f] = "ring" /\ Tail(ring) \in Seq(Frames)
      /\ Holds(Tail(ring), At("ring") \ {f})
  <2>1. ring \in Seq(Frames) /\ ring # <<>> /\ Holds(ring, At("ring"))
    BY DEF TxComplete, TypeOK, Shape
  <2>2. /\ f \in Frames /\ f \in At("ring") /\ Tail(ring) \in Seq(Frames)
        /\ Holds(Tail(ring), At("ring") \ {f})
    BY <2>1, HoldsTail
  <2>. QED  BY <2>2 DEF At
<1>2. ring' = Tail(ring) /\ cb' = [busy |-> TRUE, next |-> next,
         release |-> (Reopens /\ ~canceled), pub |-> TRUE, nested |-> FALSE]
      /\ UNCHANGED <<pc, keepalive>>
  BY DEF TxComplete
<1>3. cb.next = NoFrame /\ \A g \in Frames : loc[g] # "refill"
  BY FramesAssumption DEF TxComplete, Shape, TypeOK
<1>4. /\ txq_ctrl # <<>> => Head(txq_ctrl) \in Frames
         /\ loc[Head(txq_ctrl)] = "ctrlq"
         /\ Holds(Tail(txq_ctrl), At("ctrlq") \ {Head(txq_ctrl)})
      /\ txq_data # <<>> => Head(txq_data) \in Frames
         /\ loc[Head(txq_data)] = "dataq"
         /\ Holds(Tail(txq_data), At("dataq") \ {Head(txq_data)})
  <2>1. /\ txq_ctrl \in Seq(Frames) /\ Holds(txq_ctrl, At("ctrlq"))
        /\ txq_data \in Seq(Frames) /\ Holds(txq_data, At("dataq"))
    BY DEF TypeOK, Shape
  <2>2. txq_ctrl # <<>> => Head(txq_ctrl) \in Frames
         /\ Head(txq_ctrl) \in At("ctrlq")
         /\ Holds(Tail(txq_ctrl), At("ctrlq") \ {Head(txq_ctrl)})
    BY <2>1, HoldsTail
  <2>3. txq_data # <<>> => Head(txq_data) \in Frames
         /\ Head(txq_data) \in At("dataq")
         /\ Holds(Tail(txq_data), At("dataq") \ {Head(txq_data)})
    BY <2>1, HoldsTail
  <2>. QED  BY <2>2, <2>3 DEF At
<1>5. loc' = [g \in Frames |->
                 CASE g = f -> "free"
                   [] g # f /\ g = next -> "refill"
                   [] g # f /\ g # next /\ spliced
                        /\ loc[g] \in {"ctrlq", "dataq"} -> "cbflush"
                   [] OTHER -> loc[g]]
      /\ charged' = [charged EXCEPT ![f] = "none"]
  BY DEF TxComplete, Uncharge
<1>6. next # NoFrame => next \in Frames /\ loc[next] \in {"ctrlq", "dataq"} /\ next # f
  BY <1>1, <1>4 DEF Refill
<1>. HIDE DEF f, next, spliced
<1>7. /\ loc'[f] = "free"
      /\ \A g \in Frames : g # f /\ g = next => loc'[g] = "refill"
      /\ \A g \in Frames : g # f /\ g # next /\ spliced
           /\ loc[g] \in {"ctrlq", "dataq"} => loc'[g] = "cbflush"
      /\ \A g \in Frames : g # f /\ g # next
           /\ ~(spliced /\ loc[g] \in {"ctrlq", "dataq"}) => loc'[g] = loc[g]
  BY <1>1, <1>5
<1>8. Holds(ring', At("ring")')
  <2>1. At("ring")' = At("ring") \ {f}
    BY <1>1, <1>6, <1>7, FramesAssumption DEF At
  <2>. QED  BY <1>1, <1>2, <2>1, Zenon
<1>9. \A g \in Frames : (charged'[g] = "none") <=> (loc'[g] = "free")
  BY <1>1, <1>3, <1>5, <1>6, <1>7 DEF Shape, TypeOK
<1>10. \A g \in Frames : (loc'[g] = "refill") <=> (g = cb'.next)
  BY <1>1, <1>2, <1>3, <1>6, <1>7, FramesAssumption
<1>11. Holds(txq_ctrl', At("ctrlq")') /\ Holds(txq_data', At("dataq")')
  <2>1. CASE spliced
    <3>1. next = NoFrame /\ txq_ctrl' = <<>> /\ txq_data' = <<>>
      BY <2>1 DEF TxComplete, spliced, next
    <3>2. At("ctrlq")' = {} /\ At("dataq")' = {}
      BY <1>1, <1>7, <2>1, <3>1, FramesAssumption DEF At
    <3>. QED  BY <3>1, <3>2, HoldsEmpty, Zenon
  <2>2. CASE ~spliced /\ next = NoFrame
    <3>1. txq_ctrl' = txq_ctrl /\ txq_data' = txq_data
      BY <2>2 DEF TxComplete, spliced, next
    <3>2. At("ctrlq")' = At("ctrlq") /\ At("dataq")' = At("dataq")
      BY <1>1, <1>7, <2>2, FramesAssumption DEF At
    <3>. QED  BY <3>1, <3>2 DEF Shape
  <2>3. CASE ~spliced /\ next # NoFrame /\ txq_ctrl # <<>>
    <3>1. next = Head(txq_ctrl) /\ txq_ctrl' = Tail(txq_ctrl) /\ txq_data' = txq_data
      BY <2>3 DEF TxComplete, spliced, next, Refill
    <3>2. At("ctrlq")' = At("ctrlq") \ {next} /\ At("dataq")' = At("dataq")
      BY <1>1, <1>4, <1>6, <1>7, <2>3, <3>1 DEF At
    <3>. QED  BY <1>4, <2>3, <3>1, <3>2, Zenon DEF Shape
  <2>4. CASE ~spliced /\ next # NoFrame /\ txq_ctrl = <<>>
    <3>1. /\ next = Head(txq_data) /\ txq_data # <<>>
          /\ txq_ctrl' = txq_ctrl /\ txq_data' = Tail(txq_data)
      BY <2>4 DEF TxComplete, spliced, next, Refill
    <3>2. At("dataq")' = At("dataq") \ {next} /\ At("ctrlq")' = At("ctrlq")
      BY <1>1, <1>4, <1>6, <1>7, <2>4, <3>1 DEF At
    <3>. QED  BY <1>4, <2>4, <3>1, <3>2, Zenon DEF Shape
  <2>. QED  BY <2>1, <2>2, <2>3, <2>4
<1>. QED  BY <1>2, <1>8, <1>9, <1>10, <1>11 DEF Shape

\* The refill is appended to the ring.
LEMMA ShapeCbRefill ==
  ASSUME TypeOK, Shape, CbRefill
  PROVE  Shape'
<1>. DEFINE f == cb.next
<1>1. f \in Frames /\ loc[f] = "refill" /\ f \notin At("ring")
  BY DEF CbRefill, TypeOK, Shape, At
<1>2. /\ ring' = Append(ring, f) /\ loc' = [loc EXCEPT ![f] = "ring"]
      /\ cb' = [cb EXCEPT !.next = NoFrame]
      /\ UNCHANGED <<charged, txq_ctrl, txq_data, pc, keepalive>>
  BY DEF CbRefill
<1>3. /\ At("ctrlq")' = At("ctrlq") /\ At("dataq")' = At("dataq")
      /\ At("ring")' = At("ring") \cup {f}
  BY <1>1, <1>2 DEF At, TypeOK
<1>4. Holds(ring', At("ring")')
  <2>1. ring \in Seq(Frames) /\ Holds(ring, At("ring")) /\ f \in Frames /\ f \notin At("ring")
    BY <1>1 DEF TypeOK, Shape
  <2>2. Holds(Append(ring, f), At("ring") \cup {f})
    BY <2>1, HoldsAppend
  <2>. QED  BY <1>2, <1>3, <2>2, Zenon
<1>. QED  BY <1>1, <1>2, <1>3, <1>4, FramesAssumption DEF Shape, TypeOK

\* A refused refill returns to the pool and both queues are taken out whole.
LEMMA ShapeCbRefillFails ==
  ASSUME TypeOK, Shape, CbRefillFails
  PROVE  Shape'
<1>. DEFINE f == cb.next
<1>1. f \in Frames /\ loc[f] = "refill"
  BY DEF CbRefillFails, TypeOK, Shape
<1>2. /\ loc' = [g \in Frames |->
                   IF g = f THEN "free"
                   ELSE IF loc[g] \in {"ctrlq", "dataq"} THEN "cbflush" ELSE loc[g]]
      /\ charged' = [charged EXCEPT ![f] = "none"]
      /\ txq_ctrl' = <<>> /\ txq_data' = <<>>
      /\ cb' = [cb EXCEPT !.next = NoFrame, !.nested = TRUE]
      /\ UNCHANGED <<ring, pc, keepalive>>
  BY DEF CbRefillFails, Uncharge
<1>3. At("ctrlq")' = {} /\ At("dataq")' = {} /\ At("ring")' = At("ring")
  BY <1>1, <1>2 DEF At, TypeOK
<1>. QED  BY <1>1, <1>2, <1>3, HoldsEmpty, FramesAssumption, Zenon DEF Shape, TypeOK

\* The teardown takes both queues out whole.
LEMMA ShapeDownDrain ==
  ASSUME TypeOK, Shape, NEW expired \in BOOLEAN, DownDrain(expired)
  PROVE  Shape'
<1>1. At("ctrlq")' = {} /\ At("dataq")' = {} /\ At("ring")' = At("ring")
  BY DEF At, TypeOK, DownDrain
<1>. QED  BY <1>1, HoldsEmpty, Zenon DEF Shape, TypeOK, DownDrain

\* Every step keeps the lists and the frames in agreement.
LEMMA ShapeStep ==
  ASSUME TypeOK, Shape, [Next]_vars
  PROVE  Shape'
<1>. DEFINE KeepaliveOK ==
       pc' \in {"kxmit", "kpost", "kfree"} => keepalive' \in Frames
<1>1. ASSUME NEW f \in Frames, NEW class \in Classes, ClientAlloc(f, class)
      PROVE  Shape'
  BY <1>1, ShapeCharge DEF ClientAlloc, thread, Shape
<1>2. ASSUME NEW f \in Frames, ClientXmit(f)
      PROVE  Shape'
  BY <1>2, ShapeXmit, Zenon DEF ClientXmit, thread, Shape
<1>3. ASSUME NEW f \in Frames, ClientRingTx(f)
      PROVE  Shape'
  BY <1>3, ShapeRingTx DEF ClientRingTx, Shape
<1>4. ASSUME NEW f \in Frames, ClientFree(f)
      PROVE  Shape'
  BY <1>4, ShapeReturn, Zenon DEF ClientFree, FrameFree, Shape
<1>5. ASSUME NEW f \in Frames, FlushOne(f)
      PROVE  Shape'
  BY <1>5, ShapeReturn, Zenon DEF FlushOne, Shape, thread
<1>6. ASSUME RingStep
      PROVE  Shape'
  <2>1. CASE CbUnbracket
    BY <2>1, ShapeFrame DEF CbUnbracket, Shape, TypeOK
  <2>2. CASE CbTail
    BY <2>2, ShapeFrame DEF CbTail, Shape, TypeOK, IdleCb
  <2>. QED  BY <1>6, <2>1, <2>2, ShapeTxComplete, ShapeCbRefill, ShapeCbRefillFails
            DEF RingStep
<1>7. ASSUME NEW f \in Frames, ProbeAlloc(f)
      PROVE  Shape'
  BY <1>7, ShapeCharge DEF ProbeAlloc, Classes
<1>8. ASSUME ProbeXmit
      PROVE  Shape'
  <2>1. keepalive \in Frames /\ KeepaliveOK
    BY <1>8 DEF ProbeXmit, Shape
  <2>. QED  BY <1>8, <2>1, ShapeXmit, Zenon DEF ProbeXmit
<1>9. ASSUME ProbeRingTx
      PROVE  Shape'
  <2>1. keepalive \in Frames /\ KeepaliveOK
    BY <1>9 DEF ProbeRingTx, Shape
  <2>. QED  BY <1>9, <2>1, ShapeRingTx DEF ProbeRingTx
<1>10. ASSUME ProbeFree
       PROVE  Shape'
  <2>1. keepalive \in Frames /\ KeepaliveOK
    BY <1>10 DEF ProbeFree, Shape
  <2>. QED  BY <1>10, <2>1, ShapeReturn, Zenon DEF ProbeFree, FrameFree
<1>11. ASSUME StepBegin \/ StepEnd \/ ProbeRefused \/ MaybeUp
              \/ (\E for \in {"bounce", "destroy"} : DownBegin(for))
              \/ \E remote \in RemoteEntries, started \in BOOLEAN : BringUp(remote, started)
       PROVE  Shape'
  BY <1>11, ShapeFrame, Zenon
     DEF StepBegin, StepEnd, ProbeRefused, MaybeUp, DownBegin, BringUp, thread, Shape
<1>12. ASSUME DownStep
       PROVE  Shape'
  <2>1. CASE \E expired \in BOOLEAN : DownDrain(expired)
    BY <2>1, ShapeDownDrain
  <2>2. ASSUME DownStep, ~\E expired \in BOOLEAN : DownDrain(expired)
        PROVE  UNCHANGED <<pool, cb, keepalive>>
               /\ pc' \notin {"kxmit", "kpost", "kfree"}
    BY <2>2 DEF DownStep, DownFlushed, DownStop, DownStopped, DownNotify,
                DestroyCancel, DestroyPut, DestroyFree, DestroyLeak
  <2>. QED  BY <1>12, <2>1, <2>2, ShapeFrame DEF Shape
<1>13. ASSUME FreeTail \/ TxReleased \/ KeepaliveNospc \/ DestroyBegin \/ Park
              \/ ParkCancel \/ Unpark \/ Destroyed \/ UNCHANGED vars
              \/ \E class \in Classes : ClientNospc(class)
       PROVE  Shape'
  BY <1>13, ShapeFrame, Zenon
     DEF FreeTail, TxReleased, KeepaliveNospc, DestroyBegin, Park, ParkCancel,
         Unpark, Destroyed, vars, ClientNospc, thread, Shape
<1>. QED
  BY <1>1, <1>2, <1>3, <1>4, <1>5, <1>6, <1>7, <1>8, <1>9, <1>10, <1>11, <1>12, <1>13
     DEF Next, ClientStep, SessionStep

-----------------------------------------------------------------------------
(* The counters.                                                           *)

\* Counting a frame that was not counted.
LEMMA CardAdd ==
  ASSUME NEW S \in SUBSET Frames, NEW f \in Frames, f \notin S
  PROVE  Cardinality(S \cup {f}) = Cardinality(S) + 1 /\ Cardinality(S) \in Nat
  BY FramesAssumption, FS_Subset, FS_CardinalityType, FS_AddElement

\* No longer counting a frame.
LEMMA CardDel ==
  ASSUME NEW S \in SUBSET Frames, NEW f \in S
  PROVE  Cardinality(S \ {f}) = Cardinality(S) - 1 /\ Cardinality(S) \in Nat
         /\ Cardinality(S) >= 1
<1>1. IsFiniteSet(S) /\ IsFiniteSet(S \ {f}) /\ Cardinality(S) \in Nat
      /\ Cardinality(S \ {f}) \in Nat
  BY FramesAssumption, FS_Subset, FS_CardinalityType
<1>2. (S \ {f}) \cup {f} = S /\ f \notin S \ {f} /\ S \ {f} \in SUBSET Frames
  OBVIOUS
<1>3. Cardinality(S) = Cardinality(S \ {f}) + 1
  BY <1>2, CardAdd
<1>. QED  BY <1>1, <1>3

\* The size of a set of frames.
LEMMA CardSubset ==
  ASSUME NEW S \in SUBSET Frames
  PROVE  Cardinality(S) \in Nat /\ (Cardinality(S) = 0 <=> S = {})
         /\ Cardinality(S) <= Cardinality(Frames)
  BY FramesAssumption, FS_Subset, FS_CardinalityType, FS_EmptySet

\* What Accounting says besides the charge flags.
Counted ==
    /\ ctrl_inflight = Cardinality(ChargedTo("ctrl"))
    /\ data_inflight = Cardinality(ChargedTo("data"))
    /\ ring_posted = Cardinality(Posted)
    /\ hw_active = Cardinality(Publishing) + One(cb.pub)
    /\ refcnt = One(pc \notin {"wait", "freed", "leaked"}) + Cardinality(Out)
                + One(cb.busy) + wakers

\* Shape supplies the part of Accounting that is about the charge flags.
LEMMA CountedAccounting == Shape /\ Counted <=> Shape /\ Accounting
  BY DEF Shape, Counted, Accounting

\* An allocation charges one class and takes one reference.
LEMMA CountedCharge ==
  ASSUME TypeOK, Shape, Counted, NEW f \in Frames, NEW class \in Classes,
         loc[f] = "free", Charge(f, class),
         UNCHANGED <<ring_posted, hw_active, wakers, cb>>,
         pc' \in {"wait", "freed", "leaked"} <=> pc \in {"wait", "freed", "leaked"}
  PROVE  Counted'
<1>1. /\ f \notin Out /\ f \notin ChargedTo("ctrl") /\ f \notin ChargedTo("data")
      /\ f \notin Posted /\ f \notin Publishing
  BY DEF Shape, Out, ChargedTo, Posted, Publishing
<1>2. /\ Out' = Out \cup {f} /\ Posted' = Posted /\ Publishing' = Publishing
      /\ class = "ctrl" => /\ ChargedTo("ctrl")' = ChargedTo("ctrl") \cup {f}
                           /\ ChargedTo("data")' = ChargedTo("data")
      /\ class = "data" => /\ ChargedTo("data")' = ChargedTo("data") \cup {f}
                           /\ ChargedTo("ctrl")' = ChargedTo("ctrl")
  BY <1>1 DEF Charge, Classes, TypeOK, Out, ChargedTo, Posted, Publishing
<1>3. /\ Cardinality(Out \cup {f}) = Cardinality(Out) + 1 /\ Cardinality(Out) \in Nat
      /\ Cardinality(ChargedTo("ctrl") \cup {f}) = Cardinality(ChargedTo("ctrl")) + 1
      /\ Cardinality(ChargedTo("data") \cup {f}) = Cardinality(ChargedTo("data")) + 1
  BY <1>1, CardAdd, Zenon DEF Out, ChargedTo
<1>4. One(cb.busy) \in Nat /\ wakers \in Nat
      /\ One(pc \notin {"wait", "freed", "leaked"}) \in Nat
      /\ One(pc \notin {"wait", "freed", "leaked"})'
           = One(pc \notin {"wait", "freed", "leaked"})
  BY DEF One, TypeOK
<1>5. /\ ctrl_inflight' = Cardinality(ChargedTo("ctrl"))'
      /\ data_inflight' = Cardinality(ChargedTo("data"))'
  BY <1>2, <1>3, Zenon DEF Counted, Charge, ChargedTo, Classes
<1>. QED  BY <1>2, <1>3, <1>4, <1>5 DEF Counted, Charge, One

\* An admitted frame is posted and bracketed, or queued and neither.
LEMMA CountedXmit ==
  ASSUME TypeOK, Counted, NEW f \in Frames, NEW pre_up, XmitAdmit(f, pre_up),
         UNCHANGED cb,
         pc' \in {"wait", "freed", "leaked"} <=> pc \in {"wait", "freed", "leaked"}
  PROVE  Counted'
<1>1. f \notin Posted /\ f \notin Publishing
  BY DEF XmitAdmit, Posted, Publishing
<1>2. /\ Out' = Out
      /\ ChargedTo("data")' = ChargedTo("data") /\ ChargedTo("ctrl")' = ChargedTo("ctrl")
      /\ OverBudget => Posted' = Posted /\ Publishing' = Publishing
      /\ ~OverBudget => Posted' = Posted \cup {f} /\ Publishing' = Publishing \cup {f}
  BY <1>1 DEF XmitAdmit, TypeOK, Out, ChargedTo, Posted, Publishing
<1>3. /\ Cardinality(Posted \cup {f}) = Cardinality(Posted) + 1
      /\ Cardinality(Publishing \cup {f}) = Cardinality(Publishing) + 1
      /\ Cardinality(Publishing) \in Nat
  BY <1>1, CardAdd DEF Posted, Publishing
<1>4. /\ ctrl_inflight' = Cardinality(ChargedTo("ctrl"))'
      /\ data_inflight' = Cardinality(ChargedTo("data"))'
  BY <1>2 DEF Counted, XmitAdmit, ChargedTo
<1>5. ring_posted' = Cardinality(Posted')
  BY <1>2, <1>3, Zenon DEF Counted, XmitAdmit
<1>6. hw_active' = Cardinality(Publishing') + One(cb'.pub)
  <2>1. hw_active' = IF OverBudget THEN hw_active ELSE hw_active + 1
    BY DEF XmitAdmit
  <2>2. One(cb'.pub) = One(cb.pub) /\ One(cb.pub) \in Nat
    BY DEF One
  <2>3. CASE OverBudget
    BY <1>2, <2>1, <2>2, <2>3 DEF Counted
  <2>4. CASE ~OverBudget
    <3>1. Cardinality(Publishing') = Cardinality(Publishing) + 1
      BY <1>2, <1>3, <2>4
    <3>2. hw_active' = (Cardinality(Publishing) + One(cb.pub)) + 1
      BY <2>1, <2>4 DEF Counted
    <3>. QED  BY <1>3, <2>2, <3>1, <3>2
  <2>. QED  BY <2>3, <2>4
<1>7. UNCHANGED <<refcnt, wakers>>
  BY DEF XmitAdmit, wake
<1>. QED  BY <1>2, <1>4, <1>5, <1>6, <1>7 DEF Counted, One

\* ring_tx() ends the bracket; a refusal also ends the residency.
LEMMA CountedRingTx ==
  ASSUME TypeOK, Counted, NEW f \in Frames, RingTx(f),
         pc' \in {"wait", "freed", "leaked"} <=> pc \in {"wait", "freed", "leaked"}
  PROVE  Counted'
<1>1. f \in Posted /\ f \in Publishing
  BY DEF RingTx, Posted, Publishing
<1>2. /\ Out' = Out /\ Publishing' = Publishing \ {f}
      /\ ChargedTo("data")' = ChargedTo("data") /\ ChargedTo("ctrl")' = ChargedTo("ctrl")
      /\ running => Posted' = Posted
      /\ ~running => Posted' = Posted \ {f}
  BY <1>1 DEF RingTx, TypeOK, Out, ChargedTo, Posted, Publishing
<1>3. /\ Cardinality(Posted \ {f}) = Cardinality(Posted) - 1
      /\ Cardinality(Publishing \ {f}) = Cardinality(Publishing) - 1
      /\ Cardinality(Publishing) \in Nat
  BY <1>1, CardDel DEF Posted, Publishing
<1>4. /\ ctrl_inflight' = Cardinality(ChargedTo("ctrl"))'
      /\ data_inflight' = Cardinality(ChargedTo("data"))'
  BY <1>2 DEF Counted, RingTx, ChargedTo
<1>5. ring_posted' = Cardinality(Posted')
  BY <1>2, <1>3, Zenon DEF Counted, RingTx
<1>6. hw_active' = Cardinality(Publishing') + One(cb'.pub)
  BY <1>2, <1>3 DEF Counted, RingTx, One
<1>7. UNCHANGED <<refcnt, wakers, cb>>
  BY DEF RingTx, wake
<1>. QED  BY <1>2, <1>4, <1>5, <1>6, <1>7 DEF Counted, One

\* tbframe_tx_return_locked() keeps the admission counters exact.
LEMMA UnchargeCounts ==
  ASSUME TypeOK, Shape, Counted, NEW f \in Frames, loc[f] # "free", Uncharge(f)
  PROVE  /\ ctrl_inflight' = Cardinality(ChargedTo("ctrl"))'
         /\ data_inflight' = Cardinality(ChargedTo("data"))'
<1>1. /\ ChargedTo("ctrl")' = ChargedTo("ctrl") \ {f}
      /\ ChargedTo("data")' = ChargedTo("data") \ {f}
      /\ (f \in ChargedTo("ctrl") \/ f \in ChargedTo("data"))
  BY DEF Uncharge, TypeOK, Classes, ChargedTo, Shape
<1>2. /\ f \in ChargedTo("ctrl") =>
           Cardinality(ChargedTo("ctrl") \ {f}) = Cardinality(ChargedTo("ctrl")) - 1
      /\ f \in ChargedTo("data") =>
           Cardinality(ChargedTo("data") \ {f}) = Cardinality(ChargedTo("data")) - 1
  BY CardDel DEF ChargedTo
<1>3. /\ f \notin ChargedTo("ctrl") => ChargedTo("ctrl") \ {f} = ChargedTo("ctrl")
      /\ f \notin ChargedTo("data") => ChargedTo("data") \ {f} = ChargedTo("data")
  OBVIOUS
<1>. QED  BY <1>1, <1>2, <1>3 DEF Counted, Uncharge, ChargedTo

\* tbframe_frame_free() and a flush return one frame and one reference.
LEMMA CountedReturn ==
  ASSUME TypeOK, Shape, Counted, NEW f \in Frames,
         loc[f] \in {"owned", "flush", "cbflush"},
         loc' = [loc EXCEPT ![f] = "free"], Uncharge(f),
         UNCHANGED <<ring_posted, hw_active, cb>>,
         \/ refcnt' = refcnt - 1 /\ wakers' = wakers
         \/ refcnt' = refcnt /\ wakers' = wakers + 1,
         pc' \in {"wait", "freed", "leaked"} <=> pc \in {"wait", "freed", "leaked"}
  PROVE  Counted'
<1>1. /\ Out' = Out \ {f} /\ Posted' = Posted /\ Publishing' = Publishing
      /\ f \in Out
  BY DEF TypeOK, Out, Posted, Publishing
<1>2. Cardinality(Out \ {f}) = Cardinality(Out) - 1 /\ Cardinality(Out) \in Nat
  BY <1>1, CardDel, Zenon DEF Out
<1>3. One(cb.busy) \in Nat /\ wakers \in Nat
      /\ One(pc \notin {"wait", "freed", "leaked"}) \in Nat
  BY DEF One, TypeOK
<1>4. /\ ctrl_inflight' = Cardinality(ChargedTo("ctrl"))'
      /\ data_inflight' = Cardinality(ChargedTo("data"))'
  BY UnchargeCounts
<1>. QED  BY <1>1, <1>2, <1>3, <1>4 DEF Counted, One

\* A completion trades its residency for the refill's, and enters the bracket.
LEMMA CountedTxComplete ==
  ASSUME TypeOK, Shape, Counted, NEW canceled \in BOOLEAN, TxComplete(canceled)
  PROVE  Counted'
<1>. DEFINE f == Head(ring)
            next == IF canceled THEN NoFrame ELSE Refill
            spliced == canceled /\ Budget > 0
<1>1. f \in Frames /\ loc[f] = "ring"
  <2>1. ring \in Seq(Frames) /\ ring # <<>> /\ Holds(ring, At("ring"))
    BY DEF TxComplete, TypeOK, Shape
  <2>2. f \in Frames /\ f \in At("ring")
    BY <2>1, HoldsTail, Zenon
  <2>. QED  BY <2>2 DEF At
<1>2. next # NoFrame => next \in Frames /\ loc[next] \in {"ctrlq", "dataq"} /\ next # f
  <2>1. /\ txq_ctrl \in Seq(Frames) /\ Holds(txq_ctrl, At("ctrlq"))
        /\ txq_data \in Seq(Frames) /\ Holds(txq_data, At("dataq"))
    BY DEF TypeOK, Shape
  <2>2. /\ txq_ctrl # <<>> => Head(txq_ctrl) \in Frames /\ Head(txq_ctrl) \in At("ctrlq")
        /\ txq_data # <<>> => Head(txq_data) \in Frames /\ Head(txq_data) \in At("dataq")
    BY <2>1, HoldsTail, Zenon
  <2>. QED  BY <1>1, <2>2 DEF At, Refill
<1>3. /\ loc' = [g \in Frames |->
                 CASE g = f -> "free"
                   [] g # f /\ g = next -> "refill"
                   [] g # f /\ g # next /\ spliced
                        /\ loc[g] \in {"ctrlq", "dataq"} -> "cbflush"
                   [] OTHER -> loc[g]]
      /\ ring_posted' = IF next = NoFrame THEN ring_posted - 1 ELSE ring_posted
      /\ hw_active' = hw_active + 1
      /\ Uncharge(f)
      /\ ~cb.busy /\ cb'.busy /\ cb'.pub
      /\ UNCHANGED <<refcnt, wakers, pc>>
  BY DEF TxComplete
<1>. HIDE DEF f, next, spliced
<1>4. /\ loc'[f] = "free"
      /\ \A g \in Frames : g # f /\ g = next => loc'[g] = "refill"
      /\ \A g \in Frames : g # f /\ g # next /\ spliced
           /\ loc[g] \in {"ctrlq", "dataq"} => loc'[g] = "cbflush"
      /\ \A g \in Frames : g # f /\ g # next
           /\ ~(spliced /\ loc[g] \in {"ctrlq", "dataq"}) => loc'[g] = loc[g]
  BY <1>1, <1>3
<1>5. Out' = Out \ {f} /\ f \in Out
  BY <1>1, <1>2, <1>4, FramesAssumption DEF Out
<1>6. Publishing' = Publishing
  BY <1>1, <1>2, <1>4, FramesAssumption DEF Publishing
<1>7. /\ next = NoFrame => Posted' = Posted \ {f}
      /\ next # NoFrame => Posted' = (Posted \ {f}) \cup {next}
      /\ f \in Posted
      /\ next # NoFrame => next \notin Posted
  BY <1>1, <1>2, <1>4, FramesAssumption DEF Posted
<1>8. ring_posted' = Cardinality(Posted')
  <2>1. Cardinality(Posted \ {f}) = Cardinality(Posted) - 1 /\ Cardinality(Posted) \in Nat
    BY <1>7, CardDel, Zenon DEF Posted
  <2>2. next # NoFrame =>
          Cardinality((Posted \ {f}) \cup {next}) = Cardinality(Posted \ {f}) + 1
    BY <1>2, <1>7, CardAdd DEF Posted
  <2>3. CASE next = NoFrame
    BY <1>3, <1>7, <2>1, <2>3, Zenon DEF Counted
  <2>4. CASE next # NoFrame
    <3>1. Cardinality(Posted') = Cardinality((Posted \ {f}) \cup {next})
      BY <1>7, <2>4, Zenon
    <3>2. Cardinality(Posted') = Cardinality(Posted)
      BY <2>1, <2>2, <2>4, <3>1
    <3>. QED  BY <1>3, <2>4, <3>2 DEF Counted
  <2>. QED  BY <2>3, <2>4
<1>9. hw_active' = Cardinality(Publishing') + One(cb'.pub)
  <2>1. cb.pub = FALSE
    BY <1>3 DEF Shape, TypeOK
  <2>2. Cardinality(Publishing) \in Nat
    BY CardSubset DEF Publishing
  <2>3. One(cb.pub) = 0 /\ One(cb'.pub) = 1
    BY <1>3, <2>1 DEF One
  <2>4. hw_active' = (Cardinality(Publishing) + One(cb.pub)) + 1
    BY <1>3 DEF Counted
  <2>. QED  BY <1>6, <2>2, <2>3, <2>4
<1>10. Cardinality(Out \ {f}) = Cardinality(Out) - 1 /\ Cardinality(Out) \in Nat
  BY <1>5, CardDel DEF Out
<1>11. refcnt' = One(pc' \notin {"wait", "freed", "leaked"}) + Cardinality(Out')
                   + One(cb'.busy) + wakers'
  BY <1>3, <1>5, <1>10 DEF Counted, One, TypeOK
<1>12. /\ ctrl_inflight' = Cardinality(ChargedTo("ctrl"))'
       /\ data_inflight' = Cardinality(ChargedTo("data"))'
  BY <1>1, <1>3, UnchargeCounts
<1>. QED  BY <1>8, <1>9, <1>11, <1>12 DEF Counted

\* The nested completion of a refused refill returns one more frame.
LEMMA CountedCbRefillFails ==
  ASSUME TypeOK, Shape, Counted, CbRefillFails
  PROVE  Counted'
<1>. DEFINE f == cb.next
<1>1. f \in Frames /\ loc[f] = "refill"
  BY DEF CbRefillFails, TypeOK, Shape
<1>2. /\ loc' = [g \in Frames |->
                   IF g = f THEN "free"
                   ELSE IF loc[g] \in {"ctrlq", "dataq"} THEN "cbflush" ELSE loc[g]]
      /\ Uncharge(f)
      /\ ring_posted' = ring_posted - 1 /\ refcnt' = refcnt - 1
      /\ UNCHANGED <<hw_active, wakers, pc>>
      /\ cb'.pub = cb.pub /\ cb'.busy = cb.busy
  BY DEF CbRefillFails, TypeOK
<1>3. /\ Out' = Out \ {f} /\ Posted' = Posted \ {f} /\ Publishing' = Publishing
      /\ f \in Out /\ f \in Posted
  BY <1>1, <1>2 DEF Out, Posted, Publishing
<1>4. /\ Cardinality(Out \ {f}) = Cardinality(Out) - 1 /\ Cardinality(Out) \in Nat
      /\ Cardinality(Posted \ {f}) = Cardinality(Posted) - 1
  BY <1>3, CardDel DEF Out, Posted
<1>5. /\ ctrl_inflight' = Cardinality(ChargedTo("ctrl"))'
      /\ data_inflight' = Cardinality(ChargedTo("data"))'
  BY <1>1, <1>2, UnchargeCounts
<1>6. refcnt' = One(pc' \notin {"wait", "freed", "leaked"}) + Cardinality(Out')
                   + One(cb'.busy) + wakers'
  <2>1. /\ One(cb'.busy) = One(cb.busy) /\ One(cb.busy) \in Nat /\ wakers \in Nat
        /\ One(pc \notin {"wait", "freed", "leaked"}) \in Nat
        /\ One(pc' \notin {"wait", "freed", "leaked"})
             = One(pc \notin {"wait", "freed", "leaked"})
    BY <1>2 DEF One, TypeOK
  <2>. QED  BY <1>2, <1>3, <1>4, <2>1 DEF Counted
<1>. QED  BY <1>2, <1>3, <1>4, <1>5, <1>6 DEF Counted, One

\* A step that moves no frame and touches no counter.
LEMMA CountedFrame ==
  ASSUME Counted, UNCHANGED <<loc, charged, count, wakers>>,
         cb'.pub = cb.pub, cb'.busy = cb.busy,
         pc' \in {"wait", "freed", "leaked"} <=> pc \in {"wait", "freed", "leaked"}
  PROVE  Counted'
  BY DEF Counted, ChargedTo, Posted, Publishing, Out, One, count

\* Every step keeps the counters exact.
LEMMA CountedStep ==
  ASSUME TypeOK, Shape, Counted, [Next]_vars
  PROVE  Counted'
<1>. DEFINE Ended == {"wait", "freed", "leaked"}
<1>1. ASSUME NEW f \in Frames, NEW class \in Classes, ClientAlloc(f, class)
      PROVE  Counted'
  BY <1>1, CountedCharge DEF ClientAlloc, thread, wake
<1>2. ASSUME NEW f \in Frames, ClientXmit(f)
      PROVE  Counted'
  BY <1>2, CountedXmit, Zenon DEF ClientXmit, thread
<1>3. ASSUME NEW f \in Frames, ClientRingTx(f)
      PROVE  Counted'
  BY <1>3, CountedRingTx DEF ClientRingTx
<1>4. ASSUME NEW f \in Frames, ClientFree(f)
      PROVE  Counted'
  BY <1>4, CountedReturn, Zenon DEF ClientFree, FrameFree
<1>5. ASSUME NEW f \in Frames, FlushOne(f)
      PROVE  Counted'
  BY <1>5, CountedReturn, Zenon DEF FlushOne, thread
<1>6. ASSUME CbRefill
      PROVE  Counted'
  <2>1. cb.next \in Frames /\ loc[cb.next] = "refill"
    BY <1>6 DEF CbRefill, TypeOK, Shape
  <2>2. Out' = Out /\ Posted' = Posted /\ Publishing' = Publishing
    BY <1>6, <2>1 DEF CbRefill, Out, Posted, Publishing, TypeOK
  <2>3. UNCHANGED <<charged, count, wakers, pc>> /\ cb'.pub = cb.pub /\ cb'.busy = cb.busy
    BY <1>6 DEF CbRefill, wake, TypeOK
  <2>. QED  BY <2>2, <2>3 DEF Counted, ChargedTo, count, One
<1>7. ASSUME CbUnbracket
      PROVE  Counted'
  <2>1. hw_active' = hw_active - 1 /\ cb.pub /\ cb'.pub = FALSE /\ cb'.busy = cb.busy
        /\ UNCHANGED <<loc, charged, ctrl_inflight, data_inflight, ring_posted,
                       refcnt, wakers, pc>>
    BY <1>7 DEF CbUnbracket, pool, wake, TypeOK
  <2>2. Cardinality(Publishing) \in Nat /\ Publishing' = Publishing
    BY <2>1, CardSubset DEF Publishing
  <2>3. hw_active' = Cardinality(Publishing') + One(cb'.pub)
    BY <2>1, <2>2 DEF Counted, One
  <2>. QED  BY <2>1, <2>3 DEF Counted, ChargedTo, Posted, Out, One
<1>8. ASSUME CbTail
      PROVE  Counted'
  <2>1. refcnt' = refcnt - 1 /\ cb.busy /\ cb.pub = FALSE /\ cb' = IdleCb
        /\ UNCHANGED <<loc, charged, ctrl_inflight, data_inflight, ring_posted,
                       hw_active, wakers, pc>>
    BY <1>8 DEF CbTail, pool, TypeOK
  <2>2. Cardinality(Out) \in Nat /\ Out' = Out /\ wakers \in Nat
    BY <2>1, CardSubset DEF Out, TypeOK
  <2>3. refcnt' = One(pc' \notin Ended) + Cardinality(Out') + One(cb'.busy) + wakers'
    BY <2>1, <2>2 DEF Counted, One, IdleCb
  <2>. QED  BY <2>1, <2>3 DEF Counted, ChargedTo, Posted, Publishing, One, IdleCb
<1>9. ASSUME NEW f \in Frames, ProbeAlloc(f)
      PROVE  Counted'
  BY <1>9, CountedCharge DEF ProbeAlloc, Classes, wake
<1>10. ASSUME ProbeXmit
       PROVE  Counted'
  <2>1. keepalive \in Frames /\ pc \notin Ended /\ pc' \notin Ended
    BY <1>10 DEF ProbeXmit, Shape
  <2>. QED  BY <1>10, <2>1, CountedXmit, Zenon DEF ProbeXmit
<1>11. ASSUME ProbeRingTx
       PROVE  Counted'
  <2>1. keepalive \in Frames /\ pc \notin Ended /\ pc' \notin Ended
    BY <1>11 DEF ProbeRingTx, Shape
  <2>. QED  BY <1>11, <2>1, CountedRingTx DEF ProbeRingTx
<1>12. ASSUME ProbeFree
       PROVE  Counted'
  <2>1. keepalive \in Frames /\ pc \notin Ended /\ pc' \notin Ended
    BY <1>12 DEF ProbeFree, Shape
  <2>. QED  BY <1>12, <2>1, CountedReturn, Zenon DEF ProbeFree, FrameFree
<1>13. ASSUME NEW expired \in BOOLEAN, DownDrain(expired)
       PROVE  Counted'
  <2>1. Out' = Out /\ Posted' = Posted /\ Publishing' = Publishing
    BY <1>13 DEF DownDrain, Out, Posted, Publishing, TypeOK
  <2>2. UNCHANGED <<charged, count, wakers, cb>> /\ pc \notin Ended /\ pc' \notin Ended
    BY <1>13 DEF DownDrain, wake
  <2>. QED  BY <2>1, <2>2 DEF Counted, ChargedTo, count, One
<1>14. ASSUME FreeTail
       PROVE  Counted'
  <2>1. refcnt' = refcnt - 1 /\ wakers' = wakers - 1 /\ wakers \in Nat
        /\ UNCHANGED <<loc, charged, ctrl_inflight, data_inflight, ring_posted,
                       hw_active, cb, pc>>
    BY <1>14 DEF FreeTail, pool, thread, TypeOK
  <2>2. Cardinality(Out) \in Nat /\ Out' = Out
    BY <2>1, CardSubset DEF Out
  <2>3. refcnt' = One(pc' \notin Ended) + Cardinality(Out') + One(cb'.busy) + wakers'
    BY <2>1, <2>2 DEF Counted, One
  <2>. QED  BY <2>1, <2>3 DEF Counted, ChargedTo, Posted, Publishing, One
<1>15. ASSUME DestroyPut
       PROVE  Counted'
  <2>1. refcnt' = refcnt - 1 /\ pc = "put" /\ pc' = "wait"
        /\ UNCHANGED <<loc, charged, ctrl_inflight, data_inflight, ring_posted,
                       hw_active, cb, wakers>>
    BY <1>15 DEF DestroyPut, pool, wake
  <2>2. Cardinality(Out) \in Nat /\ Out' = Out /\ wakers \in Nat
    BY <2>1, CardSubset DEF Out, TypeOK
  <2>3. refcnt' = One(pc' \notin Ended) + Cardinality(Out') + One(cb'.busy) + wakers'
    BY <2>1, <2>2 DEF Counted, One
  <2>. QED  BY <2>1, <2>3 DEF Counted, ChargedTo, Posted, Publishing, One
<1>16. ASSUME \/ StepBegin \/ StepEnd \/ ProbeRefused \/ MaybeUp
              \/ \E for \in {"bounce", "destroy"} : DownBegin(for)
              \/ DownFlushed \/ DownStop \/ DownNotify \/ DestroyCancel
              \/ DestroyFree \/ DestroyLeak
              \/ \E disconnected, quarantined \in BOOLEAN :
                    DownStopped(disconnected, quarantined)
       PROVE  Counted'
  BY <1>16, CountedFrame, Zenon
     DEF StepBegin, StepEnd, ProbeRefused, MaybeUp, DownBegin, DownFlushed, DownStop,
         DownNotify, DestroyCancel, DestroyFree, DestroyLeak, DownStopped,
         pool, wake
<1>17. ASSUME \/ TxReleased \/ KeepaliveNospc \/ DestroyBegin \/ Park
              \/ ParkCancel \/ Unpark \/ Destroyed \/ UNCHANGED vars
              \/ \E class \in Classes : ClientNospc(class)
              \/ \E remote \in RemoteEntries, started \in BOOLEAN : BringUp(remote, started)
       PROVE  Counted'
  BY <1>17, CountedFrame, Zenon
     DEF TxReleased, KeepaliveNospc, DestroyBegin, Park, ParkCancel,
         Unpark, Destroyed, vars, ClientNospc, BringUp, thread, pool, wake
<1>. QED
  BY <1>1, <1>2, <1>3, <1>4, <1>5, <1>6, <1>7, <1>8, <1>9, <1>10, <1>11, <1>12, <1>13,
     <1>14, <1>15, <1>16, <1>17, CountedTxComplete, CountedCbRefillFails
     DEF Next, ClientStep, RingStep, SessionStep, DownStep

PoolTyped ==
    /\ loc \in [Frames -> Locs]
    /\ charged \in [Frames -> Classes \cup {"none"}]
    /\ txq_ctrl \in Seq(Frames) /\ txq_data \in Seq(Frames) /\ ring \in Seq(Frames)

\* The lists hold frames, and every frame has a place and a charge.
LEMMA PoolTypeStep ==
  ASSUME TypeOK, Shape, [Next]_vars
  PROVE  PoolTyped'
<1>1. ASSUME NEW f \in Frames, NEW class \in Classes,
             ClientAlloc(f, class) \/ ProbeAlloc(f)
      PROVE  PoolTyped'
  BY <1>1, Zenon DEF ClientAlloc, ProbeAlloc, Charge, TypeOK, PoolTyped, Locs, Classes
<1>2. ASSUME NEW f \in Frames, NEW pre_up \in BOOLEAN, XmitAdmit(f, pre_up)
      PROVE  PoolTyped'
  <2>1. Append(txq_ctrl, f) \in Seq(Frames) /\ Append(txq_data, f) \in Seq(Frames)
    BY DEF TypeOK
  <2>2. loc' \in [Frames -> Locs]
    BY <1>2, Zenon DEF XmitAdmit, TypeOK, Locs
  <2>3. txq_ctrl' \in Seq(Frames) /\ txq_data' \in Seq(Frames)
    BY <1>2, <2>1, Zenon DEF XmitAdmit, TypeOK
  <2>. QED  BY <1>2, <2>2, <2>3 DEF XmitAdmit, TypeOK, PoolTyped
<1>3. ASSUME NEW f \in Frames, RingTx(f)
      PROVE  PoolTyped'
  <2>1. Append(ring, f) \in Seq(Frames)
    BY DEF TypeOK
  <2>2. loc' \in [Frames -> Locs]
    BY <1>3 DEF RingTx, TypeOK, Locs
  <2>. QED  BY <1>3, <2>1, <2>2, Zenon DEF RingTx, TypeOK, PoolTyped
<1>4. ASSUME NEW f \in Frames, FrameFree(f) \/ FlushOne(f)
      PROVE  PoolTyped'
  BY <1>4, Zenon DEF FrameFree, FlushOne, Uncharge, TypeOK, PoolTyped, Locs
<1>5. ASSUME NEW canceled \in BOOLEAN, TxComplete(canceled)
      PROVE  PoolTyped'
  <2>1. ring \in Seq(Frames) /\ ring # <<>> /\ Holds(ring, At("ring"))
    BY <1>5 DEF TxComplete, TypeOK, Shape
  <2>2. Head(ring) \in Frames /\ Tail(ring) \in Seq(Frames)
    BY <2>1, HoldsTail
  <2>3. /\ txq_ctrl # <<>> => Tail(txq_ctrl) \in Seq(Frames)
        /\ txq_data # <<>> => Tail(txq_data) \in Seq(Frames)
        /\ <<>> \in Seq(Frames)
    BY DEF TypeOK
  <2>4. txq_ctrl' \in Seq(Frames)
    BY <1>5, <2>3 DEF TxComplete, TypeOK
  <2>5. txq_data' \in Seq(Frames)
    BY <1>5, <2>3, FramesAssumption DEF TxComplete, TypeOK, Refill
  <2>6. loc' \in [Frames -> Locs]
    BY <1>5 DEF TxComplete, TypeOK, Locs
  <2>7. charged' \in [Frames -> Classes \cup {"none"}]
    BY <1>5, <2>2 DEF TxComplete, TypeOK, Uncharge
  <2>8. ring' \in Seq(Frames)
    BY <1>5, <2>2 DEF TxComplete
  <2>. QED  BY <2>4, <2>5, <2>6, <2>7, <2>8 DEF PoolTyped
<1>6. ASSUME CbRefill \/ CbRefillFails
      PROVE  PoolTyped'
  <2>1. cb.next \in Frames
    BY <1>6 DEF CbRefill, CbRefillFails, TypeOK
  <2>2. Append(ring, cb.next) \in Seq(Frames) /\ <<>> \in Seq(Frames)
    BY <2>1 DEF TypeOK
  <2>3. loc' \in [Frames -> Locs]
    BY <1>6, <2>1 DEF CbRefill, CbRefillFails, TypeOK, Locs
  <2>4. charged' \in [Frames -> Classes \cup {"none"}]
    BY <1>6, <2>1 DEF CbRefill, CbRefillFails, Uncharge, TypeOK
  <2>5. txq_ctrl' \in Seq(Frames) /\ txq_data' \in Seq(Frames) /\ ring' \in Seq(Frames)
    <3>1. CASE CbRefill
      BY <2>2, <3>1 DEF CbRefill, TypeOK
    <3>2. CASE CbRefillFails
      BY <2>2, <3>2 DEF CbRefillFails, TypeOK
    <3>. QED  BY <1>6, <3>1, <3>2
  <2>. QED  BY <2>3, <2>4, <2>5 DEF PoolTyped
<1>7. ASSUME NEW expired \in BOOLEAN, DownDrain(expired)
      PROVE  PoolTyped'
  BY <1>7 DEF DownDrain, TypeOK, PoolTyped, Locs
<1>8. ASSUME UNCHANGED pool
      PROVE  PoolTyped'
  BY <1>8 DEF pool, TypeOK, PoolTyped
<1>9. ASSUME ProbeXmit \/ ProbeRingTx \/ ProbeFree
      PROVE  PoolTyped'
  <2>1. keepalive \in Frames
    BY <1>9, Zenon DEF ProbeXmit, ProbeRingTx, ProbeFree, Shape
  <2>. QED  BY <1>2, <1>3, <1>4, <1>9, <2>1, Zenon DEF ProbeXmit, ProbeRingTx, ProbeFree
<1>10. ASSUME CbUnbracket \/ CbTail \/ StepBegin \/ StepEnd \/ ProbeRefused \/ MaybeUp
              \/ (\E for \in {"bounce", "destroy"} : DownBegin(for))
              \/ DownFlushed \/ DownStop \/ DownNotify \/ DestroyCancel \/ DestroyPut
              \/ DestroyFree \/ DestroyLeak \/ FreeTail
              \/ (\E disconnected, quarantined \in BOOLEAN :
                    DownStopped(disconnected, quarantined))
              \/ TxReleased \/ KeepaliveNospc \/ DestroyBegin \/ Park
              \/ ParkCancel \/ Unpark \/ Destroyed \/ UNCHANGED vars
              \/ (\E class \in Classes : ClientNospc(class))
              \/ \E remote \in RemoteEntries, started \in BOOLEAN : BringUp(remote, started)
       PROVE  UNCHANGED pool
  BY <1>10, Zenon
     DEF CbUnbracket, CbTail, StepBegin, StepEnd, ProbeRefused, MaybeUp, DownBegin,
         DownFlushed, DownStop, DownNotify, DestroyCancel, DestroyPut, DestroyFree,
         DestroyLeak, FreeTail, DownStopped, TxReleased, KeepaliveNospc, DestroyBegin,
         Park, ParkCancel, Unpark, Destroyed, vars, ClientNospc, BringUp
<1>. QED
  BY <1>1, <1>2, <1>3, <1>4, <1>5, <1>6, <1>7, <1>8, <1>9, <1>10, Zenon
     DEF Next, ClientStep, RingStep, SessionStep, DownStep, ClientXmit, ClientRingTx,
         ClientFree, Classes

FlagsTyped ==
    /\ state \in {"INIT", "UP", "DEAD"}
    /\ removing \in BOOLEAN /\ parked \in BOOLEAN
    /\ rings_up \in BOOLEAN /\ running \in BOOLEAN
    /\ data_window \in Nat
    /\ tx_blocked \in BOOLEAN /\ relwork \in BOOLEAN /\ waiting \in BOOLEAN
    /\ wakers \in Nat
    /\ cb \in [busy: BOOLEAN, next: Frames \cup {NoFrame}, release: BOOLEAN,
               pub: BOOLEAN, nested: BOOLEAN]
    /\ keepalive \in Frames \cup {NoFrame}
    /\ pc \in Pcs
    /\ final \in Finals

\* Every step keeps the types of the link, wakeup and thread fields.
LEMMA FlagsTypeStep ==
  ASSUME FlagsTyped, txq_ctrl \in Seq(Frames), txq_data \in Seq(Frames), [Next]_vars
  PROVE  FlagsTyped'
<1>. USE DEF FlagsTyped
<1>1. ASSUME NEW f \in Frames, NEW class \in Classes, ClientAlloc(f, class)
      PROVE  FlagsTyped'
  BY <1>1 DEF ClientAlloc, Charge, link, wake, thread
<1>2. ASSUME NEW class \in Classes, ClientNospc(class)
      PROVE  FlagsTyped'
  BY <1>2 DEF ClientNospc, link, thread
<1>3. ASSUME NEW f \in Frames, ClientXmit(f)
      PROVE  FlagsTyped'
  BY <1>3 DEF ClientXmit, XmitAdmit, link, wake, thread
<1>4. ASSUME NEW f \in Frames, ClientRingTx(f)
      PROVE  FlagsTyped'
  BY <1>4 DEF ClientRingTx, RingTx, link, wake
<1>5. ASSUME NEW f \in Frames, ClientFree(f)
      PROVE  FlagsTyped'
  BY <1>5 DEF ClientFree, FrameFree, Uncharge, link
<1>6. ASSUME NEW f \in Frames, FlushOne(f)
      PROVE  FlagsTyped'
  BY <1>6 DEF FlushOne, Uncharge, link, thread
<1>7. ASSUME NEW canceled \in BOOLEAN, TxComplete(canceled)
      PROVE  FlagsTyped'
  <2>1. /\ txq_ctrl # <<>> => Head(txq_ctrl) \in Frames
        /\ txq_data # <<>> => Head(txq_data) \in Frames
    OBVIOUS
  <2>2. Refill \in Frames \cup {NoFrame}
    BY <2>1 DEF Refill
  <2>3. Reopens \in BOOLEAN
    BY DEF Reopens
  <2>4. cb' = [busy |-> TRUE, next |-> (IF canceled THEN NoFrame ELSE Refill),
               release |-> (Reopens /\ ~canceled), pub |-> TRUE, nested |-> FALSE]
    BY <1>7 DEF TxComplete
  <2>5. UNCHANGED <<link, relwork, wakers, waiting, keepalive, pc, final>>
        /\ tx_blocked' \in BOOLEAN
    BY <1>7 DEF TxComplete, Uncharge
  <2>. QED  BY <2>2, <2>3, <2>4, <2>5 DEF link
<1>8. CASE CbRefill
  BY <1>8, Zenon DEF CbRefill, link, wake
<1>9. CASE CbRefillFails
  BY <1>9, Zenon DEF CbRefillFails, Uncharge, link
<1>10. CASE CbUnbracket
  <2>1. cb' = [busy |-> cb.busy, next |-> cb.next, release |-> cb.release,
               pub |-> FALSE, nested |-> cb.nested]
    BY <1>10, Zenon DEF CbUnbracket
  <2>. QED  BY <1>10, <2>1, Zenon DEF CbUnbracket, link, wake
<1>11. CASE CbTail
  BY <1>11 DEF CbTail, IdleCb, link
<1>12. ASSUME NEW f \in Frames, ProbeAlloc(f)
      PROVE  FlagsTyped'
  BY <1>12 DEF ProbeAlloc, Charge, link, wake, Pcs
<1>13. CASE ProbeXmit
  BY <1>13 DEF ProbeXmit, XmitAdmit, link, wake, Pcs
<1>14. CASE ProbeRefused
  BY <1>14 DEF ProbeRefused, link, wake, Pcs
<1>15. CASE ProbeRingTx
  BY <1>15 DEF ProbeRingTx, RingTx, link, wake, Pcs
<1>16. CASE ProbeFree
  BY <1>16 DEF ProbeFree, FrameFree, Uncharge, link, Pcs
<1>17. CASE StepBegin
  BY <1>17 DEF StepBegin, link, wake, Pcs
<1>18. CASE StepEnd
  BY <1>18 DEF StepEnd, link, wake, Pcs
<1>19. CASE MaybeUp
  BY <1>19, Zenon DEF MaybeUp, Pcs
<1>20. ASSUME NEW remote \in RemoteEntries, NEW started \in BOOLEAN, BringUp(remote, started)
      PROVE  FlagsTyped'
  <2>1. Window(remote) \in Nat
    BY RemoteAssumption, ReserveAssumption, FramesAssumption, FS_CardinalityType DEF Window
  <2>. QED  BY <1>20, <2>1 DEF BringUp, wake, thread
<1>21. ASSUME NEW for \in {"bounce", "destroy"}, DownBegin(for)
      PROVE  FlagsTyped'
  <2>1. rings_up' \in BOOLEAN /\ tx_blocked' \in BOOLEAN
    BY <1>21, Zenon DEF DownBegin
  <2>. QED  BY <1>21, <2>1 DEF DownBegin, Pcs, Finals
<1>22. ASSUME NEW expired \in BOOLEAN, DownDrain(expired)
      PROVE  FlagsTyped'
  BY <1>22 DEF DownDrain, wake, Pcs
<1>23. CASE DownFlushed
  BY <1>23 DEF DownFlushed, link, wake, Pcs
<1>24. CASE DownStop
  <2>1. running' \in BOOLEAN
    BY <1>24, Zenon DEF DownStop
  <2>. QED  BY <1>24, <2>1 DEF DownStop, wake, Pcs
<1>25. ASSUME NEW disconnected \in BOOLEAN, NEW quarantined \in BOOLEAN,
             DownStopped(disconnected, quarantined)
      PROVE  FlagsTyped'
  BY <1>25 DEF DownStopped, wake, Pcs, Finals
<1>26. CASE DownNotify
  <2>1. waiting' \in BOOLEAN
    BY <1>26, Zenon DEF DownNotify
  <2>. QED  BY <1>26, <2>1 DEF DownNotify, link, Pcs
<1>27. CASE DestroyCancel
  <2>1. relwork' \in BOOLEAN
    BY <1>27, Zenon DEF DestroyCancel
  <2>. QED  BY <1>27, <2>1 DEF DestroyCancel, link, Pcs
<1>28. CASE DestroyPut
  BY <1>28 DEF DestroyPut, link, wake, Pcs
<1>29. CASE DestroyFree
  BY <1>29 DEF DestroyFree, link, wake, Pcs
<1>30. CASE DestroyLeak
  BY <1>30 DEF DestroyLeak, wake, Pcs
<1>31. CASE FreeTail
  BY <1>31 DEF FreeTail, link, thread
<1>32. CASE TxReleased
  <2>1. relwork' \in BOOLEAN /\ waiting' \in BOOLEAN
    BY <1>32, Zenon DEF TxReleased
  <2>. QED  BY <1>32, <2>1 DEF TxReleased, link, thread
<1>33. CASE KeepaliveNospc
  BY <1>33 DEF KeepaliveNospc, link, thread
<1>34. CASE DestroyBegin
  BY <1>34 DEF DestroyBegin, wake, thread
<1>35. CASE Park
  BY <1>35 DEF Park, wake, thread
<1>36. CASE ParkCancel
  <2>1. relwork' \in BOOLEAN
    BY <1>36, Zenon DEF ParkCancel
  <2>. QED  BY <1>36, <2>1 DEF ParkCancel, link, thread
<1>37. CASE Unpark
  <2>1. parked' \in BOOLEAN
    BY <1>37, Zenon DEF Unpark
  <2>. QED  BY <1>37, <2>1 DEF Unpark, wake, thread
<1>38. CASE Destroyed
  BY <1>38 DEF Destroyed, vars, link, wake, thread
<1>39. CASE UNCHANGED vars
  BY <1>39 DEF vars, link, wake, thread
<1>. QED
  BY <1>1, <1>2, <1>3, <1>4, <1>5, <1>6, <1>7, <1>8, <1>9, <1>10, <1>11,
     <1>12, <1>13, <1>14, <1>15, <1>16, <1>17, <1>18, <1>19, <1>20, <1>21,
     <1>22, <1>23, <1>24, <1>25, <1>26, <1>27, <1>28, <1>29, <1>30, <1>31,
     <1>32, <1>33, <1>34, <1>35, <1>36, <1>37, <1>38, <1>39, Zenon
     DEF Next, ClientStep, RingStep, SessionStep, DownStep

\* The counters are natural numbers because they count.
LEMMA TypeStep ==
  ASSUME TypeOK, Shape, Counted, [Next]_vars
  PROVE  TypeOK'
<1>1. FlagsTyped' /\ PoolTyped'
  BY FlagsTypeStep, PoolTypeStep DEF TypeOK, FlagsTyped
<1>2. /\ ctrl_inflight' \in Nat /\ data_inflight' \in Nat /\ ring_posted' \in Nat
      /\ hw_active' \in Nat /\ refcnt' \in Nat
  <2>1. Counted'
    BY CountedStep
  <2>2. /\ Cardinality(ChargedTo("ctrl")') \in Nat /\ Cardinality(ChargedTo("data")') \in Nat
        /\ Cardinality(Posted') \in Nat /\ Cardinality(Publishing') \in Nat
        /\ Cardinality(Out') \in Nat
    BY CardSubset DEF ChargedTo, Posted, Publishing, Out
  <2>. QED  BY <1>1, <2>1, <2>2 DEF Counted, One, ChargedTo, FlagsTyped
<1>. QED  BY <1>1, <1>2 DEF TypeOK, PoolTyped, FlagsTyped

Pool == TypeOK /\ Shape /\ Counted

\* The inductive invariant holds of a new link.
LEMMA PoolInit == Init => Pool
<1>. SUFFICES ASSUME Init PROVE Pool
  OBVIOUS
<1>1. /\ ChargedTo("ctrl") = {} /\ ChargedTo("data") = {} /\ Posted = {}
      /\ Publishing = {} /\ Out = {}
  BY DEF Init, ChargedTo, Posted, Publishing, Out
<1>2. Counted
  <2>1. One(cb.pub) = 0 /\ One(cb.busy) = 0 /\ One(pc \notin {"wait", "freed", "leaked"}) = 1
    BY DEF Init, One, IdleCb
  <2>2. /\ Cardinality(ChargedTo("ctrl")) = 0 /\ Cardinality(ChargedTo("data")) = 0
        /\ Cardinality(Posted) = 0 /\ Cardinality(Publishing) = 0 /\ Cardinality(Out) = 0
    BY <1>1, FS_EmptySet, Zenon
  <2>. QED  BY <2>1, <2>2 DEF Init, Counted
<1>3. TypeOK
  <2>1. /\ loc \in [Frames -> Locs]
        /\ charged \in [Frames -> Classes \cup {"none"}]
        /\ txq_ctrl \in Seq(Frames) /\ txq_data \in Seq(Frames) /\ ring \in Seq(Frames)
    BY DEF Init, Locs
  <2>2. /\ removing \in BOOLEAN /\ parked \in BOOLEAN /\ rings_up \in BOOLEAN
        /\ running \in BOOLEAN /\ tx_blocked \in BOOLEAN /\ relwork \in BOOLEAN
        /\ waiting \in BOOLEAN
    BY Zenon DEF Init
  <2>. QED  BY <2>1, <2>2 DEF Init, TypeOK, IdleCb, Pcs, Finals
<1>. QED  BY <1>2, <1>3, ShapeInit DEF Pool

\* Every step of every thread keeps the inductive invariant.
LEMMA PoolStep == Pool /\ [Next]_vars => Pool'
<1>. SUFFICES ASSUME Pool, [Next]_vars PROVE Pool'
  OBVIOUS
<1>1. TypeOK /\ Shape /\ Counted
  BY DEF Pool
<1>2. TypeOK' /\ Shape' /\ Counted'
  BY <1>1, ShapeStep, CountedStep, TypeStep
<1>. QED  BY <1>2 DEF Pool

\* The inductive invariant is an invariant.
LEMMA PoolAlways == Spec => []Pool
  BY PoolInit, PoolStep, PTL DEF Spec

\* No counter of the link ever goes below zero, whatever completes, is canceled,
\* flushed or freed, and in whatever order: the WARN_ON()s of
\* tbframe_tx_return_locked() and tbframe_core_tx_complete() never fire.
THEOREM TypeCorrect == Spec => []TypeOK
  BY PoolAlways, PTL DEF Pool

\* The counters under link->lock are exact in every reachable state: admission
\* counts charged frames, ring_posted the frames handed to the ring, hw_active
\* the publishers, refcnt the frames outside the pool and the callers still to
\* drop theirs.
THEOREM AccountingHolds == Spec => []Accounting
<1>1. Pool => Accounting
  BY CountedAccounting DEF Pool
<1>. QED  BY <1>1, PoolAlways, PTL
=============================================================================
