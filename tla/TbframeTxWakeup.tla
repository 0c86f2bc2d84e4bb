--------------------------- MODULE TbframeTxWakeup ---------------------------
(***************************************************************************)
(* Two properties of TbframeTx that need the phases of TbframeTxProofs and *)
(* an invariant of their own: what a freed link has left behind, and the   *)
(* wakeup of a refused producer.                                           *)
(***************************************************************************)
EXTENDS TbframeTxProofs

-----------------------------------------------------------------------------
(* A freed link.                                                           *)

Empty == Out = {} /\ ~cb.busy /\ wakers = 0
Freed == pc = "freed" => Empty

\* No reference left: no frame outside the pool, nobody inside the code.
LEMMA NoReferences ==
  ASSUME Pool, refcnt = 0
  PROVE  Empty
<1>. DEFINE base == One(pc \notin {"wait", "freed", "leaked"})
            callback == One(cb.busy)
<1>1. 0 = base + Cardinality(Out) + callback + wakers
  BY DEF Pool, Counted
<1>2. base \in Nat /\ callback \in Nat /\ (cb.busy => callback = 1)
  BY DEF One
<1>. HIDE DEF base, callback
<1>3. Out \in SUBSET Frames /\ wakers \in Nat
  BY DEF Out, Pool, TypeOK
<1>4. Cardinality(Out) \in Nat
  BY <1>3, CardSubset
<1>5. Cardinality(Out) = 0 /\ callback = 0 /\ wakers = 0
  <2>1. \A a, b, c, d \in Nat : 0 = a + b + c + d => b = 0 /\ c = 0 /\ d = 0
    OBVIOUS
  <2>2. Cardinality(Out) \in Nat /\ wakers \in Nat
    BY <1>3, <1>4
  <2>. QED  BY <1>1, <1>2, <2>1, <2>2, Zenon
<1>6. Out = {}
  BY <1>3, <1>5, CardSubset
<1>. QED  BY <1>2, <1>5, <1>6 DEF Empty

\* Nothing can leave the pool of a freed link again.
LEMMA FreedStep ==
  ASSUME Phases, Freed, [Next]_vars
  PROVE  Freed'
<1>. SUFFICES ASSUME pc' = "freed" PROVE Empty'
  BY DEF Freed
<1>1. CASE Quiet
  <2>1. pc = "freed" /\ state # "UP"
    BY <1>1, QuietGates DEF gates, Phases, Gates, Over
  <2>2. Out = {} /\ ~cb.busy /\ ~cb.pub /\ cb.next = NoFrame /\ wakers = 0
    BY <2>1 DEF Freed, Empty, Phases, Pool, Shape
  <2>3. \A f \in Frames : loc[f] = "free"
    BY <2>2 DEF Out
  <2>4. Out' = {}
    <3>1. ASSUME NEW f \in Frames PROVE loc'[f] = "free"
      BY <1>1, <2>1, <2>3, QuietMoves DEF Moved, Phases
    <3>. QED  BY <3>1 DEF Out
  <2>5. ring = <<>>
    <3>1. ring \in Seq(Frames) /\ Holds(ring, At("ring"))
      BY DEF Phases, Pool, TypeOK, Shape
    <3>2. ring # <<>> => Head(ring) \in At("ring") /\ Head(ring) \in Frames
      BY <3>1, HoldsTail, Zenon
    <3>. QED  BY <2>3, <3>2 DEF At
  <2>6. ~RingStep
    BY <2>2, <2>5 DEF RingStep, TxComplete, CbRefill, CbRefillFails, CbUnbracket, CbTail
  <2>7. ~ClientStep
    BY <2>1, <2>3, Zenon DEF ClientStep, ClientAlloc, AllocGate, ClientXmit, XmitAdmit, ClientRingTx,
       RingTx, ClientFree, FrameFree
  <2>8. UNCHANGED <<cb, wakers>>
    <3>1. ~FreeTail
      BY <2>2 DEF FreeTail
    <3>2. \/ \E class \in Classes : ClientNospc(class)
          \/ TxReleased \/ KeepaliveNospc \/ \E f \in Frames : FlushOne(f)
          \/ Park \/ ParkCancel \/ Unpark \/ DestroyBegin \/ Destroyed
          \/ UNCHANGED vars
      BY <1>1, <2>6, <2>7, <3>1 DEF Quiet
    <3>. QED
      BY <3>2, Zenon DEF ClientNospc, TxReleased, KeepaliveNospc, FlushOne, Park, ParkCancel,
                  Unpark, DestroyBegin, Destroyed, vars, wake, thread
  <2>. QED  BY <2>2, <2>4, <2>8 DEF Empty
<1>2. ~SessionStep
  BY DEF SessionStep, StepBegin, StepEnd, BringUp, ProbeAlloc, ProbeXmit, ProbeRefused,
     ProbeRingTx, ProbeFree, MaybeUp, DownBegin, thread
<1>3. CASE DownStep
  <2>1. refcnt = 0 /\ UNCHANGED <<pool, cb, wakers>>
    BY <1>3 DEF DownStep, DownDrain, DownFlushed, DownStop, DownStopped, DownNotify,
       DestroyCancel, DestroyPut, DestroyFree, DestroyLeak, wake
  <2>2. Empty
    BY <2>1, NoReferences DEF Phases
  <2>. QED  BY <2>1, <2>2 DEF Empty, Out, pool
<1>. QED  BY <1>1, <1>2, <1>3, NextQuiet

\* The reference count is what keeps the pool alive: when it lets the link be
\* freed, no frame, callback or caller is left (tbframe_link_wait_refs_zero).
THEOREM FreedHolds == Spec => []FreedPoolIsWhole
<1>1. Init => Freed
  BY DEF Init, Freed
<1>2. Phases /\ Freed /\ [Next]_vars => Freed'
  BY FreedStep
<1>3. ASSUME Phases, Freed PROVE FreedPoolIsWhole
  <2>. SUFFICES ASSUME pc = "freed" PROVE Empty /\ hw_active = 0
    BY DEF FreedPoolIsWhole, Empty
  <2>1. Empty
    BY <1>3 DEF Freed
  <2>2. Publishing = {} /\ ~cb.pub
    BY <1>3, <2>1 DEF Empty, Out, Publishing, Phases, Pool, Shape
  <2>3. hw_active = Cardinality(Publishing) + One(cb.pub) /\ Cardinality(Publishing) \in Nat
    BY <1>3, CardSubset DEF Phases, Pool, Counted, Publishing
  <2>4. Publishing \in SUBSET Frames
    BY DEF Publishing
  <2>5. Cardinality(Publishing) = 0 /\ One(cb.pub) = 0
    BY <2>2, <2>4, CardSubset DEF One
  <2>. QED  BY <2>1, <2>3, <2>5
<1>. QED  BY <1>1, <1>2, <1>3, PhasesAlways, PTL DEF Spec

-----------------------------------------------------------------------------
(* The wakeup of a refused producer.                                       *)

Waking == (cb.release => cb.busy) /\ NoLostWakeup

\* -ENOSPC means that some frame is outside the pool.
LEMMA RefusalNeedsFrames ==
  ASSUME Phases, state = "UP", NEW class \in Classes, ~HasSpace(class)
  PROVE  Out # {}
<1>1. data_window >= 1 /\ data_window \in Nat /\ CtrlReserve >= 1 /\ CtrlReserve \in Nat
  BY ReserveAssumption DEF Phases, Gates, Pool, TypeOK
<1>2. CASE \A f \in Frames : loc[f] # "free"
  <2>1. Frames # {}
    BY ReserveAssumption, FS_EmptySet
  <2>. QED  BY <1>2, <2>1 DEF Out
<1>3. CASE ~ \A f \in Frames : loc[f] # "free"
  <2>1. \/ ctrl_inflight \in Nat /\ ctrl_inflight >= 1
        \/ data_inflight \in Nat /\ data_inflight >= 1
    BY <1>1, <1>3 DEF HasSpace, Phases, Pool, TypeOK
  <2>2. /\ ctrl_inflight = Cardinality(ChargedTo("ctrl"))
        /\ data_inflight = Cardinality(ChargedTo("data"))
    BY DEF Phases, Pool, Counted
  <2>3. ChargedTo("ctrl") # {} \/ ChargedTo("data") # {}
    BY <2>1, <2>2, FS_EmptySet
  <2>. QED  BY <2>3 DEF ChargedTo, Out, Phases, Pool, Shape
<1>. QED  BY <1>2, <1>3

\* The window reopens, or nothing that NoLostWakeup counts on goes away.
LEMMA ReturnWakes ==
  ASSUME state = "UP" /\ waiting /\ ~removing /\ ~parked, NoLostWakeup, ~tx_blocked
  PROVE  relwork \/ wakers > 0 \/ cb.release
  BY DEF NoLostWakeup

\* Every return of a frame to the pool reopens the window or finds a wakeup
\* already on its way.
LEMMA WakingStep ==
  ASSUME Phases, Waking, [Next]_vars
  PROVE  Waking'
<1>0. /\ loc \in [Frames -> Locs] /\ wakers \in Nat /\ tx_blocked \in BOOLEAN
      /\ cb \in [busy: BOOLEAN, next: Frames \cup {NoFrame}, release: BOOLEAN,
                 pub: BOOLEAN, nested: BOOLEAN]
      /\ state = "UP" => rings_up /\ running
  BY DEF Phases, Pool, TypeOK, Gates
<1>. DEFINE Up == state = "UP" /\ waiting /\ ~removing /\ ~parked
            Safe == relwork \/ wakers > 0 \/ cb.release \/ (tx_blocked /\ Out # {})
<1>1. Waking => (Up => Safe)
  BY DEF Waking, NoLostWakeup
<1>2. (cb'.release => cb'.busy) /\ (Up' => Safe') => Waking'
  BY DEF Waking, NoLostWakeup
\* Steps that free no frame and take no wakeup away.
<1>3. ASSUME UNCHANGED <<cb, link, relwork, wakers>>, waiting' => waiting,
             tx_blocked => tx_blocked',
             \A f \in Frames : loc[f] # "free" => loc'[f] # "free"
      PROVE  Waking'
  <2>1. Out # {} => Out' # {}
    BY <1>3 DEF Out
  <2>2. Up' => Up
    BY <1>3 DEF link
  <2>3. (Up => Safe) => (Up' => Safe')
    BY <1>3, <2>1, <2>2
  <2>. QED  BY <1>1, <1>2, <1>3, <2>3 DEF Waking
<1>4. ASSUME NEW f \in Frames, FrameFree(f)
      PROVE  Waking'
  <2>1. /\ UNCHANGED <<cb, link, relwork, waiting>>
        /\ IF Reopens THEN wakers' = wakers + 1 ELSE wakers' = wakers
    BY <1>4 DEF FrameFree
  <2>2. Up => Safe
    BY <1>1
  <2>3. Up' => Up
    BY <2>1 DEF link
  <2>4. CASE Reopens
    BY <1>0, <1>2, <2>1, <2>4 DEF Waking
  <2>5. CASE ~Reopens
    <3>1. Up => ~tx_blocked
      BY <2>5 DEF Reopens
    <3>2. Up' => Safe'
      BY <2>1, <2>2, <2>3, <2>5, <3>1
    <3>. QED  BY <1>2, <2>1, <3>2 DEF Waking
  <2>. QED  BY <2>4, <2>5
<1>. HIDE DEF Up, Safe
<1>5. ASSUME NEW f \in Frames, NEW pre_up, XmitAdmit(f, pre_up), UNCHANGED cb
      PROVE  Waking'
  BY <1>0, <1>3, <1>5 DEF XmitAdmit, wake
<1>6. ASSUME NEW f \in Frames, RingTx(f)
      PROVE  Waking'
  BY <1>0, <1>3, <1>6 DEF RingTx, wake
<1>7. ASSUME NEW f \in Frames, NEW class \in Classes, Charge(f, class),
             UNCHANGED <<link, wake, cb>>
      PROVE  Waking'
  BY <1>0, <1>3, <1>7 DEF Charge, wake
<1>8. CASE ClientStep
  BY <1>4, <1>5, <1>6, <1>7, <1>8, Zenon
     DEF ClientStep, ClientAlloc, ClientXmit, ClientRingTx, ClientFree, thread
<1>9. ASSUME NEW class \in Classes, ClientNospc(class)
      PROVE  Waking'
  <2>1. Out # {} /\ tx_blocked' /\ UNCHANGED <<pool, cb>>
    BY <1>9, RefusalNeedsFrames DEF ClientNospc, AllocGate, thread
  <2>. QED  BY <1>2, <2>1 DEF Waking, Safe, Out, pool
<1>10. CASE KeepaliveNospc
  BY <1>3, <1>10 DEF KeepaliveNospc, thread, pool
<1>11. CASE FreeTail \/ TxReleased
  BY <1>0, <1>2, <1>11 DEF FreeTail, TxReleased, Waking, Up, Safe, thread
<1>12. ASSUME NEW f \in Frames, FlushOne(f)
       PROVE  Waking'
  <2>1. state # "UP"
    BY <1>0, <1>12 DEF FlushOne, Phases, Flushing, Gates, Down
  <2>. QED  BY <1>2, <1>12, <2>1 DEF FlushOne, Waking, Up, link, thread
<1>13. CASE Park \/ ParkCancel \/ Unpark \/ DestroyBegin
  <2>1. UNCHANGED cb /\ (Up' => Up /\ UNCHANGED <<relwork, wakers, tx_blocked, loc>>)
    BY <1>0, <1>13 DEF Park, ParkCancel, Unpark, DestroyBegin, Up, link, pool, wake, thread
  <2>2. Up' => Safe'
    BY <1>1, <2>1 DEF Safe, Out
  <2>. QED  BY <1>2, <2>1, <2>2 DEF Waking
<1>14. CASE Destroyed \/ UNCHANGED vars
  BY <1>3, <1>14 DEF Destroyed, vars, pool, wake, thread
<1>15. CASE RingStep
  <2>1. ASSUME NEW canceled \in BOOLEAN, TxComplete(canceled)
        PROVE  Waking'
    <3>1. /\ UNCHANGED <<link, relwork, wakers, waiting>> /\ cb'.busy
          /\ cb'.release = (Reopens /\ ~canceled)
          /\ ~cb.busy /\ (running => ~canceled)
      BY <2>1 DEF TxComplete
    <3>2. Up => Safe /\ running /\ ~removing /\ state = "UP"
      BY <1>0, <1>1 DEF Up
    <3>3. Up => cb'.release \/ relwork \/ wakers > 0
      BY <3>1, <3>2, Zenon DEF Reopens, Waking, Safe
    <3>4. Up' => Up
      BY <3>1 DEF Up, link
    <3>. QED  BY <1>2, <3>1, <3>3, <3>4 DEF Safe
  <2>2. CASE CbRefill \/ CbUnbracket
    <3>1. /\ UNCHANGED <<link, wake>> /\ cb'.release = cb.release /\ cb'.busy = cb.busy
          /\ \A f \in Frames : loc[f] # "free" => loc'[f] # "free"
      BY <1>0, <2>2 DEF CbRefill, CbUnbracket, pool
    <3>2. (Out # {} => Out' # {}) /\ (Up' => Up)
      BY <3>1 DEF Out, Up, link, wake
    <3>. QED  BY <1>1, <1>2, <3>1, <3>2 DEF Safe, Waking, wake
  <2>3. CASE CbRefillFails
    <3>1. state' # "UP" /\ cb'.release = cb.release /\ cb'.busy = cb.busy
      BY <1>0, <2>3 DEF CbRefillFails, link
    <3>. QED  BY <1>2, <3>1 DEF Up, Waking
  <2>4. CASE CbTail
    <3>1. /\ UNCHANGED <<link, pool, tx_blocked, wakers, waiting>>
          /\ ~cb'.release /\ relwork' = (relwork \/ cb.release)
      BY <2>4 DEF CbTail, IdleCb
    <3>2. Up' => Up
      BY <3>1 DEF Up, link
    <3>3. Up => Safe'
      BY <1>1, <3>1, Zenon DEF Safe, Out, pool
    <3>. QED  BY <1>2, <3>1, <3>2, <3>3
  <2>. QED  BY <1>15, <2>1, <2>2, <2>3, <2>4 DEF RingStep
<1>16. CASE SessionStep
  <2>1. CASE StepBegin \/ StepEnd \/ ProbeRefused
    BY <1>3, <2>1, Zenon DEF StepBegin, StepEnd, ProbeRefused, pool, wake
  <2>2. ASSUME NEW remote \in RemoteEntries, NEW started \in BOOLEAN, BringUp(remote, started)
        PROVE  Waking'
    <3>1. state' # "UP" /\ UNCHANGED cb
      BY <1>0, <2>2 DEF BringUp, thread
    <3>. QED  BY <1>2, <3>1 DEF Up, Waking
  <2>3. ASSUME NEW f \in Frames, ProbeAlloc(f)
        PROVE  Waking'
    BY <1>7, <2>3 DEF ProbeAlloc, Classes
  <2>4. CASE ProbeXmit \/ ProbeRingTx \/ ProbeFree
    <3>1. keepalive \in Frames
      BY <2>4, Zenon DEF ProbeXmit, ProbeRingTx, ProbeFree, Phases, Pool, Shape
    <3>. QED  BY <1>4, <1>5, <1>6, <2>4, <3>1, Zenon DEF ProbeXmit, ProbeRingTx, ProbeFree
  <2>5. CASE MaybeUp
    BY <1>2, <2>5 DEF MaybeUp, Up, Waking
  <2>6. ASSUME NEW for \in {"bounce", "destroy"}, DownBegin(for)
        PROVE  Waking'
    BY <1>2, <2>6 DEF DownBegin, Up, Waking
  <2>. QED  BY <1>16, <2>1, <2>2, <2>3, <2>4, <2>5, <2>6 DEF SessionStep
<1>17. CASE DownStep
  <2>1. state # "UP"
    BY <1>17 DEF DownStep, DownDrain, DownFlushed, DownStop, DownStopped, DownNotify,
       DestroyCancel, DestroyPut, DestroyFree, DestroyLeak, Phases, Gates, Down, Over
  <2>2. state' # "UP" /\ UNCHANGED cb
    BY <1>17, <2>1 DEF DownStep, DownDrain, DownFlushed, DownStop, DownStopped, DownNotify,
       DestroyCancel, DestroyPut, DestroyFree, DestroyLeak, link
  <2>. QED  BY <1>2, <2>2 DEF Up, Waking
<1>. QED
  BY <1>8, <1>9, <1>10, <1>11, <1>12, <1>13, <1>14, <1>15, <1>16, <1>17, NextQuiet DEF Quiet

\* tbframe_frame_free() and tbframe_core_tx_complete() never lose the wakeup of
\* a producer that was refused on an established session.
THEOREM WakeupHolds == Spec => []NoLostWakeup
<1>1. Init => Waking
  BY DEF Init, IdleCb, Waking, NoLostWakeup
<1>2. Phases /\ Waking /\ [Next]_vars => Waking'
  BY WakingStep
<1>3. Waking => NoLostWakeup
  BY DEF Waking
<1>. QED  BY <1>1, <1>2, <1>3, PhasesAlways, PTL DEF Spec
=============================================================================
