--------------------------- MODULE TbframeTxProofs ---------------------------
(***************************************************************************)
(* The safety properties of TbframeTx, for every pool, reserve and budget  *)
(* that the assumptions allow.  They rest on the exact counters            *)
(* (TbframeTxCounts!Pool) and on what each phase of the session thread     *)
(* guarantees.                                                             *)
(***************************************************************************)
EXTENDS TbframeTxCounts

Down == {"drain", "flush", "stop", "stopping", "notify"}
Over == {"cancel", "put", "wait", "freed", "leaked", "retained"}

\* The session state, the admission gate and the ring agree.
Gates ==
    /\ state = "UP" => rings_up /\ running
    /\ rings_up => data_window >= 1 /\ pc \notin Down \cup Over
    /\ ~rings_up /\ pc \notin {"drain", "flush", "stop"} => ~running

\* Between two sessions the ring is empty and no callback is running.
Fenced ==
    ~rings_up /\ pc \notin {"drain", "flush", "stop", "stopping"}
      => ring = <<>> /\ ~cb.busy

\* Where a backlog may be on its way out.
Flushing ==
    /\ pc \in {"flush", "stop", "stopping", "notify"}
         => txq_ctrl = <<>> /\ txq_data = <<>>
    /\ \A f \in Frames : loc[f] = "flush" => pc = "flush"
    /\ \A f \in Frames : loc[f] = "cbflush" => cb.busy /\ ~running

\* The prober holds a control frame.
Prober ==
    /\ pc \in {"kxmit", "kfree"}
         => loc[keepalive] = "owned" /\ charged[keepalive] = "ctrl"
    /\ pc = "kpost" => loc[keepalive] = "posting" /\ charged[keepalive] = "ctrl"

\* Before UP only the prober's control frames are posted, and they never fill
\* the budget.
PreUp ==
    pc \notin Down /\ state = "INIT"
      => /\ txq_ctrl = <<>> /\ txq_data = <<>>
         /\ \A f \in Posted : charged[f] = "ctrl"

\* The admission windows.
Bounds ==
    /\ data_window + CtrlReserve <= Cardinality(Frames)
    /\ data_inflight + CtrlReserve <= Cardinality(Frames)
    /\ ctrl_inflight <= CtrlReserve

-----------------------------------------------------------------------------
(* Steps that leave the session thread and the link's gates alone.         *)

gates == <<state, rings_up, running, data_window, pc>>

Quiet ==
    \/ ClientStep
    \/ \E class \in Classes : ClientNospc(class)
    \/ FreeTail \/ TxReleased \/ RingStep \/ KeepaliveNospc
    \/ \E f \in Frames : FlushOne(f)
    \/ Park \/ ParkCancel \/ Unpark \/ DestroyBegin \/ Destroyed
    \/ UNCHANGED vars

\* Only the session thread moves the gates.
LEMMA QuietGates ==
  ASSUME Quiet
  PROVE  UNCHANGED <<gates, keepalive, final>>
<1>. USE DEF gates, link, thread
<1>1. CASE ClientStep
  BY <1>1, Zenon DEF ClientStep, ClientAlloc, ClientXmit, XmitAdmit, ClientRingTx, RingTx,
              ClientFree, FrameFree
<1>2. CASE \E class \in Classes : ClientNospc(class)
  BY <1>2 DEF ClientNospc
<1>3. CASE FreeTail \/ TxReleased \/ KeepaliveNospc
  BY <1>3, Zenon DEF FreeTail, TxReleased, KeepaliveNospc
<1>4. CASE RingStep
  BY <1>4 DEF RingStep, TxComplete, CbRefill, CbRefillFails, CbUnbracket, CbTail
<1>5. CASE \E f \in Frames : FlushOne(f)
  BY <1>5 DEF FlushOne
<1>6. CASE Park \/ ParkCancel \/ Unpark \/ DestroyBegin \/ Destroyed \/ UNCHANGED vars
  BY <1>6 DEF Park, ParkCancel, Unpark, DestroyBegin, Destroyed, vars
<1>. QED  BY <1>1, <1>2, <1>3, <1>4, <1>5, <1>6 DEF Quiet

\* A step is one of the session thread or leaves the gates alone.
LEMMA NextQuiet == [Next]_vars <=> Quiet \/ SessionStep \/ DownStep
  BY DEF Next, Quiet

\* tbframe_link_window() is at least one and leaves the reserve.
LEMMA WindowBounds ==
  ASSUME NEW remote \in RemoteEntries
  PROVE  Window(remote) \in Nat /\ Window(remote) >= 1
         /\ Window(remote) + CtrlReserve <= Cardinality(Frames)
  BY RemoteAssumption, ReserveAssumption, FramesAssumption, FS_CardinalityType DEF Window

\* Bring-up opens the admission gate after the ring started, teardown closes it
\* before the ring stops.
LEMMA GatesStep ==
  ASSUME TypeOK, Gates, [Next]_vars
  PROVE  Gates'
<1>. USE DEF Gates, Down, Over
<1>1. CASE Quiet
  BY <1>1, QuietGates DEF gates
<1>2. CASE StepBegin \/ StepEnd
  BY <1>2 DEF StepBegin, StepEnd, link
<1>3. ASSUME NEW remote \in RemoteEntries, NEW started \in BOOLEAN, BringUp(remote, started)
      PROVE  Gates'
  BY <1>3, WindowBounds DEF BringUp, thread
<1>4. ASSUME NEW f \in Frames, ProbeAlloc(f)
      PROVE  Gates'
  BY <1>4 DEF ProbeAlloc, link
<1>5. CASE ProbeXmit \/ ProbeRefused
  <2>1. UNCHANGED link /\ pc = "kxmit" /\ pc' \in {"probed", "kpost", "kfree"}
    BY <1>5, Zenon DEF ProbeXmit, XmitAdmit, ProbeRefused
  <2>. QED  BY <2>1 DEF link
<1>6. CASE ProbeRingTx \/ ProbeFree
  BY <1>6 DEF ProbeRingTx, RingTx, ProbeFree, FrameFree, link
<1>7. CASE MaybeUp
  BY <1>7 DEF MaybeUp
<1>8. ASSUME NEW for \in {"bounce", "destroy"}, DownBegin(for)
      PROVE  Gates'
  BY <1>8 DEF DownBegin
<1>9. CASE DownStep
  BY <1>9 DEF DownStep, DownDrain, DownFlushed, DownStop, DownStopped, DownNotify,
              DestroyCancel, DestroyPut, DestroyFree, DestroyLeak, link
<1>. QED
  BY <1>1, <1>2, <1>3, <1>4, <1>5, <1>6, <1>7, <1>8, <1>9, NextQuiet DEF SessionStep

-----------------------------------------------------------------------------
(* How a step may move frames between places.                              *)

\* The frame at the head of the ring, and the refill, are where they seem.
LEMMA CompletedAndNext ==
  ASSUME Pool, NEW canceled \in BOOLEAN, TxComplete(canceled)
  PROVE  /\ Head(ring) \in Frames /\ loc[Head(ring)] = "ring"
         /\ Refill # NoFrame => /\ Refill \in Frames
                               /\ loc[Refill] \in {"ctrlq", "dataq"}
                               /\ Refill # Head(ring)
<1>1. ring \in Seq(Frames) /\ ring # <<>> /\ Holds(ring, At("ring"))
  BY DEF TxComplete, TypeOK, Shape, Pool
<1>2. Head(ring) \in Frames /\ Head(ring) \in At("ring")
  BY <1>1, HoldsTail
<1>3. /\ txq_ctrl \in Seq(Frames) /\ Holds(txq_ctrl, At("ctrlq"))
      /\ txq_data \in Seq(Frames) /\ Holds(txq_data, At("dataq"))
  BY DEF TypeOK, Shape, Pool
<1>4. /\ txq_ctrl # <<>> => Head(txq_ctrl) \in Frames /\ Head(txq_ctrl) \in At("ctrlq")
      /\ txq_data # <<>> => Head(txq_data) \in Frames /\ Head(txq_data) \in At("dataq")
  BY <1>3, HoldsTail, Zenon
<1>. QED  BY <1>2, <1>4 DEF At, Refill

\* What a completion does to each frame.
LEMMA CompleteMoves ==
  ASSUME Pool, NEW canceled \in BOOLEAN, TxComplete(canceled), NEW g \in Frames
  PROVE  /\ \/ g = Head(ring) /\ loc'[g] = "free"
            \/ /\ g = Refill /\ ~canceled /\ loc[g] \in {"ctrlq", "dataq"}
               /\ loc'[g] = "refill"
            \/ canceled /\ loc[g] \in {"ctrlq", "dataq"} /\ loc'[g] = "cbflush"
            \/ g # Head(ring) /\ loc'[g] = loc[g]
         /\ g # Head(ring) => charged'[g] = charged[g]
<1>. DEFINE f == Head(ring)
            next == IF canceled THEN NoFrame ELSE Refill
            spliced == canceled /\ Budget > 0
<1>1. /\ loc' = [h \in Frames |->
                 CASE h = f -> "free"
                   [] h # f /\ h = next -> "refill"
                   [] h # f /\ h # next /\ spliced
                        /\ loc[h] \in {"ctrlq", "dataq"} -> "cbflush"
                   [] OTHER -> loc[h]]
      /\ charged' = [charged EXCEPT ![f] = "none"]
  BY DEF TxComplete, Uncharge
<1>2. g = next => ~canceled /\ next = Refill /\ loc[g] \in {"ctrlq", "dataq"}
  BY CompletedAndNext, FramesAssumption
<1>3. g # f => charged'[g] = charged[g]
  BY <1>1 DEF Pool, TypeOK
<1>. HIDE DEF f, next
<1>4. \/ g = f /\ loc'[g] = "free"
      \/ g # f /\ g = next /\ loc'[g] = "refill"
      \/ g # f /\ spliced /\ loc[g] \in {"ctrlq", "dataq"} /\ loc'[g] = "cbflush"
      \/ g # f /\ loc'[g] = loc[g]
  BY <1>1
<1>. QED  BY <1>2, <1>3, <1>4 DEF f

\* tb_ring_stop() waits for the ring worker, and nothing reaches a stopped ring.
LEMMA FencedStep ==
  ASSUME Pool, Gates, Fenced, [Next]_vars
  PROVE  Fenced'
<1>. SUFFICES ASSUME ~rings_up', pc' \notin {"drain", "flush", "stop", "stopping"}
              PROVE  ring' = <<>> /\ ~cb'.busy
  BY DEF Fenced
<1>. DEFINE Was == ~rings_up /\ pc \notin {"drain", "flush", "stop", "stopping"}
<1>0. Was => ring = <<>> /\ ~cb.busy /\ ~running /\ cb.next = NoFrame /\ ~cb.pub
  BY DEF Fenced, Gates, Pool, Shape
<1>1. CASE Quiet
  <2>1. Was
    BY <1>1, QuietGates DEF gates
  <2>2. CASE ClientStep
    BY <2>2, <2>1, <1>0, Zenon DEF ClientStep, ClientAlloc, ClientXmit, XmitAdmit,
       ClientRingTx, RingTx, ClientFree, FrameFree, thread
  <2>3. CASE RingStep
    BY <2>3, <2>1, <1>0 DEF RingStep, TxComplete, CbRefill, CbRefillFails, CbUnbracket, CbTail
  <2>4. CASE ~ClientStep /\ ~RingStep
    <3>1. UNCHANGED <<ring, cb>>
      BY <1>1, <2>4, Zenon DEF Quiet, ClientNospc, FreeTail, TxReleased, KeepaliveNospc,
         FlushOne, Park, ParkCancel, Unpark, DestroyBegin, Destroyed, vars, pool, thread
    <3>. QED  BY <1>0, <2>1, <3>1
  <2>. QED  BY <2>2, <2>3, <2>4
<1>2. CASE SessionStep
  <2>1. ASSUME NEW remote \in RemoteEntries, NEW started \in BOOLEAN, BringUp(remote, started)
        PROVE  FALSE
    BY <2>1 DEF BringUp
  <2>2. ASSUME NEW for \in {"bounce", "destroy"}, DownBegin(for)
        PROVE  FALSE
    BY <2>2 DEF DownBegin
  <2>3. CASE StepBegin \/ StepEnd \/ ProbeRefused \/ MaybeUp
    BY <1>0, <2>3, Zenon DEF StepBegin, StepEnd, ProbeRefused, MaybeUp, link, pool
  <2>4. CASE (\E f \in Frames : ProbeAlloc(f)) \/ ProbeFree
    BY <1>0, <2>4, Zenon DEF ProbeAlloc, ProbeFree, FrameFree, link
  <2>5. CASE ProbeXmit
    <3>1. pc = "kxmit" /\ UNCHANGED <<rings_up, ring, cb>>
      BY <2>5 DEF ProbeXmit, XmitAdmit, link
    <3>. QED  BY <1>0, <3>1
  <2>6. CASE ProbeRingTx
    <3>1. pc = "kpost" /\ UNCHANGED <<rings_up, cb>> /\ (~running => ring' = ring)
      BY <2>6 DEF ProbeRingTx, RingTx, link
    <3>. QED  BY <1>0, <3>1
  <2>. QED  BY <1>2, <2>1, <2>2, <2>3, <2>4, <2>5, <2>6 DEF SessionStep
<1>3. CASE DownStep
  <2>1. CASE \E disconnected, quarantined \in BOOLEAN : DownStopped(disconnected, quarantined)
    BY <2>1 DEF DownStopped, pool
  <2>2. CASE DownNotify \/ DestroyCancel \/ DestroyPut \/ DestroyFree \/ DestroyLeak
    BY <1>0, <2>2 DEF DownNotify, DestroyCancel, DestroyPut, DestroyFree, DestroyLeak,
       link, pool
  <2>3. CASE (\E expired \in BOOLEAN : DownDrain(expired)) \/ DownFlushed \/ DownStop
    BY <2>3 DEF DownDrain, DownFlushed, DownStop
  <2>. QED  BY <1>3, <2>1, <2>2, <2>3 DEF DownStep
<1>. QED  BY <1>1, <1>2, <1>3, NextQuiet

\* Where a frame may go while the session thread does nothing.
Moved(g) ==
    \/ loc'[g] = loc[g]
    \/ loc[g] = "free" /\ loc'[g] = "owned" /\ state = "UP"
    \/ /\ loc[g] = "owned" /\ g # keepalive
       /\ \/ state = "UP" /\ loc'[g] \in {"ctrlq", "dataq", "posting"}
          \/ loc'[g] = "free"
    \/ loc[g] = "posting" /\ g # keepalive /\ loc'[g] \in {"ring", "owned"}
    \/ loc[g] \in {"ring", "refill", "flush", "cbflush"} /\ loc'[g] = "free"
    \/ loc[g] \in {"ctrlq", "dataq"} /\ loc'[g] = "refill"
    \/ loc[g] \in {"ctrlq", "dataq"} /\ loc'[g] = "cbflush" /\ ~running /\ cb'.busy
    \/ loc[g] = "refill" /\ loc'[g] = "ring"

\* Outside the session thread a frame only moves along the edges of Moved.
LEMMA QuietMoves ==
  ASSUME Pool, Quiet, NEW g \in Frames
  PROVE  Moved(g) /\ (loc[g] # "free" /\ loc'[g] # "free" => charged'[g] = charged[g])
<1>. USE DEF Moved
<1>0. loc \in [Frames -> Locs] /\ charged \in [Frames -> Classes \cup {"none"}]
  BY DEF Pool, TypeOK
<1>1. ASSUME NEW f \in Frames, NEW class \in Classes, ClientAlloc(f, class)
      PROVE  Moved(g) /\ (loc[g] # "free" => charged'[g] = charged[g])
  BY <1>0, <1>1 DEF ClientAlloc, Charge, AllocGate
<1>2. ASSUME NEW f \in Frames, ClientXmit(f)
      PROVE  Moved(g) /\ charged' = charged
  BY <1>0, <1>2 DEF ClientXmit, XmitAdmit, XmitGate
<1>3. ASSUME NEW f \in Frames, ClientRingTx(f)
      PROVE  Moved(g) /\ charged' = charged
  BY <1>0, <1>3 DEF ClientRingTx, RingTx
<1>4. ASSUME NEW f \in Frames, ClientFree(f)
      PROVE  Moved(g) /\ (loc'[g] # "free" => charged'[g] = charged[g])
  BY <1>0, <1>4 DEF ClientFree, FrameFree, Uncharge
<1>5. ASSUME NEW f \in Frames, FlushOne(f)
      PROVE  Moved(g) /\ (loc'[g] # "free" => charged'[g] = charged[g])
  BY <1>0, <1>5 DEF FlushOne, Uncharge
<1>6. ASSUME NEW canceled \in BOOLEAN, TxComplete(canceled)
      PROVE  Moved(g) /\ (loc'[g] # "free" => charged'[g] = charged[g])
  <2>1. (canceled => ~running) /\ cb'.busy
    BY <1>6 DEF TxComplete
  <2>2. loc[Head(ring)] = "ring"
    BY <1>6, CompletedAndNext
  <2>. QED  BY <1>6, <2>1, <2>2, CompleteMoves
<1>7. CASE CbRefill
  BY <1>0, <1>7 DEF CbRefill, Pool, Shape
<1>8. CASE CbRefillFails
  BY <1>0, <1>8 DEF CbRefillFails, Uncharge, Pool, Shape
<1>9. CASE CbUnbracket \/ CbTail
  BY <1>9 DEF CbUnbracket, CbTail, pool
<1>10. CASE \/ \E class \in Classes : ClientNospc(class)
            \/ FreeTail \/ TxReleased \/ KeepaliveNospc
            \/ Park \/ ParkCancel \/ Unpark \/ DestroyBegin \/ Destroyed
            \/ UNCHANGED vars
  BY <1>10, Zenon DEF ClientNospc, FreeTail, TxReleased, KeepaliveNospc, Park, ParkCancel,
               Unpark, DestroyBegin, Destroyed, vars, pool
<1>. HIDE DEF Moved
<1>. QED
  BY <1>1, <1>2, <1>3, <1>4, <1>5, <1>6, <1>7, <1>8, <1>9, <1>10
     DEF Quiet, ClientStep, RingStep

\* The queues grow only on an established session.
LEMMA QuietQueues ==
  ASSUME Pool, Quiet, state # "UP"
  PROVE  /\ txq_ctrl = <<>> => txq_ctrl' = <<>>
         /\ txq_data = <<>> => txq_data' = <<>>
<1>1. CASE ClientStep
  BY <1>1 DEF ClientStep, ClientAlloc, AllocGate, ClientXmit, XmitAdmit, XmitGate,
              ClientRingTx, RingTx, ClientFree, FrameFree
<1>2. ASSUME NEW canceled \in BOOLEAN, TxComplete(canceled)
      PROVE  /\ txq_ctrl = <<>> => txq_ctrl' = <<>>
             /\ txq_data = <<>> => txq_data' = <<>>
  BY <1>2 DEF TxComplete, Refill
<1>3. CASE CbRefill \/ CbRefillFails \/ CbUnbracket \/ CbTail
  BY <1>3 DEF CbRefill, CbRefillFails, CbUnbracket, CbTail, pool
<1>4. CASE ~ClientStep /\ ~RingStep
  BY <1>4, Zenon DEF Quiet, ClientNospc, FreeTail, TxReleased, KeepaliveNospc, FlushOne, Park,
     ParkCancel, Unpark, DestroyBegin, Destroyed, vars, pool
<1>. QED  BY <1>1, <1>2, <1>3, <1>4 DEF RingStep

\* A backlog that was taken out of the queues is returned before the teardown
\* goes on, and none appears meanwhile.
LEMMA FlushingStep ==
  ASSUME Pool, Gates, Fenced, Flushing, [Next]_vars
  PROVE  Flushing'
<1>0. /\ loc \in [Frames -> Locs]
      /\ pc \in {"flush", "stop", "stopping", "notify"}
           => txq_ctrl = <<>> /\ txq_data = <<>> /\ state # "UP"
  BY DEF Pool, TypeOK, Flushing, Gates, Down
<1>1. CASE Quiet
  <2>1. UNCHANGED <<running, pc>>
    BY <1>1, QuietGates DEF gates
  <2>2. pc' \in {"flush", "stop", "stopping", "notify"}
           => txq_ctrl' = <<>> /\ txq_data' = <<>>
    BY <1>0, <1>1, <2>1, QuietQueues
  <2>3. ASSUME NEW f \in Frames
        PROVE  loc'[f] = "flush" => loc[f] = "flush"
    BY <1>1, QuietMoves DEF Moved
  <2>4. ASSUME NEW f \in Frames, loc'[f] = "cbflush"
        PROVE  cb'.busy /\ ~running
    <3>1. CASE loc[f] # "cbflush"
      BY <1>1, <2>4, <3>1, QuietMoves DEF Moved
    <3>2. CASE loc[f] = "cbflush"
      <4>1. cb.busy /\ ~running
        BY <3>2 DEF Flushing
      <4>2. ~CbTail
        BY <3>2 DEF CbTail
      <4>3. CASE ClientStep
        BY <4>1, <4>3, Zenon DEF ClientStep, ClientAlloc, ClientXmit, ClientRingTx, RingTx,
           ClientFree, FrameFree, thread
      <4>4. CASE RingStep
        BY <4>1, <4>2, <4>4, Zenon DEF RingStep, TxComplete, CbRefill, CbRefillFails,
           CbUnbracket, Pool, TypeOK
      <4>5. CASE ~ClientStep /\ ~RingStep
        BY <1>1, <4>1, <4>5, Zenon DEF Quiet, ClientNospc, FreeTail, TxReleased, KeepaliveNospc,
           FlushOne, Park, ParkCancel, Unpark, DestroyBegin, Destroyed, vars, thread
      <4>. QED  BY <4>1, <4>3, <4>4, <4>5
    <3>. QED  BY <3>1, <3>2
  <2>. QED  BY <2>1, <2>2, <2>3, <2>4 DEF Flushing
<1>2. CASE SessionStep
  <2>1. ASSUME NEW f \in Frames, loc[f] \in {"flush", "cbflush"}, pc \notin Down
        PROVE  loc[f] = "cbflush" /\ cb.busy /\ ~running /\ rings_up
    BY <2>1 DEF Flushing, Fenced, Down
  <2>2. CASE StepBegin \/ StepEnd \/ ProbeRefused
    <3>1. /\ pc \notin Down /\ pc' \notin Down
          /\ UNCHANGED <<loc, txq_ctrl, txq_data, cb, running>>
      BY <2>2, Zenon DEF StepBegin, StepEnd, ProbeRefused, link, pool, Down
    <3>. QED  BY <3>1 DEF Flushing, Down
  <2>9. CASE MaybeUp
    BY <2>9 DEF Flushing, MaybeUp, pool
  <2>3. ASSUME NEW remote \in RemoteEntries, NEW started \in BOOLEAN, BringUp(remote, started)
        PROVE  Flushing'
    BY <2>3, <2>1 DEF Flushing, BringUp, pool, thread, Down
  <2>4. ASSUME NEW f \in Frames, ProbeAlloc(f)
        PROVE  Flushing'
    BY <1>0, <2>4 DEF Flushing, ProbeAlloc, Charge, link
  <2>5. CASE ProbeXmit
    <3>1. pc = "kxmit" /\ pc' \in {"probed", "kpost"} /\ UNCHANGED <<cb, running>>
      BY <2>5 DEF ProbeXmit, XmitAdmit, link
    <3>2. ASSUME NEW f \in Frames
          PROVE  loc'[f] \in {"flush", "cbflush"} => loc'[f] = loc[f]
      BY <1>0, <2>5 DEF ProbeXmit, XmitAdmit
    <3>. QED  BY <3>1, <3>2 DEF Flushing
  <2>6. CASE ProbeRingTx
    <3>1. pc = "kpost" /\ pc' \in {"probed", "kfree"} /\ UNCHANGED <<cb, running>>
      BY <2>6 DEF ProbeRingTx, RingTx, link
    <3>2. ASSUME NEW f \in Frames
          PROVE  loc'[f] \in {"flush", "cbflush"} => loc'[f] = loc[f]
      BY <1>0, <2>6 DEF ProbeRingTx, RingTx
    <3>. QED  BY <3>1, <3>2 DEF Flushing
  <2>7. CASE ProbeFree
    BY <1>0, <2>7 DEF Flushing, ProbeFree, FrameFree, link
  <2>8. ASSUME NEW for \in {"bounce", "destroy"}, DownBegin(for)
        PROVE  Flushing'
    BY <2>8 DEF Flushing, DownBegin, pool
  <2>. QED  BY <1>2, <2>2, <2>3, <2>4, <2>5, <2>6, <2>7, <2>8, <2>9 DEF SessionStep
<1>3. CASE DownStep
  <2>1. ASSUME NEW expired \in BOOLEAN, DownDrain(expired)
        PROVE  Flushing'
    BY <1>0, <2>1 DEF Flushing, DownDrain
  <2>2. CASE DownFlushed \/ DownStop
    BY <1>0, <2>2 DEF Flushing, DownFlushed, DownStop, pool, link
  <2>3. CASE \E disconnected, quarantined \in BOOLEAN : DownStopped(disconnected, quarantined)
    BY <1>0, <2>3 DEF Flushing, DownStopped, pool
  <2>4. CASE DownNotify \/ DestroyCancel \/ DestroyPut \/ DestroyFree \/ DestroyLeak
    BY <1>0, <2>4 DEF Flushing, DownNotify, DestroyCancel, DestroyPut, DestroyFree,
       DestroyLeak, link, pool
  <2>. QED  BY <1>3, <2>1, <2>2, <2>3, <2>4 DEF DownStep
<1>. QED  BY <1>1, <1>2, <1>3, NextQuiet

\* Nobody else touches the frame the prober holds.
LEMMA ProberStep ==
  ASSUME Pool, Prober, [Next]_vars
  PROVE  Prober'
<1>0. /\ loc \in [Frames -> Locs] /\ charged \in [Frames -> Classes \cup {"none"}]
      /\ pc \in {"kxmit", "kpost", "kfree"} => keepalive \in Frames
  BY DEF Pool, TypeOK, Shape
<1>1. CASE Quiet
  <2>1. UNCHANGED <<pc, keepalive>>
    BY <1>1, QuietGates DEF gates
  <2>2. keepalive \in Frames /\ loc[keepalive] \in {"owned", "posting"}
          => loc'[keepalive] = loc[keepalive] /\ charged'[keepalive] = charged[keepalive]
    BY <1>1, QuietMoves DEF Moved
  <2>. QED  BY <1>0, <2>1, <2>2 DEF Prober
<1>2. CASE SessionStep
  <2>1. ASSUME NEW f \in Frames, ProbeAlloc(f)
        PROVE  Prober'
    BY <1>0, <2>1 DEF Prober, ProbeAlloc, Charge
  <2>2. CASE ProbeXmit
    <3>1. CASE OverBudget
      BY <2>2, <3>1 DEF Prober, ProbeXmit
    <3>2. CASE ~OverBudget
      BY <1>0, <2>2, <3>2 DEF Prober, ProbeXmit, XmitAdmit
    <3>. QED  BY <3>1, <3>2
  <2>3. CASE ProbeRefused
    BY <2>3 DEF Prober, ProbeRefused, pool
  <2>4. CASE ProbeRingTx
    BY <1>0, <2>4 DEF Prober, ProbeRingTx, RingTx
  <2>5. CASE StepBegin \/ StepEnd \/ ProbeFree \/ MaybeUp
    BY <2>5 DEF Prober, StepBegin, StepEnd, ProbeFree, MaybeUp
  <2>6. ASSUME NEW for \in {"bounce", "destroy"}, DownBegin(for)
        PROVE  Prober'
    BY <2>6 DEF Prober, DownBegin
  <2>7. ASSUME NEW remote \in RemoteEntries, NEW started \in BOOLEAN, BringUp(remote, started)
        PROVE  Prober'
    BY <2>7 DEF Prober, BringUp, thread
  <2>. QED  BY <1>2, <2>1, <2>2, <2>3, <2>4, <2>5, <2>6, <2>7 DEF SessionStep
<1>3. CASE DownStep
  BY <1>3 DEF Prober, DownStep, DownDrain, DownFlushed, DownStop, DownStopped, DownNotify,
              DestroyCancel, DestroyPut, DestroyFree, DestroyLeak
<1>. QED  BY <1>1, <1>2, <1>3, NextQuiet

-----------------------------------------------------------------------------
(* The admission windows.                                                  *)

\* Only an allocation raises a counter of the admission windows.
LEMMA BoundsStep ==
  ASSUME Pool, Bounds, [Next]_vars
  PROVE  Bounds'
<1>0. /\ data_window \in Nat /\ ctrl_inflight \in Nat /\ data_inflight \in Nat
      /\ CtrlReserve \in Nat /\ Cardinality(Frames) \in Nat
  BY FramesAssumption, ReserveAssumption, FS_CardinalityType DEF Pool, TypeOK
<1>. DEFINE Lower == /\ data_window' = data_window
                     /\ ctrl_inflight' \in {ctrl_inflight, ctrl_inflight - 1}
                     /\ data_inflight' \in {data_inflight, data_inflight - 1}
<1>1. Lower => Bounds'
  BY <1>0 DEF Bounds
<1>2. ASSUME NEW f \in Frames, NEW class \in Classes, Charge(f, class), HasSpace(class),
             data_window' = data_window
      PROVE  Bounds'
  BY <1>0, <1>2 DEF Bounds, Charge, HasSpace, Classes
<1>3. CASE ClientStep
  <2>1. ASSUME NEW f \in Frames, NEW class \in Classes, ClientAlloc(f, class)
        PROVE  Bounds'
    BY <1>2, <2>1 DEF ClientAlloc, link
  <2>2. ASSUME NEW f \in Frames, ClientXmit(f) \/ ClientRingTx(f) \/ ClientFree(f)
        PROVE  Lower
    BY <1>0, <2>2, Zenon DEF ClientXmit, XmitAdmit, ClientRingTx, RingTx, ClientFree, FrameFree,
       Uncharge, link
  <2>. HIDE DEF Lower
  <2>. QED  BY <1>1, <1>3, <2>1, <2>2 DEF ClientStep
<1>4. CASE RingStep
  <2>1. Lower
    BY <1>0, <1>4 DEF RingStep, TxComplete, CbRefill, CbRefillFails, CbUnbracket, CbTail,
       Uncharge, link, count
  <2>. QED  BY <1>1, <2>1
<1>5. CASE Quiet /\ ~ClientStep /\ ~RingStep
  <2>1. Lower
    BY <1>0, <1>5, Zenon DEF Quiet, ClientNospc, FreeTail, TxReleased, KeepaliveNospc, FlushOne,
       Park, ParkCancel, Unpark, DestroyBegin, Destroyed, Uncharge, vars, link, count
  <2>. QED  BY <1>1, <2>1
<1>6. CASE SessionStep
  <2>1. ASSUME NEW remote \in RemoteEntries, NEW started \in BOOLEAN, BringUp(remote, started)
        PROVE  Bounds'
    <3>1. data_window' = Window(remote) /\ UNCHANGED count
      BY <2>1 DEF BringUp
    <3>. QED  BY <3>1, WindowBounds DEF Bounds, count
  <2>2. ASSUME NEW f \in Frames, ProbeAlloc(f)
        PROVE  Bounds'
    BY <1>2, <2>2 DEF ProbeAlloc, link, Classes
  <2>3. CASE StepBegin \/ StepEnd \/ ProbeRefused \/ MaybeUp
    BY <1>1, <2>3, Zenon DEF StepBegin, StepEnd, ProbeRefused, MaybeUp, link, count
  <2>4. CASE ProbeXmit \/ ProbeRingTx \/ ProbeFree
    <3>1. Lower
      BY <1>0, <2>4, Zenon DEF ProbeXmit, XmitAdmit, ProbeRingTx, RingTx, ProbeFree, FrameFree,
         Uncharge, link
    <3>. QED  BY <1>1, <3>1
  <2>5. ASSUME NEW for \in {"bounce", "destroy"}, DownBegin(for)
        PROVE  Bounds'
    BY <1>1, <2>5 DEF DownBegin, count
  <2>. QED  BY <1>6, <2>1, <2>2, <2>3, <2>4, <2>5 DEF SessionStep
<1>7. CASE DownStep
  <2>1. Lower
    BY <1>0, <1>7 DEF DownStep, DownDrain, DownFlushed, DownStop, DownStopped, DownNotify,
       DestroyCancel, DestroyPut, DestroyFree, DestroyLeak, link, count
  <2>. QED  BY <1>1, <2>1
<1>. QED  BY <1>3, <1>4, <1>5, <1>6, <1>7, NextQuiet

-----------------------------------------------------------------------------
(* Teardown.                                                               *)

\* An empty list holds no frame.
LEMMA NothingQueued ==
  ASSUME Pool, NEW f \in Frames
  PROVE  /\ txq_ctrl = <<>> => loc[f] # "ctrlq"
         /\ txq_data = <<>> => loc[f] # "dataq"
         /\ ring = <<>> => loc[f] # "ring"
         /\ ~cb.pub => loc[f] # "refill"
<1>1. ASSUME NEW place, Holds(<<>>, At(place))
      PROVE  loc[f] # place
  BY <1>1 DEF Holds, At
<1>2. ~cb.pub => loc[f] # "refill"
  BY FramesAssumption DEF Pool, Shape
<1>. QED  BY <1>1, <1>2 DEF Pool, Shape

\* A drain that did not expire left no publisher behind, and nobody becomes one
\* before the next session.
LEMMA DrainedStep ==
  ASSUME Pool, Gates, Flushing, RingOutlivesPublishers, [Next]_vars
  PROVE  RingOutlivesPublishers'
<1>. DEFINE Late == {"flush", "stop", "stopping", "notify"}
<1>1. CASE Quiet
  <2>. SUFFICES ASSUME pc' \in Late, state' # "DEAD", NEW f \in Frames,
                       loc'[f] \in {"posting", "refill"}
                PROVE  FALSE
    BY DEF RingOutlivesPublishers
  <2>1. pc \in Late /\ state # "DEAD"
    BY <1>1, QuietGates DEF gates
  <2>2. state # "UP" /\ loc[f] \notin {"ctrlq", "dataq"}
    BY <2>1, NothingQueued DEF Flushing, Gates, Down
  <2>3. loc[f] \notin {"posting", "refill"}
    BY <2>1 DEF RingOutlivesPublishers
  <2>. QED  BY <1>1, <2>2, <2>3, QuietMoves DEF Moved
<1>2. CASE SessionStep
  <2>1. pc' \notin Late
    BY <1>2, Zenon DEF SessionStep, StepBegin, StepEnd, BringUp, ProbeAlloc, ProbeXmit,
       ProbeRefused, ProbeRingTx, ProbeFree, MaybeUp, DownBegin, thread
  <2>. QED  BY <2>1 DEF RingOutlivesPublishers
<1>3. ASSUME NEW expired \in BOOLEAN, DownDrain(expired)
      PROVE  RingOutlivesPublishers'
  <2>. SUFFICES ASSUME ~expired
                PROVE  \A f \in Frames : loc'[f] \notin {"posting", "refill"}
    BY <1>3 DEF DownDrain, RingOutlivesPublishers
  <2>1. hw_active = 0
    BY <1>3 DEF DownDrain
  <2>2. /\ hw_active = Cardinality(Publishing) + One(cb.pub)
        /\ IsFiniteSet(Publishing) /\ Cardinality(Publishing) \in Nat
    BY FramesAssumption, FS_Subset, FS_CardinalityType
       DEF Pool, Counted, Publishing
  <2>3. ~cb.pub /\ Cardinality(Publishing) = 0
    BY <2>1, <2>2 DEF One
  <2>4. Publishing = {}
    BY <2>2, <2>3, FS_EmptySet
  <2>5. \A f \in Frames : loc[f] \notin {"posting", "refill"}
    BY <2>3, <2>4, NothingQueued DEF Publishing
  <2>. QED  BY <1>3, <2>5 DEF DownDrain
<1>4. CASE DownFlushed \/ DownStop
  <2>1. pc \in {"flush", "stop"} /\ UNCHANGED <<state, loc>>
    BY <1>4 DEF DownFlushed, DownStop, link, pool
  <2>. QED  BY <2>1 DEF RingOutlivesPublishers
<1>5. CASE \E disconnected, quarantined \in BOOLEAN : DownStopped(disconnected, quarantined)
  BY <1>5 DEF RingOutlivesPublishers, DownStopped, pool
<1>6. CASE DownNotify \/ DestroyCancel \/ DestroyPut \/ DestroyFree \/ DestroyLeak
  BY <1>6 DEF RingOutlivesPublishers, DownNotify, DestroyCancel, DestroyPut, DestroyFree,
     DestroyLeak
<1>. QED  BY <1>1, <1>2, <1>3, <1>4, <1>5, <1>6, NextQuiet DEF DownStep

\* What the phases of a teardown leave at link_down().
LEMMA NothingInFlight ==
  ASSUME Pool, Gates, Fenced, Flushing, RingOutlivesPublishers
  PROVE  DownLeavesNothingInFlight
<1>. SUFFICES ASSUME pc = "notify"
              PROVE  /\ ring = <<>> /\ txq_ctrl = <<>> /\ txq_data = <<>> /\ ~cb.busy
                     /\ \A f \in Frames : loc[f] \in {"free", "owned"}
                                            \/ (state = "DEAD" /\ loc[f] = "posting")
  BY DEF DownLeavesNothingInFlight
<1>1. ring = <<>> /\ txq_ctrl = <<>> /\ txq_data = <<>> /\ ~cb.busy /\ ~cb.pub
  BY DEF Gates, Down, Fenced, Flushing, Pool, Shape
<1>2. ASSUME NEW f \in Frames
      PROVE  loc[f] \in {"free", "owned"} \/ (state = "DEAD" /\ loc[f] = "posting")
  <2>1. loc[f] \in Locs /\ loc[f] \notin {"ctrlq", "dataq", "ring", "refill"}
    BY <1>1, NothingQueued DEF Pool, TypeOK
  <2>2. loc[f] \notin {"flush", "cbflush"}
    BY <1>1 DEF Flushing
  <2>3. loc[f] = "posting" => state = "DEAD"
    BY DEF RingOutlivesPublishers
  <2>. QED  BY <2>1, <2>2, <2>3 DEF Locs
<1>. QED  BY <1>1, <1>2

-----------------------------------------------------------------------------
(* The residency budget.                                                   *)

\* Before UP the prober never finds the budget full.
LEMMA PreUpHasRoom ==
  ASSUME Pool, Bounds, Prober, PreUp, pc = "kxmit", state = "INIT"
  PROVE  ~OverBudget
<1>. DEFINE K == Posted \cup {keepalive}
<1>1. keepalive \in Frames /\ loc[keepalive] = "owned" /\ charged[keepalive] = "ctrl"
  BY DEF Pool, Shape, Prober
<1>2. K \subseteq ChargedTo("ctrl") /\ keepalive \notin Posted
  BY <1>1 DEF PreUp, Down, ChargedTo, Posted
<1>3. IsFiniteSet(Posted) /\ IsFiniteSet(ChargedTo("ctrl"))
      /\ Cardinality(Posted) \in Nat
  BY FramesAssumption, FS_Subset, FS_CardinalityType DEF Posted, ChargedTo
<1>4. Cardinality(K) = Cardinality(Posted) + 1
  BY <1>2, <1>3, FS_AddElement, Zenon
<1>5. Cardinality(K) <= Cardinality(ChargedTo("ctrl"))
  BY <1>2, <1>3, FS_Subset
<1>6. ring_posted = Cardinality(Posted) /\ ctrl_inflight = Cardinality(ChargedTo("ctrl"))
  BY DEF Pool, Counted
<1>7. ring_posted + 1 <= CtrlReserve
  BY <1>3, <1>4, <1>5, <1>6, ReserveAssumption DEF Bounds, Pool, TypeOK
<1>. QED  BY <1>3, <1>6, <1>7, BudgetAssumption, ReserveAssumption DEF OverBudget

\* Nobody but the prober posts before UP.
LEMMA PreUpStep ==
  ASSUME Pool, Gates, Fenced, Flushing, Prober, PreUp, Bounds, RingOutlivesPublishers,
         [Next]_vars
  PROVE  PreUp'
<1>. SUFFICES ASSUME pc' \notin Down, state' = "INIT"
              PROVE  /\ txq_ctrl' = <<>> /\ txq_data' = <<>>
                     /\ \A f \in Posted' : charged'[f] = "ctrl"
  BY DEF PreUp
<1>0. loc \in [Frames -> Locs] /\ charged \in [Frames -> Classes \cup {"none"}]
  BY DEF Pool, TypeOK
<1>. DEFINE Was == pc \notin Down /\ state = "INIT"
<1>1. Was => /\ txq_ctrl = <<>> /\ txq_data = <<>>
             /\ \A f \in Frames : loc[f] \in {"posting", "ring", "refill"}
                                     => charged[f] = "ctrl"
  BY DEF PreUp, Posted
<1>2. CASE Quiet
  <2>1. Was
    BY <1>2, QuietGates DEF gates
  <2>2. txq_ctrl' = <<>> /\ txq_data' = <<>>
    BY <1>1, <1>2, <2>1, QuietQueues
  <2>3. ASSUME NEW f \in Frames, loc'[f] \in {"posting", "ring", "refill"}
        PROVE  charged'[f] = "ctrl"
    <3>1. loc[f] \notin {"ctrlq", "dataq"}
      BY <1>1, <2>1, NothingQueued
    <3>2. loc[f] \in {"posting", "ring", "refill"} /\ charged'[f] = charged[f]
      BY <1>2, <2>1, <2>3, <3>1, QuietMoves DEF Moved
    <3>. QED  BY <1>1, <2>1, <3>2
  <2>. QED  BY <2>2, <2>3 DEF Posted
<1>3. CASE SessionStep
  <2>1. CASE StepBegin \/ StepEnd \/ ProbeRefused
    <3>1. Was /\ UNCHANGED pool
      BY <2>1, Zenon DEF StepBegin, StepEnd, ProbeRefused, link, Down
    <3>. QED  BY <1>1, <3>1 DEF pool, Posted
  <2>2. ASSUME NEW remote \in RemoteEntries, NEW started \in BOOLEAN, BringUp(remote, started)
        PROVE  Was /\ UNCHANGED pool
    BY <2>2 DEF BringUp, Down
  <2>3. ASSUME NEW f \in Frames, ProbeAlloc(f)
        PROVE  /\ txq_ctrl' = <<>> /\ txq_data' = <<>>
               /\ \A g \in Posted' : charged'[g] = "ctrl"
    <3>1. Was
      BY <2>3 DEF ProbeAlloc, link, Down
    <3>. QED  BY <1>0, <1>1, <2>3, <3>1 DEF ProbeAlloc, Charge, Posted
  <2>4. CASE ProbeXmit
    <3>1. pc = "kxmit" /\ state = "INIT"
      BY <2>4 DEF ProbeXmit, XmitAdmit, link
    <3>2. ~OverBudget
      BY <3>1, PreUpHasRoom
    <3>3. /\ loc' = [loc EXCEPT ![keepalive] = "posting"]
          /\ UNCHANGED <<txq_ctrl, txq_data, charged>>
      BY <2>4, <3>2 DEF ProbeXmit, XmitAdmit
    <3>4. Was /\ charged[keepalive] = "ctrl"
      BY <3>1 DEF Prober, Down
    <3>. QED  BY <1>0, <1>1, <3>3, <3>4 DEF Posted
  <2>5. CASE ProbeRingTx
    <3>1. Was
      BY <2>5 DEF ProbeRingTx, RingTx, link, Down
    <3>. QED  BY <1>0, <1>1, <2>5, <3>1 DEF ProbeRingTx, RingTx, Posted
  <2>6. CASE ProbeFree
    <3>1. Was
      BY <2>6 DEF ProbeFree, FrameFree, link, Down
    <3>. QED  BY <1>0, <1>1, <2>6, <3>1 DEF ProbeFree, FrameFree, Uncharge, Posted
  <2>7. ~MaybeUp /\ ~ \E for \in {"bounce", "destroy"} : DownBegin(for)
    BY DEF MaybeUp, DownBegin, Down
  <2>8. Was /\ UNCHANGED pool => /\ txq_ctrl' = <<>> /\ txq_data' = <<>>
                                 /\ \A f \in Posted' : charged'[f] = "ctrl"
    BY <1>1 DEF pool, Posted
  <2>. HIDE DEF Was
  <2>. QED  BY <1>3, <2>1, <2>2, <2>3, <2>4, <2>5, <2>6, <2>7, <2>8 DEF SessionStep
<1>4. CASE DownNotify
  <2>1. pc = "notify" /\ state = "INIT" /\ UNCHANGED pool
    BY <1>4 DEF DownNotify, link
  <2>2. /\ txq_ctrl = <<>> /\ txq_data = <<>>
        /\ \A f \in Frames : loc[f] \in {"free", "owned"}
    BY <2>1, NothingInFlight DEF DownLeavesNothingInFlight
  <2>. QED  BY <2>1, <2>2 DEF pool, Posted
<1>5. CASE DestroyCancel \/ DestroyPut \/ DestroyFree \/ DestroyLeak
  <2>1. Was /\ UNCHANGED pool
    BY <1>5 DEF DestroyCancel, DestroyPut, DestroyFree, DestroyLeak, link, Down
  <2>. QED  BY <1>1, <2>1 DEF pool, Posted
<1>6. CASE \/ \E expired \in BOOLEAN : DownDrain(expired)
           \/ DownFlushed \/ DownStop
           \/ \E disconnected, quarantined \in BOOLEAN : DownStopped(disconnected, quarantined)
  BY <1>6 DEF DownDrain, DownFlushed, DownStop, DownStopped, Down
<1>. QED  BY <1>2, <1>3, <1>4, <1>5, <1>6, NextQuiet DEF DownStep

\* The one-in-one-out refill keeps a backlog behind a full budget.
LEMMA BacklogStep ==
  ASSUME Pool, Gates, PreUp, BacklogBehindBudget, [Next]_vars
  PROVE  BacklogBehindBudget'
<1>0. ring_posted \in Nat /\ Budget \in Nat
  BY BudgetAssumption DEF Pool, TypeOK
<1>. DEFINE Same == UNCHANGED <<state, txq_ctrl, txq_data, ring_posted>>
<1>1. Same => BacklogBehindBudget'
  BY DEF BacklogBehindBudget
<1>2. ASSUME NEW f \in Frames, NEW pre_up, XmitAdmit(f, pre_up)
      PROVE  BacklogBehindBudget'
  <2>1. UNCHANGED state
    BY <1>2 DEF XmitAdmit, link
  <2>2. CASE OverBudget
    <3>1. Budget > 0 /\ ring_posted = Budget
      BY <1>0, <2>2 DEF OverBudget, BacklogBehindBudget
    <3>2. ring_posted' = ring_posted
      BY <1>2, <2>2 DEF XmitAdmit
    <3>. QED  BY <1>0, <3>1, <3>2 DEF BacklogBehindBudget
  <2>3. CASE ~OverBudget
    <3>1. ring_posted' = ring_posted + 1 /\ UNCHANGED <<txq_ctrl, txq_data>>
      BY <1>2, <2>3 DEF XmitAdmit
    <3>2. Budget > 0 => ring_posted < Budget
      BY <1>0, <2>3 DEF OverBudget
    <3>. QED  BY <1>0, <2>1, <3>1, <3>2 DEF BacklogBehindBudget
  <2>. QED  BY <2>2, <2>3
<1>3. ASSUME NEW f \in Frames, RingTx(f)
      PROVE  BacklogBehindBudget'
  BY <1>0, <1>3 DEF RingTx, BacklogBehindBudget, Gates, link
<1>4. CASE ClientStep
  <2>1. ASSUME NEW f \in Frames, (\E class \in Classes : ClientAlloc(f, class)) \/ ClientFree(f)
        PROVE  Same
    BY <2>1, Zenon DEF ClientAlloc, ClientFree, FrameFree, link
  <2>. HIDE DEF Same
  <2>. QED  BY <1>1, <1>2, <1>3, <1>4, <2>1, Zenon DEF ClientStep, ClientXmit, ClientRingTx
<1>5. ASSUME NEW canceled \in BOOLEAN, TxComplete(canceled)
      PROVE  BacklogBehindBudget'
  <2>1. UNCHANGED state /\ ring_posted' \in {ring_posted, ring_posted - 1}
    BY <1>5 DEF TxComplete, link
  <2>2. CASE state = "UP"
    <3>1. rings_up /\ ~canceled
      BY <1>5, <2>2 DEF Gates, TxComplete
    <3>2. CASE Refill = NoFrame
      <4>1. UNCHANGED <<txq_ctrl, txq_data>>
        BY <1>5, <3>1, <3>2 DEF TxComplete
      <4>2. Budget > 0 => txq_ctrl = <<>> /\ txq_data = <<>>
        <5>1. ASSUME txq_ctrl # <<>> PROVE Head(txq_ctrl) \in Frames
          BY <5>1 DEF Pool, TypeOK
        <5>2. ASSUME txq_data # <<>> PROVE Head(txq_data) \in Frames
          BY <5>2 DEF Pool, TypeOK
        <5>. QED  BY <2>2, <3>1, <3>2, <5>1, <5>2, FramesAssumption DEF Refill
      <4>. QED  BY <1>0, <2>1, <4>1, <4>2 DEF BacklogBehindBudget
    <3>3. CASE Refill # NoFrame
      <4>1. ring_posted' = ring_posted /\ Budget > 0 /\ (txq_ctrl # <<>> \/ txq_data # <<>>)
        BY <1>5, <3>1, <3>3 DEF TxComplete, Refill
      <4>. QED  BY <1>0, <2>2, <4>1 DEF BacklogBehindBudget
    <3>. QED  BY <3>2, <3>3
  <2>3. CASE state # "UP"
    BY <1>0, <2>1, <2>3 DEF BacklogBehindBudget
  <2>. QED  BY <2>2, <2>3
<1>6. CASE CbRefillFails
  <2>1. state' # "UP" /\ ring_posted' = ring_posted - 1
    BY <1>6 DEF CbRefillFails, Gates, link
  <2>. QED  BY <1>0, <2>1 DEF BacklogBehindBudget
<1>7. CASE CbRefill \/ CbUnbracket \/ CbTail
  BY <1>1, <1>7 DEF CbRefill, CbUnbracket, CbTail, link, pool, count
<1>8. CASE Quiet /\ ~ClientStep /\ ~RingStep
  <2>1. Same
    BY <1>8, Zenon DEF Quiet, ClientNospc, FreeTail, TxReleased, KeepaliveNospc, FlushOne,
       Park, ParkCancel, Unpark, DestroyBegin, Destroyed, vars, link, pool, count
  <2>. QED  BY <1>1, <2>1
<1>9. CASE SessionStep
  <2>1. keepalive \in Frames => /\ ProbeXmit => BacklogBehindBudget'
                                /\ ProbeRingTx => BacklogBehindBudget'
    BY <1>2, <1>3, Zenon DEF ProbeXmit, ProbeRingTx
  <2>2. CASE ProbeXmit \/ ProbeRingTx
    BY <2>1, <2>2, Zenon DEF ProbeXmit, ProbeRingTx, Pool, Shape
  <2>3. CASE StepBegin \/ StepEnd \/ ProbeRefused
    BY <1>1, <2>3, Zenon DEF StepBegin, StepEnd, ProbeRefused, link, pool, count
  <2>4. CASE (\E f \in Frames : ProbeAlloc(f)) \/ ProbeFree
    BY <1>1, <2>4, Zenon DEF ProbeAlloc, ProbeFree, FrameFree, link
  <2>5. CASE MaybeUp
    <3>1. txq_ctrl = <<>> /\ txq_data = <<>>
      BY <2>5 DEF MaybeUp, PreUp, Down
    <3>. QED  BY <2>5, <3>1 DEF MaybeUp, BacklogBehindBudget, pool, count
  <2>6. ASSUME NEW for \in {"bounce", "destroy"}, DownBegin(for)
        PROVE  BacklogBehindBudget'
    BY <2>6 DEF DownBegin, BacklogBehindBudget, count
  <2>7. ASSUME NEW remote \in RemoteEntries, NEW started \in BOOLEAN, BringUp(remote, started)
        PROVE  BacklogBehindBudget'
    BY <1>1, <2>7 DEF BringUp, pool, count
  <2>. QED  BY <1>9, <2>2, <2>3, <2>4, <2>5, <2>6, <2>7 DEF SessionStep
<1>10. CASE DownStep
  <2>1. state = "UP" => FALSE
    BY <1>10, Zenon DEF DownStep, DownDrain, DownFlushed, DownStop, DownStopped, DownNotify,
       DestroyCancel, DestroyPut, DestroyFree, DestroyLeak, Gates, Down, Over
  <2>2. ring_posted' = ring_posted /\ state' # "UP"
    BY <1>10, <2>1, Zenon DEF DownStep, DownDrain, DownFlushed, DownStop, DownStopped, DownNotify,
       DestroyCancel, DestroyPut, DestroyFree, DestroyLeak, link, count
  <2>. QED  BY <2>2 DEF BacklogBehindBudget
<1>. QED  BY <1>4, <1>5, <1>6, <1>7, <1>8, <1>9, <1>10, NextQuiet DEF RingStep

-----------------------------------------------------------------------------
(* The phases together, and what follows from them.                        *)

Phases ==
    /\ Pool /\ Gates /\ Fenced /\ Flushing /\ Prober /\ PreUp /\ Bounds
    /\ RingOutlivesPublishers /\ BacklogBehindBudget

\* The phases hold of a new link.
LEMMA PhasesInit == Init => Phases
<1>. SUFFICES ASSUME Init PROVE Phases
  OBVIOUS
<1>1. Pool
  BY PoolInit
<1>2. Gates /\ Fenced /\ Flushing /\ Prober
  BY DEF Init, IdleCb, Gates, Down, Over, Fenced, Flushing, Prober
<1>3. PreUp /\ RingOutlivesPublishers
  BY DEF Init, PreUp, Posted, RingOutlivesPublishers
<1>4. Bounds
  BY FramesAssumption, FS_CardinalityType, ReserveAssumption DEF Init, Bounds
<1>5. BacklogBehindBudget
  BY BudgetAssumption DEF Init, BacklogBehindBudget
<1>. QED  BY <1>1, <1>2, <1>3, <1>4, <1>5 DEF Phases

\* Every step keeps them.
LEMMA PhasesStep == Phases /\ [Next]_vars => Phases'
<1>. SUFFICES ASSUME Phases, [Next]_vars PROVE Phases'
  OBVIOUS
<1>1. Pool'
  BY PoolStep DEF Phases
<1>2. Gates' /\ Fenced' /\ Flushing' /\ Prober' /\ Bounds'
  BY GatesStep, FencedStep, FlushingStep, ProberStep, BoundsStep DEF Phases, Pool
<1>3. PreUp' /\ RingOutlivesPublishers' /\ BacklogBehindBudget'
  BY PreUpStep, DrainedStep, BacklogStep DEF Phases
<1>. QED  BY <1>1, <1>2, <1>3 DEF Phases

\* The phases are an invariant.
LEMMA PhasesAlways == Spec => []Phases
  BY PhasesInit, PhasesStep, PTL DEF Spec

\* Ring residency never exceeds tx_ring_budget, and on an established session a
\* software backlog only exists behind a full budget, so some completion is
\* still to come and will feed it.
THEOREM BacklogHolds == Spec => []BacklogBehindBudget
<1>1. Phases => BacklogBehindBudget
  BY DEF Phases
<1>. QED  BY <1>1, PhasesAlways, PTL

\* No publisher is caught between its state check and ring_tx() by the ring
\* stop of tbframe_link_down_session(), unless the drain expired.
THEOREM RingOutlivesHolds == Spec => []RingOutlivesPublishers
<1>1. Phases => RingOutlivesPublishers
  BY DEF Phases
<1>. QED  BY <1>1, PhasesAlways, PTL

\* At link_down() no frame is on the ring, in a queue or with a publisher of a
\* live link.
THEOREM DownHolds == Spec => []DownLeavesNothingInFlight
<1>1. Phases => DownLeavesNothingInFlight
  BY NothingInFlight DEF Phases
<1>. QED  BY <1>1, PhasesAlways, PTL

\* While the control reserve has room, the pool has a frame for control: the
\* data window was sized to leave it one.
THEOREM ControlHolds == Spec => []ControlNeverStarved
<1>1. ASSUME Phases PROVE ControlNeverStarved
  <2>. SUFFICES ASSUME \A f \in Frames : loc[f] # "free"
                PROVE  ctrl_inflight >= CtrlReserve
    BY <1>1, ReserveAssumption DEF ControlNeverStarved, Phases, Pool, TypeOK
  <2>. DEFINE C == ChargedTo("ctrl")
              D == ChargedTo("data")
  <2>1. IsFiniteSet(C) /\ IsFiniteSet(D) /\ Cardinality(C) \in Nat /\ Cardinality(D) \in Nat
    BY FramesAssumption, FS_Subset, FS_CardinalityType DEF ChargedTo
  <2>2. \A f \in Frames : charged[f] \in Classes
    BY <1>1 DEF Phases, Pool, Shape, TypeOK
  <2>3. C \cup D = Frames /\ C \cap D = {}
    BY <2>2 DEF ChargedTo, Classes
  <2>4. Cardinality(C \cup D) = Cardinality(C) + Cardinality(D) - Cardinality(C \cap D)
    BY <2>1, FS_Union
  <2>5. Cardinality(C \cap D) = 0 /\ Cardinality(C \cup D) = Cardinality(Frames)
    BY <2>3, FS_EmptySet, Zenon
  <2>6. ctrl_inflight = Cardinality(C) /\ data_inflight = Cardinality(D)
    BY <1>1 DEF Phases, Pool, Counted
  <2>7. data_inflight + CtrlReserve <= Cardinality(Frames)
    BY <1>1 DEF Phases, Bounds
  <2>. HIDE DEF C, D
  <2>. QED  BY <2>1, <2>4, <2>5, <2>6, <2>7, ReserveAssumption
<1>. QED  BY <1>1, PhasesAlways, PTL
=============================================================================
