# A TLA+ verification of the Thunderbolt frame transport

This directory holds TLA+ models of the drivers under `drivers/`, the TLC
configurations that check them on small instances, and TLAPS proofs of their
most important invariants. Every definition is translated from the C source;
`PROJECT.json` says which lines each one stands for.

## 1. The system

Two hosts are joined by a Thunderbolt/USB4 cable. The repository holds the
drivers of that link, bottom up:

| part | source | role |
|---|---|---|
| NHI rings | `drivers/thunderbolt/nhi.c` | descriptor rings of the host interface; completion callbacks run in one work item per ring |
| control channel | `drivers/thunderbolt/ctl.c` | request/response packets with timeouts and retries |
| XDomain | `drivers/thunderbolt/xdomain.c` | discovery of the other host, its services, and the DMA paths to it; each inbound request is dispatched by a work item |
| connection managers | `tb.c`, `icm.c`, `switch.c`, `tunnel.c`, `path.c`, `usb4.c`, ... | routers, tunnels, bandwidth, firmware interface |
| tbnet | `drivers/net/thunderbolt/main.c` | the network interface over XDomain |
| tbframe | `drivers/thunderbolt_frame/frame/` | a frame service over XDomain: session protocol, transmit pool, receive path, client interface |
| tbrxe | `drivers/thunderbolt_frame/rxe/` | an InfiniBand engine (derived from rxe) whose packets are tbframe frames |
| rdma_rxe override | `drivers/infiniband/sw/rxe/` | the same engine over UDP |

**State and operations of the parts modelled so far.**

* *tbframe link, transmit side.* A pool of frames, two in-flight counters with
  their limits (`data_window`, `TBFRAME_CTRL_RESERVE`), two software queues in
  front of a hardware ring whose residency is bounded by `tx_ring_budget`,
  `hw_active` (publishers), `refcnt`, `tx_blocked` and the `tx_released` work.
  Operations: `tbframe_alloc_frame`, `tbframe_xmit`, `tbframe_frame_free`, the
  ring completion `tbframe_core_tx_complete`, keepalives of the session thread,
  bring-up, teardown, destroy.
* *tbframe session.* Per end: `state`, `local_cookie`, the peer's cookie, the
  HELLO and READY responder snapshots, the handshake flags, `needs_down`, the
  data-path proof. Operations: HELLO, READY, BYE and their acknowledgements,
  keepalives, the verify tick, the teardown.
* *tbframe client and links.* The list of links, one client, per link a session
  work, a timer and a verify work. Operations: register and unregister,
  probe, remove and shutdown of a service, delivery of `link_up` and `link_down`,
  and tbrxe's published device.
* *rxe task.* Task state, work item, `num_sched` and `num_done`, packet queue,
  reference count. Operations: schedule, run, disable, enable, cleanup, packet
  arrival, queue-pair reset and destroy.
* *tbrxe admission.* Per link the charges `unacked` and `fresh_unacked`, the
  window of the session, `admission_waiters` and the credit generation; per queue
  pair the PSN cursors, its credit records, the PSN high water, `need_req_skb`
  and the retransmit timer. Operations: admit, roll back, commit and release of
  charges by requester and completer, retry, the sweep of parked pairs,
  `tx_released`, session bounces, destroy.

**What makes them hard.** Nearly every operation is split by an unlock: the
state is checked under `link->lock` and the ring is called after it; a wakeup is
decided under the lock and queued after it; a reply is chosen in one section and
sent in another. Sessions go down for five independent reasons (verify failure,
replacement HELLO, BYE, client gone, link gone) while traffic, timers and the
other end's recovery go on. Requests may be lost, late and dispatched out of
order. Work items re-arm each other while a destroy joins them one by one. The
`hazards` of `PROJECT.json` list these points at their lines, each with the
properties that would catch it.

## 2. Modules

| module | models | state ↔ code |
|---|---|---|
| `TbframeTx` | the transmit side of one link | variables carry the names of `struct tbframe_link`; `loc` says on which list, ring or thread each frame is; `cb` is the ring worker inside `tbframe_core_tx_complete()`, `pc` the session thread |
| `TbframeTxCounts`, `TbframeTxProofs`, `TbframeTxWakeup` | – | the proofs about `TbframeTx` |
| `TbframeSession` | two ends of a link and the channel between them | `link[n]` is the protocol part of `struct tbframe_link`, `thread[n]` the session thread, `dispatch[n]` the inbound work, `ctrl` and `wire` the packets on their way |
| `TbframeClient` | links, one client and module stop on one host | `links` is `tf->links`, `session[l]` who holds `session_lock` and where, `service[l]` destroy and shutdown, `client` the caller of register and unregister, `record[l]` tbrxe's device |
| `RxeTask` | one queue pair and its responder task | variables carry the names of `struct rxe_task` and `struct rxe_qp`; `verb` is the caller of modify or destroy |
| `RxeTaskProofs` | – | the proofs about `RxeTask` |
| `TbrxeAdmission` | the queue pairs of one device and the window they share | `link` and `qp[q]` are the admission parts of `struct tbrxe_link` and `struct rxe_qp`; `task[q]` is the send task and its place in `rxe_sender()`, `sweep` a pending `tbrxe_kick_parked_qps()`, `blocked` a `tx_released` that tbframe owes, `wire` and `peer` the frames on their way and what the peer has |
| `MC*` | – | symmetry sets and constants for TLC; `MCTbframeTx` adds the history that the order property needs |

One action is one critical section of the lock named in the module's header, or
one call that can block or run concurrently (a call into the ring, one call of
`task->func`, one message). A module's `Mut_*` operators are deliberately wrong
variants of a definition, kept next to it: they show that a property notices the
mistake, and no specification uses them.

`TbframeTx`, `TbframeSession` and `TbframeClient` look at the same
`struct tbframe_link` from three sides, and each leaves open what another
fixes:

* `TbframeTx` lets a session come up and go down whenever the session thread
  likes; why it does is the matter of `TbframeSession` and `TbframeClient`.
* `TbframeSession` lets frames leave the ring at once and has no client, no
  `removing`, `parked` or DEAD.
* `TbframeClient` lets a negotiation succeed, fail or be torn down by the peer
  at any time, and a teardown poison the link.

Likewise `TbrxeAdmission` takes the send task as a work item that runs when it is
queued and never runs twice at a time, which is what `RxeTask` shows, and
tbframe as a service that accepts a frame, refuses it and later calls
`tx_released` (`NoLostWakeup` and `WakeupArrives` of `TbframeTx`), or has no session.

### What the models leave out

* `TbframeTx`: payloads, lengths, statistics. The failure of `ring_tx()` is the
  ring being stopped, which is what `hw.c` returns it for.
* `TbframeSession`: hop ids, ring sizes and capabilities do not change in the
  life of a link and are dropped from the compared identity, leaving the cookie.
  A fresh cookie is the least unused one (64 random bits are assumed never to
  repeat; cookies are only compared for equality). The budgets of probes and of
  HELLO and READY retries are nondeterministic; running out of them is a fault
  of kind `silence`. Fields of a closed session that nothing reads any more are
  reset, so that states do not differ in garbage.
* `TbframeClient`: publication of a device by `tbrxe_client_link_up()` succeeds;
  a client does not register once the system shuts down, and the module stops
  only after its client is gone (module dependency).
  Whether a session that is not UP got far enough to need a teardown is left
  open where a peer's message asks for one.
* `RxeTask`: the 50-second limit of `__rxe_cleanup()`'s wait is not modelled (the
  wait is for the last reference). `send_task` runs the same code and is not
  modelled twice.
* `TbrxeAdmission`: a request is one packet, and each pair posts one batch. PSNs do
  not wrap. The retry count is the unlimited one (7). NAKs, RNR and reset of a pair
  are left out: what a NAK hastens, the timer does. Several queued
  acknowledgements are one, as they are cumulative. The generation of a ledger is
  a Boolean, whether it is the link's. Fields of a flushed pair that nothing reads
  any more are reset. `skb_out` is never incremented in tbrxe, and its test in the
  requester never holds. `alloc_skb()` does not fail. `bounced` and `bounces` are
  history. The fresh window holds at least two packets, as every real ring's does
  (192 at least): with one, a pair that fails after its admission wakes nobody.

## 3. Runs

All bounds are constants of the configurations. Deadlock is checked except in
the `client_*` and `admission*` runs, where the system may come to rest: a link
nobody uses, queue pairs with nothing to send.

| run | instance | shows |
|---|---|---|
| `tx_safety` | 4 frames, reserve 2, budget 2, peer rings of 3 or 4, 1 waker, symmetry on frames, history of accepted data frames | `Accounting`, `ControlNeverStarved`, `BacklogBehindBudget`, `NoLostWakeup`, `DownLeavesNothingInFlight`, `RingOutlivesPublishers`, `FreedPoolIsWhole`, `DataInOrder` |
| `tx_live` | 2 frames, fair threads | `WakeupArrives`: a refused producer is woken while the session lasts and clients free what they allocate; `DestroyReturns`, even if clients never return a frame |
| `tx_freed_work` | one thread inside `tbframe_frame_free()` | *violated*: a freed link can have its work queued |
| `task` | 3 receive contexts, 4 packets, fair | `DirectCallAlone`, `BooksBalance`, `References`, `NoStrandedPacket`, `DestroyLeavesNothing`; `VerbsEnd`: a reset or destroy ends |
| `session_safety` | 2 ends, one fault of any kind, reordering | `UpIsLive`, `ReadyOfPeer`, `UpAgree` |
| `session_converges` | one loss, failed bring-up or restart, requests in order, fair | `Converges`: both ends come up and stay up |
| `session_reordered` | one restart, reordering, fair | *violated*: a HELLO of the old lifetime dispatched last stops both ends for good |
| `client_safety` | 1 link, 2 registrations, 2 bounces, 1 poisoning, stop and shutdown, the link destroyed at any time | `ClosedAtReturn`, `FreedQuiet`, `NoOrphan`, `RecordTracks`, `Watched` |
| `client_live` | 1 link created and destroyed at any time, fair | `CloseReturns`: unregister, destroy and shutdown of one link all return; `Announced`: whenever a client registers, it is told of a link that stays up |
| `client_skipped` | 2 links, one destroyed during an unregistration | *violated*: `ClosedAtReturn` |
| `admission` | 2 queue pairs, 3 requests, windows 2 (no reserve) and 3 (reserve 1), one fault of any kind, symmetry on pairs | `ChargesExact`, `WithinWindow`, `InFlightCharged`, `GoneUncharged`, `NoLostWakeup` |
| `admission_parked` | 2 queue pairs, window 2, one fault, fair | *violated*: `SendsComplete`, by a session bounce that forgets a parked pair |

**Why the bounds suffice.** Four frames with a reserve of two and a budget of two
give every combination that the code distinguishes: ring full with both queues
non-empty, window closed with the reserve open, both closed, peer's ring smaller
than ours (window arithmetic at its edge). What the bounds exclude is covered by
the proofs, which have none. In the session model one fault, at either end (the
ends are alike, so the faults are placed at end A), already exercises every
recovery; seven cookies are enough for it, since the supply never runs out in
the runs. Two registrations and two bounces let a step of the previous session
or client meet the next. Two links are what a walk by position needs to skip one. In the
admission model three requests fill a window of two from both pairs at once, and
one of three from either alone; the constants
of the reserve (128 and 8 in the code) are scaled so that both kinds of window
occur. One fault (a bounce, a loss, an early timeout, a refused frame, a bad buffer or a
destroy) meets every place of the other pair's requester and completer.

**Fairness.** Weak fairness stands for work queues that run what is queued,
threads that go on, rings whose hardware drains them. Faults, the arrival of
traffic, users and cables are never fair. Strong fairness is assumed at two
kinds of place: a caller of `cancel_work_sync()` (an item cannot be queued while
it is being cancelled, so the caller waits for one run at most) and a waiter for
a mutex (handed over to waiters). In `tx_live` clients get no
fairness at all; `WakeupArrives` assumes theirs (`ClientProgress`), `DestroyReturns`
does not.
In the session runs each direction of the data path carries some keepalive
(`VerifyTick` or delivery), since a path that is up carries frames.
In `admission_parked` tasks, timers, the peer and the return of a lost session are
weakly fair; posting is not.

**Disagreements found.** The violated runs are real disagreements between what
a comment or header says and what the code does; `findings` quotes both. The
most serious in effect are `session_reordered` (both ends retry for ever),
`tx_freed_work` (a work item queued on a freed link), `client_skipped` (a
session survives the unregistration of its client) and `admission_parked` (a
posted request is never sent). Five more were met while
modelling; no run is kept for them, and the invariants hold in spite of them:

* `tbframe.h:203` promises that frames on one link complete strictly in order;
  the refill lets control frames overtake queued data frames (`core.c:2056`).
  `DataInOrder` is what does hold.
* `rxe_task.c:208` says that cleanup is only entered with no references left;
  `rxe_destroy_qp()` enters it before the base reference is dropped.
  `DestroyLeavesNothing` is what does hold.
* `core.c:1150` says that the data-path proof is per session. After a teardown by
  the peer the cookie is kept and the sequence numbers start again, so that a
  late frame of the old session can be acknowledged to the new one and complete
  its transmit proof (`core.c:2178`). `UpIsLive` speaks of the flags, not of whose
  frame set them.
* `core.c:1897` says that BYE_ACK certifies silence; between READY and the first
  probe the session thread does not look at `needs_down` and still sends it.
  Likewise a READY that arrives during a teardown may be acknowledged after the
  paths were disabled (`core.c:939`), which `core.c:667` excludes.
* A link created while the client unregisters is not parked and not closed
  (`core.c:2870`), against `tbframe.h:186`; tbrxe sweeps such leftovers itself.

## 4. Proofs

The theorems hold for every value of the constants satisfying the named
assumptions: a finite pool larger than the control reserve, a budget that is
zero or not below the reserve (`TbframeTx`), finitely many receive contexts
(`RxeTask`).

*TbframeTx.* `Accounting` is not inductive: to know that a counter matches the
number of charged frames after a list is moved, one must know that the lists
hold exactly the frames `loc` says, each once. `TbframeTxCounts` therefore proves
`Pool == TypeOK /\ Shape /\ Counted`: `Shape` says what each queue and each
thread holds, `Counted` that the counters are the sizes of those sets.
`TbframeTxProofs` adds the phases of the session (`Gates`: which flags are set at
each step of bring-up and teardown; `Fenced`: no publisher once the rings are
down; `Flushing`, `Drained`: what a teardown has emptied; `Prober`, `PreUp`: how
little is in flight before UP; `Bounds`: the admission limits) and derives
`BacklogBehindBudget`, `RingOutlivesPublishers`, `DownLeavesNothingInFlight`
and `ControlNeverStarved`. `TbframeTxWakeup` derives `FreedPoolIsWhole` from the
exact reference count, and `NoLostWakeup` from the fact that a refusal on an
established session implies a frame outside the pool (`RefusalNeedsFrames`).

*RxeTask.* `IInv` ties the task state to the places of worker and verbs caller
(`Phases`), the outstanding runs to the work item (`Owed`), a non-empty queue to
whoever will schedule the task (`Queued`) and the reference count to its holders
(`References`). Without `Phases` none of the others is inductive: the direct
call of the task function is alone only because a stopped task cannot be
scheduled. The proofs follow the shape of the invariant: one lemma per conjunct,
with one step per action.

*Only model-checked.* All liveness properties (fairness and ENABLED are outside
the prover's reach), the order property (its history is a sequence built by
the run), and everything about `TbframeSession`, `TbframeClient` and
`TbrxeAdmission`, whose invariants have not been proved yet.

## 5. Not modelled, and the plan

`components` of `PROJECT.json` lists every part. Next, in order:

1. `TbframeRx`: receive completion and the references clients hold.
2. `NhiRing` and `Ctl`, below tbframe: ring stop against completion, requests
   against timeouts. `TbframeTx`'s ring is to be related to `NhiRing`'s promises.
3. `Xdomain` and the decision functions of `thunderbolt_negotiation.h`, then
   `TbnetLogin` on top.
4. Proofs for `TbrxeAdmission` (`ChargesExact`, `WithinWindow`), `TbframeSession`
   (`UpIsLive`, `ReadyOfPeer`) and `TbframeClient` (`FreedQuiet`).
5. The rest of the reliable-connection transport of rxe (messages of several
   packets, NAKs, the responder) and its object pool.
6. Connection manager: tunnels, bandwidth, hotplug.

Wire formats, register sequences against one router, diagnostics, user space and
packaging are left out: they hold no concurrent state.
