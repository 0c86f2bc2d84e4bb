--------------------------- MODULE TbframeSession ---------------------------
(***************************************************************************)
(* The session protocol between the two ends of a tbframe link             *)
(* (frame/core.c): HELLO, bring-up, READY, the data-path proof by          *)
(* keepalives, UP, and the teardowns that a verify failure, a replacement  *)
(* HELLO (SUPERSEDE) or a BYE (LOGOUT) cause.                              *)
(*                                                                         *)
(* Each end has a session thread (tbframe_link_session_step, serialised by *)
(* session_lock), a dispatch context for inbound requests (serialised by   *)
(* the core's xdomain_dispatch_lock) and an RX callback.  One action is    *)
(* one critical section of link->lock or one message.  Control requests    *)
(* may be delayed, reordered with other requests, and lost; a response     *)
(* reaches only the request it answers.  The identity of a session is its  *)
(* cookie: hop ids, ring sizes and capabilities never change, and are left *)
(* out.  Frames leave the TX ring at once (TbframeTx has the ring).        *)
(***************************************************************************)
EXTENDS Naturals, FiniteSets

CONSTANTS
    A, B,           \* the two ends
    Cookies,        \* session cookies (64 random bits: never drawn twice)
    Reorder,        \* may a request overtake an older one?
    Kinds,          \* the kinds of fault that may happen,
    Faulty,         \* the ends they may happen at,
    MaxFaults,      \* and, a bound, how many of them
    MaxFrames,      \* bound: keepalives on their way to one end
    MaxByes         \* TBFRAME_BYE_RETRIES

Nodes == {A, B}
Peer(n) == IF n = A THEN B ELSE A

\* No cookie.
None == 0

ASSUME CookiesAssumption == Cookies \subseteq Nat \ {None}
ASSUME NodesAssumption == A # B
ASSUME KindsAssumption ==
    Kinds \subseteq {"loss", "late", "silence", "hardware", "restart"}
ASSUME FaultyAssumption == Faulty \subseteq {A, B} /\ Reorder \in BOOLEAN
ASSUME BoundsAssumption == MaxFaults \in Nat /\ MaxFrames \in Nat /\ MaxByes \in Nat

VARIABLES
    link,       \* struct tbframe_link of each end
    thread,     \* its session thread
    dispatch,   \* its dispatch context: the reply it is about to send
    ctrl,       \* control packets on their way
    wire,       \* keepalive frames on their way
    faults      \* what is left of MaxFaults

vars == <<link, thread, dispatch, ctrl, wire, faults>>

NoReady == [st |-> "WAITING", cur |-> FALSE, peer |-> None]

\* tbframe_link_create()
NewLink(c) ==
    [state |-> "INIT", cookie |-> c, kick |-> TRUE,
     needs_down |-> FALSE, reason |-> "NONE",
     hello_done |-> FALSE, remote |-> None,
     hello_seen |-> None,           \* hello_responder: the peer's last HELLO
     ready |-> NoReady,             \* ready_responder
     request_sent |-> FALSE, peer_seen |-> FALSE,       \* hs
     rings_up |-> FALSE, paths |-> FALSE, tx_quiesced |-> TRUE,
     sent |-> FALSE,                \* keepalive_tx_seq # 0
     heard |-> FALSE,               \* keepalive_peer_seq # 0
     rx_proven |-> FALSE, tx_proven |-> FALSE,
     stale |-> FALSE]               \* stale_drain_active

Idle == [pc |-> "idle", cur |-> FALSE, ready_sent |-> FALSE, bye |-> FALSE,
         byes |-> 0]
NoReply == [op |-> "NONE", cur |-> FALSE]

Requests == {"HELLO", "READY", "BYE"}

\* A control packet, whom it is for, the session that sent it, and whether
\* the request it is or answers is the one its requester is waiting on.
Packet(to, op, cookie, cur) == [to |-> to, op |-> op, cookie |-> cookie, cur |-> cur]

Keepalive(to, cookie, ack) == [to |-> to, cookie |-> cookie, ack |-> ack]

\* A cookie is only ever compared with others: which unused one is drawn does
\* not matter, and the least stands for all of them.
Least(c, S) == c \in S /\ \A d \in S : c <= d

Init ==
    /\ \E c, d \in Cookies :
          /\ Least(c, Cookies) /\ Least(d, Cookies \ {c})
          /\ link = [n \in Nodes |-> NewLink(IF n = A THEN c ELSE d)]
    /\ thread = [n \in Nodes |-> Idle]
    /\ dispatch = [n \in Nodes |-> NoReply]
    /\ ctrl = {} /\ wire = {}
    /\ faults = MaxFaults

-----------------------------------------------------------------------------
(* Helpers.                                                                *)

InUse == UNION {{link[n].cookie, link[n].remote, link[n].hello_seen,
                 link[n].ready.peer} : n \in Nodes}
         \cup {m.cookie : m \in ctrl}
         \cup {k.cookie : k \in wire} \cup {k.ack : k \in wire}

\* tbframe_new_session_cookie(): one that nothing holds.
Fresh(c) == Least(c, Cookies \ InUse)

\* tbframe_link_remote_matches_locked()
Matches(l, cookie) == l.hello_done /\ l.remote = cookie

Complete(l) == l.request_sent /\ l.peer_seen

\* tb_xdomain_handshake_supersede()
Supersede(l) ==
    IF Complete(l) THEN [l EXCEPT !.request_sent = FALSE, !.peer_seen = FALSE]
                   ELSE l

NeedDown(l, reason) ==
    [l EXCEPT !.needs_down = TRUE, !.reason = reason, !.kick = TRUE]

Proven(l) == l.rx_proven /\ l.tx_proven

Goto(n, pc) == thread' = [thread EXCEPT ![n].pc = pc]
Set(n, l) == link' = [link EXCEPT ![n] = l]

\* The session thread sends a request and waits.
Request(n, op, pc) ==
    /\ ctrl' = ctrl \cup {Packet(Peer(n), op, link[n].cookie, TRUE)}
    /\ Goto(n, pc)

Current(m, n) == m.cur /\ IF m.op \in Requests THEN m.to = Peer(n) ELSE m.to = n

\* The thread stops waiting: what is left of the request is stale, and an
\* answer to it will match nothing.
Forget(n, packets) ==
    {IF Current(m, n) THEN [m EXCEPT !.cur = FALSE] ELSE m :
        m \in {m \in packets : Current(m, n) => m.op \in Requests}}

\* The same for what the peer holds of it.
ForgetAtPeer(n, l) == [l EXCEPT ![Peer(n)].ready.cur = FALSE]
ForgetThread(n, t) == [t EXCEPT ![Peer(n)].cur = FALSE]
ForgetReply(n) == dispatch' = [dispatch EXCEPT ![Peer(n)].cur = FALSE]

\* Send a response; one that answers a stale request goes nowhere.
Respond(n, op, cur) ==
    ctrl' = IF cur THEN ctrl \cup {Packet(Peer(n), op, link[n].cookie, TRUE)}
                   ELSE ctrl

\* A fault at end n.
Fault(kind, n) ==
    kind \in Kinds /\ n \in Faulty /\ faults > 0 /\ faults' = faults - 1

\* Nothing that could still answer the outstanding request of n.
Unanswered(n) ==
    /\ \A m \in ctrl : ~Current(m, n)
    /\ ~dispatch[Peer(n)].cur
    /\ ~thread[Peer(n)].cur

-----------------------------------------------------------------------------
(* The session thread: tbframe_link_session_step().                        *)

\* The first section of tbframe_link_down_session().  (remote_cookie and
\* down_reason keep values that nobody reads before they are set again.)
Closed(l, cookie) ==
    [NewLink(cookie) EXCEPT
        !.kick = l.kick, !.paths = l.paths, !.tx_quiesced = l.tx_quiesced]

\* A pending teardown.  The peer owns a SUPERSEDE or LOGOUT, and its handshake
\* already names our cookie; a local one takes a new cookie.
StepDown(n) ==
    /\ thread[n].pc = "idle" /\ link[n].kick /\ link[n].needs_down
    /\ \E c \in Cookies \cup {link[n].cookie} :
          /\ IF link[n].reason = "VERIFY" THEN Fresh(c) ELSE c = link[n].cookie
          /\ Set(n, [Closed(link[n], c) EXCEPT !.kick = FALSE])
    /\ thread' = [thread EXCEPT ![n] =
          [Idle EXCEPT !.pc = "drain",
                       !.bye = /\ link[n].reason = "VERIFY"
                               /\ \/ link[n].state = "UP"
                                  \/ link[n].rings_up /\ link[n].paths]]
    /\ UNCHANGED <<dispatch, ctrl, wire, faults>>

\* TX is quiesced; a teardown the peer cannot know of says BYE.
Drained(n) ==
    /\ thread[n].pc = "drain"
    /\ link' = [link EXCEPT ![n].tx_quiesced = TRUE]
    /\ IF thread[n].bye
         THEN /\ ctrl' = ctrl \cup {Packet(Peer(n), "BYE", link[n].cookie, TRUE)}
              /\ thread' = [thread EXCEPT ![n].pc = "bye", ![n].byes = 1]
         ELSE Goto(n, "disable") /\ UNCHANGED ctrl
    /\ UNCHANGED <<dispatch, wire, faults>>

ByeAcked(n) ==
    /\ thread[n].pc = "bye"
    /\ \E m \in ctrl :
          /\ m.op = "BYE_ACK" /\ m.to = n /\ m.cur
          /\ ctrl' = Forget(n, ctrl \ {m})
    /\ thread' = ForgetThread(n, [thread EXCEPT ![n].pc = "disable"])
    /\ ForgetReply(n)
    /\ link' = ForgetAtPeer(n, link)
    /\ UNCHANGED <<wire, faults>>

\* Mutated form of ByeRetry: one BYE too many.
Mut_ByeRetryOneMore(n) ==
    /\ thread[n].pc = "bye"
    /\ IF Unanswered(n) THEN UNCHANGED faults ELSE Fault("late", n)
    /\ IF thread[n].byes <= MaxByes
         THEN /\ ctrl' = ctrl \cup {Packet(Peer(n), "BYE", link[n].cookie, TRUE)}
              /\ thread' = [thread EXCEPT ![n].byes = @ + 1]
              /\ UNCHANGED <<link, dispatch>>
         ELSE /\ ctrl' = Forget(n, ctrl)
              /\ thread' = ForgetThread(n, [thread EXCEPT ![n].pc = "disable"])
              /\ link' = ForgetAtPeer(n, link)
              /\ ForgetReply(n)
    /\ UNCHANGED wire

\* A retry is the same request: an answer to an earlier one serves.
ByeRetry(n) ==
    /\ thread[n].pc = "bye"
    /\ IF Unanswered(n) THEN UNCHANGED faults ELSE Fault("late", n)
    /\ IF thread[n].byes < MaxByes
         THEN /\ ctrl' = ctrl \cup {Packet(Peer(n), "BYE", link[n].cookie, TRUE)}
              /\ thread' = [thread EXCEPT ![n].byes = @ + 1]
              /\ UNCHANGED <<link, dispatch>>
         ELSE /\ ctrl' = Forget(n, ctrl)
              /\ thread' = ForgetThread(n, [thread EXCEPT ![n].pc = "disable"])
              /\ link' = ForgetAtPeer(n, link)
              /\ ForgetReply(n)
    /\ UNCHANGED wire

\* Disable the paths, stop the rings, tell the client, and kick the retry.
DownDisable(n) ==
    /\ thread[n].pc = "disable"
    /\ link' = [link EXCEPT ![n].paths = FALSE, ![n].kick = TRUE]
    /\ thread' = [thread EXCEPT ![n] = Idle]
    /\ UNCHANGED <<dispatch, ctrl, wire, faults>>

\* The step of a session that has no peer yet: HELLO.
StepHello(n) ==
    /\ thread[n].pc = "idle" /\ link[n].kick
    /\ ~link[n].needs_down /\ ~link[n].hello_done
    /\ link' = [link EXCEPT ![n].kick = FALSE]
    /\ ctrl' = ctrl \cup {Packet(Peer(n), "HELLO", link[n].cookie, TRUE)}
    /\ thread' = [thread EXCEPT ![n] =
          [Idle EXCEPT !.pc = "hello", !.ready_sent = link[n].request_sent]]
    /\ UNCHANGED <<dispatch, wire, faults>>

\* Mutated form of ApplyHello: a READY remembered from another lifetime counts.
Mut_ApplyHelloKeepsReady(l, cookie) ==
    [l EXCEPT !.remote = cookie, !.hello_done = TRUE,
              !.peer_seen = @ \/ l.ready.st # "WAITING"]

\* The last section of tbframe_link_hello_once(): the peer, and what becomes
\* of a READY that came before its HELLO_ACK.
ApplyHello(l, cookie) ==
    LET known == [l EXCEPT !.remote = cookie, !.hello_done = TRUE]
    IN  IF l.ready.st = "WAITING" THEN known
        ELSE IF l.ready.peer = cookie THEN [known EXCEPT !.peer_seen = TRUE]
        ELSE [known EXCEPT !.ready = NoReady, !.peer_seen = FALSE]

\* -ESTALE: the peer restarted while the request was on its way.
HelloStale(l, cookie) == l.hello_seen # None /\ l.hello_seen # cookie

\* The thread receives the answer to its request.
Answer(n, pc, op, cookie) ==
    /\ thread[n].pc = pc
    /\ \E m \in ctrl : /\ m.op = op /\ m.to = n /\ m.cur /\ m.cookie = cookie
                       /\ ctrl' = Forget(n, ctrl \ {m})
    /\ ForgetReply(n)
    /\ UNCHANGED <<wire, faults>>

HelloAck(n) == \E c \in Cookies :
    /\ Answer(n, "hello", "HELLO_ACK", c)
    /\ IF HelloStale(link[n], c)
         THEN /\ link' = ForgetAtPeer(n, [link EXCEPT ![n].kick = TRUE])
              /\ thread' = ForgetThread(n, [thread EXCEPT ![n] = Idle])
         ELSE /\ link' = ForgetAtPeer(n, [link EXCEPT ![n] = ApplyHello(@, c)])
              /\ thread' = ForgetThread(n, [thread EXCEPT ![n].pc = "bring"])

\* A session step that finds the peer known.
StepKnown(n) ==
    /\ thread[n].pc = "idle" /\ link[n].kick
    /\ ~link[n].needs_down /\ link[n].hello_done
    /\ link' = [link EXCEPT ![n].kick = FALSE]
    /\ thread' = [thread EXCEPT ![n] =
          [Idle EXCEPT !.pc = IF link[n].rings_up THEN "flush" ELSE "bring",
                       !.ready_sent = link[n].request_sent]]
    /\ UNCHANGED <<dispatch, ctrl, wire, faults>>

\* tbframe_link_bring_up(): start the rings, then enable the paths.  What the
\* rings received before is no evidence for this session.
BringUp(n) ==
    /\ thread[n].pc = "bring"
    /\ link' = [link EXCEPT ![n].sent = FALSE, ![n].heard = FALSE,
                            ![n].rx_proven = FALSE, ![n].tx_proven = FALSE,
                            ![n].stale = FALSE,
                            ![n].rings_up = TRUE, ![n].paths = TRUE]
    /\ Goto(n, "flush")
    /\ UNCHANGED <<dispatch, ctrl, wire, faults>>

\* Bring-up fails and is undone.
BringUpFails(n) ==
    /\ thread[n].pc = "bring" /\ Fault("hardware", n)
    /\ link' = [link EXCEPT ![n].kick = TRUE]
    /\ thread' = [thread EXCEPT ![n] = Idle]
    /\ UNCHANGED <<dispatch, ctrl, wire>>

\* The first section of tbframe_link_flush_ready_response().
MayAck(l) ==
    /\ \/ l.ready.st = "SEND"
       \/ l.ready.st = "PATHS" /\ l.paths
    /\ ~l.needs_down
    /\ Matches(l, l.ready.peer)

\* A remembered READY becomes sendable when the paths are enabled.
Promote(l) ==
    IF l.ready.st = "PATHS" /\ l.paths /\ ~l.needs_down
      THEN [l EXCEPT !.ready.st = "SEND"] ELSE l

\* The session thread answers a READY that came before the paths were enabled.
Flush(n) ==
    /\ thread[n].pc = "flush"
    /\ Set(n, Promote(link[n]))
    /\ thread' = IF MayAck(link[n])
                   THEN [thread EXCEPT ![n].pc = "ack", ![n].cur = link[n].ready.cur]
                   ELSE [thread EXCEPT ![n].pc = "ready?"]
    /\ UNCHANGED <<dispatch, ctrl, wire, faults>>

\* The second section, after the response is sent: unless a newer READY came.
Acked(l, cur) ==
    IF l.ready.st = "SEND" /\ l.ready.cur = cur
      THEN [l EXCEPT !.ready.st = "ACKED"] ELSE l

FlushSend(n) ==
    /\ thread[n].pc = "ack"
    /\ Respond(n, "READY_ACK", thread[n].cur)
    /\ Set(n, Acked(link[n], thread[n].cur))
    /\ thread' = [thread EXCEPT ![n].pc = "ready?", ![n].cur = FALSE]
    /\ UNCHANGED <<dispatch, wire, faults>>

\* READY, unless this handshake has sent its own.
AskReady(n) ==
    /\ thread[n].pc = "ready?"
    /\ IF thread[n].ready_sent \/ link[n].request_sent
         THEN Goto(n, "prove") /\ UNCHANGED ctrl
         ELSE Request(n, "READY", "ready")
    /\ UNCHANGED <<link, dispatch, wire, faults>>

\* The answer of the negotiated peer certifies its paths; any other is stale.
ReadyAck(n) == \E c \in Cookies :
    /\ Answer(n, "ready", "READY_ACK", c)
    /\ IF Matches(link[n], c)
         THEN /\ link' = ForgetAtPeer(n, [link EXCEPT ![n].request_sent = TRUE,
                                                      ![n].peer_seen = TRUE])
              /\ thread' = ForgetThread(n, [thread EXCEPT ![n].pc = "prove"])
         ELSE /\ link' = ForgetAtPeer(n, [link EXCEPT ![n].kick = TRUE])
              /\ thread' = ForgetThread(n, [thread EXCEPT ![n] = Idle])

\* A HELLO or READY ends without an answer; the READY that spends the retry
\* budget re-arms the handshake.  The fresh HELLO of the stale-data check that
\* ends so asks for a local teardown.
RequestFails(n) ==
    /\ thread[n].pc \in {"hello", "ready", "recheck"}
    /\ IF Unanswered(n) THEN UNCHANGED faults ELSE Fault("late", n)
    /\ \E l \in {link[n], [link[n] EXCEPT !.request_sent = FALSE, !.peer_seen = FALSE]} :
          /\ thread[n].pc # "ready" => l = link[n]
          /\ link' = ForgetAtPeer(n, [link EXCEPT ![n] =
                IF thread[n].pc # "recheck" THEN [l EXCEPT !.kick = TRUE]
                ELSE IF l.needs_down THEN l ELSE NeedDown(l, "VERIFY")])
    /\ thread' = ForgetThread(n, [thread EXCEPT ![n] = Idle])
    /\ ForgetReply(n)
    /\ ctrl' = Forget(n, ctrl)
    /\ UNCHANGED wire

\* tbframe_link_maybe_up()
MaybeUp(l) ==
    IF /\ l.state = "INIT" /\ ~l.needs_down
       /\ l.hello_done /\ l.rings_up /\ l.paths /\ Complete(l)
      THEN [l EXCEPT !.state = "UP", !.tx_quiesced = FALSE]
      ELSE l

\* tbframe_link_prove_data_path(): a proven path may come up.
Proved(n) ==
    /\ thread[n].pc \in {"prove", "proof?"} /\ Proven(link[n])
    /\ Set(n, MaybeUp(link[n]))
    /\ thread' = [thread EXCEPT ![n] = Idle]
    /\ UNCHANGED <<dispatch, ctrl, wire, faults>>

\* Mutated form of KeepaliveOf: nothing is acknowledged.
Mut_KeepaliveOfNoAck(n) == Keepalive(Peer(n), link[n].cookie, None)

\* tbframe_link_send_keepalive(): it acknowledges what the peer has sent.
KeepaliveOf(n) ==
    Keepalive(Peer(n), link[n].cookie,
              IF link[n].heard THEN link[n].remote ELSE None)

\* Bound: the path to an end holds MaxFrames; one more is lost.
Transmit(k) ==
    wire' = IF Cardinality({f \in wire : f.to = k.to}) < MaxFrames
              THEN wire \cup {k} ELSE wire

\* One more keepalive.
ProveSend(n) ==
    /\ thread[n].pc = "prove" /\ ~Proven(link[n])
    /\ Transmit(KeepaliveOf(n))
    /\ link' = [link EXCEPT ![n].sent = TRUE, ![n].tx_quiesced = FALSE]
    /\ Goto(n, "proof?")
    /\ UNCHANGED <<dispatch, ctrl, faults>>

\* Not proven yet: try again later, spend the budget of probes and tear down,
\* or ask a peer whose keepalives carry another cookie who it is.
NotProved(n) ==
    /\ thread[n].pc = "proof?" /\ ~Proven(link[n])
    /\ \/ /\ Set(n, [link[n] EXCEPT !.kick = TRUE])
          /\ thread' = [thread EXCEPT ![n] = Idle] /\ UNCHANGED <<ctrl, faults>>
       \/ /\ ~link[n].stale /\ Fault("silence", n)
          /\ Set(n, IF link[n].needs_down THEN link[n] ELSE NeedDown(link[n], "VERIFY"))
          /\ thread' = [thread EXCEPT ![n] = Idle] /\ UNCHANGED ctrl
       \/ /\ link[n].stale
          /\ Request(n, "HELLO", "recheck") /\ UNCHANGED <<link, faults>>
    /\ UNCHANGED <<dispatch, wire>>

\* tbframe_link_revalidate_stale_data(): only a changed identity permits a
\* teardown in the peer's name.
Rechecked(n) == \E c \in Cookies :
    /\ Answer(n, "recheck", "HELLO_ACK", c)
    /\ link' = ForgetAtPeer(n, [link EXCEPT ![n] =
          IF @.needs_down THEN @
          ELSE IF Matches(@, c) THEN [@ EXCEPT !.kick = TRUE]
          ELSE NeedDown(@, "SUPERSEDE")])
    /\ thread' = ForgetThread(n, [thread EXCEPT ![n] = Idle])

-----------------------------------------------------------------------------
(* The dispatch context: tbframe_link_handle_packet().                     *)

Inbound(n, op, m) ==
    /\ m \in ctrl /\ m.to = n /\ m.op = op
    /\ dispatch[n] = NoReply
    /\ m.cur => Reorder \/ \A o \in ctrl : o.to = n /\ o.op \in Requests => o.cur
    /\ UNCHANGED <<wire, faults>>

\* A session that is to be torn down does not negotiate: the request fails.
Refuse(n, m) ==
    /\ Inbound(n, m.op, m) /\ m.op \in {"HELLO", "READY"}
    /\ link[n].needs_down
    /\ ctrl' = ctrl \ {m}
    /\ UNCHANGED <<link, thread, dispatch>>

\* Mutated form of HandleHello: a HELLO of another lifetime is acknowledged
\* before the session it replaces is down.
Mut_HandleHelloAcks(n, m) ==
    /\ Inbound(n, "HELLO", m)
    /\ ~link[n].needs_down
    /\ ctrl' = ctrl \ {m}
    /\ Set(n, [link[n] EXCEPT !.hello_seen = m.cookie, !.ready = NoReady, !.kick = TRUE])
    /\ dispatch' = [dispatch EXCEPT ![n] = [op |-> "HELLO_ACK", cur |-> m.cur]]
    /\ UNCHANGED thread

\* Mutated form of HandleHello: the session takes the new identity as it is.
Mut_HandleHelloAdopts(n, m) ==
    /\ Inbound(n, "HELLO", m)
    /\ ~link[n].needs_down
    /\ ctrl' = ctrl \ {m}
    /\ Set(n, [link[n] EXCEPT !.hello_seen = m.cookie, !.ready = NoReady, !.kick = TRUE,
                              !.remote = IF link[n].hello_done THEN m.cookie ELSE @])
    /\ dispatch' = [dispatch EXCEPT ![n] = [op |-> "HELLO_ACK", cur |-> m.cur]]
    /\ UNCHANGED thread

\* Mutated form of HandleHello: the handshake is superseded, and the session
\* that rests on it stays.
Mut_HandleHelloStays(n, m) ==
    /\ Inbound(n, "HELLO", m)
    /\ ~link[n].needs_down
    /\ ctrl' = ctrl \ {m}
    /\ LET l == [link[n] EXCEPT !.hello_seen = m.cookie]
           reset == [l EXCEPT !.ready = NoReady]
       IN  \/ /\ l.hello_done /\ ~Matches(l, m.cookie)
              /\ Set(n, Supersede(IF l.state = "UP" THEN reset ELSE l))
              /\ UNCHANGED dispatch
           \/ /\ ~l.hello_done \/ Matches(l, m.cookie)
              /\ Set(n, [reset EXCEPT !.kick = TRUE])
              /\ dispatch' = [dispatch EXCEPT ![n] = [op |-> "HELLO_ACK", cur |-> m.cur]]
    /\ UNCHANGED thread

\* HELLO: a different lifetime than the one negotiated supersedes the session,
\* unacknowledged; anything else is acknowledged.
HandleHello(n, m) ==
    /\ Inbound(n, "HELLO", m)
    /\ ~link[n].needs_down
    /\ ctrl' = ctrl \ {m}
    /\ LET l == [link[n] EXCEPT !.hello_seen = m.cookie]
           reset == [l EXCEPT !.ready = NoReady]
       IN  \/ /\ l.hello_done /\ ~Matches(l, m.cookie)
              /\ Set(n, NeedDown(Supersede(IF l.state = "UP" THEN reset ELSE l),
                                 "SUPERSEDE"))
              /\ UNCHANGED dispatch
           \/ /\ ~l.hello_done \/ Matches(l, m.cookie)
              /\ Set(n, [reset EXCEPT !.kick = TRUE])
              /\ dispatch' = [dispatch EXCEPT ![n] = [op |-> "HELLO_ACK", cur |-> m.cur]]
    /\ UNCHANGED thread

\* READY of the negotiated peer, or of one not negotiated yet, is remembered;
\* the dispatch context then tries to answer it.
HandleReady(n, m) ==
    /\ Inbound(n, "READY", m)
    /\ ~link[n].needs_down
    /\ ctrl' = ctrl \ {m}
    /\ IF link[n].hello_done /\ ~Matches(link[n], m.cookie)
         THEN UNCHANGED <<link, dispatch>>
         ELSE /\ Set(n, [link[n] EXCEPT !.peer_seen = TRUE, !.kick = TRUE,
                         !.ready = [st |-> IF link[n].paths THEN "SEND" ELSE "PATHS",
                                    cur |-> m.cur, peer |-> m.cookie]])
              /\ dispatch' = [dispatch EXCEPT ![n] = [op |-> "FLUSH", cur |-> m.cur]]
    /\ UNCHANGED thread

\* BYE asks for a teardown in the peer's name, and is acknowledged once this
\* side is silent.
HandleBye(n, m) ==
    /\ Inbound(n, "BYE", m)
    /\ ctrl' = ctrl \ {m}
    /\ LET l == link[n]
           active == l.state = "UP" \/ (l.rings_up /\ l.paths)
       IN  /\ Set(n, IF active /\ ~l.needs_down THEN NeedDown(l, "LOGOUT") ELSE l)
           /\ dispatch' = IF l.state # "UP" /\ l.tx_quiesced
                THEN [dispatch EXCEPT ![n] = [op |-> "BYE_ACK", cur |-> m.cur]]
                ELSE dispatch
    /\ UNCHANGED thread

\* The reply is built from the cookie of the moment, after the section.
Reply(n) ==
    /\ dispatch[n].op \in {"HELLO_ACK", "BYE_ACK"}
    /\ Respond(n, dispatch[n].op, dispatch[n].cur)
    /\ dispatch' = [dispatch EXCEPT ![n] = NoReply]
    /\ UNCHANGED <<link, thread, wire, faults>>

\* tbframe_link_flush_ready_response() in the dispatch context.
DispatchFlush(n) ==
    /\ dispatch[n].op = "FLUSH"
    /\ Set(n, Promote(link[n]))
    /\ dispatch' = [dispatch EXCEPT ![n] =
          IF MayAck(link[n]) THEN [op |-> "READY_ACK", cur |-> link[n].ready.cur]
                             ELSE NoReply]
    /\ UNCHANGED <<thread, ctrl, wire, faults>>

DispatchAck(n) ==
    /\ dispatch[n].op = "READY_ACK"
    /\ Respond(n, "READY_ACK", dispatch[n].cur)
    /\ Set(n, Acked(link[n], dispatch[n].cur))
    /\ dispatch' = [dispatch EXCEPT ![n] = NoReply]
    /\ UNCHANGED <<thread, wire, faults>>

-----------------------------------------------------------------------------
(* The data path.                                                          *)

\* What a keepalive tells a running session: that of the negotiated peer proves
\* our RX, and one that acknowledges ours our TX; that of another lifetime
\* supersedes an UP session, and starts the drain of stale frames otherwise.
Hear(l, k) ==
    IF ~(l.rings_up /\ l.paths) THEN l
    ELSE IF k.cookie = l.remote
      THEN [l EXCEPT !.rx_proven = TRUE, !.heard = TRUE,
                     !.tx_proven = @ \/ (k.ack = l.cookie /\ l.sent)]
    ELSE IF l.state # "UP"
      THEN IF l.stale THEN l ELSE [l EXCEPT !.stale = TRUE, !.kick = TRUE]
    ELSE IF l.needs_down THEN l ELSE NeedDown(l, "SUPERSEDE")

\* tbframe_core_rx_complete(), for a keepalive.
RxKeepalive(n, k) ==
    /\ k \in wire /\ k.to = n
    /\ wire' = wire \ {k}
    /\ link' = [link EXCEPT ![n] = Hear(@, k)]
    /\ UNCHANGED <<thread, dispatch, ctrl, faults>>

\* tbframe_link_verify_step(): the periodic keepalive of an UP session ...
VerifyTick(n) ==
    /\ link[n].state = "UP"
    /\ Transmit(KeepaliveOf(n))
    /\ link' = [link EXCEPT ![n].sent = TRUE]
    /\ UNCHANGED <<thread, dispatch, ctrl, faults>>

\* ... and its verdict: dead hop entries, or silence in one direction.
VerifyFails(n) ==
    /\ link[n].state = "UP" /\ ~link[n].needs_down /\ Fault("silence", n)
    /\ \E rx, tx \in {TRUE, FALSE} :
          Set(n, [NeedDown(link[n], "VERIFY") EXCEPT
                     !.rx_proven = @ /\ rx, !.tx_proven = @ /\ tx])
    /\ UNCHANGED <<thread, dispatch, ctrl, wire>>

-----------------------------------------------------------------------------
(* Faults.                                                                 *)

LosePacket == /\ \E m \in ctrl : Fault("loss", m.to) /\ ctrl' = ctrl \ {m}
              /\ UNCHANGED <<link, thread, dispatch, wire>>

LoseFrame == /\ \E k \in wire : Fault("loss", k.to) /\ wire' = wire \ {k}
             /\ UNCHANGED <<link, thread, dispatch, ctrl>>

\* One end goes away without a word and comes back as a new link.
Restart(n) ==
    /\ Fault("restart", n)
    /\ \E c \in Cookies : Fresh(c) /\ link' = ForgetAtPeer(n, [link EXCEPT ![n] = NewLink(c)])
    /\ thread' = ForgetThread(n, [thread EXCEPT ![n] = Idle])
    /\ dispatch' = [dispatch EXCEPT ![n] = NoReply, ![Peer(n)].cur = FALSE]
    /\ ctrl' = Forget(n, ctrl)
    /\ UNCHANGED wire

Step(n) == \/ StepDown(n) \/ Drained(n) \/ ByeAcked(n) \/ ByeRetry(n)
           \/ DownDisable(n) \/ StepHello(n) \/ HelloAck(n) \/ StepKnown(n)
           \/ BringUp(n) \/ Flush(n) \/ FlushSend(n)
           \/ AskReady(n) \/ ReadyAck(n) \/ RequestFails(n) \/ Proved(n)
           \/ ProveSend(n) \/ NotProved(n) \/ Rechecked(n)

Handle(n) == \/ \E m \in ctrl : \/ Refuse(n, m) \/ HandleHello(n, m)
                                \/ HandleReady(n, m) \/ HandleBye(n, m)
             \/ Reply(n) \/ DispatchFlush(n) \/ DispatchAck(n)

Rx(n) == \E k \in wire : RxKeepalive(n, k)

Next == \/ \E n \in Nodes : \/ Step(n) \/ BringUpFails(n) \/ Handle(n) \/ Rx(n)
                            \/ VerifyTick(n) \/ VerifyFails(n) \/ Restart(n)
        \/ LosePacket \/ LoseFrame

Spec == Init /\ [][Next]_vars

\* Each thread takes its next step, a request that is not lost is dispatched,
\* and each direction of the data path carries keepalives.
Fairness == \A n \in Nodes : /\ WF_vars(Step(n)) /\ WF_vars(Handle(n))
                            /\ WF_vars(VerifyTick(n) \/ Rx(Peer(n)))

FairSpec == Spec /\ Fairness

-----------------------------------------------------------------------------
(* Properties.                                                             *)

Replies == {"HELLO_ACK", "READY_ACK", "BYE_ACK"}

TypeOK ==
    /\ link \in [Nodes -> [state : {"INIT", "UP"}, cookie : Cookies,
           kick : BOOLEAN, needs_down : BOOLEAN,
           reason : {"NONE", "VERIFY", "SUPERSEDE", "LOGOUT"},
           hello_done : BOOLEAN, remote : Cookies \cup {None},
           hello_seen : Cookies \cup {None},
           ready : [st : {"WAITING", "PATHS", "SEND", "ACKED"}, cur : BOOLEAN,
                    peer : Cookies \cup {None}],
           request_sent : BOOLEAN, peer_seen : BOOLEAN,
           rings_up : BOOLEAN, paths : BOOLEAN, tx_quiesced : BOOLEAN,
           sent : BOOLEAN, heard : BOOLEAN,
           rx_proven : BOOLEAN, tx_proven : BOOLEAN, stale : BOOLEAN]]
    /\ thread \in [Nodes -> [pc : {"idle", "drain", "bye", "disable", "hello",
           "bring", "flush", "ack", "ready?", "ready", "prove",
           "proof?", "recheck"}, cur : BOOLEAN, ready_sent : BOOLEAN,
           bye : BOOLEAN, byes : 0 .. MaxByes]]
    /\ dispatch \in [Nodes -> [op : Replies \cup {"NONE", "FLUSH"}, cur : BOOLEAN]]
    /\ ctrl \subseteq [to : Nodes, op : Requests \cup Replies,
                       cookie : Cookies, cur : BOOLEAN]
    /\ wire \subseteq [to : Nodes, cookie : Cookies, ack : Cookies \cup {None}]
    /\ faults \in 0 .. MaxFaults

Up(n) == link[n].state = "UP" /\ ~link[n].needs_down

\* Two ends that are both UP, with no teardown pending, are UP in one session:
\* each negotiated the cookie the other has.  Restarts, lost and overtaken
\* packets and crossed HELLOs do not mix two sessions.
UpAgree == (\A n \in Nodes : Up(n)) =>
              \A n \in Nodes : link[n].remote = link[Peer(n)].cookie

\* A published session has what its clients use: the peer is known, rings and
\* paths are up, the handshake is complete and the data path proven, or a
\* teardown is pending.  Neither a late packet nor the thread's own teardown
\* takes one of them from under an UP session.
UpIsLive == \A n \in Nodes : link[n].state = "UP" =>
    /\ link[n].hello_done /\ link[n].rings_up /\ link[n].paths
    /\ ~link[n].needs_down => Complete(link[n]) /\ Proven(link[n])

\* A READY that is remembered once the peer is known is that peer's
\* (tbframe_link_flush_ready_response() answers it without asking again when
\* it came): the one of an earlier lifetime has been dropped.
ReadyOfPeer == \A n \in Nodes :
    link[n].hello_done /\ link[n].ready.st # "WAITING" /\ ~link[n].needs_down
        => link[n].ready.peer = link[n].remote

\* Both ends come up, and stay up, once faults stop: no order of crossed
\* HELLOs, READYs and teardowns makes them chase each other for ever.
Converges == <>[](\A n \in Nodes : Up(n))
=============================================================================
