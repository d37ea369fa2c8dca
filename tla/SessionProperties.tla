------------------------- MODULE SessionProperties -------------------------
(***************************************************************************)
(* What makes a session correct.                                           *)
(***************************************************************************)
EXTENDS Session

SockType(peers) == [arrived : Nat, read : Nat, pend : Nat, fill : 0..SndBuf, peer : peers]

TypeSess ==
  /\ conn \in [handshake_done : BOOLEAN, target : {"none", "plain", "tls"},
               target_connecting : BOOLEAN, client_tls_ready : BOOLEAN,
               target_tls_ready : BOOLEAN, cwant : SUBSET {"read", "write"},
               twant : SUBSET {"read", "write"},
               cflights : 0..Flights, tflights : 0..Flights]
  /\ closing \in 0..2
  /\ pending_close \in [set : BOOLEAN, len : 0..CtlMax]
  /\ c2t \in Seq(Nat) /\ Len(c2t) <= BufSize
  /\ t2c \in Seq(Nat) /\ Len(t2c) <= BufSize
  /\ client_out \in [op : {"none", "http", "binary", "pong", "close"},
                     pay : Seq(Nat), pos : Nat]
  /\ client_out.pos <= Len(client_out.pay) + 1
  /\ ws_parser \in [op : DataOps \cup CtlOps \cup {"none"}, left : Nat]
  /\ ws_parser.op \in CtlOps => ws_parser.left <= CtlMax

TypeThread ==
  /\ pc \in Phases /\ ops \in Nat
  /\ pc \in {"c_read", "ws", "t_read"} => ops <= ReadBudget
  /\ pc \in {"c_write", "t_write"} => ops <= WriteBudget
  /\ events \in SUBSET {"read", "write"}
  /\ interest \in [c : SUBSET {"read", "write"}, t : SUBSET {"read", "write"}]
  /\ batch \in [c : SUBSET {"read", "write", "error"},
                t : SUBSET {"read", "write", "error"}]

TypeNet ==
  /\ csock \in SockType({"open", "fin", "rst"})
  /\ tsock \in SockType({"none", "syn", "open", "fin", "rst"})
  /\ csock.read + csock.pend <= csock.arrived /\ csock.arrived <= Len(script)
  /\ tsock.read + tsock.pend <= tsock.arrived /\ tsock.arrived <= MaxTraffic
  /\ script \in Scripts

TypeHistory ==
  /\ done \in Nat /\ done <= csock.read
  /\ t_seen \in Seq(Nat) /\ c_seen \in Seq(Nat)
  /\ wire \in [last : {"none", "http", "binary", "pong", "close"}, left : Nat, ok : BOOLEAN]
  /\ reason \in {"none", "error", "timeout", "tls", "connect", "client_gone",
                 "target_gone", "bad_request", "protocol", "overflow", "pong_busy",
                 "close_frame"}

\* Every variable has its type: both buffers stay within buffer_size, a frame
\* is never sent past its end, no more is read than arrived, no handler makes
\* more system calls than its budget.
TypeOK == TypeSess /\ TypeThread /\ TypeNet /\ TypeHistory

\* Client to target, nothing is lost, duplicated or reordered: what the target
\* was handed followed by client_to_target is exactly the payload of the frames
\* processed so far, across frame boundaries, interleaved control frames,
\* partial writes and the bytes that came along with the HTTP request.
UpInOrder == closing # 2 => t_seen \o c2t = Numbered(0, Sent(done))

\* Target to client, likewise: frames sent, the frame in client_out and
\* target_to_client make up exactly what was read from the target.
DownInOrder ==
  closing # 2 => c_seen \o Unsent(client_out) \o t2c = Numbered(0, tsock.read)

\* The client's stream is one 101 response and then whole frames: a frame is
\* begun only when the one before is complete, so a pong or a CLOSE never lands
\* inside a data frame, and nothing follows a CLOSE.
ClientStreamOk == wire.ok

\* With buffers of a safe size the session is never dropped because data was
\* read that does not fit: the high-water test leaves room for one more chunk.
NoOverflowClose == SafeSizes => reason # "overflow"

\* When the thread waits, whatever can make progress is registered for: bytes
\* queued for a peer for write, a buffer below its high-water mark for read;
\* and a full buffer keeps its source unread.
WakeupsArmed ==
  (pc = "loop" /\ closing # 2 /\ conn.client_tls_ready) =>
    /\ ("write" \in interest.c) = (OutLeft(client_out) > 0 \/ t2c # <<>>)
    /\ ("read" \in interest.c) =
         (closing = 0 /\ (conn.handshake_done => Len(c2t) < HighWater))
    /\ (conn.target # "none" /\ ~conn.target_connecting /\ conn.target_tls_ready) =>
         /\ ("write" \in interest.t) = (c2t # <<>>)
         /\ ("read" \in interest.t) = (Len(t2c) < HighWater)
    /\ conn.target_connecting => "write" \in interest.t

\* A session that received a CLOSE always has a frame to send while it waits,
\* so the write event that finishes it will come.
ClosingHasOutput == (pc = "loop" /\ closing = 1) => OutLeft(client_out) > 0

\* README.md:108, "When `--target-tls` is on, the target certificate is
\* verified": no payload reaches the target outside TLS.
TargetLegEncrypted == (TargetTls /\ t_seen # <<>>) => conn.target = "tls"

\* The session is a byte relay: every step of the thread, the peers or the
\* kernel is a step of two bounded in-order pipes, or none at all.  The pipe to
\* the client is target_to_client and the data frame being sent.
Relay == INSTANCE ByteRelay WITH
  UpCapacity <- BufSize, DownCapacity <- BufSize + Chunk,
  up <- c2t, up_out <- t_seen,
  down <- Unsent(client_out) \o t2c, down_out <- c_seen,
  state <- IF closing = 2 THEN "closed"
           ELSE IF conn.handshake_done THEN "relaying" ELSE "upgrading"
RelaySpec == Relay!Spec

\* Every data byte that reached the proxy from the client gets to the target
\* unless the session ends: no buffer state, budget or missed wake-up strands
\* it, so time and again all that has arrived has been handed on.
UpDelivered == []<>(Len(t_seen) = Sent(csock.arrived) \/ closing # 0)

\* Likewise from the target to the client.
DownDelivered == []<>(Len(c_seen) = tsock.arrived \/ closing # 0)

\* A session that received a CLOSE answers it and is gone in the end.
CloseCompletes == (closing = 1) ~> (closing = 2)

\* When a peer hangs up, resets or refuses, the session goes away in the end,
\* whatever was queued and even with every timeout disabled.
HangupEndsSession ==
  (csock.peer # "open" \/ tsock.peer \in {"fin", "rst"}) ~> (closing = 2)

-----------------------------------------------------------------------------
(* Strengthenings: facts that make the properties above inductive.         *)

\* A closed session has nothing left to dispatch.
ClosedInv == closing = 2 => pc = "loop" /\ batch = NoEvents

\* Before the upgrade no frame was parsed or sent, and the target leg does not
\* exist; there is no upgrade before the client's TLS handshake is done.
UpgradeInv ==
  /\ ~conn.handshake_done =>
       /\ done = 0 /\ ws_parser = NoFrameParsed /\ pc # "ws"
       /\ client_out = NoFrame /\ wire.last = "none"
       /\ c2t = <<>> /\ closing # 1
  /\ (conn.handshake_done \/ pc = "c_read") => conn.client_tls_ready

\* The registrations are those of the state the thread waits in.
InterestInv == (pc = "loop" /\ closing # 2) => interest = session_update_events

\* A received CLOSE has output until session_write_client deals with it.
ClosingInv ==
  /\ (closing = 1 /\ pc # "c_write") => OutLeft(client_out) > 0
  /\ pending_close.set => closing = 1

\* The rest of the frame being parsed comes next in the script.
ParserInv ==
  (SafeSizes /\ closing = 0 /\ ws_parser.left > 0) =>
    \A j \in 1..ws_parser.left : done + j <= Len(script) =>
      script[done + j].off = Sent(done) + (IF ws_parser.op \in DataOps THEN j ELSE 0)

\* While frames are parsed there is room for all of them and a control frame;
\* a read starts below the high-water mark, with all that was read before
\* processed and no other event of the client in the batch.
RoomInv ==
  SafeSizes =>
    /\ (pc = "ws" /\ closing = 0) => Len(c2t) + Unprocessed + CtlMax <= BufSize
    /\ (pc = "c_read" /\ closing = 0 /\ conn.handshake_done) => Len(c2t) < HighWater
    /\ ("read" \in batch.c /\ "error" \notin batch.c /\ conn.handshake_done) =>
         Len(c2t) < HighWater
    /\ pc \in {"c_read", "ws"} => batch.c = {}
    /\ (conn.handshake_done /\ pc # "ws" /\ closing = 0) => done = csock.read

\* The frame in client_out and the frame last begun on the client's stream.
WireInv ==
  closing # 2 =>
    /\ IF client_out.op = "none" \/ client_out.pos = 0
       THEN wire.left = 0
       ELSE wire.last = client_out.op /\ wire.left = OutLeft(client_out)
    /\ client_out.op = "http" /\ client_out.pos = 0 => wire.last = "none"
    /\ (conn.handshake_done /\ client_out # Frame("http", Blank(1))) => wire.last # "none"
    /\ client_out.op = "close" => closing = 1 /\ ~pending_close.set
    /\ wire.last = "close" => client_out.op = "close" /\ client_out.pos > 0

\* A target leg whose connect(2) did not return at once stays plain only until
\* the connection is complete, and nothing is written to it meanwhile.
LegInv ==
  (TargetTls /\ "immediate" \notin ConnectModes) =>
    /\ conn.handshake_done <=> conn.target # "none"
    /\ conn.target = "plain" =>
         conn.target_connecting /\ pc # "t_write" /\ ~(pc = "t_read" /\ "write" \in events)
    /\ t_seen # <<>> => conn.target = "tls"

\* Nothing comes from a target before the upgrade; a data frame is a chunk.
PipeInv ==
  /\ ~conn.handshake_done => tsock.peer = "none" /\ tsock.arrived = 0
  /\ client_out.op = "binary" => Len(client_out.pay) <= Chunk

Strengthening ==
  /\ ClosedInv /\ UpgradeInv /\ InterestInv /\ ClosingInv
  /\ ParserInv /\ RoomInv /\ WireInv /\ LegInv /\ PipeInv
=============================================================================
