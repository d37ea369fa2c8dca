------------------------------ MODULE Session ------------------------------
(***************************************************************************)
(* One proxy session of src/proxy/proxy.c: the event-loop thread runs the  *)
(* callbacks of the client's and the target's descriptor, one system call  *)
(* at a time, while the two peers and the kernel's socket buffers move on  *)
(* their own.                                                              *)
(*                                                                         *)
(* Data is abstracted to what the properties tell apart.  What the client  *)
(* sends is a script of tokens: pieces of the HTTP request, frame headers, *)
(* payload bytes.  The k-th data byte of a direction is the number k, so a *)
(* loss, a duplicate or a reordering shows in the numbers.                 *)
(***************************************************************************)
EXTENDS Naturals, Sequences

CONSTANTS
  BufSize,      \* config.buffer_size: capacity of each direction's buffer
  Chunk,        \* SOCKIFY_PROXY_IO_CHUNK: bytes moved by one system call
  ReadBudget,   \* config.read_budget
  WriteBudget,  \* config.write_budget
  HsMax,        \* SOCKIFY_WS_MAX_HTTP_REQUEST: bytes of session->handshake
  CtlMax,       \* longest control-frame payload, 125 in the code
  SndBuf,       \* what a kernel send buffer takes before it is full
  Record,       \* longest TLS record
  Flights,      \* times a TLS handshake stops for the peer
  ClientTls,    \* config.client_tls_enabled
  TargetTls,    \* config.target_tls_enabled
  ConnectModes, \* how connect(2) may return
  Timeouts,     \* some timeout of the configuration is not 0
  Faults,       \* peers may hang up, reset or refuse; system calls may fail
  Scripts,      \* what a client may send
  MaxTraffic    \* bound on the script and the bytes of the target together

Phases == {"loop", "c_read", "ws", "c_write", "t_read", "t_write"}
DataOps == {"text", "binary", "continuation"}
CtlOps == {"ping", "pong", "close"}
Token == [k : {"req", "end", "badend", "hdr", "badhdr", "dat", "ctl"},
          op : DataOps \cup CtlOps \cup {"none"},
          len : Nat,   \* payload length a header announces
          off : Nat]   \* data bytes sent up to and including this token

\* Payload of a frame with opcode op.
PayloadKind(op) == IF op \in DataOps THEN "dat" ELSE "ctl"

\* A script is what some byte string looks like to the proxy: a header is
\* followed by the payload it announces and data bytes are numbered.
IsScript(s) ==
  /\ s \in Seq(Token)
  /\ \A i \in 1..Len(s) :
       /\ s[i].k \in {"end", "badend"} => s[i].off = 0
       /\ s[i].k = "hdr" =>
            /\ s[i].op \in DataOps \cup CtlOps
            /\ s[i].op \in CtlOps => s[i].len <= CtlMax
            /\ s[i].off = IF i = 1 THEN 0 ELSE s[i - 1].off
            /\ \A j \in 1..s[i].len : i + j <= Len(s) =>
                 /\ s[i + j].k = PayloadKind(s[i].op)
                 /\ s[i + j].off = s[i].off + (IF s[i].op \in DataOps THEN j ELSE 0)

ASSUME SizeAssumption ==
  /\ {BufSize, Chunk, ReadBudget, WriteBudget, SndBuf, Record} \subseteq Nat \ {0}
  /\ {HsMax, CtlMax, Flights, MaxTraffic} \subseteq Nat

ASSUME ModeAssumption ==
  /\ {ClientTls, TargetTls, Timeouts, Faults} \subseteq BOOLEAN
  /\ ConnectModes \subseteq {"in_progress", "immediate", "failed"}

ASSUME ScriptAssumption == \A s \in Scripts : IsScript(s)

\* The high-water mark session_create gives both buffers.
HighWater == (BufSize * 3) \div 4

\* Buffers large enough for the chunks that are moved: true of the defaults
\* (65536, 4096, 8192 and 125), false of a small --buffer-size.
SafeSizes ==
  /\ HighWater + Chunk + CtlMax <= BufSize + 1
  /\ HsMax + CtlMax <= BufSize
  /\ CtlMax <= Chunk

VARIABLES
  \* struct sockify_proxy_session
  conn,           \* handshake, connect and TLS progress of the two legs
  closing, pending_close,
  c2t, t2c,       \* client_to_target, target_to_client
  client_out,     \* the frame being sent to the client and how far it got
  ws_parser,      \* opcode and payload bytes left of the frame being parsed
  \* the event-loop thread
  pc, ops, events,
  interest,       \* what each descriptor is registered for
  batch,          \* events returned by the last wait, not yet dispatched
  \* kernel and peers
  csock, tsock, script,
  done,           \* tokens of the script the session has processed
  \* history
  t_seen,         \* data bytes handed to the target's socket
  c_seen,         \* data bytes handed to the client's socket
  wire,           \* the frame last begun on the client's stream
  reason          \* why the session was closed

sess == <<conn, closing, pending_close, c2t, t2c, client_out, ws_parser>>
thread == <<pc, ops, events, interest, batch>>
net == <<csock, tsock, script>>
history == <<done, t_seen, c_seen, wire, reason>>
vars == <<sess, thread, net, history>>

-----------------------------------------------------------------------------
(* Helpers.                                                                *)

min_size(a, b) == IF a < b THEN a ELSE b

\* The bytes numbered from + 1 to from + n.
Numbered(from, n) == [i \in 1..n |-> from + i]

\* Data bytes among the first i tokens of the script.
Sent(i) == IF i = 0 THEN 0 ELSE script[i].off

writable(b) == BufSize - Len(b)
is_high(b) == Len(b) >= HighWater

NoFrame == [op |-> "none", pay |-> <<>>, pos |-> 0]
NoClose == [set |-> FALSE, len |-> 0]
NoFrameParsed == [op |-> "none", left |-> 0]
NoEvents == [c |-> {}, t |-> {}]

\* client_out_len - client_out_pos, a header counting as one byte.
OutLeft(f) == IF f.op = "none" THEN 0 ELSE Len(f.pay) + 1 - f.pos

\* Data bytes of client_out that the client's socket has not taken yet.
Unsent(f) ==
  IF f.op = "binary" THEN SubSeq(f.pay, (IF f.pos = 0 THEN 1 ELSE f.pos), Len(f.pay))
  ELSE <<>>

-----------------------------------------------------------------------------
(* What the descriptors are registered for, and the end of a callback.     *)

\* transport_tls_event_mask: a handshake that has not said yet waits for both.
TlsMask(want) == IF want = {} THEN {"read", "write"} ELSE want

\* Mutant: what waits in target_to_client is not registered for.
ClientEventsOutOnly ==
  (IF ~conn.client_tls_ready THEN TlsMask(conn.cwant)
   ELSE IF closing = 0 /\ (~conn.handshake_done \/ ~is_high(c2t)) THEN {"read"}
   ELSE {})
  \cup (IF OutLeft(client_out) > 0 THEN {"write"} ELSE {})

ClientEvents ==
  (IF ~conn.client_tls_ready THEN TlsMask(conn.cwant)
   ELSE IF closing = 0 /\ (~conn.handshake_done \/ ~is_high(c2t)) THEN {"read"}
   ELSE {})
  \cup (IF OutLeft(client_out) > 0 \/ t2c # <<>> THEN {"write"} ELSE {})

\* Mutant: the target is registered for read only.
TargetEventsReadOnly ==
  IF conn.target = "none" THEN {}
  ELSE IF conn.target_connecting THEN {"write"}
  ELSE IF ~conn.target_tls_ready THEN TlsMask(conn.twant)
  ELSE IF ~is_high(t2c) THEN {"read"}
  ELSE {}

TargetEvents ==
  IF conn.target = "none" THEN {} ELSE
  (IF conn.target_connecting THEN {"write"}
   ELSE IF ~conn.target_tls_ready THEN TlsMask(conn.twant)
   ELSE IF ~is_high(t2c) THEN {"read"}
   ELSE {})
  \cup (IF conn.target_tls_ready /\ c2t # <<>> THEN {"write"} ELSE {})

\* session_update_events: both descriptors, whichever one had the event.
session_update_events == [c |-> ClientEvents, t |-> TargetEvents]

\* The handler refreshes the registrations and returns to the loop.
Return ==
  /\ pc' = "loop" /\ ops' = 0 /\ events' = {}
  /\ interest' = session_update_events'

\* The read half of a handler is over: the write half if there is one.
AfterRead(writer) ==
  IF "write" \in events
  THEN pc' = writer /\ ops' = 0 /\ UNCHANGED <<events, interest>>
  ELSE Return

\* session_close: both descriptors are deregistered and closed, the buffers
\* and the session are freed.  Callers that look at session->closing next read
\* freed memory; here the session is simply over.
session_close(why) ==
  /\ closing' = 2 /\ reason' = why
  /\ pc' = "loop" /\ ops' = 0 /\ events' = {}
  /\ interest' = NoEvents /\ batch' = NoEvents
  /\ c2t' = <<>> /\ t2c' = <<>>
  /\ client_out' = NoFrame /\ pending_close' = NoClose
  /\ ws_parser' = NoFrameParsed
  /\ UNCHANGED <<conn, net, done, t_seen, c_seen, wire>>

-----------------------------------------------------------------------------
(* Transports: what one read or write call returns.                        *)

\* Bytes a transport read could return sooner or later.
Avail(s) == s.arrived - s.read

\* Successful reads of at most limit bytes.  recv takes what the kernel has;
\* SSL_read takes from one record, whose rest stays inside the TLS library.
Reads(s, tls, limit) ==
  CASE Avail(s) = 0 -> {}
    [] Avail(s) > 0 /\ ~tls -> {[n |-> min_size(limit, Avail(s)), pend |-> 0]}
    [] Avail(s) > 0 /\ tls ->
         {[n |-> min_size(limit, r), pend |-> r - min_size(limit, r)] :
            r \in IF s.pend > 0 THEN {s.pend} ELSE 1..min_size(Record, Avail(s))}

\* Mutant: recv returning 0 is taken for EAGAIN.
WouldBlockAtEof(s) == Avail(s) = 0

\* The read found nothing and would block.
WouldBlock(s) == Avail(s) = 0 /\ s.peer = "open"

\* The read reports the end of the stream or an error.
ReadFails(s) == (Avail(s) = 0 /\ s.peer = "fin") \/ s.peer = "rst"

\* Bytes a write of len bytes hands to the kernel; 0 means EAGAIN.
Taken(s, len) == min_size(len, SndBuf - s.fill)

\* Level-triggered readiness.  Bytes inside the TLS library do not count.
Readable(s) == Avail(s) > s.pend \/ s.peer \in {"fin", "rst"}
Writable(s) == s.peer = "rst" \/ (s.peer # "syn" /\ s.fill < SndBuf)

\* The masks a wait can report for a descriptor registered for want.  epoll
\* and poll add the error and the hang-up of a reset connection whatever was
\* asked for, kqueue does not; a TLS handshake moves bytes the model does not
\* count.
Masks(s, want, handshaking) ==
  LET ready == {e \in want : IF e = "read" THEN Readable(s) ELSE Writable(s)} IN
  {m \cup x : m \in IF handshaking THEN SUBSET want ELSE {ready},
              x \in IF s.peer = "rst" THEN {{}, {"read", "error"}} ELSE {{}}}

-----------------------------------------------------------------------------
(* Frames to the client.                                                   *)

\* Mutant: a frame may replace the one being sent.
CanAlwaysMakeFrame == TRUE

\* session_make_ws_frame and session_set_client_out: refused while the frame
\* before has bytes left.
CanMakeFrame == OutLeft(client_out) = 0

\* A frame with opcode op.
Frame(op, pay) == [op |-> op, pay |-> pay, pos |-> 0]

\* The payload of a frame whose bytes do not matter.
Blank(n) == [i \in 1..n |-> 0]

-----------------------------------------------------------------------------
(* The event loop.                                                         *)

\* epoll_wait returns the descriptors that are ready, both in one batch when
\* both are.
Wait ==
  /\ pc = "loop" /\ closing # 2 /\ batch = NoEvents
  /\ \E c \in Masks(csock, interest.c, ~conn.client_tls_ready),
        t \in Masks(tsock, interest.t,
                    conn.target = "tls" /\ ~conn.target_tls_ready) :
       /\ c # {} \/ t # {}
       /\ batch' = [c |-> c, t |-> t]
  /\ UNCHANGED <<sess, pc, ops, events, interest, net, history>>

\* The tick after a batch finds the session expired.
Expire ==
  /\ Timeouts /\ pc = "loop" /\ closing # 2 /\ batch = NoEvents
  /\ session_close("timeout")

\* The event of one side is taken from the batch.
Dispatch(side) ==
  /\ pc = "loop" /\ batch[side] # {} /\ "error" \notin batch[side]
  /\ batch' = [batch EXCEPT ![side] = {}]

\* The handler starts with its read half, or its write half.
Enter(m, reader, writer) ==
  /\ pc' = IF "read" \in m THEN reader ELSE writer
  /\ ops' = 0 /\ events' = m
  /\ UNCHANGED interest

\* A batched error event closes the session at once.
EventError ==
  /\ pc = "loop" /\ "error" \in batch.c \cup batch.t
  /\ session_close("error")

\* session_drive_client_tls: the handshake needs another event.
ClientTlsAgain ==
  /\ ~conn.client_tls_ready /\ conn.cflights > 0
  /\ Dispatch("c")
  /\ \E w \in {"read", "write"} :
       conn' = [conn EXCEPT !.cflights = @ - 1, !.cwant = {w}]
  /\ UNCHANGED <<closing, pending_close, c2t, t2c, client_out, ws_parser, net, history>>
  /\ Return

ClientTlsFails ==
  /\ Faults /\ pc = "loop" /\ batch.c # {} /\ ~conn.client_tls_ready
  /\ session_close("tls")

\* session_handle_client_event once the leg is ready, or has just become so.
HandleClientEvent ==
  /\ conn.client_tls_ready \/ conn.cflights = 0
  /\ Dispatch("c")
  /\ Enter(batch.c, "c_read", "c_write")
  /\ conn' = [conn EXCEPT !.client_tls_ready = TRUE, !.cwant = {}]
  /\ UNCHANGED <<closing, pending_close, c2t, t2c, client_out, ws_parser, net, history>>

\* Mutant: the leg stays plain.
CompletedConnectPlain ==
  IF conn.target_connecting /\ "write" \in batch.t
  THEN [conn EXCEPT !.target_connecting = FALSE, !.target_tls_ready = TRUE]
  ELSE conn

\* session_complete_target_connect, when the target's event calls for it.
CompletedConnect ==
  IF conn.target_connecting /\ "write" \in batch.t
  THEN [conn EXCEPT !.target_connecting = FALSE,
                    !.target = IF TargetTls THEN "tls" ELSE "plain",
                    !.target_tls_ready = ~TargetTls]
  ELSE conn

\* SO_ERROR is set.
ConnectFails ==
  /\ pc = "loop" /\ "write" \in batch.t
  /\ conn.target_connecting /\ tsock.peer = "rst"
  /\ session_close("connect")

\* session_drive_target_tls: a plain transport has no handshake to wait for.
TargetHandshakes(k) ==
  ~k.target_connecting /\ ~k.target_tls_ready /\ k.target = "tls"

TargetTlsAgain ==
  LET k == CompletedConnect IN
  /\ TargetHandshakes(k) /\ k.tflights > 0
  /\ Dispatch("t")
  /\ \E w \in {"read", "write"} :
       conn' = [k EXCEPT !.tflights = @ - 1, !.twant = {w}]
  /\ UNCHANGED <<closing, pending_close, c2t, t2c, client_out, ws_parser, net, history>>
  /\ Return

TargetTlsFails ==
  /\ Faults /\ pc = "loop" /\ batch.t # {} /\ TargetHandshakes(CompletedConnect)
  /\ session_close("tls")

\* session_handle_target_event once the leg is ready, or has just become so.
HandleTargetEvent ==
  LET k == CompletedConnect IN
  /\ ~TargetHandshakes(k) \/ k.tflights = 0
  /\ conn.target_connecting => tsock.peer # "rst"
  /\ Dispatch("t")
  /\ Enter(batch.t, "t_read", "t_write")
  /\ conn' = IF k.target_connecting THEN k
             ELSE [k EXCEPT !.target_tls_ready = TRUE, !.twant = {}]
  /\ UNCHANGED <<closing, pending_close, c2t, t2c, client_out, ws_parser, net, history>>

-----------------------------------------------------------------------------
(* session_read_client and the HTTP upgrade.                               *)

\* The loop of session_read_client is over before another read.
ClientReadOver ==
  \/ closing # 0
  \/ ops = ReadBudget
  \/ conn.handshake_done /\ writable(c2t) = 0

ReadClientStops ==
  /\ pc = "c_read" /\ (ClientReadOver \/ WouldBlock(csock))
  /\ UNCHANGED <<sess, batch, net, history>>
  /\ AfterRead("c_write")

ReadClientFails ==
  /\ pc = "c_read" /\ ~ClientReadOver /\ ReadFails(csock)
  /\ session_close("client_gone")

\* What the next read of the client's transport may return.
ClientReads ==
  IF pc # "c_read" \/ ClientReadOver THEN {}
  ELSE Reads(csock, ClientTls,
             IF conn.handshake_done THEN min_size(Chunk, writable(c2t)) ELSE Chunk)

TakeFromClient(r) ==
  csock' = [csock EXCEPT !.read = @ + r.n, !.pend = r.pend]

\* Bytes of frames: session_process_ws_bytes runs next.
ReadFrames ==
  /\ conn.handshake_done
  /\ \E r \in ClientReads : TakeFromClient(r)
  /\ pc' = "ws" /\ ops' = ops + 1
  /\ UNCHANGED <<sess, events, interest, batch, tsock, script, history>>

\* The HTTP request among the first n tokens ends at token e.
RequestEnds(n, e) ==
  /\ e \in 1..n /\ script[e].k \in {"end", "badend"}
  /\ \A j \in 1..e - 1 : script[j].k \notin {"end", "badend"}

\* session_handle_handshake_bytes refuses a request that does not fit or that
\* the handshake parser rejects.
RefuseRequest ==
  /\ ~conn.handshake_done
  /\ \E r \in ClientReads :
       LET n == csock.read + r.n IN
       \/ n > HsMax
       \/ \E e \in 1..n : RequestEnds(n, e) /\ script[e].k = "badend"
  /\ session_close("bad_request")

\* The request is not complete yet.
ReadRequest ==
  /\ ~conn.handshake_done
  /\ \E r \in ClientReads :
       /\ csock.read + r.n <= HsMax
       /\ \A e \in 1..csock.read + r.n : ~RequestEnds(csock.read + r.n, e)
       /\ TakeFromClient(r)
  /\ UNCHANGED <<sess, batch, tsock, script, history>>
  /\ AfterRead("c_write")

\* A plain transport on the new socket, whatever TargetTls says; it is
\* registered for write.
session_start_target(mode) ==
  [conn EXCEPT !.target = "plain", !.target_connecting = (mode = "in_progress")]

\* The request is complete: the 101 response is queued, session_start_target
\* connects, and what follows the request is parsed as frames.
Upgrade ==
  /\ ~conn.handshake_done /\ CanMakeFrame
  /\ \E r \in ClientReads, mode \in ConnectModes \ {"failed"} :
       LET n == csock.read + r.n IN
       \E e \in 1..n :
         /\ n <= HsMax /\ RequestEnds(n, e) /\ script[e].k = "end"
         /\ TakeFromClient(r)
         /\ done' = e
         /\ conn' = [session_start_target(mode) EXCEPT !.handshake_done = TRUE]
         /\ tsock' = [tsock EXCEPT !.peer = IF mode = "in_progress" THEN "syn" ELSE "open"]
  /\ client_out' = Frame("http", Blank(1))
  /\ pc' = "ws" /\ ops' = ops + 1
  /\ UNCHANGED <<closing, pending_close, c2t, t2c, ws_parser, events, interest,
                 batch, script, t_seen, c_seen, wire, reason>>

\* The target's name does not resolve or connect(2) fails at once.
UpgradeFails ==
  /\ ~conn.handshake_done /\ "failed" \in ConnectModes
  /\ \E r \in ClientReads :
       \E e \in 1..csock.read + r.n :
         /\ csock.read + r.n <= HsMax
         /\ RequestEnds(csock.read + r.n, e) /\ script[e].k = "end"
  /\ session_close("connect")

-----------------------------------------------------------------------------
(* session_process_ws_bytes: the tokens read and not processed yet go       *)
(* through the frame parser, one call of sockify_ws_parser_feed per step.   *)

Unprocessed == csock.read - done
payload_capacity == min_size(Chunk, writable(c2t))

\* Another call of the parser is made.
Feeding == pc = "ws" /\ Unprocessed > 0 /\ closing = 0 /\ payload_capacity > 0

\* The bytes are used up, or a CLOSE frame ended the session's input.
WsDone ==
  /\ pc = "ws" /\ (Unprocessed = 0 \/ closing # 0)
  /\ UNCHANGED <<sess, batch, net, history>>
  /\ IF is_high(c2t) THEN AfterRead("c_write")
     ELSE pc' = "c_read" /\ UNCHANGED <<ops, events, interest>>

\* No room for payload: SOCKIFY_ERR_AGAIN, on which the callers go on and the
\* bytes that are left are never looked at again.
WsFull ==
  /\ pc = "ws" /\ Unprocessed > 0 /\ closing = 0 /\ payload_capacity = 0
  /\ done' = csock.read
  /\ UNCHANGED <<sess, batch, net, t_seen, c_seen, wire, reason>>
  /\ AfterRead("c_write")

\* Mutant: the CLOSE frame is always left for later.
QueueCloseLater(n) ==
  /\ pending_close' = [set |-> TRUE, len |-> n]
  /\ UNCHANGED client_out

\* The CLOSE that answers the client's: at once, or after the frame being sent.
QueueClose(n) ==
  /\ client_out' = IF CanMakeFrame THEN Frame("close", Blank(n)) ELSE client_out
  /\ pending_close' = IF CanMakeFrame THEN NoClose ELSE [set |-> TRUE, len |-> n]

\* session_handle_ws_message for n payload bytes of a frame with opcode op.
\* A ping that finds client_out busy is WsPingRefused instead.
session_handle_ws_message(op, n) ==
  \/ /\ op \in DataOps
     /\ c2t' = c2t \o [i \in 1..n |-> script[done + i].off]
     /\ UNCHANGED <<client_out, closing, pending_close>>
  \/ /\ op = "ping" /\ CanMakeFrame
     /\ client_out' = Frame("pong", Blank(n))
     /\ UNCHANGED <<c2t, closing, pending_close>>
  \/ /\ op = "pong"
     /\ UNCHANGED <<c2t, client_out, closing, pending_close>>
  \/ /\ op = "close"
     /\ closing' = 1 /\ QueueClose(n)
     /\ UNCHANGED c2t

\* The header of a frame that has a payload.
WsHeader ==
  /\ Feeding /\ ws_parser.left = 0
  /\ LET h == script[done + 1] IN
     /\ h.k = "hdr" /\ h.len > 0
     /\ ws_parser' = [op |-> h.op, left |-> h.len]
  /\ done' = done + 1
  /\ UNCHANGED <<conn, closing, pending_close, c2t, t2c, client_out, thread, net,
                 t_seen, c_seen, wire, reason>>

\* A frame without payload is a message as soon as its header is complete.
WsEmptyFrame ==
  /\ Feeding /\ ws_parser.left = 0
  /\ LET h == script[done + 1] IN
     /\ h.k = "hdr" /\ h.len = 0
     /\ session_handle_ws_message(h.op, 0)
  /\ done' = done + 1
  /\ UNCHANGED <<conn, t2c, ws_parser, thread, net, t_seen, c_seen, wire, reason>>

\* Mutant: the end of the frame is not looked for.
PayloadStepUncapped == min_size(Unprocessed, payload_capacity)

\* Payload bytes one call of the parser hands over.
PayloadStep == min_size(min_size(Unprocessed, payload_capacity), ws_parser.left)

\* The parser wants a control frame to fit what is left of client_to_target;
\* sockify_buffer_write wants the same of data.
DoesNotFit ==
  IF ws_parser.op \in CtlOps THEN ws_parser.left > payload_capacity
  ELSE PayloadStep > writable(c2t)

\* Payload of the current frame, possibly not all of it.
WsPayload ==
  /\ Feeding /\ ws_parser.left > 0 /\ ~DoesNotFit
  /\ session_handle_ws_message(ws_parser.op, PayloadStep)
  /\ ws_parser' = IF ws_parser.left = PayloadStep THEN NoFrameParsed
                  ELSE [ws_parser EXCEPT !.left = @ - PayloadStep]
  /\ done' = done + PayloadStep
  /\ UNCHANGED <<conn, t2c, thread, net, t_seen, c_seen, wire, reason>>

\* A header the parser rejects, or bytes that are no header.
WsProtocolError ==
  /\ Feeding /\ ws_parser.left = 0 /\ script[done + 1].k # "hdr"
  /\ session_close("protocol")

WsOverflow ==
  /\ Feeding /\ ws_parser.left > 0 /\ DoesNotFit
  /\ session_close("overflow")

\* A ping cannot be answered while a frame is being sent.
WsPingRefused ==
  /\ Feeding /\ ~CanMakeFrame
  /\ \/ ws_parser.left > 0 /\ ws_parser.op = "ping" /\ ~DoesNotFit
     \/ /\ ws_parser.left = 0 /\ script[done + 1].k = "hdr"
        /\ script[done + 1].len = 0 /\ script[done + 1].op = "ping"
  /\ session_close("pong_busy")

-----------------------------------------------------------------------------
(* session_write_client.                                                   *)

\* The client's socket takes n bytes of client_out.
DeliverToClient(n) ==
  LET f == client_out
      payload == IF f.pos = 0 THEN n - 1 ELSE n IN
  /\ client_out' = [f EXCEPT !.pos = @ + n]
  /\ c_seen' = c_seen \o
       (IF f.op = "binary" THEN SubSeq(Unsent(f), 1, payload) ELSE <<>>)
  /\ wire' = [last |-> f.op, left |-> OutLeft(f) - n,
              ok |-> /\ wire.ok
                     /\ IF f.pos = 0
                        THEN /\ wire.left = 0
                             /\ wire.last # "close"
                             /\ (wire.last = "none") = (f.op = "http")
                        ELSE wire.last = f.op /\ wire.left = OutLeft(f)]
  /\ csock' = [csock EXCEPT !.fill = @ + n]

WriteClient ==
  /\ pc = "c_write" /\ OutLeft(client_out) > 0 /\ ops < WriteBudget
  /\ csock.peer # "rst" /\ Taken(csock, OutLeft(client_out)) > 0
  /\ DeliverToClient(Taken(csock, OutLeft(client_out)))
  /\ ops' = ops + 1
  /\ UNCHANGED <<conn, closing, pending_close, c2t, t2c, ws_parser, pc, events,
                 interest, batch, tsock, script, done, t_seen, reason>>

\* EAGAIN, or the write budget is used up with bytes left.
WriteClientStops ==
  /\ pc = "c_write" /\ OutLeft(client_out) > 0
  /\ ops = WriteBudget \/ (csock.peer # "rst" /\ Taken(csock, OutLeft(client_out)) = 0)
  /\ UNCHANGED <<sess, batch, net, history>>
  /\ Return

WriteClientFails ==
  /\ pc = "c_write" /\ OutLeft(client_out) > 0 /\ ops < WriteBudget
  /\ csock.peer = "rst"
  /\ session_close("client_gone")

\* Mutant: the chunk is copied and not consumed.
FrameChunkPeeked(n) ==
  /\ client_out' = IF n > 0 THEN Frame("binary", SubSeq(t2c, 1, n)) ELSE NoFrame
  /\ UNCHANGED t2c

\* The first n bytes of target_to_client become a data frame.
FrameChunk(n) ==
  /\ client_out' = IF n > 0 THEN Frame("binary", SubSeq(t2c, 1, n)) ELSE NoFrame
  /\ t2c' = SubSeq(t2c, n + 1, Len(t2c))

\* client_out is empty: the CLOSE frame that waited for it, or the next chunk
\* of target_to_client, takes its place.
NextFrame ==
  /\ pc = "c_write" /\ OutLeft(client_out) = 0
  /\ pending_close.set \/ closing = 0
  /\ IF pending_close.set
     THEN /\ client_out' = Frame("close", Blank(pending_close.len))
          /\ pending_close' = NoClose
          /\ UNCHANGED t2c
     ELSE /\ FrameChunk(IF conn.handshake_done THEN min_size(Chunk, Len(t2c)) ELSE 0)
          /\ UNCHANGED pending_close
  /\ UNCHANGED <<conn, closing, c2t, ws_parser, batch, net, history>>
  /\ Return

\* The CLOSE frame is out.
CloseSent ==
  /\ pc = "c_write" /\ OutLeft(client_out) = 0
  /\ ~pending_close.set /\ closing = 1
  /\ session_close("close_frame")

-----------------------------------------------------------------------------
(* session_read_target and session_write_target.                           *)

\* Mutant: the high-water mark is not looked at.
TargetReadOverBudget == ops = ReadBudget

TargetReadOver == is_high(t2c) \/ ops = ReadBudget

TargetReads ==
  IF pc # "t_read" \/ TargetReadOver THEN {}
  ELSE Reads(tsock, conn.target = "tls", Chunk)

ReadTarget ==
  /\ \E r \in TargetReads :
       /\ r.n <= writable(t2c)
       /\ tsock' = [tsock EXCEPT !.read = @ + r.n, !.pend = r.pend]
       /\ t2c' = t2c \o Numbered(tsock.read, r.n)
  /\ ops' = ops + 1
  /\ UNCHANGED <<conn, closing, pending_close, c2t, client_out, ws_parser, pc, events,
                 interest, batch, csock, script, history>>

\* sockify_buffer_write could not store all that was read.
ReadTargetOverflow ==
  /\ \E r \in TargetReads : r.n > writable(t2c)
  /\ session_close("overflow")

ReadTargetStops ==
  /\ pc = "t_read" /\ (TargetReadOver \/ WouldBlock(tsock))
  /\ UNCHANGED <<sess, batch, net, history>>
  /\ AfterRead("t_write")

ReadTargetFails ==
  /\ pc = "t_read" /\ ~TargetReadOver /\ ReadFails(tsock)
  /\ session_close("target_gone")

TargetWriteOver == c2t = <<>> \/ ops = WriteBudget

\* Mutant: what was peeked is consumed, not what was sent.
ConsumeSentAll(n) == c2t' = SubSeq(c2t, min_size(Chunk, Len(c2t)) + 1, Len(c2t))

\* sockify_buffer_consume of the n bytes the socket took.
ConsumeSent(n) == c2t' = SubSeq(c2t, n + 1, Len(c2t))

\* Peek, send, consume what was sent.
WriteTarget ==
  LET n == Taken(tsock, min_size(Chunk, Len(c2t))) IN
  /\ pc = "t_write" /\ ~TargetWriteOver /\ tsock.peer # "rst" /\ n > 0
  /\ t_seen' = t_seen \o SubSeq(c2t, 1, n)
  /\ ConsumeSent(n)
  /\ tsock' = [tsock EXCEPT !.fill = @ + n]
  /\ ops' = ops + 1
  /\ UNCHANGED <<conn, closing, pending_close, t2c, client_out, ws_parser, pc, events,
                 interest, batch, csock, script, done, c_seen, wire, reason>>

WriteTargetStops ==
  /\ pc = "t_write"
  /\ TargetWriteOver \/ (tsock.peer # "rst" /\ tsock.fill = SndBuf)
  /\ UNCHANGED <<sess, batch, net, history>>
  /\ Return

WriteTargetFails ==
  /\ pc = "t_write" /\ ~TargetWriteOver /\ tsock.peer = "rst"
  /\ session_close("target_gone")

-----------------------------------------------------------------------------
(* The peers and the kernel.  No system call is made while frames are being *)
(* parsed, so nothing that happens meanwhile can be told from its happening *)
(* before or after.                                                         *)

Concurrently == closing # 2 /\ pc # "ws" /\ UNCHANGED <<sess, thread, script, history>>

ClientArrives ==
  /\ csock.peer = "open" /\ csock.arrived < Len(script)
  /\ csock' = [csock EXCEPT !.arrived = @ + 1]
  /\ UNCHANGED tsock /\ Concurrently

ClientDrains ==
  /\ csock.fill > 0
  /\ csock' = [csock EXCEPT !.fill = @ - 1]
  /\ UNCHANGED tsock /\ Concurrently

ClientLeaves ==
  /\ Faults /\ csock.peer = "open"
  /\ \E p \in {"fin", "rst"} : csock' = [csock EXCEPT !.peer = p]
  /\ UNCHANGED tsock /\ Concurrently

TargetAccepts ==
  /\ tsock.peer = "syn"
  /\ tsock' = [tsock EXCEPT !.peer = "open"]
  /\ UNCHANGED csock /\ Concurrently

TargetSends ==
  /\ tsock.peer = "open" /\ tsock.arrived + Len(script) < MaxTraffic
  /\ tsock' = [tsock EXCEPT !.arrived = @ + 1]
  /\ UNCHANGED csock /\ Concurrently

TargetDrains ==
  /\ tsock.fill > 0
  /\ tsock' = [tsock EXCEPT !.fill = @ - 1]
  /\ UNCHANGED csock /\ Concurrently

\* A target that refuses the connection resets it.
TargetLeaves ==
  /\ Faults /\ tsock.peer \in {"syn", "open"}
  /\ \E p \in {"fin", "rst"} :
       /\ tsock.peer = "syn" => p = "rst"
       /\ tsock' = [tsock EXCEPT !.peer = p]
  /\ UNCHANGED csock /\ Concurrently

-----------------------------------------------------------------------------

\* session_create
Init ==
  /\ conn = [handshake_done |-> FALSE, target |-> "none", target_connecting |-> FALSE,
             client_tls_ready |-> ~ClientTls, target_tls_ready |-> ~TargetTls,
             cwant |-> {}, twant |-> {}, cflights |-> Flights, tflights |-> Flights]
  /\ closing = 0 /\ pending_close = NoClose
  /\ c2t = <<>> /\ t2c = <<>>
  /\ client_out = NoFrame /\ ws_parser = NoFrameParsed
  /\ pc = "loop" /\ ops = 0 /\ events = {}
  /\ interest = [c |-> IF ClientTls THEN {"read", "write"} ELSE {"read"}, t |-> {}]
  /\ batch = NoEvents
  /\ csock = [arrived |-> 0, read |-> 0, pend |-> 0, fill |-> 0, peer |-> "open"]
  /\ tsock = [arrived |-> 0, read |-> 0, pend |-> 0, fill |-> 0, peer |-> "none"]
  /\ script \in Scripts /\ done = 0
  /\ t_seen = <<>> /\ c_seen = <<>>
  /\ wire = [last |-> "none", left |-> 0, ok |-> TRUE]
  /\ reason = "none"

\* Steps of the event-loop thread.
LoopStep ==
  \/ Wait \/ EventError
  \/ ClientTlsAgain \/ ClientTlsFails \/ HandleClientEvent
  \/ ConnectFails \/ TargetTlsAgain \/ TargetTlsFails \/ HandleTargetEvent
  \/ ReadClientStops \/ ReadClientFails \/ ReadFrames
  \/ RefuseRequest \/ ReadRequest \/ Upgrade \/ UpgradeFails
  \/ WsDone \/ WsFull \/ WsHeader \/ WsEmptyFrame \/ WsPayload
  \/ WsProtocolError \/ WsOverflow \/ WsPingRefused
  \/ WriteClient \/ WriteClientStops \/ WriteClientFails \/ NextFrame \/ CloseSent
  \/ ReadTarget \/ ReadTargetOverflow \/ ReadTargetStops \/ ReadTargetFails
  \/ WriteTarget \/ WriteTargetStops \/ WriteTargetFails

PeerStep ==
  \/ ClientArrives \/ ClientDrains \/ ClientLeaves
  \/ TargetAccepts \/ TargetSends \/ TargetDrains \/ TargetLeaves

Next == LoopStep \/ Expire \/ PeerStep

Spec == Init /\ [][Next]_vars

\* The thread keeps running, the peers read what is sent to them and the
\* target answers the connection attempt.
Fairness ==
  /\ WF_vars(LoopStep)
  /\ WF_vars(ClientDrains) /\ WF_vars(TargetDrains) /\ WF_vars(TargetAccepts)

FairSpec == Spec /\ Fairness

=============================================================================
