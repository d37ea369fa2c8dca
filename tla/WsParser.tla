------------------------------ MODULE WsParser ------------------------------
(***************************************************************************)
(* The streaming frame parser and the frame writer (src/ws/ws_frame.c), on *)
(* bytes, behind the upgrade request.  A client sends a request and frames, *)
(* the process reads them in pieces cut anywhere.  It collects the request *)
(* until it is complete; from there its caller, session_process_ws_bytes,  *)
(* calls feed until what was read is used up, each time with the room the  *)
(* buffer has.                                                             *)
(*                                                                         *)
(* One action is one round of the loop in sockify_ws_parser_feed.  Lengths *)
(* above Huge are not told apart.                                          *)
(***************************************************************************)
EXTENDS WsHandshake

CONSTANTS
  Streams,       \* what clients send: a request and frames
  MaxRequest,    \* SOCKIFY_WS_MAX_HTTP_REQUEST, the size of session->handshake
  MaxRead,       \* bound on the bytes that arrive at once
  Capacities,    \* room for payload that a call of feed may have
  WriteLengths   \* lengths of the frames written

VARIABLES
  client,        \* what it sends, of Streams
  handshake_done, accept, \* the request was accepted; the key answered
  received, pos, \* bytes read from the socket; bytes used
  parser,        \* struct sockify_ws_parser
  capacity,      \* payload_capacity of the call at hand
  pc,            \* "caller", "feed", "wrote", or what refused the client
  messages,      \* delivered so far, the parts of a frame put together
  written        \* the head of the frame written last, its opcode and length

\* The tokens of the client's request, its frames, where each starts in the
\* stream, and the bytes of all.
request == client.request
frames == client.frames
starts == client.starts
stream == client.bytes

upgrade == <<handshake_done, accept>>
vars == <<client, upgrade, received, pos, parser, capacity, pc, messages, written>>

Huge == 2147483647

CONTINUATION == 0
TEXT == 1
BINARY == 2
CLOSE == 8
PING == 9
PONG == 10

-----------------------------------------------------------------------------
(* byte_order.c                                                            *)

sockify_read_be16(b) == (256 * b[1]) + b[2]

sockify_read_be64(b) ==
  IF b[1] + b[2] + b[3] + b[4] > 0 \/ b[5] >= 128 THEN Huge
  ELSE (16777216 * b[5]) + (65536 * b[6]) + (256 * b[7]) + b[8]

sockify_write_be16(n) == <<n \div 256, n % 256>>

sockify_write_be64(n) ==
  <<0, 0, 0, 0, n \div 16777216, (n \div 65536) % 256, (n \div 256) % 256, n % 256>>

-----------------------------------------------------------------------------
(* The client's side of the wire.  A frame has the fields of RFC 6455 and  *)
(* the payload bytes that are sent of it; form is the number of bytes its  *)
(* extended length has, which need not be the smallest.                    *)

Bit(b) == IF b THEN 1 ELSE 0

\* a ^ b of two bytes.
Xor(a, b) ==
  LET Differs(k) == IF (a \div k) % 2 = (b \div k) % 2 THEN 0 ELSE k
  IN Differs(1) + Differs(2) + Differs(4) + Differs(8)
     + Differs(16) + Differs(32) + Differs(64) + Differs(128)

Masked(f) == [k \in DOMAIN f.payload |-> Xor(f.payload[k], f.mask[((k - 1) % 4) + 1])]

Extended(f) ==
  CASE f.form = 0 -> <<>>
    [] f.form = 2 -> sockify_write_be16(f.len)
    [] f.form = 8 -> [sockify_write_be64(f.len) EXCEPT ![1] = f.top]

Wire(f) ==
  <<(128 * Bit(f.fin)) + (16 * f.rsv) + f.opcode,
    (128 * Bit(f.masked)) + (CASE f.form = 0 -> f.len [] f.form = 2 -> 126 [] f.form = 8 -> 127)>>
  \o Extended(f) \o (IF f.masked THEN f.mask ELSE <<>>) \o Masked(f)

\* The length the head of a frame announces; top is the highest of its 8 bytes.
Announced(f) == IF f.top # 0 THEN Huge ELSE f.len

FrameFields ==
  [fin : BOOLEAN, rsv : 0..7, opcode : 0..15, masked : BOOLEAN, form : {0, 2, 8},
   len : 0..Huge, top : 0..255, mask : [1..4 -> 0..255], payload : Seq(0..255)]

FrameOk(f) ==
  /\ f.form = 0 => f.len <= 125
  /\ f.form = 2 => f.len <= 65535
  /\ f.top # 0 => f.form = 8 /\ Len(f.payload) < Huge
  /\ Len(f.payload) <= Announced(f)

\* A request is lines of one token, each ended by CR LF, up to the empty line.
Tokens == {GET, POST, NoColon} \cup {FieldToken(k) : k \in DOMAIN Fields}

RequestOk(r) ==
  /\ r \in Seq(Tokens \cup {CR, LF}) /\ Len(r) >= 4
  /\ {Len(r) - 3, Len(r) - 1} \subseteq LineEnds(r)
  /\ \A k \in DOMAIN r :
       /\ r[k] = CR => k \in LineEnds(r)
       /\ r[k] = LF => k - 1 \in LineEnds(r)
       /\ r[k] \in Tokens => k + 1 \in LineEnds(r) /\ (k = 1 \/ k - 2 \in LineEnds(r))
       /\ {k, k + 2} \subseteq LineEnds(r) => k = Len(r) - 3

\* The bytes are those of the request and of the frames, one behind the other.
\* Only the last frame may be cut, and not before its payload: what is cut
\* elsewhere is what has not been received yet.
StreamOk(s) ==
  LET last == Len(s.frames) IN
  /\ RequestOk(s.request)
  /\ s.frames \in Seq(FrameFields)
  /\ s.starts \in [1..(last + 1) -> Nat] /\ s.starts[1] = Len(s.request)
  /\ s.bytes \in Seq(Nat) /\ Len(s.bytes) = s.starts[last + 1]
  /\ \A k \in DOMAIN s.request : s.bytes[k] = s.request[k]
  /\ \A k \in DOMAIN s.frames :
       LET f == s.frames[k]
           wire == Wire(f)
       IN /\ FrameOk(f)
          /\ k < last => Len(f.payload) = Announced(f)
          /\ Announced(f) > 0 => f.payload # <<>>
          /\ s.starts[k + 1] = s.starts[k] + Len(wire)
          /\ \A j \in DOMAIN wire : s.bytes[s.starts[k] + j] = wire[j]

ASSUME StreamAssumption ==
  /\ \A s \in Streams : StreamOk(s)
  /\ MaxRead \in Nat /\ MaxRequest \in Nat
  /\ Capacities \subseteq Nat /\ WriteLengths \subseteq 0..Huge

-----------------------------------------------------------------------------
(* The parser.                                                             *)

\* sockify_ws_parser_init
NewParser ==
  [state |-> "HEADER_1", fin |-> FALSE, opcode |-> 0,
   ext_len_needed |-> 0, ext_len_bytes |-> <<>>, mask |-> <<>>,
   payload_len |-> 0, payload_remaining |-> 0, payload_offset |-> 0,
   fragmented_opcode |-> 0]

is_control_opcode(op) == op >= 8

valid_opcode(op) == op \in {CONTINUATION, TEXT, BINARY, CLOSE, PING, PONG}

\* Mutant: the end of a fragmented message is not noticed.
reset_frame_forgets(p) ==
  [NewParser EXCEPT !.fragmented_opcode =
     IF p.opcode \in {TEXT, BINARY} /\ ~p.fin THEN p.opcode ELSE p.fragmented_opcode]

\* The frame is over.
reset_frame(p) ==
  [NewParser EXCEPT !.fragmented_opcode =
     CASE p.opcode \in {TEXT, BINARY} /\ ~p.fin -> p.opcode
       [] p.opcode = CONTINUATION /\ p.fin -> 0
       [] OTHER -> p.fragmented_opcode]

\* reset_frame finds a frame that validate_frame_header should have refused.
ResetFails(p) ==
  \/ p.opcode \in {TEXT, BINARY} /\ ~p.fin /\ p.fragmented_opcode # 0
  \/ p.opcode = CONTINUATION /\ p.fragmented_opcode = 0

\* Mutant: a control frame may have any length.
validate_frame_header_long(p) ==
  IF is_control_opcode(p.opcode) THEN p.fin
  ELSE (p.opcode = CONTINUATION) = (p.fragmented_opcode # 0)

validate_frame_header(p) ==
  IF is_control_opcode(p.opcode) THEN p.fin /\ p.payload_len <= 125
  ELSE (p.opcode = CONTINUATION) = (p.fragmented_opcode # 0)

\* What finish_length makes of the parser, once the extended length is complete.
Lengthened(p) ==
  LET n == IF p.ext_len_needed = 2 THEN sockify_read_be16(p.ext_len_bytes)
           ELSE sockify_read_be64(p.ext_len_bytes)
  IN [p EXCEPT !.payload_len = n, !.payload_remaining = n]

finish_length(p) ==
  /\ p.ext_len_needed = 2 => Lengthened(p).payload_len >= 126
  /\ p.ext_len_needed = 8 => Lengthened(p).payload_len >= 65536 /\ p.ext_len_bytes[1] < 128
  /\ validate_frame_header(Lengthened(p))

-----------------------------------------------------------------------------
(* sockify_ws_parser_feed                                                  *)

\* The next byte is taken.
Byte == stream[pos + 1]

InState(s) ==
  /\ pc = "feed" /\ parser.state = s
  /\ UNCHANGED <<client, upgrade, received, capacity, written>>

Takes(s) ==
  /\ InState(s) /\ pos < received
  /\ pos' = pos + 1

\* The loop goes on with parser p, unless ok fails.
GoesOn(p, ok) ==
  /\ parser' = p /\ pc' = IF ok THEN "feed" ELSE "protocol"
  /\ UNCHANGED messages

Header1 ==
  LET op == Byte % 16 IN
  /\ Takes("HEADER_1")
  /\ GoesOn([parser EXCEPT !.fin = (Byte >= 128), !.opcode = op, !.state = "HEADER_2"],
            (Byte \div 16) % 8 = 0 /\ valid_opcode(op))

Header2 ==
  LET len == Byte % 128
      p == [parser EXCEPT !.payload_len = len]
  IN
  /\ Takes("HEADER_2")
  /\ \/ Byte < 128 /\ GoesOn(p, FALSE)
     \/ /\ Byte >= 128 /\ len >= 126
        /\ GoesOn([p EXCEPT !.ext_len_needed = IF len = 126 THEN 2 ELSE 8,
                            !.state = "EXT_LEN"], TRUE)
     \/ /\ Byte >= 128 /\ len < 126
        /\ GoesOn([p EXCEPT !.payload_remaining = len, !.state = "MASK"],
                  validate_frame_header(p))

ExtLen ==
  LET p == [parser EXCEPT !.ext_len_bytes = Append(@, Byte)] IN
  /\ Takes("EXT_LEN")
  /\ IF Len(p.ext_len_bytes) < p.ext_len_needed THEN GoesOn(p, TRUE)
     ELSE GoesOn([Lengthened(p) EXCEPT !.state = "MASK"], finish_length(p))

\* prepare_message: a part of the frame at hand is delivered.
Deliver(p, bytes, complete) ==
  messages' =
    IF messages = <<>> \/ messages[Len(messages)].complete
    THEN Append(messages, [fin |-> p.fin, opcode |-> p.opcode,
                           payload |-> bytes, complete |-> complete])
    ELSE [messages EXCEPT ![Len(messages)] =
            [fin |-> p.fin, opcode |-> p.opcode,
             payload |-> @.payload \o bytes, complete |-> complete]]

\* The end of a frame, with or without a payload.
Resets(p) ==
  /\ parser' = IF ResetFails(p) THEN p ELSE reset_frame(p)
  /\ pc' = IF ResetFails(p) THEN "reset" ELSE "caller"

Mask ==
  LET p == [parser EXCEPT !.mask = Append(@, Byte)] IN
  /\ Takes("MASK")
  /\ \/ Len(p.mask) < 4 /\ GoesOn(p, TRUE)
     \/ /\ Len(p.mask) = 4 /\ p.payload_remaining > 0
        /\ GoesOn([p EXCEPT !.state = "PAYLOAD"], TRUE)
     \/ /\ Len(p.mask) = 4 /\ p.payload_remaining = 0
        /\ Deliver(p, <<>>, TRUE) /\ Resets(p)

\* Mutant: every part is unmasked from the start of the mask.
UnmaskedPart(p, n) == [k \in 1..n |-> Xor(stream[pos + k], p.mask[((k - 1) % 4) + 1])]

\* n payload bytes, unmasked.
Unmasked(p, n) ==
  [k \in 1..n |-> Xor(stream[pos + k], p.mask[((p.payload_offset + k - 1) % 4) + 1])]

\* A control payload is not split for want of room.
Overflows(p) ==
  capacity = 0 \/ (is_control_opcode(p.opcode) /\ p.payload_remaining > capacity)

Payload ==
  LET n == Least({received - pos, capacity, parser.payload_remaining})
      p == [parser EXCEPT !.payload_offset = @ + n, !.payload_remaining = @ - n]
      complete == p.payload_remaining = 0
  IN
  /\ InState("PAYLOAD") /\ pos < received
  /\ IF Overflows(parser)
     THEN pc' = "overflow" /\ UNCHANGED <<pos, parser, messages>>
     ELSE /\ pos' = pos + n
          /\ Deliver(parser, Unmasked(parser, n), complete)
          /\ IF complete THEN Resets(p) ELSE parser' = p /\ pc' = "caller"

\* The data is used up: SOCKIFY_ERR_AGAIN.
Again ==
  /\ pc = "feed" /\ pos = received /\ pc' = "caller"
  /\ UNCHANGED <<client, upgrade, received, pos, parser, capacity, messages, written>>

-----------------------------------------------------------------------------
(* The caller: session_read_client, session_handle_handshake_bytes and     *)
(* session_process_ws_bytes.                                               *)

\* Bytes arrive.
Reads ==
  \E n \in 1..MaxRead : received + n <= Len(stream) /\ received' = received + n

\* They are added to the request, if there is room, and the whole of it is looked
\* at again; what is behind its end goes to the parser.
HandshakeBytes ==
  /\ pc = "caller" /\ ~handshake_done /\ Reads
  /\ LET r == build_handshake_response(SubSeq(stream, 1, received')) IN
     \/ /\ received' > MaxRequest \/ r.rc = "protocol"
        /\ pc' = "refused" /\ UNCHANGED <<upgrade, pos>>
     \/ /\ received' <= MaxRequest /\ r.rc = "again"
        /\ UNCHANGED <<upgrade, pos, pc>>
     \/ /\ received' <= MaxRequest /\ r.rc = "ok"
        /\ handshake_done' = TRUE /\ accept' = r.key /\ pos' = r.consumed
        /\ UNCHANGED pc
  /\ UNCHANGED <<client, parser, capacity, messages, written>>

Receive ==
  /\ pc = "caller" /\ handshake_done /\ pos = received /\ Reads
  /\ UNCHANGED <<client, upgrade, pos, parser, capacity, pc, messages, written>>

\* Without room for a byte the parser is not called.  What the caller does then,
\* and that it stops after a CLOSE, is modelled in Session; here every byte gets
\* to the parser in the end.
Feed ==
  /\ pc = "caller" /\ handshake_done /\ pos < received /\ pc' = "feed"
  /\ capacity' \in Capacities \ {0}
  /\ UNCHANGED <<client, upgrade, received, pos, parser, messages, written>>

-----------------------------------------------------------------------------
(* The writer.                                                             *)

\* Mutant: the 16-bit form starts one too early.
WriteHeadOffByOne(op, n) ==
  <<128 + op>> \o
  (CASE n <= 126 -> <<n>>
     [] n > 126 /\ n <= 65535 -> <<126>> \o sockify_write_be16(n)
     [] n > 65535 -> <<127>> \o sockify_write_be64(n))

\* The head sockify_ws_write_frame puts before n bytes of payload.
WriteHead(op, n) ==
  <<128 + op>> \o
  (CASE n <= 125 -> <<n>>
     [] n > 125 /\ n <= 65535 -> <<126>> \o sockify_write_be16(n)
     [] n > 65535 -> <<127>> \o sockify_write_be64(n))

\* A frame is written; a control frame that is too long is refused.  The writer
\* shares nothing with the parser, so nothing has to be received before or after.
sockify_ws_write_frame ==
  /\ pc = "caller" /\ received = 0 /\ pc' = "wrote"
  /\ \E op \in {BINARY, CLOSE, PONG}, n \in WriteLengths :
       /\ is_control_opcode(op) => n <= 125
       /\ written' = [opcode |-> op, len |-> n, head |-> WriteHead(op, n)]
  /\ UNCHANGED <<client, upgrade, received, pos, parser, capacity, messages>>

-----------------------------------------------------------------------------

Init ==
  /\ client \in Streams
  /\ handshake_done = FALSE /\ accept = 0
  /\ received = 0 /\ pos = 0
  /\ parser = NewParser /\ capacity = 0 /\ pc = "caller"
  /\ messages = <<>> /\ written = [opcode |-> BINARY, len |-> 0, head |-> WriteHead(BINARY, 0)]

Next ==
  \/ HandshakeBytes \/ Receive \/ Feed
  \/ Header1 \/ Header2 \/ ExtLen \/ Mask \/ Payload \/ Again
  \/ sockify_ws_write_frame

Spec == Init /\ [][Next]_vars
=============================================================================
