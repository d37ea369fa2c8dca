------------------------- MODULE WsParserProperties -------------------------
(* What a client's request and frames come to, by the framing rules of     *)
(* RFC 6455, and that the code agrees however the bytes are cut.  What is  *)
(* in a payload, UTF-8 or the body of a CLOSE, is no matter of these rules.*)
EXTENDS WsParser

\* A message has been started before frame k and not been ended.
Open(k) ==
  \E j \in 1..(k - 1) :
    /\ frames[j].opcode < 8 /\ ~frames[j].fin
    /\ \A m \in (j + 1)..(k - 1) : frames[m].opcode >= 8

\* Frame k breaks a rule.
Bad(k) ==
  LET f == frames[k] IN
  \/ f.rsv # 0 \/ ~f.masked
  \/ f.opcode \notin {0, 1, 2, 8, 9, 10}
  \/ f.opcode >= 8 /\ (~f.fin \/ Announced(f) > 125)
  \/ f.opcode = 0 /\ ~Open(k)
  \/ f.opcode \in {1, 2} /\ Open(k)
  \/ f.form = 2 /\ f.len <= 125
  \/ f.form = 8 /\ (f.top >= 128 \/ (f.top = 0 /\ f.len <= 65535))

Accepted(k) == \A j \in 1..k : ~Bad(j)

\* The bytes before the payload of frame k.
HeadEnd(k) == starts[k + 1] - Len(frames[k].payload)

\* The frame whose end has not been delivered yet.
Current ==
  IF messages = <<>> \/ messages[Len(messages)].complete THEN Len(messages) + 1
  ELSE Len(messages)

Begins(s, t) == Len(s) <= Len(t) /\ \A k \in DOMAIN s : s[k] = t[k]

-----------------------------------------------------------------------------

\* The request as a client means it: its lines.
Holds(name) ==
  \E k \in 2..Len(request) :
    /\ request[k] > 300
    /\ Fields[request[k] - 300].name = name /\ Fields[request[k] - 300].good

ValidRequest ==
  /\ request[1] = GET
  /\ \A k \in 2..Len(request) : request[k] \notin {GET, POST, NoColon}
  /\ \A name \in Required : Holds(name)

IsKey(k) == request[k] \in {FieldToken(7), FieldToken(8)}

\* A request is answered or refused as soon as its empty line is there and not
\* before, wherever reads cut it; it is accepted when it holds all that is
\* required, in any order and whatever else, with its last key answered, and the
\* frames behind it start where it ends (ws_handshake.c:108-125, 214-342,
\* proxy.c:402-449).
RequestExactly ==
  /\ handshake_done =>
       /\ ValidRequest /\ received >= Len(request) /\ pos >= Len(request)
       /\ \E k \in DOMAIN request :
            /\ IsKey(k) /\ accept = request[k]
            /\ \A j \in (k + 1)..Len(request) : ~IsKey(j)
  /\ pc = "refused" =>
       received > MaxRequest \/ (~ValidRequest /\ received >= Len(request))
  /\ (pc = "caller" /\ ~handshake_done) => received < Len(request)

\* What is delivered is what the client's frames say, unmasked, in order and
\* nothing else, wherever reads and small buffers cut the stream; once all is
\* used nothing is missing (ws_frame.c:138-269).
DecodedExactly ==
  /\ \A k \in DOMAIN messages :
       /\ Accepted(k)
       /\ messages[k].opcode = frames[k].opcode /\ messages[k].fin = frames[k].fin
       /\ Begins(messages[k].payload, frames[k].payload)
       /\ messages[k].complete <=> (Len(messages[k].payload) = Announced(frames[k]))
       /\ k < Len(messages) => messages[k].complete
  /\ pc = "caller" /\ pos = Len(stream) =>
       /\ Len(messages) = Len(frames)
       /\ \A k \in DOMAIN messages : messages[k].payload = frames[k].payload

\* The stream is refused at the first frame that breaks a rule, when all before
\* it has been delivered and before any of its payload is looked at; the checks
\* of reset_frame at the end of a frame find nothing that validate_frame_header
\* has let pass (ws_frame.c:36-56, 83-115).
RefusedExactly ==
  /\ pc = "protocol" =>
       LET k == Current IN
       /\ k = Len(messages) + 1 /\ Bad(k) /\ Accepted(k - 1)
       /\ pos <= HeadEnd(k)
  /\ pc # "reset"

\* Room for 125 bytes is enough for every client: whatever form its lengths have
\* and however its frames are cut, a call is refused for want of room only when
\* it has less, and then in a control frame that breaks no rule: no frame the
\* header checks should have stopped gets as far as its payload
\* (ws_frame.c:83-115, 222-232).
RoomSuffices ==
  pc = "overflow" =>
    capacity < 125 /\ frames[Current].opcode >= 8 /\ ~Bad(Current)

\* A client reads the head of a frame the server writes: unmasked, the opcode
\* and the length in its smallest form (ws_frame.c:292-314).
WrittenReads ==
  LET h == written.head
      n == written.len
  IN /\ h[1] = 128 + written.opcode
     /\ CASE Len(h) = 2 -> h[2] = n /\ n < 126
          [] Len(h) = 4 -> h[2] = 126 /\ sockify_read_be16(SubSeq(h, 3, 4)) = n /\ n >= 126
          [] Len(h) = 10 -> h[2] = 127 /\ sockify_read_be64(SubSeq(h, 3, 10)) = n /\ n >= 65536

-----------------------------------------------------------------------------
(* The inductive invariant from which WsParserProofs derives them: where    *)
(* in the client's frames the parser stands, state by state.               *)

ParserType ==
  [state : {"HEADER_1", "HEADER_2", "EXT_LEN", "MASK", "PAYLOAD"},
   fin : BOOLEAN, opcode : 0..15, ext_len_needed : {0, 2, 8},
   ext_len_bytes : Seq(0..255), mask : Seq(0..255), payload_len : 0..Huge,
   payload_remaining : 0..Huge, payload_offset : Nat, fragmented_opcode : 0..2]

MessageType == [fin : BOOLEAN, opcode : 0..15, payload : Seq(0..255), complete : BOOLEAN]

TypeOK ==
  /\ client \in Streams
  /\ handshake_done \in BOOLEAN
  /\ received \in 0..Len(stream) /\ pos \in 0..received
  /\ parser \in ParserType /\ messages \in Seq(MessageType)
  /\ capacity \in Nat
  /\ pc \in {"caller", "feed", "wrote", "refused", "protocol", "overflow"}

\* Of frame k the first n bytes of the payload have been delivered.
Delivered(k, n) ==
  /\ messages[k].opcode = frames[k].opcode /\ messages[k].fin = frames[k].fin
  /\ Len(messages[k].payload) = n /\ Begins(messages[k].payload, frames[k].payload)
  /\ messages[k].complete <=> (n = Announced(frames[k]))

\* The parser has read n bytes of frame k, with nothing wrong in its first one.
Reached(k, n) ==
  /\ k \in DOMAIN frames /\ pos = starts[k] + n
  /\ parser.opcode = frames[k].opcode /\ parser.fin = frames[k].fin
  /\ frames[k].rsv = 0 /\ valid_opcode(frames[k].opcode)

AtHeader1(k) ==
  /\ pos = starts[k] /\ k = Len(messages) + 1
  /\ parser.ext_len_bytes = <<>> /\ parser.mask = <<>> /\ parser.payload_offset = 0

AtHeader2(k) ==
  /\ Reached(k, 1) /\ k = Len(messages) + 1
  /\ parser.ext_len_bytes = <<>> /\ parser.mask = <<>> /\ parser.payload_offset = 0

AtExtLen(k) ==
  LET n == Len(parser.ext_len_bytes) IN
  /\ Reached(k, 2 + n) /\ k = Len(messages) + 1 /\ frames[k].masked
  /\ n < frames[k].form /\ parser.ext_len_needed = frames[k].form
  /\ Begins(parser.ext_len_bytes, Extended(frames[k]))
  /\ parser.mask = <<>> /\ parser.payload_offset = 0

AtMask(k) ==
  LET n == Len(parser.mask) IN
  /\ Reached(k, 2 + frames[k].form + n) /\ k = Len(messages) + 1 /\ ~Bad(k)
  /\ n < 4 /\ Begins(parser.mask, frames[k].mask)
  /\ parser.payload_remaining = Announced(frames[k]) /\ parser.payload_offset = 0

AtPayload(k) ==
  LET n == parser.payload_offset IN
  /\ Reached(k, 6 + frames[k].form + n) /\ ~Bad(k)
  /\ parser.mask = frames[k].mask
  /\ parser.payload_remaining = Announced(frames[k]) - n /\ n < Announced(frames[k])
  /\ n <= Len(frames[k].payload)
  /\ IF n = 0 THEN k = Len(messages) + 1 ELSE k = Len(messages) /\ Delivered(k, n)

Standing(k) ==
  /\ parser.state = "HEADER_1" => AtHeader1(k)
  /\ parser.state = "HEADER_2" => AtHeader2(k)
  /\ parser.state = "EXT_LEN" => AtExtLen(k)
  /\ parser.state = "MASK" => AtMask(k)
  /\ parser.state = "PAYLOAD" => AtPayload(k)

\* All frames before frame k have been delivered.
Before(k) ==
  /\ k <= Len(messages) + 1 /\ Accepted(k - 1)
  /\ \A j \in 1..(k - 1) :
       messages[j].complete /\ Delivered(j, Len(frames[j].payload))

Refused(k) ==
  k = Len(messages) + 1 /\ k \in DOMAIN frames /\ Bad(k) /\ pos <= HeadEnd(k)

FramesAt(k) ==
  /\ k = Current /\ Before(k)
  /\ pc = "protocol" => Refused(k)
  /\ pc # "protocol" => Standing(k) /\ ((parser.fragmented_opcode # 0) <=> Open(k))
  /\ pc \in {"feed", "overflow"} => capacity > 0
  /\ pc = "overflow" =>
       parser.state = "PAYLOAD" /\ parser.opcode >= 8 /\ parser.payload_remaining > capacity

FramesInv == \E k \in 1..(Len(frames) + 1) : FramesAt(k)

\* Nothing goes to the parser before the upgrade.
UpgradeInv ==
  ~handshake_done =>
    /\ pos = 0 /\ messages = <<>> /\ parser = NewParser
    /\ pc \in {"caller", "wrote", "refused"}

WrittenInv ==
  \E op \in {BINARY, CLOSE, PONG}, n \in 0..Huge :
    written = [opcode |-> op, len |-> n, head |-> WriteHead(op, n)]

WsInv ==
  /\ TypeOK /\ RequestExactly /\ UpgradeInv /\ WrittenInv
  /\ handshake_done => FramesInv
=============================================================================
