----------------------------- MODULE MCWsParser -----------------------------
(* Small streams of frames for TLC.                                          *)
EXTENDS WsParserProperties

LOCAL INSTANCE SequencesExt

F(op, fin, form, len, sent) ==
  [fin |-> fin, rsv |-> 0, opcode |-> op, masked |-> TRUE, form |-> form, len |-> len,
   top |-> 0, mask |-> <<17, 34, 68, 136>>, payload |-> [k \in 1..sent |-> k]]

Short(op, fin, len) == F(op, fin, 0, len, len)

\* Frames that are in order, or out of order, depending on those before.
Good ==
  {Short(TEXT, TRUE, 0), Short(BINARY, FALSE, 2), Short(CONTINUATION, FALSE, 0),
   Short(CONTINUATION, TRUE, 5), Short(PING, TRUE, 2), Short(CLOSE, TRUE, 0)}

Malformed ==
  {[Short(TEXT, TRUE, 1) EXCEPT !.rsv = 4], [Short(TEXT, TRUE, 1) EXCEPT !.masked = FALSE],
   Short(3, TRUE, 1), Short(11, TRUE, 0), Short(PONG, FALSE, 1)}

\* The forms of the length, at their limits: the payload of the longest is not
\* sent to its end.
Lengths ==
  {F(BINARY, TRUE, 0, 125, 125), F(BINARY, TRUE, 2, 125, 125), F(BINARY, TRUE, 2, 126, 126),
   F(PING, TRUE, 0, 125, 125), F(PING, TRUE, 2, 126, 126),
   F(BINARY, TRUE, 8, 65535, 1), F(BINARY, TRUE, 8, 65536, 9),
   [F(BINARY, TRUE, 8, 65536, 3) EXCEPT !.top = 1],
   [F(BINARY, TRUE, 8, 65536, 3) EXCEPT !.top = 128]}

SmallFrames ==
  {<<a, b, c>> : a, b \in Good, c \in Good \cup Malformed} \cup {<<a>> : a \in Lengths}

\* A request with these lines.
Request(lines) ==
  FlattenSeq([k \in DOMAIN lines |-> <<lines[k], CR, LF>>]) \o <<CR, LF>>

\* The fields numbered so in Fields, behind the request line.
With(first, fields) ==
  Request(<<first>> \o [k \in DOMAIN fields |-> FieldToken(fields[k])])

\* In another order, with fields twice, one missing or bad, too long, without
\* lines at all.
Requests ==
  {With(GET, f) : f \in {<<7, 5, 3, 1>>, <<1, 2, 3, 7, 5, 8>>, <<1, 3, 4, 8, 9, 5, 7, 9>>,
                         <<10, 6, 1, 3, 5, 7>>, <<1, 3, 5>>, <<1, 3, 5, 9>>, <<2, 3, 5, 7>>,
                         <<1, 4, 5, 7>>, <<1, 3, 6, 7>>, <<1, 3, 5, 7, 10, 10, 10, 10, 10, 10>>}}
  \cup {With(POST, <<1, 3, 5, 7>>), <<CR, LF, CR, LF>>, Request(<<GET>>),
        Request(<<GET, NoColon>> \o [k \in 1..4 |-> FieldToken((2 * k) - 1)])}

Stream(r, fs) ==
  LET Wires(n) == FlattenSeq([k \in 1..n |-> Wire(fs[k])]) IN
  [request |-> r, frames |-> fs, bytes |-> r \o Wires(Len(fs)),
   starts |-> [k \in 1..(Len(fs) + 1) |-> Len(r) + Len(Wires(k - 1))]]

SmallStreams ==
  {Stream(With(GET, <<1, 3, 5, 7>>), f) : f \in SmallFrames}
  \cup {Stream(r, <<Short(BINARY, TRUE, 2)>>) : r \in Requests}
=============================================================================
