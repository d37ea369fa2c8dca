----------------------------- MODULE WsHandshake -----------------------------
(***************************************************************************)
(* The upgrade request (src/ws/ws_handshake.c).  CR and LF are bytes like  *)
(* those of the frames that follow; the text of a line is one token, a     *)
(* number no byte has: a request line that is accepted or not, or a field  *)
(* with a name the code looks for or another, with or without a colon.     *)
(* Comparing text and the hash of the key are not modelled.                *)
(***************************************************************************)
EXTENDS Naturals, Sequences, FiniteSets

CR == 13
LF == 10

\* The request line: GET, long enough and HTTP/1.0 or 1.1; or not.
GET == 256
POST == 257

\* A header field: its name and whether its value is the one looked for.  Of two
\* keys the one that is answered is told by its token.
Fields ==
  <<[name |-> "Upgrade", good |-> TRUE], [name |-> "Upgrade", good |-> FALSE],
    [name |-> "Connection", good |-> TRUE], [name |-> "Connection", good |-> FALSE],
    [name |-> "Sec-WebSocket-Version", good |-> TRUE],
    [name |-> "Sec-WebSocket-Version", good |-> FALSE],
    [name |-> "Sec-WebSocket-Key", good |-> TRUE],
    [name |-> "Sec-WebSocket-Key", good |-> TRUE],
    [name |-> "Sec-WebSocket-Key", good |-> FALSE],
    [name |-> "other", good |-> FALSE]>>

FieldToken(k) == 300 + k
NoColon == 299

Required == {"Upgrade", "Connection", "Sec-WebSocket-Version", "Sec-WebSocket-Key"}

-----------------------------------------------------------------------------

Least(S) == CHOOSE n \in S : \A m \in S : n <= m

\* Where a line may end.
LineEnds(s) == {k \in 1..(Len(s) - 1) : s[k] = CR /\ s[k + 1] = LF}

\* Mutant: the end of the data is never the end of the header.
find_header_end_early(s) ==
  {k + 3 : k \in {e \in LineEnds(s) : e + 2 \in LineEnds(s) /\ e + 3 < Len(s)}}

\* Where CR LF CR LF ends; the first of these is header_len.
find_header_end(s) == {k + 3 : k \in {e \in LineEnds(s) : e + 2 \in LineEnds(s)}}

\* The lines of the header: a line starts where the one before has ended, and the
\* empty line ends them.
Line(s, from) == SubSeq(s, from, Least({k \in LineEnds(s) : k >= from}) - 1)
Starts(s) == {k + 2 : k \in LineEnds(s)} \ {Len(s) - 1, Len(s) + 1}

\* The field a line holds; text behind it, of bare CRs and LFs, spoils its value.
IsField(line) == line # <<>> /\ line[1] > 300
Field(line) ==
  [Fields[line[1] - 300] EXCEPT !.good = @ /\ Len(line) = 1]

\* A field that is good stays so whatever a later one of its name says.
Saw(s, name) ==
  {k \in Starts(s) : Field(Line(s, k)).name = name /\ Field(Line(s, k)).good}

\* sockify_ws_build_handshake_response_ex on what has been received: the result,
\* where the frames start and the key that is answered, the last usable one.
build_handshake_response(request) ==
  LET Result(rc, consumed, key) == [rc |-> rc, consumed |-> consumed, key |-> key]
      ends == find_header_end(request)
      s == SubSeq(request, 1, Least(ends))
  IN CASE ends = {} -> Result("again", 0, 0)
       [] ends # {} /\ (Line(s, 1) # <<GET>> \/ \E k \in Starts(s) : ~IsField(Line(s, k))) ->
            Result("protocol", 0, 0)
       [] OTHER ->
            IF \E name \in Required : Saw(s, name) = {} THEN Result("protocol", 0, 0)
            ELSE LET keys == Saw(s, "Sec-WebSocket-Key")
                     last == CHOOSE k \in keys : \A j \in keys : j <= k
                 IN Result("ok", Len(s), s[last])
=============================================================================
