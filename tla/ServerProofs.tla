---------------------------- MODULE ServerProofs ----------------------------
(***************************************************************************)
(* Proofs about the server, for every number of clients, every limit,      *)
(* budget, timeout and clock: its types, who owns a descriptor, the list   *)
(* of sessions with its count, the limit, and that timeouts are kept.      *)
(***************************************************************************)
EXTENDS ServerProperties, SequenceTheorems, FiniteSetTheorems, TLAPS

NodeType ==
  [used : BOOLEAN, next : Client \cup {Nil}, prev : Client \cup {Nil},
   handshake_done : BOOLEAN, target_connecting : BOOLEAN,
   created_at : Nat, connect_started_at : Nat, last_activity_at : Nat]

-----------------------------------------------------------------------------
(* What the operations on the list do to the set of sessions.              *)

LEMMA NoSessionType == NoSession \in NodeType /\ ~NoSession.used
BY DEF NoSession, NodeType

LEMMA SameSessions ==
  ASSUME \A c \in Client : node'[c].used = node[c].used
  PROVE  Sessions' = Sessions
BY DEF Sessions

LEMMA CloseNode ==
  ASSUME TypeOK, NEW c \in Client, session_close(c)
  PROVE  /\ node' \in [Client -> NodeType] /\ Sessions' = Sessions \ {c}
         /\ node'[c] = NoSession
         /\ \A x \in Client \ {c} :
              /\ node'[x].used = node[x].used
              /\ node'[x].handshake_done = node[x].handshake_done
              /\ node'[x].target_connecting = node[x].target_connecting
              /\ node'[x].created_at = node[x].created_at
              /\ node'[x].connect_started_at = node[x].connect_started_at
              /\ node'[x].last_activity_at = node[x].last_activity_at
              /\ node'[x].next = IF node[c].prev = x THEN node[c].next ELSE node[x].next
              /\ node'[x].prev = IF node[c].next = x THEN node[c].prev ELSE node[x].prev
<1>1. node \in [Client -> NodeType]
  BY DEF TypeOK, NodeType
<1>2. node' = Unlinked(c)
  BY DEF session_close
<1>3. node'[c] = NoSession
  BY <1>2 DEF Unlinked
<1>4. ASSUME NEW x \in Client \ {c}
      PROVE  /\ node'[x] \in NodeType
             /\ node'[x].used = node[x].used
             /\ node'[x].handshake_done = node[x].handshake_done
             /\ node'[x].target_connecting = node[x].target_connecting
             /\ node'[x].created_at = node[x].created_at
             /\ node'[x].connect_started_at = node[x].connect_started_at
             /\ node'[x].last_activity_at = node[x].last_activity_at
             /\ node'[x].next = IF node[c].prev = x THEN node[c].next ELSE node[x].next
             /\ node'[x].prev = IF node[c].next = x THEN node[c].prev ELSE node[x].prev
  <2> DEFINE nx == IF node[c].prev = x THEN node[c].next ELSE node[x].next
             pv == IF node[c].next = x THEN node[c].prev ELSE node[x].prev
  <2>1. node'[x] = [node[x] EXCEPT !.next = nx, !.prev = pv]
    BY <1>2 DEF Unlinked
  <2>2. node[x] \in NodeType /\ node[c] \in NodeType
    BY <1>1
  <2>3. nx \in Client \cup {Nil} /\ pv \in Client \cup {Nil}
    BY <2>2 DEF NodeType
  <2> HIDE DEF nx, pv
  <2>4. /\ node'[x] \in NodeType
        /\ node'[x].used = node[x].used
        /\ node'[x].handshake_done = node[x].handshake_done
        /\ node'[x].target_connecting = node[x].target_connecting
        /\ node'[x].created_at = node[x].created_at
        /\ node'[x].connect_started_at = node[x].connect_started_at
        /\ node'[x].last_activity_at = node[x].last_activity_at
        /\ node'[x].next = nx /\ node'[x].prev = pv
    BY <2>1, <2>2, <2>3 DEF NodeType
  <2> QED
    BY <2>4 DEF nx, pv
<1>5. node' \in [Client -> NodeType]
  <2>1. \A x \in Client : node'[x] \in NodeType
    BY <1>3, <1>4, NoSessionType
  <2>2. node' = [x \in Client |-> node'[x]]
    BY <1>2 DEF Unlinked
  <2> QED
    BY <2>1, <2>2
<1>6. Sessions' = Sessions \ {c}
  <2>1. ~node'[c].used
    BY <1>3, NoSessionType
  <2> QED
    BY <1>4, <2>1 DEF Sessions
<1> QED
  BY <1>3, <1>4, <1>5, <1>6

LEMMA LinkNode ==
  ASSUME TypeOK, NEW c \in Client, c # sessions, node' = Linked(c)
  PROVE  /\ node' \in [Client -> NodeType] /\ Sessions' = Sessions \cup {c}
         /\ node'[c] = [NoSession EXCEPT !.used = TRUE, !.next = sessions,
                                         !.created_at = now, !.last_activity_at = now]
         /\ \A x \in Client \ {c} :
              /\ node'[x].used = node[x].used
              /\ node'[x].handshake_done = node[x].handshake_done
              /\ node'[x].target_connecting = node[x].target_connecting
              /\ node'[x].created_at = node[x].created_at
              /\ node'[x].connect_started_at = node[x].connect_started_at
              /\ node'[x].last_activity_at = node[x].last_activity_at
              /\ node'[x].next = node[x].next
              /\ node'[x].prev = IF x = sessions THEN c ELSE node[x].prev
<1>1. node \in [Client -> NodeType] /\ sessions \in Client \cup {Nil} /\ now \in Nat
  BY DEF TypeOK, NodeType
<1>2. node'[c] = [NoSession EXCEPT !.used = TRUE, !.next = sessions,
                                   !.created_at = now, !.last_activity_at = now]
  BY DEF Linked
<1>3. node'[c] \in NodeType /\ node'[c].used
  BY <1>1, <1>2, NoSessionType DEF NodeType, NoSession
<1>4. ASSUME NEW x \in Client \ {c}
      PROVE  /\ node'[x] \in NodeType
             /\ node'[x].used = node[x].used
             /\ node'[x].handshake_done = node[x].handshake_done
             /\ node'[x].target_connecting = node[x].target_connecting
             /\ node'[x].created_at = node[x].created_at
             /\ node'[x].connect_started_at = node[x].connect_started_at
             /\ node'[x].last_activity_at = node[x].last_activity_at
             /\ node'[x].next = node[x].next
             /\ node'[x].prev = IF x = sessions THEN c ELSE node[x].prev
  <2>1. node[x] \in NodeType
    BY <1>1
  <2>2. CASE x = sessions
    <3>1. node'[x] = [node[x] EXCEPT !.prev = c]
      BY <2>2 DEF Linked
    <3> QED
      BY <2>1, <2>2, <3>1 DEF NodeType
  <2>3. CASE x # sessions
    <3>1. node'[x] = node[x]
      BY <2>3 DEF Linked
    <3> QED
      BY <2>1, <2>3, <3>1
  <2> QED
    BY <2>2, <2>3
<1>5. node' \in [Client -> NodeType]
  <2>1. \A x \in Client : node'[x] \in NodeType
    BY <1>3, <1>4
  <2>2. node' = [x \in Client |-> node'[x]]
    BY DEF Linked
  <2> QED
    BY <2>1, <2>2
<1>6. Sessions' = Sessions \cup {c}
  BY <1>3, <1>4 DEF Sessions
<1> QED
  BY <1>2, <1>4, <1>5, <1>6

-----------------------------------------------------------------------------
(* The list, written out as a sequence, when a session is linked or unlinked.*)

Place(k, j) == IF j < k THEN j ELSE j + 1
Removed(s, n, k) == [j \in 1..n - 1 |-> s[Place(k, j)]]
Inserted(s, n, c) == [j \in 1..n + 1 |-> IF j = 1 THEN c ELSE s[j - 1]]

LEMMA PlaceProperties ==
  ASSUME NEW n \in Nat, NEW k \in 1..n
  PROVE  /\ \A j \in 1..n - 1 : Place(k, j) \in 1..n /\ Place(k, j) # k
         /\ \A i, j \in 1..n - 1 : Place(k, i) = Place(k, j) => i = j
         /\ \A i \in 1..n : i # k => \E j \in 1..n - 1 : Place(k, j) = i
<1>1. ASSUME NEW i \in 1..n, i # k PROVE \E j \in 1..n - 1 : Place(k, j) = i
  <2> DEFINE j == IF i < k THEN i ELSE i - 1
  <2>1. j \in 1..n - 1 /\ Place(k, j) = i
    BY <1>1 DEF Place
  <2> HIDE DEF j
  <2> QED
    BY <2>1
<1>2. \A j \in 1..n - 1 : Place(k, j) \in 1..n /\ Place(k, j) # k
  BY DEF Place
<1>3. \A i, j \in 1..n - 1 : Place(k, i) = Place(k, j) => i = j
  BY DEF Place
<1> QED
  BY <1>1, <1>2, <1>3

LEMMA UnlinkListing ==
  ASSUME TypeOK, NEW n \in Nat, NEW s \in [1..n -> Client], Listing(s, n),
         NEW k \in 1..n, session_close(s[k])
  PROVE  Removed(s, n, k) \in [1..n - 1 -> Client] /\ Listing(Removed(s, n, k), n - 1)'
<1> DEFINE c == s[k]
           t == Removed(s, n, k)
<1>1. c \in Client /\ c # Nil /\ Nil \notin Client
  BY ServerAssumption
<1>2. /\ \A j \in 1..n - 1 : Place(k, j) \in 1..n /\ Place(k, j) # k
      /\ \A i, j \in 1..n - 1 : Place(k, i) = Place(k, j) => i = j
      /\ \A i \in 1..n : i # k => \E j \in 1..n - 1 : Place(k, j) = i
  BY PlaceProperties
<1>3. \A j \in 1..n - 1 : t[j] = s[Place(k, j)]
  BY DEF Removed
<1>4. t \in [1..n - 1 -> Client]
  BY <1>2 DEF Removed
<1>5. /\ \A i, j \in 1..n : s[i] = s[j] => i = j
      /\ \A x \in Client : node[x].used <=> \E j \in 1..n : s[j] = x
      /\ active_connections = n /\ sessions = s[1]
      /\ \A j \in 1..n : node[s[j]].next = IF j = n THEN Nil ELSE s[j + 1]
      /\ \A j \in 1..n : node[s[j]].prev = IF j = 1 THEN Nil ELSE s[j - 1]
  BY DEF Listing
<1>6. /\ node'[c] = NoSession
      /\ \A x \in Client \ {c} :
           /\ node'[x].used = node[x].used
           /\ node'[x].next = IF node[c].prev = x THEN node[c].next ELSE node[x].next
           /\ node'[x].prev = IF node[c].next = x THEN node[c].prev ELSE node[x].prev
  BY <1>1, CloseNode
<1>7. /\ sessions' = IF sessions = c THEN node[c].next ELSE sessions
      /\ active_connections' = IF IsLinked(c) /\ active_connections # 0
                               THEN active_connections - 1 ELSE active_connections
  BY DEF session_close
<1>8. node[c].next = (IF k = n THEN Nil ELSE s[k + 1])
      /\ node[c].prev = (IF k = 1 THEN Nil ELSE s[k - 1])
  BY <1>5
<1> HIDE DEF c, t
<1>9. c = s[k]
  BY DEF c
<1>10. \A i, j \in 1..n - 1 : t[i] = t[j] => i = j
  BY <1>2, <1>3, <1>5
<1>11. ASSUME NEW x \in Client PROVE node'[x].used <=> \E j \in 1..n - 1 : t[j] = x
  <2>1. CASE x = c
    <3>1. ~node'[x].used
      BY <1>6, <2>1, NoSessionType
    <3>2. \A j \in 1..n - 1 : t[j] # x
      BY <1>2, <1>3, <1>5, <1>9, <2>1
    <3> QED
      BY <3>1, <3>2
  <2>2. CASE x # c
    <3>1. node'[x].used <=> \E i \in 1..n : s[i] = x
      BY <1>5, <1>6, <2>2
    <3>2. (\E i \in 1..n : s[i] = x) <=> \E j \in 1..n - 1 : t[j] = x
      BY <1>2, <1>3, <1>9, <2>2
    <3> QED
      BY <3>1, <3>2
  <2> QED
    BY <2>1, <2>2
<1>12. active_connections' = n - 1
  <2>1. IsLinked(c)
    <3>1. CASE k = 1
      BY <1>5, <1>9, <3>1 DEF IsLinked
    <3>2. CASE k # 1
      <4>1. k - 1 \in 1..n
        BY <3>2
      <4>2. s[k - 1] \in Client
        BY <4>1
      <4> QED
        BY <1>1, <1>8, <3>2, <4>2 DEF IsLinked
    <3> QED
      BY <3>1, <3>2
  <2> QED
    BY <1>5, <1>7, <2>1
<1>13. sessions' = IF n - 1 = 0 THEN Nil ELSE t[1]
  <2>1. CASE k = 1
    <3>1. sessions' = node[c].next
      BY <1>5, <1>7, <1>9, <2>1
    <3>2. n - 1 # 0 => t[1] = s[2]
      BY <1>3, <2>1 DEF Place
    <3> QED
      BY <1>8, <2>1, <3>1, <3>2
  <2>2. CASE k # 1
    <3>1. 1 \in 1..n /\ s[1] # s[k]
      BY <1>5, <2>2
    <3>2. sessions' = s[1]
      BY <1>5, <1>7, <1>9, <3>1
    <3>3. n - 1 # 0 /\ t[1] = s[1]
      BY <1>3, <2>2 DEF Place
    <3> QED
      BY <3>2, <3>3
  <2> QED
    BY <2>1, <2>2
<1>14. ASSUME NEW j \in 1..n - 1
       PROVE  /\ node'[t[j]].next = IF j = n - 1 THEN Nil ELSE t[j + 1]
              /\ node'[t[j]].prev = IF j = 1 THEN Nil ELSE t[j - 1]
  <2> DEFINE q == Place(k, j)
             x == t[j]
  <2>1. q \in 1..n /\ q # k /\ x = s[q] /\ x \in Client /\ x # c /\ x # Nil
    BY <1>1, <1>2, <1>3, <1>4, <1>5, <1>9
  <2>2. /\ node[x].next = IF q = n THEN Nil ELSE s[q + 1]
        /\ node[x].prev = IF q = 1 THEN Nil ELSE s[q - 1]
    BY <1>5, <2>1
  <2>3. /\ node'[x].next = IF node[c].prev = x THEN node[c].next ELSE node[x].next
        /\ node'[x].prev = IF node[c].next = x THEN node[c].prev ELSE node[x].prev
    BY <1>6, <2>1
  <2>4. (node[c].prev = x) <=> (q = k - 1)
    <3>1. CASE k = 1
      BY <1>8, <2>1, <3>1
    <3>2. CASE k # 1
      <4>1. k - 1 \in 1..n /\ node[c].prev = s[k - 1]
        BY <1>8, <3>2
      <4> QED
        BY <1>5, <2>1, <4>1
    <3> QED
      BY <3>1, <3>2
  <2>5. (node[c].next = x) <=> (q = k + 1)
    <3>1. CASE k = n
      BY <1>8, <2>1, <3>1
    <3>2. CASE k # n
      <4>1. k + 1 \in 1..n /\ node[c].next = s[k + 1]
        BY <1>8, <3>2
      <4> QED
        BY <1>5, <2>1, <4>1
    <3> QED
      BY <3>1, <3>2
  <2>6. /\ j < k => q = j
        /\ j >= k => q = j + 1
    BY DEF Place
  <2>7. /\ \A i \in 1..n - 1 : i < k => t[i] = s[i]
        /\ \A i \in 1..n - 1 : i >= k => t[i] = s[i + 1]
    BY <1>3 DEF Place
  <2> HIDE DEF q, x
  <2>8. node'[x].next = IF j = n - 1 THEN Nil ELSE t[j + 1]
    <3>1. CASE j < k - 1
      <4>1. j + 1 \in 1..n - 1 /\ j + 1 < k /\ q = j /\ j # n - 1 /\ q # n
        BY <2>6, <3>1
      <4>2. node'[x].next = s[j + 1] /\ t[j + 1] = s[j + 1]
        BY <2>2, <2>3, <2>4, <2>7, <3>1, <4>1
      <4> QED
        BY <4>1, <4>2
    <3>2. CASE j = k - 1
      <4>1. q = k - 1
        BY <2>6, <3>2
      <4>2. node'[x].next = IF k = n THEN Nil ELSE s[k + 1]
        BY <1>8, <2>3, <2>4, <4>1
      <4>3. k # n => j + 1 \in 1..n - 1 /\ t[j + 1] = s[k + 1]
        BY <2>7, <3>2
      <4> QED
        BY <3>2, <4>2, <4>3
    <3>3. CASE j >= k
      <4>1. q = j + 1 /\ q # k - 1
        BY <2>6, <3>3
      <4>2. node'[x].next = IF j + 1 = n THEN Nil ELSE s[(j + 1) + 1]
        BY <2>2, <2>3, <2>4, <4>1
      <4>3. j # n - 1 => j + 1 \in 1..n - 1 /\ t[j + 1] = s[(j + 1) + 1]
        BY <2>7, <3>3
      <4> QED
        BY <4>2, <4>3
    <3> QED
      BY <3>1, <3>2, <3>3
  <2>9. node'[x].prev = IF j = 1 THEN Nil ELSE t[j - 1]
    <3>1. CASE j < k
      <4>1. q = j /\ q # k + 1
        BY <2>6, <3>1
      <4>2. node'[x].prev = IF j = 1 THEN Nil ELSE s[j - 1]
        BY <2>2, <2>3, <2>5, <4>1
      <4>3. j # 1 => t[j - 1] = s[j - 1]
        BY <2>7, <3>1
      <4> QED
        BY <4>2, <4>3
    <3>2. CASE j = k
      <4>1. q = k + 1
        BY <2>6, <3>2
      <4>2. node'[x].prev = IF k = 1 THEN Nil ELSE s[k - 1]
        BY <1>8, <2>3, <2>5, <4>1
      <4>3. j # 1 => t[j - 1] = s[k - 1]
        BY <2>7, <3>2
      <4> QED
        BY <3>2, <4>2, <4>3
    <3>3. CASE j > k
      <4>1. q = j + 1 /\ q # k + 1 /\ q # 1 /\ j # 1
        BY <2>6, <3>3
      <4>2. node'[x].prev = s[(j + 1) - 1]
        BY <2>2, <2>3, <2>5, <4>1
      <4>3. t[j - 1] = s[(j - 1) + 1]
        BY <2>7, <3>3
      <4>4. (j + 1) - 1 = (j - 1) + 1
        OBVIOUS
      <4> QED
        BY <4>1, <4>2, <4>3, <4>4
    <3> QED
      BY <3>1, <3>2, <3>3
  <2> QED
    BY <2>8, <2>9 DEF x
<1>15. Listing(t, n - 1)'
  BY <1>10, <1>11, <1>12, <1>13, <1>14 DEF Listing
<1> QED
  BY <1>4, <1>15 DEF t

LEMMA LinkListing ==
  ASSUME TypeOK, NEW n \in Nat, NEW s \in [1..n -> Client], Listing(s, n),
         NEW c \in Client \ Sessions, node' = Linked(c), sessions' = c,
         active_connections' = active_connections + 1
  PROVE  Inserted(s, n, c) \in [1..n + 1 -> Client] /\ Listing(Inserted(s, n, c), n + 1)'
<1> DEFINE t == Inserted(s, n, c)
<1>1. Nil \notin Client /\ ~node[c].used
  BY ServerAssumption DEF Sessions
<1>2. /\ \A i, j \in 1..n : s[i] = s[j] => i = j
      /\ \A x \in Client : node[x].used <=> \E j \in 1..n : s[j] = x
      /\ active_connections = n /\ sessions = IF n = 0 THEN Nil ELSE s[1]
      /\ \A j \in 1..n : node[s[j]].next = IF j = n THEN Nil ELSE s[j + 1]
      /\ \A j \in 1..n : node[s[j]].prev = IF j = 1 THEN Nil ELSE s[j - 1]
  BY DEF Listing
<1>3. \A j \in 1..n : s[j] \in Client /\ s[j] # c
  BY <1>1, <1>2
<1>4. c # sessions
  BY <1>1, <1>2, <1>3
<1>5. /\ node'[c] = [NoSession EXCEPT !.used = TRUE, !.next = sessions,
                                      !.created_at = now, !.last_activity_at = now]
      /\ \A x \in Client \ {c} :
           /\ node'[x].used = node[x].used
           /\ node'[x].next = node[x].next
           /\ node'[x].prev = IF x = sessions THEN c ELSE node[x].prev
  BY <1>4, LinkNode
<1>6. node'[c].used /\ node'[c].next = sessions /\ node'[c].prev = Nil
  BY <1>5 DEF NoSession
<1>7. /\ \A j \in 1..n : j + 1 \in 1..n + 1
      /\ t[1] = c /\ \A j \in 1..n + 1 : j # 1 => j - 1 \in 1..n /\ t[j] = s[j - 1]
      /\ \A j \in 1..n : t[j + 1] = s[j]
  BY DEF Inserted
<1>8. t \in [1..n + 1 -> Client]
  BY <1>3, <1>7 DEF Inserted
<1> HIDE DEF t
<1>9. \A i, j \in 1..n + 1 : t[i] = t[j] => i = j
  <2> SUFFICES ASSUME NEW i \in 1..n + 1, NEW j \in 1..n + 1, t[i] = t[j] PROVE i = j
    OBVIOUS
  <2>1. CASE i = 1 \/ j = 1
    BY <1>3, <1>7, <2>1
  <2>2. CASE i # 1 /\ j # 1
    <3>1. i - 1 \in 1..n /\ j - 1 \in 1..n /\ s[i - 1] = s[j - 1]
      BY <1>7, <2>2
    <3>2. i - 1 = j - 1
      BY <1>2, <3>1
    <3> QED
      BY <3>2
  <2> QED
    BY <2>1, <2>2
<1>10. ASSUME NEW x \in Client PROVE node'[x].used <=> \E j \in 1..n + 1 : t[j] = x
  <2>1. CASE x = c
    BY <1>6, <1>7, <2>1
  <2>2. CASE x # c
    <3>1. node'[x].used <=> \E j \in 1..n : s[j] = x
      BY <1>2, <1>5, <2>2
    <3>2. (\E j \in 1..n : s[j] = x) => \E j \in 1..n + 1 : t[j] = x
      BY <1>7
    <3>3. (\E j \in 1..n + 1 : t[j] = x) => \E j \in 1..n : s[j] = x
      BY <1>7, <2>2
    <3> QED
      BY <3>1, <3>2, <3>3
  <2> QED
    BY <2>1, <2>2
<1>11. active_connections' = n + 1 /\ sessions' = t[1]
  BY <1>2, <1>7
<1>12. ASSUME NEW j \in 1..n + 1
       PROVE  /\ node'[t[j]].next = IF j = n + 1 THEN Nil ELSE t[j + 1]
              /\ node'[t[j]].prev = IF j = 1 THEN Nil ELSE t[j - 1]
  <2>1. CASE j = 1
    <3>1. n # 0 => t[2] = s[1]
      BY <1>7
    <3>2. sessions = IF j = n + 1 THEN Nil ELSE t[j + 1]
      BY <1>2, <2>1, <3>1
    <3> QED
      BY <1>6, <1>7, <2>1, <3>2
  <2>2. CASE j # 1
    <3>1. PICK i \in 1..n : i = j - 1 /\ j = i + 1
      BY <1>7, <2>2
    <3>2. t[j] = s[i] /\ s[i] \in Client \ {c}
      BY <1>3, <1>7, <3>1
    <3>3. node'[t[j]].next = (IF i = n THEN Nil ELSE s[i + 1])
          /\ node'[t[j]].prev = (IF s[i] = sessions THEN c ELSE IF i = 1 THEN Nil ELSE s[i - 1])
      BY <1>2, <1>5, <3>2
    <3>4. s[i] = sessions <=> i = 1
      BY <1>2
    <3>5. i # n => t[j + 1] = s[i + 1]
      BY <1>7, <3>1
    <3>6. i # 1 => t[j - 1] = s[i - 1]
      BY <1>7, <3>1
    <3>7. i = 1 => t[j - 1] = c
      BY <1>7, <3>1
    <3> QED
      BY <2>2, <3>1, <3>3, <3>4, <3>5, <3>6, <3>7
  <2> QED
    BY <2>1, <2>2
<1>13. Listing(t, n + 1)'
  BY <1>9, <1>10, <1>11, <1>12 DEF Listing
<1> QED
  BY <1>8, <1>13 DEF t

LEMMA SameListing ==
  ASSUME NEW n \in Nat, NEW s \in [1..n -> Client], Listing(s, n),
         sessions' = sessions, active_connections' = active_connections,
         \A x \in Client : /\ node'[x].used = node[x].used
                           /\ node'[x].next = node[x].next /\ node'[x].prev = node[x].prev
  PROVE  Listing(s, n)'
BY DEF Listing

\* A session that was never linked is closed: nothing is unlinked.
LEMMA CloseUnlinked ==
  ASSUME TypeOK, NEW n \in Nat, NEW s \in [1..n -> Client], Listing(s, n),
         NEW c \in Client, node[c] = NoSession, session_close(c)
  PROVE  sessions' = sessions /\ active_connections' = active_connections /\ node' = node
<1>1. Nil \notin Client /\ node \in [Client -> NodeType]
  BY ServerAssumption DEF TypeOK, NodeType
<1>2. ~node[c].used /\ node[c].next = Nil /\ node[c].prev = Nil
  BY DEF NoSession
<1>3. sessions # c
  <2>1. n # 0 => sessions = s[1] /\ 1 \in 1..n
    BY DEF Listing
  <2>2. \A k \in 1..n : s[k] # c
    BY <1>2 DEF Listing
  <2>3. n = 0 => sessions = Nil
    BY DEF Listing
  <2> QED
    BY <1>1, <2>1, <2>2, <2>3
<1>4. ~IsLinked(c)
  BY <1>2, <1>3 DEF IsLinked
<1>5. \A x \in Client \ {c} : [node[x] EXCEPT !.next = @, !.prev = @] = node[x]
  BY <1>1 DEF NodeType
<1>6. Unlinked(c) = node
  <2>1. \A x \in Client : Unlinked(c)[x] = node[x]
    BY <1>1, <1>2, <1>5 DEF Unlinked
  <2>2. Unlinked(c) = [x \in Client |-> Unlinked(c)[x]]
    BY DEF Unlinked
  <2> QED
    BY <1>1, <2>1, <2>2
<1> QED
  BY <1>3, <1>4, <1>6 DEF session_close

-----------------------------------------------------------------------------
(* The clock of whole seconds.                                             *)

LEMMA Division ==
  ASSUME NEW a \in Nat, NEW b \in Nat \ {0}
  PROVE  /\ a \div b \in Nat
         /\ b * (a \div b) <= a /\ a < b * (a \div b) + b
<1>1. a = b * (a \div b) + (a % b) /\ a % b \in 0..b - 1
  OBVIOUS
<1>2. a \div b \in Nat
  OBVIOUS
<1>3. b * (a \div b) \in Nat
  BY <1>2
<1> QED
  BY <1>1, <1>2, <1>3

\* Multiples of b are at least b apart.
LEMMA Multiples ==
  ASSUME NEW a \in Int, NEW q \in Int, NEW b \in Nat \ {0}, a * b < b * q
  PROVE  a * b + b <= b * q
<1>1. CASE a + 1 <= q
  <2>1. b * (a + 1) <= b * q
    BY <1>1
  <2> QED
    BY <2>1
<1>2. CASE q <= a
  <2>1. b * q <= b * a
    BY <1>2
  <2> QED
    BY <2>1
<1> QED
  BY <1>1, <1>2

\* A timeout that has not passed by the clock of whole seconds is over by less
\* than what whole seconds add to it.
LEMMA NotTimedOut ==
  ASSUME NEW since \in Nat, NEW timeout \in Nat \ {0}, now \in Nat,
         ~TimedOut(since, timeout)
  PROVE  now - since < Covers(timeout)
<1> DEFINE a == now \div Second
           b == since \div Second
           q == (timeout + Second - 1) \div Second
<1>1. Second \in Nat \ {0} /\ timeout + Second - 1 \in Nat
  BY ServerAssumption
<1>2. a \in Nat /\ b \in Nat /\ q \in Nat
  BY <1>1, Division
<1>3. now < Second * a + Second /\ Second * b <= since
  BY <1>1, Division
<1>4. timeout + Second - 1 < Second * q + Second
  BY <1>1, Division
<1>5. (a - b) * Second < timeout
  BY <1>1, <1>2 DEF TimedOut, elapsed_ms, time
<1>6. Covers(timeout) = Second * q
  BY DEF Covers
<1> HIDE DEF a, b, q
<1>7. Second * q \in Nat /\ Second * a \in Nat /\ Second * b \in Nat /\ (a - b) * Second \in Int
  BY <1>1, <1>2
<1>8. (a - b) * Second < Second * q
  BY <1>1, <1>4, <1>5, <1>7
<1>9. (a - b) * Second + Second <= Second * q
  BY <1>1, <1>2, <1>8, Multiples
<1>10. (a - b) * Second = Second * a - Second * b
  BY <1>1, <1>2
<1> QED
  BY <1>1, <1>3, <1>6, <1>7, <1>9, <1>10

LEMMA CoversPositive ==
  ASSUME NEW timeout \in Nat \ {0}
  PROVE  Covers(timeout) \in Nat \ {0}
<1> DEFINE q == (timeout + Second - 1) \div Second
<1>1. Second \in Nat \ {0} /\ timeout + Second - 1 \in Nat
  BY ServerAssumption
<1>2. q \in Nat /\ timeout + Second - 1 < Second * q + Second
  BY <1>1, Division
<1>3. Covers(timeout) = Second * q
  BY DEF Covers
<1> HIDE DEF q
<1>4. Second * q \in Nat
  BY <1>1, <1>2
<1> QED
  BY <1>1, <1>2, <1>3, <1>4

-----------------------------------------------------------------------------
(* The inductive invariant, and the steps that leave the list alone.       *)

ServerInv == TypeOK /\ ThreadInv /\ OwnerInv /\ ListInv /\ CountInv /\ TimeInv

LEMMA InitInv == Init => ServerInv
<1> SUFFICES ASSUME Init PROVE ServerInv
  OBVIOUS
<1>1. Sessions = {} /\ \A c \in Client : ~node[c].used /\ node[c] = NoSession
  BY NoSessionType DEF Init, Sessions
<1>2. TypeOK
  <2>1. node \in [Client -> NodeType]
    BY NoSessionType DEF Init
  <2> QED
    BY <1>1, <2>1, ServerAssumption DEF Init, TypeOK, NodeType
<1>3. ThreadInv /\ OwnerInv
  BY <1>1 DEF Init, ThreadInv, OwnerInv
<1>4. ListInv
  <2>1. IsFiniteSet(Client)
    BY ServerAssumption
  <2>2. 0 \in 0..Cardinality(Client)
    BY <2>1, FS_CardinalityType
  <2> DEFINE s == [k \in 1..0 |-> Nil]
  <2>3. s \in [1..0 -> Client]
    OBVIOUS
  <2> HIDE DEF s
  <2>4. Listing(s, 0)
    BY <1>1 DEF Init, Listing
  <2>5. pc # "tick"
    BY DEF Init
  <2> QED
    BY <2>2, <2>3, <2>4, <2>5 DEF ListInv
<1>5. CountInv
  BY <1>1, FS_EmptySet, ServerAssumption DEF Init, CountInv
<1>6. TimeInv
  BY <1>1, ServerAssumption DEF Init, TimeInv
<1> QED
  BY <1>2, <1>3, <1>4, <1>5, <1>6 DEF ServerInv

LEMMA KeepList ==
  ASSUME ListInv, UNCHANGED list,
         pc' # "tick" \/ (pc' = pc /\ cursor' = cursor /\ now' = now)
  PROVE  ListInv'
<1>1. node' = node /\ sessions' = sessions /\ active_connections' = active_connections
  BY DEF list
<1>2. PICK n \in 0..Cardinality(Client) : \E s \in [1..n -> Client] :
        /\ Listing(s, n)
        /\ pc = "tick" => \E p \in 1..n + 1 : Ticking(s, n, p)
  BY DEF ListInv
<1>3. PICK s \in [1..n -> Client] :
        /\ Listing(s, n)
        /\ pc = "tick" => \E p \in 1..n + 1 : Ticking(s, n, p)
  BY <1>2
<1>4. Listing(s, n)'
  BY <1>1, <1>3 DEF Listing
<1>5. ASSUME pc' = "tick" PROVE \E p \in 1..n + 1 : Ticking(s, n, p)'
  <2>1. pc = "tick" /\ cursor' = cursor /\ now' = now
    BY <1>5
  <2>2. PICK p \in 1..n + 1 : Ticking(s, n, p)
    BY <1>3, <2>1
  <2>3. Ticking(s, n, p)'
    BY <1>1, <2>1, <2>2 DEF Ticking, InTime
  <2> QED
    BY <2>3
<1> QED
  BY <1>4, <1>5 DEF ListInv

LEMMA KeepCount ==
  ASSUME CountInv, UNCHANGED list
  PROVE  CountInv' /\ Sessions' = Sessions
BY DEF CountInv, list, Sessions

LEMMA KeepTime ==
  ASSUME TimeInv, UNCHANGED list, now' # 0, now' - waited' = now - waited
  PROVE  TimeInv'
<1>1. node' = node /\ Sessions' = Sessions
  BY DEF list, Sessions
<1>2. \A c : InTime(c, now - waited)' <=> InTime(c, now - waited)
  BY <1>1 DEF InTime
<1> QED
  BY <1>1, <1>2 DEF TimeInv

LEMMA TailOfBacklog ==
  ASSUME TypeOK, OwnerInv, backlog # <<>>
  PROVE  /\ Head(backlog) \in Client \ (Sessions \cup fds)
         /\ node[Head(backlog)] = NoSession
         /\ Tail(backlog) \in Seq(Client)
         /\ LET t == Tail(backlog) IN
            /\ \A j, k \in DOMAIN t : t[j] = t[k] => j = k
            /\ \A k \in DOMAIN t : t[k] \notin fds \cup {Head(backlog)}
<1> DEFINE t == Tail(backlog)
           m == Len(backlog)
<1>1. backlog \in Seq(Client)
  BY DEF TypeOK
<1>2. m \in Nat \ {0} /\ DOMAIN backlog = 1..m
  BY <1>1, LenProperties, EmptySeq
<1>3. /\ Head(backlog) \in Client /\ t \in Seq(Client) /\ Len(t) = m - 1
      /\ Head(backlog) = backlog[1]
      /\ \A k \in 1..Len(t) : t[k] = backlog[k + 1]
  BY <1>1, HeadTailProperties
<1>4. DOMAIN t = 1..m - 1
  BY <1>3, LenProperties
<1> HIDE DEF t, m
<1>5. /\ \A j, k \in 1..m : backlog[j] = backlog[k] => j = k
      /\ \A k \in 1..m : backlog[k] \notin fds
      /\ Sessions \subseteq fds
      /\ \A c \in Client \ Sessions : node[c] = NoSession
  BY <1>2 DEF OwnerInv
<1>6. Head(backlog) \notin fds
  BY <1>2, <1>3, <1>5
<1>7. \A k \in 1..m - 1 : k + 1 \in 1..m /\ t[k] = backlog[k + 1] /\ k + 1 # 1
  BY <1>2, <1>3, <1>4
<1>8. \A j, k \in 1..m - 1 : t[j] = t[k] => j = k
  <2> SUFFICES ASSUME NEW j \in 1..m - 1, NEW k \in 1..m - 1, t[j] = t[k] PROVE j = k
    OBVIOUS
  <2>1. j + 1 = k + 1
    BY <1>5, <1>7
  <2> QED
    BY <2>1
<1>9. \A k \in 1..m - 1 : t[k] \notin fds /\ t[k] # backlog[1]
  BY <1>2, <1>5, <1>7
<1> QED
  BY <1>3, <1>4, <1>5, <1>6, <1>8, <1>9 DEF t

\* The loop's steps in which no session is touched, and its environment.
LEMMA QuietInv ==
  ASSUME ServerInv,
         \/ Elapse \/ Wait \/ WaitFails \/ ListenerEvent \/ AcceptDone \/ AcceptFails
         \/ Refuse \/ Stopped \/ UNCHANGED vars
         \/ \E c \in Client : Connect(c) \/ HasEvent(c)
  PROVE  ServerInv'
<1> USE DEF ServerInv
<1>1. UNCHANGED list /\ fds' = fds /\ leaked' = leaked /\ cursor' = cursor
  BY DEF Elapse, Wait, WaitFails, ListenerEvent, AcceptDone, AcceptFails, Refuse, Refused,
         Stopped, Connect, HasEvent, vars, thread
<1>2. Sessions' = Sessions /\ node' = node /\ CountInv'
  BY <1>1, KeepCount DEF list
<1>3. /\ pc' # "tick" \/ (pc' = pc /\ now' = now)
      /\ (now' = now /\ waited' = waited) \/ (now' = now + 1 /\ waited' = waited + 1)
      /\ waited' \in 0..Second
  <2>1. waited \in 0..Second /\ Second \in Nat
    BY ServerAssumption DEF TypeOK
  <2>2. CASE Elapse
    BY <2>1, <2>2 DEF Elapse, thread
  <2>3. CASE ~Elapse
    <3>1. now' = now /\ waited' = waited
      BY <2>3 DEF Wait, WaitFails, ListenerEvent, AcceptDone, AcceptFails, Refuse, Stopped,
                  Connect, HasEvent, vars, clock
    <3>2. pc' # "tick" \/ pc' = pc
      BY <2>3 DEF Wait, WaitFails, ListenerEvent, AcceptDone, AcceptFails, Refuse, Stopped,
                  Connect, HasEvent, vars, thread
    <3> QED
      BY <2>1, <3>1, <3>2
  <2> QED
    BY <2>2, <2>3
<1>4. ListInv'
  BY <1>1, <1>3, KeepList
<1>5. TimeInv'
  <2>1. now \in Nat /\ waited \in Nat /\ now # 0
    BY DEF TypeOK, TimeInv
  <2>2. now' # 0 /\ now' - waited' = now - waited
    BY <1>3, <2>1
  <2> QED
    BY <1>1, <2>2, KeepTime
<1>6. ThreadInv'
  <2>1. ready \subseteq Sessions
    BY DEF TypeOK
  <2>2. CASE Elapse \/ WaitFails \/ Refuse \/ UNCHANGED vars
    BY <1>2, <2>2 DEF ThreadInv, Elapse, WaitFails, Refuse, Accepting, vars, thread
  <2>3. CASE Wait
    BY <1>2, <2>1, <2>3 DEF ThreadInv, Wait
  <2>4. CASE ListenerEvent \/ AcceptDone \/ AcceptFails
    BY <1>2, <2>4 DEF ThreadInv, ListenerEvent, AcceptDone, AcceptFails
  <2>5. CASE Stopped
    <3>1. sessions = Nil /\ Nil \notin Client
      BY <2>5, ServerAssumption DEF Stopped
    <3>2. PICK n \in 0..Cardinality(Client) : \E s \in [1..n -> Client] : Listing(s, n)
      BY DEF ListInv
    <3>3. PICK s \in [1..n -> Client] : Listing(s, n)
      BY <3>2
    <3>4. n = 0
      <4>1. n # 0 => s[1] \in Client /\ sessions = s[1]
        BY <3>2, <3>3 DEF Listing
      <4> QED
        BY <3>1, <4>1
    <3>5. Sessions = {}
      BY <3>3, <3>4 DEF Listing, Sessions
    <3> QED
      BY <1>2, <2>5, <3>5 DEF ThreadInv, Stopped
  <2>6. CASE \E c \in Client : Connect(c) \/ HasEvent(c)
    BY <1>2, <2>6 DEF ThreadInv, Connect, HasEvent, thread
  <2> QED
    BY <2>2, <2>3, <2>4, <2>5, <2>6
<1>7. OwnerInv' /\ backlog' \in Seq(Client)
  <2>1. ASSUME backlog # <<>>, backlog' = Tail(backlog)
        PROVE  OwnerInv' /\ backlog' \in Seq(Client)
    BY <1>1, <1>2, <2>1, TailOfBacklog DEF OwnerInv
  <2>2. CASE Stopped
    BY <1>1, <1>2, <2>2 DEF OwnerInv, Stopped
  <2>3. ASSUME NEW c \in Client, Connect(c) PROVE OwnerInv' /\ backlog' \in Seq(Client)
    <3> DEFINE m == Len(backlog)
    <3>1. backlog \in Seq(Client) /\ backlog' = Append(backlog, c) /\ c \notin fds
          /\ \A k \in 1..m : backlog[k] # c
      BY <2>3 DEF TypeOK, Connect
    <3>2. m \in Nat /\ DOMAIN backlog = 1..m
      BY <3>1, LenProperties
    <3>3. /\ backlog' \in Seq(Client) /\ Len(backlog') = m + 1
          /\ \A k \in 1..m : backlog'[k] = backlog[k]
          /\ backlog'[m + 1] = c
      BY <3>1, AppendProperties
    <3>4. DOMAIN backlog' = 1..m + 1
      BY <3>3, LenProperties
    <3> HIDE DEF m
    <3>5. \A k \in 1..m + 1 : k \in 1..m \/ k = m + 1
      BY <3>2
    <3>6. /\ \A j, k \in 1..m : backlog[j] = backlog[k] => j = k
          /\ \A k \in 1..m : backlog[k] \notin fds
      BY <3>2 DEF OwnerInv
    <3>7. \A j, k \in DOMAIN backlog' : backlog'[j] = backlog'[k] => j = k
      BY <3>1, <3>3, <3>4, <3>5, <3>6
    <3>8. \A k \in DOMAIN backlog' : backlog'[k] \notin fds'
      BY <1>1, <3>1, <3>3, <3>4, <3>5, <3>6
    <3> QED
      BY <1>1, <1>2, <3>3, <3>7, <3>8 DEF OwnerInv
  <2>4. ASSUME backlog' = backlog PROVE OwnerInv' /\ backlog' \in Seq(Client)
    BY <1>1, <1>2, <2>4 DEF OwnerInv, TypeOK
  <2>5. \/ backlog # <<>> /\ backlog' = Tail(backlog)
        \/ Stopped \/ backlog' = backlog
        \/ \E c \in Client : Connect(c)
    BY DEF Elapse, Wait, WaitFails, ListenerEvent, AcceptDone, AcceptFails, Refuse,
           Accepting, AcceptOver, HasEvent, vars
  <2> QED
    BY <2>1, <2>2, <2>3, <2>4, <2>5
<1>8. TypeOK'
  <2>1. pc' \in {"wait", "batch", "accept", "tick", "stop", "down"}
    BY DEF TypeOK, Elapse, Wait, WaitFails, ListenerEvent, AcceptDone, AcceptFails, Refuse,
           Stopped, Connect, HasEvent, vars, thread
  <2>2. batch' \subseteq Client \cup {Listener}
    BY <1>2, <1>6 DEF ThreadInv, Sessions
  <2>3. ready' \subseteq Sessions'
    BY <1>2 DEF TypeOK, Elapse, Wait, WaitFails, ListenerEvent, AcceptDone, AcceptFails,
           Refuse, Stopped, Connect, HasEvent, vars
  <2>4. accepted' \in 0..accept_budget
    <3>1. accepted \in 0..accept_budget /\ accept_budget \in Nat \ {0}
      BY ServerAssumption DEF TypeOK
    <3>2. CASE Refuse
      BY <3>1, <3>2 DEF Refuse, Accepting, AcceptOver, Counted
    <3>3. CASE ~Refuse
      <4>1. accepted' = accepted \/ accepted' = 0
        BY <3>3 DEF Elapse, Wait, WaitFails, ListenerEvent, AcceptDone, AcceptFails, Stopped,
                    Connect, HasEvent, vars, thread
      <4> QED
        BY <3>1, <4>1
    <3> QED
      BY <3>2, <3>3
  <2>5. now' \in Nat
    BY <1>3 DEF TypeOK
  <2> QED
    BY <1>1, <1>2, <1>3, <1>7, <2>1, <2>2, <2>3, <2>4, <2>5 DEF TypeOK, list
<1> QED
  BY <1>2, <1>4, <1>5, <1>6, <1>7, <1>8

-----------------------------------------------------------------------------
(* A session's callback that keeps it.                                     *)

LEMMA TouchInv ==
  ASSUME ServerInv, NEW c \in Client,
         SessionMoves(c) \/ SessionUpgrades(c) \/ SessionConnected(c)
  PROVE  ServerInv'
<1> USE DEF ServerInv
<1>1. /\ pc = "batch" /\ pc' = "batch" /\ c \in batch /\ batch' = batch \ {c}
      /\ ready' = ready \ {c} /\ sessions' = sessions /\ fds' = fds
      /\ active_connections' = active_connections
      /\ accepted' = accepted /\ cursor' = cursor /\ backlog' = backlog /\ leaked' = leaked
      /\ now' = now /\ waited' = waited
  BY DEF SessionMoves, SessionUpgrades, SessionConnected, SessionEvent, clock
<1>2. c \in Sessions
  BY <1>1, ServerAssumption DEF ThreadInv, Listener
<1>3. node \in [Client -> NodeType] /\ now \in Nat \ {0} /\ waited \in Nat
  BY SMTT(30) DEF TypeOK, NodeType, TimeInv
<1>4. PICK h \in BOOLEAN, g \in BOOLEAN, t \in Nat, a \in Nat :
        /\ node' = [node EXCEPT ![c] = [node[c] EXCEPT !.handshake_done = h,
                      !.target_connecting = g, !.connect_started_at = t,
                      !.last_activity_at = a]]
        /\ (a = node[c].last_activity_at /\ h = node[c].handshake_done) \/ a = now
        /\ h \/ ~node[c].handshake_done
        /\ g => t = now \/ (t = node[c].connect_started_at /\ node[c].target_connecting)
  <2>1. node[c] \in NodeType
    BY <1>3
  <2>2. CASE SessionMoves(c)
    <3>1. PICK a \in {node[c].last_activity_at, now} :
            node' = [node EXCEPT ![c].last_activity_at = a]
      BY <2>2 DEF SessionMoves
    <3>2. node' = [node EXCEPT ![c] = [node[c] EXCEPT
                     !.handshake_done = node[c].handshake_done,
                     !.target_connecting = node[c].target_connecting,
                     !.connect_started_at = node[c].connect_started_at,
                     !.last_activity_at = a]]
      BY <1>3, <2>1, <3>1 DEF NodeType
    <3>3. /\ node[c].handshake_done \in BOOLEAN /\ node[c].target_connecting \in BOOLEAN
          /\ node[c].connect_started_at \in Nat /\ a \in Nat
      BY <1>3, <2>1, <3>1 DEF NodeType
    <3> QED
      BY <3>1, <3>2, <3>3, ZenonT(40)
  <2>3. CASE SessionUpgrades(c)
    <3>1. PICK g \in BOOLEAN :
            node' = [node EXCEPT ![c].handshake_done = TRUE, ![c].target_connecting = g,
                                 ![c].connect_started_at = now, ![c].last_activity_at = now]
      BY <2>3 DEF SessionUpgrades
    <3>2. node' = [node EXCEPT ![c] = [node[c] EXCEPT !.handshake_done = TRUE,
                     !.target_connecting = g, !.connect_started_at = now,
                     !.last_activity_at = now]]
      BY <1>3, <2>1, <3>1 DEF NodeType
    <3> QED
      BY <1>3, <3>2
  <2>4. CASE SessionConnected(c)
    <3>1. node' = [node EXCEPT ![c].target_connecting = FALSE,
                               ![c].connect_started_at = 0, ![c].last_activity_at = now]
      BY <2>4 DEF SessionConnected
    <3>2. node' = [node EXCEPT ![c] = [node[c] EXCEPT
                     !.handshake_done = node[c].handshake_done,
                     !.target_connecting = FALSE, !.connect_started_at = 0,
                     !.last_activity_at = now]]
      BY <1>3, <2>1, <3>1 DEF NodeType
    <3>3. node[c].handshake_done \in BOOLEAN /\ 0 \in Nat
      BY <2>1 DEF NodeType
    <3> QED
      BY <1>3, <3>2, <3>3
  <2> QED
    BY <2>2, <2>3, <2>4
<1>5. /\ node' \in [Client -> NodeType]
      /\ \A x \in Client : /\ node'[x].used = node[x].used
                           /\ node'[x].next = node[x].next /\ node'[x].prev = node[x].prev
      /\ \A x \in Client \ {c} : node'[x] = node[x]
      /\ node'[c].handshake_done = h /\ node'[c].target_connecting = g
      /\ node'[c].connect_started_at = t /\ node'[c].last_activity_at = a
      /\ node'[c].created_at = node[c].created_at
  <2>1. node[c] \in NodeType
    BY <1>3
  <2>2. \A x \in Client \ {c} : node'[x] = node[x]
    BY <1>3, <1>4
  <2>3. node'[c] = [node[c] EXCEPT !.handshake_done = h,
                      !.target_connecting = g, !.connect_started_at = t,
                      !.last_activity_at = a]
    BY <1>3, <1>4
  <2>4. /\ node'[c] \in NodeType
        /\ node'[c].used = node[c].used
        /\ node'[c].next = node[c].next /\ node'[c].prev = node[c].prev
        /\ node'[c].handshake_done = h /\ node'[c].target_connecting = g
        /\ node'[c].connect_started_at = t /\ node'[c].last_activity_at = a
        /\ node'[c].created_at = node[c].created_at
    BY <2>1, <2>3 DEF NodeType
  <2>5. node' \in [Client -> NodeType]
    BY <1>3, <1>4, <2>3, <2>4
  <2> QED
    BY <2>2, <2>4, <2>5
<1>6. Sessions' = Sessions
  BY <1>5, SameSessions
<1>7. TypeOK'
  BY <1>1, <1>5, <1>6 DEF TypeOK, NodeType
<1>8. ThreadInv'
  BY <1>1, <1>6 DEF ThreadInv
<1>9. OwnerInv'
  BY <1>1, <1>2, <1>5, <1>6 DEF OwnerInv
<1>10. CountInv'
  BY <1>1, <1>6 DEF CountInv
<1>11. ListInv'
  <2>1. PICK n \in 0..Cardinality(Client) : \E s \in [1..n -> Client] : Listing(s, n)
    BY DEF ListInv
  <2>2. PICK s \in [1..n -> Client] : Listing(s, n)
    BY <2>1
  <2>3. n \in Nat
    BY <2>1
  <2>4. Listing(s, n)'
    BY <1>1, <1>5, <2>2, <2>3, SameListing
  <2> QED
    BY <1>1, <2>4 DEF ListInv
<1>12. TimeInv'
  <2>1. ASSUME NEW x \in Sessions, x # c PROVE InTime(x, now - waited)'
    <3>1. node'[x] = node[x] /\ InTime(x, now - waited)
      BY <1>5, <2>1 DEF Sessions, TimeInv
    <3> QED
      BY <1>1, <3>1 DEF InTime
  <2>2. InTime(c, now - waited)
    BY <1>2 DEF TimeInv
  <2>3. /\ handshake_timeout # 0 => Covers(handshake_timeout) \in Nat \ {0}
        /\ connect_timeout # 0 => Covers(connect_timeout) \in Nat \ {0}
        /\ idle_timeout # 0 => Covers(idle_timeout) \in Nat \ {0}
    BY CoversPositive, ServerAssumption
  <2>4. ASSUME NEW b \in Nat \ {0} PROVE now - waited - now < b
    BY <1>3
  <2>5. handshake_timeout # 0 /\ ~h => now - waited - node'[c].created_at < Covers(handshake_timeout)
    BY <1>4, <1>5, <2>2 DEF InTime
  <2>6. connect_timeout # 0 /\ g => t # 0 /\ now - waited - t < Covers(connect_timeout)
    <3>1. CASE t = now
      BY <1>3, <2>3, <2>4, <3>1
    <3>2. CASE t # now
      BY <1>4, <2>2, <3>2 DEF InTime
    <3> QED
      BY <3>1, <3>2
  <2>7. idle_timeout # 0 /\ h => now - waited - a < Covers(idle_timeout)
    <3>1. CASE a = now
      BY <2>3, <2>4, <3>1
    <3>2. CASE a # now
      BY <1>4, <2>2, <3>2 DEF InTime
    <3> QED
      BY <3>1, <3>2
  <2>8. InTime(c, now - waited)'
    BY <1>1, <1>5, <2>5, <2>6, <2>7 DEF InTime
  <2> QED
    BY <1>1, <1>3, <1>6, <2>1, <2>8 DEF TimeInv
<1> QED
  BY <1>7, <1>8, <1>9, <1>10, <1>11, <1>12

-----------------------------------------------------------------------------
(* Closing a session.                                                      *)

LEMMA CloseKeeps ==
  ASSUME ServerInv, NEW c \in Sessions, session_close(c),
         backlog' = backlog, leaked' = leaked, now' = now, waited' = waited
  PROVE  /\ Sessions' = Sessions \ {c} /\ ready' \subseteq Sessions'
         /\ node' \in [Client -> NodeType] /\ sessions' \in Client \cup {Nil}
         /\ active_connections' \in Nat /\ fds' \subseteq Client
         /\ OwnerInv' /\ CountInv' /\ TimeInv'
         /\ \A x \in Client \ {c} : InTime(x, now) => InTime(x, now)'
<1> USE DEF ServerInv
<1>1. c \in Client /\ node \in [Client -> NodeType] /\ Nil \notin Client
  BY ServerAssumption DEF Sessions, TypeOK, NodeType
<1>2. /\ node' \in [Client -> NodeType] /\ Sessions' = Sessions \ {c}
      /\ node'[c] = NoSession
      /\ \A x \in Client \ {c} :
           /\ node'[x].used = node[x].used
           /\ node'[x].handshake_done = node[x].handshake_done
           /\ node'[x].target_connecting = node[x].target_connecting
           /\ node'[x].created_at = node[x].created_at
           /\ node'[x].connect_started_at = node[x].connect_started_at
           /\ node'[x].last_activity_at = node[x].last_activity_at
           /\ node'[x].next = IF node[c].prev = x THEN node[c].next ELSE node[x].next
           /\ node'[x].prev = IF node[c].next = x THEN node[c].prev ELSE node[x].prev
  BY <1>1, CloseNode
<1>3. fds' = fds \ {c} /\ ready' = ready \ {c}
  BY DEF session_close
<1>4. PICK n \in 0..Cardinality(Client) : \E s \in [1..n -> Client] : Listing(s, n)
  BY DEF ListInv
<1>5. PICK s \in [1..n -> Client] : Listing(s, n)
  BY <1>4
<1>6. PICK k \in 1..n : s[k] = c
  BY <1>1, <1>5 DEF Listing, Sessions
<1>7. active_connections' = n - 1 /\ active_connections = n
  <2>1. n \in Nat /\ session_close(s[k])
    BY <1>4, <1>6
  <2>2. Listing(Removed(s, n, k), n - 1)'
    BY <1>5, <1>6, <2>1, UnlinkListing
  <2> QED
    BY <1>5, <2>2 DEF Listing
<1>8. CountInv'
  <2>1. IsFiniteSet(Sessions) /\ n = Cardinality(Sessions) /\ n <= max_connections
    BY <1>7 DEF CountInv
  <2>2. IsFiniteSet(Sessions \ {c}) /\ Cardinality(Sessions \ {c}) = Cardinality(Sessions) - 1
    BY <2>1, FS_RemoveElement
  <2>3. max_connections \in Nat /\ n \in Nat
    BY <1>4, ServerAssumption
  <2>4. n - 1 <= max_connections
    BY <2>1, <2>3
  <2> QED
    BY <1>2, <1>7, <2>1, <2>2, <2>4 DEF CountInv
<1>9. sessions' \in Client \cup {Nil}
  <2>1. node[c].next \in Client \cup {Nil} /\ sessions \in Client \cup {Nil}
    BY <1>1 DEF NodeType, TypeOK
  <2> QED
    BY <2>1 DEF session_close
<1>10. OwnerInv'
  <2>1. \A x \in Client \ Sessions' : node'[x] = NoSession
    <3> SUFFICES ASSUME NEW x \in Client \ Sessions', x # c PROVE node'[x] = NoSession
      BY <1>2
    <3>1. x \notin Sessions /\ node[x] = NoSession
      BY <1>2 DEF OwnerInv
    <3>3. node[c].prev # x /\ node[c].next # x
      <4>1. /\ node[c].next = IF k = n THEN Nil ELSE s[k + 1]
            /\ node[c].prev = IF k = 1 THEN Nil ELSE s[k - 1]
        BY <1>5, <1>6 DEF Listing
      <4>2. \A j \in 1..n : s[j] # x
        BY <1>5, <3>1 DEF Listing, Sessions
      <4>3. (k # n => k + 1 \in 1..n) /\ (k # 1 => k - 1 \in 1..n)
        BY <1>4, <1>6
      <4> QED
        BY <1>1, <4>1, <4>2, <4>3
    <3>4. node' = Unlinked(c)
      BY DEF session_close
    <3>5. node'[x] = [node[x] EXCEPT !.next = node[x].next, !.prev = node[x].prev]
      BY <1>1, <3>3, <3>4 DEF Unlinked
    <3>6. node[x] \in NodeType
      BY <1>1
    <3> QED
      BY <3>1, <3>5, <3>6 DEF NodeType
  <2> QED
    BY <1>2, <1>3, <2>1 DEF OwnerInv
<1>12. TimeInv'
  <2>2. ASSUME NEW x \in Sessions' PROVE InTime(x, now - waited)'
    <3>1. x \in Client \ {c} /\ InTime(x, now - waited)
      BY <1>2 DEF TimeInv, Sessions
    <3> QED
      BY <1>2, <3>1 DEF InTime
  <2> QED
    BY <2>2 DEF TimeInv
<1>13. \A x \in Client \ {c} : InTime(x, now) => InTime(x, now)'
  BY <1>2 DEF InTime
<1>14. active_connections' \in Nat
  BY <1>6, <1>7
<1> QED
  BY <1>2, <1>3, <1>8, <1>9, <1>10, <1>12, <1>13, <1>14 DEF TypeOK

\* From the callback of the session, or at shutdown.
LEMMA CloseInv ==
  ASSUME ServerInv,
         StopSession \/ \E c \in Client : SessionCloses(c)
  PROVE  ServerInv'
<1> USE DEF ServerInv
<1>1. PICK c \in Sessions :
        /\ session_close(c) /\ backlog' = backlog /\ leaked' = leaked
        /\ now' = now /\ waited' = waited /\ cursor' = cursor /\ accepted' = accepted
        /\ pc' = pc /\ pc \in {"batch", "stop"}
        /\ batch' = batch \ {c}
  <2>1. CASE StopSession
    <3>1. sessions \in Sessions
      <4>1. PICK n \in 0..Cardinality(Client) : \E s \in [1..n -> Client] : Listing(s, n)
        BY DEF ListInv
      <4>2. PICK s \in [1..n -> Client] : Listing(s, n)
        BY <4>1
      <4>3. n # 0 /\ sessions = s[1] /\ 1 \in 1..n
        BY <2>1, <4>1, <4>2 DEF StopSession, Listing
      <4> QED
        BY <4>2, <4>3 DEF Listing, Sessions
    <3>2. batch = {}
      BY <2>1 DEF StopSession, ThreadInv
    <3> QED
      BY <2>1, <3>1, <3>2 DEF StopSession, thread, clock
  <2>2. ASSUME NEW c \in Client, SessionCloses(c) PROVE c \in Sessions
    BY <2>2, ServerAssumption DEF SessionCloses, ThreadInv, Listener
  <2> QED
    BY <2>1, <2>2 DEF SessionCloses, clock
<1>2. /\ Sessions' = Sessions \ {c} /\ ready' \subseteq Sessions'
      /\ node' \in [Client -> NodeType] /\ sessions' \in Client \cup {Nil}
      /\ active_connections' \in Nat /\ fds' \subseteq Client
      /\ OwnerInv' /\ CountInv' /\ TimeInv'
  BY <1>1, CloseKeeps
<1>3. ThreadInv'
  BY <1>1, <1>2 DEF ThreadInv
<1>4. TypeOK'
  BY <1>1, <1>2 DEF TypeOK, NodeType
<1>5. ListInv'
  <2>1. PICK n \in 0..Cardinality(Client) : \E s \in [1..n -> Client] : Listing(s, n)
    BY DEF ListInv
  <2>2. PICK s \in [1..n -> Client] : Listing(s, n)
    BY <2>1
  <2>3. PICK k \in 1..n : s[k] = c
    BY <1>1, <2>2 DEF Listing, Sessions
  <2>4. n \in Nat /\ session_close(s[k])
    BY <1>1, <2>1, <2>3
  <2>5. Removed(s, n, k) \in [1..n - 1 -> Client] /\ Listing(Removed(s, n, k), n - 1)'
    BY <2>2, <2>4, UnlinkListing
  <2>6. n - 1 \in 0..Cardinality(Client)
    <3>1. Cardinality(Client) \in Nat
      BY FS_CardinalityType, ServerAssumption
    <3> QED
      BY <2>1, <2>3, <3>1
  <2>7. pc' # "tick"
    BY <1>1
  <2> QED
    BY <2>5, <2>6, <2>7 DEF ListInv
<1> QED
  BY <1>2, <1>3, <1>4, <1>5

-----------------------------------------------------------------------------
(* proxy_tick.                                                             *)

\* A session the tick lets live is in time.
LEMMA NotExpired ==
  ASSUME TypeOK, NEW c \in Client, InTime(c, now - waited), ~session_is_expired(c)
  PROVE  InTime(c, now)
<1>1. node[c] \in NodeType /\ now \in Nat
  BY DEF TypeOK, NodeType
<1>2. /\ node[c].created_at \in Nat /\ node[c].connect_started_at \in Nat
      /\ node[c].last_activity_at \in Nat
  BY <1>1 DEF NodeType
<1>3. ASSUME handshake_timeout # 0, ~node[c].handshake_done
      PROVE  now - node[c].created_at < Covers(handshake_timeout)
  <2>1. ~TimedOut(node[c].created_at, handshake_timeout) /\ handshake_timeout \in Nat \ {0}
    BY <1>3, ServerAssumption DEF session_is_expired
  <2> QED
    BY <1>1, <1>2, <2>1, NotTimedOut
<1>4. ASSUME connect_timeout # 0, node[c].target_connecting
      PROVE  /\ node[c].connect_started_at # 0
             /\ now - node[c].connect_started_at < Covers(connect_timeout)
  <2>1. node[c].connect_started_at # 0
    BY <1>4 DEF InTime
  <2>2. ~TimedOut(node[c].connect_started_at, connect_timeout) /\ connect_timeout \in Nat \ {0}
    BY <1>4, <2>1, ServerAssumption DEF session_is_expired
  <2> QED
    BY <1>1, <1>2, <2>1, <2>2, NotTimedOut
<1>5. ASSUME idle_timeout # 0, node[c].handshake_done
      PROVE  now - node[c].last_activity_at < Covers(idle_timeout)
  <2>1. ~TimedOut(node[c].last_activity_at, idle_timeout) /\ idle_timeout \in Nat \ {0}
    BY <1>5, ServerAssumption DEF session_is_expired
  <2> QED
    BY <1>1, <1>2, <2>1, NotTimedOut
<1> QED
  BY <1>3, <1>4, <1>5 DEF InTime

LEMMA TickStartsInv ==
  ASSUME ServerInv, TickStarts
  PROVE  ServerInv'
<1> USE DEF ServerInv
<1>1. /\ UNCHANGED list /\ fds' = fds /\ leaked' = leaked /\ backlog' = backlog
      /\ batch' = batch /\ batch = {} /\ pc' = "tick" /\ ready' = ready
      /\ cursor' = (IF TimeoutsOff THEN Nil ELSE sessions)
      /\ accepted' = accepted /\ now' = now /\ waited' = waited
  BY DEF TickStarts, clock
<1>2. Sessions' = Sessions /\ node' = node /\ CountInv'
  BY <1>1, KeepCount DEF list
<1>3. TimeInv'
  BY <1>1, KeepTime DEF TimeInv
<1>4. ThreadInv' /\ OwnerInv'
  BY <1>1, <1>2 DEF ThreadInv, OwnerInv
<1>5. TypeOK'
  BY <1>1, <1>2 DEF TypeOK, list
<1>6. ListInv'
  <2>1. PICK n \in 0..Cardinality(Client) : \E s \in [1..n -> Client] : Listing(s, n)
    BY DEF ListInv
  <2>2. PICK s \in [1..n -> Client] : Listing(s, n)
    BY <2>1
  <2>3. Listing(s, n)'
    BY <1>1, <2>2 DEF Listing, list
  <2>4. CASE TimeoutsOff
    <3>1. handshake_timeout = 0 /\ connect_timeout = 0 /\ idle_timeout = 0
      BY <2>4 DEF TimeoutsOff
    <3>2. Ticking(s, n, n + 1)' /\ n + 1 \in 1..n + 1
      BY <1>1, <2>1, <2>4, <3>1 DEF Ticking, InTime
    <3> QED
      BY <2>3, <3>2 DEF ListInv
  <2>5. CASE ~TimeoutsOff
    <3>1. cursor' = sessions /\ sessions = IF n = 0 THEN Nil ELSE s[1]
      BY <1>1, <2>2, <2>5 DEF Listing
    <3>2. Ticking(s, n, 1)' /\ 1 \in 1..n + 1
      BY <2>1, <3>1 DEF Ticking
    <3> QED
      BY <2>3, <3>2 DEF ListInv
  <2> QED
    BY <2>4, <2>5
<1> QED
  BY <1>2, <1>3, <1>4, <1>5, <1>6

LEMMA TickDoneInv ==
  ASSUME ServerInv, TickDone
  PROVE  ServerInv'
<1> USE DEF ServerInv
<1>1. /\ UNCHANGED list /\ fds' = fds /\ leaked' = leaked /\ backlog' = backlog
      /\ batch' = batch /\ pc = "tick" /\ pc' = "wait" /\ ready' = ready
      /\ cursor = Nil /\ cursor' = cursor
      /\ accepted' = accepted /\ now' = now /\ waited' = 0
  BY DEF TickDone
<1>2. Sessions' = Sessions /\ node' = node /\ CountInv'
  BY <1>1, KeepCount DEF list
<1>3. ListInv'
  BY <1>1, KeepList
<1>4. ThreadInv' /\ OwnerInv'
  BY <1>1, <1>2 DEF ThreadInv, OwnerInv
<1>5. TypeOK'
  BY <1>1, <1>2, ServerAssumption, SMTT(30) DEF TypeOK, list
<1>6. TimeInv'
  <2>1. PICK n \in 0..Cardinality(Client) : \E s \in [1..n -> Client] :
          Listing(s, n) /\ \E p \in 1..n + 1 : Ticking(s, n, p)
    BY <1>1 DEF ListInv
  <2>2. PICK s \in [1..n -> Client] :
          Listing(s, n) /\ \E p \in 1..n + 1 : Ticking(s, n, p)
    BY <2>1
  <2>3. PICK p \in 1..n + 1 : Ticking(s, n, p)
    BY <2>2
  <2>4. p = n + 1
    <3>1. p \in 1..n => s[p] \in Client
      OBVIOUS
    <3>2. p > n \/ s[p] = Nil
      BY <1>1, <2>3 DEF Ticking
    <3> QED
      BY <2>1, <3>1, <3>2, ServerAssumption
  <2>5. \A k \in 1..n : InTime(s[k], now)
    BY <2>1, <2>3, <2>4 DEF Ticking
  <2>6. ASSUME NEW c \in Sessions PROVE InTime(c, now)
    BY <2>2, <2>5 DEF Listing, Sessions
  <2>7. now \in Nat /\ now # 0 /\ now - 0 = now
    BY DEF TypeOK, TimeInv
  <2>8. ASSUME NEW c \in Sessions PROVE InTime(c, now - waited)'
    <3>1. now' - waited' = now
      BY <1>1, <2>7
    <3> QED
      BY <1>2, <2>6, <3>1 DEF InTime
  <2> QED
    BY <1>1, <1>2, <2>7, <2>8 DEF TimeInv
<1> QED
  BY <1>2, <1>3, <1>4, <1>5, <1>6

LEMMA TickStepInv ==
  ASSUME ServerInv, TickStep
  PROVE  ServerInv'
<1> USE DEF ServerInv
<1>1. /\ pc = "tick" /\ cursor # Nil /\ cursor' = node[cursor].next
      /\ pc' = pc /\ batch' = batch /\ accepted' = accepted /\ backlog' = backlog
      /\ now' = now /\ waited' = waited /\ leaked' = leaked
  BY DEF TickStep, clock
<1>2. PICK n \in 0..Cardinality(Client) : \E s \in [1..n -> Client] :
        Listing(s, n) /\ \E p \in 1..n + 1 : Ticking(s, n, p)
  BY <1>1 DEF ListInv
<1>3. PICK s \in [1..n -> Client] :
        Listing(s, n) /\ \E p \in 1..n + 1 : Ticking(s, n, p)
  BY <1>2
<1>4. PICK p \in 1..n + 1 : Ticking(s, n, p)
  BY <1>3
<1>5. /\ n \in Nat /\ p \in 1..n /\ cursor = s[p] /\ cursor \in Sessions
      /\ cursor' = IF p = n THEN Nil ELSE s[p + 1]
  <2>1. n \in Nat
    BY <1>2
  <2>2. p <= n /\ cursor = s[p]
    BY <1>1, <1>4, <2>1 DEF Ticking
  <2>3. p \in 1..n
    BY <2>1, <2>2
  <2>4. cursor \in Sessions
    BY <1>3, <2>2, <2>3 DEF Listing, Sessions
  <2>5. cursor' = IF p = n THEN Nil ELSE s[p + 1]
    BY <1>1, <1>3, <2>2, <2>3 DEF Listing
  <2> QED
    BY <2>1, <2>2, <2>3, <2>4, <2>5
<1>6. cursor' \in Client \cup {Nil}
  BY <1>5
<1>7. CASE ~session_is_expired(cursor)
  <2>1. UNCHANGED list /\ fds' = fds /\ ready' = ready
    BY <1>7 DEF TickStep
  <2>2. Sessions' = Sessions /\ node' = node /\ CountInv'
    BY <2>1, KeepCount DEF list
  <2>3. TimeInv'
    BY <1>1, <2>1, KeepTime DEF TimeInv
  <2>4. ThreadInv' /\ OwnerInv'
    BY <1>1, <2>1, <2>2 DEF ThreadInv, OwnerInv
  <2>5. TypeOK'
    BY <1>1, <1>6, <2>1, <2>2 DEF TypeOK, list
  <2>6. ListInv'
    <3>1. Listing(s, n)'
      BY <1>3, <2>1 DEF Listing, list
    <3>2. InTime(cursor, now)
      <4>1. InTime(cursor, now - waited) /\ cursor \in Client
        BY <1>5 DEF TimeInv, Sessions
      <4> QED
        BY <1>7, <4>1, NotExpired
    <3>3. \A k \in 1..p : InTime(s[k], now)
      BY <1>4, <1>5, <3>2 DEF Ticking
    <3>4. \A k \in 1..(p + 1) - 1 : InTime(s[k], now)'
      BY <1>1, <1>5, <2>2, <3>3 DEF InTime
    <3>5. cursor' = IF p + 1 > n THEN Nil ELSE s[p + 1]
      BY <1>5
    <3>6. Ticking(s, n, p + 1)' /\ p + 1 \in 1..n + 1
      BY <1>5, <3>4, <3>5 DEF Ticking
    <3> QED
      BY <3>1, <3>6 DEF ListInv
  <2> QED
    BY <2>2, <2>3, <2>4, <2>5, <2>6
<1>8. CASE session_is_expired(cursor)
  <2>1. session_close(cursor)
    BY <1>8 DEF TickStep
  <2>2. /\ Sessions' = Sessions \ {cursor} /\ ready' \subseteq Sessions'
        /\ node' \in [Client -> NodeType] /\ sessions' \in Client \cup {Nil}
        /\ active_connections' \in Nat /\ fds' \subseteq Client
        /\ OwnerInv' /\ CountInv' /\ TimeInv'
        /\ \A x \in Client \ {cursor} : InTime(x, now) => InTime(x, now)'
    BY <1>1, <1>5, <2>1, CloseKeeps
  <2>3. ThreadInv'
    BY <1>1, <2>2 DEF ThreadInv
  <2>4. TypeOK'
    BY <1>1, <1>6, <2>2 DEF TypeOK, NodeType
  <2>5. ListInv'
    <3> DEFINE t == Removed(s, n, p)
    <3>1. session_close(s[p])
      BY <1>5, <2>1
    <3>2. t \in [1..n - 1 -> Client] /\ Listing(t, n - 1)'
      BY <1>3, <1>5, <3>1, UnlinkListing
    <3>3. n - 1 \in 0..Cardinality(Client)
      <4>1. Cardinality(Client) \in Nat
        BY FS_CardinalityType, ServerAssumption
      <4> QED
        BY <1>2, <1>5, <4>1
    <3>4. /\ \A k \in 1..p - 1 : t[k] = s[k]
          /\ p \in 1..n - 1 => t[p] = s[p + 1]
      BY <1>5 DEF Removed, Place
    <3> HIDE DEF t
    <3>5. cursor' = IF p > n - 1 THEN Nil ELSE t[p]
      BY <1>5, <3>4
    <3>6. ASSUME NEW k \in 1..p - 1 PROVE InTime(t[k], now)'
      <4>1. s[k] \in Client \ {cursor} /\ InTime(s[k], now)
        BY <1>3, <1>4, <1>5 DEF Listing, Ticking
      <4>2. InTime(s[k], now)'
        BY <2>2, <4>1
      <4>3. t[k] = s[k]
        BY <3>4
      <4> QED
        BY <4>2, <4>3
    <3>7. Ticking(t, n - 1, p)'
      BY <3>5, <3>6 DEF Ticking
    <3>8. p \in 1..(n - 1) + 1
      BY <1>5
    <3> QED
      BY <3>2, <3>3, <3>7, <3>8 DEF ListInv
  <2> QED
    BY <2>2, <2>3, <2>4, <2>5
<1> QED
  BY <1>7, <1>8

-----------------------------------------------------------------------------
(* listener_callback.                                                      *)

LEMMA AcceptInv ==
  ASSUME ServerInv, Accept
  PROVE  ServerInv'
<1> USE DEF ServerInv
<1>0. PICK c : c = Head(backlog)
  OBVIOUS
<1>1. /\ pc = "accept" /\ pc' = pc /\ backlog # <<>> /\ accepted # accept_budget
      /\ ~(active_connections >= max_connections)
      /\ node' = Linked(c) /\ sessions' = c /\ fds' = fds \cup {c}
      /\ active_connections' = active_connections + 1
      /\ backlog' = Tail(backlog) /\ accepted' = accepted + 1
      /\ batch' = batch /\ cursor' = cursor /\ ready' = ready
      /\ now' = now /\ waited' = waited /\ leaked' = leaked
  BY <1>0 DEF Accept, Accepting, AcceptOver, AtLimit, Counted, clock
<1>2. /\ c \in Client \ (Sessions \cup fds) /\ Tail(backlog) \in Seq(Client)
      /\ LET t == Tail(backlog) IN
         /\ \A j, k \in DOMAIN t : t[j] = t[k] => j = k
         /\ \A k \in DOMAIN t : t[k] \notin fds \cup {c}
  BY <1>0, <1>1, TailOfBacklog
<1>3. PICK n \in 0..Cardinality(Client) : \E s \in [1..n -> Client] : Listing(s, n)
  BY DEF ListInv
<1>4. PICK s \in [1..n -> Client] : Listing(s, n)
  BY <1>3
<1>5. n \in Nat /\ c # sessions
  <2>1. n # 0 => sessions = s[1] /\ s[1] \in Sessions
    BY <1>3, <1>4 DEF Listing, Sessions
  <2>2. n = 0 => sessions = Nil
    BY <1>4 DEF Listing
  <2> QED
    BY <1>2, <1>3, <2>1, <2>2, ServerAssumption
<1>6. /\ node' \in [Client -> NodeType] /\ Sessions' = Sessions \cup {c}
      /\ node'[c] = [NoSession EXCEPT !.used = TRUE, !.next = sessions,
                                      !.created_at = now, !.last_activity_at = now]
      /\ \A x \in Client \ {c} :
           /\ node'[x].used = node[x].used
           /\ node'[x].handshake_done = node[x].handshake_done
           /\ node'[x].target_connecting = node[x].target_connecting
           /\ node'[x].created_at = node[x].created_at
           /\ node'[x].connect_started_at = node[x].connect_started_at
           /\ node'[x].last_activity_at = node[x].last_activity_at
  BY <1>1, <1>2, <1>5, LinkNode
<1>7. ThreadInv'
  BY <1>1, <1>6 DEF ThreadInv
<1>8. CountInv'
  <2>1. /\ IsFiniteSet(Sessions) /\ active_connections = Cardinality(Sessions)
        /\ max_connections \in Nat /\ active_connections \in Nat
    BY ServerAssumption DEF CountInv, TypeOK
  <2>2. /\ IsFiniteSet(Sessions \cup {c})
        /\ Cardinality(Sessions \cup {c}) = Cardinality(Sessions) + 1
    BY <1>2, <2>1, FS_AddElement
  <2>3. active_connections + 1 <= max_connections
    BY <1>1, <2>1
  <2> QED
    BY <1>1, <1>6, <2>1, <2>2, <2>3 DEF CountInv
<1>9. OwnerInv'
  <2>1. \A x \in Client \ Sessions' : node'[x] = NoSession
    <3> SUFFICES ASSUME NEW x \in Client \ Sessions' PROVE node'[x] = NoSession
      OBVIOUS
    <3>1. x # c /\ x \notin Sessions /\ node[x] = NoSession
      BY <1>6 DEF OwnerInv
    <3>2. x # sessions
      <4>1. n # 0 => sessions = s[1] /\ s[1] \in Sessions
        BY <1>3, <1>4 DEF Listing, Sessions
      <4>2. n = 0 => sessions = Nil
        BY <1>4 DEF Listing
      <4> QED
        BY <1>5, <3>1, <4>1, <4>2, ServerAssumption
    <3> QED
      BY <1>1, <3>1, <3>2 DEF Linked
  <2>2. fds' = Sessions' \cup leaked' /\ leaked' \cap Sessions' = {}
    BY <1>1, <1>2, <1>6 DEF OwnerInv
  <2> QED
    BY <1>1, <1>2, <2>1, <2>2 DEF OwnerInv
<1>10. TypeOK'
  <2>1. accepted' \in 0..accept_budget
    BY <1>1, ServerAssumption, SMTT(30) DEF TypeOK
  <2>2. ready' \subseteq Sessions' /\ fds' \subseteq Client /\ sessions' \in Client \cup {Nil}
    BY <1>1, <1>2, <1>6 DEF TypeOK
  <2>3. active_connections' \in Nat
    BY <1>1 DEF TypeOK
  <2> QED
    BY <1>1, <1>2, <1>6, <2>1, <2>2, <2>3 DEF TypeOK, NodeType
<1>11. ListInv'
  <2> DEFINE t == Inserted(s, n, c)
  <2>1. t \in [1..n + 1 -> Client] /\ Listing(t, n + 1)'
    BY <1>1, <1>2, <1>4, <1>5, LinkListing
  <2> HIDE DEF t
  <2>2. n + 1 \in 0..Cardinality(Client)
    <3>1. IsFiniteSet(Client) /\ Sessions' \in SUBSET Client
      BY ServerAssumption DEF Sessions
    <3>2. Cardinality(Sessions') <= Cardinality(Client) /\ Cardinality(Client) \in Nat
      BY <3>1, FS_Subset, FS_CardinalityType
    <3>3. Cardinality(Sessions') = n + 1
      BY <1>8, <2>1 DEF CountInv, Listing
    <3> QED
      BY <1>5, <3>2, <3>3
  <2>3. pc' # "tick"
    BY <1>1
  <2> QED
    BY <2>1, <2>2, <2>3 DEF ListInv
<1>12. TimeInv'
  <2>1. ASSUME NEW x \in Sessions PROVE InTime(x, now - waited)'
    <3>1. x \in Client \ {c} /\ InTime(x, now - waited)
      BY <1>2 DEF TimeInv, Sessions
    <3> QED
      BY <1>1, <1>6, <3>1 DEF InTime
  <2>2. InTime(c, now - waited)'
    <3>1. /\ ~node'[c].handshake_done /\ ~node'[c].target_connecting
          /\ node'[c].created_at = now
      BY <1>6 DEF NoSession
    <3>2. ASSUME handshake_timeout # 0
          PROVE  now' - waited' - node'[c].created_at < Covers(handshake_timeout)
      <4>1. Covers(handshake_timeout) \in Nat \ {0}
        BY <3>2, CoversPositive, ServerAssumption
      <4>2. now \in Nat /\ waited \in Nat
        BY DEF TypeOK
      <4> QED
        BY <1>1, <3>1, <4>1, <4>2
    <3> QED
      BY <3>1, <3>2 DEF InTime
  <2> QED
    BY <1>1, <1>6, <2>1, <2>2 DEF TimeInv
<1> QED
  BY <1>7, <1>8, <1>9, <1>10, <1>11, <1>12

LEMMA CreateFailsInv ==
  ASSUME ServerInv, CreateFails
  PROVE  ServerInv'
<1> USE DEF ServerInv
<1> DEFINE c == Head(backlog)
<1>1. /\ pc = "accept" /\ pc' = "batch" /\ backlog # <<>> /\ backlog' = Tail(backlog)
      /\ batch' = batch /\ accepted' = accepted /\ cursor' = cursor
      /\ now' = now /\ waited' = waited
      /\ \/ session_close(c) /\ leaked' = leaked
         \/ /\ fds' = fds \cup {c} /\ leaked' = leaked \cup {c}
            /\ UNCHANGED <<list, ready>>
  BY DEF CreateFails, Accepting, AcceptOver, clock
<1>2. /\ c \in Client \ (Sessions \cup fds) /\ Tail(backlog) \in Seq(Client)
      /\ node[c] = NoSession
      /\ LET t == Tail(backlog) IN
         /\ \A j, k \in DOMAIN t : t[j] = t[k] => j = k
         /\ \A k \in DOMAIN t : t[k] \notin fds \cup {c}
  BY <1>1, TailOfBacklog
<1> HIDE DEF c
<1>3. /\ UNCHANGED list /\ ready' = ready
      /\ \/ fds' = fds /\ leaked' = leaked
         \/ fds' = fds \cup {c} /\ leaked' = leaked \cup {c}
  <2>1. CASE session_close(c) /\ leaked' = leaked
    <3>1. PICK n \in 0..Cardinality(Client) : \E s \in [1..n -> Client] : Listing(s, n)
      BY DEF ListInv
    <3>2. PICK s \in [1..n -> Client] : Listing(s, n)
      BY <3>1
    <3>3. n \in Nat
      BY <3>1
    <3>4. UNCHANGED list
      BY <1>2, <2>1, <3>2, <3>3, CloseUnlinked DEF list
    <3>5. fds' = fds /\ ready' = ready
      BY <1>2, <2>1 DEF session_close, TypeOK
    <3> QED
      BY <2>1, <3>4, <3>5
  <2>2. CASE ~session_close(c)
    BY <1>1, <2>2
  <2> QED
    BY <1>1, <2>1, <2>2
<1>4. Sessions' = Sessions /\ node' = node /\ CountInv'
  BY <1>3, KeepCount DEF list
<1>5. ListInv'
  BY <1>1, <1>3, KeepList
<1>6. TimeInv'
  BY <1>1, <1>3, KeepTime DEF TimeInv
<1>7. ThreadInv'
  BY <1>1, <1>4 DEF ThreadInv
<1>8. OwnerInv'
  BY <1>1, <1>2, <1>3, <1>4 DEF OwnerInv
<1>9. TypeOK'
  <2>1. fds' \subseteq Client /\ leaked' \subseteq Client
    BY <1>2, <1>3 DEF TypeOK
  <2> QED
    BY <1>1, <1>2, <1>3, <1>4, <2>1 DEF TypeOK, list
<1> QED
  BY <1>4, <1>5, <1>6, <1>7, <1>8, <1>9

LEMMA NextInv == ServerInv /\ [Next]_vars => ServerInv'
<1> SUFFICES ASSUME ServerInv, [Next]_vars PROVE ServerInv'
  OBVIOUS
<1>1. CASE \/ Elapse \/ Wait \/ WaitFails \/ ListenerEvent \/ AcceptDone \/ AcceptFails
           \/ Refuse \/ Stopped \/ UNCHANGED vars
           \/ \E c \in Client : Connect(c) \/ HasEvent(c)
  BY <1>1, QuietInv
<1>2. ASSUME NEW c \in Client,
             SessionMoves(c) \/ SessionUpgrades(c) \/ SessionConnected(c)
      PROVE  ServerInv'
  BY <1>2, TouchInv
<1>3. CASE StopSession \/ \E c \in Client : SessionCloses(c)
  BY <1>3, CloseInv
<1>4. CASE Accept
  BY <1>4, AcceptInv
<1>5. CASE CreateFails
  BY <1>5, CreateFailsInv
<1>6. CASE TickStarts \/ TickStep \/ TickDone
  BY <1>6, TickStartsInv, TickStepInv, TickDoneInv
<1> QED
  BY <1>1, <1>2, <1>3, <1>4, <1>5, <1>6 DEF Next, LoopStep

LEMMA ServerAlways == Spec => []ServerInv
BY InitInv, NextInv, PTL DEF Spec

-----------------------------------------------------------------------------
(* What it gives.                                                          *)

\* Every variable keeps its type, and no callback of the listener accepts more
\* than accept_budget connections (proxy.c:953-1000).
THEOREM ServerTypeCorrect == Spec => []TypeOK
<1>1. ServerInv => TypeOK
  BY DEF ServerInv
<1> QED
  BY <1>1, ServerAlways, PTL

\* Every open client descriptor belongs to exactly one live session, those apart
\* that a failed calloc strands; none is left when the server is down
\* (proxy.c:141-182, 865-868).
THEOREM ServerFdsOwned == Spec => []FdsOwned
<1>1. ServerInv => FdsOwned
  BY DEF ServerInv, ThreadInv, OwnerInv, FdsOwned
<1> QED
  BY <1>1, ServerAlways, PTL

\* There are never more sessions than max_connections, whatever was refused,
\* closed or failed before (proxy.c:121-139, 967).
THEOREM ServerConnectionLimit == Spec => []ConnectionLimit
<1>1. ServerInv => ConnectionLimit
  BY DEF ServerInv, CountInv, ConnectionLimit
<1> QED
  BY <1>1, ServerAlways, PTL

\* The doubly linked list holds every session exactly once, forwards and
\* backwards, active_connections counts it, and the tick's cursor never points
\* to a session that is gone (proxy.c:121-139, 1029-1036).
THEOREM ServerListConsistent == Spec => []ListConsistent
<1>1. ServerInv => ListConsistent
  <2> SUFFICES ASSUME ServerInv PROVE ListConsistent
    OBVIOUS
  <2>1. PICK n \in 0..Cardinality(Client) : \E s \in [1..n -> Client] :
          /\ Listing(s, n)
          /\ pc = "tick" => \E p \in 1..n + 1 : Ticking(s, n, p)
    BY DEF ServerInv, ListInv
  <2>2. PICK s \in [1..n -> Client] :
          /\ Listing(s, n)
          /\ pc = "tick" => \E p \in 1..n + 1 : Ticking(s, n, p)
    BY <2>1
  <2>3. n \in Nat /\ DOMAIN s = 1..n /\ s \in Seq(Client) /\ Len(s) = n
    BY <2>1
  <2>4. s = <<>> <=> n = 0
    BY <2>3, EmptySeq
  <2>5. s \in Orders
    BY <2>1, <2>2 DEF Orders, Listing
  <2>6. {s[k] : k \in DOMAIN s} = Sessions
    BY <2>2, <2>3 DEF Listing, Sessions
  <2>7. /\ active_connections = Len(s)
        /\ sessions = IF s = <<>> THEN Nil ELSE s[1]
        /\ \A k \in DOMAIN s :
             /\ node[s[k]].next = IF k = Len(s) THEN Nil ELSE s[k + 1]
             /\ node[s[k]].prev = IF k = 1 THEN Nil ELSE s[k - 1]
    BY <2>2, <2>3, <2>4 DEF Listing
  <2>8. pc = "tick" => cursor \in Sessions \cup {Nil}
    <3> SUFFICES ASSUME pc = "tick" PROVE cursor \in Sessions \cup {Nil}
      OBVIOUS
    <3>1. PICK p \in 1..n + 1 : Ticking(s, n, p)
      BY <2>2
    <3>2. cursor = Nil \/ (p \in 1..n /\ cursor = s[p])
      BY <2>3, <3>1 DEF Ticking
    <3> QED
      BY <2>2, <3>2 DEF Listing, Sessions
  <2> QED
    BY <2>5, <2>6, <2>7, <2>8 DEF ListConsistent
<1> QED
  BY <1>1, ServerAlways, PTL

\* README.md:118.  For every clock, budget and set of timeouts: a session that
\* does not complete the upgrade, does not reach its target or is idle is
\* dropped at the latest when its timeout, rounded up to whole seconds, and one
\* wait of a second are over (proxy.c:1002-1037).
THEOREM ServerDroppedInTime == Spec => []DroppedInTime
<1>1. ServerInv => DroppedInTime
  <2> SUFFICES ASSUME ServerInv, NEW c \in Sessions
               PROVE
         /\ (handshake_timeout # 0 /\ ~node[c].handshake_done) =>
              ~(now - node[c].created_at >= Covers(handshake_timeout) + Second)
         /\ (connect_timeout # 0 /\ node[c].target_connecting) =>
              ~(now - node[c].connect_started_at >= Covers(connect_timeout) + Second)
         /\ (idle_timeout # 0 /\ node[c].handshake_done) =>
              ~(now - node[c].last_activity_at >= Covers(idle_timeout) + Second)
    BY DEF DroppedInTime, Covers
  <2>1. InTime(c, now - waited)
    BY DEF ServerInv, TimeInv
  <2>2. now \in Nat /\ waited \in 0..Second /\ Second \in Nat
    BY ServerAssumption DEF ServerInv, TypeOK
  <2>3. c \in Client /\ node[c] \in NodeType
    BY DEF ServerInv, TypeOK, Sessions, NodeType
  <2>4. /\ node[c].created_at \in Nat /\ node[c].connect_started_at \in Nat
        /\ node[c].last_activity_at \in Nat
    BY <2>3 DEF NodeType
  <2>5. ASSUME NEW t \in Nat, NEW b \in Nat, now - waited - t < b
        PROVE  ~(now - t >= b + Second)
    BY <2>2, <2>5
  <2>6. /\ handshake_timeout # 0 => Covers(handshake_timeout) \in Nat
        /\ connect_timeout # 0 => Covers(connect_timeout) \in Nat
        /\ idle_timeout # 0 => Covers(idle_timeout) \in Nat
    BY CoversPositive, ServerAssumption
  <2> QED
    BY <2>1, <2>4, <2>5, <2>6 DEF InTime
<1> QED
  BY <1>1, ServerAlways, PTL
=============================================================================
