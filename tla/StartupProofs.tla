---------------------------- MODULE StartupProofs ----------------------------
(***************************************************************************)
(* Proofs about the start and the end of the process, for every sequence   *)
(* of arguments and whichever step fails: what runs is what was asked for, *)
(* and what is acquired is released, in order.                             *)
(***************************************************************************)
EXTENDS StartupProperties, SequenceTheorems, FiniteSetTheorems, TLAPS

-----------------------------------------------------------------------------
(* Acquiring and releasing one resource.                                   *)

Distinct == \A j, k \in DOMAIN held : held[j] = held[k] => j = k

LEMMA AppendHolds ==
  ASSUME held \in Seq(Resource), Distinct, NEW r \in Resource, r \notin Holds,
         held' = Append(held, r)
  PROVE  held' \in Seq(Resource) /\ Distinct' /\ Holds' = Holds \cup {r}
<1>1. /\ held' \in Seq(Resource) /\ Len(held') = Len(held) + 1 /\ Len(held) \in Nat
      /\ \A i \in 1..Len(held) : held'[i] = held[i]
      /\ held'[Len(held) + 1] = r
  BY AppendProperties, LenProperties
<1>2. DOMAIN held = 1..Len(held) /\ DOMAIN held' = 1..Len(held) + 1
  BY <1>1, LenProperties
<1>3. \A k \in DOMAIN held : held[k] # r
  BY DEF Holds, Has
<1>4. Distinct'
  BY <1>1, <1>2, <1>3 DEF Distinct
<1>5. ASSUME NEW x \in Resource PROVE Has(x)' <=> Has(x) \/ x = r
  BY <1>1, <1>2 DEF Has
<1> QED
  BY <1>1, <1>4, <1>5 DEF Holds

LEMMA WithoutHolds ==
  ASSUME held \in Seq(Resource), Distinct, NEW r \in Resource, held' = Without(r)
  PROVE  held' \in Seq(Resource) /\ Distinct' /\ Holds' = Holds \ {r}
<1> DEFINE at == {k \in DOMAIN held : held[k] = r}
           n == Len(held)
<1>1. n \in Nat /\ DOMAIN held = 1..n /\ \A i \in 1..n : held[i] \in Resource
  BY LenProperties
<1>2. CASE at = {}
  <2>1. held' = held
    BY <1>2 DEF Without
  <2>2. r \notin Holds
    BY <1>2 DEF Holds, Has
  <2> QED
    BY <2>1, <2>2 DEF Holds, Has, Distinct
<1>3. CASE at # {}
  <2>1. PICK k \in at : TRUE
    BY <1>3
  <2>2. at = {k} /\ k \in 1..n /\ held[k] = r
    BY <1>1, <2>1 DEF Distinct
  <2> DEFINE last == CHOOSE i \in at : \A j \in at : j <= i
             a == SubSeq(held, 1, last - 1)
             b == SubSeq(held, last + 1, n)
  <2>3. last = k
    BY <1>1, <2>2
  <2>4. held' = a \o b
    BY <1>3 DEF Without
  <2> HIDE DEF last, at, n
  <2>5. /\ a \in Seq(Resource) /\ Len(a) = k - 1
        /\ \A i \in 1..k - 1 : a[i] = held[i]
    <3>1. 1 \in Int /\ k - 1 \in Int /\ \A i \in 1..k - 1 : held[i] \in Resource
      BY <1>1, <2>2
    <3>2. /\ SubSeq(held, 1, k - 1) \in Seq(Resource)
          /\ Len(SubSeq(held, 1, k - 1)) = IF 1 <= k - 1 THEN k - 1 - 1 + 1 ELSE 0
          /\ \A i \in 1..k - 1 - 1 + 1 : SubSeq(held, 1, k - 1)[i] = held[1 + i - 1]
      BY <3>1, SubSeqProperties
    <3> HIDE DEF a
    <3>3. a = SubSeq(held, 1, k - 1)
      BY <2>3 DEF a
    <3> QED
      BY <2>2, <3>2, <3>3
  <2>6. /\ b \in Seq(Resource) /\ Len(b) = n - k
        /\ \A i \in 1..n - k : b[i] = held[k + i]
    <3>1. k + 1 \in Int /\ n \in Int /\ \A i \in k + 1..n : held[i] \in Resource
      BY <1>1, <2>2
    <3>2. /\ SubSeq(held, k + 1, n) \in Seq(Resource)
          /\ Len(SubSeq(held, k + 1, n)) = IF k + 1 <= n THEN n - (k + 1) + 1 ELSE 0
          /\ \A i \in 1..n - (k + 1) + 1 : SubSeq(held, k + 1, n)[i] = held[k + 1 + i - 1]
      BY <3>1, SubSeqProperties
    <3> HIDE DEF b
    <3>3. b = SubSeq(held, k + 1, n)
      BY <2>3 DEF b
    <3> QED
      BY <1>1, <2>2, <3>2, <3>3
  <2> HIDE DEF a, b
  <2>7. /\ held' \in Seq(Resource) /\ Len(held') = n - 1
        /\ \A i \in 1..n - 1 : held'[i] = IF i <= k - 1 THEN a[i] ELSE b[i - (k - 1)]
    <3>1. Len(a) + Len(b) = n - 1
      BY <1>1, <2>2, <2>5, <2>6
    <3>2. /\ a \o b \in Seq(Resource) /\ Len(a \o b) = Len(a) + Len(b)
          /\ \A i \in 1..Len(a) + Len(b) :
               (a \o b)[i] = IF i <= Len(a) THEN a[i] ELSE b[i - Len(a)]
      BY <2>5, <2>6, ConcatProperties, ZenonT(40)
    <3> QED
      BY <2>4, <2>5, <3>1, <3>2
  <2>8. \A i \in 1..n - 1 : held'[i] = held[IF i < k THEN i ELSE i + 1]
    <3> SUFFICES ASSUME NEW i \in 1..n - 1
                 PROVE  held'[i] = held[IF i < k THEN i ELSE i + 1]
      OBVIOUS
    <3>1. CASE i < k
      BY <1>1, <2>2, <2>5, <2>7, <3>1
    <3>2. CASE i >= k
      <4>1. i - (k - 1) \in 1..n - k /\ k + (i - (k - 1)) = i + 1 /\ ~(i <= k - 1)
        BY <1>1, <2>2, <3>2
      <4> QED
        BY <1>1, <2>2, <2>6, <2>7, <3>2, <4>1
    <3> QED
      BY <1>1, <2>2, <3>1, <3>2
  <2>9. DOMAIN held' = 1..n - 1
    BY <2>7, LenProperties
  <2>10. Distinct'
    <3> SUFFICES ASSUME NEW i \in 1..n - 1, NEW j \in 1..n - 1, held'[i] = held'[j]
                 PROVE  i = j
      BY <2>9 DEF Distinct
    <3> DEFINE p == IF i < k THEN i ELSE i + 1
               q == IF j < k THEN j ELSE j + 1
    <3>1. p \in 1..n /\ q \in 1..n
      BY <1>1, <2>2
    <3>2. held[p] = held[q]
      BY <2>8
    <3> HIDE DEF p, q
    <3>3. p = q
      BY <1>1, <3>1, <3>2 DEF Distinct
    <3> QED
      BY <1>1, <2>2, <3>3 DEF p, q
  <2>11. ASSUME NEW x \in Resource PROVE Has(x)' <=> Has(x) /\ x # r
    <3>1. ASSUME Has(x)' PROVE Has(x) /\ x # r
      <4>1. PICK i \in 1..n - 1 : held'[i] = x
        BY <2>9, <3>1 DEF Has
      <4> DEFINE p == IF i < k THEN i ELSE i + 1
      <4>2. p \in 1..n /\ p # k /\ held[p] = x
        BY <1>1, <2>2, <2>8, <4>1
      <4> HIDE DEF p
      <4> QED
        BY <1>1, <2>2, <4>2 DEF Has, Distinct
    <3>2. ASSUME Has(x), x # r PROVE Has(x)'
      <4>1. PICK p \in 1..n : held[p] = x
        BY <1>1, <3>2 DEF Has
      <4> DEFINE i == IF p < k THEN p ELSE p - 1
      <4>2. p # k
        BY <2>2, <3>2, <4>1
      <4>3. i \in 1..n - 1 /\ (IF i < k THEN i ELSE i + 1) = p
        BY <1>1, <2>2, <4>2
      <4> HIDE DEF i
      <4>4. held'[i] = x
        BY <2>8, <4>1, <4>3
      <4> QED
        BY <2>9, <4>3, <4>4 DEF Has
    <3> QED
      BY <3>1, <3>2
  <2> QED
    BY <2>7, <2>10, <2>11 DEF Holds
<1> QED
  BY <1>2, <1>3

-----------------------------------------------------------------------------
(* The way out.                                                            *)

LEMMA UsersOf ==
  /\ Users("tls") = {"client_ctx", "target_ctx"} /\ Users("listener") = {"loop"}
  /\ Users("net") = Resource \ {"net"}
  /\ \A r \in {"client_ctx", "target_ctx", "addrinfo", "loop"} : Users(r) = {}
BY DEF Users

Items(s) == {s[k] : k \in DOMAIN s}

\* What is held of the users of a thing in s is released before it, by s or
\* earlier.
Ordered(earlier, s) ==
  \A k \in DOMAIN s : \A u \in Users(s[k]) \cap Holds :
    u \in earlier \/ \E j \in 1..k - 1 : s[j] = u

LEMMA ConcatOrdered ==
  ASSUME NEW s \in Seq(Resource), NEW t \in Seq(Resource),
         Ordered({}, s), Ordered(Items(s), t)
  PROVE  /\ s \o t \in Seq(Resource) /\ Ordered({}, s \o t)
         /\ Items(s \o t) = Items(s) \cup Items(t)
<1> DEFINE w == s \o t
           m == Len(s)
           n == Len(t)
<1>1. m \in Nat /\ n \in Nat /\ DOMAIN s = 1..m /\ DOMAIN t = 1..n
  BY LenProperties
<1>2. /\ w \in Seq(Resource) /\ Len(w) = m + n
      /\ \A i \in 1..m + n : w[i] = IF i <= m THEN s[i] ELSE t[i - m]
  BY ConcatProperties, ZenonT(40)
<1>3. DOMAIN w = 1..m + n
  BY <1>2, LenProperties
<1> HIDE DEF w, m, n
<1>4. /\ \A i \in 1..m : i \in 1..m + n /\ w[i] = s[i]
      /\ \A i \in 1..n : m + i \in 1..m + n /\ w[m + i] = t[i]
  <2>1. ASSUME NEW i \in 1..m PROVE i \in 1..m + n /\ w[i] = s[i]
    BY <1>1, <1>2
  <2>2. ASSUME NEW i \in 1..n PROVE m + i \in 1..m + n /\ w[m + i] = t[i]
    <3> DEFINE x == m + i
    <3>1. x \in 1..m + n /\ ~(x <= m) /\ x - m = i
      BY <1>1
    <3> HIDE DEF x
    <3>2. w[x] = IF x <= m THEN s[x] ELSE t[x - m]
      BY <1>2, <3>1
    <3>3. w[x] = t[i]
      BY <3>1, <3>2
    <3> QED
      BY <3>1, <3>3 DEF x
  <2> QED
    BY <2>1, <2>2
<1>5. \A i \in 1..m + n : i \in 1..m \/ \E k \in 1..n : i = m + k
  <2> SUFFICES ASSUME NEW i \in 1..m + n, i \notin 1..m PROVE \E k \in 1..n : i = m + k
    OBVIOUS
  <2>1. i - m \in 1..n /\ i = m + (i - m)
    BY <1>1
  <2> QED
    BY <2>1
<1>6. Items(w) = Items(s) \cup Items(t)
  <2>1. ASSUME NEW x \in Items(w) PROVE x \in Items(s) \cup Items(t)
    <3>1. PICK i \in 1..m + n : w[i] = x
      BY <1>3, <2>1 DEF Items
    <3>2. CASE i \in 1..m
      BY <1>1, <1>4, <3>1, <3>2 DEF Items
    <3>3. CASE i \notin 1..m
      <4>1. PICK k \in 1..n : i = m + k
        BY <1>5, <3>3
      <4>2. t[k] = x
        BY <1>4, <3>1, <4>1
      <4> QED
        BY <1>1, <4>2 DEF Items
    <3> QED
      BY <3>2, <3>3
  <2>2. ASSUME NEW i \in DOMAIN s PROVE s[i] \in Items(w)
    <3>1. i \in 1..m + n /\ w[i] = s[i]
      BY <1>1, <1>4
    <3> QED
      BY <1>3, <3>1 DEF Items
  <2>3. ASSUME NEW i \in DOMAIN t PROVE t[i] \in Items(w)
    <3>1. m + i \in 1..m + n /\ w[m + i] = t[i]
      BY <1>1, <1>4
    <3> QED
      BY <1>3, <3>1 DEF Items
  <2>4. Items(s) \subseteq Items(w) /\ Items(t) \subseteq Items(w)
    BY <2>2, <2>3 DEF Items
  <2>5. Items(w) \subseteq Items(s) \cup Items(t)
    BY <2>1
  <2> QED
    BY <2>4, <2>5
<1>7. Ordered({}, w)
  <2> SUFFICES ASSUME NEW i \in 1..m + n, NEW u \in Users(w[i]) \cap Holds
               PROVE  \E j \in 1..i - 1 : w[j] = u
    BY <1>3 DEF Ordered
  <2>1. CASE i \in 1..m
    <3>1. PICK j \in 1..i - 1 : s[j] = u
      BY <1>1, <1>4, <2>1 DEF Ordered
    <3>2. j \in 1..m
      BY <1>1, <2>1, <3>1
    <3> QED
      BY <1>4, <3>1, <3>2
  <2>2. CASE i \notin 1..m
    <3>1. PICK k \in 1..n : i = m + k
      BY <1>5, <2>2
    <3>2. u \in Users(t[k]) \cap Holds
      BY <1>4, <3>1
    <3>3. CASE u \in Items(s)
      <4>1. PICK j \in 1..m : s[j] = u
        BY <1>1, <3>3 DEF Items
      <4>2. j \in 1..i - 1
        BY <1>1, <3>1, <4>1
      <4> QED
        BY <1>4, <4>1, <4>2
    <3>4. CASE u \notin Items(s)
      <4>1. PICK j \in 1..k - 1 : t[j] = u
        BY <1>1, <3>2, <3>4 DEF Ordered
      <4>2. j \in 1..n /\ m + j \in 1..i - 1
        BY <1>1, <3>1, <4>1
      <4> QED
        BY <1>4, <4>1, <4>2
    <3> QED
      BY <3>3, <3>4
  <2> QED
    BY <2>1, <2>2
<1> QED
  BY <1>2, <1>6, <1>7 DEF w

\* Things without users.
LEMMA PlainOrdered ==
  ASSUME NEW earlier, NEW s, \A k \in DOMAIN s : Users(s[k]) = {}
  PROVE  Ordered(earlier, s)
BY DEF Ordered

LEMMA DestroyOrdered ==
  /\ proxy_destroy_tls \in Seq(Resource) /\ Ordered({}, proxy_destroy_tls)
  /\ Items(proxy_destroy_tls) =
       {"client_ctx", "target_ctx"} \cup (IF tls_enabled THEN {"tls"} ELSE {})
<1> DEFINE c == <<"client_ctx", "target_ctx">>
           l == IF tls_enabled THEN <<"tls">> ELSE <<>>
<1>1. c \in Seq(Resource) /\ l \in Seq(Resource)
  <2>1. c \in Seq(Resource)
    BY DEF Resource
  <2>2. CASE tls_enabled
    <3>1. <<"tls">> \in Seq(Resource)
      BY DEF Resource
    <3> QED
      BY <2>1, <2>2, <3>1
  <2>3. CASE ~tls_enabled
    BY <2>1, <2>3
  <2> QED
    BY <2>2, <2>3
<1>2. DOMAIN c = 1..2 /\ c[1] = "client_ctx" /\ c[2] = "target_ctx"
  OBVIOUS
<1>3. Items(c) = {"client_ctx", "target_ctx"}
  BY <1>2 DEF Items
<1>4. Ordered({}, c)
  BY <1>2, UsersOf, PlainOrdered
<1>5. Items(l) = (IF tls_enabled THEN {"tls"} ELSE {})
  BY DEF Items
<1>6. Ordered(Items(c), l)
  <2>1. \A k \in DOMAIN l : l[k] = "tls"
    OBVIOUS
  <2> QED
    BY <1>3, <2>1, UsersOf DEF Ordered
<1>7. proxy_destroy_tls = c \o l
  BY DEF proxy_destroy_tls
<1> HIDE DEF c, l
<1> QED
  BY <1>1, <1>3, <1>4, <1>5, <1>6, <1>7, ConcatOrdered

\* The lists the failing steps release end with the TLS contexts, the TLS
\* library and the network.
LEMMA WaysOut ==
  ASSUME NEW s \in Seq(Resource), Ordered({}, s),
         Holds \subseteq Items(s) \cup {"client_ctx", "target_ctx", "net"}
                         \cup (IF tls_enabled THEN {"tls"} ELSE {})
  PROVE  LET w == s \o proxy_destroy_tls \o <<"net">> IN
         /\ w \in Seq(Resource) /\ Ordered({}, w) /\ Holds \subseteq Items(w)
<1> DEFINE p == proxy_destroy_tls
           e == <<"net">>
<1>1. p \in Seq(Resource) /\ Ordered({}, p) /\ e \in Seq(Resource) /\ Items(e) = {"net"}
      /\ Items(p) = {"client_ctx", "target_ctx"} \cup (IF tls_enabled THEN {"tls"} ELSE {})
  BY DestroyOrdered, SMTT(30) DEF Resource, Items
<1>2. Ordered(Items(s), p)
  BY <1>1 DEF Ordered
<1>3. \A k \in DOMAIN e : e[k] = "net"
  OBVIOUS
<1> HIDE DEF p, e
<1>4. /\ s \o p \in Seq(Resource) /\ Ordered({}, s \o p)
      /\ Items(s \o p) = Items(s) \cup Items(p)
  BY <1>1, <1>2, ConcatOrdered
<1>5. Ordered(Items(s \o p), e)
  <2>1. Users("net") \cap Holds \subseteq Items(s \o p)
    BY <1>1, <1>4, UsersOf
  <2> QED
    BY <1>3, <2>1 DEF Ordered
<1>6. /\ s \o p \o e \in Seq(Resource) /\ Ordered({}, s \o p \o e)
      /\ Items(s \o p \o e) = Items(s \o p) \cup Items(e)
  BY <1>1, <1>4, <1>5, ConcatOrdered
<1>7. Holds \subseteq Items(s \o p \o e)
  BY <1>1, <1>4, <1>6
<1> QED
  BY <1>6, <1>7 DEF p, e

-----------------------------------------------------------------------------
(* The inductive invariant.                                                *)

Lifecycle == ConfigInv /\ HeldInv /\ CleanupInv

Starting ==
  {"parse", "validate", "net", "tls", "available", "client_ctx", "target_ctx",
   "listen", "socket", "bind", "loop", "add", "running"}

LEMMA SameHolds == ASSUME held' = held PROVE Holds' = Holds
BY DEF Holds, Has

LEMMA SameConfig ==
  ASSUME config' = config
  PROVE  /\ tls_enabled' = tls_enabled /\ Contexts' = Contexts /\ Base' = Base
         /\ validate_tls(config)' <=> validate_tls(config)
         /\ proxy_validate_config(config)' <=> proxy_validate_config(config)
BY DEF tls_enabled, Contexts, Base, validate_tls, proxy_validate_config

\* While the server starts, what is held comes with all that it uses.
LEMMA UsersClosed ==
  ASSUME HeldInv, pc \in Starting
  PROVE  \A r \in Resource : Users(r) \cap Holds # {} => r \in Holds
<1>1. \/ Holds = {} \/ Holds = {"net"} \/ Holds = {"net", "tls"}
      \/ tls_enabled /\ Holds = {"net", "tls"} \cup (Contexts \ {"target_ctx"})
      \/ Holds = Base \/ Holds = Base \cup {"addrinfo"}
      \/ Holds = Base \cup {"addrinfo", "listener"} \/ Holds = Base \cup {"listener"}
      \/ Holds = Base \cup {"listener", "loop"}
  BY DEF HeldInv, Starting
<1>2. "client_ctx" \in Holds \/ "target_ctx" \in Holds => "tls" \in Holds
  BY <1>1 DEF Base, Contexts, tls_enabled
<1>3. "loop" \in Holds => "listener" \in Holds
  BY <1>1 DEF Base, Contexts
<1>4. Holds # {} => "net" \in Holds
  BY <1>1 DEF Base
<1> QED
  BY <1>2, <1>3, <1>4, UsersOf DEF Resource

\* A step of the start that fails leaves to the way out all that is held.
LEMMA FailsInv ==
  ASSUME Lifecycle, NEW at \in Starting, NEW w \in Seq(Resource), Fails(at, w),
         Ordered({}, w), Holds \subseteq Items(w)
  PROVE  Lifecycle'
<1>1. /\ pc = at /\ pc' = "cleanup" /\ todo' = w /\ config' = config /\ held' = held
  BY DEF Fails
<1>2. ConfigInv'
  BY <1>1 DEF Lifecycle, ConfigInv
<1>3. HeldInv'
  BY <1>1 DEF Lifecycle, HeldInv
<1>4. Holds' = Holds
  BY <1>1, SameHolds
<1>5. \A r \in Resource : Users(r) \cap Holds # {} => r \in Holds
  BY <1>1, UsersClosed DEF Lifecycle
<1>6. CleanupInv'
  <2>1. \A r \in Holds : \E k \in DOMAIN w : w[k] = r
    BY DEF Items
  <2>2. \A k \in DOMAIN w : \A u \in Users(w[k]) \cap Holds : \E j \in 1..k - 1 : w[j] = u
    BY DEF Ordered
  <2> QED
    BY <1>1, <1>4, <1>5, <2>1, <2>2 DEF CleanupInv
<1> QED
  BY <1>2, <1>3, <1>6 DEF Lifecycle

\* A step that succeeds acquires what it names.
LEMMA StepHolds ==
  ASSUME Lifecycle, NEW at, NEW next, NEW r \in Resource \cup {""}, Step(at, next, r),
         r \notin Holds
  PROVE  /\ pc = at /\ pc' = next /\ config' = config
         /\ held' \in Seq(Resource) /\ Distinct' /\ Holds' = Holds \cup ({r} \ {""})
<1>1. pc = at /\ pc' = next /\ config' = config
  BY DEF Step
<1>2. held \in Seq(Resource) /\ Distinct
  BY DEF Lifecycle, HeldInv, Distinct
<1>3. CASE r = ""
  <2>1. held' = held
    BY <1>3 DEF Step
  <2>2. Distinct'
    BY <1>2, <2>1 DEF Distinct
  <2> QED
    BY <1>1, <1>2, <1>3, <2>1, <2>2, SameHolds
<1>4. CASE r \in Resource
  <2>1. held' = Append(held, r)
    BY <1>4 DEF Step, Resource
  <2>2. {r} \ {""} = {r}
    BY <1>4 DEF Resource
  <2> QED
    BY <1>1, <1>2, <1>4, <2>1, <2>2, AppendHolds
<1> QED
  BY <1>3, <1>4

-----------------------------------------------------------------------------
(* Each step keeps it.                                                     *)

LEMMA InitLifecycle == Init => Lifecycle
<1> SUFFICES ASSUME Init PROVE Lifecycle
  OBVIOUS
<1>1. ConfigInv
  BY StartupAssumption DEF Init, ConfigInv
<1>2. HeldInv
  BY DEF Init, HeldInv, Holds, Has
<1>3. CleanupInv
  BY DEF Init, CleanupInv
<1> QED
  BY <1>1, <1>2, <1>3 DEF Lifecycle

\* sockify_cli_parse_args while there are arguments.
LEMMA ArgumentInv ==
  ASSUME Lifecycle, FlagArgument \/ StringArgument \/ NumberArgument \/ EndpointArgument
  PROVE  Lifecycle'
<1> DEFINE Config == [client_tls_enabled : BOOLEAN, target_tls_enabled : BOOLEAN,
                      target_tls_insecure : BOOLEAN, given : SUBSET StringOptions,
                      endpoints : Seq(BOOLEAN), max_connections : Nat, buffer_size : Nat,
                      timeout : Nat]
<1>1. pc = "parse" /\ pc' = "parse" /\ held' = held
  BY DEF FlagArgument, StringArgument, NumberArgument, EndpointArgument, Configure
<1>2. config \in Config
  BY DEF Lifecycle, ConfigInv
<1>3. config' \in Config
  <2>1. CASE FlagArgument
    BY <1>2, <2>1 DEF FlagArgument, Configure
  <2>2. CASE StringArgument
    BY <1>2, <2>2 DEF StringArgument, Configure
  <2>3. CASE NumberArgument
    <3>1. \A n \in Number : n \in Nat /\ parse_uint(n) \in Nat
      BY StartupAssumption DEF parse_uint
    <3> QED
      BY <1>2, <2>3, <3>1 DEF NumberArgument, Configure
  <2>4. CASE EndpointArgument
    <3>1. PICK b \in BOOLEAN : config' = [config EXCEPT !.endpoints = Append(@, b)]
      BY <2>4 DEF EndpointArgument
    <3>2. Append(config.endpoints, b) \in Seq(BOOLEAN)
      BY <1>2, AppendProperties
    <3> QED
      BY <1>2, <3>1, <3>2
  <2> QED
    BY <2>1, <2>2, <2>3, <2>4
<1>4. ConfigInv'
  BY <1>1, <1>3 DEF ConfigInv
<1>5. HeldInv'
  BY <1>1, SameHolds DEF Lifecycle, HeldInv
<1> QED
  BY <1>1, <1>4, <1>5 DEF Lifecycle, CleanupInv

\* main returns.
LEMMA ExitInv ==
  ASSUME Lifecycle, NEW code, Exit(code), Holds = {}
  PROVE  Lifecycle'
<1>1. pc' = "exit" /\ held' = held /\ config' = config
  BY DEF Exit
<1>2. ConfigInv'
  BY <1>1 DEF Lifecycle, ConfigInv
<1>3. HeldInv'
  BY <1>1, SameHolds DEF Lifecycle, HeldInv
<1> QED
  BY <1>1, <1>2, <1>3 DEF Lifecycle, CleanupInv

LEMMA EndOfArgumentsInv ==
  ASSUME Lifecycle, EndOfArguments
  PROVE  Lifecycle'
<1>1. pc = "parse" /\ Holds = {}
  BY DEF EndOfArguments, Lifecycle, HeldInv
<1>2. CASE positional = 2 /\ validate_tls(config)
  <2>1. pc' = "validate" /\ held' = held /\ config' = config
    BY <1>2 DEF EndOfArguments
  <2>2. ConfigInv'
    BY <1>2, <2>1, SameConfig DEF Lifecycle, ConfigInv
  <2>3. HeldInv'
    BY <1>1, <2>1, SameHolds DEF Lifecycle, HeldInv
  <2> QED
    BY <2>1, <2>2, <2>3 DEF Lifecycle, CleanupInv
<1>3. CASE ~(positional = 2 /\ validate_tls(config))
  BY <1>1, <1>3, ExitInv DEF EndOfArguments
<1> QED
  BY <1>2, <1>3

\* A step that succeeds has checked or acquired what the next one counts on.
LEMMA ArriveInv ==
  ASSUME Lifecycle, config' = config, HeldInv',
         pc \in Starting \ {"parse"}, pc' \in Starting \ {"parse", "validate"},
         pc = "validate" => proxy_validate_config(config),
         pc = "validate" => pc' = "net",
         pc = "net" => pc' = "tls",
         pc' \in {"net", "tls", "available", "client_ctx"} \/ ~config.client_tls_enabled
           \/ PemOptions \subseteq config.given
  PROVE  Lifecycle'
<1>1. /\ validate_tls(config)' <=> validate_tls(config)
      /\ proxy_validate_config(config)' <=> proxy_validate_config(config)
  BY SameConfig
<1>2. ConfigInv'
  BY <1>1 DEF Lifecycle, ConfigInv, Starting
<1>3. CleanupInv'
  BY DEF CleanupInv, Starting
<1> QED
  BY <1>2, <1>3 DEF Lifecycle

\* Nothing to release, or the network alone.
LEMMA EmptyWay ==
  /\ <<>> \in Seq(Resource) /\ Ordered({}, <<>>) /\ Items(<<>>) = {}
  /\ Holds \subseteq {"net"} =>
       <<"net">> \in Seq(Resource) /\ Ordered({}, <<"net">>) /\ Items(<<"net">>) = {"net"}
<1>1. <<>> \in Seq(Resource) /\ Ordered({}, <<>>) /\ Items(<<>>) = {}
  BY DEF Ordered, Items
<1>2. ASSUME Holds \subseteq {"net"} PROVE Ordered({}, <<"net">>)
  <2>1. \A k \in DOMAIN <<"net">> : <<"net">>[k] = "net"
    OBVIOUS
  <2>2. Users("net") \cap Holds = {}
    BY <1>2, UsersOf
  <2> QED
    BY <2>1, <2>2 DEF Ordered
<1>3. <<"net">> \in Seq(Resource) /\ Items(<<"net">>) = {"net"}
  BY DEF Resource, Items
<1> QED
  BY <1>1, <1>2, <1>3

\* The way out of a step at which only the libraries and contexts are held.
LEMMA TlsWay ==
  ASSUME Holds \subseteq {"client_ctx", "target_ctx", "net"}
                         \cup (IF tls_enabled THEN {"tls"} ELSE {})
  PROVE  LET w == proxy_destroy_tls \o <<"net">> IN
         /\ w \in Seq(Resource) /\ Ordered({}, w) /\ Holds \subseteq Items(w)
<1>1. <<>> \o proxy_destroy_tls = proxy_destroy_tls
  BY DestroyOrdered, ConcatEmptySeq
<1> QED
  BY <1>1, EmptyWay, WaysOut

LEMMA EarlyStepsInv ==
  ASSUME Lifecycle, Validate \/ NetInit \/ TlsInit
  PROVE  Lifecycle'
<1>1. CASE Validate
  <2>1. pc = "validate"
    BY <1>1 DEF Validate, Step, Fails
  <2>2. Holds = {}
    BY <2>1 DEF Lifecycle, HeldInv
  <2>3. CASE proxy_validate_config(config)
    <3>1. Step("validate", "net", "")
      BY <1>1, <2>3 DEF Validate
    <3>2. /\ pc' = "net" /\ config' = config
          /\ held' \in Seq(Resource) /\ Distinct' /\ Holds' = {}
      BY <2>2, <3>1, StepHolds
    <3>3. HeldInv'
      BY <3>2 DEF HeldInv, Distinct
    <3> QED
      BY <2>1, <2>3, <3>2, <3>3, ArriveInv DEF Starting
  <2>4. CASE ~proxy_validate_config(config)
    <3>1. Fails("validate", <<>>)
      BY <1>1, <2>4 DEF Validate
    <3> QED
      BY <2>2, <3>1, EmptyWay, FailsInv DEF Starting
  <2> QED
    BY <2>3, <2>4
<1>2. CASE NetInit
  <2>1. pc = "net"
    BY <1>2 DEF NetInit, Step, Fails
  <2>2. Holds = {}
    BY <2>1 DEF Lifecycle, HeldInv
  <2>3. CASE Step("net", "tls", "net")
    <3>1. /\ pc' = "tls" /\ config' = config
          /\ held' \in Seq(Resource) /\ Distinct' /\ Holds' = {"net"}
      BY <2>2, <2>3, StepHolds DEF Resource
    <3>2. HeldInv'
      BY <3>1 DEF HeldInv, Distinct
    <3> QED
      BY <2>1, <3>1, <3>2, ArriveInv DEF Starting
  <2>4. CASE Fails("net", <<>>)
    BY <2>2, <2>4, EmptyWay, FailsInv DEF Starting
  <2> QED
    BY <1>2, <2>3, <2>4 DEF NetInit
<1>3. CASE TlsInit
  <2>1. pc = "tls"
    BY <1>3 DEF TlsInit, Step, Fails
  <2>2. Holds = {"net"}
    BY <2>1 DEF Lifecycle, HeldInv
  <2>3. CASE ~tls_enabled /\ Step("tls", "listen", "")
    <3>1. Base = {"net"} /\ ~config.client_tls_enabled
      BY <2>3 DEF Base, Contexts, tls_enabled
    <3>2. /\ pc' = "listen" /\ config' = config
          /\ held' \in Seq(Resource) /\ Distinct' /\ Holds' = {"net"}
      BY <2>2, <2>3, StepHolds
    <3>3. HeldInv'
      BY <3>1, <3>2, SameConfig DEF HeldInv, Distinct
    <3> QED
      BY <2>1, <3>1, <3>2, <3>3, ArriveInv DEF Starting
  <2>4. CASE tls_enabled /\ Step("tls", "available", "tls")
    <3>1. /\ pc' = "available" /\ config' = config
          /\ held' \in Seq(Resource) /\ Distinct' /\ Holds' = {"net", "tls"}
      BY <2>2, <2>4, StepHolds DEF Resource
    <3>2. HeldInv'
      BY <2>4, <3>1, SameConfig DEF HeldInv, Distinct
    <3> QED
      BY <2>1, <3>1, <3>2, ArriveInv DEF Starting
  <2>5. CASE Fails("tls", <<"net">>)
    BY <2>2, <2>5, EmptyWay, FailsInv DEF Starting
  <2> QED
    BY <1>3, <2>3, <2>4, <2>5 DEF TlsInit
<1> QED
  BY <1>1, <1>2, <1>3

LEMMA ContextStepsInv ==
  ASSUME Lifecycle, TlsIsAvailable \/ ClientContext \/ TargetContext
  PROVE  Lifecycle'
<1>1. pc \in {"available", "client_ctx", "target_ctx"}
  BY DEF TlsIsAvailable, ClientContext, TargetContext, Step, Fails
<1>2. /\ tls_enabled
      /\ pc \in {"available", "client_ctx"} => Holds = {"net", "tls"}
      /\ pc = "target_ctx" => Holds = {"net", "tls"} \cup (Contexts \ {"target_ctx"})
  BY <1>1 DEF Lifecycle, HeldInv
<1>3. Contexts \subseteq {"client_ctx", "target_ctx"}
  BY DEF Contexts
<1>4. ASSUME NEW at \in Starting, Fails(at, proxy_destroy_tls \o <<"net">>)
      PROVE  Lifecycle'
  <2>1. Holds \subseteq {"client_ctx", "target_ctx", "net"}
                         \cup (IF tls_enabled THEN {"tls"} ELSE {})
    BY <1>1, <1>2, <1>3
  <2> QED
    BY <1>4, <2>1, TlsWay, FailsInv
<1>5. CASE TlsIsAvailable
  <2>1. CASE Step("available", "client_ctx", "")
    <3>1. pc = "available" /\ Holds = {"net", "tls"}
      BY <1>2, <2>1 DEF Step
    <3>2. /\ pc' = "client_ctx" /\ config' = config
          /\ held' \in Seq(Resource) /\ Distinct' /\ Holds' = {"net", "tls"}
      BY <2>1, <3>1, StepHolds
    <3>3. HeldInv'
      BY <1>2, <3>2, SameConfig DEF HeldInv, Distinct
    <3> QED
      BY <3>1, <3>2, <3>3, ArriveInv DEF Starting
  <2>2. CASE Fails("available", proxy_destroy_tls \o <<"net">>)
    BY <1>4, <2>2 DEF Starting
  <2> QED
    BY <1>5, <2>1, <2>2 DEF TlsIsAvailable
<1>6. CASE ClientContext
  <2>1. CASE ~config.client_tls_enabled /\ Step("client_ctx", "target_ctx", "")
    <3>1. pc = "client_ctx" /\ Contexts \ {"target_ctx"} = {} /\ Holds = {"net", "tls"}
      BY <1>2, <2>1 DEF Step, Contexts
    <3>2. /\ pc' = "target_ctx" /\ config' = config
          /\ held' \in Seq(Resource) /\ Distinct' /\ Holds' = {"net", "tls"}
      BY <2>1, <3>1, StepHolds
    <3>3. HeldInv'
      BY <1>2, <3>1, <3>2, SameConfig DEF HeldInv, Distinct
    <3> QED
      BY <2>1, <3>1, <3>2, <3>3, ArriveInv DEF Starting
  <2>2. CASE /\ config.client_tls_enabled /\ PemOptions \subseteq config.given
             /\ Step("client_ctx", "target_ctx", "client_ctx")
    <3>1. /\ pc = "client_ctx" /\ Contexts \ {"target_ctx"} = {"client_ctx"}
          /\ Holds = {"net", "tls"}
      BY <1>2, <2>2 DEF Step, Contexts
    <3>2. /\ pc' = "target_ctx" /\ config' = config
          /\ held' \in Seq(Resource) /\ Distinct' /\ Holds' = {"net", "tls", "client_ctx"}
      BY <2>2, <3>1, StepHolds DEF Resource
    <3>3. HeldInv'
      BY <1>2, <3>1, <3>2, SameConfig DEF HeldInv, Distinct
    <3> QED
      BY <2>2, <3>1, <3>2, <3>3, ArriveInv DEF Starting
  <2>3. CASE Fails("client_ctx", proxy_destroy_tls \o <<"net">>)
    BY <1>4, <2>3 DEF Starting
  <2> QED
    BY <1>6, <2>1, <2>2, <2>3 DEF ClientContext
<1>7. CASE TargetContext
  <2>1. pc = "target_ctx"
    BY <1>7 DEF TargetContext, Step, Fails
  <2>2. config.client_tls_enabled => PemOptions \subseteq config.given
    BY <2>1 DEF Lifecycle, ConfigInv
  <2>3. CASE ~config.target_tls_enabled /\ Step("target_ctx", "listen", "")
    <3>1. Base = Holds /\ "" \notin Holds
      BY <1>2, <1>3, <2>1, <2>3 DEF Base, Contexts
    <3>2. /\ pc' = "listen" /\ config' = config
          /\ held' \in Seq(Resource) /\ Distinct' /\ Holds' = Base
      BY <2>3, <3>1, StepHolds
    <3>3. HeldInv'
      BY <3>2, SameConfig DEF HeldInv, Distinct
    <3> QED
      BY <2>1, <2>2, <3>2, <3>3, ArriveInv DEF Starting
  <2>4. CASE config.target_tls_enabled /\ Step("target_ctx", "listen", "target_ctx")
    <3>1. Base = Holds \cup {"target_ctx"} /\ "target_ctx" \notin Holds
      BY <1>2, <1>3, <2>1, <2>4 DEF Base, Contexts
    <3>2. /\ pc' = "listen" /\ config' = config
          /\ held' \in Seq(Resource) /\ Distinct' /\ Holds' = Base
      BY <2>4, <3>1, StepHolds DEF Resource
    <3>3. HeldInv'
      BY <3>2, SameConfig DEF HeldInv, Distinct
    <3> QED
      BY <2>1, <2>2, <3>2, <3>3, ArriveInv DEF Starting
  <2>5. CASE Fails("target_ctx", proxy_destroy_tls \o <<"net">>)
    BY <1>4, <2>5 DEF Starting
  <2> QED
    BY <1>7, <2>3, <2>4, <2>5 DEF TargetContext
<1> QED
  BY <1>5, <1>6, <1>7

LEMMA ListenStepsInv ==
  ASSUME Lifecycle, Resolve \/ Socket \/ NoAddress \/ Bind
  PROVE  Lifecycle'
<1>1. pc \in {"listen", "socket", "bind"}
  BY DEF Resolve, Socket, NoAddress, Bind, Fails
<1>2. /\ pc = "listen" => Holds = Base
      /\ pc = "socket" => Holds = Base \cup {"addrinfo"}
      /\ pc = "bind" => Holds = Base \cup {"addrinfo", "listener"}
      /\ held \in Seq(Resource) /\ Distinct
  BY DEF Lifecycle, HeldInv, Distinct
<1>3. /\ Base \cap {"addrinfo", "listener", "loop"} = {}
      /\ Base \subseteq {"client_ctx", "target_ctx", "net"}
                          \cup (IF tls_enabled THEN {"tls"} ELSE {})
  BY DEF Base, Contexts
<1>4. ~config.client_tls_enabled \/ PemOptions \subseteq config.given
  BY <1>1 DEF Lifecycle, ConfigInv
<1>5. ASSUME config' = config, pc' \in {"socket", "bind", "loop"},
             held' \in Seq(Resource), Distinct',
             pc' = "socket" => Holds' = Base \cup {"addrinfo"},
             pc' = "bind" => Holds' = Base \cup {"addrinfo", "listener"},
             pc' = "loop" => Holds' = Base \cup {"listener"}
      PROVE  Lifecycle'
  <2>1. HeldInv'
    BY <1>5, SameConfig DEF HeldInv, Distinct
  <2> QED
    BY <1>1, <1>4, <1>5, <2>1, ArriveInv DEF Starting
<1>6. CASE Resolve
  <2>1. CASE Fails("listen", proxy_destroy_tls \o <<"net">>)
    <3>1. pc = "listen"
      BY <2>1 DEF Fails
    <3> QED
      BY <1>2, <1>3, <2>1, <3>1, TlsWay, FailsInv DEF Starting
  <2>2. CASE ~Fails("listen", proxy_destroy_tls \o <<"net">>)
    <3>1. pc = "listen" /\ pc' = "socket" /\ config' = config /\ held' = Append(held, "addrinfo")
      BY <1>6, <2>2 DEF Resolve
    <3>2. held' \in Seq(Resource) /\ Distinct' /\ Holds' = Base \cup {"addrinfo"}
      BY <1>2, <1>3, <3>1, AppendHolds DEF Resource
    <3> QED
      BY <1>5, <3>1, <3>2
  <2> QED
    BY <2>1, <2>2
<1>7. CASE Socket
  <2>1. pc = "socket" /\ config' = config
    BY <1>7 DEF Socket
  <2>2. CASE pc' = "bind" /\ held' = Append(held, "listener")
    <3>1. held' \in Seq(Resource) /\ Distinct' /\ Holds' = Base \cup {"addrinfo", "listener"}
      BY <1>2, <1>3, <2>1, <2>2, AppendHolds DEF Resource
    <3> QED
      BY <1>5, <2>1, <2>2, <3>1
  <2>3. CASE pc' = pc /\ held' = held
    <3>1. Distinct'
      BY <1>2, <2>3 DEF Distinct
    <3> QED
      BY <1>2, <1>5, <2>1, <2>3, <3>1, SameHolds
  <2> QED
    BY <1>7, <2>2, <2>3 DEF Socket
<1>8. CASE NoAddress
  <2> DEFINE s == <<"addrinfo">>
  <2>1. Fails("socket", s \o proxy_destroy_tls \o <<"net">>) /\ pc = "socket"
    BY <1>8 DEF NoAddress, Fails
  <2>2. s \in Seq(Resource) /\ DOMAIN s = {1} /\ s[1] = "addrinfo"
    BY DEF Resource
  <2>3. Items(s) = {"addrinfo"} /\ Ordered({}, s)
    BY <2>2, UsersOf, PlainOrdered DEF Items
  <2> HIDE DEF s
  <2>4. LET w == s \o proxy_destroy_tls \o <<"net">> IN
        /\ w \in Seq(Resource) /\ Ordered({}, w) /\ Holds \subseteq Items(w)
    BY <1>2, <1>3, <2>1, <2>2, <2>3, WaysOut
  <2> QED
    BY <2>1, <2>4, FailsInv DEF Starting
<1>9. CASE Bind
  <2>1. pc = "bind" /\ config' = config
    BY <1>9 DEF Bind
  <2>2. CASE pc' = "loop" /\ held' = Without("addrinfo")
    <3>1. held' \in Seq(Resource) /\ Distinct' /\ Holds' = Base \cup {"listener"}
      BY <1>2, <1>3, <2>1, <2>2, WithoutHolds DEF Resource
    <3> QED
      BY <1>5, <2>1, <2>2, <3>1
  <2>3. CASE NextAddress
    <3>1. held' \in Seq(Resource) /\ Distinct' /\ Holds' = Base \cup {"addrinfo"}
      BY <1>2, <1>3, <2>1, <2>3, WithoutHolds DEF Resource, NextAddress
    <3> QED
      BY <1>5, <2>1, <2>3, <3>1 DEF NextAddress
  <2> QED
    BY <1>9, <2>2, <2>3 DEF Bind
<1> QED
  BY <1>6, <1>7, <1>8, <1>9

LEMMA LoopStepsInv ==
  ASSUME Lifecycle, LoopCreate \/ AddListener \/ RunEnds
  PROVE  Lifecycle'
<1>1. pc \in {"loop", "add", "running"}
  BY DEF LoopCreate, AddListener, RunEnds, Step, Fails
<1>2. /\ pc = "loop" => Holds = Base \cup {"listener"}
      /\ pc \in {"add", "running"} => Holds = Base \cup {"listener", "loop"}
  BY DEF Lifecycle, HeldInv
<1>3. /\ "loop" \notin Base /\ "" \notin Base
      /\ Base \subseteq {"client_ctx", "target_ctx", "net"}
                          \cup (IF tls_enabled THEN {"tls"} ELSE {})
  BY DEF Base, Contexts
<1>4. ~config.client_tls_enabled \/ PemOptions \subseteq config.given
  BY <1>1 DEF Lifecycle, ConfigInv
<1>5. ASSUME NEW at \in {"add", "running"}, Fails(at, WayOut) PROVE Lifecycle'
  <2> DEFINE s == <<"loop", "listener">>
  <2>1. s \in Seq(Resource) /\ DOMAIN s = {1, 2} /\ s[1] = "loop" /\ s[2] = "listener"
    BY DEF Resource
  <2>2. pc = at /\ WayOut = s \o proxy_destroy_tls \o <<"net">>
    BY <1>5 DEF Fails, WayOut
  <2> HIDE DEF s
  <2>3. Items(s) = {"loop", "listener"} /\ Ordered({}, s)
    BY <2>1, UsersOf DEF Items, Ordered
  <2>4. LET w == s \o proxy_destroy_tls \o <<"net">> IN
        /\ w \in Seq(Resource) /\ Ordered({}, w) /\ Holds \subseteq Items(w)
    BY <1>2, <1>3, <2>1, <2>2, <2>3, WaysOut
  <2> QED
    BY <1>5, <2>2, <2>4, FailsInv DEF Starting
<1>6. CASE LoopCreate
  <2>1. CASE Step("loop", "add", "loop")
    <3>1. pc = "loop" /\ Holds = Base \cup {"listener"} /\ "loop" \notin Holds
      BY <1>2, <1>3, <2>1 DEF Step
    <3>2. /\ pc' = "add" /\ config' = config
          /\ held' \in Seq(Resource) /\ Distinct' /\ Holds' = Base \cup {"listener", "loop"}
      BY <2>1, <3>1, StepHolds DEF Resource
    <3>3. HeldInv'
      BY <3>2, SameConfig DEF HeldInv, Distinct
    <3> QED
      BY <1>4, <3>1, <3>2, <3>3, ArriveInv DEF Starting
  <2>2. CASE Fails("loop", <<"listener">> \o proxy_destroy_tls \o <<"net">>)
    <3> DEFINE s == <<"listener">>
    <3>1. s \in Seq(Resource) /\ DOMAIN s = {1} /\ s[1] = "listener"
      BY DEF Resource
    <3>2. Fails("loop", s \o proxy_destroy_tls \o <<"net">>) /\ pc = "loop"
      BY <2>2 DEF Fails
    <3> HIDE DEF s
    <3>3. Items(s) = {"listener"} /\ Ordered({}, s)
      <4>1. Users("listener") \cap Holds = {}
        BY <1>2, <1>3, <3>2, UsersOf
      <4>2. Ordered({}, s)
        BY <3>1, <4>1 DEF Ordered
      <4> QED
        BY <3>1, <4>2 DEF Items
    <3>4. LET w == s \o proxy_destroy_tls \o <<"net">> IN
          /\ w \in Seq(Resource) /\ Ordered({}, w) /\ Holds \subseteq Items(w)
      BY <1>2, <1>3, <3>1, <3>2, <3>3, WaysOut
    <3> QED
      BY <3>2, <3>4, FailsInv DEF Starting
  <2> QED
    BY <1>6, <2>1, <2>2 DEF LoopCreate
<1>7. CASE AddListener
  <2>1. CASE Step("add", "running", "")
    <3>1. pc = "add" /\ Holds = Base \cup {"listener", "loop"} /\ "" \notin Holds
      BY <1>2, <1>3, <2>1 DEF Step
    <3>2. /\ pc' = "running" /\ config' = config
          /\ held' \in Seq(Resource) /\ Distinct' /\ Holds' = Base \cup {"listener", "loop"}
      BY <2>1, <3>1, StepHolds
    <3>3. HeldInv'
      BY <3>2, SameConfig DEF HeldInv, Distinct
    <3> QED
      BY <1>4, <3>1, <3>2, <3>3, ArriveInv DEF Starting
  <2> QED
    BY <1>5, <1>7, <2>1 DEF AddListener
<1>8. CASE RunEnds
  BY <1>5, <1>8 DEF RunEnds
<1> QED
  BY <1>6, <1>7, <1>8

\* The next thing on the way out has no user left; it goes and the rest stays in
\* order.
LEMMA ReleaseInv ==
  ASSUME Lifecycle, Release
  PROVE  Lifecycle'
<1> DEFINE n == Len(todo)
           h == Head(todo)
<1>1. pc = "cleanup" /\ todo # <<>> /\ held' = Without(h) /\ todo' = Tail(todo)
      /\ pc' = "cleanup" /\ config' = config
  BY DEF Release
<1>2. /\ todo \in Seq(Resource) /\ held \in Seq(Resource) /\ Distinct
      /\ \A r \in Holds : \E k \in DOMAIN todo : todo[k] = r
      /\ \A k \in DOMAIN todo : \A u \in Users(todo[k]) \cap Holds :
           \E j \in 1..k - 1 : todo[j] = u
      /\ \A r \in Resource : Users(r) \cap Holds # {} => r \in Holds
  BY <1>1 DEF Lifecycle, HeldInv, CleanupInv, Distinct
<1>3. /\ n \in Nat \ {0} /\ DOMAIN todo = 1..n /\ h = todo[1] /\ h \in Resource
      /\ Tail(todo) \in Seq(Resource) /\ Len(Tail(todo)) = n - 1
      /\ \A k \in 1..n - 1 : Tail(todo)[k] = todo[k + 1]
  <2>1. n \in Nat \ {0} /\ DOMAIN todo = 1..n
    BY <1>1, <1>2, LenProperties, EmptySeq
  <2>2. h \in Resource /\ Tail(todo) \in Seq(Resource) /\ h = todo[1]
    BY <1>1, <1>2, HeadTailProperties
  <2>3. Len(Tail(todo)) = n - 1 /\ \A k \in 1..n - 1 : Tail(todo)[k] = todo[k + 1]
    BY <1>1, <1>2, <2>1
  <2> QED
    BY <2>1, <2>2, <2>3
<1> HIDE DEF n, h
<1>4. held' \in Seq(Resource) /\ Distinct' /\ Holds' = Holds \ {h}
  BY <1>1, <1>2, <1>3, WithoutHolds
<1>5. ConfigInv' /\ HeldInv'
  BY <1>1, <1>4 DEF Lifecycle, ConfigInv, HeldInv, Distinct
<1>6. DOMAIN todo' = 1..n - 1 /\ todo' \in Seq(Resource)
      /\ \A k \in 1..n - 1 : todo'[k] = todo[k + 1] /\ k + 1 \in 1..n
  BY <1>1, <1>3, LenProperties
<1>7. \A j \in 2..n : j - 1 \in 1..n - 1 /\ todo'[j - 1] = todo[j]
  BY <1>3, <1>6
<1>8. Users(h) \cap Holds = {}
  BY <1>2, <1>3
<1>9. ASSUME NEW r \in Holds' PROVE \E k \in DOMAIN todo' : todo'[k] = r
  <2>1. PICK j \in 1..n : todo[j] = r
    BY <1>2, <1>3, <1>4
  <2>2. j \in 2..n
    BY <1>3, <1>4, <2>1
  <2> QED
    BY <1>6, <1>7, <2>1, <2>2
<1>10. ASSUME NEW k \in DOMAIN todo', NEW u \in Users(todo'[k]) \cap Holds'
       PROVE  \E j \in 1..k - 1 : todo'[j] = u
  <2>1. k \in 1..n - 1 /\ k + 1 \in 1..n /\ u \in Users(todo[k + 1]) \cap Holds /\ u # h
    BY <1>4, <1>6
  <2>2. PICK j \in 1..(k + 1) - 1 : todo[j] = u
    BY <1>2, <1>3, <2>1
  <2>3. j \in 2..n /\ j - 1 \in 1..k - 1
    BY <1>3, <2>1, <2>2
  <2> QED
    BY <1>7, <2>2, <2>3
<1>11. ASSUME NEW r \in Resource, Users(r) \cap Holds' # {} PROVE r \in Holds'
  BY <1>2, <1>4, <1>8, <1>11
<1>12. CleanupInv'
  BY <1>6, <1>9, <1>10, <1>11 DEF CleanupInv
<1> QED
  BY <1>5, <1>12 DEF Lifecycle

LEMMA NextLifecycle == Lifecycle /\ [Next]_vars => Lifecycle'
<1> SUFFICES ASSUME Lifecycle, [Next]_vars PROVE Lifecycle'
  OBVIOUS
<1>1. CASE HelpOrVersion \/ UsageError
  <2>1. pc = "parse" /\ (Exit(0) \/ Exit(2))
    BY <1>1 DEF HelpOrVersion, UsageError
  <2>2. Holds = {}
    BY <2>1 DEF Lifecycle, HeldInv
  <2> QED
    BY <2>1, <2>2, ExitInv
<1>2. CASE FlagArgument \/ StringArgument \/ NumberArgument \/ EndpointArgument
  BY <1>2, ArgumentInv
<1>3. CASE EndOfArguments
  BY <1>3, EndOfArgumentsInv
<1>4. CASE Validate \/ NetInit \/ TlsInit
  BY <1>4, EarlyStepsInv
<1>5. CASE TlsIsAvailable \/ ClientContext \/ TargetContext
  BY <1>5, ContextStepsInv
<1>6. CASE Resolve \/ Socket \/ NoAddress \/ Bind
  BY <1>6, ListenStepsInv
<1>7. CASE LoopCreate \/ AddListener \/ RunEnds
  BY <1>7, LoopStepsInv
<1>8. CASE Release
  BY <1>8, ReleaseInv
<1>9. CASE Return
  <2>1. pc = "cleanup" /\ DOMAIN todo = {} /\ Exit(1)
    BY <1>9 DEF Return
  <2>2. Holds = {}
    BY <2>1 DEF Lifecycle, CleanupInv
  <2> QED
    BY <2>1, <2>2, ExitInv
<1>10. CASE UNCHANGED vars
  <2>1. config' = config /\ pc' = pc /\ held' = held /\ todo' = todo
    BY <1>10 DEF vars
  <2>2. Holds' = Holds
    BY <2>1, SameHolds
  <2>3. ConfigInv'
    BY <2>1, SameConfig DEF Lifecycle, ConfigInv
  <2>4. HeldInv'
    BY <2>1, <2>2, SameConfig DEF Lifecycle, HeldInv
  <2>5. CleanupInv'
    BY <2>1, <2>2 DEF Lifecycle, CleanupInv
  <2> QED
    BY <2>3, <2>4, <2>5 DEF Lifecycle
<1> QED
  BY <1>1, <1>2, <1>3, <1>4, <1>5, <1>6, <1>7, <1>8, <1>9, <1>10 DEF Next

\* After any sequence of arguments and whichever steps fail: the configuration
\* stays checked, each step of the start finds exactly what the steps before it
\* acquired, and the way out releases all of it, users first.
THEOREM StartupLifecycle == Spec => []Lifecycle
BY InitLifecycle, NextLifecycle, PTL DEF Spec

-----------------------------------------------------------------------------
(* What it gives.                                                          *)

LEMMA HeldNothing == ASSUME HeldInv, Holds = {} PROVE held = <<>>
<1> SUFFICES ASSUME held # <<>> PROVE FALSE
  OBVIOUS
<1>1. held \in Seq(Resource)
  BY DEF HeldInv
<1>2. Len(held) \in Nat \ {0} /\ DOMAIN held = 1..Len(held)
  BY <1>1, LenProperties, EmptySeq
<1>3. 1 \in DOMAIN held /\ held[1] \in Resource
  BY <1>1, <1>2
<1> QED
  BY <1>3 DEF Holds, Has

\* Whichever step of the start fails, the process exits with nothing held:
\* every library, context, socket and the event loop has been released
\* (proxy.c:1074-1203).
THEOREM StartupNothingLeft == Spec => []NothingLeft
<1>1. Lifecycle => NothingLeft
  BY HeldNothing DEF Lifecycle, HeldInv, NothingLeft
<1> QED
  BY <1>1, StartupLifecycle, PTL

\* At no point of the start or of the way out is something released while what
\* uses it is still held (proxy.c:1074-1087, 1157-1202, net_posix.c:139-163).
THEOREM StartupUsersFirst == Spec => []UsersFirst
<1>1. Lifecycle => UsersFirst
  <2> SUFFICES ASSUME Lifecycle PROVE UsersFirst
    OBVIOUS
  <2>1. \A r \in Resource : Users(r) \cap Holds # {} => r \in Holds
    <3>1. CASE pc \in Starting
      BY <3>1, UsersClosed DEF Lifecycle
    <3>2. CASE pc = "cleanup"
      BY <3>2 DEF Lifecycle, CleanupInv
    <3>3. CASE pc = "exit"
      BY <3>3 DEF Lifecycle, HeldInv
    <3> QED
      BY <3>1, <3>2, <3>3 DEF Lifecycle, HeldInv, Starting
  <2>2. \A r \in Resource : Has(r) <=> r \in Holds
    BY DEF Holds
  <2>3. "tls" \in Resource /\ "client_ctx" \in Resource /\ "target_ctx" \in Resource
        /\ "loop" \in Resource /\ "listener" \in Resource /\ "net" \in Resource
        /\ "addrinfo" \in Resource /\ Holds \subseteq Resource
    BY DEF Resource, Holds
  <2>4. "client_ctx" \in Holds \/ "target_ctx" \in Holds => "tls" \in Holds
    BY <2>1, <2>3, UsersOf
  <2>5. "loop" \in Holds => "listener" \in Holds
    BY <2>1, <2>3, UsersOf
  <2>6. Holds # {} => "net" \in Holds
    BY <2>1, <2>3, UsersOf
  <2>7. held # <<>> => Holds # {}
    BY HeldNothing DEF Lifecycle
  <2>8. pc \in {"socket", "bind"} => "addrinfo" \in Holds
    BY DEF Lifecycle, HeldInv
  <2> QED
    BY <2>2, <2>3, <2>4, <2>5, <2>6, <2>7, <2>8 DEF UsersFirst
<1> QED
  BY <1>1, StartupLifecycle, PTL

\* One source, and the pair among what is given: nothing else is given.
LEMMA OneSource ==
  ASSUME ConfigInv, validate_tls(config), config.client_tls_enabled,
         PemOptions \subseteq config.given
  PROVE  config.given \cap SourceOptions = PemOptions
<1> DEFINE sources == {PemOptions, {"pfx"}, StoreOptions}
           used == {s \in sources : s \cap config.given # {}}
<1>1. Cardinality(used) = 1
  BY DEF validate_tls
<1>2. IsFiniteSet(used)
  <2>1. IsFiniteSet(sources)
    <3>1. IsFiniteSet({}) /\ \A S, x : IsFiniteSet(S) => IsFiniteSet(S \cup {x})
      BY FS_EmptySet, FS_AddElement
    <3>2. sources = (({} \cup {PemOptions}) \cup {{"pfx"}}) \cup {StoreOptions}
      OBVIOUS
    <3> HIDE DEF sources
    <3> QED
      BY <3>1, <3>2
  <2> QED
    BY <2>1, FS_Subset
<1>3. PICK x : used = {x}
  <2> HIDE DEF used
  <2> QED
    BY <1>1, <1>2, FS_Singleton
<1>4. PemOptions \in used
  BY DEF PemOptions
<1>5. {"pfx"} # PemOptions /\ StoreOptions # PemOptions
  BY DEF PemOptions, StoreOptions
<1>6. {"pfx"} \notin used /\ StoreOptions \notin used
  <2> HIDE DEF used
  <2> QED
    BY <1>3, <1>4, <1>5
<1>7. {"pfx"} \cap config.given = {} /\ StoreOptions \cap config.given = {}
  BY <1>6
<1> QED
  BY <1>7 DEF SourceOptions

\* README.md:104 and 56.  Whatever options were given and taken back, in any
\* order, a server that runs has a context for exactly the legs asked for, the
\* ingress one from a complete pair and no other source; with its leg off no
\* certificate was named, and none of the egress options given.  Of the PFX
\* password, which the code never checks, nothing is claimed
\* (cli.c:80-111, 204-207, proxy.c:1039-1128).
THEOREM StartupRunsAsConfigured == Spec => []RunsAsConfigured
<1>1. Lifecycle => RunsAsConfigured
  <2> SUFFICES ASSUME Lifecycle, pc = "running" PROVE RunsAsConfigured
    BY DEF RunsAsConfigured
  <2>1. /\ validate_tls(config) /\ proxy_validate_config(config)
        /\ config.client_tls_enabled => PemOptions \subseteq config.given
        /\ Holds = Base \cup {"listener", "loop"}
    BY DEF Lifecycle, ConfigInv, HeldInv
  <2>2. \A r \in {"listener", "loop", "addrinfo", "client_ctx", "target_ctx"} :
          Has(r) <=> r \in Holds
    BY DEF Holds, Resource
  <2>3. /\ "client_ctx" \in Base <=> config.client_tls_enabled
        /\ "target_ctx" \in Base <=> config.target_tls_enabled
        /\ "addrinfo" \notin Base
    BY DEF Base, Contexts
  <2>4. config.given \cap SourceOptions = IF config.client_tls_enabled THEN PemOptions ELSE {}
    BY <2>1, OneSource DEF Lifecycle, proxy_validate_config
  <2>5. config.target_tls_insecure \/ config.given \cap TargetOptions # {} =>
          config.target_tls_enabled
    BY <2>1 DEF proxy_validate_config
  <2> QED
    BY <2>1, <2>2, <2>3, <2>4, <2>5 DEF RunsAsConfigured
<1> QED
  BY <1>1, StartupLifecycle, PTL
=============================================================================
