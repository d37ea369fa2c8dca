------------------------------- MODULE Startup -------------------------------
(***************************************************************************)
(* main, the command line (src/core/cli.c) and the frame of                *)
(* sockify_proxy_run (src/proxy/proxy.c): what is checked before the       *)
(* server runs, what is acquired step by step, any step failing, and what  *)
(* is released in the end.                                                 *)
(*                                                                         *)
(* The arguments come one at a time, so their number is not bounded.  A    *)
(* string is empty, usable or too long; a number is one of Number or does  *)
(* not parse; an endpoint is complete, has an empty part or does not parse.*)
(* The three timeouts are parsed alike: one stands for them.  Logging and  *)
(* its level are left out.                                                 *)
(***************************************************************************)
EXTENDS Naturals, Sequences, FiniteSets

CONSTANTS
  Number,         \* numbers that are given
  UintRange,      \* 2^32: an unsigned int holds the numbers below
  TlsBuilds,      \* whether built with OpenSSL: the possibilities
  Addresses       \* getaddrinfo finds at most so many

ASSUME StartupAssumption ==
  /\ Number \subseteq Nat /\ UintRange \in Nat \ {0}
  /\ TlsBuilds \subseteq BOOLEAN /\ Addresses \in Nat

VARIABLES
  config,      \* struct sockify_proxy_config
  positional,  \* endpoints given
  pc,          \* where main is
  left,        \* addresses sockify_net_listen has still to try
  held,        \* what is acquired and not released, in the order of acquiring
  todo,        \* what the way out still calls, in its order
  status       \* the exit status

vars == <<config, positional, pc, left, held, todo, status>>

\* The options that take a string: where the ingress certificate comes from, the
\* password of a PFX file, and those of the egress leg.
PemOptions == {"cert", "key"}
StoreOptions == {"cert_store", "cert_thumbprint"}
SourceOptions == PemOptions \cup StoreOptions \cup {"pfx"}
TargetOptions == {"server_name", "ca_file"}
StringOptions == SourceOptions \cup {"pfx_password"} \cup TargetOptions

-----------------------------------------------------------------------------
(* sockify_cli_parse_args                                                  *)

Exit(code) ==
  /\ pc' = "exit" /\ status' = code
  /\ UNCHANGED <<config, positional, left, held, todo>>

Configure(c) ==
  /\ pc = "parse" /\ config' = c
  /\ UNCHANGED <<positional, pc, left, held, todo, status>>

\* --help and --version
HelpOrVersion == pc = "parse" /\ Exit(0)

FlagArgument ==
  \E flag \in {"client_tls_enabled", "target_tls_enabled", "target_tls_insecure"} :
    Configure([config EXCEPT ![flag] = TRUE])

\* copy_str; an empty string takes back what was given.
StringArgument ==
  \E o \in StringOptions :
    \/ Configure([config EXCEPT !.given = @ \cup {o}])
    \/ Configure([config EXCEPT !.given = @ \ {o}])

\* parse_size and parse_uint
parse_uint(n) == n % UintRange

NumberArgument ==
  \E n \in Number :
    \/ \E o \in {"max_connections", "buffer_size"} : Configure([config EXCEPT ![o] = n])
    \/ Configure([config EXCEPT !.timeout = parse_uint(n)])

\* sockify_net_parse_endpoint: only in brackets can a part be empty.
EndpointArgument ==
  /\ pc = "parse" /\ positional < 2
  /\ \E complete \in BOOLEAN :
       config' = [config EXCEPT !.endpoints = Append(@, complete)]
  /\ positional' = positional + 1
  /\ UNCHANGED <<pc, left, held, todo, status>>

\* A third endpoint or one that does not parse, an unknown option, no value or a
\* bad one.
UsageError == pc = "parse" /\ Exit(2)

\* Mutant: there may be several sources.
validate_tls_any(c) ==
  /\ c.target_tls_insecure => c.target_tls_enabled
  /\ c.client_tls_enabled =>
       /\ PemOptions \cap c.given \in {{}, PemOptions}
       /\ c.given \cap SourceOptions # {}

\* One source of the certificate, and PEM files in pairs.
validate_tls(c) ==
  LET sources == {PemOptions, {"pfx"}, StoreOptions} IN
  /\ c.target_tls_insecure => c.target_tls_enabled
  /\ c.client_tls_enabled =>
       /\ PemOptions \cap c.given \in {{}, PemOptions}
       /\ Cardinality({s \in sources : s \cap c.given # {}}) = 1

\* No arguments are left.
EndOfArguments ==
  /\ pc = "parse"
  /\ IF positional = 2 /\ validate_tls(config)
     THEN pc' = "validate" /\ UNCHANGED <<config, positional, left, held, todo, status>>
     ELSE Exit(2)

-----------------------------------------------------------------------------
(* sockify_proxy_run                                                       *)

\* Neither this nor validate_tls looks at the PFX password.
proxy_validate_config(c) ==
  /\ \A k \in DOMAIN c.endpoints : c.endpoints[k]
  /\ c.max_connections # 0 /\ c.buffer_size # 0
  /\ ~c.client_tls_enabled => c.given \cap SourceOptions = {}
  /\ ~c.target_tls_enabled => ~c.target_tls_insecure /\ c.given \cap TargetOptions = {}

tls_enabled == config.client_tls_enabled \/ config.target_tls_enabled

\* Mutant: the library goes first.
destroy_tls_library_first ==
  (IF tls_enabled THEN <<"tls">> ELSE <<>>) \o <<"client_ctx", "target_ctx">>

\* proxy_destroy_tls; a context that was not created is passed over.
proxy_destroy_tls ==
  <<"client_ctx", "target_ctx">> \o IF tls_enabled THEN <<"tls">> ELSE <<>>

\* held without the resource, if it is there: the last one of its name.
Without(r) ==
  LET at == {k \in DOMAIN held : held[k] = r} IN
  IF at = {} THEN held
  ELSE LET last == CHOOSE k \in at : \A j \in at : j <= k
       IN SubSeq(held, 1, last - 1) \o SubSeq(held, last + 1, Len(held))

\* A step succeeds and the next one is at next, holding one more resource.
Step(at, next, resource) ==
  /\ pc = at /\ pc' = next
  /\ held' = IF resource = "" THEN held ELSE Append(held, resource)
  /\ UNCHANGED <<config, positional, left, todo, status>>

\* A step fails and releases what is named.
Fails(at, release) ==
  /\ pc = at /\ pc' = "cleanup" /\ todo' = release
  /\ UNCHANGED <<config, positional, left, held, status>>

Validate ==
  IF proxy_validate_config(config) THEN Step("validate", "net", "")
  ELSE Fails("validate", <<>>)

NetInit == Step("net", "tls", "net") \/ Fails("net", <<>>)

\* Mutant: the network is not cleaned up after the library failed.
TlsInitLeaks ==
  \/ ~tls_enabled /\ Step("tls", "listen", "")
  \/ tls_enabled /\ Step("tls", "available", "tls")
  \/ tls_enabled /\ Fails("tls", <<>>)

\* proxy_init_tls
TlsInit ==
  \/ ~tls_enabled /\ Step("tls", "listen", "")
  \/ tls_enabled /\ Step("tls", "available", "tls")
  \/ tls_enabled /\ Fails("tls", <<"net">>)

TlsIsAvailable ==
  \/ TRUE \in TlsBuilds /\ Step("available", "client_ctx", "")
  \/ FALSE \in TlsBuilds /\ Fails("available", proxy_destroy_tls \o <<"net">>)

\* sockify_tls_context_create loads PEM files and nothing else.
ClientContext ==
  \/ ~config.client_tls_enabled /\ Step("client_ctx", "target_ctx", "")
  \/ /\ config.client_tls_enabled /\ PemOptions \subseteq config.given
     /\ Step("client_ctx", "target_ctx", "client_ctx")
  \/ /\ config.client_tls_enabled
     /\ Fails("client_ctx", proxy_destroy_tls \o <<"net">>)

TargetContext ==
  \/ ~config.target_tls_enabled /\ Step("target_ctx", "listen", "")
  \/ config.target_tls_enabled /\ Step("target_ctx", "listen", "target_ctx")
  \/ /\ config.target_tls_enabled
     /\ Fails("target_ctx", proxy_destroy_tls \o <<"net">>)

\* sockify_net_listen: resolve, then try the addresses in turn.
Resolve ==
  \/ /\ pc = "listen" /\ pc' = "socket"
     /\ left' \in 0..Addresses /\ held' = Append(held, "addrinfo")
     /\ UNCHANGED <<config, positional, todo, status>>
  \/ Fails("listen", proxy_destroy_tls \o <<"net">>)

Socket ==
  /\ pc = "socket" /\ left > 0 /\ left' = left - 1
  /\ \/ pc' = "bind" /\ held' = Append(held, "listener")
     \/ UNCHANGED <<pc, held>>
  /\ UNCHANGED <<config, positional, todo, status>>

NoAddress ==
  /\ left = 0 /\ Fails("socket", <<"addrinfo">> \o proxy_destroy_tls \o <<"net">>)

\* The socket is closed and the next address tried.
NextAddress == pc' = "socket" /\ held' = Without("listener")

\* setsockopt, bind, listen and set_nonblocking
Bind ==
  /\ pc = "bind"
  /\ \/ pc' = "loop" /\ held' = Without("addrinfo")
     \/ NextAddress
  /\ UNCHANGED <<config, positional, left, todo, status>>

LoopCreate ==
  \/ Step("loop", "add", "loop")
  \/ Fails("loop", <<"listener">> \o proxy_destroy_tls \o <<"net">>)

WayOut == <<"loop", "listener">> \o proxy_destroy_tls \o <<"net">>

AddListener == Step("add", "running", "") \/ Fails("add", WayOut)

\* sockify_event_loop_run returns.
RunEnds == Fails("running", WayOut)

Release ==
  /\ pc = "cleanup" /\ todo # <<>>
  /\ held' = Without(Head(todo))
  /\ todo' = Tail(todo)
  /\ UNCHANGED <<config, positional, pc, left, status>>

\* main reports the failure.
Return == pc = "cleanup" /\ todo = <<>> /\ Exit(1)

-----------------------------------------------------------------------------

\* sockify_proxy_config_init
Init ==
  /\ config = [client_tls_enabled |-> FALSE, target_tls_enabled |-> FALSE,
               target_tls_insecure |-> FALSE, given |-> {}, endpoints |-> <<>>,
               max_connections |-> UintRange, buffer_size |-> UintRange,
               timeout |-> UintRange - 1]
  /\ positional = 0 /\ pc = "parse" /\ left = 0
  /\ held = <<>> /\ todo = <<>> /\ status = 0

Next ==
  \/ HelpOrVersion \/ FlagArgument \/ StringArgument \/ NumberArgument
  \/ EndpointArgument \/ UsageError \/ EndOfArguments
  \/ Validate \/ NetInit \/ TlsInit \/ TlsIsAvailable \/ ClientContext \/ TargetContext
  \/ Resolve \/ Socket \/ NoAddress \/ Bind \/ LoopCreate \/ AddListener \/ RunEnds
  \/ Release \/ Return

Spec == Init /\ [][Next]_vars
=============================================================================
