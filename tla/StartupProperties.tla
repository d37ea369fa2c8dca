-------------------------- MODULE StartupProperties --------------------------
(* What holds when the server runs, and when the process exits.            *)
EXTENDS Startup

Has(r) == \E k \in DOMAIN held : held[k] = r

\* README.md:104, "exactly one of those sources must be provided, and
\* --client-tls-cert always goes paired with --client-tls-key", and 56: the legs
\* are independent.  Whatever order options come in and are taken back in, a
\* server that runs has a context for exactly the legs asked for, the ingress one
\* from a complete pair and no other source; with its leg off no certificate was
\* named, and none of the egress options given.  The password of a PFX file is
\* the one option that may be there and have no effect: neither check of the
\* configuration looks at it (cli.c:80-111, 204-207, proxy.c:1039-1128).
RunsAsConfigured ==
  pc = "running" =>
    /\ Has("listener") /\ Has("loop") /\ ~Has("addrinfo")
    /\ Has("client_ctx") <=> config.client_tls_enabled
    /\ Has("target_ctx") <=> config.target_tls_enabled
    /\ config.given \cap SourceOptions =
         IF config.client_tls_enabled THEN PemOptions ELSE {}
    /\ config.target_tls_insecure \/ config.given \cap TargetOptions # {} =>
         config.target_tls_enabled

\* Whichever step of the start fails, the process exits with nothing held: each
\* library, context, socket and the loop is released (proxy.c:1074-1203).
NothingLeft == pc = "exit" => held = <<>>

\* Nothing is released before what uses it: contexts before the TLS library,
\* the loop before the listener it watches, all before the network, and the
\* addresses are there as long as they are tried (proxy.c:1074-1087, 1157-1202,
\* net_posix.c:139-163).
UsersFirst ==
  /\ Has("client_ctx") \/ Has("target_ctx") => Has("tls")
  /\ Has("loop") => Has("listener")
  /\ held # <<>> => Has("net")
  /\ pc \in {"socket", "bind"} => Has("addrinfo")

-----------------------------------------------------------------------------
(* Strengthenings: facts that make the properties above inductive.         *)

Resource == {"net", "tls", "client_ctx", "target_ctx", "addrinfo", "listener", "loop"}
Holds == {r \in Resource : Has(r)}

\* What must be released before r.
Users(r) ==
  CASE r = "tls" -> {"client_ctx", "target_ctx"}
    [] r = "listener" -> {"loop"}
    [] r = "net" -> Resource \ {"net"}
    [] OTHER -> {}

Contexts == (IF config.client_tls_enabled THEN {"client_ctx"} ELSE {})
            \cup (IF config.target_tls_enabled THEN {"target_ctx"} ELSE {})

\* What is held when the server is about to listen.
Base == {"net"} \cup (IF tls_enabled THEN {"tls"} ELSE {}) \cup Contexts

\* The options have their types, and a configuration that got past a
\* check still passes it.
ConfigInv ==
  /\ config \in [client_tls_enabled : BOOLEAN, target_tls_enabled : BOOLEAN,
                 target_tls_insecure : BOOLEAN, given : SUBSET StringOptions,
                 endpoints : Seq(BOOLEAN), max_connections : Nat, buffer_size : Nat,
                 timeout : Nat]
  /\ pc \notin {"parse", "cleanup", "exit"} => validate_tls(config)
  /\ pc \notin {"parse", "validate", "cleanup", "exit"} => proxy_validate_config(config)
  /\ pc \notin {"parse", "validate", "net", "tls", "available", "client_ctx",
                 "cleanup", "exit"} /\ config.client_tls_enabled =>
       PemOptions \subseteq config.given

\* No resource is acquired twice, and each step of the start finds exactly what
\* the steps before it acquired.
HeldInv ==
  /\ held \in Seq(Resource) /\ \A j, k \in DOMAIN held : held[j] = held[k] => j = k
  /\ pc \in {"parse", "validate", "net", "tls", "available", "client_ctx", "target_ctx",
             "listen", "socket", "bind", "loop", "add", "running", "cleanup", "exit"}
  /\ pc \in {"parse", "validate", "net", "exit"} => Holds = {}
  /\ pc = "tls" => Holds = {"net"}
  /\ pc \in {"available", "client_ctx", "target_ctx"} => tls_enabled
  /\ pc \in {"available", "client_ctx"} => Holds = {"net", "tls"}
  /\ pc = "target_ctx" => Holds = {"net", "tls"} \cup (Contexts \ {"target_ctx"})
  /\ pc = "listen" => Holds = Base
  /\ pc = "socket" => Holds = Base \cup {"addrinfo"}
  /\ pc = "bind" => Holds = Base \cup {"addrinfo", "listener"}
  /\ pc = "loop" => Holds = Base \cup {"listener"}
  /\ pc \in {"add", "running"} => Holds = Base \cup {"listener", "loop"}

\* The way out releases all that is held, each thing after its users.
CleanupInv ==
  pc = "cleanup" =>
    /\ todo \in Seq(Resource)
    /\ \A r \in Holds : \E k \in DOMAIN todo : todo[k] = r
    /\ \A k \in DOMAIN todo : \A u \in Users(todo[k]) \cap Holds :
         \E j \in 1..k - 1 : todo[j] = u
    /\ \A r \in Resource : Users(r) \cap Holds # {} => r \in Holds
=============================================================================
