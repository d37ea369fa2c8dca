----------------------------- MODULE MCStartup -----------------------------
(* TLC instance of Startup.                                                  *)
EXTENDS StartupProperties
=============================================================================
