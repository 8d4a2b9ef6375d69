------------------------------ MODULE MCDaemon ------------------------------
(* Two gRPC threads; a signal may come at any moment.                      *)
EXTENDS Daemon

BothServices == {"priv", "upri"}
=============================================================================
