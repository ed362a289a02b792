----------------------------- MODULE MCKeepAlive -----------------------------
(* The instances of KeepAlive that TLC checks; every constant is in the .cfg. *)
EXTENDS KeepAlive
=============================================================================
