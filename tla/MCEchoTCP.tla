----------------------------- MODULE MCEchoTCP ------------------------------
(* Instances of EchoTCP for TLC.                                              *)
EXTENDS EchoTCP
=============================================================================
