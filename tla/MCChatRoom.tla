----------------------------- MODULE MCChatRoom -----------------------------
(* Instances of ChatRoom for TLC: connections are interchangeable.            *)
EXTENDS ChatRoom, TLC

Symmetry == Permutations(Conns)
=============================================================================
