-------------------------------- MODULE Stream --------------------------------
(***************************************************************************)
(* What a websocket promises the two applications at its ends, in one      *)
(* direction: the receiver is handed what the sender's writes accepted, in *)
(* order, nothing twice and nothing left out, in pieces of any size, until *)
(* the connection breaks; then nothing more is handed over.                *)
(***************************************************************************)
EXTENDS Naturals, Sequences, SequencesExt

VARIABLES sent,      \* payload the sender was told is on its way
          got,       \* payload the receiver was handed
          broken     \* the connection has ended

Init == sent = <<>> /\ got = <<>> /\ ~broken

Accept  == /\ ~broken /\ IsStrictPrefix(sent, sent') /\ UNCHANGED <<got, broken>>
HandOver == /\ ~broken /\ IsStrictPrefix(got, got') /\ IsPrefix(got', sent)
            /\ UNCHANGED <<sent, broken>>
Break   == ~broken /\ broken' /\ IsPrefix(sent, sent') /\ UNCHANGED got

Next == Accept \/ HandOver \/ Break
Spec == Init /\ [][Next]_<<sent, got, broken>>
=============================================================================
