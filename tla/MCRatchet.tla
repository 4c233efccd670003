------------------------------ MODULE MCRatchet ------------------------------
(* Instance of Ratchet for TLC.                                              *)
EXTENDS Ratchet

\* Alice sends enough to overflow the store of skipped keys in one epoch and
\* still has a message for the next one.
Sends == [p \in {Alice, Bob} |-> IF p = Alice THEN 3 ELSE 2]
=============================================================================
