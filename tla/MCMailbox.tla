----------------------------- MODULE MCMailbox -----------------------------
(* Mailbox with interchangeable envelopes.                                  *)
EXTENDS Mailbox, TLC

Interchangeable == Permutations(Envelopes)
====
