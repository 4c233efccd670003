----------------------------- MODULE MCQuicChat -----------------------------
(* ChatCommands with messages of both sides and senders of the node.        *)
EXTENDS ChatCommands

CONSTANTS a1, a2, b1

Lines   == {a1, a2, b1}
Writers == [m \in Lines |-> IF m = b1 THEN Bob ELSE Alice]
====
