--------------------------- MODULE MCChatDelivery ---------------------------
(* Instances of ChatDelivery for TLC.                                        *)
EXTENDS ChatDelivery, TLC

CONSTANTS m1, m2, m3

\* Two interchangeable lines of Alice and one of Bob.
BothWrite == [m \in Messages |-> IF m = m3 THEN Bob ELSE Alice]

AliceLines == Permutations({m1, m2})

\* Every line is Alice's.
AliceOnly == [m \in Messages |-> Alice]
=============================================================================
