---------------------------- MODULE RatchetChain ----------------------------
(***************************************************************************)
(* The counters of one RatchetSession (src/src/lib.rs).  Keys are symbolic: *)
(* within one root key a message key is determined by the direction and the *)
(* message number, so a chain key is determined by its counter, and         *)
(* skipped_message_keys is determined by the set of numbers it is keyed by. *)
(***************************************************************************)
EXTENDS Integers, FiniteSets

CONSTANT MaxSkipped       \* MAX_SKIPPED_MESSAGE_KEYS, 8 in the code

ASSUME MaxSkippedAssumption == MaxSkipped \in Nat

Chain == [send : Nat, recv : Nat, skipped : SUBSET Nat, consumed : SUBSET Nat]

\* RatchetSession::new, and what apply_dh_ratchet resets.
NewChain == [send |-> 0, recv |-> 0, skipped |-> {}, consumed |-> {}]

\* RatchetSession::encrypt: the message takes number c.send and the chain advances.
Encrypted(c) == [c EXCEPT !.send = @ + 1]

\* Mutation of Outcome: the store may hold one key too many.
OutcomeOffByOne(c, n) ==
    IF n \in c.consumed THEN "Replay"
    ELSE IF n \in c.skipped THEN "Key"
    ELSE IF n < c.recv THEN "Replay"
    ELSE IF Cardinality(c.skipped) + (n - c.recv) <= MaxSkipped + 1 THEN "Key"
    ELSE "TooManySkipped"

\* What the key selection of RatchetSession::decrypt answers for message number n.
\* The loop that stores skipped keys gives up when the store already holds
\* MaxSkipped keys and one more would have to be stored.
Outcome(c, n) ==
    IF n \in c.consumed THEN "Replay"
    ELSE IF n \in c.skipped THEN "Key"
    ELSE IF n < c.recv THEN "Replay"
    ELSE IF Cardinality(c.skipped) + (n - c.recv) <= MaxSkipped THEN "Key"
    ELSE "TooManySkipped"

\* Mutation of Selected: the keys stepped over are not stored.
SelectedForgetful(c, n) ==
    IF n \in c.skipped THEN [c EXCEPT !.skipped = @ \ {n}]
    ELSE [c EXCEPT !.recv = IF n < @ THEN @ ELSE n + 1]

\* The chain after key selection, whatever becomes of the ciphertext: a skipped
\* key is removed, the keys stepped over are stored, and a selection that gives
\* up keeps the keys it stored before giving up.
Selected(c, n) ==
    LET room == MaxSkipped - Cardinality(c.skipped)
    IN  IF Outcome(c, n) = "Replay" THEN c
        ELSE IF Outcome(c, n) = "TooManySkipped"
        THEN [c EXCEPT !.recv = @ + room,
                       !.skipped = @ \cup (c.recv .. c.recv + room - 1)]
        ELSE IF n \in c.skipped THEN [c EXCEPT !.skipped = @ \ {n}]
        ELSE [c EXCEPT !.recv = n + 1, !.skipped = @ \cup (c.recv .. n - 1)]

\* The chain once the ciphertext has been opened: the number is consumed.
Opened(c, n) == [Selected(c, n) EXCEPT !.consumed = @ \cup {n}]
=============================================================================
