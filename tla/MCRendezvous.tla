---------------------------- MODULE MCRendezvous ----------------------------
(* Rendezvous on small sets.  The clocks of all creators but one run ahead. *)
EXTENDS Rendezvous, TLC

First       == CHOOSE c \in Creators : TRUE
OthersAhead == [c \in Creators |-> IF c = First THEN 0 ELSE 1]
SameJoiners == Permutations(Joiners)

(* Two questions share the run: who pairs with one creator while the        *)
(* service stays up, and what becomes of a code that two creators draw, when *)
(* nobody joins and the service may restart.                                *)
Apart ==
    \/ restarts = 0 /\ \A c \in Creators \ {First} : invites[c] = 0
    \/ /\ \A c \in Creators : invites[c] <= 1 /\ nextConn[c] <= 1
       /\ \A j \in Joiners : joiner[j].stage = "off"
====
