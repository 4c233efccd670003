----------------------------- MODULE MCEventSync -----------------------------
(* Instances of EventSync: two conversations, so that the counters used in  *)
(* one of them have gaps; which conversation is which does not matter.      *)
EXTENDS EventSync, TLC

SameConversations == Permutations(Conversations)
=============================================================================
