-------------------------------- MODULE MCCrdt -------------------------------
(* An instance of Crdt: two messages, of which one is deleted; a reaction    *)
(* that is removed and one that is not; a reader that advances out of order. *)
EXTENDS Crdt

SmallEvents == {
  [kind |-> "created", pos |-> 1, message |-> "m1", body |-> "b1"],
  [kind |-> "deleted", pos |-> 2, message |-> "m1"],
  [kind |-> "created", pos |-> 3, message |-> "m2", body |-> "b2"],
  [kind |-> "added", pos |-> 4, message |-> "m2", reaction |-> "plus"],
  [kind |-> "removed", pos |-> 5, add |-> 4],
  [kind |-> "added", pos |-> 6, message |-> "m1", reaction |-> "heart"],
  [kind |-> "read", pos |-> 7, reader |-> "a", counter |-> 2],
  [kind |-> "read", pos |-> 8, reader |-> "a", counter |-> 1]}
=============================================================================
