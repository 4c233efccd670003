-------------------------------- MODULE Crdt ---------------------------------
(***************************************************************************)
(* materialize_conversation (src/src/crdt.rs): the state of a conversation *)
(* as a fold over its events.  Each replica applies the events in an order *)
(* of its own, some of them more than once; an action is one turn of the   *)
(* loop, View the pass over the reactions after it.                        *)
(*                                                                         *)
(* A body stands for the author and the payload of a message, a reader for *)
(* the pair (actor_id, read_device_id) of a read event.                    *)
(***************************************************************************)
EXTENDS Naturals

CONSTANTS Replicas, Messages, Bodies, Positions, Reactions, Readers, MaxRead,
  Events          \* the events that exist in the conversation

Created == [kind : {"created"}, pos : Positions, message : Messages, body : Bodies]
Deleted == [kind : {"deleted"}, pos : Positions, message : Messages]
Added == [kind : {"added"}, pos : Positions, message : Messages, reaction : Reactions]
Removed == [kind : {"removed"}, pos : Positions, add : Positions]
Read == [kind : {"read"}, pos : Positions, reader : Readers, counter : 0 .. MaxRead]

\* An event is found at one position (the key of event_history).  That a message
\* identifier names one message is an assumption about the callers, who pass
\* the identifier in: or_insert keeps the first body it meets, so two creations
\* under one identifier would make the view depend on their order.
ASSUME EventsAssumption ==
  /\ MaxRead \in Nat
  /\ Events \subseteq Created \cup Deleted \cup Added \cup Removed \cup Read
  /\ \A e, f \in Events : e.pos = f.pos => e = f
  /\ \A e, f \in Events :
       e.kind = "created" /\ f.kind = "created" /\ e.message = f.message => e.body = f.body

VARIABLES
  replica,        \* the five maps of the loop, for each replica
  applied         \* history: the events each replica has applied

vars == <<replica, applied>>

None == [exists |-> FALSE]
MessageState == [exists : {TRUE}, body : Bodies, deleted : BOOLEAN]
ReactionAdd == [pos : Positions, message : Messages, reaction : Reactions]

State ==
  [messages : [Messages -> MessageState \cup {None}], tombstones : SUBSET Messages,
   adds : SUBSET ReactionAdd, removed : SUBSET Positions,
   frontier : [Readers -> 0 .. MaxRead]]

Empty ==
  [messages |-> [m \in Messages |-> None], tombstones |-> {}, adds |-> {},
   removed |-> {}, frontier |-> [a \in Readers |-> 0]]

Init ==
  /\ replica = [r \in Replicas |-> Empty]
  /\ applied = [r \in Replicas |-> {}]

(***************************************************************************)
(* One arm of the match each.                                              *)
(***************************************************************************)
\* The mutants of this module stand before the definitions they replace.
CreatedAlive(st, e) ==
  [st EXCEPT !.messages[e.message] =
     IF @ = None THEN [exists |-> TRUE, body |-> e.body, deleted |-> FALSE] ELSE @]

\* or_insert: the first creation of a message stays, deleted if a tombstone waits.
AfterCreated(st, e) ==
  [st EXCEPT !.messages[e.message] =
     IF @ = None
     THEN [exists |-> TRUE, body |-> e.body, deleted |-> e.message \in st.tombstones]
     ELSE @]

AfterDeleted(st, e) ==
  [st EXCEPT !.tombstones = @ \cup {e.message},
             !.messages[e.message] =
               IF @ = None THEN None ELSE [exists |-> TRUE, body |-> @.body, deleted |-> TRUE]]

\* reaction_adds is keyed by the position of the event that added the reaction.
AfterAdded(st, e) ==
  [st EXCEPT !.adds = {a \in @ : a.pos # e.pos} \cup
     {[pos |-> e.pos, message |-> e.message, reaction |-> e.reaction]}]

RemovedAtOnce(st, e) == [st EXCEPT !.adds = {a \in @ : a.pos # e.add}]

AfterRemoved(st, e) == [st EXCEPT !.removed = @ \cup {e.add}]

AfterRead(st, e) ==
  [st EXCEPT !.frontier[e.reader] = IF @ < e.counter THEN e.counter ELSE @]

Applies(r, e, st) ==
  /\ replica' = [replica EXCEPT ![r] = st]
  /\ applied' = [applied EXCEPT ![r] = @ \cup {e}]

MessageCreated(r, e) == e.kind = "created" /\ Applies(r, e, AfterCreated(replica[r], e))
MessageDeleted(r, e) == e.kind = "deleted" /\ Applies(r, e, AfterDeleted(replica[r], e))
ReactionAdded(r, e) == e.kind = "added" /\ Applies(r, e, AfterAdded(replica[r], e))
ReactionRemoved(r, e) == e.kind = "removed" /\ Applies(r, e, AfterRemoved(replica[r], e))
ReadAdvanced(r, e) == e.kind = "read" /\ Applies(r, e, AfterRead(replica[r], e))

\* The reactions of a message: added, not removed, and its message exists.
Visible(st, m) ==
  IF st.messages[m] = None THEN {}
  ELSE {a \in st.adds : a.message = m /\ a.pos \notin st.removed}

View(st) ==
  [messages |-> [m \in Messages |-> [state |-> st.messages[m], reactions |-> Visible(st, m)]],
   tombstones |-> st.tombstones, read_frontiers |-> st.frontier]

Next ==
  \E r \in Replicas, e \in Events :
    \/ MessageCreated(r, e) \/ MessageDeleted(r, e)
    \/ ReactionAdded(r, e) \/ ReactionRemoved(r, e) \/ ReadAdvanced(r, e)

Spec == Init /\ [][Next]_vars

(***************************************************************************)
(* Properties.                                                             *)
(***************************************************************************)
\* The shape of the five maps.
TypeOK ==
  /\ replica \in [Replicas -> State]
  /\ applied \in [Replicas -> SUBSET Events]

\* Replicas that have applied the same events show the same conversation,
\* whatever the order and the repetitions (materialize_conversation).
Converged ==
  \A r, s \in Replicas : applied[r] = applied[s] => View(replica[r]) = View(replica[s])

\* Nothing brings a deleted message back, not even its creation arriving after
\* the deletion, and a read frontier never moves backwards.
NeverUndone ==
  [][\A r \in Replicas :
       /\ \A m \in replica[r].tombstones :
            m \in replica'[r].tombstones /\
            (replica'[r].messages[m] # None => replica'[r].messages[m].deleted)
       /\ \A a \in Readers : replica'[r].frontier[a] >= replica[r].frontier[a]]_vars

(***************************************************************************)
(* What the maps hold, said of the set of applied events alone: the        *)
(* inductive invariant behind Converged.                                   *)
(***************************************************************************)
MessagesMatch(st, E) ==
  \A m \in Messages :
    /\ st.messages[m] # None <=> \E e \in E : e.kind = "created" /\ e.message = m
    /\ st.messages[m] # None => st.messages[m].deleted = (m \in st.tombstones)
    /\ \A e \in E : e.kind = "created" /\ e.message = m => st.messages[m].body = e.body

TombstonesMatch(st, E) ==
  \A m \in Messages :
    m \in st.tombstones <=> \E e \in E : e.kind = "deleted" /\ e.message = m

AddsMatch(st, E) ==
  \A a \in ReactionAdd :
    a \in st.adds <=> \E e \in E : /\ e.kind = "added" /\ e.pos = a.pos
                                   /\ e.message = a.message /\ e.reaction = a.reaction

RemovedMatch(st, E) ==
  \A p \in Positions : p \in st.removed <=> \E e \in E : e.kind = "removed" /\ e.add = p

FrontierMatch(st, E) ==
  \A a \in Readers :
    /\ \A e \in E : e.kind = "read" /\ e.reader = a => e.counter <= st.frontier[a]
    /\ \/ st.frontier[a] = 0
       \/ \E e \in E : e.kind = "read" /\ e.reader = a /\ e.counter = st.frontier[a]

\* The state of a replica is what the set of its events says it is.
Materialized ==
  \A r \in Replicas :
    /\ MessagesMatch(replica[r], applied[r])
    /\ TombstonesMatch(replica[r], applied[r])
    /\ AddsMatch(replica[r], applied[r])
    /\ RemovedMatch(replica[r], applied[r])
    /\ FrontierMatch(replica[r], applied[r])
=============================================================================
