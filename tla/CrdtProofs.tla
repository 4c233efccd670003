------------------------------ MODULE CrdtProofs -----------------------------
(***************************************************************************)
(* Replicas converge for every set of events, of replicas and of values.   *)
(* The argument: each of the five maps of materialize_conversation is      *)
(* determined by the set of events applied so far (Materialized), because  *)
(* each arm of the loop keeps it so wherever in the order its event comes. *)
(* Two replicas with the same set then hold the same maps.                 *)
(***************************************************************************)
EXTENDS Crdt, TLAPS

\* The five parts of Materialized for one replica.
Match(st, E) ==
  /\ MessagesMatch(st, E)
  /\ TombstonesMatch(st, E)
  /\ AddsMatch(st, E)
  /\ RemovedMatch(st, E)
  /\ FrontierMatch(st, E)

\* The kind of an event says which fields it has.
LEMMA EventKinds ==
  ASSUME NEW e \in Events
  PROVE  /\ e.kind \in {"created", "deleted", "added", "removed", "read"}
         /\ e.pos \in Positions
         /\ e.kind = "created" => e.message \in Messages /\ e.body \in Bodies
         /\ e.kind = "deleted" => e.message \in Messages
         /\ e.kind = "added" => e.message \in Messages /\ e.reaction \in Reactions
         /\ e.kind = "removed" => e.add \in Positions
         /\ e.kind = "read" => e.reader \in Readers /\ e.counter \in 0 .. MaxRead
BY EventsAssumption DEF Created, Deleted, Added, Removed, Read

\* Each arm of the loop keeps the shape of the maps.
LEMMA ArmTypes ==
  ASSUME NEW st \in State, NEW e \in Events
  PROVE  /\ e.kind = "created" => AfterCreated(st, e) \in State
         /\ e.kind = "deleted" => AfterDeleted(st, e) \in State
         /\ e.kind = "added" => AfterAdded(st, e) \in State
         /\ e.kind = "removed" => AfterRemoved(st, e) \in State
         /\ e.kind = "read" => AfterRead(st, e) \in State
<1>1. ASSUME e.kind = "created" PROVE AfterCreated(st, e) \in State
  <2>1. e.message \in Messages /\ e.body \in Bodies
    BY <1>1, EventKinds
  <2>2. [exists |-> TRUE, body |-> e.body, deleted |-> e.message \in st.tombstones]
          \in MessageState
    BY <2>1 DEF MessageState
  <2>. QED
    BY <2>1, <2>2 DEF AfterCreated, State
<1>2. ASSUME e.kind = "deleted" PROVE AfterDeleted(st, e) \in State
  <2>1. e.message \in Messages
    BY <1>2, EventKinds
  <2>2. ASSUME st.messages[e.message] # None
        PROVE  [exists |-> TRUE, body |-> st.messages[e.message].body, deleted |-> TRUE]
                 \in MessageState
    BY <2>1, <2>2 DEF State, MessageState
  <2>. QED
    BY <2>1, <2>2 DEF AfterDeleted, State
<1>3. ASSUME e.kind = "added" PROVE AfterAdded(st, e) \in State
  BY <1>3, EventKinds DEF AfterAdded, State, ReactionAdd
<1>4. ASSUME e.kind = "removed" PROVE AfterRemoved(st, e) \in State
  BY <1>4, EventKinds DEF AfterRemoved, State
<1>5. ASSUME e.kind = "read" PROVE AfterRead(st, e) \in State
  BY <1>5, EventKinds, EventsAssumption DEF AfterRead, State
<1>. QED
  BY <1>1, <1>2, <1>3, <1>4, <1>5

\* A step applies one event to one replica.
LEMMA StepApplies ==
  ASSUME TypeOK, Next
  PROVE  \E r \in Replicas, e \in Events, st \in State :
           /\ Applies(r, e, st)
           /\ \/ e.kind = "created" /\ st = AfterCreated(replica[r], e)
              \/ e.kind = "deleted" /\ st = AfterDeleted(replica[r], e)
              \/ e.kind = "added" /\ st = AfterAdded(replica[r], e)
              \/ e.kind = "removed" /\ st = AfterRemoved(replica[r], e)
              \/ e.kind = "read" /\ st = AfterRead(replica[r], e)
<1>. PICK r \in Replicas, e \in Events :
       \/ MessageCreated(r, e) \/ MessageDeleted(r, e)
       \/ ReactionAdded(r, e) \/ ReactionRemoved(r, e) \/ ReadAdvanced(r, e)
  BY DEF Next
<1>1. replica[r] \in State
  BY DEF TypeOK
<1>. QED
  BY <1>1, ArmTypes
  DEF MessageCreated, MessageDeleted, ReactionAdded, ReactionRemoved, ReadAdvanced

\* The maps stay in their types (materialize_conversation).
THEOREM TypeCorrect == Spec => []TypeOK
<1>1. Init => TypeOK
  BY EventsAssumption DEF Init, TypeOK, Empty, State
<1>2. TypeOK /\ [Next]_vars => TypeOK'
  <2>. SUFFICES ASSUME TypeOK, [Next]_vars PROVE TypeOK'
    OBVIOUS
  <2>1. CASE Next
    BY <2>1, StepApplies DEF Applies, TypeOK
  <2>2. CASE UNCHANGED vars
    BY <2>2 DEF TypeOK, vars
  <2>. QED
    BY <2>1, <2>2
<1>. QED
  BY <1>1, <1>2, PTL DEF Spec

\* A creation, wherever it comes in the order (or_insert and the tombstone).
LEMMA CreatedMatches ==
  ASSUME NEW st \in State, NEW E \in SUBSET Events, NEW e \in Events,
         e.kind = "created", Match(st, E)
  PROVE  Match(AfterCreated(st, e), E \cup {e})
<1>. DEFINE t == AfterCreated(st, e)
<1>1. e.message \in Messages /\ e.body \in Bodies
  BY EventKinds
<1>2. /\ t.tombstones = st.tombstones /\ t.adds = st.adds
      /\ t.removed = st.removed /\ t.frontier = st.frontier
  BY DEF AfterCreated, State
<1>3. /\ \A m \in Messages \ {e.message} : t.messages[m] = st.messages[m]
      /\ t.messages[e.message] =
           IF st.messages[e.message] = None
           THEN [exists |-> TRUE, body |-> e.body, deleted |-> e.message \in st.tombstones]
           ELSE st.messages[e.message]
  BY <1>1 DEF AfterCreated, State
<1>4. MessagesMatch(t, E \cup {e})
  <2>1. t.messages[e.message] # None
    BY <1>3 DEF None
  <2>2. \A f \in E : f.kind = "created" /\ f.message = e.message => f.body = e.body
    BY EventsAssumption
  <2>3. t.messages[e.message].body = e.body
    BY <1>1, <1>3, <2>2 DEF Match, MessagesMatch
  <2>4. t.messages[e.message].deleted = (e.message \in st.tombstones)
    BY <1>1, <1>3 DEF Match, MessagesMatch
  <2>. QED
    BY <1>1, <1>2, <1>3, <2>1, <2>2, <2>3, <2>4 DEF Match, MessagesMatch
<1>5. TombstonesMatch(t, E \cup {e})
  BY <1>2 DEF Match, TombstonesMatch
<1>6. AddsMatch(t, E \cup {e})
  BY <1>2 DEF Match, AddsMatch
<1>7. RemovedMatch(t, E \cup {e})
  BY <1>2 DEF Match, RemovedMatch
<1>8. FrontierMatch(t, E \cup {e})
  BY <1>2 DEF Match, FrontierMatch
<1>. QED
  BY <1>4, <1>5, <1>6, <1>7, <1>8 DEF Match

\* A deletion, before or after the creation of its message.
LEMMA DeletedMatches ==
  ASSUME NEW st \in State, NEW E \in SUBSET Events, NEW e \in Events,
         e.kind = "deleted", Match(st, E)
  PROVE  Match(AfterDeleted(st, e), E \cup {e})
<1>. DEFINE t == AfterDeleted(st, e)
<1>1. e.message \in Messages
  BY EventKinds
<1>2. /\ t.tombstones = st.tombstones \cup {e.message} /\ t.adds = st.adds
      /\ t.removed = st.removed /\ t.frontier = st.frontier
  BY DEF AfterDeleted, State
<1>3. /\ \A m \in Messages \ {e.message} : t.messages[m] = st.messages[m]
      /\ t.messages[e.message] =
           IF st.messages[e.message] = None THEN None
           ELSE [exists |-> TRUE, body |-> st.messages[e.message].body, deleted |-> TRUE]
  BY <1>1 DEF AfterDeleted, State
<1>4. MessagesMatch(t, E \cup {e})
  <2>1. t.messages[e.message] # None <=> st.messages[e.message] # None
    BY <1>3 DEF None
  <2>2. st.messages[e.message] # None =>
          /\ t.messages[e.message].deleted = TRUE
          /\ t.messages[e.message].body = st.messages[e.message].body
    BY <1>3
  <2>3. \A f \in E : f.kind = "created" /\ f.message = e.message
                       => st.messages[e.message] # None
    BY <1>1 DEF Match, MessagesMatch
  <2>4. \A m \in Messages :
          t.messages[m] # None <=> \E f \in E \cup {e} : f.kind = "created" /\ f.message = m
    BY <1>3, <2>1 DEF Match, MessagesMatch
  <2>5. \A m \in Messages : t.messages[m] # None => t.messages[m].deleted = (m \in t.tombstones)
    <3>1. \A m \in Messages \ {e.message} :
            t.messages[m] # None => t.messages[m].deleted = (m \in t.tombstones)
      BY <1>2, <1>3 DEF Match, MessagesMatch
    <3>2. t.messages[e.message] # None
            => t.messages[e.message].deleted = (e.message \in t.tombstones)
      BY <1>2, <2>1, <2>2
    <3>. QED
      BY <3>1, <3>2
  <2>6. \A m \in Messages, f \in E \cup {e} :
          f.kind = "created" /\ f.message = m => t.messages[m].body = f.body
    <3>. SUFFICES ASSUME NEW m \in Messages, NEW f \in E, f.kind = "created", f.message = m
                  PROVE  t.messages[m].body = f.body
      OBVIOUS
    <3>1. st.messages[m].body = f.body
      BY DEF Match, MessagesMatch
    <3>. QED
      BY <1>3, <2>2, <2>3, <3>1
  <2>. QED
    BY <2>4, <2>5, <2>6 DEF MessagesMatch
<1>5. TombstonesMatch(t, E \cup {e})
  BY <1>1, <1>2 DEF Match, TombstonesMatch
<1>6. AddsMatch(t, E \cup {e})
  BY <1>2 DEF Match, AddsMatch
<1>7. RemovedMatch(t, E \cup {e})
  BY <1>2 DEF Match, RemovedMatch
<1>8. FrontierMatch(t, E \cup {e})
  BY <1>2 DEF Match, FrontierMatch
<1>. QED
  BY <1>4, <1>5, <1>6, <1>7, <1>8 DEF Match

\* A reaction: its position names it, so adding it again changes nothing.
LEMMA AddedMatches ==
  ASSUME NEW st \in State, NEW E \in SUBSET Events, NEW e \in Events,
         e.kind = "added", Match(st, E)
  PROVE  Match(AfterAdded(st, e), E \cup {e})
<1>. DEFINE t == AfterAdded(st, e)
            new == [pos |-> e.pos, message |-> e.message, reaction |-> e.reaction]
<1>1. /\ t.messages = st.messages /\ t.tombstones = st.tombstones
      /\ t.removed = st.removed /\ t.frontier = st.frontier
      /\ t.adds = {a \in st.adds : a.pos # e.pos} \cup {new}
  BY DEF AfterAdded, State
<1>2. AddsMatch(t, E \cup {e})
  <2>. SUFFICES ASSUME NEW a \in ReactionAdd
                PROVE  a \in t.adds <=>
                         \E f \in E \cup {e} : /\ f.kind = "added" /\ f.pos = a.pos
                                               /\ f.message = a.message
                                               /\ f.reaction = a.reaction
    BY DEF AddsMatch
  <2>1. CASE a.pos # e.pos
    <3>1. a \in t.adds <=> a \in st.adds
      BY <1>1, <2>1
    <3>. QED
      BY <2>1, <3>1 DEF Match, AddsMatch
  <2>2. CASE a.pos = e.pos
    <3>1. a \in t.adds <=> a = new
      BY <1>1, <2>2
    <3>2. a = new <=> a.message = e.message /\ a.reaction = e.reaction
      BY <2>2 DEF ReactionAdd
    <3>3. \A f \in E \cup {e} : f.pos = a.pos => f = e
      BY <2>2, EventsAssumption
    <3>. QED
      BY <2>2, <3>1, <3>2, <3>3
  <2>. QED
    BY <2>1, <2>2
<1>3. MessagesMatch(t, E \cup {e})
  BY <1>1 DEF Match, MessagesMatch
<1>4. TombstonesMatch(t, E \cup {e})
  BY <1>1 DEF Match, TombstonesMatch
<1>5. RemovedMatch(t, E \cup {e})
  BY <1>1 DEF Match, RemovedMatch
<1>6. FrontierMatch(t, E \cup {e})
  BY <1>1 DEF Match, FrontierMatch
<1>. QED
  BY <1>2, <1>3, <1>4, <1>5, <1>6 DEF Match

\* The removal of a reaction, before or after the reaction itself.
LEMMA RemovedMatches ==
  ASSUME NEW st \in State, NEW E \in SUBSET Events, NEW e \in Events,
         e.kind = "removed", Match(st, E)
  PROVE  Match(AfterRemoved(st, e), E \cup {e})
<1>. DEFINE t == AfterRemoved(st, e)
<1>1. /\ t.messages = st.messages /\ t.tombstones = st.tombstones
      /\ t.adds = st.adds /\ t.frontier = st.frontier
      /\ t.removed = st.removed \cup {e.add}
  BY DEF AfterRemoved, State
<1>2. RemovedMatch(t, E \cup {e})
  BY <1>1, EventKinds DEF Match, RemovedMatch
<1>3. MessagesMatch(t, E \cup {e})
  BY <1>1 DEF Match, MessagesMatch
<1>4. TombstonesMatch(t, E \cup {e})
  BY <1>1 DEF Match, TombstonesMatch
<1>5. AddsMatch(t, E \cup {e})
  BY <1>1 DEF Match, AddsMatch
<1>6. FrontierMatch(t, E \cup {e})
  BY <1>1 DEF Match, FrontierMatch
<1>. QED
  BY <1>2, <1>3, <1>4, <1>5, <1>6 DEF Match

\* A read event moves a frontier to the largest counter seen.
LEMMA ReadMatches ==
  ASSUME NEW st \in State, NEW E \in SUBSET Events, NEW e \in Events,
         e.kind = "read", Match(st, E)
  PROVE  Match(AfterRead(st, e), E \cup {e})
<1>. DEFINE t == AfterRead(st, e)
<1>1. e.reader \in Readers /\ e.counter \in 0 .. MaxRead /\ MaxRead \in Nat
  BY EventKinds, EventsAssumption
<1>2. /\ t.messages = st.messages /\ t.tombstones = st.tombstones
      /\ t.adds = st.adds /\ t.removed = st.removed
  BY DEF AfterRead, State
<1>3. /\ \A a \in Readers \ {e.reader} : t.frontier[a] = st.frontier[a]
      /\ t.frontier[e.reader] = IF st.frontier[e.reader] < e.counter
                                THEN e.counter ELSE st.frontier[e.reader]
  BY <1>1 DEF AfterRead, State
<1>4. FrontierMatch(t, E \cup {e})
  <2>. SUFFICES ASSUME NEW a \in Readers
                PROVE  /\ \A f \in E \cup {e} :
                            f.kind = "read" /\ f.reader = a => f.counter <= t.frontier[a]
                       /\ \/ t.frontier[a] = 0
                          \/ \E f \in E \cup {e} : /\ f.kind = "read" /\ f.reader = a
                                                   /\ f.counter = t.frontier[a]
    BY DEF FrontierMatch
  <2>1. CASE a # e.reader
    BY <1>3, <2>1 DEF Match, FrontierMatch
  <2>2. CASE a = e.reader
    <3>1. st.frontier[a] \in Nat /\ \A f \in E : f.kind = "read" => f.counter \in Nat
      BY <1>1, EventKinds DEF State
    <3>2. \A f \in E \cup {e} : f.kind = "read" /\ f.reader = a => f.counter <= t.frontier[a]
      BY <1>1, <1>3, <2>2, <3>1 DEF Match, FrontierMatch
    <3>3. \/ t.frontier[a] = 0
          \/ \E f \in E \cup {e} : f.kind = "read" /\ f.reader = a /\ f.counter = t.frontier[a]
      BY <1>1, <1>3, <2>2 DEF Match, FrontierMatch
    <3>. QED
      BY <3>2, <3>3
  <2>. QED
    BY <2>1, <2>2
<1>5. MessagesMatch(t, E \cup {e})
  BY <1>2 DEF Match, MessagesMatch
<1>6. TombstonesMatch(t, E \cup {e})
  BY <1>2 DEF Match, TombstonesMatch
<1>7. AddsMatch(t, E \cup {e})
  BY <1>2 DEF Match, AddsMatch
<1>8. RemovedMatch(t, E \cup {e})
  BY <1>2 DEF Match, RemovedMatch
<1>. QED
  BY <1>4, <1>5, <1>6, <1>7, <1>8 DEF Match

\* At every moment the maps are what the set of applied events says they are.
THEOREM MaterializesTheSet == Spec => []Materialized
<1>1. Init => Materialized
  <2>. SUFFICES ASSUME Init, NEW r \in Replicas PROVE Match(replica[r], applied[r])
    BY DEF Materialized, Match
  <2>1. replica[r] = Empty /\ applied[r] = {}
    BY DEF Init
  <2>. QED
    BY <2>1 DEF Match, Empty, MessagesMatch, TombstonesMatch, AddsMatch, RemovedMatch,
                FrontierMatch
<1>2. TypeOK /\ Materialized /\ [Next]_vars => Materialized'
  <2>. SUFFICES ASSUME TypeOK, Materialized, [Next]_vars PROVE Materialized'
    OBVIOUS
  <2>1. \A r \in Replicas : Match(replica[r], applied[r])
    BY DEF Materialized, Match
  <2>2. CASE Next
    <3>. PICK r \in Replicas, e \in Events, st \in State :
           /\ Applies(r, e, st)
           /\ \/ e.kind = "created" /\ st = AfterCreated(replica[r], e)
              \/ e.kind = "deleted" /\ st = AfterDeleted(replica[r], e)
              \/ e.kind = "added" /\ st = AfterAdded(replica[r], e)
              \/ e.kind = "removed" /\ st = AfterRemoved(replica[r], e)
              \/ e.kind = "read" /\ st = AfterRead(replica[r], e)
      BY <2>2, StepApplies
    <3>1. replica[r] \in State /\ applied[r] \in SUBSET Events
      BY DEF TypeOK
    <3>2. Match(st, applied[r] \cup {e})
      BY <2>1, <3>1, CreatedMatches, DeletedMatches, AddedMatches, RemovedMatches, ReadMatches
    <3>3. \A s \in Replicas : Match(replica'[s], applied'[s])
      BY <2>1, <3>2 DEF Applies, TypeOK
    <3>. QED
      BY <3>3 DEF Materialized, Match
  <2>3. CASE UNCHANGED vars
    BY <2>3 DEF Materialized, vars
  <2>. QED
    BY <2>2, <2>3
<1>. QED
  BY <1>1, <1>2, TypeCorrect, PTL DEF Spec

\* A message state is its body and its deletion mark.
LEMMA SameMessageState ==
  ASSUME NEW x \in MessageState, NEW y \in MessageState,
         x.body = y.body, x.deleted = y.deleted
  PROVE  x = y
<1>1. x = [exists |-> x.exists, body |-> x.body, deleted |-> x.deleted]
  BY DEF MessageState
<1>2. y = [exists |-> y.exists, body |-> y.body, deleted |-> y.deleted]
  BY DEF MessageState
<1>3. x.exists = TRUE /\ y.exists = TRUE
  BY Zenon DEF MessageState
<1>. QED
  BY <1>1, <1>2, <1>3, Zenon

\* The set of events determines the maps.
LEMMA MatchIsUnique ==
  ASSUME NEW st \in State, NEW tt \in State, NEW E \in SUBSET Events,
         Match(st, E), Match(tt, E)
  PROVE  View(st) = View(tt)
<1>1. st.tombstones = tt.tombstones
  BY DEF State, Match, TombstonesMatch
<1>2. \A m \in Messages : st.messages[m] = tt.messages[m]
  <2>. SUFFICES ASSUME NEW m \in Messages PROVE st.messages[m] = tt.messages[m]
    OBVIOUS
  <2>1. st.messages[m] # None <=> tt.messages[m] # None
    BY DEF Match, MessagesMatch
  <2>2. ASSUME st.messages[m] # None PROVE st.messages[m] = tt.messages[m]
    <3>1. PICK e \in E : e.kind = "created" /\ e.message = m
      BY <2>2 DEF Match, MessagesMatch
    <3>2. st.messages[m].body = e.body /\ tt.messages[m].body = e.body
      BY <3>1 DEF Match, MessagesMatch
    <3>3. st.messages[m].deleted = tt.messages[m].deleted
      BY <1>1, <2>1, <2>2 DEF Match, MessagesMatch
    <3>4. st.messages[m] \in MessageState /\ tt.messages[m] \in MessageState
      BY <2>1, <2>2 DEF State
    <3>. QED
      BY <3>2, <3>3, <3>4, SameMessageState
  <2>. QED
    BY <2>1, <2>2
<1>3. st.adds = tt.adds
  BY DEF State, Match, AddsMatch
<1>4. st.removed = tt.removed
  BY DEF State, Match, RemovedMatch
<1>5. \A a \in Readers : st.frontier[a] = tt.frontier[a]
  <2>. SUFFICES ASSUME NEW a \in Readers PROVE st.frontier[a] = tt.frontier[a]
    OBVIOUS
  <2>1. st.frontier[a] \in Nat /\ tt.frontier[a] \in Nat
    BY EventsAssumption DEF State
  <2>2. st.frontier[a] <= tt.frontier[a]
    BY <2>1 DEF Match, FrontierMatch
  <2>3. tt.frontier[a] <= st.frontier[a]
    BY <2>1 DEF Match, FrontierMatch
  <2>. QED
    BY <2>1, <2>2, <2>3
<1>6. st.frontier = tt.frontier
  BY <1>5 DEF State
<1>7. \A m \in Messages : Visible(st, m) = Visible(tt, m)
  BY <1>2, <1>3, <1>4 DEF Visible
<1>. QED
  BY <1>1, <1>2, <1>6, <1>7 DEF View

\* Replicas that applied the same events show the same conversation.
THEOREM ReplicasConverge == Spec => []Converged
<1>1. TypeOK /\ Materialized => Converged
  <2>. SUFFICES ASSUME TypeOK, Materialized,
                       NEW r \in Replicas, NEW s \in Replicas, applied[r] = applied[s]
                PROVE  View(replica[r]) = View(replica[s])
    BY DEF Converged
  <2>1. Match(replica[r], applied[r]) /\ Match(replica[s], applied[r])
    BY DEF Materialized, Match
  <2>. QED
    BY <2>1, MatchIsUnique DEF TypeOK
<1>. QED
  BY <1>1, TypeCorrect, MaterializesTheSet, PTL

\* No arm of the loop shrinks the tombstones or moves a frontier back.
LEMMA ArmsGrow ==
  ASSUME NEW st \in State, NEW e \in Events, NEW t \in State,
         \/ e.kind = "created" /\ t = AfterCreated(st, e)
         \/ e.kind = "deleted" /\ t = AfterDeleted(st, e)
         \/ e.kind = "added" /\ t = AfterAdded(st, e)
         \/ e.kind = "removed" /\ t = AfterRemoved(st, e)
         \/ e.kind = "read" /\ t = AfterRead(st, e)
  PROVE  /\ st.tombstones \subseteq t.tombstones
         /\ \A a \in Readers : t.frontier[a] >= st.frontier[a]
<1>1. \A a \in Readers : st.frontier[a] \in Nat
  BY EventsAssumption DEF State
<1>2. CASE e.kind = "created" /\ t = AfterCreated(st, e)
  BY <1>1, <1>2 DEF AfterCreated, State
<1>3. CASE e.kind = "deleted" /\ t = AfterDeleted(st, e)
  BY <1>1, <1>3 DEF AfterDeleted, State
<1>4. CASE e.kind = "added" /\ t = AfterAdded(st, e)
  BY <1>1, <1>4 DEF AfterAdded, State
<1>5. CASE e.kind = "removed" /\ t = AfterRemoved(st, e)
  BY <1>1, <1>5 DEF AfterRemoved, State
<1>6. CASE e.kind = "read" /\ t = AfterRead(st, e)
  <2>1. e.reader \in Readers /\ e.counter \in Nat
    BY <1>6, EventKinds, EventsAssumption
  <2>. QED
    BY <1>1, <1>6, <2>1 DEF AfterRead, State
<1>. QED
  BY <1>2, <1>3, <1>4, <1>5, <1>6

\* Deletions and reads are final at every replica, whatever arrives later.
THEOREM NothingIsUndone == Spec => NeverUndone
<1>1. ASSUME TypeOK, Materialized', Next, NEW r \in Replicas
      PROVE  /\ \A m \in replica[r].tombstones :
                  m \in replica'[r].tombstones /\
                  (replica'[r].messages[m] # None => replica'[r].messages[m].deleted)
             /\ \A a \in Readers : replica'[r].frontier[a] >= replica[r].frontier[a]
  <2>1. replica[r] \in State
    BY <1>1 DEF TypeOK
  <2>2. /\ replica[r].tombstones \subseteq replica'[r].tombstones
        /\ \A a \in Readers : replica'[r].frontier[a] >= replica[r].frontier[a]
    <3>1. PICK s \in Replicas, e \in Events, st \in State :
           /\ Applies(s, e, st)
           /\ \/ e.kind = "created" /\ st = AfterCreated(replica[s], e)
              \/ e.kind = "deleted" /\ st = AfterDeleted(replica[s], e)
              \/ e.kind = "added" /\ st = AfterAdded(replica[s], e)
              \/ e.kind = "removed" /\ st = AfterRemoved(replica[s], e)
              \/ e.kind = "read" /\ st = AfterRead(replica[s], e)
      BY <1>1, StepApplies
    <3>2. CASE s = r
      <4>1. replica'[r] = st
        BY <1>1, <3>1, <3>2 DEF Applies, TypeOK
      <4>. QED
        BY <2>1, <3>1, <3>2, <4>1, ArmsGrow
    <3>3. CASE s # r
      <4>1. replica'[r] = replica[r]
        BY <1>1, <3>1, <3>3 DEF Applies, TypeOK
      <4>2. \A a \in Readers : replica[r].frontier[a] \in Nat
        BY <2>1, EventsAssumption DEF State
      <4>. QED
        BY <4>1, <4>2
    <3>. QED
      BY <3>2, <3>3
  <2>3. \A m \in replica[r].tombstones : m \in Messages
    BY <2>1 DEF State
  <2>4. \A m \in Messages : m \in replica'[r].tombstones =>
          (replica'[r].messages[m] # None => replica'[r].messages[m].deleted = TRUE)
    BY <1>1 DEF Materialized, MessagesMatch
  <2>. QED
    BY <2>2, <2>3, <2>4
<1>2. TypeOK /\ Materialized' /\ [Next]_vars =>
        [\A r \in Replicas :
           /\ \A m \in replica[r].tombstones :
                m \in replica'[r].tombstones /\
                (replica'[r].messages[m] # None => replica'[r].messages[m].deleted)
           /\ \A a \in Readers : replica'[r].frontier[a] >= replica[r].frontier[a]]_vars
  BY <1>1
<1>. QED
  BY <1>2, TypeCorrect, MaterializesTheSet, PTL DEF Spec, NeverUndone
=============================================================================
