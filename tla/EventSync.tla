------------------------------ MODULE EventSync ------------------------------
(***************************************************************************)
(* The append-only event history of an account's devices and its           *)
(* synchronisation (src/src/storage.rs next_local_event_counter,           *)
(* append_event, version_vector, missing_events_for, delete_conversation;  *)
(* src/src/main.rs sync_authorized_sibling_devices).                       *)
(*                                                                         *)
(* An event is a position, the device that wrote it and that device's      *)
(* counter, in a conversation.  A device has one counter for all its       *)
(* conversations, so the numbers it uses in one conversation have gaps.    *)
(* For every conversation a store keeps a version vector: per device, the  *)
(* end of the unbroken run 1, 2, ... of that device's events it holds.  A  *)
(* peer is sent what lies beyond its vector, so a vector that claims too   *)
(* much hides an event for ever, and one that claims too little only       *)
(* costs a repetition.                                                     *)
(*                                                                         *)
(* Every SQL statement outside a transaction is a step of its own at which *)
(* the process may stop; a device writes its own store while it takes part *)
(* in a round.  Devices are numbered in the order of their identifiers,    *)
(* the order in which a response lists their events.                       *)
(***************************************************************************)
EXTENDS Naturals, FiniteSets

CONSTANTS
  N,              \* the account's devices are 1..N
  Conversations,
  MaxCounter,     \* bound: the last counter a device allocates
  MaxCrashes,     \* bound: how often a process stops
  MaxUpsets       \* bound: events that arrive outside a round, and deletions

ASSUME BoundsAssumption ==
  {N, MaxCounter, MaxCrashes, MaxUpsets} \subseteq Nat

Devices == 1 .. N
Event == [device : Devices, counter : 1 .. MaxCounter, conversation : Conversations]
At(d, n, c) == [device |-> d, counter |-> n, conversation |-> c]

VARIABLES
  next,       \* device_counters: the next number of a device
  taken,      \* the number a device's process allocated and has not used, or 0
  written,    \* history: every event that was ever appended
  events,     \* event_history of each device's store
  vector,     \* version_vectors of each store, 0 where there is no row
  revoked,    \* devices with a stored revocation
  round,      \* the sync round in progress
  torn,       \* history: <<store, conversation>> of an interrupted deletion
  crashes, upsets

vars == <<next, taken, written, events, vector, revoked, round, torn,
          crashes, upsets>>

bounds == <<crashes, upsets>>

Idle == [phase |-> "idle"]

Round ==
  [phase : {"requested", "answered"}, left : Devices, right : Devices,
   conversation : Conversations, back : BOOLEAN,
   request : [Devices -> 0 .. MaxCounter], batch : SUBSET Event,
   had : SUBSET Event,            \* history: what either store held at the start
   barred : SUBSET Devices]       \* history: who was revoked at the start

Init ==
  /\ next = [d \in Devices |-> 1]
  /\ taken = [d \in Devices |-> 0]
  /\ written = {}
  /\ events = [s \in Devices |-> {}]
  /\ vector = [s \in Devices |-> [c \in Conversations |-> [d \in Devices |-> 0]]]
  /\ revoked = {}
  /\ round = Idle
  /\ torn = {}
  /\ crashes = 0 /\ upsets = 0

(***************************************************************************)
(* A store.                                                                *)
(***************************************************************************)
\* The mutants of this module stand before the definitions they replace.
ContiguousToLast(E, c, d) ==
  LET held == {n \in 1 .. MaxCounter : At(d, n, c) \in E}
  IN  IF held = {} THEN 0 ELSE CHOOSE n \in held : \A m \in held : m <= n

\* refresh_vector_for_device: the end of the run that starts at 1.
Contiguous(E, c, d) ==
  CHOOSE k \in 0 .. MaxCounter :
    (\A n \in 1 .. k : At(d, n, c) \in E) /\ At(d, k + 1, c) \notin E

\* INSERT OR IGNORE on the key (device_id, counter).
Inserted(E, e) ==
  IF \E f \in E : f.device = e.device /\ f.counter = e.counter THEN E ELSE E \cup {e}

Insert(s, e) ==
  /\ events' = [events EXCEPT ![s] = Inserted(events[s], e)]
  /\ written' = written \cup {e}

\* append_event: the insert, then the refresh of the event's own entry.
Append(s, e) ==
  /\ Insert(s, e)
  /\ vector' = [vector EXCEPT ![s][e.conversation][e.device] =
                  Contiguous(events'[s], e.conversation, e.device)]

MissingFromNext(s, c, request) ==
  {e \in events[s] : e.conversation = c /\ e.counter > request[e.device] + 1}

\* missing_events_for: what the peer's vector does not cover.
Missing(s, c, request) ==
  {e \in events[s] : e.conversation = c /\ e.counter > request[e.device]}

(***************************************************************************)
(* A device writes.                                                        *)
(***************************************************************************)
NextLocalEventCounterUnsaved(d) ==
  /\ taken[d] = 0
  /\ next[d] <= MaxCounter
  /\ taken' = [taken EXCEPT ![d] = next[d]]
  /\ UNCHANGED <<next, written, events, vector, revoked, round, torn, bounds>>

\* next_local_event_counter commits the new counter before the number is used.
NextLocalEventCounter(d) ==
  /\ taken[d] = 0
  /\ next[d] <= MaxCounter
  /\ next' = [next EXCEPT ![d] = next[d] + 1]
  /\ taken' = [taken EXCEPT ![d] = next[d]]
  /\ UNCHANGED <<written, events, vector, revoked, round, torn, bounds>>

AppendLocal(d, c) ==
  /\ taken[d] # 0
  /\ Append(d, At(d, taken[d], c))
  /\ taken' = [taken EXCEPT ![d] = 0]
  /\ UNCHANGED <<next, revoked, round, torn, bounds>>

TakesPart(d) == round # Idle /\ d \in {round.left, round.right}

\* The process of d stops: its allocated number is lost, and so is a round
\* that it takes part in.
Stopped(d) ==
  /\ crashes < MaxCrashes
  /\ crashes' = crashes + 1
  /\ taken' = [taken EXCEPT ![d] = 0]
  /\ round' = IF TakesPart(d) THEN Idle ELSE round
  /\ UNCHANGED <<next, revoked, upsets>>

Stop(d) ==
  /\ taken[d] # 0 \/ TakesPart(d)
  /\ Stopped(d)
  /\ UNCHANGED <<written, events, vector, torn>>

\* It stops between the insert of its event and the refresh of its vector.
AppendLocalStop(d, c) ==
  /\ taken[d] # 0
  /\ Insert(d, At(d, taken[d], c))
  /\ Stopped(d)
  /\ UNCHANGED <<vector, torn>>

\* An event arrives on its own: late, again, or before its predecessors.  That
\* nobody sends one to a revoked device is an assumption about the senders:
\* append_event looks at no revocation.
Stray(s, e) ==
  /\ upsets < MaxUpsets
  /\ s \notin revoked
  /\ Append(s, e)
  /\ upsets' = upsets + 1
  /\ UNCHANGED <<next, taken, revoked, round, torn, crashes>>

(***************************************************************************)
(* delete_conversation: the events go first, then the vector.  When one of *)
(* the two stores of a round deletes its conversation, what was there is   *)
(* no longer owed to the round.                                            *)
(***************************************************************************)
Emptied(s, c) ==
  /\ upsets < MaxUpsets
  /\ \E e \in events[s] : e.conversation = c
  /\ events' = [events EXCEPT ![s] = {e \in @ : e.conversation # c}]
  /\ upsets' = upsets + 1
  /\ UNCHANGED <<next, written, revoked>>

\* DELETE FROM version_vectors for the conversation.
VectorDeleted(s, c) == [vector EXCEPT ![s][c] = [d \in Devices |-> 0]]

DeleteConversation(s, c) ==
  /\ Emptied(s, c)
  /\ vector' = VectorDeleted(s, c)
  /\ torn' = torn \ {<<s, c>>}
  /\ round' = IF TakesPart(s) /\ round.conversation = c THEN [round EXCEPT !.had = {}]
              ELSE round
  /\ UNCHANGED <<taken, crashes>>

DeleteConversationStop(s, c) ==
  /\ Emptied(s, c)
  /\ torn' = torn \cup {<<s, c>>}
  /\ crashes < MaxCrashes
  /\ crashes' = crashes + 1
  /\ taken' = [taken EXCEPT ![s] = 0]
  /\ round' = IF TakesPart(s) THEN Idle ELSE round
  /\ UNCHANGED vector

(***************************************************************************)
(* A round of sync_authorized_sibling_devices: right asks with its vector, *)
(* left answers, right appends; then the same the other way round.         *)
(***************************************************************************)
Revoke(d) ==
  /\ d \notin revoked
  /\ revoked' = revoked \cup {d}
  /\ UNCHANGED <<next, taken, written, events, vector, round, torn, bounds>>

AuthorizedLeft(l, r) == l # r /\ l \notin revoked

\* verify_authorized_sibling_devices, then is_device_currently_authorized of both.
Authorized(l, r) == l # r /\ l \notin revoked /\ r \notin revoked

In(s, c) == {e \in events[s] : e.conversation = c}

StartRound(l, r, c) ==
  /\ round = Idle
  /\ Authorized(l, r)
  /\ round' = [phase |-> "requested", left |-> l, right |-> r, conversation |-> c,
               back |-> FALSE, request |-> vector[r][c], batch |-> {},
               had |-> In(l, c) \cup In(r, c), barred |-> revoked]
  /\ UNCHANGED <<next, taken, written, events, vector, revoked, torn, bounds>>

Asker == IF round.back THEN round.left ELSE round.right
Answerer == IF round.back THEN round.right ELSE round.left

Answer ==
  /\ round # Idle
  /\ round.phase = "requested"
  /\ round' = [round EXCEPT !.phase = "answered",
                            !.batch = Missing(Answerer, round.conversation, round.request)]
  /\ UNCHANGED <<next, taken, written, events, vector, revoked, torn, bounds>>

\* ORDER BY device_id, counter.
First(batch) ==
  CHOOSE e \in batch : \A f \in batch :
    e.device < f.device \/ (e.device = f.device /\ e.counter <= f.counter)

\* append_events applies the response one event at a time.
AppendNext ==
  /\ round # Idle
  /\ round.batch # {}
  /\ Append(Asker, First(round.batch))
  /\ round' = [round EXCEPT !.batch = @ \ {First(@)}]
  /\ UNCHANGED <<next, taken, revoked, torn, bounds>>

AppendNextStop ==
  /\ round # Idle
  /\ round.batch # {}
  /\ Insert(Asker, First(round.batch))
  /\ Stopped(Asker)
  /\ UNCHANGED <<vector, torn>>

AskBack ==
  /\ round # Idle
  /\ round.phase = "answered" /\ round.batch = {} /\ ~round.back
  /\ round' = [round EXCEPT !.phase = "requested", !.back = TRUE,
                            !.request = vector[round.left][round.conversation]]
  /\ UNCHANGED <<next, taken, written, events, vector, revoked, torn, bounds>>

RoundOver == round # Idle /\ round.phase = "answered" /\ round.batch = {} /\ round.back

EndRound ==
  /\ RoundOver
  /\ round' = Idle
  /\ UNCHANGED <<next, taken, written, events, vector, revoked, torn, bounds>>

Next ==
  \/ \E d \in Devices : NextLocalEventCounter(d) \/ Stop(d) \/ Revoke(d)
  \/ \E d \in Devices, c \in Conversations :
       \/ AppendLocal(d, c) \/ AppendLocalStop(d, c)
       \/ DeleteConversation(d, c) \/ DeleteConversationStop(d, c)
  \/ \E s \in Devices, e \in written : Stray(s, e)
  \/ \E l, r \in Devices, c \in Conversations : StartRound(l, r, c)
  \/ Answer \/ AppendNext \/ AppendNextStop \/ AskBack \/ EndRound

Spec == Init /\ [][Next]_vars

(***************************************************************************)
(* Properties.                                                             *)
(***************************************************************************)
\* The shape of the tables, and of the round in progress.  A position names one
\* event everywhere: no counter is used for two events, across crashes
\* (next_local_event_counter), so INSERT OR IGNORE never drops a different event
\* as a duplicate.
TypeOK ==
  /\ next \in [Devices -> 1 .. MaxCounter + 1]
  /\ taken \in [Devices -> 0 .. MaxCounter]
  /\ written \subseteq Event
  /\ \A e, f \in written : e.device = f.device /\ e.counter = f.counter => e = f
  /\ events \in [Devices -> SUBSET Event]
  /\ vector \in [Devices -> [Conversations -> [Devices -> 0 .. MaxCounter]]]
  /\ revoked \subseteq Devices
  /\ round \in Round \cup {Idle}
  /\ torn \subseteq Devices \X Conversations
  /\ crashes \in 0 .. MaxCrashes /\ upsets \in 0 .. MaxUpsets

\* A version vector never claims an event its store does not hold
\* (refresh_vector_for_device): peers withhold for ever what a vector claims.
\* The one exception is a conversation whose deletion was interrupted.
VectorSound ==
  \A s \in Devices, e \in written :
    (/\ e.counter <= vector[s][e.conversation][e.device]
     /\ <<s, e.conversation>> \notin torn) => e \in events[s]

\* When sync_authorized_sibling_devices returns, both stores hold everything
\* either held when it started, whatever was written, or arrived out of order,
\* or was interrupted before, unless a store's deletion was interrupted.
RoundConverges ==
  (/\ RoundOver
   /\ \A s \in {round.left, round.right} : <<s, round.conversation>> \notin torn)
  => round.had \subseteq events[round.left] \cap events[round.right]

\* A revoked device's store gains nothing that another device wrote, once a
\* round that was running when it was revoked is over
\* (is_device_currently_authorized of both sides).
RevokedIsCutOff ==
  [][\A d \in revoked :
       (round = Idle \/ d \notin {round.left, round.right} \ round.barred) =>
         \A e \in events'[d] \ events[d] : e.device = d]_vars
=============================================================================
