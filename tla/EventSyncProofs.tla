--------------------------- MODULE EventSyncProofs ---------------------------
(***************************************************************************)
(* The event history for any number of devices, conversations, counters,    *)
(* crashes and deletions: no position is used twice, a version vector       *)
(* claims only what its store holds, a finished round leaves both stores    *)
(* with what either had, and a revoked device is cut off.                   *)
(***************************************************************************)
EXTENDS EventSync, WellFoundedInduction, TLAPS

-----------------------------------------------------------------------------
(* The operators of a store                                                 *)

\* Every set of numbers has a least one.
LEMMA LeastNumber ==
  ASSUME NEW S \in SUBSET Nat, S # {}
  PROVE  \E m \in S : \A k \in S : m <= k
<1>1. IsWellFoundedOn(OpToRel(<, Nat), Nat)
  BY NatLessThanWellFounded
<1>2. PICK m \in S : \A k \in S : ~ (<<k, m>> \in OpToRel(<, Nat))
  BY <1>1, WFMin
<1>3. \A k \in S : ~ (k < m)
  BY <1>2 DEF OpToRel
<1> QED
  BY <1>3

LEMMA Bounds == N \in Nat /\ MaxCounter \in Nat /\ MaxCrashes \in Nat /\ MaxUpsets \in Nat
BY BoundsAssumption

LEMMA AtFields ==
  ASSUME NEW d, NEW n, NEW c
  PROVE  At(d, n, c).device = d /\ At(d, n, c).counter = n /\ At(d, n, c).conversation = c
BY DEF At

LEMMA EventIsAt ==
  ASSUME NEW e \in Event
  PROVE  /\ e = At(e.device, e.counter, e.conversation)
         /\ e.device \in Devices /\ e.counter \in 1 .. MaxCounter
         /\ e.conversation \in Conversations
BY DEF Event, At

LEMMA AtIsEvent ==
  ASSUME NEW d \in Devices, NEW n \in 1 .. MaxCounter, NEW c \in Conversations
  PROVE  At(d, n, c) \in Event
BY DEF Event, At

\* refresh_vector_for_device finds the end of the run of held events.
LEMMA ContiguousEnds ==
  ASSUME NEW E \in SUBSET Event, NEW c, NEW d
  PROVE  /\ Contiguous(E, c, d) \in 0 .. MaxCounter
         /\ \A n \in 1 .. Contiguous(E, c, d) : At(d, n, c) \in E
<1> DEFINE Gaps == {n \in Nat : n >= 1 /\ At(d, n, c) \notin E}
<1>1. At(d, MaxCounter + 1, c) \notin E
  BY Bounds, AtFields, EventIsAt
<1>2. MaxCounter + 1 \in Gaps
  BY <1>1, Bounds
<1>3. PICK g \in Gaps : \A k \in Gaps : g <= k
  BY <1>2, LeastNumber
<1>4. g \in Nat /\ g >= 1 /\ g <= MaxCounter + 1 /\ At(d, g, c) \notin E
  BY <1>2, <1>3
<1>5. \A n \in 1 .. g - 1 : At(d, n, c) \in E
  BY <1>3, <1>4
<1>6. g - 1 \in 0 .. MaxCounter /\ (g - 1) + 1 = g
  BY <1>4, Bounds
<1>7. \E k \in 0 .. MaxCounter :
        (\A n \in 1 .. k : At(d, n, c) \in E) /\ At(d, k + 1, c) \notin E
  BY <1>4, <1>5, <1>6
<1> QED
  BY <1>7 DEF Contiguous

\* The order of a response has a first event.
LEMMA FirstIsThere ==
  ASSUME NEW batch \in SUBSET Event, batch # {}
  PROVE  First(batch) \in batch
<1> DEFINE DeviceIds == {e.device : e \in batch}
<1>1. DeviceIds \in SUBSET Nat /\ DeviceIds # {}
  BY EventIsAt, Bounds DEF Devices
<1>2. PICK d \in DeviceIds : \A k \in DeviceIds : d <= k
  BY <1>1, LeastNumber
<1> DEFINE Counters == {e.counter : e \in {f \in batch : f.device = d}}
<1>3. Counters \in SUBSET Nat /\ Counters # {}
  BY <1>2, EventIsAt, Bounds
<1>4. PICK n \in Counters : \A k \in Counters : n <= k
  BY <1>3, LeastNumber
<1>5. PICK e \in batch : e.device = d /\ e.counter = n
  BY <1>4
<1>6. \A f \in batch : e.device < f.device \/ (e.device = f.device /\ e.counter <= f.counter)
  <2> TAKE f \in batch
  <2>1. d <= f.device /\ d \in Nat /\ f.device \in Nat
    BY <1>1, <1>2
  <2>2. CASE f.device = d
    BY <1>4, <1>5, <2>2
  <2>3. CASE f.device # d
    BY <1>5, <2>1, <2>3
  <2> QED
    BY <2>2, <2>3
<1>7. \E x \in batch : \A f \in batch :
        x.device < f.device \/ (x.device = f.device /\ x.counter <= f.counter)
  BY <1>6
<1> QED
  BY <1>7 DEF First

-----------------------------------------------------------------------------
(* The inductive invariant                                                  *)

\* A number is used once: what is allocated or written lies below the counter
\* that was saved, and what is allocated was not written yet.
CountersOK ==
  /\ next \in [Devices -> 1 .. MaxCounter + 1]
  /\ taken \in [Devices -> 0 .. MaxCounter]
  /\ \A d \in Devices : taken[d] < next[d]
  /\ \A e \in written : e.counter < next[e.device] /\ e.counter # taken[e.device]

\* A position names one event, and the stores hold what was written.
StoresOK ==
  /\ written \subseteq Event
  /\ \A e, f \in written : e.device = f.device /\ e.counter = f.counter => e = f
  /\ events \in [Devices -> SUBSET Event]
  /\ \A s \in Devices : events[s] \subseteq written

\* A vector claims an unbroken run of held events.
VectorOK ==
  /\ vector \in [Devices -> [Conversations -> [Devices -> 0 .. MaxCounter]]]
  /\ \A s, d \in Devices, c \in Conversations :
       <<s, c>> \notin torn =>
         \A n \in 1 .. vector[s][c][d] : At(d, n, c) \in events[s]

\* What a round carries was written.
RoundOK ==
  /\ round \in Round \cup {Idle}
  /\ round # Idle => round.batch \subseteq written /\ round.had \subseteq written

RestOK ==
  /\ revoked \subseteq Devices
  /\ torn \subseteq Devices \X Conversations
  /\ crashes \in 0 .. MaxCrashes /\ upsets \in 0 .. MaxUpsets

HistoryInv == CountersOK /\ StoresOK /\ VectorOK /\ RoundOK /\ RestOK

LEMMA HistoryTypes == HistoryInv => TypeOK
BY DEF HistoryInv, CountersOK, StoresOK, VectorOK, RoundOK, RestOK, TypeOK

LEMMA HistoryVectors == HistoryInv => VectorSound
<1> SUFFICES ASSUME HistoryInv, NEW s \in Devices, NEW e \in written,
                    e.counter <= vector[s][e.conversation][e.device],
                    <<s, e.conversation>> \notin torn
             PROVE  e \in events[s]
  BY DEF VectorSound
<1>1. e \in Event
  BY DEF HistoryInv, StoresOK
<1>2. vector[s][e.conversation][e.device] \in 0 .. MaxCounter
  BY <1>1, EventIsAt DEF HistoryInv, VectorOK
<1>3. e.counter \in 1 .. vector[s][e.conversation][e.device]
  BY <1>1, <1>2, EventIsAt, Bounds
<1>4. At(e.device, e.counter, e.conversation) \in events[s]
  BY <1>1, <1>3, EventIsAt DEF HistoryInv, VectorOK
<1> QED
  BY <1>1, <1>4, EventIsAt

LEMMA HistoryInit == Init => HistoryInv
<1> SUFFICES ASSUME Init PROVE HistoryInv
  OBVIOUS
<1> USE Bounds
<1>1. CountersOK /\ StoresOK
  BY DEF Init, CountersOK, StoresOK
<1>2. VectorOK
  BY DEF Init, VectorOK
<1>3. RoundOK /\ RestOK
  BY DEF Init, RoundOK, RestOK
<1> QED
  BY <1>1, <1>2, <1>3 DEF HistoryInv

-----------------------------------------------------------------------------
(* What the parts of the actions do                                         *)

\* INSERT OR IGNORE never drops a different event.
LEMMA InsertStores ==
  ASSUME StoresOK, NEW s \in Devices, NEW e \in Event, Insert(s, e),
         \/ e \in written
         \/ \A f \in written : f.device # e.device \/ f.counter # e.counter
  PROVE  /\ StoresOK'
         /\ written' = written \cup {e}
         /\ e \in events'[s]
         /\ \A t \in Devices : /\ events[t] \subseteq events'[t]
                               /\ events'[t] \subseteq events[t] \cup {e}
                               /\ t # s => events'[t] = events[t]
<1>1. written' = written \cup {e}
  BY DEF Insert
<1>2. events'[s] = Inserted(events[s], e)
  BY DEF Insert, StoresOK
<1>3. \A t \in Devices : t # s => events'[t] = events[t]
  BY DEF Insert, StoresOK
<1>4. events[s] \subseteq events'[s] /\ events'[s] \subseteq events[s] \cup {e}
  BY <1>2 DEF Inserted
<1>5. e \in events'[s]
  <2>1. CASE \E f \in events[s] : f.device = e.device /\ f.counter = e.counter
    <3>1. PICK f \in events[s] : f.device = e.device /\ f.counter = e.counter
      BY <2>1
    <3>2. f = e
      BY <3>1 DEF StoresOK
    <3> QED
      BY <1>4, <3>2
  <2>2. CASE ~ \E f \in events[s] : f.device = e.device /\ f.counter = e.counter
    BY <1>2, <2>2 DEF Inserted
  <2> QED
    BY <2>1, <2>2
<1>6. written' \subseteq Event
  BY <1>1 DEF StoresOK
<1>7. \A f, g \in written' : f.device = g.device /\ f.counter = g.counter => f = g
  BY <1>1 DEF StoresOK
<1>8. \A t \in Devices : events'[t] \subseteq written'
  BY <1>1, <1>3, <1>4 DEF StoresOK
<1>9. events' \in [Devices -> SUBSET Event]
  <2>1. events' = [events EXCEPT ![s] = events'[s]]
    BY <1>2 DEF Insert
  <2>2. events'[s] \in SUBSET Event
    BY <1>6, <1>8
  <2> QED
    BY <2>1, <2>2 DEF StoresOK
<1> QED
  BY <1>1, <1>3, <1>4, <1>5, <1>6, <1>7, <1>8, <1>9 DEF StoresOK

\* The refresh after an insert.
LEMMA RefreshVector ==
  ASSUME VectorOK, StoresOK', NEW s \in Devices, NEW e \in Event,
         \A t \in Devices : events[t] \subseteq events'[t], torn' = torn,
         vector' = [vector EXCEPT ![s][e.conversation][e.device] =
                      Contiguous(events'[s], e.conversation, e.device)]
  PROVE  VectorOK'
<1> DEFINE k == Contiguous(events'[s], e.conversation, e.device)
<1>1. events'[s] \in SUBSET Event
  BY DEF StoresOK
<1>2. k \in 0 .. MaxCounter /\ \A n \in 1 .. k : At(e.device, n, e.conversation) \in events'[s]
  BY <1>1, ContiguousEnds
<1>3. e.conversation \in Conversations /\ e.device \in Devices
  BY EventIsAt
<1> HIDE DEF k
<1>4. vector' = [vector EXCEPT ![s] = [vector[s] EXCEPT ![e.conversation] =
                   [vector[s][e.conversation] EXCEPT ![e.device] = k]]]
  BY DEF k
<1>5. vector' \in [Devices -> [Conversations -> [Devices -> 0 .. MaxCounter]]]
  BY <1>2, <1>3, <1>4 DEF VectorOK
<1>6. ASSUME NEW t \in Devices, NEW d \in Devices, NEW c \in Conversations,
             <<t, c>> \notin torn', NEW n \in 1 .. vector'[t][c][d]
      PROVE  At(d, n, c) \in events'[t]
  <2>1. CASE t = s /\ c = e.conversation /\ d = e.device
    <3>1. vector'[t][c][d] = k
      BY <1>3, <1>4, <2>1 DEF VectorOK
    <3> QED
      BY <1>2, <1>6, <2>1, <3>1
  <2>2. CASE ~(t = s /\ c = e.conversation /\ d = e.device)
    <3>1. vector'[t][c][d] = vector[t][c][d]
      BY <1>3, <1>4, <2>2 DEF VectorOK
    <3>2. At(d, n, c) \in events[t]
      BY <1>6, <3>1 DEF VectorOK
    <3> QED
      BY <3>2
  <2> QED
    BY <2>1, <2>2
<1> QED
  BY <1>5, <1>6 DEF VectorOK

\* No refresh, and nothing leaves a store.
LEMMA VectorKept ==
  ASSUME VectorOK, UNCHANGED vector, torn \subseteq torn',
         \A t \in Devices : events[t] \subseteq events'[t]
  PROVE  VectorOK'
BY DEF VectorOK

LEMMA RoundKept ==
  ASSUME RoundOK, written \subseteq written', round' = round \/ round' = Idle
  PROVE  RoundOK'
BY DEF RoundOK

\* The fields of a round in progress.
LEMMA RoundFields ==
  ASSUME RoundOK, round # Idle
  PROVE  /\ round.left \in Devices /\ round.right \in Devices
         /\ round.conversation \in Conversations /\ round.back \in BOOLEAN
         /\ round.phase \in {"requested", "answered"}
         /\ round.request \in [Devices -> 0 .. MaxCounter]
         /\ round.batch \subseteq Event /\ round.had \subseteq Event
         /\ round.barred \subseteq Devices
         /\ Asker \in Devices /\ Answerer \in Devices
BY DEF RoundOK, Round, Asker, Answerer

-----------------------------------------------------------------------------
(* One lemma per group of actions                                           *)

\* The number is committed before it is used.
LEMMA CounterStep ==
  ASSUME HistoryInv, NEW d \in Devices, NextLocalEventCounter(d)
  PROVE  HistoryInv'
<1>1. CountersOK'
  <2>1. next' \in [Devices -> 1 .. MaxCounter + 1] /\ taken' \in [Devices -> 0 .. MaxCounter]
    BY Bounds DEF NextLocalEventCounter, HistoryInv, CountersOK
  <2>2. \A e \in Devices : taken'[e] < next'[e]
    BY Bounds DEF NextLocalEventCounter, HistoryInv, CountersOK
  <2>3. ASSUME NEW e \in written PROVE e.counter < next'[e.device] /\ e.counter # taken'[e.device]
    <3>1. e \in Event /\ e.device \in Devices /\ e.counter \in Nat
      BY EventIsAt, Bounds DEF HistoryInv, StoresOK
    <3> QED
      BY <3>1, Bounds DEF NextLocalEventCounter, HistoryInv, CountersOK
  <2> QED
    BY <2>1, <2>2, <2>3 DEF CountersOK, NextLocalEventCounter
<1> QED
  BY <1>1 DEF NextLocalEventCounter, HistoryInv, StoresOK, VectorOK, RoundOK, RestOK, bounds

\* What was allocated is at a position of its own.
LEMMA TakenIsFresh ==
  ASSUME HistoryInv, NEW d \in Devices, NEW c \in Conversations, taken[d] # 0
  PROVE  /\ At(d, taken[d], c) \in Event
         /\ \A f \in written : f.device # d \/ f.counter # taken[d]
BY AtIsEvent, Bounds DEF HistoryInv, CountersOK

\* The number is given up: by its use, or by a stop.
LEMMA CountersAfterUse ==
  ASSUME HistoryInv, NEW d \in Devices, UNCHANGED next,
         taken' = [taken EXCEPT ![d] = 0], written' \subseteq Event,
         \A e \in written' \ written : taken[d] # 0 /\ e.device = d /\ e.counter = taken[d]
  PROVE  CountersOK'
<1>1. taken' \in [Devices -> 0 .. MaxCounter] /\ \A e \in Devices : taken'[e] < next'[e]
  BY Bounds DEF HistoryInv, CountersOK
<1>2. ASSUME NEW e \in written' PROVE e.counter < next'[e.device] /\ e.counter # taken'[e.device]
  <2>1. e.device \in Devices /\ e.counter \in 1 .. MaxCounter
    BY EventIsAt
  <2>2. e.counter < next[e.device]
    BY <2>1 DEF HistoryInv, CountersOK
  <2>3. e.device # d => e \in written
    OBVIOUS
  <2> QED
    BY <2>1, <2>2, <2>3, Bounds DEF HistoryInv, CountersOK
<1> QED
  BY <1>1, <1>2 DEF HistoryInv, CountersOK

\* Only events that were written before arrive.
LEMMA CountersKept ==
  ASSUME CountersOK, UNCHANGED <<next, taken>>, written' \subseteq written
  PROVE  CountersOK'
BY DEF CountersOK

\* A stop touches the bound, the allocated number and the round.
LEMMA StopKeeps ==
  ASSUME HistoryInv, NEW d \in Devices, Stopped(d), UNCHANGED torn,
         written \subseteq written', written' \subseteq Event,
         \A e \in written' \ written : taken[d] # 0 /\ e.device = d /\ e.counter = taken[d]
  PROVE  CountersOK' /\ RoundOK' /\ RestOK'
<1>1. CountersOK'
  BY CountersAfterUse DEF Stopped
<1>2. RoundOK'
  BY RoundKept DEF Stopped, HistoryInv
<1>3. RestOK'
  BY Bounds DEF Stopped, HistoryInv, RestOK
<1> QED
  BY <1>1, <1>2, <1>3

\* A device writes its own event, with or without a stop before the refresh.
LEMMA LocalStep ==
  ASSUME HistoryInv, NEW d \in Devices, NEW c \in Conversations,
         AppendLocal(d, c) \/ AppendLocalStop(d, c)
  PROVE  HistoryInv'
<1> DEFINE e == At(d, taken[d], c)
<1>1. e \in Event /\ e.device = d /\ e.counter = taken[d] /\ taken[d] # 0
  BY TakenIsFresh, AtFields DEF AppendLocal, AppendLocalStop
<1>2. Insert(d, e)
  BY DEF AppendLocal, AppendLocalStop, Append
<1>3. \A f \in written : f.device # e.device \/ f.counter # e.counter
  BY <1>1, TakenIsFresh
<1>4. /\ StoresOK' /\ written' = written \cup {e}
      /\ \A t \in Devices : events[t] \subseteq events'[t]
  <2> HIDE DEF e
  <2> QED
    BY <1>1, <1>2, <1>3, InsertStores DEF HistoryInv
<1> HIDE DEF e
<1>5. written' \subseteq Event /\ written \subseteq written'
  BY <1>4 DEF StoresOK
<1>6. CASE AppendLocal(d, c)
  <2>1. CountersOK'
    BY <1>1, <1>4, <1>5, <1>6, CountersAfterUse DEF AppendLocal
  <2>2. VectorOK'
    BY <1>1, <1>4, <1>6, RefreshVector DEF AppendLocal, Append, HistoryInv, e
  <2>3. RoundOK'
    BY <1>5, <1>6, RoundKept DEF AppendLocal, HistoryInv
  <2>4. RestOK'
    BY <1>6 DEF AppendLocal, HistoryInv, RestOK, bounds
  <2> QED
    BY <1>4, <2>1, <2>2, <2>3, <2>4 DEF HistoryInv
<1>7. CASE AppendLocalStop(d, c)
  <2>1. CountersOK' /\ RoundOK' /\ RestOK'
    BY <1>1, <1>4, <1>5, <1>7, StopKeeps DEF AppendLocalStop
  <2>2. VectorOK'
    BY <1>4, <1>7, VectorKept DEF AppendLocalStop, HistoryInv
  <2> QED
    BY <1>4, <2>1, <2>2 DEF HistoryInv
<1> QED
  BY <1>6, <1>7

LEMMA StopStep ==
  ASSUME HistoryInv, NEW d \in Devices, Stop(d)
  PROVE  HistoryInv'
<1>1. CountersOK' /\ RoundOK' /\ RestOK'
  BY StopKeeps DEF Stop, HistoryInv, StoresOK
<1> QED
  BY <1>1 DEF Stop, HistoryInv, StoresOK, VectorOK

\* An event arrives on its own.
LEMMA StrayStep ==
  ASSUME HistoryInv, NEW s \in Devices, NEW e \in written, Stray(s, e)
  PROVE  HistoryInv'
<1>1. e \in Event /\ Insert(s, e)
  BY DEF Stray, Append, HistoryInv, StoresOK
<1>2. /\ StoresOK' /\ written' = written \cup {e}
      /\ \A t \in Devices : events[t] \subseteq events'[t]
  BY <1>1, InsertStores DEF HistoryInv
<1>3. VectorOK'
  BY <1>1, <1>2, RefreshVector DEF Stray, Append, HistoryInv
<1>4. CountersOK' /\ RoundOK'
  BY <1>2, CountersKept, RoundKept DEF Stray, HistoryInv
<1>5. RestOK'
  BY Bounds DEF Stray, HistoryInv, RestOK
<1> QED
  BY <1>2, <1>3, <1>4, <1>5 DEF HistoryInv

\* A round forgets what it owes.
LEMMA HadForgotten ==
  ASSUME RoundOK, round # Idle, written' = written, round' = [round EXCEPT !.had = {}]
  PROVE  RoundOK'
BY DEF RoundOK, Round

\* A conversation is deleted, with or without a stop before its vector goes.
LEMMA DeleteStep ==
  ASSUME HistoryInv, NEW s \in Devices, NEW c \in Conversations,
         DeleteConversation(s, c) \/ DeleteConversationStop(s, c)
  PROVE  HistoryInv'
<1>1. Emptied(s, c)
  BY DEF DeleteConversation, DeleteConversationStop
<1>2. StoresOK' /\ written' = written
  BY <1>1 DEF Emptied, HistoryInv, StoresOK
<1>3. RoundOK'
  <2>1. round' = round \/ round' = Idle \/ (round # Idle /\ round' = [round EXCEPT !.had = {}])
    BY DEF DeleteConversation, DeleteConversationStop, TakesPart
  <2> QED
    BY <1>2, <2>1, RoundKept, HadForgotten DEF HistoryInv
<1>4. \A t \in Devices, f \in Event :
        f \in events[t] /\ ~(t = s /\ f.conversation = c) => f \in events'[t]
  BY <1>1 DEF Emptied, HistoryInv, StoresOK
<1>5. \A t, d \in Devices, b \in Conversations : ~(t = s /\ b = c) /\ <<t, b>> \notin torn =>
        \A n \in 1 .. vector[t][b][d] : At(d, n, b) \in events'[t]
  <2> SUFFICES ASSUME NEW t \in Devices, NEW d \in Devices, NEW b \in Conversations,
                      ~(t = s /\ b = c), <<t, b>> \notin torn, NEW n \in 1 .. vector[t][b][d]
               PROVE  At(d, n, b) \in events'[t]
    OBVIOUS
  <2>1. At(d, n, b) \in events[t]
    BY DEF HistoryInv, VectorOK
  <2>2. At(d, n, b) \in Event
    BY <2>1 DEF HistoryInv, StoresOK
  <2> QED
    BY <1>4, <2>1, <2>2, AtFields
<1>6. CASE DeleteConversation(s, c)
  <2>1. CountersOK'
    BY <1>1, <1>2, <1>6, CountersKept DEF DeleteConversation, Emptied, HistoryInv
  <2>2. vector' \in [Devices -> [Conversations -> [Devices -> 0 .. MaxCounter]]]
    BY <1>6, Bounds DEF DeleteConversation, VectorDeleted, HistoryInv, VectorOK
  <2>3. ASSUME NEW t \in Devices, NEW d \in Devices, NEW b \in Conversations,
               <<t, b>> \notin torn', NEW n \in 1 .. vector'[t][b][d]
        PROVE  At(d, n, b) \in events'[t]
    <3>1. CASE t = s /\ b = c
      <4>1. vector'[t][b][d] = 0
        BY <1>6, <3>1 DEF DeleteConversation, VectorDeleted, HistoryInv, VectorOK
      <4> QED
        BY <2>3, <4>1
    <3>2. CASE ~(t = s /\ b = c)
      <4>1. vector'[t][b][d] = vector[t][b][d]
        BY <1>6, <3>2 DEF DeleteConversation, VectorDeleted, HistoryInv, VectorOK
      <4>2. <<t, b>> \notin torn
        BY <1>6, <2>3, <3>2 DEF DeleteConversation
      <4> QED
        BY <1>5, <2>3, <3>2, <4>1, <4>2
    <3> QED
      BY <3>1, <3>2
  <2>4. VectorOK'
    BY <2>2, <2>3 DEF VectorOK
  <2>5. RestOK'
    BY <1>1, <1>6, Bounds DEF DeleteConversation, Emptied, HistoryInv, RestOK
  <2> QED
    BY <1>2, <1>3, <2>1, <2>4, <2>5 DEF HistoryInv
<1>7. CASE DeleteConversationStop(s, c)
  <2>1. CountersOK'
    BY <1>1, <1>2, <1>7, CountersAfterUse
       DEF DeleteConversationStop, Emptied, HistoryInv, StoresOK
  <2>2. VectorOK'
    BY <1>5, <1>7 DEF DeleteConversationStop, HistoryInv, VectorOK
  <2>3. RestOK'
    BY <1>1, <1>7, Bounds DEF DeleteConversationStop, Emptied, HistoryInv, RestOK
  <2> QED
    BY <1>2, <1>3, <2>1, <2>2, <2>3 DEF HistoryInv
<1> QED
  BY <1>6, <1>7

\* The steps of a round that write no event.
LEMMA RoundStep ==
  ASSUME HistoryInv,
         \/ \E d \in Devices : Revoke(d)
         \/ \E l, r \in Devices, c \in Conversations : StartRound(l, r, c)
         \/ Answer \/ AskBack \/ EndRound
  PROVE  HistoryInv'
<1>1. UNCHANGED <<next, taken, written, events, vector, torn, bounds>>
  BY DEF Revoke, StartRound, Answer, AskBack, EndRound
<1>2. CountersOK' /\ StoresOK' /\ VectorOK'
  BY <1>1 DEF HistoryInv, CountersOK, StoresOK, VectorOK
<1>3. RestOK'
  BY <1>1 DEF Revoke, StartRound, Answer, AskBack, EndRound, HistoryInv, RestOK, bounds
<1>4. RoundOK'
  <2>1. ASSUME NEW l \in Devices, NEW r \in Devices, NEW c \in Conversations, StartRound(l, r, c)
        PROVE  RoundOK'
    <3>1. In(l, c) \cup In(r, c) \subseteq written /\ written \subseteq Event
      BY DEF In, HistoryInv, StoresOK
    <3>2. vector[r][c] \in [Devices -> 0 .. MaxCounter]
      BY DEF HistoryInv, VectorOK
    <3>3. round' \in Round
      BY <2>1, <3>1, <3>2 DEF StartRound, Round, HistoryInv, RestOK
    <3> QED
      BY <1>1, <2>1, <3>1, <3>3 DEF StartRound, RoundOK
  <2>2. CASE Answer
    <3>1. Missing(Answerer, round.conversation, round.request) \subseteq written
          /\ written \subseteq Event
      BY <2>2, RoundFields DEF Answer, Missing, HistoryInv, StoresOK
    <3>2. round' \in Round
      BY <2>2, <3>1 DEF Answer, Round, RoundOK, HistoryInv
    <3> QED
      BY <1>1, <2>2, <3>1, <3>2 DEF Answer, RoundOK, HistoryInv, Round
  <2>3. CASE AskBack
    <3>1. vector[round.left][round.conversation] \in [Devices -> 0 .. MaxCounter]
      BY <2>3, RoundFields DEF AskBack, HistoryInv, VectorOK
    <3>2. round' \in Round
      BY <2>3, <3>1 DEF AskBack, Round, RoundOK, HistoryInv
    <3> QED
      BY <1>1, <2>3, <3>2 DEF AskBack, RoundOK, HistoryInv, Round
  <2>4. CASE EndRound \/ \E d \in Devices : Revoke(d)
    BY <1>1, <2>4, RoundKept DEF EndRound, Revoke, HistoryInv
  <2> QED
    BY <2>1, <2>2, <2>3, <2>4
<1> QED
  BY <1>2, <1>3, <1>4 DEF HistoryInv

\* What a response does to the asker's store.
LEMMA BatchInsert ==
  ASSUME HistoryInv, round # Idle, round.batch # {}, Insert(Asker, First(round.batch))
  PROVE  /\ First(round.batch) \in round.batch /\ First(round.batch) \in Event
         /\ Asker \in Devices
         /\ StoresOK' /\ written' = written
         /\ First(round.batch) \in events'[Asker]
         /\ \A t \in Devices : /\ events[t] \subseteq events'[t]
                               /\ t # Asker => events'[t] = events[t]
<1>1. round.batch \subseteq Event /\ round.batch \subseteq written /\ Asker \in Devices
  BY RoundFields DEF HistoryInv, RoundOK
<1>2. First(round.batch) \in round.batch
  BY <1>1, FirstIsThere
<1> DEFINE e == First(round.batch)
           s == Asker
<1>3. e \in Event /\ e \in written /\ s \in Devices /\ Insert(s, e)
  BY <1>1, <1>2
<1> HIDE DEF e, s
<1>4. /\ StoresOK' /\ written' = written \cup {e} /\ e \in events'[s]
      /\ \A t \in Devices : events[t] \subseteq events'[t] /\ (t # s => events'[t] = events[t])
  BY <1>3, InsertStores DEF HistoryInv
<1> QED
  BY <1>2, <1>3, <1>4 DEF e, s

LEMMA BatchStep ==
  ASSUME HistoryInv, AppendNext \/ AppendNextStop
  PROVE  HistoryInv'
<1>1. round # Idle /\ round.batch # {} /\ Insert(Asker, First(round.batch))
  BY DEF AppendNext, AppendNextStop, Append
<1>2. /\ First(round.batch) \in Event /\ Asker \in Devices
      /\ StoresOK' /\ written' = written
      /\ \A t \in Devices : events[t] \subseteq events'[t]
  BY <1>1, BatchInsert
<1>3. CASE AppendNext
  <2>1. CountersOK'
    BY <1>2, <1>3, CountersKept DEF AppendNext, HistoryInv
  <2>2. VectorOK'
    BY <1>2, <1>3, RefreshVector DEF AppendNext, Append, HistoryInv
  <2>3. RoundOK'
    BY <1>2, <1>3 DEF AppendNext, HistoryInv, RoundOK, Round
  <2>4. RestOK'
    BY <1>3 DEF AppendNext, HistoryInv, RestOK, bounds
  <2> QED
    BY <1>2, <2>1, <2>2, <2>3, <2>4 DEF HistoryInv
<1>4. CASE AppendNextStop
  <2>1. written' \subseteq Event
    BY <1>2 DEF HistoryInv, StoresOK
  <2>2. CountersOK' /\ RoundOK' /\ RestOK'
    BY <1>2, <1>4, <2>1, StopKeeps DEF AppendNextStop
  <2>3. VectorOK'
    BY <1>2, <1>4, VectorKept DEF AppendNextStop, HistoryInv
  <2> QED
    BY <1>2, <2>2, <2>3 DEF HistoryInv
<1> QED
  BY <1>3, <1>4

LEMMA HistoryStep == HistoryInv /\ [Next]_vars => HistoryInv'
<1> SUFFICES ASSUME HistoryInv, [Next]_vars PROVE HistoryInv'
  OBVIOUS
<1>1. CASE UNCHANGED vars
  BY <1>1 DEF vars, bounds, HistoryInv, CountersOK, StoresOK, VectorOK, RoundOK, RestOK
<1> QED
  BY <1>1, CounterStep, LocalStep, StopStep, StrayStep, DeleteStep, RoundStep, BatchStep
     DEF Next

\* The inductive invariant of the histories and their vectors.
THEOREM HistoryCorrect == Spec => []HistoryInv
BY HistoryInit, HistoryStep, PTL DEF Spec

\* The types, and no position used twice: a counter that was allocated is never
\* allocated again, across stops at every step (next_local_event_counter).
THEOREM TypeCorrect == Spec => []TypeOK
BY HistoryCorrect, HistoryTypes, PTL

\* A vector never claims what its store does not hold, unless the deletion of
\* the conversation was interrupted (append_event, refresh_vector_for_device,
\* delete_conversation).
THEOREM VectorsClaimOnlyWhatIsHeld == Spec => []VectorSound
BY HistoryCorrect, HistoryVectors, PTL

-----------------------------------------------------------------------------
(* A round                                                                  *)

Untorn == \A s \in {round.left, round.right} : <<s, round.conversation>> \notin torn

\* Before the way back one of the two stores holds what is owed, afterwards the
\* right one does.
HeldBySomeone ==
  IF round.back THEN round.had \subseteq events[round.right]
                ELSE round.had \subseteq events[round.left] \cup events[round.right]

\* What the asker's vector covers it holds; once it is answered it holds, or is
\* about to append, all that is owed.
AskerCatchesUp ==
  \A e \in round.had :
    IF round.phase = "requested"
    THEN e.counter <= round.request[e.device] => e \in events[Asker]
    ELSE e \in events[Asker] \cup round.batch

RoundInv ==
  round # Idle =>
    /\ round.left \notin round.barred /\ round.right \notin round.barred
    /\ round.barred \subseteq revoked
    /\ \A e \in round.had : e.conversation = round.conversation
    /\ Untorn => HeldBySomeone /\ AskerCatchesUp

SyncInv == HistoryInv /\ RoundInv

LEMMA SyncConverges == SyncInv => RoundConverges
<1> SUFFICES ASSUME SyncInv, RoundOver, Untorn
             PROVE  round.had \subseteq events[round.left] \cap events[round.right]
  BY DEF RoundConverges, Untorn
<1>1. round # Idle /\ round.phase = "answered" /\ round.batch = {} /\ round.back
  BY DEF RoundOver
<1>2. HeldBySomeone /\ AskerCatchesUp
  BY <1>1 DEF SyncInv, RoundInv
<1>3. Asker = round.left
  BY <1>1 DEF Asker
<1> QED
  BY <1>1, <1>2, <1>3 DEF HeldBySomeone, AskerCatchesUp

\* The round rests while the stores grow.
LEMMA RoundRests ==
  ASSUME HistoryInv, RoundInv, round' = round \/ round' = Idle, torn \subseteq torn',
         revoked \subseteq revoked',
         \A t \in Devices : events[t] \subseteq events'[t]
  PROVE  RoundInv'
<1>1. CASE round' = Idle
  BY <1>1 DEF RoundInv, Idle
<1>2. CASE round' = round /\ round # Idle
  <2>1. round.left \in Devices /\ round.right \in Devices /\ Asker \in Devices
    BY <1>2, RoundFields DEF HistoryInv
  <2>2. Untorn' => Untorn
    BY <1>2 DEF Untorn
  <2>3. Asker' = Asker
    BY <1>2 DEF Asker
  <2>4. HeldBySomeone => HeldBySomeone'
    BY <1>2, <2>1 DEF HeldBySomeone
  <2>5. AskerCatchesUp => AskerCatchesUp'
    BY <1>2, <2>1, <2>3 DEF AskerCatchesUp
  <2> QED
    BY <1>2, <2>2, <2>4, <2>5 DEF RoundInv
<1> QED
  BY <1>1, <1>2

\* What a deletion takes away is no longer owed.
LEMMA RoundForgets ==
  ASSUME HistoryInv, RoundInv, round # Idle, round' = [round EXCEPT !.had = {}],
         UNCHANGED revoked
  PROVE  RoundInv'
<1>1. /\ round'.had = {} /\ round'.left = round.left /\ round'.right = round.right
      /\ round'.barred = round.barred
  BY DEF HistoryInv, RoundOK, Round
<1>2. HeldBySomeone' /\ AskerCatchesUp'
  BY <1>1 DEF HeldBySomeone, AskerCatchesUp
<1> QED
  BY <1>1, <1>2 DEF RoundInv

\* A deletion elsewhere, or of another conversation, takes nothing of it away.
LEMMA RoundUntouched ==
  ASSUME HistoryInv, RoundInv, round # Idle, round' = round, UNCHANGED revoked,
         Untorn' => Untorn,
         \A t \in {round.left, round.right} : \A f \in events[t] :
           f.conversation = round.conversation => f \in events'[t]
  PROVE  RoundInv'
<1>1. \A e \in round.had : e.conversation = round.conversation
  BY DEF RoundInv
<1>2. Asker' = Asker /\ Asker \in {round.left, round.right}
  BY DEF Asker
<1>3. HeldBySomeone => HeldBySomeone'
  BY <1>1 DEF HeldBySomeone
<1>4. AskerCatchesUp => AskerCatchesUp'
  BY <1>1, <1>2 DEF AskerCatchesUp
<1> QED
  BY <1>3, <1>4 DEF RoundInv

\* Both devices are authorized, and a sound vector is asked with.
LEMMA StartKeeps ==
  ASSUME HistoryInv, NEW l \in Devices, NEW r \in Devices, NEW c \in Conversations,
         StartRound(l, r, c)
  PROVE  RoundInv'
<1>1. /\ round'.left = l /\ round'.right = r /\ round'.conversation = c
      /\ round'.back = FALSE /\ round'.phase = "requested"
      /\ round'.request = vector[r][c] /\ round'.had = In(l, c) \cup In(r, c)
      /\ round'.barred = revoked
      /\ UNCHANGED <<events, torn, revoked, vector, written>>
  BY DEF StartRound
<1>2. l \notin revoked /\ r \notin revoked
  BY DEF StartRound, Authorized
<1>3. \A e \in round'.had : e.conversation = c
  BY <1>1 DEF In
<1>4. HeldBySomeone'
  BY <1>1 DEF HeldBySomeone, In
<1>5. ASSUME Untorn' PROVE AskerCatchesUp'
  <2>1. Asker' = r /\ <<r, c>> \notin torn
    BY <1>1, <1>5 DEF Asker, Untorn
  <2>2. ASSUME NEW e \in round'.had, e.counter <= vector[r][c][e.device]
        PROVE  e \in events[r]
    <3>1. e \in written /\ e.conversation = c
      BY <1>1, <1>3, <2>2 DEF In, HistoryInv, StoresOK
    <3> QED
      BY <2>1, <2>2, <3>1, HistoryVectors DEF VectorSound
  <2> QED
    BY <1>1, <2>1, <2>2 DEF AskerCatchesUp
<1> QED
  BY <1>1, <1>2, <1>3, <1>4, <1>5 DEF RoundInv

\* The answer is computed from the vector that was sent, and the store as it is.
LEMMA AnswerKeeps ==
  ASSUME HistoryInv, RoundInv, Answer
  PROVE  RoundInv'
<1> DEFINE B == Missing(Answerer, round.conversation, round.request)
<1>1. round # Idle /\ round.phase = "requested"
  BY DEF Answer
<1>2. /\ round'.left = round.left /\ round'.right = round.right
      /\ round'.conversation = round.conversation /\ round'.back = round.back
      /\ round'.had = round.had /\ round'.barred = round.barred
      /\ round'.phase = "answered" /\ round'.batch = B
      /\ UNCHANGED <<events, torn, revoked, written>>
  BY DEF Answer, HistoryInv, RoundOK, Round
<1> HIDE DEF B
<1>3. Asker' = Asker /\ (Untorn' => Untorn)
  BY <1>2 DEF Asker, Untorn
<1>4. HeldBySomeone => HeldBySomeone'
  BY <1>2 DEF HeldBySomeone
<1>5. ASSUME HeldBySomeone, AskerCatchesUp PROVE AskerCatchesUp'
  <2> SUFFICES ASSUME NEW e \in round.had, e \notin events[Asker] PROVE e \in B
    BY <1>2, <1>3 DEF AskerCatchesUp
  <2>1. ~(e.counter <= round.request[e.device])
    BY <1>1, <1>5 DEF AskerCatchesUp
  <2>2. e \in Event /\ e.device \in Devices /\ e.counter \in Nat
    BY <1>1, RoundFields, EventIsAt, Bounds DEF HistoryInv
  <2>3. round.request[e.device] \in Nat
    BY <1>1, <2>2, RoundFields, Bounds DEF HistoryInv
  <2>4. e \in events[Answerer]
    BY <1>5 DEF HeldBySomeone, Asker, Answerer
  <2>5. e.conversation = round.conversation
    BY <1>1 DEF RoundInv
  <2> QED
    BY <2>1, <2>2, <2>3, <2>4, <2>5 DEF B, Missing
<1> QED
  BY <1>1, <1>2, <1>3, <1>4, <1>5 DEF RoundInv

\* An event moves from the response into the asker's store.
LEMMA AppendNextKeeps ==
  ASSUME HistoryInv, RoundInv, AppendNext
  PROVE  RoundInv'
<1> DEFINE e == First(round.batch)
<1>1. round # Idle /\ round.batch # {} /\ Insert(Asker, e)
  BY DEF AppendNext, Append
<1>2. /\ e \in events'[Asker] /\ Asker \in Devices
      /\ \A t \in Devices : events[t] \subseteq events'[t]
  BY <1>1, BatchInsert
<1>3. /\ round'.left = round.left /\ round'.right = round.right
      /\ round'.conversation = round.conversation /\ round'.back = round.back
      /\ round'.had = round.had /\ round'.barred = round.barred
      /\ round'.phase = round.phase /\ round'.request = round.request
      /\ round'.batch = round.batch \ {e}
      /\ UNCHANGED <<torn, revoked>>
  BY DEF AppendNext, HistoryInv, RoundOK, Round
<1> HIDE DEF e
<1>4. Asker' = Asker /\ (Untorn' => Untorn)
  BY <1>3 DEF Asker, Untorn
<1>5. round.left \in Devices /\ round.right \in Devices
  BY <1>1, RoundFields DEF HistoryInv
<1>6. HeldBySomeone => HeldBySomeone'
  BY <1>2, <1>3, <1>5 DEF HeldBySomeone
<1>7. AskerCatchesUp => AskerCatchesUp'
  BY <1>2, <1>3, <1>4 DEF AskerCatchesUp
<1> QED
  BY <1>1, <1>3, <1>4, <1>6, <1>7 DEF RoundInv

\* The right store is complete; now the left one asks.
LEMMA AskBackKeeps ==
  ASSUME HistoryInv, RoundInv, AskBack
  PROVE  RoundInv'
<1>1. round # Idle /\ round.phase = "answered" /\ round.batch = {} /\ ~round.back
  BY DEF AskBack
<1>2. /\ round'.left = round.left /\ round'.right = round.right
      /\ round'.conversation = round.conversation /\ round'.back = TRUE
      /\ round'.had = round.had /\ round'.barred = round.barred
      /\ round'.phase = "requested"
      /\ round'.request = vector[round.left][round.conversation]
      /\ UNCHANGED <<events, torn, revoked, written, vector>>
  BY DEF AskBack, HistoryInv, RoundOK, Round
<1>3. Untorn' => Untorn
  BY <1>2 DEF Untorn
<1>4. Asker = round.right /\ Asker' = round.left
  BY <1>1, <1>2 DEF Asker
<1>5. AskerCatchesUp => HeldBySomeone'
  BY <1>1, <1>2, <1>4 DEF AskerCatchesUp, HeldBySomeone
<1>6. ASSUME Untorn' PROVE AskerCatchesUp'
  <2>1. <<round.left, round.conversation>> \notin torn /\ round.left \in Devices
    BY <1>1, <1>2, <1>6, RoundFields DEF Untorn, HistoryInv
  <2>2. ASSUME NEW e \in round.had,
               e.counter <= vector[round.left][round.conversation][e.device]
        PROVE  e \in events[round.left]
    <3>1. e \in written /\ e.conversation = round.conversation
      BY <1>1, <2>2 DEF RoundInv, HistoryInv, RoundOK
    <3> QED
      BY <2>1, <2>2, <3>1, HistoryVectors DEF VectorSound
  <2> QED
    BY <1>2, <1>4, <2>2 DEF AskerCatchesUp
<1> QED
  BY <1>1, <1>2, <1>3, <1>5, <1>6 DEF RoundInv

LEMMA SyncStep == SyncInv /\ [Next]_vars => SyncInv'
<1> SUFFICES ASSUME HistoryInv, RoundInv, [Next]_vars PROVE RoundInv'
  BY HistoryStep DEF SyncInv
<1>1. ASSUME NEW d \in Devices, NextLocalEventCounter(d) \/ Stop(d) \/ Revoke(d)
      PROVE  RoundInv'
  BY <1>1, RoundRests DEF NextLocalEventCounter, Stop, Stopped, Revoke
<1>2. ASSUME NEW d \in Devices, NEW c \in Conversations, AppendLocal(d, c) \/ AppendLocalStop(d, c)
      PROVE  RoundInv'
  <2> DEFINE e == At(d, taken[d], c)
  <2>1. taken[d] # 0 /\ Insert(d, e)
    BY <1>2 DEF AppendLocal, AppendLocalStop, Append
  <2>2. e \in Event /\ \A f \in written : f.device # e.device \/ f.counter # e.counter
    BY <2>1, TakenIsFresh, AtFields
  <2> HIDE DEF e
  <2>3. \A t \in Devices : events[t] \subseteq events'[t]
    BY <2>1, <2>2, InsertStores DEF HistoryInv
  <2> QED
    BY <1>2, <2>3, RoundRests DEF AppendLocal, AppendLocalStop, Stopped
<1>3. ASSUME NEW s \in Devices, NEW c \in Conversations,
             DeleteConversation(s, c) \/ DeleteConversationStop(s, c)
      PROVE  RoundInv'
  <2>1. UNCHANGED revoked
    BY <1>3 DEF DeleteConversation, DeleteConversationStop, Emptied
  <2>2. \/ round' = Idle
        \/ round # Idle /\ round' = [round EXCEPT !.had = {}]
        \/ /\ round # Idle /\ round' = round
           /\ s \notin {round.left, round.right} \/ c # round.conversation
           /\ torn' = torn \ {<<s, c>>} \/ torn' = torn \cup {<<s, c>>}
    BY <1>3 DEF DeleteConversation, DeleteConversationStop, TakesPart
  <2>3. CASE round' = Idle
    BY <2>3 DEF RoundInv, Idle
  <2>4. CASE /\ round # Idle /\ round' = round
             /\ s \notin {round.left, round.right} \/ c # round.conversation
             /\ torn' = torn \ {<<s, c>>} \/ torn' = torn \cup {<<s, c>>}
    <3>1. Untorn' => Untorn
      BY <2>4 DEF Untorn
    <3>2. round.left \in Devices /\ round.right \in Devices
      BY <2>4, RoundFields DEF HistoryInv
    <3>3. events \in [Devices -> SUBSET Event]
      BY DEF HistoryInv, StoresOK
    <3>4. events' = [events EXCEPT ![s] = {e \in @ : e.conversation # c}]
      BY <1>3 DEF DeleteConversation, DeleteConversationStop, Emptied
    <3>5. \A t \in {round.left, round.right} : \A f \in events[t] :
             f.conversation = round.conversation => f \in events'[t]
      BY <2>4, <3>2, <3>3, <3>4
    <3> QED
      BY <2>1, <2>4, <3>1, <3>5, RoundUntouched
  <2> QED
    BY <2>1, <2>2, <2>3, <2>4, RoundForgets
<1>4. ASSUME NEW s \in Devices, NEW e \in written, Stray(s, e)
      PROVE  RoundInv'
  <2>1. e \in Event /\ Insert(s, e)
    BY <1>4 DEF Stray, Append, HistoryInv, StoresOK
  <2>2. \A t \in Devices : events[t] \subseteq events'[t]
    BY <2>1, InsertStores DEF HistoryInv
  <2> QED
    BY <1>4, <2>2, RoundRests DEF Stray
<1>5. CASE AppendNextStop
  <2>1. \A t \in Devices : events[t] \subseteq events'[t]
    BY <1>5, BatchInsert DEF AppendNextStop
  <2> QED
    BY <1>5, <2>1, RoundRests DEF AppendNextStop, Stopped
<1>6. CASE EndRound \/ UNCHANGED vars
  BY <1>6, RoundRests DEF EndRound, vars
<1> QED
  BY <1>1, <1>2, <1>3, <1>4, <1>5, <1>6, StartKeeps, AnswerKeeps, AppendNextKeeps,
     AskBackKeeps DEF Next

\* The inductive invariant of a round over the histories.
THEOREM SyncCorrect == Spec => []SyncInv
<1>1. Init => SyncInv
  BY HistoryInit DEF Init, SyncInv, RoundInv
<1> QED
  BY <1>1, SyncStep, PTL DEF Spec

\* A round that comes to its end has made up for every gap: both stores hold
\* what either held at its start, whatever was written or arrived out of order
\* or was interrupted meanwhile (sync_authorized_sibling_devices).
THEOREM RoundsConverge == Spec => []RoundConverges
BY SyncCorrect, SyncConverges, PTL

\* A revoked device learns nothing more from the others, except in the round
\* that was running when it was revoked (is_device_currently_authorized).
THEOREM RevokedDevicesAreCutOff == Spec => RevokedIsCutOff
<1> DEFINE CutOff ==
      \A d \in revoked :
        (round = Idle \/ d \notin {round.left, round.right} \ round.barred) =>
          \A e \in events'[d] \ events[d] : e.device = d
<1>1. ASSUME SyncInv, [Next]_vars PROVE CutOff
  <2> SUFFICES ASSUME NEW d \in revoked,
                      round = Idle \/ d \notin {round.left, round.right} \ round.barred,
                      NEW e \in events'[d] \ events[d]
               PROVE  e.device = d
    OBVIOUS
  <2>1. d \in Devices /\ HistoryInv /\ StoresOK
    BY <1>1 DEF SyncInv, HistoryInv, RestOK
  <2>2. round # Idle => d # Asker
    BY <1>1 DEF SyncInv, RoundInv, Asker
  <2>3. ASSUME NEW b \in Devices, NEW c \in Conversations,
               AppendLocal(b, c) \/ AppendLocalStop(b, c)
        PROVE  e.device = d
    <3>1. taken[b] # 0 /\ Insert(b, At(b, taken[b], c))
      BY <2>3 DEF AppendLocal, AppendLocalStop, Append
    <3>2. b = d /\ e = At(b, taken[b], c)
      BY <2>1, <3>1 DEF Insert, Inserted, StoresOK
    <3> QED
      BY <3>2, AtFields
  <2>4. ASSUME NEW s \in Devices, NEW f \in written, Stray(s, f)
        PROVE  e.device = d
    BY <2>1, <2>4 DEF Stray, Append, Insert, StoresOK
  <2>5. CASE AppendNext \/ AppendNextStop
    BY <2>1, <2>2, <2>5 DEF AppendNext, AppendNextStop, Append, Insert, StoresOK
  <2>6. ASSUME NEW s \in Devices, NEW c \in Conversations, Emptied(s, c)
        PROVE  e.device = d
    BY <2>1, <2>6 DEF Emptied, StoresOK
  <2>7. CASE UNCHANGED events
    BY <2>7
  <2> QED
    BY <1>1, <2>3, <2>4, <2>5, <2>6, <2>7
       DEF Next, NextLocalEventCounter, Stop, Revoke, DeleteConversation,
           DeleteConversationStop, StartRound, Answer, AskBack, EndRound, vars
<1> QED
  BY <1>1, SyncCorrect, PTL DEF Spec, RevokedIsCutOff
=============================================================================
