------------------------- MODULE DeviceOutboxProofs -------------------------
(***************************************************************************)
(* The durable outbox for any set of lines, any number of devices, any      *)
(* limit of skipped keys and any number of stops and damaged copies.        *)
(***************************************************************************)
EXTENDS DeviceOutbox, FiniteSetTheorems, TLAPS

-----------------------------------------------------------------------------
(* The chain of a receiver                                                  *)

\* Skipped and consumed numbers lie behind the counter, and the store of
\* skipped keys is within its limit.
Bounded(c) ==
    /\ c \in Chain
    /\ c.skipped \subseteq 0 .. c.recv - 1 /\ c.consumed \subseteq 0 .. c.recv - 1
    /\ Cardinality(c.skipped) <= MaxSkipped

LEMMA SkippedFinite ==
    ASSUME NEW c, Bounded(c)
    PROVE  IsFiniteSet(c.skipped) /\ Cardinality(c.skipped) \in Nat
<1>1. c.recv - 1 \in Int /\ c.skipped \in SUBSET (0 .. c.recv - 1)
  BY DEF Bounded, Chain
<1>2. IsFiniteSet(0 .. c.recv - 1)
  BY <1>1, FS_Interval
<1>3. IsFiniteSet(c.skipped)
  BY <1>1, <1>2, FS_Subset
<1> QED
  BY <1>3, FS_CardinalityType

\* Storing the keys from the counter up to k.
LEMMA StoredKeys ==
    ASSUME NEW c, Bounded(c), NEW k \in Nat, k >= c.recv
    PROVE  /\ c.skipped \cup (c.recv .. k - 1) \subseteq 0 .. k - 1
           /\ Cardinality(c.skipped \cup (c.recv .. k - 1))
                  = Cardinality(c.skipped) + (k - c.recv)
<1> DEFINE S == c.skipped
           T == c.recv .. k - 1
<1>1. c.recv \in Nat /\ S \subseteq 0 .. c.recv - 1
  BY DEF Bounded, Chain
<1>2. IsFiniteSet(S) /\ Cardinality(S) \in Nat
  BY SkippedFinite
<1>3. IsFiniteSet(T) /\ Cardinality(T) = k - c.recv
  <2>1. c.recv \in Int /\ k - 1 \in Int
    BY <1>1
  <2>2. /\ IsFiniteSet(c.recv .. k - 1)
        /\ Cardinality(c.recv .. k - 1) = IF c.recv > k - 1 THEN 0 ELSE (k - 1) - c.recv + 1
    BY <2>1, FS_Interval
  <2> QED
    BY <1>1, <2>2
<1>4. S \cap T = {}
  BY <1>1
<1>5. Cardinality(S \cup T) = Cardinality(S) + Cardinality(T) - Cardinality(S \cap T)
  BY <1>2, <1>3, FS_Union
<1>6. Cardinality(S \cap T) = 0
  BY <1>4, FS_EmptySet
<1>7. S \cup T \subseteq 0 .. k - 1
  BY <1>1
<1>8. Cardinality(S \cup T) = Cardinality(S) + (k - c.recv)
  <2> HIDE DEF S, T
  <2> QED
    BY <1>1, <1>2, <1>3, <1>5, <1>6
<1> QED
  BY <1>7, <1>8

\* What a chain looks like that answers "Key", before and after.
LEMMA OpenedFacts ==
    ASSUME NEW c, Bounded(c), NEW n \in Nat, Outcome(c, n) = "Key"
    PROVE  /\ n \notin c.consumed
           /\ Bounded(Opened(c, n))
           /\ Opened(c, n).send = c.send
           /\ Opened(c, n).consumed = c.consumed \cup {n}
           /\ \/ /\ n \in c.skipped /\ Opened(c, n).recv = c.recv
                 /\ Opened(c, n).skipped = c.skipped \ {n}
              \/ /\ n >= c.recv /\ Opened(c, n).recv = n + 1
                 /\ Opened(c, n).skipped = c.skipped \cup (c.recv .. n - 1)
<1>1. c \in Chain /\ n \notin c.consumed
  BY DEF Bounded, Outcome
<1>2. CASE n \in c.skipped
  <2>1. /\ Opened(c, n).send = c.send
        /\ Opened(c, n).recv = c.recv
        /\ Opened(c, n).skipped = c.skipped \ {n}
        /\ Opened(c, n).consumed = c.consumed \cup {n}
        /\ Opened(c, n) \in Chain
    BY <1>1, <1>2 DEF Opened, Selected, Outcome, Chain
  <2>2. c.skipped \ {n} \in SUBSET c.skipped
    OBVIOUS
  <2>3. Cardinality(c.skipped \ {n}) <= Cardinality(c.skipped)
        /\ Cardinality(c.skipped \ {n}) \in Nat
    BY <2>2, SkippedFinite, FS_Subset, FS_CardinalityType
  <2>4. Cardinality(c.skipped \ {n}) <= MaxSkipped
    BY <2>3, SkippedFinite, MaxSkippedAssumption DEF Bounded
  <2>5. c.skipped \ {n} \subseteq 0 .. c.recv - 1
        /\ c.consumed \cup {n} \subseteq 0 .. c.recv - 1
    BY <1>2 DEF Bounded
  <2> QED
    BY <1>1, <1>2, <2>1, <2>4, <2>5 DEF Bounded
<1>3. CASE n \notin c.skipped
  <2>1. n >= c.recv /\ Cardinality(c.skipped) + (n - c.recv) <= MaxSkipped
    BY <1>1, <1>3 DEF Outcome, Chain
  <2>2. Selected(c, n) = [c EXCEPT !.recv = n + 1,
                                   !.skipped = @ \cup (c.recv .. n - 1)]
    BY <1>3 DEF Selected
  <2>3. /\ c.skipped \cup (c.recv .. n - 1) \subseteq 0 .. n - 1
        /\ Cardinality(c.skipped \cup (c.recv .. n - 1)) <= MaxSkipped
    BY <2>1, StoredKeys
  <2>4. c.consumed \cup {n} \subseteq 0 .. n /\ n + 1 \in Nat
    BY <2>1 DEF Bounded, Chain
  <2> DEFINE S == c.skipped \cup (c.recv .. n - 1)
  <2>5. S \in SUBSET Nat /\ S \subseteq 0 .. n
    BY <2>3
  <2>6. Selected(c, n) = [c EXCEPT !.recv = n + 1, !.skipped = S]
    BY <2>2
  <2> HIDE DEF S
  <2>7. /\ Opened(c, n).send = c.send
        /\ Opened(c, n).recv = n + 1
        /\ Opened(c, n).skipped = S
        /\ Opened(c, n).consumed = c.consumed \cup {n}
        /\ Opened(c, n) \in Chain
    BY <1>1, <2>4, <2>5, <2>6 DEF Opened, Chain
  <2>8. Bounded(Opened(c, n))
    BY <2>3, <2>4, <2>5, <2>7 DEF Bounded, S
  <2> QED
    BY <1>1, <2>1, <2>7, <2>8 DEF S
<1> QED
  BY <1>2, <1>3

\* A selection whose ciphertext does not open consumes no number.
LEMMA SelectedFacts ==
    ASSUME NEW c, Bounded(c), NEW n \in Nat
    PROVE  Bounded(Selected(c, n)) /\ Selected(c, n).consumed = c.consumed
<1>1. c \in Chain /\ Cardinality(c.skipped) \in Nat /\ MaxSkipped \in Nat
  BY SkippedFinite, MaxSkippedAssumption DEF Bounded
<1>2. CASE Outcome(c, n) = "Replay"
  BY <1>2 DEF Selected
<1>3. CASE Outcome(c, n) = "Key"
  <2>1. CASE n \in c.skipped
    <3>1. /\ Selected(c, n).recv = c.recv
          /\ Selected(c, n).skipped = c.skipped \ {n}
          /\ Selected(c, n).consumed = c.consumed
          /\ Selected(c, n) \in Chain
      BY <1>1, <1>3, <2>1 DEF Selected, Chain
    <3>2. c.skipped \ {n} \in SUBSET c.skipped
      OBVIOUS
    <3>3. Cardinality(c.skipped \ {n}) <= Cardinality(c.skipped)
          /\ Cardinality(c.skipped \ {n}) \in Nat
      BY <3>2, SkippedFinite, FS_Subset, FS_CardinalityType
    <3>4. Cardinality(c.skipped \ {n}) <= MaxSkipped
      BY <1>1, <3>3 DEF Bounded
    <3> QED
      BY <3>1, <3>4 DEF Bounded
  <2>2. CASE n \notin c.skipped
    <3> DEFINE S == c.skipped \cup (c.recv .. n - 1)
    <3>1. n >= c.recv /\ Cardinality(c.skipped) + (n - c.recv) <= MaxSkipped
      BY <1>1, <1>3, <2>2 DEF Outcome, Chain
    <3>2. S \subseteq 0 .. n - 1 /\ Cardinality(S) <= MaxSkipped
      BY <3>1, StoredKeys
    <3>3. Selected(c, n) = [c EXCEPT !.recv = n + 1, !.skipped = S]
      BY <1>3, <2>2 DEF Selected
    <3>4. c.consumed \subseteq 0 .. n /\ n + 1 \in Nat /\ S \subseteq 0 .. n
          /\ S \in SUBSET Nat
      BY <3>1, <3>2 DEF Bounded, Chain
    <3> HIDE DEF S
    <3>5. /\ Selected(c, n).recv = n + 1
          /\ Selected(c, n).skipped = S
          /\ Selected(c, n).consumed = c.consumed
          /\ Selected(c, n) \in Chain
      BY <1>1, <3>3, <3>4 DEF Chain
    <3> QED
      BY <3>2, <3>4, <3>5 DEF Bounded
  <2> QED
    BY <2>1, <2>2
<1>4. CASE Outcome(c, n) = "TooManySkipped"
  <2> DEFINE room == MaxSkipped - Cardinality(c.skipped)
             k == c.recv + room
             S == c.skipped \cup (c.recv .. k - 1)
  <2>1. room \in Nat /\ k \in Nat /\ k >= c.recv
    BY <1>1 DEF Bounded, Chain
  <2>2. S \subseteq 0 .. k - 1 /\ Cardinality(S) = MaxSkipped
    <3> HIDE DEF k
    <3>1. /\ S \subseteq 0 .. k - 1
          /\ Cardinality(S) = Cardinality(c.skipped) + (k - c.recv)
      BY <2>1, StoredKeys
    <3> QED
      BY <1>1, <2>1, <3>1 DEF k, Chain
  <2>3. Selected(c, n) = [c EXCEPT !.recv = k, !.skipped = S]
    <3>1. Outcome(c, n) # "Replay"
      BY <1>4
    <3> DEFINE with(a, b) == [c EXCEPT !.recv = a, !.skipped = b]
               filled == with(c.recv + room, c.skipped \cup (c.recv .. c.recv + room - 1))
               other == IF n \in c.skipped THEN [c EXCEPT !.skipped = @ \ {n}]
                        ELSE [c EXCEPT !.recv = n + 1, !.skipped = @ \cup (c.recv .. n - 1)]
    <3>2. Selected(c, n) = IF Outcome(c, n) = "Replay" THEN c
                           ELSE IF Outcome(c, n) = "TooManySkipped" THEN filled ELSE other
      BY Zenon DEF Selected
    <3>3. Selected(c, n) = filled
      <4> HIDE DEF filled, other
      <4> QED
        BY <1>4, <3>1, <3>2
    <3>4. filled = with(k, S)
      <4>1. c.recv + room = k /\ c.recv + room - 1 = k - 1
        BY <1>1, <2>1 DEF Chain
      <4> HIDE DEF with, room, k
      <4> QED
        BY <4>1, Zenon
    <3> QED
      BY <3>3, <3>4
  <2>4. c.consumed \subseteq 0 .. k - 1 /\ S \in SUBSET Nat
    BY <2>1, <2>2 DEF Bounded, Chain
  <2> HIDE DEF S, k
  <2>5. /\ Selected(c, n).recv = k
        /\ Selected(c, n).skipped = S
        /\ Selected(c, n).consumed = c.consumed
        /\ Selected(c, n) \in Chain
    BY <1>1, <2>1, <2>3, <2>4 DEF Chain
  <2> QED
    BY <1>1, <2>2, <2>4, <2>5 DEF Bounded
<1> QED
  BY <1>2, <1>3, <1>4 DEF Outcome

LEMMA NewChainBounded == NewChain \in Chain /\ Bounded(NewChain)
<1>1. NewChain \in Chain
  BY DEF NewChain, Chain
<1>2. Cardinality({}) <= MaxSkipped
  BY FS_EmptySet, MaxSkippedAssumption
<1> QED
  BY <1>1, <1>2 DEF NewChain, Bounded

LEMMA EncryptedFacts ==
    ASSUME NEW c \in Chain
    PROVE  Encrypted(c) \in Chain /\ Encrypted(c).send = c.send + 1
BY DEF Encrypted, Chain

-----------------------------------------------------------------------------
(* Types                                                                    *)

LEMMA ToRecipient == \A l \in Lines : To(l) \in Recipients
BY OutboxAssumption DEF To

LEMMA RecipientKinds ==
    /\ Peer \in Recipients /\ Devices \subseteq Recipients /\ Peer \notin Devices
    /\ \A r \in Recipients : r = Peer \/ r \in Devices
BY OutboxAssumption DEF Recipients

SenderOK ==
    /\ session \in [Recipients -> Chain] /\ saved \in [Recipients -> Chain]
    /\ open \subseteq certified /\ certified \subseteq Devices /\ revoked \subseteq certified
    /\ sealed \subseteq Lines /\ \A k, l \in sealed : k = l
    /\ \A l \in sealed : status[l] = "none" /\ (To(l) = Peer \/ To(l) \in open)
    /\ status \in [Lines -> {"none", "pending", "delivered"}]
    /\ number \in [Lines -> Nat]

\* What is sent is queued; what is acknowledged or accepted was sent.
NetworkOK ==
    /\ wire \subseteq Queued
    /\ acks \subseteq wire
    /\ accepted \subseteq {l \in wire : To(l) = Peer}
    /\ stops \in 0 .. MaxStops /\ damaged \in 0 .. MaxDamaged

ReceiverOK ==
    /\ inbound \in [Recipients -> Chain] /\ \A r \in Recipients : Bounded(inbound[r])
    /\ Bounded(kept)
    /\ hand \subseteq Hand /\ \A g, h \in hand : g = h
    /\ \A h \in hand : h.line \in accepted
    /\ stored \subseteq accepted
    /\ opened \in [Lines -> Nat]

\* The sender's counter is one ahead of the saved one for the recipient of the
\* line that is encrypted and not committed; every number below the saved
\* counter of the peer is the number of one of its rows; and a device that was
\* never given a session has no rows, so the new session starts where it may.
NumbersSound ==
    /\ \A r \in Recipients : session[r].send =
          IF \E l \in sealed : To(l) = r THEN saved[r].send + 1 ELSE saved[r].send
    /\ \A l \in Queued : number[l] < saved[To(l)].send
    /\ NumbersFresh
    /\ \A n \in Nat : n < saved[Peer].send =>
          \E l \in Queued : To(l) = Peer /\ number[l] = n
    /\ \A d \in Devices \ open : saved[d].send = 0

Types == SenderOK /\ NetworkOK /\ ReceiverOK /\ NumbersSound

LEMMA QueuedFacts ==
    ASSUME SenderOK
    PROVE  /\ Queued \subseteq Lines /\ \A l \in Lines : l \in Queued <=> status[l] # "none"
           /\ \A l \in sealed : l \notin Queued
BY DEF SenderOK, Queued

LEMMA TypesAreTypeOK == Types => TypeOK
<1> SUFFICES ASSUME Types PROVE TypeOK
  OBVIOUS
<1>1. sealed = {} \/ \E l \in Lines : sealed = {l}
  BY DEF Types, SenderOK
<1>2. hand = {} \/ \E h \in Hand : hand = {h}
  BY DEF Types, ReceiverOK
<1>3. kept \in Chain /\ Cardinality(kept.skipped) <= MaxSkipped
      /\ \A r \in Recipients : Cardinality(inbound[r].skipped) <= MaxSkipped
  BY DEF Types, ReceiverOK, Bounded
<1> QED
  BY <1>1, <1>2, <1>3 DEF Types, SenderOK, NetworkOK, ReceiverOK, TypeOK

LEMMA TypesInit == Init => Types
<1> SUFFICES ASSUME Init PROVE Types
  OBVIOUS
<1>1. NewChain \in Chain /\ Bounded(NewChain) /\ NewChain.send = 0
  BY NewChainBounded DEF NewChain
<1> HIDE DEF NewChain
<1>2. Queued = {}
  BY DEF Init, Queued
<1>3. SenderOK
  BY <1>1 DEF Init, SenderOK
<1>4. NetworkOK
  BY <1>2, OutboxAssumption DEF Init, NetworkOK
<1>5. ReceiverOK
  BY <1>1 DEF Init, ReceiverOK
<1>6. NumbersSound
  <2>1. saved[Peer].send = 0 /\ \A r \in Recipients : session[r].send = 0 /\ saved[r].send = 0
    BY <1>1, RecipientKinds DEF Init
  <2>2. sealed = {}
    BY DEF Init
  <2> QED
    BY <1>2, <2>1, <2>2, RecipientKinds DEF NumbersSound, NumbersFresh
<1> QED
  BY <1>3, <1>4, <1>5, <1>6 DEF Types

\* The parts of the state that an action leaves alone.
LEMMA SenderFrame ==
    ASSUME SenderOK, UNCHANGED <<session, saved, open, certified, revoked, sealed, status,
                                 number>>
    PROVE  SenderOK' /\ Queued' = Queued
BY DEF SenderOK, Queued

LEMMA NetworkFrame ==
    ASSUME NetworkOK, Queued \subseteq Queued', UNCHANGED <<wire, acks, accepted>>,
           stops' \in 0 .. MaxStops, UNCHANGED damaged
    PROVE  NetworkOK'
BY DEF NetworkOK

LEMMA ReceiverFrame ==
    ASSUME ReceiverOK, UNCHANGED <<inbound, kept, hand, accepted, stored, opened>>
    PROVE  ReceiverOK'
BY DEF ReceiverOK

LEMMA NumbersFrame ==
    ASSUME NumbersSound, UNCHANGED <<session, open, sealed, saved, number>>, Queued' = Queued
    PROVE  NumbersSound'
BY DEF NumbersSound, NumbersFresh

\* The account and the sender.
LEMMA SealTypes ==
    ASSUME Types, NEW l \in Lines, Seal(l), To(l) = Peer \/ To(l) \in open
    PROVE  Types'
<1> DEFINE r == To(l)
           e == Encrypted(session[r])
<1>1. r \in Recipients
  BY ToRecipient
<1>2. session[r] \in Chain /\ saved[r] \in Chain /\ \A q \in Recipients : saved[q].send \in Nat
  BY <1>1 DEF Types, SenderOK, Chain
<1>3. e \in Chain /\ e.send = session[r].send + 1
  BY <1>2, EncryptedFacts
<1>4. /\ sealed = {} /\ status[l] = "none" /\ sealed' = {l}
      /\ session' = [session EXCEPT ![r] = e]
      /\ UNCHANGED <<open, database, receiver, wire, acks, opened, stops, damaged>>
  BY DEF Seal
<1> HIDE DEF e
<1>5. SenderOK' /\ Queued' = Queued
  BY <1>1, <1>3, <1>4 DEF database, Types, SenderOK, Queued
<1>6. NumbersSound'
  <2>1. \A q \in Recipients : session[q].send = saved[q].send
    BY <1>4 DEF Types, NumbersSound
  <2>2. \A q \in Recipients : session'[q] = IF q = r THEN e ELSE session[q]
    BY <1>4 DEF Types, SenderOK
  <2>3. saved' = saved /\ number' = number
    BY <1>4 DEF database
  <2>4. \A q \in Recipients : session'[q].send =
          IF \E k \in sealed' : To(k) = q THEN saved'[q].send + 1 ELSE saved'[q].send
    <3>1. \A q : (\E k \in sealed' : To(k) = q) <=> q = r
      BY <1>4
    <3> HIDE DEF r
    <3> QED
      BY <1>1, <1>3, <2>1, <2>2, <2>3, <3>1
  <2> QED
    BY <1>4, <1>5, <2>3, <2>4 DEF Types, NumbersSound, NumbersFresh
<1>7. NetworkOK'
  BY <1>4, <1>5, NetworkFrame DEF receiver, Types, NetworkOK
<1>8. ReceiverOK'
  BY <1>4, ReceiverFrame DEF receiver, Types
<1> QED
  BY <1>5, <1>6, <1>7, <1>8 DEF Types

\* The row of l is new, and its number the saved counter of its recipient.
LEMMA CommitFacts ==
    ASSUME Types, NEW l \in Lines, Commit(l)
    PROVE  /\ l \in sealed /\ sealed = {l} /\ sealed' = {}
           /\ l \notin Queued /\ Queued' = Queued \cup {l}
           /\ saved' = [saved EXCEPT ![To(l)] = session[To(l)]]
           /\ status' = [status EXCEPT ![l] = "pending"]
           /\ number' = [number EXCEPT ![l] = saved[To(l)].send]
           /\ saved[To(l)].send \in Nat
           /\ session[To(l)].send = saved[To(l)].send + 1
<1>1. To(l) \in Recipients
  BY ToRecipient
<1>2. session[To(l)] \in Chain /\ saved[To(l)].send \in Nat
  BY <1>1 DEF Types, SenderOK, Chain
<1>3. /\ l \in sealed /\ sealed' = {}
      /\ saved' = [saved EXCEPT ![To(l)] = session[To(l)]]
      /\ status' = [status EXCEPT ![l] = "pending"]
      /\ number' = [number EXCEPT ![l] = session[To(l)].send - 1]
  BY DEF Commit, Committed
<1>4. session[To(l)].send = saved[To(l)].send + 1
  BY <1>1, <1>3 DEF Types, NumbersSound
<1>5. session[To(l)].send - 1 = saved[To(l)].send
  BY <1>2, <1>4
<1>6. sealed = {l} /\ status[l] = "none"
  BY <1>3 DEF Types, SenderOK
<1>7. l \notin Queued /\ Queued' = Queued \cup {l}
  BY <1>3, <1>6 DEF Types, SenderOK, Queued
<1> QED
  BY <1>2, <1>3, <1>4, <1>5, <1>6, <1>7

LEMMA CommitTypes ==
    ASSUME Types, NEW l \in Lines, Commit(l)
    PROVE  Types'
<1> DEFINE r == To(l)
<1>1. r \in Recipients
  BY ToRecipient
<1>2. UNCHANGED <<session, open, certified, revoked, receiver, wire, acks, opened, stops,
                  damaged>>
  BY DEF Commit
<1>3. /\ sealed = {l} /\ sealed' = {} /\ l \notin Queued /\ Queued' = Queued \cup {l}
      /\ saved' = [saved EXCEPT ![r] = session[r]]
      /\ status' = [status EXCEPT ![l] = "pending"]
      /\ number' = [number EXCEPT ![l] = saved[r].send]
      /\ saved[r].send \in Nat /\ session[r].send = saved[r].send + 1
  BY CommitFacts
<1> HIDE DEF r
<1>4. SenderOK'
  BY <1>1, <1>2, <1>3 DEF Types, SenderOK
<1>5. NumbersSound'
  <2>1. \A q \in Recipients : saved'[q].send = IF q = r THEN saved[r].send + 1
                                                ELSE saved[q].send
    BY <1>1, <1>3 DEF Types, SenderOK
  <2>2. \A q \in Recipients : session[q].send =
            IF q = r THEN saved[q].send + 1 ELSE saved[q].send
    BY <1>3 DEF Types, NumbersSound, r
  <2>3. \A k \in Queued : k \in Lines /\ k # l /\ number'[k] = number[k] /\ number[k] \in Nat
                          /\ To(k) \in Recipients
    BY <1>3, ToRecipient, QueuedFacts DEF Types, SenderOK
  <2>4. number'[l] = saved[r].send
    BY <1>3 DEF Types, SenderOK
  <2>5. \A q \in Recipients : saved[q].send \in Nat
    BY DEF Types, SenderOK, Chain
  <2>6. \A k \in Queued : number[k] < saved[To(k)].send
    BY DEF Types, NumbersSound
  <2>7. \A k \in Queued' : number'[k] < saved'[To(k)].send
    BY <1>1, <1>3, <2>1, <2>3, <2>4, <2>5, <2>6 DEF r
  <2>8. NumbersFresh'
    <3>1. ASSUME NEW k \in Queued', NEW j \in Queued', To(k) = To(j), number'[k] = number'[j]
          PROVE  k = j
      <4>1. CASE k \in Queued /\ j \in Queued
        BY <2>3, <3>1, <4>1 DEF Types, NumbersSound, NumbersFresh
      <4>2. CASE k = l /\ j \in Queued
        BY <2>3, <2>4, <2>6, <3>1, <4>2, <1>3 DEF r
      <4>3. CASE k \in Queued /\ j = l
        BY <2>3, <2>4, <2>6, <3>1, <4>3, <1>3 DEF r
      <4> QED
        BY <1>3, <4>1, <4>2, <4>3
    <3> QED
      BY <3>1 DEF NumbersFresh
  <2>9. ASSUME NEW n \in Nat, n < saved'[Peer].send
        PROVE  \E k \in Queued' : To(k) = Peer /\ number'[k] = n
    <3>1. CASE n < saved[Peer].send
      <4>1. PICK k \in Queued : To(k) = Peer /\ number[k] = n
        BY <3>1 DEF Types, NumbersSound
      <4> QED
        BY <1>3, <2>3, <4>1
    <3>2. CASE ~(n < saved[Peer].send)
      <4>1. r = Peer /\ n = saved[r].send
        BY <2>1, <2>5, <2>9, <3>2, RecipientKinds
      <4> QED
        BY <1>3, <2>4, <4>1 DEF r
    <3> QED
      BY <3>1, <3>2
  <2>10. \A q \in Recipients : session'[q].send =
          IF \E k \in sealed' : To(k) = q THEN saved'[q].send + 1 ELSE saved'[q].send
    BY <1>2, <1>3, <2>1, <2>2
  <2>11. \A d \in Devices \ open' : saved'[d].send = 0
    <3>1. r = Peer \/ r \in open
      BY <1>3 DEF Types, SenderOK, r
    <3> QED
      BY <1>2, <2>1, <3>1, RecipientKinds DEF Types, NumbersSound
  <2> QED
    BY <2>7, <2>8, <2>9, <2>10, <2>11 DEF NumbersSound
<1>6. NetworkOK'
  BY <1>2, <1>3, NetworkFrame DEF receiver, Types, NetworkOK
<1>7. ReceiverOK'
  BY <1>2, ReceiverFrame DEF receiver, Types
<1> QED
  BY <1>4, <1>5, <1>6, <1>7 DEF Types

LEMMA SenderTypes ==
    ASSUME Types,
           \/ \E d \in Devices : AuthorizeDevice(d) \/ RevokeDevice(d)
           \/ OpenSessions \/ SenderRestarts
           \/ \E l \in Lines : Attempt(l) \/ HandleAck(l)
    PROVE  Types'
<1>1. ASSUME NEW d \in Devices, AuthorizeDevice(d) \/ RevokeDevice(d)
      PROVE  Types'
  <2>1. UNCHANGED <<memory, saved, status, number, receiver, wire, acks, opened, stops,
                    damaged>>
    BY <1>1 DEF AuthorizeDevice, RevokeDevice
  <2>2. SenderOK' /\ Queued' = Queued
    BY <1>1, <2>1 DEF AuthorizeDevice, RevokeDevice, WithCertificate, WithRevocation, memory,
       Types, SenderOK, Queued
  <2> QED
    BY <2>1, <2>2, NetworkFrame, ReceiverFrame, NumbersFrame
       DEF memory, receiver, Types, NetworkOK
<1>2. CASE OpenSessions
  <2>1. /\ open' = open \cup ActiveDevices
        /\ session' = [r \in Recipients |->
                         IF r \in ActiveDevices \ open THEN NewChain ELSE session[r]]
        /\ UNCHANGED <<sealed, database, receiver, wire, acks, opened, stops, damaged>>
    BY <1>2 DEF OpenSessions, SessionWith
  <2>2. ActiveDevices \subseteq certified
    BY DEF ActiveDevices
  <2>3. SenderOK' /\ Queued' = Queued
    BY <2>1, <2>2, NewChainBounded DEF database, Types, SenderOK, Queued, Bounded
  <2>4. \A r \in Recipients : session'[r].send = session[r].send
    <3> SUFFICES ASSUME NEW r \in ActiveDevices \ open, r \in Recipients
                 PROVE  NewChain.send = session[r].send
      BY <2>1
    <3>1. r # Peer /\ r \in Devices \ open
      BY <2>2, RecipientKinds DEF Types, SenderOK
    <3>2. ~ \E l \in sealed : To(l) = r
      BY <3>1 DEF Types, SenderOK
    <3>3. session[r].send = saved[r].send /\ saved[r].send = 0
      BY <3>1, <3>2 DEF Types, NumbersSound
    <3> QED
      BY <3>3 DEF NewChain
  <2>5. NumbersSound'
    BY <2>1, <2>3, <2>4 DEF database, Types, NumbersSound, NumbersFresh
  <2> QED
    BY <2>1, <2>3, <2>5, NetworkFrame, ReceiverFrame DEF receiver, Types, NetworkOK
<1>3. CASE SenderRestarts
  <2>1. /\ session' = [session EXCEPT ![Peer] = saved[Peer]]
        /\ sealed' = {l \in sealed : To(l) # Peer}
        /\ stops' = stops + 1 /\ stops < MaxStops
        /\ UNCHANGED <<open, database, receiver, wire, acks, opened, damaged>>
    BY <1>3 DEF SenderRestarts
  <2>2. SenderOK' /\ Queued' = Queued
    BY <2>1, RecipientKinds DEF database, Types, SenderOK, Queued
  <2>3. stops' \in 0 .. MaxStops
    BY <2>1, OutboxAssumption DEF Types, NetworkOK
  <2>4. NumbersSound'
    <3>1. \A r \in Recipients :
             session'[r].send = IF r = Peer THEN saved[r].send ELSE session[r].send
      BY <2>1 DEF Types, SenderOK
    <3>2. \A r : (\E l \in sealed' : To(l) = r) <=> r # Peer /\ \E l \in sealed : To(l) = r
      BY <2>1
    <3>3. \A r \in Recipients : session'[r].send =
             IF \E l \in sealed' : To(l) = r THEN saved[r].send + 1 ELSE saved[r].send
      BY <3>1, <3>2 DEF Types, NumbersSound
    <3> QED
      BY <2>1, <2>2, <3>3 DEF database, Types, NumbersSound, NumbersFresh
  <2> QED
    BY <2>1, <2>2, <2>3, <2>4, NetworkFrame, ReceiverFrame DEF receiver, Types
<1>4. ASSUME NEW l \in Lines, Attempt(l)
      PROVE  Types'
  <2>1. /\ l \in Queued /\ status' = status /\ wire' = wire \cup {l}
        /\ UNCHANGED <<memory, saved, number, certified, revoked, receiver, acks, opened,
                       stops, damaged>>
    BY <1>4 DEF Attempt, Attempted, Pending, Queued
  <2>2. SenderOK' /\ Queued' = Queued
    BY <2>1, SenderFrame DEF memory, Types
  <2>3. NetworkOK'
    BY <2>1, <2>2 DEF receiver, Types, NetworkOK
  <2> QED
    BY <2>1, <2>2, <2>3, ReceiverFrame, NumbersFrame DEF memory, receiver, Types
<1>5. ASSUME NEW l \in Lines, HandleAck(l)
      PROVE  Types'
  <2>1. /\ l \in acks /\ status' = [status EXCEPT ![l] = "delivered"]
        /\ UNCHANGED <<memory, saved, number, certified, revoked, receiver, wire, acks,
                       opened, stops, damaged>>
    BY <1>5 DEF HandleAck, Delivered
  <2>2. l \in Queued
    BY <2>1 DEF Types, NetworkOK
  <2>3. Queued' = Queued
    BY <2>1, <2>2 DEF Types, SenderOK, Queued
  <2>4. SenderOK'
    BY <2>1, <2>2, QueuedFacts DEF memory, Types, SenderOK
  <2> QED
    BY <2>1, <2>3, <2>4, NetworkFrame, ReceiverFrame, NumbersFrame
       DEF memory, receiver, Types, NetworkOK
<1> QED
  BY <1>1, <1>2, <1>3, <1>4, <1>5

\* The sender's half when only the receivers and the network move.
LEMMA ReceiverMoves ==
    ASSUME Types, UNCHANGED <<memory, database>>
    PROVE  SenderOK' /\ Queued' = Queued /\ NumbersSound'
BY SenderFrame, NumbersFrame DEF memory, database, Types

LEMMA PeerTypes ==
    ASSUME Types,
           \/ \E l \in Lines : AcceptDuplicate(l) \/ \E i \in BOOLEAN : Accept(l, i)
           \/ \E h \in hand : Open(h) \/ OpenFails(h) \/ Persist(h)
           \/ PeerRestarts
    PROVE  Types'
<1>0. /\ Bounded(kept) /\ kept \in Chain /\ Peer \in Recipients /\ Bounded(inbound[Peer])
      /\ \A h \in hand : /\ h \in Hand /\ h.line \in Lines /\ h.line \in accepted
                         /\ number[h.line] \in Nat /\ hand = {h}
  BY RecipientKinds DEF Types, ReceiverOK, SenderOK, Bounded, Hand
<1>1. ASSUME NEW l \in Lines, AcceptDuplicate(l)
      PROVE  Types'
  <2>1. /\ l \in wire /\ acks' = acks \cup {l}
        /\ UNCHANGED <<memory, database, receiver, wire, opened, stops, damaged>>
    BY <1>1 DEF AcceptDuplicate
  <2>2. SenderOK' /\ Queued' = Queued /\ NumbersSound'
    BY <2>1, ReceiverMoves
  <2>3. NetworkOK'
    BY <2>1, <2>2 DEF receiver, Types, NetworkOK
  <2> QED
    BY <2>1, <2>2, <2>3, ReceiverFrame DEF receiver, Types
<1>2. ASSUME NEW l \in Lines, NEW i \in BOOLEAN, Accept(l, i)
      PROVE  Types'
  <2> DEFINE h == [line |-> l, intact |-> i, at |-> "accepted"]
  <2>1. /\ l \in wire /\ To(l) = Peer /\ accepted' = accepted \cup {l} /\ hand' = {h}
        /\ i \/ damaged < MaxDamaged
        /\ damaged' = IF i THEN damaged ELSE damaged + 1
        /\ UNCHANGED <<memory, database, inbound, kept, stored, wire, acks, opened, stops>>
    BY <1>2 DEF Accept
  <2>2. SenderOK' /\ Queued' = Queued /\ NumbersSound'
    BY <2>1, ReceiverMoves
  <2>3. damaged' \in 0 .. MaxDamaged
    BY <2>1, OutboxAssumption DEF Types, NetworkOK
  <2>4. NetworkOK'
    BY <2>1, <2>2, <2>3 DEF Types, NetworkOK
  <2>5. h \in Hand /\ h.line = l
    BY DEF Hand
  <2> HIDE DEF h
  <2>6. ReceiverOK'
    BY <2>1, <2>5 DEF Types, ReceiverOK
  <2> QED
    BY <2>2, <2>4, <2>6 DEF Types
<1>3. ASSUME NEW h \in hand, Open(h)
      PROVE  Types'
  <2> DEFINE n == number[h.line]
             c == Opened(inbound[Peer], n)
             g == [h EXCEPT !.at = "opened"]
  <2>1. /\ Outcome(inbound[Peer], n) = "Key" /\ hand' = {g}
        /\ inbound' = [inbound EXCEPT ![Peer] = c]
        /\ opened' = [opened EXCEPT ![h.line] = @ + 1]
        /\ UNCHANGED <<memory, database, kept, accepted, stored, wire, acks, stops, damaged>>
    BY <1>3 DEF Open, Opens
  <2>2. SenderOK' /\ Queued' = Queued /\ NumbersSound'
    BY <2>1, ReceiverMoves
  <2>3. n \in Nat
    BY <1>0
  <2>4. Bounded(c) /\ c \in Chain
    <3> HIDE DEF n
    <3>1. Bounded(Opened(inbound[Peer], n))
      BY <1>0, <2>1, <2>3, OpenedFacts
    <3> QED
      BY <3>1 DEF Bounded
  <2>5. g \in Hand /\ g.line = h.line
    BY <1>0 DEF Hand
  <2> HIDE DEF c, g
  <2>6. ReceiverOK'
    BY <1>0, <2>1, <2>4, <2>5 DEF Types, ReceiverOK
  <2>7. NetworkOK'
    BY <2>1, <2>2 DEF Types, NetworkOK
  <2> QED
    BY <2>2, <2>6, <2>7 DEF Types
<1>4. CASE (\E h \in hand : OpenFails(h)) \/ PeerRestarts
  <2>1. /\ hand' = {} /\ inbound' = [inbound EXCEPT ![Peer] = kept]
        /\ stops' = stops \/ (stops < MaxStops /\ stops' = stops + 1)
        /\ UNCHANGED <<memory, database, kept, accepted, stored, wire, acks, opened, damaged>>
    BY <1>4 DEF OpenFails, PeerRestarts
  <2>2. SenderOK' /\ Queued' = Queued /\ NumbersSound'
    BY <2>1, ReceiverMoves
  <2>3. stops' \in 0 .. MaxStops
    BY <2>1, OutboxAssumption DEF Types, NetworkOK
  <2>4. ReceiverOK'
    BY <1>0, <2>1 DEF Types, ReceiverOK
  <2>5. NetworkOK'
    BY <2>1, <2>2, <2>3, NetworkFrame DEF Types
  <2> QED
    BY <2>2, <2>4, <2>5 DEF Types
<1>5. ASSUME NEW h \in hand, Persist(h)
      PROVE  Types'
  <2>1. /\ hand' = {} /\ kept' = inbound[Peer] /\ stored' = stored \cup {h.line}
        /\ acks' = acks \cup {h.line}
        /\ UNCHANGED <<memory, database, inbound, accepted, wire, opened, stops, damaged>>
    BY <1>5 DEF Persist, Persisted
  <2>2. SenderOK' /\ Queued' = Queued /\ NumbersSound'
    BY <2>1, ReceiverMoves
  <2>3. ReceiverOK'
    BY <1>0, <2>1 DEF Types, ReceiverOK
  <2>4. NetworkOK'
    BY <1>0, <2>1, <2>2 DEF Types, NetworkOK
  <2> QED
    BY <2>2, <2>3, <2>4 DEF Types
<1> QED
  BY <1>1, <1>2, <1>3, <1>4, <1>5

\* What the chain of a device becomes, whether or not the copy opens.
LEMMA DeviceChain ==
    ASSUME Types, NEW l \in Lines, NEW i \in BOOLEAN
    PROVE  LET c == inbound[To(l)]
               d == IF DeviceOpens(l, i) THEN Opened(c, number[l]) ELSE Selected(c, number[l])
           IN  /\ Bounded(d) /\ d \in Chain
               /\ c.consumed \subseteq d.consumed
               /\ DeviceOpens(l, i) => number[l] \notin c.consumed /\ number[l] \in d.consumed
<1> DEFINE c == inbound[To(l)]
           n == number[l]
<1>1. Bounded(c) /\ n \in Nat
  BY ToRecipient DEF Types, ReceiverOK, SenderOK
<1>2. DeviceOpens(l, i) => Outcome(c, n) = "Key"
  BY DEF DeviceOpens
<1> HIDE DEF c, n
<1>3. CASE DeviceOpens(l, i)
  <2>1. /\ n \notin c.consumed /\ Bounded(Opened(c, n))
        /\ Opened(c, n).consumed = c.consumed \cup {n}
    BY <1>1, <1>2, <1>3, OpenedFacts
  <2> QED
    BY <1>3, <2>1 DEF Bounded, c, n
<1>4. CASE ~DeviceOpens(l, i)
  <2>1. Bounded(Selected(c, n)) /\ Selected(c, n).consumed = c.consumed
    BY <1>1, SelectedFacts
  <2> QED
    BY <1>4, <2>1 DEF Bounded, c, n
<1> QED
  BY <1>3, <1>4

LEMMA DeviceTypes ==
    ASSUME Types, NEW l \in Lines, NEW i \in BOOLEAN, DeviceReceive(l, i)
    PROVE  Types'
<1> DEFINE c == inbound[To(l)]
           d == IF DeviceOpens(l, i) THEN Opened(c, number[l]) ELSE Selected(c, number[l])
<1>1. Bounded(d) /\ d \in Chain /\ To(l) \in Recipients
  BY DeviceChain, ToRecipient
<1>2. /\ l \in wire /\ inbound' = [inbound EXCEPT ![To(l)] = d]
      /\ opened' = IF DeviceOpens(l, i) THEN [opened EXCEPT ![l] = @ + 1] ELSE opened
      /\ acks' = IF DeviceOpens(l, i) THEN acks \cup {l} ELSE acks
      /\ i \/ damaged < MaxDamaged
      /\ damaged' = IF i THEN damaged ELSE damaged + 1
      /\ UNCHANGED <<memory, database, kept, accepted, stored, hand, wire, stops>>
  BY DEF DeviceReceive
<1> HIDE DEF d
<1>3. SenderOK' /\ Queued' = Queued /\ NumbersSound'
  BY <1>2, ReceiverMoves
<1>4. damaged' \in 0 .. MaxDamaged
  BY <1>2, OutboxAssumption DEF Types, NetworkOK
<1>5. NetworkOK'
  BY <1>2, <1>3, <1>4 DEF Types, NetworkOK
<1>6. opened' \in [Lines -> Nat]
  BY <1>2 DEF Types, ReceiverOK
<1>7. ReceiverOK'
  BY <1>1, <1>2, <1>6 DEF Types, ReceiverOK
<1> QED
  BY <1>3, <1>5, <1>7 DEF Types

LEMMA TypesStep ==
    ASSUME Types, [Next]_vars
    PROVE  Types'
<1>1. CASE UNCHANGED vars
  BY <1>1, SenderFrame, NetworkFrame, ReceiverFrame, NumbersFrame
     DEF vars, memory, database, receiver, Types, NetworkOK
<1>2. ASSUME NEW l \in Lines, EncryptForPeer(l) \/ EncryptForDevice(l)
      PROVE  Types'
  BY <1>2, SealTypes DEF EncryptForPeer, EncryptForDevice
<1>3. ASSUME NEW l \in Lines, QueueForPeer(l) \/ QueueForDevice(l)
      PROVE  Types'
  BY <1>3, CommitTypes DEF QueueForPeer, QueueForDevice
<1> QED
  BY <1>1, <1>2, <1>3, SenderTypes, PeerTypes, DeviceTypes DEF Next

LEMMA TypesAlways == Spec => []Types
BY TypesInit, TypesStep, PTL DEF Spec

\* The sender, the network and the receivers keep their types: only queued
\* lines travel, only lines of the peer that travelled are accepted, and no
\* receiver keeps more skipped keys than the limit.
THEOREM TypeCorrect == Spec => []TypeOK
BY TypesAlways, TypesAreTypeOK, PTL

\* Two rows for one recipient never carry the same message number: a sender
\* that stops before its transaction commits encrypts again with the number it
\* had, and the transaction saves the ratchet with the row.
THEOREM NumbersAreFresh == Spec => []NumbersFresh
<1>1. Types => NumbersFresh
  BY DEF Types, NumbersSound
<1> QED
  BY <1>1, TypesAlways, PTL

-----------------------------------------------------------------------------
(* Lines are opened once                                                    *)

\* The peer decrypts a line in hand that it has not decrypted yet; a device
\* keeps the number of a line it has decrypted among the consumed ones; what
\* is acknowledged has arrived.
OpeningsSound ==
    /\ \A l \in Lines : To(l) = Peer =>
          \/ opened[l] = 0
          \/ /\ opened[l] = 1 /\ l \in accepted
             /\ \A h \in hand : h.line = l => h.at = "opened"
    /\ \A l \in Lines : To(l) # Peer =>
          \/ opened[l] = 0
          \/ opened[l] = 1 /\ l \in Queued /\ number[l] \in inbound[To(l)].consumed
    /\ \A l \in acks : l \in accepted \/ (To(l) # Peer /\ opened[l] = 1)

LEMMA OpeningsFrame ==
    ASSUME Types, OpeningsSound, UNCHANGED <<opened, accepted>>,
           \A l \in acks' : l \in acks \/ l \in accepted,
           \A d \in Devices : inbound'[d] = inbound[d],
           \A h \in hand' : h \in hand \/ h.at = "opened",
           \A l \in Queued : l \in Queued' /\ number'[l] = number[l]
    PROVE  OpeningsSound'
BY RecipientKinds, ToRecipient DEF OpeningsSound

\* Rows keep their numbers.
LEMMA RowsStay ==
    ASSUME Types, [Next]_vars
    PROVE  \A l \in Queued : l \in Queued' /\ number'[l] = number[l]
<1>1. ASSUME NEW l \in Lines, Commit(l)
      PROVE  \A k \in Queued : k \in Queued' /\ number'[k] = number[k]
  BY <1>1, CommitFacts, QueuedFacts DEF Types, SenderOK
<1>2. ASSUME NEW l \in Lines, HandleAck(l)
      PROVE  \A k \in Queued : k \in Queued' /\ number'[k] = number[k]
  BY <1>2 DEF HandleAck, Delivered, Types, SenderOK, Queued
<1>3. ASSUME UNCHANGED <<status, number>>
      PROVE  \A k \in Queued : k \in Queued' /\ number'[k] = number[k]
  BY <1>3 DEF Queued
<1>4. \/ \E l \in Lines : Commit(l) \/ HandleAck(l)
      \/ UNCHANGED <<status, number>>
  BY DEF Next, vars, database, AuthorizeDevice, RevokeDevice, OpenSessions, EncryptForPeer,
     EncryptForDevice, Seal, QueueForPeer, QueueForDevice, Attempt, Attempted,
     AcceptDuplicate, Accept, DeviceReceive, Open, OpenFails, Persist, SenderRestarts,
     PeerRestarts
<1> QED
  BY <1>1, <1>2, <1>3, <1>4

\* The steps that leave the receivers and the acknowledgements alone.
SenderStep ==
    \/ \E d \in Devices : AuthorizeDevice(d) \/ RevokeDevice(d)
    \/ OpenSessions \/ SenderRestarts
    \/ \E l \in Lines : \/ EncryptForPeer(l) \/ EncryptForDevice(l)
                        \/ QueueForPeer(l) \/ QueueForDevice(l)
                        \/ Attempt(l) \/ HandleAck(l)

LEMMA SenderStepFrame ==
    ASSUME SenderStep \/ UNCHANGED vars
    PROVE  UNCHANGED <<receiver, acks, opened>>
BY DEF SenderStep, vars, AuthorizeDevice, RevokeDevice, OpenSessions, SenderRestarts,
   EncryptForPeer, EncryptForDevice, Seal, QueueForPeer, QueueForDevice, Commit, Attempt,
   HandleAck

LEMMA OpeningsStep ==
    ASSUME Types, OpeningsSound, [Next]_vars
    PROVE  OpeningsSound'
<1>0. /\ \A l \in Queued : l \in Queued' /\ number'[l] = number[l]
      /\ opened \in [Lines -> Nat] /\ inbound \in [Recipients -> Chain]
      /\ Peer \notin Devices /\ Peer \in Recipients
      /\ \A h \in hand : h \in Hand /\ h.line \in Lines /\ h.line \in accepted
                         /\ To(h.line) = Peer
  BY RowsStay, RecipientKinds DEF Types, ReceiverOK, NetworkOK, Hand
<1>1. CASE SenderStep \/ UNCHANGED vars
  <2>1. UNCHANGED <<receiver, acks, opened>>
    BY <1>1, SenderStepFrame
  <2> QED
    BY <1>0, <2>1, OpeningsFrame DEF receiver
<1>2. ASSUME NEW l \in Lines, AcceptDuplicate(l)
      PROVE  OpeningsSound'
  <2>1. l \in accepted /\ acks' = acks \cup {l} /\ UNCHANGED <<receiver, opened>>
    BY <1>2 DEF AcceptDuplicate, AcceptedBefore
  <2> QED
    BY <1>0, <2>1, OpeningsFrame DEF receiver
<1>3. ASSUME NEW l \in Lines, NEW i \in BOOLEAN, Accept(l, i)
      PROVE  OpeningsSound'
  <2> DEFINE h == [line |-> l, intact |-> i, at |-> "accepted"]
  <2>1. /\ l \notin accepted /\ accepted' = accepted \cup {l} /\ hand' = {h}
        /\ hand = {} /\ To(l) = Peer
        /\ UNCHANGED <<inbound, acks, opened>>
    BY <1>3 DEF Accept, AcceptedBefore
  <2>2. h.line = l
    OBVIOUS
  <2> HIDE DEF h
  <2> QED
    BY <1>0, <2>1, <2>2 DEF OpeningsSound
<1>4. ASSUME NEW h \in hand, Open(h)
      PROVE  OpeningsSound'
  <2> DEFINE g == [h EXCEPT !.at = "opened"]
  <2>1. /\ h.at = "accepted" /\ hand' = {g}
        /\ opened' = [opened EXCEPT ![h.line] = @ + 1]
        /\ \A d \in Devices : inbound'[d] = inbound[d]
        /\ UNCHANGED <<accepted, acks>>
    BY <1>0, <1>4 DEF Open
  <2>2. g.line = h.line /\ g.at = "opened"
    BY <1>0 DEF Hand
  <2>3. opened[h.line] = 0
    BY <1>0, <2>1 DEF OpeningsSound
  <2>4. \A l \in Lines : opened'[l] = IF l = h.line THEN 1 ELSE opened[l]
    BY <1>0, <2>1, <2>3
  <2> HIDE DEF g
  <2>5. \A l \in Lines : To(l) = Peer =>
          \/ opened'[l] = 0
          \/ /\ opened'[l] = 1 /\ l \in accepted'
             /\ \A k \in hand' : k.line = l => k.at = "opened"
    BY <1>0, <2>1, <2>2, <2>4 DEF OpeningsSound
  <2>6. \A l \in Lines : To(l) # Peer => To(l) \in Devices /\ opened'[l] = opened[l]
    BY <1>0, <2>4, ToRecipient, RecipientKinds
  <2>7. acks \subseteq Lines
    BY QueuedFacts DEF Types, NetworkOK
  <2> QED
    BY <1>0, <2>1, <2>5, <2>6, <2>7 DEF OpeningsSound
<1>5. CASE (\E h \in hand : OpenFails(h)) \/ PeerRestarts
  <2>1. /\ hand' = {} /\ inbound' = [inbound EXCEPT ![Peer] = kept]
        /\ UNCHANGED <<opened, accepted, acks>>
    BY <1>5 DEF OpenFails, PeerRestarts
  <2>2. \A d \in Devices : inbound'[d] = inbound[d]
    BY <1>0, <2>1
  <2> QED
    BY <1>0, <2>1, <2>2, OpeningsFrame
<1>6. ASSUME NEW h \in hand, Persist(h)
      PROVE  OpeningsSound'
  <2>1. /\ hand' = {} /\ acks' = acks \cup {h.line}
        /\ UNCHANGED <<inbound, opened, accepted>>
    BY <1>6 DEF Persist
  <2> QED
    BY <1>0, <2>1, OpeningsFrame
<1>7. ASSUME NEW l \in Lines, NEW i \in BOOLEAN, DeviceReceive(l, i)
      PROVE  OpeningsSound'
  <2> DEFINE c == inbound[To(l)]
             d == IF DeviceOpens(l, i) THEN Opened(c, number[l]) ELSE Selected(c, number[l])
             ok == DeviceOpens(l, i)
  <2>1. /\ c.consumed \subseteq d.consumed
        /\ ok => number[l] \notin c.consumed /\ number[l] \in d.consumed
    BY DeviceChain
  <2>2. /\ l \in wire /\ To(l) \in Devices /\ inbound' = [inbound EXCEPT ![To(l)] = d]
        /\ opened' = IF ok THEN [opened EXCEPT ![l] = @ + 1] ELSE opened
        /\ acks' = IF ok THEN acks \cup {l} ELSE acks
        /\ UNCHANGED <<database, accepted, hand>>
    BY <1>7 DEF DeviceReceive
  <2>3. /\ l \in Queued /\ To(l) \in Recipients /\ To(l) # Peer
        /\ Queued' = Queued /\ number' = number
    BY <1>0, <2>2, RecipientKinds DEF Types, NetworkOK, database, Queued
  <2>4. ok => opened[l] = 0
    BY <2>1, <2>3 DEF OpeningsSound
  <2> HIDE DEF d, ok
  <2>5. \A k \in Lines : opened'[k] = IF ok /\ k = l THEN 1 ELSE opened[k]
    BY <1>0, <2>2, <2>4
  <2>6. \A r \in Recipients : inbound[r].consumed \subseteq inbound'[r].consumed
    BY <1>0, <2>1, <2>2, <2>3
  <2>7. ok => number[l] \in inbound'[To(l)].consumed
    BY <1>0, <2>1, <2>2, <2>3
  <2>8. \A k \in Lines : To(k) = Peer => opened'[k] = opened[k]
    BY <2>3, <2>5
  <2>9. \A k \in Lines : To(k) # Peer =>
          \/ opened'[k] = 0
          \/ opened'[k] = 1 /\ k \in Queued' /\ number'[k] \in inbound'[To(k)].consumed
    BY <2>3, <2>5, <2>6, <2>7, ToRecipient DEF OpeningsSound
  <2>10. acks \subseteq Lines
    BY QueuedFacts DEF Types, NetworkOK
  <2>11. \A k \in acks' : k \in accepted' \/ (To(k) # Peer /\ opened'[k] = 1)
    BY <2>2, <2>3, <2>5, <2>10 DEF OpeningsSound
  <2> QED
    BY <2>2, <2>8, <2>9, <2>11 DEF OpeningsSound
<1> QED
  BY <1>1, <1>2, <1>3, <1>4, <1>5, <1>6, <1>7 DEF Next, SenderStep

LEMMA OpeningsAlways == Spec => [](Types /\ OpeningsSound)
<1>1. Init => OpeningsSound
  BY DEF Init, OpeningsSound
<1>2. Types /\ OpeningsSound /\ [Next]_vars => OpeningsSound'
  BY OpeningsStep
<1> QED
  BY <1>1, <1>2, TypesAlways, PTL DEF Spec

\* No line is decrypted twice: at the peer accept_message_once stands before
\* the ratchet, which restarts take back; at a device the consumed numbers do.
THEOREM LinesOpenOnce == Spec => []OpenedOnce
<1>1. Types /\ OpeningsSound => OpenedOnce
  BY DEF OpeningsSound, OpenedOnce
<1> QED
  BY <1>1, OpeningsAlways, PTL

-----------------------------------------------------------------------------
(* The outbox implements the delivery service                               *)

\* What the service sees of arrivals.
Copies == [l \in Lines |-> IF To(l) # Peer THEN opened[l]
                           ELSE IF l \in accepted THEN 1 ELSE 0]

LEMMA InvisibleStep ==
    ASSUME UNCHANGED <<Queued, Pending, Copies>>
    PROVE  [Service!DNext]_(Service!dvars)
BY DEF Service!dvars, Copies

\* The first copy that a receiver records or decrypts.
LEMMA ArriveStep ==
    ASSUME NEW l \in Queued, l \in Lines, Copies[l] = 0,
           Copies' = [Copies EXCEPT ![l] = @ + 1], UNCHANGED <<Queued, Pending>>
    PROVE  Service!DNext
<1>1. Service!Arrive(l)
  BY DEF Service!Arrive, Service!Arrived, Copies
<1> QED
  BY <1>1 DEF Service!DNext

LEMMA ServiceStep ==
    ASSUME Types, OpeningsSound, [Next]_vars
    PROVE  [Service!DNext]_(Service!dvars)
<1>0. /\ opened \in [Lines -> Nat] /\ Queued \subseteq Lines
      /\ status \in [Lines -> {"none", "pending", "delivered"}]
      /\ \A h \in hand : h.line \in Lines /\ To(h.line) = Peer
  BY QueuedFacts DEF Types, SenderOK, ReceiverOK, NetworkOK, Hand
<1>1. ASSUME NEW l \in Lines, Commit(l)
      PROVE  [Service!DNext]_(Service!dvars)
  <2>1. /\ l \notin Queued /\ Queued' = Queued \cup {l}
        /\ status' = [status EXCEPT ![l] = "pending"]
    BY <1>1, CommitFacts
  <2>2. Pending' = Pending \cup {l}
    BY <1>0, <2>1 DEF Pending
  <2>3. UNCHANGED <<opened, accepted>>
    BY <1>1 DEF Commit, receiver
  <2>4. Service!Issue(l)
    BY <2>1, <2>2, <2>3 DEF Service!Issue
  <2> QED
    BY <2>4 DEF Service!DNext
<1>2. ASSUME NEW l \in Lines, HandleAck(l)
      PROVE  [Service!DNext]_(Service!dvars)
  <2>1. /\ l \in acks /\ status' = [status EXCEPT ![l] = "delivered"]
        /\ UNCHANGED <<opened, accepted>>
    BY <1>2 DEF HandleAck, Delivered, receiver
  <2>2. l \in Queued
    BY <2>1 DEF Types, NetworkOK
  <2>3. Queued' = Queued /\ Pending' = Pending \ {l}
    BY <1>0, <2>1, <2>2 DEF Queued, Pending
  <2>4. Copies[l] > 0 /\ Copies' = Copies
    BY <2>1 DEF OpeningsSound, Copies, Types, NetworkOK
  <2>5. CASE l \in Pending
    <3>1. Service!Settle(l)
      BY <2>3, <2>4, <2>5 DEF Service!Settle, Service!Arrived, Copies
    <3> QED
      BY <3>1 DEF Service!DNext
  <2>6. CASE l \notin Pending
    BY <2>3, <2>4, <2>6, InvisibleStep
  <2> QED
    BY <2>5, <2>6
<1>3. ASSUME NEW l \in Lines, NEW i \in BOOLEAN, Accept(l, i)
      PROVE  [Service!DNext]_(Service!dvars)
  <2>1. /\ l \in wire /\ To(l) = Peer /\ l \notin accepted /\ accepted' = accepted \cup {l}
        /\ UNCHANGED <<database, opened>>
    BY <1>3 DEF Accept, AcceptedBefore
  <2>2. l \in Queued /\ UNCHANGED <<Queued, Pending>>
    BY <2>1 DEF Types, NetworkOK, database, Queued, Pending
  <2>3. Copies[l] = 0
    BY <2>1 DEF Copies
  <2>4. Copies' = [k \in Lines |-> IF k = l THEN 1 ELSE Copies[k]]
    BY <2>1 DEF Copies
  <2>5. Copies' = [Copies EXCEPT ![l] = @ + 1]
    <3>1. Copies = [k \in Lines |-> Copies[k]]
      BY DEF Copies
    <3> QED
      BY <2>3, <2>4, <3>1
  <2> QED
    BY <2>2, <2>3, <2>5, ArriveStep
<1>4. ASSUME NEW l \in Lines, NEW i \in BOOLEAN, DeviceReceive(l, i)
      PROVE  [Service!DNext]_(Service!dvars)
  <2>1. /\ l \in wire /\ To(l) \in Devices
        /\ opened' = IF DeviceOpens(l, i) THEN [opened EXCEPT ![l] = @ + 1] ELSE opened
        /\ UNCHANGED <<database, accepted>>
    BY <1>4 DEF DeviceReceive
  <2>2. l \in Queued /\ UNCHANGED <<Queued, Pending>> /\ To(l) # Peer
    BY <2>1, RecipientKinds DEF Types, NetworkOK, database, Queued, Pending
  <2>3. CASE DeviceOpens(l, i)
    <3>1. number[l] \notin inbound[To(l)].consumed
      BY <2>3, DeviceChain
    <3>2. opened[l] = 0
      BY <2>2, <3>1 DEF OpeningsSound
    <3>3. Copies[l] = 0 /\ Copies' = [Copies EXCEPT ![l] = @ + 1]
      BY <1>0, <2>1, <2>2, <2>3, <3>2 DEF Copies
    <3> QED
      BY <2>2, <3>3, ArriveStep
  <2>4. CASE ~DeviceOpens(l, i)
    <3>1. Copies' = Copies
      BY <2>1, <2>4 DEF Copies
    <3> QED
      BY <2>2, <3>1, InvisibleStep
  <2> QED
    BY <2>3, <2>4
<1>5. ASSUME NEW h \in hand, Open(h)
      PROVE  [Service!DNext]_(Service!dvars)
  <2>1. opened' = [opened EXCEPT ![h.line] = @ + 1] /\ UNCHANGED <<database, accepted>>
    BY <1>5 DEF Open
  <2>2. Copies' = Copies
    BY <1>0, <2>1 DEF Copies
  <2>3. UNCHANGED <<Queued, Pending>>
    BY <2>1 DEF database, Queued, Pending
  <2> QED
    BY <2>2, <2>3, InvisibleStep
<1>6. ASSUME UNCHANGED <<status, opened, accepted>>
      PROVE  [Service!DNext]_(Service!dvars)
  <2>1. UNCHANGED <<Queued, Pending, Copies>>
    BY <1>6 DEF Queued, Pending, Copies
  <2> QED
    BY <2>1, InvisibleStep
<1>7. \/ \E l \in Lines : Commit(l) \/ HandleAck(l)
                          \/ \E i \in BOOLEAN : Accept(l, i) \/ DeviceReceive(l, i)
      \/ \E h \in hand : Open(h)
      \/ UNCHANGED <<status, opened, accepted>>
  BY DEF Next, vars, database, receiver, AuthorizeDevice, RevokeDevice, OpenSessions,
     EncryptForPeer, EncryptForDevice, Seal, QueueForPeer, QueueForDevice, Attempt,
     Attempted, AcceptDuplicate, OpenFails, Persist, SenderRestarts, PeerRestarts
<1> QED
  BY <1>1, <1>2, <1>3, <1>4, <1>5, <1>6, <1>7

\* The durable outbox, with its retries, duplicates and stops on both sides,
\* implements the abstract delivery service: a row is pending from the
\* transaction that creates it until its receiver has recorded the line.
THEOREM OutboxImplementsService == Spec => DeliversReliably
<1>1. Init => Service!DInit
  BY DEF Init, Service!DInit, Queued, Pending
<1>2. Types /\ OpeningsSound /\ [Next]_vars => [Service!DNext]_(Service!dvars)
  BY ServiceStep
<1> QED
  BY <1>1, <1>2, OpeningsAlways, PTL DEF Spec, DeliversReliably, Service!DSpec

\* active_device_certificates leaves a revoked device out: without a session
\* in memory it gets none, and nothing new is encrypted or queued for it.
THEOREM RevokedDevicesStayOut == Spec => RevokedStaysOut
<1>1. ASSUME Types, [Next]_vars, NEW d \in revoked \ open
      PROVE  /\ d \notin open'
             /\ \A l \in Lines : To(l) = d /\ status[l] = "none" /\ l \notin sealed
                                    => status'[l] = "none" /\ l \notin sealed'
  <2>1. d \in Devices /\ d # Peer
    BY <1>1, RecipientKinds DEF Types, SenderOK
  <2>2. open' \subseteq open \cup ActiveDevices
    BY <1>1 DEF Next, vars, memory, AuthorizeDevice, RevokeDevice, OpenSessions,
       EncryptForPeer, EncryptForDevice, Seal, QueueForPeer, QueueForDevice, Commit, Attempt,
       HandleAck, AcceptDuplicate, Accept, DeviceReceive, Open, OpenFails, Persist,
       SenderRestarts, PeerRestarts
  <2>3. d \notin ActiveDevices
    BY DEF ActiveDevices
  <2>4. \/ \E l \in Lines : To(l) # d /\ sealed' = {l} /\ status' = status
        \/ sealed' \subseteq sealed /\ status' = status
        \/ sealed' \subseteq sealed
           /\ \E l \in sealed \cup acks : status' = [status EXCEPT ![l] = "pending"]
                                          \/ status' = [status EXCEPT ![l] = "delivered"]
    BY <1>1, <2>1 DEF Next, vars, memory, database, AuthorizeDevice, RevokeDevice,
       OpenSessions, EncryptForPeer, EncryptForDevice, Seal, QueueForPeer, QueueForDevice,
       Commit, Attempt, Attempted, HandleAck, Delivered, AcceptDuplicate, Accept,
       DeviceReceive, Open, OpenFails, Persist, SenderRestarts, PeerRestarts
  <2>5. \A l \in acks : status[l] # "none"
    BY <1>1 DEF Types, NetworkOK, Queued
  <2> QED
    BY <1>1, <2>2, <2>3, <2>4, <2>5 DEF Types, SenderOK
<1>2. Types /\ [Next]_vars
      => [\A d \in revoked \ open :
             /\ d \notin open'
             /\ \A l \in Lines : To(l) = d /\ status[l] = "none" /\ l \notin sealed
                                    => status'[l] = "none" /\ l \notin sealed']_vars
  BY <1>1
<1> QED
  BY <1>2, TypesAlways, PTL DEF Spec, RevokedStaysOut

-----------------------------------------------------------------------------
(* The peer's ratchet and the lines it has stored                           *)

\* Every number behind the counter is consumed or still has its key.
Complete(c) == Bounded(c) /\ c.skipped = (0 .. c.recv - 1) \ c.consumed

StoredNumbers == {number[l] : l \in stored}

\* The saved ratchet has consumed the numbers of the stored lines, and the one
\* in memory is ahead of it by the line that is decrypted and not saved.
PeerChain ==
    /\ Complete(kept) /\ kept.consumed = StoredNumbers
    /\ \A h \in hand : h.line \notin stored
    /\ (\A h \in hand : h.at = "accepted") => inbound[Peer] = kept
    /\ \A h \in hand : h.at = "opened" =>
          /\ Outcome(kept, number[h.line]) = "Key"
          /\ inbound[Peer] = Opened(kept, number[h.line])

LEMMA CompleteOpened ==
    ASSUME NEW c, Complete(c), NEW n \in Nat, Outcome(c, n) = "Key"
    PROVE  Complete(Opened(c, n)) /\ Opened(c, n).consumed = c.consumed \cup {n}
<1> DEFINE o == Opened(c, n)
<1>1. /\ n \notin c.consumed /\ Bounded(o) /\ o.consumed = c.consumed \cup {n}
      /\ \/ n \in c.skipped /\ o.recv = c.recv /\ o.skipped = c.skipped \ {n}
         \/ /\ n >= c.recv /\ o.recv = n + 1
            /\ o.skipped = c.skipped \cup (c.recv .. n - 1)
  BY OpenedFacts DEF Complete
<1>2. c.recv \in Nat /\ c.consumed \subseteq 0 .. c.recv - 1
      /\ c.skipped = (0 .. c.recv - 1) \ c.consumed
  BY DEF Complete, Bounded, Chain
<1> HIDE DEF o
<1>3. o.skipped = (0 .. o.recv - 1) \ o.consumed
  <2>1. CASE o.recv = c.recv /\ o.skipped = c.skipped \ {n}
    BY <1>1, <1>2, <2>1
  <2>2. CASE /\ n >= c.recv /\ o.recv = n + 1
             /\ o.skipped = c.skipped \cup (c.recv .. n - 1)
    <3>1. ASSUME NEW x \in Int
          PROVE  x \in o.skipped <=> x \in 0 .. o.recv - 1 /\ x \notin o.consumed
      BY <1>1, <1>2, <2>2
    <3>2. o.skipped \subseteq Int /\ 0 .. o.recv - 1 \subseteq Int
      BY <1>2, <2>2
    <3> QED
      BY <3>1, <3>2
  <2> QED
    BY <1>1, <2>1, <2>2
<1> QED
  BY <1>1, <1>3 DEF Complete, o

\* The numbers before an unconsumed one that the receiver misses are those of
\* older rows that are not stored: as many as TooFar counts.
LEMMA KeyForMissing ==
    ASSUME Types, NEW c, Complete(c), StoredNumbers \subseteq c.consumed,
           NEW l \in Queued, To(l) = Peer, number[l] \notin c.consumed, ~TooFar(l)
    PROVE  Outcome(c, number[l]) = "Key"
<1> DEFINE n == number[l]
<1>1. /\ n \in Nat /\ l \in Lines /\ c.recv \in Nat /\ c.consumed \subseteq 0 .. c.recv - 1
      /\ c.skipped = (0 .. c.recv - 1) \ c.consumed /\ Bounded(c)
  BY QueuedFacts DEF Types, SenderOK, Complete, Bounded, Chain
<1>2. CASE n < c.recv
  BY <1>1, <1>2 DEF Outcome
<1>3. CASE n >= c.recv
  <2> DEFINE S == c.skipped \cup (c.recv .. n - 1)
             W == Older(l) \ stored
             T == {number[k] : k \in W}
             f == [k \in W |-> number[k]]
  <2>1. Cardinality(S) = Cardinality(c.skipped) + (n - c.recv) /\ S \subseteq 0 .. n - 1
    <3> HIDE DEF n
    <3> QED
      BY <1>1, <1>3, StoredKeys
  <2>2. W \in SUBSET Lines
    BY QueuedFacts DEF Older, Types
  <2>3. IsFiniteSet(W)
    BY <2>2, OutboxAssumption, FS_Subset
  <2>4. f \in Surjection(W, T)
    BY DEF Surjection
  <2>5. IsFiniteSet(T) /\ Cardinality(T) <= Cardinality(W)
    <3> HIDE DEF f, T, W
    <3> QED
      BY <2>3, <2>4, FS_Surjection
  <2>6. S \in SUBSET T
    <3> SUFFICES ASSUME NEW x \in S PROVE x \in T
      OBVIOUS
    <3>1. x \in Nat /\ x < n /\ x \notin c.consumed
      BY <1>1, <2>1
    <3>2. n < saved[Peer].send /\ saved[Peer].send \in Nat
      BY RecipientKinds DEF Types, NumbersSound, SenderOK, Chain
    <3>3. PICK k \in Queued : To(k) = Peer /\ number[k] = x
      BY <1>1, <3>1, <3>2 DEF Types, NumbersSound
    <3>4. k \notin stored
      BY <3>1, <3>3 DEF StoredNumbers
    <3>5. k \in W
      BY <3>1, <3>3, <3>4 DEF Older
    <3> QED
      BY <3>3, <3>5
  <2>7. Cardinality(S) <= Cardinality(T)
    <3> HIDE DEF S, T
    <3> QED
      BY <2>5, <2>6, FS_Subset
  <2>8. Cardinality(W) \in Nat /\ Cardinality(T) \in Nat /\ Cardinality(c.skipped) \in Nat
    BY <1>1, <2>3, <2>5, FS_CardinalityType, SkippedFinite
  <2>9. Cardinality(W) <= MaxSkipped
    BY <2>8, MaxSkippedAssumption DEF TooFar
  <2>10. Cardinality(c.skipped) + (n - c.recv) <= MaxSkipped
    <3> HIDE DEF S, T, W, n
    <3> QED
      BY <1>1, <2>1, <2>5, <2>7, <2>8, <2>9, MaxSkippedAssumption
  <2> HIDE DEF n
  <2>11. Outcome(c, n) = "Key"
    BY <1>1, <1>3, <2>10 DEF Outcome, n
  <2> QED
    BY <2>11 DEF n
<1> QED
  BY <1>1, <1>2, <1>3

LEMMA StoredFacts ==
    ASSUME Types
    PROVE  /\ \A l \in stored : l \in accepted
           /\ \A l \in accepted : l \in Queued /\ l \in Lines /\ To(l) = Peer
BY QueuedFacts DEF Types, ReceiverOK, NetworkOK

\* The number of a line of the peer that is not stored is not consumed.
LEMMA MissingNotConsumed ==
    ASSUME Types, PeerChain, NEW l \in Queued, To(l) = Peer, l \notin stored
    PROVE  number[l] \notin kept.consumed
BY StoredFacts DEF Types, NumbersSound, NumbersFresh, PeerChain, StoredNumbers

LEMMA MissingOpens ==
    ASSUME Types, PeerChain, NEW l \in Queued, To(l) = Peer, l \notin stored, ~TooFar(l)
    PROVE  Outcome(kept, number[l]) = "Key"
BY MissingNotConsumed, KeyForMissing DEF PeerChain

LEMMA PeerChainStep ==
    ASSUME Types, PeerChain, [Next]_vars
    PROVE  PeerChain'
<1>0. /\ \A l \in Queued : l \in Queued' /\ number'[l] = number[l]
      /\ inbound \in [Recipients -> Chain] /\ Peer \in Recipients /\ Peer \notin Devices
      /\ \A h \in hand : h \in Hand /\ h.line \in Queued /\ hand = {h}
                         /\ h.line \in accepted /\ number[h.line] \in Nat
  BY RowsStay, RecipientKinds, StoredFacts, QueuedFacts DEF Types, ReceiverOK, SenderOK
<1>1. \A l \in stored : number'[l] = number[l]
  BY <1>0, StoredFacts
<1>2. ASSUME UNCHANGED <<kept, stored, hand>>, inbound'[Peer] = inbound[Peer]
      PROVE  PeerChain'
  <2>1. StoredNumbers' = StoredNumbers
    BY <1>1, <1>2 DEF StoredNumbers
  <2>2. \A h \in hand : number'[h.line] = number[h.line]
    BY <1>0
  <2> QED
    BY <1>2, <2>1, <2>2 DEF PeerChain
<1>3. CASE SenderStep \/ UNCHANGED vars
  BY <1>2, <1>3, SenderStepFrame DEF receiver
<1>4. ASSUME NEW l \in Lines, AcceptDuplicate(l)
      PROVE  PeerChain'
  BY <1>2, <1>4 DEF AcceptDuplicate, receiver
<1>5. ASSUME NEW l \in Lines, NEW i \in BOOLEAN, DeviceReceive(l, i)
      PROVE  PeerChain'
  <2>1. To(l) \in Devices /\ UNCHANGED <<kept, stored, hand>>
    BY <1>5 DEF DeviceReceive
  <2>2. PICK d : inbound' = [inbound EXCEPT ![To(l)] = d]
    BY <1>5 DEF DeviceReceive
  <2>3. inbound'[Peer] = inbound[Peer]
    BY <1>0, <2>1, <2>2
  <2> QED
    BY <1>2, <2>1, <2>3
<1>6. ASSUME NEW l \in Lines, NEW i \in BOOLEAN, Accept(l, i)
      PROVE  PeerChain'
  <2> DEFINE h == [line |-> l, intact |-> i, at |-> "accepted"]
  <2>1. /\ hand = {} /\ hand' = {h} /\ l \notin accepted
        /\ UNCHANGED <<inbound, kept, stored, number>>
    BY <1>6 DEF Accept, AcceptedBefore, database
  <2>2. h.line = l /\ h.at = "accepted"
    OBVIOUS
  <2>3. StoredNumbers' = StoredNumbers /\ l \notin stored
    BY <2>1, StoredFacts DEF StoredNumbers
  <2> HIDE DEF h
  <2> QED
    BY <2>1, <2>2, <2>3 DEF PeerChain
<1>7. ASSUME NEW h \in hand, Open(h)
      PROVE  PeerChain'
  <2> DEFINE g == [h EXCEPT !.at = "opened"]
  <2>1. /\ h.at = "accepted" /\ hand' = {g}
        /\ Outcome(inbound[Peer], number[h.line]) = "Key"
        /\ inbound' = [inbound EXCEPT ![Peer] = Opened(inbound[Peer], number[h.line])]
        /\ UNCHANGED <<kept, stored, number>>
    BY <1>7 DEF Open, Opens, database
  <2>2. g.line = h.line /\ g.at = "opened"
    BY <1>0 DEF Hand
  <2>3. inbound[Peer] = kept /\ StoredNumbers' = StoredNumbers
    BY <1>0, <2>1 DEF PeerChain, StoredNumbers
  <2>4. inbound'[Peer] = Opened(kept, number[h.line])
    BY <1>0, <2>1, <2>3
  <2> HIDE DEF g
  <2> QED
    BY <2>1, <2>2, <2>3, <2>4 DEF PeerChain
<1>8. CASE (\E h \in hand : OpenFails(h)) \/ PeerRestarts
  <2>1. /\ hand' = {} /\ inbound' = [inbound EXCEPT ![Peer] = kept]
        /\ UNCHANGED <<kept, stored, number>>
    BY <1>8 DEF OpenFails, PeerRestarts, database
  <2>2. inbound'[Peer] = kept /\ StoredNumbers' = StoredNumbers
    BY <1>0, <2>1 DEF StoredNumbers
  <2> QED
    BY <2>1, <2>2 DEF PeerChain
<1>9. ASSUME NEW h \in hand, Persist(h)
      PROVE  PeerChain'
  <2> DEFINE n == number[h.line]
  <2>1. /\ h.at = "opened" /\ hand' = {} /\ kept' = inbound[Peer]
        /\ stored' = stored \cup {h.line} /\ UNCHANGED <<inbound, number>>
    BY <1>9 DEF Persist, Persisted, database
  <2>2. n \in Nat /\ Outcome(kept, n) = "Key" /\ kept' = Opened(kept, n) /\ Complete(kept)
    BY <1>0, <2>1 DEF PeerChain
  <2>3. StoredNumbers' = StoredNumbers \cup {n}
    BY <2>1 DEF StoredNumbers
  <2> HIDE DEF n
  <2>4. Complete(kept)' /\ kept'.consumed = StoredNumbers'
    <3>1. /\ Complete(Opened(kept, n))
          /\ Opened(kept, n).consumed = kept.consumed \cup {n}
      BY <2>2, CompleteOpened
    <3>2. Complete(kept')
      BY <2>2, <3>1
    <3>3. Complete(kept)'
      BY <3>2 DEF Complete, Bounded
    <3> QED
      BY <2>2, <2>3, <3>1, <3>3 DEF PeerChain
  <2> QED
    BY <2>1, <2>4 DEF PeerChain
<1> QED
  BY <1>3, <1>4, <1>5, <1>6, <1>7, <1>8, <1>9 DEF Next, SenderStep

LEMMA PeerChainAlways == Spec => [](Types /\ PeerChain)
<1>1. Init => PeerChain
  <2> SUFFICES ASSUME Init PROVE PeerChain
    OBVIOUS
  <2>1. Bounded(NewChain) /\ NewChain.consumed = {} /\ NewChain.skipped = {}
        /\ NewChain.recv = 0
    BY NewChainBounded DEF NewChain
  <2> HIDE DEF NewChain
  <2>2. Complete(NewChain)
    BY <2>1 DEF Complete
  <2>3. kept = NewChain /\ hand = {} /\ inbound[Peer] = kept /\ StoredNumbers = {}
    BY RecipientKinds DEF Init, StoredNumbers
  <2> QED
    BY <2>1, <2>2, <2>3 DEF PeerChain
<1>2. Types /\ PeerChain /\ [Next]_vars => PeerChain'
  BY PeerChainStep
<1> QED
  BY <1>1, <1>2, TypesAlways, PTL DEF Spec

\* A line the peer has not accepted opens on the ratchet it will be tried on,
\* the saved one or the one in memory, unless more older lines are missing than
\* MAX_SKIPPED_MESSAGE_KEYS: numbers rolled back by a stop are used again and
\* leave no gap, and a number is consumed only with the line that carries it.
THEOREM NewLinesOpen == Spec => []NewLineOpens
<1>1. ASSUME Types, PeerChain, NEW l \in Queued \ accepted, To(l) = Peer, ~TooFar(l)
      PROVE  Outcome(kept, number[l]) = "Key" /\ Outcome(inbound[Peer], number[l]) = "Key"
  <2>1. l \notin stored
    BY <1>1, StoredFacts
  <2>2. Outcome(kept, number[l]) = "Key"
    BY <1>1, <2>1, MissingOpens
  <2>3. CASE \A h \in hand : h.at = "accepted"
    BY <1>1, <2>2, <2>3 DEF PeerChain
  <2>4. CASE \E h \in hand : h.at # "accepted"
    <3>1. PICK h \in hand : h.at # "accepted"
      BY <2>4
    <3>2. h.at = "opened" /\ h.line \in accepted
      BY <1>1, <3>1 DEF Types, ReceiverOK, Hand
    <3> DEFINE n == number[h.line]
    <3>3. /\ n \in Nat /\ Complete(kept) /\ Outcome(kept, n) = "Key"
          /\ inbound[Peer] = Opened(kept, n)
      BY <1>1, <3>2, StoredFacts DEF PeerChain, Types, SenderOK
    <3>4. number[l] # n
      BY <1>1, <3>2, StoredFacts DEF Types, NumbersSound, NumbersFresh
    <3>5. number[l] \notin kept.consumed
      BY <1>1, <2>1, MissingNotConsumed
    <3> HIDE DEF n
    <3>6. /\ Complete(inbound[Peer])
          /\ inbound[Peer].consumed = kept.consumed \cup {n}
      BY <3>3, CompleteOpened
    <3>7. StoredNumbers \subseteq inbound[Peer].consumed
          /\ number[l] \notin inbound[Peer].consumed
      BY <1>1, <3>4, <3>5, <3>6 DEF PeerChain
    <3> QED
      BY <1>1, <2>2, <3>6, <3>7, KeyForMissing
  <2> QED
    BY <2>3, <2>4
<1>2. Types /\ PeerChain => NewLineOpens
  BY <1>1 DEF NewLineOpens
<1> QED
  BY <1>2, PeerChainAlways, PTL

\* deliver_outbox_item_to_bob loses a line that it has recorded as accepted
\* only when the peer stops with it in hand, when its copy is damaged or when
\* too many older lines are missing.
THEOREM LinesUnreadOnlyByFault == Spec => UnreadOnlyByFault
<1>1. ASSUME Types, PeerChain, [Next]_vars, NEW l \in Unread' \ Unread
      PROVE  stops' > stops \/ (\E h \in hand : ~h.intact) \/ TooFar(l)
  <2>0. \A h \in hand : h \in Hand /\ h.line \in accepted /\ hand = {h}
    BY <1>1 DEF Types, ReceiverOK
  <2>1. ASSUME UNCHANGED <<accepted, stored, hand>>
        PROVE  FALSE
    BY <2>1 DEF Unread
  <2>2. CASE SenderStep \/ UNCHANGED vars
    BY <2>1, <2>2, SenderStepFrame DEF receiver
  <2>3. ASSUME NEW k \in Lines, NEW i \in BOOLEAN, Accept(k, i)
        PROVE  FALSE
    <3>1. /\ accepted' = accepted \cup {k} /\ hand = {} /\ UNCHANGED stored
          /\ hand' = {[line |-> k, intact |-> i, at |-> "accepted"]}
      BY <2>3 DEF Accept
    <3>2. {h.line : h \in hand'} = {k}
      BY <3>1
    <3> QED
      BY <3>1, <3>2 DEF Unread
  <2>4. ASSUME NEW k \in Lines, AcceptDuplicate(k) \/ \E i \in BOOLEAN : DeviceReceive(k, i)
        PROVE  FALSE
    BY <2>1, <2>4 DEF AcceptDuplicate, DeviceReceive, receiver
  <2>5. ASSUME NEW h \in hand, Open(h)
        PROVE  FALSE
    <3>1. hand' = {[h EXCEPT !.at = "opened"]} /\ hand = {h} /\ UNCHANGED <<accepted, stored>>
      BY <2>0, <2>5 DEF Open
    <3>2. [h EXCEPT !.at = "opened"].line = h.line
      BY <2>0 DEF Hand
    <3>3. {g.line : g \in hand'} = {g.line : g \in hand}
      BY <3>1, <3>2
    <3> QED
      BY <3>1, <3>3 DEF Unread
  <2>6. ASSUME NEW h \in hand, Persist(h)
        PROVE  FALSE
    <3>1. /\ hand' = {} /\ hand = {h} /\ stored' = stored \cup {h.line}
          /\ UNCHANGED accepted
      BY <2>0, <2>6 DEF Persist
    <3> QED
      BY <3>1 DEF Unread
  <2>7. ASSUME NEW h \in hand, OpenFails(h)
        PROVE  ~h.intact \/ TooFar(l)
    <3>1. /\ h.at = "accepted" /\ ~Opens(h) /\ hand' = {} /\ hand = {h}
          /\ UNCHANGED <<accepted, stored>>
      BY <2>0, <2>7 DEF OpenFails
    <3>2. l = h.line
      BY <3>1 DEF Unread
    <3>3. h.line \notin stored /\ inbound[Peer] = kept
      BY <1>1, <3>1 DEF PeerChain
    <3>4. h.line \in Queued /\ To(h.line) = Peer
      BY <1>1, <2>0, StoredFacts
    <3>5. ~TooFar(h.line) => Outcome(kept, number[h.line]) = "Key"
      BY <1>1, <3>3, <3>4, MissingOpens
    <3> QED
      BY <3>1, <3>2, <3>3, <3>5 DEF Opens
  <2>8. CASE PeerRestarts
    BY <1>1, <2>8 DEF PeerRestarts, Types, NetworkOK
  <2> QED
    BY <1>1, <2>2, <2>3, <2>4, <2>5, <2>6, <2>7, <2>8 DEF Next, SenderStep
<1>2. Types /\ PeerChain /\ [Next]_vars
      => [\A l \in Unread' \ Unread :
             \/ stops' > stops
             \/ \E h \in hand : ~h.intact
             \/ TooFar(l)]_vars
  BY <1>1
<1> QED
  BY <1>2, PeerChainAlways, PTL DEF Spec, UnreadOnlyByFault

=============================================================================
