---------------------------- MODULE RatchetProofs ----------------------------
(***************************************************************************)
(* The two ends of a ratchet session for any limit of skipped keys and any  *)
(* number of messages, rotations and Diffie-Hellman steps, over a network   *)
(* that loses, delays, reorders, duplicates and damages.                    *)
(***************************************************************************)
EXTENDS Ratchet, FiniteSetTheorems, TLAPS

-----------------------------------------------------------------------------
(* Key selection                                                            *)

\* Skipped and consumed numbers lie behind the counter, and the store of
\* skipped keys is within its limit.
Bounded(c) ==
    /\ c \in Chain
    /\ c.skipped \cup c.consumed \subseteq 0 .. c.recv - 1
    /\ Cardinality(c.skipped) <= MaxSkipped

LEMMA SkippedFinite ==
    ASSUME NEW c, Bounded(c)
    PROVE  IsFiniteSet(c.skipped) /\ Cardinality(c.skipped) \in Nat
<1>1. c.recv - 1 \in Int /\ c.skipped \in SUBSET (0 .. c.recv - 1)
  BY DEF Bounded, Chain
<1>2. IsFiniteSet(0 .. c.recv - 1)
  BY <1>1, FS_Interval
<1>3. IsFiniteSet(c.skipped)
  BY <1>1, <1>2, FS_Subset
<1> QED
  BY <1>3, FS_CardinalityType

\* The chain whose counter moves to k and which stores the keys up to number j.
Advanced(c, k, j) == [c EXCEPT !.recv = k, !.skipped = c.skipped \cup (c.recv .. j)]

LEMMA AdvancedFacts ==
    ASSUME NEW c, Bounded(c), NEW j \in Int, NEW k \in Nat, j + 1 >= c.recv, k > j,
           Cardinality(c.skipped) + (j + 1 - c.recv) <= MaxSkipped
    PROVE  LET a == Advanced(c, k, j) IN
           /\ Bounded(a) /\ a.send = c.send /\ a.consumed = c.consumed /\ a.recv = k
           /\ a.skipped = c.skipped \cup (c.recv .. j)
<1> DEFINE S == c.skipped
           T == c.recv .. j
           U == S \cup T
<1>1. /\ c \in Chain /\ c.recv \in Nat /\ S \subseteq 0 .. c.recv - 1
      /\ c.consumed \subseteq 0 .. c.recv - 1
  BY DEF Bounded, Chain
<1>2. IsFiniteSet(S) /\ Cardinality(S) \in Nat
  BY SkippedFinite
<1>3. IsFiniteSet(T) /\ Cardinality(T) = j + 1 - c.recv
  <2>1. c.recv \in Int
    BY <1>1
  <2>2. IsFiniteSet(c.recv .. j) /\ Cardinality(c.recv .. j) = IF c.recv > j THEN 0
                                                              ELSE j - c.recv + 1
    BY <2>1, FS_Interval
  <2> QED
    BY <1>1, <2>2
<1>4. S \cap T = {}
  BY <1>1
<1>5. Cardinality(U) = Cardinality(S) + Cardinality(T) - Cardinality(S \cap T)
  BY <1>2, <1>3, FS_Union
<1>6. Cardinality(S \cap T) = 0
  BY <1>4, FS_EmptySet
<1>7. Cardinality(U) <= MaxSkipped
  <2> HIDE DEF T, U
  <2> QED
    BY <1>1, <1>2, <1>3, <1>5, <1>6, MaxSkippedAssumption
<1>8. U \subseteq 0 .. k - 1 /\ U \in SUBSET Nat /\ c.consumed \subseteq 0 .. k - 1
  BY <1>1
<1> DEFINE a == Advanced(c, k, j)
<1>9. a = [c EXCEPT !.recv = k, !.skipped = U]
  BY DEF Advanced
<1> HIDE DEF U, a
<1>10. /\ a \in Chain /\ a.send = c.send /\ a.consumed = c.consumed /\ a.recv = k
       /\ a.skipped = U
  BY <1>1, <1>8, <1>9 DEF Chain
<1>11. Bounded(a)
  BY <1>7, <1>8, <1>10 DEF Bounded
<1> QED
  BY <1>10, <1>11 DEF a, U

\* Which numbers are refused as replays.
LEMMA ReplayIff ==
    ASSUME NEW c, NEW x
    PROVE  Outcome(c, x) = "Replay" <=>
              x \in c.consumed \/ (x \notin c.skipped /\ x < c.recv)
BY DEF Outcome

\* Key selection keeps a chain bounded, consumes nothing, and makes no number a
\* replay but the one it takes the key of.
LEMMA SelectedFacts ==
    ASSUME NEW c, Bounded(c), NEW n \in Nat
    PROVE  LET s == Selected(c, n) IN
           /\ Bounded(s) /\ s.send = c.send /\ s.consumed = c.consumed
           /\ Outcome(c, n) = "Key" => n < s.recv
           /\ \A x \in Nat : Outcome(s, x) = "Replay" =>
                 Outcome(c, x) = "Replay" \/ (x = n /\ Outcome(c, n) = "Key")
<1> DEFINE s == Selected(c, n)
           room == MaxSkipped - Cardinality(c.skipped)
           Filled == Advanced(c, c.recv + room, c.recv + room - 1)
           Taken == [c EXCEPT !.skipped = @ \ {n}]
           Stepped == Advanced(c, n + 1, n - 1)
<1>1. /\ c \in Chain /\ Cardinality(c.skipped) \in Nat /\ MaxSkipped \in Nat
      /\ c.recv \in Nat /\ room \in Nat
  BY SkippedFinite, MaxSkippedAssumption DEF Bounded, Chain
<1>2. s = IF Outcome(c, n) = "Replay" THEN c
          ELSE IF Outcome(c, n) = "TooManySkipped" THEN Filled
          ELSE IF n \in c.skipped THEN Taken ELSE Stepped
  BY Zenon DEF Selected, Advanced
<1>3. CASE Outcome(c, n) = "Replay"
  <2>1. s = c
    BY <1>2, <1>3
  <2> HIDE DEF s
  <2>2. Bounded(s) /\ s.send = c.send /\ s.consumed = c.consumed
    BY <2>1
  <2> QED
    BY <1>3, <2>1, <2>2 DEF s
<1>4. CASE Outcome(c, n) = "TooManySkipped"
  <2>1. s = Filled
    <3> HIDE DEF s, Filled, Taken, Stepped
    <3> QED
      BY <1>2, <1>4
  <2> DEFINE k == c.recv + room
             j == c.recv + room - 1
  <2>2. k \in Nat /\ j \in Int /\ k = j + 1 /\ j + 1 >= c.recv
        /\ Cardinality(c.skipped) + (j + 1 - c.recv) <= MaxSkipped
    BY <1>1
  <2>3. s = Advanced(c, k, j)
    BY <2>1
  <2> HIDE DEF s, k, j
  <2>4. /\ Bounded(s) /\ s.send = c.send /\ s.consumed = c.consumed /\ s.recv = k
        /\ s.skipped = c.skipped \cup (c.recv .. j)
    BY <2>2, <2>3, AdvancedFacts
  <2>5. \A x \in Nat : Outcome(s, x) = "Replay" => Outcome(c, x) = "Replay"
    BY <1>1, <2>2, <2>4, ReplayIff
  <2> QED
    BY <1>4, <2>4, <2>5 DEF s
<1>5. CASE Outcome(c, n) = "Key" /\ n \in c.skipped
  <2>1. s = Taken
    <3> HIDE DEF s, Filled, Taken, Stepped
    <3> QED
      BY <1>2, <1>5
  <2>2. /\ Taken \in Chain /\ Taken.send = c.send /\ Taken.consumed = c.consumed
        /\ Taken.recv = c.recv /\ Taken.skipped = c.skipped \ {n}
    BY <1>1 DEF Chain
  <2> HIDE DEF s, Taken
  <2>3. c.skipped \ {n} \in SUBSET c.skipped
    OBVIOUS
  <2>4. Cardinality(c.skipped \ {n}) <= Cardinality(c.skipped)
        /\ Cardinality(c.skipped \ {n}) \in Nat
    BY <2>3, SkippedFinite, FS_Subset, FS_CardinalityType
  <2>5. Cardinality(c.skipped \ {n}) <= MaxSkipped
    BY <1>1, <2>4 DEF Bounded
  <2>6. Bounded(s) /\ n < s.recv
    BY <1>1, <1>5, <2>1, <2>2, <2>5 DEF Bounded
  <2>7. \A x \in Nat : Outcome(s, x) = "Replay" => Outcome(c, x) = "Replay" \/ x = n
    BY <2>1, <2>2, ReplayIff
  <2> QED
    BY <1>5, <2>1, <2>2, <2>6, <2>7 DEF s
<1>6. CASE Outcome(c, n) = "Key" /\ n \notin c.skipped
  <2>1. s = Stepped
    <3> HIDE DEF s, Filled, Taken, Stepped
    <3> QED
      BY <1>2, <1>6
  <2>2. n >= c.recv /\ Cardinality(c.skipped) + (n - c.recv) <= MaxSkipped
    BY <1>1, <1>6 DEF Outcome
  <2> DEFINE j == n - 1
  <2>3. j \in Int /\ j + 1 >= c.recv /\ n + 1 > j /\ n + 1 \in Nat
        /\ Cardinality(c.skipped) + (j + 1 - c.recv) <= MaxSkipped /\ j + 1 = n
    BY <1>1, <2>2
  <2>4. s = Advanced(c, n + 1, j)
    BY <2>1
  <2> HIDE DEF s, j
  <2>5. /\ Bounded(s) /\ s.send = c.send /\ s.consumed = c.consumed /\ s.recv = n + 1
        /\ s.skipped = c.skipped \cup (c.recv .. j)
    BY <2>3, <2>4, AdvancedFacts
  <2>6. \A x \in Nat : Outcome(s, x) = "Replay" => Outcome(c, x) = "Replay" \/ x = n
    BY <1>1, <2>3, <2>5, ReplayIff
  <2> QED
    BY <1>6, <2>5, <2>6 DEF s
<1>7. Outcome(c, n) \in {"Replay", "Key", "TooManySkipped"}
  BY DEF Outcome
<1> QED
  BY <1>3, <1>4, <1>5, <1>6, <1>7

\* Opening a message consumes its number and makes no other number a replay.
LEMMA OpenedFacts ==
    ASSUME NEW c, Bounded(c), NEW n \in Nat, Outcome(c, n) = "Key"
    PROVE  LET o == Opened(c, n) IN
           /\ Bounded(o) /\ o.send = c.send /\ o.consumed = c.consumed \cup {n}
           /\ \A x \in Nat : Outcome(o, x) = "Replay" => Outcome(c, x) = "Replay" \/ x = n
<1> DEFINE s == Selected(c, n)
           o == Opened(c, n)
<1>1. /\ Bounded(s) /\ s.send = c.send /\ s.consumed = c.consumed /\ n < s.recv
      /\ \A x \in Nat : Outcome(s, x) = "Replay" => Outcome(c, x) = "Replay" \/ x = n
  BY SelectedFacts
<1>2. o = [s EXCEPT !.consumed = @ \cup {n}]
  BY DEF Opened
<1> HIDE DEF s, o
<1>3. /\ o \in Chain /\ o.send = s.send /\ o.recv = s.recv /\ o.skipped = s.skipped
      /\ o.consumed = s.consumed \cup {n}
  BY <1>1, <1>2 DEF Bounded, Chain
<1>4. Bounded(o)
  BY <1>1, <1>3 DEF Bounded, Chain
<1>5. \A x \in Nat : Outcome(o, x) = "Replay" => Outcome(c, x) = "Replay" \/ x = n
  BY <1>1, <1>3, ReplayIff
<1> QED
  BY <1>1, <1>3, <1>4, <1>5 DEF o

LEMMA NewChainFacts ==
    /\ Bounded(NewChain) /\ NewChain.send = 0 /\ NewChain.consumed = {}
    /\ \A x \in Nat : Outcome(NewChain, x) # "Replay"
<1>1. NewChain \in Chain /\ NewChain.send = 0 /\ NewChain.consumed = {}
      /\ NewChain.recv = 0 /\ NewChain.skipped = {}
  BY DEF NewChain, Chain
<1>2. Cardinality({}) <= MaxSkipped
  BY FS_EmptySet, MaxSkippedAssumption
<1> HIDE DEF NewChain
<1> QED
  BY <1>1, <1>2, ReplayIff DEF Bounded

LEMMA EncryptedFacts ==
    ASSUME NEW c, Bounded(c)
    PROVE  LET e == Encrypted(c) IN
           /\ Bounded(e) /\ e.send = c.send + 1 /\ e.consumed = c.consumed
           /\ \A x \in Nat : Outcome(e, x) = "Replay" => Outcome(c, x) = "Replay"
<1> DEFINE e == Encrypted(c)
<1>1. /\ e \in Chain /\ e.send = c.send + 1 /\ e.recv = c.recv /\ e.skipped = c.skipped
      /\ e.consumed = c.consumed
  BY DEF Encrypted, Bounded, Chain
<1> HIDE DEF e
<1>2. Bounded(e) /\ \A x \in Nat : Outcome(e, x) = "Replay" => Outcome(c, x) = "Replay"
  BY <1>1, ReplayIff DEF Bounded
<1> QED
  BY <1>1, <1>2 DEF e

-----------------------------------------------------------------------------
(* Types                                                                    *)

Epochs == 0 .. MaxRotations

\* A message carries the key its fields name.
Message(m) ==
    /\ m.src \in Ends /\ m.num \in Nat /\ m.pub \in Epochs
    /\ m.key[1] \in Seq(Epochs) /\ m.key = <<m.key[1], m.src, m.num>>

EndsOK ==
    /\ root \in [Ends -> Seq(Epochs)]
    /\ chain \in [Ends -> Chain]
    /\ \A p \in Ends : Bounded(chain[p])
    /\ current \in [Ends -> Epochs]
    /\ rotations \in Epochs

MessagesOK ==
    /\ \A m \in sent : Message(m)
    /\ opened \in [Ends -> SUBSET sent]
    /\ openings \in [Ends -> Nat]
    /\ burned \in [Ends -> SUBSET {<<r, q, n>> : r \in Seq(Epochs), q \in Ends, n \in Nat}]

Types == EndsOK /\ MessagesOK

LEMMA TypesImply == Types => TypeOK
BY DEF Types, EndsOK, MessagesOK, Message, Bounded, TypeOK, Epochs

LEMMA EndsFacts ==
    /\ Alice \in Ends /\ Bob \in Ends /\ Alice # Bob
    /\ \A p \in Ends : Other(p) \in Ends /\ Other(p) # p /\ Other(Other(p)) = p
BY RatchetAssumption DEF Ends, Other

\* What a decryption works on, after a Diffie-Hellman step if one is due.
LEMMA StepFacts ==
    ASSUME EndsOK, NEW p \in Ends, NEW m, Message(m)
    PROVE  /\ RootFor(p, m) \in Seq(Epochs) /\ Bounded(ChainFor(p, m))
           /\ \/ RootFor(p, m) = root[p] /\ ChainFor(p, m) = chain[p]
              \/ RootFor(p, m) = Append(root[p], m.pub) /\ ChainFor(p, m) = NewChain
<1>1. root[p] \in Seq(Epochs) /\ Bounded(chain[p]) /\ m.pub \in Epochs
  BY DEF EndsOK, Message
<1>2. Append(root[p], m.pub) \in Seq(Epochs)
  BY <1>1
<1>3. CASE NeedsRatchet(p, m)
  <2>1. RootFor(p, m) = Append(root[p], m.pub) /\ ChainFor(p, m) = NewChain
    BY <1>3, Zenon DEF RootFor, ChainFor, NextRoot, RatchetedChain
  <2> QED
    BY <1>2, <2>1, NewChainFacts
<1>4. CASE ~NeedsRatchet(p, m)
  <2>1. RootFor(p, m) = root[p] /\ ChainFor(p, m) = chain[p]
    BY <1>4, Zenon DEF RootFor, ChainFor
  <2> QED
    BY <1>1, <2>1
<1> QED
  BY <1>3, <1>4

\* The two ways a decryption ends.
Step(p, m, r) ==
    /\ root' = [root EXCEPT ![p] = r]
    /\ current' = [current EXCEPT ![p] = IF NeedsRatchet(p, m) THEN m.pub ELSE @]
    /\ UNCHANGED <<rotations, sent>>

OpensIt(p, m, c, r) ==
    /\ Outcome(c, m.num) = "Key" /\ m.key = <<r, Other(p), m.num>>
    /\ chain' = [chain EXCEPT ![p] = Opened(c, m.num)]
    /\ opened' = [opened EXCEPT ![p] = @ \cup {m}]
    /\ openings' = [openings EXCEPT ![p] = @ + 1]
    /\ UNCHANGED burned

Refuses(p, m, c, r) ==
    /\ chain' = [chain EXCEPT ![p] = Selected(c, m.num)]
    /\ burned' = [burned EXCEPT ![p] =
                      @ \cup IF Outcome(c, m.num) = "Key"
                             THEN {<<r, Other(p), m.num>>} ELSE {}]
    /\ UNCHANGED <<opened, openings>>

LEMMA DecryptSplit ==
    ASSUME NEW p \in Ends, NEW m \in sent, NEW damaged \in BOOLEAN, Decrypt(p, m, damaged)
    PROVE  LET c == ChainFor(p, m)
               r == RootFor(p, m)
           IN  Step(p, m, r) /\ (OpensIt(p, m, c, r) \/ Refuses(p, m, c, r))
BY Zenon DEF Decrypt, Authentic, Step, OpensIt, Refuses

LEMMA DecryptKeepsEnds ==
    ASSUME Types, NEW p \in Ends, NEW m \in sent, NEW r \in Seq(Epochs), NEW c,
           Bounded(c), Step(p, m, r), OpensIt(p, m, c, r) \/ Refuses(p, m, c, r)
    PROVE  EndsOK'
<1>1. Message(m) /\ m.num \in Nat /\ m.pub \in Epochs
  BY DEF Types, MessagesOK, Message
<1>2. root' \in [Ends -> Seq(Epochs)] /\ rotations' \in Epochs
  BY DEF Types, EndsOK, Step
<1>3. current' \in [Ends -> Epochs]
  BY <1>1 DEF Types, EndsOK, Step
<1>4. PICK d : Bounded(d) /\ chain' = [chain EXCEPT ![p] = d]
  <2>1. CASE OpensIt(p, m, c, r)
    <3>1. Bounded(Opened(c, m.num))
      BY <1>1, <2>1, OpenedFacts DEF OpensIt
    <3> QED
      BY <2>1, <3>1 DEF OpensIt
  <2>2. CASE Refuses(p, m, c, r)
    <3>1. Bounded(Selected(c, m.num))
      BY <1>1, SelectedFacts
    <3> QED
      BY <2>2, <3>1 DEF Refuses
  <2> QED
    BY <2>1, <2>2
<1>5. d \in Chain /\ chain \in [Ends -> Chain] /\ \A q \in Ends : Bounded(chain[q])
  BY <1>4 DEF Bounded, Types, EndsOK
<1>6. chain' \in [Ends -> Chain]
  BY <1>4, <1>5
<1>7. \A q \in Ends : Bounded(chain[q])'
  <2> SUFFICES ASSUME NEW q \in Ends PROVE Bounded(chain'[q])
    BY DEF Bounded, Chain
  <2>1. chain'[q] = IF q = p THEN d ELSE chain[q]
    BY <1>4, <1>5
  <2> QED
    BY <1>4, <1>5, <2>1
<1> QED
  BY <1>2, <1>3, <1>6, <1>7 DEF EndsOK, Epochs

LEMMA DecryptKeepsMessages ==
    ASSUME Types, NEW p \in Ends, NEW m \in sent, NEW r \in Seq(Epochs), NEW c,
           Step(p, m, r), OpensIt(p, m, c, r) \/ Refuses(p, m, c, r)
    PROVE  MessagesOK'
<1>1. /\ sent' = sent /\ m.num \in Nat /\ Other(p) \in Ends
      /\ opened \in [Ends -> SUBSET sent] /\ openings \in [Ends -> Nat]
      /\ \A x \in sent : Message(x)
  BY EndsFacts DEF Types, MessagesOK, Message, Step
<1> DEFINE K == {<<s, q, n>> : s \in Seq(Epochs), q \in Ends, n \in Nat}
<1>2. burned \in [Ends -> SUBSET K] /\ <<r, Other(p), m.num>> \in K
  BY <1>1 DEF Types, MessagesOK
<1> HIDE DEF K
<1>3. opened' \in [Ends -> SUBSET sent] /\ openings' \in [Ends -> Nat]
  <2>1. CASE UNCHANGED <<opened, openings>>
    BY <1>1, <2>1
  <2>2. CASE /\ opened' = [opened EXCEPT ![p] = @ \cup {m}]
             /\ openings' = [openings EXCEPT ![p] = @ + 1]
    <3>1. opened[p] \cup {m} \in SUBSET sent /\ openings[p] + 1 \in Nat
      BY <1>1
    <3> QED
      BY <1>1, <2>2, <3>1
  <2> QED
    BY <2>1, <2>2 DEF OpensIt, Refuses
<1>4. burned' \in [Ends -> SUBSET K]
  BY <1>2 DEF OpensIt, Refuses
<1>5. \A x \in sent' : Message(x)'
  BY <1>1 DEF Message, Epochs
<1> QED
  BY <1>1, <1>3, <1>4, <1>5 DEF MessagesOK, K, Epochs

LEMMA EncryptKeepsTypes ==
    ASSUME Types, NEW p \in Ends, Encrypt(p)
    PROVE  Types'
<1> DEFINE m == [src |-> p, num |-> chain[p].send, pub |-> current[p],
                 key |-> <<root[p], p, chain[p].send>>,
                 body |-> Cardinality(SentBy(p))]
           e == Encrypted(chain[p])
<1>1. /\ sent' = sent \cup {m} /\ chain' = [chain EXCEPT ![p] = e]
      /\ UNCHANGED <<root, current, rotations, opened, openings, burned>>
  BY DEF Encrypt
<1>2. /\ root[p] \in Seq(Epochs) /\ Bounded(chain[p]) /\ chain[p].send \in Nat
      /\ current[p] \in Epochs
  BY DEF Types, EndsOK, Chain
<1>3. Message(m)
  BY <1>2 DEF Message
<1>4. Bounded(e) /\ e \in Chain
  BY <1>2, EncryptedFacts DEF Bounded
<1> HIDE DEF m, e
<1>5. chain' \in [Ends -> Chain] /\ \A q \in Ends : chain'[q] = IF q = p THEN e ELSE chain[q]
  BY <1>1, <1>4 DEF Types, EndsOK
<1>6. \A q \in Ends : Bounded(chain[q])'
  <2> SUFFICES ASSUME NEW q \in Ends PROVE Bounded(chain'[q])
    BY DEF Bounded, Chain
  <2> QED
    BY <1>4, <1>5 DEF Types, EndsOK
<1>7. EndsOK'
  BY <1>1, <1>5, <1>6 DEF Types, EndsOK, Epochs
<1>8. \A x \in sent' : Message(x)'
  BY <1>1, <1>3 DEF Types, MessagesOK, Message, Epochs
<1>9. opened' \in [Ends -> SUBSET sent']
  BY <1>1 DEF Types, MessagesOK
<1>10. MessagesOK'
  BY <1>1, <1>8, <1>9 DEF Types, MessagesOK, Epochs
<1> QED
  BY <1>7, <1>10 DEF Types

LEMMA RotateKeepsTypes ==
    ASSUME Types, Rotate
    PROVE  Types'
<1> DEFINE k == rotations + 1
           r == Append(root[Alice], k)
<1>1. /\ rotations' = k /\ root' = [root EXCEPT ![Alice] = r]
      /\ current' = [current EXCEPT ![Alice] = k]
      /\ chain' = [chain EXCEPT ![Alice] = NewChain]
      /\ UNCHANGED <<sent, opened, openings, burned>>
  BY DEF Rotate, NextRoot, RatchetedChain
<1>2. k \in Epochs
  BY RatchetAssumption DEF Rotate, Types, EndsOK, Epochs
<1>3. r \in Seq(Epochs)
  BY <1>2, EndsFacts DEF Types, EndsOK
<1>4. Bounded(NewChain) /\ NewChain \in Chain
  BY NewChainFacts DEF Bounded
<1> HIDE DEF k, r
<1>5. root' \in [Ends -> Seq(Epochs)] /\ current' \in [Ends -> Epochs]
  BY <1>1, <1>2, <1>3 DEF Types, EndsOK
<1>6. chain' \in [Ends -> Chain]
      /\ \A q \in Ends : chain'[q] = IF q = Alice THEN NewChain ELSE chain[q]
  BY <1>1, <1>4 DEF Types, EndsOK
<1>7. \A q \in Ends : Bounded(chain[q])'
  <2> SUFFICES ASSUME NEW q \in Ends PROVE Bounded(chain'[q])
    BY DEF Bounded, Chain
  <2> QED
    BY <1>4, <1>6 DEF Types, EndsOK
<1>8. EndsOK'
  BY <1>1, <1>2, <1>5, <1>6, <1>7 DEF EndsOK, Epochs
<1>9. MessagesOK'
  BY <1>1 DEF Types, MessagesOK, Message, Epochs
<1> QED
  BY <1>8, <1>9 DEF Types

LEMMA TypesInitially == Init => Types
<1> SUFFICES ASSUME Init PROVE Types
  OBVIOUS
<1>1. 0 \in Epochs
  BY RatchetAssumption DEF Epochs
<1>2. Bounded(NewChain) /\ NewChain \in Chain
  BY NewChainFacts DEF Bounded
<1> QED
  BY <1>1, <1>2 DEF Init, Types, EndsOK, MessagesOK

LEMMA TypesStep == Types /\ [Next]_vars => Types'
<1> SUFFICES ASSUME Types, [Next]_vars PROVE Types'
  OBVIOUS
<1>1. ASSUME NEW p \in Ends, Encrypt(p) PROVE Types'
  BY <1>1, EncryptKeepsTypes
<1>2. CASE Rotate
  BY <1>2, RotateKeepsTypes
<1>3. ASSUME NEW p \in Ends, NEW m \in sent, NEW damaged \in BOOLEAN,
             Decrypt(p, m, damaged)
      PROVE  Types'
  <2> DEFINE c == ChainFor(p, m)
             r == RootFor(p, m)
  <2>1. Message(m)
    BY DEF Types, MessagesOK
  <2>2. r \in Seq(Epochs) /\ Bounded(c)
    BY <2>1, StepFacts DEF Types
  <2>3. Step(p, m, r) /\ (OpensIt(p, m, c, r) \/ Refuses(p, m, c, r))
    BY <1>3, DecryptSplit
  <2> HIDE DEF c, r
  <2> QED
    BY <2>2, <2>3, DecryptKeepsEnds, DecryptKeepsMessages DEF Types
<1>4. CASE UNCHANGED vars
  BY <1>4 DEF vars, Types, EndsOK, MessagesOK, Message, Bounded, Chain, Epochs
<1> QED
  BY <1>1, <1>2, <1>3, <1>4 DEF Next

\* Both sessions keep their types and the store of skipped keys stays within its
\* limit, also after decryptions that failed half way.
THEOREM TypeCorrect == Spec => []TypeOK
<1>1. Spec => []Types
  BY TypesInitially, TypesStep, PTL DEF Spec
<1> QED
  BY <1>1, TypesImply, PTL

-----------------------------------------------------------------------------
(* The session.  A root key only ever grows, so what was sent or opened under *)
(* the root key of this moment is what the counters of this moment speak of. *)

\* No message of p is under a root key p has yet to reach, and the ones under its
\* root key r have numbers below the sending counter.
SendSound(p, r, c, S) ==
    \A m \in S : m.src = p => /\ Len(m.key[1]) <= Len(r)
                              /\ m.key[1] = r => m.num < c.send

\* The messages opened under root key r are recorded as consumed.
ReadSound(r, c, O) ==
    \A m \in O : /\ Len(m.key[1]) <= Len(r)
                 /\ m.key[1] = r => m.num \in c.consumed

\* A number is refused as a replay only when its key opened a message or was
\* used up.
ReplaySound(p, r, c, O, B) ==
    \A n \in Nat : Outcome(c, n) = "Replay" =>
        \/ <<r, Other(p), n>> \in B
        \/ \E m \in O : m.key = <<r, Other(p), n>>

SendingSound == \A p \in Ends : SendSound(p, root[p], chain[p], sent)
ReadingSound == \A p \in Ends : ReadSound(root[p], chain[p], opened[p])
ReplaysSound == \A p \in Ends : ReplaySound(p, root[p], chain[p], opened[p], burned[p])
Counted == \A p \in Ends : /\ IsFiniteSet(opened[p])
                           /\ openings[p] = Cardinality(opened[p])

RatchetInv ==
    /\ Types
    /\ SendingSound
    /\ KeysDistinct
    /\ ReadingSound
    /\ Counted
    /\ ReplaysSound

\* A Diffie-Hellman step leaves nothing behind that was sent or opened under the
\* new root key, so the empty chain is right about it.
LEMMA RatchetingSound ==
    ASSUME NEW p \in Ends, NEW r \in Seq(Epochs), NEW k \in Epochs, NEW c,
           NEW S, \A m \in S : Message(m), NEW O \in SUBSET S, NEW B
    PROVE  LET n == Append(r, k) IN
           /\ SendSound(p, r, c, S) => SendSound(p, n, NewChain, S)
           /\ ReadSound(r, c, O) => ReadSound(n, NewChain, O)
                                    /\ \A m \in O : m.key[1] # n
           /\ ReplaySound(p, n, NewChain, O, B)
<1> DEFINE n == Append(r, k)
<1>1. n \in Seq(Epochs) /\ Len(n) = Len(r) + 1 /\ Len(r) \in Nat
  OBVIOUS
<1> HIDE DEF n
<1>2. \A m \in S : m.key[1] \in Seq(Epochs) /\ Len(m.key[1]) \in Nat
  BY DEF Message
<1>3. \A m \in S : Len(m.key[1]) <= Len(r) => Len(m.key[1]) <= Len(n) /\ m.key[1] # n
  BY <1>1, <1>2
<1>4. SendSound(p, r, c, S) => SendSound(p, n, NewChain, S)
  BY <1>3 DEF SendSound
<1>5. ReadSound(r, c, O) => ReadSound(n, NewChain, O) /\ \A m \in O : m.key[1] # n
  BY <1>3 DEF ReadSound
<1>6. ReplaySound(p, n, NewChain, O, B)
  BY NewChainFacts DEF ReplaySound
<1> QED
  BY <1>4, <1>5, <1>6 DEF n

\* The same for what a decryption works on; a message it has a key for was not
\* opened before.
LEMMA StepSound ==
    ASSUME RatchetInv, NEW p \in Ends, NEW m \in sent
    PROVE  LET r == RootFor(p, m)
               c == ChainFor(p, m)
           IN  /\ SendSound(p, r, c, sent)
               /\ ReadSound(r, c, opened[p])
               /\ ReplaySound(p, r, c, opened[p], burned[p])
               /\ Outcome(c, m.num) = "Key" /\ m.key = <<r, Other(p), m.num>>
                     => m \notin opened[p]
<1> DEFINE r == RootFor(p, m)
           c == ChainFor(p, m)
<1>1. /\ root[p] \in Seq(Epochs) /\ m.pub \in Epochs /\ Message(m)
      /\ \A x \in sent : Message(x)
      /\ opened[p] \in SUBSET sent /\ EndsOK
  BY DEF RatchetInv, Types, EndsOK, MessagesOK, Message
<1>2. \/ r = root[p] /\ c = chain[p]
      \/ r = Append(root[p], m.pub) /\ c = NewChain
  BY <1>1, StepFacts
<1>3. /\ SendSound(p, root[p], chain[p], sent) /\ ReadSound(root[p], chain[p], opened[p])
      /\ ReplaySound(p, root[p], chain[p], opened[p], burned[p])
  BY DEF RatchetInv, SendingSound, ReadingSound, ReplaysSound
<1> HIDE DEF r, c
<1>4. CASE r = root[p] /\ c = chain[p]
  <2>1. ASSUME Outcome(c, m.num) = "Key", m.key = <<r, Other(p), m.num>>, m \in opened[p]
        PROVE  FALSE
    <3>1. m.num \in c.consumed
      BY <1>3, <1>4, <2>1 DEF ReadSound
    <3> QED
      BY <2>1, <3>1 DEF Outcome
  <2> QED
    BY <1>3, <1>4, <2>1 DEF r, c
<1>5. CASE r = Append(root[p], m.pub) /\ c = NewChain
  <2>1. /\ SendSound(p, r, c, sent) /\ ReadSound(r, c, opened[p])
        /\ \A x \in opened[p] : x.key[1] # r
        /\ ReplaySound(p, r, c, opened[p], burned[p])
    BY <1>1, <1>3, <1>5, RatchetingSound
  <2> QED
    BY <2>1 DEF r, c
<1> QED
  BY <1>2, <1>4, <1>5

LEMMA DecryptKeepsSession ==
    ASSUME RatchetInv, Types', NEW p \in Ends, NEW m \in sent, NEW damaged \in BOOLEAN,
           Decrypt(p, m, damaged)
    PROVE  RatchetInv'
<1> DEFINE r == RootFor(p, m)
           c == ChainFor(p, m)
<1>1. /\ SendSound(p, r, c, sent) /\ ReadSound(r, c, opened[p])
      /\ ReplaySound(p, r, c, opened[p], burned[p])
      /\ Outcome(c, m.num) = "Key" /\ m.key = <<r, Other(p), m.num>> => m \notin opened[p]
  BY StepSound
<1>2. Message(m) /\ m.num \in Nat /\ EndsOK /\ opened \in [Ends -> SUBSET sent]
      /\ openings \in [Ends -> Nat] /\ DOMAIN burned = Ends /\ DOMAIN chain = Ends
      /\ DOMAIN root = Ends
  BY DEF RatchetInv, Types, EndsOK, MessagesOK, Message
<1>3. r \in Seq(Epochs) /\ Bounded(c)
  BY <1>2, StepFacts
<1>4. Step(p, m, r) /\ (OpensIt(p, m, c, r) \/ Refuses(p, m, c, r))
  BY DecryptSplit
<1> HIDE DEF r, c
<1>5. sent' = sent /\ root' = [root EXCEPT ![p] = r]
  BY <1>4 DEF Step
<1>6. PICK d, O, B :
         /\ chain' = [chain EXCEPT ![p] = d] /\ opened' = [opened EXCEPT ![p] = O]
         /\ burned' = [burned EXCEPT ![p] = B]
         /\ d.send = c.send
         /\ ReadSound(r, d, O) /\ ReplaySound(p, r, d, O, B)
         /\ IsFiniteSet(O) /\ Cardinality(O) = openings'[p]
         /\ \A q \in Ends : q # p => openings'[q] = openings[q]
  <2>0. IsFiniteSet(opened[p]) /\ openings[p] = Cardinality(opened[p]) /\ openings[p] \in Nat
    BY <1>2 DEF RatchetInv, Counted
  <2>1. CASE OpensIt(p, m, c, r)
    <3> DEFINE d == Opened(c, m.num)
               O == opened[p] \cup {m}
    <3>1. /\ d.send = c.send /\ d.consumed = c.consumed \cup {m.num}
          /\ \A x \in Nat : Outcome(d, x) = "Replay" => Outcome(c, x) = "Replay" \/ x = m.num
      BY <1>2, <1>3, <2>1, OpenedFacts DEF OpensIt
    <3>2. m.key = <<r, Other(p), m.num>> /\ m.key[1] = r /\ m \notin opened[p]
      BY <1>1, <2>1 DEF OpensIt
    <3>3. chain' = [chain EXCEPT ![p] = d] /\ opened' = [opened EXCEPT ![p] = O]
          /\ burned' = [burned EXCEPT ![p] = burned[p]]
          /\ openings' = [openings EXCEPT ![p] = @ + 1]
      <4>1. burned = [burned EXCEPT ![p] = burned[p]]
        BY DEF RatchetInv, Types, MessagesOK
      <4> QED
        BY <2>1, <4>1 DEF OpensIt
    <3>4. IsFiniteSet(O) /\ Cardinality(O) = Cardinality(opened[p]) + 1
      BY <2>0, <3>2, FS_AddElement
    <3> HIDE DEF d
    <3>5. ReadSound(r, d, O)
      <4>1. Len(r) <= Len(r)
        BY <1>3
      <4> QED
        BY <1>1, <3>1, <3>2, <4>1 DEF ReadSound
    <3>6. ReplaySound(p, r, d, O, burned[p])
      BY <1>1, <3>1, <3>2 DEF ReplaySound
    <3> HIDE DEF O
    <3>7. openings'[p] = openings[p] + 1 /\ \A q \in Ends : q # p => openings'[q] = openings[q]
      BY <1>2, <3>3
    <3> QED
      BY <2>0, <3>1, <3>3, <3>4, <3>5, <3>6, <3>7
  <2>2. CASE Refuses(p, m, c, r)
    <3> DEFINE d == Selected(c, m.num)
               B == burned[p] \cup IF Outcome(c, m.num) = "Key"
                                   THEN {<<r, Other(p), m.num>>} ELSE {}
    <3>1. /\ d.send = c.send /\ d.consumed = c.consumed
          /\ \A x \in Nat : Outcome(d, x) = "Replay" =>
                Outcome(c, x) = "Replay" \/ (x = m.num /\ Outcome(c, m.num) = "Key")
      BY <1>2, <1>3, SelectedFacts
    <3>2. chain' = [chain EXCEPT ![p] = d] /\ burned' = [burned EXCEPT ![p] = B]
          /\ opened' = opened /\ openings' = openings
      BY <2>2 DEF Refuses
    <3>3. opened' = [opened EXCEPT ![p] = opened[p]]
      BY <1>2, <3>2
    <3> HIDE DEF d
    <3>4. ReadSound(r, d, opened[p])
      BY <1>1, <3>1 DEF ReadSound
    <3>5. ReplaySound(p, r, d, opened[p], B)
      BY <1>1, <3>1 DEF ReplaySound
    <3> HIDE DEF B
    <3> QED
      BY <2>0, <3>1, <3>2, <3>3, <3>4, <3>5
  <2> QED
    BY <1>4, <2>1, <2>2
<1>7. \A q \in Ends : /\ root'[q] = IF q = p THEN r ELSE root[q]
                      /\ chain'[q] = IF q = p THEN d ELSE chain[q]
                      /\ opened'[q] = IF q = p THEN O ELSE opened[q]
                      /\ burned'[q] = IF q = p THEN B ELSE burned[q]
  BY <1>2, <1>5, <1>6
<1>8. SendSound(p, r, d, sent)
  BY <1>1, <1>6 DEF SendSound
<1>9. SendingSound'
  <2> SUFFICES ASSUME NEW q \in Ends PROVE SendSound(q, root'[q], chain'[q], sent)
    BY <1>5 DEF SendingSound, SendSound
  <2> QED
    BY <1>7, <1>8 DEF RatchetInv, SendingSound
<1>10. ReadingSound'
  <2> SUFFICES ASSUME NEW q \in Ends PROVE ReadSound(root'[q], chain'[q], opened'[q])
    BY DEF ReadingSound, ReadSound
  <2> QED
    BY <1>6, <1>7 DEF RatchetInv, ReadingSound
<1>11. ReplaysSound'
  <2> SUFFICES ASSUME NEW q \in Ends
               PROVE  ReplaySound(q, root'[q], chain'[q], opened'[q], burned'[q])
    BY DEF ReplaysSound, ReplaySound
  <2> QED
    BY <1>6, <1>7 DEF RatchetInv, ReplaysSound
<1>12. Counted'
  BY <1>6, <1>7 DEF RatchetInv, Counted
<1>13. KeysDistinct'
  BY <1>5 DEF RatchetInv, KeysDistinct
<1> QED
  BY <1>9, <1>10, <1>11, <1>12, <1>13 DEF RatchetInv

LEMMA EncryptKeepsSession ==
    ASSUME RatchetInv, Types', NEW p \in Ends, Encrypt(p)
    PROVE  RatchetInv'
<1> DEFINE m == [src |-> p, num |-> chain[p].send, pub |-> current[p],
                 key |-> <<root[p], p, chain[p].send>>,
                 body |-> Cardinality(SentBy(p))]
           e == Encrypted(chain[p])
<1>1. /\ sent' = sent \cup {m} /\ chain' = [chain EXCEPT ![p] = e]
      /\ UNCHANGED <<root, opened, openings, burned>>
  BY DEF Encrypt
<1>2. /\ root[p] \in Seq(Epochs) /\ Bounded(chain[p]) /\ chain[p].send \in Nat
      /\ chain \in [Ends -> Chain] /\ \A x \in sent : Message(x)
  BY DEF RatchetInv, Types, EndsOK, MessagesOK, Chain
<1>3. /\ e.send = chain[p].send + 1 /\ e.consumed = chain[p].consumed
      /\ \A x \in Nat : Outcome(e, x) = "Replay" => Outcome(chain[p], x) = "Replay"
  BY <1>2, EncryptedFacts
<1>4. m.src = p /\ m.num = chain[p].send /\ m.key = <<root[p], p, m.num>>
      /\ m.key[1] = root[p] /\ m.key[2] = p
  OBVIOUS
<1> HIDE DEF m, e
<1>5. \A q \in Ends : chain'[q] = IF q = p THEN e ELSE chain[q]
  BY <1>1, <1>2
<1>6. SendingSound'
  <2> SUFFICES ASSUME NEW q \in Ends, NEW x \in sent', x.src = q
               PROVE  /\ Len(x.key[1]) <= Len(root[q])
                      /\ x.key[1] = root[q] => x.num < chain'[q].send
    BY <1>1 DEF SendingSound, SendSound
  <2>1. CASE x = m
    <3>1. q = p /\ Len(root[p]) \in Nat
      BY <1>2, <1>4, <2>1
    <3> QED
      BY <1>2, <1>3, <1>4, <1>5, <2>1, <3>1
  <2>2. CASE x \in sent
    <3>1. /\ Len(x.key[1]) <= Len(root[q])
          /\ x.key[1] = root[q] => x.num < chain[q].send
      BY <2>2 DEF RatchetInv, SendingSound, SendSound
    <3>2. x.num \in Nat /\ chain[q].send \in Nat
      BY <1>2, <2>2 DEF Message, Chain
    <3> QED
      BY <1>3, <1>5, <3>1, <3>2
  <2> QED
    BY <1>1, <2>1, <2>2
<1>7. KeysDistinct'
  <2>1. ASSUME NEW x \in sent, x.key = m.key PROVE FALSE
    <3>1. x.key = <<x.key[1], x.src, x.num>> /\ x.num \in Nat
      BY <1>2 DEF Message
    <3>2. x.key[1] = root[p] /\ x.src = p /\ x.num = chain[p].send
      BY <1>4, <2>1, <3>1
    <3>3. x.num < chain[p].send
      BY <3>2 DEF RatchetInv, SendingSound, SendSound
    <3> QED
      BY <1>2, <3>1, <3>2, <3>3
  <2> QED
    BY <1>1, <2>1 DEF RatchetInv, KeysDistinct
<1>8. ReadingSound'
  <2> SUFFICES ASSUME NEW q \in Ends PROVE ReadSound(root[q], chain'[q], opened[q])
    BY <1>1 DEF ReadingSound, ReadSound
  <2> QED
    BY <1>3, <1>5 DEF RatchetInv, ReadingSound, ReadSound
<1>9. ReplaysSound'
  <2> SUFFICES ASSUME NEW q \in Ends
               PROVE  ReplaySound(q, root[q], chain'[q], opened[q], burned[q])
    BY <1>1 DEF ReplaysSound, ReplaySound
  <2> QED
    BY <1>3, <1>5 DEF RatchetInv, ReplaysSound, ReplaySound
<1>10. Counted'
  BY <1>1 DEF RatchetInv, Counted
<1> QED
  BY <1>6, <1>7, <1>8, <1>9, <1>10 DEF RatchetInv

LEMMA RotateKeepsSession ==
    ASSUME RatchetInv, Types', Rotate
    PROVE  RatchetInv'
<1> DEFINE k == rotations + 1
           r == Append(root[Alice], k)
<1>1. /\ root' = [root EXCEPT ![Alice] = r] /\ chain' = [chain EXCEPT ![Alice] = NewChain]
      /\ UNCHANGED <<sent, opened, openings, burned>>
  BY DEF Rotate, NextRoot, RatchetedChain
<1>2. k \in Epochs /\ Alice \in Ends /\ root[Alice] \in Seq(Epochs)
  BY EndsFacts, RatchetAssumption DEF Rotate, RatchetInv, Types, EndsOK, Epochs
<1>3. /\ opened[Alice] \in SUBSET sent /\ \A x \in sent : Message(x)
  BY <1>2 DEF RatchetInv, Types, MessagesOK
<1>4. /\ SendSound(Alice, root[Alice], chain[Alice], sent)
      /\ ReadSound(root[Alice], chain[Alice], opened[Alice])
  BY <1>2 DEF RatchetInv, SendingSound, ReadingSound
<1>5. /\ SendSound(Alice, r, NewChain, sent) /\ ReadSound(r, NewChain, opened[Alice])
      /\ ReplaySound(Alice, r, NewChain, opened[Alice], burned[Alice])
  <2> HIDE DEF k
  <2> QED
    BY <1>2, <1>3, <1>4, RatchetingSound
<1> HIDE DEF k, r
<1>6. \A q \in Ends : /\ root'[q] = IF q = Alice THEN r ELSE root[q]
                      /\ chain'[q] = IF q = Alice THEN NewChain ELSE chain[q]
  BY <1>1 DEF RatchetInv, Types, EndsOK
<1>7. SendingSound'
  <2> SUFFICES ASSUME NEW q \in Ends PROVE SendSound(q, root'[q], chain'[q], sent)
    BY <1>1 DEF SendingSound, SendSound
  <2> QED
    BY <1>5, <1>6 DEF RatchetInv, SendingSound
<1>8. ReadingSound'
  <2> SUFFICES ASSUME NEW q \in Ends PROVE ReadSound(root'[q], chain'[q], opened[q])
    BY <1>1 DEF ReadingSound, ReadSound
  <2> QED
    BY <1>5, <1>6 DEF RatchetInv, ReadingSound
<1>9. ReplaysSound'
  <2> SUFFICES ASSUME NEW q \in Ends
               PROVE  ReplaySound(q, root'[q], chain'[q], opened[q], burned[q])
    BY <1>1 DEF ReplaysSound, ReplaySound
  <2> QED
    BY <1>5, <1>6 DEF RatchetInv, ReplaysSound
<1>10. Counted' /\ KeysDistinct'
  BY <1>1 DEF RatchetInv, Counted, KeysDistinct
<1> QED
  BY <1>7, <1>8, <1>9, <1>10 DEF RatchetInv

LEMMA RatchetInvInitially == Init => RatchetInv
<1> SUFFICES ASSUME Init PROVE RatchetInv
  OBVIOUS
<1>1. Types
  BY TypesInitially
<1>2. /\ sent = {}
      /\ \A p \in Ends : chain[p] = NewChain /\ opened[p] = {} /\ openings[p] = 0
  BY DEF Init
<1>3. SendingSound /\ KeysDistinct /\ ReadingSound
  BY <1>2 DEF SendingSound, SendSound, KeysDistinct, ReadingSound, ReadSound
<1>4. ReplaysSound
  BY <1>2, NewChainFacts DEF ReplaysSound, ReplaySound
<1>5. Counted
  BY <1>2, FS_EmptySet DEF Counted
<1> QED
  BY <1>1, <1>3, <1>4, <1>5 DEF RatchetInv

LEMMA RatchetInvStep == RatchetInv /\ [Next]_vars => RatchetInv'
<1> SUFFICES ASSUME RatchetInv, [Next]_vars PROVE RatchetInv'
  OBVIOUS
<1>1. Types'
  BY TypesStep DEF RatchetInv
<1>2. CASE UNCHANGED vars
  <2>1. SendingSound' /\ KeysDistinct' /\ ReadingSound' /\ Counted'
    BY <1>2 DEF vars, RatchetInv, SendingSound, SendSound, KeysDistinct, ReadingSound,
                ReadSound, Counted
  <2>2. ReplaysSound'
    BY <1>2 DEF vars, RatchetInv, ReplaysSound, ReplaySound
  <2> QED
    BY <1>1, <2>1, <2>2 DEF RatchetInv
<1> QED
  BY <1>1, <1>2, EncryptKeepsSession, RotateKeepsSession, DecryptKeepsSession DEF Next

LEMMA EpochOpensFollows == RatchetInv => EpochOpens
<1> SUFFICES ASSUME RatchetInv, NEW p \in Ends, NEW m \in sent, m.key = Key(p, m.num),
                    m \notin opened[p], m.key \notin burned[p],
                    Outcome(chain[p], m.num) = "Replay"
             PROVE  FALSE
  BY DEF EpochOpens
<1>1. m.num \in Nat /\ opened[p] \in SUBSET sent
  BY DEF RatchetInv, Types, MessagesOK, Message
<1>2. \/ <<root[p], Other(p), m.num>> \in burned[p]
      \/ \E x \in opened[p] : x.key = <<root[p], Other(p), m.num>>
  BY <1>1 DEF RatchetInv, ReplaysSound, ReplaySound
<1> QED
  BY <1>1, <1>2 DEF Key, RatchetInv, KeysDistinct

\* The inductive invariant of a session: what was sent and opened under an end's
\* root key is what its counters, its consumed and its skipped numbers say.
THEOREM SessionCorrect == Spec => []RatchetInv
BY RatchetInvInitially, RatchetInvStep, PTL DEF Spec

\* No message key encrypts two messages although the numbers restart at zero
\* with every Diffie-Hellman step.
THEOREM KeysAreDistinct == Spec => []KeysDistinct
<1>1. RatchetInv => KeysDistinct
  BY DEF RatchetInv
<1> QED
  BY <1>1, SessionCorrect, PTL

\* No message is opened twice, although decrypt clears its record of consumed
\* numbers with every Diffie-Hellman step and authenticates only afterwards.
THEOREM MessagesOpenOnce == Spec => []OpenedOnce
<1>1. RatchetInv => OpenedOnce
  BY DEF RatchetInv, Counted, OpenedOnce
<1> QED
  BY <1>1, SessionCorrect, PTL

\* A message under the root key its reader holds is refused as a replay only when
\* it was opened or a failed decryption has used up its key.
THEOREM EpochMessagesOpen == Spec => []EpochOpens
BY EpochOpensFollows, SessionCorrect, PTL

=============================================================================
