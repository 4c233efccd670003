---------------------------- MODULE MailboxProofs ----------------------------
(***************************************************************************)
(* The mailbox for any number of envelopes, any capacity and any number of  *)
(* fetches: its bound, and what a delivered, an accepted and an opened      *)
(* envelope have to do with each other.                                     *)
(***************************************************************************)
EXTENDS Mailbox, FiniteSetTheorems, TLAPS

Kinds == {"deposit", "deposited", "full", "fetch", "pending", "ack", "acked"}

\* TypeOK without its two cardinalities.
ShapeOK ==
    /\ status \in [Envelopes -> {"none", "pending", "delivered", "expired"}]
    /\ created \in [Envelopes -> Nat] /\ expires \in [Envelopes -> Nat]
    /\ sender \in [Envelopes -> {"new", "waiting", "deposited", "full", "unknown"}]
    /\ stage \in {"idle", "fetching", "next", "opening", "acking"}
    /\ todo \subseteq Envelopes
    /\ IF stage \in {"opening", "acking"} THEN \E e \in Envelopes : current = {e}
                                          ELSE current = {}
    /\ prekey \in BOOLEAN
    /\ accepted \subseteq Envelopes /\ history \subseteq Envelopes
    /\ net \subseteq [kind : Kinds, ids : SUBSET Envelopes]
    /\ now \in Nat /\ fetches \in Nat /\ repeats \in Nat
    /\ opened \in [Envelopes -> Nat]

-----------------------------------------------------------------------------
(* Types                                                                    *)

LEMMA MsgType ==
    ASSUME NEW kind \in Kinds, NEW ids \in SUBSET Envelopes
    PROVE  Msg(kind, ids) \in [kind : Kinds, ids : SUBSET Envelopes]
BY DEF Msg

LEMMA ShapeInit == Init => ShapeOK
BY DEF Init, ShapeOK

\* The sender.
LEMMA ShapeSender ==
    ASSUME ShapeOK, NEW e \in Envelopes,
           AliceDeposits(e) \/ AliceDone(e) \/ Repeat(e)
    PROVE  ShapeOK'
<1> USE MailboxBounds
<1>1. CASE AliceDeposits(e)
  <2>1. Msg("deposit", {e}) \in [kind : Kinds, ids : SUBSET Envelopes]
    BY MsgType DEF Kinds
  <2>2. expires' \in [Envelopes -> Nat]
    BY <1>1 DEF AliceDeposits, ShapeOK
  <2> QED
    BY <1>1, <2>1, <2>2 DEF AliceDeposits, ShapeOK, reader
<1>2. CASE AliceDone(e)
  BY <1>2 DEF AliceDone, ShapeOK, store, reader
<1>3. CASE Repeat(e)
  <2>1. Msg("deposit", {e}) \in [kind : Kinds, ids : SUBSET Envelopes]
    BY MsgType DEF Kinds
  <2>2. repeats' \in Nat
    BY <1>3 DEF Repeat, ShapeOK
  <2> QED
    BY <1>3, <2>1, <2>2 DEF Repeat, ShapeOK, store, reader
<1> QED
  BY <1>1, <1>2, <1>3

\* The mailbox node.
LEMMA ShapeNode ==
    ASSUME ShapeOK, (\E e \in Envelopes : Deposit(e) \/ Acknowledge(e)) \/ Fetch
    PROVE  ShapeOK'
<1>1. AfterExpiry \in [Envelopes -> {"none", "pending", "delivered", "expired"}]
  BY DEF AfterExpiry, ShapeOK
<1>2. ASSUME NEW e \in Envelopes, Deposit(e)
      PROVE  ShapeOK'
  <2>1. status' \in [Envelopes -> {"none", "pending", "delivered", "expired"}]
    BY <1>1, <1>2 DEF Deposit
  <2>2. created' \in [Envelopes -> Nat]
    BY <1>2 DEF Deposit, ShapeOK
  <2>3. Msg(IF Full(e) THEN "full" ELSE "deposited", {e})
            \in [kind : Kinds, ids : SUBSET Envelopes]
    BY MsgType DEF Kinds
  <2>4. net' \subseteq [kind : Kinds, ids : SUBSET Envelopes]
    BY <1>2, <2>3 DEF Deposit, ShapeOK
  <2> QED
    BY <1>2, <2>1, <2>2, <2>4 DEF Deposit, ShapeOK, reader
<1>3. ASSUME NEW e \in Envelopes, Acknowledge(e)
      PROVE  ShapeOK'
  <2>1. status' \in [Envelopes -> {"none", "pending", "delivered", "expired"}]
    BY <1>3 DEF Acknowledge, ShapeOK
  <2>2. Msg("acked", {e}) \in [kind : Kinds, ids : SUBSET Envelopes]
    BY MsgType DEF Kinds
  <2> QED
    BY <1>3, <2>1, <2>2 DEF Acknowledge, ShapeOK, reader
<1>4. CASE Fetch
  <2>1. Fetchable \in SUBSET Envelopes
    BY DEF Fetchable
  <2>2. Msg("pending", Fetchable) \in [kind : Kinds, ids : SUBSET Envelopes]
    BY <2>1, MsgType DEF Kinds
  <2> QED
    BY <1>1, <1>4, <2>2 DEF Fetch, ShapeOK, reader
<1> QED
  BY <1>2, <1>3, <1>4

\* The reader.
LEMMA ShapeReader ==
    ASSUME ShapeOK,
           \/ BobFetches \/ BobReceives \/ BobAccepts \/ BobCannotOpen \/ BobEnds
           \/ \E e \in Envelopes : BobOpens(e) \/ BobAcked(e)
    PROVE  ShapeOK'
<1>1. CASE BobFetches
  <2>1. Msg("fetch", {}) \in [kind : Kinds, ids : SUBSET Envelopes]
    BY MsgType DEF Kinds
  <2> QED
    BY <1>1, <2>1 DEF BobFetches, ShapeOK, store
<1>2. CASE BobReceives
  BY <1>2 DEF BobReceives, ShapeOK, store
<1>3. CASE BobAccepts
  <2>1. PICK e \in Oldest(todo) :
            /\ current' = {e} /\ todo' = todo \ {e} /\ accepted' = accepted \cup {e}
            /\ \/ stage' = "opening" /\ net' = net
               \/ stage' = "acking" /\ net' = net \cup {Msg("ack", {e})}
    BY <1>3 DEF BobAccepts
  <2>2. e \in Envelopes
    BY DEF Oldest, ShapeOK
  <2>3. Msg("ack", {e}) \in [kind : Kinds, ids : SUBSET Envelopes]
    BY <2>2, MsgType DEF Kinds
  <2> QED
    BY <1>3, <2>1, <2>2, <2>3 DEF BobAccepts, ShapeOK, store
<1>4. CASE BobCannotOpen \/ BobEnds
  BY <1>4 DEF BobCannotOpen, BobEnds, Leaves, ShapeOK, store
<1>5. ASSUME NEW e \in Envelopes, BobOpens(e)
      PROVE  ShapeOK'
  <2>1. Msg("ack", {e}) \in [kind : Kinds, ids : SUBSET Envelopes]
    BY MsgType DEF Kinds
  <2>2. opened' \in [Envelopes -> Nat]
    BY <1>5 DEF BobOpens, ShapeOK
  <2>3. prekey' \in BOOLEAN
    BY <1>5 DEF BobOpens
  <2> QED
    BY <1>5, <2>1, <2>2, <2>3 DEF BobOpens, ShapeOK, store
<1>6. ASSUME NEW e \in Envelopes, BobAcked(e)
      PROVE  ShapeOK'
  BY <1>6 DEF BobAcked, ShapeOK, store
<1> QED
  BY <1>1, <1>2, <1>3, <1>4, <1>5, <1>6

LEMMA ShapeStep == ShapeOK /\ [Next]_vars => ShapeOK'
<1> SUFFICES ASSUME ShapeOK, [Next]_vars PROVE ShapeOK'
  OBVIOUS
<1>1. CASE Lose
  BY <1>1 DEF Lose, ShapeOK, store, reader
<1>2. CASE Tick
  BY <1>2 DEF Tick, ShapeOK, store, reader
<1>3. CASE UNCHANGED vars
  BY <1>3 DEF vars, ShapeOK, store, reader
<1> QED
  BY <1>1, <1>2, <1>3, ShapeSender, ShapeNode, ShapeReader DEF Next

-----------------------------------------------------------------------------
(* The bound                                                                *)

Bounded == Cardinality(Pending) <= Capacity

LEMMA PendingFinite ==
    ASSUME NEW S \in SUBSET Envelopes
    PROVE  IsFiniteSet(S) /\ Cardinality(S) \in Nat
BY EnvelopesAssumption, FS_Subset, FS_CardinalityType

LEMMA FewerPending ==
    ASSUME ShapeOK, Bounded, Pending' \subseteq Pending
    PROVE  Bounded'
<1>1. Pending \in SUBSET Envelopes /\ Pending' \in SUBSET Pending
  BY DEF Pending
<1>2. Cardinality(Pending') <= Cardinality(Pending)
  BY <1>1, PendingFinite, FS_Subset
<1>3. Cardinality(Pending) \in Nat /\ Cardinality(Pending') \in Nat
  BY <1>1, PendingFinite
<1> QED
  BY <1>2, <1>3, MailboxBounds DEF Bounded

\* A deposit counts what is left after expiry.
LEMMA DepositBounded ==
    ASSUME ShapeOK, Bounded, NEW e \in Envelopes, Deposit(e)
    PROVE  Bounded'
<1>1. CASE status[e] # "none" \/ Full(e)
  <2>1. Pending' \subseteq Pending
    BY <1>1 DEF Deposit, AfterExpiry, Pending, Expired
  <2> QED
    BY <2>1, FewerPending
<1>2. CASE status[e] = "none" /\ ~Full(e)
  <2>1. Pending' = (Pending \ Expired) \cup {e}
    BY <1>2 DEF Deposit, AfterExpiry, Pending, Expired, ShapeOK
  <2>2. e \notin Pending /\ (Pending \ Expired) \in SUBSET Envelopes
    BY <1>2 DEF Pending
  <2>3. Cardinality(Pending \ Expired) < Capacity
    BY <1>2, <2>2, PendingFinite, MailboxBounds DEF Full
  <2>4. Cardinality(Pending') = Cardinality(Pending \ Expired) + 1
    BY <2>1, <2>2, PendingFinite, FS_AddElement
  <2> QED
    BY <2>2, <2>3, <2>4, PendingFinite, MailboxBounds DEF Bounded
<1> QED
  BY <1>1, <1>2

LEMMA BoundedStep == ShapeOK /\ Bounded /\ [Next]_vars => Bounded'
<1> SUFFICES ASSUME ShapeOK, Bounded, [Next]_vars PROVE Bounded'
  OBVIOUS
<1>1. CASE UNCHANGED status
  BY <1>1, FewerPending DEF Pending
<1>2. ASSUME NEW e \in Envelopes, Acknowledge(e)
      PROVE  Bounded'
  <2>1. Pending' \subseteq Pending
    BY <1>2 DEF Acknowledge, Pending, ShapeOK
  <2> QED
    BY <2>1, FewerPending
<1>3. CASE Fetch
  <2>1. Pending' \subseteq Pending
    BY <1>3 DEF Fetch, AfterExpiry, Pending, Expired
  <2> QED
    BY <2>1, FewerPending
<1>4. CASE \/ \E e \in Envelopes : \/ AliceDeposits(e) \/ AliceDone(e) \/ Repeat(e)
                                  \/ BobOpens(e) \/ BobAcked(e)
           \/ BobFetches \/ BobReceives \/ BobAccepts \/ BobCannotOpen \/ BobEnds
           \/ Lose \/ Tick \/ UNCHANGED vars
  <2>1. UNCHANGED status
    BY <1>4 DEF AliceDeposits, AliceDone, Repeat, BobOpens, BobAcked, BobFetches, BobReceives,
                BobAccepts, BobCannotOpen, BobEnds, Leaves, Lose, Tick, vars, store
  <2> QED
    BY <1>1, <2>1
<1> QED
  BY <1>2, <1>3, <1>4, DepositBounded DEF Next

LEMMA ShapeAndBound == ShapeOK /\ Bounded => TypeOK
<1> SUFFICES ASSUME ShapeOK, Bounded PROVE TypeOK
  OBVIOUS
<1>1. current \subseteq Envelopes
      /\ Cardinality(current) = IF stage \in {"opening", "acking"} THEN 1 ELSE 0
  <2>1. CASE stage \in {"opening", "acking"}
    <3>1. PICK e \in Envelopes : current = {e}
      BY <2>1 DEF ShapeOK
    <3> QED
      BY <2>1, <3>1, FS_Singleton
  <2>2. CASE stage \notin {"opening", "acking"}
    <3>1. current = {}
      BY <2>2 DEF ShapeOK
    <3> QED
      BY <2>2, <3>1, FS_EmptySet
  <2> QED
    BY <2>1, <2>2
<1> QED
  BY <1>1 DEF ShapeOK, Bounded, TypeOK, Kinds

\* The types, and the limit on pending envelopes that deposit enforces, however
\* deposits, expiries, fetches and acknowledgements interleave
\* (MailboxStorage::deposit).
THEOREM TypeCorrect == Spec => []TypeOK
<1>1. Init => ShapeOK /\ Bounded
  <2>1. Init => Pending = {}
    BY DEF Init, Pending
  <2>2. Init => Bounded
    BY <2>1, FS_EmptySet, MailboxBounds DEF Bounded
  <2> QED
    BY <2>2, ShapeInit
<1>2. ShapeOK /\ Bounded /\ [Next]_vars => (ShapeOK /\ Bounded)'
  BY ShapeStep, BoundedStep
<1> QED
  BY <1>1, <1>2, ShapeAndBound, PTL DEF Spec

\* What the reader's two tables say of each other and of what it still works on.
ReadingSound ==
    /\ history \subseteq accepted
    /\ current \subseteq accepted
    /\ stage = "opening" => current \cap history = {}

\* An acknowledgement is on its way, or has taken effect, only for an accepted
\* envelope.
AckedWasAccepted ==
    /\ \A e \in Envelopes : Msg("ack", {e}) \in net => e \in accepted
    /\ DeliveredWasAccepted

MailboxInv == ShapeOK /\ ReadingSound /\ AckedWasAccepted /\ OpenedAtMostOnce

\* A step that accepts nothing, opens nothing and sends no acknowledgement.
LEMMA ReaderRests ==
    ASSUME MailboxInv, UNCHANGED <<accepted, history, opened>>,
           \A e \in Envelopes : Msg("ack", {e}) \in net' => Msg("ack", {e}) \in net,
           \A e \in Envelopes : status'[e] = "delivered" => status[e] = "delivered",
           \/ UNCHANGED <<stage, current>>
           \/ stage' # "opening" /\ current' \subseteq current
    PROVE  ReadingSound' /\ AckedWasAccepted' /\ OpenedAtMostOnce'
BY DEF MailboxInv, ReadingSound, AckedWasAccepted, DeliveredWasAccepted, OpenedAtMostOnce

LEMMA MailboxStep == MailboxInv /\ [Next]_vars => MailboxInv'
<1> SUFFICES ASSUME MailboxInv, [Next]_vars
             PROVE  ReadingSound' /\ AckedWasAccepted' /\ OpenedAtMostOnce'
  BY ShapeStep DEF MailboxInv
<1>1. ASSUME NEW e \in Envelopes, AliceDeposits(e) \/ AliceDone(e) \/ Repeat(e)
      PROVE  ReadingSound' /\ AckedWasAccepted' /\ OpenedAtMostOnce'
  BY <1>1, ReaderRests DEF AliceDeposits, AliceDone, Repeat, Msg, store, reader
<1>2. ASSUME NEW e \in Envelopes, Deposit(e)
      PROVE  ReadingSound' /\ AckedWasAccepted' /\ OpenedAtMostOnce'
  <2>1. \A f \in Envelopes : status'[f] = "delivered" => status[f] = "delivered"
    BY <1>2 DEF Deposit, AfterExpiry, MailboxInv, ShapeOK
  <2>2. \A f \in Envelopes : Msg("ack", {f}) \in net' => Msg("ack", {f}) \in net
    BY <1>2 DEF Deposit, Msg
  <2> QED
    BY <1>2, <2>1, <2>2, ReaderRests DEF Deposit, reader
<1>3. ASSUME NEW e \in Envelopes, Acknowledge(e)
      PROVE  ReadingSound' /\ AckedWasAccepted' /\ OpenedAtMostOnce'
  <2>1. e \in accepted
    BY <1>3 DEF Acknowledge, MailboxInv, AckedWasAccepted
  <2>2. \A f \in Envelopes : Msg("ack", {f}) \in net' => Msg("ack", {f}) \in net
    BY <1>3 DEF Acknowledge, Msg
  <2>3. \A f \in Envelopes : status'[f] = "delivered" => f = e \/ status[f] = "delivered"
    BY <1>3 DEF Acknowledge, MailboxInv, ShapeOK
  <2>4. AckedWasAccepted'
    BY <1>3, <2>1, <2>2, <2>3 DEF Acknowledge, reader, MailboxInv, AckedWasAccepted,
                                  DeliveredWasAccepted
  <2> QED
    BY <1>3, <2>4 DEF Acknowledge, reader, MailboxInv, ReadingSound, OpenedAtMostOnce
<1>4. CASE Fetch
  <2>1. \A f \in Envelopes : status'[f] = "delivered" => status[f] = "delivered"
    BY <1>4 DEF Fetch, AfterExpiry, MailboxInv, ShapeOK
  <2>2. \A f \in Envelopes : Msg("ack", {f}) \in net' => Msg("ack", {f}) \in net
    BY <1>4 DEF Fetch, Msg
  <2> QED
    BY <1>4, <2>1, <2>2, ReaderRests DEF Fetch, reader
<1>5. CASE BobFetches
  BY <1>5, ReaderRests DEF BobFetches, Msg, store
<1>6. CASE BobReceives
  BY <1>6, ReaderRests DEF BobReceives, store
<1>7. CASE BobAccepts
  <2>1. PICK e \in Oldest(todo) :
            /\ current' = {e} /\ accepted' = accepted \cup {e}
            /\ \/ e \notin accepted /\ stage' = "opening" /\ net' = net
               \/ e \in accepted /\ stage' = "acking" /\ net' = net \cup {Msg("ack", {e})}
    BY <1>7 DEF BobAccepts
  <2>2. e \in Envelopes
    BY DEF Oldest, MailboxInv, ShapeOK
  <2>3. ReadingSound'
    BY <1>7, <2>1 DEF BobAccepts, MailboxInv, ReadingSound
  <2>4. \A f \in Envelopes : Msg("ack", {f}) \in net' => f = e \/ Msg("ack", {f}) \in net
    BY <2>1 DEF Msg
  <2>5. AckedWasAccepted'
    BY <1>7, <2>1, <2>4 DEF BobAccepts, store, MailboxInv, AckedWasAccepted,
                            DeliveredWasAccepted
  <2> QED
    BY <1>7, <2>3, <2>5 DEF BobAccepts, MailboxInv, OpenedAtMostOnce
<1>8. CASE BobCannotOpen \/ BobEnds
  BY <1>8, ReaderRests DEF BobCannotOpen, BobEnds, Leaves, store
<1>9. ASSUME NEW e \in Envelopes, BobOpens(e)
      PROVE  ReadingSound' /\ AckedWasAccepted' /\ OpenedAtMostOnce'
  <2>1. e \in accepted /\ e \notin history
    BY <1>9 DEF BobOpens, MailboxInv, ReadingSound
  <2>2. ReadingSound'
    BY <1>9, <2>1 DEF BobOpens, MailboxInv, ReadingSound
  <2>3. \A f \in Envelopes : Msg("ack", {f}) \in net' => f = e \/ Msg("ack", {f}) \in net
    BY <1>9 DEF BobOpens, Msg
  <2>4. AckedWasAccepted'
    BY <1>9, <2>1, <2>3 DEF BobOpens, store, MailboxInv, AckedWasAccepted,
                            DeliveredWasAccepted
  <2>5. opened[e] = 0
    BY <2>1 DEF MailboxInv, OpenedAtMostOnce, ShapeOK
  <2>6. OpenedAtMostOnce'
    BY <1>9, <2>1, <2>5 DEF BobOpens, MailboxInv, OpenedAtMostOnce, ShapeOK
  <2> QED
    BY <2>2, <2>4, <2>6
<1>10. ASSUME NEW e \in Envelopes, BobAcked(e)
       PROVE  ReadingSound' /\ AckedWasAccepted' /\ OpenedAtMostOnce'
  BY <1>10, ReaderRests DEF BobAcked, store
<1>11. CASE Lose \/ Tick \/ UNCHANGED vars
  BY <1>11, ReaderRests DEF Lose, Tick, vars, store, reader
<1> QED
  BY <1>1, <1>2, <1>3, <1>4, <1>5, <1>6, <1>7, <1>8, <1>9, <1>10, <1>11 DEF Next

\* The inductive invariant of the reader and the node (run_bob_mailbox_fetch,
\* MailboxStorage::acknowledge).
THEOREM MailboxCorrect == Spec => []MailboxInv
<1>1. Init => MailboxInv
  BY ShapeInit DEF Init, MailboxInv, ReadingSound, AckedWasAccepted,
                   DeliveredWasAccepted, OpenedAtMostOnce
<1> QED
  BY <1>1, MailboxStep, PTL DEF Spec

\* An envelope is marked delivered only after its reader recorded it: no lost
\* response and no killed reader takes it out of the mailbox.
THEOREM DeliveredOnlyAccepted == Spec => []DeliveredWasAccepted
BY MailboxCorrect, PTL DEF MailboxInv, AckedWasAccepted

\* However often it is fetched again, an envelope enters the history once.
THEOREM OpensOnce == Spec => []OpenedAtMostOnce
BY MailboxCorrect, PTL DEF MailboxInv

-----------------------------------------------------------------------------
(* The node's answers                                                       *)

Rows == {e \in Envelopes : status[e] # "none"}

\* What the reader was handed and what it acknowledges has a row.
HandedOutHasRow ==
    /\ todo \subseteq Rows /\ current \subseteq Rows
    /\ \A m \in net : m.kind \in {"pending", "ack"} => m.ids \subseteq Rows

\* A row is there only after its command started, and goes to "expired" only
\* at its expiry; what the node answered has its row.
AnswersBacked ==
    \A e \in Envelopes :
       /\ sender[e] = "new" => status[e] = "none" /\ Msg("deposit", {e}) \notin net
       /\ status[e] = "expired" => expires[e] <= now
       /\ Msg("deposited", {e}) \in net \/ sender[e] = "deposited" => status[e] # "none"
       /\ Msg("acked", {e}) \in net => status[e] = "delivered"

AnswersInv == ShapeOK /\ HandedOutHasRow /\ AnswersBacked

\* No step takes a row away.
LEMMA RowsStay ==
    ASSUME ShapeOK, [Next]_vars
    PROVE  Rows \subseteq Rows'
<1>1. \A f \in Envelopes : AfterExpiry[f] = "none" => status[f] = "none"
  BY DEF AfterExpiry
<1>2. ASSUME NEW e \in Envelopes, Deposit(e)
      PROVE  Rows \subseteq Rows'
  <2>1. \A f \in Envelopes : status'[f] = "none" => AfterExpiry[f] = "none"
    BY <1>2 DEF Deposit, AfterExpiry
  <2> QED
    BY <1>1, <2>1 DEF Rows
<1>3. ASSUME NEW e \in Envelopes, Acknowledge(e)
      PROVE  Rows \subseteq Rows'
  BY <1>3 DEF Acknowledge, Rows, ShapeOK
<1>4. CASE Fetch
  BY <1>1, <1>4 DEF Fetch, Rows
<1>5. CASE \/ \E e \in Envelopes : \/ AliceDeposits(e) \/ AliceDone(e) \/ Repeat(e)
                                  \/ BobOpens(e) \/ BobAcked(e)
           \/ BobFetches \/ BobReceives \/ BobAccepts \/ BobCannotOpen \/ BobEnds
           \/ Lose \/ Tick \/ UNCHANGED vars
  BY <1>5 DEF AliceDeposits, AliceDone, Repeat, BobOpens, BobAcked, BobFetches, BobReceives,
              BobAccepts, BobCannotOpen, BobEnds, Leaves, Lose, Tick, vars, store, Rows
<1> QED
  BY <1>2, <1>3, <1>4, <1>5 DEF Next

LEMMA HandedOutStep == AnswersInv /\ [Next]_vars => HandedOutHasRow'
<1> SUFFICES ASSUME AnswersInv, [Next]_vars PROVE HandedOutHasRow'
  OBVIOUS
<1>1. Rows \subseteq Rows'
  BY RowsStay DEF AnswersInv
<1>2. ASSUME \A m \in net' : m \in net \/ (m.kind \in {"pending", "ack"} => m.ids \subseteq Rows),
             todo' \subseteq Rows, current' \subseteq Rows
      PROVE  HandedOutHasRow'
  BY <1>1, <1>2 DEF AnswersInv, HandedOutHasRow
<1>3. todo \subseteq Rows /\ current \subseteq Rows
  BY DEF AnswersInv, HandedOutHasRow
<1>4. ASSUME NEW e \in Envelopes,
             AliceDeposits(e) \/ AliceDone(e) \/ Repeat(e) \/ Deposit(e) \/ Acknowledge(e)
      PROVE  HandedOutHasRow'
  <2>1. \A m \in net' : m \in net \/ m.kind \notin {"pending", "ack"}
    BY <1>4 DEF AliceDeposits, AliceDone, Repeat, Deposit, Acknowledge, Msg
  <2>2. UNCHANGED <<todo, current>>
    BY <1>4 DEF AliceDeposits, AliceDone, Repeat, Deposit, Acknowledge, reader
  <2> QED
    BY <1>2, <1>3, <2>1, <2>2
<1>5. CASE Fetch
  <2>1. Fetchable \subseteq Rows
    BY DEF Fetchable, AfterExpiry, Rows, AnswersInv, ShapeOK, Expired, Pending
  <2>2. \A m \in net' : m \in net \/ m.ids \subseteq Rows
    BY <1>5, <2>1 DEF Fetch, Msg
  <2>3. UNCHANGED <<todo, current>>
    BY <1>5 DEF Fetch, reader
  <2> QED
    BY <1>2, <1>3, <2>2, <2>3
<1>6. CASE BobFetches
  <2>1. \A m \in net' : m \in net \/ m.kind \notin {"pending", "ack"}
    BY <1>6 DEF BobFetches, Msg
  <2> QED
    BY <1>2, <1>3, <1>6, <2>1 DEF BobFetches
<1>7. CASE BobReceives
  <2>1. PICK m \in net : m.kind = "pending" /\ todo' = m.ids /\ net' = net \ {m}
    BY <1>7 DEF BobReceives
  <2>2. todo' \subseteq Rows
    BY <2>1 DEF AnswersInv, HandedOutHasRow
  <2> QED
    BY <1>2, <1>3, <1>7, <2>1, <2>2 DEF BobReceives
<1>8. CASE BobAccepts
  <2>1. PICK e \in Oldest(todo) :
            /\ current' = {e} /\ todo' = todo \ {e}
            /\ net' = net \/ net' = net \cup {Msg("ack", {e})}
    BY <1>8 DEF BobAccepts
  <2>2. e \in Rows
    BY <1>3 DEF Oldest
  <2>3. \A m \in net' : m \in net \/ m.ids \subseteq Rows
    BY <2>1, <2>2 DEF Msg
  <2> QED
    BY <1>2, <1>3, <2>1, <2>2, <2>3
<1>9. ASSUME NEW e \in Envelopes, BobOpens(e)
      PROVE  HandedOutHasRow'
  <2>1. e \in Rows /\ UNCHANGED <<todo, current>>
    BY <1>3, <1>9 DEF BobOpens
  <2>2. \A m \in net' : m \in net \/ m.ids \subseteq Rows
    BY <1>9, <2>1 DEF BobOpens, Msg
  <2> QED
    BY <1>2, <1>3, <2>1, <2>2
<1>10. CASE \/ \E e \in Envelopes : BobAcked(e)
            \/ BobCannotOpen \/ BobEnds \/ Lose \/ Tick \/ UNCHANGED vars
  <2>1. net' \subseteq net /\ todo' \subseteq todo /\ current' \subseteq current
    BY <1>10 DEF BobAcked, BobCannotOpen, BobEnds, Leaves, Lose, Tick, vars, reader
  <2> QED
    BY <1>2, <1>3, <2>1
<1> QED
  BY <1>4, <1>5, <1>6, <1>7, <1>8, <1>9, <1>10 DEF Next

\* A step that leaves the rows alone, starts no command, turns no clock back and
\* answers nothing new.
LEMMA AnswersRest ==
    ASSUME ShapeOK, AnswersBacked, UNCHANGED <<status, expires>>, now' \in Nat, now' >= now,
           \A e \in Envelopes : sender'[e] = "new" => sender[e] = "new",
           \A e \in Envelopes : sender[e] = "new" /\ Msg("deposit", {e}) \in net' =>
              Msg("deposit", {e}) \in net,
           \A e \in Envelopes : Msg("deposited", {e}) \in net' \/ sender'[e] = "deposited" =>
              Msg("deposited", {e}) \in net \/ sender[e] = "deposited",
           \A e \in Envelopes : Msg("acked", {e}) \in net' => Msg("acked", {e}) \in net
    PROVE  AnswersBacked'
<1> SUFFICES ASSUME NEW e \in Envelopes
             PROVE  /\ sender'[e] = "new" => status'[e] = "none" /\ Msg("deposit", {e}) \notin net'
                    /\ status'[e] = "expired" => expires'[e] <= now'
                    /\ Msg("deposited", {e}) \in net' \/ sender'[e] = "deposited" => status'[e] # "none"
                    /\ Msg("acked", {e}) \in net' => status'[e] = "delivered"
  BY DEF AnswersBacked, Msg
<1>1. sender'[e] = "new" => status'[e] = "none" /\ Msg("deposit", {e}) \notin net'
  BY DEF AnswersBacked
<1>2. status[e] = "expired" => expires[e] <= now'
  <2>1. status[e] = "expired" => expires[e] <= now
    BY DEF AnswersBacked
  <2> QED
    BY <2>1 DEF ShapeOK
<1>3. Msg("deposited", {e}) \in net' \/ sender'[e] = "deposited" => status'[e] # "none"
  BY DEF AnswersBacked
<1>4. Msg("acked", {e}) \in net' => status'[e] = "delivered"
  BY DEF AnswersBacked
<1> QED
  BY <1>1, <1>2, <1>3, <1>4

\* The sender's steps, a repeated deposit included.
LEMMA SenderBacked ==
    ASSUME ShapeOK, AnswersBacked, NEW e \in Envelopes,
           AliceDeposits(e) \/ AliceDone(e) \/ Repeat(e)
    PROVE  AnswersBacked'
<1>1. CASE AliceDeposits(e)
  <2>1. \A f \in Envelopes : f # e => sender'[f] = sender[f] /\ expires'[f] = expires[f]
    BY <1>1 DEF AliceDeposits, ShapeOK
  <2>2. sender'[e] = "waiting" /\ status[e] = "none"
    BY <1>1 DEF AliceDeposits, ShapeOK, AnswersBacked
  <2>3. \A m \in net' : m \in net \/ m = Msg("deposit", {e})
    BY <1>1 DEF AliceDeposits
  <2>4. \A f \in Envelopes : Msg("deposit", {f}) \in net' => f = e \/ Msg("deposit", {f}) \in net
    BY <2>3 DEF Msg
  <2>5. \A f \in Envelopes : /\ Msg("deposited", {f}) \in net' => Msg("deposited", {f}) \in net
                             /\ Msg("acked", {f}) \in net' => Msg("acked", {f}) \in net
    BY <2>3 DEF Msg
  <2>6. UNCHANGED <<status, now>>
    BY <1>1 DEF AliceDeposits
  <2> QED
    BY <2>1, <2>2, <2>4, <2>5, <2>6 DEF AnswersBacked
<1>2. CASE AliceDone(e)
  <2>1. net' \subseteq net /\ UNCHANGED <<status, expires, now>>
    BY <1>2 DEF AliceDone, store
  <2>2. \A f \in Envelopes : sender'[f] = "new" => sender[f] = "new"
    BY <1>2 DEF AliceDone, ShapeOK
  <2>3. \A f \in Envelopes : sender'[f] = "deposited" =>
            sender[f] = "deposited" \/ Msg("deposited", {f}) \in net
    BY <1>2 DEF AliceDone, ShapeOK
  <2> QED
    BY <2>1, <2>2, <2>3, AnswersRest DEF ShapeOK
<1>3. CASE Repeat(e)
  <2>1. \A m \in net' : m \in net \/ m = Msg("deposit", {e})
    BY <1>3 DEF Repeat
  <2>2. \A f \in Envelopes : Msg("deposit", {f}) \in net' => f = e \/ Msg("deposit", {f}) \in net
    BY <2>1 DEF Msg
  <2>3. \A f \in Envelopes : /\ Msg("deposited", {f}) \in net' => Msg("deposited", {f}) \in net
                             /\ Msg("acked", {f}) \in net' => Msg("acked", {f}) \in net
    BY <2>1 DEF Msg
  <2>4. sender[e] # "new" /\ UNCHANGED <<status, expires, sender, now>>
    BY <1>3 DEF Repeat, store
  <2> QED
    BY <2>2, <2>3, <2>4, AnswersRest DEF ShapeOK
<1> QED
  BY <1>1, <1>2, <1>3

\* The node's steps.
LEMMA NodeBacked ==
    ASSUME AnswersInv, (\E e \in Envelopes : Deposit(e) \/ Acknowledge(e)) \/ Fetch
    PROVE  AnswersBacked'
<1>1. \A f \in Envelopes :
         /\ AfterExpiry[f] = "none" <=> status[f] = "none"
         /\ status[f] = "delivered" => AfterExpiry[f] = "delivered"
         /\ AfterExpiry[f] = "expired" => expires[f] <= now
  BY DEF AfterExpiry, Expired, Pending, AnswersInv, AnswersBacked
<1>2. ASSUME NEW e \in Envelopes, Deposit(e)
      PROVE  AnswersBacked'
  <2>1. Msg("deposit", {e}) \in net /\ sender[e] # "new"
    BY <1>2 DEF Deposit, AnswersInv, AnswersBacked
  <2>2. \A f \in Envelopes : f # e => status'[f] = AfterExpiry[f]
    BY <1>2 DEF Deposit, AfterExpiry
  <2>3. UNCHANGED <<expires, sender, now>>
    BY <1>2 DEF Deposit
  <2>4. CASE status[e] # "none" \/ Full(e)
    <3>1. status'[e] = AfterExpiry[e]
      BY <1>2, <2>4 DEF Deposit
    <3>2. \A m \in net' : \/ m \in net
                          \/ status[e] # "none" /\ m = Msg("deposited", {e})
                          \/ m = Msg("full", {e})
      BY <1>2, <2>4 DEF Deposit, Full
    <3>3. \A f \in Envelopes :
             /\ Msg("deposited", {f}) \in net' =>
                   Msg("deposited", {f}) \in net \/ (f = e /\ status[e] # "none")
             /\ Msg("acked", {f}) \in net' => Msg("acked", {f}) \in net
             /\ Msg("deposit", {f}) \in net' => Msg("deposit", {f}) \in net
      BY <3>2 DEF Msg
    <3> QED
      BY <1>1, <2>1, <2>2, <2>3, <3>1, <3>3 DEF AnswersInv, AnswersBacked
  <2>5. CASE status[e] = "none" /\ ~Full(e)
    <3>1. status'[e] = "pending"
      BY <1>2, <2>5 DEF Deposit, AfterExpiry
    <3>2. \A m \in net' : m \in net \/ m = Msg("deposited", {e})
      BY <1>2, <2>5 DEF Deposit
    <3>3. \A f \in Envelopes :
             /\ Msg("deposited", {f}) \in net' => Msg("deposited", {f}) \in net \/ f = e
             /\ Msg("acked", {f}) \in net' => Msg("acked", {f}) \in net
             /\ Msg("deposit", {f}) \in net' => Msg("deposit", {f}) \in net
      BY <3>2 DEF Msg
    <3> QED
      BY <1>1, <2>1, <2>2, <2>3, <2>5, <3>1, <3>3 DEF AnswersInv, AnswersBacked
  <2> QED
    BY <2>4, <2>5
<1>3. ASSUME NEW e \in Envelopes, Acknowledge(e)
      PROVE  AnswersBacked'
  <2>1. status[e] # "none"
    BY <1>3 DEF Acknowledge, AnswersInv, HandedOutHasRow, Rows, Msg
  <2>2. \A f \in Envelopes : status'[f] = IF f = e THEN "delivered" ELSE status[f]
    BY <1>3, <2>1 DEF Acknowledge, AnswersInv, ShapeOK
  <2>3. \A m \in net' : m \in net \/ m = Msg("acked", {e})
    BY <1>3 DEF Acknowledge
  <2>4. \A f \in Envelopes :
             /\ Msg("deposited", {f}) \in net' => Msg("deposited", {f}) \in net
             /\ Msg("acked", {f}) \in net' => Msg("acked", {f}) \in net \/ f = e
             /\ Msg("deposit", {f}) \in net' => Msg("deposit", {f}) \in net
    BY <2>3 DEF Msg
  <2>5. UNCHANGED <<expires, sender, now>>
    BY <1>3 DEF Acknowledge
  <2> QED
    BY <2>1, <2>2, <2>4, <2>5 DEF AnswersInv, AnswersBacked
<1>4. CASE Fetch
  <2>1. \A m \in net' : m \in net \/ m.kind = "pending"
    BY <1>4 DEF Fetch, Msg
  <2>2. \A f \in Envelopes :
             /\ Msg("deposited", {f}) \in net' => Msg("deposited", {f}) \in net
             /\ Msg("acked", {f}) \in net' => Msg("acked", {f}) \in net
             /\ Msg("deposit", {f}) \in net' => Msg("deposit", {f}) \in net
    BY <2>1 DEF Msg
  <2>3. status' = AfterExpiry /\ UNCHANGED <<expires, sender, now>>
    BY <1>4 DEF Fetch
  <2> QED
    BY <1>1, <2>2, <2>3 DEF AnswersInv, AnswersBacked
<1> QED
  BY <1>2, <1>3, <1>4

\* The reader's steps, losses and the clock.
LEMMA OthersBacked ==
    ASSUME ShapeOK, AnswersBacked,
           \/ BobFetches \/ BobReceives \/ BobAccepts \/ BobCannotOpen \/ BobEnds
           \/ \E e \in Envelopes : BobOpens(e) \/ BobAcked(e)
           \/ Lose \/ Tick \/ UNCHANGED vars
    PROVE  AnswersBacked'
<1>1. UNCHANGED <<status, expires, sender>> /\ now' \in Nat /\ now' >= now
  <2>1. UNCHANGED <<status, expires, sender>>
    BY DEF BobFetches, BobReceives, BobAccepts, BobCannotOpen, BobEnds, Leaves, BobOpens,
           BobAcked, Lose, Tick, vars, store
  <2>2. now' = now \/ now' = now + 1
    BY DEF BobFetches, BobReceives, BobAccepts, BobCannotOpen, BobEnds, Leaves, BobOpens,
           BobAcked, Lose, Tick, vars
  <2> QED
    BY <2>1, <2>2 DEF ShapeOK
<1>2. \A m \in net' : m \in net \/ m.kind \in {"fetch", "ack"}
  <2>1. CASE BobFetches
    BY <2>1 DEF BobFetches, Msg
  <2>2. CASE BobAccepts
    BY <2>2 DEF BobAccepts, Msg
  <2>3. CASE \E e \in Envelopes : BobOpens(e)
    BY <2>3 DEF BobOpens, Msg
  <2>4. CASE \/ BobReceives \/ BobCannotOpen \/ BobEnds \/ Lose \/ Tick \/ UNCHANGED vars
             \/ \E e \in Envelopes : BobAcked(e)
    BY <2>4 DEF BobReceives, BobCannotOpen, BobEnds, Leaves, BobAcked, Lose, Tick, vars
  <2> QED
    BY <2>1, <2>2, <2>3, <2>4
<1>3. \A f \in Envelopes :
             /\ Msg("deposited", {f}) \in net' => Msg("deposited", {f}) \in net
             /\ Msg("acked", {f}) \in net' => Msg("acked", {f}) \in net
             /\ Msg("deposit", {f}) \in net' => Msg("deposit", {f}) \in net
  BY <1>2 DEF Msg
<1> QED
  BY <1>1, <1>3, AnswersRest

LEMMA AnswersStep == AnswersInv /\ [Next]_vars => AnswersInv'
<1> SUFFICES ASSUME AnswersInv, [Next]_vars PROVE AnswersBacked'
  BY ShapeStep, HandedOutStep DEF AnswersInv
<1> QED
  BY SenderBacked, NodeBacked, OthersBacked DEF AnswersInv, Next

\* What the node answered stays true: a deposited envelope waits until it
\* expires or its reader has recorded it, and an acknowledged one is delivered
\* for good, whatever deposits are repeated (MailboxStorage::deposit, INSERT OR
\* IGNORE).
THEOREM AnswersAreKept == Spec => []AnswersHold
<1>1. Init => AnswersInv
  BY ShapeInit DEF Init, AnswersInv, HandedOutHasRow, AnswersBacked
<1>2. ShapeOK /\ AnswersBacked /\ DeliveredWasAccepted => AnswersHold
  BY DEF ShapeOK, AnswersBacked, DeliveredWasAccepted, AnswersHold
<1> QED
  BY <1>1, <1>2, AnswersStep, DeliveredOnlyAccepted, PTL DEF Spec, AnswersInv
=============================================================================
