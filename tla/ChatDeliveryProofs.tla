------------------------- MODULE ChatDeliveryProofs -------------------------
(***************************************************************************)
(* Proofs about ChatDelivery for any set of messages, any number of        *)
(* connections, pairings, failures and wipes and any store of skipped keys: *)
(* its safety properties, and that it implements ReliableDelivery.          *)
(***************************************************************************)
EXTENDS ChatDelivery, FiniteSetTheorems, TLAPS

-----------------------------------------------------------------------------
(* Lemmas about the operators                                               *)

\* Two peers: each is the other's peer.
LEMMA PeerOfFacts ==
    ASSUME NEW p \in Peers
    PROVE  PeerOf(p) \in Peers /\ PeerOf(p) # p /\ PeerOf(PeerOf(p)) = p
BY PeersAssumption DEF Peers, PeerOf

\* Only finitely many messages are pending, so send_pending ends.
LEMMA PendingCardinality ==
    ASSUME TypeOK, NEW p \in Peers
    PROVE  Cardinality(pending[p]) \in Nat
<1>1. pending[p] \subseteq Messages
  BY DEF TypeOK
<1>2. IsFiniteSet(pending[p])
  BY <1>1, MessagesAssumption, FS_Subset
<1> QED
  BY <1>2, FS_CardinalityType

\* insert_message keeps the table well formed.
LEMMA InsertedType ==
    ASSUME NEW h \in [Messages -> Status], NEW S, NEW s \in Status
    PROVE  Inserted(h, S, s) \in [Messages -> Status]
BY DEF Inserted

\* Opening a message keeps the chain well formed.
LEMMA OpenedType ==
    ASSUME NEW c \in Chain, NEW n \in Nat, Outcome(c, n) = "Key"
    PROVE  Opened(c, n) \in Chain
<1>1. Selected(c, n) \in Chain
  <2>1. CASE n \in c.skipped
    BY <2>1 DEF Selected, Outcome, Chain
  <2>2. CASE n \notin c.skipped
    <3>1. c.recv .. n - 1 \subseteq Nat
      BY DEF Chain
    <3>2. Selected(c, n) = [c EXCEPT !.recv = n + 1,
                                     !.skipped = @ \cup (c.recv .. n - 1)]
      BY <2>2 DEF Selected
    <3>3. c.skipped \cup (c.recv .. n - 1) \in SUBSET Nat
      BY <3>1 DEF Chain
    <3>4. n + 1 \in Nat
      OBVIOUS
    <3> QED
      BY <3>2, <3>3, <3>4 DEF Chain
  <2> QED
    BY <2>1, <2>2
<1> QED
  BY <1>1 DEF Opened, Chain

\* Encrypting a message keeps the chain well formed.
LEMMA EncryptedType ==
    ASSUME NEW c \in Chain
    PROVE  Encrypted(c) \in Chain
BY DEF Encrypted, Chain

\* send_pending keeps the chain well formed.
LEMMA FlushChainType ==
    ASSUME TypeOK, NEW p \in Peers, NEW c \in Chain
    PROVE  FlushChain(p, c) \in Chain
BY PendingCardinality DEF FlushChain, Chain

\* A number send_pending gives out is at or above the sending counter.
LEMMA NumberingFacts ==
    ASSUME TypeOK, NEW p \in Peers, NEW c \in Chain, NEW f \in Numberings(p, c),
           NEW m \in pending[p]
    PROVE  /\ f[m] \in Nat
           /\ c.send <= f[m]
           /\ f[m] < FlushChain(p, c).send
BY PendingCardinality DEF Numberings, FlushChain, Chain

\* send_pending puts well-formed frames on the wire.
LEMMA FlushFramesType ==
    ASSUME TypeOK, NEW p \in Peers, NEW c \in Chain, NEW f \in Numberings(p, c),
           NEW k \in Conns
    PROVE  FlushFrames(p, f, k) \subseteq Frame
<1> SUFFICES ASSUME NEW m \in pending[p]
             PROVE  [src |-> p, id |-> m, num |-> f[m], conn |-> k] \in Frame
  BY DEF FlushFrames
<1>1. f[m] \in Nat
  BY NumberingFacts
<1>2. m \in Messages
  BY DEF TypeOK
<1> QED
  BY <1>1, <1>2 DEF Frame

\* The starting chains of a session.
LEMMA StartTypes ==
    NewChain \in Chain /\ AliceStart \in Chain /\ BobStart \in Chain
<1>1. NewChain \in Chain
  BY DEF NewChain, Chain
<1>2. AliceStart \in Chain
  BY <1>1 DEF AliceStart, Chain
<1>3. {0} \in SUBSET Nat /\ 1 \in Nat
  OBVIOUS
<1>4. BobStart \in Chain
  BY <1>1, <1>3 DEF BobStart, Chain
<1> QED
  BY <1>1, <1>2, <1>4

-----------------------------------------------------------------------------
(* Type correctness                                                         *)

\* What a chat leaves behind when it stops is well typed.
LEMMA StoppedType ==
    ASSUME TypeOK, NEW p \in Peers, Stopped(p)
    PROVE  /\ mode' \in [Peers -> {"idle", "joining", "chat"}]
           /\ online' \in [Peers -> BOOLEAN]
           /\ chain' \in [Peers -> Chain]
           /\ conns' \in [Peers -> SUBSET Conns]
           /\ alive' = {} /\ frames' = {} /\ acks' = {}
           /\ used' = used /\ breaks' = breaks
BY StartTypes DEF TypeOK, Stopped, Disconnected

\* A peer that enters or re-enters its chat and sends what is pending.
LEMMA FlushType ==
    ASSUME TypeOK, NEW p \in Peers, NEW c \in Chain, NEW k \in Conns,
           NEW f \in Numberings(p, c)
    PROVE  /\ FlushChain(p, c) \in Chain
           /\ FlushFrames(p, f, k) \subseteq Frame
           /\ FlushHistory(p) \in [Messages -> Status]
<1>1. history[p] \in [Messages -> Status] /\ "Sent" \in Status
  BY DEF TypeOK, Status
<1> QED
  BY <1>1, FlushChainType, FlushFramesType, InsertedType DEF FlushHistory

\* Pairing preserves the types.
LEMMA PairingType ==
    ASSUME TypeOK, NEW p \in Peers, Pairing(p)
    PROVE  TypeOK'
<1>p. Alice \in Peers /\ Bob \in Peers
  BY DEF Peers
<1>1. CASE BobPairs
  <2> USE <1>1
  <2>1. used + 1 \in Conns /\ used' \in 0 .. MaxConns /\ pairings' \in Nat
    BY BoundsAssumption DEF BobPairs, TypeOK, Conns
  <2>2. PICK f \in Numberings(Bob, BobStart) :
            frames' = FlushFrames(Bob, f, used + 1)
    BY DEF BobPairs
  <2>3. /\ FlushChain(Bob, BobStart) \in Chain
        /\ frames' \subseteq Frame
        /\ FlushHistory(Bob) \in [Messages -> Status]
    BY <1>p, <2>1, <2>2, FlushType, StartTypes
  <2>4. /\ chain' \in [Peers -> Chain]
        /\ history' \in [Peers -> [Messages -> Status]]
    BY <1>p, <2>3, StartTypes DEF BobPairs, TypeOK
  <2>5. /\ mode' \in [Peers -> {"idle", "joining", "chat"}]
        /\ online' \in [Peers -> BOOLEAN]
        /\ known' \in [Peers -> BOOLEAN]
    BY <1>p DEF BobPairs, TypeOK
  <2>6. /\ conns' \in [Peers -> SUBSET Conns]
        /\ alive' \subseteq Conns
        /\ acks' \subseteq Ack
    BY <2>1 DEF BobPairs, TypeOK
  <2> QED
    BY <2>1, <2>3, <2>4, <2>5, <2>6 DEF BobPairs, TypeOK, ghost
<1>2. CASE AliceJoins
  <2> USE <1>2
  <2>0. chain[Alice] \in Chain
    BY <1>p DEF TypeOK
  <2>1. PICK k \in conns[Alice] \cap alive, f \in Numberings(Alice, chain[Alice]) :
            frames' = frames \cup FlushFrames(Alice, f, k)
    BY DEF AliceJoins
  <2>2. k \in Conns
    BY DEF TypeOK
  <2>3. /\ FlushChain(Alice, chain[Alice]) \in Chain
        /\ frames' \subseteq Frame
        /\ FlushHistory(Alice) \in [Messages -> Status]
    BY <1>p, <2>0, <2>1, <2>2, FlushType DEF TypeOK
  <2>4. /\ chain' \in [Peers -> Chain]
        /\ history' \in [Peers -> [Messages -> Status]]
    BY <1>p, <2>3 DEF AliceJoins, TypeOK
  <2>5. /\ mode' \in [Peers -> {"idle", "joining", "chat"}]
        /\ online' \in [Peers -> BOOLEAN]
    BY <1>p DEF AliceJoins, TypeOK
  <2> QED
    BY <2>3, <2>4, <2>5 DEF AliceJoins, TypeOK, link, ghost, count
<1>3. CASE AliceJoinFails
  BY <1>p, <1>3, StoppedType DEF AliceJoinFails, TypeOK, db, ghost, count
<1> QED
  BY <1>1, <1>2, <1>3 DEF Pairing

\* The commands of the terminal and of the saved conversation.
LEMMA TerminalType ==
    ASSUME TypeOK, NEW p \in Peers, Terminal(p)
    PROVE  TypeOK'
<1>s. "Sent" \in Status /\ "Stored" \in Status /\ "none" \in Status
  BY DEF Status
<1>h. ASSUME NEW m \in Messages, NEW s \in Status,
             history' = [history EXCEPT ![p] = Inserted(history[p], {m}, s)]
      PROVE  history' \in [Peers -> [Messages -> Status]]
  BY <1>h, InsertedType DEF TypeOK
<1>1. ASSUME NEW m \in Messages, TypeOnline(p, m)
      PROVE  TypeOK'
  <2> USE <1>1
  <2>1. history' \in [Peers -> [Messages -> Status]]
    BY <1>h, <1>s DEF TypeOnline
  <2>2. Encrypted(chain[p]) \in Chain
    BY EncryptedType DEF TypeOK
  <2>3. chain' \in [Peers -> Chain]
    BY <2>2 DEF TypeOnline, TypeOK
  <2>4. PICK k \in conns[p] :
            frames' = IF k \in alive
                      THEN frames \cup {[src |-> p, id |-> m,
                                         num |-> chain[p].send, conn |-> k]}
                      ELSE frames
    BY DEF TypeOnline
  <2>5. [src |-> p, id |-> m, num |-> chain[p].send, conn |-> k] \in Frame
    BY <2>4 DEF TypeOK, Frame, Chain
  <2>6. frames' \subseteq Frame
    BY <2>4, <2>5 DEF TypeOK
  <2>7. pending' \in [Peers -> SUBSET Messages] /\ typed' \subseteq Messages
    BY DEF TypeOnline, TypeOK
  <2> QED
    BY <2>1, <2>3, <2>6, <2>7 DEF TypeOnline, TypeOK, link, ghost, count
<1>2. ASSUME NEW m \in Messages, TypeOnlineCrash(p, m)
      PROVE  TypeOK'
  <2>1. history' \in [Peers -> [Messages -> Status]]
    BY <1>2, <1>h, <1>s DEF TypeOnlineCrash
  <2>2. Stopped(p)
    BY <1>2 DEF TypeOnlineCrash
  <2> QED
    BY <1>2, <2>1, <2>2, StoppedType DEF TypeOnlineCrash, TypeOK, count
<1>3. ASSUME NEW m \in Messages, QueueOffline(p, m)
      PROVE  TypeOK'
  <2>1. history' \in [Peers -> [Messages -> Status]]
    BY <1>3, <1>h, <1>s DEF QueueOffline
  <2>2. pending' \in [Peers -> SUBSET Messages] /\ typed' \subseteq Messages
    BY <1>3 DEF QueueOffline, TypeOK
  <2> QED
    BY <1>3, <2>1, <2>2 DEF QueueOffline, TypeOK, proc, link, ghost, count
<1>4. ASSUME NEW m \in Messages, QueueOfflineCrash(p, m)
      PROVE  TypeOK'
  <2>1. pending' \in [Peers -> SUBSET Messages] /\ typed' \subseteq Messages
    BY <1>4 DEF QueueOfflineCrash, TypeOK
  <2>2. Stopped(p)
    BY <1>4 DEF QueueOfflineCrash
  <2> QED
    BY <1>4, <2>1, <2>2, StoppedType DEF QueueOfflineCrash, TypeOK, ghost, count
<1>5. CASE Leave(p)
  BY <1>5, StoppedType DEF Leave, TypeOK, db, ghost, count
<1>6. ASSUME ClearHistory(p) \/ DeleteConversation(p)
      PROVE  TypeOK'
  <2>1. history' \in [Peers -> [Messages -> Status]]
    BY <1>6, <1>s DEF ClearHistory, DeleteConversation, TypeOK
  <2>2. wiped' \subseteq Messages /\ wipes' \in Nat
    BY <1>6 DEF ClearHistory, DeleteConversation, TypeOK, ReceivedBy
  <2>3. pending' \in [Peers -> SUBSET Messages] /\ known' \in [Peers -> BOOLEAN]
    BY <1>6 DEF ClearHistory, DeleteConversation, TypeOK
  <2> QED
    BY <1>6, <2>1, <2>2, <2>3
       DEF ClearHistory, DeleteConversation, TypeOK, proc, link
<1> QED
  BY <1>1, <1>2, <1>3, <1>4, <1>5, <1>6 DEF Terminal

\* The request_response events.
LEMMA AppEventType ==
    ASSUME TypeOK, NEW p \in Peers, AppEvent(p)
    PROVE  TypeOK'
<1>q. PeerOf(p) \in Peers
  BY PeerOfFacts
<1>k. ASSUME NEW f \in frames
      PROVE  AckOf(p, f) \in Ack /\ f.id \in Messages /\ f.num \in Nat
  BY DEF TypeOK, AckOf, Ack, Frame
<1>1. ASSUME NEW f \in frames, ReceiveDuplicate(p, f)
      PROVE  TypeOK'
  BY <1>1, <1>k DEF ReceiveDuplicate, TypeOK, proc, db, link, ghost, count
<1>2. ASSUME NEW f \in frames, ReceiveNew(p, f)
      PROVE  TypeOK'
  <2>1. Opened(chain[p], f.num) \in Chain
    BY <1>2, <1>k, OpenedType DEF ReceiveNew, TypeOK
  <2>2. chain' \in [Peers -> Chain]
    BY <1>2, <2>1 DEF ReceiveNew, TypeOK
  <2>3. Inserted(history[p], {f.id}, "Received") \in [Messages -> Status]
    BY InsertedType DEF TypeOK, Status
  <2>4. history' \in [Peers -> [Messages -> Status]]
    BY <1>2, <2>3 DEF ReceiveNew, TypeOK
  <2>5. frames' \subseteq Frame /\ acks' \subseteq Ack
    BY <1>2, <1>k DEF ReceiveNew, TypeOK
  <2>6. shown' \in [Messages -> Nat]
    BY <1>2, <1>k DEF ReceiveNew, TypeOK
  <2> QED
    BY <1>2, <2>2, <2>4, <2>5, <2>6 DEF ReceiveNew, TypeOK, link, count
<1>3. ASSUME NEW f \in frames, ReceiveFails(p, f)
      PROVE  TypeOK'
  BY <1>3, StoppedType DEF ReceiveFails, TypeOK, db, ghost, count
<1>4. ASSUME NEW a \in acks, ReceiveAck(p, a)
      PROVE  TypeOK'
  <2>1. a.id \in Messages /\ AckedStatus(history[p][a.id]) \in Status
    BY DEF TypeOK, Ack, AckedStatus, Status
  <2>2. history' \in [Peers -> [Messages -> Status]]
    BY <1>4, <2>1 DEF ReceiveAck, TypeOK
  <2>3. pending' \in [Peers -> SUBSET Messages] /\ acks' \subseteq Ack
    BY <1>4 DEF ReceiveAck, TypeOK
  <2> QED
    BY <1>4, <2>2, <2>3 DEF ReceiveAck, TypeOK, proc, link, ghost, count
<1>5. ASSUME NEW a \in acks, ReceiveAckCrash(p, a)
      PROVE  TypeOK'
  <2>1. pending' \in [Peers -> SUBSET Messages] /\ Stopped(p)
    BY <1>5 DEF ReceiveAckCrash, TypeOK
  <2> QED
    BY <1>5, <2>1, StoppedType DEF ReceiveAckCrash, TypeOK, ghost, count
<1> QED
  BY <1>1, <1>2, <1>3, <1>4, <1>5 DEF AppEvent

\* The connection events of the swarm.
LEMMA ConnectionEventType ==
    ASSUME TypeOK, NEW p \in Peers, ConnectionEvent(p)
    PROVE  TypeOK'
<1>1. ASSUME NEW k \in conns[p], ConnectionClosed(p, k)
      PROVE  TypeOK'
  <2>1. (online[p] /\ ~LostAll(p, k)) \in BOOLEAN
    OBVIOUS
  <2>2. online' \in [Peers -> BOOLEAN]
    BY <1>1, <2>1 DEF ConnectionClosed, TypeOK
  <2>3. conns' \in [Peers -> SUBSET Conns]
    BY <1>1 DEF ConnectionClosed, TypeOK
  <2> QED
    BY <1>1, <2>2, <2>3 DEF ConnectionClosed, TypeOK, db, ghost, count
<1>2. CASE Reconnect(p)
  <2>1. used' \in 0 .. MaxConns /\ alive' \subseteq Conns
    BY <1>2, BoundsAssumption DEF Reconnect, TypeOK, Conns
  <2> QED
    BY <1>2, <2>1 DEF Reconnect, TypeOK, proc, db, ghost, count
<1>3. ASSUME NEW k \in alive, ConnectionEstablished(p, k)
      PROVE  TypeOK'
  <2>1. k \in Conns /\ chain[p] \in Chain
    BY DEF TypeOK
  <2>2. /\ chain' \in [Peers -> Chain]
        /\ frames' \subseteq Frame
        /\ history' \in [Peers -> [Messages -> Status]]
    <3>1. CASE online[p]
      BY <1>3, <3>1 DEF ConnectionEstablished, TypeOK
    <3>2. CASE ~online[p]
      <4>1. PICK f \in Numberings(p, chain[p]) :
                frames' = frames \cup FlushFrames(p, f, k)
        BY <1>3, <3>2 DEF ConnectionEstablished
      <4>2. /\ FlushChain(p, chain[p]) \in Chain
            /\ frames' \subseteq Frame
            /\ FlushHistory(p) \in [Messages -> Status]
        BY <2>1, <4>1, FlushType DEF TypeOK
      <4> QED
        BY <1>3, <3>2, <4>2 DEF ConnectionEstablished, TypeOK
    <3> QED
      BY <3>1, <3>2
  <2>3. /\ conns' \in [Peers -> SUBSET Conns]
        /\ online' \in [Peers -> BOOLEAN]
    BY <1>3, <2>1 DEF ConnectionEstablished, TypeOK
  <2> QED
    BY <1>3, <2>2, <2>3 DEF ConnectionEstablished, TypeOK, ghost, count
<1>4. ASSUME NEW S \in SUBSET pending[p], FlushCrash(p, S)
      PROVE  TypeOK'
  <2>1. Inserted(history[p], S, "Sent") \in [Messages -> Status]
    BY InsertedType DEF TypeOK, Status
  <2>2. history' \in [Peers -> [Messages -> Status]] /\ Stopped(p)
    BY <1>4, <2>1 DEF FlushCrash, TypeOK
  <2> QED
    BY <1>4, <2>2, StoppedType DEF FlushCrash, TypeOK, ghost, count
<1> QED
  BY <1>1, <1>2, <1>3, <1>4 DEF ConnectionEvent

\* Losses and new connections.
LEMMA NetworkType ==
    ASSUME TypeOK, Network
    PROVE  TypeOK'
<1>1. ASSUME NEW f \in frames, DropWhileJoining(f)
      PROVE  TypeOK'
  BY <1>1 DEF DropWhileJoining, TypeOK, proc, db, link, ghost
<1>2. CASE RequestFails
  BY <1>2 DEF RequestFails, TypeOK, proc, db, link, ghost
<1>3. ASSUME NEW k \in alive, Break(k)
      PROVE  TypeOK'
  BY <1>3 DEF Break, TypeOK, proc, db, ghost, count
<1>4. CASE HolePunch
  <2>1. used' \in 0 .. MaxConns /\ alive' \subseteq Conns
    BY <1>4, BoundsAssumption DEF HolePunch, TypeOK, Conns
  <2> QED
    BY <1>4, <2>1 DEF HolePunch, TypeOK, proc, db, ghost, count
<1> QED
  BY <1>1, <1>2, <1>3, <1>4 DEF Network

\* Every step preserves the types.
LEMMA TypeStep ==
    ASSUME TypeOK, [Next]_vars
    PROVE  TypeOK'
<1>1. CASE UNCHANGED vars
  BY <1>1 DEF vars, proc, db, link, ghost, count, TypeOK
<1>2. CASE Next
  BY <1>2, PairingType, TerminalType, AppEventType, ConnectionEventType,
     NetworkType DEF Next
<1> QED
  BY <1>1, <1>2

\* Every reachable state of the paired chat is well typed: what the databases
\* hold, what the session counts and what is in flight.
THEOREM TypeCorrect == Spec => []TypeOK
<1>1. Init => TypeOK
  BY StartTypes, BoundsAssumption DEF Init, TypeOK, Status
<1>2. TypeOK /\ [Next]_vars => TypeOK'
  BY TypeStep
<1> QED
  BY <1>1, <1>2, PTL DEF Spec

-----------------------------------------------------------------------------
(* Delivery: nothing tracked is lost, nothing is shown twice                 *)

\* What inserting rows changes.
LEMMA InsertedFacts ==
    ASSUME NEW h \in [Messages -> Status], NEW S, NEW s, NEW m \in Messages
    PROVE  /\ h[m] # "none" => Inserted(h, S, s)[m] = h[m]
           /\ m \notin S => Inserted(h, S, s)[m] = h[m]
           /\ h[m] = "none" /\ m \in S => Inserted(h, S, s)[m] = s
BY DEF Inserted

\* A step that only loses what is in flight, and moves connections, counters or
\* processes, preserves the delivery invariant.
LEMMA DeliveryFrame ==
    ASSUME DeliveryInv, frames' \subseteq frames, acks' \subseteq acks,
           UNCHANGED <<pending, history, shown, orphaned, wiped>>
    PROVE  DeliveryInv'
BY DEF DeliveryInv, Authorship, AckedIsDelivered, TrackedUntilAcked,
       ShownIsSaved, Delivered, IsSent

\* Rows of the author's own pending messages, inserted as Sent, and frames that
\* carry them, preserve the delivery invariant: the effect of send_pending.
LEMMA DeliveryFlush ==
    ASSUME TypeOK, DeliveryInv, NEW p \in Peers, NEW S \in SUBSET pending[p],
           history' = [history EXCEPT ![p] = Inserted(history[p], S, "Sent")],
           \A f \in frames' \ frames : f.src = p /\ f.id \in pending[p],
           acks' \subseteq acks,
           UNCHANGED <<pending, shown, orphaned, wiped>>
    PROVE  DeliveryInv'
<1>1. \A q \in Peers, m \in Messages :
         \/ history'[q][m] = history[q][m]
         \/ q = p /\ m \in pending[p] /\ history[q][m] = "none"
                  /\ history'[q][m] = "Sent"
  <2> SUFFICES ASSUME NEW q \in Peers, NEW m \in Messages
               PROVE  \/ history'[q][m] = history[q][m]
                      \/ q = p /\ m \in pending[p] /\ history[q][m] = "none"
                               /\ history'[q][m] = "Sent"
    OBVIOUS
  <2>1. history[p] \in [Messages -> Status]
    BY DEF TypeOK
  <2> QED
    BY <2>1, InsertedFacts DEF TypeOK
<1>2. Authorship'
  BY <1>1 DEF DeliveryInv, Authorship, IsSent
<1>3. AckedIsDelivered'
  BY <1>1 DEF DeliveryInv, AckedIsDelivered, Delivered
<1>4. TrackedUntilAcked'
  BY <1>1 DEF DeliveryInv, TrackedUntilAcked, Delivered, IsSent
<1>5. ShownIsSaved'
  <2> SUFFICES ASSUME NEW m \in Messages \ wiped, Delivered(m)
               PROVE  shown[m] = 1 /\ history'[PeerOf(Author[m])][m] = "Received"
    BY DEF ShownIsSaved, Delivered
  <2>1. shown[m] = 1 /\ history[PeerOf(Author[m])][m] = "Received"
    BY DEF DeliveryInv, ShownIsSaved
  <2>2. PeerOf(Author[m]) \in Peers
    BY AuthorAssumption, PeerOfFacts
  <2> QED
    BY <1>1, <2>1, <2>2
<1> QED
  BY <1>2, <1>3, <1>4, <1>5 DEF DeliveryInv

\* Pairing preserves the delivery invariant.
LEMMA PairingDelivery ==
    ASSUME TypeOK, DeliveryInv, NEW p \in Peers, Pairing(p)
    PROVE  DeliveryInv'
<1>p. Alice \in Peers /\ Bob \in Peers
  BY DEF Peers
<1>1. CASE BobPairs
  <2>1. PICK f : frames' = FlushFrames(Bob, f, used + 1)
    BY <1>1 DEF BobPairs
  <2>2. \A g \in frames' \ frames : g.src = Bob /\ g.id \in pending[Bob]
    BY <2>1 DEF FlushFrames
  <2> QED
    BY <1>p, <1>1, <2>2, DeliveryFlush DEF BobPairs, FlushHistory, ghost
<1>2. CASE AliceJoins
  <2>1. PICK k, f : frames' = frames \cup FlushFrames(Alice, f, k)
    BY <1>2 DEF AliceJoins
  <2>2. \A g \in frames' \ frames : g.src = Alice /\ g.id \in pending[Alice]
    BY <2>1 DEF FlushFrames
  <2> QED
    BY <1>p, <1>2, <2>2, DeliveryFlush DEF AliceJoins, FlushHistory, ghost
<1>3. CASE AliceJoinFails
  BY <1>3, DeliveryFrame DEF AliceJoinFails, Stopped, Disconnected, db, ghost
<1> QED
  BY <1>1, <1>2, <1>3 DEF Pairing

\* A typed line: its author stores it, and it is pending or orphaned at once.
LEMMA TypedDelivery ==
    ASSUME TypeOK, DeliveryInv, NEW p \in Peers, NEW m \in Messages, Author[m] = p,
           NEW s \in {"Sent", "Stored"},
           \/ history' = [history EXCEPT ![p] = Inserted(history[p], {m}, s)]
           \/ history' = history,
           \/ pending' = [pending EXCEPT ![p] = @ \cup {m}] /\ orphaned' = orphaned
           \/ pending' = pending /\ orphaned' = orphaned \cup {m},
           \A f \in frames' \ frames : f.src = p /\ f.id = m,
           acks' \subseteq acks,
           UNCHANGED <<shown, wiped>>
    PROVE  DeliveryInv'
<1>1. \A q \in Peers, n \in Messages :
         \/ history'[q][n] = history[q][n]
         \/ q = p /\ n = m /\ history[q][n] = "none" /\ history'[q][n] = s
  <2> SUFFICES ASSUME NEW q \in Peers, NEW n \in Messages
               PROVE  \/ history'[q][n] = history[q][n]
                      \/ q = p /\ n = m /\ history[q][n] = "none"
                               /\ history'[q][n] = s
    OBVIOUS
  <2>1. history[p] \in [Messages -> Status]
    BY DEF TypeOK
  <2> QED
    BY <2>1, InsertedFacts DEF TypeOK
<1>2. /\ orphaned \subseteq orphaned'
      /\ \A q \in Peers : pending[q] \subseteq pending'[q]
      /\ \A q \in Peers : \A n \in pending'[q] \ pending[q] : q = p /\ n = m
      /\ m \in pending'[p] \/ m \in orphaned'
  BY DEF TypeOK
<1>3. Authorship'
  BY <1>1, <1>2 DEF DeliveryInv, Authorship, IsSent
<1>4. AckedIsDelivered'
  BY <1>1 DEF DeliveryInv, AckedIsDelivered, Delivered
<1>5. TrackedUntilAcked'
  <2> SUFFICES ASSUME NEW q \in Peers, NEW n \in Messages, IsSent(q, n)'
               PROVE  n \in pending'[q] \/ Delivered(n) \/ n \in orphaned'
    BY DEF TrackedUntilAcked, Delivered
  <2>1. CASE history'[q][n] = history[q][n]
    BY <1>2, <2>1 DEF DeliveryInv, TrackedUntilAcked, IsSent
  <2>2. CASE q = p /\ n = m
    BY <1>2, <2>2
  <2> QED
    BY <1>1, <2>1, <2>2
<1>6. ShownIsSaved'
  <2> SUFFICES ASSUME NEW n \in Messages \ wiped, Delivered(n)
               PROVE  shown[n] = 1 /\ history'[PeerOf(Author[n])][n] = "Received"
    BY DEF ShownIsSaved, Delivered
  <2>1. shown[n] = 1 /\ history[PeerOf(Author[n])][n] = "Received"
    BY DEF DeliveryInv, ShownIsSaved
  <2>2. PeerOf(Author[n]) \in Peers
    BY AuthorAssumption, PeerOfFacts
  <2> QED
    BY <1>1, <2>1, <2>2
<1> QED
  BY <1>3, <1>4, <1>5, <1>6 DEF DeliveryInv

\* The terminal preserves the delivery invariant.
LEMMA TerminalDelivery ==
    ASSUME TypeOK, DeliveryInv, NEW p \in Peers, Terminal(p)
    PROVE  DeliveryInv'
<1>1. ASSUME NEW m \in Messages, TypeOnline(p, m)
      PROVE  DeliveryInv'
  <2>1. \A f \in frames' \ frames : f.src = p /\ f.id = m
    BY <1>1 DEF TypeOnline
  <2> QED
    BY <1>1, <2>1, TypedDelivery DEF TypeOnline, FreshMessage, ghost
<1>2. ASSUME NEW m \in Messages, TypeOnlineCrash(p, m)
      PROVE  DeliveryInv'
  BY <1>2, TypedDelivery
     DEF TypeOnlineCrash, FreshMessage, Stopped, Disconnected
<1>3. ASSUME NEW m \in Messages, QueueOffline(p, m)
      PROVE  DeliveryInv'
  BY <1>3, TypedDelivery DEF QueueOffline, FreshMessage, ghost
<1>4. ASSUME NEW m \in Messages, QueueOfflineCrash(p, m)
      PROVE  DeliveryInv'
  BY <1>4, TypedDelivery
     DEF QueueOfflineCrash, FreshMessage, Stopped, Disconnected, ghost
<1>5. CASE Leave(p)
  BY <1>5, DeliveryFrame DEF Leave, Stopped, Disconnected, db, ghost
<1>6. ASSUME ClearHistory(p) \/ DeleteConversation(p)
      PROVE  DeliveryInv'
  <2>1. \A q \in Peers, m \in Messages :
           IF q = p THEN history'[q][m] = "none"
                    ELSE history'[q][m] = history[q][m]
    BY <1>6 DEF ClearHistory, DeleteConversation, TypeOK
  <2>2. /\ wiped' = wiped \cup ReceivedBy(p)
        /\ UNCHANGED <<frames, acks, shown, orphaned>>
        /\ \A q \in Peers : pending'[q] \subseteq pending[q]
        /\ \A q \in Peers \ {p} : pending'[q] = pending[q]
    BY <1>6 DEF ClearHistory, DeleteConversation, TypeOK
  <2>3. Authorship'
    BY <2>1, <2>2 DEF DeliveryInv, Authorship, IsSent
  <2>4. AckedIsDelivered'
    BY <2>1, <2>2 DEF DeliveryInv, AckedIsDelivered, Delivered
  <2>5. TrackedUntilAcked'
    BY <2>1, <2>2 DEF DeliveryInv, TrackedUntilAcked, IsSent, Delivered
  <2>6. ShownIsSaved'
    <3> SUFFICES ASSUME NEW n \in Messages \ wiped', Delivered(n)
                 PROVE  shown[n] = 1 /\ history'[PeerOf(Author[n])][n] = "Received"
      BY <2>2 DEF ShownIsSaved, Delivered
    <3>1. shown[n] = 1 /\ history[PeerOf(Author[n])][n] = "Received"
      BY <2>2 DEF DeliveryInv, ShownIsSaved
    <3>2. PeerOf(Author[n]) \in Peers
      BY AuthorAssumption, PeerOfFacts
    <3> QED
      BY <2>1, <2>2, <3>1, <3>2 DEF ReceivedBy
  <2> QED
    BY <2>3, <2>4, <2>5, <2>6 DEF DeliveryInv
<1> QED
  BY <1>1, <1>2, <1>3, <1>4, <1>5, <1>6 DEF Terminal

\* Receiving frames and acknowledgements preserves the delivery invariant.
LEMMA AppEventDelivery ==
    ASSUME TypeOK, DeliveryInv, NEW p \in Peers, AppEvent(p)
    PROVE  DeliveryInv'
<1>1. ASSUME NEW f \in frames, ReceiveDuplicate(p, f)
      PROVE  DeliveryInv'
  <2>1. f.id \in Messages /\ f.src = PeerOf(p) /\ Author[f.id] = PeerOf(p)
    BY <1>1 DEF ReceiveDuplicate, Arrives, DeliveryInv, Authorship, TypeOK, Frame
  <2>2. history[p][f.id] = "Received"
    BY <1>1, <2>1, PeerOfFacts
       DEF ReceiveDuplicate, AlreadySaved, DeliveryInv, Authorship, IsSent,
           TypeOK, Status
  <2>3. /\ Delivered(f.id)
        /\ Author[AckOf(p, f).id] = PeerOf(AckOf(p, f).src)
        /\ AckOf(p, f).id = f.id
    BY <2>1, <2>2 DEF DeliveryInv, AckedIsDelivered, AckOf
  <2> QED
    BY <1>1, <2>3
       DEF ReceiveDuplicate, DeliveryInv, Authorship, AckedIsDelivered,
           TrackedUntilAcked, ShownIsSaved, Delivered, IsSent, db, ghost
<1>2. ASSUME NEW f \in frames, ReceiveNew(p, f)
      PROVE  DeliveryInv'
  <2>1. f.id \in Messages /\ Author[f.id] = PeerOf(p)
    BY <1>2 DEF ReceiveNew, Arrives, DeliveryInv, Authorship, TypeOK, Frame
  <2>2. history[p] \in [Messages -> Status] /\ history[p][f.id] = "none"
    BY <1>2, <2>1 DEF ReceiveNew, AlreadySaved, TypeOK
  <2>3. \A q \in Peers, m \in Messages :
           IF q = p /\ m = f.id THEN history'[q][m] = "Received"
                                ELSE history'[q][m] = history[q][m]
    <3>1. /\ history'[p] = Inserted(history[p], {f.id}, "Received")
          /\ \A q \in Peers \ {p} : history'[q] = history[q]
      BY <1>2 DEF ReceiveNew, TypeOK
    <3>2. \A m \in Messages :
             IF m = f.id THEN history'[p][m] = "Received"
                         ELSE history'[p][m] = history[p][m]
      BY <2>2, <3>1, InsertedFacts
    <3> QED
      BY <3>1, <3>2
  <2>4. /\ shown'[f.id] = shown[f.id] + 1
        /\ \A m \in Messages \ {f.id} : shown'[m] = shown[m]
        /\ shown[f.id] \in Nat
    BY <1>2, <2>1 DEF ReceiveNew, TypeOK
  <2>5. \A m \in Messages : Delivered(m) => Delivered(m)'
    BY <2>4 DEF Delivered
  <2>6. Delivered(f.id)'
    BY <2>4 DEF Delivered
  <2>7. /\ frames' \subseteq frames
        /\ acks' = acks \cup {AckOf(p, f)}
        /\ AckOf(p, f).id = f.id /\ AckOf(p, f).src = p
        /\ UNCHANGED <<pending, orphaned, wiped>>
    BY <1>2 DEF ReceiveNew, AckOf
  <2>8. Authorship'
    BY <2>1, <2>3, <2>7, PeerOfFacts DEF DeliveryInv, Authorship, IsSent
  <2>9. AckedIsDelivered'
    <3>1. \A a \in acks' : Delivered(a.id)'
      <4> TAKE a \in acks'
      <4>1. CASE a \in acks
        BY <4>1, <2>5 DEF DeliveryInv, AckedIsDelivered, TypeOK, Ack
      <4>2. CASE a = AckOf(p, f)
        BY <4>2, <2>6, <2>7
      <4> QED
        BY <4>1, <4>2, <2>7
    <3>2. \A q \in Peers, m \in Messages :
             history'[q][m] = "Received" => Delivered(m)'
      BY <2>3, <2>5, <2>6 DEF DeliveryInv, AckedIsDelivered
    <3> QED
      BY <3>1, <3>2 DEF AckedIsDelivered
  <2>10. TrackedUntilAcked'
    BY <2>3, <2>5, <2>6, <2>7 DEF DeliveryInv, TrackedUntilAcked, IsSent
  <2>11. ShownIsSaved'
    <3> SUFFICES ASSUME NEW n \in Messages \ wiped, Delivered(n)'
                 PROVE  shown'[n] = 1 /\ history'[PeerOf(Author[n])][n] = "Received"
      BY <2>7 DEF ShownIsSaved
    <3>1. CASE n = f.id
      <4>1. PeerOf(Author[n]) = p
        BY <3>1, <2>1, PeerOfFacts
      <4>2. ~Delivered(n)
        BY <3>1, <4>1, <2>2 DEF DeliveryInv, ShownIsSaved
      <4>3. shown'[n] = 1
        BY <3>1, <4>2, <2>4 DEF Delivered
      <4> QED
        BY <3>1, <4>1, <4>3, <2>3
    <3>2. CASE n # f.id
      <4>1. PeerOf(Author[n]) \in Peers
        BY AuthorAssumption, PeerOfFacts
      <4>2. shown[n] = 1 /\ history[PeerOf(Author[n])][n] = "Received"
        BY <3>2, <2>4 DEF DeliveryInv, ShownIsSaved, Delivered
      <4> QED
        BY <3>2, <4>1, <4>2, <2>3, <2>4
    <3> QED
      BY <3>1, <3>2
  <2> QED
    BY <2>8, <2>9, <2>10, <2>11 DEF DeliveryInv
<1>3. ASSUME NEW f \in frames, ReceiveFails(p, f)
      PROVE  DeliveryInv'
  BY <1>3, DeliveryFrame DEF ReceiveFails, Stopped, Disconnected, db, ghost
<1>4. ASSUME NEW a \in acks, ReceiveAck(p, a) \/ ReceiveAckCrash(p, a)
      PROVE  DeliveryInv'
  <2>1. a.id \in Messages /\ Author[a.id] = p /\ Delivered(a.id)
    BY <1>4, PeerOfFacts
       DEF ReceiveAck, ReceiveAckCrash, Arrives, DeliveryInv, Authorship,
           AckedIsDelivered, TypeOK, Ack
  <2>2. \A q \in Peers, m \in Messages :
           \/ history'[q][m] = history[q][m]
           \/ q = p /\ m = a.id /\ history[q][m] # "none" /\ history'[q][m] = "Sent"
    BY <1>4, <2>1 DEF ReceiveAck, ReceiveAckCrash, AckedStatus, TypeOK
  <2>3. history[p][a.id] # "Received"
    BY <2>1 DEF DeliveryInv, Authorship
  <2>4. /\ \A q \in Peers : pending'[q] \subseteq pending[q]
        /\ \A q \in Peers : \A m \in pending[q] \ pending'[q] : m = a.id
        /\ acks' \subseteq acks /\ frames' \subseteq frames
        /\ UNCHANGED <<shown, orphaned, wiped>>
    <3>1. pending' = [pending EXCEPT ![p] = @ \ {a.id}]
      BY <1>4 DEF ReceiveAck, ReceiveAckCrash, Acked
    <3>2. /\ acks' \subseteq acks /\ frames' \subseteq frames
          /\ UNCHANGED <<shown, orphaned, wiped>>
      BY <1>4 DEF ReceiveAck, ReceiveAckCrash, Stopped, Disconnected, ghost
    <3> QED
      BY <3>1, <3>2 DEF TypeOK
  <2>5. Authorship'
    BY <2>1, <2>2, <2>4 DEF DeliveryInv, Authorship, IsSent
  <2>6. AckedIsDelivered'
    BY <2>2, <2>4 DEF DeliveryInv, AckedIsDelivered, Delivered
  <2>7. TrackedUntilAcked'
    BY <2>1, <2>2, <2>4 DEF DeliveryInv, TrackedUntilAcked, IsSent, Delivered
  <2>8. ShownIsSaved'
    <3> SUFFICES ASSUME NEW n \in Messages \ wiped, Delivered(n)
                 PROVE  shown[n] = 1 /\ history'[PeerOf(Author[n])][n] = "Received"
      BY <2>4 DEF ShownIsSaved, Delivered
    <3>1. shown[n] = 1 /\ history[PeerOf(Author[n])][n] = "Received"
      BY DEF DeliveryInv, ShownIsSaved
    <3>2. PeerOf(Author[n]) \in Peers
      BY AuthorAssumption, PeerOfFacts
    <3> QED
      BY <2>2, <2>3, <3>1, <3>2
  <2> QED
    BY <2>5, <2>6, <2>7, <2>8 DEF DeliveryInv
<1> QED
  BY <1>1, <1>2, <1>3, <1>4 DEF AppEvent

\* Connection events preserve the delivery invariant.
LEMMA ConnectionEventDelivery ==
    ASSUME TypeOK, DeliveryInv, NEW p \in Peers, ConnectionEvent(p)
    PROVE  DeliveryInv'
<1>1. ASSUME NEW k \in conns[p], ConnectionClosed(p, k)
      PROVE  DeliveryInv'
  BY <1>1, DeliveryFrame DEF ConnectionClosed, db, ghost
<1>2. CASE Reconnect(p)
  BY <1>2, DeliveryFrame DEF Reconnect, db, ghost
<1>3. ASSUME NEW k \in alive, ConnectionEstablished(p, k)
      PROVE  DeliveryInv'
  <2>1. CASE online[p]
    BY <1>3, <2>1, DeliveryFrame DEF ConnectionEstablished, ghost
  <2>2. CASE ~online[p]
    <3>1. PICK f : frames' = frames \cup FlushFrames(p, f, k)
      BY <1>3, <2>2 DEF ConnectionEstablished
    <3>2. \A g \in frames' \ frames : g.src = p /\ g.id \in pending[p]
      BY <3>1 DEF FlushFrames
    <3> QED
      BY <1>3, <2>2, <3>2, DeliveryFlush
         DEF ConnectionEstablished, FlushHistory, ghost
  <2> QED
    BY <2>1, <2>2
<1>4. ASSUME NEW S \in SUBSET pending[p], FlushCrash(p, S)
      PROVE  DeliveryInv'
  BY <1>4, DeliveryFlush DEF FlushCrash, Stopped, Disconnected, ghost
<1> QED
  BY <1>1, <1>2, <1>3, <1>4 DEF ConnectionEvent

\* The network only loses what is in flight.
LEMMA NetworkDelivery ==
    ASSUME DeliveryInv, Network
    PROVE  DeliveryInv'
<1>1. /\ frames' \subseteq frames /\ acks' \subseteq acks
      /\ UNCHANGED <<pending, history, shown, orphaned, wiped>>
  BY DEF Network, DropWhileJoining, RequestFails, Break, HolePunch, db, ghost
<1> QED
  BY <1>1, DeliveryFrame

\* Every step preserves the delivery invariant.
LEMMA DeliveryStep ==
    ASSUME TypeOK, DeliveryInv, [Next]_vars
    PROVE  DeliveryInv'
<1>1. CASE UNCHANGED vars
  BY <1>1, DeliveryFrame DEF vars, db, ghost
<1>2. CASE Next
  BY <1>2, PairingDelivery, TerminalDelivery, AppEventDelivery,
     ConnectionEventDelivery, NetworkDelivery DEF Next
<1> QED
  BY <1>1, <1>2

\* The delivery invariant holds in every reachable state.
THEOREM DeliveryCorrect == Spec => []DeliveryInv
<1>1. Init => DeliveryInv
  BY DEF Init, DeliveryInv, Authorship, AckedIsDelivered, TrackedUntilAcked,
         ShownIsSaved, Delivered, IsSent
<1>2. TypeOK /\ DeliveryInv /\ [Next]_vars => DeliveryInv'
  BY DeliveryStep
<1> QED
  BY <1>1, <1>2, TypeCorrect, PTL DEF Spec

\* A message the sender's history shows as sent or queued is pending or stored
\* by the other peer, unless a crash split the two writes of its line: removing
\* a pending row on an acknowledgement never loses a message, whatever is lost,
\* retried, duplicated, cleared or deleted.
THEOREM NothingTrackedIsLost == Spec => []TrackedUntilAcked
<1>1. DeliveryInv => TrackedUntilAcked
  BY DEF DeliveryInv
<1> QED
  BY <1>1, DeliveryCorrect, PTL

\* However often a message is retried, re-encrypted or sent again after a
\* restart, its reader stores and prints it once.
THEOREM NothingIsShownTwice == Spec => []ShownOnce
<1>1. TypeOK /\ DeliveryInv => ShownOnce
  BY DEF DeliveryInv, ShownIsSaved, ShownOnce, Delivered, TypeOK
<1> QED
  BY <1>1, TypeCorrect, DeliveryCorrect, PTL

-----------------------------------------------------------------------------
(* The session: fresh numbers, and no honest frame taken for a replay        *)

\* The starting chains account for every number below recv.
LEMMA StartSound ==
    ChainSound(NewChain) /\ ChainSound(AliceStart) /\ ChainSound(BobStart)
<1>1. ChainSound(NewChain)
  BY DEF ChainSound, NewChain
<1>2. ChainSound(AliceStart)
  BY DEF ChainSound, NewChain, AliceStart
<1>3. BobStart.recv = 1 /\ BobStart.consumed = {0} /\ BobStart.skipped = {}
  BY DEF NewChain, BobStart
<1>4. 0 .. 1 - 1 = {0}
  OBVIOUS
<1>5. ChainSound(BobStart)
  BY <1>3, <1>4 DEF ChainSound
<1> QED
  BY <1>1, <1>2, <1>5

\* The keys after opening number n are those before it, less n and more the
\* numbers stepped over.
LEMMA OpenedFacts ==
    ASSUME NEW c \in Chain, ChainSound(c), NEW n \in Nat, Outcome(c, n) = "Key"
    PROVE  /\ ChainSound(Opened(c, n))
           /\ Opened(c, n).send = c.send
           /\ Opened(c, n).recv = c.recv \/ Opened(c, n).recv = n + 1
           /\ \A x \in Nat \ {n} :
                 x \notin c.consumed /\ (x < c.recv => x \in c.skipped)
                     => /\ x \notin Opened(c, n).consumed
                        /\ x < Opened(c, n).recv => x \in Opened(c, n).skipped
<1>1. CASE n \in c.skipped
  <2>1. /\ Opened(c, n).send = c.send
        /\ Opened(c, n).recv = c.recv
        /\ Opened(c, n).skipped = c.skipped \ {n}
        /\ Opened(c, n).consumed = c.consumed \cup {n}
    BY <1>1 DEF Opened, Selected, Outcome, Chain
  <2>2. n < c.recv
    BY <1>1 DEF ChainSound, Chain
  <2> QED
    BY <1>1, <2>1, <2>2 DEF ChainSound, Chain
<1>2. CASE n \notin c.skipped
  <2>1. Selected(c, n) = [c EXCEPT !.recv = n + 1,
                                   !.skipped = @ \cup (c.recv .. n - 1)]
    BY <1>2 DEF Selected
  <2>2. /\ Opened(c, n).send = c.send
        /\ Opened(c, n).recv = n + 1
        /\ Opened(c, n).skipped = c.skipped \cup (c.recv .. n - 1)
        /\ Opened(c, n).consumed = c.consumed \cup {n}
    BY <2>1 DEF Opened, Chain
  <2>3. c.recv <= n /\ n \notin c.consumed
    BY <1>2 DEF Outcome, Chain
  <2> QED
    BY <1>2, <2>2, <2>3 DEF ChainSound, Chain
<1> QED
  BY <1>1, <1>2

\* A step that only loses frames, and leaves the sessions alone.
LEMMA RatchetFrame ==
    ASSUME RatchetInv, frames' \subseteq frames, UNCHANGED chain,
           Paired' => Paired, alive' # {} => Paired'
    PROVE  RatchetInv'
<1>1. \A f \in frames' : FrameOpens(f)'
  BY DEF RatchetInv, FrameOpens
<1>2. SessionsAgree'
  BY DEF RatchetInv, SessionsAgree
<1> QED
  BY <1>1, <1>2 DEF RatchetInv, DistinctNumbers

\* A peer that stops takes its session and everything in flight with it.
LEMMA RatchetStopped ==
    ASSUME TypeOK, RatchetInv, NEW p \in Peers, Stopped(p)
    PROVE  RatchetInv'
<1>1. \A q \in Peers : ChainSound(chain'[q])
  BY StartSound DEF RatchetInv, Stopped, TypeOK
<1>2. ~Paired' /\ alive' = {} /\ frames' = {}
  BY DEF Paired, Stopped, Disconnected, TypeOK
<1> QED
  BY <1>1, <1>2 DEF RatchetInv, SessionsAgree, DistinctNumbers

\* A peer sends frames with distinct numbers from its sending counter on.
LEMMA RatchetSend ==
    ASSUME TypeOK, RatchetInv, NEW p \in Peers, NEW N \in Nat,
           Paired' => Paired, alive' # {} => Paired',
           chain' = [chain EXCEPT ![p] = [chain[p] EXCEPT !.send = chain[p].send + N]],
           \A g \in frames' \ frames :
               /\ g.src = p /\ g.num \in Nat
               /\ chain[p].send <= g.num /\ g.num < chain[p].send + N,
           \A g, h \in frames' \ frames : g.num = h.num => g = h,
           frames' \ frames # {} => Paired
    PROVE  RatchetInv'
<1>q. PeerOf(p) \in Peers /\ PeerOf(p) # p /\ PeerOf(PeerOf(p)) = p
  BY PeerOfFacts
<1>0. \A q \in Peers : /\ chain[q] \in Chain /\ chain[q].send \in Nat
                       /\ chain[q].recv \in Nat
  BY DEF TypeOK, Chain
<1>1. /\ \A q \in Peers \ {p} : chain'[q] = chain[q]
      /\ \A q \in Peers : /\ chain'[q].recv = chain[q].recv
                          /\ chain'[q].skipped = chain[q].skipped
                          /\ chain'[q].consumed = chain[q].consumed
      /\ chain'[p].send = chain[p].send + N
  <2>1. /\ \A q \in Peers \ {p} : chain'[q] = chain[q]
        /\ chain'[p] = [chain[p] EXCEPT !.send = chain[p].send + N]
    BY DEF TypeOK
  <2>2. /\ chain'[p].recv = chain[p].recv
        /\ chain'[p].skipped = chain[p].skipped
        /\ chain'[p].consumed = chain[p].consumed
        /\ chain'[p].send = chain[p].send + N
    BY <1>0, <2>1 DEF Chain
  <2> QED
    BY <2>1, <2>2
<1>2. \A q \in Peers : ChainSound(chain'[q])
  BY <1>1 DEF RatchetInv, ChainSound
<1>3. \A q \in Peers : chain[q].send <= chain'[q].send
  BY <1>0, <1>1
<1>4. SessionsAgree'
  <2>1. ASSUME Paired', NEW q \in Peers
        PROVE  chain'[q].recv <= chain'[PeerOf(q)].send
    <3>1. chain[q].recv <= chain[PeerOf(q)].send /\ PeerOf(q) \in Peers
      BY <2>1, PeerOfFacts DEF RatchetInv, SessionsAgree
    <3>2. chain'[PeerOf(q)].send \in Nat
      BY <1>0, <1>1, <3>1
    <3> QED
      BY <1>0, <1>1, <1>3, <3>1, <3>2
  <2> QED
    BY <2>1 DEF SessionsAgree
<1>5. ASSUME NEW f \in frames'
      PROVE  FrameOpens(f)'
  <2>1. CASE f \in frames
    <3>1. f.src \in Peers /\ f.num \in Nat /\ PeerOf(f.src) \in Peers
      BY <2>1, PeerOfFacts DEF TypeOK, Frame
    <3>2. FrameOpens(f)
      BY <2>1 DEF RatchetInv
    <3>3. chain[f.src].send <= chain'[f.src].send /\ chain'[f.src].send \in Nat
      BY <1>0, <1>1, <1>3, <3>1
    <3> QED
      BY <1>0, <1>1, <3>1, <3>2, <3>3 DEF FrameOpens
  <2>2. CASE f \notin frames
    <3>1. chain[PeerOf(p)].recv <= chain[p].send
      BY <1>q, <2>2 DEF RatchetInv, SessionsAgree
    <3>2. f.src = p /\ f.num \in Nat /\ chain[PeerOf(p)].recv <= f.num
      BY <1>0, <1>q, <2>2, <3>1
    <3>3. f.num \notin chain[PeerOf(p)].consumed
      <4>1. chain[PeerOf(p)].consumed \subseteq 0 .. chain[PeerOf(p)].recv - 1
        BY <1>q DEF RatchetInv, ChainSound
      <4> QED
        BY <1>0, <1>q, <3>2, <4>1
    <3> QED
      BY <1>0, <1>1, <1>q, <2>2, <3>2, <3>3 DEF FrameOpens
  <2> QED
    BY <2>1, <2>2
<1>6. DistinctNumbers'
  <2> SUFFICES ASSUME NEW f \in frames', NEW g \in frames',
                      f.src = g.src, f.num = g.num
               PROVE  f = g
    BY DEF DistinctNumbers
  <2>0. ASSUME NEW h \in frames, h.src = p
        PROVE  h.num < chain[p].send /\ h.num \in Nat
    BY <2>0 DEF RatchetInv, FrameOpens, TypeOK, Frame
  <2>1. CASE f \in frames /\ g \in frames
    BY <2>1 DEF RatchetInv, DistinctNumbers
  <2>2. CASE f \notin frames /\ g \notin frames
    BY <2>2
  <2>3. CASE f \in frames /\ g \notin frames
    BY <2>3, <2>0, <1>0
  <2>4. CASE f \notin frames /\ g \in frames
    BY <2>4, <2>0, <1>0
  <2> QED
    BY <2>1, <2>2, <2>3, <2>4
<1> QED
  BY <1>2, <1>4, <1>5, <1>6 DEF RatchetInv

\* send_pending sends frames the way RatchetSend asks for.
LEMMA RatchetFlush ==
    ASSUME TypeOK, RatchetInv, NEW p \in Peers, NEW k,
           NEW f \in Numberings(p, chain[p]),
           Paired, Paired' => Paired, alive' # {} => Paired',
           chain' = [chain EXCEPT ![p] = FlushChain(p, @)],
           frames' = frames \cup FlushFrames(p, f, k)
    PROVE  RatchetInv'
<1>1. chain[p] \in Chain /\ Cardinality(pending[p]) \in Nat
  BY PendingCardinality DEF TypeOK
<1>2. chain' = [chain EXCEPT ![p] =
                 [chain[p] EXCEPT !.send = chain[p].send + Cardinality(pending[p])]]
  BY DEF FlushChain
<1>3. \A g \in frames' \ frames :
         \E m \in pending[p] :
            g = [src |-> p, id |-> m, num |-> f[m], conn |-> k]
  BY DEF FlushFrames
<1>4. \A g \in frames' \ frames :
         /\ g.src = p /\ g.num \in Nat
         /\ chain[p].send <= g.num
         /\ g.num < chain[p].send + Cardinality(pending[p])
  <2> SUFFICES ASSUME NEW m \in pending[p]
               PROVE  /\ f[m] \in Nat
                      /\ chain[p].send <= f[m]
                      /\ f[m] < chain[p].send + Cardinality(pending[p])
    BY <1>3
  <2>1. FlushChain(p, chain[p]).send = chain[p].send + Cardinality(pending[p])
    BY <1>1 DEF FlushChain, Chain
  <2> QED
    BY <1>1, <2>1, NumberingFacts
<1>5. \A g, h \in frames' \ frames : g.num = h.num => g = h
  BY <1>3 DEF Numberings
<1> QED
  BY <1>1, <1>2, <1>4, <1>5, RatchetSend

\* Pairing starts one session with fresh counters at both ends.
LEMMA PairingRatchet ==
    ASSUME TypeOK, RatchetInv, NEW p \in Peers, Pairing(p)
    PROVE  RatchetInv'
<1>p. Alice \in Peers /\ Bob \in Peers /\ Peers = {Alice, Bob}
      /\ PeerOf(Alice) = Bob /\ PeerOf(Bob) = Alice /\ Alice # Bob
  BY PeersAssumption DEF Peers, PeerOf
<1>1. CASE BobPairs
  <2>1. PICK f \in Numberings(Bob, BobStart) :
            frames' = FlushFrames(Bob, f, used + 1)
    BY <1>1 DEF BobPairs
  <2>2. chain'[Alice] = AliceStart /\ chain'[Bob] = FlushChain(Bob, BobStart)
    BY <1>1, <1>p DEF BobPairs, TypeOK
  <2>3. /\ AliceStart.send = 1 /\ AliceStart.recv = 0
        /\ AliceStart.skipped = {} /\ AliceStart.consumed = {}
        /\ BobStart.send = 0 /\ BobStart.recv = 1
    BY DEF AliceStart, BobStart, NewChain
  <2>4. /\ FlushChain(Bob, BobStart).send \in Nat
        /\ FlushChain(Bob, BobStart).recv = 1
        /\ FlushChain(Bob, BobStart).skipped = BobStart.skipped
        /\ FlushChain(Bob, BobStart).consumed = BobStart.consumed
    <3>1. FlushChain(Bob, BobStart) \in Chain
      BY <1>p, FlushChainType, StartTypes
    <3> QED
      BY <2>3, <3>1, StartTypes DEF FlushChain, Chain
  <2>5. \A q \in Peers : ChainSound(chain'[q])
    BY <1>p, <2>2, <2>3, <2>4, StartSound DEF ChainSound
  <2>6. Paired'
    BY <1>1, <1>p DEF BobPairs, Paired, TypeOK
  <2>7. SessionsAgree'
    BY <1>p, <2>2, <2>3, <2>4, <2>6 DEF SessionsAgree
  <2>8. \A g \in frames' : \E m \in pending[Bob] :
           g = [src |-> Bob, id |-> m, num |-> f[m], conn |-> used + 1]
    BY <2>1 DEF FlushFrames
  <2>9. \A g \in frames' : FrameOpens(g)'
    <3> SUFFICES ASSUME NEW m \in pending[Bob]
                 PROVE  f[m] \in Nat /\ f[m] < FlushChain(Bob, BobStart).send
      BY <1>p, <2>2, <2>3, <2>8 DEF FrameOpens
    <3> QED
      BY <1>p, NumberingFacts, StartTypes
  <2>10. DistinctNumbers'
    BY <2>8 DEF DistinctNumbers, Numberings
  <2> QED
    BY <2>5, <2>7, <2>9, <2>10 DEF RatchetInv
<1>2. CASE AliceJoins
  <2>1. PICK k \in conns[Alice] \cap alive, f \in Numberings(Alice, chain[Alice]) :
            frames' = frames \cup FlushFrames(Alice, f, k)
    BY <1>2 DEF AliceJoins
  <2>2. Paired /\ Paired'
    BY <1>2, <2>1, <1>p DEF AliceJoins, RatchetInv, SessionsAgree, Paired, TypeOK
  <2>3. chain' = [chain EXCEPT ![Alice] = FlushChain(Alice, @)]
    BY <1>2 DEF AliceJoins
  <2> QED
    BY <1>p, <2>1, <2>2, <2>3, RatchetFlush
<1>3. CASE AliceJoinFails
  BY <1>3, <1>p, RatchetStopped DEF AliceJoinFails
<1> QED
  BY <1>1, <1>2, <1>3 DEF Pairing

\* The terminal: a typed line takes the next number.
LEMMA TerminalRatchet ==
    ASSUME TypeOK, RatchetInv, NEW p \in Peers, Terminal(p)
    PROVE  RatchetInv'
<1>1. ASSUME NEW m \in Messages, TypeOnline(p, m)
      PROVE  RatchetInv'
  <2>1. PICK k \in conns[p] :
            frames' = IF k \in alive
                      THEN frames \cup {[src |-> p, id |-> m,
                                         num |-> chain[p].send, conn |-> k]}
                      ELSE frames
    BY <1>1 DEF TypeOnline
  <2>2. chain' = [chain EXCEPT ![p] = [chain[p] EXCEPT !.send = chain[p].send + 1]]
    BY <1>1 DEF TypeOnline, Encrypted
  <2>3. UNCHANGED <<mode, alive>>
    BY <1>1 DEF TypeOnline, link
  <2>4. /\ Paired' => Paired
        /\ alive' # {} => Paired'
        /\ frames' \ frames # {} => Paired
    BY <2>1, <2>3 DEF Paired, RatchetInv, SessionsAgree
  <2>5. chain[p].send \in Nat
    BY DEF TypeOK, Chain
  <2>6. /\ \A g \in frames' \ frames : g.src = p /\ g.num = chain[p].send
        /\ \A g, h \in frames' \ frames : g.num = h.num => g = h
    BY <2>1
  <2>7. \A g \in frames' \ frames :
           /\ g.src = p /\ g.num \in Nat
           /\ chain[p].send <= g.num /\ g.num < chain[p].send + 1
    BY <2>5, <2>6
  <2>8. 1 \in Nat
    OBVIOUS
  <2> QED
    BY <2>2, <2>4, <2>6, <2>7, <2>8, RatchetSend
<1>2. ASSUME NEW m \in Messages, TypeOnlineCrash(p, m) \/ QueueOfflineCrash(p, m)
      PROVE  RatchetInv'
  BY <1>2, RatchetStopped DEF TypeOnlineCrash, QueueOfflineCrash
<1>3. ASSUME NEW m \in Messages, QueueOffline(p, m)
      PROVE  RatchetInv'
  BY <1>3, RatchetFrame
     DEF QueueOffline, proc, link, Paired, RatchetInv, SessionsAgree
<1>4. CASE Leave(p)
  BY <1>4, RatchetStopped DEF Leave
<1>5. CASE ClearHistory(p) \/ DeleteConversation(p)
  BY <1>5, RatchetFrame
     DEF ClearHistory, DeleteConversation, proc, link, Paired, RatchetInv,
         SessionsAgree
<1> QED
  BY <1>1, <1>2, <1>3, <1>4, <1>5 DEF Terminal

\* Receiving: a frame that opens leaves the other frames openable.
LEMMA AppEventRatchet ==
    ASSUME TypeOK, RatchetInv, NEW p \in Peers, AppEvent(p)
    PROVE  RatchetInv'
<1>1. ASSUME NEW f \in frames, ReceiveDuplicate(p, f)
      PROVE  RatchetInv'
  BY <1>1, RatchetFrame
     DEF ReceiveDuplicate, proc, link, Paired, RatchetInv, SessionsAgree
<1>2. ASSUME NEW f \in frames, ReceiveNew(p, f)
      PROVE  RatchetInv'
  <2>q. PeerOf(p) \in Peers /\ PeerOf(p) # p /\ PeerOf(PeerOf(p)) = p
    BY PeerOfFacts
  <2>0. \A q \in Peers : /\ chain[q] \in Chain /\ chain[q].send \in Nat
                         /\ chain[q].recv \in Nat
    BY DEF TypeOK, Chain
  <2>1. /\ f.src = PeerOf(p) /\ f.num \in Nat
        /\ Outcome(chain[p], f.num) = "Key"
        /\ ChainSound(chain[p])
        /\ frames' = frames \ {f}
        /\ chain'[p] = Opened(chain[p], f.num)
        /\ \A q \in Peers \ {p} : chain'[q] = chain[q]
        /\ UNCHANGED <<mode, alive>>
    BY <1>2 DEF ReceiveNew, Arrives, TypeOK, Frame, RatchetInv, link
  <2>2. /\ ChainSound(chain'[p])
        /\ chain'[p].send = chain[p].send
        /\ chain'[p].recv = chain[p].recv \/ chain'[p].recv = f.num + 1
    BY <2>0, <2>1, OpenedFacts
  <2>3. f.num < chain[PeerOf(p)].send
    BY <2>1 DEF RatchetInv, FrameOpens
  <2>4. SessionsAgree'
    <3>1. ASSUME Paired', NEW q \in Peers
          PROVE  chain'[q].recv <= chain'[PeerOf(q)].send
      <4>1. chain[q].recv <= chain[PeerOf(q)].send /\ PeerOf(q) \in Peers
        BY <2>1, <3>1, PeerOfFacts DEF RatchetInv, SessionsAgree, Paired
      <4>2. chain'[PeerOf(q)].send = chain[PeerOf(q)].send
        BY <2>1, <2>2, <4>1
      <4>3. CASE q = p
        BY <2>0, <2>1, <2>2, <2>3, <2>q, <4>1, <4>2, <4>3
      <4>4. CASE q # p
        BY <2>1, <4>1, <4>2, <4>4
      <4> QED
        BY <4>3, <4>4
    <3> QED
      BY <2>1, <3>1 DEF SessionsAgree, RatchetInv, Paired
  <2>5. ASSUME NEW g \in frames'
        PROVE  FrameOpens(g)'
    <3>1. /\ g \in frames /\ g # f /\ FrameOpens(g)
          /\ g.src \in Peers /\ g.num \in Nat /\ PeerOf(g.src) \in Peers
      BY <2>1, <2>5, PeerOfFacts DEF RatchetInv, TypeOK, Frame
    <3>2. CASE g.src = p
      BY <2>1, <2>2, <2>q, <3>1, <3>2 DEF FrameOpens
    <3>3. CASE g.src # p
      <4>1. g.src = PeerOf(p) /\ PeerOf(g.src) = p
        BY <2>q, <3>1, <3>3 DEF Peers, PeerOf
      <4>2. g.num # f.num
        BY <2>1, <3>1, <4>1 DEF RatchetInv, DistinctNumbers
      <4>3. /\ g.num \notin chain'[p].consumed
            /\ g.num < chain'[p].recv => g.num \in chain'[p].skipped
        BY <2>0, <2>1, <3>1, <4>1, <4>2, OpenedFacts DEF FrameOpens
      <4> QED
        BY <2>1, <2>q, <3>1, <4>1, <4>3 DEF FrameOpens
    <3> QED
      BY <3>2, <3>3
  <2>6. \A q \in Peers : ChainSound(chain'[q])
    BY <2>1, <2>2 DEF RatchetInv
  <2>7. DistinctNumbers'
    BY <2>1 DEF RatchetInv, DistinctNumbers
  <2> QED
    BY <2>4, <2>5, <2>6, <2>7 DEF RatchetInv
<1>3. ASSUME NEW f \in frames, ReceiveFails(p, f)
      PROVE  RatchetInv'
  BY <1>3, RatchetStopped DEF ReceiveFails
<1>4. ASSUME NEW a \in acks, ReceiveAck(p, a)
      PROVE  RatchetInv'
  BY <1>4, RatchetFrame
     DEF ReceiveAck, proc, link, Paired, RatchetInv, SessionsAgree
<1>5. ASSUME NEW a \in acks, ReceiveAckCrash(p, a)
      PROVE  RatchetInv'
  BY <1>5, RatchetStopped DEF ReceiveAckCrash
<1> QED
  BY <1>1, <1>2, <1>3, <1>4, <1>5 DEF AppEvent

\* Connection events: a reconnection joins the two ends of one session.
LEMMA ConnectionEventRatchet ==
    ASSUME TypeOK, RatchetInv, NEW p \in Peers, ConnectionEvent(p)
    PROVE  RatchetInv'
<1>1. ASSUME NEW k \in conns[p], ConnectionClosed(p, k)
      PROVE  RatchetInv'
  BY <1>1, RatchetFrame DEF ConnectionClosed, Paired, RatchetInv, SessionsAgree
<1>2. CASE Reconnect(p)
  <2>1. Paired /\ UNCHANGED <<mode, chain, frames>>
    BY <1>2 DEF Reconnect, BothInChat, Paired, proc
  <2> QED
    BY <2>1, RatchetFrame DEF Paired
<1>3. ASSUME NEW k \in alive, ConnectionEstablished(p, k)
      PROVE  RatchetInv'
  <2>1. UNCHANGED <<mode, alive>> /\ Paired /\ Paired'
    BY <1>3 DEF ConnectionEstablished, Paired, RatchetInv, SessionsAgree
  <2>2. CASE online[p]
    BY <1>3, <2>1, <2>2, RatchetFrame DEF ConnectionEstablished
  <2>3. CASE ~online[p]
    <3>1. PICK f \in Numberings(p, chain[p]) :
              frames' = frames \cup FlushFrames(p, f, k)
      BY <1>3, <2>3 DEF ConnectionEstablished
    <3>2. chain' = [chain EXCEPT ![p] = FlushChain(p, @)]
      BY <1>3, <2>3 DEF ConnectionEstablished
    <3> QED
      BY <2>1, <3>1, <3>2, RatchetFlush
  <2> QED
    BY <2>2, <2>3
<1>4. ASSUME NEW S \in SUBSET pending[p], FlushCrash(p, S)
      PROVE  RatchetInv'
  BY <1>4, RatchetStopped DEF FlushCrash
<1> QED
  BY <1>1, <1>2, <1>3, <1>4 DEF ConnectionEvent

\* The network loses frames and joins peers of one session.
LEMMA NetworkRatchet ==
    ASSUME TypeOK, RatchetInv, Network
    PROVE  RatchetInv'
<1>1. frames' \subseteq frames /\ UNCHANGED <<mode, chain>>
  BY DEF Network, DropWhileJoining, RequestFails, Break, HolePunch, proc
<1>2. alive' # {} => Paired
  BY DEF Network, DropWhileJoining, RequestFails, Break, HolePunch, link,
         BothInChat, Paired, RatchetInv, SessionsAgree
<1> QED
  BY <1>1, <1>2, RatchetFrame DEF Paired

\* Every step preserves the session invariant.
LEMMA RatchetStep ==
    ASSUME TypeOK, RatchetInv, [Next]_vars
    PROVE  RatchetInv'
<1>1. CASE UNCHANGED vars
  BY <1>1, RatchetFrame DEF vars, proc, link, Paired, RatchetInv, SessionsAgree
<1>2. CASE Next
  BY <1>2, PairingRatchet, TerminalRatchet, AppEventRatchet,
     ConnectionEventRatchet, NetworkRatchet DEF Next
<1> QED
  BY <1>1, <1>2

\* The session invariant holds in every reachable state.
THEOREM RatchetCorrect == Spec => []RatchetInv
<1>1. Init => RatchetInv
  BY StartSound
     DEF Init, RatchetInv, SessionsAgree, DistinctNumbers, Paired, Peers
<1>2. TypeOK /\ RatchetInv /\ [Next]_vars => RatchetInv'
  BY RatchetStep
<1> QED
  BY <1>1, <1>2, TypeCorrect, PTL DEF Spec

\* Two frames in flight from one peer never carry the same number and the
\* counter is ahead of them all, so no message key and nonce is used for two
\* ciphertexts of a session, over any number of retries.
THEOREM NumbersAreFresh == Spec => []FreshNumbers
<1>1. RatchetInv => FreshNumbers
  BY DEF RatchetInv, FrameOpens, FreshNumbers
<1> QED
  BY <1>1, RatchetCorrect, PTL

\* The receiving session never answers Replay to a frame in flight: frames that
\* are lost, reordered or recognised as duplicates cost skipped keys only.
THEOREM HonestFramesAreNotReplays == Spec => []NoFalseReplay
<1>1. TypeOK /\ RatchetInv => NoFalseReplay
  BY DEF TypeOK, RatchetInv, FrameOpens, NoFalseReplay, Outcome
<1> QED
  BY <1>1, TypeCorrect, RatchetCorrect, PTL

-----------------------------------------------------------------------------
(* The flag of the chat and the connections of the swarm                     *)

\* Leaving, and any kill, puts the chat of p back into the menus.
LEMMA StoppedOnline ==
    ASSUME TypeOK, OnlineIffConnected, NEW p \in Peers, Stopped(p)
    PROVE  OnlineIffConnected'
<1> SUFFICES ASSUME NEW q \in Peers, mode'[q] = "chat"
             PROVE  online'[q] <=> conns'[q] # {}
  BY DEF OnlineIffConnected
<1>1. q # p
  BY DEF Stopped, TypeOK
<1>2. mode'[q] = mode[q] /\ online'[q] = online[q] /\ conns'[q] = conns[q]
  BY <1>1 DEF Stopped, TypeOK
<1> QED
  BY <1>2, Zenon DEF OnlineIffConnected

\* What leaves mode, flag and connections alone.
LEMMA OnlineFrame ==
    ASSUME OnlineIffConnected, UNCHANGED <<mode, online, conns>>
    PROVE  OnlineIffConnected'
BY Zenon DEF OnlineIffConnected

\* Each peer enters the chat on line, over a connection it knows of.
LEMMA PairingOnline ==
    ASSUME TypeOK, OnlineIffConnected, NEW p \in Peers, Pairing(p)
    PROVE  OnlineIffConnected'
<1>0. Alice \in Peers /\ Bob \in Peers /\ Alice # Bob /\ \A q \in Peers : q = Alice \/ q = Bob
  BY PeersAssumption DEF Peers
<1>1. CASE BobPairs
  <2>1. /\ mode'[Alice] = "joining" /\ mode'[Bob] = "chat" /\ online'[Bob] = TRUE
        /\ conns'[Bob] = {used + 1}
    BY <1>0, <1>1 DEF BobPairs, TypeOK
  <2>2. mode'[Alice] # "chat" /\ conns'[Bob] # {} /\ online'[Bob]
    BY <2>1
  <2> QED
    BY <1>0, <2>2, Zenon DEF OnlineIffConnected
<1>2. CASE AliceJoins
  <2>1. /\ conns' = conns /\ conns[Alice] # {} /\ online'[Alice] = TRUE
        /\ mode'[Bob] = mode[Bob] /\ online'[Bob] = online[Bob]
    BY <1>0, <1>2 DEF AliceJoins, TypeOK, link
  <2> QED
    BY <1>0, <2>1, Zenon DEF OnlineIffConnected
<1>3. CASE AliceJoinFails
  BY <1>0, <1>3, StoppedOnline DEF AliceJoinFails
<1> QED
  BY <1>1, <1>2, <1>3 DEF Pairing

LEMMA TerminalOnline ==
    ASSUME TypeOK, OnlineIffConnected, NEW p \in Peers, Terminal(p)
    PROVE  OnlineIffConnected'
<1>1. Stopped(p) \/ UNCHANGED <<mode, online, conns>>
  BY DEF Terminal, TypeOnline, TypeOnlineCrash, QueueOffline, QueueOfflineCrash, Leave,
         ClearHistory, DeleteConversation, proc, link
<1> QED
  BY <1>1, StoppedOnline, OnlineFrame

LEMMA AppEventOnline ==
    ASSUME TypeOK, OnlineIffConnected, NEW p \in Peers, AppEvent(p)
    PROVE  OnlineIffConnected'
<1>1. Stopped(p) \/ UNCHANGED <<mode, online, conns>>
  BY DEF AppEvent, ReceiveDuplicate, ReceiveNew, ReceiveFails, ReceiveAck,
         ReceiveAckCrash, proc, link
<1> QED
  BY <1>1, StoppedOnline, OnlineFrame

\* peer_lost_all_connections decides when a closed connection was the last one.
LEMMA ConnectionEventOnline ==
    ASSUME TypeOK, OnlineIffConnected, NEW p \in Peers, ConnectionEvent(p)
    PROVE  OnlineIffConnected'
<1>1. ASSUME NEW k \in conns[p], ConnectionClosed(p, k)
      PROVE  OnlineIffConnected'
  <2>1. /\ mode' = mode /\ mode[p] = "chat" /\ conns'[p] = conns[p] \ {k}
        /\ \A q \in Peers : q # p => online'[q] = online[q] /\ conns'[q] = conns[q]
    BY <1>1 DEF ConnectionClosed, TypeOK
  <2>2. online'[p] = (online[p] /\ ~LostAll(p, k))
    BY <1>1, Zenon DEF ConnectionClosed, TypeOK
  <2>3. conns[p] # {}
    OBVIOUS
  <2>4. online[p]
    BY <2>1, <2>3 DEF OnlineIffConnected
  <2>5. online'[p] <=> conns'[p] # {}
    BY <2>1, <2>2, <2>4, Zenon DEF LostAll
  <2> QED
    BY <2>1, <2>5, Zenon DEF OnlineIffConnected
<1>2. CASE Reconnect(p)
  BY <1>2, OnlineFrame DEF Reconnect, proc
<1>3. ASSUME NEW k \in alive, ConnectionEstablished(p, k)
      PROVE  OnlineIffConnected'
  <2>1. /\ mode' = mode /\ k \in conns'[p] /\ online'[p] = TRUE
        /\ \A q \in Peers : q # p => online'[q] = online[q] /\ conns'[q] = conns[q]
    BY <1>3 DEF ConnectionEstablished, TypeOK
  <2>2. conns'[p] # {} /\ online'[p]
    BY <2>1
  <2> QED
    BY <2>1, <2>2, Zenon DEF OnlineIffConnected
<1>4. ASSUME NEW S \in SUBSET pending[p], FlushCrash(p, S)
      PROVE  OnlineIffConnected'
  BY <1>4, StoppedOnline DEF FlushCrash
<1> QED
  BY <1>1, <1>2, <1>3, <1>4 DEF ConnectionEvent

LEMMA NetworkOnline ==
    ASSUME OnlineIffConnected, Network
    PROVE  OnlineIffConnected'
BY OnlineFrame DEF Network, DropWhileJoining, RequestFails, Break, HolePunch, proc, link

\* A chat shows its peer as online exactly while it holds a connection to it,
\* however relayed and direct connections overlap and whatever closes first.
THEOREM OnlineMeansConnected == Spec => []OnlineIffConnected
<1>1. Init => OnlineIffConnected
  BY DEF Init, OnlineIffConnected
<1>2. TypeOK /\ OnlineIffConnected /\ [Next]_vars => OnlineIffConnected'
  <2> SUFFICES ASSUME TypeOK, OnlineIffConnected, [Next]_vars PROVE OnlineIffConnected'
    OBVIOUS
  <2>1. CASE UNCHANGED vars
    BY <2>1, OnlineFrame DEF vars, proc, link
  <2>2. CASE Next
    BY <2>2, PairingOnline, TerminalOnline, AppEventOnline, ConnectionEventOnline,
       NetworkOnline DEF Next
  <2> QED
    BY <2>1, <2>2
<1> QED
  BY <1>1, <1>2, TypeCorrect, PTL DEF Spec

-----------------------------------------------------------------------------
(* Only what was typed is pending or under way                               *)

\* send_pending puts pending messages on the wire and no others.
LEMMA FlushIssued ==
    ASSUME IssuedInv, NEW p \in Peers, NEW f, NEW k, NEW g \in FlushFrames(p, f, k)
    PROVE  g.id \in typed
BY DEF FlushFrames, IssuedInv

\* Whatever does not add pending rows or frames keeps the invariant.
LEMMA IssuedFrame ==
    ASSUME IssuedInv, typed \subseteq typed', frames' \subseteq frames,
           \A p \in Peers : pending'[p] \subseteq pending[p]
    PROVE  IssuedInv'
BY DEF IssuedInv

LEMMA PairingIssued ==
    ASSUME TypeOK, IssuedInv, NEW p \in Peers, Pairing(p)
    PROVE  IssuedInv'
<1>1. CASE BobPairs
  <2>1. PICK f \in Numberings(Bob, BobStart) :
                 frames' = FlushFrames(Bob, f, used + 1)
    BY <1>1 DEF BobPairs
  <2> QED
    BY <1>1, <2>1, FlushIssued DEF BobPairs, IssuedInv, Peers
<1>2. CASE AliceJoins
  <2>1. PICK k \in conns[Alice] \cap alive, f \in Numberings(Alice, chain[Alice]) :
                 frames' = frames \cup FlushFrames(Alice, f, k)
    BY <1>2 DEF AliceJoins
  <2> QED
    BY <1>2, <2>1, FlushIssued DEF AliceJoins, IssuedInv, Peers
<1>3. CASE AliceJoinFails
  BY <1>3, IssuedFrame DEF AliceJoinFails, Stopped, Disconnected, db
<1> QED
  BY <1>1, <1>2, <1>3 DEF Pairing

LEMMA TerminalIssued ==
    ASSUME TypeOK, IssuedInv, NEW p \in Peers, Terminal(p)
    PROVE  IssuedInv'
<1>1. ASSUME NEW m \in Messages, TypeOnline(p, m)
      PROVE  IssuedInv'
  <2>1. \A g \in frames' : g \in frames \/ g.id = m
    BY <1>1 DEF TypeOnline
  <2>2. \A q \in Peers : pending'[q] \subseteq pending[q] \cup {m}
    BY <1>1 DEF TypeOnline, TypeOK
  <2>3. typed' = typed \cup {m}
    BY <1>1 DEF TypeOnline
  <2> QED
    BY <2>1, <2>2, <2>3 DEF IssuedInv
<1>2. ASSUME NEW m \in Messages, TypeOnlineCrash(p, m)
      PROVE  IssuedInv'
  BY <1>2, IssuedFrame DEF TypeOnlineCrash, Stopped, Disconnected
<1>3. ASSUME NEW m \in Messages, QueueOffline(p, m) \/ QueueOfflineCrash(p, m)
      PROVE  IssuedInv'
  <2>1. \A q \in Peers : pending'[q] \subseteq pending[q] \cup {m}
    BY <1>3 DEF QueueOffline, QueueOfflineCrash, TypeOK
  <2>2. typed' = typed \cup {m} /\ frames' \subseteq frames
    BY <1>3 DEF QueueOffline, QueueOfflineCrash, Stopped, Disconnected
  <2> QED
    BY <2>1, <2>2 DEF IssuedInv
<1>4. CASE Leave(p)
  BY <1>4, IssuedFrame DEF Leave, Stopped, Disconnected, db
<1>5. CASE ClearHistory(p)
  BY <1>5, IssuedFrame DEF ClearHistory
<1>6. CASE DeleteConversation(p)
  BY <1>6, IssuedFrame DEF DeleteConversation, TypeOK
<1> QED
  BY <1>1, <1>2, <1>3, <1>4, <1>5, <1>6 DEF Terminal

LEMMA AppEventIssued ==
    ASSUME TypeOK, IssuedInv, NEW p \in Peers, AppEvent(p)
    PROVE  IssuedInv'
<1>1. ASSUME NEW f \in frames,
             ReceiveDuplicate(p, f) \/ ReceiveNew(p, f) \/ ReceiveFails(p, f)
      PROVE  IssuedInv'
  BY <1>1, IssuedFrame
     DEF ReceiveDuplicate, ReceiveNew, ReceiveFails, Stopped, Disconnected, db
<1>2. ASSUME NEW a \in acks, ReceiveAck(p, a) \/ ReceiveAckCrash(p, a)
      PROVE  IssuedInv'
  BY <1>2, IssuedFrame
     DEF ReceiveAck, ReceiveAckCrash, Stopped, Disconnected, TypeOK
<1> QED
  BY <1>1, <1>2 DEF AppEvent

LEMMA ConnectionEventIssued ==
    ASSUME TypeOK, IssuedInv, NEW p \in Peers, ConnectionEvent(p)
    PROVE  IssuedInv'
<1>1. ASSUME NEW k \in conns[p], ConnectionClosed(p, k)
      PROVE  IssuedInv'
  BY <1>1, IssuedFrame DEF ConnectionClosed, db
<1>2. CASE Reconnect(p)
  BY <1>2, IssuedFrame DEF Reconnect, db
<1>3. ASSUME NEW k \in alive, ConnectionEstablished(p, k)
      PROVE  IssuedInv'
  <2>1. CASE online[p]
    BY <1>3, <2>1, IssuedFrame DEF ConnectionEstablished
  <2>2. CASE ~online[p]
    <3>1. PICK f \in Numberings(p, chain[p]) :
                   frames' = frames \cup FlushFrames(p, f, k)
      BY <1>3, <2>2 DEF ConnectionEstablished
    <3> QED
      BY <1>3, <3>1, FlushIssued DEF ConnectionEstablished, IssuedInv
  <2> QED
    BY <2>1, <2>2
<1>4. ASSUME NEW S \in SUBSET pending[p], FlushCrash(p, S)
      PROVE  IssuedInv'
  BY <1>4, IssuedFrame DEF FlushCrash, Stopped, Disconnected
<1> QED
  BY <1>1, <1>2, <1>3, <1>4 DEF ConnectionEvent

LEMMA NetworkIssued ==
    ASSUME IssuedInv, Network
    PROVE  IssuedInv'
BY IssuedFrame DEF Network, DropWhileJoining, RequestFails, Break, HolePunch, db

\* A step of the chat keeps the invariant.
LEMMA IssuedStep ==
    ASSUME TypeOK, IssuedInv, [Next]_vars
    PROVE  IssuedInv'
<1>1. CASE UNCHANGED vars
  BY <1>1, IssuedFrame DEF vars, db
<1>2. CASE Next
  BY <1>2, PairingIssued, TerminalIssued, AppEventIssued,
     ConnectionEventIssued, NetworkIssued DEF Next
<1> QED
  BY <1>1, <1>2

\* Nothing is pending or under way that nobody typed.
THEOREM OnlyTypedIsSent == Spec => []IssuedInv
<1>1. Init => IssuedInv
  BY DEF Init, IssuedInv
<1>2. TypeOK /\ IssuedInv /\ [Next]_vars => IssuedInv'
  BY IssuedStep
<1> QED
  BY <1>1, <1>2, TypeCorrect, PTL DEF Spec

-----------------------------------------------------------------------------
(* Every step of the chat is a step of the service                           *)

\* What the service sees as tracked.
Tracked == UNION {pending[p] : p \in Peers}

\* A message is tracked when its author has it pending.
LEMMA TrackedFacts ==
    /\ Tracked = pending[Alice] \cup pending[Bob]
    /\ Tracked' = pending'[Alice] \cup pending'[Bob]
BY DEF Tracked, Peers

\* A step that leaves typed, pending, shown, wiped and wipes alone is invisible.
LEMMA InvisibleStep ==
    ASSUME UNCHANGED <<typed, pending, shown, wiped, wipes>>
    PROVE  [Service!DNext]_(Service!dvars)
BY DEF Service!dvars

\* A typed line that becomes pending is issued.
LEMMA IssueStep ==
    ASSUME TypeOK, NEW p \in Peers, NEW m \in Messages, m \notin typed,
           typed' = typed \cup {m},
           pending' = [pending EXCEPT ![p] = @ \cup {m}],
           UNCHANGED <<shown, wiped, wipes>>
    PROVE  Service!DNext
<1>1. Tracked' = Tracked \cup {m}
  BY TrackedFacts DEF Peers, TypeOK
<1>2. Service!Issue(m)
  BY <1>1 DEF Service!Issue, Tracked
<1> QED
  BY <1>2 DEF Service!DNext

\* The removal of an acknowledged row settles the message or is invisible.
LEMMA SettleStep ==
    ASSUME TypeOK, DeliveryInv, NEW p \in Peers, NEW a \in acks, Arrives(p, a),
           pending' = [pending EXCEPT ![p] = @ \ Acked(p, a)],
           UNCHANGED <<typed, shown, wiped, wipes>>
    PROVE  [Service!DNext]_(Service!dvars)
<1>1. a.id \in Messages /\ a.src \in Peers
  BY DEF TypeOK, Ack
<1>2. Author[a.id] = p
  BY PeerOfFacts DEF DeliveryInv, Authorship, Arrives
<1>3. a.id \notin pending[PeerOf(p)]
  BY <1>2, PeerOfFacts DEF DeliveryInv, Authorship
<1>4. Tracked' = Tracked \ {a.id}
  BY <1>3, TrackedFacts, PeersAssumption DEF Peers, PeerOf, TypeOK, Acked
<1>5. CASE a.id \in Tracked
  <2>1. shown[a.id] > 0
    BY DEF DeliveryInv, AckedIsDelivered, Delivered
  <2>2. Service!Settle(a.id)
    BY <1>4, <1>5, <2>1 DEF Service!Settle, Service!Arrived, Tracked
  <2> QED
    BY <1>1, <2>2 DEF Service!DNext
<1>6. CASE a.id \notin Tracked
  BY <1>4, <1>6 DEF Service!dvars, Tracked
<1> QED
  BY <1>5, <1>6

\* Storing a message that is not yet saved is its arrival, the first one unless
\* its reader has erased it.
LEMMA ArriveStep ==
    ASSUME TypeOK, DeliveryInv, IssuedInv, NEW p \in Peers, NEW f \in frames,
           Arrives(p, f), ~AlreadySaved(p, f.id),
           shown' = [shown EXCEPT ![f.id] = @ + 1],
           UNCHANGED <<typed, pending, wiped, wipes>>
    PROVE  Service!DNext
<1>1. f.id \in Messages /\ f.id \in typed
  BY DEF TypeOK, Frame, IssuedInv
<1>2. PeerOf(Author[f.id]) = p
  BY PeerOfFacts DEF DeliveryInv, Authorship, Arrives
<1>3. f.id \notin wiped => ~Delivered(f.id)
  BY <1>1, <1>2 DEF DeliveryInv, ShownIsSaved, AlreadySaved
<1>4. Service!Arrive(f.id)
  BY <1>1, <1>3 DEF Service!Arrive, Service!Arrived, Delivered
<1> QED
  BY <1>1, <1>4 DEF Service!DNext

\* /clear and /delete erase what their user has read, and /delete also what that
\* user still had to send.
LEMMA EraseStep ==
    ASSUME TypeOK, DeliveryInv, NEW p \in Peers,
           \/ pending' = pending
           \/ pending' = [pending EXCEPT ![p] = {}],
           wiped' = wiped \cup ReceivedBy(p),
           wipes' = wipes + 1,
           UNCHANGED <<typed, shown>>
    PROVE  Service!DNext
<1>1. ReceivedBy(p) \in SUBSET {m \in Messages : Author[m] # p /\ shown[m] > 0}
  BY DEF ReceivedBy, DeliveryInv, Authorship, AckedIsDelivered, Delivered
<1>2. Tracked' \in {Tracked, {m \in Tracked : Author[m] # p}}
  <2>1. CASE pending' = pending
    BY <2>1, TrackedFacts
  <2>2. CASE pending' = [pending EXCEPT ![p] = {}]
    <3>1. Tracked' = pending[PeerOf(p)]
      BY <2>2, TrackedFacts, PeersAssumption DEF Peers, PeerOf, TypeOK
    <3>2. Tracked = pending[p] \cup pending[PeerOf(p)]
      BY TrackedFacts, PeersAssumption DEF Peers, PeerOf
    <3>3. \A m \in pending[p] : Author[m] = p
      BY DEF DeliveryInv, Authorship
    <3>4. \A m \in pending[PeerOf(p)] : Author[m] # p
      BY PeerOfFacts DEF DeliveryInv, Authorship
    <3> QED
      BY <3>1, <3>2, <3>3, <3>4
  <2> QED
    BY <2>1, <2>2
<1>3. Service!Erase(p)
  BY <1>1, <1>2 DEF Service!Erase, Service!Arrived, Tracked
<1> QED
  BY <1>3 DEF Service!DNext

LEMMA TerminalServes ==
    ASSUME TypeOK, DeliveryInv, NEW p \in Peers, Terminal(p)
    PROVE  [Service!DNext]_(Service!dvars)
<1>1. ASSUME NEW m \in Messages, TypeOnline(p, m)
      PROVE  Service!DNext
  BY <1>1, IssueStep DEF TypeOnline, FreshMessage, ghost, count
<1>2. ASSUME NEW m \in Messages, TypeOnlineCrash(p, m)
      PROVE  Service!DNext
  <2>1. Service!IssueUntracked(m)
    BY <1>2 DEF TypeOnlineCrash, FreshMessage, Service!IssueUntracked, count
  <2> QED
    BY <2>1 DEF Service!DNext
<1>3. ASSUME NEW m \in Messages, QueueOffline(p, m) \/ QueueOfflineCrash(p, m)
      PROVE  Service!DNext
  BY <1>3, IssueStep
     DEF QueueOffline, QueueOfflineCrash, FreshMessage, ghost, count
<1>4. CASE Leave(p)
  BY <1>4, InvisibleStep DEF Leave, db, ghost, count
<1>5. CASE ClearHistory(p)
  BY <1>5, EraseStep DEF ClearHistory
<1>6. CASE DeleteConversation(p)
  BY <1>6, EraseStep DEF DeleteConversation
<1> QED
  BY <1>1, <1>2, <1>3, <1>4, <1>5, <1>6 DEF Terminal

LEMMA AppEventServes ==
    ASSUME TypeOK, DeliveryInv, IssuedInv, NEW p \in Peers, AppEvent(p)
    PROVE  [Service!DNext]_(Service!dvars)
<1>1. ASSUME NEW f \in frames, ReceiveDuplicate(p, f) \/ ReceiveFails(p, f)
      PROVE  [Service!DNext]_(Service!dvars)
  BY <1>1, InvisibleStep DEF ReceiveDuplicate, ReceiveFails, db, ghost, count
<1>2. ASSUME NEW f \in frames, ReceiveNew(p, f)
      PROVE  Service!DNext
  BY <1>2, ArriveStep DEF ReceiveNew, count
<1>3. ASSUME NEW a \in acks, ReceiveAck(p, a) \/ ReceiveAckCrash(p, a)
      PROVE  [Service!DNext]_(Service!dvars)
  BY <1>3, SettleStep DEF ReceiveAck, ReceiveAckCrash, ghost, count
<1> QED
  BY <1>1, <1>2, <1>3 DEF AppEvent

\* Pairing, connections and the network move nothing the service can see.
LEMMA OthersServe ==
    ASSUME \/ \E p \in Peers : Pairing(p) \/ ConnectionEvent(p)
           \/ Network
    PROVE  [Service!DNext]_(Service!dvars)
<1>1. UNCHANGED <<typed, pending, shown, wiped, wipes>>
  <2>1. ASSUME NEW p \in Peers, Pairing(p)
        PROVE  UNCHANGED <<typed, pending, shown, wiped, wipes>>
    BY <2>1 DEF Pairing, BobPairs, AliceJoins, AliceJoinFails, db, ghost, count
  <2>2. ASSUME NEW p \in Peers, ConnectionEvent(p)
        PROVE  UNCHANGED <<typed, pending, shown, wiped, wipes>>
    BY <2>2 DEF ConnectionEvent, ConnectionClosed, Reconnect,
                ConnectionEstablished, FlushCrash, db, ghost, count
  <2>3. CASE Network
    BY <2>3 DEF Network, DropWhileJoining, RequestFails, Break, HolePunch,
                db, ghost, count
  <2> QED
    BY <2>1, <2>2, <2>3
<1> QED
  BY <1>1, InvisibleStep

\* A step of the chat is a step of the service or invisible to it.
LEMMA ServiceStep ==
    ASSUME TypeOK, DeliveryInv, IssuedInv, [Next]_vars
    PROVE  [Service!DNext]_(Service!dvars)
<1>1. CASE UNCHANGED vars
  BY <1>1, InvisibleStep DEF vars, db, ghost, count
<1>2. CASE Next
  BY <1>2, TerminalServes, AppEventServes, OthersServe DEF Next
<1> QED
  BY <1>1, <1>2

\* The chat of pairing.rs, with its retries, restarts, crashes between writes and
\* lost connections, implements the abstract delivery service.
THEOREM ChatImplementsService == Spec => DeliversReliably
<1>1. Init => Service!DInit
  BY DEF Init, Service!DInit
<1>2. TypeOK /\ DeliveryInv /\ IssuedInv /\ [Next]_vars
         => [Service!DNext]_(Service!dvars)
  BY ServiceStep
<1> QED
  BY <1>1, <1>2, TypeCorrect, DeliveryCorrect, OnlyTypedIsSent, PTL
     DEF Spec, DeliversReliably, Service!DSpec

=============================================================================
