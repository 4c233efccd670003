---------------------------- MODULE ChatDelivery ----------------------------
(***************************************************************************)
(* The paired chat of src/src/pairing.rs: two peers that have joined one    *)
(* invite exchange chat frames over one or more libp2p connections.         *)
(*                                                                         *)
(* Each peer is one asynchronous task, so a handler runs to its end before *)
(* the next event is taken; the handlers of the two peers interleave with  *)
(* each other and with the network.  A process may also die inside a       *)
(* handler, between two of its database writes: the actions named ...Crash  *)
(* stop after a proper prefix of the writes.                               *)
(*                                                                         *)
(* A frame travels on one connection and reaches the application at most   *)
(* once, in any order.  What is in flight on a connection is lost when the *)
(* connection breaks, and nobody learns which of it had arrived.           *)
(***************************************************************************)
EXTENDS RatchetChain

CONSTANTS
    Alice,          \* the peer that joins the invite
    Bob,            \* the peer that created the invite
    Messages,       \* message ids; an id is a hash that is never drawn twice
    Author,         \* the peer that types each message
    MaxConns,       \* bound on the connections ever established
    MaxPairings,    \* bound on the number of times the peers pair
    MaxFailures,    \* bound on requests that fail although the connection stays
    MaxWipes        \* bound on the /clear and /delete commands

Peers == {Alice, Bob}

ASSUME PeersAssumption == Alice # Bob
ASSUME AuthorAssumption == Author \in [Messages -> Peers]
ASSUME MessagesAssumption == IsFiniteSet(Messages)
ASSUME BoundsAssumption == /\ MaxConns \in Nat /\ MaxPairings \in Nat
                           /\ MaxFailures \in Nat /\ MaxWipes \in Nat

Conns  == 1 .. MaxConns
Status == {"none", "Sent", "Stored", "Received"}
Frame  == [src : Peers, id : Messages, num : Nat, conn : Conns]
Ack    == [src : Peers, id : Messages, num : Nat, conn : Conns]

PeerOf(p) == IF p = Alice THEN Bob ELSE Alice

VARIABLES
    \* the two processes
    mode,       \* "idle" (menus), "joining" (wait_for_join_ack_and_chat), "chat"
    online,     \* the flag `online` of run_pairing_chat
    chain,      \* the ratchet session in memory
    \* the two databases
    pending,    \* pending_peer_messages
    history,    \* messages: the status of each row, "none" when there is no row
    known,      \* known_peers: the profile saved by save_contact_for_chat
    \* the network
    conns,      \* the connections whose ConnectionEstablished the peer has handled
    alive,      \* the connections that still carry data
    frames,     \* ChatFrame requests in flight
    acks,       \* Ack responses in flight; src is the peer that answers
    used,       \* connections established so far
    \* bookkeeping of the model
    typed,      \* messages whose id has been drawn
    shown,      \* how often each message was stored as received and printed
    orphaned,   \* messages a crash left in the sender's history but not pending
    wiped,      \* received messages their reader removed with /clear or /delete
    pairings, failures, wipes, breaks

proc  == <<mode, online, chain>>
db    == <<pending, history, known>>
link  == <<conns, alive, used, breaks>>
ghost == <<shown, orphaned, wiped>>
count == <<pairings, failures, wipes>>
vars  == <<proc, db, link, frames, acks, typed, ghost, count>>

Init ==
    /\ mode = [p \in Peers |-> "idle"]
    /\ online = [p \in Peers |-> FALSE]
    /\ chain = [p \in Peers |-> NewChain]
    /\ pending = [p \in Peers |-> {}]
    /\ history = [p \in Peers |-> [m \in Messages |-> "none"]]
    /\ known = [p \in Peers |-> FALSE]
    /\ conns = [p \in Peers |-> {}]
    /\ alive = {}
    /\ frames = {}
    /\ acks = {}
    /\ used = 0
    /\ typed = {}
    /\ shown = [m \in Messages |-> 0]
    /\ orphaned = {}
    /\ wiped = {}
    /\ pairings = 0 /\ failures = 0 /\ wipes = 0 /\ breaks = 0

-----------------------------------------------------------------------------
(* Helpers                                                                  *)

\* Mutation of AlreadySaved: retries are not recognised.
AlreadySavedNever(p, m) == FALSE

\* chat_message_already_saved
AlreadySaved(p, m) == history[p][m] # "none"

\* INSERT OR IGNORE of storage.rs insert_message: a row keeps its status.
Inserted(h, S, status) ==
    [m \in Messages |-> IF m \in S /\ h[m] = "none" THEN status ELSE h[m]]

\* The swarm of a peer that stops is dropped: its connections close, and what
\* was in flight on them is gone.
Disconnected ==
    /\ alive' = {}
    /\ frames' = {}
    /\ acks' = {}

\* The chat of p returns, or its process dies: the session in memory, which
\* load_or_create_*_identity never restores, is lost with it.
Stopped(p) ==
    /\ mode' = [mode EXCEPT ![p] = "idle"]
    /\ online' = [online EXCEPT ![p] = FALSE]
    /\ chain' = [chain EXCEPT ![p] = NewChain]
    /\ conns' = [conns EXCEPT ![p] = {}]
    /\ Disconnected
    /\ UNCHANGED <<used, breaks>>

\* send_pending encrypts every pending message anew, in the order of
\* created_at (in seconds) and id, that is, in any order: each one takes the
\* next number of the sending chain.
Numberings(p, c) ==
    LET last == c.send + Cardinality(pending[p]) - 1
    IN  {f \in [pending[p] -> c.send .. last] :
            \A m, n \in pending[p] : f[m] = f[n] => m = n}

\* Mutation of FlushFrames: only one of the pending messages is sent again.
FlushFramesOne(p, f, k) ==
    {[src |-> p, id |-> m, num |-> f[m], conn |-> k] :
        m \in {n \in pending[p] : \A o \in pending[p] : f[n] <= f[o]}}

FlushFrames(p, f, k) ==
    {[src |-> p, id |-> m, num |-> f[m], conn |-> k] : m \in pending[p]}

\* Mutation of FlushChain: the advanced chain is not kept.
FlushChainForgotten(p, c) == c

FlushChain(p, c) == [c EXCEPT !.send = @ + Cardinality(pending[p])]

FlushHistory(p) == Inserted(history[p], pending[p], "Sent")

-----------------------------------------------------------------------------
(* Pairing                                                                  *)

\* The InitialMessage of Alice is number 0 of her sending chain.
AliceStart == [NewChain EXCEPT !.send = 1]
BobStart   == [NewChain EXCEPT !.recv = 1, !.consumed = {0}]

\* Bob accepts the InitialMessage, saves the contact (Alice saved hers when the
\* bundle arrived), answers Ack("paired") and enters the chat, where he sends
\* what is pending before Alice has read the answer.
BobPairs ==
    /\ mode = [p \in Peers |-> "idle"]
    /\ pairings < MaxPairings /\ used < MaxConns
    /\ pairings' = pairings + 1
    /\ used' = used + 1
    /\ alive' = {used + 1}
    /\ conns' = [p \in Peers |-> {used + 1}]
    /\ mode' = [mode EXCEPT ![Alice] = "joining", ![Bob] = "chat"]
    /\ online' = [online EXCEPT ![Bob] = TRUE]
    /\ known' = [p \in Peers |-> TRUE]
    /\ chain' = [chain EXCEPT ![Alice] = AliceStart,
                              ![Bob] = FlushChain(Bob, BobStart)]
    /\ \E f \in Numberings(Bob, BobStart) :
           frames' = FlushFrames(Bob, f, used + 1)
    /\ history' = [history EXCEPT ![Bob] = FlushHistory(Bob)]
    /\ acks' = {}
    /\ UNCHANGED <<pending, typed, ghost, failures, wipes, breaks>>

\* wait_for_join_ack_and_chat reads Ack("paired") and enters the chat.
AliceJoins ==
    /\ mode[Alice] = "joining"
    /\ mode' = [mode EXCEPT ![Alice] = "chat"]
    /\ online' = [online EXCEPT ![Alice] = TRUE]
    /\ chain' = [chain EXCEPT ![Alice] = FlushChain(Alice, chain[Alice])]
    /\ \E k \in conns[Alice] \cap alive, f \in Numberings(Alice, chain[Alice]) :
           frames' = frames \cup FlushFrames(Alice, f, k)
    /\ history' = [history EXCEPT ![Alice] = FlushHistory(Alice)]
    /\ UNCHANGED <<pending, known, link, acks, typed, ghost, count>>

\* The answer does not come within DISCOVERY_TIMEOUT, or the request fails:
\* Alice gives up although Bob may already be in the chat.
AliceJoinFails ==
    /\ mode[Alice] = "joining"
    /\ Stopped(Alice)
    /\ UNCHANGED <<db, typed, ghost, count>>

\* A chat frame that arrives while Alice waits for the answer falls into the
\* catch-all arm; its request never gets a response.
DropWhileJoining(f) ==
    /\ mode[Alice] = "joining" /\ failures < MaxFailures
    /\ f.src = Bob
    /\ frames' = frames \ {f}
    /\ failures' = failures + 1
    /\ UNCHANGED <<proc, db, link, acks, typed, ghost, pairings, wipes>>

-----------------------------------------------------------------------------
(* The terminal                                                             *)

FreshMessage(p, m) == Author[m] = p /\ m \notin typed

\* A line typed while online: prepare_frame encrypts it and stores it as Sent,
\* track_pending_chat_delivery makes it pending, send_request sends it.  The
\* request takes any connection the swarm believes established, a dead one too.
TypeOnline(p, m) ==
    /\ mode[p] = "chat" /\ online[p] /\ FreshMessage(p, m)
    /\ typed' = typed \cup {m}
    /\ history' = [history EXCEPT ![p] = Inserted(history[p], {m}, "Sent")]
    /\ pending' = [pending EXCEPT ![p] = @ \cup {m}]
    /\ chain' = [chain EXCEPT ![p] = Encrypted(@)]
    /\ \E k \in conns[p] :
           frames' = IF k \in alive
                     THEN frames \cup {[src |-> p, id |-> m,
                                        num |-> chain[p].send, conn |-> k]}
                     ELSE frames
    /\ UNCHANGED <<mode, online, known, link, acks, ghost, count>>

\* The process dies, or the database fails, after the history row is written
\* and before the message is pending.
TypeOnlineCrash(p, m) ==
    /\ mode[p] = "chat" /\ online[p] /\ FreshMessage(p, m)
    /\ typed' = typed \cup {m}
    /\ history' = [history EXCEPT ![p] = Inserted(history[p], {m}, "Sent")]
    /\ orphaned' = orphaned \cup {m}
    /\ Stopped(p)
    /\ UNCHANGED <<pending, known, shown, wiped, count>>

\* queue_offline_peer_message is reached from the chat while it is offline and
\* from open_saved_conversation, which runs in the menus.
MayQueue(p) == known[p] /\ (mode[p] = "idle" \/ (mode[p] = "chat" /\ ~online[p]))

QueueOffline(p, m) ==
    /\ MayQueue(p) /\ FreshMessage(p, m)
    /\ typed' = typed \cup {m}
    /\ pending' = [pending EXCEPT ![p] = @ \cup {m}]
    /\ history' = [history EXCEPT ![p] = Inserted(history[p], {m}, "Stored")]
    /\ UNCHANGED <<proc, known, link, frames, acks, ghost, count>>

\* The process dies after the message is pending and before its history row.
QueueOfflineCrash(p, m) ==
    /\ MayQueue(p) /\ FreshMessage(p, m)
    /\ typed' = typed \cup {m}
    /\ pending' = [pending EXCEPT ![p] = @ \cup {m}]
    /\ Stopped(p)
    /\ UNCHANGED <<history, known, ghost, count>>

\* /back, Ctrl+C, a closed terminal, or a crash between two handlers.
Leave(p) ==
    /\ mode[p] = "chat"
    /\ Stopped(p)
    /\ UNCHANGED <<db, typed, ghost, count>>

\* What p has received from the other peer and still holds.
ReceivedBy(p) == {m \in Messages : history[p][m] = "Received"}

\* /clear in open_saved_conversation: clear_conversation_history.
ClearHistory(p) ==
    /\ mode[p] = "idle" /\ known[p] /\ wipes < MaxWipes
    /\ history' = [history EXCEPT ![p] = [m \in Messages |-> "none"]]
    /\ wiped' = wiped \cup ReceivedBy(p)
    /\ wipes' = wipes + 1
    /\ UNCHANGED <<proc, pending, known, link, frames, acks, typed, shown,
                   orphaned, pairings, failures>>

\* /delete in open_saved_conversation: delete_conversation.
DeleteConversation(p) ==
    /\ mode[p] = "idle" /\ known[p] /\ wipes < MaxWipes
    /\ history' = [history EXCEPT ![p] = [m \in Messages |-> "none"]]
    /\ pending' = [pending EXCEPT ![p] = {}]
    /\ known' = [known EXCEPT ![p] = FALSE]
    /\ wiped' = wiped \cup ReceivedBy(p)
    /\ wipes' = wipes + 1
    /\ UNCHANGED <<proc, link, frames, acks, typed, shown, orphaned, pairings,
                   failures>>

-----------------------------------------------------------------------------
(* handle_alice_app_event and handle_bob_pairing_app_event                  *)

\* The ChatFrame request f reaches the event loop of p.
Arrives(p, f) == mode[p] = "chat" /\ f.src = PeerOf(p) /\ f.conn \in conns[p]

AckOf(p, f) == [src |-> p, id |-> f.id, num |-> f.num, conn |-> f.conn]

\* A message that is already saved is acknowledged again and not decrypted.
ReceiveDuplicate(p, f) ==
    /\ Arrives(p, f) /\ AlreadySaved(p, f.id)
    /\ frames' = frames \ {f}
    /\ acks' = acks \cup {AckOf(p, f)}
    /\ UNCHANGED <<proc, db, link, typed, ghost, count>>

\* A new message is decrypted, stored, printed and acknowledged.
ReceiveNew(p, f) ==
    /\ Arrives(p, f) /\ ~AlreadySaved(p, f.id)
    /\ Outcome(chain[p], f.num) = "Key"
    /\ frames' = frames \ {f}
    /\ acks' = acks \cup {AckOf(p, f)}
    /\ chain' = [chain EXCEPT ![p] = Opened(@, f.num)]
    /\ history' = [history EXCEPT ![p] = Inserted(history[p], {f.id}, "Received")]
    /\ shown' = [shown EXCEPT ![f.id] = @ + 1]
    /\ UNCHANGED <<mode, online, pending, known, link, typed, orphaned, wiped,
                   count>>

\* The error of decrypt_from_* leaves the handler and run_pairing_chat with `?`.
ReceiveFails(p, f) ==
    /\ Arrives(p, f) /\ ~AlreadySaved(p, f.id)
    /\ Outcome(chain[p], f.num) # "Key"
    /\ Stopped(p)
    /\ UNCHANGED <<db, typed, ghost, count>>

\* Mutation of Acked: an acknowledgement covers everything pending.
AckedAll(p, a) == pending[p]

\* remove_pending_peer_message deletes the row of the acknowledged id only.
Acked(p, a) == {a.id}

\* update_message_status touches an existing row only.
AckedStatus(status) == IF status = "none" THEN status ELSE "Sent"

\* mark_delivered_if_pending
ReceiveAck(p, a) ==
    /\ Arrives(p, a)
    /\ acks' = acks \ {a}
    /\ pending' = [pending EXCEPT ![p] = @ \ Acked(p, a)]
    /\ history' = [history EXCEPT ![p][a.id] = AckedStatus(@)]
    /\ UNCHANGED <<proc, known, link, frames, typed, ghost, count>>

\* The process dies after the pending row is removed and before the status.
ReceiveAckCrash(p, a) ==
    /\ Arrives(p, a)
    /\ pending' = [pending EXCEPT ![p] = @ \ Acked(p, a)]
    /\ Stopped(p)
    /\ UNCHANGED <<history, known, typed, ghost, count>>

\* OutboundFailure on a connection that stays: the handler only logs it.
RequestFails ==
    /\ failures < MaxFailures
    /\ \/ \E f \in frames : frames' = frames \ {f} /\ UNCHANGED acks
       \/ \E a \in acks : acks' = acks \ {a} /\ UNCHANGED frames
    /\ failures' = failures + 1
    /\ UNCHANGED <<proc, db, link, typed, ghost, pairings, wipes>>

-----------------------------------------------------------------------------
(* Connections                                                              *)

\* The transport of connection k fails; neither peer has noticed yet.  The last
\* connection the model may use is never broken.
Break(k) ==
    /\ k \in alive /\ used < MaxConns
    /\ alive' = alive \ {k}
    /\ frames' = {f \in frames : f.conn # k}
    /\ acks' = {a \in acks : a.conn # k}
    /\ breaks' = breaks + 1
    /\ UNCHANGED <<proc, db, conns, used, typed, ghost, count>>

\* Mutation of LostAll: any closed connection counts as the last one.
LostAllAlways(p, k) == TRUE

\* peer_lost_all_connections: no other connection to the peer remains.
LostAll(p, k) == conns[p] \ {k} = {}

\* ConnectionClosed: the chat goes offline with its last connection.
ConnectionClosed(p, k) ==
    /\ mode[p] = "chat" /\ k \in conns[p] \ alive
    /\ conns' = [conns EXCEPT ![p] = @ \ {k}]
    /\ online' = [online EXCEPT ![p] = @ /\ ~LostAll(p, k)]
    /\ UNCHANGED <<mode, chain, db, alive, used, breaks, frames, acks, typed,
                   ghost, count>>

BothInChat == \A p \in Peers : mode[p] = "chat"

\* try_reconnect_through_relay of p, which dials only while not connected.
Reconnect(p) ==
    /\ BothInChat /\ ~online[p] /\ conns[p] = {}
    /\ alive = {} /\ used < MaxConns
    /\ used' = used + 1
    /\ alive' = {used + 1}
    /\ UNCHANGED <<proc, db, conns, breaks, frames, acks, typed, ghost, count>>

\* DCUtR opens a direct connection beside the relayed one.
HolePunch ==
    /\ BothInChat /\ \A p \in Peers : online[p]
    /\ alive # {} /\ used + 1 < MaxConns
    /\ used' = used + 1
    /\ alive' = alive \cup {used + 1}
    /\ UNCHANGED <<proc, db, conns, breaks, frames, acks, typed, ghost, count>>

\* ConnectionEstablished: only a chat that was offline sends what is pending.
ConnectionEstablished(p, k) ==
    /\ mode[p] = "chat" /\ k \in alive \ conns[p]
    /\ conns' = [conns EXCEPT ![p] = @ \cup {k}]
    /\ online' = [online EXCEPT ![p] = TRUE]
    /\ IF online[p]
       THEN UNCHANGED <<chain, frames, history>>
       ELSE /\ chain' = [chain EXCEPT ![p] = FlushChain(p, @)]
            /\ \E f \in Numberings(p, chain[p]) :
                   frames' = frames \cup FlushFrames(p, f, k)
            /\ history' = [history EXCEPT ![p] = FlushHistory(p)]
    /\ UNCHANGED <<mode, pending, known, alive, used, breaks, acks, typed, ghost,
                   count>>

\* The process dies inside send_pending: some history rows have been written,
\* and no request has left the swarm.
FlushCrash(p, S) ==
    /\ mode[p] = "chat" /\ ~online[p] /\ alive \ conns[p] # {}
    /\ S \subseteq pending[p]
    /\ history' = [history EXCEPT ![p] = Inserted(history[p], S, "Sent")]
    /\ Stopped(p)
    /\ UNCHANGED <<pending, known, typed, ghost, count>>

-----------------------------------------------------------------------------
Pairing(p) == \/ (p = Bob /\ BobPairs)
              \/ (p = Alice /\ (AliceJoins \/ AliceJoinFails))

Terminal(p) ==
    \/ \E m \in Messages : \/ TypeOnline(p, m) \/ TypeOnlineCrash(p, m)
                           \/ QueueOffline(p, m) \/ QueueOfflineCrash(p, m)
    \/ Leave(p)
    \/ ClearHistory(p)
    \/ DeleteConversation(p)

AppEvent(p) ==
    \/ \E f \in frames : \/ ReceiveDuplicate(p, f) \/ ReceiveNew(p, f)
                         \/ ReceiveFails(p, f)
    \/ \E a \in acks : ReceiveAck(p, a) \/ ReceiveAckCrash(p, a)

ConnectionEvent(p) ==
    \/ \E k \in conns[p] : ConnectionClosed(p, k)
    \/ Reconnect(p)
    \/ \E k \in alive : ConnectionEstablished(p, k)
    \/ \E S \in SUBSET pending[p] : FlushCrash(p, S)

Network ==
    \/ \E f \in frames : DropWhileJoining(f)
    \/ RequestFails
    \/ \E k \in alive : Break(k)
    \/ HolePunch

Next == \/ \E p \in Peers : \/ Pairing(p) \/ Terminal(p)
                            \/ AppEvent(p) \/ ConnectionEvent(p)
        \/ Network

Spec == Init /\ [][Next]_vars

\* The event loop of a running chat polls its swarm, so what has arrived and
\* the connection events are handled; the reconnect interval fires every three
\* seconds while offline.  Nobody is obliged to type, leave or pair.
Fairness ==
    /\ WF_vars(AliceJoins)
    /\ \A p \in Peers :
        /\ WF_vars(Reconnect(p))
        /\ WF_vars(\E k \in conns[p] : ConnectionClosed(p, k))
        /\ WF_vars(\E k \in alive : ConnectionEstablished(p, k))
        /\ WF_vars(\E f \in frames : \/ ReceiveDuplicate(p, f)
                                     \/ ReceiveNew(p, f) \/ ReceiveFails(p, f))
        /\ WF_vars(\E a \in acks : ReceiveAck(p, a))

FairSpec == Spec /\ Fairness

-----------------------------------------------------------------------------
\* The shape of both databases, of the sessions and of what is in flight.
TypeOK ==
    /\ mode \in [Peers -> {"idle", "joining", "chat"}]
    /\ online \in [Peers -> BOOLEAN]
    /\ chain \in [Peers -> Chain]
    /\ pending \in [Peers -> SUBSET Messages]
    /\ history \in [Peers -> [Messages -> Status]]
    /\ known \in [Peers -> BOOLEAN]
    /\ conns \in [Peers -> SUBSET Conns]
    /\ alive \subseteq Conns
    /\ frames \subseteq Frame
    /\ acks \subseteq Ack
    /\ used \in 0 .. MaxConns
    /\ typed \subseteq Messages
    /\ shown \in [Messages -> Nat]
    /\ orphaned \subseteq Messages
    /\ wiped \subseteq Messages
    /\ pairings \in Nat /\ failures \in Nat /\ wipes \in Nat /\ breaks \in Nat

Delivered(m) == shown[m] > 0

IsSent(p, m) == history[p][m] \in {"Sent", "Stored"}

\* A message the sender's history shows as sent or queued is still pending or
\* has been stored by the other peer, unless the sender's process died between
\* the two writes of a typed line.
TrackedUntilAcked ==
    \A p \in Peers, m \in Messages :
        IsSent(p, m) => m \in pending[p] \/ Delivered(m) \/ m \in orphaned

\* A message is stored and printed once however often it is retried, unless its
\* reader removed it from the history in between.
ShownOnce == \A m \in Messages \ wiped : shown[m] <= 1

DistinctNumbers ==
    \A f, g \in frames : f.src = g.src /\ f.num = g.num => f = g

\* No two frames of one session carry the same number, so no message key and
\* nonce encrypt twice: retries and new lines share one counter, which stays
\* ahead of every frame under way, so that no later frame repeats its number.
FreshNumbers ==
    /\ DistinctNumbers
    /\ \A f \in frames : f.num < chain[f.src].send

\* A frame of an honest peer is never taken for a replay: the only decryption
\* error a chat can meet is that too many numbers were skipped.
NoFalseReplay ==
    \A f \in frames : Outcome(chain[PeerOf(f.src)], f.num) # "Replay"

\* A chat shows its peer as online exactly while it holds a connection to it.
OnlineIffConnected ==
    \A p \in Peers : mode[p] = "chat" => (online[p] <=> conns[p] # {})

\* The chat implements the abstract service of ReliableDelivery: the rows of
\* pending_peer_messages are what is tracked, and a message arrives when its
\* reader stores it.
Service == INSTANCE ReliableDelivery WITH
    Parties   <- Peers,
    issued    <- typed,
    tracked   <- UNION {pending[p] : p \in Peers},
    copies    <- shown,
    forgotten <- wiped,
    erasures  <- wipes

\* Under every interleaving, loss and crash, each step of the two chats is a step
\* of the service or invisible to it: a message stays pending until the other
\* peer has stored it, is stored once, and only /clear and /delete undo that.
DeliversReliably == Service!DSpec

\* What was queued while offline is acknowledged over the first reconnection
\* that does not break again, as long as both peers stay in the chat.
QueuedIsDelivered ==
    \A m \in Messages, b \in 0 .. MaxConns :
        (BothInChat /\ ~online[Author[m]] /\ m \in pending[Author[m]] /\ breaks = b)
            ~> (m \notin pending[Author[m]] \/ ~BothInChat \/ breaks # b)

\* README.md:22: "Durable outbox with ACK, retry": no message stays pending for
\* ever while both peers remain in the chat, online over a working connection.
PendingIsRetried ==
    \A m \in Messages :
        ~<>[](/\ BothInChat /\ m \in pending[Author[m]]
              /\ \A p \in Peers : online[p] /\ conns[p] \cap alive # {})

-----------------------------------------------------------------------------
(* The inductive invariants behind the two groups of safety properties.      *)

\* Every id travels from its author to the other peer and back.
Authorship ==
    /\ \A p \in Peers : \A m \in pending[p] : Author[m] = p
    /\ \A p \in Peers, m \in Messages :
        /\ IsSent(p, m) => Author[m] = p
        /\ history[p][m] = "Received" => Author[m] # p
    /\ \A f \in frames : Author[f.id] = f.src
    /\ \A a \in acks : Author[a.id] = PeerOf(a.src)

\* What is acknowledged, or stored as received, has been shown.
AckedIsDelivered ==
    /\ \A a \in acks : Delivered(a.id)
    /\ \A p \in Peers, m \in Messages : history[p][m] = "Received" => Delivered(m)

\* What has been shown is still in its reader's history.
ShownIsSaved ==
    \A m \in Messages \ wiped :
        Delivered(m) => shown[m] = 1 /\ history[PeerOf(Author[m])][m] = "Received"

DeliveryInv == Authorship /\ AckedIsDelivered /\ TrackedUntilAcked /\ ShownIsSaved

\* Only messages that were typed are pending or on their way.
IssuedInv ==
    /\ \A p \in Peers : pending[p] \subseteq typed
    /\ \A f \in frames : f.id \in typed

\* Every number below recv is either consumed or has its key in the store.
ChainSound(c) ==
    /\ c.consumed \cup c.skipped = 0 .. c.recv - 1
    /\ c.consumed \cap c.skipped = {}

Paired == \A p \in Peers : mode[p] # "idle"

\* A live connection joins two peers of the same session, in which nobody has
\* stepped over a number that was not sent yet.
SessionsAgree ==
    /\ alive # {} => Paired
    /\ Paired => \A p \in Peers : chain[p].recv <= chain[PeerOf(p)].send

\* A frame in flight carries a number of its sender that its reader still has
\* the key of.
FrameOpens(f) ==
    LET c == chain[PeerOf(f.src)]
    IN  /\ f.num < chain[f.src].send
        /\ f.num \notin c.consumed
        /\ f.num < c.recv => f.num \in c.skipped

RatchetInv ==
    /\ \A p \in Peers : ChainSound(chain[p])
    /\ SessionsAgree
    /\ \A f \in frames : FrameOpens(f)
    /\ DistinctNumbers

=============================================================================
