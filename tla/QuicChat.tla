------------------------------ MODULE QuicChat ------------------------------
(***************************************************************************)
(* The direct QUIC chat of src/src/main.rs (chat-alice, chat-bob and the    *)
(* chat listener): after the handshake each side first flushes what it has  *)
(* queued, one message at a time and waiting for each acknowledgement, and  *)
(* then enters its chat loop.                                               *)
(*                                                                         *)
(* A frame is one unidirectional stream and streams are accepted in the     *)
(* order they were opened, so each direction is a queue.  A connection that *)
(* ends loses any tail of what was under way, and a side learns of the end  *)
(* only from its own next operation.  Every connection starts a new session *)
(* and its frames arrive in order, so the receiving chain only steps over   *)
(* the numbers of duplicates, which fewer than nine messages cannot make    *)
(* too many: decryption succeeds here and is studied in ChatDelivery.       *)
(***************************************************************************)
EXTENDS Integers, Sequences, FiniteSets

CONSTANTS
    Alice, Bob,
    Messages,       \* message ids
    Author,         \* the side that types each message
    MaxConnects,    \* bound on the connections
    MaxTimeouts     \* bound on the waits cut short by PENDING_DELIVERY_ACK_TIMEOUT

Sides == {Alice, Bob}

ASSUME SidesAssumption == Alice # Bob
ASSUME QuicAssumption == /\ Author \in [Messages -> Sides]
                         /\ MaxConnects \in Nat /\ MaxTimeouts \in Nat

VARIABLES
    mode,       \* "off", "hello" (Bob awaits the initial message), "flush", "chat"
    online,     \* the flag of the chat loop
    todo,       \* flush: the pending messages read at its start, not yet sent
    await,      \* flush: the message whose Ack is awaited, as a set
    pending,    \* pending_peer_messages
    history,    \* messages: the status of each row, "none" when there is none
    known,      \* whether a profile of the other side is saved
    alive,      \* the connection works
    chan,       \* frames under way from each side
    typed,      \* messages typed so far
    shown,      \* how often each message was stored as received
    connects, timeouts

side  == <<mode, online, todo, await>>
db    == <<pending, history, known>>
ghost == <<typed, shown, connects, timeouts>>
vars  == <<side, db, alive, chan, ghost>>

Other(p) == IF p = Alice THEN Bob ELSE Alice

Init ==
    /\ mode = [p \in Sides |-> "off"]
    /\ online = [p \in Sides |-> FALSE]
    /\ todo = [p \in Sides |-> {}]
    /\ await = [p \in Sides |-> {}]
    /\ pending = [p \in Sides |-> {}]
    /\ history = [p \in Sides |-> [m \in Messages |-> "none"]]
    /\ known = [p \in Sides |-> FALSE]
    /\ alive = FALSE
    /\ chan = [p \in Sides |-> << >>]
    /\ typed = {} /\ shown = [m \in Messages |-> 0]
    /\ connects = 0 /\ timeouts = 0

Frame(kind, m) == [kind |-> kind, id |-> m]
InitialMessage == [kind |-> "initial"]

(* A frame sent on a connection that has ended goes nowhere.                *)
Sent(p, f) == IF alive THEN [chan EXCEPT ![p] = Append(@, f)] ELSE chan

Incoming(p) == chan[Other(p)]

Inserted(p, m, status) ==
    [history EXCEPT ![p][m] = IF @ = "none" THEN status ELSE @]

-----------------------------------------------------------------------------
(* Connecting                                                               *)

(* connect_alice_chat: Bob's bundle has arrived; Alice saves the contact,   *)
(* sends the initial message and turns to her pending messages.             *)
Connect ==
    /\ mode = [p \in Sides |-> "off"] /\ connects < MaxConnects
    /\ connects' = connects + 1
    /\ mode' = [p \in Sides |-> IF p = Alice THEN "flush" ELSE "hello"]
    /\ known' = [known EXCEPT ![Alice] = TRUE]
    /\ todo' = [todo EXCEPT ![Alice] = pending[Alice]]
    /\ alive' = TRUE
    /\ chan' = [p \in Sides |-> IF p = Alice THEN <<InitialMessage>> ELSE << >>]
    /\ UNCHANGED <<online, await, pending, history, typed, shown, timeouts>>

(* Bob decrypts the initial message, saves identity and contact, and turns  *)
(* to his pending messages.                                                 *)
Handshake ==
    /\ mode[Bob] = "hello"
    /\ chan[Alice] # << >>
    /\ mode' = [mode EXCEPT ![Bob] = "flush"]
    /\ chan' = [chan EXCEPT ![Alice] = Tail(@)]
    /\ known' = [known EXCEPT ![Bob] = TRUE]
    /\ todo' = [todo EXCEPT ![Bob] = pending[Bob]]
    /\ UNCHANGED <<online, await, pending, history, alive, ghost>>

-----------------------------------------------------------------------------
(* A frame is handled                                                       *)

(* A message that is not yet saved is decrypted, persisted, accepted and    *)
(* printed (or marked new).                                                 *)
HandlesMessage(p, m) ==
    /\ history' = Inserted(p, m, "Received")
    /\ shown' = [shown EXCEPT ![m] = IF history[p][m] = "none" THEN @ + 1 ELSE @]

(* Mutant: a flush looks at nothing but the awaited Ack.                    *)
ReceiveOnlyInChat(p) ==
    LET f == Head(Incoming(p)) IN
    /\ Incoming(p) # << >>
    /\ mode[p] = "chat" /\ online[p]
    /\ \/ /\ f.kind = "msg"
          /\ HandlesMessage(p, f.id)
          /\ chan' = [Sent(p, Frame("ack", f.id)) EXCEPT ![Other(p)] = Tail(Incoming(p))]
       \/ /\ f.kind = "ack"
          /\ chan' = [chan EXCEPT ![Other(p)] = Tail(Incoming(p))]
          /\ UNCHANGED <<history, shown>>
    /\ UNCHANGED <<side, pending, known, alive, typed, connects, timeouts>>

(* The next frame of the other side, in the chat loop or, unless it is the  *)
(* awaited Ack, in handle_incoming_during_*_flush.  A message is answered   *)
(* by an Ack, saved before or not; a late Ack is ignored.                   *)
Receive(p) ==
    LET f == Head(Incoming(p)) IN
    /\ Incoming(p) # << >>
    /\ \/ mode[p] = "chat" /\ online[p]
       \/ mode[p] = "flush" /\ await[p] # {} /\ ~(f.kind = "ack" /\ f.id \in await[p])
    /\ \/ /\ f.kind = "msg"
          /\ HandlesMessage(p, f.id)
          /\ chan' = [Sent(p, Frame("ack", f.id)) EXCEPT ![Other(p)] = Tail(Incoming(p))]
       \/ /\ f.kind = "ack"
          /\ chan' = [chan EXCEPT ![Other(p)] = Tail(Incoming(p))]
          /\ UNCHANGED <<history, shown>>
    /\ UNCHANGED <<side, pending, known, alive, typed, connects, timeouts>>

-----------------------------------------------------------------------------
(* flush_pending_messages_to_bob and flush_pending_messages_to_alice        *)

(* The next pending message, in the order of created_at (in seconds) and    *)
(* id, is encrypted anew and sent.                                          *)
FlushSend(p, m) ==
    /\ mode[p] = "flush" /\ await[p] = {} /\ m \in todo[p]
    /\ todo' = [todo EXCEPT ![p] = @ \ {m}]
    /\ await' = [await EXCEPT ![p] = {m}]
    /\ chan' = Sent(p, Frame("msg", m))
    /\ UNCHANGED <<mode, online, db, alive, ghost>>

(* Mutant: a message is no longer pending once it is on its way.            *)
FlushAckedEarly(p, m) ==
    /\ mode[p] = "flush" /\ await[p] = {m}
    /\ pending' = [pending EXCEPT ![p] = @ \ {m}]
    /\ history' = [history EXCEPT ![p][m] = IF @ = "none" THEN @ ELSE "Sent"]
    /\ await' = [await EXCEPT ![p] = {}]
    /\ UNCHANGED <<mode, online, todo, chan, known, alive, ghost>>

(* The awaited Ack: the message leaves pending and is marked Sent.          *)
FlushAcked(p, m) ==
    /\ mode[p] = "flush" /\ await[p] = {m}
    /\ Incoming(p) # << >> /\ Head(Incoming(p)) = Frame("ack", m)
    /\ chan' = [chan EXCEPT ![Other(p)] = Tail(@)]
    /\ pending' = [pending EXCEPT ![p] = @ \ {m}]
    /\ history' = [history EXCEPT ![p][m] = IF @ = "none" THEN @ ELSE "Sent"]
    /\ await' = [await EXCEPT ![p] = {}]
    /\ UNCHANGED <<mode, online, todo, known, alive, ghost>>

(* Mutant: the flush is left with its work list.                            *)
EnterChatUnfinished(p) ==
    /\ mode' = [mode EXCEPT ![p] = "chat"]
    /\ online' = [online EXCEPT ![p] = TRUE]
    /\ UNCHANGED <<todo, await>>

EnterChat(p) ==
    /\ mode' = [mode EXCEPT ![p] = "chat"]
    /\ online' = [online EXCEPT ![p] = TRUE]
    /\ todo' = [todo EXCEPT ![p] = {}]
    /\ await' = [await EXCEPT ![p] = {}]

(* Everything was confirmed, or the connection has ended.                   *)
FlushEnds(p) ==
    /\ mode[p] = "flush"
    /\ (todo[p] = {} /\ await[p] = {}) \/ ~alive
    /\ EnterChat(p)
    /\ UNCHANGED <<db, alive, chan, ghost>>

(* No frame within PENDING_DELIVERY_ACK_TIMEOUT: the rest stays pending for *)
(* the next connection, although this one may be fine.                      *)
FlushTimesOut(p) ==
    /\ mode[p] = "flush" /\ await[p] # {} /\ Incoming(p) = << >>
    /\ timeouts < MaxTimeouts
    /\ timeouts' = timeouts + 1
    /\ EnterChat(p)
    /\ UNCHANGED <<db, alive, chan, typed, shown, connects>>

-----------------------------------------------------------------------------
(* chat_loop_alice and chat_loop_bob_shared                                 *)

Fresh(p, m) == Author[m] = p /\ m \notin typed

(* A line typed online is encrypted, sent and then stored as Sent; nothing  *)
(* makes it pending.                                                        *)
TypeOnline(p, m) ==
    /\ mode[p] = "chat" /\ online[p] /\ Fresh(p, m)
    /\ typed' = typed \cup {m}
    /\ chan' = Sent(p, Frame("msg", m))
    /\ history' = Inserted(p, m, "Sent")
    /\ UNCHANGED <<side, pending, known, alive, shown, connects, timeouts>>

Queues(p, m) ==
    /\ typed' = typed \cup {m}
    /\ pending' = [pending EXCEPT ![p] = @ \cup {m}]
    /\ history' = Inserted(p, m, "Stored")

(* The send reports the lost connection: the line is queued instead.        *)
TypeFails(p, m) ==
    /\ mode[p] = "chat" /\ online[p] /\ ~alive /\ Fresh(p, m)
    /\ online' = [online EXCEPT ![p] = FALSE]
    /\ Queues(p, m)
    /\ UNCHANGED <<mode, todo, await, known, alive, chan, shown, connects, timeouts>>

(* A line typed offline in the chat, or in the saved conversation.          *)
QueueOffline(p, m) ==
    /\ known[p] /\ Fresh(p, m)
    /\ mode[p] = "off" \/ (mode[p] = "chat" /\ ~online[p])
    /\ Queues(p, m)
    /\ UNCHANGED <<side, known, alive, chan, shown, connects, timeouts>>

(* accept_uni reports that the connection has ended.                        *)
NoticeClosed(p) ==
    /\ mode[p] = "chat" /\ online[p] /\ ~alive
    /\ online' = [online EXCEPT ![p] = FALSE]
    /\ UNCHANGED <<mode, todo, await, db, alive, chan, ghost>>

(* What of a queue of frames still arrives after the connection ended.      *)
Prefixes(s) == {SubSeq(s, 1, k) : k \in 0 .. Len(s)}

(* The process is gone and its connection with it; c is what it had sent.   *)
Stops(p, c) ==
    /\ mode' = [mode EXCEPT ![p] = "off"]
    /\ online' = [online EXCEPT ![p] = FALSE]
    /\ todo' = [todo EXCEPT ![p] = {}]
    /\ await' = [await EXCEPT ![p] = {}]
    /\ alive' = (alive /\ mode[p] = "off")
    /\ \E s \in Prefixes(c[p]) : chan' = [c EXCEPT ![p] = s, ![Other(p)] = << >>]

(* /back, Ctrl+C, a failed handshake or a crash between two handlers.       *)
Leave(p) ==
    /\ mode[p] # "off"
    /\ Stops(p, chan)
    /\ UNCHANGED <<db, ghost>>

(* The process dies with the frame sent and the message not yet stored.     *)
TypeOnlineCrash(p, m) ==
    /\ mode[p] = "chat" /\ online[p] /\ Fresh(p, m)
    /\ typed' = typed \cup {m}
    /\ Stops(p, Sent(p, Frame("msg", m)))
    /\ UNCHANGED <<db, shown, connects, timeouts>>

(* The process dies with the message pending and not yet in its history.    *)
QueueOfflineCrash(p, m) ==
    /\ known[p] /\ Fresh(p, m)
    /\ mode[p] = "off" \/ (mode[p] = "chat" /\ ~online[p])
    /\ typed' = typed \cup {m}
    /\ pending' = [pending EXCEPT ![p] = @ \cup {m}]
    /\ Stops(p, chan)
    /\ UNCHANGED <<history, known, shown, connects, timeouts>>

(* The process dies after remove_pending_peer_message and before            *)
(* update_message_status.                                                   *)
FlushAckedCrash(p, m) ==
    /\ mode[p] = "flush" /\ await[p] = {m}
    /\ Incoming(p) # << >> /\ Head(Incoming(p)) = Frame("ack", m)
    /\ pending' = [pending EXCEPT ![p] = @ \ {m}]
    /\ Stops(p, chan)
    /\ UNCHANGED <<history, known, ghost>>

Break ==
    /\ alive /\ alive' = FALSE
    /\ \E s \in Prefixes(chan[Alice]), t \in Prefixes(chan[Bob]) :
          chan' = [p \in Sides |-> IF p = Alice THEN s ELSE t]
    /\ UNCHANGED <<side, db, ghost>>

-----------------------------------------------------------------------------
Handle(p) == \/ Receive(p) \/ FlushEnds(p)
             \/ \E m \in Messages : FlushSend(p, m) \/ FlushAcked(p, m)

Users(p) == \/ Leave(p) \/ NoticeClosed(p) \/ FlushTimesOut(p)
            \/ \E m \in Messages : \/ TypeOnline(p, m) \/ TypeFails(p, m)
                                   \/ QueueOffline(p, m) \/ TypeOnlineCrash(p, m)
                                   \/ QueueOfflineCrash(p, m) \/ FlushAckedCrash(p, m)

Next == Connect \/ Handshake \/ Break \/ \E p \in Sides : Handle(p) \/ Users(p)

Spec == Init /\ [][Next]_vars

-----------------------------------------------------------------------------
(* The shape of both sides: only a flush has work left, a pending line is   *)
(* not shown as sent, and the initial message can only head its channel.    *)
TypeOK ==
    /\ mode \in [Sides -> {"off", "hello", "flush", "chat"}]
    /\ online \in [Sides -> BOOLEAN]
    /\ \A p \in Sides : /\ todo[p] \subseteq Messages /\ await[p] \subseteq Messages
                        /\ mode[p] # "flush" => todo[p] = {} /\ await[p] = {}
    /\ \A p \in Sides : \A m \in pending[p] : m \in Messages /\ Author[m] = p /\ history[p][m] # "Sent"
    /\ history \in [Sides -> [Messages -> {"none", "Sent", "Stored", "Received"}]]
    /\ known \in [Sides -> BOOLEAN]
    /\ alive \in BOOLEAN
    /\ \A p \in Sides : \A i \in 1 .. Len(chan[p]) :
          \/ chan[p][i] = InitialMessage /\ i = 1
          \/ chan[p][i] \in [kind : {"msg", "ack"}, id : Messages]
    /\ typed \subseteq Messages
    /\ shown \in [Messages -> Nat]

(* The queue of the LAN chat as a delivery service: a line typed on a live  *)
(* connection is issued and not tracked, a line queued off line is tracked. *)
Service == INSTANCE ReliableDelivery WITH
    Parties   <- {},
    issued    <- typed,
    tracked   <- pending[Alice] \cup pending[Bob],
    copies    <- shown,
    forgotten <- {},
    erasures  <- 0

(* A queued message stays pending, over timeouts, lost connections and      *)
(* crashes, until the other side has stored it, and however often a flush   *)
(* sends it again its reader stores and sees it once.                       *)
DeliversReliably == Service!DSpec

(* Two sides that flush at the same time do not wait for each other: even   *)
(* without the timeout, a flush ends.                                       *)
FlushTerminates == \A p \in Sides : mode[p] = "flush" ~> mode[p] # "flush"

====
