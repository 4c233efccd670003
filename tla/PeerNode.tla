------------------------------ MODULE PeerNode ------------------------------
(***************************************************************************)
(* The commands bob and alice of src/src/main.rs.  Bob's node        *)
(* (run_bob) runs two tasks over one Bob behind a mutex: one serves a       *)
(* single QUIC connection and then chats on it (run_bob_quic_once), one     *)
(* answers requests that come through a relay (run_discovery_advertiser,    *)
(* handle_bob_app_event); the first task to end ends the node.  A sender    *)
(* (run_alice_discovered) looks the node up, tries QUIC (run_alice) and     *)
(* falls back to the relay (run_alice_relayed) with a fresh Alice and the   *)
(* same text.                                                               *)
(*                                                                         *)
(* Bob::local() has one one-time prekey and this path never replenishes it. *)
(* What follows once a chat has started is the subject of QuicChat.  Texts  *)
(* are not empty.                                                           *)
(***************************************************************************)
EXTENDS Naturals, FiniteSets

CONSTANT Senders            \* runs of the alice command, each with its text

VARIABLES
    node,       \* "up", "stopped" by its user, "failed" with a task's error
    prekey,     \* Bob still has his one-time prekey
    session,    \* the sender Bob's ratchet session is with, as a set
    task,       \* run_bob_quic_once: "accept", "hello", "opened", "chat"
    caller,     \* the sender on the accepted connection, as a set
    linked,     \* that connection works
    sender,     \* where each sender is
    parcels,    \* messages under way, <<kind, sender>>
    read,       \* how often the text of each sender was decrypted
    filed       \* texts in Bob's messages

bobVars  == <<node, prekey, session, task, caller, linked>>
nodeVars == <<bobVars, sender, parcels, read, filed>>

\* The stages of run_alice, and of run_alice_relayed after it.
Direct  == {"greeted", "told"}
Relayed == {"relay", "relay_asked", "relay_told"}
Final   == {"left", "done", "failed"}

NodeInit ==
    /\ node = "up" /\ prekey = TRUE /\ session = {}
    /\ task = "accept" /\ caller = {} /\ linked = FALSE
    /\ sender = [s \in Senders |-> "off"]
    /\ parcels = {}
    /\ read = [s \in Senders |-> 0] /\ filed = {}

At(s, stage) == sender' = [sender EXCEPT ![s] = stage]

\* A task returned an error: run_bob aborts the other one and ends.
NodeFails ==
    /\ node' = "failed" /\ linked' = FALSE
    /\ UNCHANGED <<prekey, session, task, caller>>

-----------------------------------------------------------------------------
(* The sender: discovery and the QUIC attempt                               *)

\* The user starts the command.
Start(s) ==
    /\ sender[s] = "off" /\ At(s, "looking")
    /\ UNCHANGED <<bobVars, parcels, read, filed>>

\* discover_app_addr returns the address of the record, which may outlive the node.
Discovered(s) ==
    /\ sender[s] = "looking" /\ At(s, "dialing")
    /\ UNCHANGED <<bobVars, parcels, read, filed>>

\* DISCOVERY_TIMEOUT without a record: the command fails, the relay is not tried.
DiscoveryTimesOut(s) ==
    /\ sender[s] = "looking" /\ At(s, "failed")
    /\ UNCHANGED <<bobVars, parcels, read, filed>>

\* The endpoint accepts one connection, ever; run_bob_quic_once sends the
\* bundle or fails without a prekey.
Dial(s) ==
    /\ sender[s] = "dialing" /\ node = "up" /\ task = "accept"
    /\ At(s, "greeted")
    /\ \/ /\ prekey
          /\ task' = "hello" /\ caller' = {s} /\ linked' = TRUE
          /\ parcels' = parcels \cup {<<"bundle", s>>}
          /\ UNCHANGED <<node, prekey, session>>
       \/ /\ ~prekey
          /\ NodeFails
          /\ UNCHANGED parcels
    /\ UNCHANGED <<read, filed>>

\* The QUIC handshake breaks off: incoming.await? ends Bob's task, and run_alice
\* fails.
DialBreaks(s) ==
    /\ sender[s] = "dialing" /\ node = "up" /\ task = "accept"
    /\ At(s, "relay")
    /\ node' = "failed" /\ task' = "hello" /\ caller' = {s}
    /\ UNCHANGED <<prekey, session, linked, parcels, read, filed>>

\* CHAT_CONNECT_TIMEOUT or a refused connection: run_alice fails.
DialFails(s) ==
    /\ sender[s] = "dialing" /\ At(s, "relay")
    /\ UNCHANGED <<bobVars, parcels, read, filed>>

\* The bundle: the contact is saved and the text goes out as initial message.
Tell(s) ==
    /\ sender[s] = "greeted" /\ <<"bundle", s>> \in parcels
    /\ At(s, "told")
    /\ parcels' = (parcels \ {<<"bundle", s>>}) \cup (IF linked THEN {<<"initial", s>>} ELSE {})
    /\ UNCHANGED <<bobVars, read, filed>>

\* The "ok": run_alice flushes its queue and enters chat_loop_alice.
Told(s) ==
    /\ sender[s] = "told" /\ <<"ok", s>> \in parcels
    /\ At(s, "chat")
    /\ parcels' = parcels \ {<<"ok", s>>}
    /\ UNCHANGED <<bobVars, read, filed>>

\* Mutation of FallBack: the wait for the "ok" does not end with the connection.
FallBackGreeted(s) ==
    /\ sender[s] = "greeted" /\ ~(linked /\ s \in caller)
    /\ At(s, "relay")
    /\ parcels' = parcels \ ({"bundle", "ok"} \X {s})
    /\ UNCHANGED <<bobVars, read, filed>>

\* An operation on the lost connection fails, or the flush and the chat loop
\* do: the same text is tried again through the relay.
FallBack(s) ==
    /\ \/ sender[s] \in Direct /\ ~(linked /\ s \in caller)
       \/ sender[s] = "chat"
    /\ At(s, "relay")
    /\ linked' = (linked /\ s \notin caller)
    /\ parcels' = parcels \ ({"bundle", "ok"} \X {s})
    /\ UNCHANGED <<node, prekey, session, task, caller, read, filed>>

\* chat_loop_alice returns.
LeaveDirect(s) ==
    /\ sender[s] = "chat" /\ At(s, "left")
    /\ linked' = (linked /\ s \notin caller)
    /\ UNCHANGED <<node, prekey, session, task, caller, parcels, read, filed>>

-----------------------------------------------------------------------------
(* The sender: run_alice_relayed                                            *)

\* ConnectionEstablished through the relay: the bundle is requested once.
RelayAsk(s) ==
    /\ sender[s] = "relay" /\ node = "up"
    /\ At(s, "relay_asked")
    /\ parcels' = parcels \cup {<<"ask", s>>}
    /\ UNCHANGED <<bobVars, read, filed>>

RelayTell(s) ==
    /\ sender[s] = "relay_asked" /\ <<"relayed_bundle", s>> \in parcels
    /\ At(s, "relay_told")
    /\ parcels' = (parcels \ {<<"relayed_bundle", s>>}) \cup {<<"relayed_initial", s>>}
    /\ UNCHANGED <<bobVars, read, filed>>

\* Ack ends the command with success, Error with a failure.
RelayAnswered(s) ==
    /\ sender[s] = "relay_told"
    /\ \E answer \in {"ack", "error"} :
          /\ <<answer, s>> \in parcels
          /\ At(s, IF answer = "ack" THEN "done" ELSE "failed")
          /\ parcels' = parcels \ {<<answer, s>>}
    /\ UNCHANGED <<bobVars, read, filed>>

\* OutboundFailure or DISCOVERY_TIMEOUT; what Bob is still to get may arrive.
RelayFails(s) ==
    /\ sender[s] \in Relayed
    /\ At(s, "failed")
    /\ UNCHANGED <<bobVars, parcels, read, filed>>

-----------------------------------------------------------------------------
(* Bob                                                                      *)

\* Mutation of Opened: the prekey is not taken.
OpenedAgain(s) ==
    /\ session' = {s}
    /\ read' = [read EXCEPT ![s] = @ + 1]
    /\ UNCHANGED prekey

\* decrypt_initial_message with the prekey: it is spent and the session replaced.
Opened(s) ==
    /\ prekey' = FALSE /\ session' = {s}
    /\ read' = [read EXCEPT ![s] = @ + 1]

\* The initial message on the QUIC connection.
DirectInitial(s) ==
    /\ node = "up" /\ task = "hello" /\ <<"initial", s>> \in parcels
    /\ parcels' = parcels \ {<<"initial", s>>}
    /\ \/ prekey /\ Opened(s) /\ task' = "opened" /\ UNCHANGED <<node, caller, linked>>
       \/ ~prekey /\ NodeFails /\ UNCHANGED read
    /\ UNCHANGED <<sender, filed>>

\* persist_chat_message, then "ok"; chat_loop_bob_shared starts.
DirectFiled(s) ==
    /\ node = "up" /\ task = "opened" /\ s \in caller
    /\ filed' = filed \cup {s}
    /\ task' = "chat"
    /\ parcels' = IF linked THEN parcels \cup {<<"ok", s>>} ELSE parcels
    /\ UNCHANGED <<node, prekey, session, caller, linked, sender, read>>

\* The text is kept, the answer finds the connection closed: the task fails.
DirectFiledFails(s) ==
    /\ node = "up" /\ task = "opened" /\ s \in caller /\ ~linked
    /\ filed' = filed \cup {s}
    /\ NodeFails
    /\ UNCHANGED <<sender, parcels, read>>

\* The connection is lost before the initial message: the task fails.
DirectLost ==
    /\ node = "up" /\ task = "hello" /\ ~linked
    /\ \A s \in caller : <<"initial", s>> \notin parcels
    /\ NodeFails
    /\ UNCHANGED <<sender, parcels, read, filed>>

\* PreKeyBundle over the relay; prekey_bundle()? leaves the event loop without one.
BundleAsked(s) ==
    /\ node = "up" /\ <<"ask", s>> \in parcels
    /\ \/ /\ prekey
          /\ parcels' = (parcels \ {<<"ask", s>>}) \cup {<<"relayed_bundle", s>>}
          /\ UNCHANGED bobVars
       \/ /\ ~prekey
          /\ parcels' = parcels \ {<<"ask", s>>}
          /\ NodeFails
    /\ UNCHANGED <<sender, read, filed>>

\* InitialMessage over the relay: the text is printed, not saved; an error is
\* answered and the node goes on.
RelayedInitial(s) ==
    /\ node = "up" /\ <<"relayed_initial", s>> \in parcels
    /\ \/ /\ prekey /\ Opened(s)
          /\ parcels' = (parcels \ {<<"relayed_initial", s>>}) \cup {<<"ack", s>>}
       \/ /\ ~prekey
          /\ parcels' = (parcels \ {<<"relayed_initial", s>>}) \cup {<<"error", s>>}
          /\ UNCHANGED <<prekey, session, read>>
    /\ UNCHANGED <<node, task, caller, linked, sender, filed>>

\* Ctrl+C, or the user leaves the chat.
UserStops ==
    /\ node = "up"
    /\ node' = "stopped" /\ linked' = FALSE
    /\ UNCHANGED <<prekey, session, task, caller, sender, parcels, read, filed>>

\* The QUIC connection is lost, with any part of what was under way on it.
LinkBreaks ==
    /\ linked /\ linked' = FALSE
    /\ \E lost \in SUBSET (parcels \cap ({"bundle", "initial", "ok"} \X caller)) :
          parcels' = parcels \ lost
    /\ UNCHANGED <<node, prekey, session, task, caller, sender, read, filed>>

-----------------------------------------------------------------------------
\* What a sender's command does by itself, its timeouts included.
SenderStep(s) ==
    \/ Discovered(s) \/ DiscoveryTimesOut(s)
    \/ Dial(s) \/ DialBreaks(s) \/ DialFails(s)
    \/ Tell(s) \/ Told(s) \/ FallBack(s)
    \/ RelayAsk(s) \/ RelayTell(s) \/ RelayAnswered(s) \/ RelayFails(s)

\* What Bob's two tasks do by themselves.
BobStep ==
    \/ DirectLost
    \/ \E s \in Senders : \/ DirectInitial(s) \/ DirectFiled(s) \/ DirectFiledFails(s)
                          \/ BundleAsked(s) \/ RelayedInitial(s)

NodeNext ==
    \/ BobStep \/ UserStops \/ LinkBreaks
    \/ \E s \in Senders : Start(s) \/ SenderStep(s) \/ LeaveDirect(s)

-----------------------------------------------------------------------------
(* Properties                                                               *)

(* The types, and which stages of the task have a caller.                   *)
NodeTypeOK ==
    /\ node \in {"up", "stopped", "failed"}
    /\ prekey \in BOOLEAN /\ linked \in BOOLEAN
    /\ task \in {"accept", "hello", "opened", "chat"}
    /\ Cardinality(session) <= 1 /\ session \subseteq Senders
    /\ caller \subseteq Senders
    /\ Cardinality(caller) = IF task = "accept" THEN 0 ELSE 1
    /\ sender \in [Senders -> {"off", "looking", "dialing", "chat"} \cup Direct \cup Relayed \cup Final]
    /\ read \in [Senders -> Nat] /\ filed \subseteq Senders

(* A text that was sent over QUIC and again over the relay, because its     *)
(* acknowledgement was lost or its chat broke, is decrypted once; and a     *)
(* sender that reports success was read: in its chat the text is in Bob's   *)
(* history, after the relay's acknowledgement it was at least shown.        *)
TextReadOnce ==
    \A s \in Senders :
        /\ read[s] <= 1
        /\ sender[s] = "chat" => s \in filed
        /\ sender[s] = "done" => read[s] = 1

(* The session under the QUIC chat is with its caller: nothing that comes   *)
(* through the relay replaces it.                                           *)
SessionIsCallers == task \in {"opened", "chat"} => session = caller

(* Every alice command comes to an end or to a chat: it never waits without *)
(* a timer or a connection that answers or breaks.                          *)
SenderEnds ==
    \A s \in Senders : sender[s] = "looking" ~> sender[s] \in Final \cup {"chat"}
=============================================================================
