---------------------------- MODULE ChatCommands ----------------------------
(***************************************************************************)
(* The two ways the command line starts a QUIC chat (main in                *)
(* src/src/main.rs): chat-bob and chat-alice, the LAN chat of QuicChat, and *)
(* bob and alice, the node of PeerNode whose chats continue as there.       *)
(***************************************************************************)
EXTENDS QuicChat, PeerNode

VARIABLE command    \* "lan" or "node"

commandVars == <<command, vars, nodeVars>>

CommandInit == command \in {"lan", "node"} /\ Init /\ NodeInit

Lan(A)  == command = "lan" /\ A /\ UNCHANGED <<command, nodeVars>>
Node(A) == command = "node" /\ A /\ UNCHANGED <<command, vars>>

CommandNext == Lan(Next) \/ Node(NodeNext)

(* The event loops run and the timers fire; users are free.                 *)
CommandSpec ==
    /\ CommandInit /\ [][CommandNext]_commandVars
    /\ WF_commandVars(Lan(Handshake))
    /\ \A p \in Sides : WF_commandVars(Lan(Handle(p)))
    /\ WF_commandVars(Node(BobStep))
    /\ \A s \in Senders : WF_commandVars(Node(SenderStep(s)))

(* The types of both ways; a chat or a node runs only in its own command.   *)
CommandTypeOK ==
    /\ TypeOK /\ NodeTypeOK
    /\ command = "node" => mode = [p \in Sides |-> "off"]
    /\ command = "lan" => task = "accept"
=============================================================================
