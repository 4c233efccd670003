-------------------------- MODULE ReliableDelivery --------------------------
(***************************************************************************)
(* What a delivery service with a durable queue promises, without saying    *)
(* how: README.md speaks of a "Durable outbox with ACK, retry,              *)
(* deduplication".  A message that is issued is tracked by its sender until *)
(* its reader holds it; it reaches its reader once; only a user who erases  *)
(* a conversation may lift either promise.                                  *)
(*                                                                         *)
(* ChatDelivery implements this specification with what the reader has      *)
(* stored, DeviceOutbox only with what the receiver has recorded as         *)
(* accepted.                                                                *)
(***************************************************************************)
EXTENDS Naturals

CONSTANTS
    Messages,
    Parties,
    Author          \* the party that issues each message

VARIABLES
    issued,         \* messages that exist
    tracked,        \* messages their sender will send again
    copies,         \* how often each message has reached its reader
    forgotten,      \* messages their reader has erased
    erasures        \* how often a user has erased a conversation

dvars == <<issued, tracked, copies, forgotten, erasures>>

DInit ==
    /\ issued = {} /\ tracked = {} /\ forgotten = {}
    /\ copies = [m \in Messages |-> 0]
    /\ erasures = 0

Arrived(m) == copies[m] > 0

\* The sender issues m and is bound to deliver it ...
Issue(m) ==
    /\ m \notin issued
    /\ issued' = issued \cup {m}
    /\ tracked' = tracked \cup {m}
    /\ UNCHANGED <<copies, forgotten, erasures>>

\* ... or stops before it is bound.
IssueUntracked(m) ==
    /\ m \notin issued
    /\ issued' = issued \cup {m}
    /\ UNCHANGED <<tracked, copies, forgotten, erasures>>

Arrive(m) ==
    /\ m \in issued
    /\ ~Arrived(m) \/ m \in forgotten
    /\ copies' = [copies EXCEPT ![m] = @ + 1]
    /\ UNCHANGED <<issued, tracked, forgotten, erasures>>

\* The sender is released from a message that has arrived.
Settle(m) ==
    /\ m \in tracked /\ Arrived(m)
    /\ tracked' = tracked \ {m}
    /\ UNCHANGED <<issued, copies, forgotten, erasures>>

\* A user erases a conversation: some of what p has read, and perhaps all that
\* p has still to deliver.
Erase(p) ==
    /\ erasures' = erasures + 1
    /\ tracked' \in {tracked, {m \in tracked : Author[m] # p}}
    /\ \E F \in SUBSET {m \in Messages : Author[m] # p /\ Arrived(m)} :
           forgotten' = forgotten \cup F
    /\ UNCHANGED <<issued, copies>>

DNext ==
    \/ \E m \in Messages : \/ Issue(m) \/ IssueUntracked(m)
                           \/ Arrive(m) \/ Settle(m)
    \/ \E p \in Parties : Erase(p)

DSpec == DInit /\ [][DNext]_dvars

=============================================================================
