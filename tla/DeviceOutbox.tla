---------------------------- MODULE DeviceOutbox ----------------------------
(***************************************************************************)
(* The durable outbox of src/src/storage.rs and its two writers in          *)
(* src/src/main.rs: the conversation whose sender queues ciphertext and     *)
(* retries it after a restart (run_outbox_demo,                             *)
(* deliver_outbox_item_to_bob) and the fan-out of a line over one session   *)
(* per certified device (run_device_fanout_demo,                            *)
(* run_device_revocation_demo).  Both put the ratchet and the outbox row in *)
(* one transaction of the sender's database.                                *)
(*                                                                         *)
(* The sender and the peer of the conversation stop anywhere and come back  *)
(* with their databases.  The fan-out is a command of its own, whose        *)
(* database is in memory and whose identities are drawn anew in every run:  *)
(* when it stops nothing of it goes on, so its part of the state is one     *)
(* run.  The rows it writes to device_pair_sessions are read by no command. *)
(*                                                                         *)
(* A payload that was attempted once may arrive any number of times, late,  *)
(* out of order or damaged, or never, and so may an acknowledgement: the    *)
(* faults of the FaultInjector in src/src/lib.rs.                           *)
(***************************************************************************)
EXTENDS RatchetChain

CONSTANTS
    Peer,           \* the receiver of the conversation, bob in the code
    Devices,        \* the devices of the account that is written to
    Lines,          \* <<recipient, message>> pairs the sender's user writes
    MaxStops,       \* bound on stops of the peer and of the sender
    MaxDamaged      \* bound on damaged copies

Recipients == {Peer} \cup Devices

ASSUME OutboxAssumption ==
    /\ Peer \notin Devices
    /\ IsFiniteSet(Lines)
    /\ \A l \in Lines : \E r \in Recipients : l[1] = r
    /\ MaxStops \in Nat /\ MaxDamaged \in Nat

VARIABLES
    \* the sender's memory
    session,    \* its ratchet with each recipient
    open,       \* bob_sessions: the devices the fan-out has a session for
    sealed,     \* the line encrypted and not yet committed, at most one
    \* the sender's database
    saved,      \* local_identity, and device_pair_sessions (never read back)
    status,     \* outbox.status, "none" when there is no row
    number,     \* the message number inside the row's payload
    certified,  \* device_certificates
    revoked,    \* device_revocations
    \* the receivers
    inbound,    \* each receiver's ratchet in memory
    kept,       \* the peer's ratchet in local_identity
    accepted,   \* the peer's accepted_messages
    stored,     \* the lines in the peer's messages
    hand,       \* the envelope deliver_outbox_item_to_bob works on, at most one
    \* the network
    wire,       \* lines that were attempted
    acks,       \* lines that were acknowledged
    \* bookkeeping of the model
    opened,     \* how often each line was decrypted
    stops, damaged

memory   == <<session, open, sealed>>
database == <<saved, status, number, certified, revoked>>
receiver == <<inbound, kept, accepted, stored, hand>>
vars     == <<memory, database, receiver, wire, acks, opened, stops, damaged>>

\* The rows of one line for several devices are told apart by the recipient.
To(l) == l[1]

\* outbox_item and pending_outbox_items.
Queued  == {l \in Lines : status[l] # "none"}
Pending == {l \in Lines : status[l] = "pending"}

Init ==
    /\ session = [r \in Recipients |-> NewChain]
    /\ open = {} /\ sealed = {}
    /\ saved = [r \in Recipients |-> NewChain]
    /\ status = [l \in Lines |-> "none"]
    /\ number = [l \in Lines |-> 0]
    /\ certified = {} /\ revoked = {}
    /\ inbound = [r \in Recipients |-> NewChain]
    /\ kept = NewChain
    /\ accepted = {} /\ stored = {} /\ hand = {}
    /\ wire = {} /\ acks = {}
    /\ opened = [l \in Lines |-> 0]
    /\ stops = 0 /\ damaged = 0

-----------------------------------------------------------------------------
(* The devices of an account                                                *)

\* AccountIdentity::authorize_device: every certificate is a genuine one.
WithCertificate(d) == certified \cup {d}

\* authorize_device and persist_phase_5a_identity.
AuthorizeDevice(d) ==
    /\ d \notin certified
    /\ certified' = WithCertificate(d)
    /\ UNCHANGED <<memory, saved, status, number, revoked, receiver, wire, acks,
                   opened, stops, damaged>>

\* save_device_revocation: one row for a device, whatever its counter.
WithRevocation(d) == revoked \cup {d}

\* revoke_device, verify_device_revocation and save_device_revocation: the
\* certificate stays, the sessions and the outbox are not looked at.
RevokeDevice(d) ==
    /\ d \in certified
    /\ revoked' = WithRevocation(d)
    /\ UNCHANGED <<memory, saved, status, number, certified, receiver, wire, acks,
                   opened, stops, damaged>>

\* Mutation of ActiveDevices: every certificate counts.
ActiveDevicesAll == certified

\* active_device_certificates over what the sender has stored.
ActiveDevices == certified \ revoked

\* create_outbound_session: a new ratchet, whatever device_pair_sessions holds.
SessionWith(d) == NewChain

\* A session for every active device that has none; bob_sessions keeps the one
\* it has for as long as the command runs.
OpenSessions ==
    /\ ActiveDevices \ open # {}
    /\ open' = open \cup ActiveDevices
    /\ session' = [r \in Recipients |->
                      IF r \in ActiveDevices \ open THEN SessionWith(r) ELSE session[r]]
    /\ UNCHANGED <<sealed, database, receiver, wire, acks, opened, stops, damaged>>

-----------------------------------------------------------------------------
(* The sender                                                               *)

\* The ratchet of the recipient advances in memory.
Seal(l) ==
    /\ sealed = {} /\ status[l] = "none"
    /\ sealed' = {l}
    /\ session' = [session EXCEPT ![To(l)] = Encrypted(@)]
    /\ UNCHANGED <<open, database, receiver, wire, acks, opened, stops, damaged>>

\* encrypt_for_bob and the envelope around its ciphertext.
EncryptForPeer(l) == To(l) = Peer /\ Seal(l)

\* DeviceSession::encrypt, for a device there is a session with.
EncryptForDevice(l) == To(l) \in open /\ Seal(l)

\* Mutation of Committed: the row is written without the ratchet.
CommittedRowOnly(r) == saved

\* The ratchet that a transaction saves together with the row.
Committed(r) == [saved EXCEPT ![r] = session[r]]

\* One transaction: the ratchet and the row.
Commit(l) ==
    /\ l \in sealed
    /\ sealed' = {}
    /\ saved' = Committed(To(l))
    /\ status' = [status EXCEPT ![l] = "pending"]
    /\ number' = [number EXCEPT ![l] = session[To(l)].send - 1]
    /\ UNCHANGED <<session, open, certified, revoked, receiver, wire, acks, opened,
                   stops, damaged>>

\* save_state_session_message_and_outbox.
QueueForPeer(l) == To(l) = Peer /\ Commit(l)

\* encrypt_and_queue_device_delivery: save_device_pair_session_and_outbox.
QueueForDevice(l) == To(l) \in Devices /\ Commit(l)

\* Mutation of Attempted: the row is settled once it has been sent.
AttemptedIsDelivered(l) == [status EXCEPT ![l] = "delivered"]

\* record_outbox_attempt counts the attempt and leaves the status alone.
Attempted(l) == status

\* One turn of the retry loop over pending_outbox_items, up to the network.
Attempt(l) ==
    /\ l \in Pending \ wire
    /\ status' = Attempted(l)
    /\ wire' = wire \cup {l}
    /\ UNCHANGED <<memory, saved, number, certified, revoked, receiver, acks, opened,
                   stops, damaged>>

\* mark_outbox_delivered.
Delivered(l) == [status EXCEPT ![l] = "delivered"]

HandleAck(l) ==
    /\ l \in acks
    /\ status' = Delivered(l)
    /\ UNCHANGED <<memory, saved, number, certified, revoked, receiver, wire, acks,
                   opened, stops, damaged>>

\* The sender of the conversation stops and comes back with Alice::from_state; a
\* line it had encrypted and not committed is gone.
SenderRestarts ==
    /\ stops < MaxStops
    /\ stops' = stops + 1
    /\ session' = [session EXCEPT ![Peer] = saved[Peer]]
    /\ sealed' = {l \in sealed : To(l) # Peer}
    /\ UNCHANGED <<open, database, receiver, wire, acks, opened, damaged>>

-----------------------------------------------------------------------------
(* The peer: deliver_outbox_item_to_bob                                     *)

\* Mutation of AcceptedBefore: accept_message_once is not asked.
AcceptedBeforeNever(l) == FALSE

\* accept_message_once finds the marker.
AcceptedBefore(l) == l \in accepted

\* accept_message_once commits on its own, before the envelope is decrypted ...
Accept(l, intact) ==
    /\ l \in wire /\ To(l) = Peer /\ hand = {}
    /\ ~AcceptedBefore(l)
    /\ intact \/ damaged < MaxDamaged
    /\ accepted' = accepted \cup {l}
    /\ hand' = {[line |-> l, intact |-> intact, at |-> "accepted"]}
    /\ damaged' = IF intact THEN damaged ELSE damaged + 1
    /\ UNCHANGED <<memory, database, inbound, kept, stored, wire, acks, opened, stops>>

\* ... and a duplicate is acknowledged without being looked at.
AcceptDuplicate(l) ==
    /\ l \in wire /\ To(l) = Peer /\ hand = {}
    /\ AcceptedBefore(l)
    /\ acks' = acks \cup {l}
    /\ UNCHANGED <<memory, database, receiver, wire, opened, stops, damaged>>

Opens(h) == h.intact /\ Outcome(inbound[Peer], number[h.line]) = "Key"

\* decrypt_from_alice: the ratchet advances in memory.
Open(h) ==
    /\ h \in hand /\ h.at = "accepted" /\ Opens(h)
    /\ hand' = {[h EXCEPT !.at = "opened"]}
    /\ inbound' = [inbound EXCEPT ![Peer] = Opened(@, number[h.line])]
    /\ opened' = [opened EXCEPT ![h.line] = @ + 1]
    /\ UNCHANGED <<memory, database, kept, accepted, stored, wire, acks, stops, damaged>>

\* Its error leaves the function and the program with `?`: the peer starts
\* again with the ratchet it saved last.
OpenFails(h) ==
    /\ h \in hand /\ h.at = "accepted" /\ ~Opens(h)
    /\ hand' = {}
    /\ inbound' = [inbound EXCEPT ![Peer] = kept]
    /\ UNCHANGED <<memory, database, kept, accepted, stored, wire, acks, opened,
                   stops, damaged>>

\* Mutation of Persisted: the message is saved without the ratchet.
PersistedMessageOnly == kept

\* The identity and session columns of save_state_session_and_insert_message.
Persisted == inbound[Peer]

\* Mutation of Persist: the transaction leaves the message out.
PersistRatchetOnly(h) ==
    /\ h \in hand /\ h.at = "opened"
    /\ hand' = {}
    /\ kept' = Persisted
    /\ acks' = acks \cup {h.line}
    /\ UNCHANGED <<memory, database, inbound, accepted, stored, wire, opened, stops,
                   damaged>>

\* persist_actor_message, one transaction, and the acknowledgement.
Persist(h) ==
    /\ h \in hand /\ h.at = "opened"
    /\ hand' = {}
    /\ kept' = Persisted
    /\ stored' = stored \cup {h.line}
    /\ acks' = acks \cup {h.line}
    /\ UNCHANGED <<memory, database, inbound, accepted, wire, opened, stops, damaged>>

\* The peer stops anywhere and comes back with Bob::from_state.
PeerRestarts ==
    /\ stops < MaxStops
    /\ stops' = stops + 1
    /\ inbound' = [inbound EXCEPT ![Peer] = kept]
    /\ hand' = {}
    /\ UNCHANGED <<memory, database, kept, accepted, stored, wire, acks, opened, damaged>>

-----------------------------------------------------------------------------
(* The devices: DeviceSession::decrypt, with no accepted_messages           *)

DeviceOpens(l, intact) ==
    intact /\ Outcome(inbound[To(l)], number[l]) = "Key"

\* An envelope for another device is refused by its ids and changes nothing;
\* the sender takes a plaintext for the acknowledgement.
DeviceReceive(l, intact) ==
    /\ l \in wire /\ To(l) \in Devices
    /\ intact \/ damaged < MaxDamaged
    /\ inbound' = [inbound EXCEPT ![To(l)] =
                      IF DeviceOpens(l, intact) THEN Opened(@, number[l])
                      ELSE Selected(@, number[l])]
    /\ opened' = IF DeviceOpens(l, intact) THEN [opened EXCEPT ![l] = @ + 1] ELSE opened
    /\ acks' = IF DeviceOpens(l, intact) THEN acks \cup {l} ELSE acks
    /\ damaged' = IF intact THEN damaged ELSE damaged + 1
    /\ UNCHANGED <<memory, database, kept, accepted, stored, hand, wire, stops>>

-----------------------------------------------------------------------------
Next ==
    \/ \E d \in Devices : AuthorizeDevice(d) \/ RevokeDevice(d)
    \/ OpenSessions
    \/ \E l \in Lines :
          \/ EncryptForPeer(l) \/ EncryptForDevice(l)
          \/ QueueForPeer(l) \/ QueueForDevice(l)
          \/ Attempt(l) \/ HandleAck(l)
          \/ AcceptDuplicate(l)
          \/ \E intact \in BOOLEAN : Accept(l, intact) \/ DeviceReceive(l, intact)
    \/ \E h \in hand : Open(h) \/ OpenFails(h) \/ Persist(h)
    \/ SenderRestarts \/ PeerRestarts

Spec == Init /\ [][Next]_vars

-----------------------------------------------------------------------------
(* Properties                                                               *)

Hand ==
    [line : Lines, intact : BOOLEAN, at : {"accepted", "opened"}]

(* The types, what the two one-element sets stand for, and the limit of     *)
(* skipped keys on every receiver's ratchet, in memory and saved.           *)
TypeOK ==
    /\ session \in [Recipients -> Chain] /\ saved \in [Recipients -> Chain]
    /\ inbound \in [Recipients -> Chain] /\ kept \in Chain
    /\ \A r \in Recipients : Cardinality(inbound[r].skipped) <= MaxSkipped
    /\ Cardinality(kept.skipped) <= MaxSkipped
    /\ open \subseteq certified /\ certified \subseteq Devices /\ revoked \subseteq certified
    /\ sealed = {} \/ \E l \in Lines : sealed = {l}
    /\ hand = {} \/ \E h \in Hand : hand = {h}
    /\ status \in [Lines -> {"none", "pending", "delivered"}]
    /\ number \in [Lines -> Nat] /\ opened \in [Lines -> Nat]
    /\ wire \subseteq Queued /\ acks \subseteq wire
    /\ stored \subseteq accepted
    /\ accepted \subseteq {l \in wire : To(l) = Peer}
    /\ stops \in 0 .. MaxStops /\ damaged \in 0 .. MaxDamaged

(* Two rows for one recipient never carry the same message number.  The     *)
(* conversation stops between encrypting and committing, encrypts again     *)
(* with the number it had, and goes on from the ratchet it saved with the   *)
(* last row; the fan-out goes on from the one session of its run, however   *)
(* certificates, revocations and lines come in between.                     *)
NumbersFresh ==
    \A k, l \in Queued :
        To(k) = To(l) /\ number[k] = number[l] => k = l

(* No line is decrypted twice by its receiver, across retries, duplicates   *)
(* and restarts that take the receiver's ratchet back.                      *)
OpenedOnce == \A l \in Lines : opened[l] <= 1

(* The peer's lines that are recorded as accepted, and will be acknowledged *)
(* as duplicates, without having been stored.                               *)
Unread == accepted \ (stored \cup {h.line : h \in hand})

Older(l) == {k \in Queued : To(k) = To(l) /\ number[k] < number[l]}

(* Whether line l comes too far ahead of the lines its receiver misses.     *)
TooFar(l) == Cardinality(Older(l) \ stored) > MaxSkipped

(* A line the peer has not accepted yet opens on the ratchet it will be     *)
(* tried on, the saved one or the one in memory: numbers that were rolled   *)
(* back or stepped over are never taken for replays, and only lines that    *)
(* are missing before it count against the limit of skipped keys.           *)
NewLineOpens ==
    \A l \in Queued \ accepted : To(l) = Peer /\ ~TooFar(l) =>
        \A c \in {kept, inbound[Peer]} : Outcome(c, number[l]) = "Key"

(* A line is recorded as accepted and never read only if the peer stopped   *)
(* with it in hand, its first copy was damaged, or it came too far ahead;   *)
(* every other line that is acknowledged is in the peer's history.          *)
UnreadOnlyByFault ==
    [][\A l \in Unread' \ Unread :
          \/ stops' > stops
          \/ \E h \in hand : ~h.intact
          \/ TooFar(l)]_vars

(* The outbox as a delivery service, where a line has arrived at the peer   *)
(* once it is recorded as accepted, and at a device once it is decrypted.   *)
Service == INSTANCE ReliableDelivery WITH
    Messages  <- Lines,
    Parties   <- {},
    Author    <- [l \in Lines |-> To(l)],
    issued    <- Queued,
    tracked   <- Pending,
    copies    <- [l \in Lines |-> IF To(l) # Peer THEN opened[l]
                                  ELSE IF l \in accepted THEN 1 ELSE 0],
    forgotten <- {},
    erasures  <- 0

(* "Durable outbox with ACK, retry, deduplication": a row is pending from   *)
(* the transaction that creates it until its receiver has recorded the      *)
(* line, whatever stops, and no line is recorded twice.                     *)
DeliversReliably == Service!DSpec

(* A device that is revoked while the sender has no session for it gets no  *)
(* session and no new row, ever.                                            *)
RevokedStaysOut ==
    [][\A d \in revoked \ open :
          /\ d \notin open'
          /\ \A l \in Lines : To(l) = d /\ status[l] = "none" /\ l \notin sealed
                                  => status'[l] = "none" /\ l \notin sealed']_vars
=============================================================================
