# CipherMesh: TLA+ models and proofs

CipherMesh is a peer-to-peer encrypted chat: two peers pair with a six-character
code, talk over libp2p (direct or relayed) or over QUIC on a LAN, keep their
history and cryptographic state in SQLite, and bring the devices of one account
to the same history. This directory holds TLA+ modules that model the parts of
the program whose correctness depends on ordering, loss, retries and crashes,
TLC configurations that check them on small instances, and TLAPS proofs that
hold for every instance. `PROJECT.json` names, for every definition, the source
lines it stands for.

To check: `tlc -config X.cfg Module` for a run of the tables below, and
`tlapm XProofs.tla` for each of the eight modules of proofs (section 5).

## 1. Inventory

| component | state | operations | interacts with |
|---|---|---|---|
| relayed chat (`pairing.rs` `run_pairing_chat`, handlers) | `online`, ratchet in memory; `messages`, `pending_peer_messages`, identity rows | type a line, receive a frame, receive an ack, request failure, connection up/down, relay retry, leave, /clear, delete | libp2p request/response, `storage.rs`, the ratchet |
| ratchet session (`lib.rs` `RatchetSession`) | root, two chain keys, counters, skipped keys, consumed numbers | encrypt, decrypt, rotate, receive a rotation | called by every chat |
| rendezvous (`pairing.rs` `run_public_service_swarm`, `run_create_invite_at`, `run_join_invite_at`) | `invitations`, `reserved_peers`; locals of the inviter and the joiner; one-time prekey | reserve, register, resolve, hand out the bundle, initial message, ack, timers | relay events, the chat it ends in |
| offline mailbox (`mailbox_storage.rs`, `main.rs`) | `mailbox_envelopes`; the reader's `accepted_messages`, `messages` | deposit, fetch, acknowledge, expire | short-lived commands over request/response |
| QUIC chat (`main.rs` `chat_loop_*`, `flush_pending_messages_*`) | flags of the loop, flush position; the same tables as the relayed chat | handshake, flush with ack wait, receive, type, queue, disconnect | QUIC streams |
| event history and sync (`storage.rs`, `main.rs` `sync_authorized_sibling_devices`) | `device_counters`, `event_history`, `version_vectors`, revocations | take a counter, append, refresh a vector, sync round, revoke, delete a conversation | the stores of two devices |
| materialization (`crdt.rs`) | messages, tombstones, reaction adds and removals, read frontiers | apply one event of each kind | the event history |
| peer node (`main.rs` `run_bob`, `run_alice_discovered`, `run_alice_relayed`) | one Bob with one one-time prekey behind a mutex, one QUIC task, one relay task; a sender's progress | look up, dial, bundle, initial message, ok, fall back to the relay, end | the QUIC chat, libp2p request/response |
| outbox and device fanout (`main.rs`, `storage.rs`, `lib.rs` `DeviceSession`) | `outbox`, `local_identity`, `device_pair_sessions`, `accepted_messages`, certificates and revocations | authorize, revoke, open sessions, encrypt, queue, attempt, accept, decrypt, persist, ack, restart | the ratchet, the faults of `FaultInjector` |
| LAN invites, contacts, profiles, terminal, demos, packaging | | | not modelled, section 8 |

What is hard here, and hard to test:

* **Several writes per handler.** SQLite statements outside a transaction are
  separate commits; a process may die between any two of them.
* **Loss nobody is told about.** What is in flight on a connection disappears
  with it, acknowledgements included, so a retry is always a retry of something
  that may have arrived. Each retry is encrypted again and uses a number.
* **Overlapping connections.** A relayed and a direct connection coexist, an old
  one is noticed dead after the new one is up, on both ends at different times.
* **Two parties in different phases.** One side is already in the chat while the
  other still waits for the pairing acknowledgement; both flush at once.
* **Bounded memory.** Skipped keys, mailbox capacity, invite lifetimes.
* **Two ways to one peer.** A text tried over QUIC is tried again over a relay,
  and both ways end at one Bob with one prekey and one session.
* **Memory ahead of the database.** A ratchet that advanced in memory is lost
  with the process and comes back older than the messages it produced.
* **Vectors that summarise.** A version vector claims a prefix of events; a claim
  that is too large hides an event for ever.

The hazards these lead to are listed with their lines in `PROJECT.json`, each
with the properties that would catch it or a note why none does.

## 2. Modules

| module | models | checked by |
|---|---|---|
| `RatchetChain` | one direction pair of a session: counters, skipped, consumed, the outcome of `decrypt` | (used by `Ratchet`, `ChatDelivery`, `DeviceOutbox`) |
| `Ratchet` | two ends with rotation over a network that loses, delays, reorders, repeats and damages | `MCRatchet`, `RatchetProofs` |
| `ReliableDelivery` | abstract: what a delivery service with a durable queue promises | refined by the next two and `QuicChat` |
| `ChatDelivery` | two chats, their databases, connections and frames | `MCChatDelivery`, `ChatDeliveryProofs` |
| `DeviceOutbox` | the outbox, its sender, a receiver with deduplication and devices without | `MCDeviceOutbox`, `DeviceOutboxProofs` |
| `Rendezvous` | service, inviters, joiners | `MCRendezvous`, `RendezvousProofs` |
| `Mailbox` | mailbox node, depositing and fetching commands | `MCMailbox`, `MailboxProofs` |
| `QuicChat` | two sides of the LAN chat | `MCQuicChat`, `ChatCommandsProofs` |
| `PeerNode` | Bob's node with its two tasks, and its senders | `MCQuicChat`, `ChatCommandsProofs` |
| `ChatCommands` | the command line's choice between the two | `MCQuicChat`, `ChatCommandsProofs` |
| `EventSync` | stores of an account's devices and the sync round | `MCEventSync`, `EventSyncProofs` |
| `Crdt` | replicas applying conversation events | `MCCrdt`, `CrdtProofs` |

Definitions that no other definition uses, marked "mutant" or standing right
before the definition they vary, are deliberate mistakes: with one of them in place of the
real definition the named property fails, which shows that the property depends
on that piece of code.

### How state and steps correspond to the code

Every peer is one asynchronous task that handles one event to its end, so one
handler is one action and the actions of different processes interleave. A kill
inside a handler is an action of its own, with a name ending in `Crash` or
`Stop`, that performs a proper prefix of the handler's writes and then drops the
process's memory. Database variables survive such a step; memory and connections
do not.

**ChatDelivery.** `mode` says which loop a peer is in, `online` and `conns` are
its flag and the connections it has been told of, `alive` the ones that still
carry data. `chain` is the ratchet in memory: `load_or_create_*_identity` never
restores the session, so leaving and re-pairing starts a new one. `pending` and
`history` are the two tables. `TypeOnline` is `prepare_frame`, `track_pending...`
and the send; `TypeOnlineCrash` stops between them. `ConnectionEstablished`
includes `send_pending`, which encrypts all pending rows in some order
(`Numberings`: rows of one second come back by hash id). `DropWhileJoining` is
the `_ => {}` arm of `wait_for_join_ack_and_chat`. The peer ids of the two roles
are derived from different identity files, so a peer that is Alice in one pairing
and Bob in another has two unrelated conversations; the model has one.
`typed`, `shown`, `orphaned`, `wiped` and the counters are history
variables of the model: no guard of a program step except a bound reads them.

**ReliableDelivery.** A message is issued and tracked, or issued and not tracked;
it arrives, at most once unless its reader erased it; it is settled only after it
arrived; a user may erase. The three refinements differ in what "arrived" means,
and the difference is the point: in `ChatDelivery` and `QuicChat` it is the row in
the reader's `messages`, in `DeviceOutbox` it is only the reader's record that it
accepted the id (a device's decryption), because that is all an acknowledgement
vouches for there.

**DeviceOutbox.** `run_outbox_demo` and `run_device_fanout_demo` write to one
table, each in a database of its own; the model has both as one sender with a
conversation peer and devices as recipients. The conversation's database is a
file, and its sender comes back from it with `Alice::from_state`. The fan-out's
is in memory and its identities are new in every run: it opens one session per
certified device with `create_outbound_session`, at number 0 (`SessionWith`),
and keeps it in `bob_sessions` until it ends, so a stop ends its story and
`SenderRestarts` is the conversation's. The rows of `device_pair_sessions` are
written with each line and read by no command (section 3). Encryption (memory)
and the transaction that saves ratchet and row are two steps, and so are the
receiver's acceptance, decryption and persistence; sender and receiver stop
between any of them. A payload that was attempted once may arrive any number of
times, at any time, intact or damaged. A decryption error leaves
`deliver_outbox_item_to_bob` and the program by `?`, so `OpenFails` is a restart
from the saved ratchet; the devices' sessions stay in memory and keep what the
failed attempt did to the chain. Each line is queued once: the upsert of a
second row with the same id, which no caller produces, is not modelled.

**PeerNode.** `task` is the progress of `run_bob_quic_once`, `caller` the sender
on its only connection. The relay task's handlers are `BundleAsked` and
`RelayedInitial`. A task that returns an error ends the node (`NodeFails`). A
sender's stages follow `run_alice_discovered`; its chat may fail at any time and
it then falls back. Texts are not empty: for an empty one Bob sends no ok.
`ChatCommands` starts either the LAN chat or the node; once the node's QUIC chat
has begun it is the chat of `QuicChat`.

**RatchetChain and Ratchet.** Keys are named by the derivation that produces them
(root, direction, number), so two keys are equal only if the code derives the
same bytes. In the code only the initiator rotates, and only tests call it;
`Ratchet` rotates there too. Chat sessions never rotate, so `ChatDelivery` uses
`RatchetChain` alone.

**Rendezvous.** `held` and `reserved` are the service's two collections.
Reservations belong to connections (`reservations`, the relay's own record, is
modelled from how libp2p reports events) while `reserved` has one entry per
peer. `ReservationTimedOut` has the same handler as `ReservationClosed` and is
the same action. `ReservationRenewed` is a further acceptance on a reservation
that is still there: it brings its peer back into `reserved`, not the
invitations that went when an older connection closed. All clocks are one count
of ticks, plus a constant `Skew` for each inviter. A joiner tries the direct
address and falls back to the relay.

**Mailbox.** Sender and reader are commands that run once and may stop anywhere;
`BobFetches` starts a run from the built-in demo identity. `expires` is fixed by
the sender's clock; expiry is computed by the node before each deposit and
fetch, and the SELECT of a fetch tests it once more (`Fetchable`). `Repeat` is a
client that sends a deposit again after its command has ended: no command here
does, but the table (INSERT OR IGNORE, `mailbox_storage.rs`) and its test
`duplicate_deposit_does_not_create_duplicate_rows` are written for it.

**QuicChat.** One stream per frame, accepted in order, so each direction is a
sequence; a connection that breaks keeps any prefix of it. `Receive` covers both
the loops and `handle_incoming_during_*_flush`.

**EventSync.** Counters are per device, vectors per conversation and device; an
absent row is 0. A round's request and response are wire values, so local writes
and deletions of either store come between its phases. `Stray` is an event that
arrives outside a round, as `run_crdt_demo` and the fault-injection tests
deliver them; that none is sent to a revoked device is an assumption about the
senders, not a check of `append_event`. A deletion clears what a round owes only
when one of its two stores deletes the conversation it is about. `torn`
remembers conversations whose deletion was interrupted.

**Crdt.** One action per arm of the loop of `materialize_conversation`; the code
rebuilds the state from the list, which is the same as applying the list's
events one after the other. `View` is what the function returns. The assumption
`EventsAssumption` says a position names one event and a message id is created
with one body. The second is an assumption about the callers, which choose the
ids; `or_insert` keeps the first body it meets, so without it the order would
show.

## 3. Runs

| run | configuration | what it asks |
|---|---|---|
| `chat_delivery` | `ChatDelivery.cfg` | the chat implements the delivery service (`DeliversReliably`); no tracked message is lost (`TrackedUntilAcked`), none is shown twice (`ShownOnce`), no number is reused (`FreshNumbers`), no honest frame is called a replay (`NoFalseReplay`), the online flag is right (`OnlineIffConnected`) |
| `chat_live` | `ChatDeliveryLive.cfg` | what was queued off line is acknowledged over the first reconnection that holds (`QueuedIsDelivered`) |
| `outbox` | `DeviceOutbox.cfg` | no number is used twice across stops (`NumbersFresh`), nothing is decrypted twice (`OpenedOnce`), a line the receiver has not seen opens on the ratchet it will be tried on (`NewLineOpens`), the outbox implements the delivery service up to acceptance (`DeliversReliably`), an accepted line stays unread only through a stop, a damaged copy or a gap too wide (`UnreadOnlyByFault`), a revoked device gets no session and no row (`RevokedStaysOut`) |
| `ratchet` | `Ratchet.cfg` | nothing opens twice, no key encrypts twice, the skipped keys stay bounded, a message of the current epoch is refused only if its key was used up |
| `rendezvous` | `Rendezvous.cfg` | one joiner per registration, sessions exist on both ends, no prekey is used twice; nobody takes over another inviter's live code, with clock skew and a restart of the service |
| `rendezvous_live` | `RendezvousLive.cfg` | inviting and joining both end |
| `mailbox` | `Mailbox.cfg` | capacity, at-most-once opening, delivered only after the reader recorded it; what the node answered stays true, also when a deposit is repeated (`AnswersHold`) |
| `quic_chat` | `QuicChat.cfg` | the LAN chat's queue implements the delivery service, two flushes at once end without help from the timeout (`FlushTerminates`); at the node a text is read once whichever way it came and success is reported only for what was read (`TextReadOnce`), the relay never takes over the session of the QUIC chat (`SessionIsCallers`), every sender comes to an end (`SenderEnds`) |
| `event_sync` | `EventSync.cfg` | vectors claim nothing missing, positions are unique across crashes, a finished round leaves both stores with everything, a revoked device gains nothing; also when conversations are deleted, wholly or in part |
| `crdt` | `Crdt.cfg` | equal event sets give equal views, deletions and read marks are final |

The types of `ChatDelivery` and `Crdt` are proved (section 5) and not spent a run
on; the other modules' type invariants are checked, with the structural facts
they contain (capacity, bounds, keys, which tables go together).

Two runs TLC must refute, each a disagreement between the code and a sentence of
the repository's own documentation:

| run | sentence | what the counterexample shows |
|---|---|---|
| `chat_stuck` | README.md:22 "Durable outbox with ACK, retry, deduplication, and queued delivery after a transient disconnect" | a frame lost with one connection while another is already up stays pending for ever: only an off-line to on-line transition flushes |
| `mailbox_read` | DEMO.md:91 "Bob fetches and decrypts `hello offline bob`, then the mailbox marks the envelope delivered" | the id is recorded before decryption, so a retry acknowledges an unread envelope |

Further behaviours that the models have because the code has them, which the
properties state around rather than deny:

* A process that stops between the history row and the pending row of a typed
  line leaves a line that is shown as sent and never sent again
  (`pairing.rs:843`). `TrackedUntilAcked` excepts exactly these messages
  (`orphaned`).
* Every flush encrypts the pending rows again under new numbers. When enough of
  them are lost, the receiver would have to skip more numbers than
  `MAX_SKIPPED_MESSAGE_KEYS`, and the error ends its chat (`ReceiveFails`).
  `NoFalseReplay` shows that this is the only decryption error it can meet.
* An inviter that renews its reservation registers its code again, so a code
  resolves once per registration, not once per invite (`pairing.rs:267`);
  `PairedBothWays` shows that one invite still pairs one joiner.
* The end of an old connection's reservation removes what was registered over the
  new one (`pairing.rs:116`); the inviter goes on showing its code.
* A line typed on a live QUIC chat has no pending row and is lost with the
  connection (`main.rs:3951`); in the refinement it is issued and not tracked.
* The outbox receiver records an id before it decrypts, as the mailbox reader
  does (`main.rs:3041`), so a row can be settled whose text nobody read;
  `UnreadOnlyByFault` bounds when.
* A device has no record of accepted ids: after a lost acknowledgement the retry
  is a replay, the error ends the attempt, and the row stays pending for ever
  (`main.rs:2570`).
* A second `create_outbound_session` between two devices would start at number 0
  under the root of the same static keys (`lib.rs:821`), whatever
  `device_pair_sessions` holds. No command opens one: a fan-out opens one session
  per device and draws its identities anew. `NumbersFresh` is about that use, and
  would not hold of a command that opened a second session.
* A device that is revoked while the sender has a session open for it still gets
  new rows (`main.rs:2893`): only the opening of sessions looks at revocations.
* Bob's node has one one-time prekey. After it is spent, the next request for a
  bundle ends the node with an error (`main.rs:6209`), although a comment at
  `main.rs:5432` has Bob remain online after an exchange. A QUIC handshake that
  breaks off ends it too (`main.rs:3140`).
* A text that arrives over the relay is shown and not saved (`main.rs:6235`), and
  a sender that finds no record does not try the relay (`main.rs:3224`).

### Bounds, and why they are enough

* `chat_delivery`: two messages of Alice and one of Bob, three connections, two
  pairings, one failed request, one wipe, one skipped key (the limit 8 of the
  code scaled so that it is reached). Two messages in one direction are the least
  that can be reordered; three connections give an overlap and a reconnection;
  two pairings let a message outlive its session. About a million states.
* `ratchet`: three messages one way and two the other, two rotations: a late
  message of each earlier epoch, and an overflow of the skipped keys.
* `outbox`: three lines to the peer with room for one skipped key, so that two
  missing lines are too many; two lines to one device, so that its session's
  counter has something to repeat; two stops, so that both sides stop or one stops
  twice, and one damaged copy. 374 thousand states.
* `rendezvous`: two scenarios told apart by the state constraint `Apart`: an
  inviter with two invites, two reservations and two joiners on one code while
  the service stays up, and two inviters with one code, one reservation each, one
  clock ahead and a restart, while nobody joins. A code is taken over by a
  registration, which no joiner takes part in, so joiners add nothing to the
  second. A lifetime of two ticks and timers of one put every timer before, at
  and after each event. `rendezvous_live` has one inviter and one joiner and no
  constraint.
* `mailbox`: three envelopes for two places, two runs of the reader, one repeated
  deposit, and a tick after which an envelope has expired while another is fresh.
  About a million states.
* `quic_chat`: two messages one way and one the other, three connections, one
  timeout; for the node two senders, which is one more than its QUIC task and its
  prekey serve. Nothing else of the node is bounded.
* `event_sync`: two devices with two counters each in two conversations, so that
  a number used in one conversation is a gap in the other; one stop, and one
  stray event or deletion. About 2 million states.
* `crdt`: eight events of all five kinds, among them a deletion before its
  message, a removal before its reaction, and reads out of order; all
  256 x 256 pairs of applied sets.

Symmetry is declared on interchangeable messages, joiners, envelopes and
conversations, never in a run with a liveness property. Deadlock checking is off
where the bounds or the users may end all activity (both peers idle, all lines
typed); `Crdt` checks it.

## 4. Fairness

* `ChatDelivery!Fairness`: weak fairness of each handler of each peer that is in
  its chat, and of `Reconnect` (the loop redials every three seconds while it is
  off line). Nothing is assumed of the network except that a connection attempt
  that stays possible eventually succeeds; the liveness property itself excuses
  a connection that breaks again.
* `Rendezvous!FairSpec`: time passes, and each peer's event loop, with its timer
  arm, keeps being polled. Messages and connections may all be lost.
* `ChatCommands!CommandSpec`: the loops of the LAN chat, of Bob's two tasks and of
  each sender run, a sender's timers included (discovery, connecting, the relay).
  The acknowledgement timeout of a flush is *not* fair, so the run shows that the
  flushes do not need it; `LinkBreaks`, chats and users are free.

No fairness is assumed of users, of loss or of crashes.

## 5. Proofs

**ChatDeliveryProofs** holds for any finite set of messages, any assignment of
authors and any bounds (`PeersAssumption`, `AuthorAssumption`,
`MessagesAssumption`, `BoundsAssumption`, `MaxSkippedAssumption`).

* `TypeCorrect`: `TypeOK` is inductive; one lemma per group of actions.
* `DeliveryCorrect`, and from it `NothingTrackedIsLost` and `NothingIsShownTwice`.
  `TrackedUntilAcked` alone is not inductive: an acknowledgement in flight
  removes the pending row, so one must know that whoever sent it had stored the
  message (`AckedIsDelivered`), that ids only travel from their author
  (`Authorship`), and that what was stored once is still there to be recognised
  when it is retried (`ShownIsSaved`). `DeliveryInv` is the conjunction.
* `RatchetCorrect`, and from it `NumbersAreFresh` and `HonestFramesAreNotReplays`.
  The invariant `RatchetInv` says that below `recv` every number is consumed or
  skipped, never both (`ChainSound`); that a live connection joins two peers of
  one session and no receiver is ahead of its sender (`SessionsAgree`); and that
  the key of a frame in flight is still to be had (`FrameOpens`). With these, a
  frame has the outcome `Replay` only if its number was consumed, which
  `FrameOpens` and `DistinctNumbers` exclude.
* `OnlineMeansConnected`: `OnlineIffConnected` is inductive together with
  `TypeOK`. The step that matters is the close of one of several connections:
  only the last one turns the peer offline.
* `OnlyTypedIsSent`: `IssuedInv`, only what was typed is pending or in flight.
* `ChatImplementsService`: `Spec => DeliversReliably`. The initial states map to
  the service's, and each group of actions has a lemma that maps its steps: a
  typed line is `Issue` (`IssueUntracked` when the process dies between its two
  writes), a new frame is `Arrive`, an acknowledgement of a pending row is
  `Settle`, clearing and deleting are `Erase`, everything else stutters. `Settle`
  needs `AckedIsDelivered`, `Arrive` needs `IssuedInv` and `ShownIsSaved`: what
  comes again after it was stored is recognised unless it was erased. So the
  refinement rests on `DeliveryInv`.

**CrdtProofs** holds for any set of events that satisfies `EventsAssumption`.

* `MaterializesTheSet`: the inductive invariant `Materialized` says what each of
  the five maps holds as a function of the *set* of applied events. One lemma per
  arm of the loop shows that the arm keeps it, wherever in the order its event
  comes; repetition needs no case of its own, since the set does not change.
* `ReplicasConverge`: the match determines the maps, so equal sets give equal
  views. `NothingIsUndone`: tombstones and frontiers only grow.

**ChatCommandsProofs** is about either command of `ChatCommands`. The node's part
holds for any set of senders and needs no assumption about it, the LAN chat's for
any messages and authors (`SidesAssumption`, `QuicAssumption`).

* `NodeCorrect`: the inductive invariant `NodeInv`. That a text is read once is
  not inductive, because a relayed retry meets a Bob who may have read it over
  QUIC. What prevents a second reading is the prekey, so the invariant ties the
  three together: the prekey is there exactly while there is no session, and the
  one sender Bob has a session with is the one whose text was read
  (`OneReading`). Only the accepted connection carries a bundle or an initial
  message, and an "ok" or an acknowledgement in flight, or taken by its sender,
  comes after what it answers for (`ParcelsSound`, `ReportsSound`). From its
  accept on the task has a caller, and once it opened the text the session is the
  caller's (`TaskSound`): a relayed initial message that finds the prekey
  therefore comes before that.
* `NoTextIsReadTwice` and `RelayCannotTakeOver`: `TextReadOnce` and
  `SessionIsCallers` follow from it.
* `LanCorrect`: the inductive invariant `LanInv` of the LAN chat. A frame in
  the channel is a typed line from its author or the acknowledgement of a stored
  one (`WireSound`); a pending row is its author's, and the reader's history holds
  exactly the lines that were shown, each once (`Tables`); the
  list a flush works through holds lines that side typed (`WorkSound`), even
  though it was read before the rows changed.
* `LanChatImplementsService`: `DeliversReliably` of the LAN chat. Every step of a
  side touches the tables in one of four ways, `Typed`, `Queued`, `Settled` and
  `Received`, which are the service's `IssueUntracked`, `Issue`, `Settle` and
  `Arrive`, or leaves them alone; the steps of the node stutter.
* `CommandsTyped`: `CommandTypeOK`. That the command which was not chosen stays
  where it started is part of the induction (`OneCommand`).

**RatchetProofs** holds for any limit of skipped keys and any bounds
(`RatchetAssumption`, `MaxSkippedAssumption`).

* `TypeCorrect` and `SessionCorrect`, whose invariant is `RatchetInv`. A root key
  is the sequence of the Diffie-Hellman steps that made it and only grows, so the
  messages under an end's *current* root are the ones its counters speak of: what
  it sent lies below its send counter (`SendingSound`), what it opened is consumed
  (`ReadingSound`), and a number that would be a replay was opened or was burned
  by a damaged message (`ReplaysSound`). A new root has no messages yet, hence the
  fresh chain is right about it.
* From it `KeysAreDistinct`, `MessagesOpenOnce` (each opening adds to a finite set
  whose size is the count of openings, `Counted`) and `EpochMessagesOpen`. The
  last needs a fact about key selection: it makes no number a replay except the
  one whose key it takes.

**MailboxProofs** holds for any finite set of envelopes, any capacity, lifetime
and bounds (`EnvelopesAssumption`, `MailboxBounds`).

* `TypeCorrect` includes the bound: the pending envelopes never exceed the
  capacity. It is an argument about cardinalities; every step but a deposit leaves
  a subset of the pending ones, and a deposit is refused at the limit.
* `MailboxCorrect`, with the invariant `MailboxInv`, and from it
  `DeliveredOnlyAccepted` and `OpensOnce`. What is being opened is not in the
  history yet (`ReadingSound`), and an acknowledgement on its way, however late or
  repeated, is for an accepted envelope (`AckedWasAccepted`).
* `AnswersAreKept`: `AnswersHold`, with the invariant `AnswersInv`. What the reader
  was handed, and so what it acknowledges, has a row (`HandedOutHasRow`); an
  envelope answered with "deposited" has one whose status is backed by the clock
  or by the reader's record (`AnswersBacked`). A repeated deposit finds the row and
  changes neither.

**EventSyncProofs** holds for any devices, conversations and bounds
(`BoundsAssumption`).

* `HistoryCorrect`, with the invariant `HistoryInv`, and from it `TypeCorrect` and
  `VectorsClaimOnlyWhatIsHeld`. A number is used once,
  since what is allocated lies below the saved counter and is not written yet; the
  stores hold what was written; and a vector claims an unbroken run of held
  events unless a deletion in the store was interrupted. That the entry
  recomputed after an append still names such a prefix uses the least number that
  is missing, which exists by the library's well-founded induction.
* `SyncCorrect` adds the round (`RoundInv`): what either side had at the start is
  still held by one of them (`HeldBySomeone`), and the asker holds, or is about to
  append, what its request did not cover (`AskerCatchesUp`). At the end both
  directions were asked for, which is `RoundsConverge`.
* `RevokedDevicesAreCutOff`: the action property `RevokedIsCutOff`.

**RendezvousProofs** holds for any creators, joiners and codes, any lifetimes and
bounds (`PeersAssumption`, `TimeAssumption`, `RendezvousBounds`).

* `TypeCorrect` (inductive as `Types`), `CodesNotTaken` (an action property).
* `RegistrationsGoToOneJoiner`: each accepted registration has a serial of its
  own, the held invitation of a serial has not been handed out, and those handed
  out are older than the next serial (`SerialsSound`).
* `PrekeysUsedOnce`: a prekey that began a session is neither in the creator's
  database nor still to come (`PrekeysSound`); a stale bundle in flight may carry
  it, and an initial message made from that is refused.
* `PairingsMatch`: an invite that began a session is used up (`InvitesSound`), so
  its sessions are one joiner's (`OneJoinerPerInvite`), and an acknowledgement in
  flight or a joiner in the chat has its session at the creator
  (`ConversationsSound`).

**DeviceOutboxProofs** holds for any finite set of lines, any devices and any
limit of skipped keys (`OutboxAssumption`, `MaxSkippedAssumption`).

* `TypeCorrect`, which includes the limit of skipped keys of every receiver, and
  `NumbersAreFresh`, both from `Types`, whose part `NumbersSound` says that a queued
  row's number lies below the saved counter, whatever was rolled back, that every
  number below the peer's saved counter is a row's, and that nothing is saved for a
  device without a session, so that the session it is given starts below no row.
* `LinesOpenOnce` from `OpeningsSound`; `RevokedDevicesStayOut`.
* `OutboxImplementsService`: `DeliversReliably` of the outbox. A line has arrived
  at the peer once it is recorded as accepted, at a device once it is decrypted.
* `NewLinesOpen`: the invariant `PeerChain` says that the peer's saved chain is
  complete, every number below its counter either consumed or skipped
  (`Complete`), and that the consumed numbers are those of the stored lines. That
  the limit of skipped keys is not met is a counting argument: the older lines
  that are missing map onto the numbers that are missing, so there are at least as
  many of them (`FS_Surjection`), and `~TooFar` bounds them.
* `LinesUnreadOnlyByFault`: the action property `UnreadOnlyByFault`, from the same
  invariant.

## 6. Only model-checked

Liveness under fairness: `QueuedIsDelivered`, `PairingEnds`, `FlushTerminates`
and `SenderEnds`. Fairness is about `ENABLED`, which the prover does not reason
about. The two findings, `PendingIsRetried` and `DeliveredWasRead`, are
counterexamples of TLC. Every safety invariant and action property of a passing
run, and each of the three refinements of `ReliableDelivery`, is a theorem.

## 7. Plan

1. Done: `ChatDelivery`, `Ratchet`, `Rendezvous`, `Mailbox`, `QuicChat`,
   `EventSync`, `Crdt`, `DeviceOutbox`, `PeerNode`, `ChatCommands`, with proofs of
   their safety.
2. Done: `ReliableDelivery` and its three refinements, with proofs.
3. `EventSync` composed with `Crdt`: a finished round makes two devices' views
   equal. Both halves are proved (`RoundsConverge`, `ReplicasConverge`); the
   composition is not stated.

## 8. Not modelled

* Cryptographic primitives: perfect encryption, hashes without collisions (the
  six-character invite code, which may collide, is the exception).
* libp2p internals (Kademlia, mDNS, DCUtR, the relay's limits): only the events
  the code handles. Order of events between two protocols of one connection is
  not assumed.
* Contacts, profiles, known peers: rows without a protocol, except where deleting
  or clearing them touches messages. `merge_contact_into` relabels the
  conversation of one device's rows in separate statements; the models keep the
  label of an event fixed, since it is part of what a round compares, so it is
  listed as a hazard without a property.
* LAN invites: `consume_invite_record` is one guarded UPDATE, called by the
  invite demos only.
* `run_restart_demo` and the smoke tests send without an outbox row; scripted
  drivers like them are read as evidence of use.
* Restoring a `DeviceSession` from its row: `load_device_pair_session` is called
  by tests only.
* The terminal, the storage benchmark and packaging.
