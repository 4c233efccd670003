------------------------------ MODULE Mailbox ------------------------------
(***************************************************************************)
(* The offline mailbox: the store of src/src/mailbox_storage.rs, the node   *)
(* that serves it (run_mailbox_node), the sender that deposits an envelope  *)
(* (run_alice_mailbox_deposit) and the reader that fetches, decrypts and    *)
(* acknowledges (run_bob_mailbox_fetch), all in src/src/main.rs.            *)
(*                                                                         *)
(* The sender and the reader are short-lived commands: each may be killed   *)
(* or time out anywhere, and is started again with its database.  Every     *)
(* request is a connection of its own, so requests and responses are lost   *)
(* or delayed; a deposit may also be repeated once its command has ended,   *)
(* which the node and the table are written for.                            *)
(***************************************************************************)
EXTENDS Integers, FiniteSets

CONSTANTS
    Envelopes,      \* message ids; every deposit command makes a new one
    Capacity,       \* MAILBOX_MAX_ENVELOPES
    Ttl,            \* MAILBOX_ENVELOPE_TTL_SECS
    MaxTime,        \* bound on the clock
    MaxFetches,     \* bound on the reader's runs
    MaxRepeats      \* bound on repeated deposits

ASSUME EnvelopesAssumption == IsFiniteSet(Envelopes)
ASSUME MailboxBounds ==
    /\ Capacity \in Nat /\ Ttl \in Nat
    /\ MaxTime \in Nat /\ MaxFetches \in Nat /\ MaxRepeats \in Nat

VARIABLES
    \* the mailbox node's database
    status,     \* mailbox_envelopes.status, "none" when there is no row
    created,    \* created_at_unix_secs
    expires,    \* expires_at_unix_secs, as the sender fixed it
    \* the senders
    sender,     \* each deposit command
    \* the reader
    stage,      \* where run_bob_mailbox_fetch is
    todo,       \* envelopes of the response not yet worked through
    current,    \* the envelope being worked on, as a set of at most one
    prekey,     \* whether the one-time prekey of this run is still there
    accepted,   \* accepted_messages
    history,    \* envelopes inserted in the reader's messages
    \* the network and the clock
    net, now,
    \* bookkeeping of the model
    opened,     \* how often each envelope was decrypted and stored
    fetches, repeats

store  == <<status, created, expires>>
reader == <<stage, todo, current, prekey, accepted, history>>
vars   == <<store, sender, reader, net, now, opened, fetches, repeats>>

Msg(kind, ids) == [kind |-> kind, ids |-> ids]
Pending == {e \in Envelopes : status[e] = "pending"}

Init ==
    /\ status = [e \in Envelopes |-> "none"]
    /\ created = [e \in Envelopes |-> 0]
    /\ expires = [e \in Envelopes |-> 0]
    /\ sender = [e \in Envelopes |-> "new"]
    /\ stage = "idle" /\ todo = {} /\ current = {} /\ prekey = TRUE
    /\ accepted = {} /\ history = {}
    /\ net = {} /\ now = 0
    /\ opened = [e \in Envelopes |-> 0] /\ fetches = 0 /\ repeats = 0

-----------------------------------------------------------------------------
(* The sender                                                               *)

(* Identity, session, message and outbox row are saved in one transaction,  *)
(* then the request goes out.                                               *)
AliceDeposits(e) ==
    /\ sender[e] = "new"
    /\ sender' = [sender EXCEPT ![e] = "waiting"]
    /\ expires' = [expires EXCEPT ![e] = now + Ttl]
    /\ net' = net \cup {Msg("deposit", {e})}
    /\ UNCHANGED <<status, created, reader, now, opened, fetches, repeats>>

(* Deposited, Error("mailbox storage is full"), or no answer in time.  The  *)
(* outbox row stays pending in every case and no command sends it again.    *)
AliceDone(e) ==
    /\ sender[e] = "waiting"
    /\ \/ \E kind \in {"deposited", "full"} :
             /\ Msg(kind, {e}) \in net
             /\ sender' = [sender EXCEPT ![e] = kind]
             /\ net' = net \ {Msg(kind, {e})}
       \/ /\ sender' = [sender EXCEPT ![e] = "unknown"]
          /\ net' = net \ {Msg("deposited", {e}), Msg("full", {e})}
    /\ UNCHANGED <<store, reader, now, opened, fetches, repeats>>

(* A client sends the deposit of an ended command once more, the same        *)
(* envelope under the same id and expiry, and waits for no answer.          *)
Repeat(e) ==
    /\ sender[e] \in {"deposited", "full", "unknown"} /\ repeats < MaxRepeats
    /\ repeats' = repeats + 1
    /\ net' = net \cup {Msg("deposit", {e})}
    /\ UNCHANGED <<store, sender, reader, now, opened, fetches>>

-----------------------------------------------------------------------------
(* The mailbox node                                                         *)

(* expire(now), the first statement of deposit and of fetch_pending.        *)
Expired == {e \in Pending : expires[e] <= now}

AfterExpiry == [e \in Envelopes |-> IF e \in Expired THEN "expired" ELSE status[e]]

(* Mutant: the bound is tested after the fact.                              *)
FullOffByOne(e) == Cardinality(Pending \ Expired) > Capacity /\ status[e] = "none"

(* The test of deposit, after expire(now): pending_count() has reached the  *)
(* limit and the envelope is new.                                           *)
Full(e) == Cardinality(Pending \ Expired) >= Capacity /\ status[e] = "none"

(* Mutant: INSERT OR REPLACE under the limit, whether or not the row is     *)
(* there: a repeated deposit starts it afresh.                              *)
DepositReplaces(e) ==
    LET room == Cardinality(Pending \ Expired) < Capacity IN
    /\ Msg("deposit", {e}) \in net
    /\ status' = IF room THEN [AfterExpiry EXCEPT ![e] = "pending"] ELSE AfterExpiry
    /\ created' = IF room THEN [created EXCEPT ![e] = now] ELSE created
    /\ net' = (net \ {Msg("deposit", {e})}) \cup
              (IF sender[e] # "waiting" THEN {}
               ELSE {Msg(IF room THEN "deposited" ELSE "full", {e})})
    /\ UNCHANGED <<expires, sender, reader, now, opened, fetches, repeats>>

(* Deposit: expire(now), the test of the limit, INSERT OR IGNORE.  A row    *)
(* that is already there keeps its status, and the answer is the same.      *)
Deposit(e) ==
    /\ Msg("deposit", {e}) \in net
    /\ status' = IF status[e] # "none" \/ Full(e) THEN AfterExpiry
                 ELSE [AfterExpiry EXCEPT ![e] = "pending"]
    /\ created' = IF status[e] # "none" \/ Full(e) THEN created
                  ELSE [created EXCEPT ![e] = now]
    /\ net' = (net \ {Msg("deposit", {e})}) \cup
              (IF sender[e] # "waiting" THEN {}
               ELSE {Msg(IF Full(e) THEN "full" ELSE "deposited", {e})})
    /\ UNCHANGED <<expires, sender, reader, now, opened, fetches, repeats>>

(* The SELECT of fetch_pending, after expire(now): its WHERE clause tests    *)
(* the expiry once more.                                                    *)
Fetchable == {e \in Envelopes : AfterExpiry[e] = "pending" /\ expires[e] > now}

(* Mutant: an envelope counts as delivered once it has been handed out.     *)
FetchDelivers ==
    /\ Msg("fetch", {}) \in net
    /\ status' = [e \in Envelopes |->
                    IF e \in Fetchable THEN "delivered" ELSE AfterExpiry[e]]
    /\ net' = (net \ {Msg("fetch", {})}) \cup {Msg("pending", Fetchable)}
    /\ UNCHANGED <<created, expires, sender, reader, now, opened, fetches, repeats>>

(* Fetch: what the SELECT finds is handed out and stays pending.            *)
Fetch ==
    /\ Msg("fetch", {}) \in net
    /\ status' = AfterExpiry
    /\ net' = (net \ {Msg("fetch", {})}) \cup
              (IF stage = "fetching" THEN {Msg("pending", Fetchable)} ELSE {})
    /\ UNCHANGED <<created, expires, sender, reader, now, opened, fetches, repeats>>

(* Acknowledge marks the row whatever its status.                           *)
Acknowledge(e) ==
    /\ Msg("ack", {e}) \in net
    /\ status' = [status EXCEPT ![e] = IF @ = "none" THEN @ ELSE "delivered"]
    /\ net' = (net \ {Msg("ack", {e})}) \cup
              (IF stage = "acking" /\ current = {e} THEN {Msg("acked", {e})} ELSE {})
    /\ UNCHANGED <<created, expires, sender, reader, now, opened, fetches, repeats>>

-----------------------------------------------------------------------------
(* The reader                                                               *)

(* A new run starts from the built-in identity, one-time prekey included.   *)
BobFetches ==
    /\ stage = "idle" /\ fetches < MaxFetches
    /\ stage' = "fetching" /\ prekey' = TRUE
    /\ fetches' = fetches + 1
    /\ net' = net \cup {Msg("fetch", {})}
    /\ UNCHANGED <<store, sender, todo, current, accepted, history, now, opened, repeats>>

BobReceives ==
    /\ stage = "fetching"
    /\ \E m \in net : /\ m.kind = "pending"
                      /\ todo' = m.ids
                      /\ net' = net \ {m}
    /\ stage' = "next"
    /\ UNCHANGED <<store, sender, current, prekey, accepted, history, now, opened, fetches, repeats>>

Oldest(S) == {e \in S : \A f \in S : created[e] <= created[f]}

(* Mutant: no deduplication.                                                *)
BobAcceptsAll ==
    /\ stage = "next"
    /\ \E e \in Oldest(todo) :
          /\ current' = {e} /\ todo' = todo \ {e}
          /\ accepted' = accepted \cup {e}
          /\ stage' = "opening"
          /\ UNCHANGED net
    /\ UNCHANGED <<store, sender, prekey, history, now, opened, fetches, repeats>>

(* The next envelope: accept_message_once writes its id; a known id is      *)
(* acknowledged without another look.                                       *)
BobAccepts ==
    /\ stage = "next"
    /\ \E e \in Oldest(todo) :
          /\ current' = {e} /\ todo' = todo \ {e}
          /\ accepted' = accepted \cup {e}
          /\ \/ /\ e \notin accepted /\ stage' = "opening" /\ UNCHANGED net
             \/ /\ e \in accepted /\ stage' = "acking"
                /\ net' = net \cup {Msg("ack", {e})}
    /\ UNCHANGED <<store, sender, prekey, history, now, opened, fetches, repeats>>

(* decrypt_initial_message takes the prekey; the message is inserted (OR    *)
(* IGNORE), the identity saved and the acknowledgement sent.                *)
BobOpens(e) ==
    /\ stage = "opening" /\ current = {e} /\ prekey
    /\ prekey' = FALSE
    /\ history' = history \cup {e}
    /\ opened' = [opened EXCEPT ![e] = @ + 1]
    /\ stage' = "acking"
    /\ net' = net \cup {Msg("ack", {e})}
    /\ UNCHANGED <<store, sender, todo, current, accepted, now, fetches, repeats>>

BobAcked(e) ==
    /\ stage = "acking" /\ current = {e}
    /\ Msg("acked", {e}) \in net
    /\ net' = net \ {Msg("acked", {e})}
    /\ stage' = "next" /\ current' = {}
    /\ UNCHANGED <<store, sender, todo, prekey, accepted, history, now, opened, fetches, repeats>>

Leaves ==
    /\ stage' = "idle" /\ todo' = {} /\ current' = {} /\ prekey' = TRUE
    /\ net' = {m \in net : m.kind \notin {"pending", "acked"}}
    /\ UNCHANGED <<store, sender, accepted, history, now, opened, fetches, repeats>>

(* The second envelope of a run finds the prekey taken (PreKeyUnavailable): *)
(* the error leaves the loop, the id stays accepted.                        *)
BobCannotOpen == stage = "opening" /\ ~prekey /\ Leaves

(* All envelopes done, a request failed or timed out, or the process was    *)
(* killed between two writes.                                               *)
BobEnds == stage # "idle" /\ Leaves

-----------------------------------------------------------------------------
Lose == /\ \E m \in net : net' = net \ {m}
        /\ UNCHANGED <<store, sender, reader, now, opened, fetches, repeats>>

Tick == /\ now < MaxTime
        /\ now' = now + 1
        /\ UNCHANGED <<store, sender, reader, net, opened, fetches, repeats>>

Next == \/ \E e \in Envelopes : \/ AliceDeposits(e) \/ AliceDone(e) \/ Repeat(e) \/ Deposit(e)
                                \/ Acknowledge(e) \/ BobOpens(e) \/ BobAcked(e)
        \/ Fetch \/ BobFetches \/ BobReceives \/ BobAccepts
        \/ BobCannotOpen \/ BobEnds
        \/ Lose \/ Tick

Spec == Init /\ [][Next]_vars

-----------------------------------------------------------------------------
(* The shape of the tables: a reader that works on an envelope works on one, *)
(* and the mailbox never holds more pending envelopes than its limit,       *)
(* however deposits, expiries and acknowledgements interleave.              *)
TypeOK ==
    /\ status \in [Envelopes -> {"none", "pending", "delivered", "expired"}]
    /\ Cardinality(Pending) <= Capacity
    /\ created \in [Envelopes -> Nat] /\ expires \in [Envelopes -> Nat]
    /\ sender \in [Envelopes -> {"new", "waiting", "deposited", "full", "unknown"}]
    /\ stage \in {"idle", "fetching", "next", "opening", "acking"}
    /\ todo \subseteq Envelopes /\ current \subseteq Envelopes
    /\ Cardinality(current) = IF stage \in {"opening", "acking"} THEN 1 ELSE 0
    /\ prekey \in BOOLEAN
    /\ accepted \subseteq Envelopes /\ history \subseteq Envelopes
    /\ net \subseteq [kind : {"deposit", "deposited", "full", "fetch", "pending",
                              "ack", "acked"}, ids : SUBSET Envelopes]
    /\ now \in Nat /\ fetches \in Nat /\ repeats \in Nat
    /\ opened \in [Envelopes -> Nat]

(* An envelope leaves the mailbox as delivered only after the reader has    *)
(* durably recorded that it took it: a fetch whose response is lost, or a   *)
(* reader killed before that write, leaves it to be fetched again.          *)
DeliveredWasAccepted ==
    \A e \in Envelopes : status[e] = "delivered" => e \in accepted

(* However often an unacknowledged envelope is fetched again, it enters the *)
(* reader's history at most once.                                           *)
OpenedAtMostOnce ==
    \A e \in Envelopes : /\ opened[e] <= 1
                         /\ e \in history <=> opened[e] = 1

(* The node's answers stay true whatever follows them.  SECURITY.md:88,     *)
(* "Mailbox acceptance means ciphertext was stored for later": an envelope   *)
(* answered with Deposited has a row, which leaves the pending ones only by  *)
(* its expiry or once the reader has recorded it; and an envelope whose      *)
(* Acknowledged is on its way is delivered, so that no repeated deposit      *)
(* hands it out again.                                                      *)
AnswersHold ==
    \A e \in Envelopes :
       /\ Msg("deposited", {e}) \in net \/ sender[e] = "deposited" =>
             \/ status[e] = "pending"
             \/ status[e] = "expired" /\ expires[e] <= now
             \/ status[e] = "delivered" /\ e \in accepted
       /\ Msg("acked", {e}) \in net => status[e] = "delivered"

(* DEMO.md:91: "Bob fetches and decrypts ..., then the mailbox marks the    *)
(* envelope delivered": what is marked delivered has been decrypted.        *)
DeliveredWasRead ==
    \A e \in Envelopes : status[e] = "delivered" => e \in history

====
