------------------------------- MODULE Ratchet -------------------------------
(***************************************************************************)
(* RatchetSession of src/src/lib.rs: the two ends of one session over a    *)
(* network that loses, delays, reorders, duplicates and damages messages.  *)
(*                                                                         *)
(* Keys are symbolic.  Only Alice's end offers rotate_sending_ratchet, so  *)
(* Bob's ratchet key never changes and a Diffie-Hellman output is named by *)
(* Alice's key; the root key is determined by the sequence of outputs mixed *)
(* into it.  A message key is <<root, sender, number>>.                    *)
(***************************************************************************)
EXTENDS RatchetChain, Sequences

CONSTANTS
    Alice, Bob,
    MaxSends,       \* bound on the messages each end encrypts
    MaxRotations,   \* bound on the rotations of Alice
    MaxRoot         \* bound on the Diffie-Hellman steps of one end

ASSUME RatchetAssumption ==
    /\ Alice # Bob
    /\ MaxSends \in [{Alice, Bob} -> Nat] /\ MaxRotations \in Nat /\ MaxRoot \in Nat

Ends == {Alice, Bob}
Other(p) == IF p = Alice THEN Bob ELSE Alice

VARIABLES
    root,       \* root_key of each end: the sequence of outputs mixed into it
    chain,      \* counters, skipped keys and consumed numbers of each end
    current,    \* the ratchet key of Alice that each end uses
    rotations,  \* rotations of Alice so far
    sent,       \* messages encrypted so far; any of them may arrive, or not
    opened,     \* messages each end has opened
    openings,   \* how often each end has opened a message
    burned      \* keys each end has used up without opening anything

vars == <<root, chain, current, rotations, sent, opened, openings, burned>>

Key(p, n) == <<root[p], Other(p), n>>   \* the key p expects for number n

Init ==
    /\ root = [p \in Ends |-> <<>>]
    /\ chain = [p \in Ends |-> NewChain]
    /\ current = [p \in Ends |-> 0]
    /\ rotations = 0
    /\ sent = {}
    /\ opened = [p \in Ends |-> {}]
    /\ openings = [p \in Ends |-> 0]
    /\ burned = [p \in Ends |-> {}]

SentBy(p) == {m \in sent : m.src = p}

\* RatchetSession::encrypt.  pub is what the message carries as its ratchet
\* public key; body tells two plaintexts under one key apart.
Encrypt(p) ==
    /\ Cardinality(SentBy(p)) < MaxSends[p]
    /\ sent' = sent \cup {[src |-> p, num |-> chain[p].send, pub |-> current[p],
                           key |-> <<root[p], p, chain[p].send>>,
                           body |-> Cardinality(SentBy(p))]}
    /\ chain' = [chain EXCEPT ![p] = Encrypted(@)]
    /\ UNCHANGED <<root, current, rotations, opened, openings, burned>>

\* Mutation of NextRoot: the old root key is not mixed in.
NextRootFresh(r, k) == <<k>>

\* Mutation of NextRoot: the counters restart under the old root key.
NextRootKept(r, k) == r

\* derive_dh_ratchet_state
NextRoot(r, k) == Append(r, k)

\* Mutation of RatchetedChain: the receiving counter is not reset.
RatchetedChainKept(c) == [NewChain EXCEPT !.recv = c.recv]

\* apply_dh_ratchet resets both chains, the skipped keys and the consumed numbers.
RatchetedChain(c) == NewChain

\* rotate_sending_ratchet
Rotate ==
    /\ rotations < MaxRotations /\ Len(root[Alice]) < MaxRoot
    /\ rotations' = rotations + 1
    /\ current' = [current EXCEPT ![Alice] = rotations + 1]
    /\ root' = [root EXCEPT ![Alice] = NextRoot(@, rotations + 1)]
    /\ chain' = [chain EXCEPT ![Alice] = RatchetedChain(@)]
    /\ UNCHANGED <<sent, opened, openings, burned>>

\* receive_dh_ratchet runs before anything else when the message carries a key
\* other than the one in use; only Alice's key can differ.
NeedsRatchet(p, m) == p = Bob /\ m.pub # current[p]

RootFor(p, m)  == IF NeedsRatchet(p, m) THEN NextRoot(root[p], m.pub) ELSE root[p]
ChainFor(p, m) == IF NeedsRatchet(p, m) THEN RatchetedChain(chain[p]) ELSE chain[p]

\* The authenticated decryption succeeds for an undamaged message under its key.
Authentic(p, m, damaged) == ~damaged /\ m.key = <<RootFor(p, m), Other(p), m.num>>

\* RatchetSession::decrypt.  The Diffie-Hellman step and the key selection stay
\* in force when the authentication then fails.
Decrypt(p, m, damaged) ==
    LET c == ChainFor(p, m)
        out == Outcome(c, m.num)
        used == <<RootFor(p, m), Other(p), m.num>>
    IN  /\ m.src = Other(p)
        /\ Len(RootFor(p, m)) <= MaxRoot
        /\ root' = [root EXCEPT ![p] = RootFor(p, m)]
        /\ current' = [current EXCEPT ![p] = IF NeedsRatchet(p, m) THEN m.pub ELSE @]
        /\ IF out = "Key" /\ Authentic(p, m, damaged)
           THEN /\ chain' = [chain EXCEPT ![p] = Opened(c, m.num)]
                /\ opened' = [opened EXCEPT ![p] = @ \cup {m}]
                /\ openings' = [openings EXCEPT ![p] = @ + 1]
                /\ UNCHANGED burned
           ELSE /\ chain' = [chain EXCEPT ![p] = Selected(c, m.num)]
                /\ burned' = [burned EXCEPT ![p] =
                                  @ \cup IF out = "Key" THEN {used} ELSE {}]
                /\ UNCHANGED <<opened, openings>>
        /\ UNCHANGED <<rotations, sent>>

Next == \/ \E p \in Ends : Encrypt(p)
        \/ Rotate
        \/ \E p \in Ends, m \in sent, damaged \in BOOLEAN : Decrypt(p, m, damaged)

Spec == Init /\ [][Next]_vars

-----------------------------------------------------------------------------
\* The shape of both sessions and of the messages ever sent; the store of
\* skipped keys stays within its bound, also after failed decryptions that kept
\* a part of what they stored.
TypeOK ==
    /\ root \in [Ends -> Seq(0 .. MaxRotations)]
    /\ chain \in [Ends -> Chain]
    /\ \A p \in Ends :
        /\ chain[p].skipped \cup chain[p].consumed \subseteq 0 .. chain[p].recv - 1
        /\ Cardinality(chain[p].skipped) <= MaxSkipped
    /\ current \in [Ends -> 0 .. MaxRotations]
    /\ rotations \in 0 .. MaxRotations
    /\ \A m \in sent : m.src \in Ends /\ m.num \in Nat /\ m.pub \in 0 .. MaxRotations
    /\ opened \in [Ends -> SUBSET sent]
    /\ openings \in [Ends -> Nat]

\* A message is opened at most once, however often it is replayed, before or
\* after Diffie-Hellman steps that clear the record of consumed numbers.
OpenedOnce == \A p \in Ends : openings[p] = Cardinality(opened[p])

\* No message key encrypts two messages.
KeysDistinct == \A m, n \in sent : m.key = n.key => m = n

\* A message under the root key its reader holds is not refused as a replay
\* unless it was opened or a decryption that failed has used up its key.
EpochOpens ==
    \A p \in Ends : \A m \in sent :
        /\ m.key = Key(p, m.num)
        /\ m \notin opened[p]
        /\ m.key \notin burned[p]
        => Outcome(chain[p], m.num) # "Replay"
=============================================================================
