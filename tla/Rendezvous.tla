----------------------------- MODULE Rendezvous -----------------------------
(***************************************************************************)
(* Pairing by invite code, src/src/pairing.rs: the public service that      *)
(* keeps the invitations (run_public_service_swarm), the peer that creates *)
(* an invite (run_create_invite_at) and the peer that joins one            *)
(* (run_join_invite_at, wait_for_join_ack_and_chat).                       *)
(*                                                                         *)
(* Every loop handles one event at a time, so each action is one event of  *)
(* one process.  A relay reservation belongs to a connection: after the    *)
(* network of a creator changes it may hold a new reservation while the    *)
(* service has not yet noticed that the old connection is dead.            *)
(*                                                                         *)
(* A code stands for its hash.  Time is a count of ticks that all clocks   *)
(* share up to a constant Skew.                                            *)
(***************************************************************************)
EXTENDS Integers, FiniteSets

CONSTANTS
    Creators,       \* peers that create invites
    Joiners,        \* peers that join; each runs Join Invite once
    Codes,          \* invite codes; two draws may give the same code
    Ttl,            \* INVITE_TTL_SECS
    DiscoveryTime,  \* DISCOVERY_TIMEOUT
    JoinTime,       \* DISCOVERY_TIMEOUT + DIRECT_DIAL_GRACE
    Skew,           \* how far each creator's clock is ahead of the service's
    NoPeer,         \* the target of a joiner that has not resolved its code
    MaxTime,        \* bound on the clock
    MaxInvites,     \* bound on the invites each creator creates
    MaxConns,       \* bound on the reservations each creator obtains
    MaxLost,        \* bound on the messages lost although the connection stays
    MaxRestarts     \* bound on the restarts of the service

ASSUME PeersAssumption == NoPeer \notin Creators
ASSUME TimeAssumption ==
    /\ Ttl \in Nat \ {0} /\ DiscoveryTime \in Nat /\ JoinTime \in Nat
    /\ MaxTime \in Nat /\ Skew \in [Creators -> Int]
ASSUME RendezvousBounds ==
    /\ MaxInvites \in Nat /\ MaxConns \in Nat /\ MaxLost \in Nat
    /\ MaxRestarts \in Nat

Conns == 1 .. MaxConns

(* A row of invitations, keyed by code.  serial numbers the accepted        *)
(* registrations and is not state of the program.                           *)
Invitation == [code : Codes, peer : Creators, expires : Int, serial : Nat]

(* RegisterInvite on its way to the service; a reservation acceptance or    *)
(* the answer to a RegisterInvite on its way back.                         *)
Registration == [peer : Creators, code : Codes, expires : Int, conn : Conns]
Answer == [peer : Creators, kind : {"accepted", "registered", "error"}, conn : Conns]

(* The requests and responses of a joiner.  peer is the creator concerned,  *)
(* prekey the one-time prekey a bundle or an initial message names.         *)
JoinMsg == [kind : {"resolve", "resolved", "unknown", "getBundle", "bundle",
                    "initial", "ack"},
            joiner : Joiners, peer : Creators \cup {NoPeer}, prekey : Nat]

Creator == [stage : {"off", "inviting", "chat"}, code : Codes, started : Nat,
            expires : Int, registered : BOOLEAN, sent : BOOLEAN,
            confirmed : BOOLEAN, ready : BOOLEAN, listener : Nat]

Joiner == [stage : {"off", "dialing", "lookup", "routing", "bundle", "initial",
                    "chat", "failed"},
           code : Codes, target : Creators \cup {NoPeer}, since : Nat,
           direct : BOOLEAN, relay : BOOLEAN]

VARIABLES
    \* the service
    held,           \* invitations
    reserved,       \* reserved_peers
    reservations,   \* the relay's own record: a creator and a connection
    \* the peers
    creator,        \* the locals of run_create_invite_at
    prekey,         \* the one-time prekey in each creator's database, 0 if none
    joiner,         \* the locals of run_join_invite_at
    \* the network
    up,             \* the connections of creators to the service that work
    nextConn,       \* how many reservations each creator has obtained
    regs,           \* RegisterInvite requests in flight
    answers,        \* acceptances and answers to regs in flight
    msgs,           \* the messages of joiners in flight
    now,            \* the service's clock
    \* bookkeeping of the model
    serial,         \* accepted registrations so far
    grants,         \* resolutions: which registration went to which joiner, when
    sessions,       \* the initial messages that creators decrypted
    invites,        \* invites created by each creator
    minted,         \* one-time prekeys generated by each creator
    lost, restarts

svc   == <<held, reserved, reservations>>
peers == <<creator, prekey, joiner>>
net   == <<up, nextConn, regs, answers, msgs>>
ghost == <<serial, grants, sessions, invites, minted, lost, restarts>>
vars  == <<svc, peers, net, now, ghost>>

NotInviting(k) ==
    [stage |-> "off", code |-> k, started |-> 0, expires |-> 0, registered |-> FALSE,
     sent |-> FALSE, confirmed |-> FALSE, ready |-> FALSE, listener |-> 0]

Init ==
    /\ held = {} /\ reserved = {} /\ reservations = {}
    /\ \E k \in Codes :
          /\ creator = [c \in Creators |-> NotInviting(k)]
          /\ joiner = [j \in Joiners |->
                [stage |-> "off", code |-> k, target |-> NoPeer, since |-> 0,
                 direct |-> FALSE, relay |-> FALSE]]
    /\ prekey = [c \in Creators |-> 1]
    /\ up = {} /\ nextConn = [c \in Creators |-> 0]
    /\ regs = {} /\ answers = {} /\ msgs = {} /\ now = 0
    /\ serial = 0 /\ grants = {} /\ sessions = {}
    /\ invites = [c \in Creators |-> 0] /\ minted = [c \in Creators |-> 1]
    /\ lost = 0 /\ restarts = 0

-----------------------------------------------------------------------------
(* The creator of an invite                                                 *)

(* send_invite_registration, when the flags call for it; d is the creator   *)
(* record after the handler.                                                *)
SendsRegistration(c, d, due) ==
    /\ creator' = [creator EXCEPT ![c] = [d EXCEPT !.sent = @ \/ due]]
    /\ regs' = IF due
               THEN regs \cup {[peer |-> c, code |-> d.code, expires |-> d.expires,
                                conn |-> d.listener]}
               ELSE regs

(* The process leaves the loop or dies: its connections close, and what was *)
(* on its way to it or from it to the service is gone.                     *)
Exit(c) ==
    /\ creator' = [creator EXCEPT ![c] = NotInviting(creator[c].code)]
    /\ up' = {u \in up : u[1] # c}
    /\ regs' = {r \in regs : r.peer # c}
    /\ answers' = {a \in answers : a.peer # c}

AddressedTo(c) == {m \in msgs : m.peer = c /\ m.kind \in {"getBundle", "initial"}}

(* Create Invite: a fresh code, an expiry fixed once by the creator's own   *)
(* clock, and a request for a relay reservation.  A direct listener may     *)
(* still be pending.                                                        *)
CreateInvite(c) ==
    /\ creator[c].stage = "off"
    /\ invites[c] < MaxInvites
    /\ now + Ttl <= MaxTime
    /\ \E k \in Codes, ready \in BOOLEAN :
          creator' = [creator EXCEPT ![c] =
             [stage |-> "inviting", code |-> k, started |-> now,
              expires |-> now + Skew[c] + Ttl, registered |-> FALSE,
              sent |-> FALSE, confirmed |-> FALSE, ready |-> ready, listener |-> 0]]
    /\ invites' = [invites EXCEPT ![c] = @ + 1]
    /\ UNCHANGED <<svc, prekey, joiner, net, now, serial, grants, sessions, minted,
                   lost, restarts>>

(* NewListenAddr of a direct listener.                                      *)
DirectListenerReady(c) ==
    LET d == creator[c] IN
    /\ d.stage = "inviting"
    /\ ~d.ready \/ (d.confirmed /\ ~d.sent)
    /\ SendsRegistration(c, [d EXCEPT !.ready = TRUE], d.confirmed /\ ~d.sent)
    /\ UNCHANGED <<svc, prekey, joiner, up, nextConn, answers, msgs, now, ghost>>

(* relay::client ReservationReqAccepted.  (A renewal finds the flags set    *)
(* and changes nothing.)                                                    *)
ReservationAccepted(a) ==
    LET d == creator[a.peer] IN
    /\ a \in answers /\ a.kind = "accepted"
    /\ answers' = answers \ {a}
    /\ SendsRegistration(a.peer, [d EXCEPT !.confirmed = TRUE, !.listener = a.conn],
                         ~d.registered /\ ~d.sent /\ d.ready)
    /\ UNCHANGED <<svc, prekey, joiner, up, nextConn, msgs, now, ghost>>

(* ListenerClosed of the relay listener: everything is asked for again.     *)
(* The swarm hands over what the connection delivered before it reports     *)
(* the closed listener.                                                     *)
ListenerClosed(c) ==
    /\ creator[c].stage = "inviting"
    /\ creator[c].listener # 0
    /\ <<c, creator[c].listener>> \notin up
    /\ creator' = [creator EXCEPT ![c].confirmed = FALSE, ![c].sent = FALSE,
                                  ![c].registered = FALSE, ![c].listener = 0]
    /\ UNCHANGED <<svc, prekey, joiner, net, now, ghost>>

(* The response Registered shows the code to the user; an Error ends the    *)
(* invite.                                                                  *)
Registered(a) ==
    /\ a \in answers /\ a.kind = "registered"
    /\ creator' = [creator EXCEPT ![a.peer].registered = TRUE]
    /\ answers' = answers \ {a}
    /\ UNCHANGED <<svc, prekey, joiner, up, nextConn, regs, msgs, now, ghost>>

RegistrationRefused(a) ==
    /\ a \in answers /\ a.kind = "error"
    /\ Exit(a.peer)
    /\ msgs' = msgs \ AddressedTo(a.peer)
    /\ UNCHANGED <<svc, prekey, joiner, nextConn, now, ghost>>

(* Mutant: invite_timeout is not armed while the invite is registered.              *)
InviteTimeoutSetupOnly(c) ==
    LET d == creator[c] IN
    /\ d.stage = "inviting" /\ ~d.registered
    /\ now >= d.started + DiscoveryTime
    /\ Exit(c)
    /\ msgs' = msgs \ AddressedTo(c)
    /\ UNCHANGED <<svc, prekey, joiner, nextConn, now, ghost>>

(* setup_timeout and invite_timeout, both started with the invite: which of *)
(* them is armed depends on registered.                                     *)
InviteTimeout(c) ==
    LET d == creator[c] IN
    /\ d.stage = "inviting"
    /\ now >= d.started + (IF d.registered THEN Ttl ELSE DiscoveryTime)
    /\ Exit(c)
    /\ msgs' = msgs \ AddressedTo(c)
    /\ UNCHANGED <<svc, prekey, joiner, nextConn, now, ghost>>

(* The user leaves the chat or the program, or the process is killed.       *)
Quit(c) ==
    /\ creator[c].stage # "off"
    /\ Exit(c)
    /\ msgs' = msgs \ AddressedTo(c)
    /\ UNCHANGED <<svc, prekey, joiner, nextConn, now, ghost>>

(* Mutant: The creator keeps serving its invite after it has paired.                *)
ServingInChat(c) == creator[c].stage # "off" /\ creator[c].registered

Serving(c) == creator[c].stage = "inviting" /\ creator[c].registered

(* PreKeyBundle: answered, and the prekey replenished and saved, only while *)
(* the invite is registered; otherwise the request is dropped.              *)
ServePreKeyBundle(m) ==
    LET c == m.peer
        mint == Serving(c) /\ prekey[c] = 0
        key == IF mint THEN minted[c] + 1 ELSE prekey[c] IN
    /\ m \in msgs /\ m.kind = "getBundle"
    /\ prekey' = [prekey EXCEPT ![c] = key]
    /\ minted' = [minted EXCEPT ![c] = IF mint THEN @ + 1 ELSE @]
    /\ msgs' = (msgs \ {m}) \cup
               {b \in {[m EXCEPT !.kind = "bundle", !.prekey = key]} : Serving(c)}
    /\ UNCHANGED <<svc, creator, joiner, up, nextConn, regs, answers, now, serial,
                   grants, sessions, invites, lost, restarts>>

(* Mutant: The one-time prekey is used but stays in the database.                   *)
PairKeepsPrekey(m) ==
    LET c == m.peer IN
    /\ m \in msgs /\ m.kind = "initial"
    /\ Serving(c) /\ prekey[c] # 0 /\ m.prekey = prekey[c]
    /\ creator' = [creator EXCEPT ![c].stage = "chat", ![c].started = 0,
                                  ![c].expires = 0]
    /\ msgs' = (msgs \ {m}) \cup {[m EXCEPT !.kind = "ack"]}
    /\ sessions' = sessions \cup {[peer |-> c, invite |-> invites[c],
                                   prekey |-> m.prekey, joiner |-> m.joiner]}
    /\ UNCHANGED <<svc, prekey, joiner, up, nextConn, regs, answers, now, serial,
                   grants, invites, minted, lost, restarts>>

(* InitialMessage: decrypt_initial_message takes the one-time prekey, the   *)
(* identity and the contact are saved, the Ack is sent and the chat begins. *)
Pair(m) ==
    LET c == m.peer IN
    /\ m \in msgs /\ m.kind = "initial"
    /\ Serving(c) /\ prekey[c] # 0 /\ m.prekey = prekey[c]
    /\ prekey' = [prekey EXCEPT ![c] = 0]
    /\ creator' = [creator EXCEPT ![c].stage = "chat", ![c].started = 0,
                                  ![c].expires = 0]
    /\ msgs' = (msgs \ {m}) \cup {[m EXCEPT !.kind = "ack"]}
    /\ sessions' = sessions \cup {[peer |-> c, invite |-> invites[c],
                                   prekey |-> m.prekey, joiner |-> m.joiner]}
    /\ UNCHANGED <<svc, joiner, up, nextConn, regs, answers, now, serial, grants,
                   invites, minted, lost, restarts>>

(* An initial message for a prekey that is gone ends the invite.            *)
PairFails(m) ==
    LET c == m.peer IN
    /\ m \in msgs /\ m.kind = "initial"
    /\ Serving(c) /\ (prekey[c] = 0 \/ m.prekey # prekey[c])
    /\ Exit(c)
    /\ msgs' = msgs \ AddressedTo(c)
    /\ UNCHANGED <<svc, prekey, joiner, nextConn, now, ghost>>

(* A creator that is not serving its invite drops the request.              *)
InitialIgnored(m) ==
    /\ m \in msgs /\ m.kind = "initial" /\ ~Serving(m.peer)
    /\ msgs' = msgs \ {m}
    /\ UNCHANGED <<svc, peers, up, nextConn, regs, answers, now, ghost>>

-----------------------------------------------------------------------------
(* The public service                                                       *)

(* Mutant: Requests do not purge expired invitations.                               *)
UnexpiredAll == held

(* What every request leaves of invitations before it is looked at.         *)
Unexpired == {h \in held : h.expires > now}

(* Mutant: a code that another peer registered is overwritten.              *)
RegistrationAcceptedAnyone(r) ==
    /\ r.peer \in reserved
    /\ r.expires > now /\ r.expires <= now + Ttl

RegistrationAccepted(r) ==
    /\ r.peer \in reserved
    /\ r.expires > now /\ r.expires <= now + Ttl
    /\ \A h \in Unexpired : h.code = r.code => h.peer = r.peer

(* RegisterInvite                                                           *)
RegisterInvite(r) ==
    LET ok == RegistrationAccepted(r) IN
    /\ r \in regs
    /\ regs' = regs \ {r}
    /\ held' = IF ok
               THEN {h \in Unexpired : h.code # r.code} \cup
                    {[code |-> r.code, peer |-> r.peer, expires |-> r.expires,
                      serial |-> serial + 1]}
               ELSE Unexpired
    /\ serial' = IF ok THEN serial + 1 ELSE serial
    /\ answers' = answers \cup {[peer |-> r.peer, conn |-> r.conn,
                                 kind |-> IF ok THEN "registered" ELSE "error"]}
    /\ UNCHANGED <<reserved, reservations, peers, up, nextConn, msgs, now, grants,
                   sessions, invites, minted, lost, restarts>>

(* ResolveInvite takes the invitation out, whether or not it is then handed *)
(* to the joiner.                                                           *)
ResolveInvite(m) ==
    LET code == joiner[m.joiner].code
        found == {h \in Unexpired : h.code = code}
        given == {h \in found : h.peer \in reserved} IN
    /\ m \in msgs /\ m.kind = "resolve"
    /\ held' = Unexpired \ found
    /\ grants' = grants \cup {[serial |-> h.serial, joiner |-> m.joiner,
                               inTime |-> h.expires > now] : h \in given}
    /\ msgs' = (msgs \ {m}) \cup
               (IF given = {} THEN {[m EXCEPT !.kind = "unknown"]}
                ELSE {[m EXCEPT !.kind = "resolved", !.peer = h.peer] : h \in given})
    /\ UNCHANGED <<reserved, reservations, peers, up, nextConn, regs, answers, now,
                   serial, sessions, invites, minted, lost, restarts>>

(* relay ReservationReqAccepted at the service: a reservation on a new      *)
(* connection of c.                                                         *)
ReservationReqAccepted(c) ==
    LET n == nextConn[c] + 1 IN
    /\ creator[c].stage = "inviting" /\ creator[c].listener = 0
    /\ ~ \E a \in answers : a.peer = c /\ a.kind = "accepted"
    /\ nextConn[c] < MaxConns
    /\ nextConn' = [nextConn EXCEPT ![c] = n]
    /\ up' = up \cup {<<c, n>>}
    /\ reservations' = reservations \cup {<<c, n>>}
    /\ reserved' = reserved \cup {c}
    /\ answers' = answers \cup {[peer |-> c, kind |-> "accepted", conn |-> n]}
    /\ UNCHANGED <<held, peers, regs, msgs, now, ghost>>

(* ReservationReqAccepted again, for the renewal of a reservation that is    *)
(* still there: it brings back a peer that the close of an older connection *)
(* has taken out, but not the invitations that went with it.  The inviter   *)
(* finds its flags set and does nothing.                                    *)
ReservationRenewed(c, n) ==
    /\ <<c, n>> \in reservations \cap up
    /\ reserved' = reserved \cup {c}
    /\ UNCHANGED <<held, reservations, peers, net, now, ghost>>

(* Mutant: The reservation ends, the invitations of the peer stay.                  *)
ReservationClosedKeeps(c, n) ==
    /\ <<c, n>> \in reservations \ up
    /\ reservations' = reservations \ {<<c, n>>}
    /\ reserved' = reserved \ {c}
    /\ UNCHANGED <<held, peers, net, now, ghost>>

(* relay ReservationClosed or ReservationTimedOut: the relay reports it for *)
(* each connection, the handler forgets the peer and all its invitations.   *)
ReservationClosed(c, n) ==
    /\ <<c, n>> \in reservations \ up
    /\ reservations' = reservations \ {<<c, n>>}
    /\ reserved' = reserved \ {c}
    /\ held' = {h \in held : h.peer # c}
    /\ UNCHANGED <<peers, net, now, ghost>>

(* The service keeps everything in memory.                                  *)
ServiceRestart ==
    /\ restarts < MaxRestarts
    /\ restarts' = restarts + 1
    /\ held' = {} /\ reserved' = {} /\ reservations' = {}
    /\ up' = {} /\ regs' = {} /\ answers' = {}
    /\ msgs' = {m \in msgs : m.kind # "resolve"}
    /\ UNCHANGED <<peers, nextConn, now, serial, grants, sessions, invites, minted,
                   lost>>

-----------------------------------------------------------------------------
(* The joiner                                                               *)

Request(j, kind, c, key) == [kind |-> kind, joiner |-> j, peer |-> c, prekey |-> key]

GaveUp(k) == [stage |-> "failed", code |-> k, target |-> NoPeer, since |-> 0,
              direct |-> FALSE, relay |-> FALSE]

JoinInvite(j) ==
    /\ joiner[j].stage = "off"
    /\ now + JoinTime + DiscoveryTime <= MaxTime
    /\ \E k \in Codes :
          joiner' = [joiner EXCEPT ![j].stage = "dialing", ![j].code = k, ![j].since = now]
    /\ UNCHANGED <<svc, creator, prekey, net, now, ghost>>

(* The direct connection to the service is established: ask for the code.   *)
ServiceConnected(j) ==
    /\ joiner[j].stage = "dialing"
    /\ joiner' = [joiner EXCEPT ![j].stage = "lookup"]
    /\ msgs' = msgs \cup {Request(j, "resolve", NoPeer, 0)}
    /\ UNCHANGED <<svc, creator, prekey, up, nextConn, regs, answers, now, ghost>>

(* Resolved: dial the direct addresses first if any survive sanitizing,     *)
(* the relay otherwise.                                                     *)
Resolved(m) ==
    /\ m \in msgs /\ m.kind = "resolved"
    /\ joiner[m.joiner].stage = "lookup"
    /\ \E direct \in BOOLEAN :
          joiner' = [joiner EXCEPT ![m.joiner].stage = "routing",
                                   ![m.joiner].target = m.peer,
                                   ![m.joiner].direct = direct,
                                   ![m.joiner].relay = ~direct]
    /\ msgs' = msgs \ {m}
    /\ UNCHANGED <<svc, creator, prekey, up, nextConn, regs, answers, now, ghost>>

NotResolved(m) ==
    /\ m \in msgs /\ m.kind = "unknown"
    /\ joiner[m.joiner].stage = "lookup"
    /\ joiner' = [joiner EXCEPT ![m.joiner] = GaveUp(@.code)]
    /\ msgs' = msgs \ {m}
    /\ UNCHANGED <<svc, creator, prekey, up, nextConn, regs, answers, now, ghost>>

(* The grace period is over or the direct dial failed.                      *)
FallBackToRelay(j) ==
    /\ joiner[j].stage = "routing" /\ ~joiner[j].relay
    /\ joiner' = [joiner EXCEPT ![j].relay = TRUE]
    /\ UNCHANGED <<svc, creator, prekey, net, now, ghost>>

(* Connected to the target: the relay carries a circuit to a peer with a    *)
(* reservation, a direct dial reaches any running peer.                     *)
TargetConnected(j) ==
    LET t == joiner[j].target IN
    /\ joiner[j].stage = "routing"
    /\ creator[t].stage # "off"
    /\ joiner[j].direct \/ \E n \in Conns : <<t, n>> \in reservations \cap up
    /\ joiner' = [joiner EXCEPT ![j].stage = "bundle"]
    /\ msgs' = msgs \cup {Request(j, "getBundle", t, 0)}
    /\ UNCHANGED <<svc, creator, prekey, up, nextConn, regs, answers, now, ghost>>

(* The bundle arrives: contact and session are saved, InitialMessage sent,  *)
(* and wait_for_join_ack_and_chat starts its own timeout.                   *)
BundleArrives(m) ==
    LET j == m.joiner IN
    /\ m \in msgs /\ m.kind = "bundle"
    /\ joiner[j].stage = "bundle"
    /\ joiner' = [joiner EXCEPT ![j].stage = "initial", ![j].since = now]
    /\ msgs' = (msgs \ {m}) \cup
               {i \in {[m EXCEPT !.kind = "initial"]} : creator[m.peer].stage # "off"}
    /\ UNCHANGED <<svc, creator, prekey, up, nextConn, regs, answers, now, ghost>>

PairingAcked(m) ==
    /\ m \in msgs /\ m.kind = "ack"
    /\ joiner[m.joiner].stage = "initial"
    /\ joiner' = [joiner EXCEPT ![m.joiner].stage = "chat", ![m.joiner].since = 0,
                             ![m.joiner].direct = FALSE, ![m.joiner].relay = FALSE]
    /\ msgs' = msgs \ {m}
    /\ UNCHANGED <<svc, creator, prekey, up, nextConn, regs, answers, now, ghost>>

(* The joiner gives up: pairing_timeout before the initial message is sent, *)
(* afterwards the ack timeout or an OutboundFailure, which follows once     *)
(* neither the message nor its ack is in flight.                            *)
JoinFails(j) ==
    LET s == joiner[j].stage IN
    /\ \/ /\ s \in {"dialing", "lookup", "routing", "bundle"}
          /\ now >= joiner[j].since + JoinTime
       \/ /\ s = "initial"
          /\ \/ now >= joiner[j].since + DiscoveryTime
             \/ \A m \in msgs : m.joiner = j => m.kind \notin {"initial", "ack"}
    /\ joiner' = [joiner EXCEPT ![j] = GaveUp(@.code)]
    /\ msgs' = {m \in msgs : m.joiner = j => m.kind \in {"resolve", "getBundle", "initial"}}
    /\ UNCHANGED <<svc, creator, prekey, up, nextConn, regs, answers, now, ghost>>

-----------------------------------------------------------------------------
(* The network and time                                                     *)

(* A connection to the service dies with what it carried.                   *)
Break(c, n) ==
    /\ <<c, n>> \in up
    /\ up' = up \ {<<c, n>>}
    /\ regs' = {r \in regs : ~(r.peer = c /\ r.conn = n)}
    /\ answers' = {a \in answers : ~(a.peer = c /\ a.conn = n)}
    /\ UNCHANGED <<svc, peers, nextConn, msgs, now, ghost>>

(* A message of a joiner or a registration is lost; its sender ignores the  *)
(* OutboundFailure, except as JoinFails says.                               *)
Lose ==
    /\ lost < MaxLost
    /\ lost' = lost + 1
    /\ \/ \E m \in msgs : msgs' = msgs \ {m} /\ UNCHANGED regs
       \/ \E r \in regs : regs' = regs \ {r} /\ UNCHANGED msgs
    /\ UNCHANGED <<svc, peers, up, nextConn, answers, now, serial, grants, sessions,
                   invites, minted, restarts>>

Tick ==
    /\ now < MaxTime
    /\ now' = now + 1
    /\ UNCHANGED <<svc, peers, net, ghost>>

CreatorEvent ==
    \/ \E c \in Creators : \/ DirectListenerReady(c) \/ ListenerClosed(c)
                           \/ InviteTimeout(c)
    \/ \E a \in answers : \/ ReservationAccepted(a) \/ Registered(a)
                          \/ RegistrationRefused(a)
    \/ \E m \in msgs : \/ ServePreKeyBundle(m) \/ Pair(m) \/ PairFails(m)
                       \/ InitialIgnored(m)

ServiceEvent ==
    \/ \E r \in regs : RegisterInvite(r)
    \/ \E m \in msgs : ResolveInvite(m)
    \/ \E c \in Creators, n \in Conns : ReservationClosed(c, n)

JoinerEvent ==
    \/ \E j \in Joiners : \/ ServiceConnected(j) \/ FallBackToRelay(j)
                          \/ TargetConnected(j) \/ JoinFails(j)
    \/ \E m \in msgs : \/ Resolved(m) \/ NotResolved(m) \/ BundleArrives(m)
                       \/ PairingAcked(m)

Environment ==
    \/ \E c \in Creators : CreateInvite(c) \/ Quit(c) \/ ReservationReqAccepted(c)
    \/ \E c \in Creators, n \in Conns : Break(c, n) \/ ReservationRenewed(c, n)
    \/ \E j \in Joiners : JoinInvite(j)
    \/ ServiceRestart \/ Lose \/ Tick

Next == CreatorEvent \/ ServiceEvent \/ JoinerEvent \/ Environment

Spec == Init /\ [][Next]_vars

(* Every process keeps handling its events, its timers fire and time        *)
(* passes.  Users, the network and the relay promise nothing.               *)
FairSpec == Spec /\ WF_vars(Tick) /\ WF_vars(CreatorEvent) /\ WF_vars(JoinerEvent)
                 /\ \A c \in Creators : WF_vars(InviteTimeout(c))
                 /\ \A j \in Joiners : WF_vars(JoinFails(j))

-----------------------------------------------------------------------------
(* Properties                                                               *)

(* The shape of the service's tables, of the peers' locals and of the       *)
(* network.  The service holds invitations only of peers it believes        *)
(* reserved, one for each code, however registrations, closed reservations  *)
(* and resolutions interleave: so the second check of reserved_peers in     *)
(* ResolveInvite never consumes a code in vain.                             *)
TypeOK ==
    /\ held \subseteq Invitation
    /\ \A h \in held : /\ h.peer \in reserved
                       /\ \A g \in held : g.code = h.code => g = h
    /\ reserved \subseteq Creators
    /\ reservations \subseteq Creators \X Conns
    /\ creator \in [Creators -> Creator]
    /\ prekey \in [Creators -> Nat]
    /\ joiner \in [Joiners -> Joiner]
    /\ up \subseteq Creators \X Conns
    /\ nextConn \in [Creators -> Nat]
    /\ regs \subseteq Registration
    /\ answers \subseteq Answer
    /\ msgs \subseteq JoinMsg
    /\ now \in Nat /\ serial \in Nat /\ lost \in Nat /\ restarts \in Nat
    /\ invites \in [Creators -> Nat] /\ minted \in [Creators -> Nat]

(* An accepted registration is handed to at most one joiner, and never once *)
(* the expiry its creator fixed has passed on the service's clock.          *)
OneJoinerPerRegistration ==
    \A g \in grants : /\ g.inTime
                      /\ \A h \in grants : h.serial = g.serial => h = g

(* A joiner that enters the chat was paired by its target, and one invite   *)
(* pairs at most one joiner, even when its code was resolved twice.         *)
PairedBothWays ==
    /\ \A j \in Joiners : joiner[j].stage = "chat" =>
          \E s \in sessions : s.joiner = j /\ s.peer = joiner[j].target
    /\ \A s, t \in sessions : s.peer = t.peer /\ s.invite = t.invite => s = t

(* No one-time prekey starts two sessions, across lost acks, abandoned      *)
(* joins and further invites of the same creator.                           *)
PrekeyUsedOnce ==
    \A s, t \in sessions : s.peer = t.peer /\ s.prekey = t.prekey => s = t

(* While an invitation is good, no other creator that happens to draw the   *)
(* same code can replace it.                                                *)
CodeNotTaken ==
    [][\A h \in held : h.expires > now =>
          \A g \in held' : g.code = h.code => g.peer = h.peer]_vars

(* Neither side waits for ever: an invite ends in a chat or an error and so *)
(* does a join, whatever is lost.                                           *)
PairingEnds ==
    /\ \A c \in Creators : creator[c].stage = "inviting" ~> creator[c].stage # "inviting"
    /\ \A j \in Joiners : joiner[j].stage = "dialing" ~> joiner[j].stage \in {"chat", "failed"}

====
