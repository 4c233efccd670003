-------------------------- MODULE RendezvousProofs --------------------------
(***************************************************************************)
(* Pairing by invite code for any number of creators, joiners and codes,    *)
(* any clocks and any number of losses, broken connections and restarts.    *)
(***************************************************************************)
EXTENDS Rendezvous, TLAPS

-----------------------------------------------------------------------------
(* Types                                                                    *)

ServiceOK ==
    /\ held \subseteq Invitation
    /\ \A h \in held : /\ h.peer \in reserved
                       /\ \A g \in held : g.code = h.code => g = h
    /\ reserved \subseteq Creators
    /\ reservations \subseteq Creators \X Conns
    /\ now \in Nat /\ serial \in Nat

\* A creator registers only over a connection it has.
CreatorsOK ==
    /\ creator \in [Creators -> Creator]
    /\ \A c \in Creators : creator[c].confirmed => creator[c].listener \in Conns
    /\ prekey \in [Creators -> Nat] /\ nextConn \in [Creators -> Nat]
    /\ invites \in [Creators -> Nat] /\ minted \in [Creators -> Nat]

Routed == {"routing", "bundle", "initial", "chat"}

\* A joiner has a target once its code is resolved.
JoinersOK ==
    /\ joiner \in [Joiners -> Joiner]
    /\ \A j \in Joiners : joiner[j].stage \in Routed => joiner[j].target \in Creators

\* Only a question for a code and its refusal concern no creator.
NetOK ==
    /\ up \subseteq Creators \X Conns
    /\ regs \subseteq Registration
    /\ answers \subseteq Answer
    /\ msgs \subseteq JoinMsg
    /\ \A m \in msgs : m.kind \notin {"resolve", "unknown"} => m.peer \in Creators
    /\ lost \in Nat /\ restarts \in Nat

Types == ServiceOK /\ CreatorsOK /\ JoinersOK /\ NetOK

LEMMA TypesAreTypeOK == Types => TypeOK
BY DEF Types, ServiceOK, CreatorsOK, JoinersOK, NetOK, TypeOK

LEMMA Constants ==
    /\ Ttl \in Nat /\ DiscoveryTime \in Nat /\ JoinTime \in Nat /\ MaxTime \in Nat
    /\ \A c \in Creators : Skew[c] \in Int
    /\ MaxConns \in Nat /\ NoPeer \notin Creators
BY TimeAssumption, RendezvousBounds, PeersAssumption

LEMMA TypesInit == Init => Types
<1> SUFFICES ASSUME Init PROVE Types
  OBVIOUS
<1>1. PICK k \in Codes :
          /\ creator = [c \in Creators |-> NotInviting(k)]
          /\ joiner = [j \in Joiners |->
                [stage |-> "off", code |-> k, target |-> NoPeer, since |-> 0,
                 direct |-> FALSE, relay |-> FALSE]]
  BY DEF Init
<1>2. CreatorsOK
  BY <1>1 DEF Init, CreatorsOK, NotInviting, Creator
<1>3. JoinersOK
  BY <1>1 DEF JoinersOK, Joiner, Routed
<1> QED
  BY <1>2, <1>3 DEF Init, Types, ServiceOK, NetOK

\* The parts of the state that an action leaves alone.
LEMMA ServiceFrame ==
    ASSUME ServiceOK, UNCHANGED <<held, reserved, reservations, now, serial>>
    PROVE  ServiceOK'
BY DEF ServiceOK

LEMMA CreatorsFrame ==
    ASSUME CreatorsOK, UNCHANGED <<creator, prekey, nextConn, invites, minted>>
    PROVE  CreatorsOK'
BY DEF CreatorsOK

LEMMA JoinersFrame ==
    ASSUME JoinersOK, UNCHANGED joiner
    PROVE  JoinersOK'
BY DEF JoinersOK

LEMMA NetFrame ==
    ASSUME NetOK, up' \subseteq up, regs' \subseteq regs, answers' \subseteq answers,
           msgs' \subseteq msgs, UNCHANGED <<lost, restarts>>
    PROVE  NetOK'
BY DEF NetOK

LEMMA CreatorRecord ==
    ASSUME Types, NEW c \in Creators
    PROVE  creator[c] \in Creator /\ (creator[c].confirmed => creator[c].listener \in Conns)
BY DEF Types, CreatorsOK

LEMMA PairedRecord ==
    ASSUME NEW e \in Creator
    PROVE  LET d == [e EXCEPT !.stage = "chat", !.started = 0, !.expires = 0] IN
           d \in Creator /\ d.confirmed = e.confirmed /\ d.listener = e.listener
<1> DEFINE f == [e EXCEPT !.stage = "chat"]
           g == [f EXCEPT !.started = 0]
           d == [g EXCEPT !.expires = 0]
<1>1. f \in Creator /\ f.confirmed = e.confirmed /\ f.listener = e.listener
  BY DEF Creator
<1>2. g \in Creator /\ g.confirmed = f.confirmed /\ g.listener = f.listener
  <2> HIDE DEF f
  <2> QED
    BY <1>1 DEF Creator
<1>3. d \in Creator /\ d.confirmed = g.confirmed /\ d.listener = g.listener
  <2> HIDE DEF g
  <2> QED
    BY <1>2 DEF Creator
<1>4. [e EXCEPT !.stage = "chat", !.started = 0, !.expires = 0] = d
  BY DEF Creator
<1> QED
  BY <1>1, <1>2, <1>3, <1>4

\* One creator's record changes.
LEMMA OneCreator ==
    ASSUME CreatorsOK, NEW c \in Creators, NEW d \in Creator,
           d.confirmed => d.listener \in Conns, creator' = [creator EXCEPT ![c] = d],
           UNCHANGED <<prekey, nextConn, invites, minted>>
    PROVE  CreatorsOK'
BY DEF CreatorsOK

LEMMA OneJoiner ==
    ASSUME JoinersOK, NEW j \in Joiners, NEW d \in Joiner,
           d.stage \in Routed => d.target \in Creators, joiner' = [joiner EXCEPT ![j] = d]
    PROVE  JoinersOK'
BY DEF JoinersOK

LEMMA OneMessage ==
    ASSUME NetOK, NEW m \in JoinMsg, m.kind \notin {"resolve", "unknown"} => m.peer \in Creators,
           msgs' \subseteq msgs \cup {m}, UNCHANGED <<up, regs, answers, lost, restarts>>
    PROVE  NetOK'
BY DEF NetOK

\* The process of a creator ends.
LEMMA ExitTypes ==
    ASSUME Types, NEW c \in Creators, Exit(c), msgs' \subseteq msgs,
           UNCHANGED <<svc, prekey, joiner, nextConn, now, ghost>>
    PROVE  Types'
<1>1. creator[c] \in Creator
  BY DEF Types, CreatorsOK
<1>2. NotInviting(creator[c].code) \in Creator /\ ~NotInviting(creator[c].code).confirmed
  BY <1>1 DEF NotInviting, Creator
<1>3. CreatorsOK'
  BY <1>2, OneCreator DEF Exit, ghost, Types
<1>4. NetOK'
  BY NetFrame DEF Exit, ghost, Types
<1>5. ServiceOK' /\ JoinersOK'
  BY ServiceFrame, JoinersFrame DEF svc, ghost, Types
<1> QED
  BY <1>3, <1>4, <1>5 DEF Types

\* A registration goes out over the listener's connection.
LEMMA SendTypes ==
    ASSUME Types, NEW c \in Creators, NEW d \in Creator, NEW due \in BOOLEAN,
           SendsRegistration(c, d, due), d.confirmed => d.listener \in Conns,
           due => d.confirmed,
           answers' \subseteq answers,
           UNCHANGED <<svc, prekey, joiner, up, nextConn, msgs, now, ghost>>
    PROVE  Types'
<1> DEFINE e == [d EXCEPT !.sent = @ \/ due]
<1>1. e \in Creator /\ e.confirmed = d.confirmed /\ e.listener = d.listener
  BY DEF Creator
<1>2. CreatorsOK'
  <2> HIDE DEF e
  <2>1. creator' = [creator EXCEPT ![c] = e]
    BY DEF SendsRegistration, e
  <2> QED
    BY <1>1, <2>1, OneCreator DEF ghost, Types
<1>3. regs' \subseteq Registration
  <2>1. CASE due
    <3>1. [peer |-> c, code |-> d.code, expires |-> d.expires, conn |-> d.listener]
              \in Registration
      BY <2>1 DEF Registration, Creator
    <3> QED
      BY <2>1, <3>1 DEF SendsRegistration, Types, NetOK
  <2>2. CASE ~due
    BY <2>2 DEF SendsRegistration, Types, NetOK
  <2> QED
    BY <2>1, <2>2
<1>4. NetOK'
  BY <1>3 DEF ghost, Types, NetOK
<1>5. ServiceOK' /\ JoinersOK'
  BY ServiceFrame, JoinersFrame DEF svc, ghost, Types
<1> QED
  BY <1>2, <1>4, <1>5 DEF Types

LEMMA CreatorTypes ==
    ASSUME Types, CreatorEvent
    PROVE  Types'
<1>1. ASSUME NEW c \in Creators, DirectListenerReady(c)
      PROVE  Types'
  <2> DEFINE d == [creator[c] EXCEPT !.ready = TRUE]
             due == creator[c].confirmed /\ ~creator[c].sent
  <2>1. creator[c] \in Creator /\ (creator[c].confirmed => creator[c].listener \in Conns)
    BY DEF Types, CreatorsOK
  <2>2. d \in Creator /\ due \in BOOLEAN /\ (d.confirmed => d.listener \in Conns)
        /\ (due => d.confirmed)
    BY <2>1 DEF Creator
  <2>3. SendsRegistration(c, d, due)
        /\ UNCHANGED <<svc, prekey, joiner, up, nextConn, answers, msgs, now, ghost>>
    BY <1>1 DEF DirectListenerReady
  <2> HIDE DEF d, due
  <2> QED
    BY <2>2, <2>3, SendTypes
<1>2. ASSUME NEW c \in Creators, ListenerClosed(c)
      PROVE  Types'
  <2> DEFINE d == [creator[c] EXCEPT !.confirmed = FALSE, !.sent = FALSE,
                                     !.registered = FALSE, !.listener = 0]
  <2>1. d \in Creator /\ ~d.confirmed
    BY DEF Types, CreatorsOK, Creator
  <2>2. creator' = [creator EXCEPT ![c] = d]
    BY <1>2 DEF ListenerClosed, Types, CreatorsOK, Creator
  <2> HIDE DEF d
  <2>3. CreatorsOK'
    BY <1>2, <2>1, <2>2, OneCreator DEF ListenerClosed, net, ghost, Types
  <2>4. ServiceOK' /\ JoinersOK' /\ NetOK'
    BY <1>2, ServiceFrame, JoinersFrame, NetFrame DEF ListenerClosed, svc, net, ghost, Types
  <2> QED
    BY <2>3, <2>4 DEF Types
<1>3. ASSUME NEW c \in Creators, InviteTimeout(c)
      PROVE  Types'
  BY <1>3, ExitTypes DEF InviteTimeout
<1>4. ASSUME NEW a \in answers, ReservationAccepted(a)
      PROVE  Types'
  <2> DEFINE c == a.peer
             d == [creator[c] EXCEPT !.confirmed = TRUE, !.listener = a.conn]
             due == ~creator[c].registered /\ ~creator[c].sent /\ creator[c].ready
  <2>1. c \in Creators /\ a.conn \in Conns /\ Conns \subseteq Nat
    BY Constants DEF Types, NetOK, Answer, Conns
  <2>2. d \in Creator /\ due \in BOOLEAN /\ d.confirmed /\ d.listener \in Conns
    <3>1. creator[c] \in Creator
      BY <2>1, CreatorRecord
    <3> QED
      BY <2>1, <3>1 DEF Creator
  <2>3. SendsRegistration(c, d, due) /\ answers' \subseteq answers
        /\ UNCHANGED <<svc, prekey, joiner, up, nextConn, msgs, now, ghost>>
    BY <1>4 DEF ReservationAccepted
  <2> HIDE DEF c, d, due
  <2> QED
    BY <2>1, <2>2, <2>3, SendTypes
<1>5. ASSUME NEW a \in answers, Registered(a)
      PROVE  Types'
  <2> DEFINE d == [creator[a.peer] EXCEPT !.registered = TRUE]
  <2>1. a.peer \in Creators
    BY DEF Types, NetOK, Answer
  <2>2. d \in Creator /\ (d.confirmed => d.listener \in Conns)
    <3>1. /\ creator[a.peer] \in Creator
          /\ creator[a.peer].confirmed => creator[a.peer].listener \in Conns
      BY <2>1, CreatorRecord
    <3> QED
      BY <3>1 DEF Creator
  <2>3. creator' = [creator EXCEPT ![a.peer] = d]
    BY <1>5, <2>1 DEF Registered, Types, CreatorsOK, Creator
  <2> HIDE DEF d
  <2>4. CreatorsOK'
    BY <1>5, <2>1, <2>2, <2>3, OneCreator DEF Registered, ghost, Types
  <2>5. ServiceOK' /\ JoinersOK' /\ NetOK'
    BY <1>5, ServiceFrame, JoinersFrame, NetFrame DEF Registered, svc, ghost, Types
  <2> QED
    BY <2>4, <2>5 DEF Types
<1>6. ASSUME NEW a \in answers, RegistrationRefused(a)
      PROVE  Types'
  <2>1. a.peer \in Creators
    BY DEF Types, NetOK, Answer
  <2> QED
    BY <1>6, <2>1, ExitTypes DEF RegistrationRefused
<1>7. ASSUME NEW m \in msgs, ServePreKeyBundle(m)
      PROVE  Types'
  <2>1. m.peer \in Creators /\ m \in JoinMsg
    BY <1>7 DEF ServePreKeyBundle, Types, NetOK
  <2> DEFINE mint == Serving(m.peer) /\ prekey[m.peer] = 0
             key == IF mint THEN minted[m.peer] + 1 ELSE prekey[m.peer]
             b == [m EXCEPT !.kind = "bundle", !.prekey = key]
  <2>2. key \in Nat
    BY <2>1 DEF Types, CreatorsOK
  <2>3. /\ prekey' = [prekey EXCEPT ![m.peer] = key]
        /\ minted' = [minted EXCEPT ![m.peer] = IF mint THEN @ + 1 ELSE @]
        /\ msgs' \subseteq msgs \cup {b}
        /\ UNCHANGED <<svc, creator, joiner, up, nextConn, regs, answers, now, serial,
                       grants, sessions, invites, lost, restarts>>
    BY <1>7 DEF ServePreKeyBundle
  <2>4. CreatorsOK'
    <3> HIDE DEF mint, key, b
    <3> QED
      BY <2>1, <2>2, <2>3 DEF Types, CreatorsOK
  <2>5. b \in JoinMsg /\ b.kind = "bundle" /\ b.peer \in Creators
    <3> HIDE DEF key
    <3> QED
      BY <2>1, <2>2 DEF JoinMsg
  <2> HIDE DEF mint, key, b
  <2>6. NetOK'
    BY <2>3, <2>5, OneMessage DEF Types
  <2>7. ServiceOK' /\ JoinersOK'
    BY <2>3, ServiceFrame, JoinersFrame DEF svc, Types
  <2> QED
    BY <2>4, <2>6, <2>7 DEF Types
<1>8. ASSUME NEW m \in msgs, Pair(m)
      PROVE  Types'
  <2>1. m.peer \in Creators /\ m \in JoinMsg
    BY <1>8 DEF Pair, Types, NetOK
  <2> DEFINE d == [creator[m.peer] EXCEPT !.stage = "chat", !.started = 0, !.expires = 0]
             b == [m EXCEPT !.kind = "ack"]
  <2>2. d \in Creator /\ (d.confirmed => d.listener \in Conns)
    <3>1. /\ creator[m.peer] \in Creator
          /\ creator[m.peer].confirmed => creator[m.peer].listener \in Conns
      BY <2>1, CreatorRecord
    <3> QED
      BY <3>1, PairedRecord
  <2>3. creator' = [creator EXCEPT ![m.peer] = d]
    BY <1>8, <2>1 DEF Pair, Types, CreatorsOK, Creator
  <2>4. b \in JoinMsg /\ b.peer \in Creators
    BY <2>1 DEF JoinMsg
  <2>5. /\ prekey' = [prekey EXCEPT ![m.peer] = 0] /\ msgs' \subseteq msgs \cup {b}
        /\ UNCHANGED <<svc, joiner, up, nextConn, regs, answers, now, serial, grants,
                       invites, minted, lost, restarts>>
    BY <1>8 DEF Pair
  <2> HIDE DEF d, b
  <2>6. CreatorsOK'
    BY <2>1, <2>2, <2>3, <2>5 DEF Types, CreatorsOK
  <2>7. NetOK'
    BY <2>4, <2>5, OneMessage DEF Types
  <2>8. ServiceOK' /\ JoinersOK'
    BY <2>5, ServiceFrame, JoinersFrame DEF svc, Types
  <2> QED
    BY <2>6, <2>7, <2>8 DEF Types
<1>9. ASSUME NEW m \in msgs, PairFails(m)
      PROVE  Types'
  <2>1. m.peer \in Creators
    BY <1>9 DEF PairFails, Types, NetOK
  <2> QED
    BY <1>9, <2>1, ExitTypes DEF PairFails
<1>10. ASSUME NEW m \in msgs, InitialIgnored(m)
       PROVE  Types'
  BY <1>10, ServiceFrame, CreatorsFrame, JoinersFrame, NetFrame
     DEF InitialIgnored, svc, peers, ghost, Types
<1> QED
  BY <1>1, <1>2, <1>3, <1>4, <1>5, <1>6, <1>7, <1>8, <1>9, <1>10 DEF CreatorEvent

LEMMA ServiceTypes ==
    ASSUME Types, ServiceEvent
    PROVE  Types'
<1>1. Unexpired \subseteq held
  BY DEF Unexpired
<1>2. ASSUME NEW r \in regs, RegisterInvite(r)
      PROVE  Types'
  <2>1. r \in Registration
    BY DEF Types, NetOK
  <2> DEFINE ok == RegistrationAccepted(r)
             i == [code |-> r.code, peer |-> r.peer, expires |-> r.expires,
                   serial |-> serial + 1]
             a == [peer |-> r.peer, conn |-> r.conn,
                   kind |-> IF ok THEN "registered" ELSE "error"]
  <2>2. i \in Invitation /\ i.code = r.code /\ i.peer = r.peer
    BY <2>1 DEF Registration, Invitation, Types, ServiceOK
  <2>3. a \in Answer
    <3> HIDE DEF ok
    <3> QED
      BY <2>1 DEF Registration, Answer
  <2>4. /\ held' = IF ok THEN {h \in Unexpired : h.code # r.code} \cup {i} ELSE Unexpired
        /\ serial' = IF ok THEN serial + 1 ELSE serial
        /\ regs' \subseteq regs /\ answers' = answers \cup {a}
        /\ UNCHANGED <<reserved, reservations, peers, up, nextConn, msgs, now, grants,
                       sessions, invites, minted, lost, restarts>>
    BY <1>2 DEF RegisterInvite
  <2>5. ok => r.peer \in reserved
    BY DEF RegistrationAccepted
  <2> HIDE DEF ok, i, a
  <2>6. ServiceOK'
    <3>1. held' \subseteq Invitation /\ serial' \in Nat
      BY <1>1, <2>2, <2>4 DEF Types, ServiceOK
    <3>2. \A h \in held' : h.peer \in reserved /\ \A g \in held' : g.code = h.code => g = h
      BY <1>1, <2>2, <2>4, <2>5 DEF Types, ServiceOK
    <3> QED
      BY <2>4, <3>1, <3>2 DEF Types, ServiceOK
  <2>7. NetOK'
    BY <2>3, <2>4 DEF Types, NetOK
  <2>8. CreatorsOK' /\ JoinersOK'
    BY <2>4, CreatorsFrame, JoinersFrame DEF peers, Types
  <2> QED
    BY <2>6, <2>7, <2>8 DEF Types
<1>3. ASSUME NEW m \in msgs, ResolveInvite(m)
      PROVE  Types'
  <2> DEFINE found == {h \in Unexpired : h.code = joiner[m.joiner].code}
             given == {h \in found : h.peer \in reserved}
  <2>1. /\ held' = Unexpired \ found
        /\ msgs' = (msgs \ {m}) \cup
               (IF given = {} THEN {[m EXCEPT !.kind = "unknown"]}
                ELSE {[m EXCEPT !.kind = "resolved", !.peer = h.peer] : h \in given})
        /\ UNCHANGED <<reserved, reservations, peers, up, nextConn, regs, answers, now,
                       serial, sessions, invites, minted, lost, restarts>>
    BY <1>3 DEF ResolveInvite
  <2>2. ServiceOK'
    BY <1>1, <2>1 DEF Types, ServiceOK
  <2>3. m \in JoinMsg
    BY DEF Types, NetOK
  <2>4. [m EXCEPT !.kind = "unknown"] \in JoinMsg /\ [m EXCEPT !.kind = "unknown"].kind = "unknown"
    BY <2>3 DEF JoinMsg
  <2>5. ASSUME NEW h \in given
        PROVE  /\ [m EXCEPT !.kind = "resolved", !.peer = h.peer] \in JoinMsg
               /\ [m EXCEPT !.kind = "resolved", !.peer = h.peer].peer \in Creators
    <3>1. h.peer \in Creators
      BY DEF Types, ServiceOK
    <3> QED
      BY <2>3, <3>1 DEF JoinMsg
  <2>6. \A n \in msgs' : n \in msgs \/ n = [m EXCEPT !.kind = "unknown"]
                         \/ \E h \in given : n = [m EXCEPT !.kind = "resolved", !.peer = h.peer]
    BY <2>1
  <2> HIDE DEF given, found
  <2>7. NetOK'
    BY <2>1, <2>4, <2>5, <2>6 DEF Types, NetOK
  <2>8. CreatorsOK' /\ JoinersOK'
    BY <2>1, CreatorsFrame, JoinersFrame DEF peers, Types
  <2> QED
    BY <2>2, <2>7, <2>8 DEF Types
<1>4. ASSUME NEW c \in Creators, NEW n \in Conns, ReservationClosed(c, n)
      PROVE  Types'
  <2>1. ServiceOK'
    BY <1>4 DEF ReservationClosed, ghost, Types, ServiceOK
  <2>2. CreatorsOK' /\ JoinersOK' /\ NetOK'
    BY <1>4, CreatorsFrame, JoinersFrame, NetFrame
       DEF ReservationClosed, peers, net, ghost, Types
  <2> QED
    BY <2>1, <2>2 DEF Types
<1> QED
  BY <1>2, <1>3, <1>4 DEF ServiceEvent

LEMMA JoinerRecord ==
    ASSUME Types, NEW j \in Joiners
    PROVE  joiner[j] \in Joiner /\ (joiner[j].stage \in Routed => joiner[j].target \in Creators)
BY DEF Types, JoinersOK

LEMMA JoinMsgTypes ==
    ASSUME Types, NEW m \in msgs
    PROVE  /\ m \in JoinMsg /\ m.joiner \in Joiners
           /\ m.kind \notin {"resolve", "unknown"} => m.peer \in Creators
BY DEF Types, NetOK, JoinMsg

\* A joiner's handler changes its locals and the messages, nothing else.
LEMMA JoinerHandler ==
    ASSUME Types, JoinersOK', NetOK',
           UNCHANGED <<svc, creator, prekey, nextConn, now, ghost>>
    PROVE  Types'
BY ServiceFrame, CreatorsFrame DEF svc, ghost, Types

LEMMA GaveUpType ==
    ASSUME NEW k \in Codes
    PROVE  GaveUp(k) \in Joiner /\ GaveUp(k).stage \notin Routed
BY DEF GaveUp, Joiner, Routed

LEMMA JoinerTypes ==
    ASSUME Types, JoinerEvent
    PROVE  Types'
<1>1. ASSUME NEW j \in Joiners, ServiceConnected(j)
      PROVE  Types'
  <2> DEFINE d == [joiner[j] EXCEPT !.stage = "lookup"]
             q == Request(j, "resolve", NoPeer, 0)
  <2>1. joiner[j] \in Joiner
    BY JoinerRecord
  <2>2. d \in Joiner /\ d.stage \notin Routed
    BY <2>1 DEF Joiner, Routed
  <2>3. q \in JoinMsg /\ q.kind = "resolve"
    BY DEF Request, JoinMsg
  <2>4. /\ joiner' = [joiner EXCEPT ![j] = d] /\ msgs' = msgs \cup {q}
        /\ UNCHANGED <<svc, creator, prekey, up, nextConn, regs, answers, now, ghost>>
    BY <1>1 DEF ServiceConnected
  <2> HIDE DEF d, q
  <2>5. JoinersOK'
    BY <2>2, <2>4, OneJoiner DEF Types
  <2>6. NetOK'
    BY <2>3, <2>4, OneMessage DEF ghost, Types
  <2> QED
    BY <2>4, <2>5, <2>6, JoinerHandler
<1>2. ASSUME NEW j \in Joiners, FallBackToRelay(j)
      PROVE  Types'
  <2> DEFINE d == [joiner[j] EXCEPT !.relay = TRUE]
  <2>1. joiner[j] \in Joiner /\ joiner[j].target \in Creators
    BY <1>2, JoinerRecord DEF FallBackToRelay, Routed
  <2>2. d \in Joiner /\ d.target \in Creators
    BY <2>1 DEF Joiner
  <2>3. /\ joiner' = [joiner EXCEPT ![j] = d]
        /\ UNCHANGED <<svc, creator, prekey, net, now, ghost>>
    BY <1>2 DEF FallBackToRelay
  <2> HIDE DEF d
  <2>4. JoinersOK'
    BY <2>2, <2>3, OneJoiner DEF Types
  <2>5. NetOK'
    BY <2>3, NetFrame DEF net, ghost, Types
  <2> QED
    BY <2>3, <2>4, <2>5, JoinerHandler DEF net
<1>3. ASSUME NEW j \in Joiners, TargetConnected(j)
      PROVE  Types'
  <2> DEFINE d == [joiner[j] EXCEPT !.stage = "bundle"]
             q == Request(j, "getBundle", joiner[j].target, 0)
  <2>1. joiner[j] \in Joiner /\ joiner[j].target \in Creators
    BY <1>3, JoinerRecord DEF TargetConnected, Routed
  <2>2. d \in Joiner /\ d.target \in Creators
    BY <2>1 DEF Joiner
  <2>3. q \in JoinMsg /\ q.peer \in Creators
    BY <2>1 DEF Request, JoinMsg
  <2>4. /\ joiner' = [joiner EXCEPT ![j] = d] /\ msgs' = msgs \cup {q}
        /\ UNCHANGED <<svc, creator, prekey, up, nextConn, regs, answers, now, ghost>>
    BY <1>3 DEF TargetConnected
  <2> HIDE DEF d, q
  <2>5. JoinersOK'
    BY <2>2, <2>4, OneJoiner DEF Types
  <2>6. NetOK'
    BY <2>3, <2>4, OneMessage DEF ghost, Types
  <2> QED
    BY <2>4, <2>5, <2>6, JoinerHandler
<1>4. ASSUME NEW j \in Joiners, JoinFails(j)
      PROVE  Types'
  <2>1. joiner[j] \in Joiner
    BY JoinerRecord
  <2>2. GaveUp(joiner[j].code) \in Joiner /\ GaveUp(joiner[j].code).stage \notin Routed
    BY <2>1, GaveUpType DEF Joiner
  <2>3. /\ joiner' = [joiner EXCEPT ![j] = GaveUp(joiner[j].code)] /\ msgs' \subseteq msgs
        /\ UNCHANGED <<svc, creator, prekey, up, nextConn, regs, answers, now, ghost>>
    BY <1>4 DEF JoinFails
  <2>4. JoinersOK'
    BY <2>2, <2>3, OneJoiner DEF Types
  <2>5. NetOK'
    BY <2>3, NetFrame DEF ghost, Types
  <2> QED
    BY <2>3, <2>4, <2>5, JoinerHandler
<1>5. ASSUME NEW m \in msgs, Resolved(m)
      PROVE  Types'
  <2> DEFINE j == m.joiner
  <2>1. m.joiner \in Joiners /\ m.peer \in Creators
    BY <1>5, JoinMsgTypes DEF Resolved
  <2>2. PICK direct \in BOOLEAN :
            joiner' = [joiner EXCEPT ![j].stage = "routing", ![j].target = m.peer,
                                     ![j].direct = direct, ![j].relay = ~direct]
    BY <1>5 DEF Resolved
  <2> DEFINE d == [joiner[j] EXCEPT !.stage = "routing", !.target = m.peer,
                                    !.direct = direct, !.relay = ~direct]
  <2>3. joiner[j] \in Joiner /\ joiner \in [Joiners -> Joiner]
    BY <2>1, JoinerRecord DEF Types, JoinersOK
  <2>4. d \in Joiner /\ d.target \in Creators
    BY <2>1, <2>3 DEF Joiner
  <2>5. joiner' = [joiner EXCEPT ![j] = d]
    BY <2>1, <2>2, <2>3
  <2>6. msgs' \subseteq msgs
        /\ UNCHANGED <<svc, creator, prekey, up, nextConn, regs, answers, now, ghost>>
    BY <1>5 DEF Resolved
  <2> HIDE DEF d
  <2>7. JoinersOK'
    BY <2>1, <2>4, <2>5, OneJoiner DEF Types
  <2>8. NetOK'
    BY <2>6, NetFrame DEF ghost, Types
  <2> QED
    BY <2>6, <2>7, <2>8, JoinerHandler
<1>6. ASSUME NEW m \in msgs, NotResolved(m)
      PROVE  Types'
  <2> DEFINE j == m.joiner
  <2>1. m.joiner \in Joiners
    BY JoinMsgTypes
  <2>2. joiner[j] \in Joiner
    BY <2>1, JoinerRecord
  <2>3. GaveUp(joiner[j].code) \in Joiner /\ GaveUp(joiner[j].code).stage \notin Routed
    BY <2>2, GaveUpType DEF Joiner
  <2>4. /\ joiner' = [joiner EXCEPT ![j] = GaveUp(joiner[j].code)] /\ msgs' \subseteq msgs
        /\ UNCHANGED <<svc, creator, prekey, up, nextConn, regs, answers, now, ghost>>
    BY <1>6 DEF NotResolved
  <2>5. JoinersOK'
    BY <2>1, <2>3, <2>4, OneJoiner DEF Types
  <2>6. NetOK'
    BY <2>4, NetFrame DEF ghost, Types
  <2> QED
    BY <2>4, <2>5, <2>6, JoinerHandler
<1>7. ASSUME NEW m \in msgs, BundleArrives(m)
      PROVE  Types'
  <2> DEFINE j == m.joiner
             d == [joiner[j] EXCEPT !.stage = "initial", !.since = now]
             q == [m EXCEPT !.kind = "initial"]
  <2>1. m.joiner \in Joiners /\ m \in JoinMsg /\ m.peer \in Creators
    BY <1>7, JoinMsgTypes DEF BundleArrives
  <2>2. joiner[j] \in Joiner /\ joiner[j].target \in Creators
        /\ joiner \in [Joiners -> Joiner] /\ now \in Nat
    BY <1>7, <2>1, JoinerRecord DEF BundleArrives, Routed, Types, JoinersOK, ServiceOK
  <2>3. d \in Joiner /\ d.target \in Creators
    BY <2>2 DEF Joiner
  <2>4. q \in JoinMsg /\ q.peer \in Creators
    BY <2>1 DEF JoinMsg
  <2>5. joiner' = [joiner EXCEPT ![j] = d]
    BY <1>7, <2>1, <2>2 DEF BundleArrives
  <2>6. /\ msgs' \subseteq msgs \cup {q}
        /\ UNCHANGED <<svc, creator, prekey, up, nextConn, regs, answers, now, ghost>>
    BY <1>7 DEF BundleArrives
  <2> HIDE DEF d, q
  <2>7. JoinersOK'
    BY <2>1, <2>3, <2>5, OneJoiner DEF Types
  <2>8. NetOK'
    BY <2>4, <2>6, OneMessage DEF ghost, Types
  <2> QED
    BY <2>6, <2>7, <2>8, JoinerHandler
<1>8. ASSUME NEW m \in msgs, PairingAcked(m)
      PROVE  Types'
  <2> DEFINE j == m.joiner
             d == [joiner[j] EXCEPT !.stage = "chat", !.since = 0, !.direct = FALSE,
                                    !.relay = FALSE]
  <2>1. m.joiner \in Joiners
    BY JoinMsgTypes
  <2>2. joiner[j] \in Joiner /\ joiner[j].target \in Creators
        /\ joiner \in [Joiners -> Joiner]
    BY <1>8, <2>1, JoinerRecord DEF PairingAcked, Routed, Types, JoinersOK
  <2>3. d \in Joiner /\ d.target \in Creators
    BY <2>2 DEF Joiner
  <2>4. joiner' = [joiner EXCEPT ![j] = d]
    BY <1>8, <2>1, <2>2 DEF PairingAcked
  <2>5. /\ msgs' \subseteq msgs
        /\ UNCHANGED <<svc, creator, prekey, up, nextConn, regs, answers, now, ghost>>
    BY <1>8 DEF PairingAcked
  <2> HIDE DEF d
  <2>6. JoinersOK'
    BY <2>1, <2>3, <2>4, OneJoiner DEF Types
  <2>7. NetOK'
    BY <2>5, NetFrame DEF ghost, Types
  <2> QED
    BY <2>5, <2>6, <2>7, JoinerHandler
<1> QED
  BY <1>1, <1>2, <1>3, <1>4, <1>5, <1>6, <1>7, <1>8 DEF JoinerEvent

LEMMA EnvironmentTypes ==
    ASSUME Types, Environment
    PROVE  Types'
<1>1. ASSUME NEW c \in Creators, CreateInvite(c)
      PROVE  Types'
  <2>1. PICK k \in Codes, ready \in BOOLEAN : creator' = [creator EXCEPT ![c] =
             [stage |-> "inviting", code |-> k, started |-> now,
              expires |-> now + Skew[c] + Ttl, registered |-> FALSE,
              sent |-> FALSE, confirmed |-> FALSE, ready |-> ready, listener |-> 0]]
    BY <1>1 DEF CreateInvite
  <2> DEFINE t == now + Skew[c] + Ttl
             d == [stage |-> "inviting", code |-> k, started |-> now,
                   expires |-> t, registered |-> FALSE,
                   sent |-> FALSE, confirmed |-> FALSE, ready |-> ready, listener |-> 0]
  <2>2. t \in Int /\ now \in Nat
    BY Constants DEF Types, ServiceOK
  <2>3. d \in Creator /\ ~d.confirmed
    <3> HIDE DEF t
    <3> QED
      BY <2>2 DEF Creator
  <2>4. creator' = [creator EXCEPT ![c] = d]
    BY <2>1
  <2>5. /\ invites' = [invites EXCEPT ![c] = @ + 1]
        /\ UNCHANGED <<svc, prekey, joiner, net, now, serial, minted, lost, restarts>>
    BY <1>1 DEF CreateInvite
  <2> HIDE DEF d
  <2>6. CreatorsOK'
    BY <2>3, <2>4, <2>5 DEF net, Types, CreatorsOK
  <2>7. ServiceOK' /\ JoinersOK' /\ NetOK'
    BY <2>5, ServiceFrame, JoinersFrame, NetFrame DEF svc, net, Types
  <2> QED
    BY <2>6, <2>7 DEF Types
<1>2. ASSUME NEW c \in Creators, Quit(c)
      PROVE  Types'
  BY <1>2, ExitTypes DEF Quit
<1>3. ASSUME NEW c \in Creators, ReservationReqAccepted(c)
      PROVE  Types'
  <2> DEFINE n == nextConn[c] + 1
             a == [peer |-> c, kind |-> "accepted", conn |-> n]
  <2>1. n \in Conns /\ n \in Nat
    BY <1>3, Constants DEF ReservationReqAccepted, Conns, Types, CreatorsOK
  <2>2. /\ nextConn' = [nextConn EXCEPT ![c] = n] /\ up' = up \cup {<<c, n>>}
        /\ reservations' = reservations \cup {<<c, n>>} /\ reserved' = reserved \cup {c}
        /\ answers' = answers \cup {a}
        /\ UNCHANGED <<held, peers, regs, msgs, now, ghost>>
    BY <1>3 DEF ReservationReqAccepted
  <2>3. a \in Answer
    <3> HIDE DEF n
    <3> QED
      BY <2>1 DEF Answer
  <2> HIDE DEF n, a
  <2>4. ServiceOK'
    BY <2>1, <2>2 DEF ghost, Types, ServiceOK
  <2>5. CreatorsOK'
    BY <2>1, <2>2 DEF peers, ghost, Types, CreatorsOK
  <2>6. NetOK'
    BY <2>1, <2>2, <2>3 DEF ghost, Types, NetOK
  <2>7. JoinersOK'
    BY <2>2, JoinersFrame DEF peers, Types
  <2> QED
    BY <2>4, <2>5, <2>6, <2>7 DEF Types
<1>4. ASSUME NEW c \in Creators, NEW n \in Conns, Break(c, n)
      PROVE  Types'
  BY <1>4, ServiceFrame, CreatorsFrame, JoinersFrame, NetFrame
     DEF Break, svc, peers, ghost, Types
<1>9. ASSUME NEW c \in Creators, NEW n \in Conns, ReservationRenewed(c, n)
      PROVE  Types'
  <2>1. ServiceOK'
    BY <1>9 DEF ReservationRenewed, ghost, Types, ServiceOK
  <2>2. CreatorsOK' /\ JoinersOK' /\ NetOK'
    BY <1>9, CreatorsFrame, JoinersFrame, NetFrame
       DEF ReservationRenewed, peers, net, ghost, Types
  <2> QED
    BY <2>1, <2>2 DEF Types
<1>5. ASSUME NEW j \in Joiners, JoinInvite(j)
      PROVE  Types'
  <2>1. PICK k \in Codes : joiner' = [joiner EXCEPT ![j].stage = "dialing",
                                                    ![j].code = k, ![j].since = now]
    BY <1>5 DEF JoinInvite
  <2> DEFINE d == [joiner[j] EXCEPT !.stage = "dialing", !.code = k, !.since = now]
  <2>2. joiner[j] \in Joiner /\ joiner \in [Joiners -> Joiner] /\ now \in Nat
    BY JoinerRecord DEF Types, JoinersOK, ServiceOK
  <2>3. d \in Joiner /\ d.stage \notin Routed
    BY <2>2 DEF Joiner, Routed
  <2>4. joiner' = [joiner EXCEPT ![j] = d]
    BY <2>1, <2>2
  <2>5. UNCHANGED <<svc, creator, prekey, net, now, ghost>>
    BY <1>5 DEF JoinInvite
  <2> HIDE DEF d
  <2>6. JoinersOK'
    BY <2>3, <2>4, OneJoiner DEF Types
  <2>7. NetOK'
    BY <2>5, NetFrame DEF net, ghost, Types
  <2> QED
    BY <2>5, <2>6, <2>7, JoinerHandler DEF net
<1>6. CASE ServiceRestart
  <2>1. ServiceOK'
    BY <1>6 DEF ServiceRestart, Types, ServiceOK
  <2>2. NetOK'
    BY <1>6 DEF ServiceRestart, Types, NetOK
  <2>3. CreatorsOK' /\ JoinersOK'
    BY <1>6, CreatorsFrame, JoinersFrame DEF ServiceRestart, peers, Types
  <2> QED
    BY <2>1, <2>2, <2>3 DEF Types
<1>7. CASE Lose
  <2>1. NetOK'
    BY <1>7 DEF Lose, Types, NetOK
  <2>2. ServiceOK' /\ CreatorsOK' /\ JoinersOK'
    BY <1>7, ServiceFrame, CreatorsFrame, JoinersFrame DEF Lose, svc, peers, Types
  <2> QED
    BY <2>1, <2>2 DEF Types
<1>8. CASE Tick
  <2>1. ServiceOK'
    BY <1>8 DEF Tick, svc, ghost, Types, ServiceOK
  <2>2. CreatorsOK' /\ JoinersOK' /\ NetOK'
    BY <1>8, CreatorsFrame, JoinersFrame, NetFrame DEF Tick, peers, net, ghost, Types
  <2> QED
    BY <2>1, <2>2 DEF Types
<1> QED
  BY <1>1, <1>2, <1>3, <1>4, <1>5, <1>6, <1>7, <1>8, <1>9 DEF Environment

LEMMA TypesStep ==
    ASSUME Types, [Next]_vars
    PROVE  Types'
<1>1. CASE UNCHANGED vars
  BY <1>1, ServiceFrame, CreatorsFrame, JoinersFrame, NetFrame
     DEF vars, svc, peers, net, ghost, Types
<1> QED
  BY <1>1, CreatorTypes, ServiceTypes, JoinerTypes, EnvironmentTypes DEF Next

LEMMA TypesAlways == Spec => []Types
BY TypesInit, TypesStep, PTL DEF Spec

\* The service's tables, the peers' locals and the network keep their shape;
\* an invitation is held only for a peer in reserved_peers, one for each code.
THEOREM TypeCorrect == Spec => []TypeOK
BY TypesAlways, TypesAreTypeOK, PTL

-----------------------------------------------------------------------------
(* Registrations are handed out once                                        *)

\* Only RegisterInvite and ResolveInvite do more to invitations than forget
\* some of them.
LEMMA InvitationsFrame ==
    ASSUME [Next]_vars
    PROVE  \/ \E r \in regs : RegisterInvite(r)
           \/ \E m \in msgs : ResolveInvite(m)
           \/ held' \subseteq held /\ UNCHANGED <<grants, serial>>
<1>1. CASE CreatorEvent
  BY <1>1 DEF CreatorEvent, DirectListenerReady, ListenerClosed, InviteTimeout,
     ReservationAccepted, Registered, RegistrationRefused, ServePreKeyBundle, Pair,
     PairFails, InitialIgnored, svc, ghost
<1>2. CASE ServiceEvent
  BY <1>2 DEF ServiceEvent, ReservationClosed, ghost
<1>3. CASE JoinerEvent
  BY <1>3 DEF JoinerEvent, ServiceConnected, FallBackToRelay, TargetConnected, JoinFails,
     Resolved, NotResolved, BundleArrives, PairingAcked, svc, ghost
<1>4. CASE Environment
  BY <1>4 DEF Environment, CreateInvite, Quit, ReservationReqAccepted, ReservationRenewed,
     Break, JoinInvite, ServiceRestart, Lose, Tick, svc, ghost
<1>5. CASE UNCHANGED vars
  BY <1>5 DEF vars, svc, ghost
<1> QED
  BY <1>1, <1>2, <1>3, <1>4, <1>5 DEF Next

\* The serial of a held invitation is its own and was not granted yet; no
\* registration that is still to come has a granted serial.
SerialsSound ==
    /\ \A h \in held : h.serial <= serial
    /\ \A g, h \in held : g.serial = h.serial => g = h
    /\ \A g \in grants : g.serial \in Nat /\ g.serial <= serial
    /\ \A g \in grants, h \in held : g.serial # h.serial

LEMMA GrantsStep ==
    ASSUME Types, SerialsSound, OneJoinerPerRegistration, [Next]_vars
    PROVE  SerialsSound' /\ OneJoinerPerRegistration'
<1>1. ASSUME NEW r \in regs, RegisterInvite(r)
      PROVE  SerialsSound' /\ OneJoinerPerRegistration'
  <2> DEFINE ok == RegistrationAccepted(r)
             i == [code |-> r.code, peer |-> r.peer, expires |-> r.expires,
                   serial |-> serial + 1]
  <2>1. /\ held' \subseteq held \cup IF ok THEN {i} ELSE {}
        /\ serial' = IF ok THEN serial + 1 ELSE serial
        /\ grants' = grants
    BY <1>1 DEF RegisterInvite, Unexpired
  <2>2. i.serial = serial + 1 /\ serial \in Nat /\ \A h \in held : h.serial \in Nat
    BY DEF Types, ServiceOK, Invitation
  <2> HIDE DEF ok, i
  <2>3. SerialsSound'
    BY <2>1, <2>2 DEF SerialsSound
  <2>4. OneJoinerPerRegistration'
    BY <2>1 DEF OneJoinerPerRegistration
  <2> QED
    BY <2>3, <2>4
<1>2. ASSUME NEW m \in msgs, ResolveInvite(m)
      PROVE  SerialsSound' /\ OneJoinerPerRegistration'
  <2> DEFINE found == {h \in Unexpired : h.code = joiner[m.joiner].code}
             given == {h \in found : h.peer \in reserved}
             grant(h) == [serial |-> h.serial, joiner |-> m.joiner, inTime |-> h.expires > now]
  <2>1. /\ held' = Unexpired \ found
        /\ grants' = grants \cup {grant(h) : h \in given}
        /\ serial' = serial
    BY <1>2 DEF ResolveInvite
  <2>2. found \subseteq held /\ given \subseteq found /\ held' \subseteq held
        /\ found \cap held' = {}
    BY <2>1 DEF Unexpired
  <2>3. \A g, h \in found : g = h
    BY DEF Types, ServiceOK, Unexpired
  <2>4. \A h \in found : grant(h).inTime /\ grant(h).serial = h.serial /\ h.serial \in Nat
    BY DEF Types, ServiceOK, Unexpired, Invitation
  <2>5. \A g \in grants' : g \in grants \/ \E h \in given : g = grant(h)
    BY <2>1
  <2> HIDE DEF found, given, grant
  <2>6. SerialsSound'
    BY <2>1, <2>2, <2>4, <2>5 DEF SerialsSound
  <2>7. ASSUME NEW g \in grants', NEW h \in grants', h.serial = g.serial
        PROVE  h = g
    <3>1. CASE g \in grants /\ h \in grants
      BY <2>7, <3>1 DEF OneJoinerPerRegistration
    <3>2. CASE g \in grants /\ \E x \in given : h = grant(x)
      BY <2>2, <2>4, <2>7, <3>2 DEF SerialsSound
    <3>3. CASE h \in grants /\ \E x \in given : g = grant(x)
      BY <2>2, <2>4, <2>7, <3>3 DEF SerialsSound
    <3>4. CASE (\E x \in given : g = grant(x)) /\ \E x \in given : h = grant(x)
      BY <2>2, <2>3, <3>4
    <3> QED
      BY <2>5, <3>1, <3>2, <3>3, <3>4
  <2>8. \A g \in grants' : g.inTime
    BY <2>2, <2>4, <2>5 DEF OneJoinerPerRegistration
  <2>9. OneJoinerPerRegistration'
    BY <2>7, <2>8 DEF OneJoinerPerRegistration
  <2> QED
    BY <2>6, <2>9
<1>3. CASE held' \subseteq held /\ UNCHANGED <<grants, serial>>
  BY <1>3 DEF SerialsSound, OneJoinerPerRegistration
<1> QED
  BY <1>1, <1>2, <1>3, InvitationsFrame

\* However registrations, expiries, closed reservations, restarts and lookups
\* interleave, invitations.remove of ResolveInvite hands an accepted
\* registration to at most one joiner, and only before it expires.
THEOREM RegistrationsGoToOneJoiner == Spec => []OneJoinerPerRegistration
<1>1. Init => SerialsSound /\ OneJoinerPerRegistration
  BY DEF Init, SerialsSound, OneJoinerPerRegistration
<1>2. Types /\ SerialsSound /\ OneJoinerPerRegistration /\ [Next]_vars
      => SerialsSound' /\ OneJoinerPerRegistration'
  BY GrantsStep
<1> QED
  BY <1>1, <1>2, TypesAlways, PTL DEF Spec

\* A good invitation keeps its code: the peer check of RegisterInvite refuses
\* the registration of another creator that drew the same code.
THEOREM CodesNotTaken == Spec => CodeNotTaken
<1>1. ASSUME Types, [Next]_vars, NEW h \in held, h.expires > now, NEW g \in held',
             g.code = h.code
      PROVE  g.peer = h.peer
  <2>1. ASSUME NEW r \in regs, RegisterInvite(r)
        PROVE  g.peer = h.peer
    <3>1. h \in Unexpired
      BY <1>1 DEF Unexpired
    <3> DEFINE i == [code |-> r.code, peer |-> r.peer, expires |-> r.expires,
                     serial |-> serial + 1]
    <3>2. CASE g \in held
      BY <1>1, <3>2 DEF Types, ServiceOK
    <3>3. CASE g \notin held
      <4>1. RegistrationAccepted(r) /\ g = i
        BY <2>1, <3>3 DEF RegisterInvite, Unexpired
      <4>2. g.code = r.code /\ g.peer = r.peer
        BY <4>1
      <4> QED
        BY <1>1, <3>1, <4>1, <4>2 DEF RegistrationAccepted
    <3> QED
      BY <3>2, <3>3
  <2>2. CASE held' \subseteq held
    BY <1>1, <2>2 DEF Types, ServiceOK
  <2>3. ASSUME NEW m \in msgs, ResolveInvite(m)
        PROVE  held' \subseteq held
    BY <2>3 DEF ResolveInvite, Unexpired
  <2> QED
    BY <1>1, <2>1, <2>2, <2>3, InvitationsFrame
<1>2. Types /\ [Next]_vars
      => [\A h \in held : h.expires > now =>
             \A g \in held' : g.code = h.code => g.peer = h.peer]_vars
  BY <1>1
<1> QED
  BY <1>2, TypesAlways, PTL DEF Spec, CodeNotTaken

-----------------------------------------------------------------------------
(* One-time prekeys                                                         *)

\* Only a bundle request and a pairing touch prekeys and sessions.
LEMMA PrekeysFrame ==
    ASSUME [Next]_vars
    PROVE  \/ \E m \in msgs : ServePreKeyBundle(m)
           \/ \E m \in msgs : Pair(m)
           \/ UNCHANGED <<prekey, minted, sessions>>
<1>1. CASE CreatorEvent
  BY <1>1 DEF CreatorEvent, DirectListenerReady, ListenerClosed, InviteTimeout,
     ReservationAccepted, Registered, RegistrationRefused, PairFails, InitialIgnored,
     peers, ghost
<1>2. CASE ServiceEvent
  BY <1>2 DEF ServiceEvent, RegisterInvite, ResolveInvite, ReservationClosed, peers, ghost
<1>3. CASE JoinerEvent
  BY <1>3 DEF JoinerEvent, ServiceConnected, FallBackToRelay, TargetConnected, JoinFails,
     Resolved, NotResolved, BundleArrives, PairingAcked, ghost
<1>4. CASE Environment
  BY <1>4 DEF Environment, CreateInvite, Quit, ReservationReqAccepted, ReservationRenewed,
     Break, JoinInvite, ServiceRestart, Lose, Tick, peers, ghost
<1>5. CASE UNCHANGED vars
  BY <1>5 DEF vars, peers, ghost
<1> QED
  BY <1>1, <1>2, <1>3, <1>4, <1>5 DEF Next

Session == [peer : Creators, invite : Nat, prekey : Nat, joiner : Joiners]

\* The prekey in the database is not beyond the last one generated, and a
\* prekey that began a session is neither in the database nor still to come.
PrekeysSound ==
    /\ sessions \subseteq Session
    /\ \A c \in Creators : prekey[c] <= minted[c]
    /\ \A s \in sessions : /\ s.prekey # 0 /\ s.prekey <= minted[s.peer]
                           /\ s.prekey # prekey[s.peer]

LEMMA PrekeysStep ==
    ASSUME Types, PrekeysSound, PrekeyUsedOnce, [Next]_vars
    PROVE  PrekeysSound' /\ PrekeyUsedOnce'
<1>1. ASSUME NEW m \in msgs, ServePreKeyBundle(m)
      PROVE  PrekeysSound' /\ PrekeyUsedOnce'
  <2> DEFINE c == m.peer
             mint == Serving(c) /\ prekey[c] = 0
             key == IF mint THEN minted[c] + 1 ELSE prekey[c]
  <2>1. c \in Creators
    BY <1>1, JoinMsgTypes DEF ServePreKeyBundle
  <2>2. /\ prekey' = [prekey EXCEPT ![c] = key] /\ sessions' = sessions
        /\ minted' = [minted EXCEPT ![c] = IF mint THEN @ + 1 ELSE @]
    BY <1>1 DEF ServePreKeyBundle
  <2>3. /\ prekey \in [Creators -> Nat] /\ minted \in [Creators -> Nat]
        /\ \A s \in sessions : s.peer \in Creators /\ s.prekey \in Nat
    BY DEF Types, CreatorsOK, PrekeysSound, Session
  <2> HIDE DEF c, mint
  <2>4. \A d \in Creators : prekey'[d] <= minted'[d]
    BY <2>1, <2>2, <2>3 DEF PrekeysSound
  <2>5. \A s \in sessions : /\ s.prekey # 0 /\ s.prekey <= minted'[s.peer]
                            /\ s.prekey # prekey'[s.peer]
    BY <2>1, <2>2, <2>3 DEF PrekeysSound
  <2> QED
    BY <2>2, <2>4, <2>5 DEF PrekeysSound, PrekeyUsedOnce
<1>2. ASSUME NEW m \in msgs, Pair(m)
      PROVE  PrekeysSound' /\ PrekeyUsedOnce'
  <2> DEFINE c == m.peer
             new == [peer |-> c, invite |-> invites[c], prekey |-> m.prekey,
                     joiner |-> m.joiner]
  <2>1. c \in Creators /\ m \in JoinMsg
    BY <1>2, JoinMsgTypes DEF Pair
  <2>2. /\ prekey[c] # 0 /\ m.prekey = prekey[c] /\ prekey' = [prekey EXCEPT ![c] = 0]
        /\ sessions' = sessions \cup {new} /\ minted' = minted
    BY <1>2 DEF Pair
  <2>3. prekey \in [Creators -> Nat] /\ minted \in [Creators -> Nat] /\ invites[c] \in Nat
    BY <2>1 DEF Types, CreatorsOK
  <2>4. new \in Session /\ new.peer = c /\ new.prekey = prekey[c]
    BY <2>1, <2>2, <2>3 DEF Session, JoinMsg
  <2>5. \A s \in sessions : s.peer \in Creators /\ s.prekey \in Nat
    BY DEF PrekeysSound, Session
  <2> HIDE DEF c, new
  <2>6. PrekeysSound'
    BY <2>1, <2>2, <2>3, <2>4, <2>5 DEF PrekeysSound
  <2>7. PrekeyUsedOnce'
    BY <2>1, <2>2, <2>4 DEF PrekeysSound, PrekeyUsedOnce
  <2> QED
    BY <2>6, <2>7
<1>3. CASE UNCHANGED <<prekey, minted, sessions>>
  BY <1>3 DEF PrekeysSound, PrekeyUsedOnce
<1> QED
  BY <1>1, <1>2, <1>3, PrekeysFrame

LEMMA PrekeysAlways == Spec => [](PrekeysSound /\ PrekeyUsedOnce)
<1>1. Init => PrekeysSound /\ PrekeyUsedOnce
  BY DEF Init, PrekeysSound, PrekeyUsedOnce
<1>2. Types /\ PrekeysSound /\ PrekeyUsedOnce /\ [Next]_vars
      => PrekeysSound' /\ PrekeyUsedOnce'
  BY PrekeysStep
<1> QED
  BY <1>1, <1>2, TypesAlways, PTL DEF Spec

\* decrypt_initial_message takes the one-time prekey and the next bundle gets
\* a new one: no prekey begins two sessions, whatever is lost or abandoned.
THEOREM PrekeysUsedOnce == Spec => []PrekeyUsedOnce
BY PrekeysAlways, PTL

-----------------------------------------------------------------------------
(* Both sides of a pairing                                                  *)

\* The requests and responses between a joiner and its target.
PairingKinds == {"getBundle", "bundle", "initial", "ack"}

Paired(j, c) == \E s \in sessions : s.joiner = j /\ s.peer = c

\* A creator with an open invite has not paired for it yet.
InvitesSound ==
    \A s \in sessions : /\ s.invite <= invites[s.peer]
                        /\ creator[s.peer].stage = "inviting" => s.invite # invites[s.peer]

\* What travels between a joiner and a creator belongs to the joiner's own
\* target, unless the joiner gave up; an Ack answers a pairing.
ConversationsSound ==
    /\ \A m \in msgs : m.kind \in PairingKinds =>
          \/ joiner[m.joiner].stage = "failed"
          \/ /\ joiner[m.joiner].stage \in {"bundle", "initial", "chat"}
             /\ m.peer = joiner[m.joiner].target
    /\ \A m \in msgs : m.kind = "ack" => Paired(m.joiner, m.peer)
    /\ \A j \in Joiners : joiner[j].stage = "chat" => Paired(j, joiner[j].target)

\* Only a new invite and a pairing number invites or sessions; no other step
\* opens an invite.
LEMMA InvitesFrame ==
    ASSUME Types, [Next]_vars
    PROVE  \/ \E c \in Creators : CreateInvite(c)
           \/ \E m \in msgs : Pair(m)
           \/ /\ UNCHANGED <<invites, sessions>>
              /\ \A c \in Creators :
                    creator'[c].stage = "inviting" => creator[c].stage = "inviting"
<1> DEFINE Q == /\ UNCHANGED <<invites, sessions>>
                /\ \A c \in Creators :
                      creator'[c].stage = "inviting" => creator[c].stage = "inviting"
<1>1. creator \in [Creators -> Creator]
  BY DEF Types, CreatorsOK
<1>2. ASSUME NEW c \in Creators, Exit(c), UNCHANGED ghost
      PROVE  Q
  BY <1>1, <1>2 DEF Exit, NotInviting, ghost
<1>3. ASSUME NEW c \in Creators, NEW d \in Creator, NEW due \in BOOLEAN,
             d.stage = creator[c].stage, SendsRegistration(c, d, due), UNCHANGED ghost
      PROVE  Q
  <2> DEFINE e == [d EXCEPT !.sent = @ \/ due]
  <2>1. e.stage = d.stage
    BY DEF Creator
  <2>2. creator' = [creator EXCEPT ![c] = e]
    BY <1>3 DEF SendsRegistration
  <2> HIDE DEF e
  <2> QED
    BY <1>1, <1>3, <2>1, <2>2 DEF ghost
<1>4. ASSUME NEW c \in Creators, DirectListenerReady(c)
      PROVE  Q
  <2> DEFINE d == [creator[c] EXCEPT !.ready = TRUE]
             due == creator[c].confirmed /\ ~creator[c].sent
  <2>1. d \in Creator /\ due \in BOOLEAN /\ d.stage = creator[c].stage
    BY <1>1 DEF Creator
  <2>2. SendsRegistration(c, d, due) /\ UNCHANGED ghost
    BY <1>4 DEF DirectListenerReady
  <2> HIDE DEF d, due, Q
  <2> QED
    BY <1>3, <2>1, <2>2
<1>5. ASSUME NEW a \in answers, ReservationAccepted(a)
      PROVE  Q
  <2> DEFINE c == a.peer
             d == [creator[c] EXCEPT !.confirmed = TRUE, !.listener = a.conn]
             due == ~creator[c].registered /\ ~creator[c].sent /\ creator[c].ready
  <2>1. c \in Creators /\ a.conn \in Nat
    BY Constants DEF Types, NetOK, Answer, Conns
  <2>2. creator[c] \in Creator
    BY <1>1, <2>1
  <2>3. d \in Creator /\ due \in BOOLEAN /\ d.stage = creator[c].stage
    BY <2>1, <2>2 DEF Creator
  <2>4. SendsRegistration(c, d, due) /\ UNCHANGED ghost
    BY <1>5 DEF ReservationAccepted
  <2> HIDE DEF c, d, due, Q
  <2> QED
    BY <1>3, <2>1, <2>3, <2>4
<1>6. ASSUME NEW c \in Creators, ListenerClosed(c)
      PROVE  Q
  <2> DEFINE d == [creator[c] EXCEPT !.confirmed = FALSE, !.sent = FALSE,
                                     !.registered = FALSE, !.listener = 0]
  <2>1. creator[c] \in Creator
    BY <1>1
  <2>2. d.stage = creator[c].stage
    BY <2>1 DEF Creator
  <2>3. creator' = [creator EXCEPT ![c] = d]
    BY <1>1, <1>6 DEF ListenerClosed, Creator
  <2> HIDE DEF d
  <2> QED
    BY <1>1, <1>6, <2>2, <2>3 DEF ListenerClosed, ghost
<1>7. ASSUME NEW a \in answers, Registered(a)
      PROVE  Q
  <2>1. a.peer \in Creators
    BY DEF Types, NetOK, Answer
  <2> DEFINE d == [creator[a.peer] EXCEPT !.registered = TRUE]
  <2>2. creator[a.peer] \in Creator
    BY <1>1, <2>1
  <2>3. d.stage = creator[a.peer].stage
    BY <2>2 DEF Creator
  <2>4. creator' = [creator EXCEPT ![a.peer] = d]
    BY <1>7 DEF Registered
  <2> HIDE DEF d
  <2> QED
    BY <1>1, <1>7, <2>1, <2>3, <2>4 DEF Registered, ghost
<1>8. CASE CreatorEvent
  <2>1. ASSUME NEW c \in Creators, InviteTimeout(c)
        PROVE  Q
    BY <1>2, <2>1 DEF InviteTimeout
  <2>2. ASSUME NEW a \in answers, RegistrationRefused(a)
        PROVE  Q
    BY <1>2, <2>2 DEF RegistrationRefused, Types, NetOK, Answer
  <2>3. ASSUME NEW m \in msgs, PairFails(m)
        PROVE  Q
    BY <1>2, <2>3, JoinMsgTypes DEF PairFails
  <2>4. ASSUME NEW m \in msgs, ServePreKeyBundle(m) \/ InitialIgnored(m)
        PROVE  Q
    BY <2>4 DEF ServePreKeyBundle, InitialIgnored, peers, ghost
  <2> HIDE DEF Q
  <2>5. Q \/ \E m \in msgs : Pair(m)
    BY <1>4, <1>5, <1>6, <1>7, <1>8, <2>1, <2>2, <2>3, <2>4 DEF CreatorEvent
  <2> QED
    BY <2>5 DEF Q
<1>9. CASE ServiceEvent
  BY <1>9 DEF ServiceEvent, RegisterInvite, ResolveInvite, ReservationClosed, peers, ghost
<1>10. CASE JoinerEvent
  BY <1>10 DEF JoinerEvent, ServiceConnected, FallBackToRelay, TargetConnected, JoinFails,
     Resolved, NotResolved, BundleArrives, PairingAcked, ghost
<1>11. CASE Environment
  <2>1. ASSUME NEW c \in Creators, Quit(c)
        PROVE  Q
    BY <1>2, <2>1 DEF Quit
  <2>2. CASE \/ \E c \in Creators : ReservationReqAccepted(c)
             \/ \E c \in Creators, n \in Conns : Break(c, n) \/ ReservationRenewed(c, n)
             \/ \E j \in Joiners : JoinInvite(j)
             \/ ServiceRestart \/ Lose \/ Tick
    BY <2>2 DEF ReservationReqAccepted, ReservationRenewed, Break, JoinInvite,
       ServiceRestart, Lose, Tick,
       peers, ghost
  <2> QED
    BY <1>11, <2>1, <2>2 DEF Environment
<1>12. CASE UNCHANGED vars
  BY <1>12 DEF vars, peers, ghost
<1> QED
  BY <1>8, <1>9, <1>10, <1>11, <1>12 DEF Next

\* An invite pairs at most one joiner.
OneJoinerPerInvite ==
    \A s, t \in sessions : s.peer = t.peer /\ s.invite = t.invite => s = t

LEMMA InvitesStep ==
    ASSUME Types, PrekeysSound, InvitesSound, OneJoinerPerInvite, [Next]_vars
    PROVE  InvitesSound' /\ OneJoinerPerInvite'
<1>1. /\ creator \in [Creators -> Creator] /\ invites \in [Creators -> Nat]
      /\ \A s \in sessions : s.peer \in Creators /\ s.invite \in Nat
  BY DEF Types, CreatorsOK, PrekeysSound, Session
<1>2. ASSUME NEW c \in Creators, CreateInvite(c)
      PROVE  InvitesSound' /\ OneJoinerPerInvite'
  <2>1. PICK d : creator' = [creator EXCEPT ![c] = d]
    BY <1>2 DEF CreateInvite
  <2>2. invites' = [invites EXCEPT ![c] = @ + 1] /\ sessions' = sessions
    BY <1>2 DEF CreateInvite
  <2> QED
    BY <1>1, <2>1, <2>2 DEF InvitesSound, OneJoinerPerInvite
<1>3. ASSUME NEW m \in msgs, Pair(m)
      PROVE  InvitesSound' /\ OneJoinerPerInvite'
  <2> DEFINE c == m.peer
             new == [peer |-> c, invite |-> invites[c], prekey |-> m.prekey,
                     joiner |-> m.joiner]
             d == [creator[c] EXCEPT !.stage = "chat", !.started = 0, !.expires = 0]
  <2>1. c \in Creators
    BY <1>3, JoinMsgTypes DEF Pair
  <2>2. creator[c].stage = "inviting" /\ sessions' = sessions \cup {new}
        /\ invites' = invites
    BY <1>3 DEF Pair, Serving
  <2>3. new.peer = c /\ new.invite = invites[c]
    OBVIOUS
  <2>4. creator[c] \in Creator
    BY <1>1, <2>1
  <2>5. d.stage = "chat"
    BY <2>4 DEF Creator
  <2>6. creator' = [creator EXCEPT ![c] = d]
    BY <1>1, <1>3, <2>1 DEF Pair, Creator
  <2> HIDE DEF c, new, d
  <2>7. InvitesSound'
    BY <1>1, <2>1, <2>2, <2>3, <2>5, <2>6 DEF InvitesSound
  <2>8. OneJoinerPerInvite'
    BY <1>1, <2>1, <2>2, <2>3 DEF InvitesSound, OneJoinerPerInvite
  <2> QED
    BY <2>7, <2>8
<1>4. CASE /\ UNCHANGED <<invites, sessions>>
           /\ \A c \in Creators :
                 creator'[c].stage = "inviting" => creator[c].stage = "inviting"
  BY <1>1, <1>4 DEF InvitesSound, OneJoinerPerInvite
<1> QED
  BY <1>2, <1>3, <1>4, InvitesFrame

\* Steps of the service and of the creators leave the joiners alone and send
\* them nothing new about a pairing, except a bundle and an Ack.
LEMMA ConversationsFrame ==
    ASSUME [Next]_vars
    PROVE  \/ JoinerEvent
           \/ \E j \in Joiners : JoinInvite(j)
           \/ \E m \in msgs : ServePreKeyBundle(m) \/ Pair(m) \/ ResolveInvite(m)
           \/ UNCHANGED <<joiner, sessions>> /\ msgs' \subseteq msgs
<1>1. CASE CreatorEvent
  BY <1>1 DEF CreatorEvent, DirectListenerReady, ListenerClosed, InviteTimeout,
     ReservationAccepted, Registered, RegistrationRefused, PairFails, InitialIgnored,
     peers, net, ghost
<1>2. CASE ServiceEvent
  BY <1>2 DEF ServiceEvent, RegisterInvite, ReservationClosed, peers, net, ghost
<1>3. CASE Environment
  BY <1>3 DEF Environment, CreateInvite, Quit, ReservationReqAccepted, ReservationRenewed,
     Break, ServiceRestart, Lose, Tick, peers, net, ghost
<1>4. CASE UNCHANGED vars
  BY <1>4 DEF vars, peers, net, ghost
<1> QED
  BY <1>1, <1>2, <1>3, <1>4 DEF Next

LEMMA JoinersWait ==
    ASSUME ConversationsSound, UNCHANGED joiner, sessions \subseteq sessions',
           \A m \in msgs' : m \in msgs \/ m.kind \notin PairingKinds
    PROVE  ConversationsSound'
BY DEF ConversationsSound, Paired, PairingKinds

\* One joiner moves on: it gives up, keeps its target, or had none yet.
LEMMA JoinerMoves ==
    ASSUME Types, ConversationsSound, NEW j \in Joiners, NEW d, UNCHANGED sessions,
           joiner' = [joiner EXCEPT ![j] = d],
           joiner[j].stage \in {"bundle", "initial", "chat"} =>
              \/ d.stage = "failed"
              \/ d.stage \in {"bundle", "initial", "chat"} /\ d.target = joiner[j].target,
           joiner[j].stage # "failed",
           d.stage = "chat" => Paired(j, d.target),
           \A m \in msgs' : \/ m \in msgs
                            \/ m.kind \notin PairingKinds
                            \/ /\ m.kind # "ack" /\ m.joiner = j /\ m.peer = d.target
                               /\ d.stage \in {"bundle", "initial", "chat"}
    PROVE  ConversationsSound'
<1>1. joiner \in [Joiners -> Joiner] /\ \A m \in msgs : m.joiner \in Joiners
  BY JoinMsgTypes DEF Types, JoinersOK
<1>2. joiner'[j] = d /\ \A i \in Joiners \ {j} : joiner'[i] = joiner[i]
  BY <1>1
<1>3. (\A i \in Joiners : joiner[i].stage = "chat" => Paired(i, joiner[i].target))'
  BY <1>2 DEF ConversationsSound, Paired
<1>4. \A m \in msgs' : m.kind = "ack" => Paired(m.joiner, m.peer)'
  BY DEF ConversationsSound, Paired, PairingKinds
<1>5. ASSUME NEW m \in msgs', m.kind \in PairingKinds
      PROVE  \/ joiner'[m.joiner].stage = "failed"
             \/ /\ joiner'[m.joiner].stage \in {"bundle", "initial", "chat"}
                /\ m.peer = joiner'[m.joiner].target
  <2>1. CASE m \in msgs /\ m.joiner # j
    BY <1>1, <1>2, <1>5, <2>1 DEF ConversationsSound
  <2>2. CASE m \in msgs /\ m.joiner = j
    BY <1>2, <1>5, <2>2 DEF ConversationsSound
  <2>3. CASE m \notin msgs
    BY <1>2, <1>5, <2>3
  <2> QED
    BY <2>1, <2>2, <2>3
<1> QED
  BY <1>3, <1>4, <1>5 DEF ConversationsSound

LEMMA ConversationsStep ==
    ASSUME Types, ConversationsSound, [Next]_vars
    PROVE  ConversationsSound'
<1>1. /\ joiner \in [Joiners -> Joiner]
      /\ \A j \in Joiners : joiner[j] \in Joiner
  BY DEF Types, JoinersOK
<1>2. ASSUME NEW m \in msgs, ServePreKeyBundle(m)
      PROVE  ConversationsSound'
  <2>1. m \in JoinMsg
    BY JoinMsgTypes
  <2>2. m.kind = "getBundle" /\ UNCHANGED <<joiner, sessions>>
    BY <1>2 DEF ServePreKeyBundle
  <2>3. PICK key : msgs' \subseteq msgs \cup {[m EXCEPT !.kind = "bundle", !.prekey = key]}
    BY <1>2 DEF ServePreKeyBundle
  <2> DEFINE b == [m EXCEPT !.kind = "bundle", !.prekey = key]
  <2>4. b.kind = "bundle" /\ b.joiner = m.joiner /\ b.peer = m.peer
    BY <2>1 DEF JoinMsg
  <2>5. msgs' \subseteq msgs \cup {b}
    BY <2>3
  <2> HIDE DEF b
  <2> QED
    BY <2>2, <2>4, <2>5 DEF ConversationsSound, PairingKinds, Paired
<1>3. ASSUME NEW m \in msgs, Pair(m)
      PROVE  ConversationsSound'
  <2> DEFINE b == [m EXCEPT !.kind = "ack"]
             new == [peer |-> m.peer, invite |-> invites[m.peer], prekey |-> m.prekey,
                     joiner |-> m.joiner]
  <2>1. m \in JoinMsg
    BY JoinMsgTypes
  <2>2. /\ m.kind = "initial" /\ UNCHANGED joiner /\ sessions' = sessions \cup {new}
        /\ msgs' \subseteq msgs \cup {b}
    BY <1>3 DEF Pair
  <2>3. b.kind = "ack" /\ b.joiner = m.joiner /\ b.peer = m.peer
    BY <2>1 DEF JoinMsg
  <2>4. new.joiner = m.joiner /\ new.peer = m.peer
    OBVIOUS
  <2> HIDE DEF b, new
  <2>5. Paired(m.joiner, m.peer)' /\ \A j, c : Paired(j, c) => Paired(j, c)'
    BY <2>2, <2>4 DEF Paired
  <2> QED
    BY <2>2, <2>3, <2>5 DEF ConversationsSound, PairingKinds
<1>4. ASSUME NEW m \in msgs, ResolveInvite(m)
      PROVE  ConversationsSound'
  <2>1. m \in JoinMsg
    BY JoinMsgTypes
  <2>2. UNCHANGED <<joiner, sessions>>
    BY <1>4 DEF ResolveInvite, peers
  <2>3. \A n \in msgs' : \/ n \in msgs
                         \/ n = [m EXCEPT !.kind = "unknown"]
                         \/ \E c : n = [m EXCEPT !.kind = "resolved", !.peer = c]
    BY <1>4 DEF ResolveInvite
  <2>4. /\ [m EXCEPT !.kind = "unknown"].kind = "unknown"
        /\ \A c : [m EXCEPT !.kind = "resolved", !.peer = c].kind = "resolved"
    BY <2>1 DEF JoinMsg
  <2>5. \A n \in msgs' : n \in msgs \/ n.kind \notin PairingKinds
    BY <2>3, <2>4 DEF PairingKinds
  <2> QED
    BY <2>2, <2>5, JoinersWait
<1>5. ASSUME NEW j \in Joiners, JoinInvite(j)
      PROVE  ConversationsSound'
  <2>1. PICK k \in Codes : joiner' = [joiner EXCEPT ![j].stage = "dialing",
                                                    ![j].code = k, ![j].since = now]
    BY <1>5 DEF JoinInvite
  <2> DEFINE d == [joiner[j] EXCEPT !.stage = "dialing", !.code = k, !.since = now]
  <2>2. joiner' = [joiner EXCEPT ![j] = d]
    BY <1>1, <2>1
  <2>3. d.stage = "dialing"
    BY <1>1 DEF Joiner
  <2>4. joiner[j].stage = "off" /\ UNCHANGED <<msgs, sessions>>
    BY <1>5 DEF JoinInvite, net, ghost
  <2> HIDE DEF d
  <2> QED
    BY <2>2, <2>3, <2>4, JoinerMoves
<1>6. ASSUME NEW j \in Joiners, ServiceConnected(j)
      PROVE  ConversationsSound'
  <2> DEFINE d == [joiner[j] EXCEPT !.stage = "lookup"]
             q == Request(j, "resolve", NoPeer, 0)
  <2>1. d.stage = "lookup"
    BY <1>1 DEF Joiner
  <2>2. q.kind \notin PairingKinds
    BY DEF Request, PairingKinds
  <2>3. /\ joiner[j].stage = "dialing" /\ joiner' = [joiner EXCEPT ![j] = d]
        /\ msgs' = msgs \cup {q} /\ UNCHANGED sessions
    BY <1>6 DEF ServiceConnected, ghost
  <2> HIDE DEF d, q
  <2> QED
    BY <2>1, <2>2, <2>3, JoinerMoves
<1>7. ASSUME NEW j \in Joiners, FallBackToRelay(j)
      PROVE  ConversationsSound'
  <2> DEFINE d == [joiner[j] EXCEPT !.relay = TRUE]
  <2>1. d.stage = joiner[j].stage
    BY <1>1 DEF Joiner
  <2>2. /\ joiner[j].stage = "routing" /\ joiner' = [joiner EXCEPT ![j] = d]
        /\ UNCHANGED <<msgs, sessions>>
    BY <1>7 DEF FallBackToRelay, net, ghost
  <2> HIDE DEF d
  <2> QED
    BY <2>1, <2>2, JoinerMoves
<1>8. ASSUME NEW j \in Joiners, TargetConnected(j)
      PROVE  ConversationsSound'
  <2> DEFINE d == [joiner[j] EXCEPT !.stage = "bundle"]
             q == Request(j, "getBundle", joiner[j].target, 0)
  <2>1. d.stage = "bundle" /\ d.target = joiner[j].target
    BY <1>1 DEF Joiner
  <2>2. q.kind = "getBundle" /\ q.joiner = j /\ q.peer = joiner[j].target
    BY DEF Request
  <2>3. /\ joiner[j].stage = "routing" /\ joiner' = [joiner EXCEPT ![j] = d]
        /\ msgs' = msgs \cup {q} /\ UNCHANGED sessions
    BY <1>8 DEF TargetConnected, ghost
  <2> HIDE DEF d, q
  <2> QED
    BY <2>1, <2>2, <2>3, JoinerMoves
<1>9. ASSUME NEW j \in Joiners, joiner' = [joiner EXCEPT ![j] = GaveUp(joiner[j].code)],
             joiner[j].stage # "failed", msgs' \subseteq msgs, UNCHANGED sessions
      PROVE  ConversationsSound'
  <2>1. GaveUp(joiner[j].code).stage = "failed"
    BY DEF GaveUp
  <2> QED
    BY <1>9, <2>1, JoinerMoves
<1>10. ASSUME NEW j \in Joiners, JoinFails(j)
       PROVE  ConversationsSound'
  BY <1>9, <1>10 DEF JoinFails, ghost
<1>11. ASSUME NEW m \in msgs, NotResolved(m)
       PROVE  ConversationsSound'
  BY <1>9, <1>11, JoinMsgTypes DEF NotResolved, ghost
<1>12. ASSUME NEW m \in msgs, Resolved(m)
       PROVE  ConversationsSound'
  <2> DEFINE j == m.joiner
  <2>1. j \in Joiners
    BY JoinMsgTypes
  <2>2. PICK direct \in BOOLEAN :
            joiner' = [joiner EXCEPT ![j].stage = "routing", ![j].target = m.peer,
                                     ![j].direct = direct, ![j].relay = ~direct]
    BY <1>12 DEF Resolved
  <2> DEFINE d == [joiner[j] EXCEPT !.stage = "routing", !.target = m.peer,
                                    !.direct = direct, !.relay = ~direct]
  <2>3. joiner' = [joiner EXCEPT ![j] = d]
    BY <1>1, <2>1, <2>2
  <2>4. joiner[j] \in Joiner
    BY <1>1, <2>1
  <2>5. d.stage = "routing"
    BY <2>4 DEF Joiner
  <2>6. joiner[j].stage = "lookup" /\ msgs' \subseteq msgs /\ UNCHANGED sessions
    BY <1>12 DEF Resolved, ghost
  <2> HIDE DEF d, j
  <2> QED
    BY <2>1, <2>3, <2>5, <2>6, JoinerMoves
<1>13. ASSUME NEW m \in msgs, BundleArrives(m)
       PROVE  ConversationsSound'
  <2> DEFINE j == m.joiner
             d == [joiner[j] EXCEPT !.stage = "initial", !.since = now]
             q == [m EXCEPT !.kind = "initial"]
  <2>1. j \in Joiners /\ m \in JoinMsg
    BY JoinMsgTypes
  <2>2. joiner[j] \in Joiner
    BY <1>1, <2>1
  <2>3. d.stage = "initial" /\ d.target = joiner[j].target
    BY <2>2 DEF Joiner
  <2>4. q.kind = "initial" /\ q.joiner = j /\ q.peer = m.peer
    BY <2>1 DEF JoinMsg
  <2>5. joiner' = [joiner EXCEPT ![j] = d]
    BY <1>1, <1>13, <2>1 DEF BundleArrives
  <2>6. /\ m.kind = "bundle" /\ joiner[j].stage = "bundle"
        /\ msgs' \subseteq msgs \cup {q} /\ UNCHANGED sessions
    BY <1>13 DEF BundleArrives, ghost
  <2>7. m.peer = joiner[j].target
    BY <2>6 DEF ConversationsSound, PairingKinds
  <2> HIDE DEF d, j, q
  <2> QED
    BY <2>1, <2>3, <2>4, <2>5, <2>6, <2>7, JoinerMoves
<1>14. ASSUME NEW m \in msgs, PairingAcked(m)
       PROVE  ConversationsSound'
  <2> DEFINE j == m.joiner
             d == [joiner[j] EXCEPT !.stage = "chat", !.since = 0, !.direct = FALSE,
                                    !.relay = FALSE]
  <2>1. j \in Joiners
    BY JoinMsgTypes
  <2>2. joiner[j] \in Joiner
    BY <1>1, <2>1
  <2>3. d.stage = "chat" /\ d.target = joiner[j].target
    BY <2>2 DEF Joiner
  <2>4. joiner' = [joiner EXCEPT ![j] = d]
    BY <1>1, <1>14, <2>1 DEF PairingAcked
  <2>5. /\ m.kind = "ack" /\ joiner[j].stage = "initial"
        /\ msgs' \subseteq msgs /\ UNCHANGED sessions
    BY <1>14 DEF PairingAcked, ghost
  <2>6. m.peer = joiner[j].target /\ Paired(j, m.peer)
    BY <2>5 DEF ConversationsSound, PairingKinds
  <2> HIDE DEF d, j
  <2> QED
    BY <2>1, <2>3, <2>4, <2>5, <2>6, JoinerMoves
<1>15. CASE UNCHANGED <<joiner, sessions>> /\ msgs' \subseteq msgs
  BY <1>15, JoinersWait
<1>16. CASE JoinerEvent
  BY <1>6, <1>7, <1>8, <1>10, <1>11, <1>12, <1>13, <1>14, <1>16 DEF JoinerEvent
<1> QED
  BY <1>2, <1>3, <1>4, <1>5, <1>15, <1>16, ConversationsFrame

\* A joiner enters the chat only after its own target decrypted its initial
\* message, and run_create_invite_at, which leaves the invite for the chat,
\* pairs one joiner for an invite although the code may resolve again.
THEOREM PairingsMatch == Spec => []PairedBothWays
<1>1. Init => InvitesSound /\ OneJoinerPerInvite /\ ConversationsSound
  <2>1. ASSUME Init, NEW j \in Joiners
        PROVE  joiner[j].stage = "off"
    BY <2>1 DEF Init
  <2> QED
    BY <2>1 DEF Init, InvitesSound, OneJoinerPerInvite, ConversationsSound
<1>2. /\ Types /\ PrekeysSound /\ InvitesSound /\ OneJoinerPerInvite
      /\ ConversationsSound /\ [Next]_vars
      => InvitesSound' /\ OneJoinerPerInvite' /\ ConversationsSound'
  BY InvitesStep, ConversationsStep
<1>3. OneJoinerPerInvite /\ ConversationsSound => PairedBothWays
  BY DEF OneJoinerPerInvite, ConversationsSound, Paired, PairedBothWays
<1> QED
  BY <1>1, <1>2, <1>3, TypesAlways, PrekeysAlways, PTL DEF Spec

=============================================================================
