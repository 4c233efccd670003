-------------------------- MODULE ChatCommandsProofs --------------------------
(***************************************************************************)
(* The two commands that chat over QUIC.  The node: for any number of       *)
(* senders, no text is read twice and the relay never takes over the session *)
(* of the QUIC chat.  The LAN chat: for any set of messages, its queue      *)
(* implements the abstract delivery service.                                *)
(***************************************************************************)
EXTENDS ChatCommands, FiniteSetTheorems, TLAPS

-----------------------------------------------------------------------------
(* The node                                                                 *)

\* The prekey stands for the one session there will be.
OneReading ==
    /\ prekey = IF session = {} THEN TRUE ELSE FALSE
    /\ read = [s \in Senders |-> IF s \in session THEN 1 ELSE 0]

\* Only the one accepted connection carries a bundle or an initial message, and
\* an answer comes after what it answers for.
ParcelsSound ==
    \A s \in Senders :
        /\ <<"bundle", s>> \in parcels => caller = {s}
        /\ <<"initial", s>> \in parcels => caller = {s}
        /\ <<"ok", s>> \in parcels => s \in filed
        /\ <<"ack", s>> \in parcels => s \in session

\* The same for the senders that took an answer.
ReportsSound ==
    \A s \in Senders :
        /\ sender[s] = "chat" => s \in filed
        /\ sender[s] = "done" => s \in session

\* The task has a caller from the moment it accepts, and its session.
TaskSound ==
    /\ task = "accept" <=> caller = {}
    /\ SessionIsCallers

NodeInv ==
    /\ sender = [s \in Senders |-> sender[s]]
    /\ OneReading /\ ParcelsSound /\ ReportsSound /\ TaskSound

\* A sender moves to a stage that reports nothing, and nothing else is added.
LEMMA MovesOn ==
    ASSUME NodeInv, NEW s \in Senders, NEW stage, At(s, stage),
           stage \notin {"chat", "done"}, parcels' \subseteq parcels,
           UNCHANGED <<prekey, session, task, caller, read, filed>>
    PROVE  NodeInv'
BY DEF NodeInv, At, OneReading, ParcelsSound, ReportsSound, TaskSound, SessionIsCallers

\* The sender over QUIC.
LEMMA DirectStep ==
    ASSUME NodeInv, NEW s \in Senders,
           \/ Start(s) \/ Discovered(s) \/ DiscoveryTimesOut(s) \/ Dial(s)
           \/ DialBreaks(s) \/ DialFails(s) \/ Tell(s) \/ Told(s) \/ FallBack(s)
           \/ LeaveDirect(s)
    PROVE  NodeInv'
<1>1. CASE Start(s) \/ Discovered(s) \/ DiscoveryTimesOut(s) \/ DialFails(s)
  BY <1>1, MovesOn DEF Start, Discovered, DiscoveryTimesOut, DialFails, bobVars
<1>2. CASE Dial(s)
  <2>1. CASE prekey
    BY <1>2, <2>1 DEF Dial, At, NodeFails, NodeInv, OneReading, ParcelsSound,
                      ReportsSound, TaskSound, SessionIsCallers
  <2>2. CASE ~prekey
    BY <1>2, <2>2, MovesOn DEF Dial, NodeFails
  <2> QED
    BY <2>1, <2>2
<1>3. CASE DialBreaks(s)
  BY <1>3 DEF DialBreaks, At, NodeInv, OneReading, ParcelsSound, ReportsSound,
              TaskSound, SessionIsCallers
<1>4. CASE Tell(s)
  BY <1>4 DEF Tell, At, bobVars, NodeInv, OneReading, ParcelsSound, ReportsSound,
              TaskSound, SessionIsCallers
<1>5. CASE Told(s)
  BY <1>5 DEF Told, At, bobVars, NodeInv, OneReading, ParcelsSound, ReportsSound,
              TaskSound, SessionIsCallers
<1>6. CASE FallBack(s) \/ LeaveDirect(s)
  BY <1>6, MovesOn DEF FallBack, LeaveDirect
<1> QED
  BY <1>1, <1>2, <1>3, <1>4, <1>5, <1>6

\* The sender through the relay.
LEMMA RelayStep ==
    ASSUME NodeInv, NEW s \in Senders,
           RelayAsk(s) \/ RelayTell(s) \/ RelayAnswered(s) \/ RelayFails(s)
    PROVE  NodeInv'
<1>1. CASE RelayAsk(s)
  BY <1>1 DEF RelayAsk, At, bobVars, NodeInv, OneReading, ParcelsSound, ReportsSound,
              TaskSound, SessionIsCallers
<1>2. CASE RelayTell(s)
  BY <1>2 DEF RelayTell, At, bobVars, NodeInv, OneReading, ParcelsSound, ReportsSound,
              TaskSound, SessionIsCallers
<1>3. CASE RelayAnswered(s)
  BY <1>3 DEF RelayAnswered, At, bobVars, NodeInv, OneReading, ParcelsSound,
              ReportsSound, TaskSound, SessionIsCallers
<1>4. CASE RelayFails(s)
  BY <1>4, MovesOn DEF RelayFails, bobVars
<1> QED
  BY <1>1, <1>2, <1>3, <1>4

\* Bob opens an initial message only with the prekey, so before any session.
LEMMA OpenedSound ==
    ASSUME NodeInv, NEW s \in Senders, prekey, Opened(s)
    PROVE  OneReading' /\ session = {} /\ session' = {s}
<1>1. session = {}
  BY DEF NodeInv, OneReading
<1>2. read = [r \in Senders |-> 0]
  BY <1>1 DEF NodeInv, OneReading
<1>3. read' = [r \in Senders |-> IF r \in {s} THEN 1 ELSE 0]
  BY <1>2 DEF Opened
<1> QED
  BY <1>1, <1>3 DEF OneReading, Opened

\* Bob's two tasks.
LEMMA BobKeeps ==
    ASSUME NodeInv, BobStep
    PROVE  NodeInv'
<1>1. CASE DirectLost
  BY <1>1 DEF DirectLost, NodeFails, NodeInv, OneReading, ParcelsSound, ReportsSound,
              TaskSound, SessionIsCallers
<1>2. ASSUME NEW s \in Senders, DirectInitial(s)
      PROVE  NodeInv'
  <2>1. CASE prekey
    <3>1. OneReading' /\ session = {} /\ session' = {s} /\ caller = {s}
      BY <1>2, <2>1, OpenedSound DEF DirectInitial, NodeInv, ParcelsSound
    <3> QED
      BY <1>2, <2>1, <3>1 DEF DirectInitial, NodeInv, ParcelsSound, ReportsSound,
                              TaskSound, SessionIsCallers
  <2>2. CASE ~prekey
    BY <1>2, <2>2 DEF DirectInitial, NodeFails, NodeInv, OneReading, ParcelsSound,
                      ReportsSound, TaskSound, SessionIsCallers
  <2> QED
    BY <2>1, <2>2
<1>3. ASSUME NEW s \in Senders, DirectFiled(s) \/ DirectFiledFails(s)
      PROVE  NodeInv'
  BY <1>3 DEF DirectFiled, DirectFiledFails, NodeFails, NodeInv, OneReading,
              ParcelsSound, ReportsSound, TaskSound, SessionIsCallers
<1>4. ASSUME NEW s \in Senders, BundleAsked(s)
      PROVE  NodeInv'
  BY <1>4 DEF BundleAsked, NodeFails, bobVars, NodeInv, OneReading, ParcelsSound,
              ReportsSound, TaskSound, SessionIsCallers
<1>5. ASSUME NEW s \in Senders, RelayedInitial(s)
      PROVE  NodeInv'
  <2>1. CASE prekey
    <3>1. OneReading' /\ session = {} /\ session' = {s}
      BY <1>5, <2>1, OpenedSound DEF RelayedInitial
    <3>2. ParcelsSound' /\ ReportsSound'
      BY <1>5, <2>1, <3>1 DEF RelayedInitial, NodeInv, ParcelsSound, ReportsSound
    <3> QED
      BY <1>5, <2>1, <3>1, <3>2 DEF RelayedInitial, NodeInv, TaskSound, SessionIsCallers
  <2>2. CASE ~prekey
    BY <1>5, <2>2 DEF RelayedInitial, NodeInv, OneReading, ParcelsSound, ReportsSound,
                      TaskSound, SessionIsCallers
  <2> QED
    BY <2>1, <2>2
<1> QED
  BY <1>1, <1>2, <1>3, <1>4, <1>5 DEF BobStep

LEMMA NodeStep ==
    ASSUME NodeInv, [NodeNext]_nodeVars
    PROVE  NodeInv'
<1>1. CASE UserStops \/ LinkBreaks
  BY <1>1 DEF UserStops, LinkBreaks, NodeInv, OneReading, ParcelsSound, ReportsSound,
              TaskSound, SessionIsCallers
<1>2. ASSUME NEW s \in Senders, Start(s) \/ SenderStep(s) \/ LeaveDirect(s)
      PROVE  NodeInv'
  BY <1>2, DirectStep, RelayStep DEF SenderStep
<1>3. CASE UNCHANGED nodeVars
  BY <1>3 DEF nodeVars, bobVars, NodeInv, OneReading, ParcelsSound, ReportsSound,
              TaskSound, SessionIsCallers
<1> QED
  BY <1>1, <1>2, <1>3, BobKeeps DEF NodeNext

\* The inductive invariant of the node, whichever command runs.
THEOREM NodeCorrect == CommandSpec => []NodeInv
<1>1. CommandInit => NodeInv
  <2> SUFFICES ASSUME CommandInit PROVE NodeInv
    OBVIOUS
  <2>1. OneReading
    BY DEF CommandInit, NodeInit, OneReading
  <2>2. ParcelsSound /\ ReportsSound /\ TaskSound
    BY DEF CommandInit, NodeInit, ParcelsSound, ReportsSound, TaskSound, SessionIsCallers
  <2> QED
    BY <2>1, <2>2 DEF CommandInit, NodeInit, NodeInv
<1>2. [CommandNext]_commandVars => [NodeNext]_nodeVars
  BY DEF CommandNext, Lan, Node, commandVars
<1>3. NodeInv /\ [CommandNext]_commandVars => NodeInv'
  BY <1>2, NodeStep
<1> QED
  BY <1>1, <1>3, PTL DEF CommandSpec

\* However QUIC attempts, relayed attempts, lost answers and broken chats
\* interleave, no text is decrypted twice, and success is reported only for a
\* text that was read (run_bob, run_alice_discovered).
THEOREM NoTextIsReadTwice == CommandSpec => []TextReadOnce
<1>1. NodeInv => TextReadOnce
  BY DEF NodeInv, OneReading, ReportsSound, TextReadOnce
<1> QED
  BY <1>1, NodeCorrect, PTL

\* The session under the QUIC chat is its caller's, whatever comes through the
\* relay meanwhile (run_bob_quic_once, handle_bob_app_event).
THEOREM RelayCannotTakeOver == CommandSpec => []SessionIsCallers
<1>1. NodeInv => SessionIsCallers
  BY DEF NodeInv, TaskSound
<1> QED
  BY <1>1, NodeCorrect, PTL

-----------------------------------------------------------------------------
(* The LAN chat: what is on its way between the two sides                   *)

Frames == [kind : {"msg", "ack"}, id : Messages]

\* A message comes from its author and was typed; an acknowledgement goes back to
\* the author, for a message its reader has stored.
FrameSound(p, f, T, S) ==
    /\ f \in Frames
    /\ f.kind = "msg" => Author[f.id] = p /\ f.id \in T
    /\ f.kind = "ack" => Author[f.id] = Other(p) /\ S[f.id] > 0

\* The queue from side p: only its first frame may be the initial message.
Flow(p, s, T, S) ==
    /\ s \in Seq(Frames \cup {InitialMessage})
    /\ \A i \in 1 .. Len(s) : \/ s[i] = InitialMessage /\ i = 1
                              \/ FrameSound(p, s[i], T, S)

LEMMA SidesFacts ==
    /\ Alice \in Sides /\ Bob \in Sides /\ Alice # Bob
    /\ \A p \in Sides : /\ p = Alice \/ p = Bob
                        /\ Other(p) \in Sides /\ Other(p) # p /\ Other(Other(p)) = p
BY SidesAssumption DEF Sides, Other

LEMMA FrameKinds ==
    /\ InitialMessage.kind = "initial" /\ InitialMessage \notin Frames
    /\ \A k \in {"msg", "ack"}, m \in Messages :
          Frame(k, m) \in Frames /\ Frame(k, m).kind = k /\ Frame(k, m).id = m
BY DEF InitialMessage, Frame, Frames

LEMMA FlowEmpty ==
    ASSUME NEW p, NEW T, NEW S
    PROVE  Flow(p, << >>, T, S)
BY DEF Flow

LEMMA FlowAppend ==
    ASSUME NEW p, NEW s, NEW f, NEW T, NEW S, Flow(p, s, T, S), FrameSound(p, f, T, S)
    PROVE  Flow(p, Append(s, f), T, S)
<1>1. f \in Frames /\ s \in Seq(Frames \cup {InitialMessage})
  BY DEF Flow, FrameSound
<1> DEFINE a == Append(s, f)
<1>2. /\ a \in Seq(Frames \cup {InitialMessage}) /\ Len(a) = Len(s) + 1 /\ Len(s) \in Nat
      /\ a[Len(s) + 1] = f /\ \A i \in 1 .. Len(s) : a[i] = s[i]
  BY <1>1
<1> HIDE DEF a
<1>3. \A i \in 1 .. Len(a) : i \in 1 .. Len(s) \/ i = Len(s) + 1
  BY <1>2
<1> QED
  BY <1>2, <1>3 DEF Flow, a

LEMMA FlowTail ==
    ASSUME NEW p, NEW s, NEW T, NEW S, Flow(p, s, T, S), s # << >>
    PROVE  /\ Flow(p, Tail(s), T, S)
           /\ Head(s) = InitialMessage \/ FrameSound(p, Head(s), T, S)
<1> DEFINE t == Tail(s)
<1>1. s \in Seq(Frames \cup {InitialMessage}) /\ Len(s) \in Nat /\ Len(s) > 0
  BY DEF Flow
<1>2. /\ t \in Seq(Frames \cup {InitialMessage}) /\ Len(t) = Len(s) - 1
      /\ \A i \in 1 .. Len(t) : t[i] = s[i + 1]
      /\ Head(s) = s[1]
  BY <1>1
<1> HIDE DEF t
<1>3. \A i \in 1 .. Len(t) : i + 1 \in 1 .. Len(s) /\ i + 1 # 1
  BY <1>1, <1>2
<1>4. Flow(p, t, T, S)
  BY <1>2, <1>3 DEF Flow
<1>5. 1 \in 1 .. Len(s)
  BY <1>1
<1> QED
  BY <1>2, <1>4, <1>5 DEF Flow, t

LEMMA FlowPrefix ==
    ASSUME NEW p, NEW s, NEW T, NEW S, Flow(p, s, T, S), NEW u \in Prefixes(s)
    PROVE  Flow(p, u, T, S)
<1>1. s \in Seq(Frames \cup {InitialMessage}) /\ Len(s) \in Nat
  BY DEF Flow
<1>2. PICK k \in 0 .. Len(s) : u = SubSeq(s, 1, k)
  BY DEF Prefixes
<1>3. /\ u \in Seq(Frames \cup {InitialMessage}) /\ Len(u) = k
      /\ \A i \in 1 .. k : u[i] = s[i] /\ i \in 1 .. Len(s)
  BY <1>1, <1>2
<1> QED
  BY <1>3 DEF Flow

\* What was typed stays typed and what was stored stays stored.
LEMMA FlowGrows ==
    ASSUME NEW p, NEW s, NEW T, NEW S, NEW U, NEW R, Flow(p, s, T, S), T \subseteq U,
           \A m \in Messages : S[m] > 0 => R[m] > 0
    PROVE  Flow(p, s, U, R)
<1>1. \A f : FrameSound(p, f, T, S) => FrameSound(p, f, U, R)
  BY DEF FrameSound, Frames
<1> QED
  BY <1>1 DEF Flow

-----------------------------------------------------------------------------
(* The LAN chat: its invariant                                              *)

\* Only a flush has work left.
SidesOK ==
    /\ mode \in [Sides -> {"off", "hello", "flush", "chat"}]
    /\ online \in [Sides -> BOOLEAN]
    /\ todo \in [Sides -> SUBSET Messages]
    /\ await \in [Sides -> SUBSET Messages]
    /\ \A p \in Sides : mode[p] # "flush" => todo[p] = {} /\ await[p] = {}
    /\ known \in [Sides -> BOOLEAN]
    /\ alive \in BOOLEAN

Statuses == {"none", "Sent", "Stored", "Received"}

TablesOK ==
    /\ pending \in [Sides -> SUBSET Messages]
    /\ history \in [Sides -> [Messages -> Statuses]]
    /\ typed \subseteq Messages
    /\ shown \in [Messages -> Nat]

\* A pending line is its author's and not shown as sent.
PendingSound ==
    \A p \in Sides : \A m \in pending[p] : /\ Author[m] = p /\ m \in typed
                                           /\ history[p][m] # "Sent"

\* The reader's history says whether a message was shown, and nothing is in its
\* author's history before it is typed.
HistorySound ==
    \A m \in Messages :
        /\ \/ shown[m] = 0 /\ history[Other(Author[m])][m] = "none"
           \/ shown[m] = 1 /\ history[Other(Author[m])][m] = "Received"
        /\ history[Author[m]][m] # "none" => m \in typed

Flows(c, T, S) ==
    /\ c = [p \in Sides |-> c[p]]
    /\ \A p \in Sides : Flow(p, c[p], T, S)

WireSound == Flows(chan, typed, shown)

Tables == TablesOK /\ PendingSound /\ HistorySound

\* A flush works on lines of its side.
WorkSound == \A p \in Sides : \A m \in todo[p] : Author[m] = p /\ m \in typed

LanInv == SidesOK /\ Tables /\ WireSound /\ WorkSound

LEMMA LanTypes == LanInv => TypeOK
<1> SUFFICES ASSUME LanInv PROVE TypeOK
  OBVIOUS
<1>1. \A p \in Sides : \A i \in 1 .. Len(chan[p]) :
          \/ chan[p][i] = InitialMessage /\ i = 1
          \/ chan[p][i] \in [kind : {"msg", "ack"}, id : Messages]
  BY DEF LanInv, WireSound, Flows, Flow, FrameSound, Frames
<1>2. \A p \in Sides : \A m \in pending[p] :
          m \in Messages /\ Author[m] = p /\ history[p][m] # "Sent"
  BY DEF LanInv, Tables, TablesOK, PendingSound
<1> QED
  BY <1>1, <1>2 DEF LanInv, SidesOK, Tables, TablesOK, TypeOK, Statuses

\* What a handler does to the tables of side p for message m.
Typed(p, m) ==
    /\ Fresh(p, m) /\ typed' = typed \cup {m} /\ UNCHANGED <<pending, shown>>
    /\ UNCHANGED history \/ history' = Inserted(p, m, "Sent")

Queued(p, m) ==
    /\ Fresh(p, m) /\ typed' = typed \cup {m} /\ UNCHANGED shown
    /\ pending' = [pending EXCEPT ![p] = @ \cup {m}]
    /\ UNCHANGED history \/ history' = Inserted(p, m, "Stored")

Settled(p, m) ==
    /\ Author[m] = p /\ shown[m] > 0 /\ UNCHANGED <<typed, shown>>
    /\ pending' = [pending EXCEPT ![p] = @ \ {m}]
    /\ \/ UNCHANGED history
       \/ history' = [history EXCEPT ![p][m] = IF @ = "none" THEN @ ELSE "Sent"]

Received(p, m) ==
    /\ Author[m] = Other(p) /\ m \in typed /\ UNCHANGED <<typed, pending>>
    /\ HandlesMessage(p, m)

\* A row of the history of p changes and no other.
LEMMA RowChanges ==
    ASSUME NEW h \in [Sides -> [Messages -> Statuses]], NEW p \in Sides,
           NEW m \in Messages, NEW x \in Statuses,
           NEW g, g = [h EXCEPT ![p] = [h[p] EXCEPT ![m] = x]]
    PROVE  /\ g \in [Sides -> [Messages -> Statuses]]
           /\ \A q \in Sides, n \in Messages :
                 g[q][n] = IF q = p /\ n = m THEN x ELSE h[q][n]
<1> DEFINE row == [h[p] EXCEPT ![m] = x]
           Rows == [Messages -> Statuses]
<1>1. row \in Rows /\ \A n \in Messages : row[n] = IF n = m THEN x ELSE h[p][n]
  OBVIOUS
<1>2. h \in [Sides -> Rows] /\ g = [h EXCEPT ![p] = row]
  OBVIOUS
<1> HIDE DEF row, Rows
<1>3. g \in [Sides -> Rows] /\ \A q \in Sides : g[q] = IF q = p THEN row ELSE h[q]
  BY <1>1, <1>2
<1> QED
  BY <1>1, <1>3 DEF Rows

LEMMA InsertedRow ==
    ASSUME TablesOK, NEW p \in Sides, NEW m \in Messages, NEW x \in Statuses,
           history' = Inserted(p, m, x)
    PROVE  /\ history' \in [Sides -> [Messages -> Statuses]]
           /\ \A q \in Sides, n \in Messages :
                 history'[q][n] = IF q = p /\ n = m /\ history[p][m] = "none" THEN x
                                  ELSE history[q][n]
<1> DEFINE y == IF history[p][m] = "none" THEN x ELSE history[p][m]
           g == [history EXCEPT ![p] = [history[p] EXCEPT ![m] = y]]
<1>1. history' = g
  BY DEF Inserted
<1>2. y \in Statuses /\ history \in [Sides -> [Messages -> Statuses]]
  BY DEF TablesOK
<1> HIDE DEF y
<1>3. /\ g \in [Sides -> [Messages -> Statuses]]
      /\ \A q \in Sides, n \in Messages :
            g[q][n] = IF q = p /\ n = m THEN y ELSE history[q][n]
  BY <1>2, RowChanges
<1> HIDE DEF g
<1> QED
  BY <1>1, <1>3 DEF y

LEMMA AuthorFacts ==
    ASSUME NEW m \in Messages
    PROVE  Author[m] \in Sides /\ Other(Author[m]) \in Sides /\ Other(Author[m]) # Author[m]
BY SidesFacts, QuicAssumption

LEMMA TypedKeeps ==
    ASSUME Tables, NEW p \in Sides, NEW m \in Messages, Typed(p, m)
    PROVE  Tables'
<1>1. Author[m] = p /\ m \notin typed /\ typed' = typed \cup {m} /\ pending' = pending
      /\ shown' = shown
  BY DEF Typed, Fresh
<1>2. /\ history' \in [Sides -> [Messages -> Statuses]]
      /\ \A q \in Sides, n \in Messages :
            history'[q][n] = history[q][n] \/ (q = p /\ n = m)
  <2>1. CASE UNCHANGED history
    BY <2>1 DEF Tables, TablesOK
  <2>2. CASE history' = Inserted(p, m, "Sent")
    BY <2>2, InsertedRow DEF Tables, Statuses
  <2> QED
    BY <2>1, <2>2 DEF Typed
<1>3. TablesOK'
  BY <1>1, <1>2 DEF Tables, TablesOK
<1>4. PendingSound'
  BY <1>1, <1>2 DEF Tables, TablesOK, PendingSound
<1>5. HistorySound'
  BY <1>1, <1>2, AuthorFacts DEF Tables, HistorySound
<1> QED
  BY <1>3, <1>4, <1>5 DEF Tables

LEMMA QueuedKeeps ==
    ASSUME Tables, NEW p \in Sides, NEW m \in Messages, Queued(p, m)
    PROVE  Tables'
<1>1. Author[m] = p /\ m \notin typed /\ typed' = typed \cup {m} /\ shown' = shown
  BY DEF Queued, Fresh
<1>2. history[p][m] = "none"
  BY <1>1 DEF Tables, HistorySound
<1>3. /\ history' \in [Sides -> [Messages -> Statuses]]
      /\ \A q \in Sides, n \in Messages :
            history'[q][n] = history[q][n] \/ (q = p /\ n = m /\ history'[q][n] = "Stored")
  <2>1. CASE UNCHANGED history
    BY <2>1 DEF Tables, TablesOK
  <2>2. CASE history' = Inserted(p, m, "Stored")
    BY <2>2, InsertedRow DEF Tables, Statuses
  <2> QED
    BY <2>1, <2>2 DEF Queued
<1>4. /\ pending' \in [Sides -> SUBSET Messages]
      /\ \A q \in Sides : \A n \in pending'[q] : n \in pending[q] \/ (q = p /\ n = m)
  BY DEF Queued, Tables, TablesOK
<1>5. TablesOK'
  BY <1>1, <1>3, <1>4 DEF Tables, TablesOK
<1>6. PendingSound'
  BY <1>1, <1>2, <1>3, <1>4 DEF Tables, TablesOK, PendingSound
<1>7. HistorySound'
  BY <1>1, <1>3, AuthorFacts DEF Tables, HistorySound
<1> QED
  BY <1>5, <1>6, <1>7 DEF Tables

LEMMA SettledKeeps ==
    ASSUME Tables, NEW p \in Sides, NEW m \in Messages, Settled(p, m)
    PROVE  Tables'
<1>1. Author[m] = p /\ typed' = typed /\ shown' = shown
  BY DEF Settled
<1>2. /\ history' \in [Sides -> [Messages -> Statuses]]
      /\ \A q \in Sides, n \in Messages :
            history'[q][n] = history[q][n] \/ (q = p /\ n = m /\ history[q][n] # "none")
  <2>1. CASE UNCHANGED history
    BY <2>1 DEF Tables, TablesOK
  <2>2. CASE history' = [history EXCEPT ![p][m] = IF @ = "none" THEN @ ELSE "Sent"]
    <3> DEFINE x == IF history[p][m] = "none" THEN history[p][m] ELSE "Sent"
               g == [history EXCEPT ![p] = [history[p] EXCEPT ![m] = x]]
    <3>1. history' = g
      BY <2>2
    <3>2. /\ x = history[p][m] \/ history[p][m] # "none"
          /\ x \in Statuses /\ history \in [Sides -> [Messages -> Statuses]]
      BY DEF Tables, TablesOK, Statuses
    <3> HIDE DEF x
    <3>3. /\ g \in [Sides -> [Messages -> Statuses]]
          /\ \A q \in Sides, n \in Messages :
                g[q][n] = IF q = p /\ n = m THEN x ELSE history[q][n]
      BY <3>2, RowChanges
    <3> HIDE DEF g
    <3> QED
      BY <3>1, <3>2, <3>3
  <2> QED
    BY <2>1, <2>2 DEF Settled
<1>3. /\ pending' \in [Sides -> SUBSET Messages]
      /\ \A q \in Sides : \A n \in pending'[q] : n \in pending[q] /\ ~(q = p /\ n = m)
  BY DEF Settled, Tables, TablesOK
<1>4. TablesOK'
  BY <1>1, <1>2, <1>3 DEF Tables, TablesOK
<1>5. PendingSound'
  BY <1>1, <1>2, <1>3 DEF Tables, TablesOK, PendingSound
<1>6. HistorySound'
  BY <1>1, <1>2, AuthorFacts DEF Tables, HistorySound
<1> QED
  BY <1>4, <1>5, <1>6 DEF Tables

LEMMA ReceivedKeeps ==
    ASSUME Tables, NEW p \in Sides, NEW m \in Messages, Received(p, m)
    PROVE  Tables'
<1>1. /\ Author[m] = Other(p) /\ typed' = typed /\ pending' = pending
      /\ Other(Author[m]) = p /\ Author[m] # p
  BY SidesFacts DEF Received
<1>2. /\ history' \in [Sides -> [Messages -> Statuses]]
      /\ \A q \in Sides, n \in Messages :
            history'[q][n] = IF q = p /\ n = m /\ history[p][m] = "none" THEN "Received"
                             ELSE history[q][n]
  BY InsertedRow DEF Received, HandlesMessage, Tables, Statuses
<1>3. /\ shown' \in [Messages -> Nat]
      /\ \A n \in Messages :
            shown'[n] = IF n = m /\ history[p][m] = "none" THEN shown[n] + 1 ELSE shown[n]
  BY DEF Received, HandlesMessage, Tables, TablesOK
<1>4. TablesOK'
  BY <1>1, <1>2, <1>3 DEF Tables, TablesOK
<1>5. PendingSound'
  BY <1>1, <1>2 DEF Tables, TablesOK, PendingSound
<1>6. HistorySound'
  <2> SUFFICES ASSUME NEW n \in Messages
               PROVE  (/\ \/ shown[n] = 0 /\ history[Other(Author[n])][n] = "none"
                          \/ shown[n] = 1 /\ history[Other(Author[n])][n] = "Received"
                       /\ history[Author[n]][n] # "none" => n \in typed)'
    BY DEF HistorySound
  <2>1. Author[n] \in Sides /\ Other(Author[n]) \in Sides
    BY AuthorFacts
  <2>2. CASE n = m
    BY <1>1, <1>2, <1>3, <2>1, <2>2 DEF Tables, HistorySound
  <2>3. CASE n # m
    BY <1>1, <1>2, <1>3, <2>1, <2>3 DEF Tables, HistorySound
  <2> QED
    BY <2>2, <2>3
<1> QED
  BY <1>4, <1>5, <1>6 DEF Tables

-----------------------------------------------------------------------------
(* The LAN chat: its steps                                                  *)

\* What was typed or stored before the step still is.
Grown == /\ typed \subseteq typed'
         /\ \A m \in Messages : shown[m] > 0 => shown'[m] > 0

LEMMA FlowsGrow ==
    ASSUME WireSound, Grown
    PROVE  Flows(chan, typed', shown')
BY FlowGrows DEF WireSound, Flows, Grown

\* A frame is sent on whatever is left of the connection.
LEMMA FlowsSent ==
    ASSUME NEW T, NEW S, Flows(chan, T, S), NEW p \in Sides, NEW f, FrameSound(p, f, T, S)
    PROVE  Flows(Sent(p, f), T, S)
<1>1. Flow(p, Append(chan[p], f), T, S)
  BY FlowAppend DEF Flows
<1> DEFINE a == Append(chan[p], f)
           c == [chan EXCEPT ![p] = a]
<1>2. c = [q \in Sides |-> c[q]] /\ \A q \in Sides : c[q] = IF q = p THEN a ELSE chan[q]
  <2> HIDE DEF a
  <2> QED
    BY DEF Flows
<1>3. Sent(p, f) = c \/ Sent(p, f) = chan
  BY DEF Sent
<1> HIDE DEF c, a
<1>4. Flows(c, T, S)
  BY <1>1, <1>2 DEF Flows, a
<1> QED
  BY <1>3, <1>4

\* The first frame of side q is taken out.
LEMMA FlowsTaken ==
    ASSUME NEW T, NEW S, NEW c, Flows(c, T, S), NEW q \in Sides, c[q] # << >>
    PROVE  Flows([c EXCEPT ![q] = Tail(c[q])], T, S)
<1> DEFINE t == Tail(c[q])
           d == [c EXCEPT ![q] = t]
<1>1. Flow(q, t, T, S)
  BY FlowTail DEF Flows
<1> HIDE DEF t
<1>2. d = [p \in Sides |-> d[p]] /\ \A p \in Sides : d[p] = IF p = q THEN t ELSE c[p]
  BY DEF Flows
<1> HIDE DEF d
<1>3. Flows(d, T, S)
  BY <1>1, <1>2 DEF Flows
<1> QED
  BY <1>3 DEF d, t

\* A side stops: a prefix of what it had sent still arrives.
LEMMA StopsKeeps ==
    ASSUME SidesOK, NEW p \in Sides, NEW c, Flows(c, typed', shown'), Stops(p, c),
           UNCHANGED known
    PROVE  SidesOK' /\ WireSound'
<1>1. PICK u \in Prefixes(c[p]) : chan' = [c EXCEPT ![p] = u, ![Other(p)] = << >>]
  BY DEF Stops
<1>2. Flow(p, u, typed', shown') /\ \A q \in Sides : Flow(q, << >>, typed', shown')
  BY FlowPrefix, FlowEmpty DEF Flows
<1>3. \A q \in Sides : q = p \/ q = Other(p)
  BY SidesFacts
<1>4. /\ chan' = [q \in Sides |-> chan'[q]]
      /\ chan'[p] = u /\ chan'[Other(p)] = << >>
  BY <1>1, SidesFacts DEF Flows
<1>5. WireSound'
  BY <1>2, <1>3, <1>4 DEF WireSound, Flows
<1>6. alive' \in BOOLEAN
  BY Zenon DEF Stops, SidesOK
<1>7. SidesOK'
  BY <1>6 DEF SidesOK, Stops
<1> QED
  BY <1>5, <1>7

\* The first frame from the other side, when it is one of the chat.
LEMMA IncomingSound ==
    ASSUME LanInv, NEW p \in Sides, Incoming(p) # << >>
    PROVE  \/ Head(Incoming(p)) = InitialMessage
           \/ FrameSound(Other(p), Head(Incoming(p)), typed, shown)
<1>1. Flow(Other(p), chan[Other(p)], typed, shown)
  BY SidesFacts DEF LanInv, WireSound, Flows
<1> QED
  BY <1>1, FlowTail DEF Incoming

LEMMA ReceivedGrows ==
    ASSUME Tables, NEW p \in Sides, NEW m \in Messages, Received(p, m)
    PROVE  Grown /\ shown'[m] > 0
<1>1. Other(Author[m]) = p
  BY SidesFacts DEF Received
<1>2. /\ typed' = typed
      /\ \A n \in Messages :
            shown'[n] = IF n = m /\ history[p][m] = "none" THEN shown[n] + 1 ELSE shown[n]
  BY DEF Received, HandlesMessage, Tables, TablesOK
<1>3. \A n \in Messages : shown[n] \in Nat
  BY DEF Tables, TablesOK
<1>4. history[p][m] # "none" => shown[m] = 1
  BY <1>1 DEF Tables, HistorySound
<1> QED
  BY <1>2, <1>3, <1>4 DEF Grown

\* A flush takes its work from the pending lines and only does it.
LEMMA WorkKeeps ==
    ASSUME LanInv, typed \subseteq typed',
           \A q \in Sides : todo'[q] \subseteq todo[q] \cup pending[q]
    PROVE  WorkSound'
BY DEF LanInv, WorkSound, Tables, PendingSound

LEMMA ConnectKeeps ==
    ASSUME LanInv, Connect
    PROVE  LanInv'
<1>1. Tables'
  BY DEF Connect, LanInv, Tables, TablesOK, PendingSound, HistorySound
<1>2. SidesOK'
  BY SidesFacts DEF Connect, LanInv, SidesOK, Tables, TablesOK
<1> DEFINE s == <<InitialMessage>>
<1>3. Flow(Alice, s, typed, shown)
  <2>1. s \in Seq(Frames \cup {InitialMessage}) /\ Len(s) = 1 /\ s[1] = InitialMessage
    OBVIOUS
  <2> HIDE DEF s
  <2> QED
    BY <2>1 DEF Flow
<1> HIDE DEF s
<1>4. chan' = [p \in Sides |-> IF p = Alice THEN s ELSE << >>]
      /\ typed' = typed /\ shown' = shown
  BY DEF Connect, s
<1>5. WireSound'
  BY <1>3, <1>4, FlowEmpty DEF WireSound, Flows
<1>6. WorkSound'
  BY <1>4, WorkKeeps DEF Connect, LanInv, SidesOK
<1> QED
  BY <1>1, <1>2, <1>5, <1>6 DEF LanInv

LEMMA HandshakeKeeps ==
    ASSUME LanInv, Handshake
    PROVE  LanInv'
<1>1. Tables'
  BY DEF Handshake, ghost, LanInv, Tables, TablesOK, PendingSound, HistorySound
<1>2. SidesOK'
  BY SidesFacts DEF Handshake, LanInv, SidesOK, Tables, TablesOK
<1>3. /\ chan' = [chan EXCEPT ![Alice] = Tail(chan[Alice])] /\ chan[Alice] # << >>
      /\ typed' = typed /\ shown' = shown
  BY DEF Handshake, ghost
<1>4. WireSound'
  BY <1>3, FlowsTaken, SidesFacts DEF LanInv, WireSound
<1>5. WorkSound'
  BY <1>3, WorkKeeps DEF Handshake, LanInv, SidesOK
<1> QED
  BY <1>1, <1>2, <1>4, <1>5 DEF LanInv

LEMMA BreakKeeps ==
    ASSUME LanInv, Break
    PROVE  LanInv'
<1>1. Tables'
  BY DEF Break, db, ghost, LanInv, Tables, TablesOK, PendingSound, HistorySound
<1>2. SidesOK'
  BY DEF Break, side, db, LanInv, SidesOK
<1>3. PICK u \in Prefixes(chan[Alice]), v \in Prefixes(chan[Bob]) :
             chan' = [p \in Sides |-> IF p = Alice THEN u ELSE v]
  BY DEF Break
<1>4. Flow(Alice, u, typed, shown) /\ Flow(Bob, v, typed, shown)
  BY FlowPrefix, SidesFacts DEF LanInv, WireSound, Flows
<1>5. typed' = typed /\ shown' = shown
  BY DEF Break, ghost
<1>6. WireSound'
  BY <1>3, <1>4, <1>5, SidesFacts DEF WireSound, Flows
<1>7. WorkSound'
  BY <1>5, WorkKeeps DEF Break, side
<1> QED
  BY <1>1, <1>2, <1>6, <1>7 DEF LanInv

\* What a step of side p may do to the tables.
Touches(p) ==
    \/ UNCHANGED <<pending, history, typed, shown>>
    \/ \E m \in Messages : Typed(p, m) \/ Queued(p, m) \/ Settled(p, m) \/ Received(p, m)

LEMMA TouchesKeeps ==
    ASSUME Tables, NEW p \in Sides, Touches(p)
    PROVE  Tables'
<1>1. CASE UNCHANGED <<pending, history, typed, shown>>
  BY <1>1 DEF Tables, TablesOK, PendingSound, HistorySound
<1> QED
  BY <1>1, TypedKeeps, QueuedKeeps, SettledKeeps, ReceivedKeeps DEF Touches

\* A frame is handled: a message is stored and answered, a late answer is dropped.
LEMMA ReceiveKeeps ==
    ASSUME LanInv, NEW p \in Sides, Receive(p)
    PROVE  Touches(p) /\ SidesOK' /\ WireSound'
<1> DEFINE f == Head(Incoming(p))
           o == Other(p)
<1>1. /\ Incoming(p) # << >> /\ f.kind \in {"msg", "ack"} /\ o \in Sides /\ o # p
      /\ Incoming(p) = chan[o] /\ p = Other(o)
  BY SidesFacts DEF Receive, Incoming
<1>2. FrameSound(o, f, typed, shown)
  <2>1. f # InitialMessage
    BY <1>1, FrameKinds
  <2> QED
    BY <1>1, <2>1, IncomingSound
<1>3. UNCHANGED <<side, pending, known, alive, typed>>
  BY DEF Receive
<1>4. SidesOK'
  BY <1>3 DEF LanInv, SidesOK, side
<1>5. CASE f.kind = "msg"
  <2>1. /\ HandlesMessage(p, f.id) /\ f.id \in Messages /\ Author[f.id] = o
        /\ f.id \in typed
        /\ chan' = [Sent(p, Frame("ack", f.id)) EXCEPT ![o] = Tail(chan[o])]
    BY <1>1, <1>2, <1>5 DEF Receive, FrameSound, Frames
  <2> DEFINE m == f.id
             c == Sent(p, Frame("ack", m))
  <2> HIDE DEF f
  <2>2. Received(p, m)
    BY <1>3, <2>1 DEF Received
  <2>3. Grown /\ shown'[m] > 0
    BY <2>1, <2>2, ReceivedGrows DEF LanInv
  <2>4. Flows(chan, typed', shown')
    BY <2>3, FlowsGrow DEF LanInv
  <2>5. FrameSound(p, Frame("ack", m), typed', shown')
    BY <2>1, <2>3, FrameKinds DEF FrameSound
  <2>6. Flows(c, typed', shown')
    BY <2>4, <2>5, FlowsSent
  <2>7. c[o] = chan[o]
    BY <1>1 DEF Sent, LanInv, WireSound, Flows
  <2> HIDE DEF c
  <2>8. chan' = [c EXCEPT ![o] = Tail(c[o])] /\ c[o] # << >>
    BY <1>1, <2>1, <2>7 DEF c
  <2>9. Flows(chan', typed', shown')
    BY <1>1, <2>6, <2>8, FlowsTaken
  <2> QED
    BY <1>4, <2>1, <2>2, <2>9 DEF WireSound, Touches
<1>6. CASE f.kind = "ack"
  <2>1. /\ chan' = [chan EXCEPT ![o] = Tail(chan[o])] /\ UNCHANGED <<history, shown>>
    BY <1>1, <1>6 DEF Receive
  <2>2. WireSound'
    BY <1>1, <1>3, <2>1, FlowsTaken DEF LanInv, WireSound
  <2> QED
    BY <1>3, <1>4, <2>1, <2>2 DEF Touches
<1> QED
  BY <1>1, <1>5, <1>6

\* The flush: a pending line goes out, its answer settles it, or the flush ends.
LEMMA FlushSendKeeps ==
    ASSUME LanInv, NEW p \in Sides, NEW m \in Messages, FlushSend(p, m)
    PROVE  Touches(p) /\ SidesOK' /\ WireSound'
<1>1. SidesOK'
  BY DEF FlushSend, db, LanInv, SidesOK
<1>2. Author[m] = p /\ m \in typed
  BY DEF FlushSend, LanInv, WorkSound
<1>3. FrameSound(p, Frame("msg", m), typed, shown)
  BY <1>2, FrameKinds DEF FrameSound
<1>4. chan' = Sent(p, Frame("msg", m)) /\ UNCHANGED <<pending, history, typed, shown>>
  BY DEF FlushSend, db, ghost
<1>5. WireSound'
  BY <1>3, <1>4, FlowsSent DEF LanInv, WireSound
<1> QED
  BY <1>1, <1>4, <1>5 DEF Touches

\* The answer that a flush waits for speaks of a line of p that was stored.
LEMMA AwaitedSound ==
    ASSUME LanInv, NEW p \in Sides, NEW m \in Messages, Incoming(p) # << >>,
           Head(Incoming(p)) = Frame("ack", m)
    PROVE  Author[m] = p /\ shown[m] > 0
<1>1. FrameSound(Other(p), Frame("ack", m), typed, shown)
  BY IncomingSound, FrameKinds
<1> QED
  BY <1>1, FrameKinds, SidesFacts DEF FrameSound

LEMMA FlushAckedKeeps ==
    ASSUME LanInv, NEW p \in Sides, NEW m \in Messages, FlushAcked(p, m)
    PROVE  Touches(p) /\ SidesOK' /\ WireSound'
<1>1. SidesOK'
  BY DEF FlushAcked, LanInv, SidesOK
<1>2. Author[m] = p /\ shown[m] > 0
  BY AwaitedSound DEF FlushAcked
<1>3. typed' = typed /\ shown' = shown /\ Settled(p, m)
  BY <1>2 DEF FlushAcked, ghost, Settled
<1>4. /\ Other(p) \in Sides /\ chan[Other(p)] # << >>
      /\ chan' = [chan EXCEPT ![Other(p)] = Tail(chan[Other(p)])]
  BY SidesFacts DEF FlushAcked, Incoming
<1>5. WireSound'
  BY <1>3, <1>4, FlowsTaken DEF LanInv, WireSound
<1> QED
  BY <1>1, <1>3, <1>5 DEF Touches

\* The flush ends or gives up, or the chat notices the lost connection.
LEMMA QuietKeeps ==
    ASSUME LanInv, NEW p \in Sides, FlushEnds(p) \/ FlushTimesOut(p) \/ NoticeClosed(p)
    PROVE  Touches(p) /\ SidesOK' /\ WireSound'
<1>1. UNCHANGED <<pending, history, typed, shown, chan>>
  BY DEF FlushEnds, FlushTimesOut, NoticeClosed, db, ghost
<1>2. SidesOK'
  <2>1. CASE FlushEnds(p) \/ FlushTimesOut(p)
    BY <2>1 DEF FlushEnds, FlushTimesOut, EnterChat, db, LanInv, SidesOK
  <2>2. CASE NoticeClosed(p)
    BY <2>2 DEF NoticeClosed, db, LanInv, SidesOK
  <2> QED
    BY <2>1, <2>2
<1> QED
  BY <1>1, <1>2 DEF Touches, LanInv, WireSound

\* A line is typed, on line or off.
LEMMA TypeOnlineKeeps ==
    ASSUME LanInv, NEW p \in Sides, NEW m \in Messages,
           TypeOnline(p, m) \/ TypeOnlineCrash(p, m)
    PROVE  Touches(p) /\ SidesOK' /\ WireSound'
<1>1. Fresh(p, m) /\ typed' = typed \cup {m} /\ shown' = shown /\ Author[m] = p
  BY DEF TypeOnline, TypeOnlineCrash, Fresh
<1>2. Typed(p, m)
  BY DEF TypeOnline, TypeOnlineCrash, Typed, db
<1>3. Flows(chan, typed', shown')
  BY <1>1, FlowsGrow DEF LanInv, Grown
<1>4. FrameSound(p, Frame("msg", m), typed', shown')
  BY <1>1, FrameKinds DEF FrameSound
<1>5. Flows(Sent(p, Frame("msg", m)), typed', shown')
  BY <1>3, <1>4, FlowsSent
<1>6. CASE TypeOnline(p, m)
  <2>1. WireSound'
    BY <1>5, <1>6 DEF TypeOnline, WireSound
  <2>2. SidesOK'
    BY <1>6 DEF TypeOnline, side, LanInv, SidesOK
  <2> QED
    BY <1>2, <2>1, <2>2 DEF Touches
<1>7. CASE TypeOnlineCrash(p, m)
  <2> DEFINE c == Sent(p, Frame("msg", m))
  <2>1. Stops(p, c) /\ UNCHANGED known
    BY <1>7 DEF TypeOnlineCrash, db
  <2> HIDE DEF c
  <2>2. SidesOK' /\ WireSound'
    BY <1>5, <2>1, StopsKeeps DEF LanInv, c
  <2> QED
    BY <1>2, <2>2 DEF Touches
<1> QED
  BY <1>6, <1>7

LEMMA QueueKeeps ==
    ASSUME LanInv, NEW p \in Sides, NEW m \in Messages,
           TypeFails(p, m) \/ QueueOffline(p, m) \/ QueueOfflineCrash(p, m)
    PROVE  Touches(p) /\ SidesOK' /\ WireSound'
<1>1. Queued(p, m)
  BY DEF TypeFails, QueueOffline, QueueOfflineCrash, Queues, Queued
<1>2. Flows(chan, typed', shown')
  BY <1>1, FlowsGrow DEF LanInv, Grown, Queued
<1>3. CASE TypeFails(p, m)
  <2>1. WireSound'
    BY <1>2, <1>3 DEF TypeFails, WireSound
  <2>2. SidesOK'
    BY <1>3 DEF TypeFails, LanInv, SidesOK
  <2> QED
    BY <1>1, <2>1, <2>2 DEF Touches
<1>4. CASE QueueOffline(p, m)
  <2>1. WireSound'
    BY <1>2, <1>4 DEF QueueOffline, WireSound
  <2>2. SidesOK'
    BY <1>4 DEF QueueOffline, side, LanInv, SidesOK
  <2> QED
    BY <1>1, <2>1, <2>2 DEF Touches
<1>5. CASE QueueOfflineCrash(p, m)
  <2>1. Stops(p, chan) /\ UNCHANGED known
    BY <1>5 DEF QueueOfflineCrash
  <2> QED
    BY <1>1, <1>2, <2>1, StopsKeeps DEF Touches, LanInv
<1> QED
  BY <1>3, <1>4, <1>5

\* A side leaves or dies, perhaps between the two writes of an answered line.
LEMMA LeaveKeeps ==
    ASSUME LanInv, NEW p \in Sides,
           Leave(p) \/ \E m \in Messages : FlushAckedCrash(p, m)
    PROVE  Touches(p) /\ SidesOK' /\ WireSound'
<1>1. Stops(p, chan) /\ UNCHANGED <<known, history, typed, shown>>
  BY DEF Leave, FlushAckedCrash, db, ghost
<1>2. SidesOK' /\ WireSound'
  BY <1>1, StopsKeeps DEF LanInv, WireSound
<1>3. Touches(p)
  <2>1. CASE Leave(p)
    BY <1>1, <2>1 DEF Leave, db, Touches
  <2>2. ASSUME NEW m \in Messages, FlushAckedCrash(p, m) PROVE Touches(p)
    <3>1. Author[m] = p /\ shown[m] > 0
      BY <2>2, AwaitedSound DEF FlushAckedCrash
    <3> QED
      BY <1>1, <2>2, <3>1 DEF FlushAckedCrash, Settled, Touches
  <2> QED
    BY <2>1, <2>2
<1> QED
  BY <1>2, <1>3

LEMMA SideStep ==
    ASSUME LanInv, NEW p \in Sides, Handle(p) \/ Users(p)
    PROVE  Touches(p) /\ LanInv'
<1>1. Touches(p) /\ SidesOK' /\ WireSound'
  BY ReceiveKeeps, FlushSendKeeps, FlushAckedKeeps, QuietKeeps, TypeOnlineKeeps, QueueKeeps,
     LeaveKeeps DEF Handle, Users
<1>2. \A q \in Sides : todo'[q] \subseteq todo[q]
  <2>1. \/ UNCHANGED todo
        \/ todo' = [todo EXCEPT ![p] = {}]
        \/ \E m \in Messages : todo' = [todo EXCEPT ![p] = @ \ {m}]
    BY DEF Handle, Users, Receive, FlushSend, FlushAcked, FlushEnds, FlushTimesOut, EnterChat,
           Leave, NoticeClosed, TypeOnline, TypeFails, QueueOffline, TypeOnlineCrash,
           QueueOfflineCrash, FlushAckedCrash, Stops, side
  <2> QED
    BY <2>1 DEF LanInv, SidesOK
<1>3. typed \subseteq typed'
  BY <1>1 DEF Touches, Typed, Queued, Settled, Received
<1>4. WorkSound'
  BY <1>2, <1>3, WorkKeeps
<1>5. Tables'
  BY <1>1, TouchesKeeps DEF LanInv
<1> QED
  BY <1>1, <1>4, <1>5 DEF LanInv

LEMMA LanStep ==
    ASSUME LanInv, [Next]_vars
    PROVE  LanInv'
<1>1. CASE UNCHANGED vars
  BY <1>1 DEF vars, side, db, ghost, LanInv, SidesOK, Tables, TablesOK, PendingSound,
              HistorySound, WireSound, WorkSound
<1> QED
  BY <1>1, ConnectKeeps, HandshakeKeeps, BreakKeeps, SideStep DEF Next

\* The inductive invariant of the LAN chat: whose lines are under way, which
\* answers speak of lines that were stored, and what the two histories say.
THEOREM LanCorrect == CommandSpec => []LanInv
<1>1. CommandInit => LanInv
  <2> SUFFICES ASSUME CommandInit PROVE LanInv
    OBVIOUS
  <2>1. SidesOK /\ WorkSound
    BY DEF CommandInit, Init, SidesOK, WorkSound
  <2>2. Tables
    BY AuthorFacts DEF CommandInit, Init, Tables, TablesOK, PendingSound, HistorySound, Statuses
  <2>3. WireSound
    BY FlowEmpty DEF CommandInit, Init, WireSound, Flows
  <2> QED
    BY <2>1, <2>2, <2>3 DEF LanInv
<1>2. [CommandNext]_commandVars => [Next]_vars
  BY DEF CommandNext, Lan, Node, commandVars
<1>3. LanInv /\ [CommandNext]_commandVars => LanInv'
  BY <1>2, LanStep
<1> QED
  BY <1>1, <1>3, PTL DEF CommandSpec

-----------------------------------------------------------------------------
(* Every step of the LAN chat is a step of the service                      *)

Tracked == pending[Alice] \cup pending[Bob]

LEMMA TouchServes ==
    ASSUME LanInv, NEW p \in Sides, Touches(p)
    PROVE  [Service!DNext]_(Service!dvars)
<1>0. /\ (p = Alice \/ p = Bob) /\ Alice # Bob
      /\ pending \in [Sides -> SUBSET Messages] /\ Alice \in Sides /\ Bob \in Sides
  BY SidesFacts DEF LanInv, Tables, TablesOK
<1>1. CASE UNCHANGED <<pending, history, typed, shown>>
  BY <1>1 DEF Service!dvars
<1>2. ASSUME NEW m \in Messages, Typed(p, m)
      PROVE  [Service!DNext]_(Service!dvars)
  <2>1. Service!IssueUntracked(m)
    BY <1>2 DEF Typed, Fresh, Service!IssueUntracked
  <2> QED
    BY <2>1 DEF Service!DNext
<1>3. ASSUME NEW m \in Messages, Queued(p, m)
      PROVE  [Service!DNext]_(Service!dvars)
  <2>1. Tracked' = Tracked \cup {m}
    BY <1>0, <1>3 DEF Queued, Tracked
  <2>2. Service!Issue(m)
    BY <1>3, <2>1 DEF Queued, Fresh, Tracked, Service!Issue
  <2> QED
    BY <2>2 DEF Service!DNext
<1>4. ASSUME NEW m \in Messages, Settled(p, m)
      PROVE  [Service!DNext]_(Service!dvars)
  <2>1. \A q \in Sides : q # p => m \notin pending[q]
    BY <1>4 DEF Settled, LanInv, Tables, PendingSound
  <2>2. Tracked' = Tracked \ {m}
    BY <1>0, <1>4, <2>1 DEF Settled, Tracked
  <2>3. CASE m \in Tracked
    <3>1. Service!Settle(m)
      BY <1>4, <2>2, <2>3 DEF Settled, Tracked, Service!Settle, Service!Arrived
    <3> QED
      BY <3>1 DEF Service!DNext
  <2>4. CASE m \notin Tracked
    BY <1>4, <2>2, <2>4 DEF Settled, Tracked, Service!dvars
  <2> QED
    BY <2>3, <2>4
<1>5. ASSUME NEW m \in Messages, Received(p, m)
      PROVE  [Service!DNext]_(Service!dvars)
  <2>1. Other(Author[m]) = p /\ m \in typed /\ UNCHANGED <<typed, pending>>
    BY <1>5, SidesFacts DEF Received
  <2>2. shown \in [Messages -> Nat]
    BY DEF LanInv, Tables, TablesOK
  <2>3. CASE history[p][m] = "none"
    <3>1. shown[m] = 0
      BY <2>1, <2>3 DEF LanInv, Tables, HistorySound
    <3>2. shown' = [shown EXCEPT ![m] = @ + 1]
      BY <1>5, <2>3 DEF Received, HandlesMessage
    <3>3. Service!Arrive(m)
      BY <2>1, <3>1, <3>2 DEF Service!Arrive, Service!Arrived
    <3> QED
      BY <3>3 DEF Service!DNext
  <2>4. CASE history[p][m] # "none"
    <3>1. shown' = shown
      BY <1>5, <2>2, <2>4 DEF Received, HandlesMessage
    <3> QED
      BY <2>1, <3>1 DEF Service!dvars
  <2> QED
    BY <2>3, <2>4
<1> QED
  BY <1>1, <1>2, <1>3, <1>4, <1>5 DEF Touches

\* The queue of the LAN chat implements the abstract delivery service, through
\* timeouts of a flush, lost connections, retries and kills between two writes.
THEOREM LanChatImplementsService == CommandSpec => DeliversReliably
<1>1. CommandInit => Service!DInit
  BY SidesFacts DEF CommandInit, Init, Service!DInit
<1>2. [CommandNext]_commandVars => [Next]_vars
  BY DEF CommandNext, Lan, Node, commandVars
<1>3. ASSUME LanInv, [Next]_vars PROVE [Service!DNext]_(Service!dvars)
  <2>1. CASE Connect \/ Handshake \/ Break \/ UNCHANGED vars
    BY <2>1 DEF Connect, Handshake, Break, vars, db, ghost, Service!dvars
  <2>2. ASSUME NEW p \in Sides, Handle(p) \/ Users(p)
        PROVE  [Service!DNext]_(Service!dvars)
    BY <1>3, <2>2, SideStep, TouchServes
  <2> QED
    BY <1>3, <2>1, <2>2 DEF Next
<1>4. LanInv /\ [CommandNext]_commandVars => [Service!DNext]_(Service!dvars)
  BY <1>2, <1>3
<1> QED
  BY <1>1, <1>4, LanCorrect, PTL DEF CommandSpec, DeliversReliably, Service!DSpec

-----------------------------------------------------------------------------
(* The types of both commands                                               *)

\* A session and a caller are one sender at most, and a task past its accept has
\* a caller.
NodeShape ==
    /\ node \in {"up", "stopped", "failed"}
    /\ prekey \in BOOLEAN /\ linked \in BOOLEAN
    /\ \/ task = "accept" /\ caller = {}
       \/ task \in {"hello", "opened", "chat"} /\ \E s \in Senders : caller = {s}
    /\ session = {} \/ \E s \in Senders : session = {s}
    /\ sender \in [Senders -> {"off", "looking", "dialing", "chat"}
                                  \cup Direct \cup Relayed \cup Final]
    /\ read \in [Senders -> Nat] /\ filed \subseteq Senders

LEMMA SingletonOrNone ==
    ASSUME NEW S
    PROVE  /\ S = {} => Cardinality(S) = 0
           /\ (\E s \in Senders : S = {s}) => Cardinality(S) = 1
BY FS_EmptySet, FS_Singleton

LEMMA NodeShapeTypes == NodeShape => NodeTypeOK
<1> SUFFICES ASSUME NodeShape PROVE NodeTypeOK
  OBVIOUS
<1>1. Cardinality(session) \in {0, 1} /\ session \subseteq Senders
  BY SingletonOrNone DEF NodeShape
<1>2. Cardinality(caller) = IF task = "accept" THEN 0 ELSE 1
  BY SingletonOrNone DEF NodeShape
<1>3. caller \subseteq Senders /\ task \in {"accept", "hello", "opened", "chat"}
  BY DEF NodeShape
<1>4. Cardinality(session) <= 1
  BY <1>1
<1> QED
  BY <1>1, <1>2, <1>3, <1>4 DEF NodeShape, NodeTypeOK

\* A sender moves to another stage.
LEMMA SenderMoves ==
    ASSUME NodeShape, NEW s \in Senders, NEW stage, At(s, stage),
           stage \in {"off", "looking", "dialing", "chat"} \cup Direct \cup Relayed \cup Final
    PROVE  sender' \in [Senders -> {"off", "looking", "dialing", "chat"}
                                      \cup Direct \cup Relayed \cup Final]
BY DEF NodeShape, At

LEMMA SenderShape ==
    ASSUME NodeShape, NEW s \in Senders, Start(s) \/ SenderStep(s) \/ LeaveDirect(s)
    PROVE  NodeShape'
<1>1. PICK stage \in {"looking", "dialing", "chat"} \cup Direct \cup Relayed \cup Final :
             At(s, stage)
  BY DEF SenderStep, Start, Discovered, DiscoveryTimesOut, Dial, DialBreaks, DialFails, Tell,
         Told, FallBack, RelayAsk, RelayTell, RelayAnswered, RelayFails, LeaveDirect,
         Direct, Relayed, Final
<1>2. sender' \in [Senders -> {"off", "looking", "dialing", "chat"}
                                 \cup Direct \cup Relayed \cup Final]
  BY <1>1, SenderMoves
<1>3. UNCHANGED <<read, filed, session, prekey>>
  BY DEF SenderStep, Start, Discovered, DiscoveryTimesOut, Dial, DialBreaks, DialFails, Tell,
         Told, FallBack, RelayAsk, RelayTell, RelayAnswered, RelayFails, LeaveDirect,
         bobVars, NodeFails
<1>4. linked' \in BOOLEAN
  <2>1. \/ linked' = linked \/ linked' = TRUE \/ linked' = FALSE
        \/ linked' = (linked /\ s \notin caller)
    BY Zenon DEF SenderStep, Start, Discovered, DiscoveryTimesOut, Dial, DialBreaks, DialFails,
           Tell, Told, FallBack, RelayAsk, RelayTell, RelayAnswered, RelayFails, LeaveDirect,
           bobVars, NodeFails
  <2> QED
    BY <2>1, Zenon DEF NodeShape
<1>5. /\ node' \in {"up", "stopped", "failed"}
      /\ \/ task' = task /\ caller' = caller
         \/ task' = "hello" /\ caller' = {s}
  BY DEF NodeShape, SenderStep, Start, Discovered, DiscoveryTimesOut, Dial, DialBreaks,
         DialFails, Tell, Told, FallBack, RelayAsk, RelayTell, RelayAnswered, RelayFails,
         LeaveDirect, bobVars, NodeFails
<1> QED
  BY <1>2, <1>3, <1>4, <1>5 DEF NodeShape

LEMMA BobShape ==
    ASSUME NodeShape, BobStep \/ UserStops \/ LinkBreaks
    PROVE  NodeShape'
<1>1. sender' = sender /\ caller' = caller
  BY DEF BobStep, UserStops, LinkBreaks, DirectLost, DirectInitial, DirectFiled,
         DirectFiledFails, BundleAsked, RelayedInitial, NodeFails, Opened, bobVars
<1>2. /\ node' \in {"up", "stopped", "failed"} /\ filed' \subseteq Senders
      /\ task' = task \/ (task # "accept" /\ task' \in {"opened", "chat"})
  BY DEF NodeShape, BobStep, UserStops, LinkBreaks, DirectLost, DirectInitial, DirectFiled,
         DirectFiledFails, BundleAsked, RelayedInitial, NodeFails, Opened, bobVars
<1>3. \/ session' = session /\ read' = read /\ prekey' = prekey
      \/ \E s \in Senders : Opened(s)
  BY DEF BobStep, UserStops, LinkBreaks, DirectLost, DirectInitial, DirectFiled,
         DirectFiledFails, BundleAsked, RelayedInitial, NodeFails, bobVars
<1>4. /\ session' = {} \/ \E s \in Senders : session' = {s}
      /\ read' \in [Senders -> Nat] /\ prekey' \in BOOLEAN
  <2>1. CASE session' = session /\ read' = read /\ prekey' = prekey
    BY <2>1, Zenon DEF NodeShape
  <2>2. ASSUME NEW s \in Senders, Opened(s)
        PROVE  /\ session' = {s} /\ prekey' = FALSE
               /\ read' \in [Senders -> Nat]
    <3>1. read[s] + 1 \in Nat /\ read' = [read EXCEPT ![s] = read[s] + 1]
      BY <2>2 DEF NodeShape, Opened
    <3> QED
      BY <2>2, <3>1 DEF NodeShape, Opened
  <2> QED
    BY <1>3, <2>1, <2>2, Zenon
<1>5. linked' = linked \/ linked' = FALSE
  BY Zenon DEF BobStep, UserStops, LinkBreaks, DirectLost, DirectInitial, DirectFiled,
         DirectFiledFails, BundleAsked, RelayedInitial, NodeFails, bobVars
<1>6. linked' \in BOOLEAN
  BY <1>5 DEF NodeShape
<1> QED
  BY <1>1, <1>2, <1>4, <1>6 DEF NodeShape

\* Only the chosen command runs: the other one stays where it started.
OneCommand ==
    /\ command = "node" => mode = [p \in Sides |-> "off"]
    /\ command = "lan" => task = "accept"

\* Both commands keep their types, whichever one was chosen (main).
THEOREM CommandsTyped == CommandSpec => []CommandTypeOK
<1>1. CommandInit => NodeShape /\ OneCommand
  <2> SUFFICES ASSUME CommandInit PROVE NodeShape /\ OneCommand
    OBVIOUS
  <2>1. prekey \in BOOLEAN /\ linked \in BOOLEAN
    BY Zenon DEF CommandInit, NodeInit
  <2>2. /\ node = "up" /\ task = "accept" /\ caller = {} /\ session = {} /\ filed = {}
        /\ sender = [s \in Senders |-> "off"] /\ read = [s \in Senders |-> 0]
        /\ mode = [p \in Sides |-> "off"]
    BY DEF CommandInit, NodeInit, Init
  <2> QED
    BY <2>1, <2>2 DEF NodeShape, OneCommand
<1>2. NodeShape /\ OneCommand /\ [CommandNext]_commandVars => NodeShape' /\ OneCommand'
  <2> SUFFICES ASSUME NodeShape, OneCommand, [CommandNext]_commandVars
               PROVE  NodeShape' /\ OneCommand'
    OBVIOUS
  <2>1. NodeShape'
    <3>1. NodeNext \/ UNCHANGED nodeVars
      BY DEF CommandNext, Lan, Node, commandVars
    <3>2. CASE UNCHANGED nodeVars
      BY <3>2 DEF nodeVars, bobVars, NodeShape
    <3>3. CASE NodeNext
      BY <3>3, SenderShape, BobShape DEF NodeNext
    <3> QED
      BY <3>1, <3>2, <3>3
  <2>2. OneCommand'
    BY DEF OneCommand, CommandNext, Lan, Node, commandVars, nodeVars, bobVars, vars, side
  <2> QED
    BY <2>1, <2>2
<1>3. LanInv /\ NodeShape /\ OneCommand => CommandTypeOK
  BY LanTypes, NodeShapeTypes DEF OneCommand, CommandTypeOK
<1> QED
  BY <1>1, <1>2, <1>3, LanCorrect, PTL DEF CommandSpec

=============================================================================
