--------------------------- MODULE SimplePeerProofs --------------------------
(***************************************************************************)
(* Safety of a peer and of the transceiver below it.                       *)
(***************************************************************************)
EXTENDS SimplePeer, SequenceTheorems, FiniteSetTheorems, TLAPS

(***************************************************************************)
(* The transceiver.  Until a clean-up begins, its state, socket and        *)
(* listenPromise go together; from then on no session is opened, so those  *)
(* the clean-up has found are all there are until the socket is closed.    *)
(***************************************************************************)

InStep ==
  \/ state = "idle" /\ socket = "none" /\ listen = "none"
  \/ state = "listening" /\ socket = "binding" /\ listen = "pending"
  \/ state = "listening" /\ socket = "bound" /\ listen = "resolved"

BeforeCleanUp ==
  /\ cleanup \in {"none", "await"} => InStep
  /\ socket = "binding" => cleanup \in {"none", "await"}

DuringCleanUp ==
  /\ cleanup = "sessions" =>
       /\ Open(sess) \subseteq snapshot
       /\ socket = "bound" \/ Open(sess) = {}
       /\ \A a \in Addrs : sess[a] \in {"none", "closing"}
  /\ cleanup \in {"sessions", "socket"} =>
       /\ state \in {"listening", "closing"}
       /\ listen = "pending" => cause = "listen"
  /\ cleanup \in {"socket", "resolved", "rejected"} => Open(sess) = {}

AfterCleanUp ==
  /\ Settled <=> state \in {"closed", "error"}
  /\ Settled => listen # "pending"
  /\ state = "closed" => socket = "none"

TInv ==
  /\ TransceiverTypeOK
  /\ Open(sess) # {} => socket # "none" /\ state # "idle"
  /\ BeforeCleanUp /\ DuringCleanUp /\ AfterCleanUp

\* The invariant implies what the transceiver promises.
LEMMA TInvSpeaks == TInv => SessionsCanSpeak /\ EndIsClean
BY DEF TInv, TransceiverTypeOK, InStep, BeforeCleanUp, DuringCleanUp, AfterCleanUp,
  Settled, SessionsCanSpeak, EndIsClean

\* The sessions that an event passes on to the application's handlers.
Passes(s) ==
  /\ s \in [Addrs -> {"none", "connecting", "connected", "closing"}]
  /\ cleanup # "none" => \A a \in Addrs : s[a] \in {"none", sess[a]}
  /\ Open(s) \subseteq Open(sess)

\* What the application then does with them.
Operates(s) ==
  /\ UNCHANGED <<socket, listen>>
  /\ \/ Stays(s)
     \/ \E a \in Addrs : CanConnect(a, s) /\ ConnectTo(a, s)
     \/ \E a \in Addrs : CloseSession(a, s)
     \/ Close(s)

\* An operation of the application keeps the invariant, after any event.
LEMMA OperatesKeeps == ASSUME TInv, NEW s, Passes(s), Operates(s) PROVE TInv'
<1>. USE DEF Passes, Operates
<1>1. CASE Stays(s)
  BY <1>1 DEF TInv, TransceiverTypeOK, InStep, BeforeCleanUp, DuringCleanUp,
    AfterCleanUp, Settled, Stays, Open
<1>2. ASSUME NEW a \in Addrs, CanConnect(a, s), ConnectTo(a, s) PROVE TInv'
  BY <1>2 DEF TInv, TransceiverTypeOK, InStep, BeforeCleanUp, DuringCleanUp,
    AfterCleanUp, Settled, Stays, Open, CanConnect, ConnectTo
<1>3. ASSUME NEW a \in Addrs, CloseSession(a, s) PROVE TInv'
  BY <1>3 DEF TInv, TransceiverTypeOK, InStep, BeforeCleanUp, DuringCleanUp,
    AfterCleanUp, Settled, Stays, Open, CloseSession
<1>4. CASE Close(s)
  BY <1>1, <1>4 DEF TInv, TransceiverTypeOK, InStep, BeforeCleanUp, DuringCleanUp,
    AfterCleanUp, Settled, Stays, Open, Close, CleanUp, InMap
<1>. QED  BY <1>1, <1>2, <1>3, <1>4

\* The events that the application does not take part in, and listen().
LEMMA EventKeeps ==
  ASSUME TInv,
         \/ SessionsDone \/ SocketClosed \/ SocketFails \/ Listen \/ BindFails
         \/ \E a \in Addrs : Closes(a) \/ Hello(a)
  PROVE  TInv'
<1>. USE DEF TInv, TransceiverTypeOK, InStep, BeforeCleanUp, DuringCleanUp, AfterCleanUp,
     Settled, Open
<1>1. CASE SessionsDone
  BY <1>1 DEF SessionsDone, Cleaned, End
<1>2. CASE SocketClosed
  BY <1>2 DEF SocketClosed, Cleaned, End
<1>3. CASE SocketFails
  BY <1>3 DEF SocketFails, CleanUp, InMap, End, Hears
<1>4. CASE Listen
  BY <1>4 DEF Listen
<1>5. CASE BindFails
  BY <1>5 DEF BindFails, ListenRejects, CleanUp, InMap
<1>6. ASSUME NEW a \in Addrs, Closes(a) PROVE TInv'
  BY <1>6 DEF Closes
<1>7. ASSUME NEW a \in Addrs, Hello(a) PROVE TInv'
  BY <1>7 DEF Hello, Hears
<1>. QED  BY <1>1, <1>2, <1>3, <1>4, <1>5, <1>6, <1>7

\* The socket is bound, and the application connects or is waiting to close.
LEMMA BoundKeeps ==
  ASSUME TInv, Bound,
         \/ cleanup = "none" /\ \E a \in Addrs : ConnectTo(a, sess)
         \/ CloseWhenBound
  PROVE  TInv'
BY DEF TInv, TransceiverTypeOK, InStep, BeforeCleanUp, DuringCleanUp, AfterCleanUp,
  Settled, Open, Bound, ConnectTo, Stays, CloseWhenBound, CleanUp, InMap

-----------------------------------------------------------------------------
(***************************************************************************)
(* The peer: what each of its steps does to the transceiver.               *)
(***************************************************************************)

\* What is sent on to the handlers are the sessions after the event.
LEMMA EventsPass ==
  ASSUME TInv
  PROVE  /\ Passes(sess)
         /\ \A a \in Addrs : Connected(a) => Passes(WithConnected(a))
         /\ \A a \in Addrs : Closed(a) => Passes(WithClosed(a))
BY DEF TInv, TransceiverTypeOK, Passes, Connected, WithConnected, Closed, WithClosed,
  Hears, Open

\* Whatever a handler comes to is one operation on the transceiver.
LEMMA HandlersOperate ==
  ASSUME NEW s, UNCHANGED <<socket, listen>>,
         \/ Stays(s) \/ Met(s) \/ Join(s) \/ Close(s)
         \/ \E reason \in Reasons : CloseWith(reason, s)
         \/ \E connected : ReachedRelay(s, connected)
         \/ ToClosing(s)
  PROVE  Operates(s)
<1>. Relay \in Addrs /\ Distant \in Addrs
  BY PeerAssumption
<1>. USE DEF Operates
<1>1. CASE ToClosing(s)
  BY <1>1 DEF ToClosing
<1>2. CASE Met(s)
  BY <1>2 DEF Met
<1>3. CASE Join(s)
  BY <1>2, <1>3 DEF Join
<1>4. ASSUME NEW reason \in Reasons, CloseWith(reason, s) PROVE Operates(s)
  BY <1>1, <1>4 DEF CloseWith
<1>5. ASSUME NEW connected, ReachedRelay(s, connected) PROVE Operates(s)
  BY <1>1, <1>5 DEF ReachedRelay
<1>. QED  BY <1>1, <1>2, <1>3, <1>4, <1>5

\* What a step of the peer may be to its transceiver: nothing; an event that the
\* peer takes no part in; the socket being bound; or an event with what one of its
\* handlers does.
Apart ==
  \/ SessionsDone \/ SocketClosed \/ SocketFails \/ Listen \/ BindFails
  \/ \E a \in Addrs : Closes(a) \/ Hello(a)
AtBound ==
  /\ Bound
  /\ \/ cleanup = "none" /\ \E a \in Addrs : ConnectTo(a, sess)
     \/ CloseWhenBound
Handled(s) == Passes(s) /\ Operates(s)

\* Every step is one of these.
LEMMA StepKinds ==
  ASSUME TInv, [Next]_vars
  PROVE  UNCHANGED transceiver \/ Apart \/ AtBound \/ \E s : Handled(s)
<1>. DEFINE Kinds == UNCHANGED transceiver \/ Apart \/ AtBound \/ \E s : Handled(s)
<1>1. CASE UNCHANGED vars \/ KeysRead \/ RelayMatches
  BY <1>1 DEF vars, KeysRead, RelayMatches, transceiver
<1>2. CASE Start
  BY <1>2 DEF Start, Apart
<1>3. CASE ListenEnds
  <2>1. Relay \in Addrs
    BY PeerAssumption
  <2>. QED  BY <1>3, <2>1 DEF ListenEnds, Apart, AtBound
<1>4. CASE ApplicationCloses
  <2>1. UNCHANGED <<socket, listen>> /\ CloseWith("SELF_CLOSE", sess)
    BY <1>4 DEF ApplicationCloses
  <2>2. Operates(sess)
    BY <2>1, HandlersOperate DEF Reasons
  <2>. QED  BY <2>2, EventsPass DEF Handled
<1>5. ASSUME NEW agreed \in BOOLEAN, Introduction(agreed) PROVE Kinds
  <2>1. /\ UNCHANGED <<socket, listen>>
        /\ Stays(sess) \/ Join(sess) \/ CloseWith("NEGOTIATION_FAILURE", sess)
    BY <1>5 DEF Introduction
  <2>2. Operates(sess)
    BY <2>1, HandlersOperate DEF Reasons
  <2>. QED  BY <2>2, EventsPass DEF Handled
<1>6. ASSUME NEW answer \in Answers, TagsRead(answer) PROVE Kinds
  <2>1. /\ UNCHANGED <<socket, listen>>
        /\ \/ Join(sess) \/ CloseWith("PUBLIC_KEY_MISMATCH", sess)
           \/ CloseWith("NEGOTIATION_FAILURE", sess)
    BY <1>6 DEF TagsRead
  <2>2. Operates(sess)
    BY <2>1, HandlersOperate DEF Reasons
  <2>. QED  BY <2>2, EventsPass DEF Handled
<1>7. ASSUME NEW a \in Addrs, SessionConnects(a) PROVE Kinds
  <2>1. /\ Connected(a) /\ UNCHANGED <<socket, listen>>
        /\ \/ ReachedRelay(WithConnected(a), TRUE) \/ Met(WithConnected(a))
           \/ Stays(WithConnected(a))
    BY <1>7 DEF SessionConnects, Connected
  <2>2. Operates(WithConnected(a))
    BY <2>1, HandlersOperate
  <2>. QED  BY <2>1, <2>2, EventsPass DEF Handled
<1>8. ASSUME NEW a \in Addrs, SessionEnds(a) PROVE Kinds
  <2>1. /\ Closed(a) /\ UNCHANGED <<socket, listen>>
        /\ \/ ReachedRelay(WithClosed(a), isConnected)
           \/ Close(WithClosed(a)) \/ Stays(WithClosed(a)) \/ ToClosing(WithClosed(a))
           \/ CloseWith("RELAY_CLOSE", WithClosed(a))
    BY <1>8 DEF SessionEnds, Closed
  <2>2. Operates(WithClosed(a))
    BY <2>1, HandlersOperate DEF Reasons
  <2>. QED  BY <2>1, <2>2, EventsPass DEF Handled
<1>9. CASE TransceiverStep
  BY <1>9 DEF TransceiverStep, Alone, Apart
<1>. QED  BY <1>1, <1>2, <1>3, <1>4, <1>5, <1>6, <1>7, <1>8, <1>9 DEF Next

\* The invariant survives every step.
LEMMA TInvKept == ASSUME TInv, [Next]_vars PROVE TInv'
<1>1. CASE UNCHANGED transceiver
  BY <1>1 DEF transceiver, TInv, TransceiverTypeOK, InStep, BeforeCleanUp,
    DuringCleanUp, AfterCleanUp, Settled, Open
<1>2. CASE Apart
  BY <1>2, EventKeeps DEF Apart
<1>3. CASE AtBound
  BY <1>3, BoundKeeps DEF AtBound
<1>4. ASSUME NEW s, Handled(s) PROVE TInv'
  BY <1>4, OperatesKeeps DEF Handled
<1>. QED  BY <1>1, <1>2, <1>3, <1>4, StepKinds

-----------------------------------------------------------------------------
(***************************************************************************)
(* The reasons a peer reports.  Until it has reached the relay nothing     *)
(* watches the relay's session and no shift is held up, so that only the   *)
(* application can have closed it; and no peer reports before it closes.   *)
(***************************************************************************)

Early == step \in {"none", "listen", "relay"}

EarlyClosesItself ==
  Early => /\ ~watching /\ entered
           /\ \/ peer \in {"idle", "connectingToRelay"}
              \/ peer = "closing" /\ reasons = <<"SELF_CLOSE">>

IdleIsFresh == peer = "idle" => step = "none"

ReportsWhenClosing ==
  IF peer = "closing"
  THEN \/ \E reason \in Reasons : reasons = <<reason>>
       \/ reasons = <<"SELF_CLOSE", "RELAY_UNAVAILABLE">>
  ELSE reasons = <<>> /\ ~closing

PeerTypes ==
  /\ peer \in {"idle", "connectingToRelay", "connectingToPeer",
               "connectedToPeer", "closing"}
  /\ step \in {"none", "listen", "relay", "keys", "request", "tags", "conn",
               "leaving", "done", "threw"}
  /\ once \subseteq {"onConnected", "onSessionClosed"}
  /\ encrypt \in BOOLEAN /\ waits \in BOOLEAN /\ isConnected \in BOOLEAN
  /\ watching \in BOOLEAN /\ entered \in BOOLEAN /\ closing \in BOOLEAN
  /\ introduced \in BOOLEAN
  /\ outcome \in {"none", "session", "nothing"}

PInv == PeerTypes /\ IdleIsFresh /\ EarlyClosesItself /\ ReportsWhenClosing

\* A peer that shifts to closing had nothing to report before.
LEMMA ShiftReports ==
  ASSUME PInv, NEW s, NEW reason \in Reasons, peer # "closing", ToClosing(s),
         reasons' = Append(reasons, reason)
  PROVE  /\ peer' = "closing" /\ watching' = FALSE /\ entered' \in BOOLEAN
         /\ peer # "connectingToPeer" => entered'
         /\ reasons' = <<reason>> /\ ReportsWhenClosing'
<1>1. reasons = <<>>
  BY DEF PInv, ReportsWhenClosing
<1>2. reasons' = <<reason>>
  BY <1>1
<1>3. peer' = "closing" /\ watching' = FALSE /\ entered' = ~HeldUp(s)
  BY DEF ToClosing
<1>4. entered' \in BOOLEAN /\ (peer # "connectingToPeer" => entered')
  BY <1>3 DEF HeldUp
<1>. QED  BY <1>2, <1>3, <1>4 DEF ReportsWhenClosing

\* close(reason) reports at most once.
LEMMA CloseReports ==
  ASSUME PInv, NEW s, NEW reason \in Reasons, CloseWith(reason, s)
  PROVE  /\ peer' = "closing" /\ closing' = TRUE /\ ReportsWhenClosing'
         /\ watching' \in BOOLEAN /\ entered' \in BOOLEAN
         /\ Early /\ reason = "SELF_CLOSE" =>
              ~watching' /\ entered' /\ reasons' = <<"SELF_CLOSE">>
<1>1. CASE Reported
  BY <1>1 DEF CloseWith, Reported, PInv, PeerTypes, ReportsWhenClosing,
    EarlyClosesItself, Early
<1>2. CASE ~Reported
  BY <1>2, ShiftReports DEF CloseWith, Reported, PInv, PeerTypes, EarlyClosesItself, Early
<1>. QED  BY <1>1, <1>2
-----------------------------------------------------------------------------

\* Past the relay, types and reasons are all there is to show.
LEMMA LateKeeps ==
  ASSUME PeerTypes', ReportsWhenClosing', peer' # "idle", ~Early'
  PROVE  PInv'
BY DEF PInv, EarlyClosesItself, IdleIsFresh

\* What is reported does not change without peer, closing and reasons.
LEMMA SilentKeeps ==
  ASSUME ReportsWhenClosing, UNCHANGED <<peer, closing, reasons>>
  PROVE  ReportsWhenClosing'
BY DEF ReportsWhenClosing

\* The listener is attached, and the request is made or was not.
LEMMA AskGoesOn ==
  ASSUME NEW s, Ask(s)
  PROVE  watching' = TRUE /\ step' \in {"threw", "done", "request"}
<1>1. step' = CASE s[Relay] # "connected" -> "threw"
                [] closing -> "done"
                [] OTHER -> "request"
  BY DEF Ask
<1>2. step' \in {"threw", "done", "request"}
  BY <1>1, Zenon
<1>. QED  BY <1>2 DEF Ask

\* Met and Join leave the reasons alone and are past the relay.
LEMMA MeetingGoesOn ==
  ASSUME PInv, NEW s, Met(s) \/ Join(s), step # "none", UNCHANGED <<closing, reasons>>
  PROVE  /\ step' \in {"done", "conn", "threw", "leaving"}
         /\ outcome' \in {"none", "session", "nothing"}
         /\ peer' \in {"connectingToRelay", "connectingToPeer", "connectedToPeer",
                       "closing"}
         /\ watching' \in BOOLEAN /\ entered' \in BOOLEAN
         /\ ReportsWhenClosing'
<1>1. CASE Met(s)
  <2>1. CASE peer = "connectingToPeer"
    BY <1>1, <2>1 DEF Met, HeldUp, Resolved, PInv, PeerTypes, ReportsWhenClosing
  <2>2. CASE peer # "connectingToPeer"
    BY <1>1, <2>2, SilentKeeps DEF Met, Resolved, PInv, PeerTypes, IdleIsFresh
  <2>. QED  BY <2>1, <2>2
<1>2. CASE Join(s) /\ CanConnect(Distant, s)
  BY <1>2, SilentKeeps DEF Join, PInv, PeerTypes, IdleIsFresh
<1>. QED  BY <1>1, <1>2 DEF Join

\* A second reason follows the first.
LEMMA TwoReasons == ASSUME NEW a, NEW b PROVE Append(<<a>>, b) = <<a, b>>
<1>. DEFINE s == Append(<<a>>, b)
            t == <<a, b>>
<1>1. <<a>> \in Seq({a, b}) /\ Len(<<a>>) = 1 /\ b \in {a, b}
  OBVIOUS
<1>2. s \in Seq({a, b}) /\ Len(s) = 2 /\ s[1] = a /\ s[2] = b
  BY <1>1
<1>3. t \in Seq({a, b}) /\ Len(t) = 2 /\ t[1] = a /\ t[2] = b
  OBVIOUS
<1>. HIDE DEF s, t
<1>4. Len(s) = Len(t) /\ \A i \in 1 .. Len(s) : s[i] = t[i]
  BY <1>2, <1>3
<1>5. s = t
  BY <1>2, <1>3, <1>4, SeqEqual
<1>. QED  BY <1>5 DEF s, t

\* The end of the relay phase: the shift to the peer, or the relay's report.
LEMMA ReachKeeps ==
  ASSUME PInv, NEW s, NEW connected \in BOOLEAN, ReachedRelay(s, connected),
         step = "relay", UNCHANGED closing
  PROVE  /\ step' \in {"keys", "threw", "done", "request"}
         /\ peer' \in {"connectingToPeer", "connectingToRelay", "closing"}
         /\ watching' \in BOOLEAN /\ entered' \in BOOLEAN
         /\ ReportsWhenClosing'
<1>1. \/ peer = "connectingToRelay"
      \/ peer = "closing" /\ reasons = <<"SELF_CLOSE">>
  BY DEF PInv, EarlyClosesItself, IdleIsFresh, Early
<1>2. CASE connected /\ peer = "connectingToRelay"
  BY <1>2, AskGoesOn DEF ReachedRelay, PInv, PeerTypes, ReportsWhenClosing
<1>3. CASE connected /\ peer # "connectingToRelay"
  BY <1>1, <1>3, SilentKeeps DEF ReachedRelay, PInv, PeerTypes
<1>4. CASE ~connected /\ peer = "closing"
  <2>1. reasons' = Append(reasons, "RELAY_UNAVAILABLE")
    BY <1>4 DEF ReachedRelay
  <2>2. reasons' = <<"SELF_CLOSE", "RELAY_UNAVAILABLE">>
    BY <1>1, <1>4, <2>1, TwoReasons
  <2>3. step' = "done" /\ peer' = "closing" /\ UNCHANGED <<watching, entered>>
    BY <1>4, Zenon DEF ReachedRelay
  <2>4. ReportsWhenClosing'
    BY <2>2, <2>3 DEF ReportsWhenClosing
  <2>. QED  BY <2>3, <2>4 DEF PInv, PeerTypes
<1>5. CASE ~connected /\ peer # "closing"
  <2>1. /\ ToClosing(s) /\ step' = "done"
        /\ reasons' = Append(reasons, "RELAY_UNAVAILABLE")
    BY <1>5 DEF ReachedRelay
  <2>. QED  BY <1>5, <2>1, ShiftReports DEF Reasons
<1>. QED  BY <1>2, <1>3, <1>4, <1>5

\* Every step keeps the peer's invariant.
LEMMA PInvKept == ASSUME PInv, [Next]_vars PROVE PInv'
<1>1. CASE UNCHANGED vars \/ (TransceiverStep /\ UNCHANGED mode)
  <2>1. UNCHANGED <<peerVars, mode>>
    BY <1>1 DEF vars, TransceiverStep, Alone
  <2>. QED  BY <2>1, SilentKeeps DEF peerVars, mode, PInv, PeerTypes, IdleIsFresh, Early,
       EarlyClosesItself
<1>2. CASE Start /\ UNCHANGED mode
  BY <1>2 DEF Start, mode, PInv, PeerTypes, IdleIsFresh, Early,
    EarlyClosesItself, ReportsWhenClosing
<1>3. CASE ListenEnds /\ UNCHANGED mode
  BY <1>3, SilentKeeps
     DEF ListenEnds, mode, PInv, PeerTypes, IdleIsFresh, Early,
    EarlyClosesItself
<1>4. CASE KeysRead /\ UNCHANGED mode
  <2>1. watching' \in BOOLEAN /\ step' \in {"threw", "done", "request"}
    BY <1>4, AskGoesOn DEF KeysRead, PInv, PeerTypes
  <2>. QED  BY <1>4, <2>1, SilentKeeps, LateKeeps DEF KeysRead, mode, PInv, PeerTypes,
       IdleIsFresh, Early
<1>5. CASE RelayMatches /\ UNCHANGED mode
  BY <1>5, SilentKeeps DEF RelayMatches, mode, PInv, PeerTypes, IdleIsFresh, Early,
    EarlyClosesItself
<1>6. CASE ApplicationCloses /\ UNCHANGED mode
  <2>1. CloseWith("SELF_CLOSE", sess) /\ "SELF_CLOSE" \in Reasons
    BY <1>6 DEF ApplicationCloses, Reasons
  <2>2. step' = step \/ step' = "done"
    BY <1>6 DEF ApplicationCloses, Interrupted
  <2>3. PeerTypes'
    BY <1>6, <2>1, <2>2, CloseReports DEF ApplicationCloses, mode, PInv, PeerTypes
  <2>4. EarlyClosesItself'
    BY <2>1, <2>2, CloseReports DEF Early, EarlyClosesItself
  <2>. QED  BY <2>1, <2>3, <2>4, CloseReports DEF PInv, IdleIsFresh
<1>7. ASSUME NEW agreed \in BOOLEAN, Introduction(agreed), UNCHANGED mode PROVE PInv'
  <2>1. CASE agreed /\ encrypt
    BY <1>7, <2>1, SilentKeeps, LateKeeps DEF Introduction, mode, PInv, PeerTypes,
       IdleIsFresh, Early
  <2>2. CASE agreed /\ ~encrypt
    BY <1>7, <2>2, MeetingGoesOn, LateKeeps DEF Introduction, mode, PInv, PeerTypes,
       IdleIsFresh, Early
  <2>3. CASE ~agreed
    <3>1. /\ CloseWith("NEGOTIATION_FAILURE", sess) /\ "NEGOTIATION_FAILURE" \in Reasons
          /\ step' = "done" /\ outcome' \in {"none", "session", "nothing"}
      BY <1>7, <2>3 DEF Introduction, Reasons, Resolved, PInv, PeerTypes
    <3>. QED  BY <1>7, <3>1, CloseReports, LateKeeps
         DEF Introduction, mode, PInv, PeerTypes,
       IdleIsFresh, Early
  <2>. QED  BY <2>1, <2>2, <2>3
<1>8. ASSUME NEW answer \in Answers, TagsRead(answer), UNCHANGED mode PROVE PInv'
  <2>1. CASE answer = "trusted"
    BY <1>8, <2>1, MeetingGoesOn, LateKeeps DEF TagsRead, mode, PInv, PeerTypes,
       IdleIsFresh, Early
  <2>2. CASE answer # "trusted"
    <3>1. PICK reason \in Reasons : CloseWith(reason, sess)
      BY <1>8, <2>2 DEF TagsRead, Reasons
    <3>2. step' = "done" /\ outcome' \in {"none", "session", "nothing"}
      BY <1>8, <2>2 DEF TagsRead, Resolved, PInv, PeerTypes
    <3>. QED  BY <1>8, <3>1, <3>2, CloseReports, LateKeeps
         DEF TagsRead, mode, PInv, PeerTypes,
       IdleIsFresh, Early
  <2>. QED  BY <2>1, <2>2
<1>9. ASSUME NEW a \in Addrs, SessionConnects(a), UNCHANGED mode PROVE PInv'
  <2>1. once' \subseteq {"onConnected", "onSessionClosed"} /\ isConnected' \in BOOLEAN
    BY <1>9 DEF SessionConnects, PInv, PeerTypes
  <2>2. CASE step = "relay" /\ ReachedRelay(WithConnected(a), TRUE) /\ UNCHANGED outcome
    BY <1>9, <2>1, <2>2, ReachKeeps, LateKeeps
       DEF SessionConnects, mode, PInv, PeerTypes, Early
  <2>3. CASE step = "conn" /\ Met(WithConnected(a)) /\ UNCHANGED reasons
    BY <1>9, <2>1, <2>3, MeetingGoesOn, LateKeeps
       DEF SessionConnects, mode, PInv, PeerTypes, Early
  <2>4. CASE UNCHANGED <<peer, step, watching, entered, outcome, reasons>>
    BY <1>9, <2>1, <2>4, SilentKeeps
       DEF SessionConnects, mode, PInv, PeerTypes, IdleIsFresh, Early, EarlyClosesItself
  <2>. QED  BY <1>9, <2>2, <2>3, <2>4 DEF SessionConnects
<1>10. ASSUME NEW a \in Addrs, SessionEnds(a), UNCHANGED mode PROVE PInv'
  <2>. DEFINE s == WithClosed(a)
  <2>1. /\ once' \subseteq {"onConnected", "onSessionClosed"}
        /\ UNCHANGED <<isConnected, introduced, outcome, encrypt, waits>>
    BY <1>10 DEF SessionEnds, PInv, PeerTypes, mode
  <2>2. CASE EndsRelayPhase(a) /\ ReachedRelay(s, isConnected) /\ UNCHANGED closing
    <3>1. step = "relay" /\ isConnected \in BOOLEAN
      BY <2>2 DEF EndsRelayPhase, PInv, PeerTypes
    <3>. HIDE DEF s
    <3>. QED  BY <2>1, <2>2, <3>1, ReachKeeps, LateKeeps DEF PInv, PeerTypes, Early
  <2>3. CASE /\ EndsExit(a) /\ entered' = TRUE
             /\ step' = step \/ step' = "done"
             /\ UNCHANGED <<peer, watching, closing, reasons>>
    <3>1. ~Early
      BY <2>3 DEF EndsExit, PInv, EarlyClosesItself
    <3>. QED  BY <2>1, <2>3, <3>1, SilentKeeps, LateKeeps
         DEF PInv, PeerTypes, IdleIsFresh, Early
  <2>4. CASE /\ EndsPeering(a) /\ reasons' = Append(reasons, "DISTANT_CLOSE")
             /\ ToClosing(s) /\ UNCHANGED <<step, closing>>
    <3>1. peer = "connectedToPeer" /\ ~Early
      BY <2>4 DEF EndsPeering, PInv, EarlyClosesItself
    <3>. HIDE DEF s
    <3>. QED  BY <2>1, <2>4, <3>1, ShiftReports, LateKeeps
         DEF PInv, PeerTypes, Early, Reasons
  <2>5. CASE watching /\ CloseWith("RELAY_CLOSE", s) /\ step' = Interrupted
    <3>1. ~Early
      BY <2>5 DEF PInv, EarlyClosesItself
    <3>2. step' = step \/ step' = "done"
      BY <2>5 DEF Interrupted
    <3>. HIDE DEF s
    <3>. QED  BY <2>1, <2>5, <3>1, <3>2, CloseReports, LateKeeps
         DEF PInv, PeerTypes, Early, Reasons
  <2>6. CASE UNCHANGED <<peer, step, watching, entered, closing, reasons>>
    BY <2>1, <2>6, SilentKeeps
       DEF PInv, PeerTypes, IdleIsFresh, Early, EarlyClosesItself
  <2>. QED  BY <1>10, <2>2, <2>3, <2>4, <2>5, <2>6 DEF SessionEnds
<1>. QED  BY <1>1, <1>2, <1>3, <1>4, <1>5, <1>6, <1>7, <1>8, <1>9, <1>10 DEF Next

\* Both invariants hold at first, and so always.
LEMMA InvInit == Init => TInv /\ PInv
<1>1. Init => TInv
  BY DEF Init, TransceiverInit, TInv, TransceiverTypeOK, InStep, BeforeCleanUp,
    DuringCleanUp, AfterCleanUp, Settled, Open
<1>2. Init => PInv
  BY DEF Init, PInv, PeerTypes, IdleIsFresh, Early, EarlyClosesItself, ReportsWhenClosing
<1>. QED  BY <1>1, <1>2

\* So both always hold.
LEMMA InvAlways == Spec => [](TInv /\ PInv)
BY InvInit, TInvKept, PInvKept, PTL DEF Spec

\* At most two reasons, and two only if the application closed while connecting.
LEMMA FewReasons ==
  ASSUME ReportsWhenClosing
  PROVE  reasons \in Seq(Reasons) /\ Len(reasons) <= 2 /\ OneReason
<1>1. CASE reasons = <<>>
  BY <1>1 DEF OneReason
<1>2. CASE \E reason \in Reasons : reasons = <<reason>>
  BY <1>2 DEF OneReason
<1>3. CASE reasons = <<"SELF_CLOSE", "RELAY_UNAVAILABLE">>
  <2>1. "SELF_CLOSE" \in Reasons /\ "RELAY_UNAVAILABLE" \in Reasons
    BY DEF Reasons
  <2>. QED  BY <1>3, <2>1 DEF OneReason
<1>. QED  BY <1>1, <1>2, <1>3 DEF ReportsWhenClosing

\* The types of the transceiver's variables and of the peer's.
THEOREM TypeCorrect == Spec => []TypeOK
<1>1. TInv /\ PInv => TypeOK
  <2>. SUFFICES ASSUME TInv, PInv PROVE TypeOK
    OBVIOUS
  <2>1. reasons \in Seq(Reasons) /\ Len(reasons) <= 2
    BY FewReasons DEF PInv
  <2>. QED  BY <2>1 DEF TypeOK, TInv, PInv, PeerTypes
<1>. QED  BY <1>1, InvAlways, PTL

\* However a transceiver ends, its socket outlives its sessions, so that
\* sendDatagram never throws under a session that sends its HELLOs or FINs.
THEOREM SocketOutlivesSessions == Spec => []SessionsCanSpeak
<1>1. TInv /\ PInv => SessionsCanSpeak
  BY TInvSpeaks
<1>. QED  BY <1>1, InvAlways, PTL

\* A transceiver that has ended keeps no session, and leaves no promise open.
THEOREM EndsClean == Spec => []EndIsClean
<1>1. TInv /\ PInv => EndIsClean
  BY TInvSpeaks
<1>. QED  BY <1>1, InvAlways, PTL

\* onClosing is emitted once, but for a close() that comes while connecting to
\* the relay, which also reports the relay as unavailable.
THEOREM ReportsOnce == Spec => []OneReason
<1>1. TInv /\ PInv => OneReason
  BY FewReasons DEF PInv
<1>. QED  BY <1>1, InvAlways, PTL
-----------------------------------------------------------------------------
(***************************************************************************)
(* The course of an attempt: where its coroutine can be while the peer is  *)
(* in a state, and what the application's promise has come to by then.     *)
(***************************************************************************)

\* Where the coroutine has not met the distant peer yet.
Following == {"none", "listen", "relay", "keys", "request", "tags", "conn"}

Course ==
  /\ step \in Following => outcome = "none"
  /\ step = "leaving" => outcome = "session"
  /\ step = "keys" => ~watching
  /\ step \in {"keys", "request", "tags", "conn"} =>
       peer \in {"connectingToPeer", "closing"}
  /\ peer = "connectingToPeer" =>
       outcome = "none" /\ step \in {"keys", "request", "tags", "conn", "threw"}
  /\ peer = "connectedToPeer" =>
       outcome = "session" /\ step = IF entered THEN "done" ELSE "leaving"
  /\ watching => peer \in {"connectingToPeer", "closing"}
  /\ ~entered => peer \in {"connectedToPeer", "closing"}

\* What is to come after a first report: nothing, except that a report of the
\* relay may find the coroutine in the vault.
Settles(reason) ==
  /\ reason \in {"RELAY_UNAVAILABLE", "PUBLIC_KEY_MISMATCH"} =>
       step = "done" /\ outcome = "none"
  /\ reason = "NEGOTIATION_FAILURE" => step = "done" /\ outcome = "nothing"
  /\ reason = "DISTANT_CLOSE" => step = "done" /\ outcome = "session"
  /\ reason = "RELAY_CLOSE" =>
       /\ closing /\ step \in {"tags", "done", "threw"}
       /\ outcome = "session" => step = "threw"

Concluded == /\ \A reason \in Reasons : reasons = <<reason>> => Settles(reason)
             /\ outcome = "nothing" => peer = "closing"

OInv == Course /\ Concluded

\* Lists of one reason are told apart by it, from the empty one and from longer ones.
LEMMA OneReasonEach ==
  /\ \A a, b : <<a>> = <<b>> => a = b
  /\ \A a : <<a>> # <<>>
  /\ \A a, b, c : <<a>> # <<b, c>>
<1>1. ASSUME NEW a, NEW b, <<a>> = <<b>> PROVE a = b
  <2>1. <<a>>[1] = <<b>>[1]
    BY <1>1
  <2>. QED  BY <2>1
<1>2. ASSUME NEW a PROVE <<a>> # <<>>
  OBVIOUS
<1>3. ASSUME NEW a, NEW b, NEW c PROVE <<a>> # <<b, c>>
  OBVIOUS
<1>. QED  BY <1>1, <1>2, <1>3

\* A first report is the one whose consequences count, a second has none.
LEMMA ReportConcludes ==
  ASSUME outcome' = "nothing" => peer' = "closing",
         \/ reasons' = <<>>
         \/ \E b, c : reasons' = <<b, c>>
         \/ \E reason \in Reasons : reasons' = <<reason>> /\ Settles(reason)'
  PROVE  Concluded'
BY OneReasonEach DEF Concluded

\* Without a new report, what is reported is a reason that allows the step.
LEMMA SameReport ==
  ASSUME OInv, UNCHANGED reasons,
         outcome' = "nothing" => peer' = "closing",
         \A reason \in Reasons : Settles(reason) => Settles(reason)'
  PROVE  Concluded'
BY DEF OInv, Concluded

\* While nothing has been reported, or nothing that matters, the step is free.
LEMMA FreeStep ==
  ASSUME PInv, OInv, UNCHANGED reasons,
         step \notin {"tags", "done", "threw"} \/ peer # "closing",
         outcome' = "nothing" => peer' = "closing"
  PROVE  Concluded'
<1>1. CASE step \notin {"tags", "done", "threw"}
  <2>1. ASSUME NEW reason \in Reasons, Settles(reason) PROVE reason = "SELF_CLOSE"
    BY <1>1, <2>1 DEF Settles, Reasons
  <2>2. Settles("SELF_CLOSE")'
    BY DEF Settles
  <2>. QED  BY <2>1, <2>2, SameReport
<1>2. CASE peer # "closing"
  <2>1. reasons' = <<>>
    BY <1>2 DEF PInv, ReportsWhenClosing
  <2>. QED  BY <2>1, ReportConcludes
<1>. QED  BY <1>1, <1>2

\* What close(reason) leaves behind.
LEMMA CloseCourse ==
  ASSUME PInv, NEW s, NEW reason \in Reasons, CloseWith(reason, s)
  PROVE  /\ peer' = "closing" /\ closing'
         /\ \/ peer = "closing" /\ UNCHANGED <<watching, entered, reasons>>
            \/ peer # "closing" /\ ~watching' /\ reasons' = <<reason>>
<1>1. CASE Reported
  BY <1>1 DEF CloseWith, Reported, PInv, PeerTypes, ReportsWhenClosing
<1>2. CASE ~Reported
  BY <1>2, ShiftReports DEF CloseWith, Reported
<1>. QED  BY <1>1, <1>2

\* Meeting the distant peer: the promise resolves, and the peer is connected or
\* was closed meanwhile, when the shift throws.
LEMMA JoinCourse ==
  ASSUME PInv, OInv, step \in {"request", "tags", "conn"}, NEW s, Met(s) \/ Join(s),
         UNCHANGED <<closing, reasons>>
  PROVE  OInv'
<1>1. outcome = "none" /\ peer \in {"connectingToPeer", "closing"}
  BY DEF OInv, Course, Following
<1>2. closing => peer = "closing"
  BY DEF PInv, ReportsWhenClosing
<1>3. CASE /\ step' = IF closing THEN "done" ELSE "conn"
           /\ UNCHANGED <<peer, watching, entered, outcome>>
  <2>1. Course'
    BY <1>1, <1>2, <1>3 DEF OInv, Course, Following
  <2>2. \A reason \in Reasons : Settles(reason) => Settles(reason)'
    BY <1>1, <1>3 DEF Settles
  <2>. QED  BY <1>1, <1>3, <2>1, <2>2, SameReport DEF OInv
<1>4. CASE Met(s) /\ peer = "connectingToPeer"
  <2>1. /\ outcome' = "session" /\ peer' = "connectedToPeer" /\ watching' = FALSE
        /\ entered' = ~HeldUp(s)
        /\ step' = IF HeldUp(s) THEN "leaving" ELSE "done"
    BY <1>1, <1>4 DEF Met, Resolved
  <2>2. Course'
    BY <2>1 DEF Course, Following
  <2>3. Concluded'
    BY <1>4, <2>1, FreeStep
  <2>. QED  BY <2>2, <2>3 DEF OInv
<1>5. CASE Met(s) /\ peer = "closing"
  <2>1. /\ outcome' = "session" /\ step' = "threw"
        /\ UNCHANGED <<peer, watching, entered>>
    BY <1>1, <1>5 DEF Met, Resolved
  <2>2. Course'
    BY <1>5, <2>1 DEF OInv, Course, Following
  <2>3. \A reason \in Reasons : Settles(reason) => Settles(reason)'
    BY <1>1, <2>1 DEF Settles
  <2>. QED  BY <2>1, <2>2, <2>3, SameReport DEF OInv
<1>. QED  BY <1>1, <1>3, <1>4, <1>5 DEF Join

\* A step that closes with a reason, the coroutine being at an end or in the vault.
LEMMA CloseConcludes ==
  ASSUME PInv, OInv, NEW s, NEW reason \in Reasons, CloseWith(reason, s),
         step' = "leaving" => outcome' = "session",
         step' \in Following => outcome' = "none",
         step' = "keys" => step = "keys",
         peer # "closing" => Settles(reason)',
         peer = "closing" => \A r \in Reasons : Settles(r) => Settles(r)'
  PROVE  OInv'
<1>1. /\ peer' = "closing" /\ closing'
      /\ \/ peer = "closing" /\ UNCHANGED <<watching, entered, reasons>>
         \/ peer # "closing" /\ ~watching' /\ reasons' = <<reason>>
  BY CloseCourse
<1>2. Course'
  BY <1>1 DEF OInv, Course
<1>3. Concluded'
  <2>1. CASE peer = "closing"
    BY <1>1, <2>1, SameReport
  <2>2. CASE peer # "closing"
    BY <1>1, <2>2, ReportConcludes
  <2>. QED  BY <2>1, <2>2
<1>. QED  BY <1>2, <1>3 DEF OInv

\* The end of the relay phase.
LEMMA ReachCourse ==
  ASSUME PInv, OInv, NEW s, NEW connected \in BOOLEAN, ReachedRelay(s, connected),
         step = "relay", UNCHANGED <<closing, outcome>>
  PROVE  OInv'
<1>1. /\ outcome = "none" /\ ~watching /\ entered
      /\ \/ peer = "connectingToRelay" /\ ~closing
         \/ peer = "closing" /\ reasons = <<"SELF_CLOSE">>
  BY DEF OInv, Course, Following, PInv, EarlyClosesItself, IdleIsFresh, Early,
         ReportsWhenClosing
<1>2. CASE connected /\ peer = "connectingToRelay"
  <2>1. /\ peer' = "connectingToPeer" /\ UNCHANGED <<entered, reasons>>
        /\ IF encrypt THEN step' = "keys" /\ UNCHANGED watching ELSE Ask(s)
    BY <1>2 DEF ReachedRelay
  <2>2. Ask(s) => step' \in {"threw", "request"}
    <3>1. Ask(s) => step' = CASE s[Relay] # "connected" -> "threw"
                              [] closing -> "done"
                              [] OTHER -> "request"
      BY DEF Ask
    <3>2. ~closing
      BY <1>1, <1>2
    <3>. QED  BY <3>1, <3>2, Zenon
  <2>3. step' \in {"keys", "threw", "request"} /\ (step' = "keys" => ~watching')
    BY <1>1, <2>1, <2>2
  <2>4. Course'
    BY <1>1, <2>1, <2>3 DEF Course, Following
  <2>5. Concluded'
    BY <1>1, <1>2, <2>1, FreeStep
  <2>. QED  BY <2>4, <2>5 DEF OInv
<1>3. CASE connected /\ peer # "connectingToRelay"
  <2>1. step' = "threw" /\ UNCHANGED <<peer, watching, entered, reasons>>
    BY <1>3 DEF ReachedRelay
  <2>2. Course'
    BY <1>1, <1>3, <2>1 DEF Course, Following
  <2>3. Concluded'
    BY <1>1, <2>1, FreeStep
  <2>. QED  BY <2>2, <2>3 DEF OInv
<1>4. CASE ~connected /\ peer = "closing"
  <2>1. /\ reasons' = Append(reasons, "RELAY_UNAVAILABLE")
        /\ step' = "done" /\ UNCHANGED <<peer, watching, entered>>
    BY <1>4, Zenon DEF ReachedRelay
  <2>2. reasons' = <<"SELF_CLOSE", "RELAY_UNAVAILABLE">>
    BY <1>1, <1>4, <2>1, TwoReasons
  <2>3. Course'
    BY <1>1, <1>4, <2>1 DEF Course, Following
  <2>4. Concluded'
    BY <1>1, <2>2, ReportConcludes
  <2>. QED  BY <2>3, <2>4 DEF OInv
<1>5. CASE ~connected /\ peer # "closing"
  <2>1. /\ ToClosing(s) /\ step' = "done"
        /\ reasons' = Append(reasons, "RELAY_UNAVAILABLE")
    BY <1>5 DEF ReachedRelay
  <2>2. /\ peer' = "closing" /\ watching' = FALSE
        /\ reasons' = <<"RELAY_UNAVAILABLE">>
    BY <1>5, <2>1, ShiftReports DEF Reasons
  <2>3. Course'
    BY <1>1, <2>1, <2>2 DEF Course, Following
  <2>4. Settles("RELAY_UNAVAILABLE")'
    BY <1>1, <2>1 DEF Settles
  <2>5. Concluded'
    BY <1>1, <2>2, <2>4, ReportConcludes DEF Reasons
  <2>. QED  BY <2>3, <2>5 DEF OInv
<1>. QED  BY <1>2, <1>3, <1>4, <1>5

\* Every step keeps the course of the attempt.
LEMMA OInvKept == ASSUME PInv, OInv, [Next]_vars PROVE OInv'
<1>0. /\ step \in Following => outcome = "none"
      /\ peer \notin {"closing"} => ~closing /\ reasons = <<>>
  BY DEF OInv, Course, PInv, ReportsWhenClosing
<1>1. CASE UNCHANGED vars \/ TransceiverStep
  <2>1. UNCHANGED <<peer, step, watching, entered, closing, outcome, reasons>>
    BY <1>1 DEF vars, peerVars, TransceiverStep, Alone
  <2>. QED  BY <2>1 DEF OInv, Course, Concluded, Settles
<1>2. CASE Start
  <2>1. /\ peer = "idle" /\ peer' = "connectingToRelay" /\ step' = "listen"
        /\ UNCHANGED <<watching, entered, closing, outcome, reasons>>
    BY <1>2 DEF Start
  <2>2. Course'
    BY <2>1 DEF OInv, Course, Following, PInv, IdleIsFresh
  <2>. QED  BY <1>0, <2>1, <2>2, ReportConcludes DEF OInv, Course, Concluded
<1>3. CASE ListenEnds
  <2>1. /\ step = "listen" /\ step' \in {"relay", "threw"}
        /\ UNCHANGED <<peer, watching, entered, closing, outcome, reasons>>
    BY <1>3 DEF ListenEnds
  <2>2. peer \in {"connectingToRelay", "closing"} /\ ~watching /\ entered
    BY <2>1 DEF PInv, IdleIsFresh, EarlyClosesItself, Early
  <2>3. Course'
    BY <1>0, <2>1, <2>2 DEF Course, Following
  <2>. QED  BY <1>0, <2>1, <2>3, FreeStep DEF OInv, Following
<1>4. CASE KeysRead
  <2>1. /\ step = "keys" /\ UNCHANGED <<peer, entered, closing, outcome, reasons>>
        /\ step' \in {"threw", "done", "request"}
        /\ step' = "done" => closing
    <3>1. CASE Ask(sess)
      <4>1. step' = CASE sess[Relay] # "connected" -> "threw"
                      [] closing -> "done"
                      [] OTHER -> "request"
        BY <3>1 DEF Ask
      <4>2. step' \in {"threw", "done", "request"} /\ (step' = "done" => closing)
        BY <4>1, Zenon
      <4>. QED  BY <1>4, <4>2 DEF KeysRead
    <3>. QED  BY <1>4, <3>1 DEF KeysRead
  <2>2. Course'
    BY <1>0, <2>1 DEF OInv, Course, Following
  <2>. QED  BY <1>0, <2>1, <2>2, FreeStep DEF OInv, Following
<1>5. CASE RelayMatches
  <2>1. UNCHANGED <<peer, step, watching, entered, closing, outcome, reasons>>
    BY <1>5 DEF RelayMatches
  <2>. QED  BY <2>1 DEF OInv, Course, Concluded, Settles
<1>6. ASSUME NEW s, NEW reason \in {"SELF_CLOSE", "RELAY_CLOSE"}, CloseWith(reason, s),
             reason = "RELAY_CLOSE" => watching,
             step' = Interrupted, UNCHANGED outcome
      PROVE  OInv'
  <2>1. reason \in Reasons /\ closing'
    BY <1>6 DEF Reasons, CloseWith
  <2>2. /\ step' = "leaving" => outcome' = "session"
        /\ step' \in Following => outcome' = "none"
        /\ step' = "keys" => step = "keys"
    BY <1>6 DEF Interrupted, OInv, Course, Following
  <2>3. peer # "closing" => Settles(reason)'
    <3>. SUFFICES ASSUME peer # "closing", reason = "RELAY_CLOSE" PROVE Settles(reason)'
      BY <1>6 DEF Settles
    <3>1. outcome = "none" /\ step \in {"request", "tags", "conn", "threw"}
      BY <1>6 DEF OInv, Course
    <3>. QED  BY <1>6, <2>1, <3>1 DEF Settles, Interrupted
  <2>4. \A r \in Reasons : Settles(r) => Settles(r)'
    BY <1>6, <2>1 DEF Settles, Interrupted
  <2>. QED  BY <1>6, <2>1, <2>2, <2>3, <2>4, CloseConcludes
<1>7. CASE ApplicationCloses
  BY <1>6, <1>7 DEF ApplicationCloses
<1>8. ASSUME NEW agreed \in BOOLEAN, Introduction(agreed) PROVE OInv'
  <2>1. step = "request" /\ outcome = "none"
    BY <1>0, <1>8 DEF Introduction, Following
  <2>2. CASE agreed /\ encrypt
    <3>1. /\ step' = "tags"
          /\ UNCHANGED <<peer, watching, entered, closing, outcome, reasons>>
      BY <1>8, <2>2 DEF Introduction
    <3>2. Course'
      BY <2>1, <3>1 DEF OInv, Course, Following
    <3>. QED  BY <2>1, <3>1, <3>2, FreeStep DEF OInv
  <2>3. CASE agreed /\ ~encrypt
    BY <1>8, <2>1, <2>3, JoinCourse DEF Introduction
  <2>4. CASE ~agreed
    <3>1. /\ outcome' = "nothing" /\ step' = "done"
          /\ CloseWith("NEGOTIATION_FAILURE", sess)
      BY <1>8, <2>1, <2>4 DEF Introduction, Resolved
    <3>2. Settles("NEGOTIATION_FAILURE")'
      BY <3>1 DEF Settles
    <3>3. \A r \in Reasons : Settles(r) => Settles(r)'
      BY <2>1 DEF Settles, Reasons
    <3>. QED  BY <3>1, <3>2, <3>3, CloseConcludes DEF Following, Reasons
  <2>. QED  BY <2>2, <2>3, <2>4
<1>9. ASSUME NEW answer \in Answers, TagsRead(answer) PROVE OInv'
  <2>1. step = "tags" /\ outcome = "none"
    BY <1>0, <1>9 DEF TagsRead, Following
  <2>2. CASE answer = "trusted"
    BY <1>9, <2>1, <2>2, JoinCourse DEF TagsRead
  <2>3. CASE answer = "changed"
    <3>1. step' = "done" /\ outcome' = outcome /\ CloseWith("PUBLIC_KEY_MISMATCH", sess)
      BY <1>9, <2>3 DEF TagsRead
    <3>2. closing'
      BY <3>1 DEF CloseWith
    <3>3. Settles("PUBLIC_KEY_MISMATCH")'
      BY <2>1, <3>1 DEF Settles
    <3>4. \A r \in Reasons : Settles(r) => Settles(r)'
      BY <2>1, <3>1, <3>2 DEF Settles
    <3>. QED  BY <2>1, <3>1, <3>3, <3>4, CloseConcludes DEF Following, Reasons
  <2>4. CASE answer = "unusable"
    <3>1. /\ outcome' = "nothing" /\ step' = "done"
          /\ CloseWith("NEGOTIATION_FAILURE", sess)
      BY <1>9, <2>1, <2>4 DEF TagsRead, Resolved
    <3>2. closing'
      BY <3>1 DEF CloseWith
    <3>3. Settles("NEGOTIATION_FAILURE")'
      BY <3>1 DEF Settles
    <3>4. \A r \in Reasons : Settles(r) => Settles(r)'
      BY <2>1, <3>1, <3>2 DEF Settles
    <3>. QED  BY <3>1, <3>3, <3>4, CloseConcludes DEF Following, Reasons
  <2>. QED  BY <2>2, <2>3, <2>4 DEF Answers
<1>10. ASSUME NEW a \in Addrs, SessionConnects(a) PROVE OInv'
  <2>. DEFINE s == WithConnected(a)
  <2>1. UNCHANGED closing
    BY <1>10 DEF SessionConnects
  <2>. HIDE DEF s
  <2>2. CASE step = "relay" /\ ReachedRelay(s, TRUE) /\ UNCHANGED outcome
    BY <2>1, <2>2, ReachCourse
  <2>3. CASE step = "conn" /\ Met(s) /\ UNCHANGED reasons
    BY <2>1, <2>3, JoinCourse
  <2>4. CASE UNCHANGED <<peer, step, watching, entered, outcome, reasons>>
    BY <2>1, <2>4 DEF OInv, Course, Concluded, Settles
  <2>. QED  BY <1>10, <2>2, <2>3, <2>4 DEF SessionConnects, s
<1>11. ASSUME NEW a \in Addrs, SessionEnds(a) PROVE OInv'
  <2>. DEFINE s == WithClosed(a)
  <2>1. UNCHANGED outcome
    BY <1>11 DEF SessionEnds
  <2>. HIDE DEF s
  <2>2. CASE EndsRelayPhase(a) /\ ReachedRelay(s, isConnected) /\ UNCHANGED closing
    <3>1. step = "relay" /\ isConnected \in BOOLEAN
      BY <2>2 DEF EndsRelayPhase, PInv, PeerTypes
    <3>. QED  BY <2>1, <2>2, <3>1, ReachCourse
  <2>3. CASE /\ EndsExit(a) /\ entered' = TRUE
             /\ IF peer = "closing" THEN UNCHANGED step ELSE step' = "done"
             /\ UNCHANGED <<peer, watching, closing, reasons>>
    <3>1. peer = "closing" \/ (peer = "connectedToPeer" /\ outcome = "session")
      BY <2>3 DEF EndsExit, OInv, Course
    <3>2. Course'
      BY <2>1, <2>3, <3>1 DEF OInv, Course, Following
    <3>3. Concluded'
      <4>1. CASE peer = "closing"
        BY <2>1, <2>3, <4>1 DEF OInv, Concluded, Settles
      <4>2. CASE peer # "closing"
        BY <1>0, <2>1, <2>3, <3>1, <4>2, ReportConcludes
      <4>. QED  BY <4>1, <4>2
    <3>. QED  BY <3>2, <3>3 DEF OInv
  <2>4. CASE /\ EndsPeering(a) /\ reasons' = Append(reasons, "DISTANT_CLOSE")
             /\ ToClosing(s) /\ UNCHANGED <<step, closing>>
    <3>1. peer = "connectedToPeer" /\ outcome = "session" /\ step = "done"
      BY <2>4 DEF EndsPeering, OInv, Course
    <3>2. peer' = "closing" /\ ~watching' /\ reasons' = <<"DISTANT_CLOSE">>
      BY <2>4, <3>1, ShiftReports DEF Reasons
    <3>3. Course'
      BY <2>1, <2>4, <3>1, <3>2 DEF Course, Following
    <3>4. Settles("DISTANT_CLOSE")'
      BY <2>1, <2>4, <3>1 DEF Settles
    <3>. QED  BY <3>2, <3>3, <3>4, ReportConcludes DEF OInv, Reasons
  <2>5. CASE watching /\ CloseWith("RELAY_CLOSE", s) /\ step' = Interrupted
    BY <1>6, <2>1, <2>5
  <2>6. CASE UNCHANGED <<peer, step, watching, entered, closing, reasons>>
    BY <2>1, <2>6 DEF OInv, Course, Concluded, Settles
  <2>. QED  BY <1>11, <2>2, <2>3, <2>4, <2>5, <2>6 DEF SessionEnds, s
<1>. QED
  BY <1>1, <1>2, <1>3, <1>4, <1>5, <1>7, <1>8, <1>9, <1>10, <1>11 DEF Next

\* The course holds at first, and so always.
LEMMA CourseAlways == Spec => [](TInv /\ PInv /\ OInv)
<1>1. Init => OInv
  <2>. SUFFICES ASSUME Init PROVE OInv
    OBVIOUS
  <2>1. Course
    BY DEF Init, Course, Following
  <2>2. Concluded
    BY OneReasonEach DEF Init, Concluded
  <2>. QED  BY <2>1, <2>2 DEF OInv
<1>2. PInv /\ OInv /\ [Next]_vars => OInv'
  BY OInvKept
<1>. QED  BY <1>1, <1>2, InvAlways, PTL DEF Spec

\* What the application gets agrees with what its peer reports: no session after
\* the relay or the distant key failed, undefined after a failed negotiation and
\* only from a peer that closes, a session before a distant peer can close it;
\* whatever close(), the sessions and the vault do between the awaits.
THEOREM OutcomeAgrees == Spec => []OutcomeMatchesReason
<1>1. PInv /\ OInv => OutcomeMatchesReason
  <2>. SUFFICES ASSUME PInv, OInv PROVE OutcomeMatchesReason
    OBVIOUS
  <2>1. Request = "nothing" => reasons # <<>>
    <3>1. Request = "nothing" => peer = "closing"
      BY DEF Request, OInv, Concluded
    <3>. QED  BY <3>1, OneReasonEach DEF PInv, ReportsWhenClosing
  <2>2. ASSUME NEW reason \in Reasons, reasons = <<reason>> PROVE OutcomeMatchesReason
    <3>1. Head(reasons) = reason /\ Settles(reason)
      BY <2>2 DEF OInv, Concluded
    <3>. QED  BY <2>1, <3>1 DEF OutcomeMatchesReason, Settles, Request
  <2>3. CASE reasons = <<"SELF_CLOSE", "RELAY_UNAVAILABLE">>
    BY <2>1, <2>3 DEF OutcomeMatchesReason
  <2>4. CASE reasons = <<>>
    BY <2>1, <2>4 DEF OutcomeMatchesReason
  <2>. QED  BY <2>2, <2>3, <2>4 DEF PInv, ReportsWhenClosing
<1>. QED  BY <1>1, CourseAlways, PTL

-----------------------------------------------------------------------------
(***************************************************************************)
(* The session of a connected peer.  connect() throws for three reasons    *)
(* while the peer is not yet connected; only one of them, that the distant *)
(* peer has connected first, leaves it with a session.                     *)
(***************************************************************************)

\* If the library does not wait, every shift gets to onEnter, whose listener
\* hears the session's end; and past "idle" the transceiver is listening.
Attended == /\ ~waits => entered
            /\ peer \notin {"idle", "closing"} => state # "idle"
            /\ ConnectedHasSession

\* An operation of the application closes sessions; it does not take them away.
LEMMA OperatesHolds ==
  ASSUME NEW s, Passes(s), Operates(s), NEW a \in Addrs, s[a] # "none"
  PROVE  sess'[a] # "none"
BY DEF Passes, Operates, Stays, ConnectTo, CloseSession, Close, CleanUp, InMap, Open

\* A clean-up once begun is never undone, and a transceiver is idle only at first.
LEMMA OperatesForward ==
  ASSUME NEW s, Operates(s)
  PROVE  (cleanup' = "none" => cleanup = "none") /\ (state' = "idle" => state = "idle")
BY DEF Operates, Stays, ConnectTo, CloseSession, Close, CleanUp

\* The same of the events the application takes no part in, which take away no
\* session either.
LEMMA EventForward ==
  ASSUME TInv,
         \/ SessionsDone \/ SocketClosed \/ SocketFails \/ Listen \/ BindFails
         \/ \E a \in Addrs : Closes(a) \/ Hello(a)
  PROVE  /\ cleanup' = "none" => cleanup = "none"
         /\ state' = "idle" => state = "idle"
         /\ \A a \in Addrs : sess[a] # "none" => sess'[a] # "none"
BY DEF TInv, TransceiverTypeOK, SessionsDone, SocketClosed, Cleaned, End, SocketFails,
  CleanUp, InMap, Open, Listen, BindFails, ListenRejects, Closes, Hello, Hears

\* A peer that becomes connected without a connection of its own making has the
\* one that the distant peer made: with room for two sessions, nothing else makes
\* connect() throw before a clean-up.
LEMMA JoinedHasSession ==
  ASSUME MaxSessions > 1, TInv, Attended, NEW s, Passes(s), Join(s),
         peer \in {"connectingToPeer", "closing"},
         peer' = "connectedToPeer", cleanup' = "none"
  PROVE  sess'[Distant] # "none"
<1>1. Relay \in Addrs /\ Distant \in Addrs /\ Relay # Distant
      /\ \A a \in Addrs : a = Relay \/ a = Distant
  BY PeerAssumption
<1>2. ~CanConnect(Distant, s) /\ Met(s)
  BY DEF Join
<1>3. peer = "connectingToPeer" /\ CloseSession(Relay, s)
  BY <1>2 DEF Met
<1>4. sess'[Distant] = s[Distant] /\ cleanup = "none"
  BY <1>1, <1>3 DEF CloseSession, Stays, Passes
<1>5. state = "listening"
  BY <1>3, <1>4 DEF TInv, BeforeCleanUp, InStep, Attended
<1>6. s[Distant] = "none" => Cardinality(Open(s)) < MaxSessions
  <2>. SUFFICES ASSUME s[Distant] = "none" PROVE Cardinality(Open(s)) < MaxSessions
    OBVIOUS
  <2>1. Open(s) \in SUBSET {Relay}
    BY <1>1 DEF Open
  <2>2. IsFiniteSet({Relay}) /\ Cardinality({Relay}) = 1
    BY FS_Singleton
  <2>3. IsFiniteSet(Open(s)) /\ Cardinality(Open(s)) <= 1
    BY <2>1, <2>2, FS_Subset
  <2>4. Cardinality(Open(s)) \in Nat /\ MaxSessions \in Nat
    BY <2>3, FS_CardinalityType, TransceiverAssumption
  <2>. QED  BY <2>3, <2>4
<1>. QED  BY <1>2, <1>4, <1>5, <1>6 DEF CanConnect

\* An operation keeps this, if a connected peer has its session after the event
\* and a peer that becomes connected gets one.
LEMMA HandlerAttends ==
  ASSUME Attended, NEW s, Passes(s), Operates(s), UNCHANGED waits, ~waits => entered',
         \/ peer' = "closing"
         \/ peer' = peer /\ (peer = "connectedToPeer" => s[Distant] # "none")
         \/ /\ peer \notin {"idle", "closing"}
            /\ (peer' = "connectedToPeer" /\ cleanup' = "none")
                 => sess'[Distant] # "none"
  PROVE  Attended'
<1>1. Distant \in Addrs
  BY PeerAssumption
<1>2. /\ cleanup' = "none" => cleanup = "none"
      /\ state' = "idle" => state = "idle"
  BY OperatesForward
<1>3. s[Distant] # "none" => sess'[Distant] # "none"
  BY <1>1, OperatesHolds
<1>. QED  BY <1>2, <1>3 DEF Attended, ConnectedHasSession

\* Meeting, or joining, ends with a session or with no connected peer.
LEMMA JoinAttends ==
  ASSUME MaxSessions > 1, TInv, PInv, Attended, UNCHANGED <<socket, listen, waits>>,
         Join(sess), peer \in {"connectingToPeer", "closing"}
  PROVE  Attended'
<1>1. Passes(sess) /\ Operates(sess)
  BY EventsPass, HandlersOperate
<1>2. ~waits => entered'
  BY DEF Join, Met, HeldUp, Attended
<1>3. \/ peer' = peer
      \/ peer = "connectingToPeer" /\ peer' = "connectedToPeer"
  BY DEF Join, Met
<1>4. peer' = "connectedToPeer" /\ cleanup' = "none" => sess'[Distant] # "none"
  BY <1>1, JoinedHasSession
<1>. QED  BY <1>1, <1>2, <1>3, <1>4, HandlerAttends

\* close(reason) shifts to closing, or finds the peer closing.
LEMMA CloseAttends ==
  ASSUME TInv, PInv, Attended, UNCHANGED <<socket, listen, waits>>,
         NEW s, Passes(s), NEW reason \in Reasons, CloseWith(reason, s)
  PROVE  Attended'
<1>1. Operates(s)
  BY HandlersOperate
<1>2. peer' = "closing" /\ (~waits => entered')
  BY CloseReports DEF CloseWith, ToClosing, HeldUp, Attended
<1>. QED  BY <1>1, <1>2, HandlerAttends

\* The end of the relay phase is not yet a connection.
LEMMA ReachAttends ==
  ASSUME TInv, PInv, Attended, UNCHANGED <<socket, listen, waits>>,
         NEW s, Passes(s), NEW connected \in BOOLEAN, ReachedRelay(s, connected),
         step = "relay"
  PROVE  Attended'
<1>1. Operates(s)
  BY HandlersOperate
<1>2. ~waits => entered'
  BY DEF ReachedRelay, ToClosing, HeldUp, Attended
<1>3. peer \in {"connectingToRelay", "closing"}
  BY DEF PInv, EarlyClosesItself, IdleIsFresh, Early
<1>4. \/ peer' = "closing" \/ peer' = peer
      \/ peer = "connectingToRelay" /\ peer' = "connectingToPeer"
  BY DEF ReachedRelay, ToClosing
<1>. QED  BY <1>1, <1>2, <1>3, <1>4, HandlerAttends

\* Every step keeps it.
LEMMA AttendedKept ==
  ASSUME MaxSessions > 1, TInv, PInv, Course, Attended, [Next]_vars
  PROVE  Attended'
<1>0. /\ Relay \in Addrs /\ Distant \in Addrs /\ Relay # Distant
      /\ Passes(sess)
      /\ UNCHANGED waits
  BY PeerAssumption, EventsPass DEF Next, mode, vars
<1>1. ASSUME UNCHANGED <<peer, entered>>,
             cleanup' = "none" => cleanup = "none",
             state' = "idle" => state = "idle",
             sess[Distant] # "none" => sess'[Distant] # "none"
      PROVE  Attended'
  BY <1>0, <1>1 DEF Attended, ConnectedHasSession
<1>2. CASE UNCHANGED vars \/ KeysRead \/ RelayMatches
  BY <1>1, <1>2 DEF vars, KeysRead, RelayMatches, transceiver, peerVars
<1>3. CASE TransceiverStep
  BY <1>0, <1>1, <1>3, EventForward DEF TransceiverStep, Alone, peerVars
<1>4. CASE Start
  BY <1>0, <1>4 DEF Start, Listen, Attended, ConnectedHasSession
<1>5. CASE ListenEnds
  <2>1. /\ cleanup' = "none" => cleanup = "none"
        /\ state' = "idle" => state = "idle"
        /\ sess[Distant] # "none" => sess'[Distant] # "none"
    <3>1. CASE BindFails
      BY <1>0, <3>1, EventForward
    <3>2. CASE ConnectTo(Relay, sess) \/ CloseWhenBound
      BY <1>0, <3>2 DEF ConnectTo, Stays, CloseWhenBound, CleanUp, InMap, Open, Passes
    <3>. QED  BY <1>5, <3>1, <3>2 DEF ListenEnds
  <2>. QED  BY <1>1, <1>5, <2>1 DEF ListenEnds
<1>6. CASE ApplicationCloses
  <2>1. CloseWith("SELF_CLOSE", sess) /\ UNCHANGED <<socket, listen>>
    BY <1>6 DEF ApplicationCloses
  <2>. QED  BY <1>0, <2>1, CloseAttends DEF Reasons
<1>7. ASSUME UNCHANGED <<socket, listen>>,
             step \in {"request", "tags"},
             \/ Stays(sess) /\ UNCHANGED <<peer, entered>>
             \/ Join(sess)
             \/ \E reason \in Reasons : CloseWith(reason, sess)
      PROVE  Attended'
  <2>1. CASE Stays(sess) /\ UNCHANGED <<peer, entered>>
    BY <1>1, <2>1 DEF Stays
  <2>2. CASE Join(sess)
    BY <1>0, <1>7, <2>2, JoinAttends DEF Course
  <2>. QED  BY <1>0, <1>7, <2>1, <2>2, CloseAttends
<1>8. ASSUME NEW agreed \in BOOLEAN, Introduction(agreed) PROVE Attended'
  BY <1>7, <1>8 DEF Introduction, Reasons
<1>9. ASSUME NEW answer \in Answers, TagsRead(answer) PROVE Attended'
  BY <1>7, <1>9 DEF TagsRead, Reasons
<1>10. ASSUME NEW a \in Addrs, SessionConnects(a) PROVE Attended'
  <2>. DEFINE s == WithConnected(a)
  <2>1. /\ UNCHANGED <<socket, listen>> /\ Passes(s)
        /\ \A b \in Addrs : sess[b] # "none" => s[b] # "none"
        /\ a = Distant => s[Distant] # "none"
    BY <1>0, <1>10, EventsPass DEF SessionConnects, Connected, WithConnected, Passes
  <2>. HIDE DEF s
  <2>2. CASE step = "relay" /\ ReachedRelay(s, TRUE)
    BY <1>0, <2>1, <2>2, ReachAttends
  <2>3. CASE step = "conn" /\ a = Distant /\ Met(s)
    <3>1. Operates(s)
      BY <2>1, <2>3, HandlersOperate
    <3>2. sess'[Distant] # "none"
      BY <1>0, <2>1, <2>3, <3>1, OperatesHolds
    <3>3. peer' = peer \/ peer = "connectingToPeer"
      BY <2>3 DEF Met
    <3>4. ~waits => entered'
      BY <2>3 DEF Met, HeldUp, Attended
    <3>. QED  BY <1>0, <2>1, <2>3, <3>1, <3>2, <3>3, <3>4, HandlerAttends
  <2>4. CASE Stays(s) /\ UNCHANGED <<peer, entered>>
    BY <1>0, <1>1, <2>1, <2>4 DEF Stays
  <2>. QED  BY <1>10, <2>2, <2>3, <2>4 DEF SessionConnects, s
<1>11. ASSUME NEW a \in Addrs, SessionEnds(a) PROVE Attended'
  <2>. DEFINE s == WithClosed(a)
  <2>1. /\ UNCHANGED <<socket, listen>> /\ Passes(s)
        /\ a = Relay => s[Distant] = sess[Distant]
        /\ a = Relay \/ a = Distant
    BY <1>0, <1>11, EventsPass, PeerAssumption
       DEF SessionEnds, Closed, WithClosed, Passes
  <2>. HIDE DEF s
  <2>2. CASE EndsRelayPhase(a) /\ ReachedRelay(s, isConnected)
    <3>1. step = "relay" /\ isConnected \in BOOLEAN
      BY <2>2 DEF EndsRelayPhase, PInv, PeerTypes
    <3>. QED  BY <1>0, <2>1, <2>2, <3>1, ReachAttends
  <2>3. CASE /\ EndsExit(a) /\ entered' = TRUE /\ UNCHANGED peer
             /\ Close(s) \/ Stays(s)
    <3>1. Operates(s)
      BY <2>1, <2>3, HandlersOperate
    <3>2. waits' /\ (state' = "idle" => state = "idle")
      BY <1>0, <2>3, <3>1, OperatesForward DEF EndsExit, Attended
    <3>. QED  BY <2>3, <3>2 DEF Attended, ConnectedHasSession
  <2>4. CASE EndsPeering(a) /\ ToClosing(s)
    <3>1. Operates(s) /\ peer' = "closing" /\ (~waits => entered')
      BY <2>1, <2>4, HandlersOperate DEF ToClosing, HeldUp
    <3>. QED  BY <1>0, <2>1, <3>1, HandlerAttends
  <2>5. CASE CloseWith("RELAY_CLOSE", s)
    BY <1>0, <2>1, <2>5, CloseAttends DEF Reasons
  <2>6. CASE ~EndsPeering(a) /\ Stays(s) /\ UNCHANGED <<peer, entered>>
    <3>1. /\ UNCHANGED <<state, cleanup>> /\ sess' = s
      BY <2>6 DEF Stays
    <3>2. CASE a = Relay
      BY <1>1, <2>1, <2>6, <3>1, <3>2
    <3>3. CASE a = Distant
      BY <1>0, <2>6, <3>1, <3>3 DEF EndsPeering, Attended, ConnectedHasSession
    <3>. QED  BY <2>1, <3>2, <3>3
  <2>. QED  BY <1>11, <2>2, <2>3, <2>4, <2>5, <2>6 DEF SessionEnds, s
<1>. QED
  BY <1>2, <1>3, <1>4, <1>5, <1>6, <1>8, <1>9, <1>10, <1>11 DEF Next
\* With room for two sessions, a peer that calls itself connected has a session
\* with the distant peer as long as its transceiver lives: the error of connect()
\* that goes unnoticed is the harmless one, and no ending of the session is missed
\* if the library does not wait for onExit.
THEOREM ConnectedIsBackedBySession ==
  MaxSessions > 1 => (Spec => []ConnectedHasSession)
<1>. SUFFICES ASSUME MaxSessions > 1 PROVE Spec => []ConnectedHasSession
  OBVIOUS
<1>1. Init => Attended
  BY DEF Init, Attended, ConnectedHasSession
<1>2. TInv /\ PInv /\ OInv /\ Attended /\ [Next]_vars => Attended'
  BY AttendedKept DEF OInv
<1>3. Attended => ConnectedHasSession
  BY DEF Attended
<1>. QED  BY <1>1, <1>2, <1>3, CourseAlways, PTL DEF Spec

-----------------------------------------------------------------------------
(***************************************************************************)
(* The end of a transceiver.                                               *)
(***************************************************************************)

\* Once its clean-up has settled, a transceiver is over: no HELLO, connect() or
\* close(), no late answer and no handler opens a session again, moves the state
\* or settles a promise a second time.
Ended ==
  Settled => UNCHANGED <<state, listen, cleanup>> /\ Open(sess') = {}

EndsForGood == [][Ended]_vars

\* No event but those of the application's handlers happens to it.
LEMMA EventEnds ==
  ASSUME TInv, Settled,
         \/ SessionsDone \/ SocketClosed \/ SocketFails \/ Listen \/ BindFails
         \/ \E a \in Addrs : Closes(a) \/ Hello(a)
  PROVE  FALSE
<1>1. /\ cleanup \in {"resolved", "rejected"} /\ state \in {"closed", "error"}
      /\ socket # "binding"
  BY DEF TInv, AfterCleanUp, BeforeCleanUp, Settled
<1>2. \A a \in Addrs : sess[a] = "none"
  BY DEF TInv, DuringCleanUp, Settled, Open
<1>. QED
  BY <1>1, <1>2 DEF SessionsDone, SocketClosed, SocketFails, Hears, Listen, BindFails,
    Closes, Hello

\* Nor can a handler do anything to it.
LEMMA OperatesEnds ==
  ASSUME TInv, Settled, NEW s, Passes(s), Operates(s) PROVE Ended
<1>1. /\ cleanup \in {"resolved", "rejected"}
      /\ \A a \in Addrs : s[a] = "none"
      /\ s \in [Addrs -> {"none", "connecting", "connected", "closing"}]
  BY DEF TInv, DuringCleanUp, Settled, Open, Passes
<1>2. UNCHANGED <<state, listen, cleanup>>
  BY <1>1 DEF Operates, Stays, ConnectTo, CanConnect, CloseSession, Close
<1>3. sess' = s \/ \E a \in Addrs : sess' = [s EXCEPT ![a] = "none"]
  BY <1>1 DEF Operates, Stays, CanConnect, CloseSession, Close
<1>4. Open(sess') = {}
  BY <1>1, <1>3 DEF Open
<1>. QED  BY <1>2, <1>4 DEF Ended
\* Every step leaves an ended transceiver as it is.
LEMMA StepEnds == ASSUME TInv, [Next]_vars PROVE Ended
<1>. SUFFICES ASSUME Settled PROVE Ended
  BY DEF Ended
<1>1. CASE UNCHANGED transceiver
  BY <1>1 DEF transceiver, Ended, TInv, DuringCleanUp, Settled, Open
<1>2. CASE Apart
  BY <1>2, EventEnds DEF Apart
<1>3. CASE AtBound
  BY <1>3 DEF AtBound, Bound, CloseWhenBound, TInv, BeforeCleanUp, Settled
<1>4. ASSUME NEW s, Handled(s) PROVE Ended
  BY <1>4, OperatesEnds DEF Handled
<1>. QED  BY <1>1, <1>2, <1>3, <1>4, StepKinds

\* A transceiver that has ended stays ended, whatever arrives late.
THEOREM EndIsForGood == Spec => EndsForGood
<1>1. TInv /\ [Next]_vars => [Ended]_vars
  BY StepEnds
<1>. QED  BY <1>1, InvAlways, PTL DEF Spec, EndsForGood

=============================================================================
