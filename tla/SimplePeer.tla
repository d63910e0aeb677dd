------------------------------ MODULE SimplePeer -----------------------------
(***************************************************************************)
(* A SimplePeer on its transceiver: to the relay, through the relay to the *)
(* distant peer, and to its end.  Source: simple/simplePeer/.              *)
(*                                                                         *)
(* The behaviours of the state machine run as one coroutine, which is      *)
(* suspended where step says, while the events of the transceiver and the  *)
(* application's close() go on.  What happens between two awaits on things *)
(* outside the program is one step.  The relay is SimpleRelay: it introduces *)
(* the peer, or closes its session.  The vault's answers are taken as they *)
(* come; the vault itself is in Vault.                                     *)
(*                                                                         *)
(* The state machine library is external.  A shift sets the current state, *)
(* runs onExit and then onEnter; a shift that the transition map lacks is  *)
(* refused.  Whether onEnter waits for the promise of onExit cannot be read *)
(* from the repository: waits says it, and the model has both.             *)
(***************************************************************************)
EXTENDS Transceiver, Sequences

CONSTANTS Relay, Distant   \* the addresses

ASSUME PeerAssumption == Addrs = {Relay, Distant} /\ Relay # Distant

VARIABLES
  peer,      \* current state of the peer's state machine
  step,      \* where the coroutine of its behaviours is suspended
  encrypt,   \* initialParams.encrypt
  waits,     \* does the library await onExit?
  once,      \* the once-listeners of connectingToRelay still attached
  isConnected,  \* of connectingToRelay
  watching,  \* is onRelayClose attached?
  entered,   \* has the last shift got to onEnter?
  closing,   \* has close() been called, which sets closePromise?
  introduced,   \* has the relay introduced the two peers to each other?
  outcome,   \* what outcomePromise of requestSessionViaRelayAsync resolves to
  reasons    \* onClosing events

peerVars == <<peer, step, once, isConnected, watching, entered, closing,
              introduced, outcome, reasons>>
mode == <<encrypt, waits>>
vars == <<transceiver, peerVars, mode>>

Init ==
  /\ TransceiverInit
  /\ peer = "idle" /\ step = "none"
  /\ encrypt \in BOOLEAN /\ waits \in BOOLEAN
  /\ once = {} /\ isConnected = FALSE /\ watching = FALSE /\ entered = TRUE
  /\ closing = FALSE /\ introduced \in BOOLEAN
  /\ outcome = "none" /\ reasons = <<>>

-----------------------------------------------------------------------------
(* Shifts and closing, the sessions being s by now. *)

\* onExit of ConnectingToPeer closes the session with the relay, and may hold up
\* the onEnter that follows.
HeldUp(s) == peer = "connectingToPeer" /\ waits /\ s[Relay] # "none"

ToClosing(s) ==
  /\ peer' = "closing" /\ watching' = FALSE
  /\ entered' = ~HeldUp(s)
  /\ IF HeldUp(s) THEN CloseSession(Relay, s) ELSE Close(s)

\* MUTANT of Reported: close() does not look at closePromise.
ReportedAgain == FALSE
\* A peer that closes already does not report another reason.
Reported == closing \/ peer = "closing"

\* close(reason).
CloseWith(reason, s) ==
  /\ closing' = TRUE
  /\ IF Reported
     THEN /\ UNCHANGED <<peer, watching, entered, reasons>>
          /\ IF closing THEN Stays(s) ELSE Close(s)
     ELSE /\ reasons' = Append(reasons, reason)
          /\ ToClosing(s)

\* The coroutine does not wait any longer once __prematureClosePromise resolves.
Interrupted == IF step \in {"request", "conn"} THEN "done" ELSE step

\* MUTANT of Resolved: onEncryptionNegotiationFailed is not listened to.
ResolvedByConnection(o) == IF outcome = "none" /\ o = "session" THEN o ELSE outcome
\* outcomePromise settles once.
Resolved(o) == IF outcome = "none" THEN o ELSE outcome

\* After the race for the connection, or after connect() threw: value is then
\* still that of the first race.
Met(s) ==
  /\ outcome' = Resolved("session")
  /\ IF peer = "connectingToPeer"
     THEN /\ peer' = "connectedToPeer" /\ watching' = FALSE
          /\ CloseSession(Relay, s)
          /\ entered' = ~HeldUp(s)
          /\ step' = IF HeldUp(s) THEN "leaving" ELSE "done"
     ELSE /\ step' = "threw" /\ Stays(s)
          /\ UNCHANGED <<peer, watching, entered>>

Join(s) ==
  IF CanConnect(Distant, s)
  THEN /\ ConnectTo(Distant, s)
       /\ step' = IF closing THEN "done" ELSE "conn"
       /\ UNCHANGED <<peer, watching, entered, outcome>>
  ELSE Met(s)

\* The listener for the relay's end, and the request.  send() throws without a
\* session; with one that is not connected it rejects a promise that nobody
\* handles, which ends the process.
Ask(s) ==
  /\ watching' = TRUE
  /\ step' = CASE s[Relay] # "connected" -> "threw"
               [] closing -> "done"
               [] OTHER -> "request"

\* connPromise has resolved.
ReachedRelay(s, connected) ==
  \/ /\ connected /\ peer = "connectingToRelay"
     /\ peer' = "connectingToPeer"
     /\ IF encrypt THEN step' = "keys" /\ UNCHANGED watching ELSE Ask(s)
     /\ Stays(s) /\ UNCHANGED <<entered, reasons>>
  \/ /\ connected /\ peer # "connectingToRelay"
     /\ step' = "threw"
     /\ Stays(s) /\ UNCHANGED <<peer, watching, entered, reasons>>
  \/ /\ ~connected
     /\ reasons' = Append(reasons, "RELAY_UNAVAILABLE")
     /\ step' = "done"
     /\ IF peer = "closing" THEN Stays(s) /\ UNCHANGED <<peer, watching, entered>>
                            ELSE ToClosing(s)

-----------------------------------------------------------------------------
(* The coroutine. *)

Start ==
  /\ peer = "idle"
  /\ peer' = "connectingToRelay" /\ step' = "listen"
  /\ Listen
  /\ UNCHANGED <<once, isConnected, watching, entered, closing, introduced,
                 outcome, reasons>>

ListenEnds ==
  /\ step = "listen"
  /\ \/ /\ Bound /\ once' = {"onConnected", "onSessionClosed"}
        /\ \/ cleanup = "none" /\ ConnectTo(Relay, sess) /\ step' = "relay"
           \/ CloseWhenBound /\ step' = "threw"
     \/ /\ BindFails
        /\ step' = "threw" /\ UNCHANGED once
  /\ UNCHANGED <<peer, isConnected, watching, entered, closing, introduced,
                 outcome, reasons>>

KeysRead ==
  /\ step = "keys"
  /\ \/ Ask(sess)
     \/ step' = "threw" /\ UNCHANGED watching
  /\ UNCHANGED <<transceiver, peer, once, isConnected, entered, closing,
                 introduced, outcome, reasons>>

\* The introduction arrives; agreed says that both peers encrypt, or neither.
Introduction(agreed) ==
  /\ step = "request" /\ introduced
  /\ Hears /\ sess[Relay] = "connected"
  /\ \/ /\ agreed /\ encrypt
        /\ step' = "tags" /\ Stays(sess)
        /\ UNCHANGED <<peer, watching, entered, closing, outcome, reasons>>
     \/ /\ agreed /\ ~encrypt
        /\ Join(sess) /\ UNCHANGED <<closing, reasons>>
     \/ /\ ~agreed
        /\ outcome' = Resolved("nothing") /\ step' = "done"
        /\ CloseWith("NEGOTIATION_FAILURE", sess)
  /\ UNCHANGED <<socket, listen, once, isConnected, introduced>>

Answers == {"trusted", "changed", "unusable"}
\* What the vault says of the distant peer's key; "unusable" is also a key that
\* cannot be used or recorded.
TagsRead(answer) ==
  /\ step = "tags"
  /\ \/ /\ answer = "trusted"
        /\ Join(sess) /\ UNCHANGED <<closing, reasons>>
     \/ /\ answer = "changed"
        /\ step' = "done" /\ UNCHANGED outcome
        /\ CloseWith("PUBLIC_KEY_MISMATCH", sess)
     \/ /\ answer = "unusable"
        /\ outcome' = Resolved("nothing") /\ step' = "done"
        /\ CloseWith("NEGOTIATION_FAILURE", sess)
  /\ UNCHANGED <<socket, listen, once, isConnected, introduced>>

-----------------------------------------------------------------------------
(* Events of the transceiver. *)

\* Any address's first connection takes off the once-listener.
SessionConnects(a) ==
  /\ Connected(a)
  /\ once' = once \ {"onConnected"}
  /\ isConnected' = (isConnected \/ "onConnected" \in once)
  /\ \/ /\ a = Relay /\ step = "relay" /\ "onConnected" \in once
        /\ ReachedRelay(WithConnected(a), TRUE)
        /\ UNCHANGED outcome
     \/ /\ a = Distant /\ step = "conn"
        /\ Met(WithConnected(a))
        /\ UNCHANGED reasons
     \/ /\ ~(a = Relay /\ step = "relay" /\ "onConnected" \in once)
        /\ ~(a = Distant /\ step = "conn")
        /\ Stays(WithConnected(a))
        /\ UNCHANGED <<peer, step, watching, entered, outcome, reasons>>
  /\ UNCHANGED <<closing, introduced>>

\* The listeners of onSessionClosed, and what waits for the relay's session.
EndsNoPhase(a) == FALSE                         \* MUTANT of EndsRelayPhase
EndsRelayPhase(a) == a = Relay /\ step = "relay" /\ "onSessionClosed" \in once
EndsExit(a) == a = Relay /\ ~entered
EndsUnnoticed(a) == FALSE                       \* MUTANT of EndsPeering
EndsInAnyState(a) == a = Distant /\ entered       \* MUTANT of EndsPeering
EndsPeering(a) == a = Distant /\ peer = "connectedToPeer" /\ entered

SessionEnds(a) ==
  LET s == WithClosed(a) IN
  /\ Closed(a)
  /\ once' = once \ {"onSessionClosed"}
  /\ \/ /\ EndsRelayPhase(a)
        /\ ReachedRelay(s, isConnected)
        /\ UNCHANGED closing
     \/ /\ EndsExit(a)
        /\ entered' = TRUE
        /\ IF peer = "closing" THEN Close(s) /\ UNCHANGED step
                               ELSE Stays(s) /\ step' = "done"
        /\ UNCHANGED <<peer, watching, closing, reasons>>
     \/ /\ EndsPeering(a)
        /\ reasons' = Append(reasons, "DISTANT_CLOSE")
        /\ ToClosing(s)
        /\ UNCHANGED <<step, closing>>
     \/ /\ watching /\ ~EndsExit(a)
        /\ CloseWith("RELAY_CLOSE", s)
        /\ step' = Interrupted
     \/ /\ ~EndsRelayPhase(a) /\ ~EndsExit(a) /\ ~EndsPeering(a) /\ ~watching
        /\ Stays(s)
        /\ UNCHANGED <<peer, step, watching, entered, closing, reasons>>
  /\ UNCHANGED <<isConnected, introduced, outcome>>

\* The application closes the peer.
ApplicationCloses ==
  /\ ~closing
  /\ CloseWith("SELF_CLOSE", sess)
  /\ step' = Interrupted
  /\ UNCHANGED <<socket, listen, once, isConnected, introduced, outcome>>

\* The relay has got both requests.
RelayMatches ==
  /\ step = "request" /\ sess[Relay] = "connected"
  /\ introduced' = TRUE
  /\ UNCHANGED <<transceiver, peer, step, once, isConnected, watching, entered,
                 closing, outcome, reasons>>

\* What the peer does not listen to, or that calls for nothing.
Alone(A) == A /\ UNCHANGED peerVars
TransceiverStep ==
  \/ Alone(SessionsDone) \/ Alone(SocketClosed) \/ Alone(SocketFails)
  \/ \E a \in Addrs :
       \/ Alone(Closes(a))
       \/ (a = Distant => introduced) /\ Alone(Hello(a))

Next ==
  /\ \/ Start \/ ListenEnds \/ KeysRead \/ RelayMatches \/ ApplicationCloses
     \/ \E agreed \in BOOLEAN : Introduction(agreed)
     \/ \E answer \in Answers : TagsRead(answer)
     \/ \E a \in Addrs : SessionConnects(a) \/ SessionEnds(a)
     \/ TransceiverStep
  /\ UNCHANGED mode

Spec == Init /\ [][Next]_vars

\* Node goes on with what is due; the vault, a bind and the closing of a socket
\* come to an end, and so does a session that connects (its retries) or closes
\* (its FINs).  The relay answers a request or closes the session, and an
\* introduction arrives while the session lasts.
Fairness ==
  /\ WF_vars(ListenEnds /\ UNCHANGED mode)
  /\ WF_vars(KeysRead /\ UNCHANGED mode)
  /\ WF_vars((\E answer \in Answers : TagsRead(answer)) /\ UNCHANGED mode)
  /\ WF_vars(/\ step = "request"
             /\ RelayMatches \/ Alone(Closes(Relay))
             /\ UNCHANGED mode)
  /\ WF_vars((\E agreed \in BOOLEAN : Introduction(agreed)) /\ UNCHANGED mode)
  /\ WF_vars(Alone(SessionsDone \/ SocketClosed) /\ UNCHANGED mode)
  /\ \A a \in Addrs :
       /\ WF_vars(SessionEnds(a) /\ UNCHANGED mode)
       /\ WF_vars(/\ sess[a] = "connecting"
                  /\ SessionConnects(a) \/ Alone(Closes(a))
                  /\ UNCHANGED mode)

FairSpec == Spec /\ Fairness

-----------------------------------------------------------------------------
(* Properties. *)

Reasons == {"RELAY_UNAVAILABLE", "RELAY_CLOSE", "DISTANT_CLOSE", "SELF_CLOSE",
            "NEGOTIATION_FAILURE", "PUBLIC_KEY_MISMATCH"}

TypeOK ==
  /\ TransceiverTypeOK
  /\ peer \in {"idle", "connectingToRelay", "connectingToPeer",
               "connectedToPeer", "closing"}
  /\ step \in {"none", "listen", "relay", "keys", "request", "tags", "conn",
               "leaving", "done", "threw"}
  /\ once \subseteq {"onConnected", "onSessionClosed"}
  /\ {encrypt, waits, isConnected, watching, entered, closing, introduced}
       \subseteq BOOLEAN
  /\ outcome \in {"none", "session", "nothing"}
  /\ reasons \in Seq(Reasons) /\ Len(reasons) <= 2

\* A peer reports one reason for closing.  The one exception the code has is
\* close() while it connects to the relay: closing the session with the relay
\* is then reported as the relay being unavailable.
OneReason ==
  Len(reasons) <= 1 \/ reasons = <<"SELF_CLOSE", "RELAY_UNAVAILABLE">>

\* What requestSessionViaRelayAsync comes to agrees with the events: a request
\* that fails for its relay or the distant key gets no session, a failed
\* negotiation gets undefined, and undefined is only got by a peer that closes.
Request == IF step = "threw" THEN "rejected" ELSE outcome
OutcomeMatchesReason ==
  /\ reasons # <<>> =>
       /\ Head(reasons) \in {"RELAY_UNAVAILABLE", "RELAY_CLOSE",
                             "PUBLIC_KEY_MISMATCH"} => Request # "session"
       /\ Head(reasons) = "NEGOTIATION_FAILURE" => Request = "nothing"
       /\ Head(reasons) = "DISTANT_CLOSE" => Request = "session"
  /\ Request = "nothing" => reasons # <<>>

\* While its socket works, a peer that is connected has a session with the
\* distant peer, and one that has lost it is closing.  (If the library awaits
\* onExit, a session that ends before onEnter is not noticed.)
ConnectedHasSession ==
  peer = "connectedToPeer" /\ ~waits /\ cleanup = "none" => sess[Distant] # "none"

\* An attempt comes to an end: a connection, a closing, or an exception.  The one
\* case where it does not: a peer that was introduced before, and whose session
\* connected or closed first, used up a once-listener meant for the relay.
MissedRelay ==
  step = "relay" /\ introduced /\ once # {"onConnected", "onSessionClosed"}
AttemptEnds ==
  peer = "connectingToRelay" ~>
    peer \in {"connectedToPeer", "closing"} \/ step = "threw" \/ MissedRelay

\* A peer that closes ends up with its transceiver cleaned up.
ClosingEnds == peer = "closing" ~> Settled
=============================================================================
