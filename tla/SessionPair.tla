----------------------------- MODULE SessionPair ----------------------------
(***************************************************************************)
(* The sessions that two transceivers keep for each other's address: the   *)
(* HELLO handshake with its retries, the keep-alive, closing, and the      *)
(* creation of a session by a peer's HELLO.  Source: transport/session/ and *)
(* onRawMessage, createSession, connect and closeSession of transceiver.ts. *)
(*                                                                         *)
(* Sessions have no identity on the wire: a datagram left over from one    *)
(* session of a pair of addresses is heard by the next one.                *)
(* A session that is closed is no longer in sessionMap: state "none".      *)
(* A definition marked MUTANT is a plausible bug in the one it names.      *)
(*                                                                         *)
(* A shift of the external state machine (current state, onExit, and onEnter *)
(* up to its first await) is one step.                                     *)
(***************************************************************************)
EXTENDS Integers

CONSTANTS
  Ends,           \* the two transceivers
  Retries,        \* HELLOs that a connecting session sends           (10)
  Fins,           \* FINs that a closing session sends                (5)
  SilenceTicks,   \* keep-alive ticks without KEEP_ALIVE it survives  (20 s / 5 s)
  MayLose,        \* may the network lose a datagram?
  MayCrash,       \* may a process end without closing its sessions?
  MayClose,       \* may the application close a session?
  Timely          \* are delays shorter than the time-outs (3 s, 20 s)?

ASSUME SessionAssumption ==
  /\ \E d \in Ends, e \in Ends : d # e /\ Ends = {d, e}
  /\ Retries \in Nat \ {0} /\ Fins \in Nat \ {0}
  /\ SilenceTicks \in Nat \ {0}
  /\ MayLose \in BOOLEAN /\ MayCrash \in BOOLEAN
  /\ MayClose \in BOOLEAN /\ Timely \in BOOLEAN

Kinds == {"HELLO", "HELLO_ACK", "KEEP_ALIVE", "FIN"}
Peer(e) == CHOOSE p \in Ends : p # e

VARIABLES
  st,        \* st[e]: state of e's session with its peer, or "none"
  retries,   \* retries[e]: HELLOs left to send while connecting
  fins,      \* fins[e]: FINs left to send while closing
  silence,   \* silence[e]: keep-alive ticks since the last KEEP_ALIVE
  ahead,     \* ahead[e]: has e ticked since its peer's last keep-alive tick?
  net,       \* <<sender, kind>> in flight
  backed     \* history: has the peer had a session during e's present one, or
             \* was its answer to an earlier one under way when this one began?

vars == <<st, retries, fins, silence, ahead, net, backed>>

Init ==
  /\ st = [e \in Ends |-> "none"]
  /\ retries = [e \in Ends |-> 0]
  /\ fins = [e \in Ends |-> 0]
  /\ silence = [e \in Ends |-> 0]
  /\ ahead = [e \in Ends |-> FALSE]
  /\ net = {}
  /\ backed = [e \in Ends |-> FALSE]

-----------------------------------------------------------------------------
(* Entering a state. *)

EnterConnecting(e) ==
  /\ st' = [st EXCEPT ![e] = "connecting"]
  /\ retries' = [retries EXCEPT ![e] = Retries]
  /\ silence' = [silence EXCEPT ![e] = 0]
  /\ UNCHANGED <<fins, ahead>>

\* The time spent connecting counts as silence, and may cost a tick.
EnterConnected(e) ==
  /\ st' = [st EXCEPT ![e] = "connected"]
  /\ retries' = [retries EXCEPT ![e] = 0]
  /\ \E s \in {0, 1} : silence' = [silence EXCEPT ![e] = s]
  /\ ahead' = [ahead EXCEPT ![e] = FALSE]
  /\ UNCHANGED fins

\* onEnter of ClosingBehavior up to its first sleep, out being sent before it.
EnterClosing(e, rest, out) ==
  /\ st' = [st EXCEPT ![e] = "closing"]
  /\ retries' = [retries EXCEPT ![e] = 0]
  /\ fins' = [fins EXCEPT ![e] = Fins - 1]
  /\ silence' = [silence EXCEPT ![e] = 0]
  /\ ahead' = [p \in Ends |-> FALSE]
  /\ net' = rest \cup {<<e, k>> : k \in out \cup {"FIN"}}

-----------------------------------------------------------------------------
(* The application. *)

Connect(e) ==
  /\ st[e] = "none"
  /\ EnterConnecting(e)
  /\ UNCHANGED net

Close(e) ==
  /\ MayClose
  /\ st[e] \in {"connecting", "connected"}
  /\ EnterClosing(e, net, {})

Crash(e) ==
  /\ MayCrash /\ st[e] # "none"
  /\ st' = [st EXCEPT ![e] = "none"]
  /\ retries' = [retries EXCEPT ![e] = 0]
  /\ fins' = [fins EXCEPT ![e] = 0]
  /\ silence' = [silence EXCEPT ![e] = 0]
  /\ ahead' = [p \in Ends |-> FALSE]
  /\ UNCHANGED net

-----------------------------------------------------------------------------
(* Timers. *)

\* What has been sent arrives before either end gives up for lack of it.
InTime == Timely => net = {}

RetryTick(e) ==
  /\ st[e] = "connecting" /\ (retries[e] = 1 => InTime)
  /\ IF retries[e] = 1
     THEN EnterClosing(e, net, {"HELLO"})
     ELSE /\ retries' = [retries EXCEPT ![e] = @ - 1]
          /\ net' = net \cup {<<e, "HELLO">>}
          /\ UNCHANGED <<st, fins, silence, ahead>>

SilentLate(e) == silence[e] > SilenceTicks                  \* MUTANT of Silent
Silent(e) == silence[e] >= SilenceTicks

\* Both ends' intervals have the same period: on a timely network neither ticks
\* twice between two ticks of the other.
KeepAliveTick(e) ==
  /\ st[e] = "connected" /\ (Silent(e) => InTime)
  /\ Timely /\ st[Peer(e)] = "connected" => ~ahead[e]
  /\ IF Silent(e)
     THEN EnterClosing(e, net, {"KEEP_ALIVE"})
     ELSE /\ silence' = [silence EXCEPT ![e] = @ + 1]
          /\ ahead' = [p \in Ends |-> p = e]
          /\ net' = net \cup {<<e, "KEEP_ALIVE">>}
          /\ UNCHANGED <<st, retries, fins>>

\* After each sleep of ClosingBehavior: the next FIN, or "closed".
FinTick(e) ==
  /\ st[e] = "closing"
  /\ IF fins[e] > 0
     THEN /\ fins' = [fins EXCEPT ![e] = @ - 1]
          /\ net' = net \cup {<<e, "FIN">>}
          /\ UNCHANGED st
     ELSE /\ st' = [st EXCEPT ![e] = "none"]
          /\ UNCHANGED <<fins, net>>
  /\ UNCHANGED <<retries, silence, ahead>>

-----------------------------------------------------------------------------
(* onRawMessage: find or create the session, then its event handler. *)

\* MUTANT of Creates: the type of the datagram is not looked at.
CreatesByAny(e, kind) == st[e] = "none"
\* MUTANT of Creates: a session that is still connecting begins again.
CreatesAgain(e, kind) == st[e] \in {"none", "connecting"} /\ kind = "HELLO"
\* Only a HELLO creates a session.
Creates(e, kind) == st[e] = "none" /\ kind = "HELLO"

RefreshesNever(kind) == FALSE                            \* MUTANT of Refreshes
RefreshesByAny(kind) == kind # "FIN"                     \* MUTANT of Refreshes
\* Only a KEEP_ALIVE is a sign of life.
Refreshes(kind) == kind = "KEEP_ALIVE"

\* MUTANT of Answers: a session that waits for HELLO_ACK does not answer HELLO.
AnswersOnce(e, now, kind) == now = "connecting" /\ kind = "HELLO" /\ st[e] = "none"
\* A connecting session, a new one included, answers HELLO with HELLO_ACK.
Answers(e, now, kind) == now = "connecting" /\ kind = "HELLO"

\* now is the state of the session that hears the datagram.
Handle(e, now, kind, rest) ==
  \/ /\ now = "connecting" /\ kind = "HELLO_ACK"
     /\ EnterConnected(e)
     /\ net' = rest \cup {<<e, "HELLO_ACK">>}
  \/ /\ now = "connected" /\ Refreshes(kind)
     /\ silence' = [silence EXCEPT ![e] = 0]
     /\ net' = rest
     /\ UNCHANGED <<st, retries, fins, ahead>>
  \/ /\ now = "connected" /\ kind = "FIN"
     /\ EnterClosing(e, rest, {})
  \/ /\ ~(now = "connecting" /\ kind = "HELLO_ACK")
     /\ ~(now = "connected" /\ (Refreshes(kind) \/ kind = "FIN"))
     /\ IF Creates(e, kind) THEN EnterConnecting(e)
                            ELSE UNCHANGED <<st, retries, fins, silence, ahead>>
     /\ net' = IF Answers(e, now, kind) THEN rest \cup {<<e, "HELLO_ACK">>}
                                        ELSE rest

Receive(e, kind) ==
  /\ <<Peer(e), kind>> \in net
  /\ Handle(e, IF Creates(e, kind) THEN "connecting" ELSE st[e], kind,
            net \ {<<Peer(e), kind>>})

Lose(d) ==
  /\ MayLose
  /\ net' = net \ {d}
  /\ UNCHANGED <<st, retries, fins, silence, ahead>>

-----------------------------------------------------------------------------

Step ==
  \/ \E e \in Ends : \/ Connect(e) \/ Close(e) \/ Crash(e)
                     \/ RetryTick(e) \/ KeepAliveTick(e) \/ FinTick(e)
                     \/ \E kind \in Kinds : Receive(e, kind)
  \/ \E d \in net : Lose(d)

Remember ==
  backed' = [e \in Ends |->
    /\ st'[e] # "none"
    /\ \/ st'[Peer(e)] # "none"
       \/ st[e] # "none" /\ backed[e]
       \/ st[e] = "none" /\ <<Peer(e), "HELLO_ACK">> \in net']

Next == Step /\ Remember

Spec == Init /\ [][Next]_vars

\* Node runs the timers that are due; a datagram that is sent again and again
\* arrives now and then.
Fairness ==
  \A e \in Ends :
    /\ WF_vars(RetryTick(e) /\ Remember)
    /\ WF_vars(KeepAliveTick(e) /\ Remember)
    /\ WF_vars(FinTick(e) /\ Remember)
    /\ \A kind \in Kinds : SF_vars(Receive(e, kind) /\ Remember)

FairSpec == Spec /\ Fairness

-----------------------------------------------------------------------------
(* Properties. *)

TypeOK ==
  /\ st \in [Ends -> {"none", "connecting", "connected", "closing"}]
  /\ retries \in [Ends -> 0 .. Retries]
  /\ fins \in [Ends -> 0 .. Fins]
  /\ silence \in [Ends -> 0 .. SilenceTicks]
  /\ ahead \in [Ends -> BOOLEAN]
  /\ net \subseteq Ends \X Kinds
  /\ backed \in [Ends -> BOOLEAN]

\* A session connects only to something: its peer has had a session too during
\* its life, unless a HELLO_ACK meant for an earlier session was under way when
\* this one began.  No other left-over connects it alone.
ConnectedIsBacked == \A e \in Ends : st[e] = "connected" => backed[e]

\* While nothing is lost and no application closes, two ends that are connected
\* stay so: neither takes the other for dead.
Both == \A e \in Ends : st[e] = "connected"
KeptAlive == [][Both => Both']_vars

\* A session that is connected while its peer is not (a handshake half lost, a
\* crash, a FIN lost) does not stay so: keep-alive or FIN ends it, if the
\* peer does not connect meanwhile.
OneSidedResolves ==
  \A e \in Ends : (st[e] = "connected" /\ ~Both) ~> (Both \/ st[e] # "connected")

\* A handshake begun on a timely network without loss succeeds at both ends,
\* whoever begins and whether or not both do.
HandshakeSucceeds == \A e \in Ends : st[e] = "connecting" ~> Both

\* Connecting and closing end, whatever is lost: connectAsync and closeAsync
\* settle.
TransientEnds == \A e \in Ends : st[e] \in {"connecting", "closing"} ~>
                                 st[e] \in {"none", "connected"}
=============================================================================
