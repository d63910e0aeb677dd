-------------------------- MODULE SessionPairProofs -------------------------
(***************************************************************************)
(* Safety of the handshake for every number of retries, FINs and ticks,    *)
(* whatever is lost, delayed, closed or crashes.                           *)
(***************************************************************************)
EXTENDS SessionPair, TLAPS

(***************************************************************************)
(* The inductive invariant.  That a connected session is backed follows    *)
(* from what holds while it is still connecting: as long as nothing backs  *)
(* it, there is no answer under way that could connect it.                 *)
(***************************************************************************)

\* The last retry closes the session: a connecting one has a retry left.
RetriesLeft == \A e \in Ends : st[e] = "connecting" => retries[e] # 0

\* No answer is under way to a session that nothing backs.
Unanswered ==
  \A e \in Ends : st[e] = "connecting" /\ ~backed[e] =>
                    <<Peer(e), "HELLO_ACK">> \notin net

IInv == TypeOK /\ RetriesLeft /\ Unanswered /\ ConnectedIsBacked

\* The other end is the other end.
LEMMA PeerIsOther ==
  ASSUME NEW e \in Ends
  PROVE  Peer(e) \in Ends /\ Peer(e) # e /\ Peer(Peer(e)) = e
BY SessionAssumption DEF Peer

-----------------------------------------------------------------------------
(* Type correctness. *)

\* The types of everything but the history.
Shape ==
  /\ st \in [Ends -> {"none", "connecting", "connected", "closing"}]
  /\ retries \in [Ends -> 0 .. Retries]
  /\ fins \in [Ends -> 0 .. Fins]
  /\ silence \in [Ends -> 0 .. SilenceTicks]
  /\ ahead \in [Ends -> BOOLEAN]
  /\ net \subseteq Ends \X Kinds
  /\ RetriesLeft

\* Beginning to connect keeps the types.
LEMMA ConnectingShape ==
  ASSUME Shape, NEW e \in Ends, EnterConnecting(e), net' \subseteq Ends \X Kinds
  PROVE  Shape'
BY SessionAssumption DEF Shape, EnterConnecting, RetriesLeft

\* Becoming connected keeps the types.
LEMMA ConnectedShape ==
  ASSUME Shape, NEW e \in Ends, EnterConnected(e), net' \subseteq Ends \X Kinds
  PROVE  Shape'
BY SessionAssumption DEF Shape, EnterConnected, RetriesLeft

\* Beginning to close keeps the types.
LEMMA ClosingShape ==
  ASSUME Shape, NEW e \in Ends, NEW rest, NEW out, EnterClosing(e, rest, out),
         rest \subseteq Ends \X Kinds, out \subseteq Kinds
  PROVE  Shape'
<1>1. net' \subseteq Ends \X Kinds
  BY DEF EnterClosing, Kinds
<1>. QED  BY <1>1, SessionAssumption DEF Shape, EnterClosing, RetriesLeft

\* Hearing a datagram keeps the types.
LEMMA HandleShape ==
  ASSUME Shape, NEW e \in Ends, NEW now, NEW kind \in Kinds,
         NEW rest, rest \subseteq net, Handle(e, now, kind, rest)
  PROVE  Shape'
<1>1. /\ rest \subseteq Ends \X Kinds
      /\ <<e, "HELLO_ACK">> \in Ends \X Kinds
  BY DEF Shape, Kinds
<1>2. ASSUME EnterConnected(e), net' = rest \cup {<<e, "HELLO_ACK">>} PROVE Shape'
  BY <1>1, <1>2, ConnectedShape
<1>3. ASSUME silence' = [silence EXCEPT ![e] = 0], net' = rest,
             UNCHANGED <<st, retries, fins, ahead>>
      PROVE  Shape'
  BY <1>1, <1>3, SessionAssumption DEF Shape, RetriesLeft
<1>4. ASSUME EnterClosing(e, rest, {}) PROVE Shape'
  BY <1>1, <1>4, ClosingShape
<1>5. ASSUME EnterConnecting(e) \/ UNCHANGED <<st, retries, fins, silence, ahead>>,
             net' = rest \cup {<<e, "HELLO_ACK">>} \/ net' = rest
      PROVE  Shape'
  <2>1. net' \subseteq Ends \X Kinds
    BY <1>1, <1>5
  <2>. QED  BY <1>5, <2>1, ConnectingShape DEF Shape, RetriesLeft
<1>. QED  BY <1>2, <1>3, <1>4, <1>5 DEF Handle

\* Every step keeps the types.
LEMMA StepShape == Shape /\ Step => Shape'
<1>. SUFFICES ASSUME Shape, Step PROVE Shape'
  OBVIOUS
<1>0. /\ Retries \in Nat /\ Fins \in Nat /\ SilenceTicks \in Nat
      /\ net \subseteq Ends \X Kinds
      /\ "HELLO" \in Kinds /\ "KEEP_ALIVE" \in Kinds /\ "FIN" \in Kinds
  BY SessionAssumption DEF Shape, Kinds
<1>1. ASSUME NEW e \in Ends, Connect(e) PROVE Shape'
  BY <1>0, <1>1, ConnectingShape DEF Connect
<1>2. ASSUME NEW e \in Ends, Close(e) PROVE Shape'
  BY <1>0, <1>2, ClosingShape DEF Close
<1>3. ASSUME NEW e \in Ends, Crash(e) PROVE Shape'
  BY <1>0, <1>3 DEF Crash, Shape, RetriesLeft
<1>4. ASSUME NEW e \in Ends, RetryTick(e) PROVE Shape'
  <2>1. CASE retries[e] = 1
    BY <1>0, <1>4, <2>1, ClosingShape DEF RetryTick
  <2>2. CASE retries[e] # 1
    <3>1. retries[e] - 1 \in 0 .. Retries /\ retries[e] - 1 # 0
      BY <1>0, <1>4, <2>2 DEF RetryTick, Shape, RetriesLeft
    <3>. QED  BY <1>0, <1>4, <2>2, <3>1 DEF RetryTick, Shape, RetriesLeft
  <2>. QED  BY <2>1, <2>2
<1>5. ASSUME NEW e \in Ends, KeepAliveTick(e) PROVE Shape'
  <2>1. CASE Silent(e)
    BY <1>0, <1>5, <2>1, ClosingShape DEF KeepAliveTick
  <2>2. CASE ~Silent(e)
    <3>1. silence[e] + 1 \in 0 .. SilenceTicks
      BY <1>0, <2>2 DEF Silent, Shape
    <3>2. /\ silence' = [silence EXCEPT ![e] = @ + 1]
          /\ ahead' = [p \in Ends |-> p = e]
          /\ net' = net \cup {<<e, "KEEP_ALIVE">>}
          /\ UNCHANGED <<st, retries, fins>>
      BY <1>5, <2>2 DEF KeepAliveTick
    <3>3. ahead' \in [Ends -> BOOLEAN]
      BY <3>2, Zenon
    <3>4. silence' \in [Ends -> 0 .. SilenceTicks] /\ net' \subseteq Ends \X Kinds
      BY <1>0, <3>1, <3>2 DEF Shape
    <3>. QED  BY <3>2, <3>3, <3>4 DEF Shape, RetriesLeft
  <2>. QED  BY <2>1, <2>2
<1>6. ASSUME NEW e \in Ends, FinTick(e) PROVE Shape'
  BY <1>0, <1>6 DEF FinTick, Shape, RetriesLeft
<1>7. ASSUME NEW e \in Ends, NEW kind \in Kinds, Receive(e, kind) PROVE Shape'
  <2>1. net \ {<<Peer(e), kind>>} \subseteq net
    OBVIOUS
  <2>. QED  BY <1>7, <2>1, HandleShape DEF Receive
<1>8. ASSUME NEW d \in net, Lose(d) PROVE Shape'
  BY <1>8 DEF Lose, Shape, RetriesLeft
<1>. QED  BY <1>1, <1>2, <1>3, <1>4, <1>5, <1>6, <1>7, <1>8 DEF Step

-----------------------------------------------------------------------------
(* What a step can do to one end. *)

\* What a datagram can make of the session that hears it.
LEMMA HandleEffect ==
  ASSUME Shape, NEW e \in Ends, NEW kind \in Kinds, Receive(e, kind)
  PROVE  /\ \A d \in Ends \ {e} : st'[d] = st[d]
         /\ st'[e] = "connecting" => st[e] \in {"none", "connecting"}
         /\ st'[e] = "connected" => \/ st[e] = "connected"
                                    \/ /\ st[e] = "connecting"
                                       /\ <<Peer(e), "HELLO_ACK">> \in net
         /\ \A d \in Ends : <<d, "HELLO_ACK">> \in net' \ net => st'[d] # "none"
<1>. DEFINE now == IF Creates(e, kind) THEN "connecting" ELSE st[e]
            rest == net \ {<<Peer(e), kind>>}
<1>1. <<Peer(e), kind>> \in net /\ Handle(e, now, kind, rest)
  BY DEF Receive
<1>2. CASE /\ now = "connecting" /\ kind = "HELLO_ACK"
           /\ EnterConnected(e)
           /\ net' = rest \cup {<<e, "HELLO_ACK">>}
  BY <1>1, <1>2 DEF EnterConnected, Creates, Shape
<1>3. CASE /\ net' = rest
           /\ UNCHANGED st
  BY <1>3 DEF Shape
<1>4. CASE /\ now = "connected" /\ EnterClosing(e, rest, {})
  BY <1>4 DEF EnterClosing, Shape
<1>5. CASE /\ Creates(e, kind) /\ EnterConnecting(e)
           /\ net' = rest \cup {<<e, "HELLO_ACK">>} \/ net' = rest
  BY <1>5 DEF EnterConnecting, Creates, Shape
<1>6. CASE /\ ~Creates(e, kind) /\ UNCHANGED st
           /\ net' = IF Answers(e, now, kind) THEN rest \cup {<<e, "HELLO_ACK">>}
                                              ELSE rest
  BY <1>6 DEF Answers, Shape
<1>. QED
  BY <1>1, <1>2, <1>3, <1>4, <1>5, <1>6 DEF Handle

\* What a step can make of a session, and when an answer is sent.
LEMMA StepEffect ==
  ASSUME Shape, Step
  PROVE  /\ \A e \in Ends :
              /\ st'[e] = "connecting" => st[e] \in {"none", "connecting"}
              /\ st'[e] = "connected" => \/ st[e] = "connected"
                                         \/ /\ st[e] = "connecting"
                                            /\ <<Peer(e), "HELLO_ACK">> \in net
         /\ \A d \in Ends : <<d, "HELLO_ACK">> \in net' \ net => st'[d] # "none"
<1>. DEFINE Effect ==
         /\ \A e \in Ends :
              /\ st'[e] = "connecting" => st[e] \in {"none", "connecting"}
              /\ st'[e] = "connected" => \/ st[e] = "connected"
                                         \/ /\ st[e] = "connecting"
                                            /\ <<Peer(e), "HELLO_ACK">> \in net
         /\ \A d \in Ends : <<d, "HELLO_ACK">> \in net' \ net => st'[d] # "none"
<1>. HIDE DEF Effect
<1>1. ASSUME NEW e \in Ends, Connect(e) \/ Crash(e) \/ FinTick(e) PROVE Effect
  BY <1>1 DEF Effect, Connect, EnterConnecting, Crash, FinTick, Shape
<1>2. ASSUME NEW e \in Ends, Close(e) \/ RetryTick(e) \/ KeepAliveTick(e)
      PROVE  Effect
  <2>1. CASE UNCHANGED st
    BY <1>2, <2>1 DEF Effect, Close, RetryTick, KeepAliveTick, EnterClosing, Shape
  <2>2. ASSUME NEW out \in {{}, {"HELLO"}, {"KEEP_ALIVE"}}, EnterClosing(e, net, out)
        PROVE  Effect
    BY <2>2 DEF Effect, EnterClosing, Shape
  <2>3. \/ UNCHANGED st
        \/ EnterClosing(e, net, {})
        \/ EnterClosing(e, net, {"HELLO"})
        \/ EnterClosing(e, net, {"KEEP_ALIVE"})
    BY <1>2 DEF Close, RetryTick, KeepAliveTick
  <2>. QED  BY <2>1, <2>2, <2>3
<1>3. ASSUME NEW e \in Ends, NEW kind \in Kinds, Receive(e, kind) PROVE Effect
  <2>1. /\ \A d \in Ends \ {e} : st'[d] = st[d]
        /\ st'[e] = "connecting" => st[e] \in {"none", "connecting"}
        /\ st'[e] = "connected" => \/ st[e] = "connected"
                                   \/ /\ st[e] = "connecting"
                                      /\ <<Peer(e), "HELLO_ACK">> \in net
    BY <1>3, HandleEffect
  <2>2. \A d \in Ends : <<d, "HELLO_ACK">> \in net' \ net => st'[d] # "none"
    BY <1>3, HandleEffect
  <2>. QED  BY <2>1, <2>2 DEF Effect
<1>4. ASSUME NEW d \in net, Lose(d) PROVE Effect
  BY <1>4 DEF Effect, Lose
<1>5. Effect
  BY <1>1, <1>2, <1>3, <1>4 DEF Step
<1>. QED  BY <1>5 DEF Effect

-----------------------------------------------------------------------------
(* The invariant. *)

\* Every step keeps the invariant.
LEMMA Inductive == IInv /\ [Next]_vars => IInv'
<1>. SUFFICES ASSUME IInv, [Next]_vars PROVE IInv'
  OBVIOUS
<1>1. CASE UNCHANGED vars
  BY <1>1 DEF vars, IInv, TypeOK, RetriesLeft, Unanswered, ConnectedIsBacked
<1>2. CASE Next
  <2>0. Shape /\ Step /\ Remember
    BY <1>2 DEF IInv, TypeOK, Shape, Next
  <2>1. Shape'
    BY <2>0, StepShape
  <2>2. backed' \in [Ends -> BOOLEAN]
    BY <2>0 DEF Remember
  <2>3. ASSUME NEW e \in Ends
        PROVE  backed'[e] <=> /\ st'[e] # "none"
                              /\ \/ st'[Peer(e)] # "none"
                                 \/ st[e] # "none" /\ backed[e]
                                 \/ /\ st[e] = "none"
                                    /\ <<Peer(e), "HELLO_ACK">> \in net'
    BY <2>0 DEF Remember
  <2>4. ASSUME NEW e \in Ends, st'[e] = "connecting", ~backed'[e]
        PROVE  <<Peer(e), "HELLO_ACK">> \notin net'
    <3>1. st'[Peer(e)] = "none" /\ st[e] \in {"none", "connecting"}
      BY <2>0, <2>3, <2>4, StepEffect
    <3>2. <<Peer(e), "HELLO_ACK">> \notin net' \ net
      BY <2>0, <3>1, PeerIsOther, StepEffect
    <3>3. CASE st[e] = "none"
      BY <2>3, <2>4, <3>3
    <3>4. CASE st[e] = "connecting"
      BY <2>3, <2>4, <3>2, <3>4 DEF IInv, Unanswered
    <3>. QED  BY <3>1, <3>3, <3>4
  <2>5. ASSUME NEW e \in Ends, st'[e] = "connected" PROVE backed'[e]
    <3>1. \/ st[e] = "connected"
          \/ st[e] = "connecting" /\ <<Peer(e), "HELLO_ACK">> \in net
      BY <2>0, <2>5, StepEffect
    <3>2. st[e] # "none" /\ backed[e]
      BY <3>1 DEF IInv, Unanswered, ConnectedIsBacked
    <3>. QED  BY <2>3, <2>5, <3>2
  <2>. QED
    BY <2>1, <2>2, <2>4, <2>5
    DEF Shape, IInv, TypeOK, Unanswered, ConnectedIsBacked
<1>. QED  BY <1>1, <1>2

\* The invariant holds of every reachable state.
THEOREM Invariance == Spec => []IInv
<1>1. Init => IInv
  BY SessionAssumption
  DEF Init, IInv, TypeOK, RetriesLeft, Unanswered, ConnectedIsBacked
<1>. QED  BY <1>1, Inductive, PTL DEF Spec

\* Sessions, retries, FINs and keep-alive counters stay in their ranges.
THEOREM TypeCorrect == Spec => []TypeOK
BY Invariance, PTL DEF IInv

\* No session connects alone, unless to the answer its predecessor was given.
THEOREM NoneConnectsAlone == Spec => []ConnectedIsBacked
BY Invariance, PTL DEF IInv
-----------------------------------------------------------------------------
(* Two connected ends stay connected, if nothing is lost, nobody closes    *)
(* and no process ends.  What has to be shown is that no time-out is       *)
(* reached: whenever an end is about to give up, the datagram that would   *)
(* stop it is still under way, and a timely network delivers it first.     *)

\* Nothing from outside ends a session; a handshake may retry, and the silence
\* that a new session may begin with is not yet the limit.
Calm == /\ ~MayLose /\ ~MayCrash /\ ~MayClose /\ Timely
        /\ Retries > 1 /\ SilenceTicks > 1

\* No session closes, and no FIN of an earlier one is left over.
NoneCloses == \A e \in Ends : st[e] # "closing" /\ <<e, "FIN">> \notin net

\* Who has sent something has a session.
SendersLive == \A e \in Ends, k \in Kinds : <<e, k>> \in net => st[e] # "none"

\* An end that is connected first has the answer for the other one under way.
AnswerUnderWay ==
  \A e \in Ends : st[e] = "connected" =>
    \/ st[Peer(e)] = "connected"
    \/ st[Peer(e)] = "connecting" /\ <<e, "HELLO_ACK">> \in net

\* Once an end has sent a HELLO, it or its answer is under way.
HelloUnderWay ==
  \A e \in Ends : st[e] = "connecting" /\ retries[e] < Retries =>
    <<e, "HELLO">> \in net \/ <<Peer(e), "HELLO_ACK">> \in net

\* Only an end that ticked last, and so does not tick next, has had silence for
\* longer than the one tick it may begin with, unless a KEEP_ALIVE is under way.
LifeUnderWay ==
  \A e \in Ends : /\ \/ <<Peer(e), "KEEP_ALIVE">> \in net
                     \/ ahead[e]
                     \/ silence[e] <= 1
                  /\ st[e] # "connected" => silence[e] = 0

CalmInv == /\ Shape
           /\ NoneCloses /\ SendersLive
           /\ AnswerUnderWay /\ HelloUnderWay /\ LifeUnderWay

\* The part of the invariant that is more than types.
CalmRest == NoneCloses /\ SendersLive /\ AnswerUnderWay /\ HelloUnderWay /\ LifeUnderWay

\* There are two ends.
LEMMA TwoEnds ==
  ASSUME NEW e \in Ends
  PROVE  /\ Peer(e) \in Ends /\ Peer(e) # e /\ Peer(Peer(e)) = e
         /\ \A d \in Ends : d = e \/ d = Peer(e)
BY PeerIsOther, SessionAssumption

\* Beginning to connect leaves on its way whatever is needed, or, begun by a
\* HELLO, answers it.
LEMMA CalmConnect ==
  ASSUME CalmInv, NEW e \in Ends, st[e] = "none", EnterConnecting(e),
         \/ net' = net
         \/ net' = (net \ {<<Peer(e), "HELLO">>}) \cup {<<e, "HELLO_ACK">>}
  PROVE  CalmRest'
<1>1. PICK p \in Ends : /\ p = Peer(e) /\ p # e /\ Peer(p) = e
                        /\ \A d \in Ends : d = e \/ d = p
  BY TwoEnds
<1>2. /\ st'[e] = "connecting" /\ st'[p] = st[p] /\ st[p] # "connected"
      /\ retries'[e] = Retries /\ retries'[p] = retries[p]
      /\ silence'[e] = 0 /\ silence'[p] = silence[p] /\ ahead' = ahead
  BY <1>1 DEF EnterConnecting, CalmInv, Shape, AnswerUnderWay
<1>3. NoneCloses'
  <2>1. ASSUME NEW d \in Ends PROVE <<d, "FIN">> \notin net'
    BY DEF CalmInv, NoneCloses
  <2>2. ASSUME NEW d \in Ends PROVE st'[d] # "closing"
    BY <1>1, <1>2 DEF CalmInv, NoneCloses
  <2>. QED  BY <2>1, <2>2 DEF NoneCloses
<1>4. SendersLive'
  BY <1>1, <1>2 DEF CalmInv, SendersLive
<1>5. AnswerUnderWay'
  BY <1>1, <1>2 DEF AnswerUnderWay
<1>6. HelloUnderWay'
  BY <1>1, <1>2, SessionAssumption DEF CalmInv, HelloUnderWay
<1>7. LifeUnderWay'
  BY <1>1, <1>2 DEF CalmInv, LifeUnderWay
<1>. QED  BY <1>3, <1>4, <1>5, <1>6, <1>7 DEF CalmRest

\* Becoming connected, with the answer for the other end sent at once.
LEMMA CalmConnected ==
  ASSUME CalmInv, NEW e \in Ends, st[e] = "connecting", EnterConnected(e),
         <<Peer(e), "HELLO_ACK">> \in net,
         net' = (net \ {<<Peer(e), "HELLO_ACK">>}) \cup {<<e, "HELLO_ACK">>}
  PROVE  CalmRest'
<1>1. PICK p \in Ends : /\ p = Peer(e) /\ p # e /\ Peer(p) = e
                        /\ \A d \in Ends : d = e \/ d = p
  BY TwoEnds
<1>2. /\ st'[e] = "connected" /\ st'[p] = st[p]
      /\ st[p] = "connecting" \/ st[p] = "connected"
      /\ retries'[p] = retries[p]
      /\ silence'[e] = 0 \/ silence'[e] = 1
      /\ silence'[p] = silence[p] /\ ahead'[p] = ahead[p]
  BY <1>1 DEF EnterConnected, CalmInv, Shape, SendersLive, NoneCloses, Kinds
<1>3. NoneCloses'
  BY <1>1, <1>2 DEF CalmInv, NoneCloses
<1>4. SendersLive'
  BY <1>1, <1>2 DEF CalmInv, SendersLive
<1>5. AnswerUnderWay'
  BY <1>1, <1>2 DEF AnswerUnderWay
<1>6. HelloUnderWay'
  BY <1>1, <1>2 DEF CalmInv, HelloUnderWay
<1>7. LifeUnderWay'
  BY <1>1, <1>2 DEF CalmInv, LifeUnderWay
<1>. QED  BY <1>3, <1>4, <1>5, <1>6, <1>7 DEF CalmRest

\* A retry: the last one is not reached while a HELLO or its answer is under way.
LEMMA CalmRetry ==
  ASSUME Calm, CalmInv, NEW e \in Ends, RetryTick(e)
  PROVE  CalmRest'
<1>1. PICK p \in Ends : /\ p = Peer(e) /\ p # e /\ Peer(p) = e
                        /\ \A d \in Ends : d = e \/ d = p
  BY TwoEnds
<1>2. retries[e] # 1
  <2>. SUFFICES ASSUME retries[e] = 1 PROVE FALSE
    OBVIOUS
  <2>1. net = {}
    BY DEF Calm, RetryTick, InTime
  <2>2. retries[e] < Retries
    BY DEF Calm
  <2>. QED  BY <2>1, <2>2 DEF RetryTick, CalmInv, HelloUnderWay
<1>3. /\ st[e] = "connecting" /\ net' = net \cup {<<e, "HELLO">>}
      /\ retries'[p] = retries[p]
      /\ UNCHANGED <<st, silence, ahead>>
  BY <1>1, <1>2 DEF RetryTick, CalmInv, Shape
<1>4. NoneCloses' /\ SendersLive' /\ AnswerUnderWay'
  BY <1>3 DEF CalmInv, NoneCloses, SendersLive, AnswerUnderWay
<1>5. HelloUnderWay'
  BY <1>1, <1>3 DEF CalmInv, HelloUnderWay
<1>6. LifeUnderWay'
  BY <1>3 DEF CalmInv, LifeUnderWay
<1>. QED  BY <1>4, <1>5, <1>6 DEF CalmRest

\* A keep-alive tick: an end whose silence has lasted is about to be saved by the
\* KEEP_ALIVE or the answer under way, so it does not close.
LEMMA CalmTick ==
  ASSUME Calm, CalmInv, NEW e \in Ends, KeepAliveTick(e)
  PROVE  CalmRest'
<1>1. PICK p \in Ends : /\ p = Peer(e) /\ p # e /\ Peer(p) = e
                        /\ \A d \in Ends : d = e \/ d = p
  BY TwoEnds
<1>2. ~Silent(e)
  <2>. SUFFICES ASSUME Silent(e) PROVE FALSE
    OBVIOUS
  <2>1. net = {} /\ st[e] = "connected" /\ (st[p] = "connected" => ~ahead[e])
    BY <1>1 DEF Calm, KeepAliveTick, InTime
  <2>2. silence[e] > 1
    BY SessionAssumption DEF Calm, Silent, CalmInv, Shape
  <2>3. st[p] = "connected"
    BY <1>1, <2>1 DEF CalmInv, AnswerUnderWay
  <2>4. silence[e] <= 1
    BY <2>1, <2>3 DEF CalmInv, LifeUnderWay
  <2>5. silence[e] \in Int
    BY DEF CalmInv, Shape
  <2>. QED  BY <2>2, <2>4, <2>5
<1>3. /\ st[e] = "connected" /\ net' = net \cup {<<e, "KEEP_ALIVE">>}
      /\ silence'[p] = silence[p] /\ ahead'[e]
      /\ UNCHANGED <<st, retries>>
  BY <1>1, <1>2 DEF KeepAliveTick, CalmInv, Shape
<1>4. NoneCloses' /\ SendersLive' /\ AnswerUnderWay' /\ HelloUnderWay'
  BY <1>3 DEF CalmInv, NoneCloses, SendersLive, AnswerUnderWay, HelloUnderWay
<1>5. LifeUnderWay'
  BY <1>1, <1>3 DEF CalmInv, LifeUnderWay
<1>. QED  BY <1>4, <1>5 DEF CalmRest

\* Hearing a datagram: it takes away what was under way only by doing what that
\* was under way for.
LEMMA CalmReceive ==
  ASSUME CalmInv, NEW e \in Ends, NEW kind \in Kinds, Receive(e, kind)
  PROVE  CalmRest'
<1>1. PICK p \in Ends : /\ p = Peer(e) /\ p # e /\ Peer(p) = e
                        /\ \A d \in Ends : d = e \/ d = p
  BY TwoEnds
<1>. DEFINE now == IF Creates(e, kind) THEN "connecting" ELSE st[e]
            rest == net \ {<<p, kind>>}
<1>2. <<p, kind>> \in net /\ Handle(e, now, kind, rest)
  BY <1>1 DEF Receive
<1>3. kind # "FIN"
  BY <1>2 DEF CalmInv, NoneCloses
<1>4. CASE /\ now = "connecting" /\ kind = "HELLO_ACK"
           /\ EnterConnected(e)
           /\ net' = rest \cup {<<e, "HELLO_ACK">>}
  <2>1. st[e] = "connecting"
    BY <1>4 DEF Creates
  <2>. QED  BY <1>1, <1>2, <1>4, <2>1, CalmConnected
<1>5. CASE /\ now = "connected" /\ Refreshes(kind)
           /\ silence' = [silence EXCEPT ![e] = 0]
           /\ net' = rest
           /\ UNCHANGED <<st, retries, fins, ahead>>
  <2>1. kind = "KEEP_ALIVE" /\ silence'[e] = 0 /\ silence'[p] = silence[p]
    BY <1>1, <1>5 DEF Refreshes, CalmInv, Shape
  <2>2. NoneCloses' /\ SendersLive' /\ AnswerUnderWay' /\ HelloUnderWay'
    BY <1>5, <2>1 DEF CalmInv, NoneCloses, SendersLive, AnswerUnderWay, HelloUnderWay
  <2>3. LifeUnderWay'
    BY <1>1, <1>5, <2>1 DEF CalmInv, LifeUnderWay
  <2>. QED  BY <2>2, <2>3 DEF CalmRest
<1>6. CASE /\ Creates(e, kind) /\ EnterConnecting(e)
           /\ net' = rest \cup {<<e, "HELLO_ACK">>}
  BY <1>1, <1>6, CalmConnect DEF Creates
<1>7. CASE /\ ~(now = "connecting" /\ kind = "HELLO_ACK")
           /\ ~(now = "connected" /\ (Refreshes(kind) \/ kind = "FIN"))
           /\ ~Creates(e, kind)
           /\ UNCHANGED <<st, retries, fins, silence, ahead>>
           /\ net' = IF Answers(e, now, kind) THEN rest \cup {<<e, "HELLO_ACK">>}
                                              ELSE rest
  <2>1. /\ st[e] = now
        /\ st[e] # "none" \/ kind # "HELLO"
        /\ rest \subseteq net'
        /\ \A d \in Ends, k \in Kinds : <<d, k>> \in net' =>
             \/ <<d, k>> \in net
             \/ d = e /\ k = "HELLO_ACK" /\ st[e] = "connecting"
    BY <1>7 DEF Creates, Answers
  <2>2. NoneCloses'
    BY <1>7, <2>1 DEF CalmInv, NoneCloses, Kinds
  <2>3. SendersLive'
    BY <1>7, <2>1 DEF CalmInv, SendersLive
  <2>4. AnswerUnderWay'
    BY <1>1, <1>7, <2>1 DEF CalmInv, AnswerUnderWay
  <2>5. HelloUnderWay'
    BY <1>1, <1>2, <1>7, <2>1 DEF CalmInv, HelloUnderWay, AnswerUnderWay, SendersLive,
       NoneCloses, Answers, Shape
  <2>6. LifeUnderWay'
    BY <1>1, <1>2, <1>7, <2>1 DEF CalmInv, LifeUnderWay, Refreshes, Shape
  <2>. QED  BY <2>2, <2>3, <2>4, <2>5, <2>6 DEF CalmRest
<1>. HIDE DEF now, rest
<1>8. /\ Creates(e, kind) => now = "connecting" /\ kind = "HELLO"
      /\ ~Creates(e, kind) => now = st[e]
  BY DEF now, Creates
<1>. QED  BY <1>2, <1>3, <1>4, <1>5, <1>6, <1>7, <1>8 DEF Handle, Answers

\* A connected session ends only by closing, or with its process.
LEMMA ConnectedCloses ==
  ASSUME Shape, Step, ~MayCrash, NEW e \in Ends, st[e] = "connected"
  PROVE  st'[e] \in {"connected", "closing"}
<1>1. ASSUME NEW d \in Ends, NEW rest, NEW out, EnterClosing(d, rest, out)
      PROVE  st'[e] \in {"connected", "closing"}
  BY <1>1 DEF EnterClosing, Shape
<1>2. ASSUME NEW d \in Ends, EnterConnected(d) PROVE st'[e] = "connected"
  BY <1>2 DEF EnterConnected, Shape
<1>3. ASSUME NEW d \in Ends, EnterConnecting(d), st[d] = "none"
      PROVE  st'[e] = "connected"
  BY <1>3 DEF EnterConnecting, Shape
<1>4. ASSUME NEW d \in Ends, FinTick(d) PROVE st'[e] = "connected"
  BY <1>4 DEF FinTick, Shape
<1>5. ASSUME NEW d \in Ends, Connect(d) PROVE st'[e] = "connected"
  BY <1>3, <1>5 DEF Connect
<1>6. ASSUME NEW d \in Ends, Close(d) \/ RetryTick(d) \/ KeepAliveTick(d)
      PROVE  st'[e] \in {"connected", "closing"}
  BY <1>1, <1>6 DEF Close, RetryTick, KeepAliveTick
<1>7. ASSUME NEW d \in Ends, NEW kind \in Kinds, Receive(d, kind)
      PROVE  st'[e] \in {"connected", "closing"}
  BY <1>1, <1>2, <1>3, <1>7 DEF Receive, Handle, Creates
<1>8. ASSUME NEW d \in net, Lose(d) PROVE st'[e] = "connected"
  BY <1>8 DEF Lose
<1>. QED  BY <1>4, <1>5, <1>6, <1>7, <1>8 DEF Step, Crash

\* Every step of a calm system keeps the invariant.
LEMMA CalmInductive == Calm /\ CalmInv /\ [Next]_vars => CalmInv'
<1>. SUFFICES ASSUME Calm, CalmInv, [Next]_vars PROVE CalmInv'
  OBVIOUS
<1>1. CASE UNCHANGED vars
  BY <1>1 DEF vars, CalmInv, Shape, RetriesLeft, NoneCloses, SendersLive,
              AnswerUnderWay, HelloUnderWay, LifeUnderWay
<1>2. CASE Step
  <2>1. Shape'
    BY <1>2, StepShape DEF CalmInv
  <2>2. ASSUME NEW e \in Ends, Connect(e) PROVE CalmRest'
    BY <2>2, CalmConnect DEF Connect
  <2>3. ASSUME NEW e \in Ends PROVE ~Close(e) /\ ~Crash(e) /\ ~FinTick(e)
    BY DEF Calm, Close, Crash, FinTick, CalmInv, NoneCloses
  <2>4. ASSUME NEW d \in net PROVE ~Lose(d)
    BY DEF Calm, Lose
  <2>5. CalmRest'
    BY <1>2, <2>2, <2>3, <2>4, CalmRetry, CalmTick, CalmReceive DEF Step
  <2>. QED  BY <2>1, <2>5 DEF CalmInv, CalmRest
<1>. QED  BY <1>1, <1>2 DEF Next

\* If nothing is lost, nobody closes, no process ends and delays are shorter than
\* the time-outs, no session takes its peer for dead: two ends that are connected
\* stay so, however their ticks, retries and datagrams interleave.
THEOREM NeitherTakenForDead == Calm => (Spec => KeptAlive)
<1>. SUFFICES ASSUME Calm PROVE Spec => KeptAlive
  OBVIOUS
<1>1. Init => CalmInv
  BY SessionAssumption
  DEF Init, CalmInv, Shape, RetriesLeft, NoneCloses, SendersLive, AnswerUnderWay,
      HelloUnderWay, LifeUnderWay
<1>2. CalmInv /\ [Next]_vars => CalmInv'
  BY CalmInductive
<1>3. CalmInv /\ CalmInv' /\ [Next]_vars => [Both => Both']_vars
  <2>. SUFFICES ASSUME CalmInv, CalmInv', Step, Both, NEW e \in Ends
                PROVE  st'[e] = "connected"
    BY DEF Both, Next
  <2>1. st'[e] \in {"connected", "closing"}
    BY ConnectedCloses DEF Calm, CalmInv, Both
  <2>. QED  BY <2>1 DEF CalmInv, NoneCloses
<1>. QED  BY <1>1, <1>2, <1>3, PTL DEF Spec, KeptAlive
=============================================================================
