---------------------------- MODULE DataTransfer ----------------------------
(***************************************************************************)
(* One direction of a connected session: the sender's Transmission objects *)
(* (retransmission timer, sliding window, selective acknowledgements), the *)
(* receiver's message collector (reassembly, limits, expiry) and the UDP   *)
(* path between them, which loses, delays, reorders and, if MayDuplicate,  *)
(* duplicates datagrams.  Source: transport/session/behaviors/connected.ts.*)
(* The two directions of a session share nothing but onExit.               *)
(*                                                                         *)
(* A message stands for its 32-bit uid, taken to be unique; so a collected *)
(* entry's total always equals that of the datagram that names it.  A      *)
(* collector entry exists exactly when it holds a part: the handler that   *)
(* creates one stores a part in it or deletes it before it returns.        *)
(*                                                                         *)
(* A definition marked MUTANT is a plausible bug.  No other definition     *)
(* uses it: put in place of the one it names, it makes a property fail.    *)
(***************************************************************************)
EXTENDS Integers, FiniteSets

CONSTANTS
  Msgs,          \* messages the application may pass to Session.sendData
  Size,          \* Size[m]: length in bytes of the payload of m
  PartBytes,     \* MessageBuffer.maxPayloadSize            (800)
  MaxBytes,      \* MAX_MESSAGE_SIZE_BYTES                  (10 MiB)
  Window,        \* Transmission.slidingWindowSize          (20)
  MaxInFlight,   \* MAX_IN_FLIGHT_MESSAGES                  (64)
  TTLTicks,      \* cleanup ticks an idle entry survives    (30 s / 5 s)
  MayDuplicate   \* may the network deliver a datagram more than once?

ASSUME TransferAssumption ==
  /\ Size \in [Msgs -> Nat]
  /\ PartBytes \in Nat \ {0}
  /\ MaxBytes \in Nat \ {0}
  /\ Window \in Nat \ {0}
  /\ MaxInFlight \in Nat \ {0}
  /\ TTLTicks \in Nat \ {0}
  /\ MayDuplicate \in BOOLEAN

CeilDiv(a, b) == (a + b - 1) \div b
Total(m)      == CeilDiv(Size[m], PartBytes)
MaxParts      == CeilDiv(MaxBytes, PartBytes)
Parts(m)      == 0 .. Total(m) - 1
PartLength(m, i) ==
  IF i = Total(m) - 1 THEN Size[m] - i * PartBytes ELSE PartBytes

Datagrams == UNION {{m} \X Parts(m) : m \in Msgs}
Idle == -1       \* value of loop[m] while no resend loop of m is suspended

VARIABLES
  senderUp, receiverUp, \* is that end's session in state "connected"?
  tx,         \* tx[m]: life of m's Transmission
  acked,      \* acked[m]: keys of dataAckMap
  greatest,   \* greatest[m]: greatestSequentialAckNum
  timer,      \* timer[m]: is resendTimer armed?
  loop,       \* loop[m]: index at which the suspended resend loop continues
  resolved,   \* messages whose sendData promise has resolved
  parts,      \* parts[m]: sequence numbers held by m's collector entry
  bytes,      \* bytes[m]: receivedBytes of that entry
  age,        \* age[m]: cleanup ticks since its lastActivityAt
  dataNet, ackNet,      \* DATA and DATA_ACK datagrams in flight
  emitted,    \* history: messages the receiver has emitted "receive" for
  dropped     \* history: messages a partial entry of which was discarded

sessionVars  == <<senderUp, receiverUp>>
senderVars   == <<tx, acked, greatest, timer, loop, resolved>>
receiverVars == <<parts, bytes, age, emitted, dropped>>
vars == <<sessionVars, senderVars, receiverVars, dataNet, ackNet>>

Init ==
  /\ senderUp = TRUE /\ receiverUp = TRUE
  /\ tx = [m \in Msgs |-> "unsent"]
  /\ acked = [m \in Msgs |-> {}]
  /\ greatest = [m \in Msgs |-> -1]
  /\ timer = [m \in Msgs |-> FALSE]
  /\ loop = [m \in Msgs |-> Idle]
  /\ resolved = {}
  /\ parts = [m \in Msgs |-> {}]
  /\ bytes = [m \in Msgs |-> 0]
  /\ age = [m \in Msgs |-> 0]
  /\ dataNet = {} /\ ackNet = {}
  /\ emitted = {} /\ dropped = {}

-----------------------------------------------------------------------------
(* The network. *)

\* What remains of net once datagram d has been delivered.
AfterDelivery(net, d) ==
  {net \ {d}} \cup (IF MayDuplicate THEN {net} ELSE {})

LoseData(d) == /\ d \in dataNet
               /\ dataNet' = dataNet \ {d}
               /\ UNCHANGED <<sessionVars, senderVars, receiverVars, ackNet>>

LoseAck(d) == /\ d \in ackNet
              /\ ackNet' = ackNet \ {d}
              /\ UNCHANGED <<sessionVars, senderVars, receiverVars, dataNet>>

-----------------------------------------------------------------------------
(* The sender. *)

Running(m) == tx[m] = "active"     \* ~isStopped

\* The first burst of a transmission, and the guard of the resend loop.
BurstPastEnd(m) == {i \in 0 .. Total(m) : i < Window}      \* MUTANT of Burst
Burst(m) == {i \in Parts(m) : i < Window}

ResendsAll(m, i) == i < Total(m)                    \* MUTANT of InResendWindow
ResendsTooFew(m, i) ==                              \* MUTANT of InResendWindow
  i < greatest[m] + Window - 1 /\ i < Total(m)
InResendWindow(m, i) == i < greatest[m] + Window /\ i < Total(m)

\* MUTANT of Send: isDisposed is not looked at.
SendWhenDisposed(m) ==
  /\ tx[m] = "unsent"
  /\ tx' = [tx EXCEPT ![m] = "active"]
  /\ timer' = [timer EXCEPT ![m] = TRUE]
  /\ dataNet' = dataNet \cup ({m} \X Burst(m))
  /\ UNCHANGED <<sessionVars, acked, greatest, loop, resolved, receiverVars,
                 ackNet>>

\* Session.sendData: register the message, send the first window of parts.
Send(m) ==
  /\ senderUp /\ tx[m] = "unsent"
  /\ tx' = [tx EXCEPT ![m] = "active"]
  /\ timer' = [timer EXCEPT ![m] = TRUE]
  /\ dataNet' = dataNet \cup ({m} \X Burst(m))
  /\ UNCHANGED <<sessionVars, acked, greatest, loop, resolved, receiverVars,
                 ackNet>>

\* resend's loop from index i up to its next sleep or its finally block, the
\* timer being armed or not.
ResendFrom(m, i, armed) ==
  \/ /\ Running(m) /\ InResendWindow(m, i)
     /\ dataNet' = dataNet \cup (IF i \in acked[m] THEN {} ELSE {<<m, i>>})
     /\ loop' = [loop EXCEPT ![m] = i + 1]
     /\ timer' = [timer EXCEPT ![m] = armed]
  \/ /\ ~(Running(m) /\ InResendWindow(m, i))
     /\ loop' = [loop EXCEPT ![m] = Idle]
     /\ timer' = [timer EXCEPT ![m] = Running(m) \/ armed]
     /\ UNCHANGED dataNet

ResendTimerFires(m) ==
  /\ timer[m]
  /\ IF loop[m] = Idle /\ Running(m)
     THEN ResendFrom(m, greatest[m] + 1, FALSE)
     ELSE timer' = [timer EXCEPT ![m] = FALSE] /\ UNCHANGED <<loop, dataNet>>
  /\ UNCHANGED <<sessionVars, tx, acked, greatest, resolved, receiverVars,
                 ackNet>>

ResendWakes(m) ==
  /\ loop[m] # Idle
  /\ ResendFrom(m, loop[m], timer[m])
  /\ UNCHANGED <<sessionVars, tx, acked, greatest, resolved, receiverVars,
                 ackNet>>

\* MUTANT of ExtendsTo: the greatest acknowledgement is taken for a cumulative one.
ExtendsToGreatest(g, acks, h) == h >= g /\ \A k \in acks : k <= h
\* MUTANT of ExtendsTo: "if" for "while", a gap that closes is passed by one.
ExtendsByOne(g, acks, h) == h = IF g + 1 \in acks THEN g + 1 ELSE g
\* The last of the parts acknowledged without a gap, from g on.
ExtendsTo(g, acks, h) ==
  h >= g /\ (g + 1) .. h \subseteq acks /\ h + 1 \notin acks

\* DataSender.collectDataAck: record the acknowledgement, resolve the promise
\* on the first one, finish on the last one.
CollectAck(m, i) ==
  /\ acked' = [acked EXCEPT ![m] = @ \cup {i}]
  /\ \E h \in greatest[m] .. Total(m) - 1 :
       /\ ExtendsTo(greatest[m], acked'[m], h)
       /\ greatest' = [greatest EXCEPT ![m] = h]
       /\ tx' = [tx EXCEPT ![m] = IF h + 1 = Total(m) THEN "fin" ELSE @]
       /\ timer' = [timer EXCEPT ![m] = h + 1 # Total(m)]
  /\ resolved' = IF acked[m] = {} THEN resolved \cup {m} ELSE resolved
  /\ UNCHANGED loop

ReceiveAck(m, i) ==
  /\ <<m, i>> \in ackNet
  /\ ackNet' \in AfterDelivery(ackNet, <<m, i>>)
  /\ IF senderUp /\ Running(m) THEN CollectAck(m, i)
                               ELSE UNCHANGED senderVars
  /\ UNCHANGED <<sessionVars, receiverVars, dataNet>>

-----------------------------------------------------------------------------
(* The receiver. *)

Collecting == {m \in Msgs : parts[m] # {}}     \* keys of messageCollector

\* MUTANT of Accepts: MAX_IN_FLIGHT_MESSAGES is not enforced.
AcceptsAny(m) == receiverUp /\ Total(m) <= MaxParts
\* The datagram is valid and its message has, or can get, a collector entry.
Accepts(m) ==
  /\ receiverUp
  /\ Total(m) <= MaxParts
  /\ parts[m] # {} \/ Cardinality(Collecting) < MaxInFlight

FitsAlways(m, i) == TRUE                                      \* MUTANT of Fits
Fits(m, i) == bytes[m] + PartLength(m, i) <= MaxBytes

Complete(m, held) == Cardinality(held) = Total(m) /\ Parts(m) \subseteq held

SetEntry(m, held, size) ==
  /\ parts' = [parts EXCEPT ![m] = held]
  /\ bytes' = [bytes EXCEPT ![m] = size]
  /\ age' = [age EXCEPT ![m] = 0]

IgnorePart(m) ==
  ~Accepts(m) /\ UNCHANGED <<receiverVars, ackNet>>

\* MUTANT of RepeatPart: a part is acknowledged before it is looked up.
AckUnstored(m, i) ==
  /\ Accepts(m)
  /\ ackNet' = ackNet \cup {<<m, i>>}
  /\ UNCHANGED <<parts, bytes, age, emitted, dropped>>
RepeatPart(m, i) ==
  /\ Accepts(m) /\ i \in parts[m]
  /\ age' = [age EXCEPT ![m] = 0]
  /\ ackNet' = ackNet \cup {<<m, i>>}
  /\ UNCHANGED <<parts, bytes, emitted, dropped>>

OverflowPart(m, i) ==
  /\ Accepts(m) /\ i \notin parts[m] /\ ~Fits(m, i)
  /\ SetEntry(m, {}, 0)
  /\ dropped' = dropped \cup {m}
  /\ UNCHANGED <<emitted, ackNet>>

StorePart(m, i) ==
  /\ Accepts(m) /\ i \notin parts[m] /\ Fits(m, i)
  /\ ackNet' = ackNet \cup {<<m, i>>}
  /\ LET held == parts[m] \cup {i} IN
       IF Complete(m, held)
       THEN SetEntry(m, {}, 0) /\ emitted' = emitted \cup {m}
       ELSE /\ SetEntry(m, held, bytes[m] + PartLength(m, i))
            /\ UNCHANGED emitted
  /\ UNCHANGED dropped

\* collectDataMessagePart for DATA part i of m.
ReceiveData(m, i) ==
  /\ <<m, i>> \in dataNet
  /\ dataNet' \in AfterDelivery(dataNet, <<m, i>>)
  /\ \/ IgnorePart(m)
     \/ RepeatPart(m, i)
     \/ OverflowPart(m, i)
     \/ StorePart(m, i)
  /\ UNCHANGED <<sessionVars, senderVars>>

Discard(gone) ==
  /\ parts' = [m \in Msgs |-> IF m \in gone THEN {} ELSE parts[m]]
  /\ bytes' = [m \in Msgs |-> IF m \in gone THEN 0 ELSE bytes[m]]
  /\ dropped' = dropped \cup gone

\* MUTANT of CleanupRuns: the interval is cleared once a message is complete.
CleanupUntilEmitted == receiverUp /\ emitted = {}
\* The cleanup interval runs as long as the session is connected.
CleanupRuns == receiverUp

\* removeExpiredMessages.
CleanupTick ==
  /\ CleanupRuns /\ Collecting # {}
  /\ LET expired == {m \in Collecting : age[m] + 1 >= TTLTicks} IN
       /\ Discard(expired)
       /\ age' = [m \in Msgs |->
                    IF m \in Collecting \ expired THEN age[m] + 1 ELSE 0]
  /\ UNCHANGED <<sessionVars, senderVars, emitted, dataNet, ackNet>>

-----------------------------------------------------------------------------
(* Leaving "connected": a close, a FIN, or the keep-alive timeout. *)

\* MUTANT of Disposed: cancel() stops the timer and does not mark itself cancelled.
DisposedRunning(m) == tx[m]
\* DataSender.dispose: every transmission still in the map is cancelled.
Disposed(m) == IF tx[m] = "active" THEN "cancelled" ELSE tx[m]

SenderExit ==
  /\ senderUp
  /\ senderUp' = FALSE
  /\ tx' = [m \in Msgs |-> Disposed(m)]
  /\ timer' = [m \in Msgs |-> FALSE]
  /\ UNCHANGED <<receiverUp, acked, greatest, loop, resolved, receiverVars,
                 dataNet, ackNet>>

ReceiverExit ==
  /\ receiverUp
  /\ receiverUp' = FALSE
  /\ Discard(Collecting)
  /\ age' = [m \in Msgs |-> 0]
  /\ UNCHANGED <<senderUp, senderVars, emitted, dataNet, ackNet>>

Next ==
  \/ \E m \in Msgs : Send(m) \/ ResendTimerFires(m) \/ ResendWakes(m)
  \/ \E m \in Msgs : \E i \in Parts(m) : ReceiveData(m, i) \/ ReceiveAck(m, i)
  \/ CleanupTick
  \/ \E d \in Datagrams : LoseData(d) \/ LoseAck(d)
  \/ SenderExit \/ ReceiverExit

Spec == Init /\ [][Next]_vars

\* Node runs every timer that is due, and a path that is retried for ever lets
\* a datagram through now and then.  Nothing obliges a session to close.
Fairness ==
  /\ \A m \in Msgs : WF_vars(ResendTimerFires(m)) /\ WF_vars(ResendWakes(m))
  /\ \A m \in Msgs : \A i \in Parts(m) :
       SF_vars(ReceiveData(m, i)) /\ SF_vars(ReceiveAck(m, i))
  /\ WF_vars(CleanupTick)

FairSpec == Spec /\ Fairness

-----------------------------------------------------------------------------
(* Properties. *)

TypeOK ==
  /\ senderUp \in BOOLEAN /\ receiverUp \in BOOLEAN
  /\ tx \in [Msgs -> {"unsent", "active", "fin", "cancelled"}]
  /\ acked \in [Msgs -> SUBSET Nat]
  /\ greatest \in [Msgs -> Nat \cup {-1}]
  /\ timer \in [Msgs -> BOOLEAN]
  /\ loop \in [Msgs -> Nat \cup {Idle}]
  /\ resolved \subseteq Msgs
  /\ parts \in [Msgs -> SUBSET Nat]
  /\ bytes \in [Msgs -> Int]
  /\ age \in [Msgs -> Nat]
  /\ dataNet \subseteq Datagrams /\ ackNet \subseteq Datagrams
  /\ emitted \subseteq Msgs /\ dropped \subseteq Msgs

\* A part the sender counts as acknowledged, or an acknowledgement on its way,
\* vouches for a part the receiver still holds, unless its message has been
\* handed over or a partial entry of it has been discarded (size limit, expiry,
\* close): the sender never stops resending a part that nobody has.
AcknowledgedIsHeld ==
  \A d \in Datagrams :
    d \in ackNet \/ d[2] \in acked[d[1]] =>
      d[2] \in parts[d[1]] \/ d[1] \in emitted \cup dropped

\* A transmission that finished (every part acknowledged) was emitted by the
\* receiver, unless the receiver discarded a partial entry of it meanwhile: the
\* expiry of an entry whose parts are acknowledged loses the message silently.
FinishedMeansDelivered ==
  \A m \in Msgs : tx[m] = "fin" => m \in emitted \cup dropped

\* No lost wake-up: an unfinished transmission always has its timer armed or a
\* resend loop that will arm it; and no timer outlives its transmission, across
\* acknowledgements that reset the timer while a resend loop is suspended.
ResendPending ==
  \A m \in Msgs : /\ Running(m) => timer[m] \/ loop[m] # Idle
                  /\ timer[m] => Running(m)

\* Every DATA datagram in flight is within the window beyond the last part
\* acknowledged without a gap, whatever acknowledgements arrive while the
\* resend loop sleeps.
WindowRespected ==
  \A d \in dataNet : d[2] <= greatest[d[1]] + Window

\* An entry is never left complete in the collector (its "receive" would never
\* be emitted), and entries stay within the slot and size limits.
CollectorBounded ==
  /\ \A m \in Collecting : Cardinality(parts[m]) < Total(m)
  /\ \A m \in Collecting : bytes[m] <= MaxBytes
  /\ Cardinality(Collecting) <= MaxInFlight

\* The messages the receiver's limits let through.
Deliverable(m) == Total(m) \in 1 .. MaxParts /\ Size[m] <= MaxBytes

\* An empty, oversized or overlong message is never handed to the application.
OnlyDeliverableEmitted == \A m \in emitted : Deliverable(m)

\* While both ends stay connected, a message of a size the receiver accepts is
\* finally emitted or had a partial entry discarded.
EventuallyDelivered ==
  \A m \in Msgs : Deliverable(m) =>
    (Running(m) ~> m \in emitted \cup dropped \/ ~senderUp \/ ~receiverUp)

\* ... and its sender finally stops retransmitting, even if the entry was
\* discarded and rebuilt from late duplicates after the emission.
EventuallyFinished ==
  \A m \in Msgs : Total(m) \in 1 .. MaxParts =>
    (Running(m) ~> ~Running(m) \/ ~receiverUp)

\* Entries rebuilt from late duplicates of a message nobody sends any more do
\* not occupy a collector slot for ever.
Quiet(m) == /\ tx[m] \in {"fin", "cancelled"}
            /\ \A i \in Parts(m) : <<m, i>> \notin dataNet

StaleEntriesExpire == \A m \in Msgs : Quiet(m) ~> parts[m] = {}

\* What all this amounts to for the two applications.
Channel == INSTANCE MessageChannel WITH
  sending   <- senderUp,
  receiving <- receiverUp,
  sent      <- {m \in Msgs : tx[m] # "unsent"},
  heard     <- resolved,
  finished  <- {m \in Msgs : tx[m] = "fin"},
  delivered <- emitted,
  lost      <- dropped

ChannelSpec == Channel!Spec
=============================================================================
