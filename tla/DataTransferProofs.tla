------------------------- MODULE DataTransferProofs -------------------------
(***************************************************************************)
(* The safety of DataTransfer for every set of messages, every size, every *)
(* window and every limit, whatever the network loses or duplicates.       *)
(***************************************************************************)
EXTENDS DataTransfer, FiniteSetTheorems, TLAPS

(***************************************************************************)
(* The inductive invariant.  The properties do not carry themselves over a *)
(* step: FinishedMeansDelivered needs to know that a finished transmission *)
(* has every part acknowledged, and that an entry which would hold all     *)
(* those parts is never left in the collector.                             *)
(***************************************************************************)

\* Parts are numbered below the total, in the sender's maps and the receiver's.
InRange ==
  \A m \in Msgs : /\ acked[m] \subseteq Parts(m)
                  /\ parts[m] \subseteq Parts(m)

\* greatestSequentialAckNum is reached without a gap.
Gapless == \A m \in Msgs : 0 .. greatest[m] \subseteq acked[m]

\* A finished transmission had parts, and all of them are acknowledged.
FinHasAll ==
  \A m \in Msgs : tx[m] = "fin" => Total(m) > 0 /\ Parts(m) \subseteq acked[m]

\* No entry is left complete.
Incomplete == \A m \in Msgs : parts[m] # {} => ~(Parts(m) \subseteq parts[m])

IInv ==
  /\ TypeOK
  /\ InRange
  /\ Gapless
  /\ FinHasAll
  /\ Incomplete
  /\ AcknowledgedIsHeld

-----------------------------------------------------------------------------
(* Arithmetic of parts. *)

\* A payload is cut into a natural number of parts, zero for an empty one.
LEMMA TotalIsNat == \A m \in Msgs : Total(m) \in Nat
<1>. TAKE m \in Msgs
<1>1. Size[m] \in Nat /\ PartBytes \in Nat /\ PartBytes > 0
  BY TransferAssumption
<1>. QED  BY <1>1 DEF Total, CeilDiv

\* A set of part numbers that is as large as the total has them all: the test
\* "if (!part) return" of collectDataMessagePart never fires, and a complete
\* entry is recognised by its size.
LEMMA FullIsComplete ==
  ASSUME NEW m \in Msgs, NEW held, held \subseteq Parts(m)
  PROVE  /\ IsFiniteSet(held)
         /\ Cardinality(held) \in Nat
         /\ Cardinality(held) <= Total(m)
         /\ Cardinality(held) = Total(m) <=> Parts(m) \subseteq held
<1>1. Total(m) \in Nat
  BY TotalIsNat
<1>2. IsFiniteSet(Parts(m)) /\ Cardinality(Parts(m)) = Total(m)
  <2>1. 0 \in Int /\ Total(m) - 1 \in Int
    BY <1>1
  <2>2. IsFiniteSet(Parts(m))
    BY <2>1, FS_Interval DEF Parts
  <2>3. Cardinality(Parts(m)) = IF 0 > Total(m) - 1 THEN 0
                                ELSE (Total(m) - 1) - 0 + 1
    BY <2>1, FS_Interval DEF Parts
  <2>. QED  BY <1>1, <2>2, <2>3
<1>3. /\ IsFiniteSet(held)
      /\ Cardinality(held) <= Total(m)
      /\ Cardinality(held) = Total(m) => held = Parts(m)
  BY <1>2, FS_Subset
<1>4. Cardinality(held) \in Nat
  BY <1>3, FS_CardinalityType
<1>5. Parts(m) \subseteq held => held = Parts(m)
  OBVIOUS
<1>. QED  BY <1>2, <1>3, <1>4, <1>5

-----------------------------------------------------------------------------
(* Type correctness. *)


\* Delivery adds nothing to the network.
LEMMA DeliveryShrinks ==
  ASSUME NEW net, NEW d, NEW rest \in AfterDelivery(net, d)
  PROVE  rest \subseteq net
BY DEF AfterDelivery

\* A resend loop leaves the variables it writes within their types.
LEMMA ResendTypeOK ==
  ASSUME TypeOK, NEW m \in Msgs, NEW i \in Nat, NEW armed \in BOOLEAN,
         ResendFrom(m, i, armed)
  PROVE  /\ timer' \in [Msgs -> BOOLEAN]
         /\ loop' \in [Msgs -> Nat \cup {Idle}]
         /\ dataNet' \subseteq Datagrams
<1>1. Total(m) \in Nat
  BY TotalIsNat
<1>2. CASE Running(m) /\ InResendWindow(m, i)
  <2>1. i \in Parts(m)
    BY <1>1, <1>2 DEF InResendWindow, Parts
  <2>. QED  BY <1>2, <2>1 DEF ResendFrom, TypeOK, Datagrams
<1>3. CASE ~(Running(m) /\ InResendWindow(m, i))
  BY <1>3 DEF ResendFrom, TypeOK, Running
<1>. QED  BY <1>2, <1>3

\* The states of DataTransfer have the types the code gives its fields, whatever
\* is sent, lost, duplicated or closed.
LEMMA TypeInductive == TypeOK /\ [Next]_vars => TypeOK'
<1>. SUFFICES ASSUME TypeOK, [Next]_vars PROVE TypeOK'
  OBVIOUS
<1>1. ASSUME NEW m \in Msgs, Send(m) PROVE TypeOK'
  <2>1. {m} \X Burst(m) \subseteq Datagrams
    BY DEF Burst, Datagrams
  <2>. QED  BY <1>1, <2>1 DEF Send, TypeOK, sessionVars, receiverVars
<1>2. ASSUME NEW m \in Msgs, ResendTimerFires(m) PROVE TypeOK'
  <2>1. greatest[m] + 1 \in Nat
    BY DEF TypeOK
  <2>2. /\ timer' \in [Msgs -> BOOLEAN]
        /\ loop' \in [Msgs -> Nat \cup {Idle}]
        /\ dataNet' \subseteq Datagrams
    <3>1. CASE loop[m] = Idle /\ Running(m)
      BY <1>2, <2>1, <3>1, ResendTypeOK DEF ResendTimerFires
    <3>2. CASE ~(loop[m] = Idle /\ Running(m))
      BY <1>2, <3>2 DEF ResendTimerFires, TypeOK
    <3>. QED  BY <3>1, <3>2
  <2>. QED  BY <1>2, <2>2 DEF ResendTimerFires, TypeOK, sessionVars, receiverVars
<1>3. ASSUME NEW m \in Msgs, ResendWakes(m) PROVE TypeOK'
  <2>1. loop[m] \in Nat /\ timer[m] \in BOOLEAN
    BY <1>3 DEF ResendWakes, TypeOK
  <2>2. /\ timer' \in [Msgs -> BOOLEAN]
        /\ loop' \in [Msgs -> Nat \cup {Idle}]
        /\ dataNet' \subseteq Datagrams
    BY <1>3, <2>1, ResendTypeOK DEF ResendWakes
  <2>. QED  BY <1>3, <2>2 DEF ResendWakes, TypeOK, sessionVars, receiverVars
<1>4. ASSUME NEW m \in Msgs, NEW i \in Parts(m), ReceiveData(m, i) PROVE TypeOK'
  <2>1. dataNet' \subseteq Datagrams
    BY <1>4, DeliveryShrinks DEF ReceiveData, TypeOK
  <2>2. /\ i \in Nat /\ <<m, i>> \in Datagrams
        /\ Total(m) \in Int /\ Size[m] \in Int /\ PartBytes \in Int
    BY TotalIsNat, TransferAssumption DEF Parts, Datagrams
  <2>3. PartLength(m, i) \in Int
    BY <2>2 DEF PartLength
  <2>4. /\ ackNet' \subseteq Datagrams
        /\ parts' \in [Msgs -> SUBSET Nat]
        /\ bytes' \in [Msgs -> Int]
        /\ age' \in [Msgs -> Nat]
        /\ emitted' \subseteq Msgs /\ dropped' \subseteq Msgs
    <3>1. CASE IgnorePart(m)
      BY <3>1 DEF IgnorePart, TypeOK, receiverVars
    <3>2. CASE RepeatPart(m, i)
      BY <2>2, <3>2 DEF RepeatPart, TypeOK
    <3>3. CASE OverflowPart(m, i)
      BY <3>3 DEF OverflowPart, SetEntry, TypeOK
    <3>4. CASE StorePart(m, i)
      <4>1. /\ parts[m] \cup {i} \in SUBSET Nat
            /\ bytes[m] + PartLength(m, i) \in Int
        BY <2>2, <2>3 DEF TypeOK
      <4>2. /\ ackNet' \subseteq Datagrams
            /\ emitted' \subseteq Msgs /\ dropped' \subseteq Msgs
        BY <2>2, <3>4 DEF StorePart, TypeOK
      <4>3. \/ SetEntry(m, {}, 0)
            \/ SetEntry(m, parts[m] \cup {i}, bytes[m] + PartLength(m, i))
        BY <3>4 DEF StorePart
      <4>. QED  BY <4>1, <4>2, <4>3 DEF SetEntry, TypeOK
    <3>. QED  BY <1>4, <3>1, <3>2, <3>3, <3>4 DEF ReceiveData
  <2>. QED  BY <1>4, <2>1, <2>4 DEF ReceiveData, TypeOK, sessionVars, senderVars
<1>5. ASSUME NEW m \in Msgs, NEW i \in Parts(m), ReceiveAck(m, i) PROVE TypeOK'
  <2>1. ackNet' \subseteq Datagrams
    BY <1>5, DeliveryShrinks DEF ReceiveAck, TypeOK
  <2>2. CASE CollectAck(m, i)
    <3>1. i \in Nat /\ Total(m) \in Nat
      BY TotalIsNat DEF Parts
    <3>2. PICK h \in greatest[m] .. Total(m) - 1 :
             /\ greatest' = [greatest EXCEPT ![m] = h]
             /\ tx' = [tx EXCEPT ![m] = IF h + 1 = Total(m) THEN "fin" ELSE @]
             /\ timer' = [timer EXCEPT ![m] = h + 1 # Total(m)]
      BY <2>2 DEF CollectAck
    <3>3. h \in Nat \cup {-1}
      BY <3>1 DEF TypeOK
    <3>4. /\ acked' \in [Msgs -> SUBSET Nat]
          /\ resolved' \subseteq Msgs
      BY <2>2, <3>1 DEF CollectAck, TypeOK
    <3>. QED
      BY <1>5, <2>1, <2>2, <3>2, <3>3, <3>4
      DEF ReceiveAck, CollectAck, TypeOK, sessionVars, receiverVars
  <2>3. CASE UNCHANGED senderVars
    BY <1>5, <2>1, <2>3
    DEF ReceiveAck, TypeOK, sessionVars, senderVars, receiverVars
  <2>. QED  BY <1>5, <2>2, <2>3 DEF ReceiveAck
<1>6. ASSUME CleanupTick PROVE TypeOK'
  BY <1>6 DEF CleanupTick, Discard, Collecting, TypeOK, sessionVars, senderVars
<1>7. ASSUME NEW d \in Datagrams, LoseData(d) \/ LoseAck(d) PROVE TypeOK'
  BY <1>7 DEF LoseData, LoseAck, TypeOK, sessionVars, senderVars, receiverVars
<1>8. ASSUME SenderExit PROVE TypeOK'
  BY <1>8 DEF SenderExit, Disposed, TypeOK, receiverVars
<1>9. ASSUME ReceiverExit PROVE TypeOK'
  <2>1. /\ parts' \in [Msgs -> SUBSET Nat]
        /\ bytes' \in [Msgs -> Int]
        /\ dropped' \subseteq Msgs
    BY <1>9 DEF ReceiverExit, Discard, Collecting, TypeOK
  <2>2. age' \in [Msgs -> Nat]
    BY <1>9 DEF ReceiverExit
  <2>. QED  BY <1>9, <2>1, <2>2 DEF ReceiverExit, TypeOK, senderVars
<1>10. ASSUME UNCHANGED vars PROVE TypeOK'
  BY <1>10 DEF vars, TypeOK, sessionVars, senderVars, receiverVars
<1>. QED
  BY <1>1, <1>2, <1>3, <1>4, <1>5, <1>6, <1>7, <1>8, <1>9, <1>10 DEF Next

\* Every reachable state is well typed: part numbers, window positions, timers
\* and datagrams are what the code's fields may hold.
THEOREM TypeCorrect == Spec => []TypeOK
<1>1. Init => TypeOK
  BY DEF Init, TypeOK, Idle
<1>. QED  BY <1>1, TypeInductive, PTL DEF Spec

-----------------------------------------------------------------------------
(* The inductive invariant. *)

Bookkeeping == InRange /\ Gapless /\ FinHasAll /\ Incomplete /\ AcknowledgedIsHeld

\* A step that acknowledges nothing, stores nothing and finishes nothing, and
\* that empties an entry only by discarding it, keeps the books.
LEMMA QuietStep ==
  ASSUME IInv,
         UNCHANGED <<acked, greatest, emitted>>,
         ackNet' \subseteq ackNet,
         dropped \subseteq dropped',
         \A n \in Msgs : tx'[n] = "fin" => tx[n] = "fin",
         \A n \in Msgs : parts'[n] = parts[n] \/ (parts'[n] = {} /\ n \in dropped')
  PROVE  Bookkeeping'
<1>1. InRange' /\ Gapless' /\ FinHasAll' /\ Incomplete'
  BY DEF IInv, InRange, Gapless, FinHasAll, Incomplete
<1>2. AcknowledgedIsHeld'
  <2>. SUFFICES ASSUME NEW m \in Msgs, NEW i \in Parts(m),
                       <<m, i>> \in ackNet' \/ i \in acked'[m]
                PROVE  i \in parts'[m] \/ m \in emitted' \cup dropped'
    BY DEF AcknowledgedIsHeld, Datagrams
  <2>1. <<m, i>> \in Datagrams /\ (<<m, i>> \in ackNet \/ i \in acked[m])
    BY DEF Datagrams
  <2>2. i \in parts[m] \/ m \in emitted \cup dropped
    BY <2>1 DEF IInv, AcknowledgedIsHeld
  <2>. QED  BY <2>2
<1>. QED  BY <1>1, <1>2 DEF Bookkeeping

\* Storing and acknowledging a part: the entry gains it, or becomes complete and
\* is emitted; either way nothing acknowledged is left without a holder.
LEMMA StoreStep ==
  ASSUME IInv, NEW m \in Msgs, NEW i \in Parts(m), StorePart(m, i),
         UNCHANGED senderVars
  PROVE  Bookkeeping'
<1>. DEFINE held == parts[m] \cup {i}
<1>1. held \subseteq Parts(m)
  BY DEF IInv, InRange
<1>2. Complete(m, held) <=> Parts(m) \subseteq held
  BY <1>1, FullIsComplete DEF Complete
<1>3. /\ \A n \in Msgs \ {m} : parts'[n] = parts[n]
      /\ \/ Complete(m, held) /\ parts'[m] = {} /\ emitted' = emitted \cup {m}
         \/ ~Complete(m, held) /\ parts'[m] = held /\ emitted' = emitted
      /\ ackNet' = ackNet \cup {<<m, i>>}
      /\ dropped' = dropped
  BY DEF StorePart, SetEntry, IInv, TypeOK
<1>4. InRange' /\ Gapless' /\ FinHasAll'
  BY <1>1, <1>3 DEF senderVars, IInv, InRange, Gapless, FinHasAll
<1>5. Incomplete'
  BY <1>2, <1>3 DEF IInv, Incomplete
<1>6. AcknowledgedIsHeld'
  <2>. SUFFICES ASSUME NEW n \in Msgs, NEW j \in Parts(n),
                       <<n, j>> \in ackNet' \/ j \in acked'[n]
                PROVE  j \in parts'[n] \/ n \in emitted' \cup dropped'
    BY DEF AcknowledgedIsHeld, Datagrams
  <2>1. CASE n = m /\ j = i
    BY <1>3, <2>1
  <2>2. CASE ~(n = m /\ j = i)
    <3>1. <<n, j>> \in Datagrams /\ (<<n, j>> \in ackNet \/ j \in acked[n])
      BY <1>3, <2>2 DEF senderVars, Datagrams
    <3>2. j \in parts[n] \/ n \in emitted \cup dropped
      BY <3>1 DEF IInv, AcknowledgedIsHeld
    <3>. QED  BY <1>3, <3>2
  <2>. QED  BY <2>1, <2>2
<1>. QED  BY <1>4, <1>5, <1>6 DEF Bookkeeping

\* Recording an acknowledgement that was in flight: the gapless prefix grows, and
\* the transmission finishes only when that prefix is all of the message.
LEMMA AckStep ==
  ASSUME IInv, NEW m \in Msgs, NEW i \in Parts(m), ReceiveAck(m, i),
         CollectAck(m, i)
  PROVE  Bookkeeping'
<1>1. Total(m) \in Nat /\ greatest[m] \in Nat \cup {-1} /\ Total(m) > 0
  BY TotalIsNat DEF IInv, TypeOK, Parts
<1>2. /\ acked'[m] = acked[m] \cup {i}
      /\ \A n \in Msgs \ {m} : /\ acked'[n] = acked[n]
                               /\ greatest'[n] = greatest[n]
                               /\ tx'[n] = tx[n]
      /\ UNCHANGED <<parts, emitted, dropped>>
  BY DEF CollectAck, ReceiveAck, receiverVars, IInv, TypeOK
<1>3. PICK h \in greatest[m] .. Total(m) - 1 :
         /\ ExtendsTo(greatest[m], acked'[m], h)
         /\ greatest'[m] = h
         /\ tx'[m] = IF h + 1 = Total(m) THEN "fin" ELSE tx[m]
  BY DEF CollectAck, IInv, TypeOK
<1>4. InRange'
  BY <1>2 DEF IInv, InRange
<1>5. 0 .. h \subseteq acked'[m]
  <2>1. 0 .. greatest[m] \subseteq acked[m]
    BY DEF IInv, Gapless
  <2>2. \A k \in 0 .. h : k \in 0 .. greatest[m] \/ k \in (greatest[m] + 1) .. h
    BY <1>1
  <2>. QED  BY <1>2, <1>3, <2>1, <2>2 DEF ExtendsTo
<1>6. Gapless'
  BY <1>2, <1>3, <1>5 DEF IInv, Gapless
<1>7. FinHasAll'
  <2>1. ASSUME tx'[m] = "fin" PROVE Parts(m) \subseteq acked'[m]
    <3>1. CASE h + 1 = Total(m)
      BY <1>1, <1>5, <3>1 DEF Parts
    <3>2. CASE h + 1 # Total(m)
      BY <1>2, <1>3, <2>1, <3>2 DEF IInv, FinHasAll
    <3>. QED  BY <3>1, <3>2
  <2>. QED  BY <1>1, <1>2, <2>1 DEF IInv, FinHasAll
<1>8. Incomplete'
  BY <1>2 DEF IInv, Incomplete
<1>9. AcknowledgedIsHeld'
  <2>. SUFFICES ASSUME NEW n \in Msgs, NEW j \in Parts(n),
                       <<n, j>> \in ackNet' \/ j \in acked'[n]
                PROVE  j \in parts'[n] \/ n \in emitted' \cup dropped'
    BY DEF AcknowledgedIsHeld, Datagrams
  <2>1. ackNet' \subseteq ackNet /\ <<m, i>> \in ackNet
    BY DeliveryShrinks DEF ReceiveAck
  <2>2. <<n, j>> \in Datagrams /\ (<<n, j>> \in ackNet \/ j \in acked[n])
    BY <1>2, <2>1 DEF Datagrams
  <2>. QED  BY <1>2, <2>2 DEF IInv, AcknowledgedIsHeld
<1>. QED  BY <1>4, <1>6, <1>7, <1>8, <1>9 DEF Bookkeeping

\* Every step of the session keeps the invariant.
LEMMA Inductive == IInv /\ [Next]_vars => IInv'
<1>. SUFFICES ASSUME IInv, [Next]_vars PROVE IInv'
  OBVIOUS
<1>. USE DEF sessionVars, senderVars, receiverVars
<1>0. TypeOK' /\ TypeOK
  BY TypeInductive DEF IInv
<1>1. ASSUME NEW m \in Msgs, Send(m) PROVE Bookkeeping'
  BY <1>0, <1>1, QuietStep DEF Send, TypeOK
<1>2. ASSUME NEW m \in Msgs, ResendTimerFires(m) \/ ResendWakes(m)
      PROVE  Bookkeeping'
  <2>1. UNCHANGED <<tx, acked, greatest, parts, ackNet, emitted, dropped>>
    BY <1>2 DEF ResendTimerFires, ResendWakes
  <2>. QED  BY <2>1, QuietStep
<1>3. ASSUME NEW m \in Msgs, NEW i \in Parts(m), ReceiveData(m, i)
      PROVE  Bookkeeping'
  <2>1. CASE IgnorePart(m)
    BY <1>3, <2>1, QuietStep DEF ReceiveData, IgnorePart
  <2>2. CASE RepeatPart(m, i)
    <3>1. /\ UNCHANGED <<tx, acked, greatest, parts, emitted, dropped>>
          /\ ackNet' = ackNet \cup {<<m, i>>}
          /\ i \in parts[m]
      BY <1>3, <2>2 DEF ReceiveData, RepeatPart
    <3>. QED
      BY <3>1 DEF IInv, Bookkeeping, InRange, Gapless, FinHasAll, Incomplete,
                  AcknowledgedIsHeld
  <2>3. CASE OverflowPart(m, i)
    <3>1. /\ UNCHANGED <<tx, acked, greatest, ackNet, emitted>>
          /\ dropped' = dropped \cup {m}
          /\ parts' = [parts EXCEPT ![m] = {}]
      BY <1>3, <2>3 DEF ReceiveData, OverflowPart, SetEntry
    <3>. QED  BY <1>0, <3>1, QuietStep DEF TypeOK
  <2>4. CASE StorePart(m, i)
    BY <1>3, <2>4, StoreStep DEF ReceiveData
  <2>. QED  BY <1>3, <2>1, <2>2, <2>3, <2>4 DEF ReceiveData
<1>4. ASSUME NEW m \in Msgs, NEW i \in Parts(m), ReceiveAck(m, i)
      PROVE  Bookkeeping'
  <2>1. CASE CollectAck(m, i)
    BY <1>4, <2>1, AckStep
  <2>2. CASE UNCHANGED senderVars
    BY <1>4, <2>2, DeliveryShrinks, QuietStep DEF ReceiveAck
  <2>. QED  BY <1>4, <2>1, <2>2 DEF ReceiveAck
<1>5. ASSUME CleanupTick PROVE Bookkeeping'
  <2>1. PICK gone \in SUBSET Msgs : Discard(gone)
    BY <1>5 DEF CleanupTick, Collecting
  <2>2. /\ dropped \subseteq dropped'
        /\ \A n \in Msgs : parts'[n] = parts[n] \/ (parts'[n] = {} /\ n \in dropped')
    BY <2>1 DEF Discard
  <2>. QED  BY <1>5, <2>2, QuietStep DEF CleanupTick
<1>6. ASSUME NEW d \in Datagrams, LoseData(d) \/ LoseAck(d) PROVE Bookkeeping'
  BY <1>6, QuietStep DEF LoseData, LoseAck
<1>7. ASSUME SenderExit PROVE Bookkeeping'
  <2>1. \A n \in Msgs : tx'[n] = "fin" => tx[n] = "fin"
    BY <1>7 DEF SenderExit, Disposed
  <2>. QED  BY <1>7, <2>1, QuietStep DEF SenderExit
<1>8. ASSUME ReceiverExit PROVE Bookkeeping'
  <2>1. /\ dropped \subseteq dropped'
        /\ \A n \in Msgs : parts'[n] = parts[n] \/ (parts'[n] = {} /\ n \in dropped')
    BY <1>8 DEF ReceiverExit, Discard, Collecting
  <2>. QED  BY <1>8, <2>1, QuietStep DEF ReceiverExit
<1>9. ASSUME UNCHANGED vars PROVE Bookkeeping'
  BY <1>9, QuietStep DEF vars
<1>10. Bookkeeping'
  BY <1>1, <1>2, <1>3, <1>4, <1>5, <1>6, <1>7, <1>8, <1>9 DEF Next
<1>. QED  BY <1>0, <1>10 DEF IInv, Bookkeeping

\* The invariant holds of every reachable state.
THEOREM Invariance == Spec => []IInv
<1>1. Init => IInv
  <2>. SUFFICES ASSUME Init PROVE IInv
    OBVIOUS
  <2>1. TypeOK
    BY DEF Init, TypeOK, Idle
  <2>. QED
    BY <2>1 DEF Init, IInv, InRange, Gapless, FinHasAll, Incomplete,
                AcknowledgedIsHeld, Datagrams
<1>. QED  BY <1>1, Inductive, PTL DEF Spec

\* A part counted as acknowledged is one the receiver holds, has emitted or has
\* knowingly discarded: retransmission never stops for a part that nobody has.
THEOREM AckedPartsAreHeld == Spec => []AcknowledgedIsHeld
BY Invariance, PTL DEF IInv

\* By the invariant a finished transmission was emitted or discarded: its parts
\* are all held by someone, and an entry never holds them all.
LEMMA FinishedIsEmitted == IInv => FinishedMeansDelivered
<1>. SUFFICES ASSUME IInv, NEW m \in Msgs, tx[m] = "fin",
                     m \notin emitted \cup dropped
              PROVE  FALSE
  BY DEF FinishedMeansDelivered
<1>1. Total(m) > 0 /\ Parts(m) \subseteq acked[m]
  BY DEF IInv, FinHasAll
<1>2. Parts(m) \subseteq parts[m]
  <2>. SUFFICES ASSUME NEW i \in Parts(m) PROVE i \in parts[m]
    OBVIOUS
  <2>1. <<m, i>> \in Datagrams /\ i \in acked[m]
    BY <1>1 DEF Datagrams
  <2>. QED  BY <2>1 DEF IInv, AcknowledgedIsHeld
<1>3. 0 \in Parts(m)
  BY <1>1, TotalIsNat DEF Parts
<1>. QED  BY <1>2, <1>3 DEF IInv, Incomplete

\* A transmission that stopped because all is acknowledged was emitted by the
\* receiver, or a partial entry of it was discarded there.
THEOREM FinishedIsDelivered == Spec => []FinishedMeansDelivered
BY Invariance, FinishedIsEmitted, PTL

-----------------------------------------------------------------------------
(* The retransmission timer and the sliding window. *)

\* Whatever interleaving of acknowledgements, timers, suspended resend loops and
\* disposal, an unfinished transmission is about to resend and no other one is.
THEOREM AlwaysResending == Spec => []ResendPending
<1>1. Init => ResendPending
  BY DEF Init, ResendPending, Running
<1>2. TypeOK /\ ResendPending /\ [Next]_vars => ResendPending'
  <2>. SUFFICES ASSUME TypeOK, ResendPending, [Next]_vars PROVE ResendPending'
    OBVIOUS
  <2>. USE DEF Running
  <2>1. ASSUME NEW m \in Msgs, Send(m) PROVE ResendPending'
    BY <2>1 DEF Send, TypeOK, ResendPending
  <2>2. ASSUME NEW m \in Msgs, NEW i \in Nat, NEW armed \in BOOLEAN,
               ResendFrom(m, i, armed), UNCHANGED tx, armed => Running(m)
        PROVE  ResendPending'
    <3>1. i + 1 # Idle
      BY DEF Idle
    <3>. QED  BY <2>2, <3>1 DEF ResendFrom, TypeOK, ResendPending
  <2>3. ASSUME NEW m \in Msgs, ResendTimerFires(m) PROVE ResendPending'
    <3>1. CASE loop[m] = Idle /\ Running(m)
      <4>1. greatest[m] + 1 \in Nat
        BY DEF TypeOK
      <4>2. ResendFrom(m, greatest[m] + 1, FALSE) /\ UNCHANGED tx
        BY <2>3, <3>1 DEF ResendTimerFires
      <4>. QED  BY <2>2, <4>1, <4>2
    <3>2. CASE ~(loop[m] = Idle /\ Running(m))
      BY <2>3, <3>2 DEF ResendTimerFires, TypeOK, ResendPending
    <3>. QED  BY <3>1, <3>2
  <2>4. ASSUME NEW m \in Msgs, ResendWakes(m) PROVE ResendPending'
    <3>1. /\ loop[m] \in Nat /\ timer[m] \in BOOLEAN
          /\ timer[m] => Running(m)
          /\ ResendFrom(m, loop[m], timer[m]) /\ UNCHANGED tx
      BY <2>4 DEF ResendWakes, TypeOK, ResendPending
    <3>. QED  BY <2>2, <3>1
  <2>5. ASSUME NEW m \in Msgs, NEW i \in Parts(m), ReceiveAck(m, i)
        PROVE  ResendPending'
    BY <2>5 DEF ReceiveAck, CollectAck, TypeOK, ResendPending, senderVars
  <2>6. ASSUME SenderExit PROVE ResendPending'
    BY <2>6 DEF SenderExit, Disposed, TypeOK, ResendPending
  <2>7. ASSUME UNCHANGED <<tx, timer, loop>> PROVE ResendPending'
    BY <2>7 DEF ResendPending
  <2>8. ASSUME NEW m \in Msgs, NEW i \in Parts(m), ReceiveData(m, i)
        PROVE  UNCHANGED <<tx, timer, loop>>
    BY <2>8 DEF ReceiveData, senderVars
  <2>9. CleanupTick \/ ReceiverExit \/ UNCHANGED vars
          => UNCHANGED <<tx, timer, loop>>
    BY DEF CleanupTick, ReceiverExit, vars, senderVars
  <2>10. ASSUME NEW d \in Datagrams, LoseData(d) \/ LoseAck(d)
         PROVE  UNCHANGED <<tx, timer, loop>>
    BY <2>10 DEF LoseData, LoseAck, senderVars
  <2>. QED
    BY <2>1, <2>3, <2>4, <2>5, <2>6, <2>7, <2>8, <2>9, <2>10 DEF Next
<1>. QED  BY <1>1, <1>2, TypeCorrect, PTL DEF Spec

\* No DATA datagram in flight is beyond the sliding window, even if the window
\* moves while a resend loop sleeps.
THEOREM WindowKept == Spec => []WindowRespected
<1>1. Init => WindowRespected
  BY DEF Init, WindowRespected
<1>2. TypeOK /\ WindowRespected /\ [Next]_vars => WindowRespected'
  <2>. SUFFICES ASSUME TypeOK, WindowRespected, [Next]_vars,
                       NEW m \in Msgs, NEW i \in Parts(m), <<m, i>> \in dataNet'
                PROVE  i <= greatest'[m] + Window
    BY TypeInductive DEF WindowRespected, TypeOK, Datagrams
  <2>1. /\ i \in Nat /\ Window \in Nat /\ Total(m) \in Nat
        /\ greatest[m] \in Nat \cup {-1}
    BY TransferAssumption, TotalIsNat DEF Parts, TypeOK
  <2>2. <<m, i>> \in dataNet => i <= greatest[m] + Window
    BY DEF WindowRespected
  <2>3. ASSUME NEW n \in Msgs, Send(n) PROVE i <= greatest'[m] + Window
    <3>1. greatest' = greatest /\ dataNet' = dataNet \cup ({n} \X Burst(n))
      BY <2>3 DEF Send
    <3>2. i \in Burst(m) => i <= greatest[m] + Window
      BY <2>1 DEF Burst
    <3>. QED  BY <2>2, <3>1, <3>2
  <2>4. ASSUME NEW n \in Msgs, NEW j, NEW armed, ResendFrom(n, j, armed),
               UNCHANGED greatest
        PROVE  i <= greatest'[m] + Window
    <3>1. <<m, i>> \in dataNet \/ (m = n /\ i = j /\ InResendWindow(n, j))
      BY <2>4 DEF ResendFrom
    <3>. QED  BY <2>1, <2>2, <2>4, <3>1 DEF InResendWindow
  <2>5. ASSUME NEW n \in Msgs, ResendTimerFires(n) \/ ResendWakes(n)
        PROVE  i <= greatest'[m] + Window
    <3>1. UNCHANGED greatest
      BY <2>5 DEF ResendTimerFires, ResendWakes
    <3>2. \/ \E j, armed : ResendFrom(n, j, armed)
          \/ UNCHANGED dataNet
      BY <2>5 DEF ResendTimerFires, ResendWakes
    <3>. QED  BY <2>2, <2>4, <3>1, <3>2
  <2>6. ASSUME dataNet' \subseteq dataNet, UNCHANGED greatest
        PROVE  i <= greatest'[m] + Window
    BY <2>2, <2>6
  <2>7. ASSUME NEW n \in Msgs, NEW j \in Parts(n), ReceiveData(n, j)
        PROVE  i <= greatest'[m] + Window
    BY <2>6, <2>7, DeliveryShrinks DEF ReceiveData, senderVars
  <2>8. ASSUME NEW n \in Msgs, NEW j \in Parts(n), ReceiveAck(n, j)
        PROVE  i <= greatest'[m] + Window
    <3>1. <<m, i>> \in dataNet
      BY <2>8 DEF ReceiveAck
    <3>2. greatest' = greatest \/
          \E h \in greatest[n] .. Total(n) - 1 :
            greatest' = [greatest EXCEPT ![n] = h]
      BY <2>8 DEF ReceiveAck, CollectAck, senderVars
    <3>3. greatest'[m] >= greatest[m] /\ greatest'[m] \in Int
      BY <2>1, <3>2, TotalIsNat DEF TypeOK
    <3>. QED  BY <2>1, <2>2, <3>1, <3>3
  <2>9. ASSUME \/ CleanupTick \/ SenderExit \/ ReceiverExit \/ UNCHANGED vars
               \/ \E d \in Datagrams : LoseData(d) \/ LoseAck(d)
        PROVE  i <= greatest'[m] + Window
    <3>1. UNCHANGED greatest /\ dataNet' \subseteq dataNet
      BY <2>9 DEF CleanupTick, SenderExit, ReceiverExit, LoseData, LoseAck, vars,
                  senderVars
    <3>. QED  BY <2>6, <3>1
  <2>. QED  BY <2>3, <2>5, <2>7, <2>8, <2>9 DEF Next
<1>. QED  BY <1>1, <1>2, TypeCorrect, PTL DEF Spec

-----------------------------------------------------------------------------
(* The collector's limits. *)

Limits ==
  /\ \A m \in Msgs : bytes[m] <= MaxBytes
  /\ IsFiniteSet(Collecting)
  /\ Cardinality(Collecting) <= MaxInFlight

\* A step after which no entry is new and none is larger keeps the limits.
LEMMA LimitsShrink ==
  ASSUME Limits,
         \A n \in Msgs : bytes'[n] = bytes[n] \/ bytes'[n] = 0,
         \A n \in Msgs : parts'[n] = parts[n] \/ parts'[n] = {}
  PROVE  Limits'
<1>1. MaxBytes \in Nat /\ MaxInFlight \in Nat
  BY TransferAssumption
<1>2. Collecting' \in SUBSET Collecting
  BY DEF Collecting
<1>3. IsFiniteSet(Collecting') /\ Cardinality(Collecting') <= Cardinality(Collecting)
  BY <1>2, FS_Subset DEF Limits
<1>4. Cardinality(Collecting') \in Nat /\ Cardinality(Collecting) \in Nat
  BY <1>3, FS_CardinalityType DEF Limits
<1>5. Cardinality(Collecting') <= MaxInFlight
  BY <1>1, <1>3, <1>4 DEF Limits
<1>. QED  BY <1>1, <1>3, <1>5 DEF Limits

\* Storing a part that fits, in an entry that is there or for which there is a
\* slot, keeps the limits.
LEMMA LimitsStore ==
  ASSUME TypeOK, Limits, NEW m \in Msgs, NEW i \in Parts(m), StorePart(m, i)
  PROVE  Limits'
<1>1. MaxBytes \in Nat /\ MaxInFlight \in Nat
  BY TransferAssumption
<1>2. /\ \A n \in Msgs \ {m} : parts'[n] = parts[n] /\ bytes'[n] = bytes[n]
      /\ bytes'[m] = 0 \/ bytes'[m] = bytes[m] + PartLength(m, i)
      /\ bytes[m] + PartLength(m, i) <= MaxBytes
  BY DEF StorePart, SetEntry, Fits, TypeOK
<1>3. \A n \in Msgs : bytes'[n] <= MaxBytes
  BY <1>1, <1>2 DEF Limits
<1>4. Collecting' \in SUBSET (Collecting \cup {m})
  BY <1>2 DEF Collecting
<1>5. /\ IsFiniteSet(Collecting \cup {m})
      /\ Cardinality(Collecting \cup {m}) =
           IF m \in Collecting THEN Cardinality(Collecting)
                               ELSE Cardinality(Collecting) + 1
  BY FS_AddElement DEF Limits
<1>6. /\ Cardinality(Collecting) \in Nat
      /\ Cardinality(Collecting \cup {m}) \in Nat
  BY <1>5, FS_CardinalityType DEF Limits
<1>7. m \in Collecting \/ Cardinality(Collecting) < MaxInFlight
  BY DEF StorePart, Accepts, Collecting
<1>8. Cardinality(Collecting \cup {m}) <= MaxInFlight
  BY <1>1, <1>5, <1>6, <1>7 DEF Limits
<1>9. /\ IsFiniteSet(Collecting')
      /\ Cardinality(Collecting') <= Cardinality(Collecting \cup {m})
  BY <1>4, <1>5, FS_Subset
<1>10. Cardinality(Collecting') \in Nat
  BY <1>9, FS_CardinalityType
<1>11. Cardinality(Collecting') <= MaxInFlight
  BY <1>1, <1>6, <1>8, <1>9, <1>10
<1>. QED  BY <1>3, <1>9, <1>11 DEF Limits

\* Every entry of the collector is incomplete, within the size limit, and there
\* are never more entries than slots.
THEOREM CollectorStaysBounded == Spec => []CollectorBounded
<1>1. Init => Limits
  <2>. SUFFICES ASSUME Init PROVE Limits
    OBVIOUS
  <2>1. Collecting = {}
    BY DEF Init, Collecting
  <2>. QED  BY <2>1, FS_EmptySet, TransferAssumption DEF Init, Limits
<1>2. TypeOK /\ Limits /\ [Next]_vars => Limits'
  <2>. SUFFICES ASSUME TypeOK, Limits, [Next]_vars PROVE Limits'
    OBVIOUS
  <2>1. ASSUME NEW m \in Msgs, NEW i \in Parts(m), ReceiveData(m, i)
        PROVE  Limits'
    <3>1. CASE IgnorePart(m) \/ RepeatPart(m, i)
      BY <3>1, LimitsShrink DEF IgnorePart, RepeatPart, receiverVars
    <3>2. CASE OverflowPart(m, i)
      BY <3>2, LimitsShrink DEF OverflowPart, SetEntry, TypeOK
    <3>3. CASE StorePart(m, i)
      BY <3>3, LimitsStore
    <3>. QED  BY <2>1, <3>1, <3>2, <3>3 DEF ReceiveData
  <2>2. ASSUME NEW gone \in SUBSET Msgs, Discard(gone) PROVE Limits'
    BY <2>2, LimitsShrink DEF Discard
  <2>3. CleanupTick \/ ReceiverExit => \E gone \in SUBSET Msgs : Discard(gone)
    BY DEF CleanupTick, ReceiverExit, Collecting
  <2>4. ASSUME UNCHANGED <<parts, bytes>> PROVE Limits'
    BY <2>4, LimitsShrink
  <2>5. ASSUME NEW m \in Msgs,
               \/ Send(m) \/ ResendTimerFires(m) \/ ResendWakes(m)
               \/ \E i \in Parts(m) : ReceiveAck(m, i)
        PROVE  UNCHANGED <<parts, bytes>>
    BY <2>5 DEF Send, ResendTimerFires, ResendWakes, ReceiveAck, receiverVars
  <2>6. ASSUME \/ SenderExit \/ UNCHANGED vars
               \/ \E d \in Datagrams : LoseData(d) \/ LoseAck(d)
        PROVE  UNCHANGED <<parts, bytes>>
    BY <2>6 DEF SenderExit, LoseData, LoseAck, vars, receiverVars
  <2>. QED  BY <2>1, <2>2, <2>3, <2>4, <2>5, <2>6 DEF Next
<1>3. IInv /\ Limits => CollectorBounded
  <2>. SUFFICES ASSUME IInv, Limits, NEW m \in Collecting
                PROVE  Cardinality(parts[m]) < Total(m)
    BY DEF CollectorBounded, Limits, Collecting
  <2>1. m \in Msgs /\ parts[m] \subseteq Parts(m) /\ ~(Parts(m) \subseteq parts[m])
    BY DEF Collecting, IInv, InRange, Incomplete
  <2>2. /\ Cardinality(parts[m]) \in Nat
        /\ Cardinality(parts[m]) <= Total(m)
        /\ Cardinality(parts[m]) # Total(m)
    BY <2>1, FullIsComplete
  <2>. QED  BY <2>1, <2>2, TotalIsNat
<1>. QED  BY <1>1, <1>2, <1>3, TypeCorrect, Invariance, PTL DEF Spec

-----------------------------------------------------------------------------
(* What is handed over.  The collector checks a size before it stores each *)
(* part, never the size of the message: that a message handed over is      *)
(* within the limit follows only if receivedBytes is the size of what is   *)
(* held, without drift, through discards and repeated parts.               *)

\* The bytes of an entry that holds these parts: the last part may be shorter.
HeldBytes(m, held) ==
  Cardinality(held) * PartBytes
    - (IF Total(m) - 1 \in held THEN Total(m) * PartBytes - Size[m] ELSE 0)

\* receivedBytes is the size of the parts the entry holds, and what has been
\* emitted was deliverable.
Accounted ==
  /\ \A m \in Msgs : bytes[m] = HeldBytes(m, parts[m])
  /\ OnlyDeliverableEmitted

\* One factor more is one multiple more.
LEMMA OneMore ==
  ASSUME NEW a \in Int, NEW b \in Int
  PROVE  (a + 1) * b = a * b + b /\ (a - 1) * b = a * b - b /\ a * b \in Int
OBVIOUS

\* Storing a part that is not held adds its length to the bytes of the entry.
LEMMA StoringAddsLength ==
  ASSUME NEW m \in Msgs, NEW held, held \subseteq Parts(m),
         NEW i \in Parts(m), i \notin held
  PROVE  HeldBytes(m, held \cup {i}) = HeldBytes(m, held) + PartLength(m, i)
<1>1. /\ Total(m) \in Int /\ Size[m] \in Int /\ PartBytes \in Int
      /\ Cardinality(held) \in Int /\ i \in Int
  <2>1. Cardinality(held) \in Int
    BY FullIsComplete
  <2>. QED  BY <2>1, TotalIsNat, TransferAssumption DEF Parts
<1>2. Cardinality(held \cup {i}) = Cardinality(held) + 1
  BY FullIsComplete, FS_AddElement
<1>. DEFINE kept == Cardinality(held) * PartBytes
            whole == Total(m) * PartBytes
<1>3. /\ kept \in Int /\ whole \in Int
      /\ Cardinality(held \cup {i}) * PartBytes = kept + PartBytes
      /\ (Total(m) - 1) * PartBytes = whole - PartBytes
  BY <1>1, <1>2, OneMore
<1>4. CASE i = Total(m) - 1
  <2>1. PartLength(m, i) = Size[m] - (whole - PartBytes)
    BY <1>3, <1>4 DEF PartLength
  <2>2. HeldBytes(m, held) = kept
    BY <1>1, <1>3, <1>4 DEF HeldBytes
  <2>3. HeldBytes(m, held \cup {i}) = (kept + PartBytes) - (whole - Size[m])
    BY <1>3, <1>4 DEF HeldBytes
  <2>. HIDE DEF kept, whole
  <2>. QED  BY <1>1, <1>3, <2>1, <2>2, <2>3
<1>5. CASE i # Total(m) - 1
  <2>. DEFINE rest == IF Total(m) - 1 \in held THEN whole - Size[m] ELSE 0
  <2>1. PartLength(m, i) = PartBytes
    BY <1>5 DEF PartLength
  <2>2. HeldBytes(m, held) = kept - rest
    BY DEF HeldBytes
  <2>3. HeldBytes(m, held \cup {i}) = (kept + PartBytes) - rest
    BY <1>3, <1>5 DEF HeldBytes
  <2>4. rest \in Int
    BY <1>1, <1>3
  <2>. HIDE DEF kept, whole, rest
  <2>. QED  BY <1>1, <1>3, <2>1, <2>2, <2>3, <2>4
<1>. QED  BY <1>4, <1>5

\* A complete entry has the bytes of its message, and an empty one has none.
LEMMA WholeIsSize ==
  ASSUME NEW m \in Msgs
  PROVE  /\ Total(m) > 0 => HeldBytes(m, Parts(m)) = Size[m]
         /\ HeldBytes(m, {}) = 0
<1>1. Total(m) \in Nat /\ Size[m] \in Int /\ PartBytes \in Int
  BY TotalIsNat, TransferAssumption
<1>2. Cardinality(Parts(m)) = Total(m)
  BY FullIsComplete
<1>3. Total(m) > 0 => HeldBytes(m, Parts(m)) = Size[m]
  <2>. DEFINE whole == Total(m) * PartBytes
  <2>1. Total(m) > 0 => HeldBytes(m, Parts(m)) = whole - (whole - Size[m])
    BY <1>1, <1>2 DEF HeldBytes, Parts
  <2>2. whole \in Int
    BY <1>1, OneMore
  <2>. HIDE DEF whole
  <2>. QED  BY <1>1, <2>1, <2>2
<1>4. HeldBytes(m, {}) = 0
  <2>1. 0 * PartBytes = 0
    BY <1>1
  <2>. QED  BY <2>1, FS_EmptySet DEF HeldBytes
<1>. QED  BY <1>3, <1>4

\* A step that emits nothing and changes an entry only by emptying it keeps the
\* account.
LEMMA AccountQuiet ==
  ASSUME Accounted, UNCHANGED emitted,
         \A n \in Msgs : \/ bytes'[n] = bytes[n] /\ parts'[n] = parts[n]
                         \/ bytes'[n] = 0 /\ parts'[n] = {}
  PROVE  Accounted'
<1>1. OnlyDeliverableEmitted'
  BY DEF Accounted, OnlyDeliverableEmitted, Deliverable
<1>2. ASSUME NEW n \in Msgs PROVE bytes'[n] = HeldBytes(n, parts'[n])
  BY WholeIsSize DEF Accounted
<1>. QED  BY <1>1, <1>2 DEF Accounted, HeldBytes

\* Storing a part keeps the account; the entry it completes has, with that part,
\* the bytes of its message, which the size check has just let through.
LEMMA AccountStore ==
  ASSUME IInv, Accounted, NEW m \in Msgs, NEW i \in Parts(m), StorePart(m, i)
  PROVE  Accounted'
<1>. DEFINE held == parts[m] \cup {i}
<1>1. /\ i \notin parts[m] /\ parts[m] \subseteq Parts(m) /\ held \subseteq Parts(m)
      /\ Total(m) <= MaxParts
      /\ bytes[m] + PartLength(m, i) <= MaxBytes
  BY DEF StorePart, Accepts, Fits, IInv, InRange
<1>2. /\ \A n \in Msgs \ {m} : parts'[n] = parts[n] /\ bytes'[n] = bytes[n]
      /\ \/ /\ Complete(m, held)
            /\ parts'[m] = {} /\ bytes'[m] = 0
            /\ emitted' = emitted \cup {m}
         \/ /\ parts'[m] = held /\ bytes'[m] = bytes[m] + PartLength(m, i)
            /\ emitted' = emitted
  BY DEF StorePart, SetEntry, IInv, TypeOK
<1>3. bytes[m] + PartLength(m, i) = HeldBytes(m, held)
  BY <1>1, StoringAddsLength DEF Accounted
<1>4. ASSUME NEW n \in Msgs PROVE bytes'[n] = HeldBytes(n, parts'[n])
  <2>1. CASE n = m
    BY <1>2, <1>3, <2>1, WholeIsSize
  <2>2. CASE n # m
    BY <1>2, <2>2 DEF Accounted
  <2>. QED  BY <2>1, <2>2
<1>5. Complete(m, held) => Deliverable(m)
  <2>. SUFFICES ASSUME Complete(m, held) PROVE Deliverable(m)
    OBVIOUS
  <2>1. held = Parts(m)
    BY <1>1 DEF Complete
  <2>2. Total(m) \in Nat /\ Total(m) > 0
    BY TotalIsNat DEF Parts
  <2>3. Size[m] <= MaxBytes
    BY <1>1, <1>3, <2>1, <2>2, WholeIsSize
  <2>4. MaxParts \in Int
    BY TransferAssumption DEF MaxParts, CeilDiv
  <2>. QED  BY <1>1, <2>2, <2>3, <2>4 DEF Deliverable
<1>6. OnlyDeliverableEmitted'
  BY <1>2, <1>5 DEF Accounted, OnlyDeliverableEmitted, Deliverable
<1>. QED  BY <1>4, <1>6 DEF Accounted, HeldBytes

\* Only a message within the receiver's limits, and never an empty one, is handed
\* to the application, whatever sizes are sent and whatever is lost, repeated or
\* discarded half way: every message emitted has passed the size check as a whole.
THEOREM OnlyDeliverableHandedOver == Spec => []OnlyDeliverableEmitted
<1>1. Init => Accounted
  BY WholeIsSize DEF Init, Accounted, OnlyDeliverableEmitted
<1>2. IInv /\ Accounted /\ [Next]_vars => Accounted'
  <2>. SUFFICES ASSUME IInv, Accounted, [Next]_vars PROVE Accounted'
    OBVIOUS
  <2>1. ASSUME NEW m \in Msgs, NEW i \in Parts(m), ReceiveData(m, i)
        PROVE  Accounted'
    <3>1. CASE IgnorePart(m) \/ RepeatPart(m, i)
      BY <3>1, AccountQuiet DEF IgnorePart, RepeatPart, receiverVars
    <3>2. CASE OverflowPart(m, i)
      BY <3>2, AccountQuiet DEF OverflowPart, SetEntry, IInv, TypeOK
    <3>3. CASE StorePart(m, i)
      BY <3>3, AccountStore
    <3>. QED  BY <2>1, <3>1, <3>2, <3>3 DEF ReceiveData
  <2>2. ASSUME CleanupTick \/ ReceiverExit PROVE Accounted'
    <3>1. PICK gone \in SUBSET Msgs : Discard(gone) /\ UNCHANGED emitted
      BY <2>2 DEF CleanupTick, ReceiverExit, Collecting
    <3>. QED  BY <3>1, AccountQuiet DEF Discard
  <2>3. ASSUME UNCHANGED <<parts, bytes, emitted>> PROVE Accounted'
    BY <2>3, AccountQuiet
  <2>4. ASSUME NEW m \in Msgs,
               \/ Send(m) \/ ResendTimerFires(m) \/ ResendWakes(m)
               \/ \E i \in Parts(m) : ReceiveAck(m, i)
        PROVE  UNCHANGED <<parts, bytes, emitted>>
    BY <2>4 DEF Send, ResendTimerFires, ResendWakes, ReceiveAck, receiverVars
  <2>5. ASSUME \/ SenderExit \/ UNCHANGED vars
               \/ \E d \in Datagrams : LoseData(d) \/ LoseAck(d)
        PROVE  UNCHANGED <<parts, bytes, emitted>>
    BY <2>5 DEF SenderExit, LoseData, LoseAck, vars, receiverVars
  <2>. QED  BY <2>1, <2>2, <2>3, <2>4, <2>5 DEF Next
<1>3. Accounted => OnlyDeliverableEmitted
  BY DEF Accounted
<1>. QED  BY <1>1, <1>2, <1>3, Invariance, PTL DEF Spec

-----------------------------------------------------------------------------
(* After onExit. *)

\* An end that has left "connected" is done: what is suspended or in flight then
\* makes its sender send no more DATA and settle nothing, and its receiver neither
\* acknowledge nor hand over anything.
Silent ==
  /\ ~senderUp => /\ ~senderUp' /\ dataNet' \subseteq dataNet
                  /\ UNCHANGED <<tx, acked, resolved>>
  /\ ~receiverUp => /\ ~receiverUp' /\ ackNet' \subseteq ackNet
                    /\ UNCHANGED <<parts, emitted, dropped>>

SilentOnceLeft == [][Silent]_vars

\* onExit leaves no transmission running and no entry in the collector.
Left ==
  /\ ~senderUp => \A m \in Msgs : ~Running(m)
  /\ ~receiverUp => \A m \in Msgs : parts[m] = {}

\* The sender's side of a step.
LEMMA SenderSilent ==
  ASSUME Left, [Next]_vars, ~senderUp
  PROVE  ~senderUp' /\ dataNet' \subseteq dataNet /\ UNCHANGED <<tx, acked, resolved>>
<1>. DEFINE Quietly == /\ ~senderUp' /\ dataNet' \subseteq dataNet
                       /\ UNCHANGED <<tx, acked, resolved>>
<1>. USE DEF sessionVars, senderVars, receiverVars
<1>1. ASSUME NEW m \in Msgs, Send(m) PROVE FALSE
  BY <1>1 DEF Send
<1>2. ASSUME NEW m \in Msgs, ResendTimerFires(m) \/ ResendWakes(m) PROVE Quietly
  <2>1. ~Running(m)
    BY DEF Left
  <2>2. /\ ResendFrom(m, greatest[m] + 1, FALSE) => UNCHANGED dataNet
        /\ ResendFrom(m, loop[m], timer[m]) => UNCHANGED dataNet
    BY <2>1 DEF ResendFrom
  <2>3. UNCHANGED <<senderUp, tx, acked, resolved, dataNet>>
    BY <1>2, <2>1, <2>2 DEF ResendTimerFires, ResendWakes
  <2>. QED  BY <2>3
<1>3. ASSUME NEW m \in Msgs, NEW i \in Parts(m), ReceiveData(m, i) PROVE Quietly
  BY <1>3, DeliveryShrinks DEF ReceiveData
<1>4. ASSUME NEW m \in Msgs, NEW i \in Parts(m), ReceiveAck(m, i) PROVE Quietly
  BY <1>4 DEF ReceiveAck
<1>5. ASSUME NEW d \in Datagrams, LoseData(d) \/ LoseAck(d) PROVE Quietly
  BY <1>5 DEF LoseData, LoseAck
<1>6. ASSUME CleanupTick \/ SenderExit \/ ReceiverExit \/ UNCHANGED vars PROVE Quietly
  BY <1>6 DEF CleanupTick, SenderExit, ReceiverExit, vars
<1>7. Quietly
  <2>. HIDE DEF Quietly
  <2>. QED  BY <1>1, <1>2, <1>3, <1>4, <1>5, <1>6, Zenon DEF Next
<1>. QED  BY <1>7

\* The receiver's side of a step.
LEMMA ReceiverSilent ==
  ASSUME Left, [Next]_vars, ~receiverUp
  PROVE  /\ ~receiverUp' /\ ackNet' \subseteq ackNet
         /\ UNCHANGED <<parts, emitted, dropped>>
<1>. DEFINE Quietly == /\ ~receiverUp' /\ ackNet' \subseteq ackNet
                       /\ UNCHANGED <<parts, emitted, dropped>>
<1>. USE DEF sessionVars, senderVars, receiverVars
<1>1. ASSUME NEW m \in Msgs, Send(m) \/ ResendTimerFires(m) \/ ResendWakes(m)
      PROVE  Quietly
  <2>1. UNCHANGED <<receiverUp, ackNet, parts, emitted, dropped>>
    BY <1>1 DEF Send, ResendTimerFires, ResendWakes
  <2>. QED  BY <2>1
<1>2. ASSUME NEW m \in Msgs, NEW i \in Parts(m), ReceiveData(m, i) PROVE Quietly
  BY <1>2 DEF ReceiveData, IgnorePart, RepeatPart, OverflowPart, StorePart, Accepts
<1>3. ASSUME NEW m \in Msgs, NEW i \in Parts(m), ReceiveAck(m, i) PROVE Quietly
  BY <1>3, DeliveryShrinks DEF ReceiveAck
<1>4. ASSUME NEW d \in Datagrams, LoseData(d) \/ LoseAck(d) PROVE Quietly
  BY <1>4 DEF LoseData, LoseAck
<1>5. ASSUME CleanupTick \/ SenderExit \/ ReceiverExit \/ UNCHANGED vars PROVE Quietly
  BY <1>5 DEF CleanupTick, CleanupRuns, SenderExit, ReceiverExit, vars
<1>. QED  BY <1>1, <1>2, <1>3, <1>4, <1>5 DEF Next

\* Nothing starts again on an end that has left, and leaving stops everything.
LEMMA LeftInductive == Left /\ [Next]_vars => Left'
<1>. SUFFICES ASSUME Left, [Next]_vars PROVE Left'
  OBVIOUS
<1>1. ~senderUp' => \A m \in Msgs : ~Running(m)'
  <2>1. CASE ~senderUp
    BY <2>1, SenderSilent DEF Left, Running
  <2>2. senderUp /\ ~senderUp' => SenderExit
    BY DEF Next, vars, sessionVars, Send, ResendTimerFires, ResendWakes, ReceiveData,
           ReceiveAck, LoseData, LoseAck, CleanupTick, ReceiverExit
  <2>3. SenderExit => \A m \in Msgs : ~Running(m)'
    BY DEF SenderExit, Disposed, Running
  <2>. QED  BY <2>1, <2>2, <2>3
<1>2. ~receiverUp' => \A m \in Msgs : parts'[m] = {}
  <2>1. CASE ~receiverUp
    BY <2>1, ReceiverSilent DEF Left
  <2>2. receiverUp /\ ~receiverUp' => ReceiverExit
    BY DEF Next, vars, sessionVars, Send, ResendTimerFires, ResendWakes, ReceiveData,
           ReceiveAck, LoseData, LoseAck, CleanupTick, SenderExit
  <2>3. ReceiverExit => \A m \in Msgs : parts'[m] = {}
    BY DEF ReceiverExit, Discard, Collecting
  <2>. QED  BY <2>1, <2>2, <2>3
<1>. QED  BY <1>1, <1>2 DEF Left

\* A session that has left "connected" falls silent, even with a resend loop
\* asleep and datagrams still under way to it.
THEOREM ExitSilences == Spec => SilentOnceLeft
<1>1. Init => Left
  BY DEF Init, Left
<1>2. Left /\ [Next]_vars => [Silent]_vars
  BY SenderSilent, ReceiverSilent DEF Silent
<1>. QED
  BY <1>1, <1>2, LeftInductive, PTL DEF Spec, SilentOnceLeft

-----------------------------------------------------------------------------
(* DataTransfer implements MessageChannel. *)

\* Nothing of an unsent message exists anywhere, and the promise of sendData is
\* resolved as soon as anything is acknowledged.
Ledger ==
  \A m \in Msgs :
    /\ tx[m] = "unsent" => /\ parts[m] = {}
                           /\ \A i \in Parts(m) : <<m, i>> \notin dataNet
    /\ acked[m] # {} => m \in resolved

\* A step that sends and stores nothing keeps the ledger.
LEMMA LedgerQuiet ==
  ASSUME Ledger,
         UNCHANGED <<acked, resolved>>, dataNet' \subseteq dataNet,
         \A n \in Msgs : tx'[n] = "unsent" => tx[n] = "unsent",
         \A n \in Msgs : parts'[n] = parts[n] \/ parts'[n] = {}
  PROVE  Ledger'
BY DEF Ledger

\* Every step keeps the ledger.
LEMMA LedgerInductive == TypeOK /\ Ledger /\ [Next]_vars => Ledger'
<1>. SUFFICES ASSUME TypeOK, Ledger, [Next]_vars PROVE Ledger'
  OBVIOUS
<1>. USE DEF sessionVars, senderVars, receiverVars
<1>1. ASSUME NEW m \in Msgs, Send(m) PROVE Ledger'
  BY <1>1 DEF Send, TypeOK, Ledger
<1>2. ASSUME NEW m \in Msgs, ResendTimerFires(m) \/ ResendWakes(m) PROVE Ledger'
  <2>1. UNCHANGED <<tx, parts, acked, resolved>>
    BY <1>2 DEF ResendTimerFires, ResendWakes
  <2>2. \/ UNCHANGED dataNet
        \/ tx[m] # "unsent" /\ \E j : dataNet' \subseteq dataNet \cup {<<m, j>>}
    <3>1. ASSUME NEW j, NEW armed, ResendFrom(m, j, armed)
          PROVE  \/ UNCHANGED dataNet
                 \/ tx[m] # "unsent" /\ dataNet' \subseteq dataNet \cup {<<m, j>>}
      BY <3>1 DEF ResendFrom, Running
    <3>. QED  BY <1>2, <3>1 DEF ResendTimerFires, ResendWakes
  <2>. QED  BY <2>1, <2>2 DEF Ledger
<1>3. ASSUME NEW m \in Msgs, NEW i \in Parts(m), ReceiveData(m, i) PROVE Ledger'
  <2>1. tx[m] # "unsent"
    BY <1>3 DEF ReceiveData, Ledger
  <2>2. dataNet' \subseteq dataNet /\ UNCHANGED <<tx, acked, resolved>>
    BY <1>3, DeliveryShrinks DEF ReceiveData
  <2>3. \A n \in Msgs \ {m} : parts'[n] = parts[n]
    BY <1>3 DEF ReceiveData, IgnorePart, RepeatPart, OverflowPart, StorePart,
                SetEntry, TypeOK
  <2>. QED  BY <2>1, <2>2, <2>3 DEF Ledger
<1>4. ASSUME NEW m \in Msgs, NEW i \in Parts(m), ReceiveAck(m, i) PROVE Ledger'
  <2>1. UNCHANGED <<parts, dataNet>>
    BY <1>4 DEF ReceiveAck
  <2>2. CASE CollectAck(m, i) /\ Running(m)
    <3>1. \A n \in Msgs : tx'[n] = "unsent" => tx[n] = "unsent"
      BY <2>2 DEF CollectAck, Running, TypeOK
    <3>2. \A n \in Msgs : acked'[n] # {} => n \in resolved'
      BY <2>2 DEF CollectAck, TypeOK, Ledger
    <3>. QED  BY <2>1, <3>1, <3>2 DEF Ledger
  <2>3. CASE UNCHANGED senderVars
    BY <2>1, <2>3, LedgerQuiet
  <2>. QED  BY <1>4, <2>2, <2>3 DEF ReceiveAck
<1>5. ASSUME CleanupTick \/ ReceiverExit PROVE Ledger'
  <2>1. \A n \in Msgs : parts'[n] = parts[n] \/ parts'[n] = {}
    BY <1>5 DEF CleanupTick, ReceiverExit, Discard
  <2>. QED  BY <1>5, <2>1, LedgerQuiet DEF CleanupTick, ReceiverExit
<1>6. ASSUME NEW d \in Datagrams, LoseData(d) \/ LoseAck(d) PROVE Ledger'
  BY <1>6, LedgerQuiet DEF LoseData, LoseAck
<1>7. ASSUME SenderExit PROVE Ledger'
  <2>1. \A n \in Msgs : tx'[n] = "unsent" => tx[n] = "unsent"
    BY <1>7 DEF SenderExit, Disposed
  <2>. QED  BY <1>7, <2>1, LedgerQuiet DEF SenderExit
<1>8. ASSUME UNCHANGED vars PROVE Ledger'
  BY <1>8, LedgerQuiet DEF vars
<1>. QED  BY <1>1, <1>2, <1>3, <1>4, <1>5, <1>6, <1>7, <1>8 DEF Next

\* One direction of a session is a channel: a step of the code is a step of
\* MessageChannel or changes nothing its two applications can see.
THEOREM ImplementsChannel == Spec => ChannelSpec
<1>. DEFINE Sent == {m \in Msgs : tx[m] # "unsent"}
            Finished == {m \in Msgs : tx[m] = "fin"}
            Unseen == UNCHANGED <<senderUp, receiverUp, Sent, resolved, Finished,
                                  emitted, dropped>>
<1>1. Init => Channel!Init
  BY DEF Init, Channel!Init
<1>2. IInv /\ Ledger /\ [Next]_vars => [Channel!Next]_(Channel!vars)
  <2>. SUFFICES ASSUME IInv, Ledger, [Next]_vars, ~Unseen
                PROVE  Channel!Next
    BY DEF Channel!vars
  <2>. USE DEF sessionVars, senderVars, receiverVars
  <2>0. TypeOK
    BY DEF IInv
  <2>1. ASSUME NEW m \in Msgs, Send(m) PROVE Channel!Next
    <3>1. Sent' = Sent \cup {m} /\ m \notin Sent /\ Finished' = Finished
      BY <2>0, <2>1 DEF Send, TypeOK
    <3>2. Channel!Send(m)
      BY <2>1, <3>1 DEF Send, Channel!Send
    <3>. QED  BY <3>2 DEF Channel!Next
  <2>2. ASSUME NEW m \in Msgs, ResendTimerFires(m) \/ ResendWakes(m) PROVE Unseen
    BY <2>2 DEF ResendTimerFires, ResendWakes
  <2>3. ASSUME NEW m \in Msgs, NEW i \in Parts(m), ReceiveData(m, i)
        PROVE  Channel!Next
    <3>1. /\ m \in Sent /\ Sent' = Sent /\ Finished' = Finished
          /\ UNCHANGED <<senderUp, receiverUp, resolved>>
      BY <2>3 DEF ReceiveData, Ledger
    <3>2. receiverUp /\ (emitted' = emitted \cup {m} \/ dropped' = dropped \cup {m})
      BY <2>3, <3>1 DEF ReceiveData, IgnorePart, RepeatPart, OverflowPart,
                        StorePart, Accepts
    <3>3. CASE StorePart(m, i)
      <4>1. Channel!Deliver(m)
        BY <3>1, <3>2, <3>3 DEF StorePart, Channel!Deliver
      <4>. QED  BY <4>1 DEF Channel!Next
    <3>4. CASE OverflowPart(m, i)
      <4>1. Channel!GiveUp({m})
        BY <3>1, <3>4 DEF OverflowPart, Channel!GiveUp
      <4>. QED  BY <2>0, <3>1, <3>2, <4>1 DEF Channel!Next, TypeOK
    <3>5. CASE IgnorePart(m) \/ RepeatPart(m, i)
      BY <3>1, <3>5 DEF IgnorePart, RepeatPart
    <3>. QED  BY <2>3, <3>3, <3>4, <3>5 DEF ReceiveData
  <2>4. ASSUME NEW m \in Msgs, NEW i \in Parts(m), ReceiveAck(m, i)
        PROVE  Channel!Next
    <3>1. CollectAck(m, i) /\ senderUp /\ Running(m)
      BY <2>4 DEF ReceiveAck
    <3>2. /\ m \in Sent /\ Sent' = Sent
          /\ resolved' = resolved \cup {m}
          /\ Finished' = Finished \/ Finished' = Finished \cup {m}
          /\ m \in Finished' => tx'[m] = "fin"
          /\ m \notin Finished
      BY <2>0, <3>1 DEF CollectAck, Running, TypeOK, Ledger
    <3>3. UNCHANGED <<senderUp, receiverUp, emitted, dropped>>
      BY <2>4 DEF ReceiveAck
    <3>4. tx'[m] = "fin" => m \in emitted \cup dropped
      <4>1. IInv'
        BY Inductive
      <4>2. FinishedMeansDelivered'
        BY <4>1, FinishedIsEmitted, PTL
      <4>. QED  BY <3>3, <4>2 DEF FinishedMeansDelivered
    <3>5. Channel!Hear(m)
      BY <3>1, <3>2, <3>3, <3>4 DEF Channel!Hear
    <3>. QED  BY <3>5 DEF Channel!Next
  <2>5. ASSUME CleanupTick \/ ReceiverExit PROVE Channel!Next
    <3>1. PICK gone \in SUBSET Collecting : Discard(gone)
      BY <2>5 DEF CleanupTick, ReceiverExit
    <3>2. gone \in SUBSET Msgs /\ gone \subseteq Sent
      BY <3>1 DEF Collecting, Ledger
    <3>3. Channel!GiveUp(gone)
      BY <2>5, <3>1, <3>2 DEF CleanupTick, ReceiverExit, Discard, Channel!GiveUp
    <3>4. receiverUp /\ receiverUp' \in BOOLEAN
      BY <2>0, <2>5 DEF CleanupTick, CleanupRuns, ReceiverExit, TypeOK
    <3>. QED  BY <3>2, <3>3, <3>4 DEF Channel!Next
  <2>6. ASSUME NEW d \in Datagrams, LoseData(d) \/ LoseAck(d) PROVE Unseen
    BY <2>6 DEF LoseData, LoseAck
  <2>7. ASSUME SenderExit PROVE Channel!Next
    <3>1. Sent' = Sent /\ Finished' = Finished
      BY <2>0, <2>7 DEF SenderExit, Disposed, TypeOK
    <3>2. Channel!CloseSender
      BY <2>7, <3>1 DEF SenderExit, Channel!CloseSender
    <3>. QED  BY <3>2 DEF Channel!Next
  <2>8. CASE UNCHANGED vars
    BY <2>8 DEF vars
  <2>. QED  BY <2>1, <2>2, <2>3, <2>4, <2>5, <2>6, <2>7, <2>8 DEF Next
<1>3. Init => Ledger
  BY DEF Init, Ledger
<1>4. Spec => []Ledger
  BY <1>3, LedgerInductive, TypeCorrect, PTL DEF Spec
<1>. QED
  BY <1>1, <1>2, <1>4, Invariance, PTL DEF Spec, ChannelSpec, Channel!Spec
=============================================================================
