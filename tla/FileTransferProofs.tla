-------------------------- MODULE FileTransferProofs ------------------------
(***************************************************************************)
(* Safety of file transfer for any files, over any session that keeps the  *)
(* contract of MessageChannel.                                             *)
(***************************************************************************)
EXTENDS FileTransfer, FiniteSetTheorems, TLAPS

(***************************************************************************)
(* The inductive invariant.  A loop has one chunk under way because every  *)
(* chunk before the one it awaits has been heard; a file that is handed    *)
(* over is whole because the collector holds, under a name, only chunks of *)
(* files of that name.                                                     *)
(***************************************************************************)

UnheardIsAwaited ==
  \A f \in Files : \A c \in 1 .. Chunks[f] :
    <<f, c>> \in sent \ heard => c = chunk[f]

FiledByName ==
  \A n \in Names : \A e \in collected[n] :
    \E f \in Files : Name[f] = n /\ e \in (1 .. Chunks[f]) \X {f}

IInv == TypeOK /\ UnheardIsAwaited /\ FiledByName

\* No two transmissions have the same file name.
DistinctNames == \A f \in Files, g \in Files : Name[f] = Name[g] => f = g

\* A message is a chunk of a file.
LEMMA MessageOf ==
  /\ \A f \in Files : \A c \in 1 .. Chunks[f] : <<f, c>> \in Messages
  /\ \A m \in Messages : \E f \in Files : \E c \in 1 .. Chunks[f] : m = <<f, c>>
BY DEF Messages

-----------------------------------------------------------------------------
(* The sender's steps. *)

\* Sending the chunk after those that are heard.
LEMMA SendKeeps ==
  ASSUME IInv, NEW f \in Files, NEW c \in 1 .. Chunks[f], SendChunk(f, c),
         \A b \in 1 .. Chunks[f] : <<f, b>> \notin sent \ heard,
         done' \subseteq Files,
         UNCHANGED <<senderIn, receiverIn, collected, full>>
  PROVE  IInv'
<1>1. CASE UNCHANGED <<sessionVars, chunk>>
  BY <1>1 DEF IInv, TypeOK, UnheardIsAwaited, FiledByName, sessionVars
<1>2. CASE Session!Send(<<f, c>>) /\ chunk' = [chunk EXCEPT ![f] = c]
  <2>1. /\ sent' = sent \cup {<<f, c>>} /\ <<f, c>> \in Messages
        /\ UNCHANGED <<sending, receiving, heard, finished, delivered, lost>>
    BY <1>2, MessageOf DEF Session!Send
  <2>2. c \in Nat
    BY FileAssumption
  <2>3. TypeOK'
    BY <1>2, <2>1, <2>2 DEF IInv, TypeOK
  <2>4. UnheardIsAwaited'
    <3>. SUFFICES ASSUME NEW g \in Files, NEW b \in 1 .. Chunks[g],
                         <<g, b>> \in sent' \ heard'
                  PROVE  b = chunk'[g]
      BY DEF UnheardIsAwaited
    <3>1. CASE g = f
      BY <1>2, <2>1, <3>1 DEF IInv, TypeOK
    <3>2. CASE g # f
      BY <1>2, <2>1, <3>2 DEF IInv, TypeOK, UnheardIsAwaited
    <3>. QED  BY <3>1, <3>2
  <2>5. FiledByName'
    BY DEF IInv, FiledByName
  <2>. QED  BY <2>3, <2>4, <2>5 DEF IInv
<1>. QED  BY <1>1, <1>2 DEF SendChunk

\* Beginning a file.
LEMMA BeginKeeps ==
  ASSUME IInv, NEW f \in Files, Begin(f) PROVE IInv'
<1>1. 1 \in 1 .. Chunks[f]
  BY FileAssumption
<1>2. \A b \in 1 .. Chunks[f] : <<f, b>> \notin sent \ heard
  BY FileAssumption DEF Begin, IInv, UnheardIsAwaited
<1>. QED  BY <1>1, <1>2, SendKeeps DEF Begin, IInv, TypeOK

\* Continuing after an await.
LEMMA ContinueKeeps ==
  ASSUME IInv, NEW f \in Files, Continue(f) PROVE IInv'
<1>1. CASE More(f)
  <2>1. chunk[f] + 1 \in 1 .. Chunks[f]
    BY <1>1, FileAssumption DEF More, IInv, TypeOK
  <2>2. \A b \in 1 .. Chunks[f] : <<f, b>> \notin sent \ heard
    BY DEF Continue, Resolved, IInv, UnheardIsAwaited
  <2>. QED  BY <1>1, <2>1, <2>2, SendKeeps DEF Continue, IInv, TypeOK
<1>2. CASE ~More(f)
  <2>1. /\ done' = done \cup {f}
        /\ UNCHANGED <<sending, receiving, sent, heard, finished, delivered,
                       lost, senderIn, receiverIn, chunk, collected, full>>
    BY <1>2 DEF Continue, sessionVars
  <2>. QED  BY <2>1 DEF IInv, TypeOK, UnheardIsAwaited, FiledByName
<1>. QED  BY <1>1, <1>2

-----------------------------------------------------------------------------
(* The receiver's steps. *)

\* What collecting a chunk does to the collector.
LEMMA CollectKeeps ==
  ASSUME IInv, NEW f \in Files, NEW c \in 1 .. Chunks[f], Collect(f, c)
  PROVE  /\ collected' \in [Names -> SUBSET (Nat \X Files)]
         /\ full' \subseteq Names \X SUBSET (Nat \X Files)
         /\ FiledByName'
<1>. DEFINE n == Name[f]
            inner == Added(f, c)
<1>1. /\ n \in Names /\ c \in Nat
      /\ inner \in SUBSET (Nat \X Files)
      /\ \A e \in inner : \E g \in Files : Name[g] = n /\ e \in (1 .. Chunks[g]) \X {g}
  <2>1. n \in Names /\ c \in Nat
    BY FileAssumption DEF Names
  <2>2. /\ collected[n] \in SUBSET (Nat \X Files)
        /\ \A e \in collected[n] :
             \E g \in Files : Name[g] = n /\ e \in (1 .. Chunks[g]) \X {g}
    BY <2>1 DEF IInv, TypeOK, FiledByName
  <2>3. <<c, f>> \in (1 .. Chunks[f]) \X {f} /\ <<c, f>> \in Nat \X Files
    BY <2>1
  <2>. QED  BY <2>1, <2>2, <2>3 DEF Added
<1>2. \/ /\ full' = full \cup {<<n, inner>>}
         /\ collected' = [collected EXCEPT ![n] = {}]
      \/ full' = full /\ collected' = [collected EXCEPT ![n] = inner]
  BY DEF Collect
<1>3. /\ collected' \in [Names -> SUBSET (Nat \X Files)]
      /\ full' \subseteq Names \X SUBSET (Nat \X Files)
  BY <1>1, <1>2 DEF IInv, TypeOK
<1>4. FiledByName'
  <2>. SUFFICES ASSUME NEW k \in Names, NEW e \in collected'[k]
                PROVE  \E g \in Files :
                         Name[g] = k /\ e \in (1 .. Chunks[g]) \X {g}
    BY DEF FiledByName
  <2>1. CASE k = n
    BY <1>1, <1>2, <2>1 DEF IInv, TypeOK
  <2>2. CASE k # n
    BY <1>2, <2>2 DEF IInv, TypeOK, FiledByName
  <2>. QED  BY <2>1, <2>2
<1>. QED  BY <1>3, <1>4

\* A message of the session arrives.
LEMMA DeliverKeeps ==
  ASSUME IInv, NEW f \in Files, NEW c \in 1 .. Chunks[f], Deliver(f, c)
  PROVE  IInv'
<1>1. /\ UNCHANGED <<sending, receiving, sent, heard, finished, lost, senderIn,
                     receiverIn, chunk, done>>
      /\ delivered' \subseteq sent
  BY DEF Deliver, Session!Deliver, IInv, TypeOK
<1>2. /\ collected' \in [Names -> SUBSET (Nat \X Files)]
      /\ full' \subseteq Names \X SUBSET (Nat \X Files)
      /\ FiledByName'
  <2>1. CASE Collect(f, c)
    BY <2>1, CollectKeeps
  <2>2. CASE UNCHANGED <<collected, full>>
    BY <2>2 DEF IInv, TypeOK, FiledByName
  <2>. QED  BY <2>1, <2>2 DEF Deliver
<1>. QED  BY <1>1, <1>2 DEF IInv, TypeOK, UnheardIsAwaited

\* The rest: the session, and leaving.
LEMMA RestKeeps ==
  ASSUME IInv, \/ \E m \in Messages : Hear(m)
               \/ \E S \in SUBSET Messages : GiveUp(S)
               \/ CloseSender \/ SenderLeaves \/ ReceiverLeaves
  PROVE  IInv'
<1>1. ASSUME NEW m \in Messages, Hear(m) PROVE IInv'
  BY <1>1
  DEF Hear, Session!Hear, IInv, TypeOK, UnheardIsAwaited, FiledByName
<1>2. ASSUME NEW S \in SUBSET Messages, GiveUp(S) PROVE IInv'
  BY <1>2
  DEF GiveUp, Session!GiveUp, IInv, TypeOK, UnheardIsAwaited, FiledByName
<1>3. CASE CloseSender
  BY <1>3
  DEF CloseSender, Session!CloseSender, IInv, TypeOK, UnheardIsAwaited,
      FiledByName
<1>4. CASE SenderLeaves
  BY <1>4
  DEF SenderLeaves, sessionVars, IInv, TypeOK, UnheardIsAwaited, FiledByName
<1>5. CASE ReceiverLeaves
  BY <1>5
  DEF ReceiverLeaves, sessionVars, IInv, TypeOK, UnheardIsAwaited, FiledByName
<1>. QED  BY <1>1, <1>2, <1>3, <1>4, <1>5

\* Every step keeps the invariant.
LEMMA Inductive == IInv /\ [Next]_vars => IInv'
<1>. SUFFICES ASSUME IInv, [Next]_vars PROVE IInv'
  OBVIOUS
<1>1. CASE UNCHANGED vars
  BY <1>1 DEF vars, sessionVars, IInv, TypeOK, UnheardIsAwaited, FiledByName
<1>. QED
  BY <1>1, BeginKeeps, ContinueKeeps, DeliverKeeps, RestKeeps DEF Next

\* The invariant holds initially.
LEMMA Initially == Init => IInv
BY FileAssumption
DEF Init, Session!Init, IInv, TypeOK, UnheardIsAwaited, FiledByName

\* The invariant holds of every reachable state.
THEOREM Invariance == Spec => []IInv
BY Initially, Inductive, PTL DEF Spec

\* Loops, collector and session stay well-typed.
THEOREM TypeCorrect == Spec => []TypeOK
BY Invariance, PTL DEF IInv

\* A loop never has two chunks under way that nobody has begun to receive.
THEOREM AtMostOneUnheard == Spec => []OneUnheard
<1>1. IInv => OneUnheard
  <2>. SUFFICES ASSUME IInv, NEW f \in Files
                PROVE  Cardinality({m \in sent \ heard : m[1] = f}) <= 1
    BY DEF OneUnheard
  <2>1. {m \in sent \ heard : m[1] = f} \subseteq {<<f, chunk[f]>>}
    <3>. SUFFICES ASSUME NEW m \in sent \ heard, m[1] = f
                  PROVE  m = <<f, chunk[f]>>
      OBVIOUS
    <3>1. m \in Messages
      BY DEF IInv, TypeOK
    <3>2. PICK g \in Files : \E c \in 1 .. Chunks[g] : m = <<g, c>>
      BY <3>1, MessageOf
    <3>3. PICK c \in 1 .. Chunks[g] : m = <<g, c>>
      BY <3>2
    <3>. QED  BY <3>3 DEF IInv, UnheardIsAwaited
  <2>2. /\ IsFiniteSet({<<f, chunk[f]>>})
        /\ Cardinality({<<f, chunk[f]>>}) = 1
    BY FS_Singleton
  <2>3. Cardinality({m \in sent \ heard : m[1] = f})
          <= Cardinality({<<f, chunk[f]>>})
    BY <2>1, <2>2, FS_Subset
  <2>. QED  BY <2>2, <2>3
<1>. QED  BY <1>1, Invariance, PTL

-----------------------------------------------------------------------------
(* Files with names of their own. *)

\* A collector that has as many chunks as the file has, all of them chunks of
\* the file, has the file.
LEMMA AllChunks ==
  ASSUME NEW f \in Files, NEW inner, inner \subseteq (1 .. Chunks[f]) \X {f},
         Cardinality(inner) = Chunks[f]
  PROVE  inner = (1 .. Chunks[f]) \X {f}
<1>. DEFINE N == Chunks[f]
            All == (1 .. N) \X {f}
<1>1. N \in Nat /\ IsFiniteSet(1 .. N) /\ Cardinality(1 .. N) = N
  BY FileAssumption, FS_Interval
<1>2. IsFiniteSet({f}) /\ Cardinality({f}) = 1
  BY FS_Singleton
<1>3. IsFiniteSet(All) /\ Cardinality(All) = N
  <2>1. /\ IsFiniteSet((1 .. N) \X {f})
        /\ Cardinality((1 .. N) \X {f}) = Cardinality(1 .. N) * Cardinality({f})
    BY <1>1, <1>2, FS_Product, Zenon
  <2>2. Cardinality(1 .. N) * Cardinality({f}) = N
    BY <1>1, <1>2
  <2>. QED  BY <2>1, <2>2, Zenon
<1>. HIDE DEF All, N
<1>4. Cardinality(inner) = Cardinality(All)
  BY <1>1, <1>3 DEF N
<1>. QED  BY <1>3, <1>4, FS_Subset DEF All, N

\* Handing a file over.
LEMMA HandedOverWhole ==
  ASSUME DistinctNames, IInv, IntactFiles, NEW f \in Files,
         NEW c \in 1 .. Chunks[f], Collect(f, c)
  PROVE  IntactFiles'
<1>. DEFINE n == Name[f]
            inner == Added(f, c)
<1>1. CASE full' = full
  BY <1>1 DEF IntactFiles, Whole
<1>2. CASE Completes(f, inner) /\ full' = full \cup {<<n, inner>>}
  <2>1. collected[n] \subseteq (1 .. Chunks[f]) \X {f}
    BY DEF IInv, FiledByName, Names, DistinctNames
  <2>2. inner \subseteq (1 .. Chunks[f]) \X {f}
    BY <2>1 DEF Added
  <2>3. inner = (1 .. Chunks[f]) \X {f}
    BY <1>2, <2>2, AllChunks DEF Completes
  <2>4. <<n, inner>> = Whole(f)
    BY <2>3 DEF Whole
  <2>5. ASSUME NEW m \in full' PROVE \E g \in Files : m = Whole(g)
    BY <1>2, <2>4, <2>5 DEF IntactFiles
  <2>. QED  BY <2>5 DEF IntactFiles, Whole
<1>. QED  BY <1>1, <1>2 DEF Collect

\* If no two files have the same name, what is handed over is a file that was
\* sent, however its chunks were reordered and repeated.
THEOREM FilesIntact == DistinctNames => (Spec => []IntactFiles)
<1>. SUFFICES ASSUME DistinctNames PROVE Spec => []IntactFiles
  OBVIOUS
<1>1. Init => IntactFiles
  BY DEF Init, IntactFiles
<1>2. IInv /\ IntactFiles /\ [Next]_vars => IntactFiles'
  <2>. SUFFICES ASSUME IInv, IntactFiles, [Next]_vars PROVE IntactFiles'
    OBVIOUS
  <2>1. ASSUME full' = full PROVE IntactFiles'
    BY <2>1 DEF IntactFiles, Whole
  <2>2. ASSUME NEW f \in Files, NEW c \in 1 .. Chunks[f], Deliver(f, c)
        PROVE  IntactFiles'
    BY <2>1, <2>2, HandedOverWhole DEF Deliver
  <2>3. \/ full' = full
        \/ \E f \in Files : \E c \in 1 .. Chunks[f] : Deliver(f, c)
    BY DEF Next, vars, Begin, Continue, Hear, GiveUp, CloseSender,
           SenderLeaves, ReceiverLeaves
  <2>. QED  BY <2>1, <2>2, <2>3
<1>. QED  BY <1>1, <1>2, Invariance, PTL DEF Spec

-----------------------------------------------------------------------------
(* The session below. *)

\* SessionStep: what a step of the two peers may do to the session they share.
SessionStep == [Session!Next]_(Session!vars)

\* A chunk is sent as a message of the session, or the session is left alone.
LEMMA SendChunkSends ==
  ASSUME NEW f \in Files, NEW c \in 1 .. Chunks[f], SendChunk(f, c)
  PROVE  SessionStep
<1>1. CASE Session!Send(<<f, c>>)
  BY <1>1, MessageOf DEF SessionStep, Session!Next
<1>2. CASE UNCHANGED sessionVars
  BY <1>2 DEF SessionStep, sessionVars, Session!vars
<1>. QED  BY <1>1, <1>2 DEF SendChunk

\* The loop asks for chunks that the file has, and for no other.
LEMMA ContinueUses ==
  ASSUME IInv, NEW f \in Files, Continue(f) PROVE SessionStep
<1>1. CASE More(f)
  <2>1. chunk[f] + 1 \in 1 .. Chunks[f]
    BY <1>1, FileAssumption DEF More, IInv, TypeOK
  <2>. QED  BY <1>1, <2>1, SendChunkSends DEF Continue
<1>2. CASE ~More(f)
  BY <1>2 DEF Continue, SessionStep, sessionVars, Session!vars
<1>. QED  BY <1>1, <1>2

\* Whatever the peers do, the session takes a step of its own or none.
LEMMA StepUses == IInv /\ [Next]_vars => SessionStep
<1>. SUFFICES ASSUME IInv, [Next]_vars PROVE SessionStep
  OBVIOUS
<1>1. ASSUME NEW f \in Files, Begin(f) PROVE SessionStep
  <2>1. 1 \in 1 .. Chunks[f]
    BY FileAssumption
  <2>. QED  BY <1>1, <2>1, SendChunkSends DEF Begin
<1>2. ASSUME NEW f \in Files, NEW c \in 1 .. Chunks[f], Deliver(f, c)
      PROVE  SessionStep
  BY <1>2, MessageOf DEF Deliver, SessionStep, Session!Next
<1>3. ASSUME NEW m \in Messages, Hear(m) PROVE SessionStep
  BY <1>3 DEF Hear, SessionStep, Session!Next
<1>4. ASSUME NEW S \in SUBSET Messages, GiveUp(S) PROVE SessionStep
  BY <1>4 DEF GiveUp, SessionStep, Session!Next
<1>5. CASE CloseSender
  BY <1>5 DEF CloseSender, SessionStep, Session!Next
<1>6. CASE SenderLeaves \/ ReceiverLeaves \/ UNCHANGED vars
  BY <1>6
  DEF SenderLeaves, ReceiverLeaves, vars, sessionVars, SessionStep, Session!vars
<1>. QED  BY <1>1, <1>2, <1>3, <1>4, <1>5, <1>6, ContinueUses DEF Next

\* Two connected peers use their session as MessageChannel lets it be used: each
\* chunk is passed to it once, and what they learn of it is what it promises.
\* With ImplementsChannel of DataTransferProofs, which shows that a connected
\* session keeps that contract, what is proved here stands on the code of both.
THEOREM UsesSession == Spec => Session!Spec
<1>1. Init => Session!Init
  BY DEF Init
<1>2. IInv /\ [Next]_vars => [Session!Next]_(Session!vars)
  BY StepUses DEF SessionStep
<1>. QED  BY <1>1, <1>2, Invariance, PTL DEF Spec, Session!Spec
=============================================================================
