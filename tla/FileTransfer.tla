---------------------------- MODULE FileTransfer ----------------------------
(***************************************************************************)
(* One direction of two connected peers: the loops that send the chunks of *)
(* files one by one, awaiting each, and the receiver's chunk collector.    *)
(* Source: simple/simplePeer/behaviors/connectedToPeer.ts.                 *)
(*                                                                         *)
(* Below them is a session, taken by its contract, MessageChannel, which   *)
(* DataTransfer implements: a message arrives any number of times, in any  *)
(* order, and send() resolves when it begins to arrive.  A message is      *)
(* <<f, c>>, chunk c of the transmission f; what a chunk contains, it      *)
(* stands for.  Encryption changes how a chunk is written, not its way.    *)
(* A definition marked MUTANT is a plausible bug in the one it names.      *)
(***************************************************************************)
EXTENDS Integers, FiniteSets

CONSTANTS
  Files,       \* transmissions: calls of createOutgoingTransmission
  Name,        \* Name[f]: fileName of f, given or made of the payload
  Chunks,      \* Chunks[f]: totalNo, at least 1 even for an empty payload
  Patient      \* is a file sent only when no other of its name is under way?

ASSUME FileAssumption ==
  /\ Chunks \in [Files -> Nat \ {0}]
  /\ Patient \in BOOLEAN

Names    == {Name[f] : f \in Files}
Messages == UNION {{f} \X (1 .. Chunks[f]) : f \in Files}

VARIABLES
  sending, receiving, sent, heard, finished, delivered, lost, \* the session
  senderIn, receiverIn,  \* is that peer in state "connectedToPeer"?
  chunk,      \* chunk[f]: chunk that f's loop awaits; 0: f has not begun
  done,       \* files of which the last send() has resolved
  collected,  \* chunkCollector: collected[n] is a set of <<chunkNo, f>>
  full        \* history: onFullMessage, as <<name, collected chunks>>

sessionVars == <<sending, receiving, sent, heard, finished, delivered, lost>>
vars == <<sessionVars, senderIn, receiverIn, chunk, done, collected, full>>

Session == INSTANCE MessageChannel WITH Msgs <- Messages

Init ==
  /\ Session!Init
  /\ senderIn = TRUE /\ receiverIn = TRUE
  /\ chunk = [f \in Files |-> 0]
  /\ done = {}
  /\ collected = [n \in Names |-> {}]
  /\ full = {}

-----------------------------------------------------------------------------
(* The sender. *)

\* What the receiver hands over for f, if nothing goes wrong.
Whole(f) == <<Name[f], (1 .. Chunks[f]) \X {f}>>

MayBegin(f) ==
  Patient => \A g \in Files : Name[g] = Name[f] /\ chunk[g] # 0 =>
               g \in done /\ Whole(g) \in full

\* Begin or continue the loop of f with chunk c, unless it may not send: then
\* the loop returns, here without a trace.
SendChunk(f, c) ==
  IF senderIn /\ sending
  THEN Session!Send(<<f, c>>) /\ chunk' = [chunk EXCEPT ![f] = c]
  ELSE UNCHANGED <<sessionVars, chunk>>

\* createOutgoingTransmission: the handler runs up to its first await.
Begin(f) ==
  /\ senderIn /\ chunk[f] = 0 /\ MayBegin(f)
  /\ SendChunk(f, 1)
  /\ UNCHANGED <<senderIn, receiverIn, done, collected, full>>

\* The send() that the loop awaits has resolved.
Resolved(f) == <<f, chunk[f]>> \in heard

MorePast(f) == chunk[f] <= Chunks[f]                           \* MUTANT of More
More(f) == chunk[f] < Chunks[f]

\* The loop goes on after an await.
Continue(f) ==
  /\ Resolved(f) /\ f \notin done
  /\ IF More(f)
     THEN SendChunk(f, chunk[f] + 1) /\ UNCHANGED done
     ELSE done' = done \cup {f} /\ UNCHANGED <<sessionVars, chunk>>
  /\ UNCHANGED <<senderIn, receiverIn, collected, full>>

-----------------------------------------------------------------------------
(* The receiver. *)

\* inner.set(chunkNo, payload).
Added(f, c) ==
  {e \in collected[Name[f]] : e[1] # c} \cup {<<c, f>>}

\* MUTANT of Completes: the file is complete when its last chunk arrives.
CompletesByLast(f, inner) == \E e \in inner : e[1] = Chunks[f]
\* MUTANT of Completes: one chunk too many is waited for.
CompletesLate(f, inner) == Cardinality(inner) > Chunks[f]
\* It has as many chunks as the one that has just arrived says.
Completes(f, inner) == Cardinality(inner) = Chunks[f]

\* addToChunkCollector.
Collect(f, c) ==
  LET n == Name[f]
      inner == Added(f, c) IN
    IF Completes(f, inner)
    THEN /\ full' = full \cup {<<n, inner>>}
         /\ collected' = [collected EXCEPT ![n] = {}]
    ELSE /\ collected' = [collected EXCEPT ![n] = inner]
         /\ UNCHANGED full

\* The session emits "receive"; onReceiveMsg hears it while it is registered.
Deliver(f, c) ==
  /\ Session!Deliver(<<f, c>>)
  /\ IF receiverIn THEN Collect(f, c) ELSE UNCHANGED <<collected, full>>
  /\ UNCHANGED <<senderIn, receiverIn, chunk, done>>

-----------------------------------------------------------------------------
(* The session below, and leaving "connectedToPeer". *)

Hear(m) ==
  /\ Session!Hear(m)
  /\ UNCHANGED <<senderIn, receiverIn, chunk, done, collected, full>>

GiveUp(S) ==
  /\ receiving /\ receiving' \in BOOLEAN
  /\ Session!GiveUp(S)
  /\ UNCHANGED <<senderIn, receiverIn, chunk, done, collected, full>>

CloseSender ==
  /\ Session!CloseSender
  /\ UNCHANGED <<senderIn, receiverIn, chunk, done, collected, full>>

\* onExit: the peer closes, or its session has closed.
SenderLeaves ==
  /\ senderIn /\ senderIn' = FALSE
  /\ UNCHANGED <<sessionVars, receiverIn, chunk, done, collected, full>>

ReceiverLeaves ==
  /\ receiverIn /\ receiverIn' = FALSE
  /\ collected' = [n \in Names |-> {}]
  /\ UNCHANGED <<sessionVars, senderIn, chunk, done, full>>

Next ==
  \/ \E f \in Files : Begin(f) \/ Continue(f)
  \/ \E f \in Files : \E c \in 1 .. Chunks[f] : Deliver(f, c)
  \/ \E m \in Messages : Hear(m)
  \/ \E S \in SUBSET Messages : GiveUp(S)
  \/ CloseSender \/ SenderLeaves \/ ReceiverLeaves

Spec == Init /\ [][Next]_vars

\* What the session is known to do while both ends stay: deliver what it does
\* not lose, and resolve send().  An await that has resolved continues.
Fairness ==
  /\ \A f \in Files : WF_vars(Continue(f))
  /\ \A f \in Files : \A c \in 1 .. Chunks[f] :
       WF_vars(<<f, c>> \notin delivered /\ Deliver(f, c))
  /\ \A m \in Messages : WF_vars(m \notin heard /\ Hear(m))

FairSpec == Spec /\ Fairness

-----------------------------------------------------------------------------
(* Properties. *)

TypeOK ==
  /\ sending \in BOOLEAN /\ receiving \in BOOLEAN
  /\ sent \subseteq Messages /\ heard \subseteq sent
  /\ finished \subseteq sent /\ delivered \subseteq sent /\ lost \subseteq sent
  /\ senderIn \in BOOLEAN /\ receiverIn \in BOOLEAN
  /\ chunk \in [Files -> Nat] /\ done \subseteq Files
  /\ collected \in [Names -> SUBSET (Nat \X Files)]
  /\ full \subseteq Names \X SUBSET (Nat \X Files)

\* What onFullMessage hands over is one file that was sent under that name, all
\* of it and nothing else, in whatever order and however often its chunks come.
IntactFiles == \A m \in full : \E f \in Files : m = Whole(f)

\* A loop has at most one chunk under way that the receiver has not begun to
\* receive: a large file does not pile up in the sender's transmissions.
OneUnheard ==
  \A f \in Files : Cardinality({m \in sent \ heard : m[1] = f}) <= 1

\* While both peers stay connected and the session loses nothing, a file that
\* was begun is handed over.  The receiver has its listeners from the start.
FilesArrive ==
  \A f \in Files :
    chunk[f] # 0 ~> \/ Whole(f) \in full
                    \/ ~sending \/ ~receiving \/ ~senderIn \/ ~receiverIn
                    \/ lost # {}
=============================================================================
