--------------------------- MODULE MessageChannel ---------------------------
(***************************************************************************)
(* What one direction of a session promises its two applications, without  *)
(* parts, acknowledgements, timers or limits.  A message is delivered at   *)
(* least once or not at all; "finished" means that the sender has stopped  *)
(* retransmitting, which it does only for a message that was delivered or  *)
(* that the receiver gave up; and the promise of sendData ("heard") says   *)
(* no more than that the message began to arrive.                          *)
(***************************************************************************)
CONSTANT Msgs

VARIABLES
  sending, receiving,  \* is that end's session connected?
  sent,                \* messages passed to sendData
  heard,               \* messages whose sendData promise has resolved
  finished,            \* messages the sender has finished with
  delivered,           \* messages handed to the receiving application
  lost                 \* messages the receiver has given up at some time

vars == <<sending, receiving, sent, heard, finished, delivered, lost>>

Init ==
  /\ sending = TRUE /\ receiving = TRUE
  /\ sent = {} /\ heard = {} /\ finished = {} /\ delivered = {} /\ lost = {}

Send(m) ==
  /\ sending
  /\ m \notin sent /\ sent' = sent \cup {m}
  /\ UNCHANGED <<sending, receiving, heard, finished, delivered, lost>>

Deliver(m) ==
  /\ receiving /\ m \in sent
  /\ delivered' = delivered \cup {m}
  /\ UNCHANGED <<sending, receiving, sent, heard, finished, lost>>

\* The receiver gives up the messages of S, of which it has a part.
GiveUp(S) ==
  /\ S \subseteq sent
  /\ lost' = lost \cup S
  /\ UNCHANGED <<sending, sent, heard, finished, delivered>>

\* The sender learns that m is arriving, or that all of it has arrived.
Hear(m) ==
  /\ sending /\ m \in sent
  /\ heard' = heard \cup {m}
  /\ \/ UNCHANGED finished
     \/ m \in delivered \cup lost /\ finished' = finished \cup {m}
  /\ UNCHANGED <<sending, receiving, sent, delivered, lost>>

CloseSender ==
  /\ sending /\ sending' = FALSE
  /\ UNCHANGED <<receiving, sent, heard, finished, delivered, lost>>

Next ==
  \/ \E m \in Msgs : Send(m) \/ Deliver(m) \/ Hear(m)
  \/ \E S \in SUBSET Msgs : /\ receiving
                            /\ receiving' \in BOOLEAN
                            /\ GiveUp(S)
  \/ CloseSender

Spec == Init /\ [][Next]_vars
=============================================================================
