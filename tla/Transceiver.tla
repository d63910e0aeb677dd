----------------------------- MODULE Transceiver -----------------------------
(***************************************************************************)
(* The life of a TransceiverIPv4: its UDP socket, its map of sessions, and *)
(* the one clean-up that close(), a socket error and a failing listen()    *)
(* share through closePromise.  Source: transport/transceiver.ts.          *)
(*                                                                         *)
(* An event may run handlers of the application before the next one, so it *)
(* is split in two: the event itself says what becomes of the socket and   *)
(* passes on the sessions s, and an operation of the application (Stays,   *)
(* ConnectTo, CloseSession, Close) says what becomes of the rest.  Code    *)
(* between two awaits on promises already settled is one step.             *)
(* The handshake and the timers of a session are in SessionPair.           *)
(***************************************************************************)
EXTENDS FiniteSets, Integers

CONSTANTS
  Addrs,        \* remote addresses
  MaxSessions   \* MAX_SESSIONS                                      (1024)

ASSUME TransceiverAssumption == IsFiniteSet(Addrs) /\ MaxSessions \in Nat \ {0}

VARIABLES
  state,     \* current state of the state machine
  socket,    \* "bound" also after a bind that failed, until it is closed;
             \* "closing" from socket.close() until this.socket is undefined
  listen,    \* listenPromise
  cleanup,   \* where the clean-up behind closePromise is: "await" is its wait
             \* for listenPromise, "resolved" and "rejected" are its ends
  cause,     \* who runs it: "close" and "awaited" are performClose before and
             \* after its listener failed, "retry" its catch, "listen" is
             \* performListen and "error" onSocketError
  sess,      \* sess[a]: state of the session with a, "none" if there is none
  snapshot   \* the sessions that closeSessions waits for

transceiver == <<state, socket, listen, cleanup, cause, sess, snapshot>>

TransceiverInit ==
  /\ state = "idle" /\ socket = "none" /\ listen = "none"
  /\ cleanup = "none" /\ cause = "none"
  /\ sess = [a \in Addrs |-> "none"] /\ snapshot = {}

Open(s) == {a \in Addrs : s[a] # "none"}
Settled == cleanup \in {"resolved", "rejected"}

\* bindSocketEvents attaches the handler of datagrams, every clean-up takes it off.
Hears == socket = "bound" /\ listen = "resolved" /\ cleanup = "none"

-----------------------------------------------------------------------------
(* The clean-up. *)

ConnectedOnly(s) == {a \in Addrs : s[a] = "connected"}  \* MUTANT of InMap
InMap(s) == Open(s)

\* closeSessions up to its await.
CleanUp(who, s) ==
  /\ cleanup' = "sessions" /\ cause' = who
  /\ snapshot' = InMap(s)
  /\ sess' = [a \in Addrs |-> IF a \in InMap(s) THEN "closing" ELSE s[a]]

\* fail() or performClose is through; listen() rejects if it was waiting for it.
End(final, promise) ==
  /\ state' = final
  /\ cleanup' = promise
  /\ listen' = IF cause = "listen" THEN "rejected" ELSE listen

Cleaned == End(IF cause = "close" THEN "closed" ELSE "error",
               IF cause = "retry" THEN "rejected" ELSE "resolved")

\* The sessions are closed: the rest of closeSessions, and closeSocket, which has
\* nothing to do without a socket or with one that is already closing.
SessionsDone ==
  /\ cleanup = "sessions" /\ \A a \in snapshot : sess[a] = "none"
  /\ IF socket = "bound"
     THEN /\ cleanup' = "socket" /\ socket' = "closing"
          /\ UNCHANGED <<state, listen>>
     ELSE socket' = "none" /\ Cleaned
  /\ snapshot' = {}
  /\ UNCHANGED <<cause, sess>>

SocketClosed ==
  /\ cleanup = "socket"
  /\ socket' = "none" /\ Cleaned
  /\ UNCHANGED <<cause, sess, snapshot>>

\* The socket's "error", or a send that failed: the first one begins a clean-up.
\* While the socket is being closed it makes closeSocket reject: performClose
\* tries again, and fail() ends in "error" and leaves the socket where it is.
SocketFails ==
  \/ /\ Hears
     /\ CleanUp("error", sess)
     /\ UNCHANGED <<state, socket, listen>>
  \/ /\ cleanup = "socket" /\ cause = "close"
     /\ CleanUp("retry", sess)
     /\ UNCHANGED <<state, socket, listen>>
  \/ /\ cleanup = "socket" /\ cause # "close"
     /\ End("error", IF cause = "error" THEN "resolved" ELSE "rejected")
     /\ UNCHANGED <<socket, cause, sess, snapshot>>

-----------------------------------------------------------------------------
(* What the application does, the sessions being s by now. *)

Stays(s) == sess' = s /\ UNCHANGED <<state, cleanup, cause, snapshot>>

\* MUTANT of CanConnect: only the state is looked at, not closePromise.
ConnectsWhileListening(a, s) ==
  /\ state = "listening"
  /\ s[a] = "none" /\ Cardinality(Open(s)) < MaxSessions
\* connect() and createSession throw otherwise.
CanConnect(a, s) ==
  /\ state = "listening" /\ cleanup = "none"
  /\ s[a] = "none" /\ Cardinality(Open(s)) < MaxSessions

ConnectTo(a, s) == Stays([s EXCEPT ![a] = "connecting"])

KeepsSession(a, s) == Stays(s)                       \* MUTANT of CloseSession
CloseSession(a, s) ==
  Stays([s EXCEPT ![a] = IF @ = "none" THEN "none" ELSE "closing"])

\* performClose waits for a bind that is under way.
Close(s) ==
  \/ cleanup # "none" /\ Stays(s)
  \/ /\ cleanup = "none" /\ listen = "pending"
     /\ cleanup' = "await" /\ cause' = "close" /\ sess' = s
     /\ UNCHANGED <<state, snapshot>>
  \/ /\ cleanup = "none" /\ listen # "pending"
     /\ state' = "closing" /\ CleanUp("close", s)

-----------------------------------------------------------------------------
(* Events. *)

Listen ==
  /\ state = "idle" /\ listen = "none"
  /\ state' = "listening" /\ socket' = "binding" /\ listen' = "pending"
  /\ UNCHANGED <<cleanup, cause, sess, snapshot>>

\* The socket is bound; what the caller of listen() does then is added to it.
Bound == socket = "binding" /\ socket' = "bound" /\ listen' = "resolved"

\* performClose goes on.
CloseWhenBound == cleanup = "await" /\ state' = "closing" /\ CleanUp("close", sess)

\* MUTANT of ListenRejects: performListen waits for the closePromise of close().
ListenWaits == UNCHANGED <<listen, cleanup, cause, sess, snapshot>>
\* listen() rejects at once if close() waits for it, and performClose goes on.
ListenRejects == listen' = "rejected" /\ CleanUp("awaited", sess)

BindFails ==
  /\ socket = "binding" /\ socket' = "bound"
  /\ IF cleanup = "await" THEN ListenRejects
                          ELSE CleanUp("listen", sess) /\ UNCHANGED listen
  /\ UNCHANGED state

\* The first HELLO of an address.
Hello(a) ==
  /\ Hears /\ sess[a] = "none" /\ Cardinality(Open(sess)) < MaxSessions
  /\ sess' = [sess EXCEPT ![a] = "connecting"]
  /\ UNCHANGED <<state, socket, listen, cleanup, cause, snapshot>>

\* A session ends for reasons of its own: retries used up, silence, a FIN.
Closes(a) ==
  /\ sess[a] \in {"connecting", "connected"}
  /\ sess' = [sess EXCEPT ![a] = "closing"]
  /\ UNCHANGED <<state, socket, listen, cleanup, cause, snapshot>>

\* onConnected and onSessionClosed; the handlers go on with these sessions.
Connected(a) == Hears /\ sess[a] = "connecting" /\ UNCHANGED <<socket, listen>>
WithConnected(a) == [sess EXCEPT ![a] = "connected"]
Closed(a) == sess[a] = "closing" /\ UNCHANGED <<socket, listen>>
WithClosed(a) == [sess EXCEPT ![a] = "none"]

-----------------------------------------------------------------------------
(* Properties. *)

TransceiverTypeOK ==
  /\ state \in {"idle", "listening", "closing", "closed", "error"}
  /\ socket \in {"none", "binding", "bound", "closing"}
  /\ listen \in {"none", "pending", "resolved", "rejected"}
  /\ cleanup \in {"none", "await", "sessions", "socket", "resolved", "rejected"}
  /\ cause \in {"none", "close", "awaited", "retry", "listen", "error"}
  /\ sess \in [Addrs -> {"none", "connecting", "connected", "closing"}]
  /\ snapshot \subseteq Addrs

\* Whatever ends the transceiver, sendDatagram never throws under a session that
\* is still sending its HELLOs or FINs: the socket outlives every session.
SessionsCanSpeak ==
  Open(sess) # {} => socket \in {"binding", "bound"} /\
                     state \in {"listening", "closing"}

\* A transceiver that has ended keeps no session and leaves no promise open,
\* and one that is closed has no socket.
EndIsClean ==
  state \in {"closed", "error"} =>
    /\ Open(sess) = {} /\ Settled /\ listen # "pending"
    /\ state = "closed" => socket = "none"

\* close(), listen() and the clean-up after an error never wait for each other:
\* both promises settle.
PromisesSettle ==
  /\ cleanup # "none" ~> Settled
  /\ listen = "pending" ~> listen # "pending"
=============================================================================
