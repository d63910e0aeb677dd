-------------------------------- MODULE Relay -------------------------------
(***************************************************************************)
(* The coordination relay: the map of pending requests, the matching of    *)
(* two requests with reversed tags, their expiry, and the sessions of the  *)
(* peers that the map's entries point to.  Source: simple/simpleRelay.ts.  *)
(*                                                                         *)
(* A session with a peer's address is connecting, open, closing (FINs are  *)
(* being sent; its entries are still in the map) or absent.  Requests that *)
(* do not parse are ignored by the code and not modelled; a request is     *)
(* known by its tags, which each peer has from its settings.               *)
(* A definition marked MUTANT is a plausible bug in the one it names.      *)
(***************************************************************************)
EXTENDS Integers, FiniteSets

CONSTANTS
  Peers,         \* addresses of peers
  Tag, Wants,    \* selfTag and distantTag of each peer's requests
  NoPeer,        \* no entry
  Proxied,       \* tags with a PeerProxy, whose setup is awaited
  MaxPending,    \* MAX_PENDING_REQUESTS                             (10 000)
  MaxRequests,   \* requests received in one session: the bound on duplicates
  Sweeps         \* the runs of removeExpiredRequests that may overlap: a bound

ASSUME RelayAssumption ==
  /\ NoPeer \notin Peers
  /\ \A p \in Peers : Tag[p] # Wants[p]
  /\ MaxPending \in Nat \ {0} /\ MaxRequests \in Nat \ {0}

Key(p) == <<Tag[p], Wants[p]>>
RevSame(k) == k                                                 \* MUTANT of Rev
Rev(k) == <<k[2], k[1]>>
Keys   == {Key(p) : p \in Peers} \cup {Rev(Key(p)) : p \in Peers}

VARIABLES
  up,         \* "up", "closing" (close() called), "closed" or "crashed"
  session,    \* session[p]: "none", "connecting", "open" or "closing"
  pending,    \* requestMap: pending[k] is the peer of the entry, or NoPeer
  stale,      \* keys of the entries older than the time to live
  sweep,      \* sweep[s]: keys that removeExpiredRequests s has yet to visit
  awaited,    \* awaited[s]: the peer whose closeSession it awaits, or NoPeer
  jobs,       \* <<requester, distant>> matched, proxies being set up
  requests,   \* requests[p]: requests received in p's present session
  waiting,    \* history: peers told nothing yet since their request was kept
  told        \* history: told[p]: peers p was introduced to in this session

vars == <<up, session, pending, stale, sweep, awaited, jobs, requests, waiting,
          told>>

Init ==
  /\ up = "up"
  /\ session = [p \in Peers |-> "none"]
  /\ pending = [k \in Keys |-> NoPeer]
  /\ stale = {}
  /\ sweep = [s \in Sweeps |-> {}] /\ awaited = [s \in Sweeps |-> NoPeer]
  /\ jobs = {}
  /\ requests = [p \in Peers |-> 0]
  /\ waiting = {}
  /\ told = [p \in Peers |-> {}]

Entries == {k \in Keys : pending[k] # NoPeer}
Without(keys) == [k \in Keys |-> IF k \in keys THEN NoPeer ELSE pending[k]]

-----------------------------------------------------------------------------
(* Sessions. *)

Connect(p) ==
  /\ up = "up" /\ session[p] = "none"
  /\ session' = [session EXCEPT ![p] = "connecting"]
  /\ UNCHANGED <<up, pending, stale, sweep, awaited, jobs, requests, waiting, told>>

Open(p) ==
  /\ up = "up" /\ session[p] = "connecting"
  /\ session' = [session EXCEPT ![p] = "open"]
  /\ UNCHANGED <<up, pending, stale, sweep, awaited, jobs, requests, waiting, told>>

\* The peer closes its session, does not complete the handshake, or is silent.
BeginClose(p) ==
  /\ up = "up" /\ session[p] \in {"connecting", "open"}
  /\ session' = [session EXCEPT ![p] = "closing"]
  /\ UNCHANGED <<up, pending, stale, sweep, awaited, jobs, requests, waiting, told>>

NoEntries(p) == {}                                        \* MUTANT of EntriesOf
\* The entries that onSessionClosed deletes.
EntriesOf(p) == {k \in Keys : pending[k] = p}

\* The last FIN is sent: the session leaves the map, onSessionClosed runs (not
\* once close() has taken the handler off), and its closeAsync resolves.
Closed(p) ==
  /\ up \in {"up", "closing"} /\ session[p] = "closing"
  /\ session' = [session EXCEPT ![p] = "none"]
  /\ LET gone == IF up = "up" THEN EntriesOf(p) ELSE {} IN
       /\ pending' = Without(gone)
       /\ stale' = stale \ gone
  /\ awaited' = [s \in Sweeps |-> IF awaited[s] = p THEN NoPeer ELSE awaited[s]]
  /\ requests' = [requests EXCEPT ![p] = 0]
  /\ waiting' = waiting \ {p}
  /\ told' = [told EXCEPT ![p] = {}]
  /\ UNCHANGED <<up, sweep, jobs>>

-----------------------------------------------------------------------------
(* Requests. *)

\* The two sends of processSessionRequest, to the distant peer q and then to the
\* requester p.  A send to an address without a session throws and ends the
\* handler; a send to a session that is not connected rejects a promise that
\* nobody handles, which ends the process.
Introduce(p, q) ==
  \/ /\ session[q] = "open" /\ session[p] = "open"
     /\ told' = [told EXCEPT ![q] = @ \cup {p}, ![p] = @ \cup {q}]
     /\ waiting' = waiting \ {p, q}
     /\ UNCHANGED up
  \/ /\ session[q] = "open" /\ session[p] = "none"
     /\ told' = [told EXCEPT ![q] = @ \cup {p}]
     /\ waiting' = waiting \ {q}
     /\ UNCHANGED up
  \/ /\ session[q] = "none"
     /\ UNCHANGED <<up, told, waiting>>
  \/ /\ \/ session[q] \in {"connecting", "closing"}
        \/ session[q] = "open" /\ session[p] \in {"connecting", "closing"}
     /\ up' = "crashed"
     /\ UNCHANGED <<told, waiting>>

MatchableAny(k) == k \notin stale                         \* MUTANT of Matchable
\* A pending request that a new one in the reverse direction satisfies.
Matchable(k) == pending[k] # NoPeer /\ k \notin stale

Room(k) == pending[k] # NoPeer \/ Cardinality(Entries \ {Rev(k)}) < MaxPending

\* MUTANT of Forgotten: the expired reverse request is ignored, but not deleted.
NoneForgotten(k) == {}
Forgotten(k) == {Rev(k)}

\* No request in the reverse direction: keep this one, in place of an older one
\* with the same tags; an expired reverse one is forgotten.
Keep(p) ==
  LET k == Key(p)
      left == Without(Forgotten(k)) IN
  /\ ~Matchable(Rev(k))
  /\ IF Room(k)
     THEN /\ pending' = [left EXCEPT ![k] = p]
          /\ waiting' = waiting \cup {p}
     ELSE pending' = left /\ UNCHANGED waiting
  /\ stale' = stale \ (Forgotten(k) \cup IF Room(k) THEN {k} ELSE {})
  /\ UNCHANGED <<up, jobs, told>>

Match(p) ==
  LET k == Key(p)
      q == pending[Rev(k)] IN
  /\ Matchable(Rev(k))
  /\ pending' = Without({k, Rev(k)})
  /\ stale' = stale \ {k, Rev(k)}
  /\ IF {Tag[p], Wants[p]} \cap Proxied = {}
     THEN Introduce(p, q) /\ UNCHANGED jobs
     ELSE jobs' = jobs \cup {<<p, q>>} /\ UNCHANGED <<up, told, waiting>>

\* onReceiveFromPeer and processSessionRequest up to its first await.
Request(p) ==
  /\ up = "up" /\ session[p] = "open"
  /\ requests[p] < MaxRequests
  /\ requests' = [requests EXCEPT ![p] = @ + 1]
  /\ Keep(p) \/ Match(p)
  /\ UNCHANGED <<session, sweep, awaited>>

\* The proxies are set up, or one of them fails: the failure is only logged.
SetupDone(p, q) ==
  /\ up # "crashed" /\ <<p, q>> \in jobs
  /\ jobs' = jobs \ {<<p, q>>}
  /\ Introduce(p, q) \/ UNCHANGED <<up, told, waiting>>
  /\ UNCHANGED <<session, pending, stale, sweep, awaited, requests>>

-----------------------------------------------------------------------------
(* Expiry and closing. *)

Expire(k) ==
  /\ up = "up" /\ k \in Entries \ stale
  /\ stale' = stale \cup {k}
  /\ UNCHANGED <<up, session, pending, sweep, awaited, jobs, requests, waiting,
                 told>>

\* The cleanup interval.  It fires whether or not an earlier sweep is over.
SweepStart(s) ==
  /\ up = "up" /\ stale # {} /\ sweep[s] = {} /\ awaited[s] = NoPeer
  /\ sweep' = [sweep EXCEPT ![s] = stale]
  /\ UNCHANGED <<up, session, pending, stale, awaited, jobs, requests, waiting,
                 told>>

\* MUTANT of Old: the time to live is undefined, the comparison one with NaN.
OldNever(k) == FALSE
Old(k) == k \in stale

\* MUTANT of Disconnects: the entry is deleted, its session stays open.
DisconnectsNobody(p) == FALSE
Disconnects(p) == session[p] # "none"

\* Visit an entry: if it is still there and old, delete it and close its session.
SweepVisit(s, k) ==
  /\ up \in {"up", "closing"} /\ k \in sweep[s] /\ awaited[s] = NoPeer
  /\ sweep' = [sweep EXCEPT ![s] = @ \ {k}]
  /\ IF Old(k)
     THEN LET p == pending[k] IN
            /\ pending' = Without({k})
            /\ stale' = stale \ {k}
            /\ session' = [session EXCEPT ![p] =
                             IF Disconnects(p) THEN "closing" ELSE @]
            /\ awaited' = [awaited EXCEPT ![s] = IF Disconnects(p) THEN p ELSE @]
     ELSE UNCHANGED <<pending, stale, session, awaited>>
  /\ UNCHANGED <<up, jobs, requests, waiting, told>>

\* close(): no more requests are heard, and every session is closed.
Close ==
  /\ up = "up"
  /\ up' = "closing"
  /\ session' = [p \in Peers |-> IF session[p] = "none" THEN "none"
                                                        ELSE "closing"]
  /\ UNCHANGED <<pending, stale, sweep, awaited, jobs, requests, waiting, told>>

CloseDone ==
  /\ up = "closing" /\ \A p \in Peers : session[p] = "none"
  /\ up' = "closed"
  /\ pending' = [k \in Keys |-> NoPeer] /\ stale' = {}
  /\ UNCHANGED <<session, sweep, awaited, jobs, requests, waiting, told>>

Next ==
  \/ \E p \in Peers : \/ Connect(p) \/ Open(p) \/ BeginClose(p) \/ Closed(p)
                     \/ Request(p)
  \/ \E p \in Peers, q \in Peers : SetupDone(p, q)
  \/ \E k \in Keys : Expire(k)
  \/ \E s \in Sweeps : SweepStart(s) \/ \E k \in Keys : SweepVisit(s, k)
  \/ Close \/ CloseDone

Spec == Init /\ [][Next]_vars

\* Time passes, intervals fire, and a session that is closing gets closed.
\* Nothing obliges a peer to ask or to close.
Fairness ==
  /\ \A p \in Peers : WF_vars(Closed(p))
  /\ \A p \in Peers, q \in Peers : WF_vars(SetupDone(p, q))
  /\ \A k \in Keys : WF_vars(Expire(k))
  /\ \A s \in Sweeps, k \in Keys : WF_vars(SweepVisit(s, k))
  /\ WF_vars(\E s \in Sweeps : SweepStart(s)) /\ WF_vars(CloseDone)

FairSpec == Spec /\ Fairness

-----------------------------------------------------------------------------
(* Properties. *)

TypeOK ==
  /\ up \in {"up", "closing", "closed", "crashed"}
  /\ session \in [Peers -> {"none", "connecting", "open", "closing"}]
  /\ pending \in [Keys -> Peers \cup {NoPeer}]
  /\ stale \subseteq Entries
  /\ sweep \in [Sweeps -> SUBSET Keys]
  /\ awaited \in [Sweeps -> Peers \cup {NoPeer}]
  /\ jobs \subseteq Peers \X Peers
  /\ requests \in [Peers -> 0 .. MaxRequests]
  /\ waiting \subseteq Peers
  /\ told \in [Peers -> SUBSET Peers]

\* An entry never outlives the session of its peer, whatever closes sessions (the
\* peer, a sweep, the keep-alive): the address that a match reads is at least
\* that of a session in the map.  It may be one that is closing, and then the
\* match ends the process (Introduce).
PendingHasSession ==
  up = "up" => \A k \in Entries : session[pending[k]] \in {"open", "closing"}

\* Two peers that asked for each other are never both left waiting in the map.
NeverBothPending == \A k \in Entries : pending[Rev(k)] = NoPeer

\* The map stays within MAX_PENDING_REQUESTS.
PendingBounded == Cardinality(Entries) <= MaxPending

\* Peers are introduced to each other only if each asked for the other, however
\* entries were replaced, expired, or removed while proxies were set up.
MutualIntroductions ==
  \A p \in Peers : \A q \in told[p] : Tag[q] = Wants[p] /\ Wants[q] = Tag[p]

\* An entry does not stay: it is matched, replaced, swept, or goes with its
\* session.
EntriesSettle ==
  \A p \in Peers : pending[Key(p)] = p ~> pending[Key(p)] # p \/ up = "crashed"

\* A peer that no peer asks for is disconnected in the end, by the sweep that
\* visits its expired request.  The code has an exception: another address may
\* send a request with the same tags and take over the entry.  Then nothing
\* leads to the first peer, which waits until it closes.
Unsought(p) == \A q \in Peers : Wants[q] # Tag[p]
TakenOver(p) == pending[Key(p)] \notin {p, NoPeer}
UnsoughtDisconnect ==
  \A p \in Peers : Unsought(p) =>
    (pending[Key(p)] = p ~> p \notin waiting \/ TakenOver(p) \/ up = "crashed")

\* A peer whose request is pending is introduced or disconnected in the end.
PendingDisconnects ==
  \A p \in Peers : p \in waiting ~> p \notin waiting \/ up = "crashed"
=============================================================================
