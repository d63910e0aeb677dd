----------------------------- MODULE RelayProofs ----------------------------
(***************************************************************************)
(* Safety of the relay for any peers, tags, proxies and limits.            *)
(***************************************************************************)
EXTENDS Relay, FiniteSetTheorems, TLAPS

(***************************************************************************)
(* The inductive invariant.  Introductions are mutual because an entry is  *)
(* found under the tags of the peer it points to, and a match whose        *)
(* proxies are being set up remembers two peers that asked for each other. *)
(***************************************************************************)

Mutual(p, q) == Tag[q] = Wants[p] /\ Wants[q] = Tag[p]

\* An entry is kept under the tags of its peer.
FiledByTags == \A k \in Entries : Key(pending[k]) = k

JobsMutual == \A p \in Peers, q \in Peers : <<p, q>> \in jobs => Mutual(p, q)

Bounded == IsFiniteSet(Entries) /\ PendingBounded

IInv ==
  /\ TypeOK
  /\ PendingHasSession
  /\ NeverBothPending
  /\ FiledByTags
  /\ JobsMutual
  /\ MutualIntroductions
  /\ Bounded

-----------------------------------------------------------------------------
(* Keys, and the entries that an update of the map leaves. *)

\* Reversing the tags is an involution on the keys, without a fixed point.
LEMMA RevOfKey ==
  ASSUME NEW k \in Keys
  PROVE  Rev(k) \in Keys /\ Rev(Rev(k)) = k /\ Rev(k) # k
<1>1. PICK p \in Peers : k = Key(p) \/ k = Rev(Key(p))
  BY DEF Keys
<1>. QED  BY <1>1, RelayAssumption DEF Keys, Key, Rev

\* A peer's key is a key.
LEMMA KeyIsKey ==
  ASSUME NEW p \in Peers
  PROVE  Key(p) \in Keys /\ Rev(Key(p)) = <<Wants[p], Tag[p]>>
BY DEF Keys, Key, Rev

\* A set that gains one element gains at most one in size.
LEMMA OneMore ==
  ASSUME NEW S, NEW T, NEW x, IsFiniteSet(S), T \subseteq S \cup {x}
  PROVE  /\ IsFiniteSet(T)
         /\ Cardinality(T) <= Cardinality(S) + 1
         /\ Cardinality(T) \in Nat /\ Cardinality(S) \in Nat
<1>1. IsFiniteSet(S \cup {x}) /\ Cardinality(S \cup {x}) <= Cardinality(S) + 1
  <2>1. Cardinality(S) \in Nat
    BY FS_CardinalityType
  <2>2. /\ IsFiniteSet(S \cup {x})
        /\ Cardinality(S \cup {x}) = IF x \in S THEN Cardinality(S)
                                                ELSE Cardinality(S) + 1
    BY FS_AddElement
  <2>. QED  BY <2>1, <2>2
<1>2. IsFiniteSet(T) /\ Cardinality(T) <= Cardinality(S \cup {x})
  BY <1>1, FS_Subset
<1>. QED  BY <1>1, <1>2, FS_CardinalityType

\* A map with no new entries stays bounded.
LEMMA FewerEntries ==
  ASSUME Bounded, Entries' \subseteq Entries PROVE Bounded'
BY FS_Subset, FS_CardinalityType, RelayAssumption DEF Bounded, PendingBounded

\* What deleting keys leaves.
LEMMA Deleting ==
  ASSUME IInv, NEW gone, pending' = Without(gone)
  PROVE  /\ pending' \in [Keys -> Peers \cup {NoPeer}]
         /\ Entries' = Entries \ gone
         /\ \A k \in Entries' : pending'[k] = pending[k]
         /\ NeverBothPending' /\ FiledByTags' /\ Bounded'
<1>1. /\ pending' \in [Keys -> Peers \cup {NoPeer}]
      /\ Entries' = Entries \ gone
      /\ \A k \in Entries' : pending'[k] = pending[k]
      /\ \A k \in Keys : pending'[k] = pending[k] \/ pending'[k] = NoPeer
  BY DEF IInv, TypeOK, Without, Entries
<1>2. Bounded'
  BY <1>1, FewerEntries DEF IInv
<1>3. NeverBothPending'
  <2>. SUFFICES ASSUME NEW k \in Entries' PROVE pending'[Rev(k)] = NoPeer
    BY DEF NeverBothPending
  <2>1. k \in Entries /\ Rev(k) \in Keys
    BY <1>1, RevOfKey DEF Entries
  <2>. QED  BY <2>1, <1>1 DEF IInv, NeverBothPending
<1>4. FiledByTags'
  BY <1>1 DEF IInv, FiledByTags, Key
<1>. QED  BY <1>1, <1>2, <1>3, <1>4

-----------------------------------------------------------------------------
(* Requests. *)

\* An introduction of two peers that asked for each other keeps what is said of
\* introductions, and no more than ends the process.
LEMMA IntroduceKeeps ==
  ASSUME IInv, NEW p \in Peers, NEW q \in Peers, Mutual(p, q), Introduce(p, q)
  PROVE  /\ up' \in {up, "crashed"}
         /\ waiting' \subseteq Peers
         /\ told' \in [Peers -> SUBSET Peers]
         /\ MutualIntroductions'
<1>1. /\ waiting \subseteq Peers /\ told \in [Peers -> SUBSET Peers]
      /\ \A a \in Peers : \A b \in told[a] : Mutual(a, b)
  BY DEF IInv, TypeOK, MutualIntroductions, Mutual
<1>2. Mutual(q, p)
  BY DEF Mutual
<1>3. \A a \in Peers : told'[a] \subseteq told[a] \cup
                         (IF a = p THEN {q} ELSE {}) \cup
                         (IF a = q THEN {p} ELSE {})
  BY <1>1 DEF Introduce
<1>4. told' \in [Peers -> SUBSET Peers] /\ waiting' \subseteq Peers
  BY <1>1 DEF Introduce
<1>5. \A a \in Peers : \A b \in told'[a] : Mutual(a, b)
  BY <1>1, <1>2, <1>3
<1>6. up' \in {up, "crashed"}
  BY DEF Introduce
<1>. QED  BY <1>4, <1>5, <1>6 DEF MutualIntroductions, Mutual

\* Keeping a request.
LEMMA KeepKeeps ==
  ASSUME IInv, NEW p \in Peers, Keep(p), session[p] = "open",
         UNCHANGED <<session, sweep, awaited>>,
         requests' \in [Peers -> 0 .. MaxRequests]
  PROVE  IInv'
<1>. DEFINE k == Key(p)
<1>1. /\ k \in Keys /\ Rev(k) \in Keys /\ Rev(Rev(k)) = k /\ Rev(k) # k
  BY RevOfKey, KeyIsKey
<1>2. UNCHANGED <<up, jobs, told>>
  BY DEF Keep
<1>3. CASE ~Room(k)
  <2>1. /\ pending' = Without({Rev(k)})
        /\ stale' = stale \ {Rev(k)} /\ UNCHANGED waiting
    BY <1>3 DEF Keep, Forgotten
  <2>2. /\ pending' \in [Keys -> Peers \cup {NoPeer}]
        /\ Entries' = Entries \ {Rev(k)}
        /\ \A j \in Entries' : pending'[j] = pending[j]
        /\ NeverBothPending' /\ FiledByTags' /\ Bounded'
    BY <2>1, Deleting
  <2>3. TypeOK' /\ PendingHasSession'
    BY <1>2, <2>1, <2>2 DEF IInv, TypeOK, PendingHasSession
  <2>. QED
    BY <1>2, <2>2, <2>3
    DEF IInv, JobsMutual, MutualIntroductions, Mutual
<1>4. CASE Room(k)
  <2>1. /\ pending' = [Without({Rev(k)}) EXCEPT ![k] = p]
        /\ stale' = stale \ {k, Rev(k)}
        /\ waiting' = waiting \cup {p}
    BY <1>4 DEF Keep, Forgotten
  <2>2. /\ pending' \in [Keys -> Peers \cup {NoPeer}]
        /\ pending'[k] = p
        /\ \A j \in Keys \ {k} : pending'[j] = IF j = Rev(k) THEN NoPeer
                                                          ELSE pending[j]
    BY <1>1, <2>1 DEF IInv, TypeOK, Without
  <2>3. Entries' = (Entries \ {Rev(k)}) \cup {k}
    BY <1>1, <2>2, RelayAssumption DEF Entries
  <2>4. TypeOK'
    BY <1>2, <2>1, <2>2, <2>3 DEF IInv, TypeOK
  <2>5. \A j \in Entries' : \/ j = k /\ pending'[j] = p
                            \/ j \in Entries /\ pending'[j] = pending[j]
    BY <1>1, <2>2, <2>3 DEF Entries
  <2>a. PendingHasSession'
    BY <1>2, <2>5 DEF IInv, PendingHasSession
  <2>6. NeverBothPending'
    <3>. SUFFICES ASSUME NEW j \in Entries' PROVE pending'[Rev(j)] = NoPeer
      BY DEF NeverBothPending
    <3>1. CASE j = k
      BY <1>1, <2>2, <3>1
    <3>2. CASE j # k
      <4>1. j \in Entries /\ j # Rev(k) /\ Rev(j) \in Keys /\ Rev(Rev(j)) = j
        BY <2>3, <3>2, RevOfKey DEF Entries
      <4>2. Rev(j) # k /\ pending[Rev(j)] = NoPeer
        BY <4>1 DEF IInv, NeverBothPending
      <4>. QED  BY <2>2, <4>1, <4>2
    <3>. QED  BY <3>1, <3>2
  <2>7. FiledByTags'
    BY <2>5 DEF IInv, FiledByTags, Key
  <2>8. Bounded'
    <3>1. CASE pending[k] # NoPeer
      <4>1. Entries' \subseteq Entries
        BY <1>1, <2>3, <3>1 DEF Entries
      <4>. QED  BY <4>1, FewerEntries DEF IInv
    <3>2. CASE pending[k] = NoPeer
      <4>1. /\ IsFiniteSet(Entries \ {Rev(k)})
            /\ Cardinality(Entries \ {Rev(k)}) < MaxPending
        BY <1>4, <3>2, FS_Subset DEF Room, IInv, Bounded
      <4>2. /\ IsFiniteSet(Entries')
            /\ Cardinality(Entries') <= Cardinality(Entries \ {Rev(k)}) + 1
            /\ Cardinality(Entries') \in Nat
            /\ Cardinality(Entries \ {Rev(k)}) \in Nat
        BY <2>3, <4>1, OneMore
      <4>. QED  BY <4>1, <4>2, RelayAssumption DEF Bounded, PendingBounded
    <3>. QED  BY <3>1, <3>2
  <2>. QED
    BY <1>2, <2>4, <2>a, <2>6, <2>7, <2>8
    DEF IInv, JobsMutual, MutualIntroductions, Mutual
<1>. QED  BY <1>3, <1>4

\* Matching a request.
LEMMA MatchKeeps ==
  ASSUME IInv, NEW p \in Peers, Match(p), UNCHANGED <<session, sweep, awaited>>,
         requests' \in [Peers -> 0 .. MaxRequests]
  PROVE  IInv'
<1>. DEFINE k == Key(p)
            q == pending[Rev(k)]
<1>1. /\ k \in Keys /\ Rev(k) \in Keys
      /\ q \in Peers /\ q # NoPeer /\ Mutual(p, q)
  <2>1. k \in Keys /\ Rev(k) \in Keys /\ Rev(k) = <<Wants[p], Tag[p]>>
    BY KeyIsKey, RevOfKey
  <2>2. q # NoPeer /\ q \in Peers
    BY <2>1 DEF Match, Matchable, IInv, TypeOK
  <2>3. Key(q) = Rev(k)
    BY <2>1, <2>2 DEF IInv, FiledByTags, Entries
  <2>. QED  BY <2>1, <2>2, <2>3 DEF Key, Mutual
<1>2. /\ pending' = Without({k, Rev(k)})
      /\ stale' = stale \ {k, Rev(k)}
      /\ \/ Introduce(p, q) /\ UNCHANGED jobs
         \/ jobs' = jobs \cup {<<p, q>>} /\ UNCHANGED <<up, told, waiting>>
  BY DEF Match
<1>3. /\ pending' \in [Keys -> Peers \cup {NoPeer}]
      /\ Entries' = Entries \ {k, Rev(k)}
      /\ \A j \in Entries' : pending'[j] = pending[j]
      /\ NeverBothPending' /\ FiledByTags' /\ Bounded'
  BY <1>2, Deleting
<1>4. /\ up' \in {up, "crashed"} /\ waiting' \subseteq Peers
      /\ told' \in [Peers -> SUBSET Peers] /\ MutualIntroductions'
  <2>1. CASE Introduce(p, q)
    BY <1>1, <2>1, IntroduceKeeps
  <2>2. CASE UNCHANGED <<up, told, waiting>>
    BY <2>2 DEF IInv, TypeOK, MutualIntroductions
  <2>. QED  BY <1>2, <2>1, <2>2
<1>5. jobs' \subseteq Peers \X Peers /\ JobsMutual'
  BY <1>1, <1>2 DEF IInv, TypeOK, JobsMutual, Mutual
<1>6. TypeOK'
  BY <1>2, <1>3, <1>4, <1>5 DEF IInv, TypeOK
<1>7. PendingHasSession'
  BY <1>3, <1>4 DEF IInv, PendingHasSession
<1>. QED  BY <1>3, <1>4, <1>5, <1>6, <1>7 DEF IInv

-----------------------------------------------------------------------------
(* The other steps, and the invariant. *)

\* Opening, closing and the loss of sessions.
LEMMA SessionKeeps ==
  ASSUME IInv, NEW p \in Peers, Connect(p) \/ Open(p) \/ BeginClose(p)
  PROVE  IInv'
<1>1. /\ session' \in [Peers -> {"none", "connecting", "open", "closing"}]
      /\ \A r \in Peers : session[r] \in {"open", "closing"} =>
                           session'[r] \in {"open", "closing"}
  BY DEF Connect, Open, BeginClose, IInv, TypeOK
<1>2. UNCHANGED <<up, pending, stale, sweep, awaited, jobs, requests, waiting, told>>
  BY DEF Connect, Open, BeginClose
<1>3. PendingHasSession'
  BY <1>1, <1>2 DEF IInv, TypeOK, PendingHasSession, Entries
<1>. QED
  BY <1>1, <1>2, <1>3
  DEF IInv, TypeOK, NeverBothPending, FiledByTags, JobsMutual,
      MutualIntroductions, Bounded, PendingBounded, Entries, Mutual, Key

\* The end of a session takes its entries along.
LEMMA ClosedKeeps ==
  ASSUME IInv, NEW p \in Peers, Closed(p) PROVE IInv'
<1>. DEFINE gone == IF up = "up" THEN EntriesOf(p) ELSE {}
<1>1. /\ pending' = Without(gone) /\ stale' = stale \ gone
      /\ session' = [session EXCEPT ![p] = "none"]
      /\ UNCHANGED <<up, sweep, jobs>>
  BY DEF Closed
<1>2. /\ pending' \in [Keys -> Peers \cup {NoPeer}]
      /\ Entries' = Entries \ gone
      /\ \A j \in Entries' : pending'[j] = pending[j]
      /\ NeverBothPending' /\ FiledByTags' /\ Bounded'
  BY <1>1, Deleting
<1>3. TypeOK'
  <2>1. /\ waiting' \subseteq Peers /\ told' \in [Peers -> SUBSET Peers]
        /\ requests' \in [Peers -> 0 .. MaxRequests]
        /\ awaited' \in [Sweeps -> Peers \cup {NoPeer}]
    BY RelayAssumption DEF Closed, IInv, TypeOK
  <2>. QED  BY <1>1, <1>2, <2>1 DEF IInv, TypeOK
<1>4. PendingHasSession'
  <2>. SUFFICES ASSUME up = "up", NEW j \in Entries'
                PROVE  session'[pending'[j]] \in {"open", "closing"}
    BY <1>1 DEF PendingHasSession
  <2>1. j \in Entries /\ pending'[j] = pending[j] /\ pending[j] # p
    BY <1>2 DEF EntriesOf, Entries
  <2>2. pending[j] \in Peers /\ session[pending[j]] \in {"open", "closing"}
    BY <2>1 DEF IInv, TypeOK, PendingHasSession, Entries
  <2>. QED  BY <1>1, <2>1, <2>2 DEF IInv, TypeOK
<1>5. MutualIntroductions'
  BY DEF Closed, IInv, TypeOK, MutualIntroductions
<1>. QED  BY <1>1, <1>2, <1>3, <1>4, <1>5 DEF IInv, JobsMutual

\* The proxies are set up, or not.
LEMMA SetupKeeps ==
  ASSUME IInv, NEW p \in Peers, NEW q \in Peers, SetupDone(p, q) PROVE IInv'
<1>1. /\ Mutual(p, q) /\ jobs' \subseteq jobs
      /\ UNCHANGED <<session, pending, stale, sweep, awaited, requests>>
  BY DEF SetupDone, IInv, JobsMutual
<1>2. /\ up' \in {up, "crashed"} /\ waiting' \subseteq Peers
      /\ told' \in [Peers -> SUBSET Peers] /\ MutualIntroductions'
  <2>1. CASE Introduce(p, q)
    BY <1>1, <2>1, IntroduceKeeps
  <2>2. CASE UNCHANGED <<up, told, waiting>>
    BY <2>2 DEF IInv, TypeOK, MutualIntroductions
  <2>. QED  BY <2>1, <2>2 DEF SetupDone
<1>3. TypeOK' /\ PendingHasSession' /\ JobsMutual'
  BY <1>1, <1>2 DEF IInv, TypeOK, PendingHasSession, JobsMutual, Entries
<1>. QED
  BY <1>1, <1>2, <1>3
  DEF IInv, NeverBothPending, FiledByTags, Bounded, PendingBounded, Entries, Key

\* The sweep deletes an old entry and closes its session.
LEMMA SweepKeeps ==
  ASSUME IInv, NEW s \in Sweeps, NEW k \in Keys, SweepVisit(s, k) PROVE IInv'
<1>1. /\ UNCHANGED <<up, jobs, requests, waiting, told>>
      /\ sweep' \in [Sweeps -> SUBSET Keys]
  BY DEF SweepVisit, IInv, TypeOK
<1>2. CASE UNCHANGED <<pending, stale, session, awaited>>
  BY <1>1, <1>2
  DEF IInv, TypeOK, PendingHasSession, NeverBothPending, FiledByTags, JobsMutual,
      MutualIntroductions, Bounded, PendingBounded, Entries, Mutual, Key
<1>3. CASE Old(k)
  <2>1. k \in Entries /\ pending[k] \in Peers
    BY <1>3 DEF Old, IInv, TypeOK, Entries
  <2>2. /\ pending' = Without({k}) /\ stale' = stale \ {k}
        /\ session' = [session EXCEPT ![pending[k]] =
                         IF Disconnects(pending[k]) THEN "closing" ELSE @]
        /\ awaited' \in [Sweeps -> Peers \cup {NoPeer}]
    BY <1>3, <2>1 DEF SweepVisit, IInv, TypeOK
  <2>3. /\ pending' \in [Keys -> Peers \cup {NoPeer}]
        /\ Entries' = Entries \ {k}
        /\ \A j \in Entries' : pending'[j] = pending[j]
        /\ NeverBothPending' /\ FiledByTags' /\ Bounded'
    BY <2>2, Deleting
  <2>4. /\ session' \in [Peers -> {"none", "connecting", "open", "closing"}]
        /\ \A r \in Peers : session[r] \in {"open", "closing"} =>
                             session'[r] \in {"open", "closing"}
    BY <2>1, <2>2 DEF IInv, TypeOK
  <2>5. TypeOK'
    BY <1>1, <2>2, <2>3, <2>4 DEF IInv, TypeOK
  <2>6. PendingHasSession'
    BY <1>1, <2>3, <2>4 DEF IInv, TypeOK, PendingHasSession, Entries
  <2>. QED
    BY <1>1, <2>3, <2>5, <2>6
    DEF IInv, JobsMutual, MutualIntroductions, Mutual
<1>. QED  BY <1>2, <1>3 DEF SweepVisit

\* Time, and the end of the relay.
LEMMA RestKeeps ==
  ASSUME IInv, \/ \E k \in Keys : Expire(k)
               \/ \E s \in Sweeps : SweepStart(s)
               \/ Close \/ CloseDone
  PROVE  IInv'
<1>1. CASE \/ \E k \in Keys : Expire(k)
           \/ \E s \in Sweeps : SweepStart(s)
  <2>1. /\ stale' \subseteq Entries /\ sweep' \in [Sweeps -> SUBSET Keys]
        /\ UNCHANGED <<up, session, pending, awaited, jobs, requests, waiting, told>>
    BY <1>1 DEF Expire, SweepStart, IInv, TypeOK, Entries
  <2>. QED
    BY <2>1
    DEF IInv, TypeOK, PendingHasSession, NeverBothPending, FiledByTags,
        JobsMutual, MutualIntroductions, Bounded, PendingBounded, Entries,
        Mutual, Key
<1>2. CASE Close
  <2>1. /\ up' = "closing"
        /\ session' \in [Peers -> {"none", "connecting", "open", "closing"}]
        /\ UNCHANGED <<pending, stale, sweep, awaited, jobs, requests, waiting, told>>
    BY <1>2 DEF Close
  <2>. QED
    BY <2>1
    DEF IInv, TypeOK, PendingHasSession, NeverBothPending, FiledByTags,
        JobsMutual, MutualIntroductions, Bounded, PendingBounded, Entries,
        Mutual, Key
<1>3. CASE CloseDone
  <2>1. /\ pending' = Without(Keys) /\ stale' = {} /\ up' = "closed"
        /\ UNCHANGED <<session, sweep, awaited, jobs, requests, waiting, told>>
    BY <1>3 DEF CloseDone, Without
  <2>2. /\ pending' \in [Keys -> Peers \cup {NoPeer}]
        /\ NeverBothPending' /\ FiledByTags' /\ Bounded'
    BY <2>1, Deleting
  <2>. QED
    BY <2>1, <2>2
    DEF IInv, TypeOK, PendingHasSession, JobsMutual, MutualIntroductions, Mutual
<1>. QED  BY <1>1, <1>2, <1>3

\* Every step keeps the invariant.
LEMMA Inductive == IInv /\ [Next]_vars => IInv'
<1>. SUFFICES ASSUME IInv, [Next]_vars PROVE IInv'
  OBVIOUS
<1>1. CASE UNCHANGED vars
  BY <1>1
  DEF vars, IInv, TypeOK, PendingHasSession, NeverBothPending, FiledByTags,
      JobsMutual, MutualIntroductions, Bounded, PendingBounded, Entries,
      Mutual, Key
<1>2. ASSUME NEW p \in Peers, Request(p) PROVE IInv'
  <2>1. /\ session[p] = "open"
        /\ UNCHANGED <<session, sweep, awaited>>
        /\ requests' \in [Peers -> 0 .. MaxRequests]
    BY <1>2, RelayAssumption DEF Request, IInv, TypeOK
  <2>. QED  BY <1>2, <2>1, KeepKeeps, MatchKeeps DEF Request
<1>. QED
  BY <1>1, <1>2, SessionKeeps, ClosedKeeps, SetupKeeps, SweepKeeps, RestKeeps
  DEF Next

\* The invariant holds of every reachable state.
THEOREM Invariance == Spec => []IInv
<1>1. Init => IInv
  <2>. SUFFICES ASSUME Init PROVE IInv
    OBVIOUS
  <2>1. Entries = {}
    BY DEF Init, Entries
  <2>2. Bounded
    BY <2>1, FS_EmptySet, RelayAssumption DEF Bounded, PendingBounded
  <2>. QED
    BY <2>1, <2>2, RelayAssumption
    DEF Init, IInv, TypeOK, PendingHasSession, NeverBothPending, FiledByTags,
        JobsMutual, MutualIntroductions
<1>. QED  BY <1>1, Inductive, PTL DEF Spec

\* The relay's map, sessions and histories stay well-typed.
THEOREM TypeCorrect == Spec => []TypeOK
BY Invariance, PTL DEF IInv

\* No entry outlives the session of its peer.
THEOREM EntriesHaveSessions == Spec => []PendingHasSession
BY Invariance, PTL DEF IInv

\* Two peers that asked for each other never both wait in the map.
THEOREM MatchedAtOnce == Spec => []NeverBothPending
BY Invariance, PTL DEF IInv

\* The map stays within its limit.
THEOREM MapBounded == Spec => []PendingBounded
BY Invariance, PTL DEF IInv, Bounded

\* Introductions are mutual.
THEOREM IntroducedMutually == Spec => []MutualIntroductions
BY Invariance, PTL DEF IInv
=============================================================================
