----------------------------- MODULE VaultProofs -----------------------------
(***************************************************************************)
(* Safety of the vault for any number of peers, tags, keys and generators. *)
(* The steps of known-tags.json and those of keys.json leave each other's  *)
(* variables alone, so each has an inductive invariant of its own.         *)
(***************************************************************************)
EXTENDS Vault, TLAPS

TagStep ==
  \/ \E p \in Peers, request \in Requests : Look(p, request)
  \/ \E p \in Peers : Check(p)
  \/ Restart

KeyStep == \E g \in Generators : Generate(g)

\* Every step is one of the two kinds, and a stutter of the other.
LEMMA StepKinds ==
  ASSUME [Next]_vars
  PROVE  /\ TagStep \/ UNCHANGED tagVars
         /\ KeyStep \/ UNCHANGED keyVars
BY Zenon DEF Next, vars, TagStep, KeyStep

-----------------------------------------------------------------------------
(* The queue of updates. *)

TagTypes ==
  /\ known \in Maps \cup {Torn}
  /\ queue \in Seq(Peers)
  /\ pc \in [Peers -> {"idle", "looked", "queued", "read", "writing", "trusts",
                       "mismatch", "failed"}]
  /\ asked \in [Peers -> Requests \cup {NoRequest}] /\ read \in [Peers -> Maps]
  /\ \A p \in Peers : pc[p] # "idle" => asked[p] \in Requests
  /\ first \in Maps /\ disputed \subseteq Tags /\ unsure \subseteq Peers

QueueInv == TagTypes /\ QueueMoves

\* The head of the queue leaves it, and its update is over.
LEMMA HeadLeaves ==
  ASSUME QueueInv, NEW p \in Peers, NEW to \in {"trusts", "failed"},
         pc[p] \in {"queued", "read", "writing"}, Turn(p),
         Goes(p, to), queue' = Freed(p)
  PROVE  QueueMoves' /\ queue' \in Seq(Peers)
<1>. /\ queue \in Seq(Peers) /\ queue # <<>> /\ p = queue[1]
     /\ queue' = Tail(queue)
  BY DEF QueueInv, TagTypes, Turn, Freed
<1>1. /\ queue' \in Seq(Peers) /\ Len(queue') = Len(queue) - 1
      /\ \A i \in DOMAIN queue' : queue'[i] = queue[i + 1] /\ i + 1 \in DOMAIN queue
      /\ \A i \in DOMAIN queue : i = 1 \/ (i - 1 \in DOMAIN queue' /\ queue'[i - 1] = queue[i])
  OBVIOUS
<1>2. pc' = [pc EXCEPT ![p] = to] /\ pc \in [Peers -> {"idle", "looked", "queued",
         "read", "writing", "trusts", "mismatch", "failed"}]
  BY DEF Goes, QueueInv, TagTypes
<1>3. \A i, j \in DOMAIN queue' : queue'[i] = queue'[j] => i = j
  BY <1>1 DEF QueueInv, QueueMoves
<1>4. ASSUME NEW q \in Peers
      PROVE  /\ pc'[q] \in {"queued", "read", "writing"} <=>
                  \E i \in DOMAIN queue' : queue'[i] = q
             /\ pc'[q] \notin {"read", "writing"}
  <2>1. CASE q = p
    <3>1. \A i \in DOMAIN queue' : queue'[i] # p
      BY <1>1 DEF QueueInv, QueueMoves
    <3>. QED  BY <2>1, <3>1, <1>2
  <2>2. CASE q # p
    <3>1. (\E i \in DOMAIN queue : queue[i] = q) <=> (\E i \in DOMAIN queue' : queue'[i] = q)
      BY <1>1, <2>2
    <3>2. pc'[q] = pc[q]
      BY <1>2, <2>2
    <3>. QED  BY <3>1, <3>2, <2>2 DEF QueueInv, QueueMoves
  <2>. QED  BY <2>1, <2>2
<1>. QED  BY <1>1, <1>3, <1>4 DEF QueueMoves

\* Who has begun asks for something.
LEMMA Asks ==
  ASSUME QueueInv, NEW p \in Peers, pc[p] # "idle"
  PROVE  /\ asked[p] \in Requests /\ asked[p].tag \in Tags
         /\ asked[p].key \in Keys /\ asked[p].key # NoKey
BY VaultAssumption DEF QueueInv, TagTypes, Requests

\* A check that goes on asks for the same.
LEMMA GoesTypes ==
  ASSUME QueueInv, NEW p \in Peers, pc[p] # "idle",
         NEW to \in {"queued", "read", "writing", "trusts", "mismatch", "failed"},
         Goes(p, to), UNCHANGED asked
  PROVE  /\ pc' \in [Peers -> {"idle", "looked", "queued", "read", "writing",
                              "trusts", "mismatch", "failed"}]
         /\ \A q \in Peers : pc'[q] # "idle" => asked'[q] \in Requests
BY DEF Goes, QueueInv, TagTypes

\* An empty file is a map.
LEMMA NoTagsMap == NoTags \in Maps
BY DEF NoTags, Maps

\* What there is to be found in the file is a map, whatever it holds.
LEMMA EntriesMap == ASSUME known \in Maps \cup {Torn} PROVE Entries(known) \in Maps
BY DEF Entries, Maps, NoTags

\* The key that a first look finds, if any.
LEMMA FoundIsEntry ==
  ASSUME known \in Maps \cup {Torn}, NEW t \in Tags, NEW found \in Findings(t)
  PROVE  [NoTags EXCEPT ![t] = found] \in Maps
BY EntriesMap DEF Findings, Maps, NoTags

\* The queue and the types are kept by every step of known-tags.json.
LEMMA QueueKept == ASSUME QueueInv, TagStep PROVE QueueInv'
<1>. USE DEF QueueInv
<1>1. ASSUME NEW p \in Peers, NEW request \in Requests, Look(p, request)
      PROVE  QueueInv'
  <2>1. TagTypes'
    <3>1. request.tag \in Tags
      BY DEF Requests
    <3>2. PICK found \in Findings(request.tag) :
            /\ read' = [read EXCEPT ![p] = [NoTags EXCEPT ![request.tag] = found]]
            /\ unsure' \subseteq unsure \cup Peers
      BY <1>1 DEF Look
    <3>a. [NoTags EXCEPT ![request.tag] = found] \in Maps
      BY <3>1, FoundIsEntry DEF TagTypes
    <3>b. read' \in [Peers -> Maps] /\ unsure' \subseteq Peers
      BY <3>2, <3>a DEF TagTypes
    <3>3. UNCHANGED <<known, queue, first, disputed>>
      BY <1>1 DEF Look
    <3>4. /\ pc' \in [Peers -> {"idle", "looked", "queued", "read", "writing", "trusts",
                               "mismatch", "failed"}]
          /\ asked' \in [Peers -> Requests \cup {NoRequest}]
          /\ \A q \in Peers : pc'[q] # "idle" => asked'[q] \in Requests
      BY <1>1 DEF TagTypes, Look, Goes
    <3>. QED  BY <3>b, <3>3, <3>4 DEF TagTypes
  <2>2. QueueMoves'
    BY <1>1 DEF TagTypes, QueueMoves, Look, Goes
  <2>. QED  BY <2>1, <2>2
<1>2. ASSUME NEW p \in Peers, Decide(p)
      PROVE  QueueInv'
  <2>1. TagTypes'
    <3>1. PICK to \in {"queued", "trusts", "mismatch"} : Goes(p, to)
      BY <1>2 DEF Decide
    <3>2. /\ pc' \in [Peers -> {"idle", "looked", "queued", "read", "writing", "trusts",
                               "mismatch", "failed"}]
          /\ \A q \in Peers : pc'[q] # "idle" => asked'[q] \in Requests
      BY <1>2, <3>1, GoesTypes DEF Decide
    <3>3. queue' \in Seq(Peers) /\ read' \in [Peers -> Maps]
      BY <1>2, NoTagsMap DEF TagTypes, Decide
    <3>. QED  BY <1>2, <3>2, <3>3 DEF TagTypes, Decide
  <2>2. CASE UNCHANGED queue /\ \E to \in {"trusts", "mismatch"} : Goes(p, to)
    <3>1. PICK to \in {"trusts", "mismatch"} : Goes(p, to)
      BY <2>2
    <3>2. ASSUME NEW q \in Peers
          PROVE  /\ pc'[q] \in {"queued", "read", "writing"} <=>
                      pc[q] \in {"queued", "read", "writing"}
                 /\ pc'[q] \in {"read", "writing"} => pc[q] \in {"read", "writing"}
      BY <1>2, <3>1 DEF TagTypes, Decide, Goes
    <3>. QED  BY <2>1, <2>2, <3>2 DEF QueueMoves
  <2>3. CASE queue' = Append(queue, p) /\ Goes(p, "queued")
    <3>1. /\ DOMAIN queue' = DOMAIN queue \cup {Len(queue) + 1}
          /\ \A i \in DOMAIN queue : queue'[i] = queue[i]
          /\ queue'[Len(queue) + 1] = p
          /\ \A i \in DOMAIN queue : queue[i] # p /\ i # Len(queue) + 1
          /\ Len(queue) + 1 \in DOMAIN queue'
      BY <1>2, <2>3 DEF TagTypes, QueueMoves, Decide
    <3>2. \A i, j \in DOMAIN queue' : queue'[i] = queue'[j] => i = j
      BY <3>1 DEF QueueMoves
    <3>3. ASSUME NEW q \in Peers
          PROVE  (\E i \in DOMAIN queue' : queue'[i] = q) <=>
                   q = p \/ \E i \in DOMAIN queue : queue[i] = q
      BY <3>1
    <3>4. ASSUME NEW q \in Peers, pc'[q] \in {"read", "writing"}
          PROVE  q = Head(queue')
      <4>1. q # p /\ pc[q] \in {"read", "writing"}
        BY <2>3, <3>4 DEF TagTypes, Goes
      <4>2. q = Head(queue) /\ queue # <<>>
        BY <4>1 DEF QueueMoves, TagTypes
      <4>. QED  BY <4>2, <2>3 DEF TagTypes
    <3>5. ASSUME NEW q \in Peers
          PROVE  pc'[q] \in {"queued", "read", "writing"} <=>
                   q = p \/ pc[q] \in {"queued", "read", "writing"}
      BY <2>3 DEF TagTypes, Goes
    <3>. QED  BY <2>1, <3>2, <3>3, <3>4, <3>5 DEF QueueMoves
  <2>. QED  BY <1>2, <2>2, <2>3 DEF Decide
<1>3. ASSUME NEW p \in Peers, Fails(p), pc[p] \in {"queued", "read", "writing"}, Turn(p)
      PROVE  QueueInv'
  <2>1. QueueMoves' /\ queue' \in Seq(Peers)
    BY <1>3, HeadLeaves DEF Fails
  <2>. QED  BY <1>3, <2>1 DEF TagTypes, Fails, Goes, Maps, NoTags
<1>4. ASSUME NEW p \in Peers, pc[p] \in {"read", "writing"} PROVE Turn(p)
  BY <1>4 DEF QueueMoves, Turn, TagTypes
<1>5. ASSUME NEW p \in Peers, ReadForUpdate(p)
      PROVE  QueueInv'
  <2>1. CASE Fails(p)
    BY <1>3, <1>5, <2>1 DEF ReadForUpdate
  <2>2. CASE ~Fails(p)
    <3>1. /\ Goes(p, "read") /\ Turn(p)
          /\ read' = [read EXCEPT ![p] =
               [Entries(known) EXCEPT ![asked[p].tag] = asked[p].key]]
          /\ UNCHANGED <<known, queue, asked, first, disputed, unsure>>
      BY <1>5, <2>2 DEF ReadForUpdate
    <3>a. /\ pc' \in [Peers -> {"idle", "looked", "queued", "read", "writing", "trusts",
                               "mismatch", "failed"}]
          /\ \A q \in Peers : pc'[q] # "idle" => asked'[q] \in Requests
      BY <1>5, <3>1, GoesTypes DEF ReadForUpdate
    <3>b. asked[p].tag \in Tags /\ asked[p].key \in Keys /\ Entries(known) \in Maps
      BY <1>5, Asks, EntriesMap DEF ReadForUpdate, TagTypes
    <3>c. [Entries(known) EXCEPT ![asked[p].tag] = asked[p].key] \in Maps
      BY <3>b DEF Maps
    <3>2. TagTypes'
      BY <3>1, <3>a, <3>c DEF TagTypes
    <3>3. QueueMoves'
      BY <3>1, <1>5 DEF TagTypes, Goes, QueueMoves, Turn, ReadForUpdate
    <3>. QED  BY <3>2, <3>3
  <2>. QED  BY <2>1, <2>2
<1>6. ASSUME NEW p \in Peers, Truncate(p)
      PROVE  QueueInv'
  <2>1. CASE Fails(p)
    BY <1>3, <1>4, <1>6, <2>1 DEF Truncate
  <2>2. CASE ~Fails(p)
    BY <1>6, <2>2 DEF TagTypes, Goes, QueueMoves, Truncate
  <2>. QED  BY <2>1, <2>2
<1>7. ASSUME NEW p \in Peers, Write(p)
      PROVE  QueueInv'
  <2>1. CASE Fails(p)
    BY <1>3, <1>4, <1>7, <2>1 DEF Write
  <2>2. CASE ~Fails(p)
    <3>1. QueueMoves' /\ queue' \in Seq(Peers)
      BY <1>4, <1>7, <2>2, HeadLeaves DEF Write
    <3>2. asked[p].tag \in Tags /\ asked[p].key \in Keys
      BY <1>7, Asks DEF Write
    <3>3. /\ known' = read[p] /\ known' \in Maps
          /\ first' = [first EXCEPT ![asked[p].tag] =
                        IF @ = NoKey THEN asked[p].key ELSE @]
          /\ disputed' \subseteq Tags
          /\ Goes(p, "trusts")
          /\ read' = [read EXCEPT ![p] = NoTags]
          /\ UNCHANGED <<asked, unsure>>
      BY <1>7, <2>2, <3>2 DEF TagTypes, Write
    <3>4. first' \in Maps
      BY <3>2, <3>3 DEF TagTypes, Maps
    <3>5. read' \in [Peers -> Maps]
      BY <3>3, NoTagsMap DEF TagTypes
    <3>6. /\ pc' \in [Peers -> {"idle", "looked", "queued", "read", "writing", "trusts",
                               "mismatch", "failed"}]
          /\ \A q \in Peers : pc'[q] # "idle" => asked'[q] \in Requests
      BY <1>7, <3>3, GoesTypes DEF Write
    <3>. QED  BY <3>1, <3>3, <3>4, <3>5, <3>6 DEF TagTypes
  <2>. QED  BY <2>1, <2>2
<1>8. ASSUME Restart PROVE QueueInv'
  BY <1>8 DEF TagTypes, QueueMoves, Restart, Maps, NoTags
<1>. QED  BY <1>1, <1>2, <1>5, <1>6, <1>7, <1>8 DEF TagStep, Check

\* Steps of keys.json leave the queue alone.
LEMMA QueueStutters == ASSUME QueueInv, UNCHANGED tagVars PROVE QueueInv'
BY DEF QueueInv, TagTypes, QueueMoves, tagVars

-----------------------------------------------------------------------------
(* What the file, the peers and the history know of each other. *)

\* A map agrees with the history on a tag.
AgreesOn(map, t) ==
  /\ map[t] = NoKey <=> first[t] = NoKey
  /\ t \notin disputed => map[t] = first[t]

\* So does the file; so did what a peer has read of it, and does what it writes.
FileAgrees == known # Torn => \A t \in Tags : AgreesOn(known, t)
LooksAgree ==
  \A p \in Peers : pc[p] = "looked" =>
    \A t \in Tags : read[p][t] # NoKey =>
      first[t] # NoKey /\ (t \notin disputed => read[p][t] = first[t])
UpdatesAgree ==
  \A p \in Peers : pc[p] \in {"read", "writing"} =>
    /\ read[p][asked[p].tag] = asked[p].key
    /\ \A t \in Tags \ {asked[p].tag} : AgreesOn(read[p], t)
TrustsAgree ==
  \A p \in Peers : pc[p] = "trusts" =>
    /\ first[asked[p].tag] # NoKey
    /\ asked[p].tag \notin disputed => asked[p].key = first[asked[p].tag]

\* An update begins with a file that parses, and nobody else damages it.
WholeOnRead == \A p \in Peers : pc[p] = "read" => known # Torn

\* A peer that is not unsure is alone, and what it has seen still holds.
AloneUnlessUnsure ==
  \A p, q \in Peers : Checking(p) /\ p \notin unsure /\ Checking(q) => q = p
SeenStillHolds ==
  \A p \in Peers \ unsure :
    /\ pc[p] = "looked" => read[p][asked[p].tag] = Entries(known)[asked[p].tag]
    /\ pc[p] = "queued" => known = Torn \/ known[asked[p].tag] = NoKey
    /\ pc[p] \in {"read", "writing"} => first[asked[p].tag] = NoKey

TagInv ==
  /\ QueueInv
  /\ FileAgrees /\ LooksAgree /\ UpdatesAgree /\ TrustsAgree
  /\ WholeOnRead /\ AloneUnlessUnsure /\ SeenStillHolds

\* Only one peer updates the file at a time.
LEMMA OneUpdates ==
  ASSUME QueueInv, NEW p \in Peers, NEW q \in Peers,
         pc[p] \in {"read", "writing"}, pc[q] \in {"read", "writing"}
  PROVE  p = q
BY DEF QueueInv, QueueMoves

\* What a reader finds in the file agrees with the first keys.
LEMMA EntriesAgree ==
  ASSUME FileAgrees, NEW t \in Tags, Entries(known)[t] # NoKey
  PROVE  first[t] # NoKey /\ (t \notin disputed => Entries(known)[t] = first[t])
BY DEF FileAgrees, AgreesOn, Entries, NoTags

\* First look: it finds the entry, or the peer is unsure, as one is that is not
\* alone.
LEMMA LookMeans ==
  ASSUME QueueInv, NEW p \in Peers, NEW request \in Requests, Look(p, request)
  PROVE  /\ \A t \in Tags : read'[p][t] \in {NoKey, Entries(known)[t]}
         /\ read'[p][request.tag] = Entries(known)[request.tag] \/ p \in unsure'
         /\ \A q \in Peers : Checking(q) => q \in unsure'
         /\ \A q \in Peers : q \notin unsure' => q \notin unsure
         /\ p \notin unsure' => \A q \in Peers : ~Checking(q)
<1>. DEFINE tag == request.tag
            others == {q \in Peers : Checking(q)}
<1>1. PICK found \in Findings(tag) :
        /\ read' = [read EXCEPT ![p] = [NoTags EXCEPT ![tag] = found]]
        /\ unsure' = unsure \cup others \cup
                        {q \in {p} : others # {} \/ found # Entries(known)[tag]}
  BY DEF Look
<1>2. tag \in Tags /\ read \in [Peers -> Maps]
  BY DEF Requests, QueueInv, TagTypes
<1>3. read'[p] = [NoTags EXCEPT ![tag] = found]
  BY <1>1, <1>2
<1>4. read'[p][tag] = found /\ \A t \in Tags \ {tag} : read'[p][t] = NoKey
  BY <1>2, <1>3 DEF NoTags
<1>5. \A t \in Tags : read'[p][t] \in {NoKey, Entries(known)[t]}
  BY <1>4 DEF Findings
<1>. QED  BY <1>1, <1>4, <1>5

\* The peer has seen what there is, or is unsure of it.
LEMMA LookKeeps ==
  ASSUME TagInv, QueueInv', NEW p \in Peers, NEW request \in Requests, Look(p, request)
  PROVE  TagInv'
<1>1. /\ pc' = [pc EXCEPT ![p] = "looked"] /\ asked' = [asked EXCEPT ![p] = request]
      /\ \A q \in Peers : q # p => read'[q] = read[q]
      /\ UNCHANGED <<known, queue, first, disputed>>
      /\ pc[p] = "idle"
  BY DEF Look, Goes, TagInv, QueueInv, TagTypes
<1>2. /\ pc \in [Peers -> {"idle", "looked", "queued", "read", "writing", "trusts",
                           "mismatch", "failed"}]
      /\ asked \in [Peers -> Requests \cup {NoRequest}]
  BY DEF TagInv, QueueInv, TagTypes
<1>3. ASSUME NEW q \in Peers, q # p
      PROVE  pc'[q] = pc[q] /\ asked'[q] = asked[q] /\ read'[q] = read[q]
  BY <1>1, <1>2, <1>3
<1>4. /\ pc'[p] = "looked" /\ asked'[p] = request
      /\ \A t \in Tags : read'[p][t] \in {NoKey, Entries(known)[t]}
      /\ read'[p][request.tag] = Entries(known)[request.tag] \/ p \in unsure'
  BY <1>1, <1>2, LookMeans DEF TagInv
<1>5. /\ \A q \in Peers : Checking(q) => q \in unsure'
      /\ \A q \in Peers : q \notin unsure' => q \notin unsure
      /\ p \notin unsure' => \A q \in Peers : ~Checking(q)
  BY LookMeans DEF TagInv
<1>6. FileAgrees' /\ WholeOnRead'
  BY <1>1, <1>3, <1>4 DEF TagInv, FileAgrees, AgreesOn, WholeOnRead
<1>7. LooksAgree'
  BY <1>1, <1>3, <1>4, EntriesAgree DEF TagInv, LooksAgree
<1>8. UpdatesAgree' /\ TrustsAgree'
  BY <1>1, <1>3, <1>4 DEF TagInv, UpdatesAgree, TrustsAgree, AgreesOn
<1>9. AloneUnlessUnsure'
  BY <1>3, <1>4, <1>5 DEF AloneUnlessUnsure, Checking
<1>10. SeenStillHolds'
  BY <1>1, <1>3, <1>4, <1>5 DEF TagInv, SeenStillHolds, Entries, Checking
<1>. QED  BY <1>6, <1>7, <1>8, <1>9, <1>10 DEF TagInv

\* A check that is over leaves the others as they are.
LEMMA EndKeeps ==
  ASSUME TagInv, QueueInv', NEW p \in Peers, NEW to \in {"mismatch", "failed"},
         Goes(p, to), read' = [read EXCEPT ![p] = NoTags],
         UNCHANGED <<known, asked, first, disputed, unsure>>
  PROVE  TagInv'
<1>1. ASSUME NEW q \in Peers
      PROVE  /\ q # p => pc'[q] = pc[q] /\ read'[q] = read[q]
             /\ q = p => pc'[q] \in {"mismatch", "failed"}
  BY DEF Goes, TagInv, QueueInv, TagTypes
<1>2. \A q \in Peers : Checking(q)' => Checking(q)
  BY <1>1 DEF Checking
<1>3. FileAgrees' /\ WholeOnRead' /\ AloneUnlessUnsure'
  BY <1>1, <1>2 DEF TagInv, FileAgrees, AgreesOn, WholeOnRead, AloneUnlessUnsure
<1>4. LooksAgree' /\ UpdatesAgree' /\ TrustsAgree'
  BY <1>1 DEF TagInv, LooksAgree, UpdatesAgree, TrustsAgree, AgreesOn
<1>5. SeenStillHolds'
  BY <1>1 DEF TagInv, SeenStillHolds, Entries
<1>. QED  BY <1>3, <1>4, <1>5 DEF TagInv

\* A peer whose check goes on, and the others.
LEMMA GoesMeans ==
  ASSUME QueueInv, NEW p \in Peers,
         NEW to \in {"queued", "read", "writing", "trusts", "mismatch"}, Goes(p, to)
  PROVE  pc'[p] = to /\ \A q \in Peers : q # p => pc'[q] = pc[q]
BY DEF Goes, QueueInv, TagTypes

\* Decision: a trusted key is the first one, or the tag was disputed.
LEMMA DecideKeeps ==
  ASSUME TagInv, QueueInv', NEW p \in Peers, Decide(p)
  PROVE  TagInv'
<1>1. /\ pc[p] = "looked"
      /\ read' = [read EXCEPT ![p] = NoTags]
      /\ UNCHANGED <<known, asked, first, disputed, unsure>>
  BY DEF Decide
<1>2. /\ asked[p].tag \in Tags /\ asked[p].key \in Keys /\ asked[p].key # NoKey
      /\ read \in [Peers -> Maps]
  BY <1>1, Asks DEF TagInv, QueueInv, TagTypes
<1>3. \A q \in Peers : q # p => read'[q] = read[q]
  BY <1>1, <1>2
<1>4. CASE Goes(p, "mismatch")
  BY <1>1, <1>4, EndKeeps
<1>5. CASE Unknown(p) /\ Goes(p, "queued")
  <2>1. pc'[p] = "queued" /\ \A q \in Peers : q # p => pc'[q] = pc[q]
    BY <1>5, GoesMeans DEF TagInv
  <2>2. FileAgrees' /\ WholeOnRead' /\ AloneUnlessUnsure'
    BY <1>1, <2>1 DEF TagInv, FileAgrees, AgreesOn, WholeOnRead, AloneUnlessUnsure, Checking
  <2>3. LooksAgree' /\ UpdatesAgree' /\ TrustsAgree'
    BY <1>1, <1>3, <2>1 DEF TagInv, LooksAgree, UpdatesAgree, TrustsAgree, AgreesOn
  <2>4. p \notin unsure => known = Torn \/ known[asked[p].tag] = NoKey
    BY <1>1, <1>5 DEF TagInv, SeenStillHolds, Unknown, Entries
  <2>5. SeenStillHolds'
    BY <1>1, <1>3, <2>1, <2>4 DEF TagInv, SeenStillHolds, Entries
  <2>. QED  BY <2>2, <2>3, <2>5 DEF TagInv
<1>6. CASE read[p][asked[p].tag] = asked[p].key /\ Goes(p, "trusts")
  <2>1. pc'[p] = "trusts" /\ \A q \in Peers : q # p => pc'[q] = pc[q]
    BY <1>6, GoesMeans DEF TagInv
  <2>2. FileAgrees' /\ WholeOnRead' /\ AloneUnlessUnsure'
    BY <1>1, <2>1 DEF TagInv, FileAgrees, AgreesOn, WholeOnRead, AloneUnlessUnsure, Checking
  <2>3. LooksAgree' /\ UpdatesAgree'
    BY <1>1, <1>3, <2>1 DEF TagInv, LooksAgree, UpdatesAgree, AgreesOn
  <2>4. /\ first[asked[p].tag] # NoKey
        /\ asked[p].tag \notin disputed => asked[p].key = first[asked[p].tag]
    BY <1>1, <1>2, <1>6 DEF TagInv, LooksAgree
  <2>5. TrustsAgree' /\ SeenStillHolds'
    BY <1>1, <1>3, <2>1, <2>4 DEF TagInv, TrustsAgree, SeenStillHolds, Entries
  <2>. QED  BY <2>2, <2>3, <2>5 DEF TagInv
<1>. QED  BY <1>4, <1>5, <1>6 DEF Decide

\* A check that fails changes nothing but its own place.
LEMMA FailsKeeps ==
  ASSUME TagInv, QueueInv', NEW p \in Peers, Fails(p)
  PROVE  TagInv'
BY EndKeeps DEF Fails

\* The queued update reads the whole file.
LEMMA ReadKeeps ==
  ASSUME TagInv, QueueInv', NEW p \in Peers, ReadForUpdate(p), ~Fails(p)
  PROVE  TagInv'
<1>1. /\ pc[p] = "queued" /\ known # Torn /\ Goes(p, "read")
      /\ read' = [read EXCEPT ![p] =
           [Entries(known) EXCEPT ![asked[p].tag] = asked[p].key]]
      /\ UNCHANGED <<known, asked, first, disputed, unsure>>
  BY DEF ReadForUpdate, Parses
<1>2. pc'[p] = "read" /\ \A q \in Peers : q # p => pc'[q] = pc[q]
  BY <1>1, GoesMeans DEF TagInv
<1>3. asked[p].tag \in Tags /\ known \in Maps /\ read \in [Peers -> Maps]
  BY <1>1 DEF TagInv, QueueInv, TagTypes, Requests
<1>4. /\ read'[p] = [known EXCEPT ![asked[p].tag] = asked[p].key]
      /\ \A q \in Peers : q # p => read'[q] = read[q]
  BY <1>1, <1>3 DEF Entries
<1>5. /\ read'[p][asked[p].tag] = asked[p].key
      /\ \A t \in Tags \ {asked[p].tag} : read'[p][t] = known[t]
  BY <1>3, <1>4 DEF Maps
<1>6. FileAgrees' /\ WholeOnRead' /\ AloneUnlessUnsure'
  BY <1>1, <1>2 DEF TagInv, FileAgrees, AgreesOn, WholeOnRead, AloneUnlessUnsure, Checking
<1>7. LooksAgree' /\ TrustsAgree'
  BY <1>1, <1>2, <1>4 DEF TagInv, LooksAgree, TrustsAgree
<1>8. UpdatesAgree'
  BY <1>1, <1>2, <1>4, <1>5 DEF TagInv, UpdatesAgree, AgreesOn, FileAgrees
<1>9. p \notin unsure => first[asked[p].tag] = NoKey
  BY <1>1, <1>3 DEF TagInv, SeenStillHolds, FileAgrees, AgreesOn
<1>10. SeenStillHolds'
  BY <1>1, <1>2, <1>4, <1>9 DEF TagInv, SeenStillHolds, Entries
<1>. QED  BY <1>6, <1>7, <1>8, <1>10 DEF TagInv

\* The write begins: the file is torn, what it held is with its writer.
LEMMA TruncateKeeps ==
  ASSUME TagInv, QueueInv', NEW p \in Peers, Truncate(p), ~Fails(p)
  PROVE  TagInv'
<1>1. /\ pc[p] = "read" /\ known' = Torn /\ Goes(p, "writing")
      /\ UNCHANGED <<queue, asked, read, first, disputed, unsure>>
  BY DEF Truncate
<1>2. pc'[p] = "writing" /\ \A q \in Peers : q # p => pc'[q] = pc[q]
  BY <1>1, GoesMeans DEF TagInv
<1>3. \A q \in Peers : pc'[q] # "read"
  BY <1>1, <1>2, OneUpdates DEF TagInv
<1>4. FileAgrees' /\ WholeOnRead' /\ AloneUnlessUnsure'
  BY <1>1, <1>2, <1>3 DEF TagInv, FileAgrees, WholeOnRead, AloneUnlessUnsure, Checking
<1>5. LooksAgree' /\ TrustsAgree' /\ UpdatesAgree'
  BY <1>1, <1>2 DEF TagInv, LooksAgree, TrustsAgree, UpdatesAgree, AgreesOn
<1>6. \A q \in Peers \ unsure : q # p => ~Checking(q)
  BY <1>1 DEF TagInv, AloneUnlessUnsure, Checking
<1>7. SeenStillHolds'
  BY <1>1, <1>2, <1>6 DEF TagInv, SeenStillHolds, Checking
<1>. QED  BY <1>4, <1>5, <1>7 DEF TagInv

\* The write ends: only its tag differs, and it is the first key or disputed.
LEMMA WriteKeeps ==
  ASSUME TagInv, QueueInv', NEW p \in Peers, Write(p), ~Fails(p)
  PROVE  TagInv'
<1>. DEFINE tag == asked[p].tag
<1>1. /\ pc[p] = "writing" /\ known' = read[p] /\ Goes(p, "trusts")
      /\ first' = [first EXCEPT ![tag] = IF @ = NoKey THEN asked[p].key ELSE @]
      /\ disputed' = IF p \in unsure THEN disputed \cup {tag} ELSE disputed
      /\ read' = [read EXCEPT ![p] = NoTags]
      /\ UNCHANGED <<asked, unsure>>
  BY DEF Write
<1>2. pc'[p] = "trusts" /\ \A q \in Peers : q # p => pc'[q] = pc[q]
  BY <1>1, GoesMeans DEF TagInv
<1>3. /\ tag \in Tags /\ asked[p].key # NoKey
      /\ first \in Maps /\ read \in [Peers -> Maps]
  BY <1>1, Asks DEF TagInv, QueueInv, TagTypes
<1>4. \A q \in Peers : q # p => read'[q] = read[q]
  BY <1>1, <1>3
<1>5. /\ \A t \in Tags \ {tag} : first'[t] = first[t] /\ (t \in disputed' <=> t \in disputed)
      /\ \A t \in Tags : first[t] # NoKey => first'[t] = first[t]
      /\ disputed \subseteq disputed'
      /\ first'[tag] # NoKey
  BY <1>1, <1>3 DEF Maps
<1>6. tag \notin disputed' => first'[tag] = asked[p].key
  <2>1. ASSUME tag \notin disputed' PROVE p \notin unsure
    BY <1>1, <2>1
  <2>2. ASSUME tag \notin disputed' PROVE first[tag] = NoKey
    BY <1>1, <2>1, <2>2 DEF TagInv, SeenStillHolds
  <2>. QED  BY <1>1, <1>3, <2>2 DEF Maps
<1>7. \A q \in Peers : pc'[q] \notin {"read", "writing"}
  BY <1>1, <1>2, OneUpdates DEF TagInv
<1>8. FileAgrees'
  <2>1. known'[tag] = asked[p].key /\ \A t \in Tags \ {tag} : AgreesOn(read[p], t)
    BY <1>1 DEF TagInv, UpdatesAgree
  <2>2. /\ known'[tag] = NoKey <=> first'[tag] = NoKey
        /\ tag \notin disputed' => known'[tag] = first'[tag]
    BY <1>3, <1>5, <1>6, <2>1
  <2>3. ASSUME NEW t \in Tags \ {tag} 
        PROVE  /\ known'[t] = NoKey <=> first'[t] = NoKey
               /\ t \notin disputed' => known'[t] = first'[t]
    BY <1>1, <1>5, <2>1 DEF AgreesOn
  <2>. QED  BY <2>2, <2>3 DEF FileAgrees, AgreesOn
<1>9. LooksAgree'
  BY <1>2, <1>4, <1>5 DEF TagInv, LooksAgree
<1>10. UpdatesAgree' /\ WholeOnRead'
  BY <1>7 DEF UpdatesAgree, WholeOnRead
<1>11. TrustsAgree'
  <2>1. ASSUME NEW q \in Peers, q # p, pc'[q] = "trusts"
        PROVE  /\ first'[asked[q].tag] # NoKey
               /\ asked[q].tag \notin disputed' => asked[q].key = first'[asked[q].tag]
    <3>1. asked[q].tag \in Tags
      BY <1>2, <2>1, Asks DEF TagInv
    <3>. QED  BY <1>2, <1>5, <2>1, <3>1 DEF TagInv, TrustsAgree
  <2>. QED  BY <1>1, <1>5, <1>6, <2>1 DEF TrustsAgree
<1>12. AloneUnlessUnsure'
  BY <1>1, <1>2 DEF TagInv, AloneUnlessUnsure, Checking
<1>13. SeenStillHolds'
  <2>1. \A q \in Peers \ unsure : q # p => ~Checking(q)
    BY <1>1 DEF TagInv, AloneUnlessUnsure, Checking
  <2>. QED  BY <1>1, <1>2, <2>1 DEF SeenStillHolds, Checking
<1>. QED  BY <1>8, <1>9, <1>10, <1>11, <1>12, <1>13 DEF TagInv

\* A crash leaves no peer at work, and the file as it is.
LEMMA RestartKeeps ==
  ASSUME TagInv, QueueInv', Restart
  PROVE  TagInv'
<1>1. \A p \in Peers : pc'[p] = "idle"
  BY DEF Restart
<1>2. FileAgrees'
  BY DEF Restart, TagInv, FileAgrees, AgreesOn
<1>. QED
  BY <1>1, <1>2 DEF TagInv, LooksAgree, UpdatesAgree, TrustsAgree, WholeOnRead,
    AloneUnlessUnsure, SeenStillHolds, Checking

\* Every step keeps the invariant of known-tags.json.
LEMMA TagInvKept == ASSUME TagInv, [Next]_vars PROVE TagInv'
<1>1. CASE TagStep
  <2>1. QueueInv'
    BY <1>1, QueueKept DEF TagInv
  <2>2. ASSUME NEW p \in Peers, Check(p) PROVE TagInv'
    BY <2>1, <2>2, DecideKeeps, FailsKeeps, ReadKeeps, TruncateKeeps, WriteKeeps DEF Check
  <2>. QED  BY <1>1, <2>1, <2>2, LookKeeps, RestartKeeps DEF TagStep
<1>2. CASE UNCHANGED tagVars
  <2>1. QueueInv'
    BY <1>2, QueueStutters DEF TagInv
  <2>. QED
    BY <1>2, <2>1 DEF TagInv, FileAgrees, LooksAgree, UpdatesAgree, TrustsAgree,
      WholeOnRead, AloneUnlessUnsure, SeenStillHolds, AgreesOn, Entries, Checking, tagVars
<1>. QED  BY <1>1, <1>2, StepKinds

\* It holds before anything was written.
LEMMA TagInvInit == Init => TagInv
<1>. SUFFICES ASSUME Init PROVE TagInv
  OBVIOUS
<1>1. QueueInv
  BY NoTagsMap DEF Init, QueueInv, TagTypes, QueueMoves
<1>2. \A p \in Peers : pc[p] = "idle"
  BY DEF Init
<1>3. FileAgrees
  BY DEF Init, FileAgrees, AgreesOn, NoTags
<1>. QED
  BY <1>1, <1>2, <1>3 DEF TagInv, LooksAgree, UpdatesAgree, TrustsAgree, WholeOnRead,
    AloneUnlessUnsure, SeenStillHolds, Checking

\* So it always holds.
LEMMA TagInvAlways == Spec => []TagInv
BY TagInvInit, TagInvKept, PTL DEF Spec

\* What was acknowledged is in the file: upsertKnownTagsEntry loses no update of
\* another tag.
THEOREM AcknowledgedStays == Spec => []AcknowledgedKept
<1>1. TagInv => AcknowledgedKept
  BY DEF TagInv, FileAgrees, AgreesOn, AcknowledgedKept
<1>. QED  BY <1>1, TagInvAlways, PTL

\* Trust on first use, but for checks that overlap or miss the entry: the look at
\* the file outside the queue (connectingToPeer.ts:144) does no harm to a peer
\* that is alone and whose look does not fail.
THEOREM FirstKeyTrusted == Spec => []FirstKeyStays
<1>1. TagInv => FirstKeyStays
  <2>. SUFFICES ASSUME TagInv, NEW t \in Tags \ disputed, first[t] # NoKey
                PROVE  /\ known # Torn => known[t] = first[t]
                       /\ \A p \in Peers :
                            pc[p] = "trusts" /\ asked[p].tag = t => asked[p].key = first[t]
    BY DEF FirstKeyStays
  <2>. QED  BY DEF TagInv, FileAgrees, AgreesOn, TrustsAgree
<1>. QED  BY <1>1, TagInvAlways, PTL

\* Both together: what is on file is what was recorded.
THEOREM TagsStaySound == Spec => []TagsSound
BY AcknowledgedStays, FirstKeyTrusted, PTL DEF TagsSound

\* A damaged known-tags.json is left for its owner: no update begins on it.
THEOREM DamageRemains == Spec => DamagedStays
<1>1. ASSUME TagInv, Damaged, [Next]_vars PROVE Damaged'
  <2>1. CASE TagStep
    <3>1. ASSUME NEW p \in Peers, NEW request \in Requests, Look(p, request)
          PROVE  Damaged'
      BY <1>1, <3>1 DEF Look, Goes, Damaged, Writing, TagInv, QueueInv, TagTypes
    <3>2. ASSUME NEW p \in Peers, Decide(p) PROVE Damaged'
      BY <1>1, <3>2 DEF Decide, Goes, Damaged, Writing, TagInv, QueueInv, TagTypes
    <3>3. ASSUME NEW p \in Peers, Fails(p) PROVE Damaged'
      BY <1>1, <3>3 DEF Fails, Goes, Damaged, Writing, TagInv, QueueInv, TagTypes
    <3>4. ASSUME NEW p \in Peers, ReadForUpdate(p) PROVE Damaged'
      BY <1>1, <3>3, <3>4 DEF ReadForUpdate, Parses, Damaged
    <3>5. ASSUME NEW p \in Peers, Truncate(p) \/ Write(p) PROVE Damaged'
      BY <1>1, <3>3, <3>5 DEF Truncate, Write, Damaged, Writing, TagInv, WholeOnRead
    <3>6. ASSUME Restart PROVE Damaged'
      BY <1>1, <3>6 DEF Restart, Damaged, Writing
    <3>. QED  BY <2>1, <3>1, <3>2, <3>4, <3>5, <3>6 DEF TagStep, Check
  <2>2. CASE UNCHANGED tagVars
    BY <1>1, <2>2 DEF Damaged, Writing, tagVars
  <2>. QED  BY <1>1, <2>1, <2>2, StepKinds
<1>2. TagInv /\ [Next]_vars => [Damaged => Damaged']_vars
  BY <1>1
<1>. QED  BY <1>2, TagInvAlways, PTL DEF Spec, DamagedStays

-----------------------------------------------------------------------------
(* Trust on first use, as the peers see it. *)

\* What the mapping makes of pc.
Stage == [p \in Peers |-> IF Checking(p) THEN "checking" ELSE pc[p]]

StoreStep == [Store!Next]_(Store!vars)

\* A step that no peer can see.
LEMMA Unseen ==
  ASSUME Stage' = Stage, UNCHANGED <<first, asked, unsure, disputed>> PROVE StoreStep
BY DEF StoreStep, Store!vars, Stage

\* A check that goes on is still a check; one that is over has its verdict.
LEMMA StageGoes ==
  ASSUME QueueInv, NEW p \in Peers, Checking(p),
         NEW to \in {"queued", "read", "writing", "trusts", "mismatch", "failed"},
         Goes(p, to)
  PROVE  /\ Stage[p] = "checking"
         /\ to \in {"queued", "read", "writing"} => Stage' = Stage
         /\ to \notin {"queued", "read", "writing"} => Stage' = [Stage EXCEPT ![p] = to]
<1>1. /\ pc' = [pc EXCEPT ![p] = to]
      /\ pc \in [Peers -> {"idle", "looked", "queued", "read", "writing", "trusts",
                           "mismatch", "failed"}]
  BY DEF Goes, QueueInv, TagTypes
<1>. QED  BY <1>1 DEF Stage, Checking

\* The first look begins a check.
LEMMA LookBegins ==
  ASSUME TagInv, NEW p \in Peers, NEW request \in Requests, Look(p, request)
  PROVE  StoreStep
<1>. QueueInv
  BY DEF TagInv
<1>1. Stage[p] = "idle" /\ Stage' = [Stage EXCEPT ![p] = "checking"]
  <2>1. /\ pc[p] = "idle" /\ pc' = [pc EXCEPT ![p] = "looked"]
        /\ pc \in [Peers -> {"idle", "looked", "queued", "read", "writing", "trusts",
                             "mismatch", "failed"}]
    BY DEF Look, Goes, QueueInv, TagTypes
  <2>. QED  BY <2>1 DEF Stage, Checking
<1>2. {q \in Peers : Checking(q)} = {q \in Peers : Stage[q] = "checking"}
  BY DEF Stage, Checking, QueueInv, TagTypes
<1>3. /\ asked' = [asked EXCEPT ![p] = request]
      /\ UNCHANGED <<first, disputed>>
      /\ \E missed \in {FALSE, first[request.tag] # NoKey} :
           LET others == {q \in Peers : Stage[q] = "checking"} IN
           unsure' = unsure \cup others \cup {q \in {p} : others # {} \/ missed}
  <2>1. PICK found \in Findings(request.tag) :
          LET others == {q \in Peers : Checking(q)}
              missed == found # Entries(known)[request.tag] IN
          unsure' = unsure \cup others \cup {q \in {p} : others # {} \/ missed}
    BY DEF Look
  <2>2. (found # Entries(known)[request.tag]) \in {FALSE, first[request.tag] # NoKey}
    BY EntriesAgree DEF Findings, TagInv, Requests
  <2>. QED  BY <1>2, <2>1, <2>2 DEF Look
<1>4. Store!Begin(p, request)
  BY <1>1, <1>3 DEF Store!Begin, Stage
<1>5. request \in Store!Requests
  BY DEF Requests, Store!Requests
<1>. QED  BY <1>4, <1>5 DEF StoreStep, Store!Next

\* An update that fails is a check that fails.
LEMMA FailsFails ==
  ASSUME QueueInv, NEW p \in Peers, Checking(p), Fails(p) PROVE StoreStep
<1>1. Stage[p] = "checking" /\ Stage' = [Stage EXCEPT ![p] = "failed"]
  BY StageGoes DEF Fails
<1>2. Store!Fail(p)
  BY <1>1 DEF Store!Fail, Store!Verdict, Fails, Stage
<1>. QED  BY <1>2 DEF StoreStep, Store!Next

\* A verdict after the first look is about the key on record.
LEMMA DecideJudges ==
  ASSUME TagInv, NEW p \in Peers, Decide(p) PROVE StoreStep
<1>. DEFINE t == asked[p].tag
<1>1. /\ Checking(p) /\ QueueInv /\ t \in Tags
      /\ UNCHANGED <<first, asked, unsure, disputed>>
  BY DEF Decide, Checking, TagInv, QueueInv, TagTypes, Requests
<1>2. CASE Goes(p, "queued")
  <2>1. Stage' = Stage
    BY <1>1, <1>2, StageGoes
  <2>. QED  BY <1>1, <2>1, Unseen
<1>3. ASSUME ~Unknown(p), NEW to \in {"trusts", "mismatch"}, Goes(p, to),
             to = "trusts" <=> read[p][t] = asked[p].key
      PROVE  StoreStep
  <2>1. Stage[p] = "checking" /\ Stage' = [Stage EXCEPT ![p] = to]
    BY <1>1, <1>3, StageGoes
  <2>2. first[t] # NoKey /\ (t \in disputed \/ read[p][t] = first[t])
    BY <1>1, <1>3 DEF Decide, Unknown, TagInv, LooksAgree
  <2>3. CASE to = "trusts"
    <3>1. Store!Trust(p)
      BY <1>1, <1>3, <2>1, <2>2, <2>3
      DEF Store!Trust, Store!Verdict, Store!OnRecord, Store!Disputed, Stage
    <3>. QED  BY <3>1 DEF StoreStep, Store!Next
  <2>4. CASE to = "mismatch"
    <3>1. Store!Refuse(p)
      BY <1>1, <1>3, <2>1, <2>2, <2>4
      DEF Store!Refuse, Store!Verdict, Store!OnRecord, Store!Disputed, Stage
    <3>. QED  BY <3>1 DEF StoreStep, Store!Next
  <2>. QED  BY <2>3, <2>4
<1>. QED  BY <1>2, <1>3 DEF Decide

\* The end of an update is the moment at which the key goes on record, and the
\* check ends: a peer that is not unsure finds none on record.
LEMMA WriteRecords ==
  ASSUME TagInv, NEW p \in Peers, Write(p) PROVE StoreStep
<1>1. Checking(p) /\ QueueInv /\ pc[p] = "writing"
  BY DEF Write, Checking, TagInv
<1>2. CASE Fails(p)
  BY <1>1, <1>2, FailsFails
<1>3. CASE ~Fails(p)
  <2>1. /\ Goes(p, "trusts") /\ UNCHANGED <<asked, unsure>>
        /\ first' = [first EXCEPT ![asked[p].tag] =
                      IF @ = NoKey THEN asked[p].key ELSE @]
        /\ disputed' = IF p \in unsure THEN disputed \cup {asked[p].tag} ELSE disputed
    BY <1>3 DEF Write
  <2>2. Stage[p] = "checking" /\ Stage' = [Stage EXCEPT ![p] = "trusts"]
    BY <1>1, <2>1, StageGoes
  <2>3. first[asked[p].tag] = NoKey \/ p \in unsure
    BY <1>1 DEF TagInv, SeenStillHolds
  <2>4. Store!Record(p)
    BY <2>1, <2>2, <2>3 DEF Store!Record, Store!Verdict, Store!OnRecord, Stage
  <2>. QED  BY <2>4 DEF StoreStep, Store!Next
<1>. QED  BY <1>2, <1>3

\* Every step of the files and the queue is one of the store, or is not seen.
LEMMA StepsStore == ASSUME TagInv, [Next]_vars PROVE StoreStep
<1>1. ASSUME NEW p \in Peers, ReadForUpdate(p) \/ Truncate(p) PROVE StoreStep
  <2>1. Checking(p) /\ QueueInv
    BY <1>1 DEF ReadForUpdate, Truncate, Checking, TagInv
  <2>2. CASE Fails(p)
    BY <2>1, <2>2, FailsFails
  <2>3. CASE ~Fails(p)
    <3>1. /\ Goes(p, "read") \/ Goes(p, "writing")
          /\ UNCHANGED <<first, asked, unsure, disputed>>
      BY <1>1, <2>3 DEF ReadForUpdate, Truncate
    <3>2. Stage' = Stage
      BY <2>1, <3>1, StageGoes
    <3>. QED  BY <3>1, <3>2, Unseen
  <2>. QED  BY <2>2, <2>3
<1>2. CASE Restart
  <2>1. Stage' = [p \in Peers |-> "idle"]
    BY <1>2 DEF Restart, Stage, Checking
  <2>2. Store!Restart
    BY <1>2, <2>1 DEF Store!Restart, Restart, Stage
  <2>. QED  BY <2>2 DEF StoreStep, Store!Next
<1>3. CASE UNCHANGED tagVars
  BY <1>3, Unseen DEF tagVars, Stage, Checking
<1>4. CASE TagStep
  BY <1>1, <1>2, <1>4, LookBegins, DecideJudges, WriteRecords
  DEF TagStep, Check, TagInv
<1>. QED  BY <1>3, <1>4, StepKinds

\* To its peers the vault is a store with atomic checks, whatever files are torn,
\* looks and updates fail and processes end: no check is answered from a file that
\* another one is changing, and none replaces a key, unless it overlapped with
\* another or missed the entry.
THEOREM ImplementsStore == Spec => StoreSpec
<1>1. Init => Store!Init
  BY DEF Init, Store!Init, NoTags, Checking
<1>2. TagInv /\ [Next]_vars => [Store!Next]_(Store!vars)
  BY StepsStore DEF StoreStep
<1>. QED  BY <1>1, <1>2, TagInvAlways, PTL DEF Spec, StoreSpec, Store!Spec

-----------------------------------------------------------------------------
(* Key pairs. *)

KeyTypes ==
  /\ index \in Seq(Generators) \cup {Torn}
  /\ files \in [Generators -> SUBSET {"public", "private"}]
  /\ gpc \in [Generators -> {"idle", "read", "writing", "done", "failed"}]
  /\ base \in [Generators -> Seq(Generators)]
  /\ careless \in BOOLEAN

Has(list, g) == \E i \in DOMAIN list : list[i] = g
Exist(list) == \A i \in DOMAIN list : Saved(list[i])

\* What a generator has read, and is about to extend, names whole pairs only, and
\* so does the index; before it truncates the index, its own pair is whole.
FilesFirst ==
  /\ index # Torn => Exist(index)
  /\ \A g \in Generators : Exist(base[g])
  /\ \A g \in Generators : gpc[g] = "writing" => Saved(g)

\* With care, one generates at a time, from a list that has all the pairs made.
AllKept ==
  ~careless =>
    /\ \A g, h \in Generators : Generating(g) /\ Generating(h) => g = h
    /\ \A g, h \in Generators : Generating(g) /\ gpc[h] = "done" => Has(base[g], h)
    /\ index # Torn => \A h \in Generators : gpc[h] = "done" => Has(index, h)

KeyInv == KeyTypes /\ FilesFirst /\ AllKept

\* Every step keeps the invariant of keys.json.
LEMMA KeyInvKept == ASSUME KeyInv, [Next]_vars PROVE KeyInv'
<1>. USE DEF KeyInv
<1>1. ASSUME NEW g \in Generators, GenerateStart(g) PROVE KeyInv'
  <2>1. PICK list \in ReadIndex(index) :
        /\ gpc[g] = "idle" /\ gpc' = [gpc EXCEPT ![g] = "read"]
        /\ base' = [base EXCEPT ![g] = list]
        /\ UNCHANGED <<index, files>>
        /\ ~careless' => ~careless /\ list = index /\ \A h \in Generators : ~Generating(h)
    BY <1>1 DEF GenerateStart, GoesOn
  <2>2. list \in Seq(Generators) /\ Exist(list)
    <3>1. <<>> \in Seq(Generators) /\ Exist(<<>>)
      BY DEF Exist
    <3>. QED  BY <3>1 DEF ReadIndex, KeyTypes, FilesFirst
  <2>3. KeyTypes'
    BY <1>1, <2>1, <2>2 DEF KeyTypes, GenerateStart
  <2>4. FilesFirst'
    BY <2>1, <2>2 DEF KeyTypes, FilesFirst, Exist, Saved
  <2>5. AllKept'
    BY <2>1, <2>2, VaultAssumption DEF KeyTypes, AllKept, Has, Generating
  <2>. QED  BY <2>3, <2>4, <2>5
<1>2. ASSUME NEW g \in Generators, SaveFile(g) PROVE KeyInv'
  <2>1. /\ gpc[g] = "read" /\ ~Saved(g)
        /\ files' \in [Generators -> SUBSET {"public", "private"}]
        /\ \A h \in Generators : Saved(h) => files'[h] = files[h]
        /\ UNCHANGED <<index, gpc, base, careless>>
    BY <1>2 DEF SaveFile, KeyTypes, Saved
  <2>2. ASSUME NEW list \in Seq(Generators), Exist(list)
        PROVE  \A i \in DOMAIN list : files'[list[i]] = {"public", "private"}
    BY <2>1, <2>2 DEF Exist, Saved
  <2>3. /\ index # Torn =>
             \A i \in DOMAIN index : files'[index[i]] = {"public", "private"}
        /\ \A h \in Generators :
             \A i \in DOMAIN base[h] : files'[base[h][i]] = {"public", "private"}
    BY <2>2 DEF KeyTypes, FilesFirst
  <2>4. \A h \in Generators : gpc'[h] = "writing" => files'[h] = {"public", "private"}
    BY <2>1 DEF FilesFirst, Saved
  <2>5. FilesFirst'
    BY <2>1, <2>3, <2>4 DEF FilesFirst, Saved, Exist
  <2>. QED  BY <2>1, <2>5 DEF KeyTypes, AllKept, Has, Generating
<1>3. ASSUME NEW g \in Generators, TruncateIndex(g) PROVE KeyInv'
  BY <1>3 DEF TruncateIndex, GoesOn, KeyTypes, FilesFirst, AllKept, Exist, Saved, Has,
    Generating
<1>4. ASSUME NEW g \in Generators, WriteIndex(g) PROVE KeyInv'
  <2>1. /\ gpc[g] = "writing" /\ index' = Append(base[g], g)
        /\ gpc' = [gpc EXCEPT ![g] = "done"]
        /\ UNCHANGED <<files, base, careless>>
        /\ base[g] \in Seq(Generators)
    BY <1>4 DEF WriteIndex, GoesOn, KeyTypes
  <2>2. /\ index' \in Seq(Generators)
        /\ DOMAIN index' = DOMAIN base[g] \cup {Len(base[g]) + 1}
        /\ \A i \in DOMAIN base[g] : index'[i] = base[g][i]
        /\ index'[Len(base[g]) + 1] = g
    BY <2>1
  <2>3. KeyTypes'
    BY <2>1, <2>2 DEF KeyTypes
  <2>4. FilesFirst'
    BY <2>1, <2>2 DEF KeyTypes, FilesFirst, Exist, Saved
  <2>5. \A h \in Generators : h = g \/ Has(base[g], h) => Has(index', h)
    BY <2>2 DEF Has
  <2>6. /\ gpc'[g] = "done"
        /\ \A h \in Generators : h # g => gpc'[h] = gpc[h]
    BY <2>1 DEF KeyTypes
  <2>7. ASSUME ~careless
        PROVE  /\ \A h \in Generators : gpc'[h] \notin {"read", "writing"}
               /\ \A h \in Generators : gpc'[h] = "done" => Has(index', h)
    BY <2>1, <2>5, <2>6, <2>7 DEF AllKept, Generating
  <2>8. AllKept'
    BY <2>1, <2>7 DEF AllKept, Has, Generating
  <2>. QED  BY <2>3, <2>4, <2>8
<1>5. ASSUME NEW g \in Generators, GenerateFails(g) PROVE KeyInv'
  BY <1>5 DEF GenerateFails, GoesOn, KeyTypes, FilesFirst, AllKept, Exist, Saved, Has,
    Generating
<1>6. CASE UNCHANGED keyVars
  BY <1>6 DEF keyVars, KeyTypes, FilesFirst, AllKept, Exist, Saved, Has, Generating
<1>. QED  BY <1>1, <1>2, <1>3, <1>4, <1>5, <1>6, StepKinds DEF KeyStep, Generate

\* It holds at first.
LEMMA KeyInvInit == Init => KeyInv
<1>. SUFFICES ASSUME Init PROVE KeyInv
  OBVIOUS
<1>1. KeyTypes
  <2>. DEFINE none == <<>>
  <2>1. none \in Seq(Generators)
    OBVIOUS
  <2>2. index = none /\ base = [g \in Generators |-> none]
    BY DEF Init
  <2>3. base \in [Generators -> Seq(Generators)]
    <3>. HIDE DEF none
    <3>. QED  BY <2>1, <2>2
  <2>4. /\ files \in [Generators -> SUBSET {"public", "private"}]
        /\ gpc \in [Generators -> {"idle", "read", "writing", "done", "failed"}]
        /\ careless \in BOOLEAN
    BY DEF Init
  <2>. QED  BY <2>1, <2>2, <2>3, <2>4 DEF KeyTypes
<1>2. \A g \in Generators : gpc[g] = "idle" /\ base[g] = <<>>
  BY DEF Init
<1>3. FilesFirst
  <2>1. index = <<>> /\ Exist(<<>>)
    BY DEF Init, Exist
  <2>. QED  BY <1>2, <2>1 DEF FilesFirst
<1>. QED  BY <1>1, <1>2, <1>3 DEF KeyInv, AllKept, Generating

\* So it always holds.
LEMMA KeyInvAlways == Spec => []KeyInv
BY KeyInvInit, KeyInvKept, PTL DEF Spec

\* keys.json names only key pairs whose files exist, and keeps those it was given.
THEOREM KeysStaySound == Spec => []KeysSound
<1>1. KeyInv => KeysSound
  BY DEF KeyInv, FilesFirst, AllKept, KeysSound, IndexedKeysExist, KeysKept, Exist,
    Saved, Has
<1>. QED  BY <1>1, KeyInvAlways, PTL

\* The types of both files' variables, and the queue.
THEOREM TypeCorrect == Spec => []TypeOK
<1>1. TagInv /\ KeyInv => TypeOK
  BY DEF TagInv, QueueInv, TagTypes, KeyInv, KeyTypes, TypeOK
<1>. QED  BY <1>1, TagInvAlways, KeyInvAlways, PTL

=============================================================================
