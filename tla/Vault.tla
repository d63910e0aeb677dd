-------------------------------- MODULE Vault --------------------------------
(***************************************************************************)
(* The vault directory: known-tags.json, which the peers of one process    *)
(* read and update, and keys.json, which key generation extends.           *)
(* Sources: simple/simpleUtils.ts, simplePeer/behaviors/connectingToPeer.ts *)
(*                                                                         *)
(* Both files are overwritten in place.  writeFile truncates and then      *)
(* writes: a file is Torn in between, and stays so if the write fails or   *)
(* the process ends.  A file that is absent reads like an empty one.       *)
(* The peers' updates go through knownTagsUpdateQueue, which belongs to    *)
(* the process; their first look at the file does not.                     *)
(***************************************************************************)
EXTENDS Sequences, Naturals

CONSTANTS
  Peers,        \* attempts to connect, in one process at a time
  Tags,         \* distantTag
  Keys,         \* public keys, by fingerprint
  Generators,   \* runs of createAndSaveKeyPair, named by the pair they make
  NoKey, Torn,  \* no entry; a file that does not parse
  NoRequest     \* what a peer that has not begun asks for

ASSUME VaultAssumption ==
  /\ Tags # {} /\ Keys # {} /\ NoKey \notin Keys
  /\ Torn \notin [Tags -> Keys \cup {NoKey}] /\ Torn \notin Seq(Generators)

VARIABLES
  known,    \* known-tags.json
  queue,    \* knownTagsUpdateQueue: the peers whose updates have not settled
  pc,       \* where each peer is in its check of the distant key
  asked,    \* asked[p]: the tag and the key of p's session request
  read,     \* read[p]: what p has read, at its first look and in its update,
            \* as long as it is of use
  first,    \* history: the first key recorded for each tag
  unsure,   \* history: peers whose look overlapped with another one's check,
            \* or failed although the file had an entry for their tag
  disputed, \* history: tags that such a peer has recorded
  index,    \* keys.json
  files,    \* files[g]: the key files that generator g has written
  gpc,      \* where each generator is
  base,     \* base[g]: the index that g has read
  careless  \* history: was the index read while another generator was at work,
            \* or not read as it was?

tagVars == <<known, queue, pc, asked, read, first, disputed, unsure>>
keyVars == <<index, files, gpc, base, careless>>
vars == <<tagVars, keyVars>>

Maps == [Tags -> Keys \cup {NoKey}]
NoTags == [t \in Tags |-> NoKey]
Requests == [tag : Tags, key : Keys]

Init ==
  /\ known = NoTags /\ queue = <<>>
  /\ pc = [p \in Peers |-> "idle"]
  /\ asked = [p \in Peers |-> NoRequest]
  /\ read = [p \in Peers |-> NoTags]
  /\ first = NoTags /\ disputed = {} /\ unsure = {}
  /\ index = <<>> /\ files = [g \in Generators |-> {}]
  /\ gpc = [g \in Generators |-> "idle"]
  /\ base = [g \in Generators |-> <<>>]
  /\ careless = FALSE

-----------------------------------------------------------------------------
(* A peer checks the distant key. *)

Checking(p) == pc[p] \in {"looked", "queued", "read", "writing"}
Goes(p, to) == pc' = [pc EXCEPT ![p] = to]

\* The entries that there are to be found.
Entries(contents) == IF contents = Torn THEN NoTags ELSE contents

\* getKnownTagsEntry catches every error: an intact file that cannot be read at
\* the moment has no entry, like one that does not parse.
Findings(tag) == {NoKey, Entries(known)[tag]}

Look(p, request) ==
  /\ pc[p] = "idle"
  /\ Goes(p, "looked")
  /\ asked' = [asked EXCEPT ![p] = request]
  /\ \E found \in Findings(request.tag) :
       LET others == {q \in Peers : Checking(q)}
           missed == found # Entries(known)[request.tag] IN
       /\ read' = [read EXCEPT ![p] = [NoTags EXCEPT ![request.tag] = found]]
       /\ unsure' = unsure \cup others \cup
                      {q \in {p} : others # {} \/ missed}
  /\ UNCHANGED <<known, queue, first, disputed>>

\* MUTANT of Unknown: an entry with another key is replaced.
UnknownOrChanged(p) == read[p][asked[p].tag] # asked[p].key
Unknown(p) == read[p][asked[p].tag] = NoKey

\* The call of upsertKnownTagsEntry, or the verdict.
Decide(p) ==
  /\ pc[p] = "looked"
  /\ \/ /\ Unknown(p)
        /\ Goes(p, "queued") /\ queue' = Append(queue, p)
     \/ /\ ~Unknown(p)
        /\ Goes(p, IF read[p][asked[p].tag] = asked[p].key THEN "trusts"
                                                           ELSE "mismatch")
        /\ UNCHANGED queue
  /\ read' = [read EXCEPT ![p] = NoTags]
  /\ UNCHANGED <<known, asked, first, disputed, unsure>>

TurnOfAll(p) == TRUE                                   \* MUTANT of Turn
Turn(p) == queue # <<>> /\ p = Head(queue)

\* MUTANT of Freed: an update that fails holds up those behind it.
FreedNever(p) == queue
\* Whatever became of p's update, the next one may run.
Freed(p) == Tail(queue)

Fails(p) ==
  /\ Goes(p, "failed") /\ queue' = Freed(p)
  /\ read' = [read EXCEPT ![p] = NoTags]
  /\ UNCHANGED <<known, asked, first, disputed, unsure>>

ParsesAsEmpty(contents) == TRUE                        \* MUTANT of Parses
Parses(contents) == contents # Torn

\* readKnownTagsForUpdate, after mkdir, which may fail as well.
ReadForUpdate(p) ==
  /\ pc[p] = "queued" /\ Turn(p)
  /\ \/ /\ Parses(known)
        /\ read' = [read EXCEPT ![p] =
             [Entries(known) EXCEPT ![asked[p].tag] = asked[p].key]]
        /\ Goes(p, "read")
        /\ UNCHANGED <<known, queue, asked, first, disputed, unsure>>
     \/ Fails(p)

\* writeFile opens the file, which truncates it.
Truncate(p) ==
  /\ pc[p] = "read"
  /\ \/ /\ known' = Torn /\ Goes(p, "writing")
        /\ UNCHANGED <<queue, asked, read, first, disputed, unsure>>
     \/ Fails(p)

Write(p) ==
  /\ pc[p] = "writing"
  /\ \/ LET t == asked[p].tag IN
        /\ known' = read[p]
        /\ first' = [first EXCEPT ![t] = IF @ = NoKey THEN asked[p].key ELSE @]
        /\ disputed' = IF p \in unsure THEN disputed \cup {t} ELSE disputed
        /\ Goes(p, "trusts") /\ queue' = Freed(p)
        /\ read' = [read EXCEPT ![p] = NoTags]
        /\ UNCHANGED <<asked, unsure>>
     \/ Fails(p)

\* The process ends, and the next one has peers of its own.
Restart ==
  /\ \E p \in Peers : pc[p] # "idle"
  /\ queue' = <<>> /\ unsure' = {}
  /\ pc' = [p \in Peers |-> "idle"]
  /\ read' = [p \in Peers |-> NoTags]
  /\ asked' = [p \in Peers |-> NoRequest]
  /\ UNCHANGED <<known, first, disputed>>

-----------------------------------------------------------------------------
(* createAndSaveKeyPair, each in a process of its own. *)

Generating(g) == gpc[g] \in {"read", "writing"}
GoesOn(g, to) == gpc' = [gpc EXCEPT ![g] = to]

\* The catch {} of createAndSaveKeyPair takes an index that does not parse, or
\* cannot be read at the moment, for an empty one.
ReadIndex(contents) == {<<>>} \cup ({contents} \ {Torn})

GenerateStart(g) ==
  /\ gpc[g] = "idle"
  /\ GoesOn(g, "read")
  /\ \E list \in ReadIndex(index) :
       /\ base' = [base EXCEPT ![g] = list]
       /\ careless' = (careless \/ list # index \/ \E h \in Generators : Generating(h))
  /\ UNCHANGED <<index, files>>

\* The two key files, one after the other.
SaveFile(g) ==
  /\ gpc[g] = "read"
  /\ files' = [files EXCEPT ![g] =
       @ \cup {IF "public" \in @ THEN "private" ELSE "public"}]
  /\ files' # files
  /\ UNCHANGED <<index, gpc, base, careless>>

\* MUTANT of Saved: the writing of the private key is not awaited.
SavedHalf(g) == "public" \in files[g]
Saved(g) == files[g] = {"public", "private"}

TruncateIndex(g) ==
  /\ gpc[g] = "read" /\ Saved(g)
  /\ index' = Torn /\ GoesOn(g, "writing")
  /\ UNCHANGED <<files, base, careless>>

WriteIndex(g) ==
  /\ gpc[g] = "writing"
  /\ index' = Append(base[g], g) /\ GoesOn(g, "done")
  /\ UNCHANGED <<files, base, careless>>

\* A write fails, or the process ends.
GenerateFails(g) ==
  /\ Generating(g)
  /\ GoesOn(g, "failed")
  /\ UNCHANGED <<index, files, base, careless>>

-----------------------------------------------------------------------------

Check(p) == Decide(p) \/ ReadForUpdate(p) \/ Truncate(p) \/ Write(p)
Generate(g) ==
  \/ GenerateStart(g) \/ SaveFile(g) \/ TruncateIndex(g) \/ WriteIndex(g)
  \/ GenerateFails(g)

Next ==
  \/ /\ \/ \E p \in Peers, request \in Requests : Look(p, request)
        \/ \E p \in Peers : Check(p)
        \/ Restart
     /\ UNCHANGED keyVars
  \/ /\ \E g \in Generators : Generate(g)
     /\ UNCHANGED tagVars

Spec == Init /\ [][Next]_vars

-----------------------------------------------------------------------------
(* Properties. *)

\* No check of a key waits for one that is over, whichever updates fail: who is
\* in the queue is still updating, and nobody but the first has begun to.
QueueMoves ==
  /\ \A i, j \in DOMAIN queue : queue[i] = queue[j] => i = j
  /\ \A p \in Peers :
       /\ pc[p] \in {"queued", "read", "writing"} <=> \E i \in DOMAIN queue : queue[i] = p
       /\ pc[p] \in {"read", "writing"} => p = Head(queue)

TypeOK ==
  /\ QueueMoves
  /\ known \in Maps \cup {Torn}
  /\ queue \in Seq(Peers)
  /\ pc \in [Peers -> {"idle", "looked", "queued", "read", "writing", "trusts",
                       "mismatch", "failed"}]
  /\ asked \in [Peers -> Requests \cup {NoRequest}] /\ read \in [Peers -> Maps]
  /\ \A p \in Peers : pc[p] # "idle" => asked[p] \in Requests
  /\ first \in Maps /\ disputed \subseteq Tags /\ unsure \subseteq Peers
  /\ index \in Seq(Generators) \cup {Torn}
  /\ files \in [Generators -> SUBSET {"public", "private"}]
  /\ gpc \in [Generators -> {"idle", "read", "writing", "done", "failed"}]
  /\ base \in [Generators -> Seq(Generators)]
  /\ careless \in BOOLEAN

\* While known-tags.json parses, it has an entry for every tag whose update was
\* acknowledged, whichever updates of other tags ran and failed meanwhile.
AcknowledgedKept ==
  known # Torn => \A t \in Tags : first[t] # NoKey => known[t] # NoKey

\* Trust on first use: the key on file, and the key of every peer that goes on,
\* is the first one recorded for the tag.  The code has two exceptions: a peer
\* looked at the file while another one of its process was checking a key, so
\* that it may have seen the file before an update, or in the middle of one; and
\* a peer's look failed although the file had an entry, which its update then
\* replaces.
FirstKeyStays ==
  \A t \in Tags \ disputed : first[t] # NoKey =>
    /\ known # Torn => known[t] = first[t]
    /\ \A p \in Peers :
         pc[p] = "trusts" /\ asked[p].tag = t => asked[p].key = first[t]

\* Both, of what is on file and what was recorded.
TagsSound == AcknowledgedKept /\ FirstKeyStays

\* A known-tags.json left damaged by a failed write or a restart is never taken
\* for an empty one and overwritten.
Writing == \E p \in Peers : pc[p] = "writing"
Damaged == known = Torn /\ ~Writing
DamagedStays == [][Damaged => Damaged']_vars

\* Every key pair that keys.json names has both its files, whenever generation
\* stops and however many run.
IndexedKeysExist ==
  index # Torn =>
    \A i \in DOMAIN index : files[index[i]] = {"public", "private"}

\* A key pair that was reported saved stays in keys.json.  The code has three
\* exceptions: two generations that overlap, one that finds the file torn, and
\* one whose reading of an intact file fails; the last two begin a new list.
KeysKept ==
  ~careless /\ index # Torn =>
    \A g \in Generators : gpc[g] = "done" => \E i \in DOMAIN index : index[i] = g

KeysSound == IndexedKeysExist /\ KeysKept

\* What a peer may think of the vault: a check looks a key up and records it in
\* one step, whatever files are torn and updates fail; a recorded key is never
\* changed or lost, and only another key on record makes a check refuse.  Checks
\* that overlap, and those whose look failed, may record another key.
Store == INSTANCE TrustStore WITH
  table <- first,
  stage <- [p \in Peers |-> IF Checking(p) THEN "checking" ELSE pc[p]]

StoreSpec == Store!Spec
=============================================================================
