----------------------------- MODULE TrustStore -----------------------------
(***************************************************************************)
(* Trust on first use as the peers of a process should see it: a table of  *)
(* keys that a check consults and extends in one step, at some moment      *)
(* between its beginning and its verdict.  There is no file, no queue and  *)
(* no damage, and a recorded key never changes or goes.                    *)
(*                                                                         *)
(* Two kinds of checks are unsure of what they see: those that overlap, and *)
(* those that miss an entry.  They may dispute a tag: from then on a verdict *)
(* about it shows nothing.                                                  *)
(***************************************************************************)
CONSTANTS Peers, Tags, Keys, NoKey, NoRequest

VARIABLES
  table,     \* the key on record for each tag, or NoKey
  stage,     \* stage[p]: "idle", "checking", or the verdict
  asked,     \* asked[p]: the tag and the key that p checks
  unsure,    \* peers whose check has overlapped with another one, or has
             \* missed the key on record
  disputed   \* tags that such a peer has recorded

vars == <<table, stage, asked, unsure, disputed>>

Requests == [tag : Tags, key : Keys]

Init ==
  /\ table = [t \in Tags |-> NoKey]
  /\ stage = [p \in Peers |-> "idle"]
  /\ asked = [p \in Peers |-> NoRequest]
  /\ unsure = {} /\ disputed = {}

Begin(p, request) ==
  /\ stage[p] = "idle"
  /\ stage' = [stage EXCEPT ![p] = "checking"]
  /\ asked' = [asked EXCEPT ![p] = request]
  /\ \E missed \in {FALSE, table[request.tag] # NoKey} :
       LET others == {q \in Peers : stage[q] = "checking"} IN
       unsure' = unsure \cup others \cup {q \in {p} : others # {} \/ missed}
  /\ UNCHANGED <<table, disputed>>

OnRecord(p) == table[asked[p].tag]
Disputed(p) == asked[p].tag \in disputed

Verdict(p, verdict) ==
  /\ stage[p] = "checking"
  /\ stage' = [stage EXCEPT ![p] = verdict]
  /\ UNCHANGED <<asked, unsure>>

\* The key is new, and goes on record; who is unsure may trust one that is not
\* the first.
Record(p) ==
  /\ Verdict(p, "trusts")
  /\ OnRecord(p) = NoKey \/ p \in unsure
  /\ table' = [table EXCEPT ![asked[p].tag] = IF @ = NoKey THEN asked[p].key ELSE @]
  /\ disputed' = IF p \in unsure THEN disputed \cup {asked[p].tag} ELSE disputed

\* The key is the one on record.
Trust(p) ==
  /\ Verdict(p, "trusts")
  /\ OnRecord(p) # NoKey
  /\ OnRecord(p) = asked[p].key \/ Disputed(p)
  /\ UNCHANGED <<table, disputed>>

\* Another key is on record.
Refuse(p) ==
  /\ Verdict(p, "mismatch")
  /\ OnRecord(p) # NoKey
  /\ OnRecord(p) # asked[p].key \/ Disputed(p)
  /\ UNCHANGED <<table, disputed>>

\* The check fails; nothing is recorded.
Fail(p) == Verdict(p, "failed") /\ UNCHANGED <<table, disputed>>

\* The process ends.  What is on record stays on record.
Restart ==
  /\ stage' = [p \in Peers |-> "idle"] /\ unsure' = {}
  /\ asked' = [p \in Peers |-> NoRequest]
  /\ UNCHANGED <<table, disputed>>

Next ==
  \/ \E p \in Peers, request \in Requests : Begin(p, request)
  \/ \E p \in Peers : Record(p) \/ Trust(p) \/ Refuse(p) \/ Fail(p)
  \/ Restart

Spec == Init /\ [][Next]_vars
=============================================================================
