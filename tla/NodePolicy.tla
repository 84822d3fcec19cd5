----------------------------- MODULE NodePolicy -----------------------------
(***************************************************************************)
(* How a tenant's policy reaches a Sentinel node: PUT /v1/policy by        *)
(* administrators at the same time, the node's start (loadInitial), its    *)
(* poll with If-None-Match, the cache file it falls back on, its crashes   *)
(* and restarts, and the key of module SentinelKey, which it reads once    *)
(* and sends with every request.                                           *)
(***************************************************************************)
EXTENDS SentinelKey, Sequences

CONSTANTS
  Admins,       \* PUT requests, one each; also the names of their documents
  MaxOutages,   \* bound: times the control plane becomes unreachable
  MaxBoots      \* bound: starts of the node

ASSUME NodePolicyAssumption ==
  /\ MaxOutages \in Nat /\ MaxBoots \in Nat
  /\ IsFiniteSet(Admins)

VARIABLES
  stored,       \* tenant_policies: version and document, the default if there is no row
  policyLog,    \* versions of the "policy_changed" rows of the audit ledger
  put,          \* per administrator: place of the request
  next,         \* per administrator: the version its transaction has written
  up, outages,  \* the control plane answers; times it stopped
  hasFile,      \* --policy names a file
  pc,           \* the node: place in loadInitial or poll
  nodeKey,      \* the key it read at its start
  active,       \* its settings
  got,          \* what fetchPolicy returned
  cache,        \* policy.json: a policy, or Broken if missing or not whole
  boots,        \* starts so far
  ran,          \* history: the newest version this node ever ran with
  behind        \* history: a write of the cache failed, none succeeded since

putVars == <<stored, policyLog, put, next>>
nodeVars == <<hasFile, pc, nodeKey, active, got, cache, boots, ran, behind>>
vars == <<keyVars, putVars, up, outages, nodeVars>>

Default == [version |-> 0, doc |-> "default"]
FilePolicy == [version |-> -1, doc |-> "file"]
Broken == [version |-> -2, doc |-> "none"]

Policies == [version : 0..Cardinality(Admins), doc : Admins \cup {"default"}]

Init ==
  /\ KeyInit
  /\ stored = Default /\ policyLog = <<>>
  /\ put = [a \in Admins |-> "new"] /\ next = [a \in Admins |-> 0]
  /\ up = TRUE /\ outages = 0
  /\ hasFile \in BOOLEAN
  /\ pc = "down" /\ nodeKey = NoKey /\ active = Broken /\ got = Broken /\ cache = Broken
  /\ boots = 0 /\ ran = 0 /\ behind = FALSE

-----------------------------------------------------------------------------
(* putPolicy. The upsert locks the tenant's row until the transaction ends.*)

RowFree == \A a \in Admins : put[a] # "open"

(* Mutant of PutUpsert: the version is read without locking the row.       *)
PutUpsertUnlocked(a) ==
  /\ put[a] = "new" /\ up
  /\ put' = [put EXCEPT ![a] = "open"]
  /\ next' = [next EXCEPT ![a] = stored.version + 1]
  /\ UNCHANGED <<stored, policyLog, keyVars, up, outages, nodeVars>>

PutUpsert(a) ==
  /\ put[a] = "new" /\ up /\ RowFree
  /\ put' = [put EXCEPT ![a] = "open"]
  /\ next' = [next EXCEPT ![a] = stored.version + 1]
  /\ UNCHANGED <<stored, policyLog, keyVars, up, outages, nodeVars>>

(* The ledger entry and the commit, whose answer may be lost.              *)
PutCommit(a) ==
  /\ put[a] = "open"
  /\ put' = [put EXCEPT ![a] = "done"] /\ next' = [next EXCEPT ![a] = 0]
  /\ stored' = [version |-> next[a], doc |-> a]
  /\ policyLog' = Append(policyLog, next[a])
  /\ UNCHANGED <<keyVars, up, outages, nodeVars>>

(* An error, or the end of the control plane, rolls it back.               *)
PutFails(a) ==
  /\ put[a] = "open"
  /\ put' = [put EXCEPT ![a] = "done"] /\ next' = [next EXCEPT ![a] = 0]
  /\ UNCHANGED <<stored, policyLog, keyVars, up, outages, nodeVars>>

Outage ==
  /\ up /\ outages < MaxOutages
  /\ up' = FALSE /\ outages' = outages + 1
  /\ UNCHANGED <<keyVars, putVars, nodeVars>>

Recover ==
  /\ ~up /\ up' = TRUE
  /\ UNCHANGED <<keyVars, putVars, outages, nodeVars>>

-----------------------------------------------------------------------------
(* The node.                                                               *)

(* getPolicy answers a node whose key is accepted.                         *)
Answers == up /\ Authenticate(nodeKey)

(* main: apiKey reads the file. The first start waits for the command.     *)
Boot ==
  /\ pc = "down" /\ boots < MaxBoots /\ ensured
  /\ nodeKey' = keyFile
  /\ pc' = "load" /\ boots' = boots + 1
  /\ UNCHANGED <<hasFile, active, got, cache, ran, behind, keyVars,
                 putVars, up, outages>>

(* loadInitial: fetchPolicy without an ETag.                               *)
LoadFetch ==
  /\ pc = "load"
  /\ \/ Answers /\ got' = stored /\ pc' = "openCache"
     \/ ~Answers /\ pc' = "readCache" /\ UNCHANGED got
  /\ UNCHANGED <<hasFile, nodeKey, active, cache, boots, ran, behind, keyVars,
                 putVars, up, outages>>

(* A version the node runs with from now on.                               *)
Ran(p) == ran' = IF p.version > ran THEN p.version ELSE ran

(* The cache, else the policy file, else "no policy" ends the process.     *)
LoadFallback ==
  /\ pc = "readCache"
  /\ \/ /\ cache # Broken
        /\ active' = cache /\ Ran(cache) /\ pc' = "run"
     \/ /\ cache = Broken /\ hasFile
        /\ active' = FilePolicy /\ pc' = "run" /\ UNCHANGED ran
     \/ /\ cache = Broken /\ ~hasFile
        /\ pc' = "down" /\ UNCHANGED <<active, ran>>
  /\ UNCHANGED <<hasFile, nodeKey, got, cache, boots, behind, keyVars,
                 putVars, up, outages>>

(* Mutant of PollFetch: the settings are stored before the cache.          *)
PollFetchSwapped ==
  /\ pc = "run" /\ Answers /\ active.version # stored.version
  /\ got' = stored /\ active' = stored /\ Ran(stored) /\ pc' = "openCache"
  /\ UNCHANGED <<hasFile, nodeKey, cache, boots, behind, keyVars,
                 putVars, up, outages>>

(* Mutant of PollFetch: only a fetch that fails is tried again.            *)
PollFetchOnce ==
  /\ pc = "run" /\ Answers /\ active.version < 0
  /\ got' = stored /\ pc' = "openCache"
  /\ UNCHANGED <<hasFile, nodeKey, active, cache, boots, ran, behind, keyVars,
                 putVars, up, outages>>

(* poll: an answer other than 304. An error or the same ETag changes       *)
(* nothing; a policy from the file has no ETag.                            *)
PollFetch ==
  /\ pc = "run" /\ Answers /\ active.version # stored.version
  /\ got' = stored /\ pc' = "openCache"
  /\ UNCHANGED <<hasFile, nodeKey, active, cache, boots, ran, behind, keyVars,
                 putVars, up, outages>>

(* writeCache opens and truncates policy.json, then writes. Its error is   *)
(* ignored.                                                                *)
OpenCache ==
  /\ pc = "openCache"
  /\ \/ cache' = Broken /\ behind' = TRUE /\ pc' = "writeCache" /\ UNCHANGED faults
     \/ Fault /\ behind' = TRUE /\ pc' = "store" /\ UNCHANGED cache
  /\ UNCHANGED <<hasFile, nodeKey, active, got, boots, ran, putVars, up, outages>>
  /\ UNCHANGED <<keyState, keyLogged, keyFile, commandVars, revokes, ensured, revokedSince>>

WriteCache ==
  /\ pc = "writeCache"
  /\ pc' = "store"
  /\ \/ cache' = got /\ behind' = FALSE /\ UNCHANGED faults
     \/ Fault /\ UNCHANGED <<cache, behind>>
  /\ UNCHANGED <<hasFile, nodeKey, active, got, boots, ran, putVars, up, outages>>
  /\ UNCHANGED <<keyState, keyLogged, keyFile, commandVars, revokes, ensured, revokedSince>>

(* active.Store(settingsFrom(doc, etag)).                                  *)
StoreSettings ==
  /\ pc = "store"
  /\ active' = got /\ Ran(got) /\ got' = Broken
  /\ pc' = "run"
  /\ UNCHANGED <<hasFile, nodeKey, cache, boots, behind, keyVars,
                 putVars, up, outages>>

NodeCrash ==
  /\ pc # "down" /\ boots < MaxBoots
  /\ pc' = "down" /\ nodeKey' = NoKey /\ active' = Broken /\ got' = Broken
  /\ UNCHANGED <<hasFile, cache, boots, ran, behind, keyVars,
                 putVars, up, outages>>

KeyNext ==
  /\ \/ Command
     \/ CommandCrash
     \/ \E k \in Keys : up /\ Revoke(k)
  /\ UNCHANGED <<putVars, up, outages, nodeVars>>

PolicyNext ==
  \/ \E a \in Admins : PutUpsert(a) \/ PutCommit(a) \/ PutFails(a)
  \/ Outage \/ Recover

NodeStep ==
  \/ LoadFetch \/ LoadFallback \/ PollFetch \/ OpenCache \/ WriteCache \/ StoreSettings

Next == KeyNext \/ PolicyNext \/ NodeStep \/ Boot \/ NodeCrash

Spec == Init /\ [][Next]_vars

(* The poll's ticker goes on, and a request is answered while the control  *)
(* plane is up. Nobody need change a policy, run the command or recover.   *)
FairSpec == Spec /\ WF_vars(NodeStep)

-----------------------------------------------------------------------------
TypeOK ==
  /\ KeyTypeOK
  /\ stored \in Policies /\ policyLog \in Seq(Nat)
  /\ put \in [Admins -> {"new", "open", "done"}]
  /\ next \in [Admins -> Nat]
  /\ up \in BOOLEAN /\ outages \in 0..MaxOutages
  /\ pc \in {"down", "load", "readCache", "openCache", "writeCache", "store", "run"}
  /\ nodeKey \in Keys \cup {NoKey}
  /\ active \in Policies \cup {FilePolicy, Broken}
  /\ got \in Policies \cup {Broken} /\ cache \in Policies \cup {Broken}
  /\ hasFile \in BOOLEAN /\ boots \in 0..MaxBoots /\ ran \in Nat /\ behind \in BOOLEAN

(* The ETag is the version, and it names one document: settings or a cache *)
(* with the version of the tenant's policy hold the tenant's policy, so    *)
(* that a 304 never keeps another document in force, whatever PUTs raced.  *)
SameEtagSamePolicy ==
  \A p \in {active, got, cache} : p.version = stored.version => p = stored

(* The audit ledger has every version of the policy once, in order.        *)
VersionsLogged == policyLog = [i \in 1..stored.version |-> i]

(* A node that is restarted never runs with an older policy than before,   *)
(* also without the control plane, unless the last write of its cache      *)
(* failed or was cut off: poll writes the cache before it uses a policy.   *)
NeverOlder == pc = "run" /\ ~behind /\ ran > 0 => active.version >= ran

(* Once the control plane is reachable, the node's key is accepted and the *)
(* node stays up, it comes to run with the tenant's policy and stays with  *)
(* it.                                                                     *)
PolicyArrives ==
  <>[](up /\ pc # "down" /\ Authenticate(nodeKey)) => <>[](active = stored)
=============================================================================
