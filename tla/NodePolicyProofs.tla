-------------------------- MODULE NodePolicyProofs --------------------------
(* Proofs about what the control plane hands on to others: SentinelKey and *)
(* NodePolicy, its keys and policies to a node, for any number of keys,    *)
(* faults, PUT requests, outages and starts of the node; and Hub, its      *)
(* events to WebSockets, for any number of connections, tenants and events. *)
EXTENDS NodePolicy, Hub, TLAPS

-----------------------------------------------------------------------------
(* The key: what the command knows at each of its steps.                   *)
KeyInv ==
  /\ keyState \in [Keys -> {"none", "live", "revoked"}]
  /\ keyFile \in Keys \cup {NoKey} /\ text \in Keys \cup {NoKey}
  /\ cpc = "authenticate" => keyFile = text
  /\ cpc \in {"open", "write"} => Authenticate(text) \/ revokedSince
  /\ EnsuredKeyWorks

(* No step of the command loses the key it has seen or created, and Revoke *)
(* takes it away only with revokedSince.                                   *)
LEMMA KeyStep ==
  ASSUME KeyInv,
         Command \/ CommandCrash \/ \E k \in Keys : Revoke(k)
  PROVE  KeyInv'
  <1> USE DEF KeyInv, EnsuredKeyWorks, Authenticate
  <1>1. CASE RunCommand
    BY <1>1, Zenon DEF RunCommand
  <1>2. CASE ReadFile
    BY <1>2, Zenon DEF ReadFile
  <1>3. CASE ConnectFails
    BY <1>3, Zenon DEF ConnectFails, Retry
  <1>4. CASE classifySentinelKey
    BY <1>4, Zenon DEF classifySentinelKey
  <1>5. CASE createSentinelKey
    <2>1. Fresh \in Keys /\ keyState[Fresh] = "none"
      BY <1>5, Zenon DEF createSentinelKey, Fresh
    <2>2. CASE keyState' = [keyState EXCEPT ![Fresh] = "live"]
      <3>1. keyState' \in [Keys -> {"none", "live", "revoked"}] /\ keyState'[Fresh] = "live"
        BY <2>1, <2>2, Zenon
      <3> QED
        BY <1>5, <2>1, <2>2, <3>1, Zenon DEF createSentinelKey, Retry
    <2>3. CASE UNCHANGED keyState /\ Retry
      BY <1>5, <2>3, Zenon DEF createSentinelKey, Retry
    <2> QED
      BY <1>5, <2>2, <2>3, Zenon DEF createSentinelKey
  <1>6. CASE OpenKeyFile
    BY <1>6, Zenon DEF OpenKeyFile, Retry
  <1>7. CASE WriteKeyFile
    BY <1>7, Zenon DEF WriteKeyFile, Retry
  <1>8. CASE CommandCrash
    BY <1>8, Zenon DEF CommandCrash
  <1>9. ASSUME NEW k \in Keys, Revoke(k) PROVE KeyInv'
    <2>1. /\ keyState' \in [Keys -> {"none", "live", "revoked"}]
          /\ \A i \in Keys : i # k => keyState'[i] = keyState[i]
      BY <1>9, Zenon DEF Revoke
    <2>2. UNCHANGED <<keyFile, cpc, text>> /\ revokedSince' = (revokedSince \/ k = text)
      BY <1>9, Zenon DEF Revoke, commandVars
    <2> QED
      BY <2>1, <2>2, Zenon
  <1> QED
    BY <1>1, <1>2, <1>3, <1>4, <1>5, <1>6, <1>7, <1>8, <1>9, Zenon DEF Command

-----------------------------------------------------------------------------
(* The policy. A document with the version of the tenant's policy is the   *)
(* tenant's policy, and no document has a later version.                   *)
Known(p) ==
  /\ p.version \in Int /\ p.version <= stored.version
  /\ p.version = stored.version => p = stored

(* Of the requests that are open at most one has the row, and it writes    *)
(* the next version.                                                       *)
PutInv ==
  /\ stored.version \in Nat
  /\ put \in [Admins -> {"new", "open", "done"}] /\ next \in [Admins -> Nat]
  /\ \A a \in Admins : put[a] = "open" => next[a] = stored.version + 1
  /\ \A a, b \in Admins : put[a] = "open" /\ put[b] = "open" => a = b
  /\ VersionsLogged

(* What the node has in its cache, and on its way there, is no older than  *)
(* what it ran with.                                                       *)
NodeInv ==
  /\ ran \in Nat /\ ran <= stored.version /\ behind \in BOOLEAN
  /\ Known(active) /\ Known(got) /\ Known(cache)
  /\ pc \in {"openCache", "writeCache", "store"} => got.version >= ran
  /\ pc = "writeCache" => behind
  /\ pc = "store" /\ ~behind => cache = got
  /\ ~behind /\ ran > 0 => cache.version >= ran
  /\ NeverOlder

PolicyInv == KeyInv /\ PutInv /\ NodeInv

(* What is known of the versions.                                          *)
LEMMA Versions ==
  /\ Default.version = 0 /\ FilePolicy.version = -1 /\ Broken.version = -2
  /\ Broken # FilePolicy
  BY SMT DEF Default, FilePolicy, Broken

(* What a step that leaves the tenant's policy alone leaves alone.         *)
LEMMA PutKeeps ==
  ASSUME PutInv, UNCHANGED putVars
  PROVE  PutInv' /\ stored' = stored
  BY Zenon DEF PutInv, putVars, VersionsLogged

(* The facts about the node rest on its own variables and the versions.    *)
LEMMA NodeKeeps ==
  ASSUME NodeInv, UNCHANGED nodeVars, UNCHANGED stored
  PROVE  NodeInv'
  BY Zenon DEF NodeInv, nodeVars, Known, NeverOlder

(* The facts about the command rest on its own variables and the keys.     *)
LEMMA KeyKeeps ==
  ASSUME KeyInv, UNCHANGED <<keyState, keyFile, text, cpc, revokedSince>>
  PROVE  KeyInv'
  BY Zenon DEF KeyInv, EnsuredKeyWorks, Authenticate

(* putPolicy: the row lock makes the versions follow each other.           *)
LEMMA PutStep ==
  ASSUME PutInv, NodeInv, NEW a \in Admins, PutUpsert(a) \/ PutCommit(a) \/ PutFails(a)
  PROVE  PutInv' /\ NodeInv'
  <1>1. CASE PutUpsert(a)
    <2>1. stored' = stored /\ UNCHANGED <<policyLog, nodeVars>>
      BY <1>1, Zenon DEF PutUpsert
    <2>2. PutInv'
      BY <1>1, <2>1, SMT DEF PutUpsert, PutInv, RowFree, VersionsLogged
    <2> QED
      BY <2>1, <2>2, NodeKeeps, Zenon
  <1>2. CASE PutFails(a)
    <2>1. stored' = stored /\ UNCHANGED <<policyLog, nodeVars>>
      BY <1>2, Zenon DEF PutFails
    <2>2. PutInv'
      BY <1>2, <2>1, SMT DEF PutFails, PutInv, VersionsLogged
    <2> QED
      BY <2>1, <2>2, NodeKeeps, Zenon
  <1>3. CASE PutCommit(a)
    <2> DEFINE v == stored.version
    <2>1. /\ v \in Nat /\ next[a] = v + 1
          /\ stored' = [version |-> v + 1, doc |-> a] /\ stored'.version = v + 1
          /\ put' = [put EXCEPT ![a] = "done"] /\ next' = [next EXCEPT ![a] = 0]
          /\ policyLog' = Append(policyLog, v + 1) /\ UNCHANGED nodeVars
      BY <1>3, SMT DEF PutCommit, PutInv
    <2>2. \A b \in Admins : put'[b] # "open"
      BY <1>3, <2>1, Zenon DEF PutInv, PutCommit
    <2>3. VersionsLogged'
      <3>1. policyLog = [i \in 1..v |-> i]
        BY DEF PutInv, VersionsLogged
      <3>2. Append([i \in 1..v |-> i], v + 1) = [i \in 1..(v + 1) |-> i]
        BY <2>1, SMT
      <3> QED
        BY <2>1, <3>1, <3>2, Zenon DEF VersionsLogged
    <2>4. PutInv'
      BY <2>1, <2>2, <2>3, SMT DEF PutInv
    <2>5. \A p : Known(p) => p.version \in Int /\ p.version <= stored'.version
                             /\ p.version # stored'.version
      BY <2>1, SMT DEF Known
    <2>6. Known(active)' /\ Known(got)' /\ Known(cache)'
      BY <2>1, <2>5, Zenon DEF NodeInv, Known, nodeVars
    <2>7. ran \in Nat /\ ran <= stored'.version
      BY <2>1, SMT DEF NodeInv
    <2> QED
      BY <2>1, <2>4, <2>6, <2>7, Zenon DEF NodeInv, NeverOlder, nodeVars
  <1> QED
    BY <1>1, <1>2, <1>3

(* The node: it writes the cache before it uses a policy.                  *)
LEMMA NodeStepKeeps ==
  ASSUME PutInv, NodeInv, NodeStep \/ Boot \/ NodeCrash
  PROVE  NodeInv' /\ UNCHANGED putVars
  <1>1. UNCHANGED putVars
    BY Zenon DEF NodeStep, LoadFetch, LoadFallback, PollFetch, OpenCache, WriteCache, StoreSettings,
       Boot, NodeCrash
  <1>2. stored' = stored /\ stored.version \in Nat
    BY <1>1, Zenon DEF putVars, PutInv
  <1>3. \A p \in {Broken, FilePolicy, stored} : Known(p)
    BY <1>2, Versions, SMT DEF Known
  <1>4. \A p : Known(p) => p.version \in Int /\ p.version <= stored.version
    BY Zenon DEF Known
  <1>5. /\ ran \in Nat /\ ran <= stored.version /\ behind \in BOOLEAN
        /\ Known(active) /\ Known(got) /\ Known(cache)
        /\ pc \in {"openCache", "writeCache", "store"} => got.version >= ran
        /\ pc = "writeCache" => behind
        /\ pc = "store" /\ ~behind => cache = got
        /\ ~behind /\ ran > 0 => cache.version >= ran
        /\ pc = "run" /\ ~behind /\ ran > 0 => active.version >= ran
    BY Zenon DEF NodeInv, NeverOlder
  <1> DEFINE After == /\ ran' \in Nat /\ ran' <= stored.version /\ behind' \in BOOLEAN
                      /\ active' \in {Broken, FilePolicy, stored, active, got, cache}
                      /\ got' \in {Broken, stored, got} /\ cache' \in {Broken, got, cache}
                      /\ pc' \in {"openCache", "writeCache", "store"} => got'.version >= ran'
                      /\ pc' = "writeCache" => behind'
                      /\ pc' = "store" /\ ~behind' => cache' = got'
                      /\ ~behind' /\ ran' > 0 => cache'.version >= ran'
                      /\ pc' = "run" /\ ~behind' /\ ran' > 0 => active'.version >= ran'
  <1>6. After => NodeInv'
    <2> SUFFICES ASSUME After PROVE NodeInv'
      OBVIOUS
    <2>1. /\ \A p : Known(p) => (p.version \in Int /\ p.version <= stored'.version
                                 /\ (p.version = stored'.version => p = stored'))
      BY <1>2, Zenon DEF Known
    <2>2. Known(active)' /\ Known(got)' /\ Known(cache)'
      <3>1. Known(Broken) /\ Known(FilePolicy) /\ Known(stored)
        BY <1>3
      <3> QED
        BY <1>5, <2>1, <3>1, Zenon DEF Known
    <2> QED
      BY <1>2, <2>2, Zenon DEF NodeInv, NeverOlder
  <1>7. ASSUME Boot PROVE After
    BY <1>5, <1>7, SMT DEF Boot
  <1>8. ASSUME LoadFetch PROVE After
    BY <1>2, <1>5, <1>8, SMT DEF LoadFetch
  <1>9. ASSUME LoadFallback PROVE After
    <2>1. CASE cache = Broken
      <3>1. behind \/ ran = 0
        BY <1>5, <2>1, Versions, SMT
      <3> QED
        BY <1>5, <1>9, <2>1, <3>1, SMT DEF LoadFallback
    <2>2. CASE cache # Broken
      <3>1. cache.version \in Int /\ cache.version <= stored.version
        BY <1>4, <1>5
      <3> QED
        BY <1>2, <1>5, <1>9, <2>2, <3>1, SMT DEF LoadFallback, Ran
    <2> QED
      BY <2>1, <2>2
  <1>10. ASSUME PollFetch PROVE After
    BY <1>2, <1>5, <1>10, SMT DEF PollFetch
  <1>11. ASSUME OpenCache PROVE After
    BY <1>5, <1>11, Zenon DEF OpenCache
  <1>12. ASSUME WriteCache PROVE After
    BY <1>5, <1>12, Zenon DEF WriteCache
  <1>13. ASSUME StoreSettings PROVE After
    <2>1. got.version \in Int /\ got.version <= stored.version
      BY <1>4, <1>5
    <2>2. /\ pc = "store" /\ pc' = "run" /\ active' = got /\ got' = Broken
          /\ UNCHANGED <<cache, behind>> /\ ran' = IF got.version > ran THEN got.version ELSE ran
      BY <1>13, Zenon DEF StoreSettings, Ran
    <2>3. /\ ran' \in Nat /\ ran' = got.version /\ ran' <= stored.version
          /\ got.version >= got.version
      BY <1>2, <1>5, <2>1, <2>2, SMT
    <2> QED
      BY <1>5, <2>2, <2>3, Zenon
  <1>14. ASSUME NodeCrash PROVE After
    BY <1>5, <1>14, SMT DEF NodeCrash
  <1>15. NodeInv'
    <2> HIDE DEF After
    <2> QED
      BY <1>6, <1>7, <1>8, <1>9, <1>10, <1>11, <1>12, <1>13, <1>14 DEF NodeStep
  <1> QED
    BY <1>1, <1>15

-----------------------------------------------------------------------------
(* The inductive invariant holds throughout.                               *)
THEOREM PolicyInvariant == Spec => []PolicyInv
  <1>1. Init => PolicyInv
    <2> SUFFICES ASSUME Init PROVE PolicyInv
      OBVIOUS
    <2>1. KeyInv
      BY Zenon DEF Init, KeyInit, KeyInv, EnsuredKeyWorks
    <2>2. PutInv
      BY Versions, SMT DEF Init, PutInv, VersionsLogged
    <2>3. NodeInv
      <3>1. Known(Broken)
        BY Versions, SMT DEF Init, Known
      <3>2. 0 \in Nat /\ 0 <= stored.version /\ ~(0 > 0)
        BY Versions, SMT DEF Init
      <3> QED
        BY <3>1, <3>2, Zenon DEF Init, NodeInv, NeverOlder
    <2> QED
      BY <2>1, <2>2, <2>3 DEF PolicyInv
  <1>2. PolicyInv /\ [Next]_vars => PolicyInv'
    <2> SUFFICES ASSUME PolicyInv, [Next]_vars PROVE PolicyInv'
      OBVIOUS
    <2>1. KeyInv /\ PutInv /\ NodeInv
      BY DEF PolicyInv
    <2>2. CASE KeyNext
      BY <2>1, <2>2, KeyStep, PutKeeps, NodeKeeps, Zenon DEF KeyNext, PolicyInv
    <2>3. CASE PolicyNext
      <3>1. KeyInv'
        BY <2>1, <2>3, KeyKeeps, Zenon DEF PolicyNext, PutUpsert, PutCommit, PutFails, Outage,
           Recover, keyVars, commandVars
      <3>2. CASE \E a \in Admins : PutUpsert(a) \/ PutCommit(a) \/ PutFails(a)
        BY <2>1, <3>1, <3>2, PutStep, Zenon DEF PolicyInv
      <3>3. CASE Outage \/ Recover
        BY <2>1, <3>1, <3>3, PutKeeps, NodeKeeps, Zenon DEF Outage, Recover, PolicyInv
      <3> QED
        BY <2>3, <3>2, <3>3 DEF PolicyNext
    <2>4. CASE NodeStep \/ Boot \/ NodeCrash
      <3>1. KeyInv'
        BY <2>1, <2>4, KeyKeeps, Zenon DEF NodeStep, LoadFetch, LoadFallback, PollFetch, OpenCache,
           WriteCache, StoreSettings, Boot, NodeCrash, keyVars, commandVars
      <3> QED
        BY <2>1, <2>4, <3>1, NodeStepKeeps, PutKeeps, Zenon DEF PolicyInv
    <2>5. CASE UNCHANGED vars
      BY <2>1, <2>5, KeyKeeps, PutKeeps, NodeKeeps, Zenon DEF vars, keyVars, commandVars, PolicyInv,
         putVars
    <2> QED
      BY <2>2, <2>3, <2>4, <2>5 DEF Next
  <1> QED
    BY <1>1, <1>2, PTL DEF Spec

(* When ensure-sentinel-key ends well, its file holds a key that counts.   *)
THEOREM KeyEnsured == Spec => []EnsuredKeyWorks
  <1>1. PolicyInv => EnsuredKeyWorks
    BY DEF PolicyInv, KeyInv
  <1> QED
    BY <1>1, PolicyInvariant, PTL

(* An ETag names one document, whatever PUT requests race.                 *)
THEOREM EtagNamesPolicy == Spec => []SameEtagSamePolicy
  <1>1. PolicyInv => SameEtagSamePolicy
    <2> SUFFICES ASSUME PolicyInv, NEW p \in {active, got, cache}, p.version = stored.version
                 PROVE  p = stored
      BY Zenon DEF SameEtagSamePolicy
    <2>1. Known(active) /\ Known(got) /\ Known(cache)
      BY Zenon DEF PolicyInv, NodeInv
    <2>2. Known(p)
      BY <2>1, Zenon
    <2> QED
      BY <2>2, Zenon DEF Known
  <1> QED
    BY <1>1, PolicyInvariant, PTL

(* putPolicy writes every version to the audit ledger, once and in order.  *)
THEOREM VersionsInLedger == Spec => []VersionsLogged
  <1>1. PolicyInv => VersionsLogged
    BY DEF PolicyInv, PutInv
  <1> QED
    BY <1>1, PolicyInvariant, PTL

(* A restarted node does not go back to an older policy, unless its cache  *)
(* could not be written.                                                   *)
THEOREM NodeNeverOlder == Spec => []NeverOlder
  <1>1. PolicyInv => NeverOlder
    BY DEF PolicyInv, NodeInv
  <1> QED
    BY <1>1, PolicyInvariant, PTL

-----------------------------------------------------------------------------
(* A connection is registered, for its tenant, from add to remove.         *)
Listed(c, t) == c \in conns[t] <=> wpc[c] \in {"open", "remove"} /\ tenant[c] = t

(* The hub. Its mutex keeps the registry still while a message is written, *)
(* so a connection is behind what was sent to its tenant by the message in *)
(* hand, and only while send has still to write to it.                     *)
Registry ==
  /\ mu <=> hpc = "send"
  /\ hpc # "send" => left = {}
  /\ left \subseteq conns[msg.tenant]
  /\ \A c \in Conns, t \in Tenants : Listed(c, t)

(* What a connection has got of what was sent to its tenant.               *)
Copied(c) ==
  LET all == sent[tenant[c]]
  IN /\ Len(received[c]) + since[c] <= Len(all)
     /\ \A i \in 1..Len(received[c]) : received[c][i] = all[since[c] + i]
     /\ wpc[c] \in {"none", "add"} => Len(received[c]) = 0 /\ since[c] = 0
     /\ wpc[c] = "open" /\ c \notin left => Len(received[c]) + since[c] = Len(all)
     /\ wpc[c] = "open" /\ c \in left => Len(received[c]) + since[c] + 1 = Len(all)

LastSent ==
  hpc = "send" => LET all == sent[msg.tenant] IN Len(all) # 0 /\ all[Len(all)] = msg

InOrder(s) == \A i, j \in 1..Len(s) : i < j => s[i].n < s[j].n

(* Everything in s, per tenant, was published before message n.            *)
SentBefore(s, n) == \A t \in Tenants : \A k \in 1..Len(s[t]) : s[t][k].n < n

Ordered ==
  /\ \A t \in Tenants : InOrder(sent[t]) /\ \A k \in 1..Len(sent[t]) : sent[t][k].tenant = t
  /\ InOrder(channel) /\ SentBefore(sent, published + 1)
  /\ \A i \in 1..Len(channel) : channel[i].n <= published /\ SentBefore(sent, channel[i].n)
  /\ hpc # "read" => msg.n <= published /\ \A i \in 1..Len(channel) : msg.n < channel[i].n
  /\ hpc = "lock" => SentBefore(sent, msg.n)

HubInv == HubTypeOK /\ Registry /\ (\A c \in Conns : Copied(c)) /\ LastSent /\ Ordered

(* What HubInv says of the types, part by part.                            *)
LEMMA HubTypes ==
  ASSUME HubTypeOK
  PROVE  /\ MaxMessages \in Nat /\ published \in Nat /\ published <= MaxMessages
         /\ channel \in Seq(Message) /\ msg \in Message /\ msg.tenant \in Tenants /\ msg.n \in Nat
         /\ left \subseteq Conns /\ conns \in [Tenants -> SUBSET Conns]
         /\ tenant \in [Conns -> Tenants] /\ received \in [Conns -> Seq(Message)]
         /\ sent \in [Tenants -> Seq(Message)] /\ since \in [Conns -> Nat]
         /\ \A m \in Message : m.n \in Nat /\ m.tenant \in Tenants
         /\ \A t \in Tenants : sent[t] \in Seq(Message) /\ Len(sent[t]) \in Nat
         /\ \A c \in Conns : /\ tenant[c] \in Tenants /\ since[c] \in Nat
                             /\ received[c] \in Seq(Message) /\ Len(received[c]) \in Nat
  <1>1. \A m \in Message : m.n \in Nat /\ m.tenant \in Tenants
    BY HubAssumption DEF Message
  <1>2. /\ MaxMessages \in Nat /\ published \in Nat /\ published <= MaxMessages
    BY HubAssumption DEF HubTypeOK
  <1>3. /\ channel \in Seq(Message) /\ msg \in Message /\ left \subseteq Conns
        /\ conns \in [Tenants -> SUBSET Conns] /\ tenant \in [Conns -> Tenants]
        /\ received \in [Conns -> Seq(Message)] /\ sent \in [Tenants -> Seq(Message)]
        /\ since \in [Conns -> Nat]
    BY DEF HubTypeOK
  <1>4. \A s \in Seq(Message) : Len(s) \in Nat
    OBVIOUS
  <1>5. \A t \in Tenants : sent[t] \in Seq(Message)
    BY <1>3
  <1>6. \A c \in Conns : tenant[c] \in Tenants /\ since[c] \in Nat /\ received[c] \in Seq(Message)
    BY <1>3
  <1> QED
    BY <1>1, <1>2, <1>3, <1>4, <1>5, <1>6

(* What is not the business of a step stays as it is.                      *)
LEMMA CopiedStays ==
  ASSUME NEW c \in Conns, Copied(c),
         UNCHANGED sent, received'[c] = received[c], since'[c] = since[c],
         tenant'[c] = tenant[c], wpc'[c] = wpc[c],
         (c \in left') <=> (c \in left)
  PROVE  Copied(c)'
  BY DEF Copied

(* A message that is published is newer than all before it.                *)
LEMMA PublishKeeps ==
  ASSUME HubInv, Publish
  PROVE  HubInv'
  <1>1. /\ HubTypeOK /\ Registry /\ Ordered /\ LastSent /\ \A c \in Conns : Copied(c)
        /\ published < MaxMessages /\ published' = published + 1
        /\ UNCHANGED <<hpc, msg, left, mu, conns, wpc, tenant, reads, received, sent, since>>
    BY DEF HubInv, Publish, connVars
  <1>2. Registry' /\ LastSent' /\ \A c \in Conns : Copied(c)'
    <2>1. Registry' /\ LastSent'
      BY <1>1 DEF Registry, Listed, LastSent
    <2>2. \A c \in Conns : Copied(c)'
      BY <1>1, CopiedStays
    <2> QED
      BY <2>1, <2>2
  <1>3. published' \in 0..MaxMessages /\ published <= published'
    BY <1>1, HubTypes
  <1>4. SentBefore(sent, published + 1) /\ SentBefore(sent, published' + 1)
    <2>1. SentBefore(sent, published + 1) /\ published \in Nat
      BY <1>1, HubTypes DEF Ordered
    <2>2. ASSUME NEW t \in Tenants, NEW k \in 1..Len(sent[t]) PROVE sent[t][k].n < published' + 1
      <3>1. sent[t][k].n < published + 1
        BY <2>1 DEF SentBefore
      <3>2. sent[t][k] \in Message
        BY <1>1, HubTypes
      <3>3. sent[t][k].n \in Nat
        BY <1>1, <3>2, HubTypes
      <3> QED
        BY <1>1, <2>1, <3>1, <3>3
    <2> QED
      BY <2>1, <2>2 DEF SentBefore
  <1>5. \A i \in 1..Len(channel) : channel[i].n \in Nat
    <2>1. \A i \in 1..Len(channel) : channel[i] \in Message
      BY <1>1, HubTypes
    <2> QED
      BY <1>1, <2>1, HubTypes
  <1>6. CASE UNCHANGED channel
    <2>1. \A i \in 1..Len(channel) : channel[i].n <= published'
      BY <1>1, <1>3, <1>5, HubTypes DEF Ordered
    <2>2. hpc # "read" => msg.n <= published'
      BY <1>1, <1>3, HubTypes DEF Ordered
    <2>3. Ordered'
      BY <1>1, <1>4, <1>6, <2>1, <2>2 DEF Ordered
    <2> QED
      BY <1>1, <1>2, <1>3, <1>6, <2>3 DEF HubInv, HubTypeOK
  <1>7. ASSUME NEW t \in Tenants, NEW u \in BOOLEAN, Len(channel) < Buffer,
               channel' = Append(channel, [n |-> published', tenant |-> t, usable |-> u])
        PROVE  HubInv'
    <2> DEFINE m == [n |-> published', tenant |-> t, usable |-> u]
    <2>1. m \in Message /\ m.n = published + 1
      BY <1>1, <1>3 DEF Message
    <2>2. /\ channel \in Seq(Message) /\ Len(channel) \in Nat
          /\ \A i \in 1..Len(channel) : channel[i].n \in Nat
      BY <1>1, HubTypes
    <2> HIDE DEF m
    <2>3. /\ channel' \in Seq(Message) /\ Len(channel') = Len(channel) + 1
          /\ channel'[Len(channel) + 1] = m
          /\ \A i \in 1..Len(channel) : channel'[i] = channel[i]
      BY <1>7, <2>1, <2>2 DEF m
    <2>4. \A i \in 1..Len(channel') : i \in 1..Len(channel) \/ i = Len(channel) + 1
      BY <2>2, <2>3
    <2>5. HubTypeOK'
      BY <1>1, <1>3, <1>7, <2>2, <2>3, HubAssumption DEF HubTypeOK
    <2>6. ASSUME NEW i \in 1..Len(channel')
          PROVE  /\ channel'[i].n <= published' /\ SentBefore(sent, channel'[i].n)
                 /\ hpc # "read" => msg.n < channel'[i].n
      <3>1. CASE i \in 1..Len(channel)
        <4>1. /\ channel[i].n <= published /\ SentBefore(sent, channel[i].n)
              /\ hpc # "read" => msg.n < channel[i].n
          BY <1>1, <3>1 DEF Ordered
        <4>2. channel[i].n <= published'
          BY <1>1, <1>3, <1>5, <3>1, <4>1, HubTypes
        <4> QED
          BY <2>3, <3>1, <4>1, <4>2
      <3>2. CASE i = Len(channel) + 1
        <4>1. channel'[i].n = published + 1
          BY <2>1, <2>3, <3>2
        <4>2. hpc # "read" => msg.n < published + 1
          BY <1>1, HubTypes DEF Ordered
        <4> QED
          BY <1>1, <1>3, <1>4, <4>1, <4>2
      <3> QED
        BY <2>4, <3>1, <3>2
    <2>7. InOrder(channel')
      <3> SUFFICES ASSUME NEW i \in 1..Len(channel'), NEW j \in 1..Len(channel'), i < j
                   PROVE  channel'[i].n < channel'[j].n
        BY DEF InOrder
      <3>1. i \in 1..Len(channel)
        BY <2>2, <2>3
      <3>2. CASE j \in 1..Len(channel)
        BY <1>1, <2>3, <3>1, <3>2 DEF Ordered, InOrder
      <3>3. CASE j = Len(channel) + 1
        <4>1. channel'[j].n = published + 1 /\ channel'[i].n = channel[i].n
          BY <2>1, <2>3, <3>1, <3>3
        <4>2. channel[i].n <= published /\ channel[i].n \in Nat /\ published \in Nat
          BY <1>1, <1>5, <3>1, HubTypes DEF Ordered
        <4> QED
          BY <4>1, <4>2
      <3> QED
        BY <2>4, <3>2, <3>3
    <2>8. hpc # "read" => msg.n <= published'
      BY <1>1, <1>3, HubTypes DEF Ordered
    <2>9. Ordered'
      BY <1>1, <1>4, <2>6, <2>7, <2>8 DEF Ordered
    <2> QED
      BY <1>2, <2>5, <2>9 DEF HubInv
  <1> QED
    BY Zenon, <1>6, <1>7 DEF Publish

(* The hub takes the oldest message: newer than any sent.                  *)
LEMMA ReadKeeps ==
  ASSUME HubInv, Read
  PROVE  HubInv'
  <1>1. /\ HubTypeOK /\ Registry /\ Ordered /\ LastSent /\ \A c \in Conns : Copied(c)
        /\ hpc = "read" /\ channel # <<>> /\ channel' = Tail(channel)
        /\ \/ hpc' = "lock" /\ msg' = Head(channel)
           \/ UNCHANGED <<hpc, msg>>
        /\ UNCHANGED <<published, left, mu, conns, wpc, tenant, reads, received, sent, since>>
    BY DEF HubInv, Read, connVars
  <1>2. /\ channel \in Seq(Message) /\ Len(channel) \in Nat /\ Len(channel) # 0
        /\ Head(channel) = channel[1] /\ Head(channel) \in Message
        /\ channel' \in Seq(Message) /\ Len(channel') = Len(channel) - 1
        /\ \A i \in 1..Len(channel') : channel'[i] = channel[i + 1] /\ i + 1 \in 1..Len(channel)
    BY <1>1, HubTypes
  <1>3. Registry' /\ LastSent' /\ \A c \in Conns : Copied(c)'
    <2>1. Registry' /\ LastSent'
      BY <1>1 DEF Registry, Listed, LastSent
    <2>2. \A c \in Conns : Copied(c)'
      BY <1>1, CopiedStays
    <2> QED
      BY <2>1, <2>2
  <1>4. HubTypeOK'
    <2>1. Len(channel') <= Buffer
      BY <1>1, <1>2, HubAssumption DEF HubTypeOK
    <2> QED
      BY <1>1, <1>2, <2>1 DEF HubTypeOK
  <1>5. InOrder(channel')
    BY <1>1, <1>2 DEF Ordered, InOrder
  <1>6. 1 \in 1..Len(channel) /\ channel[1].n <= published /\ SentBefore(sent, channel[1].n)
    <2>1. 1 \in 1..Len(channel)
      BY <1>2
    <2> QED
      BY <1>1, <2>1 DEF Ordered
  <1>7. ASSUME NEW i \in 1..Len(channel')
        PROVE  /\ channel'[i].n <= published /\ SentBefore(sent, channel'[i].n)
               /\ channel[1].n < channel'[i].n
    <2>1. channel'[i] = channel[i + 1] /\ i + 1 \in 1..Len(channel) /\ 1 < i + 1
      BY <1>2
    <2>2. InOrder(channel) /\ channel[i + 1].n <= published /\ SentBefore(sent, channel[i + 1].n)
      BY <1>1, <2>1 DEF Ordered
    <2>3. channel[1].n < channel[i + 1].n
      BY Zenon, <1>6, <2>1, <2>2 DEF InOrder
    <2> QED
      BY <2>1, <2>2, <2>3
  <1>8. Ordered'
    BY <1>1, <1>2, <1>5, <1>6, <1>7 DEF Ordered
  <1> QED
    BY <1>3, <1>4, <1>8 DEF HubInv

(* With the mutex, send has the message to write to every connection of    *)
(* its tenant, and all of them had got the ones before.                    *)
LEMMA SendLockKeeps ==
  ASSUME HubInv, SendLock
  PROVE  HubInv'
  <1> DEFINE t == msg.tenant
  <1>1. /\ HubTypeOK /\ Registry /\ Ordered /\ \A c \in Conns : Copied(c)
        /\ hpc = "lock" /\ hpc' = "send" /\ mu' /\ left' = conns[t]
        /\ sent' = [sent EXCEPT ![t] = Append(sent[t], msg)]
        /\ UNCHANGED <<published, channel, msg, conns, wpc, tenant, reads, received, since>>
    BY DEF HubInv, SendLock, connVars
  <1>2. t \in Tenants /\ sent[t] \in Seq(Message) /\ msg \in Message
    BY <1>1, HubTypes
  <1> HIDE DEF t
  <1>3. /\ sent'[t] = Append(sent[t], msg)
        /\ \A u \in Tenants \ {t} : sent'[u] = sent[u]
    BY <1>1, <1>2, HubTypes
  <1>4. /\ Len(sent[t]) \in Nat /\ Len(sent'[t]) = Len(sent[t]) + 1
        /\ sent'[t][Len(sent[t]) + 1] = msg
        /\ \A k \in 1..Len(sent[t]) : sent'[t][k] = sent[t][k]
    BY <1>2, <1>3
  <1>5. HubTypeOK'
    <2>1. sent' \in [Tenants -> Seq(Message)]
      BY <1>1, <1>2, HubTypes
    <2>2. left' \subseteq Conns
      BY <1>1, <1>2, HubTypes
    <2>3. mu' \in BOOLEAN
      BY DEF SendLock
    <2> QED
      BY <1>1, <2>1, <2>2, <2>3 DEF HubTypeOK
  <1>6. Registry' /\ LastSent'
    BY <1>1, <1>4 DEF Registry, Listed, LastSent, t
  <1>7. left = {} /\ \A c \in Conns : c \in left' <=> wpc[c] \in {"open", "remove"} /\ tenant[c] = t
    BY <1>1, <1>2 DEF Registry, Listed
  <1>8. ASSUME NEW c \in Conns PROVE Copied(c)'
    <2>1. Copied(c) /\ tenant[c] \in Tenants /\ since[c] \in Nat /\ Len(received[c]) \in Nat
      BY Zenon, <1>1, HubTypes
    <2>2. CASE tenant[c] # t
      BY <1>1, <1>3, <1>7, <2>1, <2>2 DEF Copied
    <2>3. CASE tenant[c] = t
      <3>1. \A i \in 1..Len(received[c]) : since[c] + i \in 1..Len(sent[t])
        BY <1>4, <2>1, <2>3 DEF Copied
      <3>2. \A i \in 1..Len(received[c]) : received[c][i] = sent'[t][since[c] + i]
        BY Zenon, <1>4, <2>1, <2>3, <3>1 DEF Copied
      <3>3. /\ Len(received[c]) + since[c] <= Len(sent'[t])
            /\ wpc[c] = "open" => c \in left' /\ Len(received[c]) + since[c] + 1 = Len(sent'[t])
        BY <1>4, <1>7, <2>1, <2>3 DEF Copied
      <3> QED
        BY Zenon, <1>1, <2>1, <2>3, <3>2, <3>3 DEF Copied
    <2> QED
      BY <2>2, <2>3
  <1>9. \A u \in Tenants : \A k \in 1..Len(sent'[u]) :
          \/ k \in 1..Len(sent[u]) /\ sent'[u][k] = sent[u][k]
          \/ u = t /\ k = Len(sent[t]) + 1 /\ sent'[u][k] = msg
    <2>1. \A k \in 1..Len(sent'[t]) : k \in 1..Len(sent[t]) \/ k = Len(sent[t]) + 1
      BY <1>4
    <2> QED
      BY <1>3, <1>4, <2>1
  <1>10. \A n \in Nat : SentBefore(sent, n) /\ msg.n < n => SentBefore(sent', n)
    BY <1>9 DEF SentBefore
  <1>11. \A u \in Tenants : InOrder(sent'[u]) /\ \A k \in 1..Len(sent'[u]) : sent'[u][k].tenant = u
    <2>1. SentBefore(sent, msg.n) /\ \A u \in Tenants :
            InOrder(sent[u]) /\ \A k \in 1..Len(sent[u]) : sent[u][k].tenant = u
      BY <1>1 DEF Ordered
    <2>2. ASSUME NEW u \in Tenants PROVE InOrder(sent'[u])
      <3>1. CASE u # t
        BY <1>3, <2>1, <3>1
      <3>2. CASE u = t
        <4> SUFFICES ASSUME NEW i \in 1..Len(sent'[t]), NEW j \in 1..Len(sent'[t]), i < j
                     PROVE  sent'[t][i].n < sent'[t][j].n
          BY <3>2 DEF InOrder
        <4>1. i \in 1..Len(sent[t])
          BY <1>4
        <4>2. CASE j \in 1..Len(sent[t])
          BY <1>2, <1>4, <2>1, <4>1, <4>2 DEF InOrder
        <4>3. CASE j = Len(sent[t]) + 1
          BY Zenon, <1>2, <1>4, <2>1, <4>1, <4>3 DEF SentBefore
        <4> QED
          BY <1>4, <4>2, <4>3
      <3> QED
        BY <3>1, <3>2
    <2>3. \A u \in Tenants : \A k \in 1..Len(sent'[u]) : sent'[u][k].tenant = u
      BY <1>9, <2>1 DEF t
    <2> QED
      BY <2>2, <2>3
  <1>12. Ordered'
    <2>1. /\ msg.n \in Nat /\ published \in Nat /\ msg.n <= published
          /\ \A i \in 1..Len(channel) : msg.n < channel[i].n /\ channel[i].n \in Nat
      BY <1>1, HubTypes DEF Ordered
    <2>2. SentBefore(sent', published + 1)
      <3>1. published + 1 \in Nat /\ msg.n < published + 1
        BY <2>1
      <3>2. SentBefore(sent, published + 1)
        BY <1>1 DEF Ordered
      <3> QED
        BY <1>10, <3>1, <3>2
    <2>3. \A i \in 1..Len(channel) : channel[i].n <= published /\ SentBefore(sent', channel[i].n)
      BY Zenon, <1>1, <1>10, <2>1 DEF Ordered
    <2> QED
      BY Zenon, <1>1, <1>11, <2>1, <2>2, <2>3 DEF Ordered
  <1> QED
    BY Zenon, <1>5, <1>6, <1>8, <1>12 DEF HubInv

(* A connection that is open gets the message in hand, and no other one    *)
(* changes; the mutex is given back when none is left.                     *)
LEMMA WriteKeeps ==
  ASSUME HubInv, SendUnlock \/ \E c \in Conns : Write(c)
  PROVE  HubInv'
  <1>1. /\ HubTypeOK /\ Registry /\ Ordered /\ LastSent /\ \A c \in Conns : Copied(c)
        /\ hpc = "send"
        /\ UNCHANGED <<published, channel, conns, wpc, tenant, reads, sent, since>>
    BY DEF HubInv, SendUnlock, Write, connVars
  <1>2. CASE SendUnlock
    <2>1. /\ left = {} /\ left' = {} /\ mu' = FALSE /\ hpc' = "read" /\ msg' = NoMessage
          /\ UNCHANGED received
      BY <1>2 DEF SendUnlock
    <2>2. NoMessage \in Message
      BY HubAssumption DEF NoMessage, Message
    <2>3. HubTypeOK'
      BY Zenon, <1>1, <2>1, <2>2 DEF HubTypeOK
    <2>4. Registry' /\ LastSent'
      BY Zenon, <1>1, <2>1 DEF Registry, Listed, LastSent
    <2>5. \A c \in Conns : Copied(c)'
      BY Zenon, <1>1, <2>1, CopiedStays
    <2>6. Ordered'
      BY <1>1, <2>1 DEF Ordered
    <2> QED
      BY <2>3, <2>4, <2>5, <2>6 DEF HubInv
  <1>3. ASSUME NEW c \in Conns, Write(c) PROVE HubInv'
    <2>1. /\ c \in left /\ left' = left \ {c} /\ UNCHANGED <<hpc, msg, mu>>
          /\ \/ wpc[c] = "open" /\ received' = [received EXCEPT ![c] = Append(received[c], msg)]
             \/ wpc[c] = "remove" /\ UNCHANGED received
      BY <1>3 DEF Write
    <2>2. msg \in Message /\ received[c] \in Seq(Message) /\ received \in [Conns -> Seq(Message)]
      BY <1>1, HubTypes
    <2>3. \A d \in Conns \ {c} : received'[d] = received[d]
      BY <2>1, <2>2
    <2>4. HubTypeOK'
      <3>1. received' \in [Conns -> Seq(Message)]
        <4>1. Append(received[c], msg) \in Seq(Message)
          BY <2>2
        <4> QED
          BY Zenon, <2>1, <2>2, <4>1
      <3> QED
        BY <1>1, <2>1, <3>1 DEF HubTypeOK
    <2>5. Registry' /\ LastSent'
      BY Zenon, <1>1, <2>1 DEF Registry, Listed, LastSent
    <2>6. Ordered'
      BY Zenon, <1>1, <2>1 DEF Ordered
    <2>7. ASSUME NEW d \in Conns \ {c} PROVE Copied(d)'
      BY <1>1, <2>1, <2>3, CopiedStays
    <2>8. Copied(c)'
      <3>1. CASE wpc[c] = "remove" /\ UNCHANGED received
        BY Zenon, <1>1, <2>1, <3>1 DEF Copied
      <3>2. CASE wpc[c] = "open" /\ received' = [received EXCEPT ![c] = Append(received[c], msg)]
        <4> DEFINE all == sent[tenant[c]]
        <4>1. received'[c] = Append(received[c], msg)
          BY <2>2, <3>2
        <4>2. /\ Len(received[c]) \in Nat /\ Len(received'[c]) = Len(received[c]) + 1
              /\ received'[c][Len(received[c]) + 1] = msg
              /\ \A i \in 1..Len(received[c]) : received'[c][i] = received[c][i]
          BY <2>2, <4>1
        <4>3. tenant[c] = msg.tenant
          BY Zenon, <1>1, <2>1, HubTypes DEF Registry, Listed
        <4>4. /\ since[c] \in Nat /\ Len(all) \in Nat /\ all[Len(all)] = msg
              /\ Len(received[c]) + since[c] + 1 = Len(all)
              /\ \A i \in 1..Len(received[c]) : received[c][i] = all[since[c] + i]
          BY Zenon, <1>1, <2>1, <3>2, <4>3, HubTypes DEF LastSent, Copied
        <4> HIDE DEF all
        <4>5. \A i \in 1..Len(received'[c]) : i \in 1..Len(received[c]) \/ i = Len(received[c]) + 1
          BY <4>2
        <4>6. since[c] + (Len(received[c]) + 1) = Len(all)
          BY <4>2, <4>4
        <4>7. \A i \in 1..Len(received'[c]) : received'[c][i] = all[since[c] + i]
          BY Zenon, <4>2, <4>4, <4>5, <4>6
        <4>8. Len(received'[c]) + since[c] = Len(all)
          BY <4>2, <4>4
        <4>9. /\ Len(received'[c]) + since[c] <= Len(all) /\ c \notin left'
              /\ since'[c] = since[c] /\ wpc'[c] = "open" /\ sent'[tenant'[c]] = all
          BY <1>1, <2>1, <3>2, <4>4, <4>8 DEF all
        <4> QED
          BY Zenon, <4>7, <4>8, <4>9 DEF Copied
      <3> QED
        BY Zenon, <2>1, <3>1, <3>2
    <2> QED
      BY <2>4, <2>5, <2>6, <2>7, <2>8 DEF HubInv
  <1> QED
    BY <1>2, <1>3

(* A connection is added and removed only while no message is being        *)
(* written; one that stalls or closes in between keeps what it has.        *)
LEMMA ConnKeeps ==
  ASSUME HubInv, NEW c \in Conns,
         Accept(c) \/ add(c) \/ Stall(c) \/ Close(c) \/ remove(c)
  PROVE  HubInv'
  <1>1. /\ HubTypeOK /\ Registry /\ Ordered /\ LastSent /\ \A d \in Conns : Copied(d)
        /\ UNCHANGED <<published, channel, hpc, msg, left, mu, received, sent>>
    BY DEF HubInv, Accept, add, Stall, Close, remove
  <1>2. /\ tenant \in [Conns -> Tenants] /\ conns \in [Tenants -> SUBSET Conns]
        /\ since \in [Conns -> Nat]
        /\ wpc \in [Conns -> {"none", "add", "open", "remove", "gone"}]
        /\ reads \in [Conns -> BOOLEAN] /\ tenant[c] \in Tenants /\ msg.tenant \in Tenants
    BY <1>1, HubTypes DEF HubTypeOK
  <1>3. Ordered' /\ LastSent'
    BY Zenon, <1>1 DEF Ordered, LastSent
  <1>4. CASE Accept(c)
    <2>1. /\ wpc[c] = "none" /\ wpc' = [wpc EXCEPT ![c] = "add"] /\ UNCHANGED <<conns, reads, since>>
          /\ \E t \in Tenants : tenant' = [tenant EXCEPT ![c] = t]
      BY Zenon, <1>4 DEF Accept
    <2>2. /\ tenant' \in [Conns -> Tenants]
          /\ wpc' \in [Conns -> {"none", "add", "open", "remove", "gone"}]
          /\ wpc'[c] = "add" /\ tenant'[c] \in Tenants
          /\ \A d \in Conns \ {c} : wpc'[d] = wpc[d] /\ tenant'[d] = tenant[d]
      BY <1>2, <2>1
    <2>3. HubTypeOK'
      BY <1>1, <2>1, <2>2 DEF HubTypeOK
    <2>4. Registry'
      <3>1. ASSUME NEW t \in Tenants PROVE Listed(c, t)'
        BY Zenon, <1>1, <2>1, <2>2 DEF Registry, Listed
      <3>2. ASSUME NEW d \in Conns \ {c}, NEW t \in Tenants PROVE Listed(d, t)'
        <4>1. Listed(d, t)
          BY Zenon, <1>1 DEF Registry
        <4>2. wpc'[d] = wpc[d] /\ tenant'[d] = tenant[d] /\ conns' = conns
          BY Zenon, <2>1, <2>2
        <4> QED
          BY Zenon, <4>1, <4>2 DEF Listed
      <3> QED
        BY Zenon, <1>1, <2>1, <3>1, <3>2 DEF Registry
    <2>5. \A d \in Conns \ {c} : Copied(d)'
      BY Zenon, <1>1, <2>1, <2>2, CopiedStays
    <2>6. Copied(c)'
      <3>1. Len(received[c]) = 0 /\ since[c] = 0
        BY Zenon, <1>1, <2>1 DEF Copied
      <3>2. Len(sent[tenant'[c]]) \in Nat
        BY Zenon, <1>1, <2>2, HubTypes
      <3>3. Len(received[c]) + since[c] <= Len(sent[tenant'[c]]) /\ 1..Len(received[c]) = {}
        BY <3>1, <3>2
      <3> QED
        BY Zenon, <1>1, <2>1, <2>2, <3>1, <3>3 DEF Copied
    <2> QED
      BY <1>3, <2>3, <2>4, <2>5, <2>6 DEF HubInv
  <1>5. CASE add(c)
    <2>1. /\ wpc[c] = "add" /\ ~mu /\ wpc' = [wpc EXCEPT ![c] = "open"]
          /\ conns' = [conns EXCEPT ![tenant[c]] = conns[tenant[c]] \cup {c}]
          /\ since' = [since EXCEPT ![c] = Len(sent[tenant[c]])] /\ UNCHANGED <<tenant, reads>>
      BY <1>5 DEF add
    <2>2. Len(sent[tenant[c]]) \in Nat
      BY <1>1, HubTypes
    <2>3. /\ wpc' \in [Conns -> {"none", "add", "open", "remove", "gone"}]
          /\ conns' \in [Tenants -> SUBSET Conns] /\ since' \in [Conns -> Nat]
          /\ wpc'[c] = "open" /\ since'[c] = Len(sent[tenant[c]])
          /\ \A d \in Conns \ {c} : wpc'[d] = wpc[d] /\ since'[d] = since[d]
      BY <1>2, <2>1, <2>2
    <2>4. \A t \in Tenants : conns'[t] = IF t = tenant[c] THEN conns[t] \cup {c} ELSE conns[t]
      BY Zenon, <1>2, <2>1
    <2>5. HubTypeOK'
      BY <1>1, <2>1, <2>3 DEF HubTypeOK
    <2>6. left = {} /\ left' = {}
      BY Zenon, <1>1, <2>1 DEF Registry
    <2>7. Registry'
      <3>1. ASSUME NEW t \in Tenants PROVE Listed(c, t)'
        <4>1. t # tenant[c] => c \notin conns[t]
          BY <1>1 DEF Registry, Listed
        <4>2. c \in conns'[t] <=> t = tenant[c]
          BY Zenon, <2>4, <4>1
        <4> QED
          BY <2>1, <2>3, <4>2 DEF Listed
      <3>2. ASSUME NEW d \in Conns \ {c}, NEW t \in Tenants PROVE Listed(d, t)'
        <4>1. Listed(d, t) /\ (d \in conns'[t] <=> d \in conns[t])
          BY Zenon, <1>1, <2>4 DEF Registry
        <4> QED
          BY <2>1, <2>3, <4>1 DEF Listed
      <3> QED
        BY Zenon, <1>1, <2>6, <3>1, <3>2 DEF Registry
    <2>8. \A d \in Conns \ {c} : Copied(d)'
      BY Zenon, <1>1, <2>1, <2>3, CopiedStays
    <2>9. Copied(c)'
      <3>1. Len(received[c]) = 0 /\ 1..Len(received[c]) = {}
        <4>1. Len(received[c]) = 0
          BY Zenon, <1>1, <2>1 DEF Copied
        <4> QED
          BY <4>1
      <3>2. Len(received[c]) + since'[c] = Len(sent[tenant[c]])
        <4>1. since'[c] = Len(sent[tenant[c]])
          BY Zenon, <2>3
        <4> QED
          BY <2>2, <3>1, <4>1
      <3>3. Len(received[c]) + since'[c] <= Len(sent[tenant[c]])
        BY <2>2, <3>2
      <3> QED
        BY Zenon, <1>1, <2>1, <2>3, <2>6, <3>1, <3>2, <3>3 DEF Copied
    <2> QED
      BY <1>3, <2>5, <2>7, <2>8, <2>9 DEF HubInv
  <1>6. CASE Stall(c)
    <2>1. UNCHANGED <<conns, wpc, tenant, since>> /\ reads' = [reads EXCEPT ![c] = FALSE]
      BY <1>6 DEF Stall
    <2>2. reads' \in [Conns -> BOOLEAN]
      BY <1>2, <2>1
    <2>3. HubTypeOK'
      BY <1>1, <2>1, <2>2 DEF HubTypeOK
    <2>4. Registry'
      BY Zenon, <1>1, <2>1 DEF Registry, Listed
    <2>5. \A d \in Conns : Copied(d)'
      BY Zenon, <1>1, <2>1, CopiedStays
    <2> QED
      BY <1>3, <2>3, <2>4, <2>5 DEF HubInv
  <1>7. CASE Close(c)
    <2>1. /\ wpc[c] = "open" /\ wpc' = [wpc EXCEPT ![c] = "remove"]
          /\ UNCHANGED <<conns, tenant, since, reads>>
      BY <1>7 DEF Close
    <2>2. /\ wpc' \in [Conns -> {"none", "add", "open", "remove", "gone"}]
          /\ wpc'[c] = "remove" /\ \A d \in Conns \ {c} : wpc'[d] = wpc[d]
      BY <1>2, <2>1
    <2>3. HubTypeOK'
      BY <1>1, <2>1, <2>2 DEF HubTypeOK
    <2>4. Registry'
      <3>1. ASSUME NEW t \in Tenants PROVE Listed(c, t)'
        BY Zenon, <1>1, <2>1, <2>2 DEF Registry, Listed
      <3>2. ASSUME NEW d \in Conns \ {c}, NEW t \in Tenants PROVE Listed(d, t)'
        <4>1. Listed(d, t)
          BY Zenon, <1>1 DEF Registry
        <4>2. wpc'[d] = wpc[d] /\ tenant'[d] = tenant[d] /\ conns' = conns
          BY Zenon, <2>1, <2>2
        <4> QED
          BY Zenon, <4>1, <4>2 DEF Listed
      <3> QED
        BY Zenon, <1>1, <2>1, <3>1, <3>2 DEF Registry
    <2>5. \A d \in Conns \ {c} : Copied(d)'
      BY Zenon, <1>1, <2>1, <2>2, CopiedStays
    <2>6. Copied(c)'
      BY Zenon, <1>1, <2>1, <2>2 DEF Copied
    <2> QED
      BY <1>3, <2>3, <2>4, <2>5, <2>6 DEF HubInv
  <1>8. CASE remove(c)
    <2>1. /\ wpc[c] = "remove" /\ ~mu /\ wpc' = [wpc EXCEPT ![c] = "gone"]
          /\ conns' = [conns EXCEPT ![tenant[c]] = conns[tenant[c]] \ {c}]
          /\ UNCHANGED <<tenant, reads, since>>
      BY <1>8 DEF remove
    <2>2. /\ wpc' \in [Conns -> {"none", "add", "open", "remove", "gone"}]
          /\ conns' \in [Tenants -> SUBSET Conns]
          /\ wpc'[c] = "gone" /\ \A d \in Conns \ {c} : wpc'[d] = wpc[d]
      BY <1>2, <2>1
    <2>3. \A t \in Tenants : conns'[t] = IF t = tenant[c] THEN conns[t] \ {c} ELSE conns[t]
      BY Zenon, <1>2, <2>1
    <2>4. HubTypeOK'
      BY <1>1, <2>1, <2>2 DEF HubTypeOK
    <2>5. left = {} /\ left' = {}
      BY Zenon, <1>1, <2>1 DEF Registry
    <2>6. Registry'
      <3>1. ASSUME NEW t \in Tenants PROVE Listed(c, t)'
        <4>1. t # tenant[c] => c \notin conns[t]
          BY <1>1 DEF Registry, Listed
        <4>2. c \notin conns'[t]
          BY Zenon, <2>3, <4>1
        <4> QED
          BY Zenon, <2>2, <4>2 DEF Listed
      <3>2. ASSUME NEW d \in Conns \ {c}, NEW t \in Tenants PROVE Listed(d, t)'
        <4>1. Listed(d, t) /\ (d \in conns'[t] <=> d \in conns[t])
          BY Zenon, <1>1, <2>3 DEF Registry
        <4> QED
          BY <2>1, <2>2, <4>1 DEF Listed
      <3> QED
        BY Zenon, <1>1, <2>5, <3>1, <3>2 DEF Registry
    <2>7. \A d \in Conns \ {c} : Copied(d)'
      BY Zenon, <1>1, <2>1, <2>2, CopiedStays
    <2>8. Copied(c)'
      BY Zenon, <1>1, <2>1, <2>2 DEF Copied
    <2> QED
      BY <1>3, <2>4, <2>6, <2>7, <2>8 DEF HubInv
  <1> QED
    BY Zenon, <1>4, <1>5, <1>6, <1>7, <1>8

(* HubInv holds throughout.                                                *)
THEOREM HubInvariant == HubSpec => []HubInv
  <1>1. HubInit => HubInv
    <2> SUFFICES ASSUME HubInit PROVE HubInv
      OBVIOUS
    <2>1. NoMessage \in Message /\ NoMessage.tenant \in Tenants
      BY HubAssumption DEF NoMessage, Message
    <2>2. /\ published = 0 /\ channel = <<>> /\ hpc = "read" /\ msg = NoMessage /\ left = {}
          /\ mu = FALSE /\ conns = [t \in Tenants |-> {}] /\ wpc = [c \in Conns |-> "none"]
          /\ tenant = [c \in Conns |-> NoMessage.tenant] /\ reads = [c \in Conns |-> TRUE]
          /\ received = [c \in Conns |-> <<>>] /\ sent = [t \in Tenants |-> <<>>]
          /\ since = [c \in Conns |-> 0]
      BY DEF HubInit
    <2>3. HubTypeOK
      <3>1. <<>> \in Seq(Message) /\ Len(<<>>) = 0
        OBVIOUS
      <3>2. published \in 0..MaxMessages /\ Len(channel) <= Buffer
        BY <2>2, <3>1, HubAssumption
      <3> QED
        BY Zenon, <2>1, <2>2, <3>1, <3>2 DEF HubTypeOK
    <2>4. Registry /\ LastSent
      BY <2>1, <2>2 DEF Registry, Listed, LastSent
    <2>5. ASSUME NEW c \in Conns PROVE Copied(c)
      <3>1. /\ received[c] = <<>> /\ since[c] = 0 /\ sent[tenant[c]] = <<>> /\ wpc[c] = "none"
        BY <2>1, <2>2
      <3>2. Len(<<>>) = 0 /\ 0 + 0 <= 0 /\ 1..0 = {}
        OBVIOUS
      <3> QED
        BY <3>1, <3>2 DEF Copied
    <2>6. Ordered
      BY <2>2 DEF Ordered, InOrder, SentBefore
    <2> QED
      BY Zenon, <2>3, <2>4, <2>5, <2>6 DEF HubInv
  <1>2. HubInv /\ [HubNext]_hubVars => HubInv'
    <2> SUFFICES ASSUME HubInv, [HubNext]_hubVars PROVE HubInv'
      OBVIOUS
    <2>1. CASE UNCHANGED hubVars
      <3>1. UNCHANGED <<published, channel, hpc, msg, left, mu, conns, wpc, tenant, reads,
                        received, sent, since>>
        BY <2>1 DEF hubVars, connVars
      <3>2. HubTypeOK'
        BY <3>1 DEF HubInv, HubTypeOK
      <3>3. Registry' /\ LastSent'
        BY Zenon, <3>1 DEF HubInv, Registry, Listed, LastSent
      <3>4. \A c \in Conns : Copied(c)'
        BY Zenon, <3>1, CopiedStays DEF HubInv
      <3>5. Ordered'
        BY Zenon, <3>1 DEF HubInv, Ordered
      <3> QED
        BY <3>2, <3>3, <3>4, <3>5 DEF HubInv
    <2> QED
      BY <2>1, PublishKeeps, ReadKeeps, SendLockKeeps, WriteKeeps, ConnKeeps DEF HubNext, send
  <1> QED
    BY <1>1, <1>2, PTL DEF HubSpec

(* For any number of connections, tenants and events, a connection gets    *)
(* what the hub sends to its tenant from its registration on, all of it    *)
(* while it is open, in the order of publication and nothing twice.        *)
THEOREM EventsInOrder == HubSpec => []EveryEventOnce
  <1>1. HubInv => EveryEventOnce
    <2> SUFFICES ASSUME HubInv, NEW c \in Conns
                 PROVE  LET mine == received[c]
                            due == Len(sent[tenant[c]]) - since[c]
                        IN /\ Len(mine) <= due
                           /\ wpc[c] = "open" /\ c \notin left => Len(mine) = due
                           /\ \A i \in 1..Len(mine) :
                                /\ mine[i] = sent[tenant[c]][since[c] + i]
                                /\ mine[i].tenant = tenant[c]
                                /\ \A j \in 1..Len(mine) : i < j => mine[i].n < mine[j].n
      BY DEF EveryEventOnce
    <2>1. /\ Copied(c) /\ Ordered /\ tenant[c] \in Tenants /\ since[c] \in Nat
          /\ Len(received[c]) \in Nat /\ Len(sent[tenant[c]]) \in Nat
      BY HubTypes DEF HubInv
    <2>2. \A i \in 1..Len(received[c]) :
            received[c][i] = sent[tenant[c]][since[c] + i] /\ since[c] + i \in 1..Len(sent[tenant[c]])
      BY <2>1 DEF Copied
    <2>3. /\ InOrder(sent[tenant[c]])
          /\ \A k \in 1..Len(sent[tenant[c]]) : sent[tenant[c]][k].tenant = tenant[c]
      BY <2>1 DEF Ordered
    <2>4. \A i, j \in 1..Len(received[c]) : i < j => received[c][i].n < received[c][j].n
      <3> SUFFICES ASSUME NEW i \in 1..Len(received[c]), NEW j \in 1..Len(received[c]), i < j
                   PROVE  received[c][i].n < received[c][j].n
        OBVIOUS
      <3>1. since[c] + i < since[c] + j
        BY <2>1
      <3> QED
        BY Zenon, <2>2, <2>3, <3>1 DEF InOrder
    <2>5. \A i \in 1..Len(received[c]) : received[c][i].tenant = tenant[c]
      BY <2>2, <2>3
    <2>6. /\ Len(received[c]) <= Len(sent[tenant[c]]) - since[c]
          /\ wpc[c] = "open" /\ c \notin left =>
               Len(received[c]) = Len(sent[tenant[c]]) - since[c]
      BY <2>1 DEF Copied
    <2> QED
      BY Zenon, <2>2, <2>4, <2>5, <2>6
  <1> QED
    BY <1>1, HubInvariant, PTL
=============================================================================
