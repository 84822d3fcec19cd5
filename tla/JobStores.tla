------------------------------ MODULE JobStores ------------------------------
(***************************************************************************)
(* The state the control plane and the workers share: the Redis stream     *)
(* with its consumer group, the checkpoint hash, the retry counters, the   *)
(* dead-letter stream and the pub/sub events, and the Postgres tables of   *)
(* job keys, outputs, purge receipts, ledger rows, acceptances and policy. *)
(* Every operator below is one atomic call on one of these stores: a       *)
(* statement, a transaction, a MULTI or a Lua script.                      *)
(***************************************************************************)
EXTENDS Integers, FiniteSets

CONSTANTS
  Jobs,          \* job identifiers
  MaskJobs,      \* the jobs with job_type "mask"; they ignore the policy
  UnknownType,   \* the jobs whose job_type no runner is registered for
  NoTenant,      \* the jobs whose entry has no tenant_id field
  NoInput,       \* the jobs whose entry has no input field
  Times,         \* readings of a worker's clock
  None,          \* no row, no time, no result
  MaxEntries,    \* bound: entries ever added to the stream
  MaxPolicy      \* bound: versions of the tenant's policy

ASSUME StoresAssumption ==
  /\ MaskJobs \subseteq Jobs
  /\ UnknownType \subseteq Jobs
  /\ NoTenant \subseteq Jobs
  /\ NoInput \subseteq Jobs
  /\ None \notin Times
  /\ MaxEntries \in Nat
  /\ MaxPolicy \in Nat

VARIABLES
  stream,        \* entries of coldharbour:jobs that are not deleted
  lastId,        \* id of the newest entry
  cursor,        \* last id delivered to worker-group, NoGroup before it exists
  pending,       \* entries delivered and not acknowledged
  idle,          \* pending entries idle for at least WorkerConfig.Idle
  mem,           \* job:<id>:mem, the key its partial is sealed with, 0 if absent
  retry,         \* retry:<id>, 0 if absent
  dlq,           \* number of dead-letter entries of the job
  events,        \* statuses published for the job
  keyRow,        \* job_keys: generation of the row's key, 0 if there is no row
  keyGen,        \* keys ever generated for the job (they are all different)
  destroyedAt,   \* job_keys.destroyed_at
  outputs,       \* the job's row in outputs and jobs
  receipts,      \* purge_receipts.purged_at
  logged,        \* number of purge_receipt rows of the job in the ledger
  accepts,       \* the jobs with a row in job_accepts
  policy         \* version of the tenant's policy, 0 if it has none

streamVars == <<stream, lastId, cursor, pending, idle>>
keyVars == <<keyRow, keyGen, destroyedAt>>
purgeVars == <<receipts, logged>>
deadVars == <<retry, dlq>>
storeVars == <<streamVars, mem, deadVars, events, keyVars, outputs, purgeVars,
               accepts, policy>>

NoGroup == -1

Entry == [id : Nat, job : Jobs]

(* A terminal result: the final state, the body and why the job was        *)
(* buried. Bodies a runner can produce differ in the policy version they   *)
(* carry, 0 when no policy was applied; the body of a buried job is only   *)
(* its reason.                                                             *)
Reasons == {"unknown_job_type", "input_is_not_sealed", "input_key_missing",
            "runner_failed", "missing_tenant"}
Results == [state : {"COMPLETED", "FAILED"}, body : 0..MaxPolicy,
            why : Reasons \cup {"ran"}]
Completed(b) == [state |-> "COMPLETED", body |-> b, why |-> "ran"]
Failed(b) == [state |-> "FAILED", body |-> b, why |-> "ran"]
Buried(reason) == [state |-> "FAILED", body |-> 0, why |-> reason]

ASSUME NoneAssumption == None \notin Results

StoresInit ==
  /\ stream = {} /\ lastId = 0 /\ pending = {} /\ idle = {}
  /\ mem = [j \in Jobs |-> 0]
  /\ retry = [j \in Jobs |-> 0]
  /\ dlq = [j \in Jobs |-> 0]
  /\ events = [j \in Jobs |-> {}]
  /\ keyRow = [j \in Jobs |-> 0]
  /\ keyGen = [j \in Jobs |-> 0]
  /\ destroyedAt = [j \in Jobs |-> None]
  /\ outputs = [j \in Jobs |-> None]
  /\ receipts = [j \in Jobs |-> None]
  /\ logged = [j \in Jobs |-> 0]
  /\ accepts = {}
  /\ policy = 0

StoresTypeOK ==
  /\ stream \subseteq Entry
  /\ lastId \in Nat
  /\ cursor \in Int
  /\ pending \subseteq stream
  /\ idle \subseteq pending
  /\ mem \in [Jobs -> Nat]
  /\ retry \in [Jobs -> Nat]
  /\ dlq \in [Jobs -> Nat]
  /\ events \in [Jobs -> SUBSET {"RUNNING", "COMPLETED", "FAILED"}]
  /\ keyRow \in [Jobs -> Nat]
  /\ keyGen \in [Jobs -> Nat]
  /\ destroyedAt \in [Jobs -> Times \cup {None}]
  /\ outputs \in [Jobs -> Results \cup {None}]
  /\ receipts \in [Jobs -> Times \cup {None}]
  /\ logged \in [Jobs -> Nat]
  /\ accepts \subseteq Jobs
  /\ policy \in 0..MaxPolicy

-----------------------------------------------------------------------------
(* The stream and its consumer group.                                      *)

enqueue(j) ==
  /\ lastId < MaxEntries
  /\ lastId' = lastId + 1
  /\ stream' = stream \cup {[id |-> lastId + 1, job |-> j]}
  /\ UNCHANGED <<cursor, pending, idle>>

(* XGROUP CREATE at "$": only entries added later are delivered. BUSYGROUP *)
(* leaves an existing group as it is.                                      *)
ensureGroup ==
  /\ cursor' = IF cursor = NoGroup THEN lastId ELSE cursor
  /\ UNCHANGED <<stream, lastId, pending, idle>>

Undelivered == {e \in stream : e.id > cursor}

XReadGroup ==
  /\ pending' = pending \cup Undelivered
  /\ cursor' = IF Undelivered = {} THEN cursor ELSE lastId
  /\ UNCHANGED <<stream, lastId, idle>>

(* Claiming an entry resets its idle time.                                 *)
XAutoClaim ==
  /\ idle' = {}
  /\ UNCHANGED <<stream, lastId, cursor, pending>>

(* XACK and XDEL in one MULTI.                                             *)
finish(e) ==
  /\ stream' = stream \ {e}
  /\ pending' = pending \ {e}
  /\ idle' = idle \ {e}
  /\ UNCHANGED <<lastId, cursor>>

(* The settle script: count the attempt and requeue the entry's fields, or *)
(* copy them without the input to the dead-letter stream. n is the number  *)
(* of the attempt.                                                         *)
settle(e, force) ==
  LET j == e.job
      n == IF force THEN 3 ELSE IF retry[j] >= 3 THEN retry[j] ELSE retry[j] + 1
  IN  IF n < 3
      THEN /\ lastId < MaxEntries
           /\ retry' = [retry EXCEPT ![j] = n]
           /\ lastId' = lastId + 1
           /\ stream' = (stream \cup {[id |-> lastId + 1, job |-> j]}) \ {e}
           /\ pending' = pending \ {e}
           /\ idle' = idle \ {e}
           /\ UNCHANGED <<cursor, dlq>>
      ELSE /\ finish(e)
           /\ retry' = [retry EXCEPT ![j] = 0]
           /\ dlq' = [dlq EXCEPT ![j] = @ + 1]

-----------------------------------------------------------------------------
(* job_keys.                                                               *)

Live(j) == keyRow[j] > 0 /\ destroyedAt[j] = None
Destroyed(j) == keyRow[j] > 0 /\ destroyedAt[j] # None

(* Mutant of Ensure: ON CONFLICT DO UPDATE.                                *)
EnsureFreshKey(j) ==
  /\ keyRow' = [keyRow EXCEPT ![j] = keyGen[j] + 1]
  /\ keyGen' = [keyGen EXCEPT ![j] = @ + 1]
  /\ UNCHANGED destroyedAt

(* Ensure adds a row with a fresh key unless there is a row, destroyed or  *)
(* not; the key it then reads is keyRow'[j].                               *)
Ensure(j) ==
  /\ keyRow' = [keyRow EXCEPT ![j] = IF @ = 0 THEN keyGen[j] + 1 ELSE @]
  /\ keyGen' = [keyGen EXCEPT ![j] = IF keyRow[j] = 0 THEN @ + 1 ELSE @]
  /\ UNCHANGED destroyedAt

(* Destroy erases the key material once; the first destroyed_at stays.     *)
Destroy(j, t) ==
  /\ destroyedAt' = [destroyedAt EXCEPT ![j] = IF Live(j) THEN t ELSE @]
  /\ UNCHANGED <<keyRow, keyGen>>

DeleteKeyRow(j) ==
  /\ keyRow' = [keyRow EXCEPT ![j] = 0]
  /\ destroyedAt' = [destroyedAt EXCEPT ![j] = None]
  /\ UNCHANGED keyGen

-----------------------------------------------------------------------------
(* outputs and jobs: the first terminal result stays, an equal one is      *)
(* accepted, a different one is a conflict.                                *)

acceptExisting(j, r) == outputs[j] = r

(* Mutant of Record: the last result wins.                                 *)
RecordLast(j, r) == outputs' = [outputs EXCEPT ![j] = r]

Record(j, r) ==
  /\ outputs[j] = None \/ acceptExisting(j, r)
  /\ outputs' = [outputs EXCEPT ![j] = IF @ = None THEN r ELSE @]

RecordConflict(j, r) == outputs[j] # None /\ ~acceptExisting(j, r)

(* Mutant of InsertReceipt: the ledger row does not depend on the insert.  *)
InsertReceiptLogsAlways(j, t) ==
  /\ receipts' = [receipts EXCEPT ![j] = IF @ = None THEN t ELSE @]
  /\ logged' = [logged EXCEPT ![j] = @ + 1]

(* purge_receipts: INSERT ... ON CONFLICT DO NOTHING, and one ledger row   *)
(* in the same transaction when the receipt is new.                        *)
InsertReceipt(j, t) ==
  /\ receipts' = [receipts EXCEPT ![j] = IF @ = None THEN t ELSE @]
  /\ logged' = [logged EXCEPT ![j] = IF receipts[j] = None THEN @ + 1 ELSE @]

Publish(j, status) == events' = [events EXCEPT ![j] = @ \cup {status}]

(* PUT /v1/policy. A policy is replaced, never removed.                    *)
PutPolicy ==
  /\ policy < MaxPolicy
  /\ policy' = policy + 1
  /\ UNCHANGED <<streamVars, mem, deadVars, events, keyVars, outputs, purgeVars,
                 accepts>>
=============================================================================
