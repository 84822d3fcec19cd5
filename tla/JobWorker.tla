------------------------------ MODULE JobWorker ------------------------------
(***************************************************************************)
(* The worker process: RunGroup's loop over the stream, dispatch, handle,  *)
(* the purge and the dead letters. A step is one call on a store together  *)
(* with the local computation up to the next call, so any number of        *)
(* workers interleave between two calls, a second worker can be handed an  *)
(* entry the first is still working on, and a process can end anywhere.    *)
(* Every error that handle returns ends the process (log.Fatalf in main),  *)
(* which is what Crash does: a call that fails, with or without having     *)
(* been applied, is a Crash before or after its step.                      *)
(***************************************************************************)
EXTENDS JobStores

CONSTANTS
  Workers,       \* consumer names
  FailingJobs,   \* the jobs Hooks.Fail is true of ({} in cmd/worker)
  StealLive,     \* TRUE if an entry can become idle in a live worker's hands
  LoseReplies,   \* TRUE if a reply of Redis can be lost and the worker go on
  MaxCrashes     \* bound: processes that end for no reason of their own, and
                 \* replies that are lost

ASSUME WorkerAssumption ==
  /\ FailingJobs \subseteq Jobs
  /\ StealLive \in BOOLEAN
  /\ LoseReplies \in BOOLEAN
  /\ MaxCrashes \in Nat

VARIABLES
  pc,            \* the next call of the worker
  phase,         \* in "loop": whether XAutoClaim or XReadGroup comes next
  todo,          \* messages fetched and not yet dispatched
  cur,           \* the message in dispatch, None in "loop"
  held,          \* key of the loaded checkpoint or of the one to save, 0 if none
  result,        \* the terminal result being committed, None if there is none
  stamp,         \* purgedAt
  crashes

workerVars == <<pc, phase, todo, cur, held, result, stamp, crashes>>

PCs == {"down", "loop", "load", "loadKey", "open", "run", "saveKey", "saveHash",
        "running", "peek", "record", "getReceipt", "insertReceipt", "destroy",
        "drop", "publish", "settle", "finish"}

WorkerInit ==
  /\ pc = [w \in Workers |-> "down"]
  /\ phase = [w \in Workers |-> "claim"]
  /\ todo = [w \in Workers |-> {}]
  /\ cur = [w \in Workers |-> None]
  /\ held = [w \in Workers |-> 0]
  /\ result = [w \in Workers |-> None]
  /\ stamp = [w \in Workers |-> None]
  /\ crashes = 0

WorkerTypeOK ==
  /\ pc \in [Workers -> PCs]
  /\ phase \in [Workers -> {"claim", "read"}]
  /\ todo \in [Workers -> SUBSET Entry]
  /\ cur \in [Workers -> Entry \cup {None}]
  /\ held \in [Workers -> Nat]
  /\ result \in [Workers -> Results \cup {None}]
  /\ stamp \in [Workers -> Times \cup {None}]
  /\ crashes \in Nat

Job(w) == cur[w].job

Goto(w, label) == pc' = [pc EXCEPT ![w] = label]

(* The call moves the worker from one label to another and, of the worker, *)
(* changes nothing else.                                                   *)
Step(w, from, to) ==
  /\ pc[w] = from
  /\ Goto(w, to)
  /\ UNCHANGED <<phase, todo, cur, held, result, stamp, crashes>>

(* handle has a result to commit.                                          *)
Conclude(w, r, label) ==
  /\ result' = [result EXCEPT ![w] = r]
  /\ Goto(w, label)
  /\ UNCHANGED <<phase, todo, cur, stamp, crashes>>

(* Mutant of Bury: the dead letter is written without a commit.            *)
BuryWithoutCommit(w, reason) == Conclude(w, Buried(reason), "settle")

Bury(w, reason) == Conclude(w, Buried(reason), "record")

(* dispatch returned nil: the next message of the batch is up.             *)
Return(w) ==
  /\ pc' = [pc EXCEPT ![w] = "loop"]
  /\ cur' = [cur EXCEPT ![w] = None]
  /\ held' = [held EXCEPT ![w] = 0]
  /\ result' = [result EXCEPT ![w] = None]
  /\ stamp' = [stamp EXCEPT ![w] = None]
  /\ UNCHANGED <<phase, todo, crashes>>

(* RunGroup returned an error and the process ends with its batch.         *)
Exit(w) ==
  /\ pc' = [pc EXCEPT ![w] = "down"]
  /\ phase' = [phase EXCEPT ![w] = "claim"]
  /\ todo' = [todo EXCEPT ![w] = {}]
  /\ cur' = [cur EXCEPT ![w] = None]
  /\ held' = [held EXCEPT ![w] = 0]
  /\ result' = [result EXCEPT ![w] = None]
  /\ stamp' = [stamp EXCEPT ![w] = None]

-----------------------------------------------------------------------------
(* The process and its loop.                                               *)

Start(w) ==
  /\ Step(w, "down", "loop")
  /\ ensureGroup
  /\ UNCHANGED <<mem, deadVars, events, keyVars, outputs, purgeVars, accepts, policy>>

Crash(w) ==
  /\ pc[w] # "down"
  /\ crashes < MaxCrashes
  /\ crashes' = crashes + 1
  /\ Exit(w)
  /\ UNCHANGED storeVars

(* The batch is done and the loop makes its next call, which hands it msgs. *)
Fetch(w, from, to, msgs) ==
  /\ pc[w] = "loop" /\ phase[w] = from /\ todo[w] = {}
  /\ phase' = [phase EXCEPT ![w] = to]
  /\ todo' = [todo EXCEPT ![w] = msgs]
  /\ UNCHANGED <<pc, cur, held, result, stamp>>
  /\ UNCHANGED <<mem, deadVars, events, keyVars, outputs, purgeVars, accepts, policy>>

(* Mutant of Claim: the claimed messages are not dispatched.               *)
ClaimForgets(w) ==
  Fetch(w, "claim", "read", {}) /\ XAutoClaim /\ UNCHANGED crashes

Claim(w) == Fetch(w, "claim", "read", idle) /\ XAutoClaim /\ UNCHANGED crashes

Read(w) == Fetch(w, "read", "claim", Undelivered) /\ XReadGroup /\ UNCHANGED crashes

(* A call was applied, its reply was lost, and the worker does not end:    *)
(* the client library sends the call again, or a read has timed out and    *)
(* the loop goes on. The calls it matters for are the two that hand out    *)
(* messages, and the settle script (SettleAgain); the others have the same *)
(* effect twice as once.                                                   *)
Lose ==
  /\ LoseReplies /\ crashes < MaxCrashes
  /\ crashes' = crashes + 1

FetchLost(w) ==
  /\ Lose
  /\ \/ Fetch(w, "claim", "read", {}) /\ XAutoClaim
     \/ Fetch(w, "read", "claim", {}) /\ XReadGroup

(* WorkerConfig.Idle passes. Unless StealLive, work on a message takes less *)
(* than that, so only a message no live process has becomes idle.          *)
Holds(w, e) == e \in todo[w] \/ cur[w] = e

BecomeIdle(e) ==
  /\ e \in pending \ idle
  /\ StealLive \/ \A w \in Workers : ~Holds(w, e)
  /\ idle' = idle \cup {e}
  /\ UNCHANGED <<stream, lastId, cursor, pending>>
  /\ UNCHANGED <<mem, deadVars, events, keyVars, outputs, purgeVars, accepts, policy>>
  /\ UNCHANGED workerVars

(* dispatch takes the messages in the order of their ids.                  *)
Take(w, e) ==
  /\ pc[w] = "loop"
  /\ e \in todo[w] /\ \A f \in todo[w] : e.id <= f.id
  /\ todo' = [todo EXCEPT ![w] = @ \ {e}]

DispatchNoInput(w, e) ==
  /\ Take(w, e) /\ e.job \in NoInput
  /\ finish(e)
  /\ UNCHANGED <<pc, phase, cur, held, result, stamp, crashes>>
  /\ UNCHANGED <<mem, deadVars, events, keyVars, outputs, purgeVars, accepts, policy>>

(* Mutant of DispatchNoTenant: the key is kept.                            *)
DispatchNoTenantKeepsKey(w, e) ==
  /\ Take(w, e) /\ e.job \in NoTenant \ NoInput
  /\ cur' = [cur EXCEPT ![w] = e]
  /\ result' = [result EXCEPT ![w] = Buried("missing_tenant")]
  /\ Goto(w, "settle")
  /\ UNCHANGED <<phase, held, stamp, crashes>>
  /\ UNCHANGED storeVars

(* A missing tenant: the key is destroyed, nothing is journaled and no     *)
(* receipt is written, and the entry is dead-lettered.                     *)
DispatchNoTenant(w, e) ==
  /\ Take(w, e) /\ e.job \in NoTenant \ NoInput
  /\ \E t \in Times : Destroy(e.job, t)
  /\ cur' = [cur EXCEPT ![w] = e]
  /\ result' = [result EXCEPT ![w] = Buried("missing_tenant")]
  /\ Goto(w, "settle")
  /\ UNCHANGED <<phase, held, stamp, crashes>>
  /\ UNCHANGED <<streamVars, mem, deadVars, events, outputs, purgeVars, accepts, policy>>

(* Mutant of Dispatch: the entry of a journaled job is only acknowledged.  *)
DispatchAcksJournaled(w, e) ==
  /\ Take(w, e) /\ e.job \notin NoTenant \cup NoInput
  /\ cur' = [cur EXCEPT ![w] = e]
  /\ Goto(w, IF outputs[e.job] # None THEN "finish" ELSE "load")
  /\ UNCHANGED <<phase, held, result, stamp, crashes>>
  /\ UNCHANGED storeVars

(* handle first asks the journal: a journaled job is only purged.          *)
Dispatch(w, e) ==
  /\ Take(w, e) /\ e.job \notin NoTenant \cup NoInput
  /\ cur' = [cur EXCEPT ![w] = e]
  /\ Goto(w, IF outputs[e.job] # None THEN "getReceipt" ELSE "load")
  /\ UNCHANGED <<phase, held, result, stamp, crashes>>
  /\ UNCHANGED storeVars

-----------------------------------------------------------------------------
(* handle, up to a result.                                                 *)

(* The checkpoint is loaded; the registry lookup comes before the input.   *)
Lookup(w, h) ==
  /\ held' = [held EXCEPT ![w] = h]
  /\ IF Job(w) \in UnknownType
     THEN Bury(w, "unknown_job_type")
     ELSE Goto(w, "open") /\ UNCHANGED <<phase, todo, cur, result, stamp, crashes>>

LoadCheckpoint(w) ==
  /\ pc[w] = "load"
  /\ IF mem[Job(w)] = 0
     THEN Lookup(w, 0)
     ELSE /\ held' = [held EXCEPT ![w] = mem[Job(w)]]
          /\ Goto(w, "loadKey")
          /\ UNCHANGED <<phase, todo, cur, result, stamp, crashes>>
  /\ UNCHANGED storeVars

(* hash.load asks for the key with Ensure, which makes a new one when the  *)
(* row is gone. A destroyed key, or one the partial is not sealed with, is *)
(* an error.                                                               *)
OpenCheckpoint(w) ==
  /\ pc[w] = "loadKey"
  /\ Ensure(Job(w))
  /\ IF destroyedAt[Job(w)] = None /\ keyRow'[Job(w)] = held[w]
     THEN Lookup(w, held[w])
     ELSE Exit(w) /\ UNCHANGED crashes
  /\ UNCHANGED <<streamVars, mem, deadVars, events, outputs, purgeVars, accepts, policy>>

(* openJobInput. The input is sealed with the job's first key.             *)
OpenInput(w) ==
  /\ pc[w] = "open"
  /\ \/ /\ Destroyed(Job(w))
        /\ Exit(w) /\ UNCHANGED crashes
     \/ /\ keyRow[Job(w)] = 0
        /\ Bury(w, "input_key_missing") /\ UNCHANGED held
     \/ /\ Live(Job(w)) /\ keyRow[Job(w)] # 1
        /\ Bury(w, "input_is_not_sealed") /\ UNCHANGED held
     \/ /\ Live(Job(w)) /\ keyRow[Job(w)] = 1
        /\ Step(w, "open", "run")
  /\ UNCHANGED storeVars

(* The runner returned a body; a job the Fail hook names has failed.       *)
Ran(w, b) ==
  IF Job(w) \in FailingJobs
  THEN Conclude(w, Failed(b), "peek")
  ELSE Conclude(w, Completed(b), "record")

(* jr.Run: redact reads the policy and, if there is one, applies it in one *)
(* go; redact without a policy and mask resume from the checkpoint or save *)
(* one first.                                                              *)
PolicyOf(j) == IF j \in MaskJobs THEN 0 ELSE policy

Run(w) ==
  /\ pc[w] = "run"
  /\ IF PolicyOf(Job(w)) = 0 /\ held[w] = 0
     THEN Step(w, "run", "saveKey")
     ELSE Ran(w, PolicyOf(Job(w))) /\ UNCHANGED held
  /\ UNCHANGED storeVars

(* An input the runner rejects, or an error of the policy query: neither   *)
(* is an infraError, so the job is buried.                                 *)
RunFails(w) ==
  /\ pc[w] = "run"
  /\ Job(w) \in MaskJobs => held[w] = 0
  /\ Bury(w, "runner_failed") /\ UNCHANGED held
  /\ UNCHANGED storeVars

(* sealPartial asks for the key before saveStep1 writes the hash.          *)
SealPartial(w) ==
  /\ pc[w] = "saveKey"
  /\ Ensure(Job(w))
  /\ IF destroyedAt[Job(w)] # None
     THEN Exit(w) /\ UNCHANGED crashes
     ELSE /\ held' = [held EXCEPT ![w] = keyRow'[Job(w)]]
          /\ Goto(w, "saveHash")
          /\ UNCHANGED <<phase, todo, cur, result, stamp, crashes>>
  /\ UNCHANGED <<streamVars, mem, deadVars, events, outputs, purgeVars, accepts, policy>>

SaveStep1(w) ==
  /\ Step(w, "saveHash", "running")
  /\ mem' = [mem EXCEPT ![Job(w)] = held[w]]
  /\ UNCHANGED <<streamVars, deadVars, events, keyVars, outputs, purgeVars, accepts, policy>>

PublishRunning(w) ==
  /\ pc[w] = "running"
  /\ Publish(Job(w), "RUNNING")
  /\ Ran(w, 0) /\ UNCHANGED held
  /\ UNCHANGED <<streamVars, mem, deadVars, keyVars, outputs, purgeVars, accepts, policy>>

-----------------------------------------------------------------------------
(* commitJob: the journal, then purge.run.                                 *)

(* Mutant of Peek: off by one, the third failure is not journaled.         *)
PeekLate(w) ==
  /\ Step(w, "peek", IF retry[Job(w)] >= 3 THEN "record" ELSE "settle")
  /\ UNCHANGED storeVars

(* deadLetters.fail: only the third failure is journaled.                  *)
Peek(w) ==
  /\ Step(w, "peek", IF retry[Job(w)] >= 2 THEN "record" ELSE "settle")
  /\ UNCHANGED storeVars

RecordResult(w) ==
  /\ pc[w] = "record"
  /\ \/ /\ Record(Job(w), result[w])
        /\ Step(w, "record", "getReceipt")
     \/ /\ RecordConflict(Job(w), result[w])
        /\ Exit(w)
        /\ UNCHANGED <<outputs, crashes>>
  /\ UNCHANGED <<streamVars, mem, deadVars, events, keyVars, purgeVars, accepts, policy>>

(* The receipt's time is the stored one or, before there is a receipt, the *)
(* worker's clock.                                                         *)
GetReceipt(w) ==
  /\ pc[w] = "getReceipt"
  /\ IF receipts[Job(w)] # None
     THEN stamp' = [stamp EXCEPT ![w] = receipts[Job(w)]] /\ Goto(w, "destroy")
     ELSE \E t \in Times : stamp' = [stamp EXCEPT ![w] = t] /\ Goto(w, "insertReceipt")
  /\ UNCHANGED <<phase, todo, cur, held, result, crashes>>
  /\ UNCHANGED storeVars

(* Mutant of WriteReceipt: the worker goes on with its own time.           *)
WriteReceiptOwnTime(w) ==
  /\ Step(w, "insertReceipt", "destroy")
  /\ InsertReceipt(Job(w), stamp[w])
  /\ UNCHANGED <<streamVars, mem, deadVars, events, keyVars, outputs, accepts, policy>>

(* A receipt that was there first is read back: its time is the purge's.   *)
(* Receipts are never deleted, so errMissingReceipt does not happen.       *)
WriteReceipt(w) ==
  /\ pc[w] = "insertReceipt"
  /\ InsertReceipt(Job(w), stamp[w])
  /\ stamp' = [stamp EXCEPT ![w] = receipts'[Job(w)]]
  /\ Goto(w, "destroy")
  /\ UNCHANGED <<phase, todo, cur, held, result, crashes>>
  /\ UNCHANGED <<streamVars, mem, deadVars, events, keyVars, outputs, accepts, policy>>

DestroyKey(w) ==
  /\ Step(w, "destroy", "drop")
  /\ Destroy(Job(w), stamp[w])
  /\ UNCHANGED <<streamVars, mem, deadVars, events, outputs, purgeVars, accepts, policy>>

(* Mutant of DropCheckpoint: finishJournaled does not drop the checkpoint. *)
DropCheckpointOnce(w) ==
  /\ Step(w, "drop", IF result[w] = None THEN "finish" ELSE "publish")
  /\ mem' = IF result[w] = None THEN mem ELSE [mem EXCEPT ![Job(w)] = 0]
  /\ UNCHANGED <<streamVars, deadVars, events, keyVars, outputs, purgeVars, accepts, policy>>

(* finishJournaled neither publishes nor dead-letters.                     *)
DropCheckpoint(w) ==
  /\ Step(w, "drop", IF result[w] = None THEN "finish" ELSE "publish")
  /\ mem' = [mem EXCEPT ![Job(w)] = 0]
  /\ UNCHANGED <<streamVars, deadVars, events, keyVars, outputs, purgeVars, accepts, policy>>

PublishResult(w) ==
  /\ Step(w, "publish", IF result[w].state = "COMPLETED" THEN "finish" ELSE "settle")
  /\ Publish(Job(w), result[w].state)
  /\ UNCHANGED <<streamVars, mem, deadVars, keyVars, outputs, purgeVars, accepts, policy>>

(* bury forces the settle script's dead-letter branch; fail does not.      *)
Settle(w) ==
  /\ pc[w] = "settle"
  /\ settle(cur[w], result[w].why # "ran")
  /\ Return(w)
  /\ UNCHANGED <<mem, events, keyVars, outputs, purgeVars, accepts, policy>>

SettleAgain(w) ==
  /\ pc[w] = "settle"
  /\ settle(cur[w], result[w].why # "ran")
  /\ Lose
  /\ UNCHANGED <<pc, phase, todo, cur, held, result, stamp>>
  /\ UNCHANGED <<mem, events, keyVars, outputs, purgeVars, accepts, policy>>

Finish(w) ==
  /\ pc[w] = "finish"
  /\ finish(cur[w])
  /\ Return(w)
  /\ UNCHANGED <<mem, deadVars, events, keyVars, outputs, purgeVars, accepts, policy>>

Work(w) ==
  \/ \E e \in todo[w] :
        DispatchNoInput(w, e) \/ DispatchNoTenant(w, e) \/ Dispatch(w, e)
  \/ LoadCheckpoint(w) \/ OpenCheckpoint(w) \/ OpenInput(w)
  \/ Run(w) \/ RunFails(w) \/ SealPartial(w) \/ SaveStep1(w) \/ PublishRunning(w)
  \/ Peek(w) \/ RecordResult(w) \/ GetReceipt(w) \/ WriteReceipt(w) \/ DestroyKey(w)
  \/ DropCheckpoint(w) \/ PublishResult(w) \/ Settle(w) \/ Finish(w)

WorkerNext ==
  \/ \E w \in Workers :
       \/ Start(w) \/ Crash(w) \/ Claim(w) \/ Read(w) \/ Work(w)
       \/ FetchLost(w) \/ SettleAgain(w)
  \/ \E e \in pending : BecomeIdle(e)
=============================================================================
