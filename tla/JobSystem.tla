------------------------------ MODULE JobSystem ------------------------------
(***************************************************************************)
(* The job pipeline: the control plane's handlers and the workers over the *)
(* shared stores, and what the pipeline promises about every job.          *)
(***************************************************************************)
EXTENDS PostJob, JobWorker

CONSTANT GroupAtStart   \* TRUE if some worker has run before the first job

ASSUME GroupAssumption == GroupAtStart \in BOOLEAN

vars == <<storeVars, postVars, workerVars>>

Init ==
  /\ StoresInit
  /\ cursor = IF GroupAtStart THEN 0 ELSE NoGroup
  /\ PostInit
  /\ WorkerInit

Next ==
  \/ PostNext /\ UNCHANGED workerVars
  \/ WorkerNext /\ UNCHANGED postVars
  \/ PutPolicy /\ UNCHANGED <<postVars, workerVars>>

Spec == Init /\ [][Next]_vars

-----------------------------------------------------------------------------
TypeOK == StoresTypeOK /\ PostTypeOK /\ WorkerTypeOK

(* The jobs that handle works on; the others have an unusable entry.       *)
Proper == Jobs \ (NoTenant \cup NoInput)

(* Once Redis has a job's entry, the job is in the stream until it has a   *)
(* terminal row in the journal: no interleaving of workers, no crash and   *)
(* no duplicate XADD acknowledges an entry (finish, settle) whose result   *)
(* is not stored.                                                          *)
NoJobLost ==
  \A j \in (Proper \ FailingJobs) \cap entered :
    outputs[j] # None \/ \E e \in stream : e.job = j

(* Nothing of a job is destroyed before its result is stored: a receipt,   *)
(* a destroyed key or a dead-letter entry implies a row in the journal.    *)
PurgedOnlyIfJournaled ==
  \A j \in Proper \ FailingJobs :
    receipts[j] # None \/ Destroyed(j) \/ dlq[j] > 0 => outputs[j] # None

(* The time in job_keys.destroyed_at is the time the signed receipt names, *)
(* also when several workers purge one job with different clocks.          *)
PurgeTimesAgree ==
  \A j \in Proper : Destroyed(j) => destroyedAt[j] = receipts[j]

(* A job whose client was told QUEUED stays readable until it has a result: *)
(* its input's key is the row's key and is not destroyed, so that it never  *)
(* ends as "input_key_missing" or "input_is_not_sealed", whatever retries   *)
(* of the XADD and other workers do.                                        *)
QueuedIsReadable ==
  \A j \in Proper \ UnknownType :
    post[j] = "queued" =>
      IF outputs[j] = None THEN Live(j) /\ keyRow[j] = 1
      ELSE outputs[j].why \in {"ran", "runner_failed"}

(* What subscribers and the dead-letter stream are told of a job agrees    *)
(* with its journal row: never COMPLETED for one worker and FAILED for     *)
(* another.                                                                *)
AnnouncedIsJournaled ==
  \A j \in Proper \ FailingJobs :
    /\ events[j] \cap {"COMPLETED", "FAILED"} # {} =>
         outputs[j] # None /\ events[j] \subseteq {"RUNNING", outputs[j].state}
    /\ dlq[j] > 0 => outputs[j] # None /\ outputs[j].state = "FAILED"

(* A purge appears in the audit ledger exactly once, however many workers  *)
(* ran it.                                                                 *)
PurgeLoggedOnce ==
  \A j \in Jobs : logged[j] = IF receipts[j] = None THEN 0 ELSE 1

(* The job's entries are all acknowledged and deleted.                     *)
Acked(j) == j \in entered /\ \A e \in stream : e.job # j

(* A job leaves the stream only after its purge: with its receipt written  *)
(* and its key destroyed.                                                  *)
AckedIsPurged ==
  \A j \in Proper \ FailingJobs : Acked(j) => receipts[j] # None /\ ~Live(j)

(* A job that left the stream, and that no worker still has a message of,  *)
(* leaves no checkpoint, the sealed partial result, behind.                *)
AckedLeavesNoCheckpoint ==
  \A j \in Proper \ FailingJobs :
    /\ Acked(j)
    /\ \A w \in Workers : ~\E e \in todo[w] \cup {cur[w]} : e # None /\ e.job = j
    => mem[j] = 0

(* An entry without a tenant ends in the dead letters with its key         *)
(* destroyed, one without an input is dropped, and neither is journaled or *)
(* certified as purged.                                                    *)
UnusableIsDropped ==
  \A j \in NoTenant \cup NoInput :
    /\ outputs[j] = None /\ receipts[j] = None
    /\ Acked(j) /\ j \notin NoInput => dlq[j] > 0 /\ ~Live(j)

(* A job whose attempts keep failing is tried three times in all, has one  *)
(* entry in the stream at a time, and is dead-lettered once, with a FAILED *)
(* row in the journal and its purge done.                                  *)
ThreeAttempts ==
  \A j \in FailingJobs \cap Proper :
    /\ retry[j] <= 2 /\ dlq[j] <= 1
    /\ \A d, e \in stream : d.job = j /\ e.job = j => d = e
    /\ Acked(j) => outputs[j] # None /\ outputs[j].state = "FAILED" /\ Destroyed(j)

-----------------------------------------------------------------------------
(* The inductive invariant: what is true of a worker at each of its calls, *)
(* and of the stores between calls.                                        *)

Idling == {"down", "loop"}
Trying == {"loop", "load", "loadKey", "open", "run", "saveKey", "saveHash", "running"}
Committed == {"getReceipt", "insertReceipt", "destroy", "drop", "publish", "finish"}

(* What the worker knows by itself.                                        *)
Local(w) ==
  /\ pc[w] \notin Idling => cur[w] \in Entry /\ Job(w) \notin NoInput
  /\ pc[w] \notin Idling \cup {"settle"} => Job(w) \notin NoTenant
  /\ pc[w] \in Trying \cup {"down"} => result[w] = None
  /\ pc[w] \in {"peek", "record", "publish", "settle"} => result[w] # None
  /\ pc[w] = "insertReceipt" => stamp[w] \in Times
  /\ pc[w] = "peek" => Job(w) \in FailingJobs

(* What its earlier calls left in the stores, whatever others did since.   *)
Shared(w) ==
  /\ pc[w] \in Committed =>
       /\ outputs[Job(w)] # None
       /\ result[w] # None => outputs[Job(w)] = result[w]
  /\ pc[w] \in {"destroy", "drop", "publish", "finish"} => receipts[Job(w)] # None
  /\ pc[w] = "destroy" => stamp[w] = receipts[Job(w)]
  /\ pc[w] = "settle" /\ Job(w) \in Proper \ FailingJobs =>
       outputs[Job(w)] = result[w] /\ result[w].state = "FAILED"

(* The stores by themselves.                                               *)
ReceiptsFollow ==
  \A j \in Jobs :
    /\ receipts[j] # None => outputs[j] # None
    /\ keyRow[j] = 0 => destroyedAt[j] = None
    /\ j \in NoTenant \cup NoInput => outputs[j] = None
    /\ events[j] \subseteq IF outputs[j] = None THEN {"RUNNING"}
                           ELSE {"RUNNING", outputs[j].state}

DeadLettersFailed ==
  \A j \in Proper \ FailingJobs :
    dlq[j] > 0 => outputs[j] # None /\ outputs[j].state = "FAILED"

IInv ==
  /\ TypeOK
  /\ \A w \in Workers : Local(w) /\ Shared(w)
  /\ ReceiptsFollow
  /\ DeadLettersFailed
  /\ PurgeTimesAgree
  /\ PurgeLoggedOnce
  /\ NoJobLost

-----------------------------------------------------------------------------
(* The pipeline implements JobLifecycle: results and receipts are written  *)
(* once, in that order, and only the result's state is announced.          *)
Lifecycle == INSTANCE JobLifecycle WITH
  verdict <- outputs,
  purgedAt <- receipts,
  told <- [j \in Jobs |-> events[j] \ {"RUNNING"}]

LifecycleSpec == Lifecycle!Spec

-----------------------------------------------------------------------------
(* A worker that is up keeps taking steps, a process that ended is started *)
(* again (restart: unless-stopped), and an entry nobody claims becomes     *)
(* idle. The control plane need not do anything.                           *)
Fairness ==
  /\ \A w \in Workers :
       /\ WF_vars(Start(w) /\ UNCHANGED postVars)
       /\ WF_vars(Claim(w) /\ UNCHANGED postVars)
       /\ WF_vars(Read(w) /\ UNCHANGED postVars)
       /\ WF_vars(Work(w) /\ UNCHANGED postVars)
  /\ \A i \in 1..MaxEntries, j \in Jobs :
       WF_vars(BecomeIdle([id |-> i, job |-> j]) /\ UNCHANGED postVars)

FairSpec == Spec /\ Fairness

(* A job the client was told is QUEUED gets its result, its receipt and    *)
(* the destruction of its key, and leaves the stream, in spite of crashes, *)
(* conflicts between workers and duplicate entries.                        *)
QueuedIsSettled ==
  \A j \in Proper :
    post[j] = "queued" ~> (outputs[j] # None /\ Acked(j) /\ AckedIsPurged)
=============================================================================
