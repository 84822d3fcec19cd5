--------------------------- MODULE JobSystemProofs ---------------------------
(* Proofs about JobSystem, for any number of jobs, workers and crashes.    *)
EXTENDS JobSystem, TLAPS

USE Zenon

-----------------------------------------------------------------------------
(* The parts of IInv, and what a step of worker w leaves to the others.    *)

StoresInv ==
  ReceiptsFollow /\ DeadLettersFailed /\ PurgeTimesAgree /\ PurgeLoggedOnce

StoresGrow ==
  \A j \in Jobs :
    /\ outputs[j] # None => outputs'[j] = outputs[j]
    /\ receipts[j] # None => receipts'[j] = receipts[j]

OthersSame(w) ==
  \A v \in Workers \ {w} :
    /\ pc'[v] = pc[v] /\ cur'[v] = cur[v]
    /\ result'[v] = result[v] /\ stamp'[v] = stamp[v]

(* The first result and the first receipt stay (Record, InsertReceipt), so *)
(* a step takes nothing away from what a worker that did not move relies   *)
(* on.                                                                     *)
LEMMA WorkerKeeps ==
  ASSUME NEW v \in Workers, IInv, StoresGrow,
         pc'[v] = pc[v] /\ cur'[v] = cur[v] /\ result'[v] = result[v] /\ stamp'[v] = stamp[v]
  PROVE  Local(v)' /\ Shared(v)'
  <1>1. Local(v) /\ Shared(v) /\ pc[v] \in PCs
    BY DEF IInv, TypeOK, WorkerTypeOK
  <1>2. Local(v)'
    BY <1>1 DEF Local, Job
  <1>3. pc[v] \notin Idling => Job(v) \in Jobs
    BY <1>1 DEF Local, Job, Entry
  <1>4. Shared(v)'
    BY <1>1, <1>3 DEF Shared, Job, StoresGrow, Committed, Idling, Proper, Local, Trying
  <1> QED
    BY <1>2, <1>4

(* A step that leaves the stores alone keeps what is true of them.         *)
LEMMA StoresKeep ==
  ASSUME IInv, UNCHANGED storeVars, UNCHANGED postVars
  PROVE  StoresTypeOK' /\ PostTypeOK' /\ StoresInv' /\ NoJobLost' /\ StoresGrow
  <1> USE DEF storeVars, streamVars, deadVars, keyVars, purgeVars, postVars, IInv
  <1>1. StoresTypeOK' /\ PostTypeOK'
    BY DEF TypeOK, StoresTypeOK, PostTypeOK
  <1>2. StoresInv'
    BY DEF StoresInv, ReceiptsFollow, DeadLettersFailed, PurgeTimesAgree,
           PurgeLoggedOnce, Destroyed
  <1>3. NoJobLost' /\ StoresGrow
    BY DEF NoJobLost, StoresGrow
  <1> QED
    BY <1>1, <1>2, <1>3

(* What a step of worker w has to show.                                    *)
LEMMA Assemble ==
  ASSUME NEW w \in Workers, IInv,
         StoresTypeOK', PostTypeOK', StoresInv', NoJobLost', StoresGrow,
         WorkerTypeOK', Local(w)', Shared(w)', OthersSame(w)
  PROVE  IInv'
  BY WorkerKeeps DEF IInv, TypeOK, StoresInv, OthersSame

(* What a step of anyone else has to show.                                 *)
LEMMA AssembleIdle ==
  ASSUME IInv, UNCHANGED workerVars,
         StoresTypeOK', PostTypeOK', StoresInv', NoJobLost', StoresGrow
  PROVE  IInv'
  <1>1. WorkerTypeOK'
    BY DEF IInv, TypeOK, WorkerTypeOK, workerVars
  <1>2. \A v \in Workers : Local(v)' /\ Shared(v)'
    BY WorkerKeeps DEF workerVars
  <1> QED
    BY <1>1, <1>2 DEF IInv, TypeOK, StoresInv

(* A worker in a call has a message, and what IInv says of it.             *)
LEMMA Facts ==
  ASSUME NEW w \in Workers, IInv
  PROVE  /\ WorkerTypeOK /\ StoresTypeOK /\ PostTypeOK /\ StoresInv /\ NoJobLost
         /\ Local(w) /\ Shared(w)
         /\ pc[w] \notin Idling => cur[w] \in Entry /\ Job(w) \in Jobs
  <1>1. WorkerTypeOK /\ Local(w) /\ Shared(w)
    BY DEF IInv, TypeOK
  <1>2. pc[w] \notin Idling => cur[w] \in Entry /\ Job(w) \in Jobs
    BY <1>1 DEF Local, Entry, Job
  <1> QED
    BY <1>1, <1>2 DEF IInv, TypeOK, StoresInv

(* The results handle can come to.                                         *)
LEMMA ResultFacts ==
  /\ \A r \in Reasons : Buried(r) \in Results /\ Buried(r).state = "FAILED"
  /\ \A b \in 0..MaxPolicy : Completed(b) \in Results /\ Failed(b) \in Results
  /\ \A r \in Results : r # None
  <1>1. \A r \in Reasons : Buried(r) \in Results /\ Buried(r).state = "FAILED"
    BY SMT, StoresAssumption DEF Results, Buried
  <1>2. \A b \in 0..MaxPolicy : Completed(b) \in Results /\ Failed(b) \in Results
    BY DEF Results, Completed, Failed
  <1> QED
    BY <1>1, <1>2, NoneAssumption

-----------------------------------------------------------------------------
(* The ways a worker moves: after the step it is at label with message m,  *)
(* result r and purge time t, and the other workers are where they were.   *)

Moves(w, label, m, r, t) ==
  /\ WorkerTypeOK'
  /\ OthersSame(w)
  /\ pc'[w] = label /\ cur'[w] = m /\ result'[w] = r /\ stamp'[w] = t

(* Goto keeps message, result and purge time.                              *)
LEMMA GotoMoves ==
  ASSUME NEW w \in Workers, WorkerTypeOK, NEW to \in PCs, Goto(w, to),
         UNCHANGED <<phase, todo, cur, result, stamp, crashes>>, held' \in [Workers -> Nat]
  PROVE  Moves(w, to, cur[w], result[w], stamp[w])
  BY DEF Moves, Goto, WorkerTypeOK, OthersSame

(* Step is Goto from a label.                                              *)
LEMMA StepMoves ==
  ASSUME NEW w \in Workers, WorkerTypeOK, NEW from, NEW to \in PCs, Step(w, from, to)
  PROVE  pc[w] = from /\ Moves(w, to, cur[w], result[w], stamp[w])
  BY DEF Moves, Step, Goto, WorkerTypeOK, OthersSame

(* Conclude sets the result.                                               *)
LEMMA ConcludeMoves ==
  ASSUME NEW w \in Workers, WorkerTypeOK, NEW r \in Results, NEW to \in PCs,
         Conclude(w, r, to), held' \in [Workers -> Nat]
  PROVE  Moves(w, to, cur[w], r, stamp[w])
  BY DEF Moves, Conclude, Goto, WorkerTypeOK, OthersSame

(* Bury sets a failed result and goes to the journal.                      *)
LEMMA BuryMoves ==
  ASSUME NEW w \in Workers, WorkerTypeOK, NEW why \in Reasons,
         Bury(w, why), held' \in [Workers -> Nat]
  PROVE  Moves(w, "record", cur[w], Buried(why), stamp[w])
  BY ConcludeMoves, ResultFacts DEF Bury, PCs

(* A worker that is done with a message, or ended, has none, and is as IInv *)
(* wants it.                                                               *)
LEMMA IdleMoves ==
  ASSUME NEW w \in Workers, WorkerTypeOK,
         Return(w) \/ (Exit(w) /\ crashes' \in Nat)
  PROVE  WorkerTypeOK' /\ OthersSame(w) /\ Local(w)' /\ Shared(w)'
  <1>1. CASE Return(w)
    BY <1>1 DEF Return, WorkerTypeOK, OthersSame, PCs, Local, Shared, Idling, Trying, Committed
  <1>2. CASE Exit(w) /\ crashes' \in Nat
    BY <1>2 DEF Exit, WorkerTypeOK, OthersSame, PCs, Local, Shared, Idling, Trying, Committed
  <1> QED
    BY <1>1, <1>2

(* On the way to a result nothing is committed.                            *)
LEMMA TryMoves ==
  ASSUME NEW w \in Workers, IInv, NEW to \in Trying \ Idling,
         Moves(w, to, cur[w], result[w], stamp[w]), pc[w] \in Trying \ Idling
  PROVE  WorkerTypeOK' /\ OthersSame(w) /\ Local(w)' /\ Shared(w)'
  BY Facts DEF Moves, Local, Shared, Trying, Idling, Committed, Job

(* A result on its way to the journal, or to the retry counter.            *)
LEMMA ResultMoves ==
  ASSUME NEW w \in Workers, IInv, NEW r \in Results, NEW to \in {"record", "peek"},
         Moves(w, to, cur[w], r, stamp[w]), pc[w] \in Trying \ Idling,
         to = "peek" => Job(w) \in FailingJobs
  PROVE  WorkerTypeOK' /\ OthersSame(w) /\ Local(w)' /\ Shared(w)'
  BY Facts, ResultFacts DEF Moves, Local, Shared, Trying, Idling, Committed, Job

-----------------------------------------------------------------------------
(* handle up to a result, the worker's side: each call leaves it trying,   *)
(* concluding or ended.                                                    *)

(* LoadCheckpoint and OpenCheckpoint go on with the registry lookup.       *)
LEMMA LookupMoves ==
  ASSUME NEW w \in Workers, IInv, NEW h \in Nat, Lookup(w, h), pc[w] \in {"load", "loadKey"}
  PROVE  WorkerTypeOK' /\ OthersSame(w) /\ Local(w)' /\ Shared(w)'
  <1>1. WorkerTypeOK
    BY Facts
  <1>2. held' \in [Workers -> Nat]
    BY <1>1 DEF Lookup, WorkerTypeOK
  <1>3. CASE Bury(w, "unknown_job_type")
    BY <1>1, <1>2, <1>3, BuryMoves, ResultMoves, ResultFacts DEF Reasons, Trying, Idling
  <1>4. CASE Goto(w, "open") /\ UNCHANGED <<phase, todo, cur, result, stamp, crashes>>
    BY <1>1, <1>2, <1>4, GotoMoves, TryMoves DEF Trying, Idling, PCs
  <1> QED
    BY <1>3, <1>4 DEF Lookup

(* The runner's result goes to the journal or, with the Fail hook, to      *)
(* deadLetters.fail.                                                       *)
LEMMA RanMoves ==
  ASSUME NEW w \in Workers, IInv, NEW b \in 0..MaxPolicy, Ran(w, b), UNCHANGED held,
         pc[w] \in {"run", "running"}
  PROVE  WorkerTypeOK' /\ OthersSame(w) /\ Local(w)' /\ Shared(w)'
  <1>1. WorkerTypeOK
    BY Facts
  <1>2. held' \in [Workers -> Nat]
    BY <1>1 DEF WorkerTypeOK
  <1>3. Completed(b) \in Results /\ Failed(b) \in Results
    BY ResultFacts
  <1>4. CASE Job(w) \in FailingJobs
    BY <1>1, <1>2, <1>3, <1>4, ConcludeMoves, ResultMoves DEF Ran, Trying, Idling, PCs
  <1>5. CASE Job(w) \notin FailingJobs
    BY <1>1, <1>2, <1>3, <1>5, ConcludeMoves, ResultMoves DEF Ran, Trying, Idling, PCs
  <1> QED
    BY <1>4, <1>5

(* The calls of handle before commitJob.                                   *)
LEMMA HandleMoves ==
  ASSUME NEW w \in Workers, IInv,
         \/ LoadCheckpoint(w) \/ OpenCheckpoint(w) \/ OpenInput(w) \/ Run(w)
         \/ RunFails(w) \/ SealPartial(w) \/ SaveStep1(w) \/ PublishRunning(w)
  PROVE  WorkerTypeOK' /\ OthersSame(w) /\ Local(w)' /\ Shared(w)'
  <1>1. /\ WorkerTypeOK /\ StoresTypeOK
        /\ pc[w] \notin Idling => Job(w) \in Jobs
    BY Facts
  <1>2. held \in [Workers -> Nat] /\ crashes \in Nat
    BY <1>1 DEF WorkerTypeOK
  <1>3. CASE LoadCheckpoint(w)
    <2>1. CASE mem[Job(w)] = 0
      BY SMT, <1>3, <2>1, LookupMoves DEF LoadCheckpoint
    <2>2. CASE mem[Job(w)] # 0
      <3>1. pc[w] = "load" /\ mem[Job(w)] \in Nat
        BY <1>1, <1>3 DEF LoadCheckpoint, Idling, StoresTypeOK
      <3>2. held' \in [Workers -> Nat]
        BY <1>2, <1>3, <2>2, <3>1 DEF LoadCheckpoint
      <3>3. Moves(w, "loadKey", cur[w], result[w], stamp[w])
        BY <1>1, <1>3, <2>2, <3>2, GotoMoves DEF LoadCheckpoint, PCs
      <3> QED
        BY <3>1, <3>3, TryMoves DEF Trying, Idling
    <2> QED
      BY <2>1, <2>2
  <1>4. CASE OpenCheckpoint(w)
    <2>1. pc[w] = "loadKey" /\ held[w] \in Nat
      BY <1>2, <1>4 DEF OpenCheckpoint
    <2>2. CASE Lookup(w, held[w])
      BY <2>1, <2>2, LookupMoves
    <2>3. CASE Exit(w) /\ UNCHANGED crashes
      BY <1>1, <1>2, <2>3, IdleMoves
    <2> QED
      BY <1>4, <2>2, <2>3 DEF OpenCheckpoint
  <1>5. CASE OpenInput(w)
    <2>1. pc[w] = "open"
      BY <1>5 DEF OpenInput
    <2>2. CASE Exit(w) /\ UNCHANGED crashes
      BY <1>1, <1>2, <2>2, IdleMoves
    <2>3. CASE \E why \in Reasons : Bury(w, why) /\ UNCHANGED held
      BY <1>1, <1>2, <2>1, <2>3, BuryMoves, ResultMoves, ResultFacts DEF Trying, Idling
    <2>4. CASE Step(w, "open", "run")
      BY SMT, <1>1, <2>4, StepMoves, TryMoves DEF Trying, Idling, PCs
    <2> QED
      BY <1>5, <2>2, <2>3, <2>4 DEF OpenInput, Reasons
  <1>6. CASE Run(w)
    <2>1. pc[w] = "run" /\ PolicyOf(Job(w)) \in 0..MaxPolicy
      BY SMT, <1>1, <1>6, StoresAssumption DEF Run, PolicyOf, StoresTypeOK
    <2>2. CASE Step(w, "run", "saveKey")
      BY <1>1, <2>1, <2>2, StepMoves, TryMoves DEF Trying, Idling, PCs
    <2>3. CASE Ran(w, PolicyOf(Job(w))) /\ UNCHANGED held
      BY <2>1, <2>3, RanMoves
    <2> QED
      BY <1>6, <2>2, <2>3 DEF Run
  <1>7. CASE RunFails(w)
    BY <1>1, <1>2, <1>7, BuryMoves, ResultMoves, ResultFacts DEF RunFails, Reasons, Trying, Idling
  <1>8. CASE SealPartial(w)
    <2>1. pc[w] = "saveKey" /\ Ensure(Job(w))
      BY <1>8 DEF SealPartial
    <2>2. CASE Exit(w) /\ UNCHANGED crashes
      BY <1>1, <1>2, <2>2, IdleMoves
    <2>3. CASE /\ held' = [held EXCEPT ![w] = keyRow'[Job(w)]]
               /\ Goto(w, "saveHash")
               /\ UNCHANGED <<phase, todo, cur, result, stamp, crashes>>
      <3>1. keyRow'[Job(w)] \in Nat
        BY SMT, <1>1, <2>1 DEF Ensure, StoresTypeOK, Idling
      <3>2. held' \in [Workers -> Nat]
        BY <1>2, <2>3, <3>1
      <3>3. Moves(w, "saveHash", cur[w], result[w], stamp[w])
        BY <1>1, <2>3, <3>2, GotoMoves DEF PCs
      <3> QED
        BY <2>1, <3>3, TryMoves DEF Trying, Idling
    <2> QED
      BY <1>8, <2>2, <2>3 DEF SealPartial
  <1>9. CASE SaveStep1(w)
    BY SMT, <1>1, <1>9, StepMoves, TryMoves DEF SaveStep1, Trying, Idling, PCs
  <1>10. CASE PublishRunning(w)
    BY SMT, <1>10, RanMoves, StoresAssumption DEF PublishRunning
  <1> QED
    BY <1>3, <1>4, <1>5, <1>6, <1>7, <1>8, <1>9, <1>10

-----------------------------------------------------------------------------
(* The stores' side of the calls.                                          *)

(* Ensure gives a key only to a job without a row, so a destroyed key stays *)
(* destroyed at the same time.                                             *)
LEMMA EnsureKeeps ==
  ASSUME IInv, NEW j \in Jobs, Ensure(j), UNCHANGED <<deadVars, events, outputs, purgeVars>>
  PROVE  /\ StoresInv' /\ StoresGrow
         /\ keyRow' \in [Jobs -> Nat] /\ keyGen' \in [Jobs -> Nat]
         /\ destroyedAt' = destroyedAt
  <1>1. StoresTypeOK /\ StoresInv
    BY DEF IInv, TypeOK, StoresInv
  <1>2. /\ keyRow' \in [Jobs -> Nat] /\ keyGen' \in [Jobs -> Nat]
        /\ destroyedAt' = destroyedAt
    BY SMT, <1>1 DEF Ensure, StoresTypeOK
  <1>3. \A i \in Jobs : keyRow'[i] = keyRow[i] \/ (keyRow[i] = 0 /\ keyRow'[i] > 0)
    BY SMT, <1>1 DEF Ensure, StoresTypeOK
  <1>4. UNCHANGED <<dlq, events, outputs, receipts, logged>>
    BY DEF deadVars, purgeVars
  <1>5. ReceiptsFollow'
    BY <1>1, <1>2, <1>3, <1>4 DEF StoresInv, ReceiptsFollow
  <1>6. PurgeTimesAgree'
    BY <1>1, <1>2, <1>3, <1>4 DEF StoresInv, ReceiptsFollow, PurgeTimesAgree, Destroyed, Proper
  <1>7. DeadLettersFailed' /\ PurgeLoggedOnce'
    BY <1>1, <1>4 DEF StoresInv, DeadLettersFailed, PurgeLoggedOnce
  <1> QED
    BY <1>2, <1>4, <1>5, <1>6, <1>7 DEF StoresInv, StoresGrow

(* Every step of handle before commitJob preserves the invariant.          *)
LEMMA HandleInv ==
  ASSUME NEW w \in Workers, IInv, UNCHANGED postVars,
         \/ LoadCheckpoint(w) \/ OpenCheckpoint(w) \/ OpenInput(w) \/ Run(w)
         \/ RunFails(w) \/ SealPartial(w) \/ SaveStep1(w) \/ PublishRunning(w)
  PROVE  IInv'
  <1>1. WorkerTypeOK' /\ OthersSame(w) /\ Local(w)' /\ Shared(w)'
    BY HandleMoves
  <1>2. /\ StoresTypeOK /\ PostTypeOK /\ StoresInv /\ NoJobLost
        /\ pc[w] \notin Idling => Job(w) \in Jobs
    BY Facts
  <1> SUFFICES StoresTypeOK' /\ PostTypeOK' /\ StoresInv' /\ NoJobLost' /\ StoresGrow
    BY <1>1, Assemble
  <1>3. CASE UNCHANGED storeVars
    BY <1>3, StoresKeep
  <1>p. PostTypeOK'
    BY <1>2 DEF PostTypeOK, postVars
  <1>4. CASE OpenCheckpoint(w) \/ SealPartial(w)
    <2>1. /\ Ensure(Job(w)) /\ Job(w) \in Jobs
          /\ UNCHANGED <<streamVars, mem, deadVars, events, outputs, purgeVars, accepts, policy>>
      BY <1>2, <1>4 DEF OpenCheckpoint, SealPartial, Idling
    <2>2. /\ StoresInv' /\ StoresGrow /\ keyRow' \in [Jobs -> Nat] /\ keyGen' \in [Jobs -> Nat]
          /\ destroyedAt' = destroyedAt
      BY <2>1, EnsureKeeps
    <2>3. StoresTypeOK'
      BY <1>2, <2>1, <2>2 DEF StoresTypeOK, streamVars, deadVars, purgeVars
    <2>4. NoJobLost'
      BY <1>2, <2>1 DEF NoJobLost, streamVars, postVars
    <2> QED
      BY <1>p, <2>2, <2>3, <2>4
  <1>5. CASE SaveStep1(w)
    <2>1. /\ mem' = [mem EXCEPT ![Job(w)] = held[w]] /\ Job(w) \in Jobs /\ held[w] \in Nat
          /\ UNCHANGED <<streamVars, deadVars, events, keyVars, outputs, purgeVars, accepts, policy>>
      BY <1>2, <1>5, Facts DEF SaveStep1, Step, Idling, WorkerTypeOK
    <2> USE DEF streamVars, deadVars, keyVars, purgeVars
    <2>2. StoresTypeOK'
      BY <1>2, <2>1 DEF StoresTypeOK
    <2>3. StoresInv' /\ StoresGrow
      BY <1>2, <2>1 DEF StoresInv, StoresGrow, ReceiptsFollow, DeadLettersFailed,
                        PurgeTimesAgree, PurgeLoggedOnce, Destroyed
    <2>4. NoJobLost'
      BY <1>2, <2>1 DEF NoJobLost, postVars
    <2> QED
      BY <1>p, <2>2, <2>3, <2>4
  <1>6. CASE PublishRunning(w)
    <2>1. /\ events' = [events EXCEPT ![Job(w)] = @ \cup {"RUNNING"}] /\ Job(w) \in Jobs
          /\ UNCHANGED <<streamVars, mem, deadVars, keyVars, outputs, purgeVars, accepts, policy>>
      BY <1>2, <1>6 DEF PublishRunning, Publish, Idling
    <2> USE DEF streamVars, deadVars, keyVars, purgeVars
    <2>2. StoresTypeOK'
      BY <1>2, <2>1 DEF StoresTypeOK
    <2>3. ReceiptsFollow'
      BY <1>2, <2>1 DEF StoresInv, ReceiptsFollow, StoresTypeOK
    <2>4. DeadLettersFailed' /\ PurgeTimesAgree' /\ PurgeLoggedOnce' /\ StoresGrow
      BY <1>2, <2>1 DEF StoresInv, StoresGrow, DeadLettersFailed,
                        PurgeTimesAgree, PurgeLoggedOnce, Destroyed
    <2>5. NoJobLost'
      BY <1>2, <2>1 DEF NoJobLost, postVars
    <2> QED
      BY <1>p, <2>2, <2>3, <2>4, <2>5 DEF StoresInv
  <1> QED
    BY <1>3, <1>4, <1>5, <1>6 DEF LoadCheckpoint, OpenInput, Run, RunFails

-----------------------------------------------------------------------------
(* dispatch and commitJob.                                                 *)

(* The three ways dispatch takes a message.                                *)
LEMMA DispatchInv ==
  ASSUME NEW w \in Workers, IInv, UNCHANGED postVars, NEW e \in todo[w],
         DispatchNoInput(w, e) \/ DispatchNoTenant(w, e) \/ Dispatch(w, e)
  PROVE  IInv'
  <1>1. /\ WorkerTypeOK /\ StoresTypeOK /\ PostTypeOK /\ StoresInv /\ NoJobLost
        /\ Local(w) /\ Shared(w)
    BY Facts
  <1>t. Take(w, e)
    BY DEF DispatchNoInput, DispatchNoTenant, Dispatch
  <1>e. e \in Entry /\ e.job \in Jobs
    BY SMT, <1>1 DEF WorkerTypeOK, Entry
  <1>2. /\ pc[w] = "loop" /\ result[w] = None
        /\ todo' \in [Workers -> SUBSET Entry]
    BY <1>1, <1>t DEF Take, WorkerTypeOK, Local, Trying
  <1>p. PostTypeOK'
    BY <1>1 DEF PostTypeOK, postVars
  <1> USE DEF streamVars, deadVars, keyVars, purgeVars
  <1>3. CASE DispatchNoInput(w, e)
    <2>1. UNCHANGED <<mem, deadVars, events, keyVars, outputs, purgeVars, accepts, policy>>
          /\ finish(e) /\ e.job \in NoInput
          /\ UNCHANGED <<pc, phase, cur, held, result, stamp, crashes>>
      BY <1>3 DEF DispatchNoInput
    <2>2. WorkerTypeOK' /\ OthersSame(w) /\ Local(w)' /\ Shared(w)'
      BY <1>1, <1>2, <2>1 DEF WorkerTypeOK, OthersSame, Local, Shared, Job, Idling, Committed, Trying
    <2>3. StoresTypeOK'
      BY <1>1, <2>1 DEF StoresTypeOK, finish
    <2>4. StoresInv' /\ StoresGrow
      BY <1>1, <2>1 DEF StoresInv, StoresGrow, ReceiptsFollow, DeadLettersFailed,
                        PurgeTimesAgree, PurgeLoggedOnce, Destroyed
    <2>5. NoJobLost'
      BY <1>1, <2>1 DEF NoJobLost, postVars, finish, Proper
    <2> QED
      BY <1>p, <2>2, <2>3, <2>4, <2>5, Assemble
  <1>4. CASE DispatchNoTenant(w, e)
    <2>1. PICK t \in Times : Destroy(e.job, t)
      BY <1>4 DEF DispatchNoTenant
    <2>2. /\ e.job \in NoTenant \ NoInput
          /\ pc' = [pc EXCEPT ![w] = "settle"] /\ cur' = [cur EXCEPT ![w] = e]
          /\ result' = [result EXCEPT ![w] = Buried("missing_tenant")]
          /\ UNCHANGED <<phase, held, stamp, crashes>>
          /\ UNCHANGED <<streamVars, mem, deadVars, events, outputs, purgeVars, accepts, policy>>
      BY <1>4 DEF DispatchNoTenant, Goto
    <2>3. Buried("missing_tenant") \in Results /\ Buried("missing_tenant") # None
      BY ResultFacts DEF Reasons
    <2>4. WorkerTypeOK'
      BY <1>1, <1>e, <1>2, <2>2, <2>3 DEF WorkerTypeOK, PCs
    <2>5. OthersSame(w)
      BY <1>1, <2>2 DEF OthersSame, WorkerTypeOK
    <2>6. pc'[w] = "settle" /\ cur'[w] = e /\ result'[w] # None
      BY <1>1, <2>2, <2>3 DEF WorkerTypeOK
    <2>7. Local(w)' /\ Shared(w)'
      BY <1>e, <2>2, <2>6 DEF Local, Shared, Job, Idling, Trying, Committed, Proper
    <2>8. StoresTypeOK'
      BY <1>1, <1>e, <2>1, <2>2 DEF StoresTypeOK, Destroy
    <2>9. \A j \in Jobs : destroyedAt'[j] = destroyedAt[j] \/ (j = e.job /\ keyRow[j] # 0)
      BY SMT, <1>1, <1>e, <2>1 DEF StoresTypeOK, Destroy, Live
    <2>10. StoresInv' /\ StoresGrow
      BY ZenonT(40), <1>1, <2>1, <2>2, <2>9 DEF StoresInv, StoresGrow, ReceiptsFollow, DeadLettersFailed,
                     PurgeTimesAgree, PurgeLoggedOnce, Destroyed, Destroy, Proper
    <2>11. NoJobLost'
      BY <1>1, <2>2 DEF NoJobLost, postVars
    <2> QED
      BY <1>p, <2>4, <2>5, <2>7, <2>8, <2>10, <2>11, Assemble
  <1>5. CASE Dispatch(w, e)
    <2>1. UNCHANGED storeVars
      BY <1>5 DEF Dispatch
    <2>2. WorkerTypeOK'
      BY <1>1, <1>e, <1>2, <1>5 DEF WorkerTypeOK, Dispatch, Goto, PCs
    <2>3. OthersSame(w)
      BY SMT, <1>5 DEF Dispatch, Goto, OthersSame
    <2>4. /\ cur'[w] = e /\ result'[w] = None /\ outputs' = outputs
          /\ e.job \notin NoTenant \cup NoInput
          /\ pc'[w] = "load" \/ (pc'[w] = "getReceipt" /\ outputs[e.job] # None)
      BY <1>1, <1>e, <1>2, <1>5 DEF WorkerTypeOK, Dispatch, Goto, storeVars
    <2>5. Local(w)' /\ Shared(w)'
      BY <1>e, <2>4 DEF Local, Shared, Job, Idling, Trying, Committed
    <2> QED
      BY <2>1, <2>2, <2>3, <2>5, StoresKeep, Assemble
  <1> QED
    BY <1>3, <1>4, <1>5

(* The journal: the first result stays, and a worker goes on only when its *)
(* result is the journaled one.                                            *)
LEMMA RecordInv ==
  ASSUME NEW w \in Workers, IInv, UNCHANGED postVars, RecordResult(w)
  PROVE  IInv'
  <1>1. /\ WorkerTypeOK /\ StoresTypeOK /\ PostTypeOK /\ StoresInv /\ NoJobLost
        /\ Local(w) /\ Shared(w)
    BY Facts
  <1>2. /\ pc[w] = "record" /\ result[w] \in Results /\ result[w] # None
        /\ Job(w) \in Jobs \ (NoTenant \cup NoInput) /\ cur[w] \in Entry
    BY <1>1, Facts DEF RecordResult, Local, WorkerTypeOK, Idling
  <1>3. UNCHANGED <<streamVars, mem, deadVars, events, keyVars, purgeVars, accepts, policy>>
    BY DEF RecordResult
  <1> USE DEF streamVars, deadVars, keyVars, purgeVars
  <1>4. CASE Record(Job(w), result[w]) /\ Step(w, "record", "getReceipt")
    <2>1. /\ outputs' \in [Jobs -> Results \cup {None}]
          /\ outputs'[Job(w)] = result[w]
          /\ \A j \in Jobs : outputs'[j] = outputs[j] \/ (j = Job(w) /\ outputs[j] = None)
      BY <1>1, <1>2, <1>4 DEF Record, acceptExisting, StoresTypeOK
    <2>2. Moves(w, "getReceipt", cur[w], result[w], stamp[w])
      BY <1>1, <1>4, StepMoves DEF PCs
    <2>3. WorkerTypeOK' /\ OthersSame(w) /\ Local(w)' /\ Shared(w)'
      BY <1>1, <1>2, <2>1, <2>2 DEF Moves, Local, Shared, Job, Idling, Trying, Committed
    <2>4. StoresTypeOK' /\ PostTypeOK'
      BY <1>1, <1>3, <2>1 DEF StoresTypeOK, PostTypeOK, postVars
    <2>5. StoresGrow
      BY <1>3, <2>1 DEF StoresGrow
    <2>6. ReceiptsFollow'
      BY <1>1, <1>2, <1>3, <2>1 DEF StoresInv, ReceiptsFollow
    <2>7. DeadLettersFailed' /\ PurgeTimesAgree' /\ PurgeLoggedOnce'
      BY <1>1, <1>2, <1>3, <2>1 DEF StoresInv, DeadLettersFailed, PurgeTimesAgree,
                                    PurgeLoggedOnce, Destroyed, Proper
    <2>8. NoJobLost'
      BY <1>1, <1>2, <1>3, <2>1 DEF NoJobLost, postVars, Proper
    <2> QED
      BY <2>3, <2>4, <2>5, <2>6, <2>7, <2>8, Assemble DEF StoresInv
  <1>5. CASE Exit(w) /\ UNCHANGED <<outputs, crashes>>
    <2>1. UNCHANGED storeVars
      BY <1>3, <1>5 DEF storeVars
    <2>2. WorkerTypeOK' /\ OthersSame(w) /\ Local(w)' /\ Shared(w)'
      BY <1>1, <1>5, IdleMoves DEF WorkerTypeOK
    <2> QED
      BY <2>1, <2>2, StoresKeep, Assemble
  <1> QED
    BY <1>4, <1>5 DEF RecordResult

(* The calls that change only the stream, the checkpoints, the retry       *)
(* counters, the acceptances or the policy keep what is true of the rest.  *)
LEMMA FrameKeeps ==
  ASSUME IInv, UNCHANGED <<dlq, events, keyVars, outputs, purgeVars>>
  PROVE  StoresInv' /\ StoresGrow
  BY DEF IInv, StoresInv, StoresGrow, ReceiptsFollow, DeadLettersFailed,
         PurgeTimesAgree, PurgeLoggedOnce, Destroyed, keyVars, purgeVars

(* Finishing an entry keeps the stream well-formed and loses no other job. *)
LEMMA FinishKeeps ==
  ASSUME IInv, UNCHANGED postVars, NEW e, finish(e), UNCHANGED outputs,
         e.job \in Proper \ FailingJobs => outputs[e.job] # None
  PROVE  /\ NoJobLost'
         /\ stream' \subseteq Entry /\ lastId' \in Nat /\ cursor' \in Int
         /\ pending' \subseteq stream' /\ idle' \subseteq pending'
  <1>1. StoresTypeOK /\ NoJobLost
    BY DEF IInv, TypeOK
  <1>2. NoJobLost'
    BY <1>1 DEF NoJobLost, finish, postVars
  <1> QED
    BY <1>1, <1>2 DEF StoresTypeOK, finish

(* deadLetters.fail and purge.run's first read change no store.            *)
LEMMA PeekInv ==
  ASSUME NEW w \in Workers, IInv, UNCHANGED postVars, Peek(w) \/ GetReceipt(w)
  PROVE  IInv'
  <1>1. WorkerTypeOK /\ StoresTypeOK /\ Local(w) /\ Shared(w) /\ StoresInv
    BY Facts
  <1>2. UNCHANGED storeVars
    BY DEF Peek, GetReceipt
  <1>s. outputs' = outputs /\ receipts' = receipts
    BY <1>2 DEF storeVars, purgeVars
  <1>3. WorkerTypeOK' /\ OthersSame(w) /\ Local(w)' /\ Shared(w)'
    <2>1. CASE Peek(w)
      <3>1. PICK to \in {"record", "settle"} : Step(w, "peek", to)
        BY <2>1 DEF Peek
      <3>2. pc[w] = "peek" /\ Moves(w, to, cur[w], result[w], stamp[w])
        BY <1>1, <3>1, StepMoves DEF PCs
      <3> QED
        BY <1>1, <3>2 DEF Moves, Local, Shared, Job, Idling, Trying, Committed, Proper
    <2>2. CASE GetReceipt(w)
      <3>1. /\ pc[w] = "getReceipt" /\ Job(w) \in Jobs
            /\ UNCHANGED <<phase, todo, cur, held, result, crashes>>
        BY <2>2, Facts DEF GetReceipt, Idling
      <3>2. PICK t \in Times, to \in {"destroy", "insertReceipt"} :
              /\ stamp' = [stamp EXCEPT ![w] = t] /\ Goto(w, to)
              /\ to = "destroy" => t = receipts[Job(w)] /\ receipts[Job(w)] # None
        BY <1>1, <2>2, <3>1 DEF GetReceipt, StoresTypeOK
      <3>3. Moves(w, to, cur[w], result[w], t)
        BY <1>1, <3>1, <3>2 DEF Moves, WorkerTypeOK, OthersSame, Goto, PCs
      <3> QED
        BY <1>1, <1>s, <3>1, <3>2, <3>3, StoresAssumption
           DEF Moves, Local, Shared, Job, Idling, Trying, Committed, Proper
    <2> QED
      BY <2>1, <2>2
  <1> QED
    BY <1>2, <1>3, StoresKeep, Assemble

(* purge_receipts: the first receipt stays and is logged once; the worker  *)
(* goes on with the time of the stored one.                                *)
LEMMA WriteReceiptInv ==
  ASSUME NEW w \in Workers, IInv, UNCHANGED postVars, WriteReceipt(w)
  PROVE  IInv'
  <1>1. /\ WorkerTypeOK /\ StoresTypeOK /\ PostTypeOK /\ StoresInv /\ NoJobLost
        /\ Local(w) /\ Shared(w)
    BY Facts
  <1>2. /\ pc[w] = "insertReceipt" /\ Job(w) \in Jobs /\ cur[w] \in Entry
        /\ stamp[w] \in Times /\ outputs[Job(w)] # None
    BY <1>1, Facts DEF WriteReceipt, Idling, Local, Shared, Committed
  <1>3. /\ InsertReceipt(Job(w), stamp[w])
        /\ UNCHANGED <<streamVars, mem, deadVars, events, keyVars, outputs, accepts, policy>>
    BY DEF WriteReceipt
  <1>4. /\ receipts' \in [Jobs -> Times \cup {None}] /\ logged' \in [Jobs -> Nat]
        /\ receipts'[Job(w)] \in Times
        /\ \A j \in Jobs : \/ receipts'[j] = receipts[j] /\ logged'[j] = logged[j]
                           \/ /\ j = Job(w) /\ receipts[j] = None /\ receipts'[j] # None
                              /\ logged'[j] = logged[j] + 1
    BY SMT, <1>1, <1>2, <1>3, StoresAssumption DEF InsertReceipt, StoresTypeOK
  <1>5. Moves(w, "destroy", cur[w], result[w], receipts'[Job(w)])
    BY <1>1, <1>4 DEF WriteReceipt, Moves, WorkerTypeOK, OthersSame, Goto, PCs
  <1> USE DEF streamVars, deadVars, keyVars
  <1>6. WorkerTypeOK' /\ OthersSame(w) /\ Local(w)' /\ Shared(w)'
    BY <1>1, <1>2, <1>3, <1>4, <1>5, StoresAssumption
       DEF Moves, Local, Shared, Job, Idling, Trying, Committed
  <1>7. StoresTypeOK' /\ PostTypeOK'
    BY <1>1, <1>3, <1>4 DEF StoresTypeOK, PostTypeOK, postVars
  <1>8. StoresGrow
    BY <1>3, <1>4 DEF StoresGrow
  <1>9. ReceiptsFollow'
    BY <1>1, <1>2, <1>3, <1>4 DEF StoresInv, ReceiptsFollow
  <1>10. DeadLettersFailed'
    BY <1>1, <1>3 DEF StoresInv, DeadLettersFailed
  <1>11. PurgeTimesAgree'
    BY <1>1, <1>3, <1>4 DEF StoresInv, PurgeTimesAgree, Destroyed, Proper
  <1>12. PurgeLoggedOnce'
    BY SMT, <1>1, <1>4 DEF StoresInv, PurgeLoggedOnce
  <1>13. NoJobLost'
    BY <1>1, <1>3 DEF NoJobLost, postVars
  <1> QED
    BY <1>6, <1>7, <1>8, <1>9, <1>10, <1>11, <1>12, <1>13, Assemble DEF StoresInv

(* job_keys: the key is destroyed with the receipt's time.                 *)
LEMMA DestroyInv ==
  ASSUME NEW w \in Workers, IInv, UNCHANGED postVars, DestroyKey(w)
  PROVE  IInv'
  <1>1. /\ WorkerTypeOK /\ StoresTypeOK /\ PostTypeOK /\ StoresInv /\ NoJobLost
        /\ Local(w) /\ Shared(w)
    BY Facts
  <1>2. /\ pc[w] = "destroy" /\ Moves(w, "drop", cur[w], result[w], stamp[w])
        /\ Job(w) \in Jobs /\ cur[w] \in Entry
        /\ stamp[w] = receipts[Job(w)] /\ receipts[Job(w)] # None
    BY SMT, <1>1, Facts, StepMoves DEF DestroyKey, PCs, Idling, Shared
  <1>3. /\ Destroy(Job(w), stamp[w])
        /\ UNCHANGED <<streamVars, mem, deadVars, events, outputs, purgeVars, accepts, policy>>
    BY DEF DestroyKey
  <1>4. /\ UNCHANGED <<keyRow, keyGen>>
        /\ destroyedAt' \in [Jobs -> Times \cup {None}]
        /\ \A j \in Jobs : \/ destroyedAt'[j] = destroyedAt[j]
                           \/ keyRow[j] # 0 /\ destroyedAt'[j] = receipts[j]
    BY SMT, <1>1, <1>2, <1>3 DEF Destroy, Live, StoresTypeOK
  <1> USE DEF streamVars, deadVars, purgeVars
  <1>5. WorkerTypeOK' /\ OthersSame(w) /\ Local(w)' /\ Shared(w)'
    BY <1>1, <1>2, <1>3 DEF Moves, Local, Shared, Job, Idling, Trying, Committed
  <1>6. StoresTypeOK' /\ PostTypeOK'
    BY <1>1, <1>3, <1>4 DEF StoresTypeOK, PostTypeOK, postVars
  <1>7. ReceiptsFollow' /\ PurgeTimesAgree'
    BY <1>1, <1>3, <1>4 DEF StoresInv, ReceiptsFollow, PurgeTimesAgree, Destroyed, Proper
  <1>8. DeadLettersFailed' /\ PurgeLoggedOnce' /\ StoresGrow
    BY <1>1, <1>3 DEF StoresInv, DeadLettersFailed, PurgeLoggedOnce, StoresGrow
  <1>9. NoJobLost'
    BY <1>1, <1>3 DEF NoJobLost, postVars
  <1> QED
    BY <1>5, <1>6, <1>7, <1>8, <1>9, Assemble DEF StoresInv

(* The checkpoint goes; finishJournaled has nothing to publish.            *)
LEMMA DropCheckpointInv ==
  ASSUME NEW w \in Workers, IInv, UNCHANGED postVars, DropCheckpoint(w)
  PROVE  IInv'
  <1>1. /\ WorkerTypeOK /\ StoresTypeOK /\ PostTypeOK /\ NoJobLost /\ Local(w) /\ Shared(w)
    BY Facts
  <1>2. PICK to \in {"finish", "publish"} :
          Step(w, "drop", to) /\ (to = "publish" => result[w] # None)
    BY DEF DropCheckpoint
  <1>3. /\ pc[w] = "drop" /\ Moves(w, to, cur[w], result[w], stamp[w])
        /\ Job(w) \in Jobs
    BY SMT, <1>1, <1>2, Facts, StepMoves DEF PCs, Idling
  <1>4. /\ mem' = [mem EXCEPT ![Job(w)] = 0]
        /\ UNCHANGED <<streamVars, deadVars, events, keyVars, outputs, purgeVars, accepts, policy>>
    BY DEF DropCheckpoint
  <1> USE DEF streamVars, deadVars, keyVars, purgeVars
  <1>5. WorkerTypeOK' /\ OthersSame(w) /\ Local(w)' /\ Shared(w)'
    BY <1>1, <1>2, <1>3, <1>4 DEF Moves, Local, Shared, Job, Idling, Trying, Committed
  <1>6. StoresTypeOK' /\ PostTypeOK'
    BY <1>1, <1>3, <1>4 DEF StoresTypeOK, PostTypeOK, postVars
  <1>7. StoresInv' /\ StoresGrow
    BY <1>4, FrameKeeps
  <1>8. NoJobLost'
    BY <1>1, <1>4 DEF NoJobLost, postVars
  <1> QED
    BY <1>5, <1>6, <1>7, <1>8, Assemble

(* Only the journaled state is published.                                  *)
LEMMA PublishInv ==
  ASSUME NEW w \in Workers, IInv, UNCHANGED postVars, PublishResult(w)
  PROVE  IInv'
  <1>1. /\ WorkerTypeOK /\ StoresTypeOK /\ PostTypeOK /\ StoresInv /\ NoJobLost
        /\ Local(w) /\ Shared(w)
    BY Facts
  <1>2. PICK to \in {"finish", "settle"} :
          Step(w, "publish", to) /\ (to = "settle" => result[w].state # "COMPLETED")
    BY DEF PublishResult
  <1>3. /\ pc[w] = "publish" /\ Moves(w, to, cur[w], result[w], stamp[w])
        /\ Job(w) \in Jobs
    BY SMT, <1>1, <1>2, Facts, StepMoves DEF PCs, Idling
  <1>4. /\ result[w] # None /\ result[w] \in Results /\ outputs[Job(w)] = result[w]
        /\ result[w].state \in {"COMPLETED", "FAILED"}
    BY <1>1, <1>3 DEF Local, Shared, Committed, WorkerTypeOK, Results
  <1>5. /\ events' = [events EXCEPT ![Job(w)] = @ \cup {result[w].state}]
        /\ UNCHANGED <<streamVars, mem, deadVars, keyVars, outputs, purgeVars, accepts, policy>>
    BY DEF PublishResult, Publish
  <1> USE DEF streamVars, deadVars, keyVars, purgeVars
  <1>6. WorkerTypeOK' /\ OthersSame(w) /\ Local(w)' /\ Shared(w)'
    BY <1>1, <1>2, <1>3, <1>4, <1>5 DEF Moves, Local, Shared, Job, Idling, Trying, Committed
  <1>7. StoresTypeOK' /\ PostTypeOK'
    BY <1>1, <1>3, <1>4, <1>5 DEF StoresTypeOK, PostTypeOK, postVars
  <1>8. ReceiptsFollow'
    BY ZenonT(40), <1>1, <1>3, <1>4, <1>5 DEF StoresInv, ReceiptsFollow, StoresTypeOK
  <1>9. DeadLettersFailed' /\ PurgeTimesAgree' /\ PurgeLoggedOnce' /\ StoresGrow
    BY <1>1, <1>5 DEF StoresInv, DeadLettersFailed, PurgeTimesAgree, PurgeLoggedOnce,
                      StoresGrow, Destroyed
  <1>10. NoJobLost'
    BY <1>1, <1>5 DEF NoJobLost, postVars
  <1> QED
    BY <1>6, <1>7, <1>8, <1>9, <1>10, Assemble DEF StoresInv

(* finish acknowledges the entry of a journaled job.                       *)
LEMMA FinishInv ==
  ASSUME NEW w \in Workers, IInv, UNCHANGED postVars, Finish(w)
  PROVE  IInv'
  <1>1. WorkerTypeOK /\ StoresTypeOK /\ PostTypeOK /\ Shared(w)
    BY Facts
  <1>2. /\ finish(cur[w]) /\ outputs[cur[w].job] # None /\ Return(w)
        /\ UNCHANGED <<mem, deadVars, events, keyVars, outputs, purgeVars, accepts, policy>>
    BY <1>1 DEF Finish, Shared, Committed, Job
  <1>3. WorkerTypeOK' /\ OthersSame(w) /\ Local(w)' /\ Shared(w)'
    BY <1>1, <1>2, IdleMoves
  <1>4. /\ NoJobLost'
        /\ stream' \subseteq Entry /\ lastId' \in Nat /\ cursor' \in Int
        /\ pending' \subseteq stream' /\ idle' \subseteq pending'
    BY <1>2, FinishKeeps
  <1> USE DEF deadVars, keyVars, purgeVars
  <1>5. StoresTypeOK' /\ PostTypeOK'
    BY <1>1, <1>2, <1>4 DEF StoresTypeOK, PostTypeOK, postVars
  <1>6. StoresInv' /\ StoresGrow
    BY <1>2, FrameKeeps
  <1> QED
    BY <1>3, <1>4, <1>5, <1>6, Assemble

(* settle requeues the entry or dead-letters it; a job that has no Fail    *)
(* hook is dead-lettered with its FAILED row in the journal. The script    *)
(* may run twice.                                                          *)
LEMMA SettleInv ==
  ASSUME NEW w \in Workers, IInv, UNCHANGED postVars, Settle(w) \/ SettleAgain(w)
  PROVE  IInv'
  <1>1. /\ WorkerTypeOK /\ StoresTypeOK /\ PostTypeOK /\ StoresInv /\ NoJobLost
        /\ Local(w) /\ Shared(w)
    BY Facts
  <1> DEFINE e == cur[w]
  <1>2. /\ pc[w] = "settle" /\ e \in Entry /\ e.job \in Jobs
        /\ e.job \in Proper \ FailingJobs =>
             outputs[e.job] # None /\ outputs[e.job].state = "FAILED"
    BY <1>1, Facts DEF Settle, SettleAgain, Local, Shared, Idling, Job
  <1>3. /\ settle(e, result[w].why # "ran")
        /\ UNCHANGED <<mem, events, keyVars, outputs, purgeVars, accepts, policy>>
    BY DEF Settle, SettleAgain
  <1>4. WorkerTypeOK' /\ OthersSame(w) /\ Local(w)' /\ Shared(w)'
    <2>1. CASE Settle(w)
      BY ZenonT(40), <1>1, <2>1, IdleMoves DEF Settle
    <2>2. CASE SettleAgain(w)
      BY SMTT(30), <1>1, <1>3, <2>2 DEF SettleAgain, Lose, WorkerTypeOK, OthersSame, Local, Shared, Job,
                              purgeVars
    <2> QED
      BY <2>1, <2>2
  <1> HIDE DEF e
  <1>5. CASE /\ UNCHANGED <<dlq, cursor>> /\ lastId' = lastId + 1
             /\ stream' = (stream \cup {[id |-> lastId + 1, job |-> e.job]}) \ {e}
             /\ pending' = pending \ {e} /\ idle' = idle \ {e}
             /\ \E n \in Nat : retry' = [retry EXCEPT ![e.job] = n]
    <2> USE DEF keyVars, purgeVars
    <2>1. StoresTypeOK' /\ PostTypeOK'
      <3>1. retry \in [Jobs -> Nat] /\ stream \subseteq Entry /\ lastId \in Nat
            /\ pending \subseteq stream /\ idle \subseteq pending
        BY <1>1 DEF StoresTypeOK
      <3>2. retry' \in [Jobs -> Nat]
        BY SMT, <1>2, <1>5, <3>1
      <3>3. lastId' \in Nat /\ [id |-> lastId + 1, job |-> e.job] \in Entry
        BY SMT, <1>2, <1>5, <3>1 DEF Entry
      <3>4. stream' \subseteq Entry /\ pending' \subseteq stream' /\ idle' \subseteq pending'
        BY <1>5, <3>1, <3>3
      <3> QED
        BY <1>1, <1>3, <1>5, <3>2, <3>3, <3>4 DEF StoresTypeOK, PostTypeOK, postVars
    <2>2. StoresInv' /\ StoresGrow
      BY <1>3, <1>5, FrameKeeps
    <2>3. NoJobLost'
      BY ZenonT(40), <1>1, <1>2, <1>3, <1>5 DEF NoJobLost, postVars
    <2> QED
      BY ZenonT(40), <1>4, <2>1, <2>2, <2>3, Assemble
  <1>6. CASE /\ finish(e)
             /\ retry' = [retry EXCEPT ![e.job] = 0]
             /\ dlq' = [dlq EXCEPT ![e.job] = @ + 1]
    <2>1. /\ NoJobLost'
          /\ stream' \subseteq Entry /\ lastId' \in Nat /\ cursor' \in Int
          /\ pending' \subseteq stream' /\ idle' \subseteq pending'
      BY <1>2, <1>3, <1>6, FinishKeeps
    <2> USE DEF keyVars, purgeVars
    <2>2. StoresTypeOK' /\ PostTypeOK'
      <3>1. retry \in [Jobs -> Nat] /\ dlq \in [Jobs -> Nat]
        BY <1>1 DEF StoresTypeOK
      <3>2. retry' \in [Jobs -> Nat] /\ dlq' \in [Jobs -> Nat]
        BY SMT, <1>2, <1>6, <3>1
      <3> QED
        BY <1>1, <1>3, <2>1, <3>2 DEF StoresTypeOK, PostTypeOK, postVars
    <2>3. DeadLettersFailed'
      BY <1>1, <1>2, <1>3, <1>6 DEF StoresInv, DeadLettersFailed, StoresTypeOK, Proper
    <2>4. ReceiptsFollow' /\ PurgeTimesAgree' /\ PurgeLoggedOnce' /\ StoresGrow
      BY <1>1, <1>3 DEF StoresInv, ReceiptsFollow, PurgeTimesAgree, PurgeLoggedOnce,
                        StoresGrow, Destroyed
    <2> QED
      BY <1>4, <2>1, <2>2, <2>3, <2>4, Assemble DEF StoresInv
  <1> QED
    <2>1. retry[e.job] + 1 \in Nat
      BY SMT, <1>1, <1>2 DEF StoresTypeOK
    <2> QED
      BY <1>1, <1>2, <1>3, <1>5, <1>6, <2>1 DEF settle, StoresTypeOK

-----------------------------------------------------------------------------
(* The workers' loop.                                                      *)

(* Start, Claim and Read, their replies lost or not, change the stream's   *)
(* bookkeeping, never an entry.                                            *)
LEMMA LoopInv ==
  ASSUME NEW w \in Workers, IInv, UNCHANGED postVars,
         Start(w) \/ Claim(w) \/ Read(w) \/ FetchLost(w)
  PROVE  IInv'
  <1>1. /\ WorkerTypeOK /\ StoresTypeOK /\ PostTypeOK /\ NoJobLost /\ Local(w) /\ Shared(w)
    BY Facts
  <1>2. UNCHANGED <<mem, deadVars, events, keyVars, outputs, purgeVars, accepts, policy>>
    BY DEF Start, Claim, Read, FetchLost, Fetch
  <1>3. /\ UNCHANGED <<stream, lastId>> /\ cursor' \in Int
        /\ pending' \subseteq stream /\ idle' \subseteq pending'
    BY SMT, <1>1 DEF Start, Claim, Read, FetchLost, ensureGroup, XAutoClaim, XReadGroup, Undelivered,
                StoresTypeOK
  <1> USE DEF deadVars, keyVars, purgeVars
  <1>4. StoresTypeOK' /\ PostTypeOK'
    BY <1>1, <1>2, <1>3 DEF StoresTypeOK, PostTypeOK, postVars
  <1>5. StoresInv' /\ StoresGrow
    BY <1>2, FrameKeeps
  <1>6. NoJobLost'
    BY <1>1, <1>2, <1>3 DEF NoJobLost, postVars
  <1>7. WorkerTypeOK' /\ OthersSame(w) /\ Local(w)' /\ Shared(w)'
    <2>1. CASE Start(w)
      <3>1. pc[w] = "down" /\ Moves(w, "loop", cur[w], result[w], stamp[w])
        BY <1>1, <2>1, StepMoves DEF Start, PCs
      <3>2. result[w] = None
        BY <1>1, <3>1 DEF Local, Trying
      <3> QED
        BY <1>1, <3>1, <3>2 DEF Moves, Local, Shared, Idling, Trying, Committed
    <2>2. CASE /\ crashes' \in Nat
               /\ \E from, to \in {"claim", "read"}, msgs \in SUBSET Entry :
                    Fetch(w, from, to, msgs)
      <3>1. PICK from \in {"claim", "read"}, to \in {"claim", "read"}, msgs \in SUBSET Entry :
               Fetch(w, from, to, msgs)
        BY <2>2
      <3>2. WorkerTypeOK'
        BY <1>1, <2>2, <3>1 DEF Fetch, WorkerTypeOK
      <3>3. UNCHANGED <<pc, cur, result, stamp>>
        BY <3>1 DEF Fetch
      <3>4. OthersSame(w) /\ Local(w)' /\ Shared(w)'
        BY <1>5, <3>3, WorkerKeeps DEF OthersSame
      <3> QED
        BY <3>2, <3>3, <3>4
    <2>3. idle \in SUBSET Entry /\ Undelivered \in SUBSET Entry /\ {} \in SUBSET Entry
      BY <1>1 DEF StoresTypeOK, Undelivered
    <2>4. ~Start(w) => crashes' \in Nat
      BY SMT, <1>1 DEF Claim, Read, FetchLost, Lose, WorkerTypeOK
    <2> QED
      BY <2>1, <2>2, <2>3, <2>4 DEF Claim, Read, FetchLost
  <1> QED
    BY <1>4, <1>5, <1>6, <1>7, Assemble

(* A process that ends leaves the stores as they are.                      *)
LEMMA CrashInv ==
  ASSUME NEW w \in Workers, IInv, UNCHANGED postVars, Crash(w)
  PROVE  IInv'
  <1>1. WorkerTypeOK /\ crashes' \in Nat /\ UNCHANGED storeVars
    BY SMT, Facts DEF Crash, WorkerTypeOK
  <1>2. WorkerTypeOK' /\ OthersSame(w) /\ Local(w)' /\ Shared(w)'
    BY <1>1, IdleMoves DEF Crash
  <1> QED
    BY <1>1, <1>2, StoresKeep, Assemble

(* Time passing changes only which entries are idle.                       *)
LEMMA BecomeIdleInv ==
  ASSUME IInv, UNCHANGED postVars, NEW e \in pending, BecomeIdle(e)
  PROVE  IInv'
  <1>1. StoresTypeOK /\ PostTypeOK /\ NoJobLost
    BY DEF IInv, TypeOK
  <1>2. StoresTypeOK' /\ PostTypeOK' /\ NoJobLost'
    BY <1>1 DEF BecomeIdle, StoresTypeOK, PostTypeOK, NoJobLost, postVars, deadVars, keyVars, purgeVars
  <1>3. StoresInv' /\ StoresGrow
    BY FrameKeeps DEF BecomeIdle, deadVars
  <1> QED
    BY <1>2, <1>3, AssembleIdle DEF BecomeIdle

-----------------------------------------------------------------------------
(* The control plane.                                                      *)

(* Deleting the key row of a refused request takes its destruction along.  *)
LEMMA DeleteKeyRowKeeps ==
  ASSUME IInv, NEW j \in Jobs, DeleteKeyRow(j), UNCHANGED <<deadVars, events, outputs, purgeVars>>
  PROVE  /\ StoresInv' /\ StoresGrow
         /\ keyRow' \in [Jobs -> Nat] /\ keyGen' \in [Jobs -> Nat]
         /\ destroyedAt' \in [Jobs -> Times \cup {None}]
  <1>1. StoresTypeOK /\ StoresInv
    BY DEF IInv, TypeOK, StoresInv
  <1>2. /\ keyRow' \in [Jobs -> Nat] /\ keyGen' \in [Jobs -> Nat]
        /\ destroyedAt' \in [Jobs -> Times \cup {None}]
        /\ \A i \in Jobs : \/ keyRow'[i] = keyRow[i] /\ destroyedAt'[i] = destroyedAt[i]
                           \/ keyRow'[i] = 0 /\ destroyedAt'[i] = None
    BY <1>1 DEF DeleteKeyRow, StoresTypeOK
  <1>3. UNCHANGED <<dlq, events, outputs, receipts, logged>>
    BY DEF deadVars, purgeVars
  <1>4. ReceiptsFollow' /\ PurgeTimesAgree'
    BY <1>1, <1>2, <1>3 DEF StoresInv, ReceiptsFollow, PurgeTimesAgree, Destroyed, Proper
  <1>5. DeadLettersFailed' /\ PurgeLoggedOnce' /\ StoresGrow
    BY <1>1, <1>3 DEF StoresInv, DeadLettersFailed, PurgeLoggedOnce, StoresGrow
  <1> QED
    BY <1>2, <1>4, <1>5 DEF StoresInv

(* XADD: the job has an entry from then on.                                *)
LEMMA EnqueueKeeps ==
  ASSUME IInv, NEW j \in Jobs, enqueue(j), entered' = entered \cup {j}, UNCHANGED outputs
  PROVE  /\ NoJobLost'
         /\ stream' \subseteq Entry /\ lastId' \in Nat /\ cursor' \in Int
         /\ pending' \subseteq stream' /\ idle' \subseteq pending'
  <1>1. StoresTypeOK /\ NoJobLost
    BY DEF IInv, TypeOK
  <1>2. stream \subseteq stream' /\ \E e \in stream' : e.job = j
    <2>1. [id |-> lastId + 1, job |-> j] \in stream' /\ [id |-> lastId + 1, job |-> j].job = j
      BY DEF enqueue
    <2> QED
      BY <2>1 DEF enqueue
  <1>3. NoJobLost'
    BY <1>1, <1>2 DEF NoJobLost
  <1> QED
    BY SMT, <1>1, <1>3 DEF StoresTypeOK, enqueue, Entry

(* Every step of a handler preserves the invariant.                        *)
LEMMA PostInv ==
  ASSUME IInv, PostNext, UNCHANGED workerVars
  PROVE  IInv'
  <1>1. StoresTypeOK /\ PostTypeOK /\ NoJobLost
    BY DEF IInv, TypeOK
  <1>2. PICK j \in Jobs :
          \/ Accept(j) \/ AddKey(j) \/ SendAdd(j) \/ ApplyAdd(j) \/ Queued(j)
          \/ AddError(j) \/ DropKey(j) \/ DropAccept(j) \/ PostCrash(j)
          \/ ForeignAdd(j)
    BY DEF PostNext
  <1> SUFFICES StoresTypeOK' /\ PostTypeOK' /\ StoresInv' /\ NoJobLost' /\ StoresGrow
    BY AssembleIdle
  <1>3. PostTypeOK'
    BY SMT, <1>1, <1>2 DEF PostTypeOK, Handler, Accept, AddKey, SendAdd, ApplyAdd, Queued,
           AddError, DropKey, DropAccept, PostCrash, ForeignAdd
  <1> USE DEF streamVars, deadVars, keyVars, purgeVars
  <1>4. CASE UNCHANGED entered /\ UNCHANGED <<streamVars, mem, deadVars, events, keyVars, outputs, purgeVars, policy>>
             /\ accepts' \subseteq Jobs
    <2>1. StoresTypeOK' /\ NoJobLost'
      BY <1>1, <1>4 DEF StoresTypeOK, NoJobLost
    <2> QED
      BY <1>3, <1>4, <2>1, FrameKeeps
  <1>5. CASE /\ Ensure(j) \/ DeleteKeyRow(j)
             /\ UNCHANGED <<entered, streamVars, mem, deadVars, events, outputs, purgeVars, accepts, policy>>
    <2>1. /\ StoresInv' /\ StoresGrow
          /\ keyRow' \in [Jobs -> Nat] /\ keyGen' \in [Jobs -> Nat]
          /\ destroyedAt' \in [Jobs -> Times \cup {None}]
      BY <1>1, <1>5, EnsureKeeps, DeleteKeyRowKeeps DEF StoresTypeOK
    <2>2. StoresTypeOK' /\ NoJobLost'
      BY <1>1, <1>5, <2>1 DEF StoresTypeOK, NoJobLost
    <2> QED
      BY <1>3, <2>1, <2>2
  <1>6. CASE /\ enqueue(j) /\ entered' = entered \cup {j} /\ (Ensure(j) \/ UNCHANGED keyVars)
             /\ UNCHANGED <<mem, deadVars, events, outputs, purgeVars, accepts, policy>>
    <2>1. /\ NoJobLost'
          /\ stream' \subseteq Entry /\ lastId' \in Nat /\ cursor' \in Int
          /\ pending' \subseteq stream' /\ idle' \subseteq pending'
      BY <1>6, EnqueueKeeps
    <2>2. /\ StoresInv' /\ StoresGrow
          /\ keyRow' \in [Jobs -> Nat] /\ keyGen' \in [Jobs -> Nat]
          /\ destroyedAt' = destroyedAt
      BY <1>1, <1>6, EnsureKeeps, FrameKeeps DEF StoresTypeOK
    <2>3. StoresTypeOK'
      BY <1>1, <1>6, <2>1, <2>2 DEF StoresTypeOK
    <2> QED
      BY <1>3, <2>1, <2>2, <2>3
  <1>7. CASE Accept(j) \/ DropAccept(j)
    <2>1. UNCHANGED entered /\ accepts' \subseteq Jobs
          /\ UNCHANGED <<streamVars, mem, deadVars, events, keyVars, outputs, purgeVars, policy>>
      BY <1>1, <1>7 DEF Accept, DropAccept, Handler, StoresTypeOK
    <2> QED
      BY <1>4, <2>1
  <1>8. CASE SendAdd(j) \/ Queued(j) \/ AddError(j) \/ PostCrash(j)
    <2>1. UNCHANGED entered /\ UNCHANGED storeVars
      BY <1>8 DEF SendAdd, Queued, AddError, PostCrash, Handler
    <2> QED
      BY <1>1, <1>4, <2>1 DEF storeVars, StoresTypeOK
  <1>9. CASE AddKey(j) \/ DropKey(j)
    <2>1. CASE UNCHANGED keyVars
      BY <1>1, <1>4, <1>9, <2>1 DEF AddKey, DropKey, Handler, StoresTypeOK
    <2> QED
      BY <1>5, <1>9, <2>1 DEF AddKey, DropKey, Handler
  <1>10. CASE ApplyAdd(j) \/ ForeignAdd(j)
    BY <1>6, <1>10 DEF ApplyAdd, ForeignAdd
  <1> QED
    BY <1>2, <1>7, <1>8, <1>9, <1>10

-----------------------------------------------------------------------------
(* The invariant.                                                          *)

(* The initial state satisfies it.                                         *)
LEMMA InitInv == Init => IInv
  <1> SUFFICES ASSUME Init PROVE IInv
    OBVIOUS
  <1> USE StoresAssumption
  <1>1. TypeOK
    BY SMT DEF Init, StoresInit, PostInit, WorkerInit, TypeOK, StoresTypeOK, PostTypeOK,
           WorkerTypeOK, Entry, PCs, NoGroup
  <1>2. \A w \in Workers : Local(w) /\ Shared(w)
    BY DEF Init, WorkerInit, Local, Shared, Idling, Trying, Committed
  <1>3. ReceiptsFollow /\ DeadLettersFailed /\ PurgeTimesAgree /\ PurgeLoggedOnce
    BY SMT DEF Init, StoresInit, ReceiptsFollow, DeadLettersFailed, PurgeTimesAgree,
           PurgeLoggedOnce, Destroyed, Proper
  <1>4. NoJobLost
    BY DEF Init, PostInit, NoJobLost
  <1> QED
    BY <1>1, <1>2, <1>3, <1>4 DEF IInv

(* Every step preserves it.                                                *)
LEMMA NextInv == IInv /\ [Next]_vars => IInv'
  <1> SUFFICES ASSUME IInv, [Next]_vars PROVE IInv'
    OBVIOUS
  <1>1. CASE PostNext /\ UNCHANGED workerVars
    BY <1>1, PostInv
  <1>2. CASE WorkerNext /\ UNCHANGED postVars
    <2>1. ASSUME NEW w \in Workers,
                 \/ Start(w) \/ Crash(w) \/ Claim(w) \/ Read(w) \/ Work(w)
                 \/ FetchLost(w) \/ SettleAgain(w)
          PROVE  IInv'
      <3>1. CASE Start(w) \/ Crash(w) \/ Claim(w) \/ Read(w) \/ FetchLost(w) \/ SettleAgain(w)
        BY <1>2, <3>1, LoopInv, CrashInv, SettleInv
      <3>2. CASE Work(w)
        BY <1>2, <3>2, DispatchInv, HandleInv, PeekInv, RecordInv, WriteReceiptInv, DestroyInv,
           DropCheckpointInv, PublishInv, SettleInv, FinishInv DEF Work
      <3> QED
        BY <2>1, <3>1, <3>2
    <2>2. ASSUME NEW e \in pending, BecomeIdle(e) PROVE IInv'
      BY <1>2, <2>2, BecomeIdleInv
    <2> QED
      BY <1>2, <2>1, <2>2 DEF WorkerNext
  <1>3. CASE PutPolicy /\ UNCHANGED <<postVars, workerVars>>
    <2>1. StoresTypeOK' /\ PostTypeOK' /\ NoJobLost'
      BY SMT, <1>3, StoresAssumption DEF IInv, TypeOK, PutPolicy, StoresTypeOK, PostTypeOK, NoJobLost,
             postVars, streamVars, deadVars, keyVars, purgeVars
    <2>2. StoresInv' /\ StoresGrow
      BY <1>3, FrameKeeps DEF PutPolicy, deadVars
    <2> QED
      BY <1>3, <2>1, <2>2, AssembleIdle
  <1>4. CASE UNCHANGED vars
    BY <1>4, StoresKeep, AssembleIdle DEF vars
  <1> QED
    BY <1>1, <1>2, <1>3, <1>4 DEF Next

(* The inductive invariant holds throughout.                               *)
THEOREM Invariant == Spec => []IInv
  BY InitInv, NextInv, PTL DEF Spec

(* Every store row, message, key and worker register keeps its type.       *)
THEOREM TypeCorrect == Spec => []TypeOK
  <1>1. IInv => TypeOK
    BY DEF IInv
  <1> QED
    BY Invariant, <1>1, PTL

(* No job that entered the stream is lost: finish and settle acknowledge   *)
(* only entries of jobs whose result is in the journal.                    *)
THEOREM NothingLost == Spec => []NoJobLost
  <1>1. IInv => NoJobLost
    BY DEF IInv
  <1> QED
    BY Invariant, <1>1, PTL

(* purge.run destroys only what commitJob has journaled before.            *)
THEOREM PurgeFollowsJournal == Spec => []PurgedOnlyIfJournaled
  <1>1. IInv => PurgedOnlyIfJournaled
    <2> SUFFICES ASSUME IInv, NEW j \in Proper \ FailingJobs,
                        receipts[j] # None \/ Destroyed(j) \/ dlq[j] > 0
                 PROVE  outputs[j] # None
      BY DEF PurgedOnlyIfJournaled
    <2>1. Destroyed(j) => receipts[j] # None
      BY DEF IInv, PurgeTimesAgree, Destroyed
    <2> QED
      BY <2>1 DEF IInv, ReceiptsFollow, DeadLettersFailed, Proper
  <1> QED
    BY Invariant, <1>1, PTL

(* The receipt's time is the key's time of destruction, whichever workers  *)
(* ran the purge.                                                          *)
THEOREM OnePurgeTime == Spec => []PurgeTimesAgree
  <1>1. IInv => PurgeTimesAgree
    BY DEF IInv
  <1> QED
    BY Invariant, <1>1, PTL

(* No interleaving of workers announces or dead-letters a job against its  *)
(* journal row.                                                            *)
THEOREM AnnouncedAgrees == Spec => []AnnouncedIsJournaled
  <1>1. IInv => AnnouncedIsJournaled
    <2> SUFFICES ASSUME IInv, NEW j \in Proper \ FailingJobs
                 PROVE  /\ events[j] \cap {"COMPLETED", "FAILED"} # {} =>
                             outputs[j] # None /\ events[j] \subseteq {"RUNNING", outputs[j].state}
                        /\ dlq[j] > 0 => outputs[j] # None /\ outputs[j].state = "FAILED"
      BY DEF AnnouncedIsJournaled
    <2>1. events[j] \subseteq IF outputs[j] = None THEN {"RUNNING"} ELSE {"RUNNING", outputs[j].state}
      BY DEF IInv, ReceiptsFollow, Proper
    <2> QED
      BY <2>1 DEF IInv, DeadLettersFailed
  <1> QED
    BY Invariant, <1>1, PTL

(* InsertReceipt's transaction logs a purge once.                          *)
THEOREM LoggedOnce == Spec => []PurgeLoggedOnce
  <1>1. IInv => PurgeLoggedOnce
    BY DEF IInv
  <1> QED
    BY Invariant, <1>1, PTL

-----------------------------------------------------------------------------
(* The pipeline implements JobLifecycle.                                   *)

lifecycle == <<outputs, receipts, [j \in Jobs |-> events[j] \ {"RUNNING"}]>>

(* A step that leaves results, receipts and events alone is a stutter.     *)
LEMMA LifecycleStutter ==
  ASSUME UNCHANGED <<events, outputs, receipts>>
  PROVE  UNCHANGED lifecycle
  BY DEF lifecycle

(* Every step is a step of the lifecycle or leaves it alone: RecordResult  *)
(* decides, WriteReceipt purges, PublishResult tells.                      *)
LEMMA LifecycleStep ==
  ASSUME IInv, [Next]_vars
  PROVE  Lifecycle!Next \/ UNCHANGED lifecycle
  <1> DEFINE Still == UNCHANGED <<events, outputs, receipts>>
  <1> USE DEF purgeVars
  <1>1. CASE PostNext /\ UNCHANGED workerVars
    <2>1. Still
      BY <1>1 DEF PostNext, Accept, AddKey, SendAdd, ApplyAdd, Queued, AddError, DropKey,
             DropAccept, PostCrash, ForeignAdd, storeVars
    <2> QED
      BY <2>1, LifecycleStutter
  <1>2. CASE PutPolicy /\ UNCHANGED <<postVars, workerVars>>
    <2>1. Still
      BY <1>2 DEF PutPolicy
    <2> QED
      BY <2>1, LifecycleStutter
  <1>3. CASE UNCHANGED vars
    <2>1. Still
      BY <1>3 DEF vars, storeVars
    <2> QED
      BY <2>1, LifecycleStutter
  <1>4. ASSUME NEW w \in Workers, RecordResult(w)
        PROVE  Lifecycle!Next \/ UNCHANGED lifecycle
    <2>1. /\ pc[w] = "record" /\ StoresTypeOK /\ Job(w) \in Jobs /\ result[w] \in Results
          /\ UNCHANGED <<events, receipts>>
      BY <1>4, Facts, ResultFacts DEF RecordResult, Local, Idling, WorkerTypeOK
    <2>2. CASE outputs[Job(w)] = None /\ Record(Job(w), result[w])
      <3>1. outputs' = [outputs EXCEPT ![Job(w)] = result[w]]
        BY <2>1, <2>2 DEF Record
      <3>2. Lifecycle!Decide(Job(w), result[w])
        BY <2>1, <2>2, <3>1 DEF Lifecycle!Decide
      <3> QED
        BY <2>1, <3>2 DEF Lifecycle!Next
    <2>3. CASE outputs' = outputs
      BY <2>1, <2>3, LifecycleStutter
    <2>4. CASE outputs[Job(w)] # None /\ Record(Job(w), result[w])
      <3>1. outputs' = outputs
        BY <2>1, <2>4 DEF Record, StoresTypeOK
      <3> QED
        BY <2>3, <3>1
    <2> QED
      BY <1>4, <2>2, <2>3, <2>4 DEF RecordResult
  <1>5. ASSUME NEW w \in Workers, WriteReceipt(w)
        PROVE  Lifecycle!Next \/ UNCHANGED lifecycle
    <2>1. /\ StoresTypeOK /\ Job(w) \in Jobs /\ stamp[w] \in Times /\ outputs[Job(w)] # None
          /\ UNCHANGED <<events, outputs>>
          /\ receipts' = [receipts EXCEPT ![Job(w)] = IF @ = None THEN stamp[w] ELSE @]
      BY <1>5, Facts DEF WriteReceipt, Local, Shared, Idling, Committed, InsertReceipt
    <2>2. CASE receipts[Job(w)] = None
      <3>1. receipts' = [receipts EXCEPT ![Job(w)] = stamp[w]]
        BY <2>1, <2>2
      <3>2. Lifecycle!Purge(Job(w), stamp[w])
        BY <2>1, <2>2, <3>1 DEF Lifecycle!Purge
      <3> QED
        BY <2>1, <3>2 DEF Lifecycle!Next
    <2>3. CASE receipts[Job(w)] # None
      <3>1. receipts' = receipts
        BY <2>1, <2>3 DEF StoresTypeOK
      <3> QED
        BY <2>1, <3>1, LifecycleStutter
    <2> QED
      BY <2>2, <2>3
  <1>6. ASSUME NEW w \in Workers, PublishResult(w)
        PROVE  Lifecycle!Next \/ UNCHANGED lifecycle
    <2> DEFINE announced == [j \in Jobs |-> events[j] \ {"RUNNING"}]
    <2>1. /\ pc[w] = "publish" /\ StoresTypeOK /\ StoresInv /\ Job(w) \in Jobs
          /\ result[w] \in Results /\ outputs[Job(w)] = result[w] /\ result[w] # None
          /\ UNCHANGED <<outputs, receipts>>
          /\ events' = [events EXCEPT ![Job(w)] = @ \cup {result[w].state}]
      BY <1>6, Facts DEF PublishResult, Step, Publish, Local, Shared, Idling, Committed, WorkerTypeOK
    <2>2. result[w].state \in {"COMPLETED", "FAILED"}
      BY <2>1 DEF Results
    <2>3. events[Job(w)] \subseteq {"RUNNING", result[w].state}
      BY <2>1 DEF StoresInv, ReceiptsFollow
    <2>4. events'[Job(w)] \ {"RUNNING"} = {result[w].state}
      BY <2>1, <2>2, <2>3 DEF StoresTypeOK
    <2>5. \A j \in Jobs : j # Job(w) => events'[j] = events[j]
      BY <2>1 DEF StoresTypeOK
    <2>6. announced' = [announced EXCEPT ![Job(w)] = {outputs[Job(w)].state}]
      BY <2>1, <2>4, <2>5
    <2>7. PICK j \in Jobs : j = Job(w)
      BY <2>1
    <2>8. Lifecycle!Tell(j)
      BY <2>1, <2>6, <2>7 DEF Lifecycle!Tell
    <2> QED
      BY <2>8 DEF Lifecycle!Next
  <1>7. ASSUME NEW w \in Workers, PublishRunning(w)
        PROVE  UNCHANGED lifecycle
    <2>1. /\ StoresTypeOK /\ Job(w) \in Jobs /\ UNCHANGED <<outputs, receipts>>
          /\ events' = [events EXCEPT ![Job(w)] = @ \cup {"RUNNING"}]
      BY <1>7, Facts DEF PublishRunning, Publish, Idling
    <2>2. \A j \in Jobs : events'[j] \ {"RUNNING"} = events[j] \ {"RUNNING"}
      BY <2>1 DEF StoresTypeOK
    <2> QED
      BY <2>1, <2>2 DEF lifecycle
  <1>8. ASSUME NEW w \in Workers,
               \/ Start(w) \/ Crash(w) \/ Claim(w) \/ Read(w) \/ Work(w)
               \/ FetchLost(w) \/ SettleAgain(w)
        PROVE  Lifecycle!Next \/ UNCHANGED lifecycle
    <2>1. \/ RecordResult(w) \/ WriteReceipt(w) \/ PublishResult(w) \/ PublishRunning(w) \/ Still
      <3>1. CASE Start(w) \/ Crash(w) \/ Claim(w) \/ Read(w) \/ FetchLost(w) \/ SettleAgain(w)
        BY <3>1 DEF Start, Crash, Claim, Read, FetchLost, SettleAgain, Fetch, storeVars
      <3>2. CASE \E e \in todo[w] :
                   DispatchNoInput(w, e) \/ DispatchNoTenant(w, e) \/ Dispatch(w, e)
        BY <3>2 DEF DispatchNoInput, DispatchNoTenant, Dispatch, storeVars
      <3>3. CASE \/ LoadCheckpoint(w) \/ OpenCheckpoint(w) \/ OpenInput(w)
                 \/ Run(w) \/ RunFails(w) \/ SealPartial(w) \/ SaveStep1(w)
        BY <3>3 DEF LoadCheckpoint, OpenCheckpoint, OpenInput, Run, RunFails, SealPartial,
               SaveStep1, storeVars
      <3>4. CASE Peek(w) \/ GetReceipt(w) \/ DestroyKey(w) \/ DropCheckpoint(w) \/ Settle(w) \/ Finish(w)
        BY <3>4 DEF Peek, GetReceipt, DestroyKey, DropCheckpoint, Settle, Finish, storeVars
      <3> QED
        BY <1>8, <3>1, <3>2, <3>3, <3>4 DEF Work
    <2>2. CASE RecordResult(w)
      BY <1>4, <2>2
    <2>3. CASE WriteReceipt(w)
      BY <1>5, <2>3
    <2>4. CASE PublishResult(w)
      BY <1>6, <2>4
    <2>5. CASE PublishRunning(w)
      BY <1>7, <2>5
    <2>6. CASE Still
      BY <2>6, LifecycleStutter
    <2> QED
      BY <2>1, <2>2, <2>3, <2>4, <2>5, <2>6
  <1>9. ASSUME NEW e \in pending, BecomeIdle(e) PROVE UNCHANGED lifecycle
    BY <1>9, LifecycleStutter DEF BecomeIdle
  <1> QED
    BY <1>1, <1>2, <1>3, <1>8, <1>9 DEF Next, WorkerNext

(* Results and receipts are written once and in that order, and only the   *)
(* result's state is told, for any number of jobs, workers and crashes.    *)
THEOREM Refinement == Spec => LifecycleSpec
  <1>1. Init => Lifecycle!Init
    BY DEF Init, StoresInit, Lifecycle!Init
  <1>2. IInv /\ [Next]_vars => [Lifecycle!Next]_lifecycle
    BY LifecycleStep
  <1> QED
    BY <1>1, <1>2, Invariant, PTL DEF Spec, LifecycleSpec, Lifecycle!Spec, lifecycle

-----------------------------------------------------------------------------
(* The second invariant: what the handlers, the entries and the messages   *)
(* in the workers' hands say of a job's keys.                              *)

(* The job's row is its first key's: its handler has not failed, or it has *)
(* none.                                                                   *)
Kept(j) == post[j] \in {"keyed", "queued"} \/ (j \in Foreign /\ post[j] = "gone")

(* The key the input is sealed with can be read.                           *)
FirstLive(j) == keyRow[j] = 1 /\ destroyedAt[j] = None

(* What jobs.Add, its errors and its clean-up leave true.                  *)
HandlerInv ==
  \A j \in Jobs :
    /\ post[j] \in {"new", "accepted"} =>
         j \notin entered /\ inflight[j] = 0 /\ keyRow[j] = 0 /\ keyGen[j] = 0
    /\ j \in Foreign => post[j] \in {"new", "gone"} /\ inflight[j] = 0
    /\ Kept(j) => keyRow[j] = 1 /\ keyGen[j] > 0
    /\ j \in entered \/ inflight[j] > 0 => keyGen[j] > 0
    /\ ~AddFails => keyRow[j] = keyGen[j] /\ keyGen[j] <= 1 /\ post[j] # "dropKey"

(* Ids grow, and whatever a worker has was in the stream.                  *)
EntriesInv ==
  /\ cursor <= lastId
  /\ \A e \in stream : e.job \in entered /\ e.id <= lastId
  /\ \A e \in pending : e.id <= cursor
  /\ \A j \in Jobs : outputs[j] # None => j \in entered
  /\ \A w \in Workers :
       /\ \A e \in todo[w] : e.job \in entered /\ e.id <= cursor
       /\ pc[w] \notin Idling => Job(w) \in entered /\ cur[w].id <= cursor

(* A job whose row is its first key's is not buried for want of its key.   *)
Fair == {"ran", "runner_failed"}
ReasonsInv ==
  /\ \A j \in Jobs : post[j] \in {"keyed", "queued"} /\ outputs[j] # None => outputs[j].why \in Fair
  /\ \A w \in Workers :
       pc[w] \notin Idling /\ result[w] # None /\ post[Job(w)] \in {"keyed", "queued"} =>
         result[w].why \in Fair

(* What is so of a job before its entry is acknowledged, and after.        *)
Purged(j) ==
  /\ j \in Proper \ FailingJobs => receipts[j] # None /\ ~FirstLive(j)
  /\ j \in NoTenant \ NoInput => Destroyed(j)

PurgedInv ==
  /\ \A w \in Workers : pc[w] \in {"drop", "publish", "finish", "settle"} => Purged(Job(w))
  /\ \A w \in Workers : pc[w] = "settle" /\ Job(w) \in NoTenant => result[w].why = "missing_tenant"
  /\ \A j \in Jobs : Acked(j) => Purged(j) /\ (j \in NoTenant \ NoInput => dlq[j] > 0)

KInv == HandlerInv /\ EntriesInv /\ ReasonsInv /\ PurgedInv

-----------------------------------------------------------------------------
(* The third: who has which entry when no live worker's entry is handed to *)
(* another one.                                                            *)

(* What a worker has.                                                      *)
Own(w) == IF pc[w] \in Idling THEN todo[w] ELSE todo[w] \cup {cur[w]}

(* Its entry is acknowledged, and the reply that said so was lost.         *)
Spent(w) == pc[w] = "settle" /\ LoseReplies /\ cur[w] \notin stream

(* It alone has it, and no one may claim it.                               *)
ExclusiveInv ==
  \A w \in Workers :
    /\ \A v \in Workers \ {w} : Own(v) \cap Own(w) = {}
    /\ todo[w] \subseteq pending \ idle
    /\ pc[w] \notin Idling => cur[w] \notin todo[w] /\ (cur[w] \in pending \ idle \/ Spent(w))

(* Someone will still come past the step after which w is in past.         *)
Awaits(j, past) ==
  \E e \in stream : e.job = j /\ \A w \in Workers : pc[w] \in past => cur[w] # e

CheckpointInv ==
  \A j \in Proper \ FailingJobs :
    /\ mem[j] # 0 => Awaits(j, {"publish", "finish", "settle"})
    /\ Live(j) /\ j \in entered => Awaits(j, {"drop", "publish", "finish", "settle"})

XInv == ~StealLive => ExclusiveInv /\ CheckpointInv

-----------------------------------------------------------------------------
(* The fourth: a failing job when nothing is sent, handed out or settled   *)
(* twice.                                                                  *)
NoDuplicates == ~StealLive /\ ~LoseReplies /\ ~AddFails /\ MaxSends <= 1

(* A job is sent and entered once, and has one entry at a time.            *)
SendsInv ==
  \A j \in Jobs :
    /\ sends[j] <= 1 /\ inflight[j] <= sends[j]
    /\ j \in entered => inflight[j] = 0 /\ (j \in Foreign \/ sends[j] = 1)

OneEntry == \A d, e \in stream : d.job = e.job => d = e

(* A failing job in the stores, and in a worker's hands.                   *)
Attempted(j) ==
  /\ retry[j] <= 2 /\ dlq[j] <= 1
  /\ dlq[j] > 0 => Acked(j)
  /\ outputs[j] # None => outputs[j].state = "FAILED"
  /\ Acked(j) => outputs[j] # None /\ Destroyed(j)

Attempting(w) ==
  /\ result[w] # None => result[w].state = "FAILED"
  /\ pc[w] = "peek" => result[w].why = "ran"
  /\ pc[w] \in {"drop", "publish", "finish"} => Destroyed(Job(w))
  /\ pc[w] = "settle" => \/ outputs[Job(w)] # None /\ Destroyed(Job(w))
                         \/ result[w].why = "ran" /\ retry[Job(w)] <= 1

AttemptsInv ==
  /\ SendsInv /\ OneEntry
  /\ \A j \in FailingJobs \cap Proper : Attempted(j)
  /\ \A w \in Workers :
       pc[w] \notin Idling /\ Job(w) \in FailingJobs \cap Proper => Attempting(w)

TInv == NoDuplicates => AttemptsInv

-----------------------------------------------------------------------------
(* The shapes of a worker's step.                                          *)

WorkerStep(w) ==
  \/ Start(w) \/ Crash(w) \/ Claim(w) \/ Read(w) \/ Work(w)
  \/ FetchLost(w) \/ SettleAgain(w)

(* After the step w is at label, with message m, result r and batch b, and *)
(* the other workers are where they were.                                  *)
Shift(w, label, m, r, b) ==
  /\ pc'[w] = label /\ cur'[w] = m /\ result'[w] = r /\ todo'[w] = b
  /\ \A v \in Workers \ {w} :
       pc'[v] = pc[v] /\ cur'[v] = cur[v] /\ result'[v] = result[v] /\ todo'[v] = todo[v]

(* It is done with its message, ends, or starts.                           *)
Leaves(w) ==
  \E label \in Idling, b \in SUBSET todo[w] : \E m, r : Shift(w, label, m, r, b)

(* It has been handed messages.                                            *)
Gets(w) ==
  /\ pc[w] = "loop" /\ todo[w] = {}
  /\ \E b : /\ Shift(w, pc[w], cur[w], result[w], b)
            /\ \/ b = {} /\ (XAutoClaim \/ XReadGroup)
               \/ b = idle /\ XAutoClaim
               \/ b = Undelivered /\ XReadGroup

(* It takes one of its batch.                                              *)
Takes(w, e) ==
  /\ pc[w] = "loop" /\ e \in todo[w]
  /\ \/ /\ Dispatch(w, e)
        /\ \E label \in {"load", "getReceipt"} : Shift(w, label, e, None, todo[w] \ {e})
     \/ /\ DispatchNoTenant(w, e)
        /\ Shift(w, "settle", e, Buried("missing_tenant"), todo[w] \ {e})

(* It goes on with it: on the way to a result, with a result, or after it. *)
Tries(w) ==
  /\ pc[w] \in Trying \ Idling
  /\ \E label \in Trying \ Idling : Shift(w, label, cur[w], result[w], todo[w])

Verdict(w, r, label) ==
  /\ r \in Results
  /\ Job(w) \in FailingJobs => r.state = "FAILED"
  /\ label = "peek" => Job(w) \in FailingJobs /\ r.why = "ran"
  /\ post[Job(w)] \in {"keyed", "queued"} => r.why \in Fair

Concludes(w) ==
  /\ pc[w] \in Trying \ Idling
  /\ \E label \in {"peek", "record"}, r \in Results :
       Verdict(w, r, label) /\ Shift(w, label, cur[w], r, todo[w])

Commits(w) ==
  \E label \in PCs :
    /\ Shift(w, label, cur[w], result[w], todo[w])
    /\ \/ Peek(w) /\ pc[w] = "peek" /\ label \in {"record", "settle"}
       \/ /\ pc[w] \in {"record", "getReceipt", "insertReceipt"}
          /\ label \in {"getReceipt", "insertReceipt", "destroy"}
       \/ DestroyKey(w) /\ pc[w] = "destroy" /\ label = "drop"
       \/ DropCheckpoint(w) /\ pc[w] = "drop" /\ label \in {"finish", "publish"}
       \/ PublishResult(w) /\ pc[w] = "publish" /\ label \in {"finish", "settle"}
       \/ SettleAgain(w) /\ pc[w] = "settle" /\ label = "settle"

(* Step as a shift.                                                        *)
LEMMA StepShifts ==
  ASSUME NEW w \in Workers, WorkerTypeOK, NEW label,
         Goto(w, label), UNCHANGED <<todo, cur, result>>
  PROVE  Shift(w, label, cur[w], result[w], todo[w])
  BY DEF Shift, Goto, WorkerTypeOK

(* Conclude as a shift.                                                    *)
LEMMA ConcludeShifts ==
  ASSUME NEW w \in Workers, WorkerTypeOK, NEW label, NEW r, Conclude(w, r, label)
  PROVE  Shift(w, label, cur[w], r, todo[w])
  BY DEF Shift, Conclude, Goto, WorkerTypeOK

(* Return and Exit as shifts.                                              *)
LEMMA LeaveShifts ==
  ASSUME NEW w \in Workers, WorkerTypeOK, Return(w) \/ Exit(w)
  PROVE  Leaves(w)
  <1>1. CASE Return(w)
    <2>1. Shift(w, "loop", None, None, todo[w])
      BY <1>1 DEF Shift, Return, WorkerTypeOK
    <2> QED
      BY <2>1 DEF Leaves, Idling
  <1>2. CASE Exit(w)
    <2>1. Shift(w, "down", None, None, {})
      BY <1>2 DEF Shift, Exit, WorkerTypeOK
    <2> QED
      BY <2>1 DEF Leaves, Idling
  <1> QED
    BY <1>1, <1>2

(* A burial concludes for a reason the state of the key allows.            *)
LEMMA BuryConcludes ==
  ASSUME NEW w \in Workers, WorkerTypeOK, pc[w] \in Trying \ Idling,
         NEW why \in Reasons, Bury(w, why),
         post[Job(w)] \in {"keyed", "queued"} => why \in Fair
  PROVE  Concludes(w)
  <1>1. /\ Buried(why) \in Results /\ Buried(why).state = "FAILED" /\ Buried(why).why = why
    BY ResultFacts DEF Buried
  <1>2. Shift(w, "record", cur[w], Buried(why), todo[w])
    BY ConcludeShifts DEF Bury
  <1>3. Verdict(w, Buried(why), "record")
    BY <1>1 DEF Verdict
  <1> QED
    BY <1>1, <1>2, <1>3 DEF Concludes

(* What the runner returned concludes.                                     *)
LEMMA RanConcludes ==
  ASSUME NEW w \in Workers, WorkerTypeOK, pc[w] \in Trying \ Idling,
         NEW b \in 0..MaxPolicy, Ran(w, b)
  PROVE  Concludes(w)
  <1>1. /\ Completed(b) \in Results /\ Completed(b).why = "ran"
        /\ Failed(b) \in Results /\ Failed(b).why = "ran" /\ Failed(b).state = "FAILED"
    BY ResultFacts DEF Completed, Failed
  <1>2. CASE Job(w) \in FailingJobs
    <2>1. Shift(w, "peek", cur[w], Failed(b), todo[w])
      BY <1>2, ConcludeShifts DEF Ran
    <2>2. Verdict(w, Failed(b), "peek")
      BY <1>1, <1>2 DEF Verdict, Fair
    <2> QED
      BY <1>1, <2>1, <2>2 DEF Concludes
  <1>3. CASE Job(w) \notin FailingJobs
    <2>1. Shift(w, "record", cur[w], Completed(b), todo[w])
      BY <1>3, ConcludeShifts DEF Ran
    <2>2. Verdict(w, Completed(b), "record")
      BY <1>1, <1>3 DEF Verdict, Fair
    <2> QED
      BY <1>1, <2>1, <2>2 DEF Concludes
  <1> QED
    BY <1>2, <1>3

(* The calls of handle before commitJob.                                   *)
LEMMA HandleShapes ==
  ASSUME NEW w \in Workers, IInv, HandlerInv,
         \/ LoadCheckpoint(w) \/ OpenCheckpoint(w) \/ OpenInput(w) \/ Run(w)
         \/ RunFails(w) \/ SealPartial(w) \/ SaveStep1(w) \/ PublishRunning(w)
  PROVE  Leaves(w) \/ Tries(w) \/ Concludes(w)
  <1>1. /\ WorkerTypeOK /\ StoresTypeOK
        /\ pc[w] \notin Idling => Job(w) \in Jobs
    BY Facts
  <1>2. ASSUME NEW label \in Trying \ Idling, Goto(w, label), UNCHANGED <<todo, cur, result>>,
               pc[w] \in Trying \ Idling
        PROVE  Tries(w)
    BY <1>1, <1>2, StepShifts DEF Tries
  <1>3. ASSUME NEW h, Lookup(w, h), pc[w] \in {"load", "loadKey"}
        PROVE  Tries(w) \/ Concludes(w)
    <2>1. CASE Job(w) \in UnknownType
      <3>1. Job(w) \in Jobs /\ Job(w) \in Foreign /\ Bury(w, "unknown_job_type")
        BY <1>1, <1>3, <2>1 DEF Idling, Foreign, Lookup
      <3>2. post[Job(w)] \notin {"keyed", "queued"}
        BY <3>1 DEF HandlerInv
      <3> QED
        BY <1>1, <1>3, <3>1, <3>2, BuryConcludes DEF Reasons, Trying, Idling
    <2>2. CASE Job(w) \notin UnknownType
      BY <1>2, <1>3, <2>2 DEF Lookup, Trying, Idling
    <2> QED
      BY <2>1, <2>2
  <1>4. CASE LoadCheckpoint(w)
    <2>1. CASE mem[Job(w)] = 0
      BY <1>3, <1>4, <2>1 DEF LoadCheckpoint
    <2>2. CASE mem[Job(w)] # 0
      BY <1>2, <1>4, <2>2 DEF LoadCheckpoint, Trying, Idling
    <2> QED
      BY <2>1, <2>2
  <1>5. CASE OpenCheckpoint(w)
    BY <1>1, <1>3, <1>5, LeaveShifts DEF OpenCheckpoint
  <1>6. CASE OpenInput(w)
    <2>1. pc[w] = "open" /\ pc[w] \in Trying \ Idling /\ Job(w) \in Jobs
      BY <1>1, <1>6 DEF OpenInput, Trying, Idling
    <2>2. CASE Exit(w)
      BY <1>1, <2>2, LeaveShifts
    <2>3. CASE Step(w, "open", "run")
      BY <1>2, <2>1, <2>3 DEF Step, Trying, Idling
    <2>4. CASE keyRow[Job(w)] # 1 /\ \E why \in Reasons : Bury(w, why)
      <3>1. post[Job(w)] \notin {"keyed", "queued"}
        BY <2>1, <2>4 DEF HandlerInv, Kept
      <3> QED
        BY <1>1, <2>1, <2>4, <3>1, BuryConcludes
    <2>5. keyRow[Job(w)] = 0 => keyRow[Job(w)] # 1
      BY SMT
    <2> QED
      BY <1>6, <2>2, <2>3, <2>4, <2>5 DEF OpenInput, Reasons
  <1>7. CASE Run(w)
    <2>1. pc[w] \in Trying \ Idling /\ PolicyOf(Job(w)) \in 0..MaxPolicy
      BY SMTT(30), <1>1, <1>7, StoresAssumption DEF Run, PolicyOf, StoresTypeOK, Trying, Idling
    <2>2. CASE Step(w, "run", "saveKey")
      BY <1>2, <2>1, <2>2 DEF Step, Trying, Idling
    <2>3. CASE Ran(w, PolicyOf(Job(w)))
      BY <1>1, <2>1, <2>3, RanConcludes
    <2> QED
      BY <1>7, <2>2, <2>3 DEF Run
  <1>8. CASE RunFails(w)
    BY <1>1, <1>8, BuryConcludes DEF RunFails, Reasons, Fair, Trying, Idling
  <1>9. CASE SealPartial(w)
    <2>1. CASE Exit(w)
      BY <1>1, <2>1, LeaveShifts
    <2>2. CASE Goto(w, "saveHash") /\ UNCHANGED <<todo, cur, result>> /\ pc[w] = "saveKey"
      BY <1>2, <2>2 DEF Trying, Idling
    <2> QED
      BY <1>9, <2>1, <2>2 DEF SealPartial
  <1>10. CASE SaveStep1(w)
    BY <1>2, <1>10 DEF SaveStep1, Step, Trying, Idling
  <1>11. CASE PublishRunning(w)
    <2>1. 0 \in 0..MaxPolicy /\ pc[w] \in Trying \ Idling /\ Ran(w, 0)
      BY SMT, <1>11, StoresAssumption DEF PublishRunning, Trying, Idling
    <2> QED
      BY <1>1, <2>1, RanConcludes
  <1> QED
    BY <1>4, <1>5, <1>6, <1>7, <1>8, <1>9, <1>10, <1>11

(* The calls of commitJob and after.                                       *)
LEMMA CommitShapes ==
  ASSUME NEW w \in Workers, IInv,
         \/ Peek(w) \/ RecordResult(w) \/ GetReceipt(w) \/ WriteReceipt(w) \/ DestroyKey(w)
         \/ DropCheckpoint(w) \/ PublishResult(w) \/ Settle(w) \/ Finish(w) \/ SettleAgain(w)
  PROVE  Leaves(w) \/ Commits(w)
  <1>1. WorkerTypeOK
    BY Facts
  <1>2. ASSUME NEW label \in PCs, Goto(w, label), UNCHANGED <<todo, cur, result>>
        PROVE  Shift(w, label, cur[w], result[w], todo[w])
    BY <1>1, <1>2, StepShifts
  <1>3. CASE Peek(w)
    BY <1>2, <1>3 DEF Peek, Step, Commits, PCs
  <1>4. CASE RecordResult(w)
    <2>1. CASE Exit(w)
      BY <1>1, <2>1, LeaveShifts
    <2>2. CASE Step(w, "record", "getReceipt")
      BY <1>2, <2>2 DEF Step, Commits, PCs
    <2> QED
      BY <1>4, <2>1, <2>2 DEF RecordResult
  <1>5. CASE GetReceipt(w)
    BY <1>2, <1>5 DEF GetReceipt, Commits, PCs
  <1>6. CASE WriteReceipt(w)
    BY <1>2, <1>6 DEF WriteReceipt, Commits, PCs
  <1>7. CASE DestroyKey(w)
    BY <1>2, <1>7 DEF DestroyKey, Step, Commits, PCs
  <1>8. CASE DropCheckpoint(w)
    BY <1>2, <1>8 DEF DropCheckpoint, Step, Commits, PCs
  <1>9. CASE PublishResult(w)
    BY <1>2, <1>9 DEF PublishResult, Step, Commits, PCs
  <1>10. CASE Settle(w) \/ Finish(w)
    BY <1>1, <1>10, LeaveShifts DEF Settle, Finish
  <1>11. CASE SettleAgain(w)
    <2>1. Shift(w, "settle", cur[w], result[w], todo[w])
      BY <1>11 DEF SettleAgain, Shift
    <2> QED
      BY <1>11, <2>1 DEF SettleAgain, Commits, PCs
  <1> QED
    BY <1>3, <1>4, <1>5, <1>6, <1>7, <1>8, <1>9, <1>10, <1>11

(* Every step of a worker has one of the shapes.                           *)
LEMMA Shapes ==
  ASSUME NEW w \in Workers, IInv, HandlerInv, WorkerStep(w)
  PROVE  \/ Leaves(w) \/ Gets(w) \/ (\E e \in todo[w] : Takes(w, e))
         \/ Tries(w) \/ Concludes(w) \/ Commits(w)
  <1>1. WorkerTypeOK /\ Local(w)
    BY Facts
  <1>2. CASE Start(w)
    <2>1. Shift(w, "loop", cur[w], result[w], todo[w])
      BY <1>1, <1>2, StepShifts DEF Start, Step
    <2> QED
      BY <2>1 DEF Leaves, Idling
  <1>3. CASE Crash(w)
    BY <1>1, <1>3, LeaveShifts DEF Crash
  <1>4. CASE Claim(w) \/ Read(w) \/ FetchLost(w)
    <2>1. ASSUME NEW from, NEW to, NEW b, Fetch(w, from, to, b)
          PROVE  pc[w] = "loop" /\ todo[w] = {} /\ Shift(w, pc[w], cur[w], result[w], b)
      BY <1>1, <2>1 DEF Fetch, Shift, WorkerTypeOK
    <2> QED
      BY <1>4, <2>1 DEF Claim, Read, FetchLost, Gets
  <1>5. CASE \E e \in todo[w] :
               DispatchNoInput(w, e) \/ DispatchNoTenant(w, e) \/ Dispatch(w, e)
    <2>1. PICK e \in todo[w] : DispatchNoInput(w, e) \/ DispatchNoTenant(w, e) \/ Dispatch(w, e)
      BY <1>5
    <2>2. pc[w] = "loop" /\ result[w] = None /\ todo' = [todo EXCEPT ![w] = todo[w] \ {e}]
      BY <1>1, <2>1 DEF DispatchNoInput, DispatchNoTenant, Dispatch, Take, Local, Trying
    <2>3. CASE DispatchNoInput(w, e)
      <3>1. Shift(w, "loop", cur[w], result[w], todo[w] \ {e})
        BY <1>1, <2>2, <2>3 DEF DispatchNoInput, Shift, WorkerTypeOK
      <3> QED
        BY <3>1 DEF Leaves, Idling
    <2>4. CASE DispatchNoTenant(w, e)
      <3>1. Shift(w, "settle", e, Buried("missing_tenant"), todo[w] \ {e})
        BY <1>1, <2>2, <2>4 DEF DispatchNoTenant, Goto, Shift, WorkerTypeOK
      <3> QED
        BY <2>2, <2>4, <3>1 DEF Takes
    <2>5. CASE Dispatch(w, e)
      <3>1. PICK label \in {"load", "getReceipt"} : Goto(w, label)
        BY <2>5 DEF Dispatch
      <3>2. Shift(w, label, e, None, todo[w] \ {e})
        BY <1>1, <2>2, <2>5, <3>1 DEF Dispatch, Goto, Shift, WorkerTypeOK
      <3> QED
        BY <2>2, <2>5, <3>2 DEF Takes
    <2> QED
      BY <2>1, <2>3, <2>4, <2>5
  <1>6. CASE \/ LoadCheckpoint(w) \/ OpenCheckpoint(w) \/ OpenInput(w) \/ Run(w)
             \/ RunFails(w) \/ SealPartial(w) \/ SaveStep1(w) \/ PublishRunning(w)
    BY <1>6, HandleShapes
  <1>7. CASE \/ Peek(w) \/ RecordResult(w) \/ GetReceipt(w) \/ WriteReceipt(w) \/ DestroyKey(w)
             \/ DropCheckpoint(w) \/ PublishResult(w) \/ Settle(w) \/ Finish(w) \/ SettleAgain(w)
    BY <1>7, CommitShapes
  <1> QED
    BY <1>2, <1>3, <1>4, <1>5, <1>6, <1>7 DEF WorkerStep, Work

-----------------------------------------------------------------------------
(* What a step does to the stores.                                         *)

(* The key table.                                                          *)
LEMMA WorkerKeys ==
  ASSUME NEW w \in Workers, WorkerStep(w)
  PROVE  \/ UNCHANGED keyVars
         \/ Ensure(Job(w)) /\ pc[w] \in {"loadKey", "saveKey"}
         \/ Destroy(Job(w), stamp[w]) /\ DestroyKey(w)
         \/ \E e \in todo[w], t \in Times : Destroy(e.job, t) /\ DispatchNoTenant(w, e)
  <1> USE DEF storeVars
  <1>1. CASE \/ Start(w) \/ Crash(w) \/ Claim(w) \/ Read(w) \/ FetchLost(w) \/ SettleAgain(w)
    BY <1>1 DEF Start, Crash, Claim, Read, FetchLost, SettleAgain, Fetch
  <1>2. CASE \E e \in todo[w] :
               DispatchNoInput(w, e) \/ DispatchNoTenant(w, e) \/ Dispatch(w, e)
    BY <1>2 DEF DispatchNoInput, DispatchNoTenant, Dispatch
  <1>3. CASE \/ LoadCheckpoint(w) \/ OpenCheckpoint(w) \/ OpenInput(w) \/ Run(w)
             \/ RunFails(w) \/ SealPartial(w) \/ SaveStep1(w) \/ PublishRunning(w)
    BY <1>3 DEF LoadCheckpoint, OpenCheckpoint, OpenInput, Run, RunFails, SealPartial,
                SaveStep1, PublishRunning
  <1>4. CASE \/ Peek(w) \/ RecordResult(w) \/ GetReceipt(w) \/ WriteReceipt(w) \/ DestroyKey(w)
             \/ DropCheckpoint(w) \/ PublishResult(w) \/ Settle(w) \/ Finish(w)
    BY <1>4 DEF Peek, RecordResult, GetReceipt, WriteReceipt, DestroyKey, DropCheckpoint,
                PublishResult, Settle, Finish
  <1> QED
    BY <1>1, <1>2, <1>3, <1>4 DEF WorkerStep, Work

(* The stream and its group.                                               *)
LEMMA WorkerStream ==
  ASSUME NEW w \in Workers, WorkerStep(w)
  PROVE  \/ UNCHANGED <<streamVars, deadVars>>
         \/ UNCHANGED deadVars /\ (ensureGroup \/ XAutoClaim \/ XReadGroup)
         \/ UNCHANGED deadVars /\ \E e \in todo[w] : DispatchNoInput(w, e)
         \/ UNCHANGED deadVars /\ Finish(w)
         \/ Settle(w) \/ SettleAgain(w)
  <1> USE DEF storeVars
  <1>1. CASE \/ Start(w) \/ Crash(w) \/ Claim(w) \/ Read(w) \/ FetchLost(w) \/ SettleAgain(w)
    BY <1>1 DEF Start, Crash, Claim, Read, FetchLost, Fetch
  <1>2. CASE \E e \in todo[w] :
               DispatchNoInput(w, e) \/ DispatchNoTenant(w, e) \/ Dispatch(w, e)
    BY <1>2 DEF DispatchNoInput, DispatchNoTenant, Dispatch
  <1>3. CASE \/ LoadCheckpoint(w) \/ OpenCheckpoint(w) \/ OpenInput(w) \/ Run(w)
             \/ RunFails(w) \/ SealPartial(w) \/ SaveStep1(w) \/ PublishRunning(w)
    BY <1>3 DEF LoadCheckpoint, OpenCheckpoint, OpenInput, Run, RunFails, SealPartial,
                SaveStep1, PublishRunning
  <1>4. CASE \/ Peek(w) \/ RecordResult(w) \/ GetReceipt(w) \/ WriteReceipt(w) \/ DestroyKey(w)
             \/ DropCheckpoint(w) \/ PublishResult(w) \/ Settle(w) \/ Finish(w)
    BY <1>4 DEF Peek, RecordResult, GetReceipt, WriteReceipt, DestroyKey, DropCheckpoint,
                PublishResult, Finish
  <1> QED
    BY <1>1, <1>2, <1>3, <1>4 DEF WorkerStep, Work

(* The journal and the checkpoints.                                        *)
LEMMA WorkerRows ==
  ASSUME NEW w \in Workers, WorkerStep(w)
  PROVE  /\ UNCHANGED outputs \/ RecordResult(w)
         /\ UNCHANGED mem \/ SaveStep1(w) \/ DropCheckpoint(w)
  <1> USE DEF storeVars
  <1>1. CASE \/ Start(w) \/ Crash(w) \/ Claim(w) \/ Read(w) \/ FetchLost(w) \/ SettleAgain(w)
    BY <1>1 DEF Start, Crash, Claim, Read, FetchLost, SettleAgain, Fetch
  <1>2. CASE \E e \in todo[w] :
               DispatchNoInput(w, e) \/ DispatchNoTenant(w, e) \/ Dispatch(w, e)
    BY <1>2 DEF DispatchNoInput, DispatchNoTenant, Dispatch
  <1>3. CASE \/ LoadCheckpoint(w) \/ OpenCheckpoint(w) \/ OpenInput(w) \/ Run(w)
             \/ RunFails(w) \/ SealPartial(w) \/ SaveStep1(w) \/ PublishRunning(w)
    BY <1>3 DEF LoadCheckpoint, OpenCheckpoint, OpenInput, Run, RunFails, SealPartial,
                SaveStep1, PublishRunning
  <1>4. CASE \/ Peek(w) \/ RecordResult(w) \/ GetReceipt(w) \/ WriteReceipt(w) \/ DestroyKey(w)
             \/ DropCheckpoint(w) \/ PublishResult(w) \/ Settle(w) \/ Finish(w)
    BY <1>4 DEF Peek, RecordResult, GetReceipt, WriteReceipt, DestroyKey, DropCheckpoint,
                PublishResult, Settle, Finish
  <1> QED
    BY <1>1, <1>2, <1>3, <1>4 DEF WorkerStep, Work

(* A step of the pipeline takes back neither a result nor a receipt: it is *)
(* a step of the lifecycle, which writes each of them once.                *)
LEMMA StepGrows ==
  ASSUME IInv, [Next]_vars
  PROVE  StoresGrow
  <1>1. outputs \in [Jobs -> Results \cup {None}] /\ receipts \in [Jobs -> Times \cup {None}]
    BY DEF IInv, TypeOK, StoresTypeOK
  <1>2. Lifecycle!Next \/ UNCHANGED lifecycle
    BY LifecycleStep
  <1>3. CASE UNCHANGED lifecycle
    BY <1>3 DEF lifecycle, StoresGrow
  <1>4. CASE Lifecycle!Next
    BY <1>1, <1>4 DEF Lifecycle!Next, Lifecycle!Decide, Lifecycle!Purge, Lifecycle!Tell, StoresGrow
  <1> QED
    BY <1>2, <1>3, <1>4

-----------------------------------------------------------------------------
(* The second invariant.                                                   *)

(* The handlers' part, when a worker moves: it makes a key only for a job  *)
(* that has entered and whose row is gone.                                 *)
LEMMA HandlerKeeps ==
  ASSUME NEW w \in Workers, IInv, HandlerInv, EntriesInv, WorkerStep(w), UNCHANGED postVars
  PROVE  HandlerInv'
  <1>1. /\ StoresTypeOK /\ PostTypeOK
        /\ pc[w] \notin Idling => Job(w) \in Jobs /\ Job(w) \in entered
    BY Facts DEF EntriesInv
  <1>2. UNCHANGED <<post, inflight, entered>>
    BY DEF postVars
  <1>3. CASE UNCHANGED <<keyRow, keyGen>>
    BY <1>2, <1>3 DEF HandlerInv, Kept
  <1>4. CASE Ensure(Job(w)) /\ pc[w] \in {"loadKey", "saveKey"}
    <2>1. Job(w) \in Jobs /\ Job(w) \in entered
      BY <1>1, <1>4 DEF Idling
    <2> DEFINE k == Job(w)
    <2>2. k \in Jobs /\ k \in entered /\ Ensure(k)
      BY <1>4, <2>1
    <2> HIDE DEF k
    <2>3. keyGen[k] > 0
      BY <2>2 DEF HandlerInv
    <2>4. /\ keyRow \in [Jobs -> Nat] /\ keyGen \in [Jobs -> Nat] /\ inflight \in [Jobs -> Nat]
      BY <1>1 DEF StoresTypeOK, PostTypeOK
    <2>5. CASE keyRow[k] # 0
      <3>1. UNCHANGED <<keyRow, keyGen>>
        BY <2>2, <2>4, <2>5 DEF Ensure
      <3> QED
        BY <1>3, <3>1
    <2>6. CASE keyRow[k] = 0
      <3>1. /\ keyRow'[k] = keyGen[k] + 1 /\ keyGen'[k] = keyGen[k] + 1
            /\ \A j \in Jobs \ {k} : keyRow'[j] = keyRow[j] /\ keyGen'[j] = keyGen[j]
        BY SMT, <2>2, <2>4, <2>6 DEF Ensure
      <3>2. ~Kept(k) /\ post[k] \notin {"new", "accepted"} /\ AddFails
        <4>1. ~(keyRow[k] = 1) /\ ~(keyRow[k] = keyGen[k])
          BY SMT, <2>2, <2>3, <2>4, <2>6
        <4> QED
          BY <2>2, <4>1 DEF HandlerInv
      <3>3. keyGen'[k] > 0
        BY SMT, <2>2, <2>4, <3>1
      <3> QED
        BY <1>2, <2>2, <3>1, <3>2, <3>3 DEF HandlerInv, Kept
    <2> QED
      BY <2>5, <2>6
  <1> QED
    BY <1>3, <1>4, WorkerKeys DEF Destroy, keyVars

(* A handler's own steps.                                                  *)
LEMMA HandlerSteps ==
  ASSUME IInv, HandlerInv, PostNext
  PROVE  HandlerInv'
  <1>1. /\ keyRow \in [Jobs -> Nat] /\ keyGen \in [Jobs -> Nat] /\ destroyedAt \in [Jobs -> Times \cup {None}]
        /\ inflight \in [Jobs -> Nat] /\ sends \in [Jobs -> Nat] /\ entered \subseteq Jobs
        /\ post \in [Jobs -> {"new", "accepted", "keyed", "dropKey", "dropAccept",
                              "refused", "queued", "gone"}]
    BY DEF IInv, TypeOK, StoresTypeOK, PostTypeOK
  <1>2. PICK k \in Jobs :
          \/ Accept(k) \/ AddKey(k) \/ SendAdd(k) \/ ApplyAdd(k) \/ Queued(k)
          \/ AddError(k) \/ DropKey(k) \/ DropAccept(k) \/ PostCrash(k)
          \/ ForeignAdd(k)
    BY DEF PostNext
  <1> DEFINE P(j) ==
        /\ post[j] \in {"new", "accepted"} =>
             j \notin entered /\ inflight[j] = 0 /\ keyRow[j] = 0 /\ keyGen[j] = 0
        /\ j \in Foreign => post[j] \in {"new", "gone"} /\ inflight[j] = 0
        /\ Kept(j) => keyRow[j] = 1 /\ keyGen[j] > 0
        /\ j \in entered \/ inflight[j] > 0 => keyGen[j] > 0
        /\ ~AddFails => keyRow[j] = keyGen[j] /\ keyGen[j] <= 1 /\ post[j] # "dropKey"
  <1>3. \A j \in Jobs : P(j)
    BY DEF HandlerInv
  <1>4. \A j \in Jobs \ {k} : /\ post'[j] = post[j] /\ inflight'[j] = inflight[j]
                              /\ keyRow'[j] = keyRow[j] /\ keyGen'[j] = keyGen[j]
                              /\ j \in entered' <=> j \in entered
    BY <1>1, <1>2 DEF Accept, AddKey, SendAdd, ApplyAdd, Queued, AddError, DropKey,
         DropAccept, PostCrash, ForeignAdd, Handler, Ensure, DeleteKeyRow, storeVars, keyVars
  <1>5. \A j \in Jobs \ {k} : P(j)'
    BY <1>3, <1>4 DEF Kept
  <1>6. P(k)'
    <2>0. P(k)
      BY <1>3
    <2>1. CASE Accept(k)
      <3>1. /\ post[k] = "new" /\ post'[k] = "accepted" /\ k \notin Foreign
            /\ UNCHANGED <<inflight, entered, keyRow, keyGen>>
        BY <1>1, <2>1 DEF Accept, Handler, keyVars
      <3> QED
        BY <2>0, <3>1 DEF Kept
    <2>2. CASE AddKey(k)
      <3>1. /\ post[k] = "accepted" /\ post'[k] = "keyed"
            /\ UNCHANGED <<inflight, entered>>
        BY <1>1, <2>2 DEF AddKey, Handler
      <3>2. keyRow[k] = 0 /\ keyGen[k] = 0 /\ k \notin entered /\ inflight[k] = 0 /\ k \notin Foreign
        BY <2>0, <3>1
      <3>3. keyRow'[k] = 1 /\ keyGen'[k] = 1
        BY SMT, <1>1, <2>2, <3>2 DEF AddKey, Ensure
      <3> QED
        BY SMT, <3>1, <3>2, <3>3 DEF Kept
    <2>3. CASE SendAdd(k)
      <3>1. /\ post[k] = "keyed" /\ inflight'[k] = inflight[k] + 1
            /\ UNCHANGED <<post, entered, keyRow, keyGen>>
        BY <1>1, <2>3 DEF SendAdd, storeVars, keyVars
      <3>2. k \notin Foreign /\ keyRow[k] = 1 /\ keyGen[k] > 0
        BY <2>0, <3>1 DEF Kept
      <3> QED
        BY <2>0, <3>1, <3>2 DEF Kept
    <2>4. CASE ApplyAdd(k)
      <3>1. /\ inflight[k] > 0 /\ inflight'[k] = inflight[k] - 1 /\ k \in entered'
            /\ UNCHANGED <<post, keyRow, keyGen>>
        BY <1>1, <2>4 DEF ApplyAdd, keyVars
      <3>2. inflight[k] # 0
        BY SMTT(20), <3>1
      <3> QED
        BY <2>0, <3>1, <3>2 DEF Kept
    <2>5. CASE Queued(k)
      <3>1. /\ post[k] = "keyed" /\ post'[k] = "queued"
            /\ UNCHANGED <<inflight, entered, keyRow, keyGen>>
        BY <1>1, <2>5 DEF Queued, Handler, storeVars, keyVars
      <3> QED
        BY <2>0, <3>1 DEF Kept
    <2>6. CASE AddError(k) \/ PostCrash(k)
      <3>1. /\ AddFails /\ post[k] \in {"accepted", "keyed", "dropKey", "dropAccept"}
            /\ post'[k] \in {"dropKey", "gone"} /\ UNCHANGED <<inflight, entered, keyRow, keyGen>>
        BY <1>1, <2>6 DEF AddError, PostCrash, Handler, storeVars, keyVars
      <3> QED
        BY <2>0, <3>1 DEF Kept
    <2>7. CASE DropKey(k)
      <3>1. /\ post[k] = "dropKey" /\ post'[k] = "dropAccept" /\ UNCHANGED <<inflight, entered, keyGen>>
        BY <1>1, <2>7 DEF DropKey, Handler, DeleteKeyRow, keyVars
      <3> QED
        BY <2>0, <3>1 DEF Kept
    <2>8. CASE DropAccept(k)
      <3>1. /\ post[k] = "dropAccept" /\ post'[k] = "refused"
            /\ UNCHANGED <<inflight, entered, keyRow, keyGen>>
        BY <1>1, <2>8 DEF DropAccept, Handler, keyVars
      <3> QED
        BY <2>0, <3>1 DEF Kept
    <2>9. CASE ForeignAdd(k)
      <3>1. /\ k \in Foreign /\ post[k] = "new" /\ post'[k] = "gone"
            /\ k \in entered' /\ UNCHANGED inflight
        BY <1>1, <2>9 DEF ForeignAdd
      <3>2. keyRow[k] = 0 /\ keyGen[k] = 0 /\ inflight[k] = 0
        BY <2>0, <3>1
      <3>3. keyRow'[k] = 1 /\ keyGen'[k] = 1
        BY SMT, <1>1, <2>9, <3>2 DEF ForeignAdd, Ensure
      <3> QED
        BY SMT, <3>1, <3>2, <3>3 DEF Kept
    <2> QED
      BY <1>2, <2>1, <2>2, <2>3, <2>4, <2>5, <2>6, <2>7, <2>8, <2>9
  <1> QED
    BY <1>5, <1>6 DEF HandlerInv

(* What a worker's step does to ids, the group's cursor and the pending    *)
(* entries.                                                                *)
LEMMA IdsGrow ==
  ASSUME NEW w \in Workers, IInv, EntriesInv, WorkerStep(w)
  PROVE  /\ cursor' \in Int /\ lastId' \in Nat
         /\ cursor <= cursor' /\ cursor' <= lastId' /\ lastId <= lastId'
         /\ \A e \in stream' : \/ e \in stream
                               \/ /\ e = [id |-> lastId', job |-> Job(w)] /\ lastId' = lastId + 1
                                  /\ pc[w] = "settle"
         /\ \A e \in pending' : e \in pending \/ (e \in stream /\ cursor' = lastId)
  <1>1. /\ lastId \in Nat /\ cursor \in Int /\ cursor <= lastId
        /\ pending \subseteq stream /\ idle \subseteq pending
    BY DEF IInv, TypeOK, StoresTypeOK, EntriesInv
  <1>2. CASE UNCHANGED streamVars
    BY SMT, <1>1, <1>2 DEF streamVars
  <1>3. CASE ensureGroup \/ XAutoClaim \/ XReadGroup
    BY SMT, <1>1, <1>3 DEF ensureGroup, XAutoClaim, XReadGroup, Undelivered
  <1>4. ASSUME NEW e, finish(e)
        PROVE  /\ UNCHANGED <<lastId, cursor>> /\ stream' \subseteq stream /\ pending' \subseteq pending
    BY <1>4 DEF finish
  <1>5. CASE \E e \in todo[w] : DispatchNoInput(w, e)
    <2>1. UNCHANGED <<lastId, cursor>> /\ stream' \subseteq stream /\ pending' \subseteq pending
      BY <1>4, <1>5 DEF DispatchNoInput
    <2> QED
      BY SMT, <1>1, <2>1
  <1>6. CASE Finish(w)
    <2>1. UNCHANGED <<lastId, cursor>> /\ stream' \subseteq stream /\ pending' \subseteq pending
      BY <1>4, <1>6 DEF Finish
    <2> QED
      BY SMT, <1>1, <2>1
  <1>7. CASE Settle(w) \/ SettleAgain(w)
    <2>1. settle(cur[w], result[w].why # "ran") /\ pc[w] = "settle"
      BY <1>7 DEF Settle, SettleAgain
    <2>2. CASE finish(cur[w])
      <3>1. UNCHANGED <<lastId, cursor>> /\ stream' \subseteq stream /\ pending' \subseteq pending
        BY <1>4, <2>2
      <3> QED
        BY SMT, <1>1, <3>1
    <2>3. CASE /\ lastId' = lastId + 1 /\ cursor' = cursor /\ pending' = pending \ {cur[w]}
               /\ stream' = (stream \cup {[id |-> lastId + 1, job |-> Job(w)]}) \ {cur[w]}
      <3>1. /\ cursor' \in Int /\ lastId' \in Nat
            /\ cursor <= cursor' /\ cursor' <= lastId' /\ lastId <= lastId'
        BY SMT, <1>1, <2>3
      <3> QED
        BY <2>1, <2>3, <3>1
    <2> QED
      BY <2>1, <2>2, <2>3 DEF settle, Job
  <1> QED
    BY <1>2, <1>3, <1>5, <1>6, <1>7, WorkerStream

(* What the workers have was in the stream.                                *)
LEMMA EntriesKeep ==
  ASSUME NEW w \in Workers, IInv, HandlerInv, EntriesInv, WorkerStep(w), UNCHANGED postVars
  PROVE  EntriesInv'
  <1>1. /\ StoresTypeOK /\ WorkerTypeOK /\ entered' = entered
        /\ pc[w] \notin Idling => cur[w] \in Entry /\ Job(w) \in entered
    BY Facts DEF postVars, EntriesInv
  <1>2. /\ cursor' \in Int /\ lastId' \in Nat
        /\ cursor <= cursor' /\ cursor' <= lastId' /\ lastId <= lastId'
        /\ \A e \in stream' : \/ e \in stream
                              \/ /\ e = [id |-> lastId', job |-> Job(w)] /\ lastId' = lastId + 1
                                 /\ pc[w] = "settle"
        /\ \A e \in pending' : e \in pending \/ (e \in stream /\ cursor' = lastId)
    BY IdsGrow
  <1>3. lastId \in Nat /\ cursor \in Int /\ \A e \in Entry : e.id \in Nat
    BY <1>1 DEF StoresTypeOK, Entry
  <1>4. \A n \in Nat : (n <= cursor => n <= cursor') /\ (n <= lastId => n <= lastId')
    BY SMT, <1>2, <1>3
  <1>5. ASSUME NEW e \in stream' PROVE e.job \in entered' /\ e.id <= lastId'
    <2>1. CASE e \in stream
      BY <1>1, <1>3, <1>4, <2>1 DEF EntriesInv, StoresTypeOK
    <2>2. CASE e = [id |-> lastId', job |-> Job(w)] /\ pc[w] = "settle"
      <3>1. e.job = Job(w) /\ e.id = lastId' /\ Job(w) \in entered
        BY <1>1, <2>2 DEF Idling
      <3> QED
        BY SMT, <1>1, <1>2, <3>1
    <2> QED
      BY <1>2, <2>1, <2>2
  <1>6. ASSUME NEW e \in pending' PROVE e.id <= cursor'
    <2>1. CASE e \in pending
      BY <1>1, <1>3, <1>4, <2>1 DEF EntriesInv, StoresTypeOK
    <2>2. CASE e \in stream /\ cursor' = lastId
      BY <2>2 DEF EntriesInv
    <2> QED
      BY <1>2, <2>1, <2>2
  <1>7. ASSUME NEW j \in Jobs, outputs'[j] # None PROVE j \in entered'
    <2>1. CASE outputs'[j] = outputs[j]
      BY <1>1, <1>7, <2>1 DEF EntriesInv
    <2>2. CASE RecordResult(w) /\ outputs'[j] # outputs[j]
      <3>1. j = Job(w) /\ pc[w] = "record"
        BY <1>1, <2>2 DEF RecordResult, Record, StoresTypeOK
      <3> QED
        BY <1>1, <3>1 DEF Idling
    <2> QED
      BY <2>1, <2>2, WorkerRows
  <1> DEFINE Known(v) ==
        /\ \A e \in todo[v] : e.job \in entered /\ e.id <= cursor
        /\ pc[v] \notin Idling => Job(v) \in entered /\ cur[v].id <= cursor
  <1>8. \A v \in Workers : Known(v)
    BY DEF EntriesInv
  <1>9. \A v \in Workers : todo[v] \subseteq Entry /\ (pc[v] \notin Idling => cur[v] \in Entry)
    BY <1>1, Facts DEF WorkerTypeOK
  <1>10. ASSUME NEW v \in Workers, pc'[v] = pc[v], cur'[v] = cur[v], todo'[v] = todo[v]
         PROVE  Known(v)'
    BY <1>1, <1>3, <1>4, <1>8, <1>9, <1>10 DEF Job
  <1>11. \A v \in Workers \ {w} : Known(v)'
    BY <1>10, Shapes DEF Leaves, Gets, Takes, Tries, Concludes, Commits, Shift
  <1>12. Known(w)'
    <2>1. CASE Leaves(w)
      <3>1. pc'[w] \in Idling /\ todo'[w] \subseteq todo[w]
        BY <2>1 DEF Leaves, Shift
      <3> QED
        BY <1>1, <1>3, <1>4, <1>8, <1>9, <3>1
    <2>2. CASE Gets(w)
      <3>1. pc'[w] \in Idling
        BY <2>2 DEF Gets, Shift, Idling
      <3>2. ASSUME NEW e \in todo'[w] PROVE e.job \in entered' /\ e.id <= cursor'
        <4>1. CASE e \in idle
          BY <1>1, <1>3, <1>4, <4>1 DEF EntriesInv, StoresTypeOK
        <4>2. CASE e \in Undelivered /\ XReadGroup
          <5>1. cursor' = lastId /\ e \in stream
            BY <4>2 DEF XReadGroup, Undelivered
          <5> QED
            BY <1>1, <5>1 DEF EntriesInv
        <4> QED
          BY <2>2, <3>2, <4>1, <4>2 DEF Gets, Shift
      <3> QED
        BY <3>1, <3>2
    <2>3. CASE \E e \in todo[w] : Takes(w, e)
      <3>1. PICK e \in todo[w] : todo'[w] = todo[w] \ {e} /\ cur'[w] = e
        BY <2>3 DEF Takes, Shift
      <3> QED
        BY <1>1, <1>3, <1>4, <1>8, <1>9, <3>1 DEF Job
    <2>4. CASE Tries(w) \/ Concludes(w) \/ Commits(w)
      <3>1. todo'[w] = todo[w] /\ cur'[w] = cur[w]
        BY <2>4 DEF Tries, Concludes, Commits, Shift
      <3>2. pc[w] \notin Idling
        BY <2>4 DEF Tries, Concludes, Commits, Idling
      <3> QED
        BY <1>1, <1>3, <1>4, <1>8, <1>9, <3>1, <3>2 DEF Job
    <2> QED
      BY <2>1, <2>2, <2>3, <2>4, Shapes
  <1> QED
    BY <1>2, <1>5, <1>6, <1>7, <1>11, <1>12 DEF EntriesInv

(* A handler adds an entry with a new id.                                  *)
LEMMA EntriesSteps ==
  ASSUME IInv, EntriesInv, PostNext, UNCHANGED workerVars
  PROVE  EntriesInv'
  <1>1. StoresTypeOK /\ PostTypeOK /\ WorkerTypeOK
    BY DEF IInv, TypeOK
  <1>2. PICK k \in Jobs :
          \/ Accept(k) \/ AddKey(k) \/ SendAdd(k) \/ ApplyAdd(k) \/ Queued(k)
          \/ AddError(k) \/ DropKey(k) \/ DropAccept(k) \/ PostCrash(k)
          \/ ForeignAdd(k)
    BY DEF PostNext
  <1>3. outputs' = outputs /\ UNCHANGED <<pc, cur, todo>>
    BY <1>2 DEF Accept, AddKey, SendAdd, ApplyAdd, Queued, AddError, DropKey,
         DropAccept, PostCrash, ForeignAdd, storeVars, workerVars
  <1>4. CASE UNCHANGED <<streamVars, entered>>
    BY <1>3, <1>4 DEF EntriesInv, streamVars, Job
  <1>5. CASE enqueue(k) /\ entered' = entered \cup {k}
    <2>1. /\ lastId' = lastId + 1 /\ cursor' = cursor /\ pending' = pending
          /\ stream' = stream \cup {[id |-> lastId + 1, job |-> k]}
      BY <1>5 DEF enqueue
    <2>2. cursor' <= lastId'
      BY SMT, <1>1, <2>1 DEF EntriesInv, StoresTypeOK
    <2>3. \A e \in stream' : e.job \in entered' /\ e.id <= lastId'
      BY SMT, <1>1, <1>5, <2>1 DEF EntriesInv, StoresTypeOK, Entry
    <2> QED
      BY <1>3, <1>5, <2>1, <2>2, <2>3 DEF EntriesInv, Job
  <1> QED
    BY <1>2, <1>4, <1>5 DEF Accept, AddKey, SendAdd, ApplyAdd, Queued, AddError, DropKey,
         DropAccept, PostCrash, ForeignAdd, Handler, storeVars

(* Why a job was buried, when a worker moves.                              *)
LEMMA ReasonsKeep ==
  ASSUME NEW w \in Workers, IInv, HandlerInv, ReasonsInv, WorkerStep(w), UNCHANGED postVars
  PROVE  ReasonsInv'
  <1>1. /\ StoresTypeOK /\ WorkerTypeOK /\ post' = post /\ Local(w)
        /\ pc[w] \notin Idling => cur[w] \in Entry /\ Job(w) \in Jobs
    BY Facts DEF postVars
  <1> DEFINE KQ(j) == post[j] \in {"keyed", "queued"}
             Q(v) == pc[v] \notin Idling /\ result[v] # None /\ KQ(Job(v)) => result[v].why \in Fair
  <1>2. \A v \in Workers : Q(v)
    BY DEF ReasonsInv
  <1>3. ASSUME NEW j \in Jobs, KQ(j)', outputs'[j] # None PROVE outputs'[j].why \in Fair
    <2>1. CASE outputs'[j] = outputs[j]
      BY <1>1, <1>3, <2>1 DEF ReasonsInv
    <2>2. CASE RecordResult(w) /\ outputs'[j] # outputs[j]
      <3>1. j = Job(w) /\ pc[w] = "record" /\ outputs'[j] = result[w]
        BY <1>1, <2>2 DEF RecordResult, Record, StoresTypeOK
      <3>2. result[w] # None /\ pc[w] \notin Idling
        BY <1>1, <3>1 DEF Local, Idling
      <3> QED
        BY <1>1, <1>2, <1>3, <3>1, <3>2
    <2> QED
      BY <2>1, <2>2, WorkerRows
  <1>4. \A v \in Workers \ {w} : Q(v)'
    <2>1. \A v \in Workers \ {w} : pc'[v] = pc[v] /\ cur'[v] = cur[v] /\ result'[v] = result[v]
      BY Shapes DEF Leaves, Gets, Takes, Tries, Concludes, Commits, Shift
    <2> QED
      BY <1>1, <1>2, <2>1 DEF Job
  <1>5. Q(w)'
    <2>1. CASE Leaves(w) \/ Gets(w)
      BY <2>1 DEF Leaves, Gets, Shift, Idling
    <2>2. ASSUME NEW e \in todo[w], Takes(w, e) PROVE Q(w)'
      <3>1. CASE Dispatch(w, e)
        <4>1. result'[w] = None \/ e.job \in NoTenant
          BY <2>2, <3>1 DEF Takes, Shift, DispatchNoTenant
        <4>2. result'[w] = None
          BY <3>1, <4>1 DEF Dispatch
        <4> QED
          BY <4>2
      <3>2. CASE DispatchNoTenant(w, e)
        <4>1. e.job \in Foreign /\ e.job \in Jobs
          BY <1>1, <3>2, StoresAssumption DEF DispatchNoTenant, Foreign, Take, WorkerTypeOK, Entry
        <4>2. post[e.job] \notin {"keyed", "queued"}
          BY <4>1 DEF HandlerInv
        <4>3. cur'[w] = e
          BY <2>2 DEF Takes, Shift
        <4> QED
          BY <1>1, <4>2, <4>3 DEF Job
      <3> QED
        BY <2>2, <3>1, <3>2 DEF Takes
    <2>3. CASE Tries(w) \/ Commits(w)
      <3>1. pc[w] \notin Idling /\ cur'[w] = cur[w] /\ result'[w] = result[w]
        BY <2>3 DEF Tries, Commits, Shift, Idling
      <3> QED
        BY <1>1, <1>2, <3>1 DEF Job
    <2>4. CASE Concludes(w)
      <3>1. cur'[w] = cur[w] /\ (KQ(Job(w)) => result'[w].why \in Fair)
        BY <2>4 DEF Concludes, Verdict, Shift
      <3> QED
        BY <1>1, <3>1 DEF Job
    <2> QED
      BY <2>1, <2>2, <2>3, <2>4, Shapes
  <1> QED
    BY <1>3, <1>4, <1>5 DEF ReasonsInv

(* A handler gets as far as the key before the job has any result.         *)
LEMMA ReasonsSteps ==
  ASSUME IInv, HandlerInv, EntriesInv, ReasonsInv, PostNext, UNCHANGED workerVars
  PROVE  ReasonsInv'
  <1>1. /\ StoresTypeOK /\ PostTypeOK /\ UNCHANGED <<pc, cur, result>>
        /\ \A w \in Workers : pc[w] \notin Idling => Job(w) \in Jobs
    BY Facts DEF IInv, TypeOK, workerVars
  <1>2. PICK k \in Jobs :
          \/ Accept(k) \/ AddKey(k) \/ SendAdd(k) \/ ApplyAdd(k) \/ Queued(k)
          \/ AddError(k) \/ DropKey(k) \/ DropAccept(k) \/ PostCrash(k)
          \/ ForeignAdd(k)
    BY DEF PostNext
  <1>3. outputs' = outputs
    BY <1>2 DEF Accept, AddKey, SendAdd, ApplyAdd, Queued, AddError, DropKey,
         DropAccept, PostCrash, ForeignAdd, storeVars
  <1>4. ASSUME NEW j \in Jobs, post'[j] \in {"keyed", "queued"}
        PROVE  post[j] \in {"keyed", "queued"} \/ j \notin entered
    <2>1. CASE post'[j] = post[j]
      BY <1>4, <2>1
    <2>2. CASE (AddKey(k) \/ Queued(k)) /\ post'[j] # post[j]
      <3>1. j = k /\ post[k] \in {"accepted", "keyed"}
        BY <1>1, <2>2 DEF AddKey, Queued, Handler, PostTypeOK
      <3> QED
        BY <3>1 DEF HandlerInv
    <2>3. CASE \/ Accept(k) \/ AddError(k) \/ DropKey(k) \/ DropAccept(k) \/ PostCrash(k)
               \/ ForeignAdd(k)
      <3>1. post'[j] = post[j] \/ post'[j] \in {"accepted", "dropKey", "dropAccept", "refused", "gone"}
        BY <1>1, <2>3 DEF Accept, AddError, DropKey, DropAccept, PostCrash, ForeignAdd,
             Handler, PostTypeOK
      <3> QED
        BY <1>4, <3>1
    <2>4. CASE SendAdd(k) \/ ApplyAdd(k)
      BY <1>4, <2>4 DEF SendAdd, ApplyAdd
    <2> QED
      BY <1>2, <2>1, <2>2, <2>3, <2>4
  <1> QED
    BY <1>1, <1>3, <1>4 DEF ReasonsInv, EntriesInv, Job

-----------------------------------------------------------------------------
(* A key that is gone does not come back.                                  *)

(* No call of a worker revives the first key or a destroyed one.           *)
LEMMA KeysStayWorker ==
  ASSUME NEW w \in Workers, IInv, HandlerInv, WorkerStep(w), NEW j \in Jobs
  PROVE  /\ keyGen[j] > 0 /\ ~FirstLive(j) => ~FirstLive(j)'
         /\ Destroyed(j) => Destroyed(j)'
  <1>1. /\ keyRow \in [Jobs -> Nat] /\ keyGen \in [Jobs -> Nat]
        /\ destroyedAt \in [Jobs -> Times \cup {None}]
    BY DEF IInv, TypeOK, StoresTypeOK
  <1> DEFINE Goal == /\ keyGen[j] > 0 /\ ~FirstLive(j) => ~FirstLive(j)'
                     /\ Destroyed(j) => Destroyed(j)'
  <1>2. CASE UNCHANGED keyVars
    BY <1>2 DEF keyVars, FirstLive, Destroyed
  <1>3. ASSUME NEW k, Ensure(k)
        PROVE  /\ destroyedAt' = destroyedAt
               /\ keyRow'[j] = keyRow[j] \/ (keyRow[j] = 0 /\ keyRow'[j] = keyGen[j] + 1)
    BY SMT, <1>1, <1>3 DEF Ensure
  <1>4. ASSUME NEW k, Ensure(k) PROVE Goal
    BY SMT, <1>1, <1>3, <1>4 DEF FirstLive, Destroyed
  <1>5. ASSUME NEW k, NEW t, Destroy(k, t)
        PROVE  /\ keyRow' = keyRow
               /\ keyRow[j] > 0 /\ destroyedAt[j] # None => destroyedAt'[j] # None
    BY <1>1, <1>5 DEF Destroy, Live
  <1>6. ASSUME NEW k, NEW t, Destroy(k, t) PROVE Goal
    BY SMT, <1>1, <1>5, <1>6 DEF FirstLive, Destroyed
  <1>7. CASE Ensure(Job(w))
    BY <1>4, <1>7
  <1>8. CASE Destroy(Job(w), stamp[w])
    BY <1>6, <1>8
  <1>9. CASE \E e \in todo[w], t \in Times : Destroy(e.job, t)
    BY <1>6, <1>9
  <1> QED
    BY <1>2, <1>7, <1>8, <1>9, WorkerKeys

(* Nor does a handler: the row it deletes or makes is not an entered job's, *)
(* or the key made is a later one.                                         *)
LEMMA KeysStayPost ==
  ASSUME IInv, HandlerInv, PostNext, NEW j \in Jobs
  PROVE  /\ j \in entered /\ ~FirstLive(j) => ~FirstLive(j)'
         /\ (j \in Foreign \/ ~AddFails) /\ Destroyed(j) => Destroyed(j)'
  <1>1. /\ keyRow \in [Jobs -> Nat] /\ keyGen \in [Jobs -> Nat]
        /\ destroyedAt \in [Jobs -> Times \cup {None}]
    BY DEF IInv, TypeOK, StoresTypeOK
  <1>2. PICK k \in Jobs :
          \/ Accept(k) \/ AddKey(k) \/ SendAdd(k) \/ ApplyAdd(k) \/ Queued(k)
          \/ AddError(k) \/ DropKey(k) \/ DropAccept(k) \/ PostCrash(k)
          \/ ForeignAdd(k)
    BY DEF PostNext
  <1>3. CASE UNCHANGED keyVars
    BY <1>3 DEF keyVars, FirstLive, Destroyed
  <1>4. CASE Ensure(k) /\ post[k] \in {"new", "accepted"}
    <2>1. k \notin entered
      BY <1>4 DEF HandlerInv
    <2>2. CASE j # k
      BY <1>1, <1>4, <2>2 DEF Ensure, FirstLive, Destroyed
    <2>3. CASE j = k
      BY SMT, <1>1, <1>4, <2>1, <2>3 DEF Ensure, Destroyed
    <2> QED
      BY <2>2, <2>3
  <1>5. CASE DropKey(k) /\ DeleteKeyRow(k)
    <2>1. post[k] = "dropKey" /\ k \notin Foreign /\ AddFails
      BY <1>5 DEF DropKey, Handler, HandlerInv
    <2>2. CASE j # k
      BY <1>1, <1>5, <2>2 DEF DeleteKeyRow, FirstLive, Destroyed
    <2>3. CASE j = k
      <3>1. keyRow'[j] = 0
        BY <1>1, <1>5, <2>3 DEF DeleteKeyRow
      <3>2. ~(keyRow'[j] = 1)
        BY SMT, <3>1
      <3> QED
        BY <2>1, <2>3, <3>2 DEF FirstLive
    <2> QED
      BY <2>2, <2>3
  <1> QED
    BY <1>2, <1>3, <1>4, <1>5 DEF Accept, AddKey, SendAdd, ApplyAdd, Queued, AddError, DropKey,
         DropAccept, PostCrash, ForeignAdd, Handler, storeVars

(* A purge is not undone.                                                  *)
LEMMA PurgedStays ==
  ASSUME IInv, HandlerInv, [Next]_vars, NEW j \in entered, Purged(j)
  PROVE  Purged(j)'
  <1>1. j \in Jobs /\ keyGen[j] > 0
    BY DEF IInv, TypeOK, PostTypeOK, HandlerInv
  <1>2. receipts[j] # None => receipts'[j] # None
    BY <1>1, StepGrows DEF StoresGrow
  <1>3. /\ ~FirstLive(j) => ~FirstLive(j)'
        /\ (j \in Foreign \/ ~AddFails) /\ Destroyed(j) => Destroyed(j)'
    <2>1. CASE UNCHANGED keyVars
      BY <2>1 DEF keyVars, FirstLive, Destroyed
    <2>2. CASE PostNext
      BY <1>1, <2>2, KeysStayPost
    <2>3. ASSUME NEW w \in Workers, WorkerStep(w) PROVE <1>3!1 /\ <1>3!2
      BY <1>1, <2>3, KeysStayWorker
    <2>4. CASE PutPolicy \/ UNCHANGED vars \/ \E e \in pending : BecomeIdle(e)
      BY <2>1, <2>4 DEF PutPolicy, vars, storeVars, BecomeIdle
    <2> QED
      BY <2>2, <2>3, <2>4 DEF Next, WorkerNext, WorkerStep
  <1> QED
    BY <1>2, <1>3 DEF Purged, Foreign

(* A dead letter stays.                                                    *)
LEMMA DeadStays ==
  ASSUME NEW w \in Workers, IInv, WorkerStep(w), NEW j \in Jobs, dlq[j] > 0
  PROVE  dlq'[j] > 0
  <1>1. dlq \in [Jobs -> Nat]
    BY DEF IInv, TypeOK, StoresTypeOK
  <1>2. CASE dlq' = dlq
    BY <1>2
  <1>3. ASSUME NEW k, dlq' = [dlq EXCEPT ![k] = @ + 1] PROVE dlq'[j] > 0
    BY SMT, <1>1, <1>3
  <1>4. CASE Settle(w) \/ SettleAgain(w)
    BY <1>2, <1>3, <1>4 DEF Settle, SettleAgain, settle
  <1> QED
    BY <1>2, <1>4, WorkerStream DEF deadVars

(* Who takes an entry out of the stream.                                   *)
LEMMA Removal ==
  ASSUME NEW w \in Workers, IInv, WorkerStep(w), NEW e \in stream, e \notin stream'
  PROVE  \/ e.job \in NoInput
         \/ Finish(w) /\ e = cur[w]
         \/ (Settle(w) \/ SettleAgain(w)) /\ e = cur[w]
  <1>1. CASE UNCHANGED streamVars
    BY <1>1 DEF streamVars
  <1>2. CASE ensureGroup \/ XAutoClaim \/ XReadGroup
    BY <1>2 DEF ensureGroup, XAutoClaim, XReadGroup
  <1>3. CASE \E d \in todo[w] : DispatchNoInput(w, d)
    BY <1>3 DEF DispatchNoInput, finish
  <1>4. CASE Finish(w)
    BY <1>4 DEF Finish, finish
  <1>5. CASE Settle(w) \/ SettleAgain(w)
    <2>1. settle(cur[w], result[w].why # "ran")
      BY <1>5 DEF Settle, SettleAgain
    <2>2. e = cur[w]
      BY <2>1 DEF settle, finish
    <2> QED
      BY <1>5, <2>2
  <1> QED
    BY <1>1, <1>2, <1>3, <1>4, <1>5, WorkerStream

(* A worker reaches the steps after the purge with the purge done.         *)
LEMMA PurgeReached ==
  ASSUME NEW w \in Workers, IInv, KInv, WorkerStep(w), UNCHANGED postVars,
         pc'[w] \in {"drop", "publish", "finish", "settle"}
  PROVE  /\ Purged(Job(w))'
         /\ pc'[w] = "settle" /\ Job(w)' \in NoTenant => result'[w].why = "missing_tenant"
  <1>1. /\ StoresTypeOK /\ WorkerTypeOK /\ Local(w) /\ Shared(w)
        /\ pc[w] \notin Idling => cur[w] \in Entry /\ Job(w) \in Jobs /\ Job(w) \in entered
    BY Facts DEF KInv, EntriesInv
  <1>2. [Next]_vars
    BY DEF WorkerStep, Next, WorkerNext
  <1>3. CASE Leaves(w) \/ Gets(w) \/ Tries(w) \/ Concludes(w)
    BY <1>3 DEF Leaves, Gets, Tries, Concludes, Shift, Idling, Trying
  <1>4. CASE \E e \in todo[w] : Takes(w, e)
    <2>1. PICK e \in todo[w] :
            /\ DispatchNoTenant(w, e)
            /\ cur'[w] = e /\ result'[w] = Buried("missing_tenant") /\ pc'[w] = "settle"
      BY <1>4 DEF Takes, Shift
    <2>2. Job(w)' = e.job /\ e.job \in NoTenant \ NoInput /\ e.job \in Jobs /\ e.job \in entered
      BY <1>1, <2>1, StoresAssumption DEF Job, DispatchNoTenant, KInv, EntriesInv
    <2>3. keyRow[e.job] = 1
      <3>1. e.job \in Foreign /\ post[e.job] \notin {"new", "accepted"}
        BY <2>2 DEF KInv, HandlerInv, Foreign
      <3> QED
        BY <2>2, <3>1 DEF KInv, HandlerInv, Kept
    <2>4. PICK t \in Times : Destroy(e.job, t)
      BY <2>1 DEF DispatchNoTenant
    <2>5. keyRow[e.job] > 0
      BY SMT, <2>3
    <2>6. destroyedAt \in [Jobs -> Times \cup {None}] /\ None \notin Times
      BY <1>1, StoresAssumption DEF StoresTypeOK
    <2>7. keyRow' = keyRow /\ destroyedAt'[e.job] # None
      BY <2>2, <2>4, <2>5, <2>6 DEF Destroy, Live
    <2>8. keyRow'[e.job] > 0 /\ destroyedAt'[e.job] # None
      BY <2>5, <2>7
    <2>9. Purged(e.job)'
      BY <2>2, <2>8 DEF Purged, Destroyed, Proper
    <2>10. Buried("missing_tenant").why = "missing_tenant"
      BY DEF Buried
    <2> QED
      BY <2>1, <2>2, <2>9, <2>10
  <1>5. CASE Commits(w)
    <2>1. cur'[w] = cur[w] /\ result'[w] = result[w] /\ Job(w)' = Job(w)
      BY <1>5 DEF Commits, Shift, Job
    <2>2. CASE Peek(w) /\ pc[w] = "peek"
      <3>1. Job(w) \in FailingJobs /\ Job(w) \notin NoTenant
        BY <1>1, <2>2 DEF Local, Idling
      <3> QED
        BY <2>1, <3>1 DEF Purged
    <2>3. CASE DestroyKey(w) /\ pc[w] = "destroy"
      <3>1. Job(w) \notin NoTenant /\ Job(w) \in Jobs
        BY <1>1, <2>3 DEF Local, Idling
      <3>2. receipts[Job(w)] # None /\ stamp[w] # None /\ receipts' = receipts
        BY <1>1, <2>3 DEF Shared, DestroyKey, purgeVars
      <3>3. Destroy(Job(w), stamp[w])
        BY <2>3 DEF DestroyKey
      <3>4. destroyedAt \in [Jobs -> Times \cup {None}] /\ keyRow \in [Jobs -> Nat]
        BY <1>1 DEF StoresTypeOK
      <3>5. keyRow' = keyRow /\ (keyRow[Job(w)] > 0 => destroyedAt'[Job(w)] # None)
        BY <3>1, <3>2, <3>3, <3>4 DEF Destroy, Live
      <3>6. keyRow[Job(w)] = 1 => keyRow[Job(w)] > 0
        BY SMT
      <3>7. ~FirstLive(Job(w))'
        BY <2>1, <3>5, <3>6 DEF FirstLive
      <3> QED
        BY <2>1, <3>1, <3>2, <3>7 DEF Purged
    <2>4. CASE pc[w] \in {"drop", "publish", "settle"}
      <3>1. Purged(Job(w)) /\ Job(w) \in entered
        BY <1>1, <2>4 DEF KInv, PurgedInv, Idling
      <3>2. Purged(Job(w))'
        <4>1. PICK k \in entered : Purged(k) /\ k = Job(w)
          BY <3>1
        <4>2. Purged(k)'
          BY <1>2, <4>1, PurgedStays DEF KInv
        <4> QED
          BY <2>1, <4>1, <4>2 DEF Purged, FirstLive, Destroyed
      <3>3. Job(w) \in NoTenant => pc[w] = "settle"
        BY <1>1, <2>4 DEF Local, Idling
      <3> QED
        BY <2>1, <3>2, <3>3 DEF KInv, PurgedInv
    <2> QED
      BY <1>5, <2>2, <2>3, <2>4 DEF Commits, Shift
  <1> QED
    BY <1>3, <1>4, <1>5, Shapes DEF KInv

(* An entry leaves the stream after its job's purge.                       *)
LEMMA PurgedKeep ==
  ASSUME NEW w \in Workers, IInv, KInv, WorkerStep(w), UNCHANGED postVars
  PROVE  PurgedInv'
  <1>1. /\ StoresTypeOK /\ WorkerTypeOK /\ PostTypeOK /\ Local(w) /\ entered' = entered
        /\ \A v \in Workers : pc[v] \notin Idling => Job(v) \in Jobs /\ Job(v) \in entered
    BY Facts DEF KInv, EntriesInv, postVars
  <1>2. [Next]_vars
    BY DEF WorkerStep, Next, WorkerNext
  <1>3. \A j \in entered : Purged(j) => Purged(j)'
    BY <1>2, PurgedStays DEF KInv
  <1>4. ASSUME NEW v \in Workers \ {w}, pc'[v] \in {"drop", "publish", "finish", "settle"}
        PROVE  /\ Purged(Job(v))'
               /\ pc'[v] = "settle" /\ Job(v)' \in NoTenant => result'[v].why = "missing_tenant"
    <2>1. pc'[v] = pc[v] /\ cur'[v] = cur[v] /\ result'[v] = result[v]
      BY Shapes DEF KInv, Leaves, Gets, Takes, Tries, Concludes, Commits, Shift
    <2>2. Job(v)' = Job(v)
      BY <2>1 DEF Job
    <2>3. Purged(Job(v)) /\ Job(v) \in entered
      BY <1>1, <1>4, <2>1 DEF KInv, PurgedInv, Idling
    <2>4. PICK k \in entered : Purged(k) /\ k = Job(v) /\ k = Job(v)'
      BY <2>2, <2>3
    <2>5. Purged(k)'
      BY <1>3, <2>4
    <2>6. Purged(Job(v))'
      BY <2>4, <2>5 DEF Purged, FirstLive, Destroyed
    <2> QED
      BY <2>1, <2>2, <2>6 DEF KInv, PurgedInv
  <1>5. ASSUME NEW j \in Jobs, Acked(j)'
        PROVE  Purged(j)' /\ (j \in NoTenant \ NoInput => dlq'[j] > 0)
    <2>1. j \in entered /\ \A e \in stream' : e.job # j
      BY <1>1, <1>5 DEF Acked
    <2>2. CASE Acked(j)
      BY <1>3, <2>1, <2>2, DeadStays DEF KInv, PurgedInv
    <2>3. CASE ~Acked(j)
      <3>1. PICK e \in stream : e.job = j /\ e \notin stream'
        BY <2>1, <2>3 DEF Acked
      <3>2. CASE j \in NoInput
        BY <3>2 DEF Purged, Proper
      <3>3. CASE Finish(w) /\ e = cur[w]
        <4>1. j = Job(w) /\ j \notin NoTenant /\ Purged(j)
          BY <1>1, <3>1, <3>3 DEF Finish, Local, Idling, Job, KInv, PurgedInv
        <4> QED
          BY <1>3, <2>1, <4>1
      <3>4. CASE (Settle(w) \/ SettleAgain(w)) /\ e = cur[w]
        <4>1. j = Job(w) /\ pc[w] = "settle" /\ settle(cur[w], result[w].why # "ran")
          BY <3>1, <3>4 DEF Settle, SettleAgain, Job
        <4>2. Purged(j) /\ (j \in NoTenant => result[w].why = "missing_tenant")
          BY <4>1 DEF KInv, PurgedInv
        <4>3. ASSUME j \in NoTenant PROVE dlq'[j] > 0
          <5>1. settle(cur[w], TRUE) /\ cur[w].job = j
            BY <4>1, <4>2, <4>3 DEF Job
          <5>2. dlq' = [dlq EXCEPT ![j] = @ + 1]
            BY SMT, <5>1 DEF settle
          <5>3. dlq \in [Jobs -> Nat]
            BY <1>1 DEF StoresTypeOK
          <5> QED
            BY SMT, <5>2, <5>3
        <4> QED
          BY <1>3, <2>1, <4>2, <4>3
      <3> QED
        BY <3>1, <3>2, <3>3, <3>4, Removal
    <2> QED
      BY <2>2, <2>3
  <1> QED
    BY <1>4, <1>5, PurgeReached DEF PurgedInv

(* A handler brings a job in with an entry.                                *)
LEMMA PurgedSteps ==
  ASSUME IInv, KInv, PostNext, UNCHANGED workerVars
  PROVE  PurgedInv'
  <1>1. /\ UNCHANGED <<pc, cur, result>>
        /\ \A v \in Workers : pc[v] \notin Idling => Job(v) \in entered
        /\ \A v \in Workers : Job(v)' = Job(v)
    BY DEF KInv, EntriesInv, workerVars, Job
  <1>2. [Next]_vars
    BY DEF Next
  <1>3. \A j \in entered : Purged(j) => Purged(j)'
    BY <1>2, PurgedStays DEF KInv
  <1>4. PICK k \in Jobs :
          \/ Accept(k) \/ AddKey(k) \/ SendAdd(k) \/ ApplyAdd(k) \/ Queued(k)
          \/ AddError(k) \/ DropKey(k) \/ DropAccept(k) \/ PostCrash(k)
          \/ ForeignAdd(k)
    BY DEF PostNext
  <1>5. dlq' = dlq /\ stream \subseteq stream' /\ \A j \in entered' \ entered : \E e \in stream' : e.job = j
    <2>1. CASE UNCHANGED <<dlq, stream, entered>>
      BY <2>1
    <2>2. CASE UNCHANGED dlq /\ enqueue(k) /\ entered' = entered \cup {k}
      <3>1. stream' = stream \cup {[id |-> lastId + 1, job |-> k]}
        BY <2>2 DEF enqueue
      <3>2. [id |-> lastId + 1, job |-> k].job = k
        OBVIOUS
      <3> QED
        BY <2>2, <3>1, <3>2
    <2> QED
      BY <1>4, <2>1, <2>2 DEF Accept, AddKey, SendAdd, ApplyAdd, Queued, AddError, DropKey,
           DropAccept, PostCrash, ForeignAdd, Handler, storeVars, streamVars, deadVars
  <1>6. ASSUME NEW j \in Jobs, Acked(j)'
        PROVE  Purged(j)' /\ (j \in NoTenant \ NoInput => dlq'[j] > 0)
    <2>1. Acked(j) /\ j \in entered
      BY <1>5, <1>6 DEF Acked
    <2> QED
      BY <1>3, <1>5, <2>1 DEF KInv, PurgedInv
  <1>7. ASSUME NEW v \in Workers, pc'[v] \in {"drop", "publish", "finish", "settle"}
        PROVE  Purged(Job(v))'
    <2>1. PICK d \in entered : Purged(d) /\ d = Job(v)'
      BY <1>1, <1>7 DEF KInv, PurgedInv, Idling
    <2>2. Purged(d)'
      BY <1>3, <2>1
    <2> QED
      BY <2>1, <2>2 DEF Purged, FirstLive, Destroyed
  <1> QED
    BY <1>1, <1>6, <1>7 DEF KInv, PurgedInv

(* The second invariant holds at the start.                                *)
LEMMA KeysInit == Init => KInv
  <1> SUFFICES ASSUME Init PROVE KInv
    OBVIOUS
  <1> USE DEF Init, StoresInit, PostInit, WorkerInit
  <1>1. \A j \in Jobs : /\ post[j] = "new" /\ inflight[j] = 0 /\ keyRow[j] = 0 /\ keyGen[j] = 0
                        /\ outputs[j] = None
    OBVIOUS
  <1>2. \A w \in Workers : pc[w] = "down" /\ todo[w] = {}
    OBVIOUS
  <1>3. entered = {} /\ stream = {} /\ pending = {} /\ lastId = 0
    OBVIOUS
  <1>4. cursor <= lastId
    BY SMT, GroupAssumption DEF NoGroup
  <1>5. HandlerInv
    <2>1. \A j \in Jobs : keyRow[j] = keyGen[j] /\ keyGen[j] <= 1 /\ ~(inflight[j] > 0)
      BY SMT, <1>1
    <2> QED
      BY <1>1, <1>3, <2>1 DEF HandlerInv, Kept
  <1>6. EntriesInv
    BY <1>1, <1>2, <1>3, <1>4 DEF EntriesInv, Idling
  <1>7. ReasonsInv
    BY <1>1, <1>2 DEF ReasonsInv, Idling
  <1>8. PurgedInv
    BY <1>2, <1>3 DEF PurgedInv, Acked
  <1> QED
    BY <1>5, <1>6, <1>7, <1>8 DEF KInv

(* Every step preserves it.                                                *)
LEMMA KeysNext == IInv /\ KInv /\ [Next]_vars => KInv'
  <1> SUFFICES ASSUME IInv, KInv, [Next]_vars PROVE KInv'
    OBVIOUS
  <1>1. CASE PostNext /\ UNCHANGED workerVars
    BY <1>1, HandlerSteps, EntriesSteps, ReasonsSteps, PurgedSteps DEF KInv
  <1>2. ASSUME NEW w \in Workers, WorkerStep(w), UNCHANGED postVars PROVE KInv'
    BY <1>2, HandlerKeeps, EntriesKeep, ReasonsKeep, PurgedKeep DEF KInv
  <1>3. CASE /\ UNCHANGED <<postVars, workerVars, deadVars, keyVars, outputs, purgeVars>>
             /\ UNCHANGED <<stream, lastId, cursor, pending>>
    BY <1>3 DEF KInv, HandlerInv, EntriesInv, ReasonsInv, PurgedInv, Purged, Acked, Kept,
         FirstLive, Destroyed, Job, postVars, workerVars, deadVars, keyVars, purgeVars
  <1>4. CASE PutPolicy /\ UNCHANGED <<postVars, workerVars>>
    BY <1>3, <1>4 DEF PutPolicy, streamVars
  <1>5. CASE (\E e \in pending : BecomeIdle(e)) /\ UNCHANGED postVars
    BY <1>3, <1>5 DEF BecomeIdle
  <1>6. CASE UNCHANGED vars
    BY <1>3, <1>6 DEF vars, storeVars, streamVars
  <1> QED
    BY <1>1, <1>2, <1>4, <1>5, <1>6 DEF Next, WorkerNext, WorkerStep

(* Of every job and entry, in every reachable state: what its handler has  *)
(* left in job_keys, which key its input can be read with, and what was    *)
(* done before its entry was acknowledged.                                 *)
THEOREM KeysInvariant == Spec => [](IInv /\ KInv)
  <1>1. Init => IInv /\ KInv
    BY InitInv, KeysInit
  <1>2. IInv /\ KInv /\ [Next]_vars => (IInv /\ KInv)'
    BY NextInv, KeysNext
  <1> QED
    BY <1>1, <1>2, PTL DEF Spec

(* QueuedIsReadable in every reachable state: a job its client was told is *)
(* QUEUED keeps the key of its input, undestroyed, until it has a result,  *)
(* and is never buried for want of it.                                     *)
THEOREM QueuedStaysReadable == Spec => []QueuedIsReadable
  <1>1. IInv /\ KInv => QueuedIsReadable
    <2> SUFFICES ASSUME IInv, KInv, NEW j \in Proper \ UnknownType, post[j] = "queued"
                 PROVE  IF outputs[j] = None THEN Live(j) /\ keyRow[j] = 1
                        ELSE outputs[j].why \in {"ran", "runner_failed"}
      BY DEF QueuedIsReadable
    <2>1. j \in Jobs /\ j \in Proper
      BY DEF Proper
    <2>2. keyRow[j] = 1
      BY <2>1 DEF KInv, HandlerInv, Kept
    <2>3. keyRow[j] > 0
      BY SMT, <2>2
    <2>4. CASE outputs[j] = None
      <3>1. receipts[j] = None
        BY <2>1, <2>4 DEF IInv, ReceiptsFollow
      <3>2. ~Destroyed(j)
        BY <2>1, <3>1 DEF IInv, PurgeTimesAgree, Destroyed
      <3> QED
        BY <2>2, <2>3, <2>4, <3>2 DEF Live, Destroyed
    <2>5. CASE outputs[j] # None
      BY <2>1, <2>5 DEF KInv, ReasonsInv, Fair
    <2> QED
      BY <2>4, <2>5
  <1> QED
    BY <1>1, KeysInvariant, PTL

(* UnusableIsDropped in every reachable state: an entry without a tenant   *)
(* leaves the stream by way of the dead letters, with its key destroyed,   *)
(* one without an input just leaves it, and neither is journaled.          *)
THEOREM UnusableDropped == Spec => []UnusableIsDropped
  <1>1. IInv /\ KInv => UnusableIsDropped
    <2> SUFFICES ASSUME IInv, KInv, NEW j \in NoTenant \cup NoInput
                 PROVE  /\ outputs[j] = None /\ receipts[j] = None
                        /\ Acked(j) /\ j \notin NoInput => dlq[j] > 0 /\ ~Live(j)
      BY DEF UnusableIsDropped
    <2>1. j \in Jobs
      BY StoresAssumption
    <2>2. outputs[j] = None /\ receipts[j] = None
      BY <2>1 DEF IInv, ReceiptsFollow
    <2>3. ASSUME Acked(j), j \notin NoInput PROVE dlq[j] > 0 /\ Destroyed(j)
      BY <2>1, <2>3 DEF KInv, PurgedInv, Purged
    <2> QED
      BY <2>2, <2>3 DEF Live, Destroyed
  <1> QED
    BY <1>1, KeysInvariant, PTL

(* A job leaves the stream with its receipt written, and the key its input *)
(* is sealed with is deleted or destroyed, whatever fails.                 *)
AckedInputGone ==
  \A j \in Proper \ FailingJobs : Acked(j) => receipts[j] # None /\ ~FirstLive(j)

(* AckedInputGone in every reachable state, with every fault of the model. *)
THEOREM AckedUnreadable == Spec => []AckedInputGone
  <1>1. KInv => AckedInputGone
    BY DEF KInv, PurgedInv, Purged, AckedInputGone, Proper
  <1> QED
    BY <1>1, KeysInvariant, PTL

(* AckedIsPurged in every reachable state when jobs.Add does not fail after *)
(* its key is made: then the first key is the only one.                    *)
THEOREM AckedPurged == ~AddFails => (Spec => []AckedIsPurged)
  <1> SUFFICES ASSUME ~AddFails PROVE Spec => []AckedIsPurged
    OBVIOUS
  <1>1. IInv /\ KInv => AckedIsPurged
    <2> SUFFICES ASSUME IInv, KInv, NEW j \in Proper \ FailingJobs, Acked(j)
                 PROVE  receipts[j] # None /\ ~Live(j)
      BY DEF AckedIsPurged
    <2>1. j \in Jobs /\ receipts[j] # None /\ ~FirstLive(j)
      BY DEF KInv, PurgedInv, Purged, Proper
    <2>2. keyRow[j] \in Nat /\ keyRow[j] = keyGen[j] /\ keyGen[j] <= 1
      BY <2>1 DEF IInv, TypeOK, StoresTypeOK, KInv, HandlerInv
    <2>3. keyRow[j] > 0 => keyRow[j] = 1
      BY SMT, <2>2
    <2> QED
      BY <2>1, <2>3 DEF Live, FirstLive
  <1> QED
    BY <1>1, KeysInvariant, PTL

-----------------------------------------------------------------------------
(* The third invariant.                                                    *)

(* A delivered entry stays delivered and not idle while a worker moves, or *)
(* it is the worker's own and is acknowledged.                             *)
LEMMA DeliveredStays ==
  ASSUME NEW w \in Workers, IInv, WorkerStep(w), NEW e \in pending \ idle
  PROVE  \/ e \in pending' \ idle'
         \/ DispatchNoInput(w, e) /\ e \in todo[w]
         \/ (Finish(w) \/ Settle(w) \/ SettleAgain(w)) /\ e = cur[w]
  <1>1. CASE UNCHANGED streamVars
    BY <1>1 DEF streamVars
  <1>2. CASE ensureGroup \/ XAutoClaim \/ XReadGroup
    BY <1>2 DEF ensureGroup, XAutoClaim, XReadGroup
  <1>3. CASE \E d \in todo[w] : DispatchNoInput(w, d)
    BY <1>3 DEF DispatchNoInput, finish
  <1>4. CASE Finish(w)
    BY <1>4 DEF Finish, finish
  <1>5. CASE Settle(w) \/ SettleAgain(w)
    <2>1. settle(cur[w], result[w].why # "ran")
      BY <1>5 DEF Settle, SettleAgain
    <2>2. e = cur[w] \/ e \in pending' \ idle'
      BY <2>1 DEF settle, finish
    <2> QED
      BY <1>5, <2>2
  <1> QED
    BY <1>1, <1>2, <1>3, <1>4, <1>5, WorkerStream

(* An entry that has left the stream does not come back.                   *)
LEMMA DeletedStays ==
  ASSUME NEW w \in Workers, IInv, EntriesInv, WorkerStep(w), NEW e \in Entry,
         e \notin stream, e.id <= cursor
  PROVE  e \notin stream'
  <1>1. lastId \in Nat /\ cursor \in Int /\ cursor <= lastId /\ e.id \in Nat
    BY DEF IInv, TypeOK, StoresTypeOK, EntriesInv, Entry
  <1>2. ~(e.id = lastId + 1)
    BY SMT, <1>1
  <1>3. e # [id |-> lastId + 1, job |-> Job(w)]
    BY SMT, <1>2
  <1> QED
    BY <1>3, IdsGrow

(* When a worker moves, what the others have is not touched.               *)
LEMMA OthersOwn ==
  ASSUME NEW w \in Workers, IInv, KInv, ExclusiveInv, WorkerStep(w), NEW v \in Workers \ {w}
  PROVE  /\ Own(v)' = Own(v)
         /\ todo'[v] \subseteq pending' \ idle'
         /\ pc'[v] \notin Idling =>
              cur'[v] \notin todo'[v] /\ (cur'[v] \in pending' \ idle' \/ Spent(v)')
  <1>1. pc'[v] = pc[v] /\ cur'[v] = cur[v] /\ todo'[v] = todo[v]
    BY Shapes DEF KInv, Leaves, Gets, Takes, Tries, Concludes, Commits, Shift
  <1>2. Own(v)' = Own(v)
    BY <1>1 DEF Own
  <1>3. ASSUME NEW e \in Own(v), e \in pending \ idle PROVE e \in pending' \ idle'
    <2>1. e \notin Own(w)
      BY <1>3 DEF ExclusiveInv
    <2>2. CASE DispatchNoInput(w, e) /\ e \in todo[w]
      BY <2>1, <2>2 DEF Own
    <2>3. CASE (Finish(w) \/ Settle(w) \/ SettleAgain(w)) /\ e = cur[w]
      BY <2>1, <2>3 DEF Own, Finish, Settle, SettleAgain, Idling
    <2> QED
      BY <1>3, <2>2, <2>3, DeliveredStays
  <1>4. todo'[v] \subseteq pending' \ idle'
    BY <1>1, <1>3 DEF ExclusiveInv, Own
  <1>5. ASSUME pc[v] \notin Idling PROVE cur[v] \in pending' \ idle' \/ Spent(v)'
    <2>1. CASE cur[v] \in pending \ idle
      BY <1>3, <1>5, <2>1 DEF Own
    <2>2. CASE Spent(v)
      <3>1. cur[v] \in Entry /\ cur[v].id <= cursor /\ cur[v] \notin stream
        BY <1>5, <2>2, Facts DEF Spent, KInv, EntriesInv
      <3>2. PICK e \in Entry : e = cur[v]
        BY <3>1
      <3>3. e \notin stream'
        BY <3>1, <3>2, DeletedStays DEF KInv
      <3> QED
        BY <1>1, <2>2, <3>2, <3>3 DEF Spent
    <2> QED
      BY <1>5, <2>1, <2>2 DEF ExclusiveInv
  <1> QED
    BY <1>1, <1>2, <1>4, <1>5 DEF ExclusiveInv

(* A worker that is handed entries is the only one that has them.          *)
LEMMA GetsOwn ==
  ASSUME NEW w \in Workers, IInv, KInv, ExclusiveInv, WorkerStep(w), Gets(w)
  PROVE  /\ \A v \in Workers \ {w} : Own(v) \cap Own(w)' = {}
         /\ todo'[w] \subseteq pending' \ idle'
         /\ pc'[w] \in Idling
  <1>1. pc'[w] \in Idling /\ Own(w)' = todo'[w]
    BY DEF Gets, Shift, Own, Idling
  <1>2. /\ StoresTypeOK /\ WorkerTypeOK /\ cursor \in Int
        /\ \A v \in Workers : pc[v] \notin Idling => cur[v] \in Entry
    BY Facts DEF StoresTypeOK
  <1>3. CASE todo'[w] = {}
    BY <1>1, <1>3
  <1>4. CASE todo'[w] = idle /\ XAutoClaim
    <2>1. idle' = {} /\ pending' = pending /\ idle \subseteq pending /\ pending \subseteq stream
      BY <1>2, <1>4 DEF XAutoClaim, StoresTypeOK
    <2>2. ASSUME NEW v \in Workers \ {w}, NEW e \in Own(v) PROVE e \notin idle
      BY SMT, <2>1 DEF ExclusiveInv, Own, Spent
    <2> QED
      BY <1>1, <1>4, <2>1, <2>2
  <1>5. CASE todo'[w] = Undelivered /\ XReadGroup
    <2>1. pending' = pending \cup Undelivered /\ idle' = idle /\ idle \subseteq pending
      BY <1>2, <1>5 DEF XReadGroup, StoresTypeOK
    <2>2. ASSUME NEW e \in Undelivered PROVE ~(e.id <= cursor)
      <3>1. e.id > cursor /\ e.id \in Nat
        BY <1>2 DEF Undelivered, StoresTypeOK, Entry
      <3> QED
        BY SMT, <1>2, <3>1
    <2>3. ASSUME NEW v \in Workers, NEW e \in Own(v) PROVE e.id <= cursor
      BY DEF Own, KInv, EntriesInv
    <2>4. \A e \in pending : e.id <= cursor
      BY DEF KInv, EntriesInv
    <2> QED
      BY <1>1, <1>5, <2>1, <2>2, <2>3, <2>4
  <1> QED
    BY <1>1, <1>3, <1>4, <1>5 DEF Gets, Shift

(* Entries stay in one hand when a worker moves.                           *)
LEMMA ExclusiveKeep ==
  ASSUME NEW w \in Workers, IInv, KInv, ExclusiveInv, WorkerStep(w)
  PROVE  ExclusiveInv'
  <1> DEFINE Mine == /\ \A v \in Workers \ {w} : Own(v) \cap Own(w)' = {}
                     /\ todo'[w] \subseteq pending' \ idle'
                     /\ pc'[w] \notin Idling =>
                          /\ cur'[w] \notin todo'[w]
                          /\ cur'[w] \in pending' \ idle' \/ Spent(w)'
  <1>1. /\ StoresTypeOK /\ WorkerTypeOK
        /\ pc[w] \notin Idling => cur[w] \in Entry /\ cur[w].id <= cursor
    BY Facts DEF KInv, EntriesInv
  <1>2. ASSUME NEW e \in todo[w] PROVE e \in pending' \ idle' \/ e \notin todo'[w]
    <2>1. e \in pending \ idle
      BY DEF ExclusiveInv
    <2>2. CASE DispatchNoInput(w, e)
      BY <1>1, <2>2 DEF DispatchNoInput, Take, WorkerTypeOK
    <2>3. CASE (Finish(w) \/ Settle(w) \/ SettleAgain(w)) /\ e = cur[w]
      BY <2>3 DEF Finish, Settle, SettleAgain, Idling, ExclusiveInv
    <2> QED
      BY <2>1, <2>2, <2>3, DeliveredStays
  <1>3. ASSUME Leaves(w) PROVE Mine
    <2>1. pc'[w] \in Idling /\ todo'[w] \subseteq todo[w]
      BY <1>3 DEF Leaves, Shift
    <2>2. Own(w)' \subseteq Own(w)
      BY <2>1 DEF Own
    <2> QED
      BY <1>2, <2>1, <2>2 DEF ExclusiveInv
  <1>4. ASSUME Gets(w) PROVE Mine
    BY <1>4, GetsOwn
  <1>5. ASSUME \E e \in todo[w] : Takes(w, e) PROVE Mine
    <2>1. PICK e \in todo[w] :
            /\ cur'[w] = e /\ todo'[w] = todo[w] \ {e} /\ pc[w] = "loop"
            /\ Dispatch(w, e) \/ DispatchNoTenant(w, e)
      BY <1>5 DEF Takes, Shift
    <2>2. UNCHANGED <<pending, idle>>
      BY <2>1 DEF Dispatch, DispatchNoTenant, storeVars, streamVars
    <2>3. Own(w)' \subseteq Own(w)
      BY <2>1 DEF Own, Idling
    <2> QED
      BY <2>1, <2>2, <2>3 DEF ExclusiveInv
  <1>6. ASSUME Tries(w) \/ Concludes(w) \/ Commits(w) PROVE Mine
    <2>1. pc[w] \notin Idling /\ cur'[w] = cur[w] /\ todo'[w] = todo[w] /\ pc'[w] \notin Idling
      BY <1>6 DEF Tries, Concludes, Commits, Shift, Idling
    <2>2. Own(w)' = Own(w)
      BY <2>1 DEF Own
    <2>3. CASE cur[w] \in pending \ idle
      <3>1. ~DispatchNoInput(w, cur[w]) /\ ~Finish(w) /\ ~Settle(w)
        BY <1>1, <2>1 DEF DispatchNoInput, Take, Finish, Settle, Return, Idling, WorkerTypeOK
      <3>2. CASE SettleAgain(w)
        <4>1. pc'[w] = "settle" /\ LoseReplies /\ settle(cur[w], result[w].why # "ran")
          BY <3>2 DEF SettleAgain, Lose
        <4>2. cur[w] \notin stream'
          BY <4>1 DEF settle, finish
        <4> QED
          BY <1>2, <2>1, <2>2, <4>1, <4>2 DEF ExclusiveInv, Spent
      <3>3. CASE cur[w] \in pending' \ idle'
        BY <1>2, <2>1, <2>2, <3>3 DEF ExclusiveInv
      <3> QED
        BY <2>3, <3>1, <3>2, <3>3, DeliveredStays
    <2>4. CASE Spent(w)
      <3>1. pc'[w] = "settle"
        BY <1>6, <2>4 DEF Spent, Tries, Concludes, Commits, Shift, Trying
      <3>2. PICK e \in Entry : e = cur[w] /\ e \notin stream /\ e.id <= cursor
        BY <1>1, <2>1, <2>4 DEF Spent
      <3>3. e \notin stream'
        BY <3>2, DeletedStays DEF KInv
      <3>4. Spent(w)'
        BY <2>1, <2>4, <3>1, <3>2, <3>3 DEF Spent
      <3> QED
        BY <1>2, <2>1, <2>2, <3>4 DEF ExclusiveInv
    <2> QED
      BY <2>1, <2>3, <2>4 DEF ExclusiveInv
  <1>7. Mine
    BY <1>3, <1>4, <1>5, <1>6, Shapes DEF KInv
  <1> HIDE DEF Mine
  <1>8. ASSUME NEW v \in Workers PROVE \A u \in Workers \ {v} : Own(u)' \cap Own(v)' = {}
    <2>1. \A u \in Workers \ {w} : Own(u)' = Own(u)
      BY OthersOwn
    <2>2. \A u \in Workers \ {w} : Own(u)' \cap Own(w)' = {}
      BY <1>7, <2>1 DEF Mine
    <2> QED
      BY <2>1, <2>2 DEF ExclusiveInv
  <1> QED
    BY <1>7, <1>8, OthersOwn DEF ExclusiveInv, Mine

(* An entry that someone has still to come past stays one, until it is the *)
(* worker's own and the worker makes the step.                             *)
LEMMA AwaitsStays ==
  ASSUME NEW w \in Workers, IInv, KInv, WorkerStep(w), NEW j \in Proper \ FailingJobs,
         NEW past \in {{"publish", "finish", "settle"}, {"drop", "publish", "finish", "settle"}},
         Awaits(j, past)
  PROVE  \/ Awaits(j, past)'
         \/ DestroyKey(w) /\ Job(w) = j /\ "drop" \in past
         \/ DropCheckpoint(w) /\ Job(w) = j /\ "drop" \notin past
  <1>1. PICK e \in stream : e.job = j /\ \A v \in Workers : pc[v] \in past => cur[v] # e
    BY DEF Awaits
  <1>2. /\ "finish" \in past /\ "settle" \in past /\ "publish" \in past
        /\ past \subseteq {"drop", "publish", "finish", "settle"}
    OBVIOUS
  <1>3. e \in stream'
    <2>1. e.job \notin NoInput
      BY <1>1 DEF Proper
    <2>2. ~(Finish(w) /\ e = cur[w]) /\ ~((Settle(w) \/ SettleAgain(w)) /\ e = cur[w])
      BY <1>1, <1>2 DEF Finish, Settle, SettleAgain
    <2> QED
      BY <2>1, <2>2, Removal
  <1>4. \A v \in Workers \ {w} : pc'[v] \in past => cur'[v] # e
    BY <1>1, Shapes DEF KInv, Leaves, Gets, Takes, Tries, Concludes, Commits, Shift
  <1>5. CASE ~(pc'[w] \in past /\ cur'[w] = e)
    BY <1>1, <1>3, <1>4, <1>5 DEF Awaits
  <1>6. CASE pc'[w] \in past /\ cur'[w] = e
    <2>1. CASE Leaves(w) \/ Gets(w) \/ Tries(w) \/ Concludes(w)
      BY <1>2, <1>6, <2>1 DEF Leaves, Gets, Tries, Concludes, Shift, Idling, Trying
    <2>2. CASE \E d \in todo[w] : Takes(w, d)
      <3>1. PICK d \in todo[w] : DispatchNoTenant(w, d) /\ cur'[w] = d
        BY <1>2, <1>6, <2>2 DEF Takes, Shift
      <3> QED
        BY <1>1, <1>6, <3>1 DEF DispatchNoTenant, Proper
    <2>3. CASE Commits(w)
      <3>1. cur'[w] = cur[w] /\ Job(w) = j
        BY <1>1, <1>6, <2>3 DEF Commits, Shift, Job
      <3>2. pc[w] \notin past
        BY <1>1, <1>6, <3>1
      <3>3. ~(Peek(w) /\ pc[w] = "peek")
        BY <3>1, Facts DEF Local
      <3> QED
        BY <1>2, <1>6, <2>3, <3>1, <3>2, <3>3 DEF Commits, Shift
    <2> QED
      BY <2>1, <2>2, <2>3, Shapes DEF KInv
  <1> QED
    BY <1>5, <1>6

(* The worker's own entry is one it has still to come past.                *)
LEMMA OwnAwaits ==
  ASSUME NEW w \in Workers, IInv, KInv, ExclusiveInv, WorkerStep(w), NEW j \in Proper \ FailingJobs,
         NEW past \in {{"publish", "finish", "settle"}, {"drop", "publish", "finish", "settle"}},
         pc[w] \in Trying \ Idling, Job(w) = j
  PROVE  Awaits(j, past)'
  <1>1. pc[w] \notin Idling /\ pc[w] \notin past /\ pc[w] # "settle"
    BY DEF Trying, Idling
  <1>2. cur[w] \in stream
    BY <1>1 DEF ExclusiveInv, Spent, IInv, TypeOK, StoresTypeOK
  <1>3. \A v \in Workers : pc[v] \in past => cur[v] # cur[w]
    BY <1>1 DEF ExclusiveInv, Own, Idling
  <1>4. Awaits(j, past)
    BY <1>2, <1>3 DEF Awaits, Job
  <1>5. pc[w] \notin {"destroy", "drop"}
    BY DEF Trying
  <1> QED
    BY <1>4, <1>5, AwaitsStays DEF DestroyKey, DropCheckpoint, Step

(* Checkpoints and live keys wait for a worker.                            *)
LEMMA CheckpointKeep ==
  ASSUME NEW w \in Workers, IInv, KInv, ExclusiveInv, CheckpointInv, WorkerStep(w), UNCHANGED postVars
  PROVE  CheckpointInv'
  <1>1. /\ StoresTypeOK /\ WorkerTypeOK /\ Local(w) /\ Shared(w) /\ entered' = entered
        /\ pc[w] \notin Idling => Job(w) \in Jobs
    BY Facts DEF postVars
  <1> SUFFICES ASSUME NEW j \in Proper \ FailingJobs
               PROVE  /\ mem'[j] # 0 => Awaits(j, {"publish", "finish", "settle"})'
                      /\ Live(j)' /\ j \in entered =>
                           Awaits(j, {"drop", "publish", "finish", "settle"})'
    BY <1>1 DEF CheckpointInv
  <1> DEFINE late == {"publish", "finish", "settle"}
             later == {"drop", "publish", "finish", "settle"}
  <1>2. j \in Jobs
    BY DEF Proper
  <1>3. mem[j] # 0 => Awaits(j, late)
    BY DEF CheckpointInv
  <1>4. Live(j) /\ j \in entered => Awaits(j, later)
    BY DEF CheckpointInv
  <1>5. ASSUME mem'[j] # 0 PROVE Awaits(j, late)'
    <2>1. CASE mem'[j] = mem[j]
      <3>1. Awaits(j, late)
        BY <1>3, <1>5, <2>1
      <3>2. ~(DropCheckpoint(w) /\ Job(w) = j)
        BY <1>1, <1>2, <1>5 DEF DropCheckpoint, StoresTypeOK
      <3> QED
        BY <3>1, <3>2, AwaitsStays
    <2>2. CASE SaveStep1(w) /\ mem'[j] # mem[j]
      <3>1. Job(w) = j /\ pc[w] = "saveHash"
        BY <1>1, <1>2, <2>2 DEF SaveStep1, Step, StoresTypeOK
      <3> QED
        BY <3>1, OwnAwaits DEF Trying, Idling
    <2>3. CASE DropCheckpoint(w) /\ mem'[j] # mem[j]
      BY <1>1, <1>2, <1>5, <2>3 DEF DropCheckpoint, StoresTypeOK
    <2> QED
      BY <2>1, <2>2, <2>3, WorkerRows
  <1>6. ASSUME Live(j)', j \in entered PROVE Awaits(j, later)'
    <2>1. keyRow \in [Jobs -> Nat] /\ destroyedAt \in [Jobs -> Times \cup {None}]
      BY <1>1 DEF StoresTypeOK
    <2>2. CASE Live(j)
      <3>1. Awaits(j, later)
        BY <1>4, <1>6, <2>2
      <3>2. ~(DestroyKey(w) /\ Job(w) = j)
        <4>1. SUFFICES ASSUME DestroyKey(w), Job(w) = j PROVE FALSE
          OBVIOUS
        <4>2. pc[w] = "destroy" /\ Destroy(j, stamp[w])
          BY <4>1 DEF DestroyKey, Step
        <4>3. stamp[w] # None
          BY <1>1, <4>2 DEF Shared
        <4>4. destroyedAt'[j] = stamp[w]
          BY <1>2, <2>1, <2>2, <4>2 DEF Destroy
        <4> QED
          BY <1>6, <4>3, <4>4 DEF Live
      <3> QED
        BY <3>1, <3>2, AwaitsStays
    <2>3. CASE ~Live(j)
      <3>1. CASE UNCHANGED keyVars
        BY <1>6, <2>3, <3>1 DEF keyVars, Live
      <3>2. CASE Ensure(Job(w)) /\ pc[w] \in {"loadKey", "saveKey"}
        <4>1. CASE Job(w) = j
          BY <3>2, <4>1, OwnAwaits DEF Trying, Idling
        <4>2. CASE Job(w) # j
          <5>1. keyRow'[j] = keyRow[j] /\ destroyedAt' = destroyedAt
            BY <1>2, <2>1, <3>2, <4>2 DEF Ensure
          <5> QED
            BY <1>6, <2>3, <5>1 DEF Live
        <4> QED
          BY <4>1, <4>2
      <3>3. ASSUME NEW k, NEW t, Destroy(k, t) PROVE FALSE
        BY <1>2, <1>6, <2>1, <2>3, <3>3 DEF Destroy, Live
      <3>4. CASE Destroy(Job(w), stamp[w])
        BY <3>3, <3>4
      <3>5. CASE \E e \in todo[w], t \in Times : Destroy(e.job, t)
        BY <3>3, <3>5
      <3> QED
        BY <3>1, <3>2, <3>4, <3>5, WorkerKeys
    <2> QED
      BY <2>2, <2>3
  <1> QED
    BY <1>5, <1>6

(* A handler's step: a job that enters does so with an entry that nobody   *)
(* has.                                                                    *)
LEMMA ExclusiveSteps ==
  ASSUME IInv, KInv, ExclusiveInv, CheckpointInv, PostNext, UNCHANGED workerVars
  PROVE  ExclusiveInv' /\ CheckpointInv'
  <1>1. /\ StoresTypeOK /\ PostTypeOK /\ UNCHANGED <<pc, cur, todo>>
        /\ \A w \in Workers : pc[w] \notin Idling => cur[w] \in Entry /\ cur[w].id <= cursor
    BY Facts DEF IInv, TypeOK, KInv, EntriesInv, workerVars
  <1>2. PICK k \in Jobs :
          \/ Accept(k) \/ AddKey(k) \/ SendAdd(k) \/ ApplyAdd(k) \/ Queued(k)
          \/ AddError(k) \/ DropKey(k) \/ DropAccept(k) \/ PostCrash(k)
          \/ ForeignAdd(k)
    BY DEF PostNext
  <1> DEFINE new == [id |-> lastId + 1, job |-> k]
             Adds == stream' = stream \cup {new} /\ entered' = entered \cup {k}
  <1>3. /\ UNCHANGED <<mem, pending, idle>>
        /\ UNCHANGED <<stream, entered>> \/ Adds
    BY <1>2 DEF Accept, AddKey, SendAdd, ApplyAdd, Queued, AddError, DropKey,
         DropAccept, PostCrash, ForeignAdd, Handler, enqueue, storeVars, streamVars
  <1>4. \A w \in Workers : pc[w] \notin Idling => cur[w] # new
    <2>1. lastId \in Nat /\ cursor \in Int /\ cursor <= lastId
      BY <1>1 DEF StoresTypeOK, KInv, EntriesInv
    <2>2. \A n \in Nat : n <= cursor => n # lastId + 1
      BY SMT, <2>1
    <2>3. new.id = lastId + 1
      OBVIOUS
    <2> HIDE DEF new
    <2>4. \A w \in Workers : pc[w] \notin Idling => cur[w].id \in Nat
      BY <1>1 DEF Entry
    <2> QED
      BY <1>1, <2>2, <2>3, <2>4
  <1>5. new.job = k
    OBVIOUS
  <1> HIDE DEF new
  <1>6. ExclusiveInv'
    <2>1. \A w \in Workers : Own(w)' = Own(w)
      BY <1>1 DEF Own
    <2>2. \A w \in Workers : Spent(w) => Spent(w)'
      BY <1>1, <1>3, <1>4 DEF Spent, Idling
    <2> QED
      BY <1>1, <1>3, <2>1, <2>2 DEF ExclusiveInv
  <1>7. ASSUME NEW j, NEW past, Awaits(j, past) PROVE Awaits(j, past)'
    BY <1>1, <1>3, <1>7 DEF Awaits
  <1>8. CheckpointInv'
    <2> SUFFICES ASSUME NEW j \in Proper \ FailingJobs, Live(j)', j \in entered'
                 PROVE  Awaits(j, {"drop", "publish", "finish", "settle"})'
      BY <1>3, <1>7 DEF CheckpointInv
    <2>1. CASE j = k /\ Adds
      <3>1. new \in stream' /\ new.job = j
        BY <1>5, <2>1
      <3>2. \A w \in Workers : pc'[w] \in {"drop", "publish", "finish", "settle"} => cur'[w] # new
        BY <1>1, <1>4 DEF Idling
      <3> QED
        BY <3>1, <3>2 DEF Awaits
    <2>2. CASE j \in entered /\ ~(j = k /\ Adds)
      <3>1. j \in Jobs /\ keyRow \in [Jobs -> Nat] /\ destroyedAt \in [Jobs -> Times \cup {None}]
        BY <1>1 DEF Proper, StoresTypeOK
      <3>2. CASE UNCHANGED keyVars
        BY <1>7, <2>2, <3>2 DEF CheckpointInv, keyVars, Live
      <3>3. CASE DeleteKeyRow(k)
        <4>1. keyRow'[k] = 0 /\ (j # k => keyRow'[j] = keyRow[j] /\ destroyedAt'[j] = destroyedAt[j])
          BY <3>1, <3>3 DEF DeleteKeyRow
        <4>2. j # k
          BY SMT, <4>1 DEF Live
        <4> QED
          BY <1>7, <2>2, <4>1, <4>2 DEF CheckpointInv, Live
      <3>4. CASE Ensure(k) /\ post[k] \in {"new", "accepted"}
        <4>1. j # k
          BY <2>2, <3>4 DEF KInv, HandlerInv
        <4>2. keyRow'[j] = keyRow[j] /\ destroyedAt' = destroyedAt
          BY <3>1, <3>4, <4>1 DEF Ensure
        <4> QED
          BY <1>7, <2>2, <4>2 DEF CheckpointInv, Live
      <3> QED
        BY <1>2, <3>2, <3>3, <3>4 DEF Accept, AddKey, SendAdd, ApplyAdd, Queued, AddError, DropKey,
             DropAccept, PostCrash, ForeignAdd, Handler, storeVars
    <2> QED
      BY <1>3, <2>1, <2>2
  <1> QED
    BY <1>6, <1>8

(* The third invariant holds at the start.                                 *)
LEMMA ExclusiveInit == Init => XInv
  <1> SUFFICES ASSUME Init PROVE ExclusiveInv /\ CheckpointInv
    BY DEF XInv
  <1>1. \A w \in Workers : pc[w] = "down" /\ todo[w] = {}
    BY DEF Init, WorkerInit
  <1>2. entered = {} /\ \A j \in Jobs : mem[j] = 0
    BY DEF Init, PostInit, StoresInit
  <1> QED
    BY <1>1, <1>2 DEF ExclusiveInv, CheckpointInv, Own, Idling, Proper

(* Every step preserves it; time passing for an entry nobody has does too. *)
LEMMA ExclusiveNext == IInv /\ KInv /\ XInv /\ [Next]_vars => XInv'
  <1> SUFFICES ASSUME IInv, KInv, ~StealLive, ExclusiveInv, CheckpointInv, [Next]_vars
               PROVE  ExclusiveInv' /\ CheckpointInv'
    BY DEF XInv
  <1>1. CASE PostNext /\ UNCHANGED workerVars
    BY <1>1, ExclusiveSteps
  <1>2. ASSUME NEW w \in Workers, WorkerStep(w), UNCHANGED postVars
        PROVE  ExclusiveInv' /\ CheckpointInv'
    BY <1>2, ExclusiveKeep, CheckpointKeep
  <1>3. ASSUME UNCHANGED <<postVars, workerVars, keyVars, mem, stream>> PROVE CheckpointInv'
    BY SMT, <1>3 DEF CheckpointInv, Awaits, Live, postVars, workerVars, keyVars
  <1>4. CASE PutPolicy /\ UNCHANGED <<postVars, workerVars>>
    BY <1>3, <1>4 DEF PutPolicy, streamVars, workerVars, ExclusiveInv, Own, Spent
  <1>5. CASE (\E e \in pending : BecomeIdle(e)) /\ UNCHANGED postVars
    <2>1. PICK e \in pending : BecomeIdle(e)
      BY <1>5
    <2>2. /\ UNCHANGED <<workerVars, stream, pending, keyVars, mem>>
          /\ idle' = idle \cup {e} /\ \A w \in Workers : e \notin todo[w] /\ cur[w] # e
      BY <2>1 DEF BecomeIdle, Holds
    <2>3. ExclusiveInv'
      <3>1. \A w \in Workers : pc'[w] = pc[w] /\ cur'[w] = cur[w] /\ todo'[w] = todo[w]
        BY <2>2 DEF workerVars
      <3>2. \A w \in Workers : Own(w)' = Own(w) /\ (Spent(w) => Spent(w)')
        BY <2>2, <3>1 DEF Own, Spent
      <3> QED
        BY <2>2, <3>1, <3>2 DEF ExclusiveInv
    <2> QED
      BY <1>3, <1>5, <2>2, <2>3
  <1>6. CASE UNCHANGED vars
    BY <1>3, <1>6 DEF vars, storeVars, streamVars, workerVars, ExclusiveInv, Own, Spent
  <1> QED
    BY <1>1, <1>2, <1>4, <1>5, <1>6 DEF Next, WorkerNext, WorkerStep

(* When no entry becomes idle in a live worker's hands, an entry is in one *)
(* worker's hands at a time, and a checkpoint or a live key of a job that  *)
(* entered waits for the worker that will come past its removal.           *)
THEOREM ExclusiveInvariant == Spec => [](IInv /\ KInv /\ XInv)
  <1>1. Init => IInv /\ KInv /\ XInv
    BY InitInv, KeysInit, ExclusiveInit
  <1>2. IInv /\ KInv /\ XInv /\ [Next]_vars => (IInv /\ KInv /\ XInv)'
    BY NextInv, KeysNext, ExclusiveNext
  <1> QED
    BY <1>1, <1>2, PTL DEF Spec

(* AckedIsPurged in every reachable state when work on a message takes less *)
(* than WorkerConfig.Idle, whatever jobs.Add and the control plane do.     *)
THEOREM AckedPurgedInTime == ~StealLive => (Spec => []AckedIsPurged)
  <1> SUFFICES ASSUME ~StealLive PROVE Spec => []AckedIsPurged
    OBVIOUS
  <1>1. KInv /\ XInv => AckedIsPurged
    BY DEF KInv, PurgedInv, Purged, XInv, CheckpointInv, Awaits, AckedIsPurged, Acked, Proper
  <1> QED
    BY <1>1, ExclusiveInvariant, PTL

(* AckedLeavesNoCheckpoint in every reachable state, on the same condition: *)
(* a job that left the stream leaves no partial result in Redis, also when *)
(* workers crash between saveStep1 and the purge, replies are lost or the  *)
(* XADD is applied twice.                                                  *)
THEOREM NoCheckpointLeft == ~StealLive => (Spec => []AckedLeavesNoCheckpoint)
  <1> SUFFICES ASSUME ~StealLive PROVE Spec => []AckedLeavesNoCheckpoint
    OBVIOUS
  <1>1. XInv => AckedLeavesNoCheckpoint
    BY DEF XInv, CheckpointInv, Awaits, AckedLeavesNoCheckpoint, Acked
  <1> QED
    BY <1>1, ExclusiveInvariant, PTL

-----------------------------------------------------------------------------
(* The fourth invariant.                                                   *)

(* A worker's entry is in the stream when no reply is lost, and no other   *)
(* worker has an entry of its job.                                         *)
LEMMA OneHolder ==
  ASSUME NoDuplicates, IInv, ExclusiveInv, OneEntry, NEW w \in Workers, pc[w] \notin Idling
  PROVE  /\ cur[w] \in stream
         /\ \A v \in Workers \ {w} : pc[v] \notin Idling => Job(v) # Job(w)
  <1>1. \A v \in Workers : pc[v] \notin Idling => cur[v] \in stream
    BY DEF NoDuplicates, ExclusiveInv, Spent, IInv, TypeOK, StoresTypeOK
  <1>2. ASSUME NEW v \in Workers \ {w}, pc[v] \notin Idling PROVE cur[v] # cur[w]
    BY <1>2 DEF ExclusiveInv, Own
  <1> QED
    BY <1>1, <1>2 DEF OneEntry, Job

(* The settle script: the job is requeued, or it is dead-lettered, which   *)
(* takes a forced call or a third attempt.                                 *)
LEMMA SettleEffect ==
  ASSUME IInv, EntriesInv, NEW w \in Workers, Settle(w)
  PROVE  /\ \A j \in Jobs \ {Job(w)} : retry'[j] = retry[j] /\ dlq'[j] = dlq[j]
         /\ \/ /\ stream' = (stream \ {cur[w]}) \cup {[id |-> lastId + 1, job |-> Job(w)]}
               /\ retry'[Job(w)] <= 2 /\ dlq'[Job(w)] = dlq[Job(w)]
            \/ /\ stream' = stream \ {cur[w]}
               /\ retry'[Job(w)] <= 2 /\ dlq'[Job(w)] = dlq[Job(w)] + 1
               /\ ~(result[w].why = "ran" /\ retry[Job(w)] <= 1)
  <1>1. /\ retry \in [Jobs -> Nat] /\ dlq \in [Jobs -> Nat]
        /\ lastId \in Nat /\ cursor \in Int /\ cursor <= lastId
    BY DEF IInv, TypeOK, StoresTypeOK, EntriesInv
  <1>2. pc[w] = "settle" /\ settle(cur[w], result[w].why # "ran")
    BY DEF Settle
  <1>3. cur[w] \in Entry /\ Job(w) \in Jobs /\ cur[w].id \in Nat /\ cur[w].id <= cursor
    BY <1>2, Facts DEF Idling, Entry, EntriesInv
  <1>4. PICK k \in Jobs : k = Job(w) /\ k = cur[w].job
    BY <1>3 DEF Job
  <1> DEFINE n == IF result[w].why # "ran" THEN 3
                  ELSE IF retry[k] >= 3 THEN retry[k] ELSE retry[k] + 1
             new == [id |-> lastId + 1, job |-> k]
  <1>5. IF n < 3
        THEN /\ stream' = (stream \cup {new}) \ {cur[w]}
             /\ retry' = [retry EXCEPT ![k] = n] /\ dlq' = dlq
        ELSE /\ stream' = stream \ {cur[w]}
             /\ retry' = [retry EXCEPT ![k] = 0] /\ dlq' = [dlq EXCEPT ![k] = @ + 1]
    BY <1>2, <1>4 DEF settle, finish
  <1>6. retry[k] \in Nat
    BY <1>1
  <1>7. /\ n < 3 => n <= 2
        /\ ~(n < 3) => ~(result[w].why = "ran" /\ retry[k] <= 1)
    BY SMT, <1>6
  <1>8. cur[w] # new
    <2>1. ~(cur[w].id = lastId + 1)
      BY SMT, <1>1, <1>3
    <2>2. new.id = lastId + 1
      OBVIOUS
    <2> HIDE DEF new
    <2> QED
      BY <2>1, <2>2
  <1> HIDE DEF n
  <1>9. CASE n < 3
    <2>1. stream' = (stream \ {cur[w]}) \cup {new}
      BY <1>5, <1>8, <1>9
    <2>2. retry'[k] = n /\ \A j \in Jobs \ {k} : retry'[j] = retry[j]
      BY <1>1, <1>5, <1>9
    <2> QED
      BY <1>4, <1>5, <1>7, <1>9, <2>1, <2>2
  <1>10. CASE ~(n < 3)
    <2>1. /\ \A j \in Jobs \ {k} : retry'[j] = retry[j] /\ dlq'[j] = dlq[j]
          /\ retry'[k] = 0 /\ dlq'[k] = dlq[k] + 1
      BY <1>1, <1>5, <1>10
    <2>2. retry'[k] <= 2
      BY SMT, <2>1
    <2> QED
      BY <1>4, <1>5, <1>7, <1>10, <2>1, <2>2
  <1> QED
    BY <1>9, <1>10

(* No other call adds an entry or touches the counters.                    *)
LEMMA StreamShrinks ==
  ASSUME NoDuplicates, NEW w \in Workers, WorkerStep(w), ~Settle(w)
  PROVE  stream' \subseteq stream /\ retry' = retry /\ dlq' = dlq
  <1>1. ~SettleAgain(w)
    BY DEF NoDuplicates, SettleAgain, Lose
  <1> QED
    BY <1>1, WorkerStream DEF streamVars, deadVars, ensureGroup, XAutoClaim, XReadGroup,
         DispatchNoInput, Finish, finish

(* A job still has one entry at most.                                      *)
LEMMA OneEntryKeep ==
  ASSUME NoDuplicates, NEW w \in Workers, IInv, KInv, ExclusiveInv, OneEntry, WorkerStep(w)
  PROVE  OneEntry'
  <1>1. CASE stream' \subseteq stream
    BY <1>1 DEF OneEntry
  <1>2. CASE Settle(w) /\ stream' = (stream \ {cur[w]}) \cup {[id |-> lastId + 1, job |-> Job(w)]}
    <2>1. cur[w] \in stream
      BY <1>2, OneHolder DEF Settle, Idling
    <2>2. \A d \in stream \ {cur[w]} : d.job # Job(w)
      BY <2>1 DEF OneEntry, Job
    <2>3. [id |-> lastId + 1, job |-> Job(w)].job = Job(w)
      OBVIOUS
    <2> QED
      BY <1>2, <2>2, <2>3 DEF OneEntry
  <1> QED
    BY <1>1, <1>2, SettleEffect, StreamShrinks DEF KInv

(* A failing job in the stores, when a worker moves.                       *)
LEMMA AttemptedKeep ==
  ASSUME NoDuplicates, NEW w \in Workers, IInv, KInv, ExclusiveInv, AttemptsInv, WorkerStep(w),
         UNCHANGED postVars, NEW j \in FailingJobs \cap Proper
  PROVE  Attempted(j)'
  <1>1. /\ StoresTypeOK /\ Local(w) /\ Shared(w) /\ entered' = entered /\ j \in Jobs
        /\ Attempted(j) /\ OneEntry /\ dlq \in [Jobs -> Nat]
        /\ pc[w] \notin Idling => Job(w) \in Jobs /\ Job(w) \in entered
        /\ pc[w] \notin Idling /\ Job(w) = j => Attempting(w)
    BY Facts DEF postVars, Proper, AttemptsInv, StoresTypeOK, KInv, EntriesInv
  <1>2. [Next]_vars
    BY DEF WorkerStep, Next, WorkerNext
  <1>3. /\ Destroyed(j) => Destroyed(j)'
        /\ outputs[j] # None => outputs'[j] # None
    BY <1>1, <1>2, KeysStayWorker, StepGrows DEF KInv, StoresGrow
  <1>4. ASSUME outputs'[j] # None PROVE outputs'[j].state = "FAILED"
    <2>1. CASE outputs'[j] = outputs[j]
      BY <1>1, <1>4, <2>1 DEF Attempted
    <2>2. CASE RecordResult(w) /\ outputs'[j] # outputs[j]
      <3>1. j = Job(w) /\ pc[w] = "record" /\ outputs'[j] = result[w]
        BY <1>1, <2>2 DEF RecordResult, Record, StoresTypeOK
      <3> QED
        BY <1>1, <3>1 DEF Local, Idling, Attempting
    <2> QED
      BY <2>1, <2>2, WorkerRows
  <1>5. CASE ~Settle(w)
    <2>1. stream' \subseteq stream /\ retry' = retry /\ dlq' = dlq
      BY <1>5, StreamShrinks
    <2>2. Acked(j) => Acked(j)'
      BY <1>1, <2>1 DEF Acked
    <2>3. ASSUME Acked(j)', ~Acked(j) PROVE outputs[j] # None /\ Destroyed(j)
      <3>1. PICK e \in stream : e.job = j /\ e \notin stream'
        BY <1>1, <2>3 DEF Acked
      <3>2. Finish(w) /\ e = cur[w]
        <4>1. e.job \notin NoInput /\ ~SettleAgain(w)
          BY <3>1 DEF Proper, NoDuplicates, SettleAgain, Lose
        <4> QED
          BY <1>5, <3>1, <4>1, Removal
      <3>3. Job(w) = j /\ pc[w] = "finish"
        BY <3>1, <3>2 DEF Finish, Job
      <3> QED
        BY <1>1, <3>3 DEF Attempting, Shared, Committed, Idling
    <2> QED
      BY <1>1, <1>3, <1>4, <2>1, <2>2, <2>3 DEF Attempted
  <1>6. CASE Settle(w) /\ Job(w) # j
    <2>1. retry'[j] = retry[j] /\ dlq'[j] = dlq[j]
      BY <1>1, <1>6, SettleEffect DEF KInv
    <2>2. [id |-> lastId + 1, job |-> Job(w)].job = Job(w)
      OBVIOUS
    <2>3. Acked(j)' <=> Acked(j)
      BY <1>1, <1>6, <2>2, SettleEffect DEF KInv, Acked, Job
    <2> QED
      BY <1>1, <1>3, <1>4, <2>1, <2>3 DEF Attempted
  <1>7. CASE Settle(w) /\ Job(w) = j
    <2>1. cur[w] \in stream /\ cur[w].job = j /\ pc[w] = "settle" /\ pc[w] \notin Idling
      BY <1>1, <1>7, OneHolder DEF Settle, Idling, Job
    <2>2. ~Acked(j) /\ dlq[j] = 0
      <3>1. ~Acked(j)
        BY <2>1 DEF Acked
      <3>2. ~(dlq[j] > 0) /\ dlq[j] \in Nat
        BY <1>1, <3>1 DEF Attempted
      <3> QED
        BY SMT, <3>1, <3>2
    <2>3. CASE /\ stream' = (stream \ {cur[w]}) \cup {[id |-> lastId + 1, job |-> j]}
               /\ retry'[j] <= 2 /\ dlq'[j] = dlq[j]
      <3>1. [id |-> lastId + 1, job |-> j].job = j
        OBVIOUS
      <3>2. ~Acked(j)'
        BY <2>3, <3>1 DEF Acked
      <3>3. dlq'[j] <= 1 /\ ~(dlq'[j] > 0)
        BY SMT, <2>2, <2>3
      <3> QED
        BY <1>4, <2>3, <3>2, <3>3 DEF Attempted
    <2>4. CASE /\ stream' = stream \ {cur[w]}
               /\ retry'[j] <= 2 /\ dlq'[j] = dlq[j] + 1
               /\ ~(result[w].why = "ran" /\ retry[j] <= 1)
      <3>1. dlq'[j] <= 1
        BY SMT, <2>2, <2>4
      <3>2. outputs[j] # None /\ Destroyed(j)
        BY <1>1, <1>7, <2>1, <2>4 DEF Attempting
      <3>3. Acked(j)'
        BY <1>1, <1>7, <2>1, <2>4 DEF Acked, OneEntry
      <3> QED
        BY <1>3, <1>4, <2>4, <3>1, <3>2, <3>3 DEF Attempted
    <2> QED
      BY <1>7, <2>3, <2>4, SettleEffect DEF KInv
  <1> QED
    BY <1>5, <1>6, <1>7

(* A failing job in a worker's hands, when a worker moves.                 *)
LEMMA AttemptingKeep ==
  ASSUME NoDuplicates, NEW w \in Workers, IInv, KInv, ExclusiveInv, AttemptsInv, WorkerStep(w),
         UNCHANGED postVars, NEW v \in Workers,
         pc'[v] \notin Idling, Job(v)' \in FailingJobs \cap Proper
  PROVE  Attempting(v)'
  <1>1. /\ StoresTypeOK /\ WorkerTypeOK /\ Local(w) /\ Shared(w) /\ OneEntry
        /\ \A u \in Workers : pc[u] \notin Idling =>
             /\ Job(u) \in Jobs /\ Job(u) \in entered
             /\ Job(u) \in FailingJobs \cap Proper => Attempting(u)
    BY Facts DEF AttemptsInv, KInv, EntriesInv
  <1>2. [Next]_vars
    BY DEF WorkerStep, Next, WorkerNext
  <1>3. ASSUME NEW j \in Jobs
        PROVE  /\ Destroyed(j) => Destroyed(j)'
               /\ outputs[j] # None => outputs'[j] # None
    BY <1>2, KeysStayWorker, StepGrows DEF KInv, StoresGrow
  <1>4. CASE v # w
    <2>1. pc'[v] = pc[v] /\ cur'[v] = cur[v] /\ result'[v] = result[v]
      BY <1>4, Shapes DEF KInv, Leaves, Gets, Takes, Tries, Concludes, Commits, Shift
    <2>2. PICK j \in Jobs : j = Job(v) /\ j = Job(v)' /\ Attempting(v) /\ pc[v] \notin Idling
      BY <1>1, <2>1 DEF Job
    <2>3. retry'[j] = retry[j]
      <3>1. CASE Settle(w)
        <4>1. Job(w) # j
          BY <1>1, <1>4, <2>2, <3>1, OneHolder DEF Settle, Idling
        <4> QED
          BY <3>1, <4>1, SettleEffect DEF KInv
      <3> QED
        BY <3>1, StreamShrinks
    <2>4. /\ Destroyed(j) => Destroyed(j)'
          /\ outputs[j] # None => outputs'[j] # None
      BY <1>3
    <2>5. Destroyed(Job(v))' <=> Destroyed(j)'
      BY <2>2 DEF Destroyed
    <2> QED
      BY <2>1, <2>2, <2>3, <2>4, <2>5 DEF Attempting
  <1>5. CASE v = w
    <2>1. CASE Leaves(w) \/ Gets(w)
      BY <1>5, <2>1 DEF Leaves, Gets, Shift, Idling
    <2>2. CASE \E e \in todo[w] : Takes(w, e)
      <3>1. PICK e \in todo[w] : Takes(w, e)
        BY <2>2
      <3>2. e.job \notin NoTenant
        BY <1>5, <3>1 DEF Takes, Shift, Job, Proper
      <3>3. pc'[w] \in {"load", "getReceipt"} /\ result'[w] = None
        BY <3>1, <3>2 DEF Takes, Shift, DispatchNoTenant
      <3> QED
        BY <1>5, <3>3 DEF Attempting
    <2>3. CASE Tries(w) \/ Concludes(w) \/ Commits(w)
      <3>1. cur'[w] = cur[w] /\ pc[w] \notin Idling
        BY <2>3 DEF Tries, Concludes, Commits, Shift, Idling
      <3>2. PICK j \in Jobs : j = Job(w) /\ j = Job(w)' /\ j \in FailingJobs \cap Proper /\ Attempting(w)
        BY <1>1, <1>5, <3>1 DEF Job
      <3>3. CASE Tries(w)
        BY <1>5, <3>2, <3>3 DEF Tries, Shift, Trying, Idling, Attempting
      <3>4. CASE Concludes(w)
        BY <1>5, <3>2, <3>4 DEF Concludes, Verdict, Shift, Attempting
      <3>5. CASE Commits(w)
        <4>1. result'[w] = result[w]
          BY <3>5 DEF Commits, Shift
        <4>2. /\ Destroyed(j) => Destroyed(j)'
              /\ outputs[j] # None => outputs'[j] # None
              /\ Destroyed(Job(w))' <=> Destroyed(j)'
          BY <1>3, <3>2 DEF Destroyed
        <4>3. CASE Peek(w) /\ pc[w] = "peek"
          <5>1. retry' = retry /\ (pc'[w] = "record" \/ (pc'[w] = "settle" /\ ~(retry[j] >= 2)))
            BY <1>1, <3>2, <4>3 DEF Peek, Step, Goto, storeVars, deadVars, WorkerTypeOK
          <5>2. ~(retry[j] >= 2) => retry[j] <= 1
            <6>1. retry[j] \in Nat
              BY <1>1 DEF StoresTypeOK
            <6> QED
              BY SMT, <6>1
          <5> QED
            BY <1>5, <3>2, <4>1, <4>3, <5>1, <5>2 DEF Attempting
        <4>4. CASE pc'[w] \in {"getReceipt", "insertReceipt", "destroy"}
          BY <1>5, <3>2, <4>1, <4>4 DEF Attempting
        <4>5. CASE DestroyKey(w) /\ pc[w] = "destroy" /\ pc'[w] = "drop"
          <5>1. Destroy(j, stamp[w]) /\ stamp[w] # None
            BY <1>1, <3>2, <4>5 DEF DestroyKey, Shared
          <5>2. keyRow[j] > 0
            BY <1>1, <3>1, <3>2 DEF NoDuplicates, KInv, HandlerInv
          <5>3. destroyedAt \in [Jobs -> Times \cup {None}]
            BY <1>1 DEF StoresTypeOK
          <5>4. Destroyed(j)'
            BY <5>1, <5>2, <5>3 DEF Destroy, Destroyed, Live
          <5> QED
            BY <1>5, <3>2, <4>1, <4>2, <4>5, <5>4 DEF Attempting
        <4>6. CASE pc[w] \in {"drop", "publish"} /\ pc'[w] \in {"finish", "publish", "settle"}
          <5>1. outputs[j] # None /\ Destroyed(j)
            BY <1>1, <3>2, <4>6 DEF Shared, Committed, Attempting
          <5> QED
            BY <1>5, <3>2, <4>1, <4>2, <4>6, <5>1 DEF Attempting
        <4>7. ~SettleAgain(w)
          BY DEF NoDuplicates, SettleAgain, Lose
        <4> QED
          BY <3>5, <4>3, <4>4, <4>5, <4>6, <4>7 DEF Commits, Shift
      <3> QED
        BY <2>3, <3>3, <3>4, <3>5
    <2> QED
      BY <2>1, <2>2, <2>3, Shapes DEF KInv
  <1> QED
    BY <1>4, <1>5

(* A handler sends a job once, and the job enters once.                    *)
LEMMA AttemptsSteps ==
  ASSUME NoDuplicates, IInv, KInv, AttemptsInv, PostNext, UNCHANGED workerVars
  PROVE  AttemptsInv'
  <1>1. /\ StoresTypeOK /\ PostTypeOK /\ SendsInv /\ UNCHANGED <<pc, cur, result>>
        /\ \A v \in Workers : Job(v)' = Job(v)
        /\ \A v \in Workers : pc[v] \notin Idling => Job(v) \in Jobs
        /\ sends \in [Jobs -> Nat] /\ inflight \in [Jobs -> Nat] /\ MaxSends \in Nat
    BY Facts, PostAssumption DEF IInv, TypeOK, PostTypeOK, AttemptsInv, workerVars, Job
  <1>2. PICK k \in Jobs :
          \/ Accept(k) \/ AddKey(k) \/ SendAdd(k) \/ ApplyAdd(k) \/ Queued(k)
          \/ AddError(k) \/ DropKey(k) \/ DropAccept(k) \/ PostCrash(k)
          \/ ForeignAdd(k)
    BY DEF PostNext
  <1>3. UNCHANGED <<retry, dlq, outputs>>
    BY <1>2 DEF Accept, AddKey, SendAdd, ApplyAdd, Queued, AddError, DropKey,
         DropAccept, PostCrash, ForeignAdd, storeVars, deadVars
  <1>4. ASSUME NEW j \in Jobs, Destroyed(j) PROVE Destroyed(j)'
    BY <1>4, KeysStayPost DEF KInv, NoDuplicates
  <1>5. CASE SendAdd(k)
    <2>1. post[k] = "keyed" /\ sends[k] < MaxSends /\ k \notin Foreign
      BY <1>5 DEF SendAdd, KInv, HandlerInv
    <2>2. sends[k] = 0 /\ inflight[k] = 0 /\ k \notin entered
      <3>1. sends[k] = 0 /\ inflight[k] = 0
        BY SMT, <1>1, <2>1 DEF SendsInv, NoDuplicates
      <3>2. ~(sends[k] = 1)
        BY SMT, <3>1
      <3> QED
        BY <1>1, <2>1, <3>1, <3>2 DEF SendsInv
    <2>3. /\ sends'[k] = 1 /\ inflight'[k] = 1
          /\ \A j \in Jobs \ {k} : sends'[j] = sends[j] /\ inflight'[j] = inflight[j]
      <3>1. /\ sends'[k] = sends[k] + 1 /\ inflight'[k] = inflight[k] + 1
            /\ \A j \in Jobs \ {k} : sends'[j] = sends[j] /\ inflight'[j] = inflight[j]
        BY <1>1, <1>5 DEF SendAdd
      <3>2. sends[k] + 1 = 1 /\ inflight[k] + 1 = 1
        BY SMT, <2>2
      <3> QED
        BY <3>1, <3>2
    <2>4. sends'[k] <= 1 /\ inflight'[k] <= sends'[k]
      BY SMT, <2>3
    <2>5. SendsInv' /\ UNCHANGED <<stream, entered>>
      BY <1>1, <1>5, <2>2, <2>3, <2>4 DEF SendsInv, SendAdd, storeVars, streamVars
    <2>6. \A j : Acked(j)' = Acked(j)
      BY <2>5 DEF Acked
    <2>7. keyVars' = keyVars
      BY <1>5 DEF SendAdd, storeVars
    <2> QED
      BY <1>1, <1>3, <2>5, <2>6, <2>7 DEF AttemptsInv, OneEntry, Attempted, Attempting, Destroyed, keyVars
  <1>6. CASE /\ k \notin entered /\ entered' = entered \cup {k} /\ enqueue(k) /\ sends' = sends
             /\ inflight'[k] = 0 /\ \A j \in Jobs \ {k} : inflight'[j] = inflight[j]
             /\ k \in Foreign \/ sends[k] = 1
    <2>1. SendsInv'
      <3>1. sends[k] \in Nat
        BY <1>1
      <3>2. 0 <= sends[k]
        BY SMT, <3>1
      <3> QED
        BY <1>1, <1>6, <3>2 DEF SendsInv
    <2>2. stream' = stream \cup {[id |-> lastId + 1, job |-> k]}
      BY <1>6 DEF enqueue
    <2>3. \A e \in stream : e.job # k
      BY <1>6 DEF KInv, EntriesInv
    <2>4. [id |-> lastId + 1, job |-> k].job = k
      OBVIOUS
    <2>5. OneEntry'
      BY <2>2, <2>3, <2>4 DEF AttemptsInv, OneEntry
    <2>6. ASSUME NEW j \in Jobs PROVE Acked(j)' <=> Acked(j)
      BY <1>6, <2>2, <2>4 DEF Acked
    <2>7. ASSUME NEW j \in FailingJobs \cap Proper PROVE Attempted(j)'
      BY <1>3, <1>4, <2>6 DEF AttemptsInv, Attempted, Proper
    <2>8. ASSUME NEW v \in Workers, pc'[v] \notin Idling, Job(v)' \in FailingJobs \cap Proper
          PROVE  Attempting(v)'
      <3>1. PICK j \in Jobs : j = Job(v) /\ j = Job(v)' /\ Attempting(v)
        BY <1>1, <2>8 DEF AttemptsInv
      <3>2. Destroyed(j) => Destroyed(Job(v))'
        BY <1>4, <3>1 DEF Destroyed
      <3> QED
        BY <1>1, <1>3, <3>1, <3>2 DEF Attempting
    <2> QED
      BY <2>1, <2>5, <2>7, <2>8 DEF AttemptsInv
  <1>7. CASE ApplyAdd(k)
    <2>1. inflight[k] > 0 /\ inflight[k] <= sends[k] /\ sends[k] <= 1
      BY <1>1, <1>7 DEF ApplyAdd, SendsInv
    <2>2. inflight[k] = 1 /\ sends[k] = 1
      BY SMT, <1>1, <2>1
    <2>3. k \notin entered
      <3>1. ~(inflight[k] = 0)
        BY SMT, <2>2
      <3> QED
        BY <1>1, <3>1 DEF SendsInv
    <2>4. inflight'[k] = 0 /\ \A j \in Jobs \ {k} : inflight'[j] = inflight[j]
      BY SMT, <1>1, <1>7, <2>2 DEF ApplyAdd
    <2> QED
      BY <1>6, <1>7, <2>2, <2>3, <2>4 DEF ApplyAdd
  <1>8. CASE ForeignAdd(k)
    <2>1. k \notin entered /\ inflight[k] = 0 /\ k \in Foreign
      BY <1>8 DEF ForeignAdd, KInv, HandlerInv
    <2> QED
      BY <1>6, <1>8, <2>1 DEF ForeignAdd
  <1>9. CASE UNCHANGED <<sends, inflight, entered, stream>>
    <2>1. SendsInv' /\ OneEntry'
      BY <1>9 DEF AttemptsInv, SendsInv, OneEntry
    <2>2. \A j : Acked(j)' = Acked(j)
      BY <1>9 DEF Acked
    <2>3. ASSUME NEW j \in FailingJobs \cap Proper PROVE Attempted(j)'
      BY <1>3, <1>4, <2>2 DEF AttemptsInv, Attempted, Proper
    <2>4. ASSUME NEW v \in Workers, pc'[v] \notin Idling, Job(v)' \in FailingJobs \cap Proper
          PROVE  Attempting(v)'
      <3>1. PICK j \in Jobs : j = Job(v) /\ j = Job(v)' /\ Attempting(v)
        BY <1>1, <2>4 DEF AttemptsInv
      <3>2. Destroyed(j) => Destroyed(Job(v))'
        BY <1>4, <3>1 DEF Destroyed
      <3> QED
        BY <1>1, <1>3, <3>1, <3>2 DEF Attempting
    <2> QED
      BY <2>1, <2>3, <2>4 DEF AttemptsInv
  <1> QED
    BY <1>2, <1>5, <1>7, <1>8, <1>9 DEF Accept, AddKey, Queued, AddError, DropKey,
         DropAccept, PostCrash, Handler, storeVars, streamVars

(* The fourth invariant holds at the start.                                *)
LEMMA AttemptsInit == Init => TInv
  <1> SUFFICES ASSUME Init PROVE AttemptsInv
    BY DEF TInv
  <1>1. /\ entered = {} /\ stream = {} /\ \A w \in Workers : pc[w] = "down"
        /\ \A j \in Jobs : /\ sends[j] = 0 /\ inflight[j] = 0 /\ retry[j] = 0 /\ dlq[j] = 0
                           /\ outputs[j] = None
    BY DEF Init, StoresInit, PostInit, WorkerInit
  <1>2. \A j \in Jobs : /\ sends[j] <= 1 /\ inflight[j] <= sends[j]
                        /\ retry[j] <= 2 /\ dlq[j] <= 1 /\ ~(dlq[j] > 0)
    BY SMT, <1>1
  <1> QED
    BY <1>1, <1>2 DEF AttemptsInv, SendsInv, OneEntry, Attempted, Acked, Idling, Proper

(* Every step preserves it.                                                *)
LEMMA AttemptsNext == IInv /\ KInv /\ XInv /\ TInv /\ [Next]_vars => TInv'
  <1> SUFFICES ASSUME IInv, KInv, ExclusiveInv, NoDuplicates, AttemptsInv, [Next]_vars
               PROVE  AttemptsInv'
    BY DEF TInv, XInv, NoDuplicates
  <1>1. CASE PostNext /\ UNCHANGED workerVars
    BY <1>1, AttemptsSteps
  <1>2. ASSUME NEW w \in Workers, WorkerStep(w), UNCHANGED postVars PROVE AttemptsInv'
    <2>1. SendsInv'
      BY <1>2 DEF AttemptsInv, SendsInv, postVars
    <2>2. OneEntry'
      BY <1>2, OneEntryKeep DEF AttemptsInv
    <2> QED
      BY <1>2, <2>1, <2>2, AttemptedKeep, AttemptingKeep DEF AttemptsInv
  <1>3. CASE UNCHANGED <<postVars, workerVars, deadVars, keyVars, outputs, stream>>
    BY <1>3 DEF AttemptsInv, SendsInv, OneEntry, Attempted, Attempting, Acked, Destroyed, Job,
         postVars, workerVars, deadVars, keyVars
  <1>4. CASE PutPolicy /\ UNCHANGED <<postVars, workerVars>>
    BY <1>3, <1>4 DEF PutPolicy, streamVars
  <1>5. CASE (\E e \in pending : BecomeIdle(e)) /\ UNCHANGED postVars
    BY <1>3, <1>5 DEF BecomeIdle
  <1>6. CASE UNCHANGED vars
    BY <1>3, <1>6 DEF vars, storeVars, streamVars
  <1> QED
    BY <1>1, <1>2, <1>4, <1>5, <1>6 DEF Next, WorkerNext, WorkerStep

(* ThreeAttempts in every reachable state when nothing is duplicated: the  *)
(* handler's jobs.Add neither fails nor is sent again, no reply of Redis   *)
(* is lost, and no entry becomes idle in a live worker's hands. Workers    *)
(* may still crash anywhere, and their entries are claimed by others.      *)
THEOREM AttemptsBounded == NoDuplicates => (Spec => []ThreeAttempts)
  <1> SUFFICES ASSUME NoDuplicates PROVE Spec => []ThreeAttempts
    OBVIOUS
  <1> DEFINE All == IInv /\ KInv /\ XInv /\ TInv
  <1>1. Init => All
    BY InitInv, KeysInit, ExclusiveInit, AttemptsInit
  <1>2. All /\ [Next]_vars => All'
    BY NextInv, KeysNext, ExclusiveNext, AttemptsNext
  <1>3. All => ThreeAttempts
    BY DEF TInv, AttemptsInv, OneEntry, Attempted, ThreeAttempts
  <1> QED
    BY <1>1, <1>2, <1>3, PTL DEF Spec
=============================================================================
