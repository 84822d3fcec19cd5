--------------------------- MODULE JobReadsProofs ---------------------------
(* Proofs about JobReads, for any number of readers, jobs and workers.     *)
EXTENDS JobReads, JobSystemProofs

-----------------------------------------------------------------------------
(* The inductive invariant: what the pipeline keeps for its readers, and   *)
(* what a request knows between two of its queries.                        *)

(* A request on its way to QUEUED has its acceptance.                      *)
AcceptStays ==
  \A j \in Jobs : post[j] \in {"accepted", "keyed", "queued"} => j \in accepts

(* The hash is written with a key that exists.                             *)
HeldKey == \A w \in Workers : pc[w] = "saveHash" => held[w] # 0

Under(j) == mem[j] # 0 \/ outputs[j] # None

(* What held when the request began still does, "running" in the sense     *)
(* that the job has a checkpoint or a result.                              *)
StillSo(r) ==
  LET j == asked[r] IN
  /\ "queued" \in before[r] => post[j] = "queued"
  /\ "done" \in before[r] => outputs[j] # None
  /\ "purged" \in before[r] => receipts[j] # None
  /\ "running" \in before[r] => Under(j)

(* A column of the report that is filled is the store's, and one that is   *)
(* blank was so when the report began or its query failed.                 *)
RowIsSo(r) ==
  LET j == asked[r] IN
  /\ shown[r].status # "blank" => outputs[j] # None /\ shown[r].status = outputs[j].state
  /\ ~failed[r] /\ "done" \in before[r] => shown[r].status = outputs[j].state

PurgedIsSo(r) ==
  LET j == asked[r] IN
  /\ shown[r].purged # None => shown[r].purged = receipts[j]
  /\ ~failed[r] /\ "purged" \in before[r] => shown[r].purged = receipts[j]

Request(r) ==
  /\ StillSo(r)
  /\ rpc[r] \in {"accept", "running"} => "done" \notin before[r]
  /\ rpc[r] \in {"jobs", "receipt", "reported"} => "queued" \notin before[r]
  /\ rpc[r] \in {"receipt", "reported"} => RowIsSo(r)
  /\ rpc[r] = "receipt" => shown[r].purged = None
  /\ rpc[r] = "reported" => PurgedIsSo(r)
  /\ rpc[r] \in {"answered", "listed"} /\ shown[r].status # "blank" =>
       /\ "done" \in before[r] => shown[r].status = outputs[asked[r]].state
       /\ "running" \in before[r] /\ shown[r].status = "QUEUED" /\ rpc[r] = "answered"
            => outputs[asked[r]] # None
  /\ rpc[r] \in {"answered", "listed"} /\ "queued" \in before[r] /\ ~failed[r] =>
       shown[r].status \notin {"blank", "404"}

RInv ==
  /\ IInv
  /\ ReadTypeOK
  /\ AcceptStays
  /\ HeldKey
  /\ \A j \in seen : Under(j)
  /\ \A r \in Readers : Request(r)

-----------------------------------------------------------------------------
(* The workers neither accept a job nor take an acceptance away.           *)
LEMMA WorkersLeaveAccepts ==
  ASSUME WorkerNext
  PROVE  UNCHANGED accepts
  <1> USE DEF storeVars
  <1>1. ASSUME NEW w \in Workers, Start(w) \/ Crash(w) \/ Claim(w) \/ Read(w) \/ FetchLost(w)
        PROVE  UNCHANGED accepts
    BY <1>1 DEF Start, Crash, Claim, Read, FetchLost, Fetch
  <1>2. ASSUME NEW w \in Workers, NEW e,
               DispatchNoInput(w, e) \/ DispatchNoTenant(w, e) \/ Dispatch(w, e)
        PROVE  UNCHANGED accepts
    BY <1>2 DEF DispatchNoInput, DispatchNoTenant, Dispatch
  <1>3. ASSUME NEW w \in Workers,
               \/ LoadCheckpoint(w) \/ OpenCheckpoint(w) \/ OpenInput(w) \/ Run(w)
               \/ RunFails(w) \/ SealPartial(w) \/ SaveStep1(w) \/ PublishRunning(w)
        PROVE  UNCHANGED accepts
    BY <1>3 DEF LoadCheckpoint, OpenCheckpoint, OpenInput, Run, RunFails, SealPartial, SaveStep1,
       PublishRunning
  <1>4. ASSUME NEW w \in Workers,
               \/ Peek(w) \/ RecordResult(w) \/ GetReceipt(w) \/ WriteReceipt(w) \/ DestroyKey(w)
               \/ DropCheckpoint(w) \/ PublishResult(w) \/ Settle(w) \/ SettleAgain(w) \/ Finish(w)
        PROVE  UNCHANGED accepts
    BY <1>4 DEF Peek, RecordResult, GetReceipt, WriteReceipt, DestroyKey, DropCheckpoint,
       PublishResult, Settle, SettleAgain, Finish
  <1>5. ASSUME NEW e \in pending, BecomeIdle(e) PROVE UNCHANGED accepts
    BY <1>5 DEF BecomeIdle
  <1> QED
    BY <1>1, <1>2, <1>3, <1>4, <1>5 DEF WorkerNext, Work

(* A 200 {"status": "QUEUED"} is not taken back, and its acceptance stays. *)
LEMMA AcceptKeeps ==
  ASSUME IInv, AcceptStays, [Next]_vars
  PROVE  /\ AcceptStays'
         /\ \A j \in Jobs : post[j] = "queued" => post'[j] = "queued"
  <1>1. PostTypeOK /\ accepts \subseteq Jobs
    BY DEF IInv, TypeOK, StoresTypeOK
  <1>2. CASE PostNext
    <2>1. PICK i \in Jobs :
            \/ Accept(i) \/ AddKey(i) \/ SendAdd(i) \/ ApplyAdd(i) \/ Queued(i)
            \/ AddError(i) \/ DropKey(i) \/ DropAccept(i) \/ PostCrash(i) \/ ForeignAdd(i)
      BY <1>2 DEF PostNext
    <2> SUFFICES ASSUME NEW j \in Jobs
                 PROVE  /\ post'[j] \in {"accepted", "keyed", "queued"} => j \in accepts'
                        /\ post[j] = "queued" => post'[j] = "queued"
      BY DEF AcceptStays
    <2> USE <1>1 DEF AcceptStays, Handler, PostTypeOK, storeVars
    <2>2. CASE Accept(i)
      BY <2>2 DEF Accept
    <2>3. CASE AddKey(i) \/ Queued(i)
      BY <2>3 DEF AddKey, Queued
    <2>4. CASE SendAdd(i) \/ ApplyAdd(i)
      BY <2>4 DEF SendAdd, ApplyAdd
    <2>5. CASE AddError(i) \/ PostCrash(i)
      BY <2>5 DEF AddError, PostCrash
    <2>6. CASE DropKey(i)
      BY <2>6 DEF DropKey
    <2>7. CASE DropAccept(i)
      BY <2>7 DEF DropAccept
    <2>8. CASE ForeignAdd(i)
      BY <2>8 DEF ForeignAdd
    <2> QED
      BY <2>1, <2>2, <2>3, <2>4, <2>5, <2>6, <2>7, <2>8
  <1>3. CASE UNCHANGED <<post, accepts>>
    BY <1>3 DEF AcceptStays
  <1>4. CASE WorkerNext /\ UNCHANGED postVars
    <2>1. UNCHANGED accepts
      BY <1>4, WorkersLeaveAccepts
    <2> QED
      BY <1>3, <1>4, <2>1 DEF postVars
  <1> QED
    BY <1>2, <1>3, <1>4 DEF Next, PutPolicy, vars, storeVars, postVars

(* Only DropCheckpoint deletes a checkpoint, after the job's result is in  *)
(* the journal, and saveStep1 writes one with a key.                       *)
LEMMA CheckpointKeeps ==
  ASSUME IInv, HeldKey, [Next]_vars
  PROVE  HeldKey' /\ \A j \in Jobs : Under(j) => Under(j)'
  <1> DEFINE Still(w) == /\ UNCHANGED mem
                         /\ \A v \in Workers \ {w} : pc'[v] = pc[v] /\ held'[v] = held[v]
                         /\ pc'[w] # "saveHash"
  <1> DEFINE Goal == HeldKey' /\ \A j \in Jobs : Under(j) => Under(j)'
  <1>0. /\ WorkerTypeOK /\ StoresTypeOK /\ StoresGrow
        /\ mem \in [Jobs -> Nat]
        /\ \A w \in Workers : pc[w] \notin Idling => Job(w) \in Jobs
    BY Facts, StepGrows DEF IInv, TypeOK, StoresTypeOK
  <1>1. ASSUME NEW w \in Workers, Still(w) PROVE Goal
    BY <1>0, <1>1 DEF HeldKey, Under, StoresGrow
  <1>2. ASSUME UNCHANGED <<mem, pc, held>> PROVE Goal
    BY <1>0, <1>2 DEF HeldKey, Under, StoresGrow
  <1> HIDE DEF Goal
  <1> USE DEF storeVars
  <1>3. ASSUME UNCHANGED workerVars, PostNext \/ PutPolicy PROVE Goal
    <2>1. UNCHANGED mem
      BY <1>3 DEF PutPolicy, PostNext, Accept, AddKey, SendAdd, ApplyAdd, Queued, AddError,
         DropKey, DropAccept, PostCrash, ForeignAdd
    <2> QED
      BY <1>2, <1>3, <2>1 DEF workerVars
  <1>4. ASSUME UNCHANGED vars PROVE Goal
    BY <1>2, <1>4 DEF vars, workerVars
  <1>5. ASSUME NEW w \in Workers, Start(w) \/ Crash(w) \/ Claim(w) \/ Read(w) \/ FetchLost(w)
        PROVE  Goal
    <2>1. CASE Start(w) \/ Crash(w)
      <3>1. Still(w)
        BY <1>0, <2>1 DEF Start, Step, Goto, Crash, Exit, WorkerTypeOK
      <3> QED
        BY <1>1, <3>1
    <2>2. CASE Claim(w) \/ Read(w) \/ FetchLost(w)
      BY <1>2, <2>2 DEF Claim, Read, FetchLost, Fetch
    <2> QED
      BY <1>5, <2>1, <2>2
  <1>6. ASSUME NEW w \in Workers, NEW e,
               DispatchNoInput(w, e) \/ DispatchNoTenant(w, e) \/ Dispatch(w, e)
        PROVE  Goal
    <2>1. CASE DispatchNoInput(w, e)
      BY <1>2, <2>1 DEF DispatchNoInput
    <2>2. CASE DispatchNoTenant(w, e) \/ Dispatch(w, e)
      <3>1. Still(w)
        BY <1>0, <2>2 DEF DispatchNoTenant, Dispatch, Goto, WorkerTypeOK
      <3> QED
        BY <1>1, <3>1
    <2> QED
      BY <1>6, <2>1, <2>2
  <1>7. ASSUME NEW w \in Workers,
               \/ LoadCheckpoint(w) \/ OpenCheckpoint(w) \/ OpenInput(w) \/ Run(w)
               \/ RunFails(w) \/ PublishRunning(w)
        PROVE  Goal
    <2> USE DEF Lookup, Bury, Conclude, Goto, Exit, Step, Ran, WorkerTypeOK
    <2>1. CASE LoadCheckpoint(w) \/ OpenCheckpoint(w)
      <3>1. Still(w)
        BY <1>0, <2>1 DEF LoadCheckpoint, OpenCheckpoint
      <3> QED
        BY <1>1, <3>1
    <2>2. CASE OpenInput(w) \/ Run(w) \/ RunFails(w) \/ PublishRunning(w)
      <3>1. Still(w)
        BY <1>0, <2>2 DEF OpenInput, Run, RunFails, PublishRunning
      <3> QED
        BY <1>1, <3>1
    <2> QED
      BY <1>7, <2>1, <2>2
  <1>8. ASSUME NEW w \in Workers, SealPartial(w) PROVE Goal
    <2> DEFINE j == Job(w)
    <2>1. j \in Jobs /\ keyRow \in [Jobs -> Nat] /\ keyGen \in [Jobs -> Nat]
      BY <1>0, <1>8 DEF SealPartial, Idling, StoresTypeOK
    <2>2. keyRow'[j] # 0
      BY SMT, <1>8, <2>1 DEF SealPartial, Ensure
    <2>3. CASE destroyedAt[j] # None
      <3>1. /\ UNCHANGED mem
            /\ pc' = [pc EXCEPT ![w] = "down"] /\ held' = [held EXCEPT ![w] = 0]
        BY <1>8, <2>3, Zenon DEF SealPartial, Exit
      <3>2. pc \in [Workers -> PCs] /\ held \in [Workers -> Nat]
        BY <1>0 DEF WorkerTypeOK
      <3>3. Still(w)
        BY <3>1, <3>2
      <3> QED
        BY <1>1, <3>3
    <2>4. CASE destroyedAt[j] = None
      BY <1>0, <1>8, <2>2, <2>4 DEF SealPartial, Goto, WorkerTypeOK, HeldKey, Under, StoresGrow, Goal
    <2> QED
      BY <2>3, <2>4
  <1>9. ASSUME NEW w \in Workers, SaveStep1(w) PROVE Goal
    BY <1>0, <1>9 DEF SaveStep1, Step, Goto, WorkerTypeOK, HeldKey, Under, StoresGrow, Goal
  <1>10. ASSUME NEW w \in Workers, DropCheckpoint(w) PROVE Goal
    <2>1. outputs[Job(w)] # None /\ pc[w] = "drop" /\ Job(w) \in Jobs
      BY <1>0, <1>10, Facts DEF DropCheckpoint, Step, Shared, Committed, Idling
    <2> QED
      BY <1>0, <1>10, <2>1 DEF DropCheckpoint, Step, Goto, WorkerTypeOK, HeldKey, Under,
         StoresGrow, Goal
  <1>11. ASSUME NEW w \in Workers,
                \/ Peek(w) \/ RecordResult(w) \/ GetReceipt(w) \/ WriteReceipt(w) \/ DestroyKey(w)
                \/ PublishResult(w)
         PROVE  Goal
    <2>1. Still(w)
      BY <1>0, <1>11, Zenon DEF Peek, RecordResult, GetReceipt, WriteReceipt, DestroyKey, PublishResult,
         Step, Goto, Exit, WorkerTypeOK
    <2> QED
      BY <1>1, <2>1
  <1>12. ASSUME NEW w \in Workers, Settle(w) \/ SettleAgain(w) \/ Finish(w) PROVE Goal
    <2>1. CASE Settle(w) \/ Finish(w)
      <3>1. Still(w)
        BY <1>0, <2>1 DEF Settle, Finish, Return, WorkerTypeOK
      <3> QED
        BY <1>1, <3>1
    <2>2. CASE SettleAgain(w)
      BY <1>2, <2>2, Zenon DEF SettleAgain
    <2> QED
      BY <1>12, <2>1, <2>2
  <1>13. ASSUME NEW e \in pending, BecomeIdle(e) PROVE Goal
    BY <1>2, <1>13 DEF BecomeIdle, workerVars
  <1>14. Goal
    BY <1>3, <1>4, <1>5, <1>6, <1>7, <1>8, <1>9, <1>10, <1>11, <1>12, <1>13, Zenon
       DEF Next, WorkerNext, Work
  <1> QED
    BY <1>14 DEF Goal

-----------------------------------------------------------------------------
(* What a request knows survives a step of the pipeline.                   *)
LEMMA PipelineKeeps ==
  ASSUME RInv, [Next]_vars, UNCHANGED readVars
  PROVE  RInv'
  <1>1. /\ IInv' /\ AcceptStays' /\ HeldKey' /\ StoresGrow
        /\ \A j \in Jobs : /\ post[j] = "queued" => post'[j] = "queued"
                           /\ Under(j) => Under(j)'
    BY NextInv, StepGrows, AcceptKeeps, CheckpointKeeps, Zenon DEF RInv
  <1>2. ReadTypeOK /\ ReadTypeOK'
    BY DEF RInv, ReadTypeOK, readVars
  <1>3. \A j \in seen' : Under(j)'
    BY <1>1, <1>2 DEF RInv, readVars, ReadTypeOK
  <1>4. ASSUME NEW r \in Readers PROVE Request(r)'
    <2>1. /\ Request(r) /\ asked[r] \in Jobs
          /\ rpc'[r] = rpc[r] /\ asked'[r] = asked[r] /\ shown'[r] = shown[r]
          /\ failed'[r] = failed[r] /\ before'[r] = before[r]
      BY <1>2 DEF RInv, ReadTypeOK, readVars
    <2>2. StillSo(r)'
      BY <1>1, <2>1 DEF Request, StillSo, StoresGrow
    <2>3. RowIsSo(r) /\ StillSo(r) => RowIsSo(r)'
      BY <1>1, <2>1 DEF RowIsSo, StillSo, StoresGrow
    <2>4. PurgedIsSo(r) /\ StillSo(r) => PurgedIsSo(r)'
      <3>1. receipts[asked[r]] # None => receipts'[asked[r]] = receipts[asked[r]]
        BY <1>1, <2>1, Zenon DEF StoresGrow
      <3> QED
        BY <2>1, <3>1, Zenon DEF PurgedIsSo, StillSo
    <2>5. /\ outputs[asked[r]] # None => outputs'[asked[r]] = outputs[asked[r]]
          /\ StillSo(r)
      BY <1>1, <2>1, Zenon DEF StoresGrow, Request
    <2>6. "done" \in before[r] => outputs'[asked[r]] = outputs[asked[r]]
      BY <2>5 DEF StillSo
    <2> QED
      BY <2>1, <2>2, <2>3, <2>4, <2>5, <2>6 DEF Request
  <1> QED
    BY <1>1, <1>2, <1>3, <1>4, Zenon DEF RInv

(* A query reads the stores and moves one request.                         *)
LEMMA QueryKeeps ==
  ASSUME RInv, NEW r \in Readers, UNCHANGED vars, ReadTypeOK', Request(r)',
         \A j \in seen' : Under(j),
         \A q \in Readers \ {r} :
           /\ rpc'[q] = rpc[q] /\ asked'[q] = asked[q] /\ shown'[q] = shown[q]
           /\ failed'[q] = failed[q] /\ before'[q] = before[q]
  PROVE  RInv'
  <1>1. /\ UNCHANGED <<post, accepts, pc, held, mem, outputs, receipts>>
    BY Zenon DEF vars, storeVars, postVars, workerVars, purgeVars
  <1>2. IInv' /\ AcceptStays' /\ HeldKey'
    BY <1>1, NextInv DEF RInv, AcceptStays, HeldKey
  <1>3. \A j \in seen' : Under(j)'
    BY <1>1 DEF Under
  <1>4. ASSUME NEW q \in Readers \ {r} PROVE Request(q)'
    <2>1. Request(q)
      BY Zenon DEF RInv
    <2> QED
      BY <1>1, <2>1 DEF Request, StillSo, RowIsSo, PurgedIsSo, Under
  <1> QED
    BY <1>2, <1>3, <1>4, Zenon DEF RInv

(* The rows of an answer, and what the stores can fill them with.          *)
Said == {"blank", "404", "QUEUED", "RUNNING"} \cup Terminal
Rows == [status : Said, purged : Times \cup {None}]
Labels == {"idle", "accept", "running", "answered", "listed", "jobs", "receipt", "reported"}

(* What the row of a job is.                                               *)
LEMMA RowFacts ==
  /\ Blank \in Rows /\ Blank.status = "blank" /\ Blank.purged = None
  /\ \A s \in Said : Status(s) \in Rows /\ Status(s).status = s /\ Status(s).purged = None
  /\ \A x \in Results : x.state \in Terminal
  <1>1. Blank \in Rows /\ Blank.status = "blank" /\ Blank.purged = None
    BY SMT DEF Blank, Rows, Said
  <1>2. ASSUME NEW s \in Said
        PROVE  Status(s) \in Rows /\ Status(s).status = s /\ Status(s).purged = None
    BY SMT, <1>1 DEF Status, Rows
  <1>3. \A x \in Results : x.state \in Terminal
    BY SMT DEF Results, Terminal
  <1> QED
    BY <1>1, <1>2, <1>3

AskFacts == {"queued", "done", "running", "purged"}

(* Reader r's request moved, and its registers are these.                  *)
Moved(r, label, row, j, facts, fl) ==
  /\ rpc' = [rpc EXCEPT ![r] = label]
  /\ shown' = [shown EXCEPT ![r] = row]
  /\ asked' = [asked EXCEPT ![r] = j]
  /\ before' = [before EXCEPT ![r] = facts]
  /\ failed' = [failed EXCEPT ![r] = fl]

(* The registers it has then.                                              *)
LEMMA Registers ==
  ASSUME RInv, NEW r \in Readers, NEW label, NEW row, NEW j, NEW facts, NEW fl,
         Moved(r, label, row, j, facts, fl)
  PROVE  /\ rpc'[r] = label /\ shown'[r] = row /\ asked'[r] = j /\ before'[r] = facts
         /\ failed'[r] = fl
  <1>1. ReadTypeOK
    BY DEF RInv
  <1> QED
    BY <1>1, Zenon DEF ReadTypeOK, Moved

(* Registers that a request can have.                                      *)
Fits(label, row, j, facts, fl) ==
  /\ label \in Labels /\ row \in Rows /\ j \in Jobs
  /\ facts \in SUBSET AskFacts /\ fl \in BOOLEAN

(* A step of a reader moves its request alone.                             *)
LEMMA RequestMoves ==
  ASSUME RInv, NEW r \in Readers, NEW label, NEW row, NEW j, NEW facts, NEW fl,
         Fits(label, row, j, facts, fl), Moved(r, label, row, j, facts, fl)
  PROVE  /\ seen' \subseteq Jobs => ReadTypeOK'
         /\ \A q \in Readers \ {r} :
              /\ rpc'[q] = rpc[q] /\ asked'[q] = asked[q] /\ shown'[q] = shown[q]
              /\ failed'[q] = failed[q] /\ before'[q] = before[q]
  <1>1. ReadTypeOK
    BY DEF RInv
  <1>2. /\ rpc \in [Readers -> Labels] /\ shown \in [Readers -> Rows]
        /\ asked \in [Readers -> Jobs] /\ before \in [Readers -> SUBSET AskFacts]
        /\ failed \in [Readers -> BOOLEAN]
    BY <1>1 DEF ReadTypeOK, Labels, Rows, Said, AskFacts
  <1>3. /\ rpc' \in [Readers -> Labels] /\ shown' \in [Readers -> Rows]
        /\ asked' \in [Readers -> Jobs] /\ before' \in [Readers -> SUBSET AskFacts]
        /\ failed' \in [Readers -> BOOLEAN]
    BY <1>2, Zenon DEF Moved, Fits
  <1>4. seen' \subseteq Jobs => ReadTypeOK'
    BY <1>3 DEF ReadTypeOK, Labels, Rows, Said, AskFacts
  <1> QED
    BY <1>2, <1>4, Zenon DEF Moved

(* What a step of a reader must show for the invariant to hold after it.   *)
LEMMA MovedKeeps ==
  ASSUME RInv, NEW r \in Readers, UNCHANGED vars, NEW label, NEW row, NEW j, NEW facts, NEW fl,
         Fits(label, row, j, facts, fl), Moved(r, label, row, j, facts, fl), Request(r)',
         \A i \in seen' : i \in Jobs /\ Under(i)
  PROVE  RInv'
  <1>1. seen' \subseteq Jobs /\ \A i \in seen' : Under(i)
    BY Zenon
  <1>2. /\ ReadTypeOK'
        /\ \A q \in Readers \ {r} :
             /\ rpc'[q] = rpc[q] /\ asked'[q] = asked[q] /\ shown'[q] = shown[q]
             /\ failed'[q] = failed[q] /\ before'[q] = before[q]
    BY <1>1, RequestMoves, Zenon
  <1> QED
    BY <1>1, <1>2, QueryKeeps, Zenon

(* The stores a reader looks at, and the registers it has.                 *)
LEMMA ReadFacts ==
  ASSUME RInv, NEW r \in Readers, NEW j \in Jobs, UNCHANGED vars
  PROVE  /\ AcceptStays /\ \A i \in seen : i \in Jobs /\ Under(i)
         /\ outputs[j] # None => outputs[j].state \in Terminal /\ Under(j)
         /\ receipts[j] # None => outputs[j] # None
         /\ receipts[j] \in Times \cup {None}
         /\ UNCHANGED <<post, mem, outputs, receipts>>
         /\ asked[r] \in Jobs /\ before[r] \in SUBSET AskFacts /\ failed[r] \in BOOLEAN
         /\ shown[r] \in Rows /\ rpc[r] \in Labels
         /\ asked \in [Readers -> Jobs] /\ before \in [Readers -> SUBSET AskFacts]
         /\ failed \in [Readers -> BOOLEAN]
         /\ Request(r) /\ StillSo(r)
  <1>1. ReadTypeOK /\ StoresTypeOK /\ ReceiptsFollow
    BY DEF RInv, IInv, TypeOK
  <1>2. /\ outputs[j] # None => outputs[j].state \in Terminal /\ Under(j)
        /\ receipts[j] # None => outputs[j] # None
        /\ receipts[j] \in Times \cup {None}
    <2>1. /\ outputs[j] \in Results \cup {None} /\ receipts[j] \in Times \cup {None}
          /\ receipts[j] # None => outputs[j] # None
      BY <1>1, Zenon DEF StoresTypeOK, ReceiptsFollow
    <2> QED
      BY <2>1, RowFacts, Zenon DEF Under
  <1>3. AcceptStays /\ Request(r) /\ StillSo(r) /\ \A i \in seen : i \in Jobs /\ Under(i)
    BY <1>1, Zenon DEF RInv, Request, ReadTypeOK
  <1>4. UNCHANGED <<post, mem, outputs, receipts>>
    BY DEF vars, storeVars, postVars, purgeVars
  <1>5. /\ asked[r] \in Jobs /\ before[r] \in SUBSET AskFacts /\ failed[r] \in BOOLEAN
        /\ shown[r] \in Rows /\ rpc[r] \in Labels
        /\ asked \in [Readers -> Jobs] /\ before \in [Readers -> SUBSET AskFacts]
        /\ failed \in [Readers -> BOOLEAN]
    BY <1>1 DEF ReadTypeOK, Rows, Said, Labels, AskFacts
  <1> QED
    BY <1>2, <1>3, <1>4, <1>5

(* How a request begins, goes on, and goes on after a query that failed.   *)
LEMMA BeginMoves ==
  ASSUME RInv, NEW r \in Readers, NEW j \in Jobs, NEW facts, NEW label, NEW row,
         Begin(r, j, facts), Goes(r, label, row), UNCHANGED vars
  PROVE  Moved(r, label, row, j, facts, failed[r])
  BY ReadFacts DEF Moved, Begin, Goes

(* The place of a request, after a step of it.                             *)
LEMMA AtMoves ==
  ASSUME RInv, NEW r \in Readers, NEW at, NEW label, NEW row, NEW fl,
         At(r, at), Goes(r, label, row), failed' = [failed EXCEPT ![r] = fl], UNCHANGED vars
  PROVE  Moved(r, label, row, asked[r], before[r], fl)
  <1>1. asked \in [Readers -> Jobs] /\ before \in [Readers -> SUBSET AskFacts]
    BY DEF RInv, ReadTypeOK, AskFacts
  <1> QED
    BY <1>1 DEF Moved, At, Goes

(* getJob, listJobs and compliance: the first query.                       *)
LEMMA BeginKeeps ==
  ASSUME RInv, NEW r \in Readers, NEW j \in Jobs, UNCHANGED vars,
         getJob(r, j) \/ listJobs(r, j) \/ compliance(r, j)
  PROVE  RInv'
  <1>1. /\ AcceptStays /\ \A i \in seen : i \in Jobs /\ Under(i)
        /\ outputs[j] # None => outputs[j].state \in Terminal /\ Under(j)
        /\ receipts[j] # None => outputs[j] # None
        /\ UNCHANGED <<post, mem, outputs, receipts>> /\ failed[r] \in BOOLEAN
    BY ReadFacts
  <1>2. /\ WhenAsked(j) \in SUBSET AskFacts
        /\ "queued" \in WhenAsked(j) => post[j] = "queued"
        /\ "done" \in WhenAsked(j) => outputs[j] # None
        /\ "running" \in WhenAsked(j) => Under(j)
        /\ "purged" \notin WhenAsked(j)
    BY <1>1 DEF WhenAsked, AskFacts
  <1>3. CASE getJob(r, j) /\ outputs[j] # None
    <2> DEFINE row == Status(outputs[j].state)
    <2>1. /\ outputs[j].state \in Said /\ outputs[j].state \notin {"blank", "404", "QUEUED"}
          /\ row \in Rows /\ row.status = outputs[j].state /\ "answered" \in Labels
      BY <1>1, <1>3, RowFacts DEF Said, Terminal, Labels
    <2> HIDE DEF row
    <2>2. /\ Fits("answered", row, j, WhenAsked(j), failed[r])
          /\ Moved(r, "answered", row, j, WhenAsked(j), failed[r])
      <3>1. Begin(r, j, WhenAsked(j)) /\ Goes(r, "answered", row)
        BY <1>3, Zenon DEF getJob, Answers, row
      <3> QED
        BY <1>1, <1>2, <2>1, <3>1, BeginMoves, Zenon DEF Fits
    <2>3. \A i \in seen' : i \in Jobs /\ Under(i)
      BY <1>1, <1>3, Zenon DEF getJob, Answers
    <2>4. /\ rpc'[r] = "answered" /\ shown'[r] = row /\ asked'[r] = j
          /\ before'[r] = WhenAsked(j)
      BY <2>2, Registers, Zenon
    <2>5. Request(r)'
      BY <1>1, <1>2, <1>3, <2>1, <2>4, Zenon DEF Request, StillSo, Under
    <2> QED
      BY <2>2, <2>3, <2>5, MovedKeeps, Zenon
  <1>4. CASE getJob(r, j) /\ outputs[j] = None
    <2>1. Blank \in Rows /\ "accept" \in Labels
      BY RowFacts DEF Labels
    <2>2. /\ Fits("accept", Blank, j, WhenAsked(j), failed[r])
          /\ Moved(r, "accept", Blank, j, WhenAsked(j), failed[r]) /\ seen' = seen
      <3>1. Begin(r, j, WhenAsked(j)) /\ Goes(r, "accept", Blank) /\ seen' = seen
        BY <1>4, Zenon DEF getJob
      <3> QED
        BY <1>1, <1>2, <2>1, <3>1, BeginMoves, Zenon DEF Fits
    <2>3. rpc'[r] = "accept" /\ asked'[r] = j /\ before'[r] = WhenAsked(j)
      BY <2>2, Registers, Zenon
    <2>4. Request(r)'
      BY <1>1, <1>2, <1>4, <2>3, Zenon DEF Request, StillSo, Under
    <2> QED
      BY <1>1, <2>2, <2>4, MovedKeeps, Zenon
  <1>5. CASE listJobs(r, j)
    <2> DEFINE st == IF j \notin accepts THEN "blank"
                     ELSE IF outputs[j] = None THEN "QUEUED" ELSE outputs[j].state
               row == Status(st)
    <2>1. /\ post[j] = "queued" => st \notin {"blank", "404"}
          /\ st # "blank" /\ outputs[j] # None => st = outputs[j].state
          /\ st \in Said
      BY <1>1, Zenon DEF AcceptStays, Terminal, Said
    <2>2. /\ row \in Rows /\ row.status = st /\ "listed" \in Labels
      BY <2>1, RowFacts, Zenon DEF Labels
    <2>3. Begin(r, j, WhenAsked(j)) /\ Goes(r, "listed", row) /\ seen' = seen
      BY <1>5, Zenon DEF listJobs
    <2> HIDE DEF row, st
    <2>6. /\ Fits("listed", row, j, WhenAsked(j), failed[r])
          /\ Moved(r, "listed", row, j, WhenAsked(j), failed[r])
      BY <1>1, <1>2, <2>2, <2>3, BeginMoves, Zenon DEF Fits
    <2>4. /\ rpc'[r] = "listed" /\ shown'[r] = row /\ asked'[r] = j /\ before'[r] = WhenAsked(j)
      BY <2>6, Registers, Zenon
    <2>5. Request(r)'
      BY <1>1, <1>2, <2>1, <2>2, <2>4, Zenon DEF Request, StillSo, Under
    <2> QED
      BY <1>1, <2>3, <2>5, <2>6, MovedKeeps, Zenon
  <1>6. CASE compliance(r, j)
    <2> DEFINE facts == IF receipts[j] # None THEN {"done", "purged"}
                        ELSE IF outputs[j] # None THEN {"done"} ELSE {}
    <2>1. /\ facts \in SUBSET AskFacts /\ "queued" \notin facts /\ "running" \notin facts
          /\ "done" \in facts => outputs[j] # None
          /\ "purged" \in facts => receipts[j] # None
      BY <1>1, Zenon DEF AskFacts
    <2>2. Begin(r, j, facts) /\ Goes(r, "jobs", Blank) /\ seen' = seen
      BY <1>6, Zenon DEF compliance
    <2>3. Blank \in Rows /\ "jobs" \in Labels
      BY RowFacts DEF Labels
    <2> HIDE DEF facts
    <2>6. /\ Fits("jobs", Blank, j, facts, failed[r])
          /\ Moved(r, "jobs", Blank, j, facts, failed[r])
      BY <1>1, <2>1, <2>2, <2>3, BeginMoves, Zenon DEF Fits
    <2>4. rpc'[r] = "jobs" /\ asked'[r] = j /\ before'[r] = facts
      BY <2>6, Registers, Zenon
    <2>5. Request(r)'
      BY <1>1, <2>1, <2>4 DEF Request, StillSo
    <2> QED
      BY <1>1, <2>2, <2>5, <2>6, MovedKeeps, Zenon
  <1> QED
    BY <1>3, <1>4, <1>5, <1>6

(* The later queries of a request, and its answer.                         *)
LEMMA LaterKeeps ==
  ASSUME RInv, NEW r \in Readers, UNCHANGED vars,
         GetAccept(r) \/ GetRunning(r) \/ ReportJob(r) \/ ReportReceipt(r) \/ Answered(r)
  PROVE  RInv'
  <1> DEFINE j == asked[r]
             facts == before[r]
  <1>1. j \in Jobs
    BY DEF RInv, ReadTypeOK
  <1>2. /\ AcceptStays /\ \A i \in seen : i \in Jobs /\ Under(i)
        /\ outputs[j] # None => outputs[j].state \in Terminal /\ Under(j)
        /\ receipts[j] # None => outputs[j] # None
        /\ receipts[j] \in Times \cup {None}
        /\ UNCHANGED <<post, mem, outputs, receipts>>
        /\ facts \in SUBSET AskFacts /\ failed[r] \in BOOLEAN
        /\ shown[r] \in Rows /\ failed \in [Readers -> BOOLEAN]
        /\ asked \in [Readers -> Jobs] /\ Request(r) /\ StillSo(r)
    BY <1>1, ReadFacts, Zenon
  <1>3. failed' = failed => failed' = [failed EXCEPT ![r] = failed[r]]
    BY <1>2, Zenon
  <1>4. ASSUME NEW label, NEW row, NEW fl, Fits(label, row, j, facts, fl),
               Moved(r, label, row, j, facts, fl)
        PROVE  /\ rpc'[r] = label /\ shown'[r] = row /\ asked'[r] = j /\ before'[r] = facts
               /\ failed'[r] = fl /\ StillSo(r)'
    <2>1. /\ rpc'[r] = label /\ shown'[r] = row /\ asked'[r] = j /\ before'[r] = facts
          /\ failed'[r] = fl
      BY <1>4, Registers, Zenon
    <2>2. StillSo(r) /\ UNCHANGED <<post, mem, outputs, receipts>>
      BY <1>2, Zenon
    <2>3. StillSo(r)'
      BY <2>1, <2>2, Zenon DEF StillSo, Under
    <2> QED
      BY <2>1, <2>3, Zenon
  <1>5. ASSUME NEW label, NEW row, NEW fl, Fits(label, row, j, facts, fl),
               Moved(r, label, row, j, facts, fl), Request(r)', seen' = seen
        PROVE  RInv'
    BY <1>2, <1>5, MovedKeeps, Zenon
  <1>6. Blank \in Rows /\ Blank.status = "blank" /\ Blank.purged = None
    BY RowFacts
  <1>7. CASE GetAccept(r)
    <2>1. "done" \notin facts
      BY <1>2, <1>7, Zenon DEF GetAccept, At, Request
    <2>2. CASE asked[r] \in accepts /\ Goes(r, "running", Blank) /\ UNCHANGED <<failed, seen>>
      <3>1. "running" \in Labels
        BY DEF Labels
      <3>2. /\ Fits("running", Blank, j, facts, failed[r])
            /\ Moved(r, "running", Blank, j, facts, failed[r])
        BY <1>1, <1>2, <1>3, <1>6, <1>7, <2>2, <3>1, AtMoves, Zenon DEF GetAccept, Fits
      <3>3. rpc'[r] = "running" /\ before'[r] = facts /\ StillSo(r)'
        BY <1>4, <3>2, Zenon
      <3>4. Request(r)'
        BY <2>1, <3>3, Zenon DEF Request
      <3> QED
        BY <1>5, <2>2, <3>2, <3>4, Zenon
    <2>3. ASSUME NEW fl \in BOOLEAN, failed' = [failed EXCEPT ![r] = fl],
                 Answers(r, j, "404"), fl \/ j \notin accepts
          PROVE  RInv'
      <3>1. /\ Status("404") \in Rows /\ Status("404").status = "404" /\ "answered" \in Labels
            /\ seen' = seen
        BY <2>3, RowFacts DEF Said, Labels, Answers, Terminal
      <3>2. /\ Fits("answered", Status("404"), j, facts, fl)
            /\ Moved(r, "answered", Status("404"), j, facts, fl)
        BY <1>1, <1>2, <1>7, <2>3, <3>1, AtMoves, Zenon DEF GetAccept, Answers, Fits
      <3>3. fl \/ "queued" \notin facts
        BY <1>1, <1>2, <2>3, Zenon DEF AcceptStays, StillSo
      <3>4. /\ rpc'[r] = "answered" /\ shown'[r].status = "404" /\ before'[r] = facts
            /\ failed'[r] = fl /\ StillSo(r)'
        BY <1>4, <3>1, <3>2, Zenon
      <3>5. Request(r)'
        BY <2>1, <3>3, <3>4, Zenon DEF Request
      <3> QED
        BY <1>5, <3>1, <3>2, <3>5, Zenon
    <2> QED
      BY <1>2, <1>3, <1>7, <2>2, <2>3, Zenon DEF GetAccept, QueryFails
  <1>8. CASE GetRunning(r)
    <2> DEFINE row == Status(JobRunning(j))
    <2>1. "done" \notin facts
      BY <1>2, <1>8, Zenon DEF GetRunning, At, Request
    <2>2. /\ row \in Rows /\ row.status = JobRunning(j) /\ "answered" \in Labels
          /\ JobRunning(j) \in {"RUNNING", "QUEUED"}
      BY RowFacts, Zenon DEF Said, Labels, JobRunning
    <2> HIDE DEF row
    <2>3. /\ Fits("answered", row, j, facts, failed[r])
          /\ Moved(r, "answered", row, j, facts, failed[r])
      <3>1. At(r, "running") /\ Goes(r, "answered", row) /\ failed' = failed
        BY <1>8, Zenon DEF GetRunning, Answers, row
      <3> QED
        BY <1>1, <1>2, <1>3, <2>2, <3>1, AtMoves, Zenon DEF Fits
    <2>4. \A i \in seen' : i \in Jobs /\ Under(i)
      BY <1>1, <1>2, <1>8, Zenon DEF GetRunning, Answers, JobRunning, Under
    <2>5. "running" \in facts /\ JobRunning(j) = "QUEUED" => outputs[j] # None
      BY <1>2, Zenon DEF StillSo, Under, JobRunning
    <2>6. /\ rpc'[r] = "answered" /\ shown'[r] = row /\ asked'[r] = j /\ before'[r] = facts
          /\ StillSo(r)'
      BY <1>4, <2>3, Zenon
    <2>7. row.status \notin {"blank", "404"} /\ outputs' = outputs
      BY <1>2, <2>2
    <2>8. Request(r)'
      BY <2>1, <2>2, <2>5, <2>6, <2>7, Zenon DEF Request
    <2> QED
      BY <2>3, <2>4, <2>8, MovedKeeps, Zenon
  <1>9. CASE ReportJob(r)
    <2>1. "queued" \notin facts /\ "receipt" \in Labels /\ seen' = seen
      BY <1>2, <1>9, Zenon DEF ReportJob, At, Request, Labels
    <2>2. PICK row \in Rows, fl \in BOOLEAN :
            /\ Goes(r, "receipt", row) /\ failed' = [failed EXCEPT ![r] = fl]
            /\ row.purged = None
            /\ \/ row.status = "blank" /\ (fl \/ outputs[j] = None)
               \/ outputs[j] # None /\ row.status = outputs[j].state
      <3> DEFINE st == IF outputs[j] = None THEN "blank" ELSE outputs[j].state
      <3>1. /\ Status(st) \in Rows /\ Status(st).status = st /\ Status(st).purged = None
        BY <1>2, RowFacts, Zenon DEF Said
      <3>2. CASE Goes(r, "receipt", Status(st)) /\ UNCHANGED failed
        BY <1>2, <1>3, <3>1, <3>2, Zenon
      <3>3. CASE Goes(r, "receipt", Blank) /\ QueryFails(r)
        BY <1>6, <3>3, Zenon DEF QueryFails
      <3> QED
        BY <1>9, <3>2, <3>3, Zenon DEF ReportJob
    <2>3. /\ Fits("receipt", row, j, facts, fl)
          /\ Moved(r, "receipt", row, j, facts, fl)
      <3>1. At(r, "jobs")
        BY <1>9, Zenon DEF ReportJob
      <3> QED
        BY <1>1, <1>2, <2>1, <2>2, <3>1, AtMoves, Zenon DEF Fits
    <2>4. /\ rpc'[r] = "receipt" /\ shown'[r] = row /\ asked'[r] = j /\ before'[r] = facts
          /\ failed'[r] = fl /\ StillSo(r)'
      BY <1>4, <2>3, Zenon
    <2>5. RowIsSo(r)'
      BY <1>2, <2>2, <2>4, Zenon DEF RowIsSo, StillSo
    <2>6. Request(r)'
      BY <2>1, <2>2, <2>4, <2>5, Zenon DEF Request
    <2> QED
      BY <1>5, <2>1, <2>3, <2>6, Zenon
  <1>10. CASE ReportReceipt(r)
    <2>1. /\ RowIsSo(r) /\ shown[r].purged = None /\ "queued" \notin facts
          /\ "reported" \in Labels /\ seen' = seen
      BY <1>2, <1>10 DEF ReportReceipt, At, Request, Labels
    <2>2. PICK row \in Rows, fl \in BOOLEAN :
            /\ Goes(r, "reported", row) /\ failed' = [failed EXCEPT ![r] = fl]
            /\ row.status = shown[r].status
            /\ failed[r] => fl
            /\ row.purged = receipts[j] \/ (fl /\ row.purged = None)
      <3> DEFINE full == [shown[r] EXCEPT !.purged = receipts[j]]
      <3>1. full \in Rows /\ full.status = shown[r].status /\ full.purged = receipts[j]
        BY SMT, <1>2 DEF Rows
      <3>2. CASE Goes(r, "reported", full) /\ UNCHANGED failed
        BY <1>2, <1>3, <3>1, <3>2, Zenon
      <3>3. CASE Goes(r, "reported", shown[r]) /\ QueryFails(r)
        BY <1>2, <2>1, <3>3, Zenon DEF QueryFails
      <3> QED
        BY <1>10, <3>2, <3>3 DEF ReportReceipt
    <2>3. /\ Fits("reported", row, j, facts, fl)
          /\ Moved(r, "reported", row, j, facts, fl)
      <3>1. At(r, "receipt")
        BY <1>10, Zenon DEF ReportReceipt
      <3> QED
        BY <1>1, <1>2, <2>1, <2>2, <3>1, AtMoves, Zenon DEF Fits
    <2>4. /\ rpc'[r] = "reported" /\ shown'[r] = row /\ asked'[r] = j /\ before'[r] = facts
          /\ failed'[r] = fl /\ StillSo(r)'
      BY <1>4, <2>3, Zenon
    <2>5. RowIsSo(r)'
      BY <1>2, <2>1, <2>2, <2>4, Zenon DEF RowIsSo
    <2>6. PurgedIsSo(r)'
      BY <1>2, <2>2, <2>4 DEF PurgedIsSo
    <2>7. Request(r)'
      BY <2>1, <2>4, <2>5, <2>6, Zenon DEF Request
    <2> QED
      BY <1>5, <2>1, <2>3, <2>7, Zenon
  <1>11. CASE Answered(r)
    <2>1. /\ Moved(r, "idle", Blank, j, {}, FALSE) /\ seen' = seen
          /\ "idle" \in Labels /\ {} \in SUBSET AskFacts
      BY <1>2, <1>11, Zenon DEF Answered, Moved, Goes, Labels
    <2>4. Fits("idle", Blank, j, {}, FALSE)
      BY <1>1, <1>6, <2>1, Zenon DEF Fits
    <2>2. rpc'[r] = "idle" /\ before'[r] = {}
      BY <2>1 DEF Moved, RInv, ReadTypeOK
    <2>3. Request(r)'
      BY <2>2 DEF Request, StillSo
    <2> QED
      BY <1>2, <2>1, <2>3, <2>4, MovedKeeps, Zenon
  <1> QED
    BY <1>7, <1>8, <1>9, <1>10, <1>11

-----------------------------------------------------------------------------
(* The invariant holds throughout: reading does not disturb the pipeline,  *)
(* whose own invariant is part of it.                                      *)
THEOREM ReadsInvariant == ReadsSpec => []RInv
  <1>1. ReadsInit => RInv
    <2> SUFFICES ASSUME ReadsInit PROVE RInv
      OBVIOUS
    <2>1. IInv /\ ReadTypeOK
      BY InitInv, RowFacts DEF ReadsInit, ReadInit, ReadTypeOK, Rows, Said
    <2>2. AcceptStays /\ HeldKey /\ (\A j \in seen : Under(j))
      BY DEF ReadsInit, ReadInit, Init, PostInit, WorkerInit, AcceptStays, HeldKey
    <2>3. \A r \in Readers : Request(r)
      BY DEF ReadsInit, ReadInit, Request, StillSo
    <2> QED
      BY <2>1, <2>2, <2>3 DEF RInv
  <1>2. RInv /\ [ReadsNext]_<<vars, readVars>> => RInv'
    <2> SUFFICES ASSUME RInv, [ReadsNext]_<<vars, readVars>> PROVE RInv'
      OBVIOUS
    <2>1. CASE [Next]_vars /\ UNCHANGED readVars
      BY <2>1, PipelineKeeps
    <2>2. CASE ReadNext /\ UNCHANGED vars
      BY <2>2, BeginKeeps, LaterKeeps DEF ReadNext
    <2> QED
      BY <2>1, <2>2 DEF ReadsNext
  <1> QED
    BY <1>1, <1>2, PTL DEF ReadsSpec

(* A job whose client was told QUEUED is never answered with 404 by getJob *)
(* and never missing in listJobs, unless the query of the acceptance fails.*)
THEOREM QueuedFound == ReadsSpec => []QueuedIsFound
  <1>1. RInv => QueuedIsFound
    BY DEF RInv, Request, QueuedIsFound, Done
  <1> QED
    BY <1>1, ReadsInvariant, PTL

(* The status getJob and listJobs tell of a job never goes back.           *)
THEOREM NoStatusGoesBack == ReadsSpec => []StatusNeverGoesBack
  <1>1. RInv => StatusNeverGoesBack
    BY DEF RInv, Request, StatusNeverGoesBack
  <1> QED
    BY <1>1, ReadsInvariant, PTL

(* The compliance report leaves out nothing and makes up nothing.          *)
THEOREM ReportComplete == ReadsSpec => []ReportOmitsNothing
  <1>1. ASSUME RInv, NEW r \in Readers, rpc[r] = "reported"
        PROVE  LET j == asked[r] IN
               /\ RowIsSo(r) /\ PurgedIsSo(r) /\ j \in Jobs
               /\ receipts[j] # None => outputs[j] # None
    BY <1>1, Zenon DEF RInv, Request, IInv, ReceiptsFollow, ReadTypeOK
  <1>2. RInv => ReportOmitsNothing
    BY <1>1 DEF ReportOmitsNothing, RowIsSo, PurgedIsSo
  <1> QED
    BY <1>2, ReadsInvariant, PTL
=============================================================================
