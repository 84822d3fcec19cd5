------------------------------ MODULE JobReads ------------------------------
(***************************************************************************)
(* What a tenant reads of its jobs while the pipeline works on them:       *)
(* GET /v1/jobs/{id} (getJob), GET /v1/jobs (listJobs) and the compliance  *)
(* report. Each query is a step of its own, and the pipeline moves between *)
(* two queries of one request. An answer is kept in the state until the    *)
(* next step, for the properties to look at.                               *)
(***************************************************************************)
EXTENDS JobSystem

CONSTANT Readers   \* clients that read, one request after the other

VARIABLES
  rpc,       \* which query the request does next, or how it was answered
  asked,     \* the job it is about, in a report the row it is at
  shown,     \* what the answer, or the report's row, says of the job so far
  failed,    \* whether a query failed and the request was answered all the same
  before,    \* what was so when the request began
  seen       \* the jobs getJob has called RUNNING and not yet ended

readVars == <<rpc, asked, shown, failed, before, seen>>

Terminal == {"COMPLETED", "FAILED"}
Blank == [status |-> "blank", purged |-> None]
Status(s) == [Blank EXCEPT !.status = s]

ReadInit ==
  /\ rpc = [r \in Readers |-> "idle"]
  /\ asked \in [Readers -> Jobs]
  /\ shown = [r \in Readers |-> Blank]
  /\ failed = [r \in Readers |-> FALSE]
  /\ before = [r \in Readers |-> {}]
  /\ seen = {}

Done(r) == rpc[r] \in {"answered", "listed", "reported"}

(* A request about j begins when facts hold; its first query is part of    *)
(* the same step.                                                          *)
Begin(r, j, facts) ==
  /\ rpc[r] = "idle"
  /\ asked' = [asked EXCEPT ![r] = j]
  /\ before' = [before EXCEPT ![r] = facts]
  /\ UNCHANGED failed

At(r, label) == rpc[r] = label /\ UNCHANGED <<asked, before>>

Goes(r, label, row) ==
  /\ rpc' = [rpc EXCEPT ![r] = label]
  /\ shown' = [shown EXCEPT ![r] = row]

QueryFails(r) == failed' = [failed EXCEPT ![r] = TRUE]

-----------------------------------------------------------------------------
(* getJob.                                                                 *)

Answers(r, j, status) ==
  /\ Goes(r, "answered", Status(status))
  /\ seen' = IF status = "RUNNING" THEN seen \cup {j}
             ELSE IF status \in Terminal THEN seen \ {j} ELSE seen

WhenAsked(j) ==
  {f \in {"queued", "done", "running"} :
     \/ f = "queued" /\ post[j] = "queued"
     \/ f = "done" /\ outputs[j] # None
     \/ f = "running" /\ j \in seen}

(* Mutant of getJob: the checkpoint decides before the journal does.       *)
getJobRunningFirst(r, j) ==
  /\ Begin(r, j, WhenAsked(j))
  /\ IF mem[j] # 0 THEN Answers(r, j, "RUNNING")
     ELSE IF outputs[j] # None THEN Answers(r, j, outputs[j].state)
     ELSE Goes(r, "accept", Blank) /\ UNCHANGED seen

(* A row of outputs is the answer; an error of the query is answered with  *)
(* 503 and leaves nothing to look at.                                      *)
getJob(r, j) ==
  /\ Begin(r, j, WhenAsked(j))
  /\ IF outputs[j] # None THEN Answers(r, j, outputs[j].state)
     ELSE Goes(r, "accept", Blank) /\ UNCHANGED seen

(* SELECT 1 FROM job_accepts: no row is answered with 404, and so is any   *)
(* error.                                                                  *)
GetAccept(r) ==
  /\ At(r, "accept")
  /\ \/ /\ asked[r] \in accepts
        /\ Goes(r, "running", Blank) /\ UNCHANGED <<failed, seen>>
     \/ /\ asked[r] \notin accepts
        /\ Answers(r, asked[r], "404") /\ UNCHANGED failed
     \/ /\ Answers(r, asked[r], "404")
        /\ QueryFails(r)

(* HGET job:<id>:mem step, the field saveStep1 sets.                       *)
JobRunning(j) == IF mem[j] # 0 THEN "RUNNING" ELSE "QUEUED"

GetRunning(r) ==
  /\ At(r, "running")
  /\ Answers(r, asked[r], JobRunning(asked[r]))
  /\ UNCHANGED failed

-----------------------------------------------------------------------------
(* listJobs: one query over the acceptances and the journal. A job that is *)
(* not in the list is shown blank.                                         *)

(* Mutant of listJobs: only jobs that ended or run are listed.             *)
listJobsActive(r, j) ==
  /\ Begin(r, j, WhenAsked(j))
  /\ Goes(r, "listed", Status(IF outputs[j] = None THEN "blank" ELSE outputs[j].state))
  /\ UNCHANGED seen

listJobs(r, j) ==
  /\ Begin(r, j, WhenAsked(j))
  /\ Goes(r, "listed",
          Status(IF j \notin accepts THEN "blank"
                 ELSE IF outputs[j] = None THEN "QUEUED" ELSE outputs[j].state))
  /\ UNCHANGED seen

-----------------------------------------------------------------------------
(* compliance: the acceptances, and for each of them the job's row and its *)
(* receipt. An error of these two leaves their columns blank.              *)

compliance(r, j) ==
  /\ j \in accepts
  /\ Begin(r, j, IF receipts[j] # None THEN {"done", "purged"}
                 ELSE IF outputs[j] # None THEN {"done"} ELSE {})
  /\ Goes(r, "jobs", Blank)
  /\ UNCHANGED seen

ReportJob(r) ==
  /\ At(r, "jobs")
  /\ \/ /\ Goes(r, "receipt",
                Status(IF outputs[asked[r]] = None THEN "blank" ELSE outputs[asked[r]].state))
        /\ UNCHANGED failed
     \/ Goes(r, "receipt", Blank) /\ QueryFails(r)
  /\ UNCHANGED seen

(* Mutant of ReportReceipt: the time is that of the key's destruction.     *)
ReportReceiptFromKey(r) ==
  /\ At(r, "receipt")
  /\ Goes(r, "reported", [shown[r] EXCEPT !.purged = destroyedAt[asked[r]]])
  /\ UNCHANGED <<failed, seen>>

ReportReceipt(r) ==
  /\ At(r, "receipt")
  /\ \/ /\ Goes(r, "reported", [shown[r] EXCEPT !.purged = receipts[asked[r]]])
        /\ UNCHANGED failed
     \/ Goes(r, "reported", shown[r]) /\ QueryFails(r)
  /\ UNCHANGED seen

-----------------------------------------------------------------------------
(* The answer is with the client. An answer of 503, to the first query of  *)
(* a request or to JobRunning, ends a request, too.                        *)
Answered(r) ==
  /\ Done(r) \/ rpc[r] = "running"
  /\ Goes(r, "idle", Blank)
  /\ failed' = [failed EXCEPT ![r] = FALSE]
  /\ before' = [before EXCEPT ![r] = {}]
  /\ UNCHANGED <<asked, seen>>

ReadNext ==
  \E r \in Readers :
    \/ \E j \in Jobs : getJob(r, j) \/ listJobs(r, j) \/ compliance(r, j)
    \/ GetAccept(r) \/ GetRunning(r) \/ ReportJob(r) \/ ReportReceipt(r)
    \/ Answered(r)

ReadsInit == Init /\ ReadInit

ReadsNext ==
  \/ (\A r \in Readers : ~Done(r)) /\ Next /\ UNCHANGED readVars
  \/ ReadNext /\ UNCHANGED vars

ReadsSpec == ReadsInit /\ [][ReadsNext]_<<vars, readVars>>

-----------------------------------------------------------------------------
ReadTypeOK ==
  /\ rpc \in [Readers -> {"idle", "accept", "running", "answered", "listed", "jobs",
                          "receipt", "reported"}]
  /\ asked \in [Readers -> Jobs]
  /\ shown \in [Readers -> [status : {"blank", "404", "QUEUED", "RUNNING"} \cup Terminal,
                            purged : Times \cup {None}]]
  /\ failed \in [Readers -> BOOLEAN]
  /\ before \in [Readers -> SUBSET {"queued", "done", "running", "purged"}]
  /\ seen \subseteq Jobs

(* A client that was told QUEUED finds its job: getJob does not answer 404 *)
(* and listJobs has it, at every moment from the answer on and whatever    *)
(* the workers do between two queries. Only a failing query of the         *)
(* acceptance is answered with 404 nevertheless.                           *)
QueuedIsFound ==
  \A r \in Readers :
    "queued" \in before[r] /\ ~failed[r] /\ Done(r) => shown[r].status \notin {"blank", "404"}

(* What getJob and listJobs tell of a job does not go back: a result that  *)
(* was stored is told by every later request, and a job that was RUNNING   *)
(* for getJob is QUEUED again only when it ended between two queries of    *)
(* the request.                                                            *)
StatusNeverGoesBack ==
  \A r \in Readers :
    rpc[r] \in {"answered", "listed"} /\ shown[r].status # "blank" =>
      /\ "done" \in before[r] => shown[r].status = outputs[asked[r]].state
      /\ rpc[r] = "answered" /\ "running" \in before[r] /\ shown[r].status = "QUEUED"
           => outputs[asked[r]] # None

(* A row of the compliance report leaves out nothing that was stored when  *)
(* the report began, unless a query failed, says nothing that is not so,   *)
(* and names a time of purging only for a job that ended, although its     *)
(* columns are read by two queries.                                        *)
ReportOmitsNothing ==
  \A r \in Readers :
    LET j == asked[r] IN
    rpc[r] = "reported" =>
      /\ ~failed[r] /\ "done" \in before[r] => shown[r].status = outputs[j].state
      /\ ~failed[r] /\ "purged" \in before[r] => shown[r].purged = receipts[j]
      /\ shown[r].status # "blank" => outputs[j] # None /\ shown[r].status = outputs[j].state
      /\ shown[r].purged # None => outputs[j] # None /\ shown[r].purged = receipts[j]
=============================================================================
