------------------------------- MODULE PostJob -------------------------------
(***************************************************************************)
(* The control plane's side of a job: POST /v1/jobs (and one item of       *)
(* POST /v1/jobs/batch, whose loop body is the same sequence of calls).    *)
(* The XADD of jobs.Add travels to Redis on its own: the client library    *)
(* sends it again when a connection breaks, its reply can be lost, and it  *)
(* can still be applied after the handler has given up and cleaned up.     *)
(***************************************************************************)
EXTENDS JobStores

CONSTANTS
  MaxSends,      \* bound: times the client library sends one XADD
  AddFails       \* TRUE if jobs.Add may return an error

ASSUME PostAssumption == MaxSends \in Nat /\ AddFails \in BOOLEAN

VARIABLES
  post,          \* where the handler of the job's request is
  sends,         \* XADDs sent so far
  inflight,      \* XADDs sent and not applied
  entered        \* the jobs an XADD was applied for

postVars == <<post, sends, inflight, entered>>

PostInit ==
  /\ post = [j \in Jobs |-> "new"]
  /\ sends = [j \in Jobs |-> 0]
  /\ inflight = [j \in Jobs |-> 0]
  /\ entered = {}

PostTypeOK ==
  /\ post \in [Jobs -> {"new", "accepted", "keyed", "dropKey", "dropAccept",
                        "refused", "queued", "gone"}]
  /\ sends \in [Jobs -> Nat]
  /\ inflight \in [Jobs -> Nat]
  /\ entered \subseteq Jobs

Handler(j, from, to) ==
  /\ post[j] = from
  /\ post' = [post EXCEPT ![j] = to]
  /\ UNCHANGED <<sends, inflight, entered>>

(* Entries the API does not write: it rejects an empty input and a type no *)
(* runner has, and takes the tenant from the caller's key. Other producers *)
(* of the stream may, and a worker has to cope with them.                  *)
Foreign == NoTenant \cup NoInput \cup UnknownType

(* The request is valid: INSERT INTO job_accepts, with a fresh UUID as id. *)
Accept(j) ==
  /\ j \notin Foreign
  /\ Handler(j, "new", "accepted")
  /\ accepts' = accepts \cup {j}
  /\ UNCHANGED <<streamVars, mem, deadVars, events, keyVars, outputs, purgeVars, policy>>

(* jobs.Add: the key is made and the input sealed with it, then XADD.      *)
AddKey(j) ==
  /\ Handler(j, "accepted", "keyed")
  /\ Ensure(j)
  /\ UNCHANGED <<streamVars, mem, deadVars, events, outputs, purgeVars, accepts, policy>>

SendAdd(j) ==
  /\ post[j] = "keyed" /\ sends[j] < MaxSends
  /\ sends' = [sends EXCEPT ![j] = @ + 1]
  /\ inflight' = [inflight EXCEPT ![j] = @ + 1]
  /\ UNCHANGED <<post, entered>>
  /\ UNCHANGED storeVars

(* Redis applies an XADD, whatever became of the handler.                  *)
ApplyAdd(j) ==
  /\ inflight[j] > 0
  /\ inflight' = [inflight EXCEPT ![j] = @ - 1]
  /\ entered' = entered \cup {j}
  /\ enqueue(j)
  /\ UNCHANGED <<post, sends>>
  /\ UNCHANGED <<mem, deadVars, events, keyVars, outputs, purgeVars, accepts, policy>>

(* 200 {"status": "QUEUED"}.                                               *)
Queued(j) ==
  /\ j \in entered
  /\ Handler(j, "keyed", "queued")
  /\ UNCHANGED storeVars

(* jobs.Add returned an error: from Ensure, from Seal or from an XADD that *)
(* was or was not applied.                                                 *)
AddError(j) ==
  /\ AddFails
  /\ Handler(j, "accepted", "dropKey") \/ Handler(j, "keyed", "dropKey")
  /\ UNCHANGED storeVars

(* The two DELETEs ignore their errors; a failed one changes nothing.      *)
DropKey(j) ==
  /\ Handler(j, "dropKey", "dropAccept")
  /\ DeleteKeyRow(j) \/ UNCHANGED keyVars
  /\ UNCHANGED <<streamVars, mem, deadVars, events, outputs, purgeVars, accepts, policy>>

DropAccept(j) ==
  /\ Handler(j, "dropAccept", "refused")
  /\ accepts' = accepts \ {j} \/ UNCHANGED accepts
  /\ UNCHANGED <<streamVars, mem, deadVars, events, keyVars, outputs, purgeVars, policy>>

(* The control plane stops in the middle of the request.                   *)
PostCrash(j) ==
  /\ AddFails
  /\ \E at \in {"accepted", "keyed", "dropKey", "dropAccept"} : Handler(j, at, "gone")
  /\ UNCHANGED storeVars

(* Another producer adds an entry, after making the job's key as Add does.  *)
ForeignAdd(j) ==
  /\ j \in Foreign /\ post[j] = "new"
  /\ post' = [post EXCEPT ![j] = "gone"]
  /\ entered' = entered \cup {j}
  /\ enqueue(j)
  /\ Ensure(j)
  /\ UNCHANGED <<sends, inflight>>
  /\ UNCHANGED <<mem, deadVars, events, outputs, purgeVars, accepts, policy>>

PostNext ==
  \E j \in Jobs :
    \/ Accept(j) \/ AddKey(j) \/ SendAdd(j) \/ ApplyAdd(j) \/ Queued(j)
    \/ AddError(j) \/ DropKey(j) \/ DropAccept(j) \/ PostCrash(j)
    \/ ForeignAdd(j)
=============================================================================
