------------------------------ MODULE Delivery ------------------------------
(***************************************************************************)
(* Delivery links: createLink makes a token for a job's result that        *)
(* expires and allows a number of views, and openLink, a transaction over  *)
(* the link's row, shows the result. Any number of requests open links at  *)
(* the same time; a step is one statement, and what a transaction writes   *)
(* is visible from its commit on. A statement that would wait for a lock   *)
(* is a step that is not enabled.                                          *)
(***************************************************************************)
EXTENDS Integers, FiniteSets

CONSTANTS
  Links,         \* tokens; every createLink makes a new one
  Requests,      \* GETs of a token
  MaxViews,      \* the largest maxViews (100 in the code)
  Lifetime,      \* the longest time to the expiry (30 days in the code)
  MaxClock,      \* bound: readings of the clock
  None

ASSUME DeliveryAssumption ==
  /\ MaxViews \in Nat \ {0} /\ Lifetime \in Nat \ {0} /\ MaxClock \in Nat
  /\ None \notin Requests

VARIABLES
  now,           \* s.now()
  ready,         \* the links whose job has its row in outputs and jobs
  cpc, want,     \* createLink: its next statement, the expiry and views it parsed
  delivery_links,          \* the link's row: expires_at, max_views, view_count
  delivery_link_accesses,  \* the requests an access row was written for
  lock,          \* the transaction that has the link's row FOR UPDATE
  pc, target, began,       \* openLink: next statement, token, time of the request
  answer         \* the status of the response, 0 before there is one

createVars == <<cpc, want>>
openVars == <<pc, target, began, answer>>
vars == <<now, ready, createVars, delivery_links, delivery_link_accesses, lock, openVars>>

LinkRow == [expires : Nat, max : 1..MaxViews, count : Nat]

ASSUME NoneIsNoLink == None \notin LinkRow /\ None \notin Links

Init ==
  /\ now = 0
  /\ ready = {}
  /\ cpc = [l \in Links |-> "parse"]
  /\ want = [l \in Links |-> [expires |-> 0, max |-> 1, count |-> 0]]
  /\ delivery_links = [l \in Links |-> None]
  /\ delivery_link_accesses = [l \in Links |-> {}]
  /\ lock = [l \in Links |-> None]
  /\ pc = [q \in Requests |-> "begin"]
  /\ target = [q \in Requests |-> None]
  /\ began = [q \in Requests |-> 0]
  /\ answer = [q \in Requests |-> 0]

Clock ==
  /\ now < MaxClock
  /\ now' = now + 1
  /\ UNCHANGED <<ready, createVars, delivery_links, delivery_link_accesses, lock, openVars>>

(* A worker has journaled the job; the row is never deleted.               *)
Journaled(l) ==
  /\ l \notin ready
  /\ ready' = ready \cup {l}
  /\ UNCHANGED <<now, createVars, delivery_links, delivery_link_accesses, lock, openVars>>

-----------------------------------------------------------------------------
(* createLink.                                                             *)

Creating(l, from, to) ==
  /\ cpc[l] = from
  /\ cpc' = [cpc EXCEPT ![l] = to]
  /\ UNCHANGED <<now, ready, delivery_link_accesses, lock, openVars>>

(* The job is the tenant's, and the expiry and the views are in range. A   *)
(* new row has no views.                                                   *)
ParseLink(l) ==
  /\ Creating(l, "parse", "ready")
  /\ \E at \in now + 1 .. now + Lifetime, n \in 1..MaxViews :
       want' = [want EXCEPT ![l] = [expires |-> at, max |-> n, count |-> 0]]
  /\ UNCHANGED delivery_links

(* 404, 400 and 503: nothing is written.                                   *)
Refuse(l) ==
  /\ \E at \in {"parse", "ready", "insert"} : Creating(l, at, "refused")
  /\ UNCHANGED <<want, delivery_links>>

(* 409 if the job has no output.                                           *)
CheckOutput(l) ==
  /\ Creating(l, "ready", IF l \in ready THEN "insert" ELSE "refused")
  /\ UNCHANGED <<want, delivery_links>>

(* The token goes to the client, or the INSERT's answer is lost.           *)
InsertLink(l) ==
  /\ Creating(l, "insert", "told") \/ Creating(l, "insert", "refused")
  /\ delivery_links' = [delivery_links EXCEPT ![l] = want[l]]
  /\ UNCHANGED want

Create(l) == ParseLink(l) \/ Refuse(l) \/ CheckOutput(l) \/ InsertLink(l)

-----------------------------------------------------------------------------
(* openLink.                                                               *)

Goto(q, label) == pc' = [pc EXCEPT ![q] = label]
Row(q) == delivery_links[target[q]]

(* The response is decided and the deferred Rollback comes next.           *)
Reject(q, status) ==
  /\ answer' = [answer EXCEPT ![q] = status]
  /\ Goto(q, "rollback")

Begin(q) ==
  /\ pc[q] = "begin"
  /\ \E l \in Links : target' = [target EXCEPT ![q] = l]
  /\ began' = [began EXCEPT ![q] = now]
  /\ Goto(q, "select")
  /\ UNCHANGED <<now, ready, createVars, delivery_links, delivery_link_accesses, lock, answer>>

(* The checks on the row: expired, used up, or on to the result.           *)
Admit(q) ==
  IF Row(q).expires <= now THEN Reject(q, 410)
  ELSE IF Row(q).count >= Row(q).max THEN Reject(q, 403)
  ELSE Goto(q, "output") /\ UNCHANGED answer

(* Mutant of SelectLink: SELECT without FOR UPDATE.                        *)
SelectLinkUnlocked(q) ==
  /\ pc[q] = "select"
  /\ IF Row(q) = None THEN Reject(q, 404) ELSE Admit(q)
  /\ UNCHANGED <<now, ready, createVars, delivery_links, delivery_link_accesses, lock,
                 target, began>>

(* Mutant of SelectLink: the expiry is not looked at.                      *)
SelectLinkUndated(q) ==
  /\ pc[q] = "select"
  /\ IF Row(q) = None THEN Reject(q, 404) /\ UNCHANGED lock
     ELSE /\ lock[target[q]] = None
          /\ lock' = [lock EXCEPT ![target[q]] = q]
          /\ IF Row(q).count >= Row(q).max THEN Reject(q, 403)
             ELSE Goto(q, "output") /\ UNCHANGED answer
  /\ UNCHANGED <<now, ready, createVars, delivery_links, delivery_link_accesses,
                 target, began>>

(* SELECT ... FOR UPDATE waits for the transaction that has the row; the   *)
(* clock is read after that.                                               *)
SelectLink(q) ==
  /\ pc[q] = "select"
  /\ IF Row(q) = None THEN Reject(q, 404) /\ UNCHANGED lock
     ELSE /\ lock[target[q]] = None
          /\ lock' = [lock EXCEPT ![target[q]] = q]
          /\ Admit(q)
  /\ UNCHANGED <<now, ready, createVars, delivery_links, delivery_link_accesses,
                 target, began>>

ReadOutput(q) ==
  /\ pc[q] = "output"
  /\ IF target[q] \in ready THEN Goto(q, "commit") /\ UNCHANGED answer ELSE Reject(q, 409)
  /\ UNCHANGED <<now, ready, createVars, delivery_links, delivery_link_accesses, lock,
                 target, began>>

Release(q) == lock' = [l \in Links |-> IF lock[l] = q THEN None ELSE lock[l]]

(* UPDATE view_count + 1, INSERT the access, and the commit that makes     *)
(* both visible. Its reply can be lost: 503, and the view is used up.      *)
CommitView(q) ==
  /\ pc[q] = "commit"
  /\ delivery_links' = [delivery_links EXCEPT ![target[q]].count = @ + 1]
  /\ delivery_link_accesses' = [delivery_link_accesses EXCEPT ![target[q]] = @ \cup {q}]
  /\ \E status \in {200, 503} : answer' = [answer EXCEPT ![q] = status]
  /\ Release(q)
  /\ Goto(q, "done")
  /\ UNCHANGED <<now, ready, createVars, target, began>>

(* A statement fails, or the client has gone and its context is cancelled. *)
OpenFails(q) ==
  /\ pc[q] \in {"begin", "select", "output", "commit"}
  /\ Reject(q, 503)
  /\ UNCHANGED <<now, ready, createVars, delivery_links, delivery_link_accesses, lock,
                 target, began>>

(* Mutant of Rollback: the transaction is left open.                       *)
RollbackNot(q) ==
  /\ pc[q] = "rollback"
  /\ Goto(q, "done")
  /\ UNCHANGED <<now, ready, createVars, delivery_links, delivery_link_accesses, lock,
                 target, began, answer>>

Rollback(q) ==
  /\ pc[q] = "rollback"
  /\ Release(q)
  /\ Goto(q, "done")
  /\ UNCHANGED <<now, ready, createVars, delivery_links, delivery_link_accesses,
                 target, began, answer>>

Open(q) == SelectLink(q) \/ ReadOutput(q) \/ CommitView(q) \/ Rollback(q)

Ended == (\A q \in Requests : pc[q] = "done") /\ UNCHANGED vars

Next ==
  \/ Clock
  \/ \E l \in Links : Journaled(l) \/ Create(l)
  \/ \E q \in Requests : Begin(q) \/ Open(q) \/ OpenFails(q)
  \/ Ended

Spec == Init /\ [][Next]_vars

(* Postgres runs every statement that does not wait.                       *)
FairSpec == Spec /\ \A q \in Requests : WF_vars(Open(q))

-----------------------------------------------------------------------------
TypeOK ==
  /\ now \in Nat /\ ready \subseteq Links
  /\ cpc \in [Links -> {"parse", "ready", "insert", "told", "refused"}]
  /\ want \in [Links -> LinkRow]
  /\ delivery_links \in [Links -> LinkRow \cup {None}]
  /\ delivery_link_accesses \in [Links -> SUBSET Requests]
  /\ lock \in [Links -> Requests \cup {None}]
  /\ pc \in [Requests -> {"begin", "select", "output", "commit", "rollback", "done"}]
  /\ target \in [Requests -> Links \cup {None}]
  /\ began \in [Requests -> Nat]
  /\ answer \in [Requests -> {0, 200, 403, 404, 409, 410, 503}]

Shown(l) == {q \in Requests : answer[q] = 200 /\ target[q] = l}

(* A result is shown at most maxViews times, however many requests open    *)
(* the link at once, and every time it is shown there is an access row.    *)
ViewsBounded ==
  \A l \in Links : delivery_links[l] # None =>
    /\ Shown(l) \subseteq delivery_link_accesses[l]
    /\ Cardinality(delivery_link_accesses[l]) = delivery_links[l].count
    /\ delivery_links[l].count <= delivery_links[l].max

(* What makes it inductive: a transaction past the checks has the row, and *)
(* the row still has a view left,                                          *)
AdmittedHasView ==
  \A q \in Requests : pc[q] \in {"output", "commit"} =>
    lock[target[q]] = q /\ Row(q) # None /\ Row(q).count < Row(q).max

(* a request has an answer, and an access, only when it is past the commit, *)
OpenKnows ==
  \A q \in Requests :
    /\ pc[q] \in {"select", "output", "commit"} => target[q] \in Links
    /\ answer[q] = 200 => pc[q] = "done"
    /\ \A l \in Links : q \in delivery_link_accesses[l] => pc[q] = "done"

(* and a link is inserted once, without views.                             *)
CreateKnows ==
  \A l \in Links :
    /\ want[l].count = 0
    /\ cpc[l] \in {"parse", "ready", "insert"} => delivery_links[l] = None
    /\ delivery_links[l] = None => delivery_link_accesses[l] = {}
    /\ IsFiniteSet(delivery_link_accesses[l])
    /\ Shown(l) \subseteq delivery_link_accesses[l]

DeliveryInv == TypeOK /\ ViewsBounded /\ AdmittedHasView /\ OpenKnows /\ CreateKnows

(* A request that came in after the expiry is never shown the result, also *)
(* when it waited for other requests.                                      *)
ExpiredIsClosed ==
  \A q \in Requests : answer[q] = 200 => began[q] < Row(q).expires

(* A link leads to a result: openLink never finds that the job of a link   *)
(* that exists has no output.                                              *)
LinkHasResult == \A q \in Requests : answer[q] # 409

(* A request that was begun is answered: no transaction keeps the row from *)
(* the others for ever.                                                    *)
EveryOpenEnds == \A q \in Requests : pc[q] # "begin" ~> pc[q] = "done"
=============================================================================
