---------------------------- MODULE JobLifecycle ----------------------------
(***************************************************************************)
(* What the pipeline promises about a job, without workers or stores: the  *)
(* job gets at most one result, for good; it is purged at most once, for   *)
(* good, and only after it has its result; and whatever is told about its  *)
(* end is that result's state.                                             *)
(***************************************************************************)
CONSTANTS Jobs, Results, Times, None

VARIABLES
  verdict,       \* the job's result, None while it has none
  purgedAt,      \* the time its purge is certified with, None before
  told           \* the final states announced for it

Init ==
  /\ verdict = [j \in Jobs |-> None]
  /\ purgedAt = [j \in Jobs |-> None]
  /\ told = [j \in Jobs |-> {}]

Decide(j, r) ==
  /\ verdict[j] = None
  /\ verdict' = [verdict EXCEPT ![j] = r]
  /\ UNCHANGED <<purgedAt, told>>

Purge(j, t) ==
  /\ verdict[j] # None /\ purgedAt[j] = None
  /\ purgedAt' = [purgedAt EXCEPT ![j] = t]
  /\ UNCHANGED <<verdict, told>>

Tell(j) ==
  /\ verdict[j] # None
  /\ told' = [told EXCEPT ![j] = {verdict[j].state}]
  /\ UNCHANGED <<verdict, purgedAt>>

Next ==
  \E j \in Jobs :
    \/ \E r \in Results : Decide(j, r)
    \/ \E t \in Times : Purge(j, t)
    \/ Tell(j)

Spec == Init /\ [][Next]_<<verdict, purgedAt, told>>
=============================================================================
