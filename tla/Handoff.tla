------------------------------- MODULE Handoff -------------------------------
(***************************************************************************)
(* Sentinel's handoff of long lines to the control plane: the callers of   *)
(* handle, the bounded queue, the goroutine that posts (loop), the circuit *)
(* breaker and the timers that allow a probe. Every atomic load, store and *)
(* compare-and-swap is a step of its own. cmd/sentinel has one caller, the *)
(* line reader; the type is written for any number.                        *)
(***************************************************************************)
EXTENDS Integers, Sequences, FiniteSets

CONSTANTS
  Callers,       \* goroutines that call handle, each with one line at a time
  QueueCap,      \* handoffQueueCap
  Limit,         \* handoffBreakerLimit
  MaxTimers      \* bound: probe timers that run at the same time

ASSUME HandoffAssumption ==
  /\ QueueCap \in Nat \ {0}
  /\ Limit \in Nat \ {0}
  /\ MaxTimers \in Nat \ {0}

VARIABLES
  pc,            \* the caller's place in handle, "idle" between two lines
  fate,          \* how its last line ended: held, or left to the fail policy
  reply,         \* the reply channel of its item
  posts,         \* posts of its item
  accepted,      \* of these, the ones the control plane made a job for
  q,             \* h.q
  lpc,           \* the place of loop
  cur,           \* the item loop works on (its caller)
  failures, open, allowProbe,
  timers,        \* pending time.AfterFunc calls
  up             \* TRUE while the control plane answers in time

callerVars == <<pc, fate>>
postVars == <<posts, accepted>>
vars == <<callerVars, reply, postVars, q, lpc, cur, failures, open, allowProbe, timers, up>>

Init ==
  /\ pc = [c \in Callers |-> "idle"]
  /\ fate = [c \in Callers |-> "none"]
  /\ reply = [c \in Callers |-> "none"]
  /\ posts = [c \in Callers |-> 0]
  /\ accepted = [c \in Callers |-> 0]
  /\ q = <<>>
  /\ lpc = "idle"
  /\ cur \in Callers
  /\ failures = 0 /\ open = FALSE /\ allowProbe = FALSE
  /\ timers = 0
  /\ up \in BOOLEAN

-----------------------------------------------------------------------------
(* handle.                                                                 *)

Goto(c, label) == pc' = [pc EXCEPT ![c] = label]

Return(c, end) == Goto(c, "idle") /\ fate' = [fate EXCEPT ![c] = end]

(* A new line: open.Load().                                                *)
Enter(c) ==
  /\ pc[c] = "idle"
  /\ Goto(c, IF open THEN "swap" ELSE "send")
  /\ fate' = [fate EXCEPT ![c] = "none"]
  /\ reply' = [reply EXCEPT ![c] = "none"]
  /\ posts' = [posts EXCEPT ![c] = 0]
  /\ accepted' = [accepted EXCEPT ![c] = 0]
  /\ UNCHANGED <<q, lpc, cur, failures, open, allowProbe, timers, up>>

(* allowProbe.CompareAndSwap(true, false).                                 *)
Swap(c) ==
  /\ pc[c] = "swap"
  /\ IF allowProbe THEN Goto(c, "send") /\ UNCHANGED fate ELSE Return(c, "failPolicy")
  /\ allowProbe' = FALSE
  /\ UNCHANGED <<reply, postVars, q, lpc, cur, failures, open, timers, up>>

Send(c) ==
  /\ pc[c] = "send"
  /\ IF Len(q) < QueueCap
     THEN q' = Append(q, c) /\ Goto(c, "wait")
     ELSE Goto(c, "full") /\ UNCHANGED q
  /\ UNCHANGED <<fate, reply, postVars, lpc, cur, failures, open, allowProbe, timers, up>>

(* The select's default: open.Load(), and the token is put back.           *)
Full(c) ==
  /\ pc[c] = "full"
  /\ IF open THEN Goto(c, "restore") /\ UNCHANGED fate ELSE Return(c, "failPolicy")
  /\ UNCHANGED <<reply, postVars, q, lpc, cur, failures, open, allowProbe, timers, up>>

Restore(c) ==
  /\ pc[c] = "restore"
  /\ allowProbe' = TRUE
  /\ Return(c, "failPolicy")
  /\ UNCHANGED <<reply, postVars, q, lpc, cur, failures, open, timers, up>>

Receive(c) ==
  /\ pc[c] = "wait" /\ reply[c] # "none"
  /\ Return(c, IF reply[c] = "ok" THEN "held" ELSE "failPolicy")
  /\ UNCHANGED <<reply, postVars, q, lpc, cur, failures, open, allowProbe, timers, up>>

Handle(c) ==
  Enter(c) \/ Swap(c) \/ Send(c) \/ Full(c) \/ Restore(c) \/ Receive(c)

-----------------------------------------------------------------------------
(* loop. It alone writes open and failures.                                *)

TakeItem ==
  /\ lpc = "idle" /\ q # <<>>
  /\ cur' = Head(q) /\ q' = Tail(q)
  /\ lpc' = IF open THEN "probe" ELSE "post"
  /\ UNCHANGED <<callerVars, reply, postVars, failures, open, allowProbe, timers, up>>

Answer(r) == reply' = [reply EXCEPT ![cur] = r]

(* post: the job's id comes back in time; or it does not, and the control  *)
(* plane may have made the job nevertheless.                               *)
Posted == posts' = [posts EXCEPT ![cur] = @ + 1]

PostOk ==
  /\ up
  /\ Posted
  /\ accepted' = [accepted EXCEPT ![cur] = @ + 1]

PostFails ==
  /\ ~up
  /\ Posted
  /\ \E n \in {0, 1} : accepted' = [accepted EXCEPT ![cur] = @ + n]

(* A probe that gets through closes the breaker, then clears the token.    *)
ProbeOk ==
  /\ lpc = "probe" /\ PostOk
  /\ failures' = 0 /\ open' = FALSE
  /\ lpc' = "clear"
  /\ UNCHANGED <<callerVars, reply, q, cur, allowProbe, timers, up>>

Clear ==
  /\ lpc = "clear"
  /\ allowProbe' = FALSE
  /\ Answer("ok")
  /\ lpc' = "idle"
  /\ UNCHANGED <<callerVars, postVars, q, cur, failures, open, timers, up>>

(* Mutant of ProbeFails: no timer is set.                                  *)
ProbeFailsUnarmed ==
  /\ lpc = "probe" /\ PostFails
  /\ Answer("no")
  /\ lpc' = "idle"
  /\ UNCHANGED <<callerVars, q, cur, failures, open, allowProbe, timers, up>>

ProbeFails ==
  /\ lpc = "probe" /\ PostFails
  /\ Answer("no")
  /\ lpc' = "arm"
  /\ UNCHANGED <<callerVars, q, cur, failures, open, allowProbe, timers, up>>

(* time.AfterFunc(time.Second, ...).                                       *)
Arm ==
  /\ lpc = "arm" /\ timers < MaxTimers
  /\ timers' = timers + 1
  /\ lpc' = "idle"
  /\ UNCHANGED <<callerVars, reply, postVars, q, cur, failures, open, allowProbe, up>>

(* Mutant of SendOk: the answer is given for a post without a job.         *)
SendOkAnyway ==
  /\ lpc = "post" /\ (PostOk \/ PostFails)
  /\ failures' = 0 /\ open' = FALSE
  /\ Answer("ok")
  /\ lpc' = "idle"
  /\ UNCHANGED <<callerVars, q, cur, allowProbe, timers, up>>

(* Mutant of SendOk: no answer is sent.                                    *)
SendOkSilent ==
  /\ lpc = "post" /\ PostOk
  /\ failures' = 0 /\ open' = FALSE
  /\ lpc' = "idle"
  /\ UNCHANGED <<callerVars, reply, q, cur, allowProbe, timers, up>>

SendOk ==
  /\ lpc = "post" /\ PostOk
  /\ failures' = 0 /\ open' = FALSE
  /\ Answer("ok")
  /\ lpc' = "idle"
  /\ UNCHANGED <<callerVars, q, cur, allowProbe, timers, up>>

(* A failed post is repeated after a sleep until the breaker opens.        *)
SendFails ==
  /\ lpc = "post" /\ PostFails
  /\ failures' = failures + 1
  /\ IF failures + 1 >= Limit
     THEN open' = TRUE /\ lpc' = "allow"
     ELSE UNCHANGED <<open, lpc>>
  /\ UNCHANGED <<callerVars, reply, q, cur, allowProbe, timers, up>>

(* Mutant of Allow: a breaker that opens allows no probe.                  *)
AllowNot ==
  /\ lpc = "allow"
  /\ Answer("no")
  /\ lpc' = "idle"
  /\ UNCHANGED <<callerVars, postVars, q, cur, failures, open, allowProbe, timers, up>>

Allow ==
  /\ lpc = "allow"
  /\ allowProbe' = TRUE
  /\ Answer("no")
  /\ lpc' = "idle"
  /\ UNCHANGED <<callerVars, postVars, q, cur, failures, open, timers, up>>

Loop ==
  \/ TakeItem \/ ProbeOk \/ Clear \/ ProbeFails \/ Arm
  \/ SendOk \/ SendFails \/ Allow

(* A second has passed.                                                    *)
Timer ==
  /\ timers > 0
  /\ timers' = timers - 1
  /\ allowProbe' = TRUE
  /\ UNCHANGED <<callerVars, reply, postVars, q, lpc, cur, failures, open, up>>

ControlPlane ==
  /\ up' = ~up
  /\ UNCHANGED <<callerVars, reply, postVars, q, lpc, cur, failures, open, allowProbe, timers>>

Next ==
  \/ \E c \in Callers : Handle(c)
  \/ Loop
  \/ Timer
  \/ ControlPlane

Spec == Init /\ [][Next]_vars

(* Goroutines that can run do, timers fire, a post ends (by the client's   *)
(* timeout if by nothing else) and there is always another long line.      *)
FairSpec ==
  /\ Spec
  /\ \A c \in Callers : WF_vars(Handle(c))
  /\ WF_vars(Loop)
  /\ WF_vars(Timer)

-----------------------------------------------------------------------------
TypeOK ==
  /\ pc \in [Callers -> {"idle", "swap", "send", "full", "restore", "wait"}]
  /\ fate \in [Callers -> {"none", "held", "failPolicy"}]
  /\ reply \in [Callers -> {"none", "ok", "no"}]
  /\ posts \in [Callers -> Nat]
  /\ accepted \in [Callers -> Nat]
  /\ q \in Seq(Callers)
  /\ lpc \in {"idle", "probe", "clear", "arm", "post", "allow"}
  /\ cur \in Callers
  /\ failures \in Nat
  /\ open \in BOOLEAN
  /\ allowProbe \in BOOLEAN
  /\ timers \in Nat
  /\ up \in BOOLEAN

(* An open breaker is never stuck: there is a probe token, or a timer that *)
(* will make one, or a line on its way that will be a probe or give its    *)
(* token back.                                                             *)
NeverStuckOpen ==
  open => \/ allowProbe
          \/ timers > 0
          \/ lpc \in {"probe", "arm", "allow"}
          \/ q # <<>>
          \/ \E c \in Callers : pc[c] \in {"send", "full", "restore"}

(* What makes it inductive, and bounds the posts: a breaker that is closed *)
(* has fewer failures than the limit, and loop's place tells if it is.     *)
LoopKnows ==
  /\ lpc \in {"post", "clear"} => ~open
  /\ lpc \in {"probe", "allow", "arm"} => open
  /\ ~open => failures < Limit

(* One line is posted at most handoffBreakerLimit times, however often the *)
(* control plane fails: the reader is held up for a bounded time.          *)
PostsBounded == \A c \in Callers : posts[c] <= Limit

(* A line is written as [HELD job=...] only if the control plane has a job *)
(* for it, and this line's post was the one that was answered.             *)
HeldIsAccepted == \A c \in Callers : fate[c] = "held" => accepted[c] > 0

(* After a control plane that had failed answers for good, the breaker     *)
(* does not stay open.                                                     *)
BreakerRecovers == <>[]up => []<>~open

(* A line given to handle is always given back (no deadlock between the    *)
(* caller, the queue and the loop), whatever the control plane does.       *)
HandleReturns == \A c \in Callers : pc[c] # "idle" ~> pc[c] = "idle"
=============================================================================
