----------------------------- MODULE NodeEvents -----------------------------
(***************************************************************************)
(* What a Sentinel node does with its lines and what it tells the control  *)
(* plane about them: the reader that masks, holds or drops each line and   *)
(* counts it, the events loop that takes the counters and posts them, the  *)
(* policy poll, the end of the process, and the handler that stores a      *)
(* batch. The handoff of a long line is abstracted to its two ends, held   *)
(* or left to the fail policy (module Handoff).                            *)
(***************************************************************************)
EXTENDS Integers, Sequences

CONSTANTS
  Shadow,        \* --shadow: count, and write the line unchanged
  AllowFailOpen, \* --allow-fail-open
  MaxLines,      \* bound: lines of the input
  MaxFlushes,    \* bound: flushes, the last one included
  MaxSetBacks,   \* bound: times the node's clock is set back
  StartTime      \* the clock when the node starts; it may be set back to 0

ASSUME NodeAssumption ==
  /\ Shadow \in BOOLEAN /\ AllowFailOpen \in BOOLEAN
  /\ MaxLines \in Nat /\ MaxFlushes \in Nat \ {0}
  /\ MaxSetBacks \in Nat /\ StartTime \in Nat

VARIABLES
  failPolicy,    \* active settings' fail policy
  rpc, result, st, found, \* the reader: place, maskResult, settings, detections
  out,           \* the output so far: detections and lines of each kind
  lines,         \* lines read
  window,        \* windowCounters
  failOpenCount,
  epc, failOpen, batch,   \* a flush: place, the count it swapped out, its batch
  flushes,       \* flushes begun
  clock, setBacks, \* the node's wall clock, and how often it was set back
  stage,         \* of the process
  ledger,        \* batches the control plane has stored, oldest first
  stored,        \* history: what the stored batches add up to
  lost,          \* history: the answer to a stored batch has been lost
  jumped         \* history: the clock was set back after the last take

readerVars == <<rpc, result, st, found, out, lines>>
flushVars == <<epc, failOpen, batch, flushes>>
clockVars == <<clock, setBacks, jumped>>
storeVars == <<ledger, stored>>
vars == <<failPolicy, readerVars, window, failOpenCount, flushVars, clockVars, stage,
          storeVars, lost>>

FailPolicies == {"closed", "inline", "open"}

(* What a line adds to the counters.                                       *)
Tally == [counts : Nat, held : Nat, dropped : Nat, open : Nat]
Nothing == [counts |-> 0, held |-> 0, dropped |-> 0, open |-> 0]
Masked(n) == [Nothing EXCEPT !.counts = n]
Held == [Nothing EXCEPT !.held = 1]
Dropped == [Nothing EXCEPT !.dropped = 1]
Unmasked == [Nothing EXCEPT !.open = 1]

Plus(a, b) == [k \in DOMAIN a |-> a[k] + b[k]]

Window == [from : Nat, counts : Nat, held : Nat, dropped : Nat]
Batch == [from : Nat, to : Nat, counts : Nat, held : Nat, dropped : Nat, failOpen : Nat]
NoBatch == [from |-> 0, to |-> 0, counts |-> 0, held |-> 0, dropped |-> 0, failOpen |-> 0]

Init ==
  /\ failPolicy \in FailPolicies
  /\ rpc = "read" /\ result = Nothing /\ st = "closed" /\ found = 0
  /\ out = Nothing /\ lines = 0
  /\ window = [from |-> StartTime, counts |-> 0, held |-> 0, dropped |-> 0]
  /\ failOpenCount = 0
  /\ epc = "idle" /\ failOpen = 0 /\ batch = NoBatch /\ flushes = 0
  /\ clock = StartTime /\ setBacks = 0 /\ jumped = FALSE
  /\ stage = "running"
  /\ ledger = <<>> /\ stored = Nothing /\ lost = FALSE

-----------------------------------------------------------------------------
(* The reader.                                                             *)

(* maskWith, with the settings that are active when the line is read.      *)
ReadLine ==
  /\ rpc = "read" /\ stage = "running" /\ lines < MaxLines
  /\ lines' = lines + 1
  /\ st' = failPolicy
  /\ \E long \in BOOLEAN, n \in {0, 1} :
       /\ found' = n
       /\ IF long /\ ~Shadow
          THEN rpc' = "handle" /\ UNCHANGED result
          ELSE rpc' = "record" /\ result' = Masked(n)
  /\ UNCHANGED <<failPolicy, out, window, failOpenCount, flushVars, stage, storeVars, lost,
                 clockVars>>

HandleHolds ==
  /\ rpc = "handle"
  /\ result' = Held
  /\ rpc' = "record"
  /\ UNCHANGED <<failPolicy, st, found, out, lines, window, failOpenCount, flushVars,
                 stage, storeVars, lost,
                 clockVars>>

(* Mutant of applyFailPolicy: a line written unmasked is not counted.      *)
applyFailPolicyUncounted ==
  /\ rpc = "handle"
  /\ rpc' = "record"
  /\ result' = IF st = "inline" THEN Masked(found)
               ELSE IF st = "open" /\ AllowFailOpen THEN Unmasked ELSE Dropped
  /\ UNCHANGED failOpenCount
  /\ UNCHANGED <<failPolicy, st, found, out, lines, window, flushVars, stage, storeVars, lost,
                 clockVars>>

applyFailPolicy ==
  /\ rpc = "handle"
  /\ rpc' = "record"
  /\ \/ /\ st = "inline"
        /\ result' = Masked(found) /\ UNCHANGED failOpenCount
     \/ /\ st = "open" /\ AllowFailOpen
        /\ result' = Unmasked /\ failOpenCount' = failOpenCount + 1
     \/ /\ st = "closed" \/ (st = "open" /\ ~AllowFailOpen)
        /\ result' = Dropped /\ UNCHANGED failOpenCount
  /\ UNCHANGED <<failPolicy, st, found, out, lines, window, flushVars, stage, storeVars, lost,
                 clockVars>>

add ==
  /\ rpc = "record"
  /\ rpc' = "write"
  /\ window' = [window EXCEPT !.counts = @ + result.counts,
                              !.held = @ + result.held,
                              !.dropped = @ + result.dropped]
  /\ UNCHANGED <<failPolicy, result, st, found, out, lines, failOpenCount, flushVars,
                 stage, storeVars, lost,
                 clockVars>>

Write ==
  /\ rpc = "write"
  /\ rpc' = "read"
  /\ out' = Plus(out, result)
  /\ result' = Nothing /\ st' = "closed" /\ found' = 0
  /\ UNCHANGED <<failPolicy, lines, window, failOpenCount, flushVars,
                 stage, storeVars, lost,
                 clockVars>>

(* log.Fatalf: no deferred call runs, so there is no last flush.           *)
WriteFails ==
  /\ rpc = "write"
  /\ rpc' = "end" /\ stage' = "dead" /\ epc' = "idle"
  /\ UNCHANGED <<failPolicy, result, st, found, out, lines, window, failOpenCount,
                 failOpen, batch, flushes, storeVars, lost,
                 clockVars>>

(* The input ends: events.close closes the stop channel.                   *)
EndOfInput ==
  /\ rpc = "read" /\ stage = "running"
  /\ rpc' = "end" /\ stage' = "stopping"
  /\ UNCHANGED <<failPolicy, result, st, found, out, lines, window, failOpenCount,
                 flushVars, storeVars, lost,
                 clockVars>>

(* The poll stores the settings of a new policy.                           *)
StoreSettings ==
  /\ stage \in {"running", "stopping"}
  /\ \E p \in FailPolicies \ {failPolicy} : failPolicy' = p
  /\ UNCHANGED <<readerVars, window, failOpenCount, flushVars, stage, storeVars, lost,
                 clockVars>>

-----------------------------------------------------------------------------
(* flush, by the ticker or, after the loop has ended, by close.            *)

Tick ==
  /\ epc = "idle" /\ stage \in {"running", "stopping"} /\ flushes < MaxFlushes - 1
  /\ epc' = "swap" /\ flushes' = flushes + 1
  /\ UNCHANGED <<failPolicy, readerVars, window, failOpenCount, failOpen, batch, stage,
                 storeVars, lost,
                 clockVars>>

(* close: the loop has seen the stop channel, and main flushes once more.  *)
LastFlush ==
  /\ epc = "idle" /\ stage = "stopping"
  /\ epc' = "swap" /\ stage' = "last" /\ flushes' = flushes + 1
  /\ UNCHANGED <<failPolicy, readerVars, window, failOpenCount, failOpen, batch, storeVars, lost,
                 clockVars>>

SwapFailOpen ==
  /\ epc = "swap"
  /\ failOpen' = failOpenCount /\ failOpenCount' = 0
  /\ epc' = "take"
  /\ UNCHANGED <<failPolicy, readerVars, window, batch, flushes, stage, storeVars, lost,
                 clockVars>>

(* The operator, or a time service, sets the node's clock back.            *)
SetBack ==
  /\ setBacks < MaxSetBacks /\ stage \in {"running", "stopping", "last"}
  /\ \E t \in 0..(clock - 1) : clock' = t
  /\ setBacks' = setBacks + 1 /\ jumped' = TRUE
  /\ UNCHANGED <<failPolicy, readerVars, window, failOpenCount, flushVars, stage, storeVars,
                 lost>>

(* take, at the next tick of the node's clock.                             *)
take ==
  /\ epc = "take"
  /\ clock' = clock + 1 /\ jumped' = FALSE
  /\ batch' = [from |-> window.from, to |-> clock', counts |-> window.counts,
               held |-> window.held, dropped |-> window.dropped, failOpen |-> failOpen]
  /\ window' = [from |-> clock', counts |-> 0, held |-> 0, dropped |-> 0]
  /\ epc' = "post"
  /\ UNCHANGED <<failPolicy, readerVars, failOpenCount, failOpen, flushes, setBacks,
                 stage, storeVars, lost>>

FlushReturns ==
  /\ epc' = "idle" /\ failOpen' = 0 /\ batch' = NoBatch
  /\ UNCHANGED flushes

(* What the control plane requires of a batch.                             *)
parseSentinelBatch(b) ==
  b.from <= b.to /\ b.counts >= 0 /\ b.held >= 0 /\ b.dropped >= 0 /\ b.failOpen >= 0

(* A batch is stored: its row in the ledger.                               *)
Store(b) ==
  /\ ledger' = Append(ledger, b)
  /\ stored' = [counts |-> stored.counts + b.counts, held |-> stored.held + b.held,
                dropped |-> stored.dropped + b.dropped, open |-> stored.open + b.failOpen]

(* postSentinelEvents: the node's row and the ledger row in a transaction. *)
PostOk ==
  /\ epc = "post" /\ parseSentinelBatch(batch)
  /\ Store(batch)
  /\ FlushReturns
  /\ stage' = IF stage = "last" THEN "done" ELSE stage
  /\ UNCHANGED <<failPolicy, readerVars, window, failOpenCount, lost,
                 clockVars>>

(* An error or a status other than 200; the batch may have been stored.    *)
PostFails ==
  /\ epc = "post"
  /\ \/ UNCHANGED <<storeVars, lost>>
     \/ parseSentinelBatch(batch) /\ Store(batch) /\ lost' = TRUE
  /\ epc' = "restore"
  /\ UNCHANGED <<failPolicy, readerVars, window, failOpenCount, failOpen, batch, flushes,
                 stage, clockVars>>

(* Mutant of restore: the window keeps its new start.                      *)
restoreFrom ==
  /\ epc = "restore"
  /\ window' = [from |-> window.from,
                counts |-> window.counts + batch.counts,
                held |-> window.held + batch.held,
                dropped |-> window.dropped + batch.dropped]
  /\ epc' = "restoreFailOpen"
  /\ UNCHANGED <<failPolicy, readerVars, failOpenCount, failOpen, batch, flushes, stage, storeVars, lost,
                 clockVars>>

(* Mutant of restore: the window gets back the start of the failed batch.  *)
restoreLate ==
  /\ epc = "restore"
  /\ window' = [from |-> batch.from,
                counts |-> window.counts + batch.counts,
                held |-> window.held + batch.held,
                dropped |-> window.dropped + batch.dropped]
  /\ epc' = "restoreFailOpen"
  /\ UNCHANGED <<failPolicy, readerVars, failOpenCount, failOpen, batch, flushes, stage,
                 storeVars, lost, clockVars>>

(* The counters go back on top of what was counted since.                  *)
restore ==
  /\ epc = "restore"
  /\ window' = [from |-> IF window.from > batch.from THEN batch.from ELSE window.from,
                counts |-> window.counts + batch.counts,
                held |-> window.held + batch.held,
                dropped |-> window.dropped + batch.dropped]
  /\ epc' = "restoreFailOpen"
  /\ UNCHANGED <<failPolicy, readerVars, failOpenCount, failOpen, batch, flushes, stage, storeVars, lost,
                 clockVars>>

RestoreFailOpen ==
  /\ epc = "restoreFailOpen"
  /\ failOpenCount' = failOpenCount + failOpen
  /\ FlushReturns
  /\ stage' = IF stage = "last" THEN "unreported" ELSE stage
  /\ UNCHANGED <<failPolicy, readerVars, window, storeVars, lost,
                 clockVars>>

Ended ==
  /\ stage \in {"done", "unreported", "dead"}
  /\ UNCHANGED vars

Next ==
  \/ ReadLine \/ HandleHolds \/ applyFailPolicy \/ add \/ Write \/ WriteFails
  \/ EndOfInput \/ StoreSettings
  \/ Tick \/ LastFlush \/ SwapFailOpen \/ take \/ PostOk \/ PostFails \/ SetBack
  \/ restore \/ RestoreFailOpen
  \/ Ended

Spec == Init /\ [][Next]_vars

-----------------------------------------------------------------------------
TypeOK ==
  /\ failPolicy \in FailPolicies /\ st \in FailPolicies
  /\ rpc \in {"read", "handle", "record", "write", "end"}
  /\ result \in Tally /\ out \in Tally
  /\ found \in {0, 1} /\ lines \in 0..MaxLines
  /\ window \in Window /\ failOpenCount \in Nat
  /\ epc \in {"idle", "swap", "take", "post", "restore", "restoreFailOpen"}
  /\ failOpen \in Nat /\ batch \in Batch /\ flushes \in 0..MaxFlushes
  /\ clock \in Nat /\ setBacks \in 0..MaxSetBacks /\ jumped \in BOOLEAN
  /\ stage \in {"running", "stopping", "last", "done", "unreported", "dead"}
  /\ ledger \in Seq(Batch) /\ stored \in Tally /\ lost \in BOOLEAN

(* What the node has counted, and where it is: with the control plane,     *)
(* taken by a flush that has not ended, or still in the node.              *)
Taken ==
  [counts  |-> IF epc \in {"post", "restore"} THEN batch.counts ELSE 0,
   held    |-> IF epc \in {"post", "restore"} THEN batch.held ELSE 0,
   dropped |-> IF epc \in {"post", "restore"} THEN batch.dropped ELSE 0,
   open    |-> IF epc \in {"take", "post", "restore", "restoreFailOpen"} THEN failOpen ELSE 0]
InNode == [counts |-> window.counts, held |-> window.held, dropped |-> window.dropped,
           open |-> failOpenCount]
Reported == Plus(stored, Plus(Taken, InNode))

(* What the output says: the lines written, and the one that is counted    *)
(* and about to be. A line written unmasked is counted before the others.  *)
Shown ==
  [k \in DOMAIN out |->
     out[k] + IF rpc = "write" \/ (rpc = "record" /\ k = "open") THEN result[k] ELSE 0]

(* The counters add up: what the control plane has, what a flush has taken *)
(* and what the node still holds is what the lines written amount to, for  *)
(* every interleaving of the reader with flushes that succeed or fail. A   *)
(* batch that was stored without an answer is counted again, but no line   *)
(* is ever missing, and a node whose last flush was answered has nothing   *)
(* left to report.                                                         *)
CountsAddUp ==
  /\ stage # "dead" =>
       IF lost THEN \A k \in DOMAIN out : Reported[k] >= Shown[k] ELSE Reported = Shown
  /\ stage = "done" => Reported = stored

(* The windows of the stored batches begin at the node's start and leave   *)
(* no gap, also after batches that failed and when the clock is set back.  *)
WindowsLeaveNoGap ==
  \A i \in 1..Len(ledger) :
    /\ ledger[i].from <= IF i = 1 THEN StartTime ELSE ledger[i - 1].to
    /\ ledger[i].from <= ledger[i].to

(* A clock that is set back costs the node one flush: parseSentinelBatch   *)
(* refuses a batch that ends before it begins only if the clock was set    *)
(* back after the take before this one, because restore keeps the earlier  *)
(* of the two starts.                                                      *)
RefusedOnce == [][take /\ ~parseSentinelBatch(batch') => jumped]_vars
=============================================================================
