--------------------------- MODULE NodeEventsProofs ---------------------------
(***************************************************************************)
(* What NodeEvents promises about the windows of a node's batches, for any *)
(* number of lines, flushes and changes of the clock. That what is stored  *)
(* leaves no gap is not inductive: the start of the window that is open,   *)
(* and of a batch that is on its way, must be known not to lie after the   *)
(* end of the last stored one, and a batch whose answer is lost is both.   *)
(***************************************************************************)
EXTENDS NodeEvents, TLAPS

USE NodeAssumption DEF storeVars

(* Where the windows stored so far end.                                    *)
LastTo == IF Len(ledger) = 0 THEN StartTime ELSE ledger[Len(ledger)].to

Types ==
  /\ window \in Window /\ batch \in Batch /\ ledger \in Seq(Batch)
  /\ clock \in Nat /\ failOpen \in Nat /\ failOpenCount \in Nat
  /\ result \in Tally /\ found \in {0, 1}

(* The window, in a node that has not died: open, taken, or given back.    *)
Contiguous ==
  /\ stage # "dead" /\ epc \in {"idle", "swap", "take", "restoreFailOpen"} =>
       window.from <= LastTo
  /\ epc = "post" => window.from = batch.to
  /\ epc \in {"post", "restore"} => batch.from <= LastTo

Quiet == stage = "dead" => epc = "idle" /\ rpc = "end"

WindowInv ==
  /\ Types /\ Contiguous /\ Quiet /\ WindowsLeaveNoGap
  /\ ~jumped => window.from <= clock

(* A stored batch that begins within what is stored leaves no gap.         *)
LEMMA AppendKeeps ==
  ASSUME WindowInv, batch.from <= LastTo, parseSentinelBatch(batch),
         ledger' = Append(ledger, batch)
  PROVE  ledger' \in Seq(Batch) /\ WindowsLeaveNoGap' /\ LastTo' = batch.to
  <1>1. /\ ledger \in Seq(Batch) /\ batch \in Batch /\ WindowsLeaveNoGap
        /\ batch.from <= batch.to
    BY DEF WindowInv, Types, parseSentinelBatch
  <1>2. /\ ledger' \in Seq(Batch) /\ Len(ledger) \in Nat /\ Len(ledger') = Len(ledger) + 1
        /\ ledger'[Len(ledger) + 1] = batch
        /\ \A i \in 1..Len(ledger) : ledger'[i] = ledger[i]
    BY <1>1
  <1>3. LastTo' = batch.to
    BY <1>2 DEF LastTo
  <1>4. ASSUME NEW i \in 1..Len(ledger')
        PROVE  /\ ledger'[i].from <= IF i = 1 THEN StartTime ELSE ledger'[i - 1].to
               /\ ledger'[i].from <= ledger'[i].to
    <2>1. CASE i \in 1..Len(ledger)
      <3>1. i # 1 => i - 1 \in 1..Len(ledger)
        BY <1>2, <2>1
      <3> QED
        BY <1>1, <1>2, <2>1, <3>1 DEF WindowsLeaveNoGap
    <2>2. CASE i = Len(ledger) + 1
      <3>1. i # 1 => i - 1 = Len(ledger) /\ i - 1 \in 1..Len(ledger)
        BY <1>2, <2>2
      <3> QED
        BY <1>1, <1>2, <2>2, <3>1 DEF LastTo
    <2> QED
      BY <1>2, <2>1, <2>2
  <1> QED
    BY <1>2, <1>3, <1>4 DEF WindowsLeaveNoGap

(* The reader, the settings and the end of the input: the window keeps its *)
(* start.                                                                  *)
LEMMA ReaderKeeps ==
  ASSUME WindowInv,
         \/ ReadLine \/ HandleHolds \/ applyFailPolicy \/ add \/ Write \/ WriteFails
         \/ EndOfInput \/ StoreSettings
  PROVE  WindowInv'
  <1>1. /\ UNCHANGED <<batch, ledger, clock, jumped, failOpen>>
        /\ stage' # "dead" => UNCHANGED epc
        /\ stage' = "dead" => stage = "dead" \/ (epc' = "idle" /\ rpc' = "end")
    BY DEF ReadLine, HandleHolds, applyFailPolicy, add, Write, WriteFails, EndOfInput,
           StoreSettings, flushVars, clockVars, readerVars
  <1>2. rpc = "end" /\ stage = "dead" => UNCHANGED <<rpc, epc, stage>>
    BY DEF ReadLine, HandleHolds, applyFailPolicy, add, Write, WriteFails, EndOfInput,
           StoreSettings, flushVars, readerVars
  <1>3. stage = "dead" => UNCHANGED <<epc, rpc>>
    BY <1>2 DEF WindowInv, Quiet
  <1>4. /\ result \in Tally /\ Nothing \in Tally /\ Held \in Tally /\ Dropped \in Tally
        /\ Unmasked \in Tally
        /\ \A n \in {0, 1} : Masked(n) \in Tally
    <2>1. result \in Tally
      BY DEF WindowInv, Types
    <2>2. Nothing \in Tally
      BY DEF Tally, Nothing
    <2>3. Held \in Tally /\ Dropped \in Tally /\ Unmasked \in Tally
      BY DEF Tally, Nothing, Held, Dropped, Unmasked
    <2>4. \A n \in {0, 1} : Masked(n) \in Tally
      BY DEF Tally, Nothing, Masked
    <2> QED
      BY <2>1, <2>2, <2>3, <2>4
  <1>5. result' \in Tally /\ found' \in {0, 1} /\ failOpenCount' \in Nat
    BY <1>4 DEF ReadLine, HandleHolds, applyFailPolicy, add, Write, WriteFails, EndOfInput,
                StoreSettings, readerVars, WindowInv, Types
  <1>6. window' \in Window /\ window'.from = window.from
    <2>1. CASE add
      <3>1. window \in Window /\ result.counts \in Nat /\ result.held \in Nat
            /\ result.dropped \in Nat
        BY <1>4 DEF WindowInv, Types, Tally
      <3>2. window' = [from |-> window.from, counts |-> window.counts + result.counts,
                       held |-> window.held + result.held,
                       dropped |-> window.dropped + result.dropped]
        BY <2>1, <3>1 DEF add, Window
      <3> QED
        BY <3>1, <3>2 DEF Window
    <2>2. CASE UNCHANGED window
      BY <2>2 DEF WindowInv, Types
    <2> QED
      BY <2>1, <2>2 DEF ReadLine, HandleHolds, applyFailPolicy, Write, WriteFails, EndOfInput,
                        StoreSettings
  <1>7. Types' /\ WindowsLeaveNoGap' /\ LastTo' = LastTo
    BY <1>1, <1>5, <1>6 DEF WindowInv, Types, WindowsLeaveNoGap, LastTo
  <1>8. stage' # "dead" => stage # "dead"
    BY DEF ReadLine, HandleHolds, applyFailPolicy, add, Write, WriteFails, EndOfInput,
           StoreSettings
  <1>9. stage' = "dead" => epc' = "idle" /\ rpc' = "end"
    BY <1>1, <1>3 DEF WindowInv, Quiet
  <1>10. Contiguous' /\ Quiet'
    BY <1>1, <1>6, <1>7, <1>8, <1>9 DEF WindowInv, Contiguous, Quiet
  <1> QED
    BY <1>1, <1>6, <1>7, <1>10 DEF WindowInv

(* A flush: take closes the window, restore gives it its earlier start     *)
(* back, and a clock that is set back is remembered until the next take.   *)
LEMMA FlushKeeps ==
  ASSUME WindowInv,
         \/ Tick \/ LastFlush \/ SwapFailOpen \/ take \/ PostOk \/ PostFails \/ SetBack
         \/ restore \/ RestoreFailOpen
  PROVE  WindowInv'
  <1> USE DEF WindowInv
  <1>1. /\ Types /\ Contiguous /\ Quiet /\ WindowsLeaveNoGap
        /\ window.from \in Nat /\ batch.from \in Nat /\ batch.to \in Nat /\ stage # "dead"
    BY DEF Types, Window, Batch, Quiet, Tick, LastFlush, SwapFailOpen, take, PostOk, PostFails,
           SetBack, restore, RestoreFailOpen
  <1>2. CASE Tick \/ LastFlush \/ SwapFailOpen
    <2>1. /\ UNCHANGED <<window, batch, ledger, clock, jumped, result, found>>
          /\ failOpen' \in Nat /\ failOpenCount' \in Nat
          /\ epc \in {"idle", "swap"} /\ epc' \in {"swap", "take"} /\ stage' # "dead"
      BY <1>1, <1>2 DEF Tick, LastFlush, SwapFailOpen, Types, clockVars, readerVars
    <2> QED
      BY <1>1, <2>1 DEF Types, Contiguous, Quiet, LastTo, WindowsLeaveNoGap
  <1>3. CASE take
    <2>1. /\ UNCHANGED <<ledger, result, found, failOpen, failOpenCount, stage>>
          /\ clock' = clock + 1 /\ ~jumped' /\ epc = "take" /\ epc' = "post"
          /\ batch' = [from |-> window.from, to |-> clock', counts |-> window.counts,
                       held |-> window.held, dropped |-> window.dropped, failOpen |-> failOpen]
          /\ window' = [from |-> clock', counts |-> 0, held |-> 0, dropped |-> 0]
      BY <1>3 DEF take, readerVars
    <2>2. Types'
      BY <1>1, <2>1 DEF Types, Window, Batch
    <2>3. /\ batch'.from = window.from /\ batch'.to = clock' /\ window'.from = clock'
          /\ clock' \in Nat /\ window.from <= LastTo
      BY <1>1, <2>1 DEF Types, Contiguous
    <2> QED
      BY <1>1, <2>1, <2>2, <2>3 DEF Contiguous, Quiet, LastTo, WindowsLeaveNoGap
  <1>4. CASE PostOk
    <2>1. /\ UNCHANGED <<window, result, found, failOpenCount, clock, jumped>>
          /\ epc = "post" /\ epc' = "idle" /\ parseSentinelBatch(batch)
          /\ ledger' = Append(ledger, batch) /\ failOpen' = 0 /\ batch' = NoBatch
          /\ stage' # "dead"
      BY <1>1, <1>4 DEF PostOk, Store, FlushReturns, readerVars, clockVars
    <2>2. ledger' \in Seq(Batch) /\ WindowsLeaveNoGap' /\ LastTo' = batch.to
      BY <1>1, <2>1, AppendKeeps DEF Contiguous
    <2>3. NoBatch \in Batch
      BY DEF NoBatch, Batch
    <2>4. Contiguous'
      BY <1>1, <2>1, <2>2 DEF Contiguous
    <2> QED
      BY <1>1, <2>1, <2>2, <2>3, <2>4 DEF Types, Quiet
  <1>5. CASE PostFails
    <2>1. /\ UNCHANGED <<window, result, found, failOpen, failOpenCount, clock, jumped, batch>>
          /\ epc = "post" /\ epc' = "restore" /\ UNCHANGED stage
          /\ \/ UNCHANGED ledger
             \/ parseSentinelBatch(batch) /\ ledger' = Append(ledger, batch)
      BY <1>5 DEF PostFails, Store, readerVars, clockVars
    <2>2. /\ ledger' \in Seq(Batch) /\ WindowsLeaveNoGap'
          /\ batch.from <= LastTo'
      <3>1. CASE UNCHANGED ledger
        BY <1>1, <2>1, <3>1 DEF Types, Contiguous, WindowsLeaveNoGap, LastTo
      <3>2. CASE parseSentinelBatch(batch) /\ ledger' = Append(ledger, batch)
        BY <1>1, <2>1, <3>2, AppendKeeps DEF Contiguous, parseSentinelBatch
      <3> QED
        BY <2>1, <3>1, <3>2
    <2> QED
      BY <1>1, <2>1, <2>2 DEF Types, Contiguous, Quiet
  <1>6. CASE SetBack
    <2>1. /\ UNCHANGED <<window, batch, ledger, result, found, failOpen, failOpenCount, epc, stage>>
          /\ jumped'
      BY <1>6 DEF SetBack, readerVars, flushVars
    <2>2. clock' \in Nat
      BY <1>1, <1>6 DEF SetBack, Types
    <2> QED
      BY <1>1, <2>1, <2>2 DEF Types, Contiguous, Quiet, LastTo, WindowsLeaveNoGap
  <1>7. CASE restore
    <2>1. /\ UNCHANGED <<batch, ledger, result, found, failOpen, failOpenCount, clock, jumped, stage>>
          /\ epc = "restore" /\ epc' = "restoreFailOpen"
      BY <1>7 DEF restore, readerVars, clockVars
    <2>2. /\ window' \in Window /\ window'.from <= batch.from /\ window'.from <= window.from
          /\ window'.from \in Nat
      BY <1>1, <1>7 DEF restore, Types, Window, Batch
    <2>3. batch.from <= LastTo /\ LastTo \in Nat
      <3>1. Len(ledger) \in Nat /\ \A i \in 1..Len(ledger) : ledger[i].to \in Nat
        <4>1. Len(ledger) \in Nat /\ \A i \in 1..Len(ledger) : ledger[i] \in Batch
          BY <1>1 DEF Types
        <4>2. \A b \in Batch : b.to \in Nat
          BY DEF Batch
        <4> QED
          BY <4>1, <4>2
      <3>2. LastTo \in Nat
        BY <3>1 DEF LastTo
      <3> QED
        BY <1>1, <2>1, <3>2 DEF Contiguous
    <2>4. window'.from <= LastTo
      BY <1>1, <2>2, <2>3
    <2>5. ~jumped' => window'.from <= clock'
      BY <1>1, <2>1, <2>2 DEF Types
    <2> QED
      BY <1>1, <2>1, <2>2, <2>4, <2>5 DEF Types, Contiguous, Quiet, LastTo, WindowsLeaveNoGap
  <1>8. CASE RestoreFailOpen
    <2>1. /\ UNCHANGED <<window, ledger, result, found, clock, jumped>>
          /\ epc = "restoreFailOpen" /\ epc' = "idle" /\ stage' # "dead"
          /\ failOpenCount' \in Nat /\ failOpen' = 0 /\ batch' = NoBatch
      BY <1>1, <1>8 DEF RestoreFailOpen, FlushReturns, Types, readerVars, clockVars
    <2>2. NoBatch \in Batch
      BY DEF NoBatch, Batch
    <2> QED
      BY <1>1, <2>1, <2>2 DEF Types, Contiguous, Quiet, LastTo, WindowsLeaveNoGap
  <1> QED
    BY <1>2, <1>3, <1>4, <1>5, <1>6, <1>7, <1>8

(* WindowInv holds throughout.                                             *)
THEOREM WindowInvariant == Spec => []WindowInv
  <1>1. Init => WindowInv
    BY DEF Init, WindowInv, Types, Contiguous, Quiet, WindowsLeaveNoGap, LastTo, Window, Batch,
           NoBatch, Tally, Nothing
  <1>2. WindowInv /\ [Next]_vars => WindowInv'
    <2> SUFFICES ASSUME WindowInv, [Next]_vars PROVE WindowInv'
      OBVIOUS
    <2>1. CASE UNCHANGED vars
      BY <2>1 DEF vars, readerVars, flushVars, clockVars, WindowInv, Types, Contiguous, Quiet,
                  WindowsLeaveNoGap, LastTo
    <2> QED
      BY <2>1, ReaderKeeps, FlushKeeps DEF Next, Ended
  <1> QED
    BY <1>1, <1>2, PTL DEF Spec

(* The windows the control plane stores leave no gap, whatever posts fail, *)
(* whatever answers are lost and however the clock is set.                 *)
THEOREM NoGaps == Spec => []WindowsLeaveNoGap
  <1>1. WindowInv => WindowsLeaveNoGap
    BY DEF WindowInv
  <1> QED
    BY <1>1, WindowInvariant, PTL

(* parseSentinelBatch refuses a batch only if the clock was set back since *)
(* the take before.                                                        *)
THEOREM RefusedOnlyAfterJump == Spec => RefusedOnce
  <1>1. WindowInv /\ [Next]_vars => [take /\ ~parseSentinelBatch(batch') => jumped]_vars
    <2> SUFFICES ASSUME WindowInv, take, ~jumped PROVE parseSentinelBatch(batch')
      OBVIOUS
    <2>1. /\ window.from <= clock /\ window \in Window /\ clock \in Nat /\ failOpen \in Nat
      BY DEF WindowInv, Types
    <2>2. batch' = [from |-> window.from, to |-> clock + 1, counts |-> window.counts,
                    held |-> window.held, dropped |-> window.dropped, failOpen |-> failOpen]
      BY DEF take
    <2> QED
      BY <2>1, <2>2 DEF parseSentinelBatch, Window
  <1> QED
    BY <1>1, WindowInvariant, PTL DEF Spec, RefusedOnce

-----------------------------------------------------------------------------
(* The counters. Each of the four is followed on its own: what is stored,  *)
(* on its way and in the node, against what the output shows. The end of   *)
(* the process needs to know that the reader has ended when the last flush *)
(* begins, so that nothing is counted behind it.                           *)

(* A covers b, and exceeds it only after an answer was lost.               *)
Covers(a, b) == a >= b /\ (~lost => a = b)

OnItsWay(n) == IF epc \in {"post", "restore"} THEN n ELSE 0
SwappedOut == IF epc \in {"take", "post", "restore", "restoreFailOpen"} THEN failOpen ELSE 0
ToWrite(n) == IF rpc = "write" THEN n ELSE 0
ToWriteUnmasked == IF rpc \in {"record", "write"} THEN result.open ELSE 0

Balance ==
  /\ Covers(stored.counts + OnItsWay(batch.counts) + window.counts,
            out.counts + ToWrite(result.counts))
  /\ Covers(stored.held + OnItsWay(batch.held) + window.held,
            out.held + ToWrite(result.held))
  /\ Covers(stored.dropped + OnItsWay(batch.dropped) + window.dropped,
            out.dropped + ToWrite(result.dropped))
  /\ Covers(stored.open + SwappedOut + failOpenCount, out.open + ToWriteUnmasked)

NoneCounted == window.counts = 0 /\ window.held = 0 /\ window.dropped = 0

AtTheEnd ==
  /\ stage \in {"stopping", "last", "done", "unreported"} => rpc = "end"
  /\ stage = "last" /\ epc \in {"take", "post"} => failOpenCount = 0
  /\ stage = "last" /\ epc = "post" => NoneCounted
  /\ stage = "done" => epc = "idle" /\ failOpenCount = 0 /\ NoneCounted

CountInv ==
  /\ stored \in Tally /\ out \in Tally
  /\ epc \in {"post", "restore"} => batch.failOpen = failOpen
  /\ AtTheEnd
  /\ stage # "dead" => Balance

(* Every count is a natural number.                                        *)
LEMMA CountTypes ==
  ASSUME WindowInv, CountInv
  PROVE  /\ stored.counts \in Nat /\ stored.held \in Nat /\ stored.dropped \in Nat
         /\ stored.open \in Nat
         /\ out.counts \in Nat /\ out.held \in Nat /\ out.dropped \in Nat /\ out.open \in Nat
         /\ result.counts \in Nat /\ result.held \in Nat /\ result.dropped \in Nat
         /\ result.open \in Nat
         /\ window.counts \in Nat /\ window.held \in Nat /\ window.dropped \in Nat
         /\ batch.counts \in Nat /\ batch.held \in Nat /\ batch.dropped \in Nat
         /\ failOpen \in Nat /\ failOpenCount \in Nat
  <1>1. stored \in Tally /\ out \in Tally /\ result \in Tally /\ window \in Window
        /\ batch \in Batch /\ failOpen \in Nat /\ failOpenCount \in Nat
    BY DEF WindowInv, Types, CountInv
  <1>2. \A t \in Tally : t.counts \in Nat /\ t.held \in Nat /\ t.dropped \in Nat /\ t.open \in Nat
    BY DEF Tally
  <1>3. \A v \in Window : v.counts \in Nat /\ v.held \in Nat /\ v.dropped \in Nat
    BY DEF Window
  <1>4. \A b \in Batch : b.counts \in Nat /\ b.held \in Nat /\ b.dropped \in Nat
    BY DEF Batch
  <1> QED
    BY <1>1, <1>2, <1>3, <1>4

(* A line is counted before it is written, an unmasked one when the fail   *)
(* policy is applied and any other by add.                                 *)
LEMMA ReaderCounts ==
  ASSUME WindowInv, CountInv,
         ReadLine \/ HandleHolds \/ applyFailPolicy \/ add \/ Write
  PROVE  CountInv'
  <1>1. /\ UNCHANGED <<stored, epc, failOpen, batch, stage, lost>>
        /\ rpc \in {"read", "handle", "record", "write"}
    BY DEF ReadLine, HandleHolds, applyFailPolicy, add, Write, flushVars
  <1>2. /\ stage \notin {"stopping", "last", "done", "unreported", "dead"}
        /\ stored \in Tally /\ out \in Tally /\ Balance
        /\ epc \in {"post", "restore"} => batch.failOpen = failOpen
    BY <1>1 DEF CountInv, AtTheEnd, WindowInv, Quiet
  <1>3. AtTheEnd'
    BY <1>1, <1>2 DEF AtTheEnd
  <1>4. CASE ReadLine \/ HandleHolds
    <2>1. /\ UNCHANGED <<out, window, failOpenCount>> /\ rpc \in {"read", "handle"}
          /\ rpc' = "handle" \/ (rpc' = "record" /\ result'.open = 0)
      BY <1>4 DEF ReadLine, HandleHolds, Masked, Held, Nothing
    <2> QED
      BY <1>1, <1>2, <1>3, <2>1, CountTypes
         DEF CountInv, Balance, Covers, OnItsWay, SwappedOut, ToWrite, ToWriteUnmasked
  <1>5. CASE applyFailPolicy
    <2>1. /\ UNCHANGED <<out, window>> /\ rpc = "handle" /\ rpc' = "record"
          /\ failOpenCount' = failOpenCount + result'.open
      BY <1>5, CountTypes DEF applyFailPolicy, Masked, Unmasked, Dropped, Nothing
    <2>2. result'.open \in {0, 1}
      BY <1>5 DEF applyFailPolicy, Masked, Unmasked, Dropped, Nothing
    <2> QED
      BY <1>1, <1>2, <1>3, <2>1, <2>2, CountTypes
         DEF CountInv, Balance, Covers, OnItsWay, SwappedOut, ToWrite, ToWriteUnmasked
  <1>6. CASE add
    <2>1. /\ UNCHANGED <<out, failOpenCount, result>> /\ rpc = "record" /\ rpc' = "write"
          /\ window' = [window EXCEPT !.counts = @ + result.counts,
                                      !.held = @ + result.held,
                                      !.dropped = @ + result.dropped]
      BY <1>6 DEF add
    <2>2. /\ window'.counts = window.counts + result.counts
          /\ window'.held = window.held + result.held
          /\ window'.dropped = window.dropped + result.dropped
      BY <2>1 DEF WindowInv, Types, Window
    <2> QED
      BY <1>1, <1>2, <1>3, <2>1, <2>2, CountTypes
         DEF CountInv, Balance, Covers, OnItsWay, SwappedOut, ToWrite, ToWriteUnmasked
  <1>7. CASE Write
    <2>1. /\ UNCHANGED <<window, failOpenCount>> /\ rpc = "write" /\ rpc' = "read"
          /\ out' = Plus(out, result)
      BY <1>7 DEF Write
    <2>2. /\ out' \in Tally
          /\ out'.counts = out.counts + result.counts /\ out'.held = out.held + result.held
          /\ out'.dropped = out.dropped + result.dropped /\ out'.open = out.open + result.open
      <3>1. out' = [counts |-> out.counts + result.counts, held |-> out.held + result.held,
                    dropped |-> out.dropped + result.dropped, open |-> out.open + result.open]
        BY <1>2, <2>1 DEF Plus, Tally
      <3> QED
        BY <3>1, CountTypes DEF Tally
    <2> QED
      BY <1>1, <1>2, <1>3, <2>1, <2>2, CountTypes
         DEF CountInv, Balance, Covers, OnItsWay, SwappedOut, ToWrite, ToWriteUnmasked
  <1> QED
    BY <1>4, <1>5, <1>6, <1>7

(* The end of the input, a failed write, the settings and the clock leave  *)
(* the counters as they are.                                               *)
LEMMA EndCounts ==
  ASSUME WindowInv, CountInv, WriteFails \/ EndOfInput \/ StoreSettings \/ SetBack
  PROVE  CountInv'
  <1>1. UNCHANGED <<stored, out, failOpen, batch, window, failOpenCount, result, lost>>
    BY DEF WriteFails, EndOfInput, StoreSettings, SetBack, flushVars, readerVars
  <1>2. CASE WriteFails
    BY <1>1, <1>2 DEF WriteFails, CountInv, AtTheEnd
  <1>3. CASE EndOfInput
    <2>1. /\ rpc = "read" /\ rpc' = "end" /\ stage = "running" /\ stage' = "stopping"
          /\ epc' = epc
      BY <1>3 DEF EndOfInput, flushVars
    <2> QED
      BY <1>1, <2>1 DEF CountInv, AtTheEnd, Balance, Covers, OnItsWay, SwappedOut, ToWrite,
                        ToWriteUnmasked
  <1>4. CASE StoreSettings \/ SetBack
    <2>1. UNCHANGED <<rpc, epc, stage>>
      BY <1>4 DEF StoreSettings, SetBack, flushVars, readerVars
    <2> QED
      BY <1>1, <2>1 DEF CountInv, AtTheEnd, NoneCounted, Balance, Covers, OnItsWay, SwappedOut,
                        ToWrite, ToWriteUnmasked
  <1> QED
    BY <1>2, <1>3, <1>4

(* A flush moves the counts from the node to its batch, and from there to  *)
(* the control plane, back to the node, or to both.                        *)
LEMMA FlushCounts ==
  ASSUME WindowInv, CountInv,
         \/ Tick \/ LastFlush \/ SwapFailOpen \/ take \/ PostOk \/ PostFails
         \/ restore \/ RestoreFailOpen
  PROVE  CountInv'
  <1>1. /\ UNCHANGED <<rpc, result, out>>
        /\ stage' \in {stage, "last", "done", "unreported"}
        /\ stage # stage' => stage \in {"stopping", "last"}
    BY DEF Tick, LastFlush, SwapFailOpen, take, PostOk, PostFails, restore, RestoreFailOpen,
           readerVars
  <1>2. epc = "idle" => stage \notin {"done", "dead"}
    BY DEF Tick, LastFlush, SwapFailOpen, take, PostOk, PostFails, restore, RestoreFailOpen
  <1>3. /\ stage \notin {"done", "dead"} /\ stage' # "dead"
        /\ stored \in Tally /\ out \in Tally /\ Balance /\ AtTheEnd
        /\ epc \in {"post", "restore"} => batch.failOpen = failOpen
    BY <1>1, <1>2 DEF CountInv, AtTheEnd, WindowInv, Quiet
  <1>4. stage' \in {"stopping", "last", "done", "unreported"} => rpc' = "end"
    BY <1>1, <1>3 DEF AtTheEnd
  <1>5. CASE Tick \/ LastFlush
    <2>1. /\ UNCHANGED <<stored, lost, window, failOpenCount, failOpen, batch>>
          /\ epc = "idle" /\ epc' = "swap" /\ stage' # "done"
      BY <1>3, <1>5 DEF Tick, LastFlush
    <2>2. AtTheEnd'
      BY <1>3, <1>4, <2>1 DEF AtTheEnd
    <2> QED
      BY <1>1, <1>3, <2>1, <2>2
         DEF CountInv, Balance, Covers, OnItsWay, SwappedOut, ToWrite, ToWriteUnmasked
  <1>6. CASE SwapFailOpen
    <2>1. /\ UNCHANGED <<stored, lost, window, batch, stage>>
          /\ epc = "swap" /\ epc' = "take" /\ failOpen' = failOpenCount /\ failOpenCount' = 0
      BY <1>6 DEF SwapFailOpen
    <2>2. AtTheEnd'
      BY <1>3, <1>4, <2>1 DEF AtTheEnd
    <2> QED
      BY <1>1, <1>3, <2>1, <2>2, CountTypes
         DEF CountInv, Balance, Covers, OnItsWay, SwappedOut, ToWrite, ToWriteUnmasked
  <1>7. CASE take
    <2>1. /\ UNCHANGED <<stored, lost, failOpenCount, failOpen, stage>>
          /\ epc = "take" /\ epc' = "post"
          /\ batch' = [from |-> window.from, to |-> clock', counts |-> window.counts,
                       held |-> window.held, dropped |-> window.dropped, failOpen |-> failOpen]
          /\ window' = [from |-> clock', counts |-> 0, held |-> 0, dropped |-> 0]
      BY <1>7 DEF take
    <2>2. /\ batch'.counts = window.counts /\ batch'.held = window.held
          /\ batch'.dropped = window.dropped /\ batch'.failOpen = failOpen'
          /\ window'.counts = 0 /\ window'.held = 0 /\ window'.dropped = 0
      BY <2>1
    <2>3. AtTheEnd'
      BY <1>3, <1>4, <2>1, <2>2 DEF AtTheEnd, NoneCounted
    <2>4. Balance'
      BY <1>1, <1>3, <2>1, <2>2, CountTypes
         DEF Balance, Covers, OnItsWay, SwappedOut, ToWrite, ToWriteUnmasked
    <2> QED
      BY <1>1, <1>3, <2>1, <2>2, <2>3, <2>4 DEF CountInv
  <1>8. ASSUME Store(batch), epc = "post"
        PROVE  /\ stored' \in Tally
               /\ stored'.counts = stored.counts + batch.counts
               /\ stored'.held = stored.held + batch.held
               /\ stored'.dropped = stored.dropped + batch.dropped
               /\ stored'.open = stored.open + failOpen
    <2>1. stored' = [counts |-> stored.counts + batch.counts, held |-> stored.held + batch.held,
                     dropped |-> stored.dropped + batch.dropped, open |-> stored.open + failOpen]
      BY <1>3, <1>8 DEF Store
    <2> QED
      BY <2>1, CountTypes DEF Tally
  <1>9. CASE PostOk
    <2>1. /\ UNCHANGED <<window, failOpenCount, lost>> /\ Store(batch)
          /\ epc = "post" /\ epc' = "idle"
          /\ stage' = IF stage = "last" THEN "done" ELSE stage
      BY <1>9 DEF PostOk, FlushReturns
    <2>2. AtTheEnd'
      BY <1>3, <1>4, <2>1 DEF AtTheEnd, NoneCounted
    <2>3. Balance'
      BY <1>1, <1>3, <1>8, <2>1, CountTypes
         DEF Balance, Covers, OnItsWay, SwappedOut, ToWrite, ToWriteUnmasked
    <2> QED
      BY <1>1, <1>3, <1>8, <2>1, <2>2, <2>3 DEF CountInv
  <1>10. CASE PostFails
    <2>1. /\ UNCHANGED <<window, failOpenCount, failOpen, batch, stage>>
          /\ epc = "post" /\ epc' = "restore"
          /\ UNCHANGED <<stored, lost>> \/ (Store(batch) /\ lost')
      BY <1>10 DEF PostFails
    <2>2. AtTheEnd'
      BY <1>3, <1>4, <2>1 DEF AtTheEnd, NoneCounted
    <2>3. CASE UNCHANGED <<stored, lost>>
      BY <1>1, <1>3, <2>1, <2>2, <2>3
         DEF CountInv, Balance, Covers, OnItsWay, SwappedOut, ToWrite, ToWriteUnmasked
    <2>4. CASE Store(batch) /\ lost'
      <3>1. Balance'
        BY <1>1, <1>3, <1>8, <2>1, <2>4, CountTypes
           DEF Balance, Covers, OnItsWay, SwappedOut, ToWrite, ToWriteUnmasked
      <3> QED
        BY <1>1, <1>3, <1>8, <2>1, <2>2, <2>4, <3>1 DEF CountInv
    <2> QED
      BY <2>1, <2>3, <2>4
  <1>11. CASE restore
    <2>1. /\ UNCHANGED <<stored, lost, failOpenCount, failOpen, batch, stage>>
          /\ epc = "restore" /\ epc' = "restoreFailOpen"
          /\ window'.counts = window.counts + batch.counts
          /\ window'.held = window.held + batch.held
          /\ window'.dropped = window.dropped + batch.dropped
      BY <1>11 DEF restore
    <2>2. AtTheEnd'
      BY <1>3, <1>4, <2>1 DEF AtTheEnd
    <2>3. Balance'
      BY <1>1, <1>3, <2>1, CountTypes
         DEF Balance, Covers, OnItsWay, SwappedOut, ToWrite, ToWriteUnmasked
    <2> QED
      BY <1>1, <1>3, <2>1, <2>2, <2>3 DEF CountInv
  <1>12. CASE RestoreFailOpen
    <2>1. /\ UNCHANGED <<stored, lost, window>>
          /\ epc = "restoreFailOpen" /\ epc' = "idle" /\ failOpenCount' = failOpenCount + failOpen
          /\ stage' = IF stage = "last" THEN "unreported" ELSE stage
      BY <1>12 DEF RestoreFailOpen, FlushReturns
    <2>2. AtTheEnd'
      BY <1>3, <1>4, <2>1 DEF AtTheEnd
    <2>3. Balance'
      BY <1>1, <1>3, <2>1, CountTypes
         DEF Balance, Covers, OnItsWay, SwappedOut, ToWrite, ToWriteUnmasked
    <2> QED
      BY <1>1, <1>3, <2>1, <2>2, <2>3 DEF CountInv
  <1> QED
    BY <1>5, <1>6, <1>7, <1>9, <1>10, <1>11, <1>12

(* CountInv holds throughout, together with the windows' invariant.        *)
THEOREM CountInvariant == Spec => [](WindowInv /\ CountInv)
  <1>1. Init => CountInv
    <2> SUFFICES ASSUME Init PROVE CountInv
      OBVIOUS
    <2>1. /\ stored = Nothing /\ out = Nothing /\ result = Nothing /\ failOpenCount = 0
          /\ epc = "idle" /\ rpc = "read" /\ stage = "running" /\ window.counts = 0
          /\ window.held = 0 /\ window.dropped = 0
      BY DEF Init
    <2>2. Nothing \in Tally /\ Nothing.counts = 0 /\ Nothing.held = 0 /\ Nothing.dropped = 0
          /\ Nothing.open = 0
      BY DEF Nothing, Tally
    <2> QED
      BY <2>1, <2>2 DEF CountInv, AtTheEnd, Balance, Covers, OnItsWay, SwappedOut, ToWrite,
                        ToWriteUnmasked
  <1>2. WindowInv /\ CountInv /\ [Next]_vars => CountInv'
    <2> SUFFICES ASSUME WindowInv, CountInv, [Next]_vars PROVE CountInv'
      OBVIOUS
    <2>1. CASE UNCHANGED vars
      BY <2>1 DEF vars, readerVars, flushVars, CountInv, AtTheEnd, NoneCounted, Balance, Covers,
                  OnItsWay, SwappedOut, ToWrite, ToWriteUnmasked
    <2> QED
      BY <2>1, ReaderCounts, EndCounts, FlushCounts DEF Next, Ended
  <1> QED
    BY <1>1, <1>2, WindowInvariant, PTL DEF Spec

(* For any number of lines and flushes, whichever fail or are stored       *)
(* without an answer, the counters of a node add up to what its output     *)
(* shows: no line goes unreported, none is reported twice unless an answer *)
(* was lost, and an answered last flush leaves nothing behind.             *)
THEOREM CountersAddUp == Spec => []CountsAddUp
  <1>1. WindowInv /\ CountInv => CountsAddUp
    <2> SUFFICES ASSUME WindowInv, CountInv PROVE CountsAddUp
      OBVIOUS
    <2>1. stored \in Tally /\ out \in Tally /\ result \in Tally
      BY DEF WindowInv, Types, CountInv
    <2>2. DOMAIN out = {"counts", "held", "dropped", "open"}
          /\ DOMAIN stored = {"counts", "held", "dropped", "open"}
      BY <2>1 DEF Tally
    <2>3. Reported =
            [counts |-> stored.counts + (OnItsWay(batch.counts) + window.counts),
             held |-> stored.held + (OnItsWay(batch.held) + window.held),
             dropped |-> stored.dropped + (OnItsWay(batch.dropped) + window.dropped),
             open |-> stored.open + (SwappedOut + failOpenCount)]
      BY <2>2 DEF Reported, Plus, Taken, InNode, OnItsWay, SwappedOut
    <2>4. Shown =
            [counts |-> out.counts + ToWrite(result.counts),
             held |-> out.held + ToWrite(result.held),
             dropped |-> out.dropped + ToWrite(result.dropped),
             open |-> out.open + ToWriteUnmasked]
      BY <2>2 DEF Shown, ToWrite, ToWriteUnmasked
    <2>5. /\ OnItsWay(batch.counts) \in Nat /\ OnItsWay(batch.held) \in Nat
          /\ OnItsWay(batch.dropped) \in Nat /\ SwappedOut \in Nat
      BY CountTypes DEF OnItsWay, SwappedOut
    <2>6. ASSUME Balance
          PROVE  IF lost THEN \A k \in DOMAIN out : Reported[k] >= Shown[k] ELSE Reported = Shown
      <3>1. /\ Covers(Reported.counts, Shown.counts) /\ Covers(Reported.held, Shown.held)
            /\ Covers(Reported.dropped, Shown.dropped) /\ Covers(Reported.open, Shown.open)
        BY <2>3, <2>4, <2>5, <2>6, CountTypes DEF Balance, Covers
      <3>2. CASE lost
        BY <2>2, <3>1, <3>2 DEF Covers
      <3>3. CASE ~lost
        BY <2>3, <2>4, <3>1, <3>3 DEF Covers
      <3> QED
        BY <3>2, <3>3
    <2>7. stage = "done" => Reported = stored
      <3> SUFFICES ASSUME stage = "done" PROVE Reported = stored
        OBVIOUS
      <3>1. epc = "idle" /\ failOpenCount = 0 /\ window.counts = 0 /\ window.held = 0
            /\ window.dropped = 0
        BY DEF CountInv, AtTheEnd, NoneCounted
      <3>2. Reported = [counts |-> stored.counts, held |-> stored.held,
                        dropped |-> stored.dropped, open |-> stored.open]
        BY <2>3, <3>1, CountTypes DEF OnItsWay, SwappedOut
      <3> QED
        BY <2>1, <3>2 DEF Tally
    <2> QED
      BY <2>6, <2>7 DEF CountsAddUp, CountInv
  <1> QED
    BY <1>1, CountInvariant, PTL
=============================================================================
