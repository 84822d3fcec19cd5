------------------------------- MODULE Detect -------------------------------
(***************************************************************************)
(* One line through the detectors: Scan collects the matches of every      *)
(* enabled detector, preferLonger keeps the longest of those that overlap, *)
(* Apply (in the node) or applySpans (in a redact job) replaces what was   *)
(* kept. Each loop is an action, one step for one turn. Which matches a    *)
(* regular expression finds is left open, but one expression finds matches *)
(* that do not overlap; findIP tries two expressions. The line is its      *)
(* positions, 0 to Length - 1.                                             *)
(***************************************************************************)
EXTENDS Integers, Sequences, FiniteSets

CONSTANTS
  Length,      \* bytes of the line
  NumKinds,    \* detectors; their numbers are the order of their kinds' names
  IP,          \* the kind of findIP
  Counted,     \* the kinds a redact job counts: e-mail, phone and social security numbers
  MaxMatches,  \* bound: matches of one detector
  Readable     \* bytes that partial leaves readable, 4 in the code

ASSUME DetectAssumption ==
  /\ Length \in Nat /\ NumKinds \in Nat /\ MaxMatches \in Nat /\ Readable \in Nat
  /\ IP \in 1..NumKinds /\ Counted \subseteq 1..NumKinds

VARIABLES
  dpc,         \* the loop that runs: "Scan", "preferLonger", "sort", "Apply", then "done"
  kinds,       \* the kinds the policy enables
  next,        \* the detector, or the match of applySpans, that is next
  spans,       \* what the detectors found
  rest,        \* of the matches a loop goes over, those that are to come
  kept,        \* preferLonger's chosen before its last sort
  chosen,      \* what Scan returns
  mode,        \* how the matches are to be replaced, "job" by applySpans
  out          \* what Apply or applySpans has written and counted

scanVars == <<kinds, spans>>
detectVars == <<dpc, scanVars, next, rest, kept, chosen, mode, out>>

Kinds == 1..NumKinds
Span == [kind : Kinds, start : 0..Length, end : 0..Length]
Modes == {"redact", "partial", "tokenize"}

Overlap(a, b) == a.start < b.end /\ b.start < a.end

(* What one expression may find.                                           *)
regexSpans(k) ==
  {s \in SUBSET {a \in Span : a.kind = k /\ a.start < a.end} :
     Cardinality(s) <= MaxMatches /\ \A a, b \in s : a # b => ~Overlap(a, b)}

(* An IPv4 and an IPv6 address may overlap.                                *)
findIP == {s \in {a \cup b : a, b \in regexSpans(IP)} : Cardinality(s) <= MaxMatches}

(* What d.find may return, for each kind.                                  *)
detectors == [k \in Kinds |-> IF k = IP THEN findIP ELSE regexSpans(k)]

-----------------------------------------------------------------------------
Size(a) == a.end - a.start

Preferred(a, b) ==
  IF Size(a) # Size(b) THEN Size(a) > Size(b)
  ELSE IF a.start # b.start THEN a.start < b.start
  ELSE a.kind < b.kind

ByStart(a, b) == a.start < b.start

(* A loop over what sort.Slice has sorted takes the first of what is left. *)
First(a, before(_, _)) == a \in rest /\ \A b \in rest \ {a} : before(a, b)

DetectRest ==
  /\ dpc = "rest" /\ kinds = {} /\ next = 1 /\ spans = {} /\ rest = {}
  /\ kept = {} /\ chosen = <<>> /\ mode = "none" /\ out = <<>>

NothingWritten == [text |-> <<>>, prev |-> 0, counts |-> [k \in Kinds |-> 0], panic |-> FALSE]

DetectInit ==
  /\ dpc = "Scan" /\ kinds \in SUBSET Kinds /\ next = 1 /\ spans = {} /\ rest = {}
  /\ kept = {} /\ chosen = <<>> /\ mode = "none" /\ out = NothingWritten

(* The loop of Scan, then the call of preferLonger.                        *)
Scan ==
  /\ dpc = "Scan"
  /\ IF next \in kinds
     THEN \E found \in detectors[next] : spans' = spans \cup found
     ELSE UNCHANGED spans
  /\ next' = next + 1
  /\ dpc' = IF next' > NumKinds THEN "preferLonger" ELSE dpc
  /\ rest' = spans'
  /\ UNCHANGED <<kinds, kept, chosen, mode, out>>

(* Mutant of preferLonger: matches that only touch count as overlapping.   *)
preferLongerTouching ==
  /\ dpc = "preferLonger"
  /\ \/ \E a \in rest :
          /\ First(a, Preferred)
          /\ rest' = rest \ {a}
          /\ kept' = IF a.end <= a.start \/ \E c \in kept : a.start <= c.end /\ c.start <= a.end
                     THEN kept ELSE kept \cup {a}
          /\ UNCHANGED dpc
     \/ rest = {} /\ rest' = kept /\ dpc' = "sort" /\ UNCHANGED kept
  /\ UNCHANGED <<scanVars, next, chosen, mode, out>>

preferLonger ==
  /\ dpc = "preferLonger"
  /\ \/ \E a \in rest :
          /\ First(a, Preferred)
          /\ rest' = rest \ {a}
          /\ kept' = IF a.end <= a.start \/ \E c \in kept : Overlap(a, c)
                     THEN kept ELSE kept \cup {a}
          /\ UNCHANGED dpc
     \/ rest = {} /\ rest' = kept /\ dpc' = "sort" /\ UNCHANGED kept
  /\ UNCHANGED <<scanVars, next, chosen, mode, out>>

(* The last sort of preferLonger; Apply sorts what it is given once more.  *)
SortChosen ==
  /\ dpc = "sort"
  /\ \/ \E a \in rest :
          /\ First(a, ByStart)
          /\ rest' = rest \ {a}
          /\ chosen' = Append(chosen, a)
          /\ UNCHANGED <<dpc, next, mode>>
     \/ /\ rest = {} /\ rest' = kept
        /\ dpc' = "Apply" /\ next' = 1
        /\ mode' \in Modes \cup {"job"}
        /\ UNCHANGED chosen
  /\ UNCHANGED <<scanVars, kept, out>>

-----------------------------------------------------------------------------
(* What is written: for the bytes from "from" to before "to" of the line,  *)
(* these bytes, as many stars, or one token.                               *)
Bytes(from, to) == [as |-> "bytes", kind |-> 0, from |-> from, to |-> to]
Stars(from, to) == [as |-> "stars", kind |-> 0, from |-> from, to |-> to]
Token(a) == [as |-> "token", kind |-> a.kind, from |-> a.start, to |-> a.end]

partial(a) ==
  IF Size(a) <= Readable THEN <<Bytes(a.start, a.end)>>
  ELSE <<Stars(a.start, a.end - Readable), Bytes(a.end - Readable, a.end)>>

Replacement(a) == IF mode = "partial" THEN partial(a) ELSE <<Token(a)>>

(* The text up to the match, what replaces it, and where to go on.         *)
Replaced(a) ==
  [out EXCEPT !.text = Append(@, Bytes(out.prev, a.start)) \o Replacement(a),
              !.prev = a.end]

WriteRest == out' = [out EXCEPT !.text = Append(@, Bytes(out.prev, Length))] /\ dpc' = "done"

(* Mutant of Apply: the next piece begins where the match does.            *)
ApplyFromStart ==
  /\ dpc = "Apply" /\ mode \in Modes
  /\ \/ \E a \in rest :
          /\ First(a, ByStart)
          /\ rest' = rest \ {a}
          /\ out' = IF a.start < out.prev \/ a.end > Length \/ a.end <= a.start THEN out
                    ELSE [Replaced(a) EXCEPT !.counts[a.kind] = @ + 1, !.prev = a.start]
          /\ UNCHANGED dpc
     \/ rest = {} /\ WriteRest /\ UNCHANGED rest
  /\ UNCHANGED <<scanVars, next, kept, chosen, mode>>

(* A match that begins before the last one ended or that is out of range   *)
(* is skipped.                                                             *)
Apply ==
  /\ dpc = "Apply" /\ mode \in Modes
  /\ \/ \E a \in rest :
          /\ First(a, ByStart)
          /\ rest' = rest \ {a}
          /\ out' = IF a.start < out.prev \/ a.end > Length \/ a.end <= a.start THEN out
                    ELSE [Replaced(a) EXCEPT !.counts[a.kind] = @ + 1]
          /\ UNCHANGED dpc
     \/ rest = {} /\ WriteRest /\ UNCHANGED rest
  /\ UNCHANGED <<scanVars, next, kept, chosen, mode>>

(* A redact job takes the matches as they come and slices without a check: *)
(* where Apply skips, it panics.                                           *)
applySpans ==
  /\ dpc = "Apply" /\ mode = "job" /\ ~out.panic
  /\ \/ /\ next <= Len(chosen)
        /\ LET a == chosen[next] IN
           /\ rest' = rest \ {a}
           /\ out' = IF a.start < out.prev \/ a.end > Length THEN [out EXCEPT !.panic = TRUE]
                     ELSE IF a.kind \in Counted
                     THEN [Replaced(a) EXCEPT !.counts[a.kind] = @ + 1]
                     ELSE Replaced(a)
        /\ next' = next + 1
        /\ UNCHANGED dpc
     \/ next > Len(chosen) /\ WriteRest /\ UNCHANGED <<rest, next>>
  /\ UNCHANGED <<scanVars, kept, chosen, mode>>

DetectNext == Scan \/ preferLonger \/ SortChosen \/ Apply \/ applySpans

DetectSpec == DetectInit /\ [][DetectNext]_detectVars

-----------------------------------------------------------------------------
Won == {chosen[i] : i \in 1..Len(chosen)}

DetectTypeOK ==
  /\ dpc \in {"rest", "Scan", "preferLonger", "sort", "Apply", "done"}
  /\ kinds \subseteq Kinds /\ next \in Nat /\ mode \in Modes \cup {"job", "none"}
  /\ spans \subseteq {a \in Span : a.kind \in kinds}
  /\ rest \subseteq spans /\ kept \subseteq spans /\ chosen \in Seq(spans)

(* Scan returns matches in the order of the line that do not overlap, and  *)
(* a match is left out only for one it overlaps that is longer, or as long *)
(* and earlier or first by its kind's name: nothing that a detector found  *)
(* is passed over without another match in its place.                      *)
LongestMatchWins ==
  dpc \in {"Apply", "done"} =>
    /\ \A i \in 1..(Len(chosen) - 1) : chosen[i].end <= chosen[i + 1].start
    /\ \A a \in spans \ Won : \E b \in Won : Overlap(a, b) /\ Preferred(b, a)
    /\ \A a \in Won : ~\E b \in Won : Overlap(a, b) /\ Preferred(b, a)

(* Whether the byte p of the line may be read where the matches of won are *)
(* replaced.                                                               *)
MayShow(p, won, how) ==
  \A a \in won : p \in a.start..(a.end - 1) =>
    how = "partial" /\ (Size(a) <= Readable \/ p >= a.end - Readable)

(* A piece of the output shows only bytes that may be shown, and hides     *)
(* only what belongs to a match.                                           *)
Justified(x, won, how) ==
  /\ x.as = "bytes" => \A p \in x.from..(x.to - 1) : MayShow(p, won, how)
  /\ x.as = "stars" => /\ how = "partial"
                       /\ \E a \in won : x.from = a.start /\ x.to = a.end - Readable
  /\ x.as = "token" => how # "partial" /\ \E a \in won : x = Token(a)

(* The pieces stand for the whole of the line up to a byte, in its order,  *)
(* and no byte twice.                                                      *)
Tiles(text, upTo) ==
  /\ text = <<>> => upTo = 0
  /\ text # <<>> => text[1].from = 0 /\ text[Len(text)].to = upTo
  /\ \A i \in 1..Len(text) : text[i].from <= text[i].to
  /\ \A i \in 1..(Len(text) - 1) : text[i].to = text[i + 1].from

(* Whatever the mode, every byte of the line is in the output once and in  *)
(* its place, as it is unless it is in a match; of a match at most the     *)
(* last bytes show (in partial mode); every match is counted once. A       *)
(* redact job, which slices the line without Apply's checks, does the same *)
(* and does not panic.                                                     *)
OnlyMatchesChange ==
  /\ mode = "job" /\ dpc = "Apply" => ~out.panic
  /\ dpc = "done" =>
       /\ Tiles(out.text, Length)
       /\ \A i \in 1..Len(out.text) : Justified(out.text[i], Won, mode)
       /\ \A k \in IF mode = "job" THEN Counted ELSE Kinds :
            out.counts[k] = Cardinality({a \in Won : a.kind = k})
=============================================================================
