------------------------------ MODULE Checksums ------------------------------
(***************************************************************************)
(* The two detectors that check what their regular expression matched: an  *)
(* Aadhaar number by Verhoeff's check digit, a payment card by Luhn's. A   *)
(* match is its digits, the separators removed. Both checks are loops from *)
(* the last digit to the first, one step for one turn. They run side by    *)
(* side for a number as it is meant and as it is typed, and a digit is     *)
(* chosen when the loop comes to it: so they are all the numbers there are *)
(* of these digits.                                                        *)
(***************************************************************************)
EXTENDS Integers, Sequences

CONSTANT Digits   \* digits that occur in the numbers, all ten in the code

Digit == 0..9

ASSUME ChecksumsAssumption == Digits \subseteq Digit

VARIABLES
  finder,        \* "findAadhaar" or "findCreditCard", "none" at rest
  read,          \* digits that were read, all of them when ended
  ended,
  alone,         \* no digit stands right before or after the match
  sum,           \* the check of the number so far
  typedSum,      \* that of the number as it is typed
  payloadSum,    \* verhoeffCheck's of the number without its last digit
  check,         \* the last digit
  front,         \* the digits read last, meant and typed
  typo           \* "no", "half" of an exchange of neighbours, "made", or "unseen" by Luhn

checksumVars ==
  <<finder, read, ended, alone, sum, typedSum, payloadSum, check, front, typo>>

verhoeffD ==
  << <<0, 1, 2, 3, 4, 5, 6, 7, 8, 9>>,
     <<1, 2, 3, 4, 0, 6, 7, 8, 9, 5>>,
     <<2, 3, 4, 0, 1, 7, 8, 9, 5, 6>>,
     <<3, 4, 0, 1, 2, 8, 9, 5, 6, 7>>,
     <<4, 0, 1, 2, 3, 9, 5, 6, 7, 8>>,
     <<5, 9, 8, 7, 6, 0, 4, 3, 2, 1>>,
     <<6, 5, 9, 8, 7, 1, 0, 4, 3, 2>>,
     <<7, 6, 5, 9, 8, 2, 1, 0, 4, 3>>,
     <<8, 7, 6, 5, 9, 3, 2, 1, 0, 4>>,
     <<9, 8, 7, 6, 5, 4, 3, 2, 1, 0>> >>

verhoeffP ==
  << <<0, 1, 2, 3, 4, 5, 6, 7, 8, 9>>,
     <<1, 5, 7, 6, 2, 8, 3, 0, 9, 4>>,
     <<5, 8, 0, 3, 7, 9, 6, 1, 4, 2>>,
     <<8, 9, 1, 6, 0, 4, 3, 5, 2, 7>>,
     <<9, 4, 5, 3, 1, 2, 6, 8, 7, 0>>,
     <<4, 2, 8, 6, 5, 7, 3, 9, 0, 1>>,
     <<2, 7, 9, 3, 8, 0, 6, 4, 1, 5>>,
     <<7, 0, 4, 6, 9, 1, 3, 2, 5, 8>> >>

verhoeffInv == <<0, 4, 3, 2, 1, 5, 6, 7, 8, 9>>

(* One turn of the loops of verhoeffOK and verhoeffCheck.                  *)
Verhoeff(c, j, digit) == verhoeffD[c + 1][verhoeffP[(j % 8) + 1][digit + 1] + 1]

(* Mutant of Luhn: two-digit products are not brought below ten.           *)
LuhnCarries(total, j, digit) == total + (IF j % 2 = 1 THEN 2 * digit ELSE digit)

twice(digit) == IF 2 * digit > 9 THEN 2 * digit - 9 ELSE 2 * digit

(* One turn of the loop of luhnOK: every second digit is doubled.          *)
Luhn(total, j, digit) == total + (IF j % 2 = 1 THEN twice(digit) ELSE digit)

Turn(s, digit) ==
  IF finder = "findAadhaar" THEN Verhoeff(s, read, digit) ELSE Luhn(s, read, digit)

verhoeffOK(s) == s = 0

luhnOK(s) == s % 10 = 0

(* Whether a match that begins with digit first is a span.                 *)
findAadhaar(first, s) == alone /\ first \in 2..9 /\ read = 12 /\ verhoeffOK(s)

findCreditCard(first, s) == alone /\ read \in 13..19 /\ first \in 3..6 /\ luhnOK(s)

Found(first, s) ==
  IF finder = "findAadhaar" THEN findAadhaar(first, s) ELSE findCreditCard(first, s)

verhoeffCheck == verhoeffInv[payloadSum + 1]

-----------------------------------------------------------------------------
AtRest ==
  /\ read = 0 /\ ended = FALSE /\ alone = FALSE
  /\ sum = 0 /\ typedSum = 0 /\ payloadSum = 0
  /\ check = 0 /\ front = <<0, 0>> /\ typo = "no"

ChecksumsRest == finder = "none" /\ AtRest

ChecksumsInit == finder \in {"findAadhaar", "findCreditCard"} /\ AtRest

(* The next digit from the right, as it is meant and as it is typed.       *)
Read(meant, typed) ==
  /\ sum' = Turn(sum, meant)
  /\ typedSum' = Turn(typedSum, typed)
  /\ payloadSum' = IF finder = "findAadhaar" /\ read > 0
                   THEN Verhoeff(payloadSum, read, meant) ELSE payloadSum
  /\ check' = IF read = 0 THEN meant ELSE check
  /\ front' = <<meant, typed>>
  /\ read' = read + 1
  /\ UNCHANGED <<finder, ended, alone>>

Reading == finder # "none" /\ ~ended /\ read < IF finder = "findAadhaar" THEN 12 ELSE 19

ReadSame ==
  /\ Reading /\ typo # "half"
  /\ \E d \in Digits : Read(d, d)
  /\ UNCHANGED typo

ReadWrong ==
  /\ Reading /\ typo = "no"
  /\ \E d \in Digits : \E w \in Digits \ {d} : Read(d, w)
  /\ typo' \in {"made", "half"}

(* The second of two neighbours that are exchanged.                        *)
ReadOther ==
  /\ Reading /\ typo = "half"
  /\ Read(front[2], front[1])
  /\ typo' = IF finder = "findCreditCard" /\ {front[1], front[2]} = {0, 9}
             THEN "unseen" ELSE "made"

End ==
  /\ finder # "none" /\ ~ended /\ typo # "half"
  /\ read \in IF finder = "findAadhaar" THEN {12} ELSE 13..19
  /\ ended' = TRUE /\ alone' \in BOOLEAN
  /\ UNCHANGED <<finder, read, sum, typedSum, payloadSum, check, front, typo>>

ChecksumsNext == ReadSame \/ ReadWrong \/ ReadOther \/ End

ChecksumsSpec == ChecksumsInit /\ [][ChecksumsNext]_checksumVars

-----------------------------------------------------------------------------
ChecksumsTypeOK ==
  /\ finder \in {"none", "findAadhaar", "findCreditCard"} /\ alone \in BOOLEAN
  /\ read \in Nat /\ ended \in BOOLEAN
  /\ sum \in Nat /\ typedSum \in Nat /\ payloadSum \in Digit /\ check \in Digit
  /\ front \in Digit \X Digit
  /\ typo \in {"no", "half", "made", "unseen"}

(* A number that is reported is not reported any more with one wrong digit *)
(* or with two neighbours exchanged; only 09 and 90 are the same to Luhn's *)
(* digit. And verhoeffOK accepts the last digit that verhoeffCheck makes   *)
(* of the others, and no other.                                            *)
TyposAreRejected ==
  ended =>
    /\ typo = "made" /\ Found(front[1], sum) => ~Found(front[2], typedSum)
    /\ finder = "findAadhaar" => (verhoeffOK(sum) <=> check = verhoeffCheck)
=============================================================================
