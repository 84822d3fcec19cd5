---------------------------- MODULE HandoffProofs ----------------------------
(***************************************************************************)
(* The check digits, by which the node tells a number from a mistyped one, *)
(* for every number; then the handoff of a line, for any number of         *)
(* callers, any queue and any limit. The breaker never stays open for want *)
(* of a probe: NeverStuckOpen alone is not inductive; that clearing the    *)
(* token after a successful probe strands nobody rests on LoopKnows, which *)
(* ties the loop's place to the breaker.                                   *)
(***************************************************************************)
EXTENDS Handoff, Checksums, TLAPS

-----------------------------------------------------------------------------
(* The check digits. verhoeffD is the multiplication of the dihedral group *)
(* of order ten, 0 to 4 its rotations and 5 to 9 its reflections.          *)
Dihedral(a, x) ==
  IF a < 5 THEN IF x < 5 THEN IF a + x < 5 THEN a + x ELSE a + x - 5
                ELSE IF a + x < 10 THEN a + x ELSE a + x - 5
  ELSE IF x < 5 THEN IF a - x < 5 THEN a - x + 5 ELSE a - x
       ELSE IF a < x THEN a - x + 5 ELSE a - x

(* A digit as it counts at place j from the right.                         *)
Permuted(j, digit) == verhoeffP[(j % 8) + 1][digit + 1]
Doubled(j, digit) == IF j % 2 = 1 THEN twice(digit) ELSE digit

(* The table of the code is that multiplication.                           *)
LEMMA TableIsGroup == \A a, x \in Digit : verhoeffD[a + 1][x + 1] = Dihedral(a, x)
  BY DEF verhoeffD, Digit, Dihedral

(* The multiplication stays among the digits.                              *)
LEMMA DihedralDigit == \A a, x \in Digit : Dihedral(a, x) \in Digit
  BY DEF Digit, Dihedral

(* It is associative.                                                      *)
LEMMA DihedralAssoc ==
  \A a, b, x \in Digit : Dihedral(Dihedral(a, b), x) = Dihedral(a, Dihedral(b, x))
  BY DEF Digit, Dihedral

(* 0 is its unit.                                                          *)
LEMMA DihedralUnit == \A a \in Digit : Dihedral(a, 0) = a /\ Dihedral(0, a) = a
  BY DEF Digit, Dihedral

(* It can be cancelled on the left.                                        *)
LEMMA CancelLeft == \A a, b, x \in Digit : Dihedral(x, a) = Dihedral(x, b) => a = b
  BY DEF Digit, Dihedral

(* And on the right.                                                       *)
LEMMA CancelRight == \A a, b, x \in Digit : Dihedral(a, x) = Dihedral(b, x) => a = b
  BY DEF Digit, Dihedral

(* verhoeffInv has the inverses.                                           *)
LEMMA InverseIsRight == \A p, x \in Digit : Dihedral(x, p) = 0 <=> x = verhoeffInv[p + 1]
  BY DEF verhoeffInv, Digit, Dihedral

(* The rows of verhoeffP are permutations, each the one before it and then *)
(* the second row, and after the last the first comes again.               *)
LEMMA Permutations ==
  /\ \A j \in 0..19 : \A x \in Digit : Permuted(j, x) \in Digit
  /\ \A j \in 0..19 : \A x, y \in Digit : Permuted(j, x) = Permuted(j, y) => x = y
  /\ \A j \in 0..19 : \A x \in Digit : Permuted(j + 1, x) = verhoeffP[2][Permuted(j, x) + 1]
  /\ \A x \in Digit : Permuted(0, x) = x
  <1>1. \A k \in 1..8 : \A x \in Digit : verhoeffP[k][x + 1] \in Digit
    BY DEF verhoeffP, Digit
  <1>2. \A k \in 1..8 : \A x, y \in Digit : verhoeffP[k][x + 1] = verhoeffP[k][y + 1] => x = y
    BY DEF verhoeffP, Digit
  <1>3. \A k \in 1..8 : \A x \in Digit :
          verhoeffP[IF k = 8 THEN 1 ELSE k + 1][x + 1] = verhoeffP[2][verhoeffP[k][x + 1] + 1]
    BY DEF verhoeffP, Digit
  <1>4. \A j \in 0..19 : /\ (j % 8) + 1 \in 1..8
                         /\ ((j + 1) % 8) + 1 = IF (j % 8) + 1 = 8 THEN 1 ELSE (j % 8) + 2
    OBVIOUS
  <1>5. \A x \in Digit : Permuted(0, x) = x
    BY DEF Permuted, verhoeffP, Digit
  <1> QED
    BY <1>1, <1>2, <1>3, <1>4, <1>5 DEF Permuted

(* Two different neighbours do not count the same when they are exchanged. *)
LEMMA ExchangeCounts ==
  \A u, v \in Digit : Dihedral(u, verhoeffP[2][v + 1]) = Dihedral(v, verhoeffP[2][u + 1]) => u = v
  BY DEF verhoeffP, Digit, Dihedral

(* One turn of the loop multiplies by the digit as it counts.              *)
LEMMA VerhoeffTurn ==
  ASSUME NEW c \in Digit, NEW j \in 0..19, NEW d \in Digit
  PROVE  Verhoeff(c, j, d) = Dihedral(c, Permuted(j, d)) /\ Verhoeff(c, j, d) \in Digit
  <1>1. Permuted(j, d) \in Digit
    BY Zenon, Permutations
  <1>2. Verhoeff(c, j, d) = Dihedral(c, Permuted(j, d))
    BY Zenon, <1>1, TableIsGroup DEF Verhoeff, Permuted
  <1> QED
    BY Zenon, <1>1, <1>2, DihedralDigit

(* Doubling permutes the digits, and two neighbours that are exchanged     *)
(* count the same only if they are 0 and 9.                                *)
LEMMA DoubledDigits ==
  /\ \A j \in Nat : \A x \in Digit : Doubled(j, x) \in Digit
  /\ \A j \in Nat : \A x, y \in Digit : Doubled(j, x) = Doubled(j, y) => x = y
  /\ \A j \in Nat : \A x, y \in Digit :
       LET gap == Doubled(j, x) - Doubled(j, y) + Doubled(j + 1, y) - Doubled(j + 1, x)
       IN  x # y /\ {x, y} # {0, 9} => gap \in -9..9 /\ gap # 0
  <1>1. \A x \in Digit : twice(x) \in Digit
    BY DEF twice, Digit
  <1>2. \A x, y \in Digit : twice(x) = twice(y) => x = y
    BY DEF twice, Digit
  <1>3. \A x, y \in Digit : x # y /\ ~(x = 0 /\ y = 9) /\ ~(x = 9 /\ y = 0) =>
          /\ twice(x) - twice(y) + y - x \in -9..9 /\ twice(x) - twice(y) + y - x # 0
          /\ x - y + twice(y) - twice(x) \in -9..9 /\ x - y + twice(y) - twice(x) # 0
    BY DEF twice, Digit
  <1>4. \A j \in Nat : (j % 2 = 1 /\ (j + 1) % 2 # 1) \/ (j % 2 # 1 /\ (j + 1) % 2 = 1)
    OBVIOUS
  <1>5. ASSUME NEW j \in Nat, NEW x \in Digit, NEW y \in Digit, x # y, {x, y} # {0, 9}
        PROVE  LET gap == Doubled(j, x) - Doubled(j, y) + Doubled(j + 1, y) - Doubled(j + 1, x)
               IN  gap \in -9..9 /\ gap # 0
    <2>1. ~(x = 0 /\ y = 9) /\ ~(x = 9 /\ y = 0)
      BY <1>5
    <2>2. CASE j % 2 = 1 /\ (j + 1) % 2 # 1
      BY Zenon, <1>3, <1>5, <2>1, <2>2 DEF Doubled
    <2>3. CASE j % 2 # 1 /\ (j + 1) % 2 = 1
      BY Zenon, <1>3, <1>5, <2>1, <2>3 DEF Doubled
    <2> QED
      BY <1>4, <2>2, <2>3
  <1>6. \A j \in Nat : \A x \in Digit : Doubled(j, x) \in Digit
    BY Zenon, <1>1 DEF Doubled
  <1>7. \A j \in Nat : \A x, y \in Digit : Doubled(j, x) = Doubled(j, y) => x = y
    BY Zenon, <1>2 DEF Doubled
  <1> QED
    BY Zenon, <1>5, <1>6, <1>7

-----------------------------------------------------------------------------
(* Where the two checks stand: before the typo they are the same, half way *)
(* through an exchange one digit apart, and then different for good. The   *)
(* check of an Aadhaar number is its last digit times that of the others.  *)
VerhoeffInv ==
  /\ sum \in Digit /\ typedSum \in Digit /\ read \in 0..12
  /\ read = 0 => sum = 0 /\ payloadSum = 0
  /\ read > 0 => sum = Dihedral(check, payloadSum)
  /\ typo = "no" => sum = typedSum
  /\ typo = "half" =>
       /\ read > 0
       /\ \E c \in Digit : /\ sum = Dihedral(c, Permuted(read - 1, front[1]))
                           /\ typedSum = Dihedral(c, Permuted(read - 1, front[2]))
  /\ typo = "made" => sum # typedSum

LuhnInv ==
  /\ sum \in Nat /\ typedSum \in Nat /\ read \in 0..19
  /\ typo = "no" => sum = typedSum
  /\ typo = "half" =>
       /\ read > 0
       /\ sum - typedSum = Doubled(read - 1, front[1]) - Doubled(read - 1, front[2])
  /\ typo = "made" => sum - typedSum \in -9..9 /\ sum # typedSum

ChecksumsInv ==
  /\ ChecksumsTypeOK /\ finder # "none"
  /\ typo = "half" => front[1] # front[2]
  /\ finder = "findAadhaar" => VerhoeffInv /\ (ended => read = 12)
  /\ finder = "findCreditCard" => LuhnInv

(* One digit of an Aadhaar number, and of what was typed for it.           *)
LEMMA VerhoeffReads ==
  ASSUME ChecksumsInv, finder = "findAadhaar", Reading,
         NEW m \in Digit, NEW w \in Digit, Read(m, w)
  PROVE  /\ sum' = Dihedral(sum, Permuted(read, m)) /\ sum' \in Digit
         /\ typedSum' = Dihedral(typedSum, Permuted(read, w)) /\ typedSum' \in Digit
         /\ payloadSum' \in Digit /\ check' \in Digit /\ front' = <<m, w>>
         /\ read \in 0..11 /\ read' = read + 1 /\ finder' = finder /\ ended' = ended
         /\ alone' = alone /\ sum' = Dihedral(check', payloadSum')
  <1>1. VerhoeffInv /\ ChecksumsTypeOK /\ ended = FALSE
    BY DEF ChecksumsInv, Reading, ChecksumsTypeOK
  <1>2. sum \in Digit /\ typedSum \in Digit /\ payloadSum \in Digit /\ check \in Digit
    BY <1>1 DEF VerhoeffInv, ChecksumsTypeOK
  <1>3. read \in 0..11 /\ read \in 0..19
    BY <1>1 DEF Reading, VerhoeffInv
  <1>4. /\ sum' = Verhoeff(sum, read, m) /\ typedSum' = Verhoeff(typedSum, read, w)
        /\ payloadSum' = IF read > 0 THEN Verhoeff(payloadSum, read, m) ELSE payloadSum
        /\ check' = IF read = 0 THEN m ELSE check
        /\ front' = <<m, w>> /\ read' = read + 1 /\ UNCHANGED <<finder, ended, alone>>
    BY DEF Read, Turn
  <1>5. /\ sum' = Dihedral(sum, Permuted(read, m)) /\ sum' \in Digit
        /\ typedSum' = Dihedral(typedSum, Permuted(read, w)) /\ typedSum' \in Digit
    BY Zenon, <1>2, <1>3, <1>4, VerhoeffTurn
  <1>6. CASE read = 0
    <2>1. sum = 0 /\ payloadSum = 0 /\ Permuted(read, m) = m /\ ~(read > 0)
      BY <1>1, <1>6, Permutations DEF VerhoeffInv
    <2>2. payloadSum' = 0 /\ check' = m /\ sum' = Dihedral(0, m)
      BY Zenon, <1>4, <1>5, <1>6, <2>1
    <2>3. 0 \in Digit
      BY DEF Digit
    <2> QED
      BY Zenon, <1>3, <1>4, <1>5, <2>2, <2>3, DihedralUnit
  <1>7. CASE read # 0
    <2>1. read > 0
      BY <1>3, <1>7
    <2>2. /\ payloadSum' = Dihedral(payloadSum, Permuted(read, m)) /\ payloadSum' \in Digit
          /\ check' = check
      BY Zenon, <1>2, <1>3, <1>4, <1>7, <2>1, VerhoeffTurn
    <2>3. sum = Dihedral(check, payloadSum)
      BY Zenon, <1>1, <2>1 DEF VerhoeffInv
    <2>4. Permuted(read, m) \in Digit
      BY Zenon, <1>3, Permutations
    <2>5. sum' = Dihedral(check', payloadSum')
      BY <1>2, <1>5, <2>2, <2>3, <2>4, DihedralAssoc
    <2> QED
      BY Zenon, <1>2, <1>3, <1>4, <1>5, <2>2, <2>5
  <1> QED
    BY <1>6, <1>7

(* One digit of a card number, and of what was typed for it.               *)
LEMMA LuhnReads ==
  ASSUME ChecksumsInv, finder = "findCreditCard", Reading,
         NEW m \in Digit, NEW w \in Digit, Read(m, w)
  PROVE  /\ sum' = sum + Doubled(read, m) /\ sum' \in Nat
         /\ typedSum' = typedSum + Doubled(read, w) /\ typedSum' \in Nat
         /\ payloadSum' \in Digit /\ check' \in Digit /\ front' = <<m, w>>
         /\ read \in 0..18 /\ read' = read + 1 /\ finder' = finder /\ ended' = ended
         /\ alone' = alone
  <1>1. LuhnInv /\ ChecksumsTypeOK /\ ended = FALSE
    BY DEF ChecksumsInv, Reading, ChecksumsTypeOK
  <1>2. /\ sum \in Nat /\ typedSum \in Nat /\ read \in 0..18
        /\ payloadSum \in Digit /\ check \in Digit
    BY <1>1 DEF LuhnInv, ChecksumsTypeOK, Reading
  <1>3. /\ sum' = sum + Doubled(read, m) /\ typedSum' = typedSum + Doubled(read, w)
        /\ payloadSum' = payloadSum
        /\ check' = IF read = 0 THEN m ELSE check
        /\ front' = <<m, w>> /\ read' = read + 1 /\ UNCHANGED <<finder, ended, alone>>
    BY DEF Read, Turn, Luhn, Doubled
  <1>4. Doubled(read, m) \in Nat /\ Doubled(read, w) \in Nat
    <2>1. read \in Nat
      BY <1>2
    <2>2. Doubled(read, m) \in Digit /\ Doubled(read, w) \in Digit
      BY Zenon, <2>1, DoubledDigits
    <2> QED
      BY <2>2 DEF Digit
  <1>5. sum' \in Nat /\ typedSum' \in Nat
    BY <1>2, <1>3, <1>4
  <1>6. check' \in Digit
    BY Zenon, <1>2, <1>3
  <1> QED
    BY Zenon, <1>2, <1>3, <1>5, <1>6
(* Every digit read keeps ChecksumsInv, and so does the end.               *)
LEMMA ChecksumsStep == ChecksumsInv /\ [ChecksumsNext]_checksumVars => ChecksumsInv'
  <1> SUFFICES ASSUME ChecksumsInv, [ChecksumsNext]_checksumVars PROVE ChecksumsInv'
    OBVIOUS
  <1>0. /\ ChecksumsTypeOK /\ front[1] \in Digit /\ front[2] \in Digit
        /\ \A d \in Digits : d \in Digit
    BY ChecksumsAssumption DEF ChecksumsInv, ChecksumsTypeOK
  <1>1. ASSUME NEW m \in Digit, NEW w \in Digit, Read(m, w), Reading,
               typo' \in {"no", "half", "made", "unseen"},
               typo' = "half" => m # w,
               finder = "findAadhaar" => VerhoeffInv',
               finder = "findCreditCard" => LuhnInv'
        PROVE  ChecksumsInv'
    <2>1. finder \in {"findAadhaar", "findCreditCard"}
      BY <1>0, <1>1 DEF Reading, ChecksumsTypeOK
    <2>2. /\ payloadSum' \in Digit /\ check' \in Digit /\ front' = <<m, w>> /\ read' \in Nat
          /\ finder' = finder /\ ended' = ended /\ alone' = alone /\ sum' \in Nat /\ typedSum' \in Nat
      <3>1. CASE finder = "findAadhaar"
        <4>1. \A d \in Digit : d \in Nat
          BY DEF Digit
        <4>2. \A i \in 0..11 : i + 1 \in Nat
          OBVIOUS
        <4> QED
          BY Zenon, <1>1, <3>1, <4>1, <4>2, VerhoeffReads
      <3>2. CASE finder = "findCreditCard"
        <4>1. \A i \in 0..18 : i + 1 \in Nat
          OBVIOUS
        <4> QED
          BY Zenon, <1>1, <3>2, <4>1, LuhnReads
      <3> QED
        BY <2>1, <3>1, <3>2
    <2>3. ended = FALSE
      BY <1>0, <1>1 DEF Reading, ChecksumsTypeOK
    <2>4. front' \in Digit \X Digit /\ front'[1] = m /\ front'[2] = w
      BY <1>1, <2>2
    <2>5. ChecksumsTypeOK'
      BY Zenon, <1>0, <1>1, <2>2, <2>4 DEF ChecksumsTypeOK
    <2> QED
      BY <1>1, <2>2, <2>3, <2>4, <2>5 DEF ChecksumsInv
  <1>2. CASE ReadSame
    <2>1. PICK d \in Digit : Read(d, d) /\ Reading /\ typo # "half" /\ typo' = typo
      BY <1>0, <1>2 DEF ReadSame
    <2>2. ASSUME finder = "findAadhaar" PROVE VerhoeffInv'
      <3>1. VerhoeffInv
        BY <2>2 DEF ChecksumsInv
      <3>2. /\ sum' = Dihedral(sum, Permuted(read, d)) /\ sum' \in Digit
            /\ typedSum' = Dihedral(typedSum, Permuted(read, d)) /\ typedSum' \in Digit
            /\ read \in 0..11 /\ read' = read + 1 /\ sum' = Dihedral(check', payloadSum')
        BY Zenon, <2>1, <2>2, VerhoeffReads
      <3>3. read \in 0..19 /\ read' \in 0..12 /\ read' # 0
        BY <3>2
      <3>4. sum \in Digit /\ typedSum \in Digit /\ Permuted(read, d) \in Digit
        BY Zenon, <3>1, <3>3, Permutations DEF VerhoeffInv
      <3>5. typo = "made" => sum' # typedSum'
        <4>1. typo = "made" => sum # typedSum
          BY Zenon, <3>1 DEF VerhoeffInv
        <4> QED
          BY Zenon, <3>2, <3>4, <4>1, CancelRight
      <3>6. typo = "no" => sum' = typedSum'
        BY Zenon, <3>1, <3>2 DEF VerhoeffInv
      <3> QED
        BY <2>1, <3>2, <3>3, <3>5, <3>6 DEF VerhoeffInv
    <2>3. ASSUME finder = "findCreditCard" PROVE LuhnInv'
      <3>1. LuhnInv
        BY <2>3 DEF ChecksumsInv
      <3>2. /\ sum' = sum + Doubled(read, d) /\ sum' \in Nat
            /\ typedSum' = typedSum + Doubled(read, d) /\ typedSum' \in Nat
            /\ read \in 0..18 /\ read' = read + 1
        BY Zenon, <2>1, <2>3, LuhnReads
      <3>3. read' \in 0..19 /\ read \in Nat
        BY <3>2
      <3>4. Doubled(read, d) \in Int
        <4>1. Doubled(read, d) \in Digit
          BY Zenon, <3>3, DoubledDigits
        <4> QED
          BY <4>1 DEF Digit
      <3>5. sum \in Nat /\ typedSum \in Nat
        BY <3>1 DEF LuhnInv
      <3>6. sum' - typedSum' = sum - typedSum /\ (sum' = typedSum' <=> sum = typedSum)
        BY <3>2, <3>4, <3>5
      <3> QED
        BY <2>1, <3>1, <3>2, <3>3, <3>6 DEF LuhnInv
    <2> QED
      BY Zenon, <1>0, <1>1, <2>1, <2>2, <2>3 DEF ChecksumsTypeOK
  <1>3. CASE ReadWrong
    <2>1. PICK m \in Digit, w \in Digit : m # w /\ Read(m, w) /\ Reading
      BY <1>0, <1>3 DEF ReadWrong
    <2>2. typo = "no" /\ typo' \in {"made", "half"}
      BY <1>3 DEF ReadWrong
    <2>3. ASSUME finder = "findAadhaar" PROVE VerhoeffInv'
      <3>1. sum = typedSum /\ sum \in Digit
        BY <2>2, <2>3 DEF ChecksumsInv, VerhoeffInv
      <3>2. /\ sum' = Dihedral(sum, Permuted(read, m)) /\ sum' \in Digit
            /\ typedSum' = Dihedral(typedSum, Permuted(read, w)) /\ typedSum' \in Digit
            /\ read \in 0..11 /\ read' = read + 1 /\ sum' = Dihedral(check', payloadSum')
            /\ front' = <<m, w>>
        BY Zenon, <2>1, <2>3, VerhoeffReads
      <3>3. read \in 0..19 /\ read' \in 0..12 /\ read' # 0 /\ read' > 0 /\ read' - 1 = read
        BY <3>2
      <3>4. Permuted(read, m) \in Digit /\ Permuted(read, w) \in Digit
        BY Zenon, <3>3, Permutations
      <3>5. Permuted(read, m) # Permuted(read, w)
        BY Zenon, <2>1, <3>3, Permutations
      <3>6. sum' # typedSum'
        BY Zenon, <3>1, <3>2, <3>4, <3>5, CancelLeft
      <3>7. front'[1] = m /\ front'[2] = w
        BY <3>2
      <3>8. \E c \in Digit : /\ sum' = Dihedral(c, Permuted(read' - 1, front'[1]))
                             /\ typedSum' = Dihedral(c, Permuted(read' - 1, front'[2]))
        BY Zenon, <3>1, <3>2, <3>3, <3>7
      <3>9. typo' # "no"
        BY <2>2
      <3> QED
        BY <3>2, <3>3, <3>6, <3>8, <3>9 DEF VerhoeffInv
    <2>4. ASSUME finder = "findCreditCard" PROVE LuhnInv'
      <3>1. sum = typedSum /\ sum \in Nat
        BY <2>2, <2>4 DEF ChecksumsInv, LuhnInv
      <3>2. /\ sum' = sum + Doubled(read, m) /\ sum' \in Nat
            /\ typedSum' = typedSum + Doubled(read, w) /\ typedSum' \in Nat
            /\ read \in 0..18 /\ read' = read + 1 /\ front' = <<m, w>>
        BY Zenon, <2>1, <2>4, LuhnReads
      <3>3. read' \in 0..19 /\ read' > 0 /\ read' - 1 = read /\ read \in Nat
        BY <3>2
      <3>4. /\ Doubled(read, m) \in Digit /\ Doubled(read, w) \in Digit
            /\ Doubled(read, m) # Doubled(read, w)
        BY Zenon, <2>1, <3>3, DoubledDigits
      <3>5. /\ sum' - typedSum' = Doubled(read, m) - Doubled(read, w)
            /\ sum' - typedSum' \in -9..9 /\ sum' # typedSum'
        BY <3>1, <3>2, <3>4 DEF Digit
      <3>6. front'[1] = m /\ front'[2] = w
        BY <3>2
      <3>7. typo' # "no"
        BY <2>2
      <3> QED
        BY <3>2, <3>3, <3>5, <3>6, <3>7 DEF LuhnInv
    <2>5. typo' \in {"no", "half", "made", "unseen"}
      BY <2>2
    <2> QED
      BY Zenon, <1>1, <2>1, <2>3, <2>4, <2>5
  <1>4. CASE ReadOther
    <2> DEFINE m == front[2]
               w == front[1]
    <2>1. /\ Read(m, w) /\ Reading /\ typo = "half" /\ m # w /\ m \in Digit /\ w \in Digit
          /\ typo' = IF finder = "findCreditCard" /\ {w, m} = {0, 9} THEN "unseen" ELSE "made"
      BY Zenon, <1>0, <1>4 DEF ReadOther, ChecksumsInv
    <2>2. typo' \in {"made", "unseen"}
      BY <2>1
    <2>3. ASSUME finder = "findAadhaar" PROVE VerhoeffInv'
      <3>1. VerhoeffInv
        BY <2>3 DEF ChecksumsInv
      <3>2. PICK c \in Digit : /\ sum = Dihedral(c, Permuted(read - 1, w))
                               /\ typedSum = Dihedral(c, Permuted(read - 1, m))
        BY Zenon, <2>1, <3>1 DEF VerhoeffInv
      <3> HIDE DEF m, w
      <3>3. /\ sum' = Dihedral(sum, Permuted(read, m)) /\ sum' \in Digit
            /\ typedSum' = Dihedral(typedSum, Permuted(read, w)) /\ typedSum' \in Digit
            /\ read \in 0..11 /\ read' = read + 1 /\ sum' = Dihedral(check', payloadSum')
        BY Zenon, <2>1, <2>3, VerhoeffReads
      <3>4. read > 0
        BY Zenon, <2>1, <3>1 DEF VerhoeffInv
      <3>5. /\ read \in 0..19 /\ read' \in 0..12 /\ read' # 0
            /\ read - 1 \in 0..19 /\ (read - 1) + 1 = read
        BY <3>3, <3>4
      <3> DEFINE u == Permuted(read - 1, w)
                 v == Permuted(read - 1, m)
                 shift(x) == verhoeffP[2][x + 1]
      <3>6. u \in Digit /\ v \in Digit /\ u # v
        BY Zenon, <2>1, <3>5, Permutations
      <3>7. Permuted(read, m) = shift(v) /\ Permuted(read, w) = shift(u)
        BY Zenon, <2>1, <3>5, Permutations
      <3>8. shift(u) \in Digit /\ shift(v) \in Digit
        <4>1. Permuted(read, m) \in Digit /\ Permuted(read, w) \in Digit
          BY Zenon, <2>1, <3>5, Permutations
        <4> QED
          BY Zenon, <3>7, <4>1
      <3> HIDE DEF u, v
      <3>9. Dihedral(u, shift(v)) # Dihedral(v, shift(u))
        BY Zenon, <3>6, ExchangeCounts
      <3> HIDE DEF shift
      <3>10. /\ sum' = Dihedral(c, Dihedral(u, shift(v)))
             /\ typedSum' = Dihedral(c, Dihedral(v, shift(u)))
        <4>1. sum' = Dihedral(Dihedral(c, u), shift(v)) /\ typedSum' = Dihedral(Dihedral(c, v), shift(u))
          BY Zenon, <3>2, <3>3, <3>7 DEF u, v
        <4> QED
          BY Zenon, <3>6, <3>8, <4>1, DihedralAssoc
      <3>11. sum' # typedSum'
        BY <3>6, <3>8, <3>9, <3>10, DihedralDigit, CancelLeft
      <3>12. typo' # "no" /\ typo' # "half"
        BY <2>2
      <3> QED
        BY <3>3, <3>5, <3>11, <3>12 DEF VerhoeffInv
    <2>4. ASSUME finder = "findCreditCard" PROVE LuhnInv'
      <3>1. LuhnInv
        BY <2>4 DEF ChecksumsInv
      <3>2. read > 0 /\ sum - typedSum = Doubled(read - 1, w) - Doubled(read - 1, m)
            /\ sum \in Nat /\ typedSum \in Nat
        BY Zenon, <2>1, <3>1 DEF LuhnInv
      <3> HIDE DEF m, w
      <3>3. /\ sum' = sum + Doubled(read, m) /\ sum' \in Nat
            /\ typedSum' = typedSum + Doubled(read, w) /\ typedSum' \in Nat
            /\ read \in 0..18 /\ read' = read + 1
        BY Zenon, <2>1, <2>4, LuhnReads
      <3>4. read' \in 0..19 /\ read - 1 \in Nat /\ read \in Nat /\ (read - 1) + 1 = read
        BY <3>2, <3>3
      <3>5. /\ Doubled(read, m) \in Digit /\ Doubled(read, w) \in Digit
            /\ Doubled(read - 1, m) \in Digit /\ Doubled(read - 1, w) \in Digit
        BY Zenon, <2>1, <3>4, DoubledDigits
      <3> DEFINE gap == Doubled(read - 1, w) - Doubled(read - 1, m) + Doubled(read, m) - Doubled(read, w)
      <3>6. {w, m} # {0, 9} => gap \in -9..9 /\ gap # 0
        BY Zenon, <2>1, <3>4, DoubledDigits
      <3>7. sum' - typedSum' = gap
        <4> DEFINE a == Doubled(read - 1, w)
                   b == Doubled(read - 1, m)
                   x == Doubled(read, m)
                   y == Doubled(read, w)
        <4>1. /\ a \in Digit /\ b \in Digit /\ x \in Digit /\ y \in Digit
              /\ sum - typedSum = a - b /\ sum' = sum + x /\ typedSum' = typedSum + y
              /\ sum \in Nat /\ typedSum \in Nat
          BY Zenon, <3>2, <3>3, <3>5
        <4> HIDE DEF a, b, x, y
        <4>2. sum' - typedSum' = a - b + x - y
          BY <4>1 DEF Digit
        <4> QED
          BY Zenon, <4>2 DEF a, b, x, y
      <3> HIDE DEF gap
      <3>8. {w, m} # {0, 9} => sum' - typedSum' \in -9..9 /\ sum' # typedSum'
        BY <3>3, <3>6, <3>7
      <3>9. typo' = "made" => {w, m} # {0, 9}
        BY <2>1, <2>4
      <3>10. typo' # "no" /\ typo' # "half"
        BY <2>2
      <3> QED
        BY <3>3, <3>4, <3>8, <3>9, <3>10 DEF LuhnInv
    <2>5. typo' \in {"no", "half", "made", "unseen"} /\ typo' # "half"
      BY <2>2
    <2> QED
      BY Zenon, <1>1, <2>1, <2>3, <2>4, <2>5
  <1>5. CASE End
    <2>1. /\ ended' = TRUE /\ alone' \in BOOLEAN /\ (finder = "findAadhaar" => read = 12)
          /\ finder' = finder /\ read' = read /\ sum' = sum /\ typedSum' = typedSum
          /\ payloadSum' = payloadSum /\ check' = check /\ front' = front /\ typo' = typo
      BY <1>5 DEF End
    <2>2. ChecksumsTypeOK'
      <3>1. ended' \in BOOLEAN
        BY <2>1
      <3> QED
        BY Zenon, <1>0, <2>1, <3>1 DEF ChecksumsTypeOK
    <2>3. (VerhoeffInv => VerhoeffInv') /\ (LuhnInv => LuhnInv')
      BY Zenon, <2>1 DEF VerhoeffInv, LuhnInv
    <2> QED
      BY <2>1, <2>2, <2>3 DEF ChecksumsInv
  <1>6. CASE UNCHANGED checksumVars
    BY Zenon, <1>6 DEF checksumVars, ChecksumsInv, ChecksumsTypeOK, VerhoeffInv, LuhnInv
  <1> QED
    BY <1>2, <1>3, <1>4, <1>5, <1>6 DEF ChecksumsNext

(* No Aadhaar or card number of any digits that is reported is reported    *)
(* with one wrong digit or two neighbours exchanged (09 and 90 of a card   *)
(* apart), and verhoeffCheck makes the digit that verhoeffOK expects.      *)
THEOREM CheckDigitsTell == ChecksumsSpec => []TyposAreRejected
  <1>1. ChecksumsInit => ChecksumsInv
    <2> SUFFICES ASSUME ChecksumsInit PROVE ChecksumsInv
      OBVIOUS
    <2>1. /\ read = 0 /\ ended = FALSE /\ alone = FALSE /\ sum = 0 /\ typedSum = 0
          /\ payloadSum = 0 /\ check = 0 /\ front = <<0, 0>> /\ typo = "no"
          /\ finder \in {"findAadhaar", "findCreditCard"}
      BY DEF ChecksumsInit, AtRest
    <2>2. ChecksumsTypeOK
      <3>0. ended \in BOOLEAN /\ alone \in BOOLEAN
        BY Zenon, <2>1
      <3>1. 0 \in Digit /\ 0 \in Nat
        BY DEF Digit
      <3>2. front \in Digit \X Digit
        BY <2>1, <3>1
      <3>3. /\ finder \in {"none", "findAadhaar", "findCreditCard"}
            /\ typo \in {"no", "half", "made", "unseen"}
        BY <2>1
      <3> QED
        BY Zenon, <2>1, <3>0, <3>1, <3>2, <3>3 DEF ChecksumsTypeOK
    <2>3. VerhoeffInv /\ LuhnInv
      BY <2>1 DEF VerhoeffInv, LuhnInv, Digit
    <2> QED
      BY <2>1, <2>2, <2>3 DEF ChecksumsInv
  <1>2. ChecksumsInv => TyposAreRejected
    <2> SUFFICES ASSUME ChecksumsInv, ended PROVE TyposAreRejected
      BY DEF TyposAreRejected
    <2>0. finder \in {"findAadhaar", "findCreditCard"} /\ payloadSum \in Digit /\ check \in Digit
      BY DEF ChecksumsInv, ChecksumsTypeOK
    <2>1. CASE finder = "findAadhaar"
      <3>1. VerhoeffInv /\ read = 12
        BY <2>1 DEF ChecksumsInv
      <3>2. sum = Dihedral(check, payloadSum)
        BY <3>1 DEF VerhoeffInv
      <3>3. verhoeffOK(sum) <=> check = verhoeffCheck
        BY Zenon, <2>0, <3>2, InverseIsRight DEF verhoeffOK, verhoeffCheck
      <3>4. typo = "made" => sum # typedSum
        BY <3>1 DEF VerhoeffInv
      <3> QED
        BY Zenon, <2>1, <3>3, <3>4 DEF TyposAreRejected, Found, findAadhaar, verhoeffOK
    <2>2. CASE finder = "findCreditCard"
      <3>1. /\ sum \in Nat /\ typedSum \in Nat
            /\ typo = "made" => sum - typedSum \in -9..9 /\ sum # typedSum
        BY <2>2 DEF ChecksumsInv, LuhnInv
      <3>2. typo = "made" => ~(sum % 10 = 0 /\ typedSum % 10 = 0)
        BY <3>1
      <3>3. finder # "findAadhaar"
        BY <2>2
      <3> QED
        BY Zenon, <3>2, <3>3 DEF TyposAreRejected, Found, findCreditCard, luhnOK
    <2> QED
      BY <2>0, <2>1, <2>2
  <1> QED
    BY <1>1, <1>2, ChecksumsStep, PTL DEF ChecksumsSpec

-----------------------------------------------------------------------------
BreakerInv == TypeOK /\ LoopKnows /\ NeverStuckOpen

(* newHandoff starts with a closed breaker and no failures.                *)
LEMMA BreakerInit == Init => BreakerInv
<1> SUFFICES ASSUME Init PROVE BreakerInv
  OBVIOUS
<1>1. q \in Seq(Callers)
  BY DEF Init
<1>2. TypeOK
  BY Zenon, <1>1 DEF Init, TypeOK
<1>3. LoopKnows /\ NeverStuckOpen
  BY HandoffAssumption DEF Init, LoopKnows, NeverStuckOpen
<1> QED BY <1>2, <1>3 DEF BreakerInv

(* A step of handle keeps the invariant: a caller that takes the token is  *)
(* itself on its way to the queue, or gives the token back.                *)
LEMMA HandleKeeps ==
  ASSUME BreakerInv, NEW c \in Callers, Handle(c)
  PROVE  BreakerInv'
<1> USE DEF BreakerInv, TypeOK, LoopKnows, NeverStuckOpen, Goto, Return, callerVars, postVars
<1>1. CASE Enter(c)
  BY <1>1 DEF Enter
<1>2. CASE Swap(c)
  BY Zenon, <1>2 DEF Swap
<1>3. CASE Send(c)
  <2>1. CASE Len(q) < QueueCap
    <3>1. q' = Append(q, c)
      BY <1>3, <2>1 DEF Send
    <3>2. q' \in Seq(Callers) /\ q' # <<>>
      BY <3>1
    <3> QED BY Zenon, <1>3, <2>1, <3>2 DEF Send
  <2>2. CASE ~(Len(q) < QueueCap)
    BY Zenon, <1>3, <2>2 DEF Send
  <2> QED BY Zenon, <2>1, <2>2
<1>4. CASE Full(c)
  BY Zenon, <1>4 DEF Full
<1>5. CASE Restore(c)
  BY <1>5 DEF Restore
<1>6. CASE Receive(c)
  BY <1>6 DEF Receive
<1> QED BY Zenon, <1>1, <1>2, <1>3, <1>4, <1>5, <1>6 DEF Handle

(* A step of loop keeps it: a failed probe arms a timer, opening the       *)
(* breaker makes a token, and a token is cleared only when it is closed.   *)
LEMMA LoopKeeps ==
  ASSUME BreakerInv, Loop
  PROVE  BreakerInv'
<1> USE DEF BreakerInv, TypeOK, LoopKnows, NeverStuckOpen, callerVars, postVars, Answer
<1>1. CASE TakeItem
  <2>1. q' \in Seq(Callers) /\ cur' \in Callers
    BY <1>1 DEF TakeItem
  <2> QED BY <1>1, <2>1 DEF TakeItem
<1>2. ASSUME PostOk \/ PostFails
      PROVE  posts' \in [Callers -> Nat] /\ accepted' \in [Callers -> Nat]
  <2>1. posts' = [posts EXCEPT ![cur] = @ + 1]
    BY <1>2 DEF PostOk, PostFails, Posted
  <2>2. posts' \in [Callers -> Nat]
    BY <2>1
  <2>3. PICK n \in {0, 1} : accepted' = [accepted EXCEPT ![cur] = @ + n]
    BY <1>2 DEF PostOk, PostFails
  <2>4. accepted' \in [Callers -> Nat]
    BY <2>3
  <2> QED BY SMTT(30), <2>2, <2>4
<1>3. CASE ProbeOk
  <2>1. PostOk \/ PostFails
    BY <1>3 DEF ProbeOk
  <2>2. posts' \in [Callers -> Nat] /\ accepted' \in [Callers -> Nat]
    BY SMTT(30), <2>1, <1>2
  <2>3. TypeOK'
    BY Zenon, <1>3, <2>2 DEF ProbeOk
  <2>4. LoopKnows' /\ NeverStuckOpen'
    BY <1>3, HandoffAssumption DEF ProbeOk
  <2> QED BY Zenon, <2>3, <2>4
<1>4. CASE Clear
  BY Zenon, <1>4 DEF Clear
<1>5. CASE ProbeFails
  BY Zenon, <1>5, <1>2 DEF ProbeFails
<1>6. CASE Arm
  BY <1>6 DEF Arm
<1>7. CASE SendOk
  <2>1. PostOk \/ PostFails
    BY <1>7 DEF SendOk
  <2>2. posts' \in [Callers -> Nat] /\ accepted' \in [Callers -> Nat]
    BY <2>1, <1>2
  <2>3. TypeOK'
    BY Zenon, <1>7, <2>2 DEF SendOk
  <2>4. LoopKnows' /\ NeverStuckOpen'
    BY <1>7, HandoffAssumption DEF SendOk
  <2> QED BY Zenon, <2>3, <2>4
<1>8. CASE SendFails
  <2>1. PostOk \/ PostFails
    BY <1>8 DEF SendFails
  <2>2. posts' \in [Callers -> Nat] /\ accepted' \in [Callers -> Nat]
    BY <2>1, <1>2
  <2>3. failures' = failures + 1 /\ lpc = "post"
    BY <1>8 DEF SendFails
  <2>4. CASE failures + 1 >= Limit
    <3>1. open' = TRUE /\ lpc' = "allow"
      BY <1>8, <2>4 DEF SendFails
    <3>2. TypeOK'
      BY <1>8, <2>2, <2>3, <3>1 DEF SendFails
    <3> QED BY <2>3, <3>1, <3>2
  <2>5. CASE ~(failures + 1 >= Limit)
    <3>1. open' = open /\ lpc' = lpc
      BY <1>8, <2>5 DEF SendFails
    <3>2. TypeOK'
      BY <1>8, <2>2, <2>3, <3>1 DEF SendFails
    <3> QED BY SMTT(30), <2>3, <2>5, <3>1, <3>2, HandoffAssumption
  <2> QED BY Zenon, <2>4, <2>5
<1>9. CASE Allow
  BY <1>9 DEF Allow
<1> QED BY Zenon, <1>1, <1>3, <1>4, <1>5, <1>6, <1>7, <1>8, <1>9 DEF Loop

(* Every step keeps it.                                                    *)
LEMMA BreakerKeeps == BreakerInv /\ [Next]_vars => BreakerInv'
<1> SUFFICES ASSUME BreakerInv, [Next]_vars PROVE BreakerInv'
  OBVIOUS
<1>1. CASE \E c \in Callers : Handle(c)
  BY <1>1, HandleKeeps
<1>2. CASE Loop
  BY <1>2, LoopKeeps
<1>3. CASE Timer
  BY <1>3 DEF Timer, BreakerInv, TypeOK, LoopKnows, NeverStuckOpen, callerVars, postVars
<1>4. CASE ControlPlane
  BY <1>4 DEF ControlPlane, BreakerInv, TypeOK, LoopKnows, NeverStuckOpen, callerVars, postVars
<1>5. CASE UNCHANGED vars
  BY <1>5 DEF vars, BreakerInv, TypeOK, LoopKnows, NeverStuckOpen, callerVars, postVars
<1> QED BY <1>1, <1>2, <1>3, <1>4, <1>5 DEF Next

(* An open breaker is never without a token, a timer or a line that will   *)
(* bring one back (handoff.go: handle, loop).                              *)
THEOREM BreakerNeverStuck == Spec => []NeverStuckOpen
<1>1. BreakerInv => NeverStuckOpen
  BY DEF BreakerInv
<1> QED BY BreakerInit, BreakerKeeps, <1>1, PTL DEF Spec

-----------------------------------------------------------------------------
(* What becomes of one line. A line in the queue is there once, its caller *)
(* waits for it and it was never posted; neither is the one loop works on  *)
(* in the queue. The posts of that one are counted by failures.            *)
Waits(c) == pc[c] = "wait" /\ reply[c] = "none"

Queued ==
  \A i \in 1..Len(q) :
    /\ Waits(q[i]) /\ posts[q[i]] = 0
    /\ \A j \in 1..Len(q) : q[i] = q[j] => i = j

Busy == lpc \in {"probe", "post", "clear", "allow"}

Current ==
  /\ Busy => Waits(cur) /\ \A i \in 1..Len(q) : q[i] # cur
  /\ lpc = "probe" => posts[cur] = 0
  /\ lpc = "post" => posts[cur] <= failures
  /\ lpc = "clear" => accepted[cur] > 0

Answers ==
  \A c \in Callers :
    /\ reply[c] = "ok" => accepted[c] > 0
    /\ fate[c] = "held" => accepted[c] > 0
    /\ pc[c] \in {"swap", "send"} => reply[c] = "none" /\ posts[c] = 0

LineInv == Queued /\ Current /\ Answers /\ PostsBounded

(* A step of handle touches only a line that is not in the queue, or puts  *)
(* it there.                                                               *)
LEMMA HandleKeepsLines ==
  ASSUME BreakerInv, LineInv, NEW c \in Callers, Handle(c)
  PROVE  LineInv'
<1> USE DEF BreakerInv, TypeOK, LineInv, Waits, Busy, Goto, Return, callerVars, postVars
<1>0. /\ \A i \in 1..Len(q) : q[i] \in Callers
      /\ 0 <= Limit
  BY HandoffAssumption
<1>1. CASE Enter(c)
  <2>1. pc[c] = "idle" /\ (\A i \in 1..Len(q) : q[i] # c) /\ (Busy => cur # c)
    BY <1>1 DEF Enter, Queued, Current
  <2>2. Queued'
    BY SMTT(30), <1>0, <1>1, <2>1 DEF Enter, Queued
  <2>3. Current'
    BY <1>0, <1>1, <2>1 DEF Enter, Current
  <2>4. Answers' /\ PostsBounded'
    BY <1>0, <1>1, <2>1 DEF Enter, Answers, PostsBounded
  <2> QED BY <2>2, <2>3, <2>4
<1>2. CASE Swap(c) \/ Full(c) \/ Restore(c)
  <2>1. pc[c] # "wait" /\ UNCHANGED <<reply, posts, accepted, q, lpc, cur, failures>>
    BY <1>2 DEF Swap, Full, Restore
  <2>2. /\ pc' \in [Callers -> {"idle", "swap", "send", "full", "restore", "wait"}]
        /\ \A d \in Callers \ {c} : pc'[d] = pc[d] /\ fate'[d] = fate[d]
        /\ fate'[c] = fate[c] \/ fate'[c] = "failPolicy"
        /\ pc'[c] \in {"swap", "send"} => pc[c] = "swap"
    BY Zenon, <1>2 DEF Swap, Full, Restore
  <2>3. Queued'
    <3>1. \A i \in 1..Len(q) : q[i] # c
      BY SMTT(30), <2>1 DEF Queued
    <3>2. \A i \in 1..Len(q) : pc'[q[i]] = "wait"
      <4>1. \A i \in 1..Len(q) : q[i] \in Callers \ {c} /\ pc[q[i]] = "wait"
        BY Zenon, <1>0, <3>1 DEF Queued
      <4> QED BY Zenon, <2>2, <4>1
    <3>3. q' = q /\ reply' = reply /\ posts' = posts
      BY Zenon, <2>1
    <3> QED BY Zenon, <3>2, <3>3 DEF Queued
  <2>4. Current'
    BY Zenon, <1>0, <2>1, <2>2 DEF Current
  <2>5. Answers' /\ PostsBounded'
    BY <2>1, <2>2 DEF Answers, PostsBounded
  <2> QED BY <2>3, <2>4, <2>5
<1>3. CASE Send(c) /\ Len(q) < QueueCap
  <2>1. /\ pc[c] = "send" /\ q' = Append(q, c) /\ pc' = [pc EXCEPT ![c] = "wait"]
        /\ UNCHANGED <<fate, reply, posts, accepted, lpc, cur, failures>>
    BY <1>3 DEF Send
  <2>2. reply[c] = "none" /\ posts[c] = 0
    BY <2>1 DEF Answers
  <2>3. /\ Len(q') = Len(q) + 1 /\ Len(q) \in Nat /\ q'[Len(q) + 1] = c
        /\ \A i \in 1..Len(q) : q'[i] = q[i] /\ q[i] # c
    BY SMTT(30), <2>1 DEF Queued
  <2>4. \A i \in 1..Len(q') : i \in 1..Len(q) \/ i = Len(q) + 1
    BY SMTT(30), <2>3
  <2>5. Queued'
    <3> SUFFICES ASSUME NEW i \in 1..Len(q')
                 PROVE  /\ pc'[q'[i]] = "wait" /\ reply'[q'[i]] = "none" /\ posts'[q'[i]] = 0
                        /\ \A j \in 1..Len(q') : q'[i] = q'[j] => i = j
      BY DEF Queued
    <3>1. CASE i = Len(q) + 1
      BY <2>1, <2>2, <2>3, <2>4, <3>1
    <3>2. CASE i \in 1..Len(q)
      BY SMTT(60), <1>0, <2>1, <2>3, <2>4, <3>2 DEF Queued
    <3> QED BY <2>4, <3>1, <3>2
  <2>6. Current'
    <3>1. Busy => cur # c
      BY <2>1 DEF Current
    <3>2. Busy' => Waits(cur)' /\ \A i \in 1..Len(q') : q'[i] # cur'
      BY <1>0, <2>1, <2>3, <2>4, <3>1 DEF Current
    <3> QED BY <2>1, <3>2 DEF Current
  <2>7. Answers' /\ PostsBounded'
    BY <2>1, <2>2 DEF Answers, PostsBounded
  <2> QED BY <2>5, <2>6, <2>7
<1>4. CASE Send(c) /\ ~(Len(q) < QueueCap)
  <2>1. /\ pc[c] = "send" /\ pc' = [pc EXCEPT ![c] = "full"]
        /\ UNCHANGED <<fate, reply, posts, accepted, q, lpc, cur, failures>>
    BY <1>4 DEF Send
  <2>2. Queued'
    BY SMTT(30), <1>0, <2>1 DEF Queued
  <2>3. Current'
    BY <1>0, <2>1 DEF Current
  <2>4. Answers' /\ PostsBounded'
    BY <2>1 DEF Answers, PostsBounded
  <2> QED BY <2>2, <2>3, <2>4
<1>5. CASE Receive(c)
  <2>1. /\ pc[c] = "wait" /\ reply[c] # "none" /\ pc' = [pc EXCEPT ![c] = "idle"]
        /\ fate' = [fate EXCEPT ![c] = IF reply[c] = "ok" THEN "held" ELSE "failPolicy"]
        /\ UNCHANGED <<reply, posts, accepted, q, lpc, cur, failures>>
    BY <1>5 DEF Receive
  <2>2. (\A i \in 1..Len(q) : q[i] # c) /\ (Busy => cur # c)
    BY <2>1 DEF Queued, Current
  <2>3. Queued'
    BY SMTT(30), <1>0, <2>1, <2>2 DEF Queued
  <2>4. Current'
    BY <1>0, <2>1, <2>2 DEF Current
  <2>5. Answers' /\ PostsBounded'
    BY <2>1 DEF Answers, PostsBounded
  <2> QED BY <2>3, <2>4, <2>5
<1> QED BY <1>1, <1>2, <1>3, <1>4, <1>5 DEF Handle

(* A step of loop posts a line at most Limit times, and answers "ok" only  *)
(* after a post that made a job.                                           *)
LEMMA LoopKeepsLines ==
  ASSUME BreakerInv, LineInv, Loop
  PROVE  LineInv'
<1> USE DEF BreakerInv, TypeOK, LineInv, Waits, Busy, callerVars, postVars
<1>0. \A i \in 1..Len(q) : q[i] \in Callers
  OBVIOUS
<1>1. CASE TakeItem
  <2>1. /\ lpc = "idle" /\ q # <<>> /\ cur' = Head(q) /\ q' = Tail(q)
        /\ lpc' = IF open THEN "probe" ELSE "post"
        /\ UNCHANGED <<pc, fate, reply, posts, accepted, failures>>
    BY <1>1 DEF TakeItem
  <2>2. /\ Len(q) \in Nat \ {0} /\ Len(q') = Len(q) - 1 /\ cur' = q[1]
        /\ \A i \in 1..Len(q') : q'[i] = q[i + 1] /\ i + 1 \in 2..Len(q)
    BY <2>1
  <2>3. Waits(cur)' /\ posts[cur'] = 0
    BY <2>1, <2>2 DEF Queued
  <2>4. \A i \in 1..Len(q') : q'[i] # cur'
    BY <2>1, <2>2 DEF Queued
  <2>5. Queued'
    BY <2>1, <2>2 DEF Queued
  <2>6. Current'
    BY <2>1, <2>3, <2>4 DEF Current
  <2>7. Answers' /\ PostsBounded'
    BY <2>1 DEF Answers, PostsBounded
  <2> QED BY <2>5, <2>6, <2>7
<1> DEFINE Rest ==
      \A d \in Callers \ {cur} :
        reply'[d] = reply[d] /\ posts'[d] = posts[d] /\ accepted'[d] = accepted[d]
<1>2. ASSUME Busy, UNCHANGED <<pc, fate, q, cur>>, Rest,
             reply'[cur] = "ok" => accepted'[cur] > 0,
             accepted'[cur] >= accepted[cur], accepted'[cur] \in Nat,
             posts'[cur] <= Limit, Current'
      PROVE  LineInv'
  <2>1. pc[cur] = "wait" /\ \A i \in 1..Len(q) : q[i] # cur
    BY <1>2 DEF Current
  <2>2. Queued'
    BY SMTT(30), <1>0, <1>2, <2>1 DEF Queued
  <2>3. Answers'
    BY SMTT(30), <1>2, <2>1 DEF Answers
  <2>4. PostsBounded'
    BY SMTT(30), <1>2 DEF PostsBounded
  <2> QED BY SMTT(30), <1>2, <2>2, <2>3, <2>4
<1>3. ASSUME PostOk \/ PostFails
      PROVE  /\ posts'[cur] = posts[cur] + 1 /\ accepted'[cur] \in Nat
             /\ accepted'[cur] >= accepted[cur] /\ (PostOk => accepted'[cur] > 0)
             /\ \A d \in Callers \ {cur} : posts'[d] = posts[d] /\ accepted'[d] = accepted[d]
  <2>1. posts' = [posts EXCEPT ![cur] = @ + 1]
    BY <1>3 DEF PostOk, PostFails, Posted
  <2>2. PICK n \in {0, 1} : accepted' = [accepted EXCEPT ![cur] = @ + n] /\ (PostOk => n = 1)
    <3>1. CASE PostOk
      BY <3>1 DEF PostOk
    <3>2. CASE PostFails
      BY Zenon, <3>2 DEF PostOk, PostFails
    <3> QED BY <1>3, <3>1, <3>2
  <2> QED BY <2>1, <2>2
<1>4. 0 < Limit /\ Limit \in Nat /\ posts \in [Callers -> Nat] /\ cur \in Callers
  BY SMTT(30), HandoffAssumption
<1>5. CASE ProbeOk
  <2>1. /\ lpc = "probe" /\ PostOk /\ lpc' = "clear" /\ UNCHANGED <<pc, fate, reply, q, cur>>
    BY <1>5 DEF ProbeOk
  <2>2. posts[cur] = 0 /\ reply[cur] = "none"
    BY SMTT(30), <2>1 DEF Current
  <2>3. Current'
    BY <1>3, <2>1 DEF Current
  <2> QED BY <1>2, <1>3, <1>4, <2>1, <2>2, <2>3
<1>6. CASE Clear
  <2>1. /\ lpc = "clear" /\ lpc' = "idle" /\ reply' = [reply EXCEPT ![cur] = "ok"]
        /\ UNCHANGED <<pc, fate, posts, accepted, q, cur>>
    BY <1>6 DEF Clear, Answer
  <2>2. accepted[cur] > 0 /\ posts[cur] <= Limit
    BY <2>1 DEF Current, PostsBounded
  <2>3. Current'
    BY SMTT(30), <2>1 DEF Current
  <2> QED BY <1>2, <1>4, <2>1, <2>2, <2>3
<1>7. CASE ProbeFails
  <2>1. /\ lpc = "probe" /\ PostFails /\ lpc' = "arm" /\ reply' = [reply EXCEPT ![cur] = "no"]
        /\ UNCHANGED <<pc, fate, q, cur>>
    BY <1>7 DEF ProbeFails, Answer
  <2>2. posts[cur] = 0
    BY SMTT(30), <2>1 DEF Current
  <2>3. Current'
    BY SMTT(30), <2>1 DEF Current
  <2> QED BY <1>2, <1>3, <1>4, <2>1, <2>2, <2>3
<1>8. CASE Arm
  <2>1. /\ lpc' = "idle" /\ UNCHANGED <<pc, fate, reply, posts, accepted, q, cur>>
    BY SMTT(30), <1>8 DEF Arm
  <2> QED BY <2>1 DEF Queued, Current, Answers, PostsBounded
<1>9. CASE SendOk
  <2>1. /\ lpc = "post" /\ PostOk /\ lpc' = "idle" /\ reply' = [reply EXCEPT ![cur] = "ok"]
        /\ UNCHANGED <<pc, fate, q, cur>>
    BY <1>9 DEF SendOk, Answer
  <2>2. posts[cur] + 1 <= Limit
    BY SMTT(30), <1>4, <2>1 DEF Current, LoopKnows
  <2>3. Current'
    BY SMTT(30), <2>1 DEF Current
  <2> QED BY <1>2, <1>3, <1>4, <2>1, <2>2, <2>3
<1>10. CASE SendFails
  <2>1. /\ lpc = "post" /\ PostFails /\ lpc' \in {"post", "allow"} /\ failures' = failures + 1
        /\ UNCHANGED <<pc, fate, reply, q, cur>>
    BY <1>10 DEF SendFails
  <2>2. posts[cur] <= failures /\ failures < Limit /\ reply[cur] = "none"
    BY SMTT(30), <2>1 DEF Current, LoopKnows
  <2>3. Current'
    BY SMTT(30), <1>3, <1>4, <2>1, <2>2 DEF Current
  <2> QED BY <1>2, <1>3, <1>4, <2>1, <2>2, <2>3
<1>11. CASE Allow
  <2>1. /\ lpc = "allow" /\ lpc' = "idle" /\ reply' = [reply EXCEPT ![cur] = "no"]
        /\ UNCHANGED <<pc, fate, posts, accepted, q, cur>>
    BY <1>11 DEF Allow, Answer
  <2>2. posts[cur] <= Limit
    BY DEF PostsBounded
  <2>3. Current'
    BY <2>1 DEF Current
  <2> QED BY <1>2, <1>4, <2>1, <2>2, <2>3
<1> QED BY <1>1, <1>5, <1>6, <1>7, <1>8, <1>9, <1>10, <1>11 DEF Loop

(* LineInv holds of every line.                                            *)
THEOREM LineInvariant == Spec => [](BreakerInv /\ LineInv)
<1>1. Init => LineInv
  BY HandoffAssumption DEF Init, LineInv, Queued, Current, Busy, Answers, PostsBounded
<1>2. BreakerInv /\ LineInv /\ [Next]_vars => LineInv'
  <2> SUFFICES ASSUME BreakerInv, LineInv, [Next]_vars PROVE LineInv'
    BY SMTT(30)
  <2>1. ASSUME UNCHANGED <<callerVars, reply, postVars, q, lpc, cur, failures>> PROVE LineInv'
    BY <2>1 DEF callerVars, postVars, LineInv, Queued, Current, Busy, Answers, PostsBounded, Waits
  <2>2. CASE Timer \/ ControlPlane \/ UNCHANGED vars
    BY <2>1, <2>2 DEF Timer, ControlPlane, vars
  <2> QED BY <2>2, HandleKeepsLines, LoopKeepsLines DEF Next
<1> QED BY <1>1, <1>2, BreakerInit, BreakerKeeps, PTL DEF Spec

(* handle reports a line as held only if one of its posts made a job.      *)
THEOREM HeldLinesAccepted == Spec => []HeldIsAccepted
<1>1. LineInv => HeldIsAccepted
  BY DEF LineInv, Answers, HeldIsAccepted
<1> QED BY <1>1, LineInvariant, PTL

(* loop posts a line at most handoffBreakerLimit times.                    *)
THEOREM LinePostsBounded == Spec => []PostsBounded
<1>1. LineInv => PostsBounded
  BY DEF LineInv
<1> QED BY <1>1, LineInvariant, PTL
=============================================================================
