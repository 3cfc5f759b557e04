------------------------------- MODULE MRZProofs -------------------------------
(***************************************************************************)
(* Proofs about the two parsers of a machine-readable zone, for any zone:  *)
(* what a check digit can tell, when a field is taken as it was read, and  *)
(* which days a date can be.                                               *)
(*                                                                         *)
(* What a recursive function computes is shown by induction on the length  *)
(* of its sequence, over the set of the numbers of which it holds.         *)
(***************************************************************************)
EXTENDS MRZ, TLAPS, WellFoundedInduction

(* Induction: a set that holds 0 and the successor of each natural number  *)
(* it holds has them all, for the smallest it lacks would have none before *)
(* it.                                                                     *)
LEMMA Induction ==
  ASSUME NEW S, 0 \in S, \A n \in Nat : n \in S => n + 1 \in S
  PROVE  Nat \subseteq S
<1> DEFINE T == Nat \ S
<1> SUFFICES ASSUME T # {} PROVE FALSE
  OBVIOUS
<1>1. PICK x \in T : \A y \in T : <<y, x>> \notin OpToRel(<, Nat)
  BY NatLessThanWellFounded, WFMin
<1>2. x \in Nat /\ x # 0
  OBVIOUS
<1>3. x - 1 \in Nat /\ (x - 1) + 1 = x /\ x - 1 < x
  BY <1>2
<1>4. x - 1 \notin S
  BY <1>2, <1>3
<1>5. <<x - 1, x>> \in OpToRel(<, Nat)
  BY <1>2, <1>3 DEF OpToRel
<1>6. QED
  BY <1>1, <1>3, <1>4, <1>5

--------------------------------------------------------------------------------
(* Characters.                                                             *)

(* A digit is one of the ten.                                              *)
LEMMA DigitIs ==
  ASSUME NEW c
  PROVE  IsDigit(c) <=> \E n \in 0 .. 9 : c = Digits[n + 1]
<1>1. DOMAIN Digits = 1 .. 10
  BY DEF Digits
<1>2. \A n \in 0 .. 9 : n + 1 \in 1 .. 10
  OBVIOUS
<1>3. \A i \in 1 .. 10 : i - 1 \in 0 .. 9 /\ (i - 1) + 1 = i
  OBVIOUS
<1> HIDE DEF Digits
<1>4. QED
  BY <1>1, <1>2, <1>3 DEF IsDigit, ToSet

(* Digits and letters are 36 characters, one for each value.               *)
LEMMA Alphabet ==
  /\ Len(Digits \o Letters) = 36
  /\ \A v \in 0 .. 9 : (Digits \o Letters)[v + 1] = Digits[v + 1]
  /\ \A v \in 10 .. 35 : (Digits \o Letters)[v + 1] = Letters[v - 9]
  BY DEF Digits, Letters

(* Every place of the alphabet holds a character of the zone.              *)
LEMMA CharacterIs == \A i \in 1 .. 36 : (Digits \o Letters)[i] \in Char
<1>1. DOMAIN (Digits \o Letters) = 1 .. 36
  BY DEF Digits, Letters
<1> DEFINE all == Digits \o Letters
<1>2. DOMAIN all = 1 .. 36
  BY <1>1
<1> HIDE DEF all
<1>3. ToSet(all) \subseteq Char
  BY DEF Char, all
<1>4. QED
  BY <1>2, <1>3 DEF ToSet, all

(* No two digits are the same character, and no digit is a letter.         *)
LEMMA DigitsApart ==
  /\ \A m, n \in 0 .. 9 : Digits[m + 1] = Digits[n + 1] => m = n
  /\ \A m \in 0 .. 9, n \in 1 .. 26 : Digits[m + 1] # Letters[n]
  BY DEF Digits, Letters

(* A character has the value of its place, a digit its own.                *)
LEMMA ValueTyped ==
  ASSUME NEW c \in Char
  PROVE  ValueOf[c] \in 0 .. 35
<1>1. CASE c = "<"
  BY <1>1 DEF ValueOf
<1>2. CASE c # "<"
  <2>1. PICK i \in DOMAIN (Digits \o Letters) : (Digits \o Letters)[i] = c
    BY <1>2 DEF Char, ToSet
  <2>2. i \in 1 .. 36
    BY <2>1 DEF Digits, Letters
  <2>3. i - 1 \in 0 .. 35 /\ (i - 1) + 1 = i
    BY <2>2
  <2>4. \E v \in 0 .. 35 : (Digits \o Letters)[v + 1] = c
    BY <2>1, <2>3
  <2>5. QED
    BY <1>2, <2>4, Zenon DEF ValueOf
<1>3. QED
  BY <1>1, <1>2

(* A digit is worth the number it is.                                      *)
LEMMA DigitValue ==
  ASSUME NEW n \in 0 .. 9
  PROVE  /\ Digits[n + 1] \in Char /\ Digits[n + 1] # "<"
         /\ ValueOf[Digits[n + 1]] = n
<1> DEFINE c == Digits[n + 1]
<1>1. c # "<"
  BY DEF Digits
<1>2. c = (Digits \o Letters)[n + 1] /\ n + 1 \in DOMAIN (Digits \o Letters)
  <2>1. DOMAIN (Digits \o Letters) = 1 .. 36
    BY DEF Digits, Letters
  <2>2. n + 1 \in 1 .. 36
    OBVIOUS
  <2>3. (Digits \o Letters)[n + 1] = Digits[n + 1]
    BY Alphabet
  <2>4. QED
    BY <2>1, <2>2, <2>3
<1>3. c \in Char
  BY <1>2 DEF Char, ToSet
<1>4. \A v \in 0 .. 35 : (Digits \o Letters)[v + 1] = c => v = n
  <2> SUFFICES ASSUME NEW v \in 0 .. 35, (Digits \o Letters)[v + 1] = c PROVE v = n
    OBVIOUS
  <2>1. CASE v \in 0 .. 9
    BY <2>1, Alphabet, DigitsApart, ZenonT(40)
  <2>2. CASE v \in 10 .. 35
    <3>1. v - 9 \in 1 .. 26
      BY <2>2
    <3>2. (Digits \o Letters)[v + 1] = Letters[v - 9]
      BY <2>2, Alphabet
    <3>3. c = Letters[v - 9]
      BY <3>2
    <3>4. QED
      BY <3>1, <3>3, DigitsApart
  <2>3. QED
    BY <2>1, <2>2
<1> HIDE DEF c
<1>5. ValueOf[c] = CHOOSE v \in 0 .. 35 : (Digits \o Letters)[v + 1] = c
  BY <1>1, <1>3 DEF ValueOf
<1>6. ValueOf[c] = n
  BY <1>2, <1>4, <1>5
<1>7. QED
  BY <1>1, <1>3, <1>6 DEF c

--------------------------------------------------------------------------------
(* Check digits.                                                           *)

(* The sum a check digit is computed from, character by character.         *)
Weight(i) == Weights[1 + ((i - 1) % 3)]
Sums(s, f) ==
  f = [i \in 0 .. Len(s) |->
         IF i = 0 THEN 0 ELSE f[i - 1] + ValueOf[s[i]] * Weight(i)]

(* A weight is one of three.                                               *)
LEMMA WeightIs ==
  ASSUME NEW i \in Nat \ {0}
  PROVE  Weight(i) \in {7, 3, 1}
<1>1. (i - 1) % 3 \in 0 .. 2
  OBVIOUS
<1>2. 1 + ((i - 1) % 3) \in 1 .. 3
  BY <1>1
<1>3. \A k \in 1 .. 3 : Weights[k] \in {7, 3, 1}
  BY DEF Weights
<1>4. QED
  BY <1>2, <1>3 DEF Weight

(* What a character adds to the sum.                                       *)
LEMMA SumStep ==
  ASSUME NEW s \in Seq(Char), NEW i \in 1 .. Len(s)
  PROVE  ValueOf[s[i]] * Weight(i) \in Nat
<1>1. s[i] \in Char /\ i \in Nat \ {0}
  OBVIOUS
<1>2. ValueOf[s[i]] \in 0 .. 35
  BY <1>1, ValueTyped
<1>3. Weight(i) \in {7, 3, 1}
  BY <1>1, WeightIs
<1>4. \A v \in 0 .. 35 : v * 7 \in Nat /\ v * 3 \in Nat /\ v * 1 \in Nat
  OBVIOUS
<1>5. QED
  BY <1>2, <1>3, <1>4

(* There is such a sum for every sequence: the one of a prefix, and one    *)
(* more.                                                                   *)
LEMMA SumsExist ==
  ASSUME NEW s \in Seq(Char)
  PROVE  \E f : Sums(s, f)
<1> DEFINE step(i) == ValueOf[s[i]] * Weight(i)
           Upto(n, f) == f = [i \in 0 .. n |-> IF i = 0 THEN 0 ELSE f[i - 1] + step(i)]
           S == {n \in Nat : \E f : Upto(n, f)}
<1>1. 0 \in S
  <2>1. Upto(0, [i \in 0 .. 0 |-> 0])
    OBVIOUS
  <2>2. QED
    BY <2>1
<1> HIDE DEF step
<1>2. ASSUME NEW n \in Nat, n \in S PROVE n + 1 \in S
  <2>1. PICK f : Upto(n, f)
    BY <1>2
  <2> DEFINE g == [i \in 0 .. n + 1 |->
                     IF i = n + 1 THEN f[n] + step(n + 1) ELSE f[i]]
  <2>2. ASSUME NEW i \in 0 .. n + 1
        PROVE  g[i] = IF i = 0 THEN 0 ELSE g[i - 1] + step(i)
    <3>1. CASE i = 0
      BY <2>1, <3>1
    <3>2. CASE i # 0 /\ i # n + 1
      <4>1. i \in 0 .. n /\ i - 1 \in 0 .. n /\ i - 1 # n + 1 /\ i # 0
        BY <3>2
      <4>2. g[i] = f[i] /\ g[i - 1] = f[i - 1]
        BY <3>2, <4>1
      <4>3. f[i] = f[i - 1] + step(i)
        BY <2>1, <4>1
      <4>4. QED
        BY <4>1, <4>2, <4>3
    <3>3. CASE i = n + 1
      <4>1. g[i] = f[n] + step(i) /\ i - 1 = n /\ n \in 0 .. n + 1 /\ n # n + 1
        BY <3>3
      <4>2. g[n] = f[n]
        BY <4>1
      <4>3. QED
        BY <3>3, <4>1, <4>2
    <3>4. QED
      BY <3>1, <3>2, <3>3
  <2>3. Upto(n + 1, g)
    <3>1. g = [i \in 0 .. n + 1 |-> g[i]]
      OBVIOUS
    <3> HIDE DEF g
    <3>2. QED
      BY <2>2, <3>1
  <2> HIDE DEF g
  <2>4. \E h : Upto(n + 1, h)
    BY <2>3
  <2>5. QED
    BY <2>4
<1>3. Len(s) \in S
  <2> HIDE DEF S
  <2>1. QED
    BY <1>1, <1>2, Induction
<1>4. QED
  BY <1>3 DEF Sums, step

(* A check digit is the last sum modulo 10.                                *)
LEMMA CheckDigitIs ==
  ASSUME NEW s \in Seq(Char)
  PROVE  \E f : /\ f[0] = 0
                /\ \A i \in 0 .. Len(s) : f[i] \in Nat
                /\ \A i \in 1 .. Len(s) : f[i] = f[i - 1] + ValueOf[s[i]] * Weight(i)
                /\ CheckDigit(s) = Digits[1 + (f[Len(s)] % 10)]
<1> DEFINE f == CHOOSE g : Sums(s, g)
<1>1. Sums(s, f)
  BY SumsExist
<1>2. CheckDigit(s) = Digits[1 + (f[Len(s)] % 10)]
  BY DEF CheckDigit, Sums, Weight
<1> HIDE DEF f
<1>3. f[0] = 0 /\ \A i \in 1 .. Len(s) : f[i] = f[i - 1] + ValueOf[s[i]] * Weight(i)
  <2>1. Len(s) \in Nat
    OBVIOUS
  <2>2. \A i \in 0 .. Len(s) :
          f[i] = IF i = 0 THEN 0 ELSE f[i - 1] + ValueOf[s[i]] * Weight(i)
    BY <1>1 DEF Sums
  <2>3. QED
    BY <2>1, <2>2
<1>4. \A i \in 0 .. Len(s) : f[i] \in Nat
  <2> DEFINE S == {n \in Nat : n <= Len(s) => f[n] \in Nat}
  <2>1. 0 \in S
    BY <1>3
  <2>2. ASSUME NEW n \in Nat, n \in S PROVE n + 1 \in S
    <3> SUFFICES ASSUME n + 1 <= Len(s) PROVE f[n + 1] \in Nat
      OBVIOUS
    <3>1. n + 1 \in 1 .. Len(s) /\ (n + 1) - 1 = n /\ f[n] \in Nat
      BY <2>2
    <3>2. f[n + 1] = f[n] + ValueOf[s[n + 1]] * Weight(n + 1)
      BY <1>3, <3>1
    <3>3. QED
      BY <3>1, <3>2, SumStep
  <2> HIDE DEF S
  <2>3. Nat \subseteq S
    BY <2>1, <2>2, Induction
  <2>4. QED
    BY <2>3 DEF S
<1>5. QED
  BY <1>2, <1>3, <1>4

(* It is a digit, and no filler.                                           *)
LEMMA CheckDigitTyped ==
  ASSUME NEW s \in Seq(Char)
  PROVE  IsDigit(CheckDigit(s)) /\ CheckDigit(s) \in Char /\ CheckDigit(s) # "<"
<1>1. PICK f : f[Len(s)] \in Nat /\ CheckDigit(s) = Digits[1 + (f[Len(s)] % 10)]
  <2>1. Len(s) \in 0 .. Len(s)
    OBVIOUS
  <2>2. QED
    BY <2>1, CheckDigitIs
<1>2. PICK n \in 0 .. 9 : n = f[Len(s)] % 10
  BY <1>1
<1>3. CheckDigit(s) = Digits[n + 1]
  BY <1>1, <1>2
<1>4. QED
  BY <1>3, DigitIs, DigitValue

(* A check digit tells a character from any of another value modulo 10:    *)
(* the weights have no factor in common with 10.                           *)
THEOREM OneCharacter ==
  ASSUME NEW s \in Seq(Char), NEW k \in 1 .. Len(s), NEW c \in Char,
         CheckDigit([s EXCEPT ![k] = c]) = CheckDigit(s)
  PROVE  ValueOf[c] % 10 = ValueOf[s[k]] % 10
<1> DEFINE t == [s EXCEPT ![k] = c]
<1>1. t \in Seq(Char) /\ Len(t) = Len(s) /\ t[k] = c
      /\ \A i \in 1 .. Len(s) : i # k => t[i] = s[i]
  OBVIOUS
<1>2. CheckDigit(t) = CheckDigit(s)
  OBVIOUS
<1> HIDE DEF t
<1>3. PICK f : /\ f[0] = 0
               /\ \A i \in 0 .. Len(s) : f[i] \in Nat
               /\ \A i \in 1 .. Len(s) : f[i] = f[i - 1] + ValueOf[s[i]] * Weight(i)
               /\ CheckDigit(s) = Digits[1 + (f[Len(s)] % 10)]
  BY CheckDigitIs
<1>4. PICK g : /\ g[0] = 0
               /\ \A i \in 0 .. Len(s) : g[i] \in Nat
               /\ \A i \in 1 .. Len(s) : g[i] = g[i - 1] + ValueOf[t[i]] * Weight(i)
               /\ CheckDigit(t) = Digits[1 + (g[Len(s)] % 10)]
  BY <1>1, CheckDigitIs, ZenonT(40)
<1>5. PICK w \in {7, 3, 1} : w = Weight(k)
  BY WeightIs
<1>6. PICK v \in 0 .. 35 : v = ValueOf[c]
  BY ValueTyped
<1>7. PICK x \in 0 .. 35 : x = ValueOf[s[k]]
  <2>1. s[k] \in Char
    OBVIOUS
  <2>2. QED
    BY <2>1, ValueTyped
<1>8. PICK d \in Int : d = v * w - x * w
  OBVIOUS
<1> DEFINE S == {n \in Nat : n <= Len(s) => g[n] = f[n] + IF n < k THEN 0 ELSE d}
<1>9. 0 \in S
  <2>1. 0 < k
    OBVIOUS
  <2>2. g[0] = f[0] + 0
    BY <1>3, <1>4
  <2>3. QED
    BY <2>1, <2>2
<1>10. ASSUME NEW n \in Nat, n \in S PROVE n + 1 \in S
  <2> SUFFICES ASSUME n + 1 <= Len(s)
               PROVE  g[n + 1] = f[n + 1] + IF n + 1 < k THEN 0 ELSE d
    OBVIOUS
  <2>1. n + 1 \in 1 .. Len(s) /\ (n + 1) - 1 = n /\ n \in 0 .. Len(s)
    OBVIOUS
  <2>2. g[n] = f[n] + IF n < k THEN 0 ELSE d
    BY <1>10, <2>1
  <2>3. /\ f[n + 1] = f[n] + ValueOf[s[n + 1]] * Weight(n + 1)
        /\ g[n + 1] = g[n] + ValueOf[t[n + 1]] * Weight(n + 1)
    BY <1>3, <1>4, <2>1
  <2>4. f[n] \in Nat /\ g[n] \in Nat
    BY <1>3, <1>4, <2>1
  <2>5. CASE n + 1 # k
    <3>1. PICK a \in Nat : a = ValueOf[s[n + 1]] * Weight(n + 1)
      BY <2>1, SumStep
    <3>2. f[n + 1] = f[n] + a /\ g[n + 1] = g[n] + a
      BY <1>1, <2>1, <2>3, <2>5, <3>1
    <3>3. (n < k) <=> (n + 1 < k)
      BY <2>5
    <3>4. QED
      BY <2>2, <2>4, <3>2, <3>3
  <2>6. CASE n + 1 = k
    <3>1. n < k /\ ~(n + 1 < k)
      BY <2>6
    <3>2. g[n] = f[n]
      BY <2>2, <2>4, <3>1
    <3>3. f[n + 1] = f[n] + x * w /\ g[n + 1] = f[n] + v * w
      BY <1>1, <1>5, <1>6, <1>7, <2>3, <2>6, <3>2
    <3>4. PICK a \in Int, b \in Int : a = x * w /\ b = v * w
      OBVIOUS
    <3>5. QED
      BY <1>8, <2>4, <3>1, <3>3, <3>4
  <2>7. QED
    BY <2>5, <2>6
<1> HIDE DEF S
<1>11. Nat \subseteq S
  BY <1>9, <1>10, Induction
<1>12. PICK n \in Nat : n = Len(s)
  OBVIOUS
<1>13. PICK a \in Nat, b \in Nat : a = f[n] /\ b = g[n]
  <2>1. n \in 0 .. Len(s)
    BY <1>12
  <2>2. QED
    BY <1>3, <1>4, <2>1
<1>14. b = a + d
  <2>1. n \in S
    BY <1>11
  <2>2. n <= Len(s) /\ ~(n < k)
    BY <1>12
  <2>3. g[n] = f[n] + d
    BY <2>1, <2>2 DEF S
  <2>4. QED
    BY <1>13, <2>3
<1>15. a % 10 \in 0 .. 9 /\ b % 10 \in 0 .. 9
  OBVIOUS
<1>16. Digits[(a % 10) + 1] = Digits[(b % 10) + 1]
  <2>1. CheckDigit(s) = Digits[1 + (a % 10)] /\ CheckDigit(t) = Digits[1 + (b % 10)]
    BY <1>3, <1>4, <1>12, <1>13
  <2>2. 1 + (a % 10) = (a % 10) + 1 /\ 1 + (b % 10) = (b % 10) + 1
    BY <1>15
  <2>3. QED
    BY <1>2, <2>1, <2>2
<1>17. b % 10 = a % 10
  BY <1>15, <1>16, DigitsApart
<1>18. v % 10 = x % 10
  <2>1. CASE w = 7
    <3>1. b = a + (v * 7 - x * 7)
      BY <1>8, <1>14, <2>1
    <3>2. QED
      BY <1>17, <3>1
  <2>2. CASE w = 3
    <3>1. b = a + (v * 3 - x * 3)
      BY <1>8, <1>14, <2>2
    <3>2. QED
      BY <1>17, <3>1
  <2>3. CASE w = 1
    <3>1. b = a + (v - x)
      BY <1>8, <1>14, <2>3
    <3>2. QED
      BY <1>17, <3>1
  <2>4. QED
    BY <2>1, <2>2, <2>3
<1>19. QED
  BY <1>6, <1>7, <1>18

--------------------------------------------------------------------------------
(* Fields as they were read.                                               *)

(* Digits are read as they are, but for 7, which is read as 1.             *)
LEMMA NumericDigit ==
  ASSUME NEW c, IsDigit(c), c # "7"
  PROVE  Numeric[c] = c
<1>1. PICK n \in 0 .. 9 : c = Digits[n + 1]
  BY DigitIs
<1>2. c \in {"0", "1", "2", "3", "4", "5", "6", "8", "9"}
  BY <1>1 DEF Digits
<1>3. c \in Char
  BY <1>1, DigitValue
<1>4. QED
  BY <1>2, <1>3 DEF Numeric

(* The filler is not confused with a digit.                                *)
LEMMA NumericFiller == Numeric["<"] = "<"
  BY DEF Numeric, Char

(* A field whose check digit is right is taken as it was read.             *)
LEMMA ValidateRight ==
  ASSUME NEW s, NEW check, CheckDigit(s) = Numeric[check]
  PROVE  ValidateCheckDigitWithRepair(s, check) =
           [valid |-> TRUE, value |-> s, wasRepaired |-> FALSE]
  BY DEF ValidateCheckDigitWithRepair

(* A field that is valid and not reported as repaired is as it was read,   *)
(* and its check digit is right.                                           *)
LEMMA ValidateUnrepaired ==
  ASSUME NEW s, NEW check, ValidateCheckDigitWithRepair(s, check).valid,
         ~ValidateCheckDigitWithRepair(s, check).wasRepaired
  PROVE  CheckDigit(s) = Numeric[check] /\ ValidateCheckDigitWithRepair(s, check).value = s
<1>1. CASE CheckDigit(s) = Numeric[check]
  BY <1>1, ValidateRight
<1>2. CASE CheckDigit(s) # Numeric[check]
  BY <1>2 DEF ValidateCheckDigitWithRepair
<1>3. QED
  BY <1>1, <1>2

(* A filler is no check digit, whatever is swapped.                        *)
LEMMA NumericTyped ==
  ASSUME NEW c \in Char
  PROVE  Numeric[c] \in Char
<1>1. {"0", "1", "2", "4", "5", "6", "8"} \subseteq ToSet(Digits)
  <2>1. \A i \in 1 .. 10 : Digits[i] \in ToSet(Digits)
    BY DEF ToSet, Digits
  <2>2. QED
    BY <2>1 DEF Digits
<1>2. ToSet(Digits) \subseteq Char
  BY DigitIs, DigitValue DEF IsDigit
<1>3. QED
  BY <1>1, <1>2 DEF Numeric

(* A repair replaces a character of the zone by another.                   *)
LEMMA SwappedTyped ==
  ASSUME NEW s \in Seq(Char), NEW w \in Swaps(s)
  PROVE  Swapped(s, w) \in Seq(Char)
<1>1. w[1] \in 1 .. Len(s) /\ w[2] \in DOMAIN Ambiguities[s[w[1]]]
  BY DEF Swaps
<1>2. PICK c \in Char : c = s[w[1]]
  BY <1>1
<1>3. {"B", "8", "O", "D", "Q", "0", "I", "L", "T", "1", "S", "5", "Z", "2"} \subseteq Char
  <2>1. \A i \in 1 .. 10 : Digits[i] \in ToSet(Digits)
    BY DEF ToSet, Digits
  <2>2. ToSet(Digits) \subseteq Char
    BY DigitIs, DigitValue, SMTT(20) DEF IsDigit
  <2>3. {"8", "0", "1", "5", "2"} \subseteq Char
    BY <2>1, <2>2 DEF Digits
  <2>4. \A i \in 1 .. 36 : (Digits \o Letters)[i] \in Char
    BY CharacterIs
  <2>5. \A j \in 1 .. 26 : j + 10 \in 1 .. 36
    OBVIOUS
  <2>6. \A j \in 1 .. 26 : (Digits \o Letters)[j + 10] = Letters[j]
    BY SMTT(60) DEF Digits, Letters
  <2>7. \A j \in 1 .. 26 : Letters[j] \in Char
    BY <2>4, <2>5, <2>6
  <2>8. {"B", "O", "D", "Q", "I", "L", "T", "S", "Z"} \subseteq Char
    BY <2>7 DEF Letters
  <2>9. QED
    BY <2>3, <2>8
<1>4. \A k \in DOMAIN Ambiguities[c] : Ambiguities[c][k] \in Char
  BY <1>3 DEF Ambiguities
<1>5. Ambiguities[s[w[1]]][w[2]] \in Char
  BY <1>1, <1>2, <1>4
<1>6. QED
  BY <1>1, <1>5 DEF Swapped

(* A check digit that is missing repairs nothing.                          *)
LEMMA ValidateFiller ==
  ASSUME NEW s \in Seq(Char)
  PROVE  ~ValidateCheckDigitWithRepair(s, "<").wasRepaired
<1>1. Numeric["<"] = "<"
  BY NumericFiller
<1>2. CheckDigit(s) # "<"
  BY CheckDigitTyped
<1>3. NormalizeNumeric(s) \in Seq(Char)
  BY NumericTyped DEF NormalizeNumeric
<1>4. CheckDigit(NormalizeNumeric(s)) # "<"
  BY <1>3, CheckDigitTyped
<1>5. \A w \in Swaps(s) : CheckDigit(Swapped(s, w)) # "<"
  BY SwappedTyped, CheckDigitTyped
<1>6. QED
  BY <1>1, <1>2, <1>4, <1>5 DEF ValidateCheckDigitWithRepair

--------------------------------------------------------------------------------
(* Dates.                                                                  *)

(* Two digits are the number they print.                                   *)
LEMMA ParseDigits ==
  ASSUME NEW m \in 0 .. 9, NEW n \in 0 .. 9
  PROVE  ParseInt(Digits[m + 1], Digits[n + 1]) = 10 * m + n
<1>1. IsDigit(Digits[m + 1]) /\ IsDigit(Digits[n + 1])
  BY DigitIs
<1>2. ValueOf[Digits[m + 1]] = m /\ ValueOf[Digits[n + 1]] = n
  BY DigitValue
<1>3. QED
  BY <1>1, <1>2 DEF ParseInt

(* parseInt gives a number, for this model's NaN is one.                   *)
LEMMA ParseIntTyped ==
  ASSUME NEW a, NEW b
  PROVE  ParseInt(a, b) \in Int
<1>1. \A c : IsDigit(c) => ValueOf[c] \in 0 .. 9
  BY DigitIs, DigitValue
<1>2. CASE ~IsDigit(a)
  BY <1>2 DEF ParseInt, NaN
<1>3. CASE IsDigit(a) /\ ~IsDigit(b)
  BY <1>1, <1>3 DEF ParseInt
<1>4. CASE IsDigit(a) /\ IsDigit(b)
  <2>1. PICK m \in 0 .. 9, n \in 0 .. 9 : m = ValueOf[a] /\ n = ValueOf[b]
    BY <1>1, <1>4
  <2>2. ParseInt(a, b) = 10 * m + n
    BY <1>4, <2>1 DEF ParseInt
  <2>3. QED
    BY <2>2
<1>5. QED
  BY <1>2, <1>3, <1>4

(* A month has between 28 and 31 days.                                     *)
LEMMA DaysTyped ==
  ASSUME NEW y, NEW m
  PROVE  DaysIn(y, m) \in 28 .. 31 /\ (m = 12 => DaysIn(y, m) = 31)
  BY DEF DaysIn

(* A day that the month lacks rolls over to one that the next one has.     *)
LEMMA NewDateIsDay ==
  ASSUME NEW y \in Int, NEW m \in 1 .. 12, NEW d \in 1 .. 31
  PROVE  IsDate(NewDate(y, m, d))
<1>1. PICK k \in 28 .. 31 : k = DaysIn(y, m) /\ (m = 12 => k = 31)
  BY DaysTyped
<1>2. CASE d <= k
  <2>1. NewDate(y, m, d) = <<y, m, d>>
    BY <1>1, <1>2 DEF NewDate
  <2>2. d \in 1 .. k
    BY <1>2
  <2>3. QED
    BY <1>1, <2>1, <2>2 DEF IsDate
<1>3. CASE ~(d <= k)
  <2>1. NewDate(y, m, d) = <<y, m + 1, d - k>>
    BY <1>1, <1>3 DEF NewDate
  <2>2. m + 1 \in 1 .. 12 /\ d - k \in 1 .. 3
    BY <1>1, <1>3
  <2>3. PICK l \in 28 .. 31 : l = DaysIn(y, m + 1)
    BY DaysTyped
  <2>4. d - k \in 1 .. l
    BY <2>2
  <2>5. QED
    BY <2>1, <2>2, <2>3, <2>4 DEF IsDate
<1>4. QED
  BY <1>2, <1>3

(* Whatever a field holds, a date that is read from it is a day of the     *)
(* calendar.                                                               *)
THEOREM DateIsDay ==
  ASSUME NEW s, NEW isDOB
  PROVE  ParseDate(s, isDOB) = Undated \/ IsDate(ParseDate(s, isDOB))
<1> DEFINE t == NormalizeNumeric(s)
<1>1. PICK yy \in Int, mm \in Int, dd \in Int :
        yy = ParseInt(t[1], t[2]) /\ mm = ParseInt(t[3], t[4]) /\ dd = ParseInt(t[5], t[6])
  BY ParseIntTyped
<1>2. PICK year \in Int : year = IF isDOB /\ yy > Today[1] % 100 THEN 1900 + yy ELSE 2000 + yy
  OBVIOUS
<1>3. Clamp(1, mm, 12) \in 1 .. 12 /\ Clamp(1, dd, 31) \in 1 .. 31
  BY DEF Clamp
<1>4. \/ ParseDate(s, isDOB) = Undated
      \/ ParseDate(s, isDOB) = NewDate(year, Clamp(1, mm, 12), Clamp(1, dd, 31))
  BY <1>1, <1>2 DEF ParseDate
<1>5. QED
  BY <1>3, <1>4, NewDateIsDay

(* A day printed in six digits, its year modulo 100.                       *)
Day == (1900 .. 2099) \X (1 .. 12) \X (1 .. 31)
Prints(s, date) ==
  /\ s \in [1 .. 6 -> Char]
  /\ s \in Seq(Char)
  /\ \A i \in 1 .. 6 : IsDigit(s[i])
  /\ ParseInt(s[1], s[2]) = date[1] % 100
  /\ ParseInt(s[3], s[4]) = date[2]
  /\ ParseInt(s[5], s[6]) = date[3]

(* The year of a date is the one the parser takes its two digits for.      *)
InCentury(date, isDOB) ==
  date[1] = IF isDOB /\ date[1] % 100 > Today[1] % 100
            THEN 1900 + (date[1] % 100) ELSE 2000 + (date[1] % 100)

(* A day is its year, its month and its day.                               *)
LEMMA Triple ==
  ASSUME NEW A, NEW B, NEW C, NEW t, t \in A \X B \X C
  PROVE  t[1] \in A /\ t[2] \in B /\ t[3] \in C /\ t = <<t[1], t[2], t[3]>>
  OBVIOUS

(* A day of the calendar that is printed without a 7 is read as it is, in  *)
(* the century the parser takes it to be in.                               *)
LEMMA DateRead ==
  ASSUME NEW s, NEW date \in Day, Prints(s, date), IsDate(date), "7" \notin ToSet(s),
         NEW isDOB \in BOOLEAN, InCentury(date, isDOB)
  PROVE  ParseDate(s, isDOB) = date
<1>1. \A i \in 1 .. 6 : s[i] \in Char /\ IsDigit(s[i]) /\ s[i] # "7"
  BY DEF Prints, ToSet
<1>2. NormalizeNumeric(s) = s
  <2>1. \A i \in 1 .. 6 : Numeric[s[i]] = s[i]
    BY <1>1, NumericDigit
  <2>2. QED
    BY <2>1 DEF NormalizeNumeric, Prints
<1> DEFINE y == date[1] m == date[2] d == date[3]
<1>3. y \in 1900 .. 2099 /\ m \in 1 .. 12 /\ d \in 1 .. 31
      /\ y = date[1] /\ m = date[2] /\ d = date[3]
  BY DEF Day
<1> HIDE DEF y, m, d
<1>4. PICK yy \in 0 .. 99 : yy = y % 100
  BY <1>3
<1>5. ParseInt(s[1], s[2]) = yy /\ ParseInt(s[3], s[4]) = m /\ ParseInt(s[5], s[6]) = d
  BY <1>3, <1>4 DEF Prints
<1>6. NaN \notin {yy, m, d}
  BY <1>3 DEF NaN
<1>7. Clamp(1, m, 12) = m /\ Clamp(1, d, 31) = d
  BY <1>3 DEF Clamp
<1>8. y = IF isDOB /\ yy > Today[1] % 100 THEN 1900 + yy ELSE 2000 + yy
  BY <1>3, <1>4 DEF InCentury
<1>9. ParseDate(s, isDOB) = NewDate(y, m, d)
  BY <1>2, <1>5, <1>6, <1>7, <1>8 DEF ParseDate
<1>10. d <= DaysIn(y, m)
  BY <1>3, DaysTyped DEF IsDate
<1>11. date = <<y, m, d>>
  BY <1>3, Triple DEF Day
<1>12. QED
  BY <1>9, <1>10, <1>11 DEF NewDate

--------------------------------------------------------------------------------
(* Names.                                                                  *)

(* A field without fillers is kept as it is.                               *)
LEMMA NoFillerKept ==
  ASSUME NEW S, NEW s \in Seq(S), "<" \notin S
  PROVE  WithoutFiller(s) = s
<1> DEFINE Kept(f) == f = [i \in 0 .. Len(s) |->
                             IF i = 0 THEN <<>>
                             ELSE IF s[i] = "<" THEN f[i - 1] ELSE Append(f[i - 1], s[i])]
           f == CHOOSE g : Kept(g)
           prefix == [i \in 0 .. Len(s) |-> SubSeq(s, 1, i)]
<1>1. \A i \in 1 .. Len(s) : s[i] # "<"
  OBVIOUS
<1>2. SubSeq(s, 1, 0) = <<>> /\ SubSeq(s, 1, Len(s)) = s
  OBVIOUS
<1>3. ASSUME NEW i \in 1 .. Len(s)
      PROVE  SubSeq(s, 1, i) = Append(SubSeq(s, 1, i - 1), s[i])
  OBVIOUS
<1>4. Kept(prefix)
  <2>1. ASSUME NEW i \in 0 .. Len(s)
        PROVE  prefix[i] = IF i = 0 THEN <<>>
                           ELSE IF s[i] = "<" THEN prefix[i - 1]
                           ELSE Append(prefix[i - 1], s[i])
    <3>1. CASE i = 0
      BY <1>2, <3>1
    <3>2. CASE i # 0
      <4>1. i \in 1 .. Len(s) /\ i - 1 \in 0 .. Len(s)
        BY <3>2
      <4>2. prefix[i] = SubSeq(s, 1, i) /\ prefix[i - 1] = SubSeq(s, 1, i - 1)
        BY <4>1
      <4>3. QED
        BY <1>1, <1>3, <3>2, <4>1, <4>2
    <3>3. QED
      BY <3>1, <3>2
  <2>2. prefix = [i \in 0 .. Len(s) |-> prefix[i]]
    OBVIOUS
  <2> HIDE DEF prefix
  <2>3. QED
    BY <2>1, <2>2
<1>5. Kept(f)
  <2>1. \E g : Kept(g)
    BY <1>4
  <2>2. QED
    BY <2>1
<1>6. WithoutFiller(s) = f[Len(s)]
  BY DEF WithoutFiller
<1> HIDE DEF f
<1> DEFINE T == {n \in Nat : n <= Len(s) => f[n] = SubSeq(s, 1, n)}
<1>7. 0 \in T
  BY <1>2, <1>5
<1>8. ASSUME NEW n \in Nat, n \in T PROVE n + 1 \in T
  <2> SUFFICES ASSUME n + 1 <= Len(s) PROVE f[n + 1] = SubSeq(s, 1, n + 1)
    OBVIOUS
  <2>1. n + 1 \in 1 .. Len(s) /\ (n + 1) - 1 = n /\ f[n] = SubSeq(s, 1, n)
        /\ n + 1 \in 0 .. Len(s) /\ n + 1 # 0
    BY <1>8
  <2>2. f[n + 1] = Append(f[n], s[n + 1])
    BY <1>1, <1>5, <2>1
  <2>3. QED
    BY <1>3, <2>1, <2>2
<1> HIDE DEF T
<1>9. Nat \subseteq T
  BY <1>7, <1>8, Induction
<1>10. f[Len(s)] = SubSeq(s, 1, Len(s))
  BY <1>9 DEF T
<1>11. QED
  BY <1>2, <1>6, <1>10

(* A letter is a character that stays what it is in a name.                *)
LEMMA LetterIs ==
  ASSUME NEW c \in ToSet(Letters)
  PROVE  c \in Char /\ Alphabetic[c] = c /\ c # "<"
<1>1. PICK j \in 1 .. 26 : c = Letters[j]
  BY DEF ToSet, Letters
<1>2. c \in Char
  <2>1. \A i \in 1 .. 36 : (Digits \o Letters)[i] \in Char
    BY CharacterIs
  <2>2. (Digits \o Letters)[j + 10] = Letters[j]
    BY DEF Digits, Letters
  <2>3. j + 10 \in 1 .. 36
    OBVIOUS
  <2>4. QED
    BY <1>1, <2>1, <2>2, <2>3
<1>3. c \notin {"0", "1", "2", "4", "5", "6", "8", "<"}
  BY <1>1 DEF Letters
<1>4. QED
  BY <1>2, <1>3 DEF Alphabetic

(* A name of letters is kept, but a last L or I that a passport's is       *)
(* thought to be padded with.                                              *)
LEMMA NameKept ==
  ASSUME NEW s \in Seq(ToSet(Letters)), s # <<>>
  PROVE  /\ [i \in DOMAIN s |-> Alphabetic[s[i]]] = s
         /\ Last(s) \in {"L", "I"} \/ WithoutFiller(NormalizeAlphabetic(s)) = s
<1>1. [i \in DOMAIN s |-> Alphabetic[s[i]]] = s
  <2>1. \A i \in 1 .. Len(s) : s[i] \in ToSet(Letters)
    OBVIOUS
  <2>2. \A i \in 1 .. Len(s) : Alphabetic[s[i]] = s[i]
    BY <2>1, LetterIs
  <2>3. DOMAIN s = 1 .. Len(s) /\ s = [i \in DOMAIN s |-> s[i]]
    OBVIOUS
  <2>4. QED
    BY <2>2, <2>3
<1>2. ASSUME Last(s) \notin {"L", "I"} PROVE WithoutFiller(NormalizeAlphabetic(s)) = s
  <2>1. ASSUME NEW l \in {"L", "I"} PROVE Blanked(s, l) = s
    <3>1. Len(s) \in 1 .. Len(s) /\ s[Len(s)] # l
      BY <1>2 DEF Last
    <3>2. \A i \in 1 .. Len(s) : ~\A k \in i .. Len(s) : s[k] = l
      BY <3>1
    <3>3. DOMAIN s = 1 .. Len(s) /\ s = [i \in DOMAIN s |-> s[i]]
      OBVIOUS
    <3>4. QED
      BY <3>2, <3>3 DEF Blanked
  <2>2. NormalizeAlphabetic(s) = [i \in DOMAIN s |-> Alphabetic[s[i]]]
    BY <2>1 DEF NormalizeAlphabetic
  <2>3. "<" \notin ToSet(Letters)
    BY LetterIs
  <2>4. WithoutFiller(s) = s
    BY <2>3, NoFillerKept
  <2>5. QED
    BY <1>1, <2>2, <2>4
<1>3. QED
  BY <1>1, <1>2
================================================================================
