---------------------------------- MODULE MRZ ----------------------------------
(***************************************************************************)
(* The two parsers of a document's machine-readable zone: the SDK's        *)
(* (utils/mrz.ts), which normalises and repairs what the OCR misread, and  *)
(* the backend's (IdentityService.parseMRZ), which takes it as it is.      *)
(*                                                                         *)
(* A reading is the zone as the OCR returned it, cut at the columns both   *)
(* parsers use: characters are kept, for the check digits are computed     *)
(* from them; the columns that are only copied (type, state, nationality,  *)
(* sex, an empty personal number) are left out.                            *)
(***************************************************************************)
EXTENDS Integers, Sequences, SequencesExt

CONSTANTS
    Today,          \* <<year, month, day>>: the date both parsers read
    Noise           \* the fields cut from lines that are no MRZ

ASSUME TodayAssumption == Today \in (2000 .. 2098) \X (1 .. 12) \X (1 .. 31)

(***************************************************************************)
(* Characters.  The OCR's whitelist allows letters, digits and the filler. *)
(***************************************************************************)
Digits == <<"0", "1", "2", "3", "4", "5", "6", "7", "8", "9">>
Letters == <<"A", "B", "C", "D", "E", "F", "G", "H", "I", "J", "K", "L", "M",
             "N", "O", "P", "Q", "R", "S", "T", "U", "V", "W", "X", "Y", "Z">>
Char == ToSet(Digits \o Letters) \cup {"<"}

ValueOf == [c \in Char |->
    IF c = "<" THEN 0
    ELSE CHOOSE v \in 0 .. 35 : (Digits \o Letters)[v + 1] = c]
IsDigit(c) == c \in ToSet(Digits)

Numeric == [c \in Char |->
    CASE c \in {"O", "Q", "D", "U"} -> "0"
      [] c \in {"I", "L", "J", "T", "7"} -> "1"
      [] c = "Z" -> "2"
      [] c = "A" -> "4"
      [] c = "S" -> "5"
      [] c = "G" -> "6"
      [] c = "B" -> "8"
      [] OTHER -> c]

Alphabetic == [c \in Char |->
    CASE c = "0" -> "O" [] c = "1" -> "I" [] c = "2" -> "Z" [] c = "4" -> "A"
      [] c = "5" -> "S" [] c = "6" -> "G" [] c = "8" -> "B" [] OTHER -> c]

Blanked(s, l) ==
    [i \in DOMAIN s |-> IF \A k \in i .. Len(s) : s[k] = l THEN "<" ELSE s[i]]

NormalizeNumeric(s) == [i \in DOMAIN s |-> Numeric[s[i]]]
NormalizeAlphabetic(s) ==
    LET t == Blanked(Blanked(s, "L"), "I") IN [i \in DOMAIN t |-> Alphabetic[t[i]]]
WithoutFiller(s) ==
    LET kept[i \in 0 .. Len(s)] ==
            IF i = 0 THEN <<>>
            ELSE IF s[i] = "<" THEN kept[i - 1] ELSE Append(kept[i - 1], s[i])
    IN  kept[Len(s)]

(***************************************************************************)
(* Check digits: weights 7, 3, 1 modulo 10.                                *)
(***************************************************************************)
Weights == <<7, 3, 1>>

CheckDigit(s) ==
    LET sum[i \in 0 .. Len(s)] ==
            IF i = 0 THEN 0 ELSE sum[i - 1] + ValueOf[s[i]] * Weights[1 + ((i - 1) % 3)]
    IN  Digits[1 + (sum[Len(s)] % 10)]

Ambiguities == [c \in Char |->
    CASE c = "8" -> <<"B">> [] c = "B" -> <<"8">>
      [] c = "0" -> <<"O", "D", "Q">> [] c = "O" -> <<"0", "D", "Q">>
      [] c = "1" -> <<"I", "L", "T">> [] c = "I" -> <<"1", "L", "T">>
      [] c = "5" -> <<"S">> [] c = "S" -> <<"5">>
      [] c = "2" -> <<"Z">> [] c = "Z" -> <<"2">>
      [] OTHER -> <<>>]

Swaps(s) == {w \in (DOMAIN s) \X (1 .. 3) : w[2] \in DOMAIN Ambiguities[s[w[1]]]}
Swapped(s, w) == [s EXCEPT ![w[1]] = Ambiguities[@][w[2]]]

\* Faulty variant: a repaired field is not reported as repaired.
ValidateSilently(s, check) ==
    LET digit == Numeric[check]
        right == {w \in Swaps(s) : CheckDigit(Swapped(s, w)) = digit}
    IN  [valid |-> CheckDigit(s) = digit \/ right # {},
         value |-> IF CheckDigit(s) = digit \/ right = {} THEN s
                   ELSE Swapped(s, CHOOSE w \in right : TRUE),
         wasRepaired |-> FALSE]

\* Strategies in order: as read, all numeric, then the first single swap of
\* an ambiguous character, position by position, that fits.
ValidateCheckDigitWithRepair(s, check) ==
    LET digit == Numeric[check]
        right == {w \in Swaps(s) : CheckDigit(Swapped(s, w)) = digit}
        first == CHOOSE w \in right : \A x \in right :
                     w[1] < x[1] \/ (w[1] = x[1] /\ w[2] <= x[2])
        Repaired(value) == [valid |-> TRUE, value |-> value, wasRepaired |-> TRUE]
    IN  CASE CheckDigit(s) = digit ->
                [valid |-> TRUE, value |-> s, wasRepaired |-> FALSE]
          [] CheckDigit(s) # digit /\ CheckDigit(NormalizeNumeric(s)) = digit ->
                Repaired(NormalizeNumeric(s))
          [] CheckDigit(s) # digit /\ CheckDigit(NormalizeNumeric(s)) # digit
                 /\ right # {} ->
                Repaired(Swapped(s, first))
          [] OTHER -> [valid |-> FALSE, value |-> s, wasRepaired |-> FALSE]

(***************************************************************************)
(* Dates and ages.  parseInt reads the leading digits and is NaN if there  *)
(* are none; Date rolls a day that the month lacks over to the next month. *)
(***************************************************************************)
NaN == -1
Undated == <<>>
NoAge == -1000

ParseInt(a, b) ==
    CASE ~IsDigit(a) -> NaN
      [] IsDigit(a) /\ ~IsDigit(b) -> ValueOf[a]
      [] OTHER -> 10 * ValueOf[a] + ValueOf[b]

Clamp(lo, n, hi) == IF n < lo THEN lo ELSE IF n > hi THEN hi ELSE n

DaysIn(y, m) ==
    CASE m \in {4, 6, 9, 11} -> 30
      [] m = 2 -> IF y % 4 = 0 /\ (y % 100 # 0 \/ y % 400 = 0) THEN 29 ELSE 28
      [] OTHER -> 31

IsDate(date) ==
    Len(date) = 3 /\ date[2] \in 1 .. 12 /\ date[3] \in 1 .. DaysIn(date[1], date[2])

\* Faulty variant: the day is not rolled over.
NewDateRaw(y, m, d) == <<y, m, d>>

NewDate(y, m, d) ==
    IF d <= DaysIn(y, m) THEN <<y, m, d>> ELSE <<y, m + 1, d - DaysIn(y, m)>>

ParseDate(s, isDOB) ==
    LET t == NormalizeNumeric(s)
        yy == ParseInt(t[1], t[2])
        mm == ParseInt(t[3], t[4])
        dd == ParseInt(t[5], t[6])
        year == IF isDOB /\ yy > Today[1] % 100 THEN 1900 + yy ELSE 2000 + yy
    IN  IF NaN \in {yy, mm, dd} THEN Undated
        ELSE NewDate(year, Clamp(1, mm, 12), Clamp(1, dd, 31))

CalculateAge(born) ==
    IF born = Undated THEN NoAge
    ELSE Today[1] - born[1]
         - (IF Today[2] < born[2] \/ (Today[2] = born[2] /\ Today[3] < born[3])
            THEN 1 ELSE 0)

(***************************************************************************)
(* The SDK's parser.  strict stands for options.strict && !options.force.  *)
(* parseTD1 checks and reads the same fields from other columns, but it    *)
(* normalises the names before it splits them, when fillers still follow,  *)
(* and it does not report wasRepaired.                                     *)
(***************************************************************************)
Rejected == [ok |-> FALSE]

CompositeBase(z) ==
    z.number \o <<z.numberCheck>> \o z.dob \o <<z.dobCheck>>
             \o z.expiry \o <<z.expiryCheck>>

ParseFields(format, z, strict) ==
    LET doc == ValidateCheckDigitWithRepair(z.number, z.numberCheck)
        dob == ValidateCheckDigitWithRepair(z.dob, z.dobCheck)
        exp == ValidateCheckDigitWithRepair(z.expiry, z.expiryCheck)
        all == ValidateCheckDigitWithRepair(CompositeBase(z), z.composite)
        born == ParseDate(dob.value, TRUE)
    IN  IF strict /\ ~(doc.valid /\ dob.valid /\ exp.valid) THEN Rejected
        ELSE [ok |-> TRUE,
              lastName |-> IF format = "TD1"
                           THEN [i \in DOMAIN z.name |-> Alphabetic[z.name[i]]]
                           ELSE WithoutFiller(NormalizeAlphabetic(z.name)),
              documentNumber |-> WithoutFiller(doc.value),
              dateOfBirth |-> born,
              expiryDate |-> ParseDate(exp.value, FALSE),
              age |-> CalculateAge(born),
              valid |-> doc.valid /\ dob.valid /\ exp.valid,
              composite |-> all.valid,
              wasRepaired |-> format = "TD3"
                  /\ (doc.wasRepaired \/ dob.wasRepaired
                      \/ exp.wasRepaired \/ all.wasRepaired)]

\* Faulty variant: any three lines are taken for an identity card's.
ExtractMRZDataEager(r, strict) ==
    IF r.format = "TD1" THEN ParseFields("TD1", IF r.noise = 0 THEN r.zone ELSE Noise, strict)
    ELSE IF r.noise >= 1 THEN ParseFields("TD1", Noise, strict)
    ELSE ParseFields("TD3", r.zone, strict)

\* The lines of the reading: noise lines of a card's length come first, then
\* the zone.  Three lines of that length are taken for a card's, whatever
\* they are; else two lines of a passport's length for a passport's.
ExtractMRZData(r, strict) ==
    CASE r.format = "TD1" ->
            ParseFields("TD1", IF r.noise = 0 THEN r.zone ELSE Noise, strict)
      [] r.format = "TD3" /\ r.noise >= 3 -> ParseFields("TD1", Noise, strict)
      [] r.format = "TD3" /\ r.noise < 3 -> ParseFields("TD3", r.zone, strict)

(***************************************************************************)
(* The backend's parser: passports only, nothing repaired, no check digit  *)
(* looked at, a fixed pivot for the century, and an age in calendar years. *)
(* The first line must be 44 characters long: a stray line of a card's     *)
(* length, or the last column lost, leaves it without a result.            *)
(***************************************************************************)
Pivot == 30
FirstLineFits(r) == r.format = "TD3" /\ r.noise = 0 /\ ~r.cut

\* Faulty variant: the century pivots the other way.
ParseMRZPivotSwapped(r) ==
    LET yy == ParseInt(r.zone.dob[1], r.zone.dob[2]) IN
    IF ~FirstLineFits(r) \/ yy = NaN THEN [ok |-> FALSE]
    ELSE [ok |-> TRUE, documentNumber |-> WithoutFiller(r.zone.number),
          age |-> Today[1] - (IF yy < Pivot THEN 1900 + yy ELSE 2000 + yy)]

ParseMRZ(r) ==
    LET yy == ParseInt(r.zone.dob[1], r.zone.dob[2])
        birthYear == IF yy > Pivot THEN 1900 + yy ELSE 2000 + yy
    IN  IF ~FirstLineFits(r) THEN [ok |-> FALSE]
        ELSE [ok |-> TRUE,
              documentNumber |-> WithoutFiller(r.zone.number),
              age |-> IF yy = NaN THEN NoAge ELSE Today[1] - birthYear]
================================================================================
