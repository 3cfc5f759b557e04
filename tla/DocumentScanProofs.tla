--------------------------- MODULE DocumentScanProofs ---------------------------
(***************************************************************************)
(* Proofs about DocumentScan: what becomes of the OCR workers, for any     *)
(* number of extractions and workers, whatever the readings are, and what  *)
(* an answer says of the document it was read from, for any documents and  *)
(* any confusion of characters.                                            *)
(***************************************************************************)
EXTENDS DocumentScan, MRZProofs

\* The types of what the worker and the calls are held in; what the calls and
\* the answers themselves say is in CallTyped and AnswerGiven below.
Typed ==
    /\ worker \in Worker \cup {None}
    /\ alive \subseteq Worker
    /\ call = [c \in Caller |-> call[c]]
    /\ initialized \in BOOLEAN /\ cleaning \in BOOLEAN
    /\ past \in BOOLEAN \X BOOLEAN \X BOOLEAN

\* Extractions that follow one another: one call at most; a worker is only
\* waited for when there is none; and one that is not ready is being
\* configured for the call there is.  A cleanup leaves none alive.
OneByOne ==
    ~overlapped /\ ~misconfigured =>
        /\ \A c, d \in Caller : call[c] # NoCall /\ call[d] # NoCall => c = d
        /\ alive \subseteq {worker}
        /\ \A c \in Caller : call[c].at = "create" => worker = None
        /\ ~initialized /\ worker # None => \E c \in Caller : call[c].at = "configure"
        /\ cleaning => worker # None /\ alive = {}

\* Undisturbed extractions: whatever worker is held is alive.
HeldIsAlive ==
    ~disturbed =>
        /\ cleaning => Running = {}
        /\ worker # None /\ ~cleaning => worker \in alive
        /\ initialized => worker # None
        /\ \A c \in Caller : call[c].at = "configure" => worker # None

IInv == Typed /\ OneByOne /\ HeldIsAlive

--------------------------------------------------------------------------------
(* What createWorker returns is a worker nobody has.                       *)
LEMMA NewWorkerIsNew ==
  ASSUME Unused # {}
  PROVE  NewWorker \in Worker /\ NewWorker \notin alive
BY DEF NewWorker, Unused

(* A caller that runs nothing is idle.                                     *)
LEMMA NoCallIsIdle == NoCall.at = "idle"
BY DEF NoCall

(* Recognize changes the call of c alone, to one that reads or to none.    *)
LEMMA RecognizeCall ==
  ASSUME Typed, NEW c \in Caller, NEW w, NEW strict, Recognize(c, w, strict)
  PROVE  /\ call' = [d \in Caller |-> call'[d]]
         /\ \A d \in Caller : d # c => call'[d] = call[d]
         /\ call'[c] = NoCall \/ call'[c].at = "recognize"
BY DEF Typed, Recognize, Fails, Await, NoCall

(* An extraction starts.                                                   *)
LEMMA ExtractKeeps ==
  ASSUME IInv, NEW c \in Caller, NEW strict \in BOOLEAN, Extract(c, strict)
  PROVE  IInv'
<1>1. /\ call' = [d \in Caller |-> call'[d]]
      /\ \A d \in Caller : d # c => call'[d] = call[d]
      /\ call'[c] = NoCall \/ call'[c].at \in {"recognize", "create"}
      /\ call'[c].at = "create" => ~initialized
  BY RecognizeCall, NoCallIsIdle DEF IInv, Extract, Typed, Recognize, Fails, Await, NoCall
<1>2. Typed'
  BY <1>1 DEF IInv, Typed, Extract, extractor, past
<1>3. OneByOne'
  <2> SUFFICES ASSUME ~overlapped', ~misconfigured' PROVE OneByOne'
    BY DEF OneByOne
  <2>1. Running = {} /\ ~overlapped /\ ~misconfigured /\ UNCHANGED <<worker, initialized, alive, cleaning>>
    BY DEF Extract, extractor, IInv, Typed, past
  <2>2. \A d \in Caller : call[d] = NoCall
    BY <2>1 DEF Running
  <2>3. ~initialized => worker = None
    BY <2>1, <2>2, NoCallIsIdle DEF IInv, OneByOne
  <2>4. QED
    BY <1>1, <2>1, <2>2, <2>3, NoCallIsIdle DEF IInv, OneByOne
<1>4. HeldIsAlive'
  <2> SUFFICES ASSUME ~disturbed' PROVE HeldIsAlive'
    BY DEF HeldIsAlive
  <2>1. ~disturbed /\ ~cleaning /\ UNCHANGED <<worker, initialized, alive, cleaning>>
    BY DEF Extract, extractor
  <2>2. QED
    BY <1>1, <2>1, NoCallIsIdle DEF IInv, HeldIsAlive
<1>5. QED
  BY <1>2, <1>3, <1>4 DEF IInv

(* createWorker answers.                                                   *)
LEMMA CreatedKeeps ==
  ASSUME IInv, NEW c \in Caller, WorkerCreated(c)
  PROVE  IInv'
<1>1. /\ call' = [d \in Caller |-> call'[d]]
      /\ \A d \in Caller : d # c => call'[d] = call[d]
      /\ call'[c].at = "configure" /\ call[c].at = "create" /\ call[c] # NoCall
  BY DEF IInv, Typed, WorkerCreated, Await, NoCall
<1>2. worker' \in Worker /\ alive' = alive \cup {worker'} /\ worker' # None
  BY NewWorkerIsNew, NoneAssumption DEF WorkerCreated
<1>3. UNCHANGED <<initialized, cleaning, overlapped, misconfigured, disturbed>>
  BY DEF WorkerCreated, past
<1>4. Typed'
  BY <1>1, <1>2, <1>3 DEF IInv, Typed, past
<1>5. OneByOne'
  <2> SUFFICES ASSUME ~overlapped, ~misconfigured PROVE OneByOne'
    BY <1>3 DEF OneByOne
  <2>1. worker = None /\ alive = {}
    BY <1>1, NoneAssumption DEF IInv, Typed, OneByOne
  <2>2. \A d \in Caller : call[d] # NoCall => d = c
    BY <1>1 DEF IInv, OneByOne
  <2>3. QED
    BY <1>1, <1>2, <1>3, <2>1, <2>2, NoCallIsIdle DEF IInv, OneByOne
<1>6. HeldIsAlive'
  <2> SUFFICES ASSUME ~disturbed PROVE HeldIsAlive'
    BY <1>3 DEF HeldIsAlive
  <2>1. ~cleaning
    BY <1>1 DEF IInv, HeldIsAlive, Running
  <2>2. QED
    BY <1>2, <1>3, <2>1 DEF HeldIsAlive
<1>7. QED
  BY <1>4, <1>5, <1>6 DEF IInv

(* setParameters answers.                                                  *)
LEMMA ConfiguredKeeps ==
  ASSUME IInv, NEW c \in Caller, WorkerConfigured(c)
  PROVE  IInv'
<1>1. /\ call' = [d \in Caller |-> call'[d]]
      /\ \A d \in Caller : d # c => call'[d] = call[d]
      /\ call'[c] = NoCall \/ call'[c].at = "recognize"
  BY RecognizeCall DEF IInv, WorkerConfigured
<1>2. call[c].at = "configure" /\ call[c] # NoCall
  BY DEF WorkerConfigured, NoCall
<1>3. /\ UNCHANGED <<worker, alive, cleaning, overlapped, misconfigured, disturbed>>
      /\ initialized' = TRUE
  BY DEF WorkerConfigured, past
<1>4. Typed'
  BY <1>1, <1>3 DEF IInv, Typed, past
<1>5. OneByOne'
  BY <1>1, <1>2, <1>3, NoCallIsIdle DEF IInv, OneByOne
<1>6. HeldIsAlive'
  <2>1. ~disturbed => Running # {}
    BY <1>2 DEF Running
  <2>2. QED
    BY <1>1, <1>2, <1>3, <2>1, NoCallIsIdle DEF IInv, HeldIsAlive
<1>7. QED
  BY <1>4, <1>5, <1>6 DEF IInv

(* A call ends, with an answer or an error.                                *)
LEMMA EndKeeps ==
  ASSUME IInv, NEW c \in Caller, call' = [call EXCEPT ![c] = NoCall],
         UNCHANGED <<worker, initialized, alive, cleaning, overlapped, disturbed>>,
         call[c].at = "configure" => misconfigured',
         misconfigured' \in BOOLEAN, ~misconfigured' => ~misconfigured
  PROVE  IInv'
<1>1. /\ call' = [d \in Caller |-> call'[d]]
      /\ \A d \in Caller : d # c => call'[d] = call[d]
      /\ call'[c] = NoCall
  BY DEF IInv, Typed
<1>2. Typed'
  BY <1>1 DEF IInv, Typed, past
<1>3. OneByOne'
  BY <1>1, NoCallIsIdle DEF IInv, OneByOne
<1>4. HeldIsAlive'
  BY <1>1, NoCallIsIdle DEF IInv, HeldIsAlive, Running
<1>5. QED
  BY <1>2, <1>3, <1>4 DEF IInv

(* terminate starts, and ends.                                             *)
LEMMA CleanupKeeps ==
  ASSUME IInv, Cleanup \/ WorkerTerminated
  PROVE  IInv'
<1>1. CASE Cleanup
  <2>1. Typed' /\ OneByOne'
    BY <1>1 DEF Cleanup, IInv, Typed, OneByOne, past
  <2>2. HeldIsAlive'
    BY <1>1 DEF Cleanup, IInv, Typed, HeldIsAlive, Running
  <2>3. QED
    BY <2>1, <2>2 DEF IInv
<1>2. CASE WorkerTerminated
  <2>1. Typed'
    BY <1>2 DEF WorkerTerminated, IInv, Typed, past
  <2>2. OneByOne'
    BY <1>2, NoneAssumption DEF WorkerTerminated, IInv, Typed, OneByOne, past
  <2>3. HeldIsAlive'
    <3>1. UNCHANGED <<call, disturbed>> /\ worker' = None /\ ~initialized' /\ ~cleaning'
      BY <1>2 DEF WorkerTerminated, past
    <3>2. ~disturbed => \A c \in Caller : call[c] = NoCall
      BY <1>2 DEF WorkerTerminated, IInv, HeldIsAlive, Running
    <3>3. QED
      BY <3>1, <3>2, NoCallIsIdle DEF HeldIsAlive
  <2>4. QED
    BY <2>1, <2>2, <2>3 DEF IInv
<1>3. QED
  BY <1>1, <1>2

--------------------------------------------------------------------------------
(* Every step keeps the invariant of the workers.                          *)
THEOREM StepKeeps == IInv /\ [Next]_vars => IInv'
<1> SUFFICES ASSUME IInv, [Next]_vars PROVE IInv'
  OBVIOUS
<1>1. ASSUME UNCHANGED <<worker, initialized, alive, call, cleaning, past>> PROVE IInv'
  BY <1>1 DEF IInv, Typed, OneByOne, HeldIsAlive, Running, past
<1>2. ASSUME NEW c \in Caller, Step(c) PROVE IInv'
  <2>1. CASE \E strict \in BOOLEAN : Extract(c, strict)
    BY <2>1, ExtractKeeps
  <2>2. CASE WorkerCreated(c)
    BY <2>2, CreatedKeeps
  <2>3. CASE WorkerConfigured(c)
    BY <2>3, ConfiguredKeeps
  <2>4. CASE Recognized(c)
    BY <2>4, EndKeeps DEF Recognized, extractor, past, IInv, Typed
  <2>5. CASE EngineFails(c)
    BY <2>5, EndKeeps DEF EngineFails, Fails, extractor, past, IInv, Typed
  <2>6. QED
    BY <1>2, <2>1, <2>2, <2>3, <2>4, <2>5 DEF Step
<1>3. CASE Cleanup \/ WorkerTerminated
  BY <1>3, CleanupKeeps
<1>4. CASE BackendExtract \/ Taken \/ UNCHANGED vars
  BY <1>1, <1>4 DEF BackendExtract, Taken, vars, extractor
<1>5. QED
  BY <1>2, <1>3, <1>4 DEF Next

(* The workers of any number of extractions: the inductive invariant.      *)
THEOREM Invariant == Spec => []IInv
<1>1. Init => IInv
  BY NoCallIsIdle DEF Init, IInv, Typed, OneByOne, HeldIsAlive, Running, past
<1>2. QED
  BY <1>1, StepKeeps, PTL DEF Spec

(* No OCR worker is lost to extractions that follow one another.           *)
THEOREM WorkersAccounted == Spec => []NoWorkerLost
<1>1. IInv => NoWorkerLost
  BY DEF IInv, OneByOne, NoWorkerLost
<1>2. QED
  BY <1>1, Invariant, PTL

(* An extractor that counts as initialised holds a live worker, however    *)
(* many extractions overlapped, unless a cleanup came in between.          *)
THEOREM ReadinessTrue == Spec => []ReadyIsAlive
<1>1. IInv => ReadyIsAlive
  BY DEF IInv, HeldIsAlive, ReadyIsAlive
<1>2. QED
  BY <1>1, Invariant, PTL

--------------------------------------------------------------------------------
(* What is printed on a document.                                          *)

(* A date is printed in six digits.                                        *)
LEMMA SixIs ==
  ASSUME NEW date \in Day
  PROVE  Prints(Six(date), date)
<1> DEFINE y == date[1] m == date[2] d == date[3]
<1>0. y \in 1900 .. 2099 /\ m \in 1 .. 12 /\ d \in 1 .. 31
  BY DEF Day
<1> HIDE DEF y, m, d
<1>1. ASSUME NEW n \in Nat
      PROVE  /\ IsDigit(Tens(n)) /\ Tens(n) \in Char
             /\ IsDigit(Ones(n)) /\ Ones(n) \in Char
             /\ ParseInt(Tens(n), Ones(n)) = n % 100
  <2>1. PICK a \in 0 .. 9 : a = (n % 100) \div 10
    OBVIOUS
  <2>2. PICK b \in 0 .. 9 : b = n % 10
    OBVIOUS
  <2>3. 10 * a + b = n % 100
    BY <2>1, <2>2
  <2>4. 1 + a = a + 1 /\ 1 + b = b + 1
    OBVIOUS
  <2>5. Tens(n) = Digits[a + 1] /\ Ones(n) = Digits[b + 1]
    BY <2>1, <2>2, <2>4 DEF Tens, Ones
  <2>6. QED
    BY <2>3, <2>5, DigitIs, DigitValue, ParseDigits
<1>2. y \in Nat /\ m \in Nat /\ d \in Nat /\ m % 100 = m /\ d % 100 = d
  BY <1>0
<1> DEFINE a == Tens(y) b == Ones(y) e == Tens(m) f == Ones(m) g == Tens(d) h == Ones(d)
<1>3. {a, b, e, f, g, h} \subseteq {c \in Char : IsDigit(c)}
  BY <1>1, <1>2
<1>4. ParseInt(a, b) = y % 100 /\ ParseInt(e, f) = m /\ ParseInt(g, h) = d
  BY <1>1, <1>2
<1>5. Six(date) = <<a, b, e, f, g, h>>
  BY DEF Six, y, m, d
<1> HIDE DEF a, b, e, f, g, h
<1> DEFINE t == <<a, b, e, f, g, h>>
<1>6. t \in [1 .. 6 -> Char]
  BY <1>3
<1>7. t \in Seq(Char)
  BY <1>3
<1>8. \A i \in 1 .. 6 : IsDigit(t[i])
  BY <1>3
<1>9. t[1] = a /\ t[2] = b /\ t[3] = e /\ t[4] = f /\ t[5] = g /\ t[6] = h
  OBVIOUS
<1>10. Six(date) = t
  BY <1>5
<1> HIDE DEF t
<1>11. /\ ParseInt(t[1], t[2]) = date[1] % 100
       /\ ParseInt(t[3], t[4]) = date[2]
       /\ ParseInt(t[5], t[6]) = date[3]
  BY <1>4, <1>9 DEF y, m, d
<1>12. QED
  BY <1>6, <1>7, <1>8, <1>10, <1>11 DEF Prints

(* A document's dates are days, and its holder was born.                   *)
LEMMA DatesAre ==
  ASSUME NEW x \in Document
  PROVE  /\ Data[x].born \in Day /\ IsDate(Data[x].born)
         /\ Data[x].born[1] <= Today[1]
         /\ Data[x].expires \in Day /\ IsDate(Data[x].expires)
         /\ Data[x].expires[1] >= 2000
<1>1. PICK n \in 2000 .. 2098 : n = Today[1]
  BY TodayAssumption
<1> DEFINE A == 1900 .. n B == 1 .. 12 C == 1 .. 31 D == 2000 .. 2099 E == 1900 .. 2099
           born == Data[x].born expires == Data[x].expires
<1>2. born \in A \X B \X C /\ IsDate(born) /\ expires \in D \X B \X C /\ IsDate(expires)
  BY <1>1, DocumentAssumption
<1>3. A \subseteq E /\ D \subseteq E /\ (\A i \in A : i <= n) /\ (\A i \in D : i >= 2000)
  OBVIOUS
<1> HIDE DEF A, B, C, D, E, born, expires
<1>4. born[1] \in A /\ born[2] \in B /\ born[3] \in C /\ born = <<born[1], born[2], born[3]>>
  BY <1>2, Triple
<1>5. /\ expires[1] \in D /\ expires[2] \in B /\ expires[3] \in C
      /\ expires = <<expires[1], expires[2], expires[3]>>
  BY <1>2, Triple
<1>6. \A a \in E, b \in B, c \in C : <<a, b, c>> \in E \X B \X C
  OBVIOUS
<1>7. born \in E \X B \X C /\ expires \in E \X B \X C
  BY <1>3, <1>4, <1>5, <1>6
<1>8. born[1] <= Today[1] /\ expires[1] >= 2000
  BY <1>1, <1>3, <1>4, <1>5
<1>9. QED
  BY <1>2, <1>7, <1>8, SMTT(20) DEF B, C, E, born, expires, Day

(* The zone of a document: each field is followed by its check digit.      *)
LEMMA PrintedIs ==
  ASSUME NEW d \in Document
  PROVE  /\ Printed(Data[d]).number = Data[d].number
         /\ Printed(Data[d]).number \in Seq(Char)
         /\ Printed(Data[d]).numberCheck = CheckDigit(Data[d].number)
         /\ Printed(Data[d]).dob = Six(Data[d].born)
         /\ Printed(Data[d]).dob \in Seq(Char)
         /\ Printed(Data[d]).dobCheck = CheckDigit(Six(Data[d].born))
         /\ Printed(Data[d]).expiry = Six(Data[d].expires)
         /\ Printed(Data[d]).expiry \in Seq(Char)
         /\ Printed(Data[d]).expiryCheck = CheckDigit(Six(Data[d].expires))
         /\ Printed(Data[d]).name = Data[d].name
         /\ Printed(Data[d]).composite = CheckDigit(CompositeBase(Printed(Data[d])))
         /\ CompositeBase(Printed(Data[d])) \in Seq(Char)
         /\ DOMAIN Printed(Data[d]) = {"number", "numberCheck", "dob", "dobCheck",
                                       "expiry", "expiryCheck", "name", "composite"}
<1> DEFINE r == Data[d]
<1>1. r.number \in Seq(Char)
  BY DocumentAssumption
<1> HIDE DEF r
<1>2. Six(r.born) \in Seq(Char) /\ Six(r.expires) \in Seq(Char)
  BY DatesAre, SixIs DEF r, Prints
<1> DEFINE z == [number |-> r.number, numberCheck |-> CheckDigit(r.number),
                 dob |-> Six(r.born), dobCheck |-> CheckDigit(Six(r.born)),
                 expiry |-> Six(r.expires), expiryCheck |-> CheckDigit(Six(r.expires)),
                 name |-> r.name, composite |-> "<"]
<1>3. Printed(r) = [z EXCEPT !.composite = CheckDigit(CompositeBase(z))]
  BY DEF Printed
<1>4. CompositeBase(Printed(r)) = CompositeBase(z)
  BY <1>3 DEF CompositeBase
<1>5. \A s \in Seq(Char) : CheckDigit(s) \in Char
  BY CheckDigitTyped
<1>6. CompositeBase(Printed(r)) \in Seq(Char)
  <2>1. CompositeBase(z) = r.number \o <<CheckDigit(r.number)>>
                             \o Six(r.born) \o <<CheckDigit(Six(r.born))>>
                             \o Six(r.expires) \o <<CheckDigit(Six(r.expires))>>
    BY DEF CompositeBase
  <2>2. PICK a \in Seq(Char), b \in Seq(Char), c \in Seq(Char) :
          a = r.number /\ b = Six(r.born) /\ c = Six(r.expires)
    BY <1>1, <1>2
  <2>3. PICK k \in Char, l \in Char, m \in Char :
          k = CheckDigit(a) /\ l = CheckDigit(b) /\ m = CheckDigit(c)
    BY <1>5
  <2>4. a \o <<k>> \o b \o <<l>> \o c \o <<m>> \in Seq(Char)
    OBVIOUS
  <2>5. CompositeBase(z) = a \o <<k>> \o b \o <<l>> \o c \o <<m>>
    BY <2>1, <2>2, <2>3
  <2> HIDE DEF z
  <2>6. QED
    BY <1>4, <2>4, <2>5
<1>7. QED
  BY <1>1, <1>2, <1>3, <1>4, <1>6 DEF r

(* What can happen to it.                                                  *)
LEMMA DamageIs ==
  ASSUME NEW z, NEW x, x \in Damage(z)
  PROVE  \/ x[1] = "noise" /\ x[2] \in 0 .. 3
         \/ x[1] = "cut"
         \/ /\ x[1] \in {"number", "dob", "expiry"}
            /\ x[2] \in 1 .. Len(z[x[1]])
            /\ x[3] \in Confused[z[x[1]][x[2]]]
         \/ x[1] \in {"numberCheck", "dobCheck", "expiryCheck"}
<1> DEFINE A == {<<"noise", n, "<">> : n \in 0 .. 3} \cup {<<"cut", 0, "<">>}
           B == UNION {UNION {{<<f, i, c>> : c \in Confused[z[f][i]]} : i \in 1 .. Len(z[f])} :
                         f \in {"number", "dob", "expiry"}}
           C == UNION {{<<f, 0, c>> : c \in Confused[z[f]]} :
                         f \in {"numberCheck", "dobCheck", "expiryCheck"}}
<1>1. Damage(z) = (A \cup B) \cup C
  BY Zenon DEF Damage
<1>2. CASE x \in A
  BY <1>2
<1>3. CASE x \in B
  <2>1. PICK f \in {"number", "dob", "expiry"} :
          x \in UNION {{<<f, i, c>> : c \in Confused[z[f][i]]} : i \in 1 .. Len(z[f])}
    BY <1>3, Zenon
  <2>2. PICK i \in 1 .. Len(z[f]) : x \in {<<f, i, c>> : c \in Confused[z[f][i]]}
    BY <2>1, Zenon
  <2>3. PICK c \in Confused[z[f][i]] : x = <<f, i, c>>
    BY <2>2
  <2>4. x[1] = f /\ x[2] = i /\ x[3] = c
    BY <2>3
  <2>5. QED
    BY <2>4
<1>4. CASE x \in C
  <2>1. PICK f \in {"numberCheck", "dobCheck", "expiryCheck"} :
          x \in {<<f, 0, c>> : c \in Confused[z[f]]}
    BY <1>4, Zenon
  <2>2. QED
    BY <2>1
<1> HIDE DEF A, B, C
<1>5. QED
  BY <1>1, <1>2, <1>3, <1>4, Zenon

(* An answer is what one of the parsers makes of a reading.                *)
LEMMA AnswerIs ==
  ASSUME NEW a, a \in StrictAnswer \cup LenientAnswer \cup BackendAnswer
  PROVE  \E d \in Document : \E x \in Damage(Printed(Data[d])) :
           /\ a.of = d /\ a.damage = x
           /\ \/ a.by = "strict" /\ a.result = ExtractMRZData(ReadingOf(d, x), TRUE)
              \/ a.by = "lenient" /\ a.result = ExtractMRZData(ReadingOf(d, x), FALSE)
              \/ a.by = "backend" /\ a.result = ParseMRZ(ReadingOf(d, x))
<1> DEFINE D(d) == Damage(Printed(Data[d]))
           A(d, x) == [by |-> "strict", of |-> d, damage |-> x,
                       result |-> ExtractMRZData(ReadingOf(d, x), TRUE)]
           B(d, x) == [by |-> "lenient", of |-> d, damage |-> x,
                       result |-> ExtractMRZData(ReadingOf(d, x), FALSE)]
           C(d, x) == [by |-> "backend", of |-> d, damage |-> x,
                       result |-> ParseMRZ(ReadingOf(d, x))]
<1>1. /\ StrictAnswer = UNION {{A(d, x) : x \in D(d)} : d \in Document}
      /\ LenientAnswer = UNION {{B(d, x) : x \in D(d)} : d \in Document}
      /\ BackendAnswer = UNION {{C(d, x) : x \in D(d)} : d \in Document}
  BY DEF StrictAnswer, LenientAnswer, BackendAnswer, Parses
<1> HIDE DEF A, B, C, D
<1>2. PICK d \in Document : \E x \in D(d) : a = A(d, x) \/ a = B(d, x) \/ a = C(d, x)
  BY <1>1
<1> PICK x \in D(d) : a = A(d, x) \/ a = B(d, x) \/ a = C(d, x)
  BY <1>2
<1> DEFINE strict == ExtractMRZData(ReadingOf(d, x), TRUE)
           lenient == ExtractMRZData(ReadingOf(d, x), FALSE)
           backend == ParseMRZ(ReadingOf(d, x))
<1>3. /\ a.of = d /\ a.damage = x
      /\ \/ a.by = "strict" /\ a.result = strict
         \/ a.by = "lenient" /\ a.result = lenient
         \/ a.by = "backend" /\ a.result = backend
  <2>1. /\ A(d, x) = [by |-> "strict", of |-> d, damage |-> x, result |-> strict]
        /\ B(d, x) = [by |-> "lenient", of |-> d, damage |-> x, result |-> lenient]
        /\ C(d, x) = [by |-> "backend", of |-> d, damage |-> x, result |-> backend]
    BY DEF A, B, C
  <2> HIDE DEF strict, lenient, backend
  <2>2. QED
    BY <2>1
<1>4. x \in Damage(Printed(Data[d]))
  BY DEF D
<1>5. QED
  BY <1>3, <1>4

(* What is left of the zone: all of it but the composite check digit, or   *)
(* all but one character of a field, or the fields without their check     *)
(* digits.                                                                 *)
Outcome(z, x, y) ==
  \/ /\ x[1] \in {"noise", "cut"}
     /\ y.number = z.number /\ y.numberCheck = z.numberCheck
     /\ y.dob = z.dob /\ y.dobCheck = z.dobCheck
     /\ y.expiry = z.expiry /\ y.expiryCheck = z.expiryCheck
     /\ y.name = z.name /\ y.composite \in {z.composite, "<"}
  \/ /\ x[1] \in {"number", "dob", "expiry"}
     /\ y.numberCheck = z.numberCheck /\ y.dobCheck = z.dobCheck
     /\ y.expiryCheck = z.expiryCheck
     /\ x[2] \in 1 .. Len(z[x[1]]) /\ x[3] \in Char
     /\ \A f \in {"number", "dob", "expiry"} :
            y[f] = IF f = x[1] THEN [z[f] EXCEPT ![x[2]] = x[3]] ELSE z[f]
  \/ /\ x[1] \in {"numberCheck", "dobCheck", "expiryCheck"}
     /\ y.number = z.number /\ y.dob = z.dob /\ y.expiry = z.expiry

(* What the OCR makes of a zone is one of these outcomes.                  *)
LEMMA DamagedIs ==
  ASSUME NEW d \in Document, NEW z, z = Printed(Data[d]), NEW x, x \in Damage(z)
  PROVE  Outcome(z, x, Damaged(z, x))
<1> DEFINE y == Damaged(z, x)
<1>0. y = Damaged(z, x)
  OBVIOUS
<1> HIDE DEF y
<1>1. DOMAIN z = {"number", "numberCheck", "dob", "dobCheck",
                  "expiry", "expiryCheck", "name", "composite"}
  BY PrintedIs
<1>2. z.number \in Seq(Char) /\ z.dob \in Seq(Char) /\ z.expiry \in Seq(Char)
  BY PrintedIs
<1>3. ASSUME x[1] = "noise" PROVE Outcome(z, x, y)
  BY <1>0, <1>3 DEF Damaged, Outcome
<1>4. ASSUME x[1] = "cut" PROVE Outcome(z, x, y)
  <2>1. y = [z EXCEPT !.composite = "<"]
    BY <1>0, <1>4 DEF Damaged
  <2>2. QED
    BY <1>1, <1>4, <2>1 DEF Outcome
<1>5. ASSUME x[1] \in {"number", "dob", "expiry"}, x[2] \in 1 .. Len(z[x[1]]),
             x[3] \in Confused[z[x[1]][x[2]]]
      PROVE  Outcome(z, x, y)
  <2>1. y = [z EXCEPT ![x[1]][x[2]] = x[3]]
    BY <1>0, <1>5 DEF Damaged
  <2>2. z[x[1]] \in Seq(Char)
    BY <1>2, <1>5
  <2>3. z[x[1]][x[2]] \in Char
    BY <1>5, <2>2
  <2>4. x[3] \in Char
    BY <1>5, <2>3, ConfusedAssumption
  <2>5. QED
    BY <1>1, <1>5, <2>1, <2>4 DEF Outcome
<1>6. ASSUME x[1] \in {"numberCheck", "dobCheck", "expiryCheck"} PROVE Outcome(z, x, y)
  <2>1. y = [z EXCEPT ![x[1]] = x[3]]
    BY <1>0, <1>6 DEF Damaged
  <2>2. QED
    BY <1>1, <1>6, <2>1 DEF Outcome
<1>7. QED
  BY <1>3, <1>4, <1>5, <1>6, DamageIs DEF y

(* The SDK's parser reads a card's zone, a passport's, or noise.           *)
LEMMA ExtractIs ==
  ASSUME NEW d \in Document, NEW x \in Damage(Printed(Data[d])), NEW strict \in BOOLEAN
  PROVE  /\ \E format, zone :
              ExtractMRZData(ReadingOf(d, x), strict) = ParseFields(format, zone, strict)
         /\ ReadingOf(d, x).noise <= (IF Data[d].format = "TD3" THEN 2 ELSE 0) =>
              ExtractMRZData(ReadingOf(d, x), strict) =
                ParseFields(Data[d].format, Damaged(Printed(Data[d]), x), strict)
         /\ ReadingOf(d, x).zone = Damaged(Printed(Data[d]), x)
<1> DEFINE r == ReadingOf(d, x)
<1>0. r = ReadingOf(d, x)
  OBVIOUS
<1> SUFFICES /\ \E format, zone : ExtractMRZData(r, strict) = ParseFields(format, zone, strict)
             /\ r.noise <= (IF Data[d].format = "TD3" THEN 2 ELSE 0) =>
                  ExtractMRZData(r, strict) =
                    ParseFields(Data[d].format, Damaged(Printed(Data[d]), x), strict)
             /\ r.zone = Damaged(Printed(Data[d]), x)
  OBVIOUS
<1> HIDE DEF r
<1>1. r.noise \in 0 .. 3
  BY <1>0, DamageIs DEF ReadingOf
<1>2. Data[d].format \in {"TD1", "TD3"}
  BY DocumentAssumption
<1>3. r.format = Data[d].format /\ r.zone = Damaged(Printed(Data[d]), x)
  BY <1>0 DEF ReadingOf
<1>4. CASE Data[d].format = "TD1"
  <2>1. ExtractMRZData(r, strict) =
          ParseFields("TD1", IF r.noise = 0 THEN r.zone ELSE Noise, strict)
    BY <1>3, <1>4 DEF ExtractMRZData
  <2>2. QED
    BY <1>1, <1>3, <1>4, <2>1
<1>5. CASE Data[d].format = "TD3" /\ r.noise >= 3
  <2>1. ExtractMRZData(r, strict) = ParseFields("TD1", Noise, strict)
    BY <1>1, <1>3, <1>5 DEF ExtractMRZData
  <2>2. QED
    BY <1>1, <1>3, <1>5, <2>1
<1>6. CASE Data[d].format = "TD3" /\ r.noise < 3
  <2>1. ExtractMRZData(r, strict) = ParseFields("TD3", r.zone, strict)
    BY <1>1, <1>3, <1>6 DEF ExtractMRZData
  <2>2. QED
    BY <1>3, <1>6, <2>1
<1>7. QED
  BY <1>1, <1>2, <1>4, <1>5, <1>6

(* A check digit that is no 7 is read as it is.                            *)
LEMMA CheckRead ==
  ASSUME NEW s \in Seq(Char), CheckDigit(s) # "7"
  PROVE  Numeric[CheckDigit(s)] = CheckDigit(s)
  BY CheckDigitTyped, NumericDigit

(* A holder born less than a century ago, and a document that expires in   *)
(* this one, have dates in the centuries the parser takes them to be in.   *)
ThisCentury(date) == date[1] > Today[1] - 100

(* A holder of less than a hundred years was born in the century the       *)
(* parser takes a birth to be in.                                          *)
LEMMA BornInCentury ==
  ASSUME NEW x \in Document, ThisCentury(Data[x].born)
  PROVE  InCentury(Data[x].born, TRUE)
<1> DEFINE Past(date) == date[1] <= Today[1]
<1>1. ASSUME NEW date \in Day, Past(date), ThisCentury(date)
      PROVE  InCentury(date, TRUE)
  <2>1. PICK n \in 2000 .. 2098 : n = Today[1]
    BY TodayAssumption
  <2>2. PICK y \in 1900 .. 2099 : y = date[1]
    BY DEF Day
  <2>3. y <= n /\ y > n - 100
    BY <1>1, <2>1, <2>2 DEF ThisCentury
  <2>4. y = IF y % 100 > n % 100 THEN 1900 + (y % 100) ELSE 2000 + (y % 100)
    BY <2>3
  <2>5. QED
    BY <2>1, <2>2, <2>4 DEF InCentury
<1>2. Data[x].born \in Day /\ Past(Data[x].born)
  BY DatesAre
<1> HIDE DEF Past
<1>3. QED
  BY <1>1, <1>2, Zenon

(* Every document expires in the century the parser takes an expiry to be  *)
(* in.                                                                     *)
LEMMA ExpiryInCentury ==
  ASSUME NEW x \in Document
  PROVE  InCentury(Data[x].expires, FALSE)
<1> DEFINE Late(date) == date[1] >= 2000
<1>1. ASSUME NEW date \in Day, Late(date)
      PROVE  InCentury(date, FALSE)
  <2>1. PICK y \in 1900 .. 2099 : y = date[1]
    BY DEF Day
  <2>2. y = 2000 + (y % 100)
    BY <1>1, <2>1
  <2>3. QED
    BY <2>1, <2>2 DEF InCentury
<1>2. Data[x].expires \in Day /\ Late(Data[x].expires)
  BY DatesAre
<1> HIDE DEF Late
<1>3. QED
  BY <1>1, <1>2, Zenon

(* Without a 7, these dates are read as they are.                          *)
LEMMA DatesRead ==
  ASSUME NEW x \in Document
  PROVE  /\ "7" \notin ToSet(Six(Data[x].born)) /\ ThisCentury(Data[x].born) =>
              ParseDate(Six(Data[x].born), TRUE) = Data[x].born
         /\ "7" \notin ToSet(Six(Data[x].expires)) =>
              ParseDate(Six(Data[x].expires), FALSE) = Data[x].expires
<1>1. /\ Prints(Six(Data[x].born), Data[x].born)
      /\ Data[x].born \in Day /\ IsDate(Data[x].born)
      /\ Prints(Six(Data[x].expires), Data[x].expires)
      /\ Data[x].expires \in Day /\ IsDate(Data[x].expires)
  BY DatesAre, SixIs
<1>2. QED
  BY <1>1, BornInCentury, ExpiryInCentury, DateRead, Zenon

--------------------------------------------------------------------------------
(* What the answers say.                                                   *)

(* The dates of an answer are days of the calendar, or could not be read.  *)
HasDates(r) ==
  r.ok => \A date \in {r.dateOfBirth, r.expiryDate} : date = Undated \/ IsDate(date)

(* The dates of whatever zone the parser is given are such days.           *)
LEMMA ParsedDates ==
  ASSUME NEW format, NEW z, NEW strict
  PROVE  HasDates(ParseFields(format, z, strict))
<1> SUFFICES ASSUME ParseFields(format, z, strict).ok
             PROVE  HasDates(ParseFields(format, z, strict))
  BY DEF HasDates
<1> DEFINE doc == ValidateCheckDigitWithRepair(z.number, z.numberCheck)
           dob == ValidateCheckDigitWithRepair(z.dob, z.dobCheck)
           exp == ValidateCheckDigitWithRepair(z.expiry, z.expiryCheck)
           all == ValidateCheckDigitWithRepair(CompositeBase(z), z.composite)
           born == ParseDate(dob.value, TRUE)
           expires == ParseDate(exp.value, FALSE)
<1>1. (born = Undated \/ IsDate(born)) /\ (expires = Undated \/ IsDate(expires))
  BY DateIsDay, Zenon
<1>2. ParseFields(format, z, strict).dateOfBirth = born
      /\ ParseFields(format, z, strict).expiryDate = expires
  BY DEF ParseFields, Rejected
<1> HIDE DEF born, expires
<1>3. QED
  BY <1>1, <1>2 DEF HasDates

(* So is a date of a document the SDK scans, whatever the OCR made of it.  *)
LEMMA ExtractedDates ==
  ASSUME NEW d \in Document, NEW x \in Damage(Printed(Data[d])), NEW strict \in BOOLEAN
  PROVE  HasDates(ExtractMRZData(ReadingOf(d, x), strict))
<1>1. PICK format, zone :
        ExtractMRZData(ReadingOf(d, x), strict) = ParseFields(format, zone, strict)
  BY ExtractIs
<1>2. QED
  BY <1>1, ParsedDates, Zenon

(* A zone without a 7 that lost at most its last column is read as it was  *)
(* printed.                                                                *)
ReadsAs(r, document, format) ==
  /\ r.ok /\ r.valid /\ ~r.wasRepaired
  /\ r.documentNumber = WithoutFiller(document.number)
  /\ r.dateOfBirth = document.born
  /\ r.expiryDate = document.expires
  /\ r.age = AgeOf(document)
  /\ format = "TD1" => r.lastName = document.name
  /\ format = "TD3" => Last(document.name) \in {"L", "I"} \/ r.lastName = document.name

(* A zone without a 7 whose fields nothing damaged is read as the          *)
(* document, by either mode.                                               *)
LEMMA CleanFields ==
  ASSUME NEW d \in Document, NoSeven(Printed(Data[d])), ThisCentury(Data[d].born),
         NEW x \in Damage(Printed(Data[d])), x[1] \in {"noise", "cut"},
         NEW strict \in BOOLEAN, NEW format
  PROVE  ReadsAs(ParseFields(format, Damaged(Printed(Data[d]), x), strict), Data[d], format)
<1> DEFINE z == Printed(Data[d])
           r == ParseFields(format, Damaged(z, x), strict)
<1>0. z = Printed(Data[d]) /\ NoSeven(z) /\ x \in Damage(z)
      /\ r = ParseFields(format, Damaged(z, x), strict)
  OBVIOUS
<1> SUFFICES ReadsAs(r, Data[d], format)
  OBVIOUS
<1> HIDE DEF z, r
<1> USE <1>0
<1> DEFINE y == Damaged(z, x)
           doc == ValidateCheckDigitWithRepair(y.number, y.numberCheck)
           dob == ValidateCheckDigitWithRepair(y.dob, y.dobCheck)
           exp == ValidateCheckDigitWithRepair(y.expiry, y.expiryCheck)
           all == ValidateCheckDigitWithRepair(CompositeBase(y), y.composite)
           born == ParseDate(dob.value, TRUE)
           expires == ParseDate(exp.value, FALSE)
<1>1. /\ y.number = z.number /\ y.numberCheck = z.numberCheck
      /\ y.dob = z.dob /\ y.dobCheck = z.dobCheck
      /\ y.expiry = z.expiry /\ y.expiryCheck = z.expiryCheck
      /\ y.name = z.name /\ y.composite \in {z.composite, "<"}
  <2>1. Outcome(z, x, y)
    BY DamagedIs, Zenon DEF y
  <2> HIDE DEF y
  <2>2. QED
    BY <2>1 DEF Outcome
<1>2. CompositeBase(y) = CompositeBase(z)
  BY <1>1 DEF CompositeBase
<1> HIDE DEF y
<1>3. /\ z.numberCheck # "7" /\ z.dobCheck # "7" /\ z.expiryCheck # "7" /\ z.composite # "7"
      /\ "7" \notin ToSet(z.dob) /\ "7" \notin ToSet(z.expiry)
  BY DEF NoSeven
<1>4. /\ CheckDigit(z.number) = Numeric[z.numberCheck]
      /\ CheckDigit(z.dob) = Numeric[z.dobCheck]
      /\ CheckDigit(z.expiry) = Numeric[z.expiryCheck]
      /\ CheckDigit(CompositeBase(z)) = Numeric[z.composite]
  BY <1>3, PrintedIs, CheckRead
<1>5. /\ doc = [valid |-> TRUE, value |-> z.number, wasRepaired |-> FALSE]
      /\ dob = [valid |-> TRUE, value |-> z.dob, wasRepaired |-> FALSE]
      /\ exp = [valid |-> TRUE, value |-> z.expiry, wasRepaired |-> FALSE]
  BY <1>1, <1>4, ValidateRight, ZenonT(40)
<1>6. ~all.wasRepaired
  <2>1. CASE y.composite = z.composite
    BY <1>2, <1>4, <2>1, ValidateRight
  <2>2. CASE y.composite = "<"
    BY <1>2, <2>2, PrintedIs, ValidateFiller
  <2>3. QED
    BY <1>1, <2>1, <2>2
<1>7. born = Data[d].born /\ expires = Data[d].expires
  <2>1. dob.value = Six(Data[d].born) /\ exp.value = Six(Data[d].expires)
    BY <1>5, PrintedIs
  <2>2. "7" \notin ToSet(Six(Data[d].born)) /\ "7" \notin ToSet(Six(Data[d].expires))
    BY <1>3, PrintedIs
  <2> HIDE DEF dob, exp
  <2>3. QED
    BY <2>1, <2>2, DatesRead, Zenon
<1>8. r = [ok |-> TRUE,
           lastName |-> IF format = "TD1"
                        THEN [i \in DOMAIN y.name |-> Alphabetic[y.name[i]]]
                        ELSE WithoutFiller(NormalizeAlphabetic(y.name)),
           documentNumber |-> WithoutFiller(doc.value),
           dateOfBirth |-> born,
           expiryDate |-> expires,
           age |-> CalculateAge(born),
           valid |-> doc.valid /\ dob.valid /\ exp.valid,
           composite |-> all.valid,
           wasRepaired |-> format = "TD3"
               /\ (doc.wasRepaired \/ dob.wasRepaired
                   \/ exp.wasRepaired \/ all.wasRepaired)]
  <2>1. doc.valid /\ dob.valid /\ exp.valid
    BY <1>5
  <2>2. r = ParseFields(format, y, strict)
    BY DEF y
  <2>3. QED
    BY <2>1, <2>2, Zenon DEF ParseFields
<1> HIDE DEF doc, dob, exp, all, born, expires
<1>9. /\ [i \in DOMAIN z.name |-> Alphabetic[z.name[i]]] = Data[d].name
      /\ Last(Data[d].name) \in {"L", "I"} \/ WithoutFiller(NormalizeAlphabetic(z.name)) = Data[d].name
  <2>1. Data[d].name \in Seq(ToSet(Letters)) /\ Data[d].name # <<>>
    BY DocumentAssumption
  <2>2. z.name = Data[d].name
    BY PrintedIs
  <2>3. QED
    BY <2>1, <2>2, NameKept
<1>10. y.name = z.name
  BY <1>1
<1>11. doc.value = Data[d].number
  BY <1>5, PrintedIs
<1> DEFINE card == [i \in DOMAIN y.name |-> Alphabetic[y.name[i]]]
           passport == WithoutFiller(NormalizeAlphabetic(y.name))
<1>12. card = Data[d].name /\ (Last(Data[d].name) \in {"L", "I"} \/ passport = Data[d].name)
  BY <1>9, <1>10
<1>13. /\ r.ok
       /\ r.lastName = IF format = "TD1" THEN card ELSE passport
       /\ r.documentNumber = WithoutFiller(doc.value)
       /\ r.dateOfBirth = born /\ r.expiryDate = expires
       /\ r.age = CalculateAge(born)
       /\ r.valid = (doc.valid /\ dob.valid /\ exp.valid)
       /\ r.wasRepaired = (format = "TD3"
               /\ (doc.wasRepaired \/ dob.wasRepaired
                   \/ exp.wasRepaired \/ all.wasRepaired))
  <2> HIDE DEF card, passport
  <2>1. QED
    BY <1>8 DEF card, passport
<1> HIDE DEF card, passport
<1>14. r.valid /\ ~r.wasRepaired
  BY <1>5, <1>6, <1>13
<1>15. QED
  BY <1>7, <1>11, <1>12, <1>13, <1>14 DEF ReadsAs, AgeOf

(* A field with a character misread for one of another value, which still  *)
(* has its check digit, was not misread.                                   *)
Apart(t, s) ==
  \A i \in DOMAIN t : t[i] = s[i] \/ ValueOf[t[i]] % 10 # ValueOf[s[i]] % 10

(* One character misread, in a field that still fits its check digit, was  *)
(* not misread.                                                            *)
LEMMA SameField ==
  ASSUME NEW s \in Seq(Char), NEW k \in 1 .. Len(s), NEW c \in Char,
         NEW t, t = [s EXCEPT ![k] = c], CheckDigit(t) = CheckDigit(s), Apart(t, s)
  PROVE  t = s
<1>1. ValueOf[c] % 10 = ValueOf[s[k]] % 10
  BY OneCharacter
<1>2. k \in DOMAIN t /\ t[k] = c
  OBVIOUS
<1>3. c = s[k]
  BY <1>1, <1>2 DEF Apart
<1>4. QED
  BY <1>3

(* A passport read in strict mode without an error or a repair, its zone   *)
(* without a 7: no field holds a character of another value.               *)
StrictPassport(y) == ParseFields("TD3", y, TRUE)

FieldsApart(y, z) ==
  Apart(y.number, z.number) /\ Apart(y.dob, z.dob) /\ Apart(y.expiry, z.expiry)
FieldsOf(r, z) ==
  /\ r.documentNumber = WithoutFiller(z.number)
  /\ r.dateOfBirth = ParseDate(z.dob, TRUE)
  /\ r.expiryDate = ParseDate(z.expiry, FALSE)

(* What strict mode accepts without a repair has the fields that are       *)
(* printed.                                                                *)
LEMMA MisreadFields ==
  ASSUME NEW d \in Document, NoSeven(Printed(Data[d])),
         NEW x \in Damage(Printed(Data[d])),
         FieldsApart(Damaged(Printed(Data[d]), x), Printed(Data[d])),
         NEW r, r = StrictPassport(Damaged(Printed(Data[d]), x)), r.ok, ~r.wasRepaired
  PROVE  FieldsOf(r, Printed(Data[d]))
<1> DEFINE z == Printed(Data[d]) y == Damaged(z, x)
<1>0. /\ z = Printed(Data[d]) /\ NoSeven(z) /\ x \in Damage(z)
      /\ y = Damaged(z, x) /\ r = StrictPassport(y) /\ FieldsApart(y, z)
  OBVIOUS
<1> SUFFICES FieldsOf(r, z)
  OBVIOUS
<1> HIDE DEF z, y
<1> USE <1>0
<1> DEFINE doc == ValidateCheckDigitWithRepair(y.number, y.numberCheck)
           dob == ValidateCheckDigitWithRepair(y.dob, y.dobCheck)
           exp == ValidateCheckDigitWithRepair(y.expiry, y.expiryCheck)
           all == ValidateCheckDigitWithRepair(CompositeBase(y), y.composite)
           born == ParseDate(dob.value, TRUE)
           expires == ParseDate(exp.value, FALSE)
           age == CalculateAge(born)
           name == WithoutFiller(NormalizeAlphabetic(y.name))
           card == [i \in DOMAIN y.name |-> Alphabetic[y.name[i]]]
           number == WithoutFiller(doc.value)
<1>1. r = IF TRUE /\ ~(doc.valid /\ dob.valid /\ exp.valid) THEN Rejected
          ELSE [ok |-> TRUE,
                lastName |-> IF "TD3" = "TD1" THEN card ELSE name,
                documentNumber |-> number,
                dateOfBirth |-> born,
                expiryDate |-> expires,
                age |-> age,
                valid |-> doc.valid /\ dob.valid /\ exp.valid,
                composite |-> all.valid,
                wasRepaired |-> "TD3" = "TD3"
                    /\ (doc.wasRepaired \/ dob.wasRepaired
                        \/ exp.wasRepaired \/ all.wasRepaired)]
  BY Zenon DEF StrictPassport, ParseFields
<1> HIDE DEF born, expires, age, name, card, number, doc, dob, exp, all
<1>2. doc.valid /\ dob.valid /\ exp.valid
  BY <1>1 DEF Rejected
<1>3. /\ r.documentNumber = number /\ r.dateOfBirth = born /\ r.expiryDate = expires
      /\ ~doc.wasRepaired /\ ~dob.wasRepaired /\ ~exp.wasRepaired
  <2>1. /\ r.documentNumber = number /\ r.dateOfBirth = born /\ r.expiryDate = expires
    BY <1>1, <1>2
  <2>2. r.wasRepaired = ("TD3" = "TD3" /\ (doc.wasRepaired \/ dob.wasRepaired
                             \/ exp.wasRepaired \/ all.wasRepaired))
    BY <1>1, <1>2
  <2>3. QED
    BY <2>1, <2>2
<1>4. /\ CheckDigit(y.number) = Numeric[y.numberCheck] /\ doc.value = y.number
      /\ CheckDigit(y.dob) = Numeric[y.dobCheck] /\ dob.value = y.dob
      /\ CheckDigit(y.expiry) = Numeric[y.expiryCheck] /\ exp.value = y.expiry
  BY <1>2, <1>3, ValidateUnrepaired DEF doc, dob, exp
<1>5. /\ z.number \in Seq(Char) /\ z.dob \in Seq(Char) /\ z.expiry \in Seq(Char)
      /\ CheckDigit(z.number) = Numeric[z.numberCheck]
      /\ CheckDigit(z.dob) = Numeric[z.dobCheck]
      /\ CheckDigit(z.expiry) = Numeric[z.expiryCheck]
  BY PrintedIs, CheckRead DEF NoSeven
<1>6. Outcome(z, x, y)
  BY DamagedIs, Zenon
<1>7. y.number = z.number /\ y.dob = z.dob /\ y.expiry = z.expiry
  <2>1. CASE x[1] = "number"
    <3>1. /\ y.numberCheck = z.numberCheck /\ x[2] \in 1 .. Len(z.number) /\ x[3] \in Char
          /\ y.number = [z.number EXCEPT ![x[2]] = x[3]]
          /\ y.dob = z.dob /\ y.expiry = z.expiry
      BY <1>6, <2>1 DEF Outcome
    <3>2. CheckDigit(y.number) = CheckDigit(z.number)
      BY <1>4, <1>5, <3>1
    <3>3. QED
      BY <1>5, <3>1, <3>2, SameField DEF FieldsApart
  <2>2. CASE x[1] = "dob"
    <3>1. /\ y.dobCheck = z.dobCheck /\ x[2] \in 1 .. Len(z.dob) /\ x[3] \in Char
          /\ y.dob = [z.dob EXCEPT ![x[2]] = x[3]]
          /\ y.number = z.number /\ y.expiry = z.expiry
      BY <1>6, <2>2 DEF Outcome
    <3>2. CheckDigit(y.dob) = CheckDigit(z.dob)
      BY <1>4, <1>5, <3>1
    <3>3. QED
      BY <1>5, <3>1, <3>2, SameField DEF FieldsApart
  <2>3. CASE x[1] = "expiry"
    <3>1. /\ y.expiryCheck = z.expiryCheck /\ x[2] \in 1 .. Len(z.expiry) /\ x[3] \in Char
          /\ y.expiry = [z.expiry EXCEPT ![x[2]] = x[3]]
          /\ y.number = z.number /\ y.dob = z.dob
      BY <1>6, <2>3 DEF Outcome
    <3>2. CheckDigit(y.expiry) = CheckDigit(z.expiry)
      BY <1>4, <1>5, <3>1
    <3>3. QED
      BY <1>5, <3>1, <3>2, SameField DEF FieldsApart
  <2>4. CASE x[1] \notin {"number", "dob", "expiry"}
    BY <1>6, <2>4 DEF Outcome
  <2>5. QED
    BY <2>1, <2>2, <2>3, <2>4
<1>8. number = WithoutFiller(z.number)
  BY <1>4, <1>7 DEF number
<1>9. dob.value = z.dob /\ exp.value = z.expiry
  BY <1>4, <1>7
<1>10. born = ParseDate(z.dob, TRUE) /\ expires = ParseDate(z.expiry, FALSE)
  BY <1>9, Zenon DEF born, expires
<1>11. QED
  BY <1>3, <1>8, <1>10, Zenon DEF FieldsOf

(* The backend counts a holder's age in calendar years.                    *)
InPivot(date) == date[1] \in 1931 .. 2030

(* The backend's parser reads the passport's birth, and takes the years    *)
(* apart.                                                                  *)
LEMMA BackendFields ==
  ASSUME NEW d \in Document, NEW x, x \in Damage(Printed(Data[d])),
         NEW r, r = ReadingOf(d, x), x[1] = "noise", r.noise = 0,
         Data[d].format = "TD3", InPivot(Data[d].born)
  PROVE  /\ ParseMRZ(r).ok
         /\ ParseMRZ(r).age = Today[1] - Data[d].born[1]
<1> DEFINE z == Printed(Data[d]) s == Six(Data[d].born) dob == r.zone.dob
<1>1. Outcome(z, x, Damaged(z, x))
  BY DamagedIs, Zenon
<1>2. Damaged(z, x).dob = z.dob
  BY <1>1 DEF Outcome
<1>3. dob = s /\ r.format = "TD3" /\ ~r.cut
  BY <1>2, PrintedIs DEF ReadingOf
<1>4. PICK n \in 1931 .. 2030 : n = Data[d].born[1]
  BY DEF InPivot
<1>5. ParseInt(s[1], s[2]) = n % 100
  BY <1>4, DatesAre, SixIs DEF Prints
<1> HIDE DEF z, s, dob
<1>6. PICK yy \in 0 .. 99 : yy = n % 100
  OBVIOUS
<1>7. n = IF yy > 30 THEN 1900 + yy ELSE 2000 + yy
  BY <1>6
<1>8. yy # NaN
  BY DEF NaN
<1>9. ParseInt(dob[1], dob[2]) = yy
  BY <1>3, <1>5, <1>6
<1>10. ParseMRZ(r) = [ok |-> TRUE, documentNumber |-> WithoutFiller(r.zone.number),
                      age |-> Today[1] - n]
  BY <1>3, <1>7, <1>8, <1>9 DEF ParseMRZ, FirstLineFits, Pivot, dob
<1>11. QED
  BY <1>4, <1>10

--------------------------------------------------------------------------------
(* What the calls and the answers are.                                     *)

CallTyped ==
  /\ owner \in {"NoahSDK", "IdentityManager"}
  /\ \A c \in Caller : call[c] = NoCall
        \/ (call[c].at = "create" /\ call[c].on = None)
        \/ (call[c].at \in {"configure", "recognize"} /\ call[c].on \in Worker)

AnswerGiven == last = Nothing \/ last \in StrictAnswer \cup LenientAnswer \cup BackendAnswer

(* A worker that is asked to read is alive.                                *)
LEMMA RecognizeTyped ==
  ASSUME Typed, CallTyped, NEW c \in Caller, NEW w, NEW strict, Recognize(c, w, strict),
         owner' = owner
  PROVE  CallTyped'
<1>1. \A d \in Caller : d # c => call'[d] = call[d]
  BY DEF Typed, Recognize, Fails
<1>2. call'[c] = NoCall \/ (w \in alive /\ call'[c] = Await("recognize", w, strict))
  BY DEF Typed, Recognize, Fails
<1>3. QED
  BY <1>1, <1>2 DEF CallTyped, Typed, Await

(* Each step leaves calls that await a worker, and an answer of a parser.  *)
LEMMA AnswersKeep ==
  ASSUME IInv, CallTyped, AnswerGiven, [Next]_vars
  PROVE  CallTyped' /\ AnswerGiven'
<1>1. ASSUME NEW c \in Caller, NEW strict \in BOOLEAN, Extract(c, strict)
      PROVE  CallTyped' /\ AnswerGiven'
  <2>1. CASE initialized
    BY <1>1, <2>1, RecognizeTyped DEF Extract, IInv, AnswerGiven
  <2>2. CASE ~initialized
    <3>1. call' = [call EXCEPT ![c] = Await("create", None, strict)] /\ owner' = owner
          /\ last' = Nothing
      BY <1>1, <2>2 DEF Extract
    <3>2. QED
      BY <3>1 DEF IInv, Typed, CallTyped, AnswerGiven, Await
  <2>3. QED
    BY <2>1, <2>2
<1>2. ASSUME NEW c \in Caller, WorkerCreated(c) PROVE CallTyped' /\ AnswerGiven'
  <2>1. call' = [call EXCEPT ![c] = Await("configure", NewWorker, @.strict)] /\ owner' = owner
        /\ last' = Nothing /\ NewWorker \in Worker
    BY <1>2, NewWorkerIsNew DEF WorkerCreated
  <2>2. QED
    BY <2>1 DEF IInv, Typed, CallTyped, AnswerGiven, Await
<1>3. ASSUME NEW c \in Caller, WorkerConfigured(c) PROVE CallTyped' /\ AnswerGiven'
  BY <1>3, RecognizeTyped DEF WorkerConfigured, IInv, AnswerGiven
<1>4. ASSUME NEW c \in Caller, Recognized(c) PROVE CallTyped' /\ AnswerGiven'
  <2>1. last' \in StrictAnswer \cup LenientAnswer \cup BackendAnswer
    BY <1>4 DEF Recognized
  <2>2. QED
    BY <1>4, <2>1 DEF Recognized, IInv, Typed, CallTyped, AnswerGiven
<1>5. ASSUME NEW c \in Caller, EngineFails(c) PROVE CallTyped' /\ AnswerGiven'
  BY <1>5 DEF EngineFails, Fails, IInv, Typed, CallTyped, AnswerGiven
<1>6. CASE Cleanup \/ WorkerTerminated
  BY <1>6 DEF Cleanup, WorkerTerminated, CallTyped, AnswerGiven
<1>7. CASE BackendExtract \/ Taken
  BY <1>7 DEF BackendExtract, Taken, CallTyped, AnswerGiven
<1>8. CASE UNCHANGED vars
  BY <1>8 DEF vars, CallTyped, AnswerGiven
<1>9. QED
  BY <1>1, <1>2, <1>3, <1>4, <1>5, <1>6, <1>7, <1>8 DEF Next, Step

(* Whatever was answered, one of the parsers made of a reading.            *)
LEMMA AnswersParsed == Spec => [](CallTyped /\ AnswerGiven)
<1>1. Init => CallTyped /\ AnswerGiven
  BY DEF Init, CallTyped, AnswerGiven
<1>2. IInv /\ CallTyped /\ AnswerGiven /\ [Next]_vars => (CallTyped /\ AnswerGiven)'
  BY AnswersKeep
<1>3. QED
  BY <1>1, <1>2, Invariant, PTL DEF Spec

(* An answer of the SDK and one of the backend.                            *)
LEMMA AnswerBy ==
  ASSUME AnswerGiven
  PROVE  /\ BySdk => \E d \in Document : \E x \in Damage(Printed(Data[d])) :
              \E strict \in BOOLEAN :
                /\ last.of = d /\ last.damage = x /\ (strict <=> last.by = "strict")
                /\ last.result = ExtractMRZData(ReadingOf(d, x), strict)
         /\ ByBackend => \E d \in Document : \E x \in Damage(Printed(Data[d])) :
                /\ last.of = d /\ last.damage = x
                /\ last.result = ParseMRZ(ReadingOf(d, x))
<1>1. CASE last = Nothing
  BY <1>1 DEF Nothing, BySdk, ByBackend
<1>2. CASE last # Nothing
  <2>1. PICK d \in Document : \E x \in Damage(Printed(Data[d])) :
           /\ last.of = d /\ last.damage = x
           /\ \/ last.by = "strict" /\ last.result = ExtractMRZData(ReadingOf(d, x), TRUE)
              \/ last.by = "lenient" /\ last.result = ExtractMRZData(ReadingOf(d, x), FALSE)
              \/ last.by = "backend" /\ last.result = ParseMRZ(ReadingOf(d, x))
    BY <1>2, AnswerIs, Zenon DEF AnswerGiven
  <2>2. PICK x \in Damage(Printed(Data[d])) :
           /\ last.of = d /\ last.damage = x
           /\ \/ last.by = "strict" /\ last.result = ExtractMRZData(ReadingOf(d, x), TRUE)
              \/ last.by = "lenient" /\ last.result = ExtractMRZData(ReadingOf(d, x), FALSE)
              \/ last.by = "backend" /\ last.result = ParseMRZ(ReadingOf(d, x))
    BY <2>1, Zenon
  <2>3. CASE last.by = "strict"
    <3>1. last.result = ExtractMRZData(ReadingOf(d, x), TRUE)
      BY <2>2, <2>3, Zenon
    <3>2. BySdk /\ ~ByBackend
      BY <2>3 DEF BySdk, ByBackend
    <3>3. QED
      BY <2>2, <2>3, <3>1, <3>2, Zenon
  <2>4. CASE last.by = "lenient"
    <3>1. last.result = ExtractMRZData(ReadingOf(d, x), FALSE)
      BY <2>2, <2>4, Zenon
    <3>2. BySdk /\ ~ByBackend /\ last.by # "strict"
      BY <2>4 DEF BySdk, ByBackend
    <3>3. QED
      BY <2>2, <3>1, <3>2, Zenon
  <2>5. CASE last.by = "backend"
    <3>1. last.result = ParseMRZ(ReadingOf(d, x)) /\ ~BySdk
      BY <2>2, <2>5, Zenon DEF BySdk
    <3>2. QED
      BY <2>2, <3>1, Zenon
  <2>6. QED
    BY <2>2, <2>3, <2>4, <2>5, Zenon
<1>3. QED
  BY <1>1, <1>2

(* The extractor's fields, its calls and its answers have the values the   *)
(* code gives them, and a date that is read at all is a day of the         *)
(* calendar, whatever the OCR made of it.                                  *)
THEOREM TypeCorrect == Spec => []TypeOK
<1>1. IInv /\ CallTyped /\ AnswerGiven => TypeOK
  <2> SUFFICES ASSUME IInv, CallTyped, AnswerGiven PROVE TypeOK
    OBVIOUS
  <2>1. ASSUME BySdk, last.result.ok
        PROVE  \A date \in {last.result.dateOfBirth, last.result.expiryDate} :
                   date = Undated \/ IsDate(date)
    <3>1. PICK d \in Document : \E x \in Damage(Printed(Data[d])) :
             \E strict \in BOOLEAN : last.result = ExtractMRZData(ReadingOf(d, x), strict)
      BY <2>1, AnswerBy, Zenon
    <3>2. PICK x \in Damage(Printed(Data[d])) :
             \E strict \in BOOLEAN : last.result = ExtractMRZData(ReadingOf(d, x), strict)
      BY <3>1, Zenon
    <3>3. PICK strict \in BOOLEAN : last.result = ExtractMRZData(ReadingOf(d, x), strict)
      BY <3>2, Zenon
    <3>4. HasDates(last.result)
      BY <3>3, ExtractedDates, Zenon
    <3>5. QED
      BY <2>1, <3>4 DEF HasDates
  <2>2. QED
    BY <2>1 DEF TypeOK, IInv, Typed, CallTyped
<1>2. QED
  BY <1>1, Invariant, AnswersParsed, PTL

(* A document that is read without an error is read right, in strict and   *)
(* in permissive mode: as stated at CleanReadingKept, for every document   *)
(* without a 7 and every day in this century it is read on.                *)
THEOREM ReadRight == Spec => []CleanReadingKept
<1>1. AnswerGiven => CleanReadingKept
  <2> SUFFICES ASSUME AnswerGiven, BySdk, Undamaged, NoSeven(Printed(Holder)),
                      Read.noise <= (IF Holder.format = "TD3" THEN 2 ELSE 0),
                      ThisCentury(Holder.born)
               PROVE  /\ last.result.ok /\ last.result.valid
                      /\ ~last.result.wasRepaired
                      /\ last.result.documentNumber = WithoutFiller(Holder.number)
                      /\ last.result.dateOfBirth = Holder.born
                      /\ last.result.expiryDate = Holder.expires
                      /\ last.result.age = AgeOf(Holder)
                      /\ (Holder.format = "TD3" /\ Last(Holder.name) \in {"L", "I"})
                         \/ last.result.lastName = Holder.name
    BY DEF CleanReadingKept, ThisCentury
  <2>1. PICK d \in Document : \E x \in Damage(Printed(Data[d])) : \E strict \in BOOLEAN :
           /\ last.of = d /\ last.damage = x
           /\ last.result = ExtractMRZData(ReadingOf(d, x), strict)
    BY AnswerBy, Zenon
  <2>2. PICK x \in Damage(Printed(Data[d])) : \E strict \in BOOLEAN :
           /\ last.of = d /\ last.damage = x
           /\ last.result = ExtractMRZData(ReadingOf(d, x), strict)
    BY <2>1, Zenon
  <2>3. PICK strict \in BOOLEAN : last.result = ExtractMRZData(ReadingOf(d, x), strict)
    BY <2>2, Zenon
  <2>4. Holder = Data[d] /\ Read = ReadingOf(d, x) /\ x[1] \in {"noise", "cut"}
    BY <2>2 DEF Holder, Read, Undamaged
  <2>5. last.result = ParseFields(Data[d].format, Damaged(Printed(Data[d]), x), strict)
    <3>1. ReadingOf(d, x).noise <= (IF Data[d].format = "TD3" THEN 2 ELSE 0)
      BY <2>4
    <3>2. QED
      BY <2>3, <3>1, ExtractIs
  <2> DEFINE r == ParseFields(Data[d].format, Damaged(Printed(Data[d]), x), strict)
  <2>6. ReadsAs(r, Data[d], Data[d].format)
    <3>1. NoSeven(Printed(Data[d])) /\ ThisCentury(Data[d].born)
      BY <2>4, Zenon
    <3>2. QED
      BY <2>4, <3>1, CleanFields, Zenon
  <2>7. last.result = r
    BY <2>5
  <2>8. Data[d].format \in {"TD1", "TD3"}
    BY DocumentAssumption
  <2> HIDE DEF r
  <2>9. QED
    BY <2>4, <2>6, <2>7, <2>8, Zenon DEF ReadsAs
<1>2. QED
  BY <1>1, AnswersParsed, PTL

(* What the check digits are for, as stated at MisreadIsCaught, for every  *)
(* passport and whatever the OCR may take a character for.                 *)
THEOREM MisreadCaught == Spec => []MisreadIsCaught
<1>1. AnswerGiven => MisreadIsCaught
  <2> SUFFICES ASSUME AnswerGiven, last.by = "strict", last.result.ok,
                      Holder.format = "TD3", Read.noise = 0, NoSeven(Printed(Holder)),
                      ~last.result.wasRepaired, OtherValue
               PROVE  /\ last.result.documentNumber = WithoutFiller(Holder.number)
                      /\ last.result.dateOfBirth = ParseDate(Printed(Holder).dob, TRUE)
                      /\ last.result.expiryDate = ParseDate(Printed(Holder).expiry, FALSE)
    BY Zenon DEF MisreadIsCaught
  <2>1. PICK d \in Document : \E x \in Damage(Printed(Data[d])) : \E strict \in BOOLEAN :
           /\ last.of = d /\ last.damage = x /\ (strict <=> last.by = "strict")
           /\ last.result = ExtractMRZData(ReadingOf(d, x), strict)
    BY AnswerBy, Zenon DEF BySdk
  <2>2. PICK x \in Damage(Printed(Data[d])) : \E strict \in BOOLEAN :
           /\ last.of = d /\ last.damage = x /\ (strict <=> last.by = "strict")
           /\ last.result = ExtractMRZData(ReadingOf(d, x), strict)
    BY <2>1, Zenon
  <2>3. last.result = ExtractMRZData(ReadingOf(d, x), TRUE)
    BY <2>2, Zenon
  <2>4. Holder = Data[d] /\ Read = ReadingOf(d, x)
    BY <2>2 DEF Holder, Read
  <2> DEFINE z == Printed(Data[d]) y == Damaged(z, x)
  <2>5. last.result = StrictPassport(y)
    <3>1. ReadingOf(d, x).noise <= (IF Data[d].format = "TD3" THEN 2 ELSE 0)
          /\ Data[d].format = "TD3"
      BY <2>4
    <3>2. ASSUME NEW strict \in BOOLEAN
          PROVE  ExtractMRZData(ReadingOf(d, x), strict) = ParseFields("TD3", y, strict)
      BY <3>1, ExtractIs
    <3>3. ExtractMRZData(ReadingOf(d, x), TRUE) = ParseFields("TD3", y, TRUE)
      BY <3>2, Zenon
    <3>4. QED
      BY <2>3, <3>3, Zenon DEF StrictPassport
  <2>6. Read.zone = y
    BY <2>4, ExtractIs
  <2>7. FieldsApart(y, z)
    <3> HIDE DEF y, z
    <3>1. \A f \in {"number", "dob", "expiry"} : \A i \in DOMAIN y[f] :
             y[f][i] = z[f][i] \/ ValueOf[y[f][i]] % 10 # ValueOf[z[f][i]] % 10
      BY <2>4, <2>6 DEF OtherValue, z
    <3>2. QED
      BY <3>1 DEF Apart, FieldsApart
  <2>8. FieldsOf(last.result, z)
    <3>1. NoSeven(z)
      BY <2>4, Zenon
    <3>2. QED
      BY <2>5, <2>7, <3>1, MisreadFields, Zenon
  <2>9. z.number = Data[d].number
    BY PrintedIs
  <2>10. QED
    BY <2>4, <2>8, <2>9, Zenon DEF FieldsOf
<1>2. QED
  BY <1>1, AnswersParsed, PTL

(* The backend's age is the holder's, or one year more until the birthday. *)
THEOREM BackendOneMore == Spec => []BackendAgeOneMore
<1>1. AnswerGiven => BackendAgeOneMore
  <2> SUFFICES ASSUME AnswerGiven, ByBackend, Undamaged, Read.noise = 0, ~Read.cut,
                      Holder.format = "TD3", InPivot(Holder.born)
               PROVE  /\ last.result.ok
                      /\ last.result.age - AgeOf(Holder) \in {0, 1}
    BY DEF BackendAgeOneMore, InPivot
  <2>1. PICK d \in Document : \E x \in Damage(Printed(Data[d])) :
           /\ last.of = d /\ last.damage = x
           /\ last.result = ParseMRZ(ReadingOf(d, x))
    BY AnswerBy, Zenon
  <2>2. PICK x \in Damage(Printed(Data[d])) :
           /\ last.of = d /\ last.damage = x
           /\ last.result = ParseMRZ(ReadingOf(d, x))
    BY <2>1, Zenon
  <2>3. Holder = Data[d] /\ Read = ReadingOf(d, x) /\ x[1] = "noise"
    BY <2>2 DEF Holder, Read, Undamaged, ReadingOf
  <2>4. last.result.ok /\ last.result.age = Today[1] - Data[d].born[1]
    BY <2>2, <2>3, BackendFields
  <2>5. PICK n \in 2000 .. 2098 : n = Today[1]
    BY TodayAssumption
  <2>6. PICK y \in 1900 .. 2099 : y = Data[d].born[1]
    BY DatesAre, SMTT(60) DEF Day
  <2>7. AgeOf(Data[d]) \in {n - y, n - y - 1}
    <3>1. Data[d].born # Undated
      BY DatesAre DEF Undated, IsDate
    <3>2. AgeOf(Data[d]) =
            n - y - (IF \/ Today[2] < Data[d].born[2]
                        \/ Today[2] = Data[d].born[2] /\ Today[3] < Data[d].born[3]
                     THEN 1 ELSE 0)
      BY <2>5, <2>6, <3>1 DEF AgeOf, CalculateAge
    <3>3. QED
      BY <3>2
  <2>8. PICK a \in Int : a = AgeOf(Data[d]) /\ n - y - a \in {0, 1}
    BY <2>7
  <2>9. last.result.age = n - y
    BY <2>4, <2>5, <2>6
  <2>10. AgeOf(Holder) = a
    BY <2>3, <2>8
  <2>11. last.result.age - AgeOf(Holder) = n - y - a
    BY <2>9, <2>10
  <2>12. QED
    BY <2>4, <2>8, <2>11
<1>2. QED
  BY <1>1, AnswersParsed, PTL
================================================================================
