------------------------------ MODULE DocumentScan ------------------------------
(***************************************************************************)
(* Reading a document: the SDK's OCRExtractor (utils/ocr.ts), one worker   *)
(* shared by every call, with the parse that follows (NoahSDK.             *)
(* extractIdentityData, IdentityManager.extractFromImage), and the         *)
(* backend's POST /identity/extract, one worker per request.               *)
(*                                                                         *)
(* The OCR engine is external: a worker answers the calls made on it in    *)
(* order, with any reading of the document or an error; a worker that was  *)
(* terminated answers nothing, and refuses new calls.                      *)
(***************************************************************************)
EXTENDS MRZ, FiniteSetsExt, TLC

CONSTANTS
    Caller,         \* bound: extractions running at once
    Worker,         \* bound: OCR workers alive or waited for at once
    None,           \* null
    Document,       \* the documents users hold,
    Data,           \* and what is printed on each
    Confused        \* what the OCR may take a character for

ASSUME NoneAssumption == None \notin Worker
ASSUME DocumentAssumption == \A d \in {Data[x] : x \in Document} :
    /\ d.format \in {"TD1", "TD3"}
    /\ d.number \in Seq(Char) /\ Len(d.number) = 9
    /\ d.born \in (1900 .. Today[1]) \X (1 .. 12) \X (1 .. 31) /\ IsDate(d.born)
    /\ d.expires \in (2000 .. 2099) \X (1 .. 12) \X (1 .. 31) /\ IsDate(d.expires)
    /\ d.name \in Seq(ToSet(Letters)) /\ d.name # <<>>
ASSUME ConfusedAssumption == Confused \in [Char -> SUBSET Char]

(***************************************************************************)
(* Documents and their readings.  A zone is printed with its check digits; *)
(* the OCR reads it as it is, or takes one of its characters for another,  *)
(* or loses the last column, which the SDK pads with a filler; and it may  *)
(* find up to three other lines on the page, as long as a card's.          *)
(***************************************************************************)
Tens(n) == Digits[1 + ((n % 100) \div 10)]
Ones(n) == Digits[1 + (n % 10)]
Six(date) == <<Tens(date[1]), Ones(date[1]), Tens(date[2]), Ones(date[2]),
               Tens(date[3]), Ones(date[3])>>

Printed(d) ==
    LET z == [number |-> d.number, numberCheck |-> CheckDigit(d.number),
              dob |-> Six(d.born), dobCheck |-> CheckDigit(Six(d.born)),
              expiry |-> Six(d.expires), expiryCheck |-> CheckDigit(Six(d.expires)),
              name |-> d.name, composite |-> "<"]
    IN  [z EXCEPT !.composite = CheckDigit(CompositeBase(z))]

\* What can happen to a zone: nothing, lines of noise before it, the last
\* column lost, or one character, in column i of a field, taken for c.
Damage(z) ==
    {<<"noise", n, "<">> : n \in 0 .. 3} \cup {<<"cut", 0, "<">>}
    \cup (UNION {UNION {{<<f, i, c>> : c \in Confused[z[f][i]]} : i \in 1 .. Len(z[f])} :
                   f \in {"number", "dob", "expiry"}})
    \cup (UNION {{<<f, 0, c>> : c \in Confused[z[f]]} :
                   f \in {"numberCheck", "dobCheck", "expiryCheck"}})

Damaged(z, x) ==
    CASE x[1] = "noise" -> z
      [] x[1] = "cut" -> [z EXCEPT !.composite = "<"]
      [] x[1] \in {"number", "dob", "expiry"} -> [z EXCEPT ![x[1]][x[2]] = x[3]]
      [] OTHER -> [z EXCEPT ![x[1]] = x[3]]

ReadingOf(d, x) ==
    [format |-> Data[d].format, noise |-> IF x[1] = "noise" THEN x[2] ELSE 0,
     cut |-> x[1] = "cut",
     zone |-> Damaged(Printed(Data[d]), x)]

\* What each parser makes of each reading.
Parses(by, Parse(_)) ==
    UNION {{[by |-> by, of |-> d, damage |-> x, result |-> Parse(ReadingOf(d, x))] :
                x \in Damage(Printed(Data[d]))} : d \in Document}

StrictAnswer == Parses("strict", LAMBDA r : ExtractMRZData(r, TRUE))
LenientAnswer == Parses("lenient", LAMBDA r : ExtractMRZData(r, FALSE))
BackendAnswer == Parses("backend", ParseMRZ)

VARIABLES
    owner,          \* who holds the extractor: NoahSDK or IdentityManager
    worker,         \* OCRExtractor.worker
    initialized,    \* OCRExtractor.initialized
    alive,          \* the workers created and not terminated
    call,           \* what each extraction awaits
    cleaning,       \* terminate awaits the worker's end
    overlapped,     \* an extraction was started while another was running
    misconfigured,  \* a worker's setParameters was rejected
    disturbed,      \* a cleanup and an extraction were running at once
    last            \* what the step just taken answered to its caller

extractor == <<worker, initialized, alive, cleaning>>
past == <<overlapped, misconfigured, disturbed>>
vars == <<owner, extractor, call, past, last>>

Nothing == [by |-> "nobody"]
NoCall == [at |-> "idle"]
Await(at, on, strict) == [at |-> at, on |-> on, strict |-> strict]
Running == {c \in Caller : call[c] # NoCall}
Unused == Worker \ (alive \cup {worker} \cup {call[c].on : c \in Running})
NewWorker == CHOOSE w \in Unused : TRUE

Init ==
    /\ owner \in {"NoahSDK", "IdentityManager"}
    /\ worker = None
    /\ initialized = FALSE
    /\ alive = {}
    /\ call = [c \in Caller |-> NoCall]
    /\ cleaning = FALSE
    /\ overlapped = FALSE
    /\ misconfigured = FALSE
    /\ disturbed = FALSE
    /\ last = Nothing

(***************************************************************************)
(* OCRExtractor.                                                           *)
(***************************************************************************)
Fails(c) ==
    call' = [call EXCEPT ![c] = NoCall]

\* The worker at hand is asked to read the image; a dead one throws.
Recognize(c, w, strict) ==
    IF w \in alive
    THEN call' = [call EXCEPT ![c] = Await("recognize", w, strict)]
    ELSE Fails(c)

\* extractMRZ up to its first await: a worker is ready, or is created.
\* IdentityManager leaves the options at their default, strict; NoahSDK
\* passes its caller's on, by default permissive.
Extract(c, strict) ==
    /\ call[c] = NoCall
    /\ owner = "IdentityManager" => strict
    /\ overlapped' = (overlapped \/ Running # {})
    /\ IF initialized THEN Recognize(c, worker, strict)
       ELSE call' = [call EXCEPT ![c] = Await("create", None, strict)]
    /\ disturbed' = (disturbed \/ cleaning)
    /\ UNCHANGED <<owner, extractor, misconfigured>>
    /\ last' = Nothing

\* Faulty variant: the worker that is replaced is terminated.
WorkerCreatedTidily(c) ==
    /\ call[c].at = "create"
    /\ Unused # {}
    /\ worker' = NewWorker
    /\ alive' = (alive \ {worker}) \cup {NewWorker}
    /\ call' = [call EXCEPT ![c] = Await("configure", NewWorker, @.strict)]
    /\ UNCHANGED <<owner, initialized, cleaning, past>>
    /\ last' = Nothing

\* createWorker answers: the worker is kept, over any other, and configured.
WorkerCreated(c) ==
    /\ call[c].at = "create"
    /\ Unused # {}
    /\ worker' = NewWorker
    /\ alive' = alive \cup {NewWorker}
    /\ call' = [call EXCEPT ![c] = Await("configure", NewWorker, @.strict)]
    /\ UNCHANGED <<owner, initialized, cleaning, past>>
    /\ last' = Nothing

\* Faulty variant: the flag is never set, and every call makes a worker.
WorkerConfiguredUnset(c) ==
    /\ call[c].at = "configure"
    /\ call[c].on \in alive
    /\ Recognize(c, worker, call[c].strict)
    /\ UNCHANGED <<owner, extractor, past>>
    /\ last' = Nothing

\* setParameters answers: the extractor counts as initialised, and the worker
\* it holds by now reads the image.
WorkerConfigured(c) ==
    /\ call[c].at = "configure"
    /\ call[c].on \in alive
    /\ initialized' = TRUE
    /\ Recognize(c, worker, call[c].strict)
    /\ UNCHANGED <<owner, worker, alive, cleaning, past>>
    /\ last' = Nothing

\* recognize answers with the lines found, which are parsed at once; no line
\* at all is an error.
Recognized(c) ==
    /\ call[c].at = "recognize"
    /\ call[c].on \in alive
    /\ last = Nothing
    /\ call' = [call EXCEPT ![c] = NoCall]
    /\ last' \in IF call[c].strict THEN StrictAnswer ELSE LenientAnswer
    /\ UNCHANGED <<owner, extractor, past>>

\* createWorker, setParameters or recognize rejects, or no line is found.
\* A worker that could not be configured or could not read is kept.
EngineFails(c) ==
    /\ call[c].at = "create" \/ (call[c] # NoCall /\ call[c].on \in alive)
    /\ Fails(c)
    /\ misconfigured' = (misconfigured \/ call[c].at = "configure")
    /\ UNCHANGED <<owner, extractor, overlapped, disturbed>>
    /\ last' = Nothing

\* terminate: only IdentityManager offers it.  It does nothing without a worker,
\* and awaits the end of the worker it has.  Bound: one at a time.
Cleanup ==
    /\ owner = "IdentityManager"
    /\ worker # None /\ ~cleaning
    /\ alive' = alive \ {worker}
    /\ cleaning' = TRUE
    /\ disturbed' = (disturbed \/ Running # {})
    /\ UNCHANGED <<owner, worker, initialized, call, overlapped, misconfigured>>
    /\ last' = Nothing

\* Faulty variant: the extractor keeps the worker that was terminated.
WorkerKept ==
    /\ cleaning
    /\ cleaning' = FALSE
    /\ UNCHANGED <<owner, worker, initialized, alive, call, past>>
    /\ last' = Nothing

\* The worker has ended, and the extractor forgets the worker it holds by now.
WorkerTerminated ==
    /\ cleaning
    /\ cleaning' = FALSE
    /\ worker' = None
    /\ initialized' = FALSE
    /\ UNCHANGED <<owner, alive, call, past>>
    /\ last' = Nothing

(***************************************************************************)
(* POST /identity/extract: its worker lives and dies with the request.     *)
(* Bound: it shares nothing with the SDK and runs while nothing else does. *)
(***************************************************************************)
BackendExtract ==
    /\ last = Nothing /\ Running = {}
    /\ last' \in BackendAnswer
    /\ UNCHANGED <<owner, extractor, call, past>>

\* Bound: an answer is taken before another is given.
Taken == last' = Nothing /\ UNCHANGED <<owner, extractor, call, past>>

Step(c) ==
    \/ \E strict \in BOOLEAN : Extract(c, strict)
    \/ WorkerCreated(c)
    \/ WorkerConfigured(c)
    \/ Recognized(c)
    \/ EngineFails(c)

Next ==
    \/ \E c \in Caller : Step(c)
    \/ Cleanup \/ WorkerTerminated
    \/ BackendExtract \/ Taken

Spec == Init /\ [][Next]_vars

\* A live worker answers each call made on it, or rejects it.
Answers(c) == call[c] # NoCall /\ Step(c)

FairSpec == Spec /\ \A c \in Caller : WF_vars(Answers(c))

(***************************************************************************)
(* Properties.                                                             *)
(***************************************************************************)
BySdk == last.by \in {"strict", "lenient"}
ByBackend == last.by = "backend"

\* The extractor's fields and its calls have the values the code gives them,
\* and a date that is read at all is a day of the calendar.
TypeOK ==
    /\ owner \in {"NoahSDK", "IdentityManager"}
    /\ worker \in Worker \cup {None}
    /\ initialized \in BOOLEAN
    /\ alive \subseteq Worker
    /\ cleaning \in BOOLEAN
    /\ \A c \in Caller : call[c] = NoCall
          \/ (call[c].at = "create" /\ call[c].on = None)
          \/ (call[c].at \in {"configure", "recognize"} /\ call[c].on \in Worker)
    /\ past \in BOOLEAN \X BOOLEAN \X BOOLEAN
    /\ BySdk /\ last.result.ok =>
          \A date \in {last.result.dateOfBirth, last.result.expiryDate} :
              date = Undated \/ IsDate(date)

\* OCR workers are large and nothing but terminate frees one: as long as
\* extractions follow one another and every worker could be configured, the
\* extractor holds the only worker there is, so that cleanup leaves none.
NoWorkerLost ==
    ~overlapped /\ ~misconfigured => alive \subseteq {worker}

\* An extractor that counts as initialised can read, however extractions
\* overlapped: only a cleanup during one, or before it is through, can leave
\* it without a worker.
ReadyIsAlive ==
    initialized /\ ~disturbed /\ ~cleaning => worker \in alive

Read == ReadingOf(last.of, last.damage)
Holder == Data[last.of]
Undamaged == last.damage[1] \in {"noise", "cut"}
NoSeven(z) ==
    "7" \notin ToSet(z.dob) \cup ToSet(z.expiry)
                 \cup {z.numberCheck, z.dobCheck, z.expiryCheck, z.composite}
AgeOf(d) == CalculateAge(d.born)

\* What was read without an error is what the document says: number, dates,
\* age and name come back as they are, unrepaired, from a passport's page
\* with up to two other lines as long as a card's, and with the last column
\* lost.  Holders born a century ago, zones with a 7 among dates and check
\* digits and passport names that end in L or I are not read right: the
\* README says why.
CleanReadingKept ==
    BySdk /\ Undamaged /\ NoSeven(Printed(Holder))
    /\ Read.noise <= (IF Holder.format = "TD3" THEN 2 ELSE 0)
    /\ Holder.born[1] > Today[1] - 100 =>
        /\ last.result.ok /\ last.result.valid
        /\ ~last.result.wasRepaired
        /\ last.result.documentNumber = WithoutFiller(Holder.number)
        /\ last.result.dateOfBirth = Holder.born
        /\ last.result.expiryDate = Holder.expires
        /\ last.result.age = AgeOf(Holder)
        /\ (Holder.format = "TD3" /\ Last(Holder.name) \in {"L", "I"})
           \/ last.result.lastName = Holder.name

\* Every character misread, outside the check digits, has another value.
OtherValue ==
    \A f \in {"number", "dob", "expiry"} : \A i \in DOMAIN Read.zone[f] :
        LET c == Read.zone[f][i]
            p == Printed(Holder)[f][i]
        IN  c = p \/ ValueOf[c] % 10 # ValueOf[p] % 10

\* What a check digit is for: a passport with one character misread for one
\* of another value is refused in strict mode, or it is reported as repaired,
\* or it reads as if it had not been misread.
MisreadIsCaught ==
    last.by = "strict" /\ last.result.ok
    /\ Holder.format = "TD3" /\ Read.noise = 0 /\ NoSeven(Printed(Holder))
    /\ ~last.result.wasRepaired
    /\ OtherValue =>
        /\ last.result.documentNumber = WithoutFiller(Holder.number)
        /\ last.result.dateOfBirth = ParseDate(Printed(Holder).dob, TRUE)
        /\ last.result.expiryDate = ParseDate(Printed(Holder).expiry, FALSE)

\* From a passport's page with nothing lost and no stray line, the backend gives
\* the age its holder has, or one year more until the birthday comes: the two
\* digits of the year stand for the right century between 1931 and 2030.
BackendAgeOneMore ==
    ByBackend /\ Undamaged /\ Read.noise = 0 /\ ~Read.cut
    /\ Holder.format = "TD3" /\ Holder.born[1] \in 1931 .. 2030 =>
        /\ last.result.ok
        /\ last.result.age - AgeOf(Holder) \in {0, 1}

\* Every extraction comes to an end, even when it overlaps another and their
\* workers replace each other, unless a cleanup terminates its worker.
ScanSettles ==
    \A c \in Caller : call[c] # NoCall ~> (call[c] = NoCall \/ disturbed)
================================================================================
