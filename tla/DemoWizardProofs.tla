---------------------------- MODULE DemoWizardProofs ----------------------------
(***************************************************************************)
(* Proofs about DemoWizard, for any accounts and any number of handlers.   *)
(*                                                                         *)
(* The safety properties follow from one inductive invariant: what a       *)
(* handler was told is true of the registry, a handler whose page is gone  *)
(* is a registration that was sent, and a page that is not shown is fresh. *)
(***************************************************************************)
EXTENDS DemoWizard, TLAPS

\* A registration is only sent for an account.
Typed == TypeOK /\ \A s \in Slot : jobs[s].kind = "submit" => jobs[s].account # None

\* What the backend confirmed to a handler is so.
AnswersTrue ==
    \A s \in Slot : jobs[s].kind = "submit" /\ jobs[s].phase = "ok"
        => jobs[s].account \in registered

\* Handlers that outlive their page are registrations the backend has yet to
\* answer, and only they run when the demo is not shown.
OutlivedAreSent ==
    \A s \in Slot : jobs[s] # NoJob /\ (~jobs[s].live \/ view = "other")
        => jobs[s].kind = "submit" /\ jobs[s].phase = "running" /\ ~jobs[s].live

\* A page that is not shown is as it will be mounted.
AwayIsFresh == view = "other" => page = Fresh /\ checks = {}

IInv ==
    /\ Typed
    /\ AnswersTrue
    /\ ConfirmedIsRegistered
    /\ ButtonsComeBack
    /\ OutlivedAreSent
    /\ AwayIsFresh
--------------------------------------------------------------------------------
(* A page with some of its fields changed to values they may have is a     *)
(* page, and likewise the jobs when one slot changes.                      *)
LEMMA FinishType ==
  ASSUME Typed, NEW s \in Slot, NEW kind, NEW p \in Page, Finish(s, kind, p)
  PROVE  Typed'
  BY DEF Typed, TypeOK, Finish, NoJob, app

(* A handler that starts is a job of the wizard.                           *)
LEMMA StartType ==
  ASSUME Typed, NEW s \in Slot, page' \in Page,
         NEW kind \in {"extract", "witness", "proof", "submit", "access"},
         NEW phase \in {"running", "failed"}, Start(s, kind, phase),
         kind = "submit" => account # None
  PROVE  Typed'
  BY DEF Typed, TypeOK, Start, app, Job

(* Every step keeps the types of the page and of its handlers.             *)
LEMMA TypedStep == Typed /\ [Next]_vars => Typed'
<1> SUFFICES ASSUME Typed, [Next]_vars PROVE Typed'
  OBVIOUS
<1>1. Begun \in Page /\ Failed \in Page
  BY DEF Typed, TypeOK, Page, Begun, Failed
<1>2. CASE ConnectWallet \/ AccountsChanged
  BY <1>2 DEF ConnectWallet, AccountsChanged, SetAccount, Checks, Typed, TypeOK
<1>3. CASE SetChainId
  BY <1>3 DEF SetChainId, Typed, TypeOK
<1>4. CASE OpenDemo
  BY <1>4 DEF OpenDemo, Typed, TypeOK, Checks, Fresh, Page, Step
<1>5. CASE LeaveDemo
  <2>1. page' \in Page /\ checks' \subseteq Account /\ view' \in {"demo", "other"}
    BY <1>5 DEF LeaveDemo, Fresh, Page, Step
  <2>2. ASSUME NEW s \in Slot PROVE jobs'[s] \in Job \cup {NoJob}
    <3>1. CASE jobs[s] = NoJob
      BY <1>5, <3>1 DEF LeaveDemo, NoJob
    <3>2. CASE jobs[s] \in Job
      <4>1. [jobs[s] EXCEPT !.live = FALSE] \in Job
        BY <3>2 DEF Job
      <4>2. QED
        BY <1>5, <4>1 DEF LeaveDemo
    <3>3. QED
      BY <3>1, <3>2 DEF Typed, TypeOK
  <2>3. jobs' \in [Slot -> Job \cup {NoJob}]
    BY <1>5, <2>2 DEF LeaveDemo
  <2>4. ASSUME NEW s \in Slot, jobs'[s].kind = "submit" PROVE jobs'[s].account # None
    <3>1. jobs[s] \in Job /\ jobs'[s] = [jobs[s] EXCEPT !.live = FALSE]
      BY <1>5, <2>4 DEF LeaveDemo, Typed, TypeOK, NoJob
    <3>2. jobs'[s].account = jobs[s].account /\ jobs[s].kind = "submit"
      BY <2>4, <3>1 DEF Job
    <3>3. QED
      BY <3>2 DEF Typed
  <2>5. QED
    BY <1>5, <2>1, <2>3, <2>4 DEF LeaveDemo, Typed, TypeOK
<1>6. CASE CheckAnswers
  BY <1>6 DEF CheckAnswers, Typed, TypeOK, Page, app
<1>7. CASE Reset
  BY <1>7 DEF Reset, Typed, TypeOK, Page, Step, Checks, app
<1>8. CASE Navigate
  BY <1>8 DEF Navigate, Typed, TypeOK, Page, Step, app
<1>9. ASSUME NEW s \in Slot, Click(s) PROVE Typed'
  <2>1. CASE HandleFileChange(s)
    BY <2>1, <1>1, StartType DEF HandleFileChange
  <2>2. CASE HandleNext(s)
    <3>1. page.step \in {"extract", "witness", "proof", "submit", "access"}
      BY <2>2 DEF HandleNext, ConfirmOffered, EncryptOffered, RegisterOffered, On
    <3>2. QED
      BY <2>2, <3>1, <1>1, StartType DEF HandleNext
  <2>3. CASE HandleAccessRequest(s)
    <3>1. page' \in Page
      BY <2>3 DEF HandleAccessRequest, Typed, TypeOK, Page
    <3>2. QED
      BY <2>3, <3>1, StartType DEF HandleAccessRequest
  <2>4. QED
    BY <1>9, <2>1, <2>2, <2>3 DEF Click
<1>10. ASSUME NEW s \in Slot, Progress(s) PROVE Typed'
  <2>1. CASE ExtractReturns(s)
    <3>1. [page EXCEPT !.step = "witness", !.processing = FALSE] \in Page
      BY DEF Typed, TypeOK, Page, Step
    <3>2. QED
      BY <2>1, <1>1, <3>1, FinishType DEF ExtractReturns
  <2>2. CASE ConfirmReturns(s)
    <3>1. [page EXCEPT !.processing = FALSE, !.step = "proof"] \in Page
      BY DEF Typed, TypeOK, Page, Step
    <3>2. QED
      BY <2>2, <1>1, <3>1, FinishType DEF ConfirmReturns
  <2>3. CASE EncryptReturns(s)
    <3>1. [page EXCEPT !.fheInput = TRUE, !.processing = FALSE, !.step = "submit"] \in Page
      BY DEF Typed, TypeOK, Page, Step
    <3>2. QED
      BY <2>3, <1>1, <3>1, FinishType DEF EncryptReturns
  <2>4. CASE BackendAnswers(s)
    <3>1. jobs[s] \in Job
      BY <2>4 DEF BackendAnswers, Typed, TypeOK, NoJob
    <3>2. \A phase \in {"ok", "already", "failed"} : [jobs[s] EXCEPT !.phase = phase] \in Job
      BY <3>1 DEF Job
    <3>3. jobs' \in [Slot -> Job \cup {NoJob}]
      BY <2>4, <3>2 DEF BackendAnswers, Typed, TypeOK
    <3>4. jobs[s].account \in Account
      BY <2>4, <3>1 DEF BackendAnswers, Typed, Job
    <3>5. registered' \subseteq registered \cup {jobs[s].account}
      BY <2>4 DEF BackendAnswers
    <3>6. ASSUME NEW t \in Slot, jobs'[t].kind = "submit" PROVE jobs'[t].account # None
      <4>1. CASE t # s
        BY <2>4, <3>6, <4>1 DEF BackendAnswers, Typed, TypeOK
      <4>2. CASE t = s
        BY <2>4, <3>1, <3>4, <3>6, <4>2, NoneAssumption
           DEF BackendAnswers, Typed, TypeOK, Job, NoJob
      <4>3. QED
        BY <4>1, <4>2
    <3>7. QED
      BY <2>4, <3>3, <3>4, <3>5, <3>6 DEF BackendAnswers, Typed, TypeOK, app
  <2>5. CASE SubmitReturns(s)
    <3>1. jobs[s].account \in Account \cup {None}
      BY <2>5 DEF SubmitReturns, Typed, TypeOK, Job, NoJob
    <3>2. [page EXCEPT !.txHash = jobs[s].account, !.processing = FALSE,
                      !.step = "verified"] \in Page
      BY <3>1 DEF Typed, TypeOK, Page, Step
    <3>3. [page EXCEPT !.verified = TRUE, !.step = "verified"] \in Page
      BY DEF Typed, TypeOK, Page, Step
    <3>4. QED
      BY <2>5, <3>2, <3>3, <1>1, FinishType DEF SubmitReturns
  <2>6. CASE AccessReturns(s)
    BY <2>6, FinishType DEF AccessReturns, Typed, TypeOK, Page
  <2>7. QED
    BY <1>10, <2>1, <2>2, <2>3, <2>4, <2>5, <2>6 DEF Progress
<1>11. CASE UNCHANGED vars
  BY <1>11 DEF Typed, TypeOK, vars, app
<1>12. QED
  BY <1>2, <1>3, <1>4, <1>5, <1>6, <1>7, <1>8, <1>9, <1>10, <1>11 DEF Next

(* Type correctness: every field of the page keeps to the values its       *)
(* screens expect, and every running handler is one the page can start.    *)
THEOREM TypeCorrect == Spec => []TypeOK
<1>1. Init => Typed
  BY DEF Init, Typed, TypeOK, NoJob, Fresh, Page, Step, Chain
<1>2. Typed /\ [Next]_vars => Typed'
  BY TypedStep
<1>3. Typed => TypeOK
  BY DEF Typed
<1>4. QED
  BY <1>1, <1>2, <1>3, PTL DEF Spec

--------------------------------------------------------------------------------
(* The invariant but for the types, as what is to be shown of a step.      *)
Held ==
    /\ AnswersTrue
    /\ ConfirmedIsRegistered
    /\ ButtonsComeBack
    /\ OutlivedAreSent
    /\ AwayIsFresh

\* The handlers that will clear isProcessing.
Busy == {"extract", "witness", "proof", "submit"}

(* A handler that ends on a page still shown keeps the invariant, when the *)
(* page it leaves claims no more than is so and waits for nobody who left. *)
LEMMA FinishHeld ==
  ASSUME IInv, NEW s \in Slot, NEW kind, NEW p, Finish(s, kind, p),
         view = "demo",
         p.txHash # None => p.txHash \in registered,
         p.processing /\ p.step \in Working =>
             page.processing /\ page.step \in Working /\ kind = "access",
         p.access = "requesting" => page.access = "requesting" /\ kind # "access"
  PROVE  Held'
<1>1. AnswersTrue' /\ OutlivedAreSent' /\ AwayIsFresh'
  BY DEF IInv, Typed, TypeOK, Finish, AnswersTrue, OutlivedAreSent, AwayIsFresh, NoJob, app
<1>2. ConfirmedIsRegistered'
  BY DEF Finish, ConfirmedIsRegistered
<1>3. \A t \in Slot : t # s => jobs'[t] = jobs[t]
  BY DEF IInv, Typed, TypeOK, Finish
<1>4. ButtonsComeBack'
  <2>1. ASSUME page'.processing, page'.step \in Working PROVE (Live(Busy) # {})'
    <3>1. PICK t \in Slot : jobs[t].kind \in Busy /\ jobs[t].live
      BY <2>1 DEF Finish, IInv, ButtonsComeBack, Live, Busy
    <3>2. t # s
      BY <2>1, <3>1 DEF Finish, Busy
    <3>3. QED
      BY <1>3, <3>1, <3>2 DEF Live
  <2>2. ASSUME page'.access = "requesting" PROVE (Live({"access"}) # {})'
    <3>1. PICK t \in Slot : jobs[t].kind = "access" /\ jobs[t].live
      BY <2>2 DEF Finish, IInv, ButtonsComeBack, Live
    <3>2. t # s
      BY <2>2, <3>1 DEF Finish
    <3>3. QED
      BY <1>3, <3>1, <3>2 DEF Live
  <2>3. QED
    BY <2>1, <2>2 DEF ButtonsComeBack, Busy
<1>5. QED
  BY <1>1, <1>2, <1>4 DEF Held

(* A handler that starts keeps the invariant, when the page waits for no   *)
(* other than it or those it waited for.                                   *)
LEMMA StartHeld ==
  ASSUME IInv, NEW s \in Slot, NEW kind, NEW phase \in {"running", "failed"},
         Start(s, kind, phase), view = "demo",
         page'.txHash = page.txHash, page'.step = page.step,
         page'.processing = page.processing \/ kind \in Busy,
         page'.access = page.access \/ kind = "access"
  PROVE  Held'
<1>1. AnswersTrue' /\ OutlivedAreSent' /\ AwayIsFresh'
  BY DEF IInv, Typed, TypeOK, Start, AnswersTrue, OutlivedAreSent, AwayIsFresh, NoJob, app
<1>2. ConfirmedIsRegistered'
  BY DEF IInv, Start, ConfirmedIsRegistered
<1>3. /\ \A t \in Slot : t # s => jobs'[t] = jobs[t]
      /\ jobs'[s].kind = kind /\ jobs'[s].live
  BY DEF IInv, Typed, TypeOK, Start
<1>4. ButtonsComeBack'
  <2>1. ASSUME page'.processing, page'.step \in Working PROVE (Live(Busy) # {})'
    <3>1. CASE kind \in Busy
      BY <1>3, <3>1 DEF Live
    <3>2. CASE kind \notin Busy
      <4>1. PICK t \in Slot : jobs[t].kind \in Busy /\ jobs[t].live
        BY <2>1, <3>2 DEF IInv, ButtonsComeBack, Live, Busy
      <4>2. t # s
        BY <4>1 DEF Start, NoJob, Busy
      <4>3. QED
        BY <1>3, <4>1, <4>2 DEF Live
    <3>3. QED
      BY <3>1, <3>2
  <2>2. ASSUME page'.access = "requesting" PROVE (Live({"access"}) # {})'
    <3>1. CASE kind = "access"
      BY <1>3, <3>1 DEF Live
    <3>2. CASE kind # "access"
      <4>1. PICK t \in Slot : jobs[t].kind = "access" /\ jobs[t].live
        BY <2>2, <3>2 DEF IInv, ButtonsComeBack, Live
      <4>2. t # s
        BY <4>1 DEF Start, NoJob
      <4>3. QED
        BY <1>3, <4>1, <4>2 DEF Live
    <3>3. QED
      BY <3>1, <3>2
  <2>3. QED
    BY <2>1, <2>2 DEF ButtonsComeBack, Busy
<1>5. QED
  BY <1>1, <1>2, <1>4 DEF Held

(* A handler ends, or its backend answers.                                 *)
LEMMA ProgressHeld ==
  ASSUME IInv, NEW s \in Slot, Progress(s)
  PROVE  Held'
<1>1. jobs[s] # NoJob
  BY DEF Progress, ExtractReturns, ConfirmReturns, EncryptReturns, BackendAnswers,
         SubmitReturns, AccessReturns, Finish, NoJob
<1>2. (jobs[s].kind # "submit" \/ jobs[s].phase # "running") => view = "demo" /\ jobs[s].live
  BY <1>1 DEF IInv, Typed, TypeOK, OutlivedAreSent, Job, NoJob
<1>3. CASE ExtractReturns(s)
  <2>1. view = "demo"
    BY <1>2, <1>3 DEF ExtractReturns, Finish
  <2>2. QED
    BY <1>3, <2>1, FinishHeld
       DEF ExtractReturns, Failed, IInv, Typed, TypeOK, Page, ConfirmedIsRegistered
<1>4. CASE ConfirmReturns(s)
  <2>1. view = "demo"
    BY <1>2, <1>4 DEF ConfirmReturns, Finish
  <2>2. QED
    BY <1>4, <2>1, FinishHeld
       DEF ConfirmReturns, Failed, IInv, Typed, TypeOK, Page, ConfirmedIsRegistered
<1>5. CASE EncryptReturns(s)
  <2>1. view = "demo"
    BY <1>2, <1>5 DEF EncryptReturns, Finish
  <2>2. QED
    BY <1>5, <2>1, FinishHeld
       DEF EncryptReturns, Failed, IInv, Typed, TypeOK, Page, ConfirmedIsRegistered
<1>6. CASE SubmitReturns(s)
  <2>1. view = "demo"
    BY <1>2, <1>6 DEF SubmitReturns
  <2>2. jobs[s].phase = "ok" => jobs[s].account \in registered
    BY <1>6 DEF SubmitReturns, IInv, AnswersTrue
  <2>3. QED
    BY <1>6, <2>1, <2>2, FinishHeld
       DEF SubmitReturns, Failed, IInv, Typed, TypeOK, Page, Working, ConfirmedIsRegistered
<1>7. CASE AccessReturns(s)
  <2>1. view = "demo"
    BY <1>2, <1>7 DEF AccessReturns, Finish
  <2>2. QED
    BY <1>7, <2>1, FinishHeld
       DEF AccessReturns, IInv, Typed, TypeOK, Page, ConfirmedIsRegistered
<1>8. CASE BackendAnswers(s)
  <2> DEFINE a == jobs[s].account
  <2>1. registered \subseteq registered' /\ jobs[s] \in Job
    BY <1>8, <1>1 DEF BackendAnswers, IInv, Typed, TypeOK
  <2>2. PICK phase \in {"ok", "already", "failed"} :
          /\ jobs'[s] = IF jobs[s].live THEN [jobs[s] EXCEPT !.phase = phase] ELSE NoJob
          /\ phase = "ok" => a \in registered'
    BY <1>8 DEF BackendAnswers, IInv, Typed, TypeOK
  <2>3. \A t \in Slot : t # s => jobs'[t] = jobs[t]
    BY <1>8 DEF BackendAnswers, IInv, Typed, TypeOK
  <2>4. AnswersTrue'
    BY <2>1, <2>2, <2>3 DEF IInv, AnswersTrue, Job, NoJob
  <2>5. OutlivedAreSent'
    <3>1. jobs[s].live => view = "demo"
      BY <1>1 DEF IInv, OutlivedAreSent, Typed, TypeOK
    <3>2. QED
      BY <1>8, <2>1, <2>2, <2>3, <3>1
         DEF BackendAnswers, IInv, Typed, TypeOK, OutlivedAreSent, Job, NoJob, app
  <2>6. \A kind : \A t \in Live(kind) : t \in Live(kind)'
    BY <2>1, <2>2, <2>3 DEF Live, Job
  <2>7. UNCHANGED page
    BY <1>8 DEF BackendAnswers
  <2>8. ButtonsComeBack'
    BY <2>6, <2>7 DEF IInv, ButtonsComeBack
  <2>9. ConfirmedIsRegistered' /\ AwayIsFresh'
    BY <1>8, <2>1, <2>7 DEF BackendAnswers, IInv, ConfirmedIsRegistered, AwayIsFresh, app
  <2>10. QED
    BY <2>4, <2>5, <2>8, <2>9 DEF Held
<1>9. QED
  BY <1>3, <1>4, <1>5, <1>6, <1>7, <1>8 DEF Progress

(* A click starts a handler.                                               *)
LEMMA ClickHeld ==
  ASSUME IInv, NEW s \in Slot, Click(s)
  PROVE  Held'
<1>1. CASE HandleFileChange(s)
  BY <1>1, StartHeld DEF HandleFileChange, UploadOffered, On, Begun, IInv, Typed, TypeOK, Page, Busy
<1>2. CASE HandleNext(s)
  <2>1. view = "demo" /\ page.step \in Busy
    BY <1>2 DEF HandleNext, ConfirmOffered, EncryptOffered, RegisterOffered, On, Busy
  <2>2. QED
    BY <1>2, <2>1, StartHeld DEF HandleNext, Begun, IInv, Typed, TypeOK, Page
<1>3. CASE HandleAccessRequest(s)
  BY <1>3, StartHeld DEF HandleAccessRequest, RequestOffered, On, IInv, Typed, TypeOK, Page
<1>4. QED
  BY <1>1, <1>2, <1>3 DEF Click

(* The steps that neither start nor end a handler.                         *)
LEMMA OtherHeld ==
  ASSUME IInv, ConnectWallet \/ AccountsChanged \/ SetChainId \/ OpenDemo \/ LeaveDemo
               \/ CheckAnswers \/ Reset \/ Navigate \/ UNCHANGED vars
  PROVE  Held'
<1> USE DEF IInv, Held, app
<1>1. CASE UNCHANGED jobs /\ UNCHANGED page /\ UNCHANGED registered /\ UNCHANGED view
           /\ (view = "other" => UNCHANGED checks)
  BY <1>1 DEF AnswersTrue, ConfirmedIsRegistered,
              ButtonsComeBack, Live, OutlivedAreSent, AwayIsFresh
<1>2. CASE ConnectWallet \/ AccountsChanged \/ SetChainId \/ UNCHANGED vars
  BY <1>1, <1>2 DEF ConnectWallet, AccountsChanged, SetAccount, SetChainId, vars
<1>3. CASE OpenDemo
  <2>1. UNCHANGED <<jobs, registered>> /\ page' = Fresh /\ view' = "demo" /\ view = "other"
    BY <1>3 DEF OpenDemo
  <2>2. OutlivedAreSent'
    BY <2>1 DEF OutlivedAreSent
  <2>3. QED
    BY <2>1, <2>2 DEF Fresh, AnswersTrue, ConfirmedIsRegistered,
       ButtonsComeBack, Live, AwayIsFresh
<1>4. CASE LeaveDemo
  <2>1. /\ UNCHANGED registered /\ page' = Fresh /\ checks' = {}
        /\ \A s \in Slot : jobs'[s] = NoJob
             \/ (jobs[s].kind = "submit" /\ jobs[s].phase = "running"
                 /\ jobs'[s] = [jobs[s] EXCEPT !.live = FALSE])
    BY <1>4 DEF LeaveDemo
  <2>2. \A s \in Slot : jobs[s].kind = "submit" => jobs[s] \in Job
    BY DEF Typed, TypeOK, NoJob
  <2>3. \A s \in Slot : jobs'[s] = NoJob
             \/ (jobs'[s].kind = "submit" /\ jobs'[s].phase = "running" /\ ~jobs'[s].live)
    BY <2>1, <2>2 DEF Job
  <2>4. AnswersTrue' /\ OutlivedAreSent'
    BY <2>3 DEF AnswersTrue, OutlivedAreSent, NoJob
  <2>5. QED
    BY <2>1, <2>4 DEF Fresh, ConfirmedIsRegistered,
       ButtonsComeBack, AwayIsFresh
<1>5. CASE CheckAnswers
  <2>1. UNCHANGED <<jobs, registered, view>> /\ view = "demo"
    BY <1>5 DEF CheckAnswers, AwayIsFresh, Typed, TypeOK
  <2>2. PICK answer \in BOOLEAN :
          page' = [page EXCEPT !.verified = answer]
    BY <1>5 DEF CheckAnswers
  <2>3. page \in Page
    BY DEF Typed, TypeOK
  <2>4. QED
    BY <2>1, <2>2, <2>3 DEF Page, AnswersTrue, ConfirmedIsRegistered,
       ButtonsComeBack, Live, OutlivedAreSent, AwayIsFresh
<1>6. CASE Reset \/ Navigate
  <2>1. UNCHANGED <<jobs, registered, view>> /\ view = "demo" /\ page \in Page
    BY <1>6 DEF Reset, Navigate, OnError, ResultOffered, StatusOffered, On, Typed, TypeOK
  <2>2. /\ page'.txHash \in {None, page.txHash}
        /\ page'.processing /\ page'.step \in Working => page.processing /\ page.step \in Working
        /\ page'.access = page.access
    BY <1>6, <2>1 DEF Reset, Navigate, ResultOffered, StatusOffered, On, Working, Page
  <2>3. QED
    BY <2>1, <2>2 DEF AnswersTrue, ConfirmedIsRegistered,
       ButtonsComeBack, Live, OutlivedAreSent, AwayIsFresh
<1>7. QED
  BY <1>2, <1>3, <1>4, <1>5, <1>6

(* The inductive invariant of the page and its handlers.                   *)
THEOREM Invariant == Spec => []IInv
<1>1. Init => IInv
  <2> SUFFICES ASSUME Init PROVE IInv
    OBVIOUS
  <2>1. Typed
    BY DEF Init, Typed, TypeOK, NoJob, Fresh, Page, Step, Chain
  <2>2. QED
    BY <2>1 DEF Init, IInv, AnswersTrue, ConfirmedIsRegistered,
       ButtonsComeBack, OutlivedAreSent, AwayIsFresh, Fresh, NoJob
<1>2. IInv /\ [Next]_vars => IInv'
  <2> SUFFICES ASSUME IInv, [Next]_vars PROVE IInv'
    OBVIOUS
  <2>1. Typed'
    BY TypedStep DEF IInv
  <2>2. Held'
    BY ClickHeld, ProgressHeld, OtherHeld DEF Next
  <2>3. QED
    BY <2>1, <2>2 DEF IInv, Held
<1>3. QED
  BY <1>1, <1>2, PTL DEF Spec

(* Whatever handlers overlap, a button switched off has a handler running  *)
(* that will switch it on again.                                           *)
THEOREM ButtonsNotLost == Spec => []ButtonsComeBack
  BY Invariant, PTL DEF IInv

(* "Transaction Confirmed" is only shown of an account in the registry.    *)
THEOREM ConfirmationsTrue == Spec => []ConfirmedIsRegistered
  BY Invariant, PTL DEF IInv

--------------------------------------------------------------------------------
(* An error stays on the screen: no handler that ends later hides it, and  *)
(* no other can be started before the user leaves the demo.                *)
THEOREM ErrorsStay == Spec => ErrorNotSwallowed
<1>1. IInv /\ [Next]_vars /\ page.error /\ ~page'.error => view' = "other" \/ Attempts # {}
  <2> SUFFICES ASSUME IInv, [Next]_vars, page.error, ~page'.error PROVE view' = "other"
    OBVIOUS
  <2>1. page \in Page /\ view \in {"demo", "other"}
    BY DEF IInv, Typed, TypeOK
  <2>2. view = "demo"
    BY <2>1 DEF IInv, AwayIsFresh, Fresh
  <2>3. ASSUME NEW s \in Slot, Click(s) PROVE FALSE
    BY <2>1, <2>3 DEF Click, HandleFileChange, HandleNext, HandleAccessRequest, UploadOffered,
       ConfirmOffered, EncryptOffered, RegisterOffered, RequestOffered, On
  <2>4. ASSUME NEW s \in Slot, Progress(s) PROVE FALSE
    <3>1. CASE BackendAnswers(s)
      BY <3>1 DEF BackendAnswers
    <3>2. CASE ExtractReturns(s) \/ ConfirmReturns(s) \/ EncryptReturns(s) \/ AccessReturns(s)
      BY <2>1, <3>2 DEF ExtractReturns, ConfirmReturns, EncryptReturns, AccessReturns,
         Finish, Failed, Page
    <3>3. CASE SubmitReturns(s)
      BY <2>1, <3>3 DEF SubmitReturns, Finish, Failed, Page
    <3>4. QED
      BY <2>4, <3>1, <3>2, <3>3 DEF Progress
  <2>5. CASE ConnectWallet \/ AccountsChanged \/ SetChainId \/ OpenDemo \/ UNCHANGED vars
    BY <2>2, <2>5 DEF ConnectWallet, AccountsChanged, SetAccount, SetChainId, OpenDemo, vars
  <2>6. CASE LeaveDemo
    BY <2>6 DEF LeaveDemo
  <2>7. CASE CheckAnswers \/ Reset \/ Navigate
    BY <2>1, <2>7 DEF CheckAnswers, Reset, Navigate, Page
  <2>8. QED
    BY <2>3, <2>4, <2>5, <2>6, <2>7 DEF Next
<1>2. QED
  BY <1>1, Invariant, PTL DEF Spec, ErrorNotSwallowed
================================================================================
