------------------------------- MODULE DemoWizard -------------------------------
(***************************************************************************)
(* The demo of the web front end: App (App.tsx) holds the connected wallet *)
(* and the view, IdentityVerification (IdentityVerification.tsx) walks     *)
(* through scan, confirm, encrypt, register and test access.               *)
(*                                                                         *)
(* Every handler of the page is asynchronous and none is ever cancelled:   *)
(* what it set in motion is a job in a slot, and the state it sets when it *)
(* ends is set on whatever the page has become by then.  The state of the  *)
(* page is the record page, one field per useState whose value decides     *)
(* what happens; file names, messages and the document's text are left     *)
(* out.                                                                    *)
(***************************************************************************)
EXTENDS Naturals, FiniteSets

CONSTANTS
    Account,        \* the accounts the user's wallet can expose
    None,           \* null
    Slot            \* bound: asynchronous handlers running at once

ASSUME NoneAssumption == None \notin Account

VARIABLES
    view,           \* App: the demo, or any other page
    account,        \* App: the connected account
    chainId,        \* App: the last network reported
    page,           \* the state of IdentityVerification
    checks,         \* the accounts whose isRegistered call is pending
    jobs,           \* its running handlers
    registered      \* accounts with an identity in the registry

vars == <<view, account, chainId, page, checks, jobs, registered>>
app == <<view, account, chainId>>

(***************************************************************************)
(* State.                                                                  *)
(***************************************************************************)
NoJob == [kind |-> "none"]
Chain == {"noah", "other"}
Step == {"scan", "witness", "proof", "submit", "verified", "access"}

\* The steps whose buttons wait for isProcessing.
Working == {"scan", "witness", "proof", "submit"}

\* Faulty variant: the access status starts as no screen expects it.
FreshIdle ==
    [step |-> "scan", processing |-> FALSE, error |-> FALSE,
     txHash |-> None, fheInput |-> FALSE, verified |-> FALSE, access |-> "idle"]

\* What mounting the component gives: useState's initial values.
Fresh ==
    [step |-> "scan", processing |-> FALSE, error |-> FALSE,
     txHash |-> None, fheInput |-> FALSE, verified |-> FALSE, access |-> "none"]

Page == [step : Step, processing : BOOLEAN, error : BOOLEAN,
         txHash : Account \cup {None},  \* a transaction is named by the account it registers
         fheInput : BOOLEAN, verified : BOOLEAN,
         access : {"none", "requesting", "answered"}]      \* granted or denied

Job ==
    [kind : {"extract", "witness", "proof", "submit", "access"},
     phase : {"running", "ok", "already", "failed"},    \* the backend's answer to a submit
     account : Account \cup {None},                     \* the account captured by the handler
     live : BOOLEAN]                                    \* the component is still mounted

TypeOK ==
    /\ view \in {"demo", "other"}
    /\ account \in Account \cup {None}
    /\ chainId \in Chain
    /\ page \in Page
    /\ checks \subseteq Account
    /\ jobs \in [Slot -> Job \cup {NoJob}]
    /\ registered \subseteq Account

Init ==
    /\ view = "other"
    /\ account = None
    /\ chainId = "other"       \* null, which is not the Noah network either
    /\ page = Fresh
    /\ checks = {}
    /\ jobs = [s \in Slot |-> NoJob]
    /\ registered \in SUBSET Account

(***************************************************************************)
(* The effect that asks whether the account is registered: it runs when    *)
(* the account or the step changes, on the scan step only, and never       *)
(* cancels the call before.                                                *)
(***************************************************************************)
Checks(a) == {a} \ {None}

\* The registry may be read at any time between the call and the answer, or by
\* a node that has not seen the last block; an error leaves the flag as it was.
CheckAnswers ==
    \E a \in checks :
        /\ checks' = checks \ {a}
        /\ \E answer \in BOOLEAN :
               /\ answer => a \in registered \/ page.verified
               /\ page' = [page EXCEPT !.verified = answer]
        /\ UNCHANGED <<app, jobs, registered>>

(***************************************************************************)
(* App: the wallet.                                                        *)
(***************************************************************************)
SetAccount(a) ==
    /\ account' = a
    /\ checks' = checks \cup (IF view = "demo" /\ page.step = "scan" /\ a # account
                              THEN Checks(a) ELSE {})
    /\ UNCHANGED <<view, chainId, page, jobs, registered>>

\* connectWallet, once the user has approved it.
ConnectWallet == account = None /\ \E a \in Account : SetAccount(a)

\* The wallet's accountsChanged.
AccountsChanged == \E a \in Account \cup {None} : SetAccount(a)

\* The network connectWallet reads, the one it reads again after asking the
\* wallet to switch (which the user may refuse), and the wallet's chainChanged.
SetChainId ==
    /\ \E c \in Chain : chainId' = c
    /\ UNCHANGED <<view, account, page, checks, jobs, registered>>

(***************************************************************************)
(* App: the view.  Leaving unmounts the page: its handlers go on without   *)
(* an effect on it, but a registration under way still reaches the         *)
(* backend.                                                                *)
(***************************************************************************)
OpenDemo ==
    /\ view = "other"
    /\ view' = "demo"
    /\ page' = Fresh
    /\ checks' = Checks(account)
    /\ UNCHANGED <<account, chainId, jobs, registered>>

LeaveDemo ==
    /\ view = "demo"
    /\ view' = "other"
    /\ page' = Fresh
    /\ checks' = {}
    /\ jobs' = [s \in Slot |-> IF jobs[s].kind = "submit" /\ jobs[s].phase = "running"
                               THEN [jobs[s] EXCEPT !.live = FALSE] ELSE NoJob]
    /\ UNCHANGED <<account, chainId, registered>>

(***************************************************************************)
(* What each screen offers.  An error replaces every screen by one whose   *)
(* only button is Try Again.                                               *)
(***************************************************************************)
On(step) == view = "demo" /\ ~page.error /\ page.step = step

OnError == view = "demo" /\ page.error
StatusOffered == On("scan") /\ page.verified
\* The dialog is opened where the flag is not set, which it may be meanwhile.
UploadOffered == On("scan") /\ ~page.processing
ConfirmOffered == On("witness") /\ ~page.processing
EncryptOffered == On("proof") /\ ~page.processing
RegisterOffered ==
    On("submit") /\ ~page.processing /\ account # None /\ chainId = "noah"
ResultOffered == On("verified")
RequestOffered == On("access") /\ page.access = "none"

(***************************************************************************)
(* Handlers.                                                               *)
(***************************************************************************)
Start(s, kind, phase) ==
    /\ jobs[s] = NoJob
    /\ jobs' = [jobs EXCEPT ![s] =
                   [kind |-> kind, phase |-> phase, account |-> account, live |-> TRUE]]
    /\ UNCHANGED <<app, checks, registered>>

\* The job in slot s ends and leaves the page as p.
Finish(s, kind, p) ==
    /\ jobs[s].kind = kind
    /\ jobs' = [jobs EXCEPT ![s] = NoJob]
    /\ page' = p
    /\ UNCHANGED <<app, checks, registered>>

Begun == [page EXCEPT !.processing = TRUE, !.error = FALSE]
\* Faulty variant: the catch block forgets isProcessing.
FailedBusy == [page EXCEPT !.error = TRUE]

Failed == [page EXCEPT !.processing = FALSE, !.error = TRUE]

HandleFileChange(s) == UploadOffered /\ Start(s, "extract", "running") /\ page' = Begun

\* Faulty variant: a successful extraction clears the error of another handler.
ExtractClearsError(s) ==
    \/ Finish(s, "extract", [page EXCEPT !.step = "witness", !.processing = FALSE, !.error = FALSE])
    \/ Finish(s, "extract", Failed)

ExtractReturns(s) ==
    \/ Finish(s, "extract", [page EXCEPT !.step = "witness", !.processing = FALSE])
    \/ Finish(s, "extract", Failed)

\* handleNext on each of the steps that use it; without an account it returns,
\* and without an encrypted input nothing is posted.
HandleNext(s) ==
    /\ ConfirmOffered \/ EncryptOffered \/ RegisterOffered
    /\ account # None
    /\ Start(s, page.step, IF page.step = "submit" /\ ~page.fheInput THEN "failed" ELSE "running")
    /\ page' = Begun

\* The witness step is a timer, but the signer is asked for first.
ConfirmReturns(s) ==
    \/ Finish(s, "witness", [page EXCEPT !.processing = FALSE, !.step = "proof"])
    \/ Finish(s, "witness", Failed)

EncryptReturns(s) ==
    \/ Finish(s, "proof", [page EXCEPT !.fheInput = TRUE, !.processing = FALSE, !.step = "submit"])
    \/ Finish(s, "proof", Failed)

\* Faulty variant: a refusal is never answered.
BackendAnswersSuccess(s) ==
    /\ jobs[s].kind = "submit" /\ jobs[s].phase = "running"
    /\ jobs[s].account \notin registered
    /\ registered' = registered \cup {jobs[s].account}
    /\ jobs' = [jobs EXCEPT ![s] = IF @.live THEN [@ EXCEPT !.phase = "ok"] ELSE NoJob]
    /\ UNCHANGED <<app, page, checks>>

\* The backend's answer to POST /identity/register.  "Already registered" is said
\* of the account and also of its document, which may be bound to any wallet.  A
\* failure can hide a registration: the answer is lost, or the backend gave up
\* after the broadcast.
BackendAnswers(s) ==
    /\ jobs[s].kind = "submit" /\ jobs[s].phase = "running"
    /\ LET a == jobs[s].account IN
       \E phase \in {"ok", "already", "failed"} :
          /\ phase = "ok" => a \notin registered
          /\ registered' \in IF phase = "ok" THEN {registered \cup {a}}
                             ELSE IF phase = "already" THEN {registered}
                             ELSE {registered, registered \cup {a}}
          /\ jobs' = [jobs EXCEPT ![s] = IF @.live THEN [@ EXCEPT !.phase = phase] ELSE NoJob]
    /\ UNCHANGED <<app, page, checks>>

\* Faulty variant: the answer's success flag is not looked at.
SubmitTrusting(s) ==
    /\ jobs[s].kind = "submit"
    /\ jobs[s].phase # "running"
    /\ Finish(s, "submit", [page EXCEPT !.txHash = jobs[s].account,
                                        !.processing = FALSE, !.step = "verified"])

\* "Already registered" leaves isProcessing set.
SubmitReturns(s) ==
    /\ jobs[s].kind = "submit"
    /\ \/ /\ jobs[s].phase = "ok"
          /\ Finish(s, "submit", [page EXCEPT !.txHash = jobs[s].account,
                                              !.processing = FALSE, !.step = "verified"])
       \/ /\ jobs[s].phase = "already"
          /\ Finish(s, "submit", [page EXCEPT !.verified = TRUE, !.step = "verified"])
       \/ /\ jobs[s].phase = "failed"
          /\ Finish(s, "submit", Failed)

HandleAccessRequest(s) ==
    /\ RequestOffered
    /\ account # None
    /\ Start(s, "access", "running")
    /\ page' = [page EXCEPT !.access = "requesting"]

\* The repository's access contract lacks the view this ends in; a contract at
\* the configured address that has it grants or denies.
AccessReturns(s) ==
    \/ Finish(s, "access", [page EXCEPT !.access = "answered"])
    \/ Finish(s, "access", [page EXCEPT !.access = "none", !.error = TRUE])

\* Try Again, Done and Reset Verification State.  Neither the error nor the
\* encrypted input, the flag or the access status is reset.
Reset ==
    /\ OnError \/ ResultOffered
    /\ page' = [page EXCEPT !.step = "scan", !.processing = FALSE, !.txHash = None]
    /\ checks' = checks \cup (IF page.step = "scan" THEN {} ELSE Checks(account))
    /\ UNCHANGED <<app, jobs, registered>>

\* The buttons that only set state.
Navigate ==
    /\ \/ StatusOffered /\ page' = [page EXCEPT !.step = "verified"]
       \/ StatusOffered /\ page' = [page EXCEPT !.verified = FALSE]
       \/ ResultOffered /\ page' = [page EXCEPT !.step = "access"]
       \/ On("access") /\ page' = [page EXCEPT !.step = "verified"]
    /\ UNCHANGED <<app, checks, jobs, registered>>

(***************************************************************************)
(* Specification.                                                          *)
(***************************************************************************)
\* Progress of a running handler, which the user does not have to help.
Progress(s) ==
    \/ ExtractReturns(s)
    \/ ConfirmReturns(s)
    \/ EncryptReturns(s)
    \/ BackendAnswers(s)
    \/ SubmitReturns(s)
    \/ AccessReturns(s)

Click(s) == HandleFileChange(s) \/ HandleNext(s) \/ HandleAccessRequest(s)

Next ==
    \/ ConnectWallet
    \/ AccountsChanged
    \/ SetChainId
    \/ OpenDemo
    \/ LeaveDemo
    \/ CheckAnswers
    \/ Reset
    \/ Navigate
    \/ \E s \in Slot : Click(s) \/ Progress(s)

Spec == Init /\ [][Next]_vars

FairSpec == Spec /\ \A s \in Slot : WF_vars(Progress(s))

(***************************************************************************)
(* Properties.                                                             *)
(***************************************************************************)
Live(kind) == {s \in Slot : jobs[s].kind \in kind /\ jobs[s].live}

\* Whatever handlers overlap, a button switched off by isProcessing or by the
\* access status has a handler running that will switch it on again: reset,
\* a late extraction and "already registered" never leave the page waiting for
\* nobody (isProcessing, handleAccessRequest).
ButtonsComeBack ==
    /\ page.processing /\ page.step \in Working
          => Live({"extract", "witness", "proof", "submit"}) # {}
    /\ page.access = "requesting" => Live({"access"}) # {}

\* "Transaction Confirmed" is only shown for an account the registry holds,
\* after lost answers, refusals and registrations that outlived the page that
\* sent them (handleNext's submit branch).
ConfirmedIsRegistered == page.txHash # None => page.txHash \in registered

\* "Your wallet {account} is already associated with a valid Noah Credential
\* on-chain" (IdentityVerification.tsx:290) is so of that wallet, once no answer
\* is awaited: after a switch of account, an answer for the account before, one
\* that failed, or a refusal (checkVerification, handleNext, the scan screen).
StatusNamesTheWallet ==
    StatusOffered /\ account # None /\ checks = {} => account \in registered

\* A handler started by the user in this step.
Attempts ==
    {s \in Slot : jobs[s] = NoJob /\ jobs'[s].kind \in {"extract", "witness", "proof", "submit"}}

\* An error stays on the screen until the user starts another attempt or leaves
\* the demo: no handler that ends later hides it (handleFileChange, handleNext,
\* handleAccessRequest, reset).
ErrorNotSwallowed == [][page.error /\ ~page'.error => view' = "other" \/ Attempts # {}]_vars

\* What the user waits for comes: no step stays busy for ever, whatever else the
\* user does meanwhile (handlers that always settle).
WizardSettles ==
    (page.processing /\ page.step \in Working) ~> (~page.processing \/ page.step \notin Working)
================================================================================
