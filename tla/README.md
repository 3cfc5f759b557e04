# A verification of Noah in TLA+

Noah lets a person prove to a protocol that they are old enough without showing
a document: an SDK reads the document and encrypts the age, a backend registers
the wallet on chain through a relayer that pays the gas, and protocols ask a
contract whether a wallet may enter. This directory holds TLA+ models of that
system, the TLC configurations that check them on small instances, and proofs
for TLAPS. Paths below are relative to the repository.

Contents: 1 the system; 2 the modules and how they correspond to the code;
3 the runs; 4 fairness and environment; 5 the proofs; 6 findings; 7 what is not
modelled; 8 the plan.

## 1. The system

| component | state it keeps | operations | what makes it correct |
|---|---|---|---|
| Identity registry, `src/FHENoahRegistry.sol` | roles, trusted issuers, four mappings per wallet and nullifier | constructor, role grants, `addIssuer`, `registerIdentity` | one wallet, one document; nothing moves a binding or its age; the four mappings agree |
| Access contract, `src/FHEProtocolAccessControl.sol` | each protocol's minimum age | `setRequirements`, `verifyAccess` | an answer once given is never withdrawn by a later transaction |
| Deployment, `script/Deploy.s.sol`, `scripts/` | none (chain state) | deploy, grant roles, add issuers | relayer and deployer can do what the backend needs |
| Relayer, `backend/src/services/RelayerService.ts` | a promise chain, `nonceLock` | `sendTransaction` | one sender at a time, no nonce collision, no call left waiting |
| Backend routes and services, `backend/src/{routes,services}` | per request only | register, set requirements, add issuer, request verification; error handler | the HTTP status tells the client the truth about the chain |
| Server process, `backend/src/server.ts`, `ecosystem.config.js` | process up or down | shutdown, crash, restart by pm2 | a restart neither loses the lock's purpose nor leaves a client waiting |
| Credential store, `backend/src/services/IssuerService.ts` | a `Set` of revoked hashes | register, revoke, check | a revoked credential stays revoked |
| Wallet adapter, `sdk/src/core/WalletAdapter.ts` | provider, signer, account, chain id, attached handlers, listeners | five connect methods, `switchNetwork`, `disconnect`, three event handlers | the adapter follows the wallet; its listeners follow the adapter |
| MRZ parsers, `sdk/src/utils/mrz.ts` and `IdentityService.parseMRZ` | none | check digits, repair, dates, age | a valid document is read as it is; a misreading does not pass for a reading; the backend's age is the holder's |
| OCR worker, `sdk/src/utils/ocr.ts`, `identity.ts` | one lazily created worker | initialize, extract, terminate | no worker lost, none dead while it counts as ready, no extraction left waiting |
| SDK clients, `sdk/src/core`, `user`, `protocol`, `issuer` | configuration, an FHE instance | forward to contract or API, encrypt, derive nullifiers | the same person gets the same nullifier |
| React hooks, `sdk/src/hooks` | the query cache, `currentProtocolAddress` | queries, mutations, re-rendering | what is shown answers what is asked, and is not older than what was acknowledged |
| Demo wizard, `frontend/src` | wallet and view; step, error, flags and results of the page | file, next, access request, reset, connect, leave | no button is lost, no error hidden, nothing shown as confirmed that is not (finding 3: the status screen) |
| NoahGame, `Examples/NoahGame/frontend/index.html` | wallet, registration poll, game lock | connect, register, poll, roll | the game opens for the account that registered |

How they interact. The wizard and the game call the SDK or the backend's HTTP
API. Every transaction the backend makes goes through the single relayer wallet,
so all HTTP handlers of the process share one promise chain, one nonce sequence
and, on chain, one `msg.sender`. `verifyAccess` reads the registry of the other
contract. The wallet adapter shares its fields between its own asynchronous
methods and the handlers the wallet calls. The wizard's handlers are asynchronous
closures that nothing cancels, over state React keeps; the hooks' are the cache's
fetches; the extractions of one `NoahSDK` share one OCR worker.

What is hard here: handlers interleave at every `await`; the node handles a
broadcast whose answer is lost; the gas estimate runs on one state and the
transaction on another; the process dies with transactions in the mempool; errors
are told apart by substrings in a fixed order; events and answers of a wallet
race with the methods that wait for them; zero values mean both "absent" and
themselves. `PROJECT.json` lists each hazard at its line.

## 2. The modules

```
IdentityBinding          what the registry promises
  ^ implemented by
NoahRegistry  <- ProtocolAccess        the two contracts
                   ^        \- ProtocolAccessProofs
Relayer  <---------+------  NoahBackend    backend = relayer + contracts + routes
  \- RelayerProofs  <-------  \- NoahBackendProofs
WalletAdapter                          stands alone
  \- WalletAdapterProofs
DemoWizard                             stands alone
  \- DemoWizardProofs
MRZ  <--------  DocumentScan           two parsers <- who reads a document
  \- MRZProofs  <-  \- DocumentScanProofs
SdkHooks  <- IssuerCredentials         hooks and contracts <- credential store, SDK issuer
               \- IssuerCredentialsProofs    (the hooks' proofs too)
MC*                                    instances for TLC
```

**IdentityBinding.** A set of (wallet, document) pairs that only grows and is
one-to-one. No trace of how the code keeps it.

**NoahRegistry, ProtocolAccess.** One action per external call that changes state.
A transaction is atomic and a revert changes nothing, so a `require` is a conjunct.
A mapping to `bool` is a set; the other mappings are functions whose default is the
zero value, and the zero address, the zero nullifier and the all-zero ciphertext are
ordinary members of their sets: `registerIdentity` accepts all three as arguments, and
reads the first two as "absent". Ages are opaque ciphertexts (`getSealedAge` is a
placeholder in the code, and nothing decides on an age). A requirement is the record
of the contract, a minimum age and `isSet`. `VerifyAccess` is a predicate: the view reverts or
returns true, never false, and never looks at the age. OpenZeppelin's
`AccessControl` is external.

**Relayer.** `sendTransaction`, one action for each stretch between two awaits.
`nonceLock` is a chain of promises: each call takes the next number as its own
promise (`ticket`), waits for the one before it (`ticket[r] - 1`), and resolves its
own in `finally` (`Release`). The node and chain are external: `ledger` is the
relayer's transactions in nonce order, of which the first `mined` are in blocks;
`wire` holds raw transactions still on their way. The environment of a behaviour is
chosen once, in `faults`: `"lag"` lets a pending count come from a node that has
not yet seen the latest broadcasts (ethers talks to a load-balanced public RPC),
`"late"` lets a broadcast that timed out, or whose process died, arrive at any later
time. The nonce properties are stated for `faults = {}`; the others for all.

**NoahBackend.** Extends `Relayer`, whose calls are its requests, and has the contracts
as an `INSTANCE` of `ProtocolAccess`. A request carries a body and ends with an HTTP status. The gas estimate
needs the call to succeed on the state of the latest block; the mined transaction
runs again on the state of its own block (`Mine`). `ErrorStatus` is the order of
patterns in `errorHandler.ts:28-45` applied to the ways `sendTransaction` and
`tx.wait()` throw: underfunded and nonce errors are 502, reverts (in the estimate,
or a receipt of status 0, which ethers words "execution reverted") are 400, RPC
failures and time-outs are 500. A `TRANSACTION_REPLACED` error says
"replacement=", which the nonce pattern catches. A registration awaits
`checkBalance` after its receipt (`IdentityService.ts:108-109`); the other
operations answer from the receipt. An RPC error in `tx.wait()` is `WaitFails`: the
client gets a 500 for a transaction that is still pending.

**WalletAdapter.** A task is a running method or handler: which one, which await it
is at, and what it closed over. Each action is the code between two awaits, and
reads `this.provider` and `this.eip1193Provider` as they are then, not as they were.
`ConnectWithLocalSigner` is the branch for a signer without a provider, which leaves the
provider and network of the connection before. `ExpectedChain` is `config.chainId`,
`None` where it is unset, `TargetChain` is `networkConfig.chainId`.
A wallet sends events and answers over one ordered channel, each with the values it
had when it sent it; a change and the answer to the request that made it come in
either order. Two observers watch the adapter: `told` (nothing was assigned since
the listeners were last called) and `heard`, the wallet in session, if any: the one a
connect call was made for while nothing ran and no other wallet was connected or
listened to (`Begins`). An event that finds no handler ends the session, and so do a
connect that throws and every other method that connects.

**DemoWizard.** `page` is the record of the component's `useState` values that
decide anything, `jobs` its running handlers, each with the account it closed over,
`checks` the accounts whose `isRegistered` call is under way. Nothing is cancelled: a
handler sets its part of the page when it ends, whatever the page has become. Leaving
the demo unmounts the page; only a registration already posted lives on, and can still
reach the registry. The backend's answer to it is `ok`, `already` or `failed`, and a
failure may hide a registration, as `NoahBackend!ErrorMeansNoEffect` says when;
`already` says nothing of the account, for the page looks for "already registered" in a
message that may be about the document, bound to any wallet. The
registry's answer to `isRegistered` may be older than the last block.

**MRZ.** Both parsers as operators over a reading: the zone cut at the columns they
use, with characters kept where a check digit is computed. `ValidateCheckDigitWithRepair`
tries the strategies in the code's order; `NewDate` rolls a day over as `Date` does;
`ParseFields` is `parseTD3` and `parseTD1`, which differ in columns and in the two
points it names. `ParseMRZ` is the backend's own parser, which shares nothing with it:
a reading without the last column, which the SDK pads, fails its test of the first
line's length (`FirstLineFits`).

**DocumentScan.** Who calls the parsers. `OCRExtractor` is one action for each await:
the worker is created (`WorkerCreated`), configured, asked to recognise; `Cleanup` and
`WorkerTerminated` are the two halves of `terminate`. `owner` is the class that has the
extractor: `IdentityManager` (strict, offers cleanup) or `NoahSDK` (permissive by
default, offers none). The OCR engine is external: any reading in `Damage`. `last` is
what the step just taken answered to its caller, so that every answer is a state the
invariants see.

**SdkHooks.** A component uses one hook, with a signer and an address it may change at
any time. The query cache is a library, modelled by the rules the hooks rely on: an
invalidation refetches what is observed, cancelling a running fetch unless it is the
first load; what is not observed is fetched when it is next. A fetch reads the chain in
one step and lands in a later one.

**IssuerCredentials.** Adds the backend's credential routes and the SDK's issuer client
to the same application and chain. A hash is written in lower or mixed case. `owed`
marks a request that was sent after a revocation of its credential was acknowledged.

`Faulty variant` definitions are plausible mistakes in the code. They are part of
no specification: each documents which property depends on the definition after it.

## 3. The runs

| run | instance | checks | shows |
|---|---|---|---|
| `registry` | 3 addresses (zero, deployer, one user), 3 nullifiers (zero, two), 2 ciphertexts (all-zero, one), 1 minimum age | `TypeOK`, `BindingsMatch`, `RegistrationComplete`, `BindingPermanent`, `AccessNeverWithdrawn`, `BindingSpec` | the two contracts keep a one-to-one, permanent binding and refine `IdentityBinding` |
| `registry_zero` | same | `RegisteredOnce`, violated | finding 1 |
| `relayer` | 3 calls | `RelayerTypeOK`, `MutualExclusion`, `NonceFresh`, `ArrivalOrder`, `AcceptedForGood` | the promise chain excludes and orders, over RPC failures, crashes and restarts |
| `backend` | 2 requests, 6 bodies, a second issuer | `TypeOK`, `OkMeansBound`, `OneOkPerIdentity`, `ErrorMeansNoEffect`, `RefusedMeansBound`, `LastRequirementsWin` | what each status tells the client |
| `backend_answers` | 2 requests, 3 bodies, fair | `EveryRequestAnswered` | no failure of one call blocks the next |
| `wallet` | 1 wallet, 2 accounts, 2 networks, 2 tasks | `TypeOK`, `ListenersUpToDate`, `FollowsWallet` | in a session, an adapter that heard every change agrees with the wallet; the listeners agree with it |
| `wallet_custom` | same, the other connect methods | `ListenersUpToDate` | the same of the connections without handlers |
| `wallet_chain` | as `wallet` | `ChainIdIsCurrent`, violated | finding 2 |
| `demo_wizard` | 2 accounts, 2 handlers, fair | `TypeOK`, `ButtonsComeBack`, `ConfirmedIsRegistered`, `ErrorNotSwallowed`, `WizardSettles` | the page neither gets stuck nor confirms what is not so, whatever overlaps |
| `demo_wizard_status` | same, without fairness | `StatusNamesTheWallet`, violated | finding 3 |
| `document_scan` | 2 extractions, 3 workers, 6 documents, fair | `TypeOK`, `NoWorkerLost`, `ReadyIsAlive`, `CleanReadingKept`, `MisreadIsCaught`, `BackendAgeOneMore`, `ScanSettles` | the OCR worker's life, and what both parsers make of each reading |
| `sdk_apps` | 2 accounts, one given address, 2 requests, 1 update of each requirement | `TypeOK`, `AckedIsShown`, `ShownIsAsked`, `RevokedStaysRevoked` | what the hooks show against the chain; revocations against restarts |

Why the bounds are enough.

* *Contracts.* All guards compare one address and one nullifier; two documents for
  one wallet and two wallets (the user and the deployer) for one document give every
  pair the guards can tell apart, and the zero values add the mixtures with
  "absent". The proofs lift all of it to any sets.
* *Relayer.* With three calls one can hold the lock, one wait for it and one wait
  for the waiter; each call is made once, so counters are bounded by the number of
  calls, and restarts need no bound. The proofs lift the safety to any number.
* *Backend.* A conflict is between two requests, or a request and the direct
  issuer, which `RegisterDirectly` makes any number of times. The bodies hold two
  registrations of one wallet, one document claimed for two wallets, a zero
  nullifier, and two requirements; the fair run holds a call that may fail, one
  that always succeeds, and one that never does (`requestAccessVerification`, which
  neither contract has). The zero address as a user is left to the contracts' own run
  and to the proofs, which take every body the schemas let through.
* *Wallet.* Two tasks: a method against a handler, a handler against a handler, or
  two methods. `MaxInbox` = 1: the user makes a further change once fewer than that
  many messages are under way (answers may exceed it). `MaxAttached` = 2: handlers
  attached twice, which a `disconnect()` during a connect really causes. An event
  waits until as many tasks are idle as it has handlers. `Calls` names the methods
  the application uses in a run; methods with and without handlers are run apart.
  One wallet: with two, `TypeOK` and `ListenersUpToDate` are proved as with any number;
  the hazards of a second one are listed and left open.
* *Wizard.* Two accounts, to switch between; two handlers, so that one can end after
  the page has been reset and another started. A third behaves as one of the two:
  no handler reads what another closed over. The proofs lift the safety to any number.
* *Document scan.* Two extractions overlap in every way; three workers are the most
  they can have alive or under way, and when none is unused a further one waits. The
  documents hold the boundary cases: sevens in dates and check digits, a birthday still
  to come, a centenarian, a name ending in I, 29 February, a card with the check digit
  7. `Today` is fixed, 15 March 2026. `Confused` is the pairs an OCR does confuse, in
  one character of a field or check digit at a time, plus one pair between characters
  of the same value modulo 10. The backend's extraction shares nothing with the
  SDK's and runs while no other does; `Taken` lets an answer go before the next.
* *SDK applications.* A component keeps one hook, and one address can be given besides
  none: with two accounts that gives the given address, the signer's own and their
  mixtures. A requirement is set once (`MaxSets`), a wallet registered once. The issuer
  acts in a run without hooks (`hook = "none"`): the two share only the registry, which
  other users change in both.

Symmetry: requests in `relayer` and `backend`, tasks and accounts in the wallet
runs; none of them is told apart by a specification. The other runs use none.

## 4. Fairness and environment

`NoahBackend!Fairness` is weak fairness of

* each handler (`Handle`): a promise callback runs once its promise is settled, and
  an RPC call ends, with an answer or ethers' own 300 s time-out. An error in `tx.wait()`
  is left out of it (`~WaitFails`): that a request ends must not rest on a failure;
* the node for each transaction that reached it, and block production (`Mine`);
* `Restart`: pm2 restarts the process (`restart_delay` 3000 in
  `ecosystem.config.js`). pm2 gives up after 10 quick restarts (`max_restarts`,
  `min_uptime`); behaviours past that point are not claimed live.

Nothing is fair about arrivals, crashes or failures. Three things are taken from
the environment and not from the code, and a reader should know them:

* a transaction the node accepted is mined, or replaced by one of the relayer's: a
  network that drops it would leave `tx.wait()`, which has no time-out, open for ever;
* with `faults = {}`, a restart comes after a broadcast of the dead process has
  arrived or been lost, which the 3 s delay makes likely and the code does not check;
* one backend instance per relayer key, as the comment at `ecosystem.config.js:13`
  requires.

`DemoWizard!FairSpec` is weak fairness of each running handler: an extraction, an
encryption, an access request and a POST end, with a result or an error (the page has
no time-out of its own; the browser's and the backend's apply). The user is never
fair: nobody has to click. `DocumentScan!FairSpec` is weak fairness of each call on a
worker that is alive: tesseract answers or rejects it. A worker that was terminated
answers nothing, and `ScanSettles` says so with `disturbed`.

The other specifications state safety only and no fairness.

## 5. The proofs

`ProtocolAccessProofs`, for any sets of addresses, nullifiers, ciphertexts and
ages, from the three assumptions of `NoahRegistry` (the zero address, the zero nullifier and
the all-zero ciphertext are each among theirs, the deployer is not the zero address):

* `TypeCorrect`, `BindingsCorrect`, `RegistrationsComplete`: `BindingsMatch` and
  `RegistrationComplete` are proved inductive with `TypeOK`. Zero arguments are where
  the case analysis is: a wallet bound to the zero nullifier may be bound again, and
  it is the document guard that keeps the mappings agreeing then.
* `StepKeepsBinding`, that no step disturbs an existing non-zero binding, gives
  `BindingsPermanent` and, with the registry seen as a set of pairs, `Refinement`:
  every call adds one free pair or stutters. `AbstractOneToOne` then gives the
  promise itself in the abstract terms.
* `AccessPermanent`: `isRegistered` only grows and a set requirement stays set.

`RelayerProofs`, for any set of calls:

* `LockInvariant`. Mutual exclusion is not inductive: nothing in it says that two
  waiting calls wait for different promises, or that a promise is not resolved
  before its predecessor. `LockInv` adds that the resolved promises are a prefix of
  the chain, that each queued call owns a distinct unresolved one, and that a call
  past its await has its predecessor resolved. Then two critical calls own the same
  number (`HolderIsFirst`), hence are one call (`MutualExclusionHolds`).
* `NonceInvariant`, for `faults = {}`: the call past its read, or the transaction on
  the wire, has exactly the node's next nonce, and at most one is on the wire. A
  crash is the hard case: the transaction of a dead process must be off the wire
  before the new process reads. Hence `NoncesFresh` and `LedgerGrows`
  (`AcceptedForGood`).
* `NoncesInArrivalOrder`, from `OrderInv`: every transaction the node holds has a
  smaller ticket than every call that has yet to send.

`DemoWizardProofs`, for any accounts and any number of handlers, from `None` being no
account:

* `ButtonsComeBack` is not inductive: the step can change under a handler, so that one
  that ends might be the last a busy page has. `Held` says what is: the page is busy
  only with a live handler of a working step, or past those steps. `AnswersTrue` and
  `OutlivedAreSent` carry a registration from the answer to the page that shows it;
  `AwayIsFresh` says that an unmounted page holds nothing. Nothing is proved of the flag
  "already verified", which may be another account's (finding 3). `FinishHeld`, `StartHeld`, `ProgressHeld`,
  `ClickHeld` and `OtherHeld` are the invariant's steps.

`NoahBackendProofs`, for any number of requests and any bodies the schemas let through,
from the contracts' assumptions, the relayer's wallet being a non-zero account other
than the deployer, and `computeNullifier` being injective and never zero:

* *Composition.* `BackendUsesRelayer`: every step of the backend is one of the
  relayer's or leaves it alone, so all of `RelayerProofs` holds in the backend.
  `BackendCallsContracts`: whatever a step does to the chain is one call the contracts
  allow, by a sender they allow it. `BackendKeepsBindings`: the chain behind the backend
  implements `IdentityBinding`. (`NoahBackend!Init` is the state after the deployment
  script, which grants the relayer's roles, and `scripts/add-issuer.ts`, run for the
  relayer's wallet, not that of the constructor.)
* *Answers.* None of the four properties is inductive: an answer is given long after
  the transaction ran. `TxInv` (in `Relayer`, proved in `RelayerProofs`) keeps the fate
  of each transaction: the node answers a broadcast once, holds a transaction once, runs
  it once, and a call that has ended knows its fate unless it ended in an error that
  says nothing of it (`RefusalsAreFinal`). `AnswerInv` adds that an answer follows from
  that fate (`AnswersFollow`), that what a registration wrote outlives it and no second
  one of the same identity succeeded (`EffectsLast`), that what refused a registration
  is still taken (`RefusalsLast`), and that the relayer is still a trusted issuer. Hence
  `OkIsBound`, `OneOk`, `ErrorsAreTrue` and `RefusedIsBound`.
* `LastOneWins` (`LastRequirementsWin`, for `faults = {}`) from `ArrivalOrder`.

`WalletAdapterProofs`, for any wallets, accounts, networks and number of tasks:

* `ChannelsCorrect`: a task awaits at most one answer, of the kind it asked for, and the
  last a wallet said of its account or network is true (`ChannelInv`). Without it no
  field has a type, for every field is assigned from a message. Hence `TypeCorrect`.
* `ListenersTold` (`ListenersUpToDate`) from `ToldInv`: fields the listeners have not
  been told belong to a running method that will tell them, or throw.
* `SessionFollows` (`FollowsWallet`) from `SessionInv`: nothing else is asked or answers,
  and each field is the wallet's but for what an event under way will change and a
  running task is still to store.

`MRZProofs`, for any zone. A recursive function is a set of steps, and an induction over
the length of a sequence is one over the set of the lengths for which a statement
holds: that set is all of `Nat`, for it has no least element missing (`WFMin`).

* `OneCharacter`: changing one character of a field of any length keeps its check digit
  only if both characters have the same value modulo 10. (The weights 7, 3 and 1 are
  coprime with 10.)
* `DateIsDay`: whatever six characters the parser is given, what it returns is a day of
  the calendar or no date; and `DateRead`: a date printed without a 7 is read as it is.

`DocumentScanProofs`, for any numbers of extractions and workers, any documents, any
confusion of characters and any day from 2000 to 2098:

* `WorkersAccounted` (`NoWorkerLost`) from `OneByOne`: as long as calls follow one
  another, a worker is only waited for when there is none, and an extractor that has a
  worker but is not ready is configuring it for the one call there is.
* `ReadinessTrue` (`ReadyIsAlive`) from `HeldIsAlive`, which needs no such restriction:
  whatever worker overlapping calls left in the field is alive.
* The lemma `AnswersParsed` keeps every answer to a parse of some reading, and
  `DamagedIs` what the OCR leaves of a zone: all of it but the composite check
  digit, or all but one character of a field, or the fields with one check digit wrong.
  Then `ReadRight` (`CleanReadingKept`), `MisreadCaught` (`MisreadIsCaught`, from
  `OneCharacter`) and `BackendOneMore` (`BackendAgeOneMore`, for a page with nothing
  lost) are about the parsers alone.
* `TypeCorrect`, whose last part is `DateIsDay`.

The documents' assumption says that their dates exist, that their holders were born
from 1900 to the year they are read in, that they expire in this century,
and that names are letters; section 6 says why `CleanReadingKept` needs it.

`IssuerCredentialsProofs`, for any clients, accounts and requests:

* `RevocationsSeen`. The invariant says that an acknowledged revocation is in the set in
  lower case, and that a request is owed only what was acknowledged.
* `AckedShown` and `ShownAsked` from `HookInv`: what was acknowledged is on the chain
  (`AckedIsWritten`); a read no invalidation has met since is not older than it, and of
  an account it says what the registry holds (`ReadIsFresh`); and `useProtocol` has the
  address of its props or is asking for it (`CurrentIsAsked`).

Every invariant and every action property the passing runs check is proved, and
`BindingSpec` as a refinement. Only model-checked are the liveness properties
`EveryRequestAnswered`, `WizardSettles` and `ScanSettles`, which need fairness and
`ENABLED`, and the three violations.

## 6. Findings

1. *The zero nullifier* (`src/FHENoahRegistry.sol:57`, run `registry_zero`). It is
   accepted as an argument and also means "not registered"; a wallet registered
   under it is registered again, its age replaced, although the guard's message
   says "Address already registered to an identity". `OkMeansBound` and
   `OneOkPerIdentity` are therefore stated for the other nullifiers.
2. *The chain id after a switch* (`sdk/src/core/WalletAdapter.ts:164`, run
   `wallet_chain`). A connect that switches the wallet's network succeeds and
   reports the network before the switch.

3. *Whose status* (`frontend/src/components/Demo/IdentityVerification.tsx:86`, run
   `demo_wizard_status`). The answer of `isRegistered` is stored whatever account is
   connected when it comes, and an error keeps the one before: with no call under way the
   page says "Your wallet ... is already associated with a valid Noah Credential" (290)
   of a wallet the registry does not hold.

Met while proving, where a statement that TLC had found true on a small instance was
not true of every one:

* `OneOkPerIdentity` was stated for all wallets. A registration of the zero address leaves
  `identityNullifiers` saying "absent", so that the same document is registered again,
  for a wallet: `Identified` leaves out the zero address as it does the zero nullifier.
* `FollowsWallet` was stated for any wallet every change of which was heard. With two
  wallets being connected at once, or `connectWithRpc` called during a connect, the
  fields end up partly one's and partly the other's
  (`WalletAdapter.ts:152`, one assignment per await). It is now about a session.
* `CleanReadingKept` and `BackendAgeOneMore` need dates that exist, a birth before today
  and a day in this century: 31 February rolls over to March, a birth in a later
  year is read as one a century ago, and before 2000 every birth is read a century late. `DocumentAssumption` and `TodayAssumption` say so.

Met while modelling, each a behaviour of the models above or visible in one step; the
properties are stated around them, and say where:

* *Requirements of the wrong protocol* (`backend/src/routes/protocol.ts:32`). The relayer
  is `msg.sender` of `setRequirements`, so the slot set is its own, although the route
  promises to "set minimum age requirements for a protocol" (18). `LastRequirementsWin`
  says what does hold of that one shared slot.
* *Wizard* (`IdentityVerification.tsx`). "Try Again" calls `reset`, which leaves `error`
  set (231-237, 265), and no screen it hides can start another attempt: the error stays
  until the demo is left. "Already registered" leaves `isProcessing` set (188-192), which
  the next screen does not read, and its test also matches "Identity document already
  registered" (`FHENoahRegistry.sol:56`), said of a document bound to another wallet. An
  age that was not read becomes 25 (151). The transaction, the encrypted input and the
  access status survive a switch of account; `denied` has no button to ask again.
* *MRZ* (`utils/mrz.ts`). 7 becomes 1 in every field that is normalised (37): a born-1977
  holder is read as born in 2011, and a check digit 7 is never accepted as it is. A
  holder over a hundred is read a century younger (138-143). A passport's last name
  ending in L or I loses it (48-49, 175). A card's reading never reports
  `wasRepaired` (298-303). Three stray lines as long as a card's are parsed as a card
  although a passport's lines follow (317-324). `NoahSDK` is permissive by default and
  returns data whose check digits all fail (`NoahSDK.ts:51`). The backend's age is in
  calendar years and pivots on 30 (`IdentityService.ts:229`), so that it disagrees with
  the SDK's before a birthday, and by a century for a holder born from 1927 to 1930.
* *OCR worker* (`utils/ocr.ts`). Two first extractions at once create two workers and one
  is never terminated; so is one whose `setParameters` was rejected, when the next is
  created. `terminate` during an extraction leaves that extraction waiting for ever.
* *Issuer and credentials.* `APIClient` never sends the key or token it is given (87), so
  the backend answers every call of `IssuerClient` to the API 401; it would also read
  the fields of `{success, data}` one level too high. `checkCredential` asks a path the
  backend does not have and never learns of a revocation. Without the API, register and
  revoke do nothing and report success (`IssuerClient.ts:109-114`, `151-155`). A restart
  forgets every revocation, as `IssuerService.ts:27` says it will.
* *Hooks.* A first load that read the chain before a transaction is shown after it until
  the next refetch; without a given address `useUser` shows the answer for the signer
  it had when the entry was filled; `useProtocol` can end on the address of an earlier
  signer. `useCredentials` calls methods `ContractClient` does not have.
* *Clients.* `UserClient`, `NoahSDK.registerWithFHE` and the backend derive three different
  nullifiers for one account, and `registerWithFHE` wraps the encrypted input in
  `{data}`, which the contract's encoding refuses. `verifyAccessSealed`, which
  `verifyRequirement` calls, is not in the contract.

## 7. Not modelled

Read-only routes, logging, configuration, validation and rate limits keep no state of the
system's; they appear as the set of bodies that get through. The FHE library, the
OCR engine, the query cache, ethers and OpenZeppelin are external, modelled only as the
code uses them. `lib/forge-std` is vendored. The WASM prover is a stub; the pitch pages
and the SDK's documentation page are static. Of the wallet adapter, EIP-6963 discovery,
the subscription of listeners, the wallet type label and `provider.on` being absent are
left out, and so is a second wallet.

Of the SDK's clients, encryption, permits and proof generation forward to libraries and
keep a flag each; `utils/credentials.ts` and `utils/jurisdiction.ts` are conversions
that nothing in the system calls. Of the hooks: `useUser`'s query of requirements (as
`useProtocol`'s), the query of access and `requestAccessVerification` (they can only
fail), `encryptIdentity` and `verifyRequirement` (they change nothing a query shows),
and the options a caller may pass on to the cache. Of the parsers: the columns that are
only copied, and first names, which are treated as last names are. NoahGame is an
example page over two routes of the backend.

What is not covered of the parts that are modelled: a transaction the network drops,
which would leave `tx.wait()` open; a call whose fields cannot be encoded, which is
answered 500 before the relayer is asked (`IdentityService.ts:91-101`); two wallets in one
adapter; a wallet without `removeAllListeners` (`WalletAdapter.ts:513`), whose handlers
`disconnect()` leaves attached; more than one misread character in a reading; one or two
stray lines before a card's three, which the code parses from a mixture of the lines and
the model as `Noise`; stray lines of a passport's length (42 to 46); a hook whose
component is unmounted, one switched off by `enabled`, and a signer whose `getAddress`
rejects (`useProtocol.ts:80`). `useCredentials`' four keys, by hash, issuer and user, are
two, `info` and `list`, of one address, for none is ever written by a mutation.
`IssuerService.registerCredential`'s awaited `isRegistered` (50) is one step with the
answer, its failure the same as a time-out.

## 8. The plan

Done, in order of importance: contracts and their abstract specification; relayer;
their composition as the backend; wallet adapter; wizard; document scan and parsers;
hooks, issuer and credential store. What a next step would add:

1. *Proofs.* Every safety property the runs check is proved. What is left: that the wizard
   needs of the backend only what `ErrorsAreTrue` gives it, and the parts of the
   wizard's and the hooks' action properties worth stating (a page never takes back a
   confirmation for the account it shows; what a hook shows of a registration never
   goes back).
2. *Composition.* The wizard over `NoahBackend` in place of its external backend.
3. *NoahGame*: polling across a switch of account.
