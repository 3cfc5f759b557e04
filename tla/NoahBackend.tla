------------------------------- MODULE NoahBackend -------------------------------
(***************************************************************************)
(* The backend, backend/src: HTTP requests that change the chain, each     *)
(* through IdentityService, ProtocolService or IssuerService, all through  *)
(* the one relayer, against the deployed contracts.  It composes Relayer   *)
(* and ProtocolAccess: a request's gas estimate runs its call on the state  *)
(* of the latest block, and the transaction runs again, on whatever the    *)
(* state has become, when it is mined.                                     *)
(*                                                                         *)
(* A request here has passed the API key, rate limit and schema checks and *)
(* its call could be encoded (a request that fails before this answers 4xx *)
(* or 500 and touches nothing shared); it is one element of Request with   *)
(* its call of sendTransaction.                                            *)
(***************************************************************************)
EXTENDS Relayer, FiniteSets

CONSTANTS
  Address, ZeroAddress, Nullifier, ZeroNullifier, Ciphertext, NoCiphertext,
  Deployer, MinAge,
  RelayerAddress,  \* the relayer's wallet
  ComputeNullifier,\* keccak256 of the prefixed lower-case address
  NoNullifier,     \* the nullifier left out of a registration request
  Body,            \* the request bodies clients send
  NoBody

ASSUME ContractAssumption ==
  /\ ZeroAddress \in Address
  /\ Deployer \in Address \ {ZeroAddress}
  /\ ZeroNullifier \in Nullifier
  /\ NoCiphertext \in Ciphertext

ASSUME RelayerAssumption ==
  /\ RelayerAddress \in Address \ {ZeroAddress}
  /\ RelayerAddress # Deployer

ASSUME NullifierFunctionAssumption ==
  /\ ComputeNullifier \in [Address -> Nullifier \ {ZeroNullifier}]
  /\ \A a, b \in Address : ComputeNullifier[a] = ComputeNullifier[b] => a = b

\* What the schemas of the routes let through.
Valid(b) ==
  \/ /\ b.op = "registerIdentity"
     /\ b.user \in Address
     /\ b.nullifier \in Nullifier \cup {NoNullifier}
     /\ b.age \in Ciphertext
  \/ b.op = "setRequirements" /\ b.minAge \in MinAge
  \/ b.op = "addIssuer" /\ b.issuer \in Address
  \/ b.op = "requestAccessVerification"

ASSUME BodyAssumption ==
  /\ NoBody \notin Body
  /\ NoNullifier \notin Nullifier
  /\ \A b \in Body : Valid(b)

VARIABLES
  \* the contracts
  roles, trustedIssuers, isRegistered, encryptedAges, identityNullifiers,
  addressToNullifiers, protocolRequirements,
  \* the requests
  body,      \* what each request asks for
  response   \* the HTTP status it was answered with

contractVars == <<roles, trustedIssuers, isRegistered, encryptedAges,
                  identityNullifiers, addressToNullifiers, protocolRequirements>>
vars == <<relayerVars, contractVars, body, response>>

Contracts == INSTANCE ProtocolAccess

Status == {"none", "200", "400", "500", "502", "closed"}

(* Each variable has its type, and a request that has been answered (or    *)
(* whose connection was closed) is one whose call has ended.               *)
AnsweredHaveEnded ==
  \A r \in Request : response[r] # "none" => stage[r] \in Finished

TypeOK ==
  /\ RelayerTypeOK
  /\ Contracts!TypeOK
  /\ body \in [Request -> Body \cup {NoBody}]
  /\ response \in [Request -> Status]
  /\ AnsweredHaveEnded

(***************************************************************************)
(* The contracts when the backend is ready to serve: the deployment script *)
(* made the deployer a trusted issuer and gave the relayer both roles, and *)
(* scripts/add-issuer.ts made the relayer a trusted issuer.                *)
(***************************************************************************)
Init ==
  /\ RelayerInit
  /\ roles = [r \in Contracts!Role |-> {Deployer, RelayerAddress}]
  /\ trustedIssuers = {Deployer, RelayerAddress}
  /\ isRegistered = {}
  /\ encryptedAges = [a \in Address |-> NoCiphertext]
  /\ identityNullifiers = [n \in Nullifier |-> ZeroAddress]
  /\ addressToNullifiers = [a \in Address |-> ZeroNullifier]
  /\ protocolRequirements = [p \in Address |-> Contracts!NotSet]
  /\ body = [r \in Request |-> NoBody]
  /\ response = [r \in Request |-> "none"]

--------------------------------------------------------------------------------
(* What a request's transaction does on the chain.                         *)

\* nullifier || computeNullifier(userAddress)
FinalNullifier(b) ==
  IF b.nullifier = NoNullifier THEN ComputeNullifier[b.user] ELSE b.nullifier

\* The contracts have no requestAccessVerification: the call always reverts.
Succeeds(b) ==
  \/ /\ b.op = "registerIdentity"
     /\ Contracts!CanRegister(RelayerAddress, b.user, FinalNullifier(b))
  \/ b.op = "setRequirements"
  \/ b.op = "addIssuer" /\ RelayerAddress \in roles["ISSUER_MANAGER_ROLE"]

\* Faulty variant: what a relayed setRequirements would do if it wrote the
\* slot only when it is empty.
EffectKeepingFirst(b) ==
  \/ /\ b.op = "registerIdentity"
     /\ Contracts!StoreIdentity(b.user, FinalNullifier(b), b.age)
     /\ UNCHANGED protocolRequirements
  \/ /\ b.op = "setRequirements"
     /\ IF protocolRequirements[RelayerAddress].isSet
          THEN UNCHANGED contractVars
          ELSE Contracts!SetRequirements(RelayerAddress, b.minAge)
  \/ /\ b.op = "addIssuer"
     /\ Contracts!AddIssuer(RelayerAddress, b.issuer)
     /\ UNCHANGED protocolRequirements

Effect(b) ==
  \/ /\ b.op = "registerIdentity"
     /\ Contracts!StoreIdentity(b.user, FinalNullifier(b), b.age)
     /\ UNCHANGED protocolRequirements
  \/ /\ b.op = "setRequirements"
     /\ Contracts!SetRequirements(RelayerAddress, b.minAge)
  \/ /\ b.op = "addIssuer"
     /\ Contracts!AddIssuer(RelayerAddress, b.issuer)
     /\ UNCHANGED protocolRequirements

--------------------------------------------------------------------------------
(* The routes and services.                                                *)

\* Faulty variants of the error handler: unknown errors reported as retryable;
\* the patterns of funds and nonces left out.
ErrorStatusRetryable(error) ==
  IF error \in {"reverted", "rejected"} THEN "400" ELSE "502"

ErrorStatusOnlyReverts(error) == IF error = "failed" THEN "500" ELSE "400"

\* The error handler, by the way sendTransaction or tx.wait() threw.
ErrorStatus(error) ==
  CASE error \in {"underfunded", "conflict"} -> "502"
    [] error \in {"reverted", "rejected"}    -> "400"
    [] error = "failed"                      -> "500"

Respond(r, status) == response' = [response EXCEPT ![r] = status]

Receive(r) ==
  /\ Arrive(r)
  /\ \E b \in Body : body' = [body EXCEPT ![r] = b]
  /\ UNCHANGED <<contractVars, response>>

\* Faulty variant: a route answers once the transaction is broadcast.
ProceedAnsweringEarly(r) ==
  /\ \/ (Acquire(r) \/ ReadNonce(r)) /\ UNCHANGED response
     \/ Broadcast(r) /\ Succeeds(body[r]) /\ UNCHANGED response
     \/ BroadcastReturns(r) /\ Respond(r, "200")
  /\ UNCHANGED <<contractVars, body>>

Proceed(r) ==
  /\ \/ Acquire(r)
     \/ ReadNonce(r)
     \/ Broadcast(r) /\ Succeeds(body[r])
     \/ BroadcastReturns(r)
  /\ UNCHANGED <<contractVars, body, response>>

\* sendTransaction throws, or tx.wait() does; next(err) answers the request.
Fail(r) ==
  /\ \/ RpcError(r)
     \/ EstimateReverts(r) /\ ~Succeeds(body[r])
     \/ BroadcastRefused(r)
     \/ AnswerLost(r)
     \/ BroadcastLost(r)
     \/ WaitSeesReplacement(r)
     \/ WaitFails(r)
     \/ executed[r] = "revert" /\ WaitReturns(r)
  /\ Respond(r, ErrorStatus(stage'[r]))
  /\ UNCHANGED <<contractVars, body>>

\* Only a registration goes on, to checkBalance, before it is answered.
Confirm(r) ==
  /\ executed[r] = "success"
  /\ WaitReturns(r)
  /\ IF body[r].op = "registerIdentity"
       THEN UNCHANGED response
       ELSE Respond(r, "200")
  /\ UNCHANGED <<contractVars, body>>

\* Faulty variant: a registration is answered without waiting for tx.wait().
CheckBalanceWithoutWait(r) ==
  /\ up
  /\ stage[r] \in {"sent", "confirmed"}
  /\ response[r] = "none"
  /\ Respond(r, "200") \/ Respond(r, ErrorStatus("failed"))
  /\ UNCHANGED <<relayerVars, contractVars, body>>

\* checkBalance reads the relayer's balance; when that call fails, the
\* registration is answered as an error though it is on the chain.
CheckBalance(r) ==
  /\ up
  /\ stage[r] = "confirmed"
  /\ response[r] = "none"
  /\ Respond(r, "200") \/ Respond(r, ErrorStatus("failed"))
  /\ UNCHANGED <<relayerVars, contractVars, body>>

--------------------------------------------------------------------------------
(* The chain, the node and the process.                                    *)

Mine ==
  /\ \/ /\ MineNext("success")
        /\ Succeeds(body[NextToMine])
        /\ Effect(body[NextToMine])
     \/ /\ MineNext("revert")
        /\ ~Succeeds(body[NextToMine])
        /\ UNCHANGED contractVars
  /\ UNCHANGED <<body, response>>

NodeHandles(r) ==
  /\ Node(r)
  /\ UNCHANGED <<contractVars, body, response>>

\* Another trusted issuer registers someone without the backend.
RegisterDirectly ==
  /\ \E b \in Body :
       /\ b.op = "registerIdentity"
       /\ Contracts!RegisterIdentity(Deployer, b.user, FinalNullifier(b), b.age)
  /\ UNCHANGED <<protocolRequirements, relayerVars, body, response>>

Crash ==
  /\ ProcessEnds
  /\ response' = [r \in Request |->
                    IF stage[r] # "new" /\ response[r] = "none"
                      THEN "closed" ELSE response[r]]
  /\ UNCHANGED <<contractVars, body>>

Restart ==
  /\ ProcessStarts
  /\ UNCHANGED <<contractVars, body, response>>

Handle(r) == Proceed(r) \/ Fail(r) \/ Confirm(r) \/ CheckBalance(r)

Next ==
  \/ \E r \in Request : Receive(r) \/ Handle(r) \/ NodeHandles(r)
  \/ Mine
  \/ RegisterDirectly
  \/ Crash
  \/ Restart

\* Promise callbacks run once their promise is settled; an RPC call is
\* answered or times out; the node handles what reaches it; blocks are
\* produced; the process manager restarts the process.  Nothing makes the
\* polling of tx.wait() fail.
Fairness ==
  /\ \A r \in Request : /\ WF_vars(Handle(r) /\ ~WaitFails(r))
                         /\ WF_vars(NodeHandles(r))
  /\ WF_vars(Mine)
  /\ WF_vars(Restart)

Spec == Init /\ [][Next]_vars

FairSpec == Spec /\ Fairness

--------------------------------------------------------------------------------
Registration(r) == body[r] # NoBody /\ body[r].op = "registerIdentity"

\* The registry takes the zero nullifier and the zero address for "absent":
\* what a registration promises is promised for the others.
Identified(r) ==
  /\ Registration(r)
  /\ FinalNullifier(body[r]) # ZeroNullifier
  /\ body[r].user # ZeroAddress

(* A registration answered 200 is on the chain: the wallet is bound to the *)
(* nullifier the answer names and the age stored is the one this request   *)
(* sent, whatever other requests and other issuers did meanwhile.          *)
Bound(b) ==
  /\ identityNullifiers[FinalNullifier(b)] = b.user
  /\ addressToNullifiers[b.user] = FinalNullifier(b)
  /\ encryptedAges[b.user] = b.age

OkMeansBound ==
  \A r \in Request : Identified(r) /\ response[r] = "200" => Bound(body[r])

(* Of the registrations of one wallet, or under one nullifier, at most one *)
(* is ever answered 200, though the gas estimates of all may have passed.  *)
SameIdentity(b, c) == b.user = c.user \/ FinalNullifier(b) = FinalNullifier(c)

OneOkPerIdentity ==
  \A r, s \in Request :
    /\ Identified(r) /\ response[r] = "200"
    /\ Identified(s) /\ response[s] = "200"
    /\ SameIdentity(body[r], body[s])
    => r = s

(* An answer 400 or 502 is final: the request's transaction has not taken  *)
(* effect and never will, so the client may send the request again.        *)
ErrorMeansNoEffect ==
  \A r \in Request : response[r] \in {"400", "502"} => executed[r] # "success"

(* A registration answered 400 was refused because the wallet or the       *)
(* document is bound, and it still is: a client may take the answer for    *)
(* "already registered", the wallet or the document.                       *)
Claimed(b) ==
  \/ identityNullifiers[FinalNullifier(b)] # ZeroAddress
  \/ addressToNullifiers[b.user] # ZeroNullifier

RefusedMeansBound ==
  \A r \in Request : Registration(r) /\ response[r] = "400" => Claimed(body[r])

(* Of the requirements set through the backend, the one whose request      *)
(* arrived last is the one in force: an earlier request never overwrites   *)
(* it, however the two interleave.                                         *)
SettingDone(r) ==
  /\ body[r] # NoBody
  /\ body[r].op = "setRequirements"
  /\ executed[r] = "success"

LastRequirementsWin ==
  faults = {} =>
    \A r \in Request :
      SettingDone(r) /\ (\A s \in Request : SettingDone(s) => ticket[s] <= ticket[r])
        => protocolRequirements[RelayerAddress] = Contracts!Required(body[r].minAge)

(* Every request that reaches the relayer is answered, or its connection   *)
(* is closed by the end of the process.                                    *)
EveryRequestAnswered ==
  \A r \in Request : stage[r] = "waiting" ~> response[r] # "none"

--------------------------------------------------------------------------------
(* The inductive strengthening of the four properties of the answers: an   *)
(* answer follows from the fate of its transaction, and what a transaction *)
(* found or left in the registry outlives it.                              *)
BodiesKnown == \A r \in Request : stage[r] # "new" => body[r] \in Body

AnswersFollow ==
  \A r \in Request :
    /\ response[r] = "200" => executed[r] = "success"
    /\ response[r] = "400" => stage[r] \in {"rejected", "reverted"}
    /\ response[r] = "502" => stage[r] \in {"underfunded", "conflict"}

Registered(r) == Identified(r) /\ executed[r] = "success"

EffectsLast ==
  /\ \A r \in Request : Registered(r) => Bound(body[r])
  /\ \A r, s \in Request :
       Registered(r) /\ Registered(s) /\ SameIdentity(body[r], body[s]) => r = s

RefusalsLast ==
  \A r \in Request :
    Registration(r) /\ (executed[r] = "revert" \/ stage[r] = "rejected")
      => Claimed(body[r])

AnswerInv ==
  /\ RelayerAddress \in trustedIssuers
  /\ BodiesKnown
  /\ AnswersFollow
  /\ EffectsLast
  /\ RefusalsLast

================================================================================
