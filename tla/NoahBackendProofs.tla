--------------------------- MODULE NoahBackendProofs ---------------------------
(***************************************************************************)
(* Proofs about the backend, for any number of concurrent requests with    *)
(* any valid bodies.  The backend's steps, seen from the relayer, are the  *)
(* relayer's own, so everything RelayerProofs shows holds in it; the rest   *)
(* is about the registry, where a binding, once made, is never disturbed.  *)
(***************************************************************************)
EXTENDS NoahBackend, RelayerProofs

(* Every step of the backend is a step of the relayer, or leaves it alone. *)
LEMMA RelayerSteps ==
  ASSUME [Next]_vars
  PROVE  [RelayerNext]_relayerVars
<1>1. ASSUME NEW r \in Request, Receive(r) PROVE RelayerNext
  BY <1>1 DEF Receive, RelayerNext
<1>2. ASSUME NEW r \in Request, Proceed(r) \/ Fail(r) \/ Confirm(r)
      PROVE  RelayerNext
  BY <1>2 DEF Proceed, Fail, Confirm, RelayerNext, Call
<1>3. ASSUME NEW r \in Request, CheckBalance(r) PROVE UNCHANGED relayerVars
  BY <1>3 DEF CheckBalance
<1>4. ASSUME NEW r \in Request, NodeHandles(r) PROVE RelayerNext
  BY <1>4 DEF NodeHandles, RelayerNext
<1>5. ASSUME Mine PROVE RelayerNext
  BY <1>5 DEF Mine, RelayerNext
<1>6. ASSUME RegisterDirectly PROVE UNCHANGED relayerVars
  BY <1>6 DEF RegisterDirectly
<1>7. ASSUME Crash \/ Restart PROVE RelayerNext
  BY <1>7 DEF Crash, Restart, RelayerNext
<1>8. CASE UNCHANGED vars
  BY <1>8 DEF vars
<1>9. QED
  BY <1>1, <1>2, <1>3, <1>4, <1>5, <1>6, <1>7, <1>8 DEF Next, Handle

(* The composition: the backend uses the relayer as the relayer is         *)
(* specified, and adds only which call's gas estimate and which            *)
(* transaction reverts.                                                    *)
THEOREM BackendUsesRelayer == Spec => RelayerSpec
<1>1. Init => RelayerInit
  BY DEF Init
<1>2. [Next]_vars => [RelayerNext]_relayerVars
  BY RelayerSteps
<1>3. QED
  BY <1>1, <1>2, PTL DEF Spec, RelayerSpec

--------------------------------------------------------------------------------
RequestsTyped ==
  /\ body \in [Request -> Body \cup {NoBody}]
  /\ response \in [Request -> Status]

(* A call ends in an error that the error handler knows.                   *)
LEMMA FailEnds ==
  ASSUME RelayerTypeOK, NEW r \in Request, Fail(r)
  PROVE  /\ stage'[r] \in {"underfunded", "conflict", "reverted", "rejected", "failed"}
         /\ response' = [response EXCEPT ![r] = ErrorStatus(stage'[r])]
         /\ Call(r)
<1> USE DEF RelayerTypeOK, Goto, Throw
<1>1. CASE RpcError(r) \/ AnswerLost(r) \/ BroadcastLost(r) \/ WaitFails(r)
  BY <1>1 DEF RpcError, AnswerLost, BroadcastLost, WaitFails, Call, Fail, Respond
<1>2. CASE EstimateReverts(r) \/ WaitSeesReplacement(r) \/ BroadcastRefused(r)
  BY <1>2 DEF EstimateReverts, WaitSeesReplacement, BroadcastRefused, Call, Fail, Respond
<1>3. CASE executed[r] = "revert" /\ WaitReturns(r)
  BY <1>3 DEF WaitReturns, Call, Fail, Respond
<1>4. QED
  BY <1>1, <1>2, <1>3 DEF Fail

(* A step of a request other than its arrival is a step of its call, or    *)
(* the answer after checkBalance.                                          *)
LEMMA HandleCalls ==
  ASSUME NEW r \in Request, Handle(r)
  PROVE  /\ Call(r) \/ (CheckBalance(r) /\ UNCHANGED relayerVars)
         /\ UNCHANGED <<contractVars, body>>
  BY DEF Handle, Proceed, Fail, Confirm, CheckBalance, Call

(* A request that has arrived has a valid body, and keeps it.              *)
THEOREM RequestsCorrect == Spec => [](RequestsTyped /\ BodiesKnown)
<1> DEFINE Inv == RequestsTyped /\ BodiesKnown
<1>1. Init => Inv
  BY DEF Init, RelayerInit, RequestsTyped, BodiesKnown, Status
<1>2. RelayerTypeOK /\ Inv /\ [Next]_vars => Inv'
  <2> SUFFICES ASSUME RelayerTypeOK, Inv, [Next]_vars PROVE Inv'
    OBVIOUS
  <2> USE DEF RequestsTyped, BodiesKnown
  <2>1. ASSUME NEW r \in Request, Receive(r) PROVE Inv'
    <3>1. \A s \in Request \ {r} : stage'[s] = stage[s]
      BY <2>1, CallStep DEF Receive
    <3>2. QED
      BY <2>1, <3>1 DEF Receive
  <2>2. ASSUME NEW r \in Request, Handle(r) PROVE Inv'
    <3>1. \A s \in Request : stage'[s] # "new" => stage[s] # "new"
      <4>1. CASE Call(r)
        <5>1. stage[r] # "new"
          BY <4>1 DEF Call, Acquire, ReadNonce, RpcError, EstimateReverts, Broadcast,
                BroadcastReturns, BroadcastRefused, AnswerLost, BroadcastLost,
                WaitReturns, WaitSeesReplacement, WaitFails, Throw, Goto
        <5>2. QED
          BY <4>1, <5>1, CallStep
      <4>2. QED
        BY <2>2, <4>1, HandleCalls DEF relayerVars
    <3>2. response' \in [Request -> Status]
      <4>1. CASE Fail(r)
        BY <4>1, FailEnds DEF ErrorStatus, Status
      <4>2. QED
        BY <2>2, <4>1 DEF Handle, Proceed, Confirm, CheckBalance, Respond, ErrorStatus,
                          Status
    <3>3. QED
      BY <2>2, <3>1, <3>2, HandleCalls
  <2>3. ASSUME NEW r \in Request, NodeHandles(r) PROVE Inv'
    BY <2>3, NodeStep DEF NodeHandles
  <2>4. ASSUME Mine PROVE Inv'
    BY <2>4 DEF Mine, MineNext
  <2>5. ASSUME RegisterDirectly PROVE Inv'
    BY <2>5 DEF RegisterDirectly, relayerVars
  <2>6. ASSUME Crash PROVE Inv'
    <3>1. \A s \in Request : stage'[s] # "new" => stage[s] # "new"
      BY <2>6 DEF Crash, ProcessEnds, Active, Waiting, Critical, RelayerTypeOK
    <3>2. response' \in [Request -> Status]
      BY <2>6 DEF Crash, Status
    <3>3. QED
      BY <2>6, <3>1, <3>2 DEF Crash
  <2>7. CASE Restart \/ UNCHANGED vars
    BY <2>7 DEF Restart, ProcessStarts, vars, relayerVars
  <2>8. QED
    BY <2>1, <2>2, <2>3, <2>4, <2>5, <2>6, <2>7 DEF Next
<1>3. QED
  BY <1>1, <1>2, BackendUsesRelayer, TypeCorrect, PTL DEF Spec

(* The nullifier a valid registration is made under is a nullifier.        *)
LEMMA FinalNullifierType ==
  ASSUME NEW b \in Body, b.op = "registerIdentity"
  PROVE  /\ FinalNullifier(b) \in Nullifier
         /\ b.user \in Address /\ b.age \in Ciphertext
  BY BodyAssumption, NullifierFunctionAssumption DEF FinalNullifier, Valid

(* What a step may do to the contracts: register someone whose wallet and  *)
(* document are free, set the relayer's requirement, or add an issuer.     *)
Registers(b) ==
  /\ b \in Body /\ b.op = "registerIdentity"
  /\ identityNullifiers[FinalNullifier(b)] = ZeroAddress
  /\ addressToNullifiers[b.user] = ZeroNullifier
  /\ Contracts!StoreIdentity(b.user, FinalNullifier(b), b.age)
  /\ UNCHANGED protocolRequirements

Requires(b) ==
  /\ b \in Body /\ b.op = "setRequirements"
  /\ Contracts!SetRequirements(RelayerAddress, b.minAge)

Trusts(b) ==
  /\ b \in Body /\ b.op = "addIssuer"
  /\ Contracts!AddIssuer(RelayerAddress, b.issuer)
  /\ UNCHANGED protocolRequirements

(* A transaction that succeeds has one of the three effects.               *)
LEMMA EffectCases ==
  ASSUME NEW b \in Body, Succeeds(b), Effect(b)
  PROVE  Registers(b) \/ Requires(b) \/ Trusts(b)
  BY DEF Succeeds, Effect, Registers, Requires, Trusts, Contracts!CanRegister,
         Contracts!DocumentFree, Contracts!AddressFree

(* A step of the backend makes one call of the contracts at most.          *)
LEMMA ContractSteps ==
  ASSUME RelayerTypeOK, TxInv, BodiesKnown, [Next]_vars
  PROVE  \/ \E b \in Body : Registers(b) \/ Requires(b) \/ Trusts(b)
         \/ UNCHANGED contractVars
<1>1. ASSUME Mine, ~UNCHANGED contractVars
      PROVE  \E b \in Body : Registers(b) \/ Requires(b) \/ Trusts(b)
  <2>1. Succeeds(body[NextToMine]) /\ Effect(body[NextToMine]) /\ MineNext("success")
    BY <1>1 DEF Mine
  <2>2. NextToMine \in Request /\ InLedger(NextToMine)
    BY <2>1, ElementOfSeq DEF MineNext, NextToMine, InLedger, RelayerTypeOK
  <2>3. body[NextToMine] \in Body
    BY <2>2 DEF TxInv, FateKnown, BodiesKnown
  <2>4. QED
    BY <2>1, <2>3, EffectCases
<1>2. ASSUME RegisterDirectly PROVE \E b \in Body : Registers(b)
  BY <1>2 DEF RegisterDirectly, Contracts!RegisterIdentity, Contracts!CanRegister,
     Contracts!DocumentFree, Contracts!AddressFree, Registers
<1>3. ASSUME NEW r \in Request, Receive(r) \/ Handle(r) \/ NodeHandles(r)
      PROVE  UNCHANGED contractVars
  BY <1>3 DEF Receive, Handle, NodeHandles, Proceed, Fail, Confirm, CheckBalance
<1>4. QED
  BY <1>1, <1>2, <1>3 DEF Next, Crash, Restart, vars

(* Only a request whose call has ended has an answer.                      *)
LEMMA AnswersLate == Spec => []AnsweredHaveEnded
<1>1. Init => AnsweredHaveEnded
  BY DEF Init, AnsweredHaveEnded
<1>2. RelayerTypeOK /\ RequestsTyped /\ AnsweredHaveEnded /\ [Next]_vars
      => AnsweredHaveEnded'
  <2> SUFFICES ASSUME RelayerTypeOK, RequestsTyped, AnsweredHaveEnded, [Next]_vars
               PROVE  AnsweredHaveEnded'
    OBVIOUS
  <2> USE DEF AnsweredHaveEnded, RequestsTyped, Finished
  <2>1. ASSUME NEW r \in Request, Receive(r) PROVE AnsweredHaveEnded'
    BY <2>1 DEF Receive, Arrive, Goto, RelayerTypeOK
  <2>2. ASSUME NEW r \in Request, Proceed(r) PROVE AnsweredHaveEnded'
    <3>1. stage[r] \in Active /\ stage' = [stage EXCEPT ![r] = stage'[r]]
      BY <2>2 DEF Proceed, Acquire, ReadNonce, Broadcast, BroadcastReturns, Goto,
                  RelayerTypeOK, Active, Waiting, Critical
    <3>2. response[r] = "none" /\ response' = response
      BY <2>2, <3>1 DEF Proceed, Active, Waiting, Critical
    <3>3. QED
      BY <3>1, <3>2 DEF RelayerTypeOK
  <2>3. ASSUME NEW r \in Request, Fail(r) PROVE AnsweredHaveEnded'
    <3>1. \A s \in Request \ {r} : stage'[s] = stage[s]
      BY <2>3, FailEnds, CallStep
    <3>2. QED
      BY <2>3, <3>1, FailEnds
  <2>4. ASSUME NEW r \in Request, Confirm(r) PROVE AnsweredHaveEnded'
    BY <2>4 DEF Confirm, WaitReturns, Goto, Respond, RelayerTypeOK
  <2>5. ASSUME NEW r \in Request, CheckBalance(r) PROVE AnsweredHaveEnded'
    BY <2>5 DEF CheckBalance, Respond, relayerVars
  <2>6. ASSUME NEW r \in Request, NodeHandles(r) PROVE AnsweredHaveEnded'
    BY <2>6, NodeStep DEF NodeHandles
  <2>7. CASE Mine \/ RegisterDirectly
    BY <2>7 DEF Mine, MineNext, RegisterDirectly, relayerVars
  <2>8. CASE Crash
    BY <2>8 DEF Crash, ProcessEnds, RelayerTypeOK, Active, Stage
  <2>9. CASE Restart \/ UNCHANGED vars
    BY <2>9 DEF Restart, ProcessStarts, vars, relayerVars
  <2>10. QED
    BY <2>1, <2>2, <2>3, <2>4, <2>5, <2>6, <2>7, <2>8, <2>9 DEF Next, Handle
<1>3. QED
  BY <1>1, <1>2, BackendUsesRelayer, TypeCorrect, RequestsCorrect, PTL DEF Spec

(* Type correctness of the whole backend.                                  *)
THEOREM BackendTypeCorrect == Spec => []TypeOK
<1> USE DEF Contracts!TypeOK, Contracts!RegistryTypeOK
<1>1. Init => Contracts!TypeOK
  BY ContractAssumption, RelayerAssumption
     DEF Init, Contracts!Sender, Contracts!Role
<1>2. /\ Contracts!TypeOK /\ RelayerTypeOK /\ TxInv /\ BodiesKnown
      /\ [Next]_vars
      => Contracts!TypeOK'
  <2> SUFFICES ASSUME Contracts!TypeOK, RelayerTypeOK, TxInv, BodiesKnown, [Next]_vars
               PROVE  Contracts!TypeOK'
    OBVIOUS
  <2> USE DEF Contracts!registryVars, Contracts!bindingVars
  <2>1. ASSUME NEW b, Registers(b) PROVE Contracts!TypeOK'
    BY <2>1, FinalNullifierType DEF Registers, Contracts!StoreIdentity
  <2>2. ASSUME NEW b, Requires(b) PROVE Contracts!TypeOK'
    BY <2>2, BodyAssumption, RelayerAssumption
       DEF Requires, Contracts!SetRequirements, Valid
  <2>3. ASSUME NEW b, Trusts(b) PROVE Contracts!TypeOK'
    BY <2>3, BodyAssumption DEF Trusts, Contracts!AddIssuer, Valid
  <2>4. CASE UNCHANGED contractVars
    BY <2>4 DEF contractVars
  <2>5. QED
    BY <2>1, <2>2, <2>3, <2>4, ContractSteps
<1>3. RelayerTypeOK /\ Contracts!TypeOK /\ RequestsTyped /\ AnsweredHaveEnded => TypeOK
  BY DEF TypeOK, RequestsTyped
<1>4. QED
  BY <1>1, <1>2, <1>3, BackendUsesRelayer, TypeCorrect, TxInvariant,
     RequestsCorrect, AnswersLate, PTL DEF Spec

--------------------------------------------------------------------------------
(* No step takes a binding away, and none frees a wallet or a document:    *)
(* registerIdentity writes only where it finds both free.                  *)
LEMMA BindingsKept ==
  ASSUME TypeOK, TxInv, BodiesKnown, [Next]_vars,
         NEW b \in Body, b.op = "registerIdentity"
  PROVE  /\ Claimed(b) => Claimed(b)'
         /\ /\ Bound(b) /\ FinalNullifier(b) # ZeroNullifier /\ b.user # ZeroAddress
            => Bound(b)'
<1> DEFINE n == FinalNullifier(b)
<1> USE DEF Claimed, Bound
<1>1. n \in Nullifier /\ b.user \in Address /\ n' = n
  BY FinalNullifierType DEF FinalNullifier
<1>2. TypeOK => Contracts!RegistryTypeOK
  BY DEF TypeOK, Contracts!TypeOK
<1>3. ASSUME NEW c, Registers(c)
      PROVE  /\ identityNullifiers[n] # ZeroAddress
                  => identityNullifiers'[n] = identityNullifiers[n]
             /\ addressToNullifiers[b.user] # ZeroNullifier
                  => /\ addressToNullifiers'[b.user] = addressToNullifiers[b.user]
                     /\ encryptedAges'[b.user] = encryptedAges[b.user]
  BY <1>1, <1>2, <1>3 DEF Registers, Contracts!StoreIdentity, Contracts!RegistryTypeOK
<1>4. ASSUME UNCHANGED Contracts!bindingVars
      PROVE  Claimed(b)' = Claimed(b) /\ Bound(b)' = Bound(b)
  BY <1>1, <1>4 DEF Contracts!bindingVars
<1>5. CASE \E c \in Body : Registers(c)
  BY <1>1, <1>3, <1>5
<1>6. CASE UNCHANGED Contracts!bindingVars
  BY <1>4, <1>6
<1>7. QED
  BY <1>5, <1>6, ContractSteps
     DEF Requires, Trusts, Contracts!SetRequirements, Contracts!AddIssuer, contractVars,
         Contracts!registryVars, Contracts!bindingVars, TypeOK

(* A trusted issuer stays one: the backend never revokes.                  *)
LEMMA IssuersKept ==
  ASSUME TypeOK, TxInv, BodiesKnown, [Next]_vars
  PROVE  trustedIssuers \subseteq trustedIssuers'
  BY ContractSteps
     DEF Registers, Requires, Trusts, Contracts!StoreIdentity, Contracts!SetRequirements,
         Contracts!AddIssuer, Contracts!registryVars, contractVars, TypeOK

(* When a transaction runs, its request's call takes effect, or it reverts *)
(* because that call cannot succeed.                                       *)
LEMMA Executes ==
  ASSUME TypeOK, TxInv, BodiesKnown, [Next]_vars,
         NEW r \in Request, executed'[r] # executed[r]
  PROVE  /\ UNCHANGED <<stage, body, response>>
         /\ stage[r] # "new" /\ body[r] \in Body
         /\ \A s \in Request \ {r} : executed'[s] = executed[s]
         /\ \/ executed'[r] = "success" /\ Succeeds(body[r]) /\ Effect(body[r])
            \/ /\ executed'[r] = "revert" /\ ~Succeeds(body[r])
               /\ UNCHANGED contractVars
<1> USE DEF TypeOK
<1>1. Mine
  <2>1. ASSUME NEW s \in Request, Receive(s) PROVE executed' = executed
    BY <2>1, CallStep DEF Receive
  <2>2. ASSUME NEW s \in Request, Handle(s) PROVE executed' = executed
    BY <2>2, HandleCalls, CallStep DEF relayerVars, chainVars
  <2>3. ASSUME NEW s \in Request, NodeHandles(s) PROVE executed' = executed
    BY <2>3, NodeStep DEF NodeHandles
  <2>4. QED
    BY <2>1, <2>2, <2>3 DEF Next, RegisterDirectly, Crash, ProcessEnds, Restart,
                            ProcessStarts, chainVars, relayerVars, vars
<1>2. PICK outcome \in {"success", "revert"} :
        /\ MineNext(outcome)
        /\ outcome = "success" => Succeeds(body[NextToMine]) /\ Effect(body[NextToMine])
        /\ outcome = "revert" => ~Succeeds(body[NextToMine]) /\ UNCHANGED contractVars
  BY <1>1 DEF Mine
<1>3. r = NextToMine /\ executed' = [executed EXCEPT ![r] = outcome]
  BY <1>2, MineStep DEF RelayerTypeOK
<1>4. stage[r] # "new" /\ body[r] \in Body
  <2>1. ledger[mined + 1] = r /\ mined + 1 \in 1 .. Len(ledger)
    BY <1>2, <1>3, MineStep
  <2>2. InLedger(r)
    BY <2>1 DEF InLedger
  <2>3. QED
    BY <2>2 DEF TxInv, FateKnown, BodiesKnown
<1>5. QED
  BY <1>1, <1>2, <1>3, <1>4 DEF Mine, MineNext, RelayerTypeOK

(* A request is refused before its broadcast only when its call, run on    *)
(* the present state of the contracts, cannot succeed.                     *)
LEMMA RejectedByEstimate ==
  ASSUME RelayerTypeOK, [Next]_vars, NEW r \in Request,
         stage'[r] = "rejected", stage[r] # "rejected"
  PROVE  stage[r] = "estimate" /\ ~Succeeds(body[r])
<1>1. Handle(r)
  <2>1. ASSUME NEW s \in Request, Receive(s) PROVE FALSE
    BY <2>1 DEF Receive, Arrive, Goto, RelayerTypeOK
  <2>2. ASSUME NEW s \in Request \ {r}, Handle(s) PROVE FALSE
    BY <2>2, HandleCalls, CallStep DEF relayerVars
  <2>3. ASSUME NEW s \in Request, NodeHandles(s) PROVE FALSE
    BY <2>3, NodeStep DEF NodeHandles
  <2>4. ~Crash
    BY DEF Crash, ProcessEnds, RelayerTypeOK
  <2>5. QED
    BY <2>1, <2>2, <2>3, <2>4
       DEF Next, Mine, MineNext, RegisterDirectly, Restart, ProcessStarts, relayerVars, vars
<1>2. Fail(r)
  <2>1. ~Proceed(r)
    BY DEF Proceed, Acquire, ReadNonce, Broadcast, BroadcastReturns, Goto, RelayerTypeOK
  <2>2. ~Confirm(r)
    BY DEF Confirm, WaitReturns, Goto, RelayerTypeOK
  <2>3. ~CheckBalance(r)
    BY DEF CheckBalance, relayerVars
  <2>4. QED
    BY <1>1, <2>1, <2>2, <2>3 DEF Handle
<1>3. EstimateReverts(r) /\ ~Succeeds(body[r])
  BY <1>2 DEF Fail, RpcError, BroadcastRefused, AnswerLost, BroadcastLost,
              WaitSeesReplacement, WaitFails, WaitReturns, Throw, Goto, RelayerTypeOK
<1>4. QED
  BY <1>3 DEF EstimateReverts, Throw, Goto

(* A request that is refused, or whose transaction has run, arrived        *)
(* before, and its body is the one it arrived with.                        *)
LEMMA BodiesStay ==
  ASSUME TypeOK, TxInv, BodiesKnown, [Next]_vars, NEW r \in Request,
         executed'[r] # "none" \/ stage'[r] = "rejected"
  PROVE  stage[r] # "new" /\ body'[r] = body[r] /\ body[r] \in Body
<1> USE DEF TypeOK
<1>1. stage[r] # "new"
  <2>1. CASE executed'[r] # executed[r]
    BY <2>1, Executes
  <2>2. CASE executed'[r] # "none" /\ executed'[r] = executed[r]
    <3>1. InLedger(r)
      BY <2>2 DEF TxInv, InBlocks, InLedger, RelayerTypeOK
    <3>2. QED
      BY <3>1 DEF TxInv, FateKnown
  <2>3. CASE stage'[r] = "rejected"
    BY <2>3, RejectedByEstimate
  <2>4. QED
    BY <2>1, <2>2, <2>3
<1>2. body'[r] = body[r]
  <2>1. ASSUME NEW s \in Request, Receive(s) PROVE body'[r] = body[r]
    BY <1>1, <2>1 DEF Receive, Arrive, Goto
  <2>2. ASSUME NEW s \in Request, Handle(s) PROVE body'[r] = body[r]
    BY <2>2, HandleCalls
  <2>3. QED
    BY <2>1, <2>2 DEF Next, NodeHandles, Mine, RegisterDirectly, Crash, Restart, vars
<1>3. QED
  BY <1>1, <1>2 DEF BodiesKnown

(* An answer, or a refusal to run, comes with the fate it reports.         *)
LEMMA AnswersStep ==
  ASSUME TypeOK, TxInv, AnswerInv, [Next]_vars
  PROVE  AnswersFollow'
<1> USE DEF TypeOK, AnswerInv, AnswersFollow
<1> SUFFICES ASSUME NEW r \in Request
             PROVE  /\ response'[r] = "200" => executed'[r] = "success"
                    /\ response'[r] = "400" => stage'[r] \in {"rejected", "reverted"}
                    /\ response'[r] = "502" => stage'[r] \in {"underfunded", "conflict"}
  OBVIOUS
<1>1. /\ stage[r] \in Finished => stage'[r] = stage[r]
      /\ executed[r] # "none" => executed'[r] = executed[r]
  BY RelayerSteps, EndsAreFinal
<1>2. CASE response'[r] = response[r]
  BY <1>1, <1>2 DEF Finished
<1>3. CASE Fail(r)
  BY <1>3, FailEnds DEF ErrorStatus
<1>4. CASE Confirm(r)
  <2>1. executed[r] = "success" /\ response'[r] \in {response[r], "200"}
    BY <1>4 DEF Confirm, Respond
  <2>2. QED
    BY <1>1, <1>2, <2>1
<1>5. CASE CheckBalance(r)
  <2>1. executed[r] = "success" /\ response'[r] \in {"200", "500"}
    BY <1>5 DEF CheckBalance, Respond, ErrorStatus, TxInv, FateKnown
  <2>2. QED
    BY <1>1, <2>1
<1>6. CASE Crash
  <2>1. response'[r] = response[r] \/ response'[r] = "closed"
    BY <1>6 DEF Crash
  <2>2. QED
    BY <1>2, <2>1
<1>7. ASSUME ~Fail(r), ~Confirm(r), ~CheckBalance(r), ~Crash
      PROVE  response'[r] = response[r]
  <2>1. ASSUME NEW s \in Request, Receive(s) \/ Handle(s) \/ NodeHandles(s)
        PROVE  response'[r] = response[r]
    BY <1>7, <2>1, FailEnds
       DEF Receive, Handle, Proceed, Confirm, CheckBalance, NodeHandles, Respond
  <2>2. QED
    BY <1>7, <2>1 DEF Next, Mine, RegisterDirectly, Restart, vars
<1>8. QED
  BY <1>2, <1>3, <1>4, <1>5, <1>6, <1>7

(* What a registration left in the registry stays there, and no second     *)
(* registration of its wallet or document takes effect.                    *)
LEMMA EffectsStep ==
  ASSUME TypeOK, TxInv, AnswerInv, [Next]_vars
  PROVE  EffectsLast'
<1> USE DEF TypeOK, AnswerInv, EffectsLast
<1>1. ASSUME NEW r \in Request, Registered(r)', executed'[r] = executed[r]
      PROVE  Registered(r) /\ body'[r] = body[r] /\ Bound(body[r])'
  <2>1. body'[r] = body[r] /\ body[r] \in Body
    BY <1>1, BodiesStay DEF Registered
  <2>2. Registered(r)
    BY <1>1, <2>1 DEF Registered, Identified, Registration, FinalNullifier
  <2>3. QED
    BY <2>1, <2>2, BindingsKept DEF Registered, Identified, Registration
<1>2. ASSUME NEW r \in Request, Registered(r)', executed'[r] # executed[r]
      PROVE  /\ UNCHANGED body /\ Registers(body[r]) /\ Bound(body[r])'
             /\ \A s \in Request \ {r} : executed'[s] = executed[s]
  <2>1. /\ UNCHANGED body /\ body[r] \in Body
        /\ \A s \in Request \ {r} : executed'[s] = executed[s]
        /\ Succeeds(body[r]) /\ Effect(body[r])
    BY <1>2, Executes DEF Registered
  <2>2. body[r].op = "registerIdentity"
    BY <1>2, <2>1 DEF Registered, Identified, Registration
  <2>3. Registers(body[r])
    BY <2>1, <2>2, EffectCases DEF Requires, Trusts
  <2>4. Bound(body[r])'
    <3> DEFINE n == FinalNullifier(body[r])
    <3>1. n \in Nullifier /\ body[r].user \in Address
      BY <2>1, <2>2, FinalNullifierType
    <3>2. Contracts!RegistryTypeOK
      BY DEF Contracts!TypeOK
    <3>3. /\ identityNullifiers'[n] = body[r].user
          /\ addressToNullifiers'[body[r].user] = n
          /\ encryptedAges'[body[r].user] = body[r].age
      BY <2>3, <3>1, <3>2 DEF Registers, Contracts!StoreIdentity, Contracts!RegistryTypeOK
    <3>4. n' = n
      BY <2>1 DEF FinalNullifier
    <3>5. QED
      BY <2>1, <3>3, <3>4 DEF Bound
  <2>5. QED
    BY <2>1, <2>3, <2>4
<1>3. ASSUME NEW r \in Request, Registered(r)' PROVE Bound(body[r])'
  BY <1>1, <1>2, <1>3
<1>4. ASSUME NEW r \in Request, NEW s \in Request, Registered(r)', Registered(s)',
             SameIdentity(body[r], body[s])', executed'[r] # executed[r], r # s
      PROVE  FALSE
  <2>1. Registers(body[r]) /\ UNCHANGED body /\ executed'[s] = executed[s]
    BY <1>2, <1>4
  <2>2. Registered(s) /\ Bound(body[s])
    BY <1>1, <1>4, <2>1
  <2>3. SameIdentity(body[r], body[s])
    BY <1>4, <2>1 DEF SameIdentity, FinalNullifier
  <2>4. QED
    BY <2>1, <2>2, <2>3 DEF Registers, Bound, Registered, Identified, SameIdentity
<1>5. ASSUME NEW r \in Request, NEW s \in Request, Registered(r)', Registered(s)',
             SameIdentity(body[r], body[s])'
      PROVE  r = s
  <2>1. CASE executed'[r] = executed[r] /\ executed'[s] = executed[s]
    BY <1>1, <1>5, <2>1 DEF SameIdentity, FinalNullifier
  <2>2. CASE executed'[r] # executed[r]
    BY <1>4, <1>5, <2>2
  <2>3. CASE executed'[s] # executed[s]
    BY <1>4, <1>5, <2>3 DEF SameIdentity, FinalNullifier
  <2>4. QED
    BY <2>1, <2>2, <2>3
<1>6. QED
  BY <1>3, <1>5

(* What a refused registration ran into stays there.                       *)
LEMMA RefusalsStep ==
  ASSUME TypeOK, TxInv, AnswerInv, [Next]_vars
  PROVE  RefusalsLast'
<1> USE DEF TypeOK, AnswerInv, RefusalsLast
<1> SUFFICES ASSUME NEW r \in Request, Registration(r)',
                    executed'[r] = "revert" \/ stage'[r] = "rejected"
             PROVE  Claimed(body[r])'
  OBVIOUS
<1>1. stage[r] # "new" /\ body'[r] = body[r] /\ body[r] \in Body
  BY BodiesStay
<1>2. Registration(r) /\ body[r].op = "registerIdentity"
  BY <1>1 DEF Registration
<1>3. ASSUME ~Succeeds(body[r]) PROVE Claimed(body[r])
  BY <1>2, <1>3 DEF Succeeds, Contracts!CanRegister, Contracts!DocumentFree,
                    Contracts!AddressFree, Claimed
<1>4. Claimed(body[r])
  <2>1. CASE executed'[r] = "revert" /\ executed'[r] # executed[r]
    BY <1>3, <2>1, Executes
  <2>2. CASE stage'[r] = "rejected" /\ stage'[r] # stage[r]
    BY <1>3, <2>2, RejectedByEstimate
  <2>3. QED
    BY <1>2, <2>1, <2>2
<1>5. Claimed(body[r])'
  <2>1. \A b \in Body : b.op = "registerIdentity" /\ Claimed(b) => Claimed(b)'
    BY BindingsKept
  <2>2. QED
    BY <1>1, <1>2, <1>4, <2>1 DEF Claimed, FinalNullifier
<1>6. QED
  BY <1>5

(* The invariant the four properties of the answers rest on.               *)
THEOREM AnswerInvariant == Spec => []AnswerInv
<1>1. Init => AnswerInv
  BY DEF Init, RelayerInit, AnswerInv, BodiesKnown, AnswersFollow, EffectsLast,
         RefusalsLast, Registered, Identified, Registration
<1>2. TypeOK /\ TxInv /\ AnswerInv /\ BodiesKnown' /\ [Next]_vars => AnswerInv'
  <2> SUFFICES ASSUME TypeOK, TxInv, AnswerInv, BodiesKnown', [Next]_vars
               PROVE  AnswerInv'
    OBVIOUS
  <2>1. (RelayerAddress \in trustedIssuers)'
    BY IssuersKept DEF AnswerInv
  <2>2. AnswersFollow' /\ EffectsLast' /\ RefusalsLast'
    BY AnswersStep, EffectsStep, RefusalsStep
  <2>3. QED
    BY <2>1, <2>2 DEF AnswerInv
<1>3. QED
  BY <1>1, <1>2, BackendUsesRelayer, BackendTypeCorrect, TxInvariant,
     RequestsCorrect, PTL DEF Spec

(* A registration answered 200 is on the chain as the client sent it, for  *)
(* ever.                                                                   *)
THEOREM OkIsBound == Spec => []OkMeansBound
<1>1. AnswerInv => OkMeansBound
  BY DEF AnswerInv, AnswersFollow, EffectsLast, Registered, OkMeansBound
<1>2. QED
  BY <1>1, AnswerInvariant, PTL

(* One registration at most of a wallet, or of a document, is answered     *)
(* 200, however many were estimated before any was mined.                  *)
THEOREM OneOk == Spec => []OneOkPerIdentity
<1>1. AnswerInv => OneOkPerIdentity
  BY DEF AnswerInv, AnswersFollow, EffectsLast, Registered, OneOkPerIdentity
<1>2. QED
  BY <1>1, AnswerInvariant, PTL

(* An answer 400 or 502 is the truth about the transaction, and stays it.  *)
THEOREM ErrorsAreTrue == Spec => []ErrorMeansNoEffect
<1> DEFINE Final == \A r \in Request : stage[r] \in RefusedStage => executed[r] # "success"
<1>1. AnswerInv /\ Final => ErrorMeansNoEffect
  BY DEF AnswerInv, AnswersFollow, RefusedStage, ErrorMeansNoEffect
<1>2. QED
  BY <1>1, AnswerInvariant, BackendUsesRelayer, RefusalsAreFinal, PTL

(* A registration answered 400 meets a wallet or a document that is taken, *)
(* and remains so.                                                         *)
THEOREM RefusedIsBound == Spec => []RefusedMeansBound
<1>1. TxInv /\ AnswerInv => RefusedMeansBound
  BY DEF TxInv, FateKnown, AnswerInv, AnswersFollow, RefusalsLast, RefusedMeansBound
<1>2. QED
  BY <1>1, AnswerInvariant, BackendUsesRelayer, TxInvariant, PTL

--------------------------------------------------------------------------------
(* A protocol's requirement changes only as a block runs the transaction   *)
(* of a request that sets it.                                              *)
LEMMA SettingsChange ==
  ASSUME TypeOK, TxInv, BodiesKnown, [Next]_vars,
         protocolRequirements' # protocolRequirements
  PROVE  MineNext("success") /\ Requires(body[NextToMine])
<1>1. Mine
  BY DEF Next, Receive, Handle, Proceed, Fail, Confirm, CheckBalance, NodeHandles,
         RegisterDirectly, Crash, Restart, contractVars, vars
<1>2. MineNext("success") /\ Succeeds(body[NextToMine]) /\ Effect(body[NextToMine])
  BY <1>1 DEF Mine, contractVars
<1>3. NextToMine \in Request /\ InLedger(NextToMine)
  BY <1>2, MineStep DEF InLedger, TypeOK
<1>4. body[NextToMine] \in Body
  BY <1>3 DEF TxInv, FateKnown, BodiesKnown
<1>5. QED
  BY <1>2, <1>4, EffectCases DEF Registers, Trusts

(* The last requirement to arrive stays the one in force, or becomes it.   *)
LEMMA RequirementsStep ==
  ASSUME TypeOK, TxInv, BodiesKnown, ArrivalOrder, LastRequirementsWin, [Next]_vars
  PROVE  LastRequirementsWin'
<1> USE DEF TypeOK
<1> SUFFICES ASSUME faults' = {}, NEW r \in Request, SettingDone(r)',
                    \A s \in Request : SettingDone(s)' => ticket'[s] <= ticket'[r]
             PROVE  protocolRequirements'[RelayerAddress] = Contracts!Required(body'[r].minAge)
  BY DEF LastRequirementsWin
<1>1. faults = {} /\ ticket \in [Request -> Nat]
  BY RelayerSteps, FaultsFixed DEF RelayerTypeOK
<1>2. stage[r] # "new" /\ body'[r] = body[r] /\ body[r] \in Body
  BY BodiesStay DEF SettingDone
<1>3. ticket'[r] = ticket[r]
  BY <1>2, RelayerSteps, TicketsStay
<1>4. ASSUME executed'[r] # executed[r]
      PROVE  protocolRequirements'[RelayerAddress] = Contracts!Required(body[r].minAge)
  <2>1. body[r].op = "setRequirements" /\ Effect(body[r])
    BY <1>2, <1>4, Executes DEF SettingDone
  <2>2. DOMAIN protocolRequirements = Address
    BY DEF Contracts!TypeOK
  <2>3. QED
    BY <2>1, <2>2, RelayerAssumption DEF Effect, Contracts!SetRequirements
<1>5. ASSUME executed'[r] = executed[r]
      PROVE  protocolRequirements'[RelayerAddress] = Contracts!Required(body[r].minAge)
  <2>1. SettingDone(r)
    BY <1>2, <1>5 DEF SettingDone
  <2>2. ASSUME NEW s \in Request, SettingDone(s) PROVE ticket[s] <= ticket[r]
    <3>1. executed'[s] = executed[s]
      BY <2>2, RelayerSteps, EndsAreFinal DEF SettingDone
    <3>2. stage[s] # "new" /\ body'[s] = body[s]
      BY <2>2, <3>1, BodiesStay DEF SettingDone
    <3>3. ticket'[s] = ticket[s] /\ SettingDone(s)'
      BY <2>2, <3>1, <3>2, RelayerSteps, TicketsStay DEF SettingDone
    <3>4. QED
      BY <1>3, <3>3
  <2>3. protocolRequirements' = protocolRequirements
    <3> SUFFICES ASSUME protocolRequirements' # protocolRequirements PROVE FALSE
      OBVIOUS
    <3>1. MineNext("success") /\ Requires(body[NextToMine])
      BY SettingsChange
    <3>2. PICK s \in Request :
            /\ s = NextToMine /\ executed'[s] = "success" /\ s # r
            /\ UNCHANGED ticket
      BY <1>5, <3>1, MineStep DEF lockVars, RelayerTypeOK, SettingDone
    <3>3. ticket[r] < ticket[s]
      BY <1>1, <2>1, <3>1, <3>2, MinedInArrivalOrder DEF SettingDone
    <3>4. SettingDone(s)'
      <4>1. body'[s] = body[s] /\ body[s] \in Body
        BY <3>2, BodiesStay
      <4>2. QED
        BY <3>1, <3>2, <4>1, BodyAssumption DEF SettingDone, Requires
    <3>5. ticket[s] <= ticket[r]
      BY <3>2, <3>4
    <3>6. QED
      BY <1>1, <3>2, <3>3, <3>5
  <2>4. QED
    BY <1>1, <2>1, <2>2, <2>3 DEF LastRequirementsWin
<1>6. QED
  BY <1>2, <1>4, <1>5

(* Where the node's reads are current and no send is late, a requirement   *)
(* set by an earlier request never replaces a later one's.                 *)
THEOREM LastOneWins == Spec => []LastRequirementsWin
<1>1. Init => LastRequirementsWin
  BY DEF Init, LastRequirementsWin, SettingDone
<1>2. QED
  BY <1>1, RequirementsStep, BackendUsesRelayer, BackendTypeCorrect, TxInvariant,
     RequestsCorrect, NoncesInArrivalOrder, PTL DEF Spec

--------------------------------------------------------------------------------
(* The chain the backend leaves behind.                                    *)

(* The composition, on the side of the contracts: whatever a step of the   *)
(* backend does to the chain is one call of the deployed contracts.        *)
THEOREM BackendCallsContracts == Spec => [][Contracts!Next]_contractVars
<1>1. RelayerTypeOK /\ TxInv /\ BodiesKnown /\ AnswerInv /\ [Next]_vars
      => [Contracts!Next]_contractVars
  <2> SUFFICES ASSUME RelayerTypeOK, TxInv, BodiesKnown, AnswerInv, [Next]_vars,
                      ~UNCHANGED contractVars
               PROVE  Contracts!Next
    OBVIOUS
  <2>1. RelayerAddress \in Contracts!Sender
    BY RelayerAssumption DEF Contracts!Sender
  <2>2. PICK b \in Body : Registers(b) \/ Requires(b) \/ Trusts(b)
    BY ContractSteps
  <2>3. CASE Registers(b)
    <3>1. Contracts!RegisterIdentity(RelayerAddress, b.user, FinalNullifier(b), b.age)
      BY <2>3 DEF Registers, Contracts!RegisterIdentity, Contracts!CanRegister,
                  Contracts!DocumentFree, Contracts!AddressFree, AnswerInv
    <3>2. FinalNullifier(b) \in Nullifier /\ b.user \in Address /\ b.age \in Ciphertext
      BY <2>3, FinalNullifierType DEF Registers
    <3>3. UNCHANGED protocolRequirements
      BY <2>3 DEF Registers
    <3>4. QED
      BY <2>1, <3>1, <3>2, <3>3 DEF Contracts!Next, Contracts!RegistryNext
  <2>4. CASE Requires(b)
    <3>1. b.minAge \in MinAge
      BY <2>4, BodyAssumption DEF Requires, Valid
    <3>2. QED
      BY <2>1, <2>4, <3>1 DEF Requires, Contracts!Next
  <2>5. CASE Trusts(b)
    <3>1. b.issuer \in Address
      BY <2>5, BodyAssumption DEF Trusts, Valid
    <3>2. QED
      BY <2>1, <2>5, <3>1 DEF Trusts, Contracts!Next, Contracts!RegistryNext
  <2>6. QED
    BY <2>2, <2>3, <2>4, <2>5
<1>2. QED
  BY <1>1, BackendUsesRelayer, TypeCorrect, TxInvariant, RequestsCorrect,
     AnswerInvariant, PTL DEF Spec

(* The mappings of the backend's chain agree, as those of the contracts    *)
(* alone do.                                                               *)
LEMMA BackendBindingsMatch == Spec => []Contracts!BindingsMatch
<1> USE DEF Contracts!BindingsMatch, Contracts!Wallet, Contracts!Document
<1>1. Init => Contracts!BindingsMatch
  BY ContractAssumption DEF Init
<1>2. TypeOK /\ TxInv /\ BodiesKnown /\ Contracts!BindingsMatch /\ [Next]_vars
      => Contracts!BindingsMatch'
  <2> SUFFICES ASSUME TypeOK, TxInv, BodiesKnown, Contracts!BindingsMatch, [Next]_vars
               PROVE  Contracts!BindingsMatch'
    OBVIOUS
  <2>1. ASSUME NEW b \in Body, Registers(b) PROVE Contracts!BindingsMatch'
    BY <2>1, FinalNullifierType
       DEF Registers, Contracts!StoreIdentity, TypeOK, Contracts!TypeOK,
           Contracts!RegistryTypeOK
  <2>2. CASE UNCHANGED Contracts!bindingVars
    BY <2>2 DEF Contracts!bindingVars
  <2>3. QED
    BY <2>1, <2>2, ContractSteps
       DEF TypeOK, Requires, Trusts, Contracts!SetRequirements, Contracts!AddIssuer,
           contractVars, Contracts!registryVars, Contracts!bindingVars
<1>3. QED
  BY <1>1, <1>2, BackendUsesRelayer, BackendTypeCorrect, TxInvariant, RequestsCorrect,
     PTL DEF Spec

(* What the registry promises holds behind the backend too: from the       *)
(* deployed contracts on, however requests overlap, fail and are repeated, *)
(* each step binds one free wallet to one free document or none.           *)
THEOREM BackendKeepsBindings == Spec => Contracts!BindingSpec
<1> DEFINE bound == {b \in Contracts!Wallet \X Contracts!Document :
                       identityNullifiers[b[2]] = b[1]}
<1>1. Init => Contracts!Binding!Init
  BY DEF Init, Contracts!Binding!Init, Contracts!Wallet, Contracts!Document
<1>2. TypeOK /\ TxInv /\ BodiesKnown /\ Contracts!BindingsMatch /\ [Next]_vars
      => [Contracts!Binding!Next]_bound
  <2> SUFFICES ASSUME TypeOK, TxInv, BodiesKnown, Contracts!BindingsMatch, [Next]_vars
               PROVE  Contracts!Binding!Next \/ bound' = bound
    OBVIOUS
  <2>1. ASSUME NEW b \in Body, Registers(b)
        PROVE  Contracts!Binding!Next \/ bound' = bound
    <3> DEFINE u == b.user n == FinalNullifier(b)
    <3>1. n \in Nullifier /\ u \in Address
      BY <2>1, FinalNullifierType DEF Registers
    <3>2. /\ identityNullifiers[n] = ZeroAddress /\ addressToNullifiers[u] = ZeroNullifier
          /\ identityNullifiers' = [identityNullifiers EXCEPT ![n] = u]
      BY <2>1 DEF Registers, Contracts!StoreIdentity
    <3>3. identityNullifiers \in [Nullifier -> Address]
      BY DEF TypeOK, Contracts!TypeOK, Contracts!RegistryTypeOK
    <3> HIDE DEF u, n
    <3> USE DEF Contracts!Wallet, Contracts!Document
    <3>4. CASE u = ZeroAddress \/ n = ZeroNullifier
      BY <3>1, <3>2, <3>3, <3>4
    <3>5. CASE u \in Contracts!Wallet /\ n \in Contracts!Document
      <4>1. \A c \in bound : c[1] # u /\ c[2] # n
        BY <3>2, <3>5 DEF Contracts!BindingsMatch
      <4>2. bound' = bound \cup {<<u, n>>}
        BY <3>1, <3>2, <3>3, <3>5
      <4>3. Contracts!Binding!Bind(u, n)
        BY <4>1, <4>2 DEF Contracts!Binding!Bind
      <4>4. QED
        BY <3>5, <4>3 DEF Contracts!Binding!Next
    <3>6. QED
      BY <3>1, <3>4, <3>5
  <2>2. CASE UNCHANGED Contracts!bindingVars
    BY <2>2 DEF Contracts!bindingVars
  <2>3. QED
    BY <2>1, <2>2, ContractSteps
       DEF TypeOK, Requires, Trusts, Contracts!SetRequirements, Contracts!AddIssuer,
           contractVars, Contracts!registryVars, Contracts!bindingVars
<1>3. QED
  BY <1>1, <1>2, BackendUsesRelayer, BackendTypeCorrect, TxInvariant, RequestsCorrect,
     BackendBindingsMatch, PTL DEF Spec, Contracts!BindingSpec, Contracts!Binding!Spec
================================================================================
