----------------------------- MODULE RelayerProofs -----------------------------
(***************************************************************************)
(* Proofs about the relayer, for any set of concurrent calls.  The lock is *)
(* a chain of promises, so its invariant is about promise numbers: the     *)
(* resolved ones are an initial segment of all of them, no unfinished call  *)
(* has its own promise resolved, and a call that holds the lock has the    *)
(* promise before its own resolved.  Two holders would then each have to   *)
(* come before the other.                                                  *)
(***************************************************************************)
EXTENDS Relayer, SequenceTheorems, TLAPS

(* A call that throws leaves a well-typed state.                            *)
LEMMA ThrowType ==
  ASSUME RelayerTypeOK, NEW r \in Request, NEW from, NEW to \in Finished,
         Throw(r, from, to), wire' \subseteq wire, reply' = reply
  PROVE  RelayerTypeOK'
  BY DEF Throw, Goto, Release, RelayerTypeOK, Stage, chainVars

(* Type correctness: counters stay natural numbers, no promise is resolved *)
(* before it is created, and no more is mined than the ledger holds.       *)
THEOREM TypeCorrect == RelayerSpec => []RelayerTypeOK
<1>1. RelayerInit => RelayerTypeOK
  BY DEF RelayerInit, RelayerTypeOK, Stage, Active, Waiting
<1>2. RelayerTypeOK /\ [RelayerNext]_relayerVars => RelayerTypeOK'
  <2> SUFFICES ASSUME RelayerTypeOK, [RelayerNext]_relayerVars PROVE RelayerTypeOK'
    OBVIOUS
  <2> USE DEF RelayerTypeOK, Stage, Active, Waiting, Critical, Finished,
              lockVars, nodeVars, chainVars, Goto
  <2>1. ASSUME NEW r \in Request, Arrive(r) PROVE RelayerTypeOK'
    BY <2>1 DEF Arrive
  <2>2. ASSUME NEW r \in Request, Call(r) PROVE RelayerTypeOK'
    <3>1. ASSUME Acquire(r) PROVE RelayerTypeOK'
      BY <3>1 DEF Acquire
    <3>2. ASSUME ReadNonce(r) PROVE RelayerTypeOK'
      BY <3>2 DEF ReadNonce, PendingViews, PendingCount
    <3>3. ASSUME RpcError(r) \/ EstimateReverts(r) PROVE RelayerTypeOK'
      BY <3>3, ThrowType DEF RpcError, EstimateReverts
    <3>4. ASSUME Broadcast(r) PROVE RelayerTypeOK'
      BY <3>4 DEF Broadcast
    <3>5. ASSUME BroadcastReturns(r) PROVE RelayerTypeOK'
      BY <3>5 DEF BroadcastReturns, Release
    <3>6. ASSUME BroadcastRefused(r) PROVE RelayerTypeOK'
      BY <3>6, ThrowType DEF BroadcastRefused
    <3>7. ASSUME AnswerLost(r) \/ BroadcastLost(r) PROVE RelayerTypeOK'
      BY <3>7, ThrowType DEF AnswerLost, BroadcastLost
    <3>8. ASSUME WaitReturns(r) \/ WaitSeesReplacement(r) \/ WaitFails(r)
          PROVE  RelayerTypeOK'
      BY <3>8 DEF WaitReturns, WaitSeesReplacement, WaitFails
    <3>9. QED
      BY <2>2, <3>1, <3>2, <3>3, <3>4, <3>5, <3>6, <3>7, <3>8 DEF Call
  <2>3. ASSUME NEW r \in Request, Node(r) PROVE RelayerTypeOK'
    <3>1. ASSUME Accept(r) PROVE RelayerTypeOK'
      BY <3>1 DEF Accept, Answer
    <3>2. ASSUME Replace(r) PROVE RelayerTypeOK'
      <4>1. nonce[r] + 1 \in 1 .. Len(ledger)
        BY <3>2 DEF Replace
      <4>2. ledger' \in Seq(Request) /\ Len(ledger') = Len(ledger)
        BY <3>2, <4>1, ExceptSeq DEF Replace
      <4>3. QED
        BY <3>2, <4>2 DEF Replace, Answer
    <3>3. ASSUME RefuseNonce(r) \/ RefuseFunds(r) PROVE RelayerTypeOK'
      BY <3>3 DEF RefuseNonce, RefuseFunds, Answer
    <3>4. QED
      BY <2>3, <3>1, <3>2, <3>3 DEF Node
  <2>4. ASSUME NEW outcome \in {"success", "revert"}, MineNext(outcome) PROVE RelayerTypeOK'
    BY <2>4 DEF MineNext, NextToMine
  <2>5. ASSUME ProcessEnds PROVE RelayerTypeOK'
    BY <2>5 DEF ProcessEnds
  <2>6. ASSUME ProcessStarts PROVE RelayerTypeOK'
    BY <2>6 DEF ProcessStarts
  <2>7. CASE UNCHANGED relayerVars
    BY <2>7 DEF relayerVars
  <2>8. QED
    BY <2>1, <2>2, <2>3, <2>4, <2>5, <2>6, <2>7 DEF RelayerNext
<1>3. QED
  BY <1>1, <1>2, PTL DEF RelayerSpec

--------------------------------------------------------------------------------
(* A call that gives the lock up, by throwing or by returning.             *)
Leaves(r) ==
  /\ up /\ stage[r] \in Critical
  /\ \E to \in Finished \cup {"sent"} : stage' = [stage EXCEPT ![r] = to]
  /\ Release(r)
  /\ UNCHANGED <<up, ticket, tail>>

(* A call that goes on without touching the chain of promises.             *)
GoesOn(r) ==
  /\ \E to \in Stage : stage' = [stage EXCEPT ![r] = to]
  /\ r \in Queued <=> r \in Queued'
  /\ stage[r] \in Critical <=> (stage[r] \in Critical)'
  /\ UNCHANGED <<up, lockVars>>

(* Seen from the lock, a step is one of seven.                             *)
LEMMA LockSteps ==
  ASSUME RelayerTypeOK, [RelayerNext]_relayerVars
  PROVE  \/ \E r \in Request : Arrive(r) \/ Acquire(r) \/ Leaves(r) \/ GoesOn(r)
         \/ ProcessEnds
         \/ ProcessStarts
         \/ UNCHANGED <<up, stage, lockVars>>
<1> USE DEF Goto, Throw, Leaves, GoesOn, Queued, Waiting, Critical, Finished,
            Stage, Active, RelayerTypeOK, lockVars
<1>1. ASSUME NEW r \in Request, Call(r)
      PROVE  Acquire(r) \/ Leaves(r) \/ GoesOn(r)
  <2>1. ASSUME RpcError(r) PROVE Leaves(r)
    BY <2>1 DEF RpcError
  <2>2. ASSUME EstimateReverts(r) PROVE Leaves(r)
    BY <2>2 DEF EstimateReverts
  <2>3. ASSUME BroadcastReturns(r) PROVE Leaves(r)
    BY <2>3 DEF BroadcastReturns
  <2>4. ASSUME BroadcastRefused(r) PROVE Leaves(r)
    BY <2>4 DEF BroadcastRefused
  <2>5. ASSUME AnswerLost(r) \/ BroadcastLost(r) PROVE Leaves(r)
    BY <2>5 DEF AnswerLost, BroadcastLost
  <2>6. ASSUME ReadNonce(r) PROVE GoesOn(r)
    BY <2>6 DEF ReadNonce
  <2>7. ASSUME Broadcast(r) PROVE GoesOn(r)
    BY <2>7 DEF Broadcast
  <2>8. ASSUME WaitReturns(r) PROVE GoesOn(r)
    BY <2>8 DEF WaitReturns
  <2>9. ASSUME WaitSeesReplacement(r) \/ WaitFails(r) PROVE GoesOn(r)
    BY <2>9 DEF WaitSeesReplacement, WaitFails
  <2>10. QED
    BY <1>1, <2>1, <2>2, <2>3, <2>4, <2>5, <2>6, <2>7, <2>8, <2>9 DEF Call
<1>2. ASSUME NEW r \in Request, Node(r)
      PROVE  UNCHANGED <<up, stage, lockVars>>
  BY <1>2 DEF Node, Accept, RefuseNonce, Replace, RefuseFunds, Answer
<1>3. ASSUME NEW outcome, MineNext(outcome)
      PROVE  UNCHANGED <<up, stage, lockVars>>
  BY <1>3 DEF MineNext
<1>4. CASE UNCHANGED relayerVars
  BY <1>4 DEF relayerVars
<1>5. QED
  BY <1>1, <1>2, <1>3, <1>4 DEF RelayerNext

(* The invariant of the promise chain is inductive.                        *)
THEOREM LockInvariant == RelayerSpec => []LockInv
<1>1. RelayerInit => LockInv
  BY DEF RelayerInit, LockInv, Queued, Waiting, Critical
<1>2. RelayerTypeOK /\ LockInv /\ [RelayerNext]_relayerVars => LockInv'
  <2> SUFFICES ASSUME RelayerTypeOK, LockInv, [RelayerNext]_relayerVars PROVE LockInv'
    OBVIOUS
  <2> USE DEF LockInv, RelayerTypeOK, lockVars
  <2>1. ASSUME NEW r \in Request, Arrive(r) PROVE LockInv'
    <3>1. /\ Queued' = Queued \cup {r} /\ r \notin Queued
          /\ ticket'[r] = tail + 1 /\ \A s \in Queued : ticket'[s] = ticket[s]
      BY <2>1 DEF Arrive, Goto, Queued, Waiting, Critical
    <3>2. \A s \in Queued' : (stage[s] \in Critical)' =>
                               s # r /\ stage[s] \in Critical
      BY <2>1 DEF Arrive, Goto, Queued, Waiting, Critical
    <3>3. \A s \in Queued : s \in Request
      BY DEF Queued
    <3>4. QED
      BY <2>1, <3>1, <3>2, <3>3 DEF Arrive, Goto, PreviousResolved
  <2>2. ASSUME NEW r \in Request, Acquire(r) PROVE LockInv'
    <3>1. /\ Queued' = Queued
          /\ \A s \in Request \ {r} : (stage[s] \in Critical)' => stage[s] \in Critical
      BY <2>2 DEF Acquire, Goto, Queued, Waiting, Critical
    <3>2. QED
      BY <2>2, <3>1 DEF Acquire, Goto, PreviousResolved, Queued
  <2>3. ASSUME NEW r \in Request, Leaves(r) PROVE LockInv'
    <3>1. Queued' = Queued \ {r} /\ r \in Queued
      BY <2>3 DEF Leaves, Queued, Waiting, Critical, Finished
    <3>2. \A s \in Queued' : (stage[s] \in Critical)' => stage[s] \in Critical
      BY <2>3 DEF Leaves, Queued, Waiting, Critical, Finished
    <3>3. \A i \in resolved' : \A j \in 0 .. i : j \in resolved'
      <4>1. ticket[r] \in Nat \ {0} /\ ticket[r] - 1 \in resolved
        BY <2>3, <3>1 DEF Leaves, PreviousResolved
      <4>2. QED
        BY <2>3, <4>1 DEF Leaves, Release
    <3>4. QED
      BY <2>3, <3>1, <3>2, <3>3 DEF Leaves, Release, PreviousResolved, Queued
  <2>4. ASSUME NEW r \in Request, GoesOn(r) PROVE LockInv'
    <3>1. Queued' = Queued
      BY <2>4 DEF GoesOn, Queued, Waiting, Critical
    <3>2. \A s \in Request : (stage[s] \in Critical)' <=> stage[s] \in Critical
      BY <2>4 DEF GoesOn
    <3>3. QED
      BY <2>4, <3>1, <3>2 DEF GoesOn, PreviousResolved, Queued
  <2>5. ASSUME ProcessEnds PROVE LockInv'
    <3>1. Queued' = {}
      BY <2>5 DEF ProcessEnds, Queued, Waiting, Critical, Active
    <3>2. QED
      BY <2>5, <3>1 DEF ProcessEnds
  <2>6. ASSUME ProcessStarts PROVE LockInv'
    <3>1. Queued = {} /\ Queued' = {}
      BY <2>6 DEF ProcessStarts, Queued
    <3>2. QED
      BY <2>6, <3>1 DEF ProcessStarts
  <2>7. CASE UNCHANGED <<up, stage, lockVars>>
    BY <2>7 DEF Queued, PreviousResolved
  <2>8. QED
    BY <2>1, <2>2, <2>3, <2>4, <2>5, <2>6, <2>7, LockSteps
<1>3. QED
  BY <1>1, <1>2, TypeCorrect, PTL DEF RelayerSpec

(* A call that holds the lock comes before every other queued call.        *)
LEMMA HolderIsFirst ==
  ASSUME RelayerTypeOK, LockInv, NEW r \in Queued, NEW s \in Queued,
         stage[r] \in Critical, r # s
  PROVE  ticket[r] < ticket[s]
<1>1. /\ ticket[r] \in Nat \ {0} /\ ticket[r] - 1 \in resolved
      /\ ticket[s] \in Nat /\ ticket[s] \notin resolved /\ ticket[s] # ticket[r]
  BY DEF RelayerTypeOK, LockInv, PreviousResolved, Queued
<1>2. QED
  BY <1>1 DEF LockInv

(* At most one call at a time is between reading a nonce and having it     *)
(* broadcast, for any number of calls, failures and restarts.              *)
THEOREM MutualExclusionHolds == RelayerSpec => []MutualExclusion
<1>1. RelayerTypeOK /\ LockInv => MutualExclusion
  <2> SUFFICES ASSUME RelayerTypeOK, LockInv, NEW r \in Request, NEW s \in Request,
                      stage[r] \in Critical, stage[s] \in Critical, r # s
               PROVE  FALSE
    BY DEF MutualExclusion
  <2>1. ticket[r] < ticket[s] /\ ticket[s] < ticket[r]
    BY HolderIsFirst DEF Queued
  <2>2. QED
    BY <2>1 DEF RelayerTypeOK
<1>2. QED
  BY <1>1, TypeCorrect, LockInvariant, PTL

--------------------------------------------------------------------------------
(* Where reads are current and no send is late, a call that has read its   *)
(* nonce still has the account's next nonce when the node sees its         *)
(* transaction, because no other call can send in between.                 *)
LEMMA NonceStep ==
  ASSUME RelayerTypeOK, LockInv, MutualExclusion, NonceInv, faults = {}, [RelayerNext]_relayerVars
  PROVE  NonceInv'
<1> USE DEF NonceInv, RelayerTypeOK, lockVars, nodeVars, chainVars, Goto
<1>1. ASSUME NEW r \in Request, Arrive(r) PROVE NonceInv'
  BY <1>1 DEF Arrive
<1>2. ASSUME NEW r \in Request, Call(r) PROVE NonceInv'
  <2>1. ASSUME Acquire(r) PROVE NonceInv'
    BY <2>1 DEF Acquire
  <2>2. ASSUME ReadNonce(r) PROVE NonceInv'
    BY <2>2 DEF ReadNonce, PendingViews, PendingCount
  <2>3. ASSUME RpcError(r) \/ EstimateReverts(r) PROVE NonceInv'
    BY <2>3 DEF RpcError, EstimateReverts, Throw
  <2>4. ASSUME Broadcast(r) PROVE NonceInv'
    <3>1. wire = {}
      BY <2>4 DEF Broadcast, MutualExclusion, Critical
    <3>2. QED
      BY <2>4, <3>1 DEF Broadcast
  <2>5. ASSUME BroadcastReturns(r) PROVE NonceInv'
    BY <2>5 DEF BroadcastReturns
  <2>6. ASSUME BroadcastRefused(r) PROVE NonceInv'
    BY <2>6 DEF BroadcastRefused, Throw
  <2>7. ASSUME AnswerLost(r) PROVE NonceInv'
    BY <2>7 DEF AnswerLost, Throw
  <2>8. ASSUME BroadcastLost(r) PROVE NonceInv'
    BY <2>8 DEF BroadcastLost, Throw
  <2>9. ASSUME WaitReturns(r) \/ WaitSeesReplacement(r) \/ WaitFails(r) PROVE NonceInv'
    BY <2>9 DEF WaitReturns, WaitSeesReplacement, WaitFails
  <2>10. QED
    BY <1>2, <2>1, <2>2, <2>3, <2>4, <2>5, <2>6, <2>7, <2>8, <2>9 DEF Call
<1>3. ASSUME NEW r \in Request, Node(r) PROVE NonceInv'
  <2>1. r \in wire /\ wire = {r} /\ wire' = {}
    BY <1>3 DEF Node, Accept, RefuseNonce, Replace, RefuseFunds, Answer
  <2>2. \A s \in Request : stage[s] # "estimate"
    BY <2>1 DEF MutualExclusion, LockInv, Queued, Critical
  <2>3. \A s \in Request : stage[s] \in {"new", "waiting", "nonce", "estimate"}
                             => reply'[s] = "none"
    BY <1>3, <2>1 DEF Node, Accept, RefuseNonce, Replace, RefuseFunds, Answer
  <2>4. stage' = stage /\ faults' = faults
    BY <1>3 DEF Node, Accept, RefuseNonce, Replace, RefuseFunds, Answer
  <2>5. QED
    BY <2>1, <2>2, <2>3, <2>4
<1>4. ASSUME NEW outcome, MineNext(outcome) PROVE NonceInv'
  BY <1>4 DEF MineNext
<1>5. ASSUME ProcessEnds PROVE NonceInv'
  BY <1>5 DEF ProcessEnds, Active, Waiting, Critical
<1>6. ASSUME ProcessStarts PROVE NonceInv'
  BY <1>6 DEF ProcessStarts
<1>7. CASE UNCHANGED relayerVars
  BY <1>7 DEF relayerVars
<1>8. QED
  BY <1>1, <1>2, <1>3, <1>4, <1>5, <1>6, <1>7 DEF RelayerNext

(* The environment's faults are chosen once.                               *)
LEMMA FaultsFixed ==
  ASSUME [RelayerNext]_relayerVars
  PROVE  faults' = faults
<1>1. ASSUME NEW r \in Request, Call(r) PROVE faults' = faults
  BY <1>1 DEF Call, Acquire, ReadNonce, RpcError, EstimateReverts, Broadcast,
              BroadcastReturns, BroadcastRefused, AnswerLost, BroadcastLost,
              WaitReturns, WaitSeesReplacement, WaitFails, Throw
<1>2. ASSUME NEW r \in Request, Node(r) PROVE faults' = faults
  BY <1>2 DEF Node, Accept, RefuseNonce, Replace, RefuseFunds, Answer
<1>3. QED
  BY <1>1, <1>2 DEF RelayerNext, Arrive, MineNext, ProcessEnds, ProcessStarts, relayerVars

(* The call past its read, or the transaction on the wire, has the node's  *)
(* next nonce.                                                             *)
THEOREM NonceInvariant == RelayerSpec => []NonceInv
<1>1. RelayerInit => NonceInv
  BY DEF RelayerInit, NonceInv
<1>2. RelayerTypeOK /\ LockInv /\ MutualExclusion /\ NonceInv /\ [RelayerNext]_relayerVars => NonceInv'
  <2>1. ASSUME [RelayerNext]_relayerVars, faults # {} PROVE NonceInv'
    BY <2>1, FaultsFixed DEF NonceInv
  <2>2. QED
    BY <2>1, NonceStep
<1>3. QED
  BY <1>1, <1>2, TypeCorrect, LockInvariant, MutualExclusionHolds, PTL DEF RelayerSpec

(* A broadcast never collides with another and never leaves a gap.         *)
THEOREM NoncesFresh == RelayerSpec => []NonceFresh
<1>1. NonceInv => NonceFresh
  BY DEF NonceInv, NonceFresh, PendingCount
<1>2. QED
  BY <1>1, NonceInvariant, PTL

(* What the node has accepted is never replaced: the relayer's ledger only *)
(* grows.                                                                  *)
THEOREM LedgerGrows == RelayerSpec => AcceptedForGood
<1>1. RelayerTypeOK /\ NonceInv /\ [RelayerNext]_relayerVars =>
        [faults = {} => \A i \in 1 .. Len(ledger) : ledger'[i] = ledger[i]]_relayerVars
  <2> SUFFICES ASSUME RelayerTypeOK, NonceInv, [RelayerNext]_relayerVars, faults = {},
                      NEW i \in 1 .. Len(ledger)
               PROVE  ledger'[i] = ledger[i]
    OBVIOUS
  <2> USE DEF RelayerTypeOK, nodeVars
  <2>1. ASSUME NEW r \in Request, Call(r) PROVE ledger' = ledger
    BY <2>1 DEF Call, Acquire, ReadNonce, RpcError, EstimateReverts, Broadcast,
                BroadcastReturns, BroadcastRefused, AnswerLost, BroadcastLost,
                WaitReturns, WaitSeesReplacement, WaitFails, Throw
  <2>2. ASSUME NEW r \in Request, Node(r) PROVE ledger'[i] = ledger[i]
    <3>1. ~Replace(r)
      BY DEF Replace, NonceInv
    <3>2. CASE Accept(r)
      <4>1. ledger' = Append(ledger, r) /\ ledger \in Seq(Request)
        BY <3>2 DEF Accept
      <4>2. QED
        BY <4>1, AppendProperties
    <3>3. CASE RefuseNonce(r) \/ RefuseFunds(r)
      BY <3>3 DEF RefuseNonce, RefuseFunds
    <3>4. QED
      BY <2>2, <3>1, <3>2, <3>3 DEF Node
  <2>3. QED
    BY <2>1, <2>2 DEF RelayerNext, Arrive, MineNext, ProcessEnds, ProcessStarts, relayerVars
<1>2. QED
  BY <1>1, TypeCorrect, NonceInvariant, PTL DEF RelayerSpec, AcceptedForGood

--------------------------------------------------------------------------------
(* Whatever is still to be sent arrived after everything the node holds.   *)
LEMMA OrderStep ==
  ASSUME RelayerTypeOK, LockInv, MutualExclusion, NonceInv, OrderInv, faults = {},
         [RelayerNext]_relayerVars
  PROVE  OrderInv'
<1> USE DEF OrderInv, ArrivalOrder, RelayerTypeOK, Behind, lockVars, nodeVars, chainVars, Goto
<1>0. \A i \in 1 .. Len(ledger) : ledger[i] \in Request
  BY ElementOfSeq
<1>1. ASSUME NEW r \in Request, Arrive(r) PROVE OrderInv'
  <2>1. r \notin wire
    BY <1>1 DEF Arrive, NonceInv
  <2>2. \A i \in 1 .. Len(ledger) : ledger[i] # r
    BY <1>1 DEF Arrive
  <2>3. ledger' = ledger /\ wire' = wire /\ faults' = faults
    BY <1>1 DEF Arrive
  <2>4. \A s \in Request \ {r} : ticket'[s] = ticket[s] /\ stage'[s] = stage[s]
    BY <1>1 DEF Arrive
  <2>5. ticket'[r] = tail + 1
    BY <1>1 DEF Arrive
  <2>6. \A i \in 1 .. Len(ledger) : /\ ledger[i] \in Request \ {r}
                                   /\ ticket[ledger[i]] \in 0 .. tail
    BY <1>0, <2>2
  <2>7. \A s \in Request \ {r} : Behind(s)' => Behind(s)
    BY <2>3, <2>4
  <2>8. ArrivalOrder'
    BY <2>3, <2>4, <2>6
  <2>9. ASSUME NEW i \in 1 .. Len(ledger)
        PROVE  /\ stage'[ledger[i]] # "new"
               /\ ledger[i] \notin wire
               /\ \A s \in Request : Behind(s)' => ticket'[ledger[i]] < ticket'[s]
    <3>1. \A s \in Request \ {r} : Behind(s)' => ticket'[ledger[i]] < ticket'[s]
      BY <2>4, <2>6, <2>7
    <3>2. ticket'[ledger[i]] < ticket'[r]
      BY <2>4, <2>5, <2>6
    <3>3. QED
      BY <2>4, <2>6, <3>1, <3>2
  <2>10. QED
    BY <2>3, <2>8, <2>9
<1>2. ASSUME NEW r \in Request, Call(r) PROVE OrderInv'
  <2>1. /\ stage[r] # "new" /\ stage'[r] # "new"
        /\ \A s \in Request \ {r} : stage'[s] = stage[s]
        /\ ledger' = ledger /\ ticket' = ticket /\ faults' = faults
    BY <1>2 DEF Call, Acquire, ReadNonce, RpcError, EstimateReverts, Broadcast,
                BroadcastReturns, BroadcastRefused, AnswerLost, BroadcastLost,
                WaitReturns, WaitSeesReplacement, WaitFails, Throw
  <2>2. wire' \subseteq wire \/ (wire' = wire \cup {r} /\ stage[r] = "estimate")
    BY <1>2 DEF Call, Acquire, ReadNonce, RpcError, EstimateReverts, Broadcast,
                BroadcastReturns, BroadcastRefused, AnswerLost, BroadcastLost,
                WaitReturns, WaitSeesReplacement, WaitFails, Throw
  <2>3. Behind(r)' => Behind(r)
    BY <1>2 DEF Call, Acquire, ReadNonce, RpcError, EstimateReverts, Broadcast,
                BroadcastReturns, BroadcastRefused, AnswerLost, BroadcastLost,
                WaitReturns, WaitSeesReplacement, WaitFails, Throw, Finished
  <2>4. \A s \in Request : Behind(s)' => Behind(s)
    BY <2>1, <2>2, <2>3
  <2>5. \A i \in 1 .. Len(ledger) : ledger[i] \notin wire'
    <3>1. SUFFICES ASSUME NEW i \in 1 .. Len(ledger), ledger[i] \in wire'
                   PROVE  FALSE
      OBVIOUS
    <3>2. ledger[i] = r /\ Behind(r)
      BY <1>0, <2>2, <3>1
    <3>3. QED
      BY <1>0, <3>2
  <2>6. QED
    BY <1>0, <2>1, <2>4, <2>5
<1>3. ASSUME NEW r \in Request, Node(r) PROVE OrderInv'
  <2>1. /\ r \in wire /\ wire = {r} /\ wire' = {} /\ ~Replace(r)
        /\ stage' = stage /\ ticket' = ticket /\ faults' = faults
    BY <1>3 DEF Node, Accept, RefuseNonce, Replace, RefuseFunds, Answer, NonceInv
  <2>2. CASE ledger' = ledger
    BY <1>0, <2>1, <2>2
  <2>3. CASE Accept(r)
    <3>1. /\ Len(ledger') = Len(ledger) + 1 /\ ledger'[Len(ledger) + 1] = r
          /\ \A i \in 1 .. Len(ledger) : ledger'[i] = ledger[i]
      BY <2>3, AppendProperties DEF Accept
    <3>2. \A i \in 1 .. Len(ledger) : ticket[ledger[i]] < ticket[r]
      BY <2>1
    <3>3. stage[r] # "new"
      BY <2>1 DEF NonceInv
    <3>4. ASSUME NEW s \in Request, Behind(s)' PROVE ticket[r] < ticket[s]
      <4>1. stage[s] \in {"waiting", "nonce", "estimate"} /\ s \notin wire
        BY <2>1, <3>4 DEF NonceInv
      <4>2. s \in Queued /\ up /\ s # r
        BY <2>1, <4>1 DEF LockInv, Queued, Waiting, Critical
      <4>3. r \in Queued /\ stage[r] \in Critical
        BY <2>1, <4>2 DEF NonceInv, Queued, Critical
      <4>4. QED
        BY <4>2, <4>3, HolderIsFirst
    <3>5. \A i \in 1 .. Len(ledger') : i \in 1 .. Len(ledger) \/ i = Len(ledger) + 1
      BY <3>1
    <3>6. ArrivalOrder'
      <4>1. SUFFICES ASSUME NEW i \in 1 .. Len(ledger'), NEW j \in 1 .. Len(ledger'),
                            i < j
                     PROVE  ticket[ledger'[i]] < ticket[ledger'[j]]
        BY <2>1
      <4>2. i \in 1 .. Len(ledger) /\ ledger'[i] = ledger[i]
        <5> DEFINE n == Len(ledger)
        <5>1. n \in Nat
          BY DEF RelayerTypeOK
        <5>2. i \in Nat /\ j \in Nat /\ 1 <= i /\ j <= n + 1
          BY <3>1, <4>1, <5>1
        <5> HIDE DEF n
        <5>3. i \in 1 .. n
          BY <4>1, <5>1, <5>2
        <5>4. QED
          BY <3>1, <5>3 DEF n
      <4>3. CASE j = Len(ledger) + 1
        BY <3>1, <3>2, <4>2, <4>3
      <4>4. CASE j \in 1 .. Len(ledger)
        <5>1. ledger'[j] = ledger[j]
          BY <3>1, <4>4
        <5>2. QED
          BY <4>1, <4>2, <4>4, <5>1
      <4>5. QED
        BY <3>5, <4>3, <4>4
    <3>7. ASSUME NEW i \in 1 .. Len(ledger')
          PROVE  /\ stage'[ledger'[i]] # "new"
                 /\ ledger'[i] \notin wire'
                 /\ \A s \in Request : Behind(s)' => ticket'[ledger'[i]] < ticket'[s]
      <4>1. CASE i = Len(ledger) + 1
        BY <2>1, <3>1, <3>3, <3>4, <4>1
      <4>2. CASE i \in 1 .. Len(ledger)
        <5>1. \A s \in Request : Behind(s)' => Behind(s)
          BY <2>1
        <5>2. ledger'[i] = ledger[i]
          BY <3>1, <4>2
        <5>3. QED
          BY <2>1, <4>2, <5>1, <5>2
      <4>3. QED
        BY <3>5, <4>1, <4>2
    <3>8. QED
      BY <3>6, <3>7
  <2>4. QED
    BY <1>3, <2>1, <2>2, <2>3 DEF Node, RefuseNonce, RefuseFunds
<1>4. ASSUME NEW outcome, MineNext(outcome) PROVE OrderInv'
  BY <1>4 DEF MineNext
<1>5. ASSUME ProcessEnds PROVE OrderInv'
  <2>1. /\ ledger' = ledger /\ wire' = wire /\ ticket' = ticket /\ faults' = faults
        /\ \A s \in Request : stage'[s] = "new" <=> stage[s] = "new"
        /\ \A s \in Request : Behind(s)' => Behind(s)
    BY <1>5 DEF ProcessEnds, Active, Waiting, Critical
  <2>2. QED
    BY <1>0, <2>1
<1>6. ASSUME ProcessStarts PROVE OrderInv'
  BY <1>6 DEF ProcessStarts
<1>7. CASE UNCHANGED relayerVars
  BY <1>7 DEF relayerVars
<1>8. QED
  BY <1>1, <1>2, <1>3, <1>4, <1>5, <1>6, <1>7 DEF RelayerNext

(* Nonces follow the order in which the calls arrived.                     *)
THEOREM NoncesInArrivalOrder == RelayerSpec => []ArrivalOrder
<1>1. RelayerInit => OrderInv
  BY DEF RelayerInit, OrderInv, ArrivalOrder
<1>2. RelayerTypeOK /\ LockInv /\ MutualExclusion /\ NonceInv /\ OrderInv /\ [RelayerNext]_relayerVars
        => OrderInv'
  <2>1. ASSUME [RelayerNext]_relayerVars, faults # {} PROVE OrderInv'
    BY <2>1, FaultsFixed DEF OrderInv
  <2>2. QED
    BY <2>1, OrderStep
<1>3. OrderInv => ArrivalOrder
  BY DEF OrderInv, ArrivalOrder
<1>4. QED
  BY <1>1, <1>2, <1>3, TypeCorrect, LockInvariant, MutualExclusionHolds,
     NonceInvariant, PTL DEF RelayerSpec

--------------------------------------------------------------------------------
(* What a step of a call may touch: its own stage, the promises, and the   *)
(* wire; never what the node has answered, holds or mined.                 *)
LEMMA CallStep ==
  ASSUME RelayerTypeOK, NEW r \in Request, Arrive(r) \/ Call(r)
  PROVE  /\ UNCHANGED <<up, reply, ledger, mined, executed, faults>>
         /\ stage[r] \in {"new"} \cup Active
         /\ stage'[r] \in Stage \ {"new"}
         /\ \A s \in Request \ {r} : stage'[s] = stage[s]
         /\ wire' \subseteq wire \cup {r}
         /\ wire' \subseteq wire \/ stage[r] = "estimate"
<1> USE DEF RelayerTypeOK, lockVars, nodeVars, chainVars, Goto, Active, Waiting,
            Critical, Finished, Stage
<1>1. CASE Arrive(r)
  BY <1>1 DEF Arrive
<1>2. CASE Acquire(r)
  BY <1>2 DEF Acquire
<1>3. CASE ReadNonce(r)
  BY <1>3 DEF ReadNonce
<1>4. CASE RpcError(r) \/ EstimateReverts(r)
  BY <1>4 DEF RpcError, EstimateReverts, Throw
<1>5. CASE Broadcast(r)
  BY <1>5 DEF Broadcast
<1>6. CASE BroadcastReturns(r)
  BY <1>6 DEF BroadcastReturns
<1>7. CASE BroadcastRefused(r)
  BY <1>7 DEF BroadcastRefused, Throw
<1>8. CASE AnswerLost(r) \/ BroadcastLost(r)
  BY <1>8 DEF AnswerLost, BroadcastLost, Throw
<1>9. CASE WaitReturns(r) \/ WaitSeesReplacement(r) \/ WaitFails(r)
  BY <1>9 DEF WaitReturns, WaitSeesReplacement, WaitFails
<1>10. QED
  BY <1>1, <1>2, <1>3, <1>4, <1>5, <1>6, <1>7, <1>8, <1>9 DEF Call

(* A step of a call keeps what is known of its transaction.                *)
LEMMA CallFate ==
  ASSUME RelayerTypeOK, TxInv, NEW r \in Request, Arrive(r) \/ Call(r)
  PROVE  FateKnown(r)'
<1> USE DEF RelayerTypeOK, lockVars, nodeVars, chainVars, Goto, TxInv, FateKnown
<1>1. UNCHANGED <<reply, ledger, executed>>
  BY CallStep
<1>2. InLedger(r)' = InLedger(r)
  BY <1>1 DEF InLedger
<1>3. CASE Arrive(r) \/ Acquire(r) \/ ReadNonce(r)
  BY <1>1, <1>3 DEF Arrive, Acquire, ReadNonce
<1>4. CASE RpcError(r) \/ EstimateReverts(r)
  BY <1>1, <1>4 DEF RpcError, EstimateReverts, Throw
<1>5. CASE Broadcast(r)
  BY <1>1, <1>5 DEF Broadcast
<1>6. CASE BroadcastReturns(r)
  BY <1>1, <1>6 DEF BroadcastReturns
<1>7. CASE BroadcastRefused(r)
  BY <1>1, <1>7 DEF BroadcastRefused, Throw
<1>8. CASE AnswerLost(r) \/ BroadcastLost(r)
  BY <1>1, <1>8 DEF AnswerLost, BroadcastLost, Throw
<1>9. CASE WaitReturns(r)
  BY <1>1, <1>9 DEF WaitReturns
<1>10. CASE WaitSeesReplacement(r) \/ WaitFails(r)
  BY <1>1, <1>2, <1>10 DEF WaitSeesReplacement, WaitFails
<1>11. QED
  BY <1>3, <1>4, <1>5, <1>6, <1>7, <1>8, <1>9, <1>10 DEF Call

(* The node has put r at a place of its ledger that is not in a block.     *)
Placed(r) ==
  /\ reply'[r] = "accepted"
  /\ ledger' \in Seq(Request) /\ Len(ledger') >= Len(ledger)
  /\ \E k \in mined + 1 .. Len(ledger) + 1 :
       /\ k \in 1 .. Len(ledger')
       /\ ledger'[k] = r
       /\ \A i \in 1 .. Len(ledger') \ {k} :
            i \in 1 .. Len(ledger) /\ ledger'[i] = ledger[i]

(* The node answers a transaction on the wire once, and puts it in its     *)
(* ledger at most at one place that is not in a block yet.                 *)
LEMMA NodeStep ==
  ASSUME RelayerTypeOK, NEW r \in Request, Node(r)
  PROVE  /\ r \in wire /\ wire' = wire \ {r}
         /\ UNCHANGED <<up, stage, lockVars, nonce, mined, executed, faults>>
         /\ \A s \in Request \ {r} : reply'[s] = reply[s]
         /\ reply'[r] # "none"
         /\ ledger' = ledger \/ Placed(r)
<1> USE DEF RelayerTypeOK, lockVars, nodeVars, chainVars, Answer
<1>1. CASE Accept(r)
  <2> DEFINE k == Len(ledger) + 1
  <2>1. k \in mined + 1 .. Len(ledger) + 1
    OBVIOUS
  <2>2. /\ ledger' \in Seq(Request) /\ Len(ledger') = k /\ ledger'[k] = r
        /\ \A i \in 1 .. Len(ledger) : ledger'[i] = ledger[i]
    BY <1>1, AppendProperties DEF Accept
  <2>3. \A i \in 1 .. Len(ledger') \ {k} : i \in 1 .. Len(ledger)
    BY <2>2
  <2>4. k \in 1 .. Len(ledger') /\ Len(ledger') >= Len(ledger)
    BY <2>2
  <2> HIDE DEF k
  <2>5. reply'[r] = "accepted"
    BY <1>1 DEF Accept
  <2>6. Placed(r)
    BY <2>1, <2>2, <2>3, <2>4, <2>5 DEF Placed
  <2>7. QED
    BY <1>1, <2>6 DEF Accept
<1>2. CASE Replace(r)
  <2> DEFINE k == nonce[r] + 1
  <2>1. k \in mined + 1 .. Len(ledger) + 1 /\ k \in 1 .. Len(ledger)
    BY <1>2 DEF Replace
  <2>2. /\ ledger' \in Seq(Request) /\ Len(ledger') = Len(ledger)
        /\ ledger'[k] = r
        /\ \A i \in 1 .. Len(ledger) \ {k} : ledger'[i] = ledger[i]
    BY <1>2, <2>1, ExceptSeq DEF Replace
  <2>3. QED
    BY <1>2, <2>1, <2>2 DEF Replace, Placed
<1>3. CASE RefuseNonce(r) \/ RefuseFunds(r)
  BY <1>3 DEF RefuseNonce, RefuseFunds
<1>4. QED
  BY <1>1, <1>2, <1>3 DEF Node

(* The node and the blocks keep what is known of every transaction.        *)
LEMMA NodeFate ==
  ASSUME RelayerTypeOK, TxInv, NEW r \in Request, Node(r)
  PROVE  TxInv'
<1>1. /\ r \in wire /\ wire' = wire \ {r} /\ reply[r] = "none" /\ reply'[r] # "none"
      /\ UNCHANGED <<stage, mined, executed>>
      /\ \A s \in Request \ {r} : reply'[s] = reply[s]
  BY NodeStep DEF TxInv
<1>2. \A i \in 1 .. Len(ledger) : ledger[i] \in Request \ {r}
  BY <1>1, ElementOfSeq DEF TxInv, InLedger, RelayerTypeOK
<1>3. \A s \in wire' : reply'[s] = "none"
  BY <1>1 DEF TxInv, RelayerTypeOK
<1>4. ASSUME \A s \in Request \ {r} : InLedger(s)' => InLedger(s)
      PROVE  \A s \in Request : FateKnown(s)'
  <2>1. FateKnown(r)'
    BY <1>1 DEF TxInv, FateKnown
  <2>2. ASSUME NEW s \in Request \ {r} PROVE FateKnown(s)'
    <3>1. FateKnown(s) /\ (InLedger(s)' => InLedger(s)) /\ (s \in wire' => s \in wire)
      BY <1>1, <1>4 DEF TxInv
    <3>2. QED
      BY <1>1, <3>1 DEF FateKnown
  <2>3. QED
    BY <2>1, <2>2
<1>5. CASE ledger' = ledger
  <2>1. \A s \in Request : InLedger(s)' = InLedger(s) /\ InBlocks(s)' = InBlocks(s)
    BY <1>1, <1>5 DEF InLedger, InBlocks
  <2>2. ~InLedger(r)
    BY <1>1 DEF TxInv, RelayerTypeOK
  <2>3. \A s \in Request : InLedger(s)' => reply'[s] = "accepted"
    BY <1>1, <2>1, <2>2 DEF TxInv
  <2>4. \A s \in Request : FateKnown(s)'
    BY <1>4, <2>1
  <2>5. QED
    BY <1>1, <1>3, <1>5, <2>1, <2>3, <2>4 DEF TxInv
<1>6. CASE Placed(r)
  <2>1. PICK k \in mined + 1 .. Len(ledger) + 1 :
          /\ k \in 1 .. Len(ledger')
          /\ ledger'[k] = r
          /\ \A i \in 1 .. Len(ledger') \ {k} :
               i \in 1 .. Len(ledger) /\ ledger'[i] = ledger[i]
    BY <1>6 DEF Placed
  <2>2. \A s \in Request \ {r} : InLedger(s)' => InLedger(s)
    BY <2>1 DEF InLedger
  <2>3. \A s \in Request : InLedger(s)' => reply'[s] = "accepted"
    BY <1>1, <1>6, <2>2 DEF TxInv, Placed
  <2>4. ASSUME NEW i \in 1 .. Len(ledger'), NEW j \in 1 .. Len(ledger'),
               ledger'[i] = ledger'[j]
        PROVE  i = j
    <3>1. \A h \in 1 .. Len(ledger') \ {k} : ledger'[h] # r
      BY <1>2, <2>1
    <3>2. i = k <=> j = k
      BY <2>1, <2>4, <3>1
    <3>3. QED
      BY <2>1, <2>4, <3>2 DEF TxInv
  <2>5. \A i \in 1 .. mined : ledger'[i] = ledger[i]
    <3>1. /\ mined \in Nat /\ Len(ledger) \in Nat /\ Len(ledger') \in Nat
          /\ mined <= Len(ledger) /\ Len(ledger) <= Len(ledger')
          /\ k \in Nat /\ mined < k
      BY <1>6, <2>1, LenProperties DEF Placed, RelayerTypeOK
    <3>2. \A i \in 1 .. mined : i \in 1 .. Len(ledger') \ {k}
      BY <3>1
    <3>3. QED
      BY <2>1, <3>2
  <2>6. \A s \in Request : InBlocks(s)' <=> InBlocks(s)
    BY <1>1, <2>5 DEF InBlocks
  <2>7. QED
    BY <1>1, <1>3, <1>4, <2>2, <2>3, <2>4, <2>6 DEF TxInv
<1>7. QED
  BY <1>5, <1>6, NodeStep

(* A block runs a transaction that no block has run.                        *)
LEMMA MineStep ==
  ASSUME RelayerTypeOK, TxInv, NEW outcome, MineNext(outcome)
  PROVE  /\ mined + 1 \in 1 .. Len(ledger) /\ mined' = mined + 1
         /\ NextToMine \in Request /\ ledger[mined + 1] = NextToMine
         /\ UNCHANGED <<up, stage, lockVars, nonce, nodeVars, faults>>
         /\ executed[NextToMine] = "none"
         /\ executed' = [executed EXCEPT ![NextToMine] = outcome]
<1> DEFINE r == NextToMine
<1>1. /\ mined + 1 \in 1 .. Len(ledger) /\ r \in Request /\ ledger[mined + 1] = r
      /\ UNCHANGED <<up, stage, lockVars, nonce, nodeVars, faults>>
      /\ mined' = mined + 1
      /\ executed' = [executed EXCEPT ![r] = outcome]
  BY ElementOfSeq DEF NextToMine, MineNext, RelayerTypeOK
<1> HIDE DEF r
<1>2. \A i \in 1 .. mined : i \in 1 .. Len(ledger) /\ i # mined + 1
  BY <1>1 DEF RelayerTypeOK
<1>3. \A i \in 1 .. mined : ledger[i] # r
  BY <1>1, <1>2 DEF TxInv
<1>4. ~InBlocks(r)
  BY <1>3 DEF InBlocks
<1>5. executed[r] = "none"
  BY <1>1, <1>4 DEF TxInv
<1>6. QED
  BY <1>1, <1>5 DEF r

(* So does mining the next one.                                            *)
LEMMA MineFate ==
  ASSUME RelayerTypeOK, TxInv, NEW outcome \in {"success", "revert"}, MineNext(outcome)
  PROVE  TxInv'
<1> DEFINE r == NextToMine
<1>1. /\ mined + 1 \in 1 .. Len(ledger) /\ r \in Request /\ ledger[mined + 1] = r
      /\ UNCHANGED <<stage, wire, reply, ledger>> /\ mined' = mined + 1
      /\ executed[r] = "none" /\ executed' = [executed EXCEPT ![r] = outcome]
  BY MineStep DEF nodeVars
<1> HIDE DEF r
<1>2. ASSUME NEW s \in Request PROVE InBlocks(s)' <=> InBlocks(s) \/ s = r
  <2>1. \A i \in 1 .. mined + 1 : i \in 1 .. mined \/ i = mined + 1
    BY DEF RelayerTypeOK
  <2>2. QED
    BY <1>1, <2>1 DEF InBlocks, RelayerTypeOK
<1>3. \A s \in Request : executed'[s] # "none" <=> InBlocks(s)'
  BY <1>1, <1>2 DEF TxInv, RelayerTypeOK
<1>4. \A s \in Request : FateKnown(s)'
  BY <1>1 DEF TxInv, FateKnown, InLedger, RelayerTypeOK
<1>5. QED
  BY <1>1, <1>3, <1>4 DEF TxInv, InLedger

(* The node answers once, holds a transaction once and runs it once; a     *)
(* call that has ended knows what became of its transaction, unless it     *)
(* ended in an error that says nothing about it.                           *)
THEOREM TxInvariant == RelayerSpec => []TxInv
<1>1. RelayerInit => TxInv
  BY DEF RelayerInit, TxInv, FateKnown, InLedger, InBlocks
<1>2. RelayerTypeOK /\ TxInv /\ [RelayerNext]_relayerVars => TxInv'
  <2> SUFFICES ASSUME RelayerTypeOK, TxInv, [RelayerNext]_relayerVars PROVE TxInv'
    OBVIOUS
  <2>1. ASSUME NEW r \in Request, Arrive(r) \/ Call(r) PROVE TxInv'
    <3>1. FateKnown(r)' /\ UNCHANGED <<reply, ledger, mined, executed>>
      BY <2>1, CallFate, CallStep
    <3>2. ASSUME NEW s \in Request \ {r} PROVE FateKnown(s)'
      <4>1. stage'[s] = stage[s] /\ (s \in wire' => s \in wire)
        BY <2>1, CallStep
      <4>2. QED
        BY <3>1, <4>1 DEF TxInv, FateKnown, InLedger
    <3>3. \A s \in wire' : reply[s] = "none"
      BY <2>1, CallStep DEF TxInv, FateKnown
    <3>4. QED
      BY <2>1, <3>1, <3>2, <3>3, CallStep DEF TxInv, InLedger, InBlocks
  <2>2. ASSUME NEW r \in Request, Node(r) PROVE TxInv'
    BY <2>2, NodeFate
  <2>3. ASSUME NEW outcome \in {"success", "revert"}, MineNext(outcome) PROVE TxInv'
    BY <2>3, MineFate
  <2>4. ASSUME ProcessEnds PROVE TxInv'
    BY <2>4 DEF ProcessEnds, TxInv, FateKnown, InLedger, InBlocks, RelayerTypeOK,
                nodeVars, chainVars, Active, Waiting, Critical
  <2>5. CASE ProcessStarts \/ UNCHANGED relayerVars
    BY <2>5 DEF ProcessStarts, relayerVars, TxInv, FateKnown, InLedger, InBlocks,
                nodeVars, chainVars
  <2>6. QED
    BY <2>1, <2>2, <2>3, <2>4, <2>5 DEF RelayerNext
<1>3. QED
  BY <1>1, <1>2, TypeCorrect, PTL DEF RelayerSpec

(* A call that has ended stays as it ended, and a transaction that has run *)
(* is not run again.                                                       *)
LEMMA EndsAreFinal ==
  ASSUME RelayerTypeOK, TxInv, [RelayerNext]_relayerVars, NEW r \in Request
  PROVE  /\ stage[r] \in Finished => stage'[r] = stage[r]
         /\ executed[r] # "none" => executed'[r] = executed[r]
<1>1. ASSUME NEW s \in Request, Arrive(s) \/ Call(s)
      PROVE  executed' = executed /\ (stage[r] \in Finished => stage'[r] = stage[r])
  BY <1>1, CallStep DEF Active, Waiting, Critical, Finished
<1>2. ASSUME NEW s \in Request, Node(s) PROVE executed' = executed /\ stage' = stage
  BY <1>2, NodeStep
<1>3. ASSUME NEW outcome, MineNext(outcome)
      PROVE  stage' = stage /\ (executed[r] # "none" => executed'[r] = executed[r])
  BY <1>3, MineStep DEF RelayerTypeOK
<1>4. CASE ProcessEnds
  BY <1>4 DEF ProcessEnds, Active, Waiting, Critical, Finished, chainVars
<1>5. QED
  BY <1>1, <1>2, <1>3, <1>4 DEF RelayerNext, ProcessStarts, chainVars, relayerVars

(* A call keeps the promise number it took when it arrived.                *)
LEMMA TicketsStay ==
  ASSUME [RelayerNext]_relayerVars, NEW r \in Request, stage[r] # "new"
  PROVE  ticket'[r] = ticket[r]
<1> USE DEF lockVars, nodeVars, chainVars
<1>1. ASSUME NEW s \in Request, Arrive(s) PROVE ticket'[r] = ticket[r]
  BY <1>1 DEF Arrive, Goto
<1>2. ASSUME NEW s \in Request, Call(s) PROVE ticket' = ticket
  BY <1>2 DEF Call, Acquire, ReadNonce, RpcError, EstimateReverts, Broadcast,
              BroadcastReturns, BroadcastRefused, AnswerLost, BroadcastLost, WaitReturns,
              WaitSeesReplacement, WaitFails, Throw
<1>3. ASSUME NEW s \in Request, Node(s) PROVE ticket' = ticket
  BY <1>3 DEF Node, Accept, RefuseNonce, Replace, RefuseFunds, Answer
<1>4. QED
  BY <1>1, <1>2, <1>3 DEF RelayerNext, MineNext, ProcessEnds, ProcessStarts, relayerVars

(* Where nonces follow the order of arrival, a transaction that a block    *)
(* runs belongs to a later call than every one that blocks ran before.     *)
LEMMA MinedInArrivalOrder ==
  ASSUME RelayerTypeOK, TxInv, ArrivalOrder, faults = {},
         NEW outcome, MineNext(outcome), NEW r \in Request, executed[r] # "none"
  PROVE  ticket[r] < ticket[NextToMine]
<1>1. PICK i \in 1 .. mined : ledger[i] = r
  BY DEF TxInv, InBlocks
<1>2. /\ mined + 1 \in 1 .. Len(ledger) /\ ledger[mined + 1] = NextToMine
      /\ i \in 1 .. Len(ledger) /\ i < mined + 1
  BY MineStep DEF RelayerTypeOK
<1>3. QED
  BY <1>1, <1>2 DEF ArrivalOrder

RefusedStage == {"rejected", "underfunded", "conflict", "reverted"}

(* A call that was refused, outbid or reverted has had no effect, and it   *)
(* never will: the transaction is not executed later.                      *)
THEOREM RefusalsAreFinal ==
  RelayerSpec =>
    [](\A r \in Request : stage[r] \in RefusedStage => executed[r] # "success")
<1>1. RelayerTypeOK /\ TxInv
        => \A r \in Request : stage[r] \in RefusedStage => executed[r] # "success"
  <2> SUFFICES ASSUME RelayerTypeOK, TxInv, NEW r \in Request, stage[r] \in RefusedStage,
                      executed[r] = "success"
               PROVE  FALSE
    OBVIOUS
  <2>1. InBlocks(r)
    BY DEF TxInv
  <2>2. InLedger(r)
    BY <2>1 DEF InBlocks, InLedger, RelayerTypeOK
  <2>3. reply[r] = "accepted"
    BY <2>2 DEF TxInv
  <2>4. QED
    BY <2>2, <2>3 DEF TxInv, FateKnown, RefusedStage
<1>2. QED
  BY <1>1, TypeCorrect, TxInvariant, PTL

================================================================================
