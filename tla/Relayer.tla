-------------------------------- MODULE Relayer --------------------------------
(***************************************************************************)
(* The relayer of the backend, backend/src/services/RelayerService.ts: one *)
(* funded wallet through which concurrent HTTP requests send transactions. *)
(* sendTransaction serialises them with a chain of promises: a call awaits *)
(* the promise stored by the call before it, reads the account's next      *)
(* nonce from the RPC node, estimates gas, broadcasts, and resolves its    *)
(* own promise in a finally block.                                         *)
(*                                                                         *)
(* The RPC node and the chain are external.  The node keeps the relayer's  *)
(* transactions in nonce order (ledger): the first `mined` of them are in   *)
(* blocks, the others wait in its mempool.                                 *)
(***************************************************************************)
EXTENDS Naturals, Sequences

CONSTANT Request   \* calls of sendTransaction, each made once

VARIABLES
  up,        \* is the (single) backend process running?
  stage,     \* where each call is
  ticket,    \* the number of the promise each call stored in nonceLock
  tail,      \* the number of the promise nonceLock holds now
  resolved,  \* the numbers of the resolved promises
  nonce,     \* the nonce each call read
  wire,      \* calls whose raw transaction is on its way to the node
  reply,     \* the node's answer to each raw transaction
  ledger,    \* the transactions the node holds for the account, by nonce
  mined,     \* how many of them are in blocks
  executed,  \* what became of each mined transaction
  faults     \* what this run's environment may do: lagging reads, late sends

lockVars == <<ticket, tail, resolved>>
nodeVars == <<wire, reply, ledger>>
chainVars == <<mined, executed>>
relayerVars == <<up, stage, lockVars, nonce, nodeVars, chainVars, faults>>

Waiting == {"waiting"}
Critical == {"nonce", "estimate", "broadcast"}
Active == Waiting \cup Critical \cup {"sent"}
Finished == {"confirmed", "reverted", "rejected", "conflict", "underfunded",
             "failed", "dropped"}
Stage == {"new"} \cup Active \cup Finished

RelayerTypeOK ==
  /\ up \in BOOLEAN
  /\ stage \in [Request -> Stage]
  /\ tail \in Nat
  /\ ticket \in [Request -> 0 .. tail]
  /\ resolved \subseteq 0 .. tail
  /\ nonce \in [Request -> Nat]
  /\ wire \subseteq Request
  /\ reply \in [Request -> {"none", "accepted", "conflict", "underfunded"}]
  /\ ledger \in Seq(Request)
  /\ mined \in 0 .. Len(ledger)
  /\ executed \in [Request -> {"none", "success", "revert"}]
  /\ faults \subseteq {"lag", "late"}

\* nonceLock starts as Promise.resolve(): promise 0, resolved.
RelayerInit ==
  /\ up = TRUE
  /\ stage = [r \in Request |-> "new"]
  /\ ticket = [r \in Request |-> 0]
  /\ tail = 0
  /\ resolved = {0}
  /\ nonce = [r \in Request |-> 0]
  /\ wire = {}
  /\ reply = [r \in Request |-> "none"]
  /\ ledger = <<>>
  /\ mined = 0
  /\ executed = [r \in Request |-> "none"]
  /\ faults \in SUBSET {"lag", "late"}

--------------------------------------------------------------------------------
(* The call itself.                                                        *)

Goto(r, from, to) ==
  /\ up
  /\ stage[r] = from
  /\ stage' = [stage EXCEPT ![r] = to]

\* Faulty variants, for the runs that show which property each part serves.
ArriveWithoutChaining(r) ==
  /\ Goto(r, "new", "waiting")
  /\ ticket' = [ticket EXCEPT ![r] = tail + 1]
  /\ UNCHANGED <<up, tail, resolved, nonce, nodeVars, chainVars, faults>>

NobodyIsSending(r) == stage[r] = "waiting" /\ \A s \in Request : stage[s] \notin Critical

NoAwait(r) == stage[r] = "waiting"

LatestCount == mined

ReleaseAfterBroadcastOnly(r) ==
  resolved' = IF stage[r] = "broadcast" THEN resolved \cup {ticket[r]} ELSE resolved

\* prev = this.nonceLock; this.nonceLock = new Promise(...)
Arrive(r) ==
  /\ Goto(r, "new", "waiting")
  /\ ticket' = [ticket EXCEPT ![r] = tail + 1]
  /\ tail' = tail + 1
  /\ UNCHANGED <<up, resolved, nonce, nodeVars, chainVars, faults>>

PreviousResolved(r) == ticket[r] - 1 \in resolved

\* await prev returns; getTransactionCount(address, 'pending') is asked.
Acquire(r) ==
  /\ PreviousResolved(r)
  /\ Goto(r, "waiting", "nonce")
  /\ UNCHANGED <<up, lockVars, nonce, nodeVars, chainVars, faults>>

\* The next nonce, by the node that holds the account's mempool.
PendingCount == Len(ledger)

\* A load-balanced endpoint may answer from a node that has not yet seen the
\* youngest pending transactions.
PendingViews == IF "lag" \in faults THEN mined .. PendingCount ELSE {PendingCount}

ReadNonce(r) ==
  /\ Goto(r, "nonce", "estimate")
  /\ \E n \in PendingViews : nonce' = [nonce EXCEPT ![r] = n]
  /\ UNCHANGED <<up, lockVars, nodeVars, chainVars, faults>>

\* The finally block: resolve().
Release(r) == resolved' = resolved \cup {ticket[r]}

\* sendTransaction throws.
Throw(r, from, to) ==
  /\ Goto(r, from, to)
  /\ Release(r)
  /\ UNCHANGED <<up, ticket, tail, nonce, ledger, chainVars, faults>>

\* An RPC call before the broadcast fails or times out.
RpcError(r) ==
  /\ \E from \in {"nonce", "estimate"} : Throw(r, from, "failed")
  /\ UNCHANGED <<wire, reply>>

\* estimateGas simulates the call and the simulation reverts.
EstimateReverts(r) ==
  /\ Throw(r, "estimate", "rejected")
  /\ UNCHANGED <<wire, reply>>

\* estimateGas answers; the transaction is signed with the nonce read above
\* and sent.
Broadcast(r) ==
  /\ Goto(r, "estimate", "broadcast")
  /\ wire' = wire \cup {r}
  /\ UNCHANGED <<up, lockVars, nonce, reply, ledger, chainVars, faults>>

\* The broadcast call returns the transaction, and so does sendTransaction.
BroadcastReturns(r) ==
  /\ reply[r] = "accepted"
  /\ Goto(r, "broadcast", "sent")
  /\ Release(r)
  /\ UNCHANGED <<up, ticket, tail, nonce, nodeVars, chainVars, faults>>

BroadcastRefused(r) ==
  /\ reply[r] \in {"conflict", "underfunded"}
  /\ Throw(r, "broadcast", reply[r])
  /\ UNCHANGED <<wire, reply>>

\* The call fails after the node has handled it: the answer is lost.
AnswerLost(r) ==
  /\ r \notin wire
  /\ Throw(r, "broadcast", "failed")
  /\ UNCHANGED <<wire, reply>>

\* The call fails and the raw transaction never reaches the node; or, where
\* sends may be late, the call times out with the transaction still on its way.
BroadcastLost(r) ==
  /\ r \in wire
  /\ Throw(r, "broadcast", "failed")
  /\ wire' = wire \ {r} \/ ("late" \in faults /\ wire' = wire)
  /\ UNCHANGED reply

\* tx.wait() returns the receipt, or throws on status 0.
WaitReturns(r) ==
  /\ executed[r] # "none"
  /\ Goto(r, "sent", IF executed[r] = "success" THEN "confirmed" ELSE "reverted")
  /\ UNCHANGED <<up, lockVars, nonce, nodeVars, chainVars, faults>>

InLedger(r) == \E i \in 1 .. Len(ledger) : ledger[i] = r

\* tx.wait() sees another transaction of the account mined with its nonce.
WaitSeesReplacement(r) ==
  /\ ~InLedger(r)
  /\ mined > nonce[r]
  /\ Goto(r, "sent", "conflict")
  /\ UNCHANGED <<up, lockVars, nonce, nodeVars, chainVars, faults>>

\* tx.wait() throws because an RPC call of its polling fails: the transaction
\* is where it was.
WaitFails(r) ==
  /\ Goto(r, "sent", "failed")
  /\ UNCHANGED <<up, lockVars, nonce, nodeVars, chainVars, faults>>

--------------------------------------------------------------------------------
(* The node and the chain.                                                 *)

Answer(r, a) ==
  /\ wire' = wire \ {r}
  /\ reply' = [reply EXCEPT ![r] = a]
  /\ UNCHANGED <<up, stage, lockVars, nonce, chainVars, faults>>

Accept(r) ==
  /\ r \in wire
  /\ nonce[r] = Len(ledger)
  /\ ledger' = Append(ledger, r)
  /\ Answer(r, "accepted")

\* Nonce too low, or a replacement whose fee is not high enough.
RefuseNonce(r) ==
  /\ r \in wire
  /\ nonce[r] < Len(ledger)
  /\ UNCHANGED ledger
  /\ Answer(r, "conflict")

\* A pending transaction with the same nonce and a lower fee is replaced.
Replace(r) ==
  /\ r \in wire
  /\ nonce[r] \in mined .. Len(ledger) - 1
  /\ ledger' = [ledger EXCEPT ![nonce[r] + 1] = r]
  /\ Answer(r, "accepted")

RefuseFunds(r) ==
  /\ r \in wire
  /\ UNCHANGED ledger
  /\ Answer(r, "underfunded")

NextToMine == ledger[mined + 1]

MineNext(outcome) ==
  /\ mined < Len(ledger)
  /\ mined' = mined + 1
  /\ executed' = [executed EXCEPT ![NextToMine] = outcome]
  /\ UNCHANGED <<up, stage, lockVars, nonce, nodeVars, faults>>

--------------------------------------------------------------------------------
(* The process.                                                            *)

\* The process ends, and every request it was serving with it.
ProcessEnds ==
  /\ up
  /\ up' = FALSE
  /\ stage' = [r \in Request |-> IF stage[r] \in Active THEN "dropped" ELSE stage[r]]
  /\ UNCHANGED <<lockVars, nonce, nodeVars, chainVars, faults>>

\* The new process starts with a resolved promise.  The restart delay lets a
\* broadcast of the old process arrive first, unless sends may be late.
ProcessStarts ==
  /\ ~up
  /\ wire = {} \/ "late" \in faults
  /\ up' = TRUE
  /\ resolved' = 0 .. tail
  /\ UNCHANGED <<stage, ticket, tail, nonce, nodeVars, chainVars, faults>>

--------------------------------------------------------------------------------
Call(r) ==
  \/ Acquire(r)
  \/ ReadNonce(r)
  \/ RpcError(r)
  \/ EstimateReverts(r)
  \/ Broadcast(r)
  \/ BroadcastReturns(r)
  \/ BroadcastRefused(r)
  \/ AnswerLost(r)
  \/ BroadcastLost(r)
  \/ WaitReturns(r)
  \/ WaitSeesReplacement(r)
  \/ WaitFails(r)

Node(r) == Accept(r) \/ RefuseNonce(r) \/ Replace(r) \/ RefuseFunds(r)

RelayerNext ==
  \/ \E r \in Request : Arrive(r) \/ Call(r) \/ Node(r)
  \/ \E outcome \in {"success", "revert"} : MineNext(outcome)
  \/ ProcessEnds
  \/ ProcessStarts

RelayerSpec == RelayerInit /\ [][RelayerNext]_relayerVars

--------------------------------------------------------------------------------
(* At most one call is between reading a nonce and having it broadcast,    *)
(* whatever fails and whenever the process restarts.                       *)
MutualExclusion ==
  \A r, s \in Request :
    stage[r] \in Critical /\ stage[s] \in Critical => r = s

(* Where the node's reads are current and no send is late, a raw           *)
(* transaction reaches the node with exactly the account's next nonce: it  *)
(* neither collides with another nor leaves a gap in front of itself.      *)
NonceFresh ==
  faults = {} => \A r \in wire : nonce[r] = PendingCount

(* In that environment transactions take their nonces in the order their   *)
(* calls arrived, across failures and restarts.                            *)
ArrivalOrder ==
  faults = {} =>
    \A i, j \in 1 .. Len(ledger) : i < j => ticket[ledger[i]] < ticket[ledger[j]]

(* In that environment a transaction the node has accepted is never        *)
(* replaced by another of the relayer's own.                               *)
AcceptedForGood ==
  [][faults = {} => \A i \in 1 .. Len(ledger) : ledger'[i] = ledger[i]]_relayerVars

--------------------------------------------------------------------------------
(* The inductive strengthenings of MutualExclusion, NonceFresh and         *)
(* ArrivalOrder.                                                           *)
Queued == {r \in Request : stage[r] \in Waiting \cup Critical}

LockInv ==
  /\ \A i \in resolved : \A j \in 0 .. i : j \in resolved
  /\ \A r \in Queued : up /\ ticket[r] # 0 /\ ticket[r] \notin resolved
  /\ \A r \in Queued : stage[r] \in Critical => PreviousResolved(r)
  /\ \A r, s \in Queued : ticket[r] = ticket[s] => r = s

NonceInv ==
  faults = {} =>
    /\ \A r \in Request : stage[r] = "estimate" => nonce[r] = Len(ledger)
    /\ \A r \in wire : /\ nonce[r] = Len(ledger)
                       /\ reply[r] = "none"
                       /\ up => stage[r] = "broadcast"
    /\ \A r, s \in wire : r = s
    /\ \A r \in Request : stage[r] \in {"new", "waiting", "nonce", "estimate"}
                            => reply[r] = "none" /\ r \notin wire

Behind(r) == stage[r] \in {"waiting", "nonce", "estimate"} \/ r \in wire

OrderInv ==
  faults = {} =>
    /\ ArrivalOrder
    /\ \A i \in 1 .. Len(ledger) : /\ stage[ledger[i]] # "new"
                                   /\ ledger[i] \notin wire
                                   /\ \A r \in Request :
                                        Behind(r) => ticket[ledger[i]] < ticket[r]

--------------------------------------------------------------------------------
(* What is known of a transaction from where its call is, whatever the     *)
(* environment's faults: the node answers a raw transaction once, holds it *)
(* at one place at most, and a block runs it once.                         *)
InBlocks(r) == \E i \in 1 .. mined : ledger[i] = r

FateKnown(r) ==
  /\ stage[r] \in {"new", "waiting", "nonce", "estimate", "rejected"}
       => reply[r] = "none" /\ r \notin wire
  /\ stage[r] = "sent" => reply[r] = "accepted"
  /\ stage[r] = "underfunded" => reply[r] = "underfunded"
  /\ stage[r] = "conflict" =>
       reply[r] = "conflict" \/ (reply[r] = "accepted" /\ ~InLedger(r))
  /\ stage[r] = "reverted" => executed[r] = "revert"
  /\ stage[r] = "confirmed" => executed[r] = "success"

TxInv ==
  /\ \A r \in wire : reply[r] = "none"
  /\ \A r \in Request : InLedger(r) => reply[r] = "accepted"
  /\ \A i, j \in 1 .. Len(ledger) : ledger[i] = ledger[j] => i = j
  /\ \A r \in Request : executed[r] # "none" <=> InBlocks(r)
  /\ \A r \in Request : FateKnown(r)

================================================================================
