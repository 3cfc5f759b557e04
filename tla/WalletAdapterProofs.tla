-------------------------- MODULE WalletAdapterProofs --------------------------
(***************************************************************************)
(* Proofs about the SDK's wallet adapter, for any wallets, accounts and    *)
(* networks and any number of methods and handlers running at once.        *)
(***************************************************************************)
EXTENDS WalletAdapter, TLAPS, SequenceTheorems, FiniteSetTheorems

StateTyped ==
  /\ provider \in Endpoint \cup {None}
  /\ signer \in Signers \cup LocalSigners \cup {None}
  /\ account \in Account \cup {None}
  /\ chainId \in Chain \cup {None}

ObservedTyped ==
  /\ told \in BOOLEAN
  /\ settled \in {"ok", "failed"}
  /\ heard \subseteq Wallet

AdapterTyped ==
  /\ StateTyped
  /\ eip1193Provider \in Wallet \cup {None}
  /\ attached \in [Wallet -> 0 .. MaxAttached]
  /\ task \in [Task -> TaskState]
  /\ ObservedTyped

At == {"accounts", "signer", "network", "switch", "add", "retry"}

(* null is none of the values a field may hold.                            *)
LEMMA NoneIsNew == None \notin Wallet /\ None # Rpc /\ None \notin Account \cup Chain
  BY WalletAssumption DEF Endpoint

(* Removing and attaching handlers keeps the counts within their bound.    *)
LEMMA AttachedTyped ==
  ASSUME attached \in [Wallet -> 0 .. MaxAttached], NEW w \in Wallet
  PROVE  /\ Removed \in [Wallet -> 0 .. MaxAttached]
         /\ SetupEventListeners(w) =>
              /\ attached' \in [Wallet -> 0 .. MaxAttached]
              /\ \A x \in Wallet \ {w} : attached'[x] = Removed[x]
<1>1. 0 \in 0 .. MaxAttached
  BY BoundAssumption
<1>2. Removed \in [Wallet -> 0 .. MaxAttached]
  BY <1>1 DEF Removed
<1>3. ASSUME SetupEventListeners(w)
      PROVE  /\ attached' \in [Wallet -> 0 .. MaxAttached]
             /\ \A x \in Wallet \ {w} : attached'[x] = Removed[x]
  <2> DEFINE n == Removed[w]
  <2>1. n \in 0 .. MaxAttached /\ n < MaxAttached
    BY <1>2, <1>3 DEF SetupEventListeners
  <2> HIDE DEF n
  <2>2. n + 1 \in 0 .. MaxAttached
    BY <2>1, BoundAssumption
  <2>3. attached' = [Removed EXCEPT ![w] = n + 1]
    BY <1>3 DEF SetupEventListeners, n
  <2>4. QED
    BY <1>2, <2>2, <2>3
<1>4. QED
  BY <1>2, <1>3

(* How a step moves one task.                                              *)
OnlyMoves(t) ==
  /\ task' \in [Task -> TaskState]
  /\ \A s \in Task \ {t} : task'[s] = task[s]

(* A task that awaits a request.                                           *)
LEMMA AwaitMoves ==
  ASSUME task \in [Task -> TaskState], NEW t \in Task, NEW op \in Op, NEW at \in At,
         NEW arg \in Endpoint \cup Signers, NEW e \in Endpoint,
         Await(t, op, at, arg, e)
  PROVE  /\ OnlyMoves(t)
         /\ task'[t] = [op |-> op, at |-> at, arg |-> arg, asked |-> e]
  BY DEF Await, OnlyMoves, TaskState, At

(* A task that ends, by returning or by throwing.                          *)
LEMMA TaskEnds ==
  ASSUME task \in [Task -> TaskState], NEW t \in Task,
         \/ task' = [task EXCEPT ![t] = Idle]
         \/ task' = [s \in Task |-> IF s \in {t} THEN Idle ELSE task[s]]
  PROVE  OnlyMoves(t) /\ task'[t] = Idle /\ TaskOK(t)'
<1>1. Idle \in TaskState
  BY DEF Idle, TaskState, Op
<1>2. OnlyMoves(t) /\ task'[t] = Idle
  BY <1>1 DEF OnlyMoves
<1>3. QED
  BY <1>2 DEF TaskOK

(* A method that returns has told the listeners.                           *)
LEMMA ReturnEnds ==
  ASSUME ObservedTyped, task \in [Task -> TaskState], NEW t \in Task, Return({t})
  PROVE  /\ OnlyMoves(t) /\ task'[t] = Idle /\ TaskOK(t)'
         /\ ObservedTyped' /\ told' = TRUE /\ heard' = heard
  BY TaskEnds DEF Return, NotifyListeners, ObservedTyped

(* A method that throws ends the session, but for switchNetwork.           *)
LEMMA ThrowEnds ==
  ASSUME ObservedTyped, task \in [Task -> TaskState], NEW t \in Task, Throw(t),
         told' \in BOOLEAN
  PROVE  /\ OnlyMoves(t) /\ task'[t] = Idle /\ TaskOK(t)'
         /\ ObservedTyped'
         /\ heard' = {} \/ (heard' = heard /\ task[t].op = "switchNetwork")
<1>1. task' = [task EXCEPT ![t] = Idle]
  BY DEF Throw
<1>2. ObservedTyped' /\ (heard' = {} \/ (heard' = heard /\ task[t].op = "switchNetwork"))
  BY DEF Throw, ObservedTyped
<1>3. QED
  BY <1>1, <1>2, TaskEnds

(* What a task that awaits an answer may be.                               *)
LEMMA Awaiting ==
  ASSUME NEW t \in Task, TaskOK(t), task[t] # Idle, task \in [Task -> TaskState]
  PROVE  /\ task[t].op \in {"connectWithProvider", "switchNetwork", "onEvent"}
              => task[t].arg \in Wallet
         /\ task[t].op = "connectWithProviderInstance" => task[t].arg \in Endpoint
         /\ task[t].op = "connectWithProviderInstance" /\ task[t].at = "signer"
              => task[t].arg \in Wallet
         /\ task[t].op = "connectWithSigner" => task[t].arg \in Signers
         /\ task[t].at # "network" => task[t].asked \in Wallet \cup {None}
  BY NoneIsNew DEF TaskOK, TaskState, Endpoint

(* A task that goes on stays well-formed, and moves no other task.         *)
LEMMA ResumeTyped ==
  ASSUME AdapterTyped, NEW t \in Task, TaskOK(t), task[t] # Idle, NEW v, Resume(t, v),
         AboutAccount(task[t].at) => v \in Account \cup {None},
         task[t].at = "network" => v \in Chain \cup {None}
  PROVE  AdapterTyped' /\ OnlyMoves(t) /\ TaskOK(t)'
<1> DEFINE arg == task[t].arg
<1> USE DEF AdapterTyped
<1>1. ASSUME arg \in Wallet, NEW op \in Op, NEW at \in At, NEW e \in Endpoint,
             Await(t, op, at, arg, e)
      PROVE  /\ OnlyMoves(t)
             /\ task'[t] = [op |-> op, at |-> at, arg |-> arg, asked |-> e]
  BY <1>1, AwaitMoves DEF Endpoint
<1>2. CASE AccountsGranted(t, v)
  <2>1. arg \in Wallet /\ v \in Account
    BY <1>2, Awaiting DEF AccountsGranted, Resumes, AboutAccount
  <2>2. OnlyMoves(t) /\ task'[t] = [op |-> "connectWithProvider", at |-> "signer",
                                   arg |-> arg, asked |-> arg]
    BY <1>1, <1>2, <2>1 DEF AccountsGranted, Op, Method, At, Endpoint
  <2>3. TaskOK(t)'
    BY <2>1, <2>2, WalletAssumption DEF TaskOK
  <2>4. StateTyped' /\ ObservedTyped'
    BY <1>2, <2>1 DEF AccountsGranted, StateTyped, ObservedTyped, Endpoint
  <2>5. QED
    BY <1>2, <2>2, <2>3, <2>4 DEF AccountsGranted, OnlyMoves
<1>3. CASE SignerForConnect(t, v)
  <2>1. arg \in Wallet /\ v \in Account
    BY <1>3, Awaiting DEF SignerForConnect, Resumes, AboutAccount
  <2>2. StateTyped'
    BY <1>3, <2>1 DEF SignerForConnect, StateTyped, Signers
  <2>3. CASE Throw(t)
    BY <1>3, <2>2, <2>3, ThrowEnds DEF SignerForConnect, OnlyMoves
  <2>4. CASE provider # None /\ Await(t, "connectWithProvider", "network", arg, provider)
    <3>1. OnlyMoves(t) /\ task'[t] = [op |-> "connectWithProvider", at |-> "network",
                                     arg |-> arg, asked |-> provider]
      BY <1>1, <2>1, <2>4 DEF Op, Method, At, StateTyped
    <3>2. TaskOK(t)'
      BY <2>1, <3>1 DEF TaskOK
    <3>3. ObservedTyped'
      BY <1>3, <2>4, ThrowEnds DEF SignerForConnect, ObservedTyped
    <3>4. QED
      BY <1>3, <2>2, <3>1, <3>2, <3>3 DEF SignerForConnect, OnlyMoves
  <2>5. QED
    BY <1>3, <2>3, <2>4 DEF SignerForConnect
<1>4. ASSUME Finish(t), arg \in Wallet, StateTyped', eip1193Provider' = eip1193Provider
      PROVE  AdapterTyped' /\ OnlyMoves(t) /\ TaskOK(t)'
  BY <1>4, ReturnEnds, AttachedTyped DEF Finish, OnlyMoves
<1>5. ASSUME NEW at \in {"switch", "add", "retry"}, eip1193Provider # None,
             task[t].op \in {"connectWithProvider", "switchNetwork"}, arg \in Wallet,
             Await(t, task[t].op, at, arg, eip1193Provider)
      PROVE  OnlyMoves(t) /\ TaskOK(t)'
  <2>1. OnlyMoves(t) /\ task'[t] = [op |-> task[t].op, at |-> at, arg |-> arg,
                                   asked |-> eip1193Provider]
    BY <1>1, <1>5 DEF Op, Method, At, Endpoint
  <2>2. eip1193Provider # Rpc
    BY <1>5, WalletAssumption
  <2>3. QED
    BY <1>5, <2>1, <2>2 DEF TaskOK
<1>6. CASE NetworkForConnect(t, v)
  <2>1. arg \in Wallet /\ v \in Chain /\ task[t].op = "connectWithProvider"
    BY <1>6, Awaiting DEF NetworkForConnect, Resumes
  <2>2. StateTyped' /\ eip1193Provider' = eip1193Provider
    BY <1>6, <2>1 DEF NetworkForConnect, StateTyped
  <2>3. CASE Finish(t)
    BY <1>4, <2>1, <2>2, <2>3
  <2>4. CASE UNCHANGED attached /\ told' = FALSE /\ Throw(t)
    BY <2>2, <2>4, ThrowEnds DEF OnlyMoves
  <2>5. CASE /\ UNCHANGED <<attached, settled, heard>> /\ told' = FALSE
             /\ eip1193Provider # None
             /\ Await(t, "connectWithProvider", "switch", arg, eip1193Provider)
    BY <1>5, <2>1, <2>2, <2>5 DEF OnlyMoves, ObservedTyped
  <2>6. QED
    BY <1>6, <2>3, <2>4, <2>5 DEF NetworkForConnect
<1>7. CASE SwitchAnswered(t, v)
  <2>1. /\ task[t].op \in {"connectWithProvider", "switchNetwork"} /\ arg \in Wallet
        /\ StateTyped' /\ eip1193Provider' = eip1193Provider
    BY <1>7, Awaiting DEF SwitchAnswered, Resumes, StateTyped, stateVars
  <2>2. CASE Switched(t)
    <3>1. CASE Finish(t)
      BY <1>4, <2>1, <3>1
    <3>2. CASE /\ task' = [task EXCEPT ![t] = Idle]
               /\ UNCHANGED <<attached, told, settled, heard>>
      BY <2>1, <3>2, TaskEnds DEF OnlyMoves, ObservedTyped
    <3>3. QED
      BY <2>2, <3>1, <3>2 DEF Switched
  <2>3. ASSUME NEW at \in {"add", "retry"}, AskNext(t, at)
        PROVE  AdapterTyped' /\ OnlyMoves(t) /\ TaskOK(t)'
    <3>1. CASE Throw(t)
      BY <2>1, <2>3, <3>1, ThrowEnds DEF AskNext, OnlyMoves, ObservedTyped
    <3>2. CASE /\ eip1193Provider # None /\ UNCHANGED <<settled, heard>>
               /\ Await(t, task[t].op, at, arg, eip1193Provider)
      BY <1>5, <2>1, <2>3, <3>2 DEF AskNext, OnlyMoves, ObservedTyped
    <3>3. QED
      BY <2>3, <3>1, <3>2 DEF AskNext
  <2>4. QED
    BY <1>7, <2>2, <2>3 DEF SwitchAnswered
<1>8. CASE SignerForInstance(t, v) \/ ReadOnly(t, v)
  <2>1. arg \in Wallet
    BY <1>8, Awaiting DEF SignerForInstance, ReadOnly, Resumes
  <2>2. OnlyMoves(t) /\ task'[t] = [op |-> "connectWithProviderInstance",
                                   at |-> "network", arg |-> arg, asked |-> arg]
    BY <1>1, <1>8, <2>1 DEF SignerForInstance, ReadOnly, Op, Method, At, Endpoint
  <2>3. TaskOK(t)'
    BY <2>1, <2>2 DEF TaskOK, Endpoint
  <2>4. CASE SignerForInstance(t, v)
    <3>1. v \in Account
      BY <2>4 DEF SignerForInstance, Resumes, AboutAccount
    <3>2. StateTyped' /\ ObservedTyped'
      BY <2>1, <2>4, <3>1 DEF SignerForInstance, StateTyped, ObservedTyped, Signers
    <3>3. QED
      BY <2>2, <2>3, <2>4, <3>2 DEF SignerForInstance, OnlyMoves
  <2>5. CASE ReadOnly(t, v)
    BY <2>2, <2>3, <2>5 DEF ReadOnly, OnlyMoves, StateTyped, ObservedTyped, stateVars
  <2>6. QED
    BY <1>8, <2>4, <2>5
<1>9. CASE \/ NetworkForInstance(t, v) \/ NetworkForSigner(t, v) \/ NetworkForRpc(t, v)
           \/ SignerForHandler(t, v)
  <2>1. Return({t}) /\ UNCHANGED <<eip1193Provider, attached>>
    BY <1>9 DEF NetworkForInstance, NetworkForSigner, NetworkForRpc, SignerForHandler
  <2>2. StateTyped'
    <3>1. CASE NetworkForInstance(t, v) \/ NetworkForRpc(t, v)
      BY <3>1 DEF NetworkForInstance, NetworkForRpc, Resumes, StateTyped
    <3>2. CASE NetworkForSigner(t, v)
      BY <3>2, Awaiting DEF NetworkForSigner, Resumes, StateTyped, Signers
    <3>3. CASE SignerForHandler(t, v)
      BY <3>3, Awaiting DEF SignerForHandler, Resumes, StateTyped, Signers, AboutAccount
    <3>4. QED
      BY <1>9, <3>1, <3>2, <3>3
  <2>3. QED
    BY <2>1, <2>2, ReturnEnds DEF OnlyMoves
<1>10. CASE RequestFails(t, v)
  BY <1>10, ThrowEnds DEF RequestFails, StateTyped, ObservedTyped, stateVars, OnlyMoves
<1>11. QED
  BY <1>2, <1>3, <1>6, <1>7, <1>8, <1>9, <1>10 DEF Resume

--------------------------------------------------------------------------------
(* The channels.  A message delivered is taken from the front: those after *)
(* it keep their order.                                                    *)
Shift(e, f) == IF f = e THEN 1 ELSE 0

(* Two answers to one task are one message.                                *)
LEMMA AnswersApart ==
  ASSUME ChannelInv, NEW f \in Endpoint, NEW g \in Endpoint, NEW i, NEW j,
         Answers(f, i), Answers(g, j), inbox[f][i].to = inbox[g][j].to
  PROVE  f = g /\ i = j
<1>1. i \in 1 .. Len(inbox[f]) /\ j \in 1 .. Len(inbox[g])
  BY DEF Answers
<1>2. \A e, h \in Endpoint : \A k \in 1 .. Len(inbox[e]), l \in 1 .. Len(inbox[h]) :
        Answers(e, k) /\ Answers(h, l) /\ inbox[e][k].to = inbox[h][l].to => e = h /\ k = l
  BY DEF ChannelInv
<1>3. QED
  BY <1>1, <1>2

(* What the channels hold after a delivery.                                *)
LEMMA TailFacts ==
  ASSUME inbox \in [Endpoint -> Seq(Message)], NEW e \in Endpoint, inbox[e] # <<>>,
         inbox' = [inbox EXCEPT ![e] = Tail(@)]
  PROVE  /\ inbox' \in [Endpoint -> Seq(Message)]
         /\ 1 \in 1 .. Len(inbox[e]) /\ Head(inbox[e]) = inbox[e][1]
         /\ \A f \in Endpoint : \A i \in 1 .. Len(inbox'[f]) :
              /\ i + Shift(e, f) \in 1 .. Len(inbox[f])
              /\ inbox'[f][i] = inbox[f][i + Shift(e, f)]
         /\ \A f \in Endpoint, i \in Nat : \A kind :
              Latest(f, i, kind)' => Latest(f, i + Shift(e, f), kind)
<1> DEFINE s == inbox[e]
<1>1. s \in Seq(Message) /\ s # <<>>
  OBVIOUS
<1>2. /\ Tail(s) \in Seq(Message) /\ Len(s) \in Nat /\ Len(s) >= 1 /\ Head(s) = s[1]
      /\ Len(Tail(s)) = Len(s) - 1
      /\ \A i \in 1 .. Len(s) - 1 : Tail(s)[i] = s[i + 1]
  BY <1>1, EmptySeq, HeadTailProperties
<1>3. inbox'[e] = Tail(s) /\ \A f \in Endpoint \ {e} : inbox'[f] = inbox[f]
  OBVIOUS
<1> HIDE DEF s
<1>4. inbox' \in [Endpoint -> Seq(Message)]
  BY <1>2 DEF s
<1>5. ASSUME NEW f \in Endpoint
      PROVE  /\ \A i \in 1 .. Len(inbox'[f]) :
                  /\ i + Shift(e, f) \in 1 .. Len(inbox[f])
                  /\ inbox'[f][i] = inbox[f][i + Shift(e, f)]
             /\ \A i \in Nat : \A kind :
                  Latest(f, i, kind)' => Latest(f, i + Shift(e, f), kind)
  <2>1. CASE f = e
    <3>1. Shift(e, f) = 1
      BY <2>1 DEF Shift
    <3>2. \A i \in 1 .. Len(inbox'[f]) : i + 1 \in 1 .. Len(inbox[f])
                                         /\ inbox'[f][i] = inbox[f][i + 1]
      BY <1>2, <1>3, <2>1 DEF s
    <3>3. ASSUME NEW i \in Nat, NEW kind, Latest(f, i, kind)'
          PROVE  Latest(f, i + 1, kind)
      <4> SUFFICES ASSUME NEW j \in (i + 1) + 1 .. Len(inbox[f])
                   PROVE  inbox[f][j].kind # kind
        BY DEF Latest
      <4>1. j - 1 \in i + 1 .. Len(inbox'[f]) /\ j - 1 \in 1 .. Len(s) - 1
            /\ (j - 1) + 1 = j
        BY <1>2, <1>3, <2>1 DEF s
      <4>2. inbox'[f][j - 1] = inbox[f][j]
        BY <1>2, <1>3, <2>1, <4>1 DEF s
      <4>3. QED
        BY <3>3, <4>1, <4>2 DEF Latest
    <3>4. QED
      BY <3>1, <3>2, <3>3
  <2>2. CASE f # e
    <3>1. inbox'[f] = inbox[f] /\ inbox[f] \in Seq(Message)
      BY <1>3, <2>2
    <3>2. Shift(e, f) = 0
      BY <2>2 DEF Shift
    <3>3. \A i \in Nat : i + 0 = i
      OBVIOUS
    <3>4. \A i \in 1 .. Len(inbox[f]) : i \in Nat
      OBVIOUS
    <3>5. QED
      BY <3>1, <3>2, <3>3, <3>4 DEF Latest
  <2>3. QED
    BY <2>1, <2>2
<1>6. QED
  BY <1>1, <1>2, <1>4, <1>5 DEF s

(* Messages sent are put at the end.                                       *)
LEMMA SendFacts ==
  ASSUME inbox \in [Endpoint -> Seq(Message)], NEW e \in Endpoint,
         NEW ms \in Seq(Message), Send(e, ms)
  PROVE  /\ inbox' \in [Endpoint -> Seq(Message)]
         /\ \A f \in Endpoint \ {e} : inbox'[f] = inbox[f]
         /\ \A i \in 1 .. Len(inbox'[e]) :
              \/ i \in 1 .. Len(inbox[e]) /\ inbox'[e][i] = inbox[e][i]
              \/ \E k \in 1 .. Len(ms) : i = Len(inbox[e]) + k /\ inbox'[e][i] = ms[k]
         /\ \A i \in 0 .. Len(inbox[e]) : \A kind :
              Latest(e, i, kind)' => /\ Latest(e, i, kind)
                                     /\ \A k \in 1 .. Len(ms) : ms[k].kind # kind
<1> DEFINE s == inbox[e]
<1>1. s \in Seq(Message) /\ Len(s) \in Nat /\ Len(ms) \in Nat
  OBVIOUS
<1>2. /\ s \o ms \in Seq(Message)
      /\ Len(s \o ms) = Len(s) + Len(ms)
      /\ \A i \in 1 .. Len(s) + Len(ms) :
           (s \o ms)[i] = IF i <= Len(s) THEN s[i] ELSE ms[i - Len(s)]
  BY <1>1, ConcatProperties
<1>3. inbox'[e] = s \o ms /\ \A f \in Endpoint \ {e} : inbox'[f] = inbox[f]
  BY DEF Send
<1>4. inbox' \in [Endpoint -> Seq(Message)]
  BY <1>2 DEF Send
<1> HIDE DEF s
<1>5. ASSUME NEW i \in 1 .. Len(inbox'[e])
      PROVE  \/ i \in 1 .. Len(s) /\ inbox'[e][i] = s[i]
             \/ \E k \in 1 .. Len(ms) : i = Len(s) + k /\ inbox'[e][i] = ms[k]
  <2>1. CASE i <= Len(s)
    BY <1>1, <1>2, <1>3, <2>1
  <2>2. CASE ~(i <= Len(s))
    <3>1. i - Len(s) \in 1 .. Len(ms) /\ i = Len(s) + (i - Len(s))
      BY <1>1, <1>2, <1>3, <2>2
    <3>2. inbox'[e][i] = ms[i - Len(s)]
      BY <1>1, <1>2, <1>3, <2>2
    <3>3. QED
      BY <3>1, <3>2
  <2>3. QED
    BY <2>1, <2>2
<1>6. ASSUME NEW i \in 0 .. Len(s), NEW kind, Latest(e, i, kind)'
      PROVE  /\ \A j \in i + 1 .. Len(s) : s[j].kind # kind
             /\ \A k \in 1 .. Len(ms) : ms[k].kind # kind
  <2>1. \A j \in i + 1 .. Len(s) + Len(ms) : (s \o ms)[j].kind # kind
    BY <1>2, <1>3, <1>6 DEF Latest
  <2>2. ASSUME NEW j \in i + 1 .. Len(s) PROVE s[j].kind # kind
    <3>1. j \in i + 1 .. Len(s) + Len(ms) /\ j \in 1 .. Len(s) + Len(ms) /\ j <= Len(s)
      BY <1>1
    <3>2. QED
      BY <1>2, <2>1, <3>1
  <2>3. ASSUME NEW k \in 1 .. Len(ms) PROVE ms[k].kind # kind
    <3> DEFINE j == Len(s) + k
    <3>1. /\ j \in i + 1 .. Len(s) + Len(ms) /\ j \in 1 .. Len(s) + Len(ms)
          /\ ~(j <= Len(s)) /\ j - Len(s) = k
      BY <1>1
    <3>2. QED
      BY <1>2, <2>1, <3>1
  <2>4. QED
    BY <2>2, <2>3
<1>7. QED
  BY <1>3, <1>4, <1>5, <1>6 DEF s, Latest

(* What a message of each kind carries.                                    *)
LEMMA MessageTyped ==
  ASSUME NEW m \in Message
  PROVE  /\ m.kind \in {"accountsChanged", "chainChanged", "disconnect", "answer"}
         /\ m.kind = "accountsChanged" => m.value \in Account \cup {None}
         /\ m.kind = "chainChanged" => m.value \in Chain
         /\ m.kind = "answer" => m.to \in Task
  BY DEF Message

(* Delivering a message keeps what is known of the others, if no task but  *)
(* the one it answers, and idle ones, moves.                               *)
LEMMA DeliveryKeeps ==
  ASSUME ChannelInv, NEW e \in Endpoint, inbox[e] # <<>>,
         inbox' = [inbox EXCEPT ![e] = Tail(@)], UNCHANGED walletVars,
         \A t \in Task : TaskOK(t)',
         \A t \in Task : \/ task'[t] = task[t] \/ task[t] = Idle
                         \/ Answers(e, 1) /\ inbox[e][1].to = t
  PROVE  ChannelInv'
<1>1. /\ inbox' \in [Endpoint -> Seq(Message)]
      /\ 1 \in 1 .. Len(inbox[e])
      /\ \A f \in Endpoint : \A i \in 1 .. Len(inbox'[f]) :
           /\ i + Shift(e, f) \in 1 .. Len(inbox[f])
           /\ inbox'[f][i] = inbox[f][i + Shift(e, f)]
      /\ \A f \in Endpoint, i \in Nat : \A kind :
           Latest(f, i, kind)' => Latest(f, i + Shift(e, f), kind)
  BY TailFacts DEF ChannelInv
<1>2. ASSUME NEW f \in Endpoint, NEW i \in 1 .. Len(inbox'[f]), Answers(f, i)'
      PROVE  /\ Answers(f, i + Shift(e, f)) /\ Expected(inbox[f][i + Shift(e, f)])
             /\ task'[inbox'[f][i].to] = task[inbox'[f][i].to]
  <2> DEFINE m == inbox'[f][i]
  <2>1. Answers(f, i + Shift(e, f)) /\ m = inbox[f][i + Shift(e, f)]
    BY <1>1, <1>2 DEF Answers
  <2>2. m \in Message /\ m.kind = "answer"
    BY <1>1, <1>2, ElementOfSeq DEF Answers
  <2>3. m.to \in Task /\ Expected(m)
    BY <1>1, <2>1, <2>2, MessageTyped DEF ChannelInv
  <2>4. ~(Answers(e, 1) /\ inbox[e][1].to = m.to)
    <3> SUFFICES ASSUME Answers(e, 1), inbox[e][1].to = m.to PROVE FALSE
      OBVIOUS
    <3>1. f = e /\ i + Shift(e, f) = 1
      BY <1>1, <2>1 DEF ChannelInv
    <3>2. i + 1 = 1
      BY <3>1 DEF Shift
    <3>3. QED
      BY <3>2
  <2>5. QED
    BY <2>1, <2>3, <2>4 DEF Expected
<1>3. \A f \in Endpoint : \A i \in 1 .. Len(inbox'[f]) :
        Answers(f, i)' => Expected(inbox[f][i])'
  <2> SUFFICES ASSUME NEW f \in Endpoint, NEW i \in 1 .. Len(inbox'[f]), Answers(f, i)'
               PROVE  Expected(inbox[f][i])'
    OBVIOUS
  <2>1. PICK m : m = inbox[f][i + Shift(e, f)]
    OBVIOUS
  <2>2. inbox'[f][i] = m /\ Expected(m) /\ task'[m.to] = task[m.to]
    BY <1>1, <1>2, <2>1
  <2>3. Expected(m)'
    BY <2>2 DEF Expected
  <2>4. QED
    BY <2>2, <2>3 DEF Expected
<1>4. \A f, g \in Endpoint : \A i \in 1 .. Len(inbox'[f]), j \in 1 .. Len(inbox'[g]) :
        Answers(f, i)' /\ Answers(g, j)' /\ inbox'[f][i].to = inbox'[g][j].to
          => f = g /\ i = j
  <2> SUFFICES ASSUME NEW f \in Endpoint, NEW g \in Endpoint,
                      NEW i \in 1 .. Len(inbox'[f]), NEW j \in 1 .. Len(inbox'[g]),
                      Answers(f, i)', Answers(g, j)',
                      inbox'[f][i].to = inbox'[g][j].to
               PROVE  f = g /\ i = j
    OBVIOUS
  <2> DEFINE k == i + Shift(e, f)
             l == j + Shift(e, g)
  <2>1. k \in 1 .. Len(inbox[f]) /\ Answers(f, k) /\ inbox'[f][i] = inbox[f][k]
    BY <1>1, <1>2
  <2>2. l \in 1 .. Len(inbox[g]) /\ Answers(g, l) /\ inbox'[g][j] = inbox[g][l]
    BY <1>1, <1>2
  <2> HIDE DEF k, l
  <2>3. f = g /\ k = l
    BY <2>1, <2>2, AnswersApart
  <2>4. QED
    BY <2>3 DEF Shift, k, l
<1>5. ASSUME NEW w \in Wallet, NEW i \in 1 .. Len(inbox'[w])
      PROVE  /\ TellsAccount(inbox[w][i])' /\ Latest(w, i, "accountsChanged")'
                  => inbox'[w][i].value = exposed'[w]
             /\ TellsChain(inbox[w][i])' /\ Latest(w, i, "chainChanged")'
                  => inbox'[w][i].value = chain'[w]
  <2>1. w \in Endpoint /\ i \in Nat
    BY DEF Endpoint
  <2> DEFINE j == i + Shift(e, w)
  <2>2. j \in 1 .. Len(inbox[w]) /\ inbox'[w][i] = inbox[w][j]
    BY <1>1, <2>1
  <2>3. Latest(w, i, "accountsChanged")' => Latest(w, j, "accountsChanged")
    BY <1>1, <2>1
  <2>4. Latest(w, i, "chainChanged")' => Latest(w, j, "chainChanged")
    BY <1>1, <2>1
  <2>5. /\ TellsAccount(inbox[w][i])' => TellsAccount(inbox[w][j])
        /\ TellsChain(inbox[w][i])' => TellsChain(inbox[w][j])
    BY <1>2, <2>1, <2>2 DEF TellsAccount, TellsChain, Answers
  <2>6. QED
    BY <2>2, <2>3, <2>4, <2>5 DEF ChannelInv, walletVars
<1>6. QED
  BY <1>1, <1>3, <1>4, <1>5 DEF ChannelInv

(* So does a step that moves idle tasks only.                              *)
LEMMA TasksKeep ==
  ASSUME ChannelInv, UNCHANGED <<inbox, walletVars>>, \A t \in Task : TaskOK(t)',
         \A t \in Task : task'[t] = task[t] \/ task[t] = Idle
  PROVE  ChannelInv'
<1>1. ASSUME NEW f \in Endpoint, NEW i \in 1 .. Len(inbox[f]), Answers(f, i)
      PROVE  task'[inbox[f][i].to] = task[inbox[f][i].to] /\ Expected(inbox[f][i])
  <2>1. inbox[f][i] \in Message /\ inbox[f][i].kind = "answer"
    BY <1>1, ElementOfSeq DEF Answers, ChannelInv
  <2>2. inbox[f][i].to \in Task /\ Expected(inbox[f][i])
    BY <1>1, <2>1, MessageTyped DEF ChannelInv
  <2>3. QED
    BY <2>2 DEF Expected
<1>2. \A f \in Endpoint : \A i \in 1 .. Len(inbox'[f]) :
        Answers(f, i)' => Expected(inbox[f][i])'
  BY <1>1 DEF Expected, Answers
<1>3. \A w \in Wallet : \A i \in 1 .. Len(inbox[w]) :
        /\ TellsAccount(inbox[w][i])' => TellsAccount(inbox[w][i])
        /\ TellsChain(inbox[w][i])' => TellsChain(inbox[w][i])
  BY <1>1 DEF TellsAccount, TellsChain, Answers, Endpoint
<1>4. QED
  BY <1>2, <1>3 DEF ChannelInv, Answers, Latest, walletVars

(* So does sending, when an answer goes to a task that awaited it and an   *)
(* event says what the wallet has become.                                  *)
LEMMA SendingKeeps ==
  ASSUME ChannelInv, NEW e \in Endpoint, NEW ms \in Seq(Message), Send(e, ms),
         \A t \in Task : TaskOK(t)',
         \A t \in Task : \/ task'[t] = task[t]
                         \/ \A f \in Endpoint : \A i \in 1 .. Len(inbox[f]) :
                              Answers(f, i) => inbox[f][i].to # t,
         \A k \in 1 .. Len(ms) : ms[k].kind = "answer" =>
           /\ Expected(ms[k])'
           /\ \A f \in Endpoint : \A i \in 1 .. Len(inbox[f]) :
                Answers(f, i) => inbox[f][i].to # ms[k].to,
         \A k, l \in 1 .. Len(ms) :
           ms[k].kind = "answer" /\ ms[l].kind = "answer" => k = l,
         \A w \in Wallet :
           /\ \/ exposed'[w] = exposed[w]
              \/ w = e /\ \E k \in 1 .. Len(ms) : ms[k].kind = "accountsChanged"
           /\ \/ chain'[w] = chain[w]
              \/ w = e /\ \E k \in 1 .. Len(ms) : ms[k].kind = "chainChanged",
         e \in Wallet => \A k \in 1 .. Len(ms) :
                          /\ TellsAccount(ms[k])' => ms[k].value = exposed'[e]
                          /\ TellsChain(ms[k])' => ms[k].value = chain'[e]
  PROVE  ChannelInv'
<1> DEFINE n == Len(inbox[e])
           Old(f, i) == i \in 1 .. Len(inbox[f]) /\ inbox'[f][i] = inbox[f][i]
           New(f, i) == f = e /\ \E k \in 1 .. Len(ms) : i = n + k /\ inbox'[f][i] = ms[k]
<1>1. /\ inbox' \in [Endpoint -> Seq(Message)]
      /\ \A f \in Endpoint \ {e} : inbox'[f] = inbox[f]
      /\ \A i \in 1 .. Len(inbox'[e]) : Old(e, i) \/ New(e, i)
      /\ \A i \in 0 .. n : \A kind :
           Latest(e, i, kind)' => /\ Latest(e, i, kind)
                                  /\ \A k \in 1 .. Len(ms) : ms[k].kind # kind
  BY SendFacts DEF ChannelInv
<1>2. n \in Nat /\ Len(ms) \in Nat
  BY LenProperties DEF ChannelInv
<1>3. \A f \in Endpoint : \A i \in 1 .. Len(inbox'[f]) : Old(f, i) \/ New(f, i)
  BY <1>1
<1> HIDE DEF n, Old, New
<1>4. ASSUME NEW f \in Endpoint, NEW i \in 1 .. Len(inbox'[f]), Answers(f, i)', Old(f, i)
      PROVE  /\ Answers(f, i) /\ Expected(inbox[f][i])
             /\ task'[inbox[f][i].to] = task[inbox[f][i].to]
  <2>1. Answers(f, i) /\ i \in 1 .. Len(inbox[f])
    BY <1>4 DEF Answers, Old
  <2>2. inbox[f][i] \in Message /\ inbox[f][i].kind = "answer"
    BY <2>1, ElementOfSeq DEF Answers, ChannelInv
  <2>3. inbox[f][i].to \in Task /\ Expected(inbox[f][i])
    BY <2>1, <2>2, MessageTyped DEF ChannelInv
  <2>4. QED
    BY <2>1, <2>3
<1>5. ASSUME NEW f \in Endpoint, NEW i \in 1 .. Len(inbox'[f]), Answers(f, i)', New(f, i)
      PROVE  \E k \in 1 .. Len(ms) : /\ i = n + k /\ inbox'[f][i] = ms[k]
                                    /\ ms[k].kind = "answer"
  BY <1>5 DEF New, Answers
<1>6. \A f \in Endpoint : \A i \in 1 .. Len(inbox'[f]) :
        Answers(f, i)' => Expected(inbox[f][i])'
  <2> SUFFICES ASSUME NEW f \in Endpoint, NEW i \in 1 .. Len(inbox'[f]), Answers(f, i)'
               PROVE  Expected(inbox[f][i])'
    OBVIOUS
  <2>1. CASE Old(f, i)
    BY <1>4, <2>1 DEF Expected, Old
  <2>2. CASE New(f, i)
    BY <1>5, <2>2 DEF Expected
  <2>3. QED
    BY <1>3, <2>1, <2>2
<1>7. \A f, g \in Endpoint : \A i \in 1 .. Len(inbox'[f]), j \in 1 .. Len(inbox'[g]) :
        Answers(f, i)' /\ Answers(g, j)' /\ inbox'[f][i].to = inbox'[g][j].to
          => f = g /\ i = j
  <2> SUFFICES ASSUME NEW f \in Endpoint, NEW g \in Endpoint,
                      NEW i \in 1 .. Len(inbox'[f]), NEW j \in 1 .. Len(inbox'[g]),
                      Answers(f, i)', Answers(g, j)',
                      inbox'[f][i].to = inbox'[g][j].to
               PROVE  f = g /\ i = j
    OBVIOUS
  <2>1. CASE Old(f, i) /\ Old(g, j)
    <3>1. /\ i \in 1 .. Len(inbox[f]) /\ j \in 1 .. Len(inbox[g])
          /\ inbox[f][i].to = inbox[g][j].to
      BY <2>1 DEF Old
    <3>2. Answers(f, i) /\ Answers(g, j)
      BY <1>4, <2>1
    <3>3. QED
      BY <3>1, <3>2, AnswersApart
  <2>2. CASE Old(f, i) /\ New(g, j)
    <3>1. Answers(f, i) /\ i \in 1 .. Len(inbox[f]) /\ inbox'[f][i] = inbox[f][i]
      BY <1>4, <2>2 DEF Old
    <3>2. PICK k \in 1 .. Len(ms) : inbox'[g][j] = ms[k] /\ ms[k].kind = "answer"
      BY <1>5, <2>2
    <3>3. QED
      BY <3>1, <3>2
  <2>3. CASE New(f, i) /\ Old(g, j)
    <3>1. Answers(g, j) /\ j \in 1 .. Len(inbox[g]) /\ inbox'[g][j] = inbox[g][j]
      BY <1>4, <2>3 DEF Old
    <3>2. PICK k \in 1 .. Len(ms) : inbox'[f][i] = ms[k] /\ ms[k].kind = "answer"
      BY <1>5, <2>3
    <3>3. QED
      BY <3>1, <3>2
  <2>4. CASE New(f, i) /\ New(g, j)
    <3>1. PICK k \in 1 .. Len(ms) : i = n + k /\ ms[k].kind = "answer"
      BY <1>5, <2>4
    <3>2. PICK l \in 1 .. Len(ms) : j = n + l /\ ms[l].kind = "answer"
      BY <1>5, <2>4
    <3>3. QED
      BY <2>4, <3>1, <3>2 DEF New
  <2>5. QED
    BY <1>3, <2>1, <2>2, <2>3, <2>4
<1>8. ASSUME NEW w \in Wallet, NEW i \in 1 .. Len(inbox'[w]), Old(w, i)
      PROVE  /\ TellsAccount(inbox[w][i])' => TellsAccount(inbox[w][i])
             /\ TellsChain(inbox[w][i])' => TellsChain(inbox[w][i])
             /\ Latest(w, i, "accountsChanged")' =>
                  Latest(w, i, "accountsChanged") /\ exposed'[w] = exposed[w]
             /\ Latest(w, i, "chainChanged")' =>
                  Latest(w, i, "chainChanged") /\ chain'[w] = chain[w]
  <2>1. w \in Endpoint
    BY DEF Endpoint
  <2>2. /\ TellsAccount(inbox[w][i])' => TellsAccount(inbox[w][i])
        /\ TellsChain(inbox[w][i])' => TellsChain(inbox[w][i])
    BY <1>4, <1>8, <2>1 DEF Old, TellsAccount, TellsChain, Answers
  <2>3. CASE w = e
    <3>1. i \in 0 .. n
      BY <1>2, <1>8, <2>3 DEF Old, n
    <3>2. \A kind : Latest(w, i, kind)' => /\ Latest(w, i, kind)
                                         /\ \A k \in 1 .. Len(ms) : ms[k].kind # kind
      BY <1>1, <2>3, <3>1
    <3>3. QED
      BY <2>2, <3>2
  <2>4. CASE w # e
    <3>1. inbox'[w] = inbox[w]
      BY <1>1, <2>1, <2>4
    <3>2. \A kind : Latest(w, i, kind)' => Latest(w, i, kind)
      BY <3>1 DEF Latest
    <3>3. QED
      BY <2>2, <2>4, <3>2
  <2>5. QED
    BY <2>3, <2>4
<1>9. ASSUME NEW w \in Wallet, NEW i \in 1 .. Len(inbox'[w])
      PROVE  /\ TellsAccount(inbox[w][i])' /\ Latest(w, i, "accountsChanged")'
                  => inbox'[w][i].value = exposed'[w]
             /\ TellsChain(inbox[w][i])' /\ Latest(w, i, "chainChanged")'
                  => inbox'[w][i].value = chain'[w]
  <2>1. CASE Old(w, i)
    <3>1. i \in 1 .. Len(inbox[w]) /\ inbox'[w][i] = inbox[w][i]
      BY <2>1 DEF Old
    <3>2. QED
      BY <1>8, <2>1, <3>1 DEF ChannelInv
  <2>2. CASE New(w, i)
    <3>1. w = e
      BY <2>2 DEF New
    <3>2. PICK k \in 1 .. Len(ms) : inbox'[w][i] = ms[k]
      BY <2>2 DEF New
    <3>3. /\ TellsAccount(inbox[w][i])' => TellsAccount(ms[k])'
          /\ TellsChain(inbox[w][i])' => TellsChain(ms[k])'
      BY <3>2 DEF TellsAccount, TellsChain
    <3>4. QED
      BY <3>1, <3>2, <3>3
  <2>3. w \in Endpoint
    BY DEF Endpoint
  <2>4. QED
    BY <1>3, <2>1, <2>2, <2>3
<1>10. QED
  BY <1>1, <1>6, <1>7, <1>9 DEF ChannelInv

--------------------------------------------------------------------------------
(* What an endpoint sends as it serves a task: one answer, to that task,   *)
(* and, with a change of its own, the event of that change.                *)
Truly(t, e, ms) ==
  /\ ms \in Seq(Message) /\ Send(e, ms)
  /\ \A k \in 1 .. Len(ms) : ms[k].kind = "answer" =>
       /\ ms[k].to = t
       /\ AboutAccount(task[t].at) => ms[k].value \in Account \cup {None}
       /\ task[t].at = "network" => ms[k].value \in Chain \cup {None}
  /\ \A k, l \in 1 .. Len(ms) : ms[k].kind = "answer" /\ ms[l].kind = "answer" => k = l
  /\ \A w \in Wallet :
       /\ \/ exposed'[w] = exposed[w]
          \/ w = e /\ \E k \in 1 .. Len(ms) : ms[k].kind = "accountsChanged"
       /\ \/ chain'[w] = chain[w]
          \/ w = e /\ \E k \in 1 .. Len(ms) : ms[k].kind = "chainChanged"
  /\ e \in Wallet => \A k \in 1 .. Len(ms) :
       /\ \/ ms[k].kind = "accountsChanged"
          \/ ms[k].kind = "answer" /\ ms[k].value # None /\ AboutAccount(task[t].at)
          => ms[k].value = exposed'[e]
       /\ \/ ms[k].kind = "chainChanged"
          \/ ms[k].kind = "answer" /\ ms[k].value # None /\ task[t].at = "network"
          => ms[k].value = chain'[e]

(* An endpoint that only answers speaks the truth.                         *)
LEMMA OneAnswer ==
  ASSUME NEW t \in Task, NEW e \in Endpoint, NEW v, Send(e, <<Answer(t, v)>>),
         UNCHANGED walletVars, v \in Account \cup Chain \cup {"ok", "unknown", None},
         AboutAccount(task[t].at) => v \in Account \cup {None},
         task[t].at = "network" => v \in Chain \cup {None},
         e \in Wallet /\ v # None /\ AboutAccount(task[t].at) => v = exposed[e],
         e \in Wallet /\ v # None /\ task[t].at = "network" => v = chain[e]
  PROVE  Truly(t, e, <<Answer(t, v)>>)
<1> DEFINE m == Answer(t, v)
<1>1. m \in Message /\ m.kind = "answer" /\ m.to = t /\ m.value = v
  BY DEF Answer, Message
<1> HIDE DEF m
<1>2. <<m>> \in Seq(Message) /\ Len(<<m>>) = 1 /\ \A k \in 1 .. 1 : <<m>>[k] = m
  BY <1>1
<1>3. Send(e, <<m>>)
  BY DEF m
<1>4. Truly(t, e, <<m>>)
  BY <1>1, <1>2, <1>3 DEF Truly, walletVars
<1>5. QED
  BY <1>4 DEF m

(* So does a wallet that changes as it answers, in either order.           *)
LEMMA AnswerAndEvent ==
  ASSUME NEW t \in Task, NEW e \in Wallet, NEW v, NEW c, NEW kind,
         SendBoth(e, Event(kind, c), Answer(t, v)),
         \/ /\ kind = "accountsChanged" /\ AboutAccount(task[t].at)
            /\ c \in Account /\ v = c
            /\ exposed \in [Wallet -> Account \cup {None}]
            /\ exposed' = [exposed EXCEPT ![e] = c] /\ UNCHANGED chain
         \/ /\ kind = "chainChanged" /\ task[t].at \in {"switch", "retry"}
            /\ c \in Chain /\ v = "ok"
            /\ chain \in [Wallet -> Chain]
            /\ chain' = [chain EXCEPT ![e] = c] /\ UNCHANGED exposed
  PROVE  \E ms : Truly(t, e, ms)
<1> DEFINE m == Answer(t, v)
           n == Event(kind, c)
<1>1. m \in Message /\ m.kind = "answer" /\ m.to = t /\ m.value = v
  BY DEF Answer, Message
<1>2. n \in Message /\ n.kind = kind /\ n.value = c /\ kind # "answer"
  BY DEF Event, Message
<1> HIDE DEF m, n
<1>3. /\ <<m, n>> \in Seq(Message) /\ Len(<<m, n>>) = 2
      /\ <<m, n>>[1] = m /\ <<m, n>>[2] = n
      /\ <<n, m>> \in Seq(Message) /\ Len(<<n, m>>) = 2
      /\ <<n, m>>[1] = n /\ <<n, m>>[2] = m
  BY <1>1, <1>2
<1>4. \A k \in 1 .. 2 : k = 1 \/ k = 2
  OBVIOUS
<1>5. ASSUME NEW ms \in {<<m, n>>, <<n, m>>}, Send(e, ms) PROVE Truly(t, e, ms)
  <2>1. /\ ms \in Seq(Message)
        /\ \A k \in 1 .. Len(ms) : ms[k] = m \/ ms[k] = n
        /\ \E k \in 1 .. Len(ms) : ms[k] = n
        /\ \A k, l \in 1 .. Len(ms) : ms[k] = m /\ ms[l] = m => k = l
    <3>1. /\ ms \in Seq(Message) /\ Len(ms) = 2 /\ m # n
          /\ (ms[1] = m /\ ms[2] = n) \/ (ms[1] = n /\ ms[2] = m)
      BY <1>1, <1>2, <1>3
    <3>2. 1 \in 1 .. 2 /\ 2 \in 1 .. 2
      OBVIOUS
    <3>3. QED
      BY <1>4, <3>1, <3>2
  <2>2. \A w \in Wallet : /\ exposed'[w] = exposed[w] \/ (w = e /\ kind = "accountsChanged")
                          /\ chain'[w] = chain[w] \/ (w = e /\ kind = "chainChanged")
    OBVIOUS
  <2>3. /\ kind = "accountsChanged" => c = exposed'[e]
        /\ kind = "chainChanged" => c = chain'[e]
        /\ AboutAccount(task[t].at) => v \in Account /\ v = exposed'[e]
        /\ task[t].at # "network"
    BY DEF AboutAccount
  <2>4. QED
    BY <1>1, <1>2, <1>5, <2>1, <2>2, <2>3 DEF Truly
<1>6. Send(e, <<m, n>>) \/ Send(e, <<n, m>>)
  BY DEF SendBoth, m, n
<1>7. QED
  BY <1>5, <1>6

(* However a request is served, its task goes on to await one answer.      *)
LEMMA ServeFacts ==
  ASSUME TypeOK, ChannelInv, NEW t \in Task, Serve(t)
  PROVE  /\ task[t].asked \in Endpoint /\ task[t] # Idle
         /\ OnlyMoves(t) /\ task'[t] = [task[t] EXCEPT !.asked = None]
         /\ \E ms : Truly(t, task[t].asked, ms)
         /\ exposed' \in [Wallet -> Account \cup {None}] /\ chain' \in [Wallet -> Chain]
<1> DEFINE e == task[t].asked
<1>1. e \in Endpoint /\ task[t] # Idle
  BY DEF Serve, TypeOK, TaskState, Idle
<1>2. task[t].at # "network" => e \in Wallet
  BY <1>1, Awaiting, NoneIsNew DEF ChannelInv, TypeOK, Serve
<1>3. OnlyMoves(t) /\ task'[t] = [task[t] EXCEPT !.asked = None]
  <2>1. task[t] \in TaskState
    BY DEF TypeOK
  <2>2. [task[t] EXCEPT !.asked = None] \in TaskState
    BY <2>1 DEF TaskState
  <2>3. task' = [task EXCEPT ![t] = [task[t] EXCEPT !.asked = None]]
    BY DEF Serve
  <2>4. QED
    BY <2>2, <2>3 DEF OnlyMoves, TypeOK
<1>4. CASE AnswerAccounts(t, e)
  <2>1. CASE exposed[e] # None /\ Send(e, <<Answer(t, exposed[e])>>) /\ UNCHANGED walletVars
    <3>1. e \in Wallet /\ exposed[e] \in Account /\ task[t].at # "network"
          /\ AboutAccount(task[t].at)
      BY <1>4, <2>1 DEF AnswerAccounts, TypeOK, AboutAccount
    <3>2. Truly(t, e, <<Answer(t, exposed[e])>>)
      BY <1>1, <2>1, <3>1, OneAnswer
    <3>3. QED
      BY <1>1, <1>3, <2>1, <3>2 DEF TypeOK, walletVars
  <2>2. CASE exposed[e] = None /\ UNCHANGED chain
    <3>1. PICK a \in Account :
            /\ exposed' = [exposed EXCEPT ![e] = a]
            /\ SendBoth(e, Event("accountsChanged", a), Answer(t, a))
      BY <1>4, <2>2 DEF AnswerAccounts
    <3>2. e \in Wallet /\ AboutAccount(task[t].at)
      BY <1>4 DEF AnswerAccounts, AboutAccount
    <3>3. \E ms : Truly(t, e, ms)
      BY <2>2, <3>1, <3>2, AnswerAndEvent DEF TypeOK
    <3>4. QED
      BY <1>1, <1>3, <2>2, <3>1, <3>3 DEF TypeOK
  <2>3. QED
    BY <1>4, <2>1, <2>2 DEF AnswerAccounts
<1>5. CASE AnswerNetwork(t, e)
  <2>1. /\ Send(e, <<Answer(t, NetworkOf(e))>>) /\ UNCHANGED walletVars
        /\ task[t].at = "network" /\ ~AboutAccount(task[t].at)
    BY <1>5 DEF AnswerNetwork, AboutAccount
  <2>2. NetworkOf(e) \in Chain /\ (e \in Wallet => NetworkOf(e) = chain[e])
    BY <1>1, WalletAssumption DEF NetworkOf, TypeOK, Endpoint
  <2>3. Truly(t, e, <<Answer(t, NetworkOf(e))>>)
    BY <1>1, <2>1, <2>2, OneAnswer
  <2>4. QED
    BY <1>1, <1>3, <2>1, <2>3 DEF TypeOK, walletVars
<1>6. CASE AnswerSwitch(t, e)
  <2>1. e \in Wallet /\ UNCHANGED exposed /\ ~AboutAccount(task[t].at)
        /\ task[t].at # "network"
    BY <1>2, <1>6 DEF AnswerSwitch, AboutAccount
  <2>2. ASSUME NEW v \in {"ok", "unknown"}, Send(e, <<Answer(t, v)>>), UNCHANGED chain
        PROVE  (\E ms : Truly(t, e, ms)) /\ chain' \in [Wallet -> Chain]
    BY <1>1, <2>1, <2>2, OneAnswer DEF walletVars, TypeOK
  <2>3. CASE /\ task[t].at \in {"switch", "retry"}
             /\ chain' = [chain EXCEPT ![e] = TargetChain]
             /\ SendBoth(e, Event("chainChanged", TargetChain), Answer(t, "ok"))
    <3>1. TargetChain \in Chain
      BY WalletAssumption
    <3>2. \E ms : Truly(t, e, ms)
      BY <2>1, <2>3, <3>1, AnswerAndEvent DEF TypeOK
    <3>3. QED
      BY <1>1, <1>3, <2>1, <2>3, <3>1, <3>2 DEF TypeOK
  <2>4. QED
    BY <1>1, <1>3, <1>6, <2>1, <2>2, <2>3 DEF AnswerSwitch, TypeOK
<1>7. CASE Send(e, <<Answer(t, None)>>) /\ UNCHANGED walletVars
  <2>1. Truly(t, e, <<Answer(t, None)>>)
    BY <1>1, <1>7, OneAnswer
  <2>2. QED
    BY <1>1, <1>3, <1>7, <2>1 DEF TypeOK, walletVars
<1>8. QED
  BY <1>4, <1>5, <1>6, <1>7 DEF Serve

--------------------------------------------------------------------------------
(* A method called takes an idle task.                                     *)
Starts(t) ==
  \/ \E w \in Wallet : ConnectWithProvider(t, w)
  \/ \E e \in Endpoint : ConnectWithProviderInstance(t, e)
  \/ \E s \in Signers : ConnectWithSigner(t, s)
  \/ ConnectWithRpc(t)
  \/ SwitchNetwork(t)

(* Whatever method is called, the adapter stays typed.                     *)
LEMMA CallTyped ==
  ASSUME AdapterTyped, NEW t \in Task, Starts(t)
  PROVE  /\ AdapterTyped' /\ OnlyMoves(t) /\ TaskOK(t)'
         /\ task[t] = Idle /\ UNCHANGED <<inbox, walletVars>>
<1> USE DEF AdapterTyped
<1> DEFINE Goal == /\ AdapterTyped' /\ OnlyMoves(t) /\ TaskOK(t)'
                   /\ task[t] = Idle /\ UNCHANGED <<inbox, walletVars>>
<1>1. ASSUME NEW w \in Wallet, ConnectWithProvider(t, w) PROVE Goal
  <2>1. OnlyMoves(t) /\ task'[t] = [op |-> "connectWithProvider", at |-> "accounts",
                                   arg |-> w, asked |-> w]
    BY <1>1, AwaitMoves DEF ConnectWithProvider, Op, Method, At, Endpoint
  <2>2. TaskOK(t)'
    BY <2>1, WalletAssumption DEF TaskOK
  <2>3. StateTyped' /\ ObservedTyped'
    BY <1>1 DEF ConnectWithProvider, StateTyped, stateVars, ObservedTyped
  <2>4. QED
    BY <1>1, <2>1, <2>2, <2>3 DEF ConnectWithProvider, Call, OnlyMoves
<1>2. ASSUME NEW e \in Endpoint, ConnectWithProviderInstance(t, e) PROVE Goal
  <2> DEFINE at == IF e = Rpc THEN "network" ELSE "signer"
  <2>1. OnlyMoves(t) /\ task'[t] = [op |-> "connectWithProviderInstance", at |-> at,
                                   arg |-> e, asked |-> e]
    BY <1>2, AwaitMoves DEF ConnectWithProviderInstance, Op, Method, At
  <2>2. TaskOK(t)'
    BY <2>1 DEF TaskOK
  <2>3. StateTyped' /\ ObservedTyped'
    BY <1>2 DEF ConnectWithProviderInstance, StateTyped, ObservedTyped
  <2>4. QED
    BY <1>2, <2>1, <2>2, <2>3 DEF ConnectWithProviderInstance, Call, OnlyMoves
<1>3. ASSUME NEW s \in Signers, ConnectWithSigner(t, s) PROVE Goal
  <2>1. OnlyMoves(t) /\ task'[t] = [op |-> "connectWithSigner", at |-> "network",
                                   arg |-> s, asked |-> s.wallet]
    BY <1>3, AwaitMoves DEF ConnectWithSigner, Op, Method, At, Endpoint, Signers
  <2>2. TaskOK(t)'
    BY <2>1 DEF TaskOK
  <2>3. StateTyped' /\ ObservedTyped'
    BY <1>3 DEF ConnectWithSigner, StateTyped, ObservedTyped, Signers, Endpoint
  <2>4. QED
    BY <1>3, <2>1, <2>2, <2>3 DEF ConnectWithSigner, Call, OnlyMoves
<1>4. ASSUME ConnectWithRpc(t) PROVE Goal
  <2>1. OnlyMoves(t) /\ task'[t] = [op |-> "connectWithRpc", at |-> "network",
                                   arg |-> Rpc, asked |-> Rpc]
    <3>1. /\ Await(t, "connectWithRpc", "network", Rpc, Rpc) /\ Rpc \in Endpoint
          /\ "connectWithRpc" \in Op /\ "network" \in At
      BY <1>4 DEF ConnectWithRpc, Op, Method, At, Endpoint
    <3>2. QED
      BY <3>1, AwaitMoves
  <2>2. TaskOK(t)'
    BY <2>1 DEF TaskOK
  <2>3. StateTyped' /\ ObservedTyped'
    BY <1>4 DEF ConnectWithRpc, StateTyped, ObservedTyped, Endpoint
  <2>4. QED
    BY <1>4, <2>1, <2>2, <2>3 DEF ConnectWithRpc, Call, OnlyMoves
<1>5. ASSUME SwitchNetwork(t) PROVE Goal
  <2>1. eip1193Provider \in Wallet
    BY <1>5 DEF SwitchNetwork
  <2>2. OnlyMoves(t) /\ task'[t] = [op |-> "switchNetwork", at |-> "switch",
                                   arg |-> eip1193Provider, asked |-> eip1193Provider]
    BY <1>5, <2>1, AwaitMoves DEF SwitchNetwork, Op, Method, At, Endpoint
  <2>3. TaskOK(t)'
    BY <2>1, <2>2, WalletAssumption DEF TaskOK
  <2>4. StateTyped' /\ ObservedTyped'
    BY <1>5 DEF SwitchNetwork, StateTyped, stateVars, ObservedTyped
  <2>5. QED
    BY <1>5, <2>2, <2>3, <2>4 DEF SwitchNetwork, Call, OnlyMoves
<1>6. QED
  BY <1>1, <1>2, <1>3, <1>4, <1>5 DEF Starts

(* disconnect() leaves no provider and attaches nothing.                   *)
LEMMA ClearTyped ==
  ASSUME AdapterTyped, Clear, UNCHANGED <<task, settled, heard>>
  PROVE  AdapterTyped' /\ provider' = None /\ eip1193Provider' = None
         /\ \A w \in Wallet : attached'[w] = 0 \/ attached'[w] = attached[w]
<1>1. attached' = Removed /\ 0 \in 0 .. MaxAttached
  BY BoundAssumption DEF Clear
<1>2. attached' \in [Wallet -> 0 .. MaxAttached]
  BY <1>1 DEF Removed, AdapterTyped
<1>3. StateTyped' /\ ObservedTyped'
  BY DEF Clear, StateTyped, ObservedTyped, AdapterTyped, NotifyListeners
<1>4. QED
  BY <1>1, <1>2, <1>3 DEF Clear, AdapterTyped, Removed

(* A handler of an account or network change starts in idle tasks, one at  *)
(* least if the adapter has a wallet.                                      *)
LEMMA RefreshTyped ==
  ASSUME AdapterTyped, NEW w \in Wallet, RefreshSigner(w), attached[w] > 0
  PROVE  /\ task' \in [Task -> TaskState] /\ ObservedTyped' /\ heard' = heard
         /\ UNCHANGED <<provider, signer, eip1193Provider, attached>>
         /\ \A t \in Task :
              \/ task'[t] = task[t]
              \/ /\ task[t] = Idle /\ provider \in Wallet /\ TaskOK(t)'
                 /\ task'[t] = [op |-> "onEvent", at |-> "signer", arg |-> provider,
                               asked |-> provider]
         /\ provider \in Wallet => \E t \in Task : task'[t].at = "signer"
<1> USE DEF AdapterTyped
<1>1. /\ ObservedTyped' /\ heard' = heard
      /\ UNCHANGED <<provider, signer, eip1193Provider, attached>>
  BY DEF RefreshSigner, NotifyListeners, ObservedTyped
<1>2. CASE provider \notin Wallet
  BY <1>1, <1>2 DEF RefreshSigner
<1>3. CASE provider \in Wallet
  <2> DEFINE h == [op |-> "onEvent", at |-> "signer", arg |-> provider, asked |-> provider]
  <2>1. PICK T \in SUBSET Task :
          /\ StartHandlers(w, T)
          /\ task' = [t \in Task |-> IF t \in T THEN h ELSE task[t]]
    BY <1>3 DEF RefreshSigner
  <2>2. h \in TaskState
    BY <1>3 DEF TaskState, Op, Endpoint
  <2>3. T # {}
    <3>1. attached[w] # 0
      BY BoundAssumption
    <3>2. QED
      BY <2>1, <3>1, FS_EmptySet DEF StartHandlers
  <2>4. PICK t \in T : TRUE
    BY <2>3
  <2>5. task'[t].at = "signer"
    BY <2>1
  <2>6. ASSUME NEW s \in T PROVE task[s] = Idle /\ task'[s] = h /\ TaskOK(s)'
    <3>1. task[s] = Idle /\ task'[s] = h
      BY <2>1 DEF StartHandlers
    <3>2. QED
      BY <1>3, <3>1, WalletAssumption DEF TaskOK
  <2>7. task' \in [Task -> TaskState]
    BY <2>1, <2>2
  <2>8. QED
    BY <1>1, <1>3, <2>1, <2>4, <2>5, <2>6, <2>7
<1>4. QED
  BY <1>2, <1>3

(* What a delivered message does to the adapter: an answer resumes its     *)
(* task; an event, if a handler is attached, is handled.                   *)
LEMMA DeliverTyped ==
  ASSUME TypeOK, ChannelInv, NEW e \in Endpoint, Deliver(e)
  PROVE  /\ AdapterTyped'
         /\ inbox[e] # <<>> /\ inbox' = [inbox EXCEPT ![e] = Tail(@)]
         /\ Head(inbox[e]) = inbox[e][1] /\ inbox[e][1] \in Message
         /\ UNCHANGED walletVars
         /\ \A t \in Task : TaskOK(t)'
         /\ \A t \in Task : \/ task'[t] = task[t] \/ task[t] = Idle
                            \/ Answers(e, 1) /\ inbox[e][1].to = t
<1> DEFINE m == inbox[e][1]
<1>1. AdapterTyped /\ \A t \in Task : TaskOK(t)
  BY DEF TypeOK, AdapterTyped, StateTyped, ObservedTyped, ChannelInv
<1>2. /\ inbox[e] # <<>> /\ inbox' = [inbox EXCEPT ![e] = Tail(@)]
      /\ UNCHANGED walletVars
  BY DEF Deliver
<1>3. 1 \in 1 .. Len(inbox[e]) /\ Head(inbox[e]) = m /\ m \in Message
  BY <1>2, TailFacts, ElementOfSeq DEF ChannelInv
<1> HIDE DEF m
<1>4. CASE m.kind = "answer" /\ Resume(m.to, m.value)
  <2>1. Answers(e, 1) /\ m.to \in Task /\ Expected(m)
    BY <1>3, <1>4, MessageTyped DEF Answers, ChannelInv, m
  <2>2. PICK t \in Task : t = m.to
    BY <2>1
  <2>2a. PICK v : v = m.value
    OBVIOUS
  <2>3. AdapterTyped' /\ OnlyMoves(t) /\ TaskOK(t)'
    <3>1. /\ Resume(t, v) /\ TaskOK(t) /\ task[t] # Idle
          /\ AboutAccount(task[t].at) => v \in Account \cup {None}
          /\ task[t].at = "network" => v \in Chain \cup {None}
      BY <1>1, <1>4, <2>1, <2>2, <2>2a DEF Expected
    <3>2. QED
      BY <1>1, <3>1, ResumeTyped
  <2>4. ASSUME NEW s \in Task PROVE TaskOK(s)' /\ (task'[s] = task[s] \/ s = t)
    <3>1. CASE s = t
      BY <2>3, <3>1
    <3>2. CASE s # t
      <4>1. task'[s] = task[s] /\ TaskOK(s)
        BY <1>1, <2>3, <3>2 DEF OnlyMoves
      <4>2. QED
        BY <4>1 DEF TaskOK
    <3>3. QED
      BY <3>1, <3>2
  <2>5. QED
    BY <1>2, <1>3, <2>1, <2>2, <2>2a, <2>3, <2>4 DEF m
<1>5. CASE e \in Wallet /\ Handle(e, m)
  <2>1. CASE Clear /\ UNCHANGED <<task, settled, heard>>
    BY <1>1, <1>2, <1>3, <2>1, ClearTyped DEF TaskOK, m
  <2>2. ASSUME attached[e] > 0, RefreshSigner(e),
               account' \in Account \cup {None}, chainId' \in Chain \cup {None}
        PROVE  AdapterTyped' /\ (\A t \in Task : TaskOK(t)')
               /\ (\A t \in Task : task'[t] = task[t] \/ task[t] = Idle)
    <3>1. /\ task' \in [Task -> TaskState] /\ ObservedTyped'
          /\ UNCHANGED <<provider, signer, eip1193Provider, attached>>
          /\ \A t \in Task : task'[t] = task[t] \/ (task[t] = Idle /\ TaskOK(t)')
      BY <1>1, <1>5, <2>2, RefreshTyped
    <3>2. AdapterTyped'
      BY <1>1, <2>2, <3>1 DEF AdapterTyped, StateTyped
    <3>3. QED
      BY <1>1, <3>1, <3>2 DEF TaskOK
  <2>3. CASE attached[e] > 0 /\ m.kind = "accountsChanged" /\ AccountsChanged(e, m.value)
    <3>1. CASE m.value # None
      <4>1. /\ account' \in Account /\ chainId' \in Chain \cup {None}
            /\ RefreshSigner(e)
        BY <1>1, <1>3, <2>3, <3>1, MessageTyped
           DEF AccountsChanged, AdapterTyped, StateTyped
      <4>2. QED
        BY <1>2, <1>3, <2>2, <2>3, <4>1 DEF m
    <3>2. QED
      BY <2>1, <2>3, <3>1 DEF AccountsChanged
  <2>4. CASE attached[e] > 0 /\ m.kind = "chainChanged" /\ ChainChanged(e, m.value)
    <3>1. /\ account' \in Account \cup {None} /\ chainId' \in Chain
          /\ RefreshSigner(e)
      BY <1>1, <1>3, <2>4, MessageTyped DEF ChainChanged, AdapterTyped, StateTyped
    <3>2. QED
      BY <1>2, <1>3, <2>2, <2>4, <3>1 DEF m
  <2>5. CASE /\ attached[e] = 0 /\ heard' = heard \ {e}
             /\ UNCHANGED <<stateVars, eip1193Provider, attached, task, told, settled>>
    BY <1>1, <1>2, <1>3, <2>5
       DEF AdapterTyped, StateTyped, stateVars, ObservedTyped, TaskOK, m
  <2>6. QED
    BY <1>5, <2>1, <2>3, <2>4, <2>5 DEF Handle, WalletDisconnected
<1>6. QED
  BY <1>3, <1>4, <1>5 DEF Deliver

(* The user changes the wallet, and it says so.                            *)
LEMMA UserFacts ==
  ASSUME TypeOK, ChannelInv, NEW w \in Wallet, UserChangesWallet(w)
  PROVE  /\ exposed' \in [Wallet -> Account \cup {None}] /\ chain' \in [Wallet -> Chain]
         /\ UNCHANGED <<stateVars, eip1193Provider, attached, task, told, settled, heard>>
         /\ \E n \in Message :
              /\ n.kind # "answer" /\ Send(w, <<n>>)
              /\ \A x \in Wallet :
                   /\ exposed'[x] = exposed[x] \/ (x = w /\ n.kind = "accountsChanged")
                   /\ chain'[x] = chain[x] \/ (x = w /\ n.kind = "chainChanged")
              /\ n.kind = "accountsChanged" => n.value = exposed'[w]
              /\ n.kind = "chainChanged" => n.value = chain'[w]
<1> USE DEF TypeOK, Event
<1>1. UNCHANGED <<stateVars, eip1193Provider, attached, task, told, settled, heard>>
  BY DEF UserChangesWallet
<1>2. CASE \E a \in (Account \cup {None}) \ {exposed[w]} :
             /\ exposed' = [exposed EXCEPT ![w] = a]
             /\ Send(w, <<Event("accountsChanged", a)>>)
             /\ UNCHANGED chain
  <2>1. PICK a \in Account \cup {None} :
          /\ exposed' = [exposed EXCEPT ![w] = a]
          /\ Send(w, <<Event("accountsChanged", a)>>)
          /\ UNCHANGED chain
    BY <1>2
  <2>2. Event("accountsChanged", a) \in Message
    BY DEF Message
  <2>3. QED
    BY <1>1, <2>1, <2>2
<1>3. CASE \E c \in Chain \ {chain[w]} :
             /\ chain' = [chain EXCEPT ![w] = c]
             /\ Send(w, <<Event("chainChanged", c)>>)
             /\ UNCHANGED exposed
  <2>1. PICK c \in Chain :
          /\ chain' = [chain EXCEPT ![w] = c]
          /\ Send(w, <<Event("chainChanged", c)>>)
          /\ UNCHANGED exposed
    BY <1>3
  <2>2. Event("chainChanged", c) \in Message
    BY DEF Message
  <2>3. QED
    BY <1>1, <2>1, <2>2
<1>4. CASE Send(w, <<Event("disconnect", None)>>) /\ UNCHANGED walletVars
  <2>1. Event("disconnect", None) \in Message
    BY DEF Message
  <2>2. QED
    BY <1>1, <1>4, <2>1 DEF walletVars
<1>5. QED
  BY <1>2, <1>3, <1>4 DEF UserChangesWallet

(* The invariant of the types and the channels.                            *)
LEMMA ChannelStep ==
  ASSUME TypeOK, ChannelInv, [Next]_vars
  PROVE  TypeOK' /\ ChannelInv'
<1>1. /\ AdapterTyped /\ exposed \in [Wallet -> Account \cup {None}]
      /\ chain \in [Wallet -> Chain] /\ \A t \in Task : TaskOK(t)
  BY DEF TypeOK, AdapterTyped, StateTyped, ObservedTyped, ChannelInv
<1>2. ASSUME AdapterTyped', exposed' \in [Wallet -> Account \cup {None}],
             chain' \in [Wallet -> Chain]
      PROVE  TypeOK'
  BY <1>2 DEF TypeOK, AdapterTyped, StateTyped, ObservedTyped
<1>3. ASSUME NEW t \in Task, Starts(t) PROVE TypeOK' /\ ChannelInv'
  <2>1. /\ AdapterTyped' /\ OnlyMoves(t) /\ TaskOK(t)'
        /\ task[t] = Idle /\ UNCHANGED <<inbox, walletVars>>
    BY <1>1, <1>3, CallTyped
  <2>2. TypeOK'
    BY <1>1, <1>2, <2>1 DEF walletVars
  <2>3. \A s \in Task : TaskOK(s)' /\ (task'[s] = task[s] \/ task[s] = Idle)
    BY <1>1, <2>1 DEF OnlyMoves, TaskOK
  <2>4. QED
    BY <2>1, <2>2, <2>3, TasksKeep
<1>4. ASSUME NEW t \in Task, Serve(t) PROVE TypeOK' /\ ChannelInv'
  <2> DEFINE e == task[t].asked
  <2>1. /\ e \in Endpoint /\ task[t] # Idle /\ OnlyMoves(t)
        /\ task'[t] = [task[t] EXCEPT !.asked = None]
        /\ exposed' \in [Wallet -> Account \cup {None}] /\ chain' \in [Wallet -> Chain]
    BY <1>4, ServeFacts
  <2>2. TypeOK'
    BY <1>1, <1>2, <1>4, <2>1
       DEF Serve, AdapterTyped, OnlyMoves, StateTyped, stateVars, ObservedTyped
  <2>3. PICK ms : Truly(t, e, ms)
    BY <1>4, ServeFacts
  <2>4. task[t] \in TaskState /\ TaskOK(t) /\ e # None
    BY <1>1, <1>4 DEF AdapterTyped, Serve
  <2>5. task'[t].at = task[t].at /\ task'[t].asked = None /\ task'[t] # Idle
        /\ TaskOK(t)'
    <3>1. /\ task'[t].op = task[t].op /\ task'[t].at = task[t].at
          /\ task'[t].arg = task[t].arg /\ task'[t].asked = None
      BY <2>1, <2>4 DEF TaskState
    <3>2. task[t].op # "idle"
      BY <2>1, <2>4 DEF TaskOK
    <3>3. TaskOK(t)'
      BY <2>1, <2>4, <3>1, NoneIsNew DEF TaskOK
    <3>4. QED
      BY <3>1, <3>2, <3>3 DEF Idle
  <2>6. ASSUME NEW s \in Task PROVE TaskOK(s)'
    <3>1. CASE s = t
      BY <2>5, <3>1
    <3>2. CASE s # t
      <4>1. task'[s] = task[s] /\ TaskOK(s)
        BY <1>1, <2>1, <3>2 DEF OnlyMoves
      <4>2. QED
        BY <4>1 DEF TaskOK
    <3>3. QED
      BY <3>1, <3>2
  <2>7. \A f \in Endpoint : \A i \in 1 .. Len(inbox[f]) :
          Answers(f, i) => inbox[f][i].to # t
    BY <2>4 DEF ChannelInv, Expected
  <2>8. PICK f \in Endpoint : f = e
    BY <2>1
  <2>9. ChannelInv'
    <3>1. ms \in Seq(Message) /\ Send(f, ms)
      BY <2>3, <2>8 DEF Truly
    <3>2. \A k \in 1 .. Len(ms) : ms[k].kind = "answer" =>
            /\ ms[k].to = t
            /\ Expected(ms[k])'
            /\ \A g \in Endpoint : \A i \in 1 .. Len(inbox[g]) :
                 Answers(g, i) => inbox[g][i].to # ms[k].to
      BY <2>3, <2>5, <2>7 DEF Truly, Expected
    <3>3. f \in Wallet => \A k \in 1 .. Len(ms) :
            /\ TellsAccount(ms[k])' => ms[k].value = exposed'[f]
            /\ TellsChain(ms[k])' => ms[k].value = chain'[f]
      BY <2>3, <2>5, <2>8, <3>2 DEF Truly, TellsAccount, TellsChain
    <3>4. \A s \in Task : \/ task'[s] = task[s]
                          \/ \A g \in Endpoint : \A i \in 1 .. Len(inbox[g]) :
                               Answers(g, i) => inbox[g][i].to # s
      BY <2>1, <2>7 DEF OnlyMoves
    <3>5. /\ \A k, l \in 1 .. Len(ms) :
               ms[k].kind = "answer" /\ ms[l].kind = "answer" => k = l
          /\ \A w \in Wallet :
               /\ \/ exposed'[w] = exposed[w]
                  \/ w = f /\ \E k \in 1 .. Len(ms) : ms[k].kind = "accountsChanged"
               /\ \/ chain'[w] = chain[w]
                  \/ w = f /\ \E k \in 1 .. Len(ms) : ms[k].kind = "chainChanged"
      BY <2>3, <2>8 DEF Truly
    <3>6. QED
      BY <2>6, <3>1, <3>2, <3>3, <3>4, <3>5, SendingKeeps
  <2>10. QED
    BY <2>2, <2>9
<1>5. ASSUME NEW w \in Wallet, UserChangesWallet(w) PROVE TypeOK' /\ ChannelInv'
  <2>1. /\ exposed' \in [Wallet -> Account \cup {None}] /\ chain' \in [Wallet -> Chain]
        /\ UNCHANGED <<stateVars, eip1193Provider, attached, task, told, settled, heard>>
    BY <1>5, UserFacts
  <2>2. PICK n \in Message :
          /\ n.kind # "answer" /\ Send(w, <<n>>)
          /\ \A x \in Wallet :
               /\ exposed'[x] = exposed[x] \/ (x = w /\ n.kind = "accountsChanged")
               /\ chain'[x] = chain[x] \/ (x = w /\ n.kind = "chainChanged")
          /\ n.kind = "accountsChanged" => n.value = exposed'[w]
          /\ n.kind = "chainChanged" => n.value = chain'[w]
    BY <1>5, UserFacts
  <2>3. TypeOK'
    BY <1>1, <1>2, <2>1 DEF AdapterTyped, StateTyped, stateVars, ObservedTyped
  <2>4. \A t \in Task : TaskOK(t)'
    BY <1>1, <2>1 DEF TaskOK
  <2>5. PICK ms \in Seq(Message) :
          /\ Send(w, ms) /\ Len(ms) = 1 /\ \A k \in 1 .. 1 : ms[k] = n
    <3>1. <<n>> \in Seq(Message) /\ Len(<<n>>) = 1 /\ \A k \in 1 .. 1 : <<n>>[k] = n
      OBVIOUS
    <3>2. QED
      BY <2>2, <3>1
  <2>6. w \in Endpoint /\ 1 \in 1 .. 1
    BY DEF Endpoint
  <2>7. \A k \in 1 .. Len(ms) : /\ ms[k].kind # "answer"
                                /\ TellsAccount(ms[k])' => ms[k].value = exposed'[w]
                                /\ TellsChain(ms[k])' => ms[k].value = chain'[w]
    BY <2>2, <2>5 DEF TellsAccount, TellsChain
  <2>8. \A x \in Wallet :
          /\ \/ exposed'[x] = exposed[x]
             \/ x = w /\ \E k \in 1 .. Len(ms) : ms[k].kind = "accountsChanged"
          /\ \/ chain'[x] = chain[x]
             \/ x = w /\ \E k \in 1 .. Len(ms) : ms[k].kind = "chainChanged"
    BY <2>2, <2>5, <2>6
  <2>9. ChannelInv'
    BY <2>1, <2>4, <2>5, <2>6, <2>7, <2>8, SendingKeeps
  <2>10. QED
    BY <2>3, <2>9
<1>6. ASSUME NEW e \in Endpoint, Deliver(e) PROVE TypeOK' /\ ChannelInv'
  <2>1. /\ AdapterTyped'
        /\ inbox[e] # <<>> /\ inbox' = [inbox EXCEPT ![e] = Tail(@)]
        /\ UNCHANGED walletVars
        /\ \A t \in Task : TaskOK(t)'
        /\ \A t \in Task : \/ task'[t] = task[t] \/ task[t] = Idle
                           \/ Answers(e, 1) /\ inbox[e][1].to = t
    BY <1>6, DeliverTyped
  <2>2. TypeOK'
    BY <1>1, <1>2, <2>1 DEF walletVars
  <2>3. QED
    BY <2>1, <2>2, DeliveryKeeps
<1>7. ASSUME Disconnect PROVE TypeOK' /\ ChannelInv'
  <2>1. Clear /\ UNCHANGED <<inbox, walletVars, task, settled, heard>>
    BY <1>7 DEF Disconnect
  <2>2. TypeOK'
    BY <1>1, <1>2, <2>1, ClearTyped DEF walletVars
  <2>3. \A t \in Task : TaskOK(t)'
    BY <1>1, <2>1 DEF TaskOK
  <2>4. QED
    BY <2>1, <2>2, <2>3, TasksKeep
<1>8. ASSUME NEW s \in LocalSigners, ConnectWithLocalSigner(s)
      PROVE  TypeOK' /\ ChannelInv'
  <2>1. UNCHANGED <<inbox, walletVars, task>>
    BY <1>8 DEF ConnectWithLocalSigner
  <2>2. TypeOK'
    BY <1>8 DEF ConnectWithLocalSigner, NotifyListeners, TypeOK, LocalSigners, walletVars
  <2>3. \A t \in Task : TaskOK(t)'
    BY <1>1, <2>1 DEF TaskOK
  <2>4. QED
    BY <2>1, <2>2, <2>3, TasksKeep
<1>9. ASSUME UNCHANGED vars PROVE TypeOK' /\ ChannelInv'
  <2>1. /\ UNCHANGED <<inbox, walletVars, task>>
        /\ UNCHANGED <<exposed, chain, stateVars, eip1193Provider, attached, told,
                       settled, heard>>
    BY <1>9 DEF vars, walletVars
  <2>2. TypeOK'
    BY <2>1 DEF TypeOK, stateVars
  <2>3. \A t \in Task : TaskOK(t)'
    BY <1>1, <2>1 DEF TaskOK
  <2>4. QED
    BY <2>1, <2>2, <2>3, TasksKeep
<1>10. QED
  BY <1>3, <1>4, <1>5, <1>6, <1>7, <1>8, <1>9 DEF Next, Starts

(* Type correctness, and what is known of the messages under way: a task   *)
(* awaits at most one answer, and the last a wallet said of its account or *)
(* network is true.                                                        *)
THEOREM ChannelsCorrect == Spec => [](TypeOK /\ ChannelInv)
<1>1. Init => TypeOK /\ ChannelInv
  <2> SUFFICES ASSUME Init PROVE TypeOK /\ ChannelInv
    OBVIOUS
  <2>1. TypeOK
    BY BoundAssumption DEF Init, TypeOK, Idle, TaskState, Op
  <2>2. \A t \in Task : TaskOK(t)
    BY DEF Init, TaskOK
  <2>3. \A e \in Endpoint : inbox[e] = <<>> /\ Len(inbox[e]) = 0 /\ 1 .. 0 = {}
    BY DEF Init
  <2>4. inbox \in [Endpoint -> Seq(Message)]
    BY DEF Init
  <2>5. QED
    BY <2>1, <2>2, <2>3, <2>4 DEF ChannelInv, Endpoint
<1>2. QED
  BY <1>1, ChannelStep, PTL DEF Spec

(* Every field of the adapter holds a value of its kind, however the       *)
(* methods and handlers that assign it interleave.                         *)
THEOREM TypeCorrect == Spec => []TypeOK
  BY ChannelsCorrect, PTL

--------------------------------------------------------------------------------
(* Who is told.  A task that may have assigned fields, and that will call  *)
(* the listeners or throw.                                                 *)
Busy(t) == task[t].op \notin {"idle", "switchNetwork"}

(* A task that goes on assigns fields only if it is going to tell, or it   *)
(* throws.                                                                 *)
LEMMA ToldResume ==
  ASSUME TypeOK, ToldInv, NEW t \in Task, TaskOK(t), task[t] # Idle, NEW v, Resume(t, v)
  PROVE  ToldInv'
<1>1. ASSUME told' = TRUE \/ settled' = "failed" PROVE ToldInv'
  BY <1>1 DEF ToldInv
<1>2. ASSUME NEW s \in Task, Busy(s)' PROVE ToldInv'
  BY <1>2 DEF ToldInv, Busy
<1>3. ASSUME UNCHANGED <<told, settled>>, \A s \in Task : Busy(s) => Busy(s)'
      PROVE  ToldInv'
  BY <1>3 DEF ToldInv, Busy
<1>4. ASSUME NEW op, NEW at, NEW arg, NEW e, Await(t, op, at, arg, e)
      PROVE  task'[t].op = op /\ \A s \in Task \ {t} : task'[s] = task[s]
  BY <1>4 DEF Await, TypeOK
<1>5. ASSUME NEW at, NEW arg, NEW e,
             \/ Await(t, "connectWithProvider", at, arg, e)
             \/ Await(t, "connectWithProviderInstance", at, arg, e)
      PROVE  ToldInv'
  <2>1. Busy(t)'
    BY <1>4, <1>5 DEF Busy
  <2>2. QED
    BY <1>2, <2>1
<1>6. ASSUME Throw(t), task[t].op # "switchNetwork" PROVE ToldInv'
  BY <1>1, <1>6 DEF Throw
<1>7. ASSUME Return({t}) PROVE ToldInv'
  BY <1>1, <1>7 DEF Return, NotifyListeners
<1>8. ASSUME task[t].op = "switchNetwork", UNCHANGED <<told, settled>>,
             task' = [task EXCEPT ![t] = Idle]
      PROVE  ToldInv'
  <2>1. \A s \in Task : Busy(s) => Busy(s)'
    BY <1>8 DEF Busy, TypeOK
  <2>2. QED
    BY <1>3, <1>8, <2>1
<1>9. CASE AccountsGranted(t, v) \/ SignerForConnect(t, v) \/ NetworkForConnect(t, v)
           \/ SignerForInstance(t, v) \/ ReadOnly(t, v)
  <2>1. CASE task[t].op # "switchNetwork" /\ Throw(t)
    BY <1>6, <2>1
  <2>2. CASE Return({t})
    BY <1>7, <2>2
  <2>3. CASE \E op \in {"connectWithProvider", "connectWithProviderInstance"}, at \in At,
                e \in Endpoint \cup {None} : Await(t, op, at, task[t].arg, e)
    BY <1>5, <2>3
  <2>4. task[t].arg \in Endpoint \/ ~(AccountsGranted(t, v) \/ SignerForInstance(t, v)
                                      \/ ReadOnly(t, v))
    BY Awaiting DEF AccountsGranted, SignerForInstance, ReadOnly, Resumes, TypeOK, Endpoint
  <2>5. provider \in Endpoint \cup {None} /\ eip1193Provider \in Endpoint \cup {None}
    BY DEF TypeOK, Endpoint
  <2>6. QED
    BY <1>9, <2>1, <2>2, <2>3, <2>4, <2>5
       DEF AccountsGranted, SignerForConnect, NetworkForConnect, Finish,
           SignerForInstance, ReadOnly, Resumes, At
<1>10. CASE SwitchAnswered(t, v)
  <2>1. CASE Switched(t)
    BY <1>7, <1>8, <2>1 DEF Switched, Finish
  <2>2. ASSUME NEW at, AskNext(t, at),
               task[t].op \in {"connectWithProvider", "switchNetwork"}
        PROVE  ToldInv'
    <3>1. CASE UNCHANGED <<settled, heard>>
               /\ Await(t, task[t].op, at, task[t].arg, eip1193Provider)
      <4>1. \A s \in Task : Busy(s) => Busy(s)'
        BY <1>4, <3>1 DEF Busy
      <4>2. QED
        BY <1>3, <2>2, <3>1, <4>1 DEF AskNext
    <3>2. CASE Throw(t)
      BY <1>6, <1>8, <2>2, <3>2 DEF AskNext, Throw
    <3>3. QED
      BY <2>2, <3>1, <3>2 DEF AskNext
  <2>3. QED
    BY <1>10, <2>1, <2>2 DEF SwitchAnswered, Resumes
<1>11. CASE NetworkForInstance(t, v) \/ NetworkForSigner(t, v) \/ NetworkForRpc(t, v)
            \/ SignerForHandler(t, v)
  BY <1>7, <1>11
     DEF NetworkForInstance, NetworkForSigner, NetworkForRpc, SignerForHandler
<1>12. CASE RequestFails(t, v)
  BY <1>6, <1>8, <1>12 DEF RequestFails, Throw
<1>13. QED
  BY <1>9, <1>10, <1>11, <1>12 DEF Resume

(* So does every other step.                                               *)
LEMMA ToldStep ==
  ASSUME TypeOK, ChannelInv, ToldInv, [Next]_vars
  PROVE  ToldInv'
<1>1. AdapterTyped /\ \A t \in Task : TaskOK(t)
  BY DEF TypeOK, AdapterTyped, StateTyped, ObservedTyped, ChannelInv
<1>2. ASSUME told' = TRUE PROVE ToldInv'
  BY <1>2 DEF ToldInv
<1>3. ASSUME UNCHANGED <<told, settled>>, \A s \in Task : Busy(s) => Busy(s)'
      PROVE  ToldInv'
  BY <1>3 DEF ToldInv, Busy
<1>4. ASSUME NEW t \in Task, Starts(t) PROVE ToldInv'
  <2>1. OnlyMoves(t) /\ task[t] = Idle /\ settled' = settled
    BY <1>1, <1>4, CallTyped
       DEF Starts, ConnectWithProvider, ConnectWithProviderInstance, ConnectWithSigner,
           ConnectWithRpc, SwitchNetwork
  <2>2. \A s \in Task : Busy(s) => Busy(s)'
    BY <2>1 DEF Busy, OnlyMoves, Idle
  <2>3. CASE told' = told
    BY <1>3, <2>1, <2>2, <2>3
  <2>4. CASE told' # told
    <3>1. task'[t].op \in {"connectWithProviderInstance", "connectWithSigner",
                           "connectWithRpc"}
      BY <1>1, <1>4, <2>4
         DEF Starts, ConnectWithProvider, ConnectWithProviderInstance,
             ConnectWithSigner, ConnectWithRpc, SwitchNetwork, Await, AdapterTyped
    <3>2. QED
      BY <3>1 DEF ToldInv
  <2>5. QED
    BY <2>3, <2>4
<1>5. ASSUME NEW t \in Task, Serve(t) PROVE ToldInv'
  <2>1. /\ OnlyMoves(t) /\ task'[t] = [task[t] EXCEPT !.asked = None]
        /\ UNCHANGED <<told, settled>>
    BY <1>5, ServeFacts DEF Serve
  <2>2. task'[t].op = task[t].op
    BY <1>1, <2>1 DEF AdapterTyped, TaskState
  <2>3. \A s \in Task : Busy(s) => Busy(s)'
    BY <2>1, <2>2 DEF Busy, OnlyMoves
  <2>4. QED
    BY <1>3, <2>1, <2>3
<1>6. ASSUME NEW w \in Wallet, UserChangesWallet(w) PROVE ToldInv'
  BY <1>3, <1>6 DEF UserChangesWallet, Busy
<1>7. ASSUME NEW e \in Endpoint, Deliver(e) PROVE ToldInv'
  <2> DEFINE m == inbox[e][1]
  <2>1. Head(inbox[e]) = m /\ m \in Message
    BY <1>7, DeliverTyped
  <2> HIDE DEF m
  <2>2. CASE m.kind = "answer" /\ Resume(m.to, m.value)
    <3>1. m.to \in Task /\ Expected(m)
      <4>1. 1 \in 1 .. Len(inbox[e])
        BY <1>7, TailFacts DEF ChannelInv, Deliver
      <4>2. QED
        BY <2>1, <2>2, <4>1, MessageTyped DEF Answers, ChannelInv, m
    <3>2. PICK t \in Task : t = m.to
      BY <3>1
    <3>2a. PICK v : v = m.value
      OBVIOUS
    <3>3. Resume(t, v) /\ task[t] # Idle /\ TaskOK(t)
      BY <1>1, <2>2, <3>1, <3>2, <3>2a DEF Expected
    <3>4. QED
      BY <3>3, ToldResume
  <2>3. CASE e \in Wallet /\ Handle(e, m)
    <3>1. CASE Clear
      BY <1>2, <3>1 DEF Clear, NotifyListeners
    <3>2. CASE attached[e] > 0 /\ RefreshSigner(e)
      <4>1. CASE provider \notin Wallet
        BY <1>2, <3>2, <4>1 DEF RefreshSigner, NotifyListeners
      <4>2. CASE provider \in Wallet
        <5>1. PICK t \in Task : task'[t].at = "signer"
          BY <1>1, <2>3, <3>2, <4>2, RefreshTyped
        <5>2. task'[t] = task[t] \/ task'[t].op = "onEvent"
          BY <1>1, <2>3, <3>2, RefreshTyped
        <5>3. Busy(t)'
          <6>1. CASE task'[t].op = "onEvent"
            BY <6>1 DEF Busy
          <6>2. CASE task'[t] = task[t]
            BY <1>1, <5>1, <6>2 DEF Busy, TaskOK, Idle
          <6>3. QED
            BY <5>2, <6>1, <6>2
        <5>4. QED
          BY <5>3 DEF ToldInv, Busy
      <4>3. QED
        BY <4>1, <4>2
    <3>3. CASE UNCHANGED <<stateVars, eip1193Provider, attached, task, told, settled>>
      BY <1>3, <3>3 DEF Busy
    <3>4. QED
      BY <2>3, <3>1, <3>2, <3>3
         DEF Handle, AccountsChanged, ChainChanged, WalletDisconnected
  <2>4. QED
    BY <1>7, <2>1, <2>2, <2>3 DEF Deliver
<1>8. ASSUME Disconnect PROVE ToldInv'
  BY <1>2, <1>8 DEF Disconnect, Clear, NotifyListeners
<1>9. ASSUME NEW s \in LocalSigners, ConnectWithLocalSigner(s) PROVE ToldInv'
  BY <1>9 DEF ConnectWithLocalSigner, NotifyListeners, ToldInv
<1>10. ASSUME UNCHANGED vars PROVE ToldInv'
  BY <1>3, <1>10 DEF vars, Busy
<1>11. QED
  BY <1>4, <1>5, <1>6, <1>7, <1>8, <1>9, <1>10 DEF Next, Starts

(* At rest, unless the last method threw, the listeners have been told     *)
(* every field, however the methods and handlers overlapped.               *)
THEOREM ListenersTold == Spec => []ListenersUpToDate
<1>1. Init => ToldInv
  BY DEF Init, ToldInv
<1>2. ToldInv => ListenersUpToDate
  BY DEF ToldInv, ListenersUpToDate, AtRest, Idle
<1>3. TypeOK /\ ChannelInv /\ ToldInv /\ [Next]_vars => ToldInv'
  BY ToldStep
<1>4. QED
  BY <1>1, <1>2, <1>3, ChannelsCorrect, PTL DEF Spec

--------------------------------------------------------------------------------
(* A session with one wallet.  A step that assigns no field of the adapter *)
(* keeps what it follows, if no task goes on that is to store an answer.   *)
Connecting(t) == task[t].op = "connectWithProvider" /\ task[t].at = "network"

(* Where neither the fields nor what tasks are to store changes, only the  *)
(* events of the wallet can tell it from the adapter.                      *)
LEMMA FollowsKeep ==
  ASSUME NEW w \in Wallet, Follows(w), UNCHANGED stateVars,
         /\ Latest(w, 0, "accountsChanged")'
              => Latest(w, 0, "accountsChanged") /\ exposed'[w] = exposed[w]
         /\ Latest(w, 0, "chainChanged")'
              => Latest(w, 0, "chainChanged") /\ chain'[w] = chain[w],
         \A t \in Task :
           \/ task'[t].at = task[t].at /\ task'[t].op = task[t].op
           \/ ~AboutAccount(task[t].at) /\ ~Connecting(t)
  PROVE  Follows(w)'
<1>1. (\A t \in Task : task'[t].at # "accounts") => \A t \in Task : task[t].at # "accounts"
  BY DEF AboutAccount
<1>2. (\A t \in Task : ~AboutAccount(task'[t].at))
        => \A t \in Task : ~AboutAccount(task[t].at)
  OBVIOUS
<1>3. ASSUME \A t \in Task : task'[t].op = "connectWithProvider"
                  => task'[t].at \notin {"accounts", "signer", "network"}
      PROVE  \A t \in Task : task[t].op = "connectWithProvider"
                  => task[t].at \notin {"accounts", "signer", "network"}
  BY <1>3 DEF AboutAccount, Connecting
<1>4. QED
  BY <1>1, <1>2, <1>3 DEF Follows, stateVars, AboutAccount

(* Where nothing runs, no answer is under way.                             *)
LEMMA NobodyAnswers ==
  ASSUME ChannelInv, \A t \in Task : task[t] = Idle
  PROVE  \A e \in Endpoint : \A i \in 1 .. Len(inbox[e]) : ~Answers(e, i)
<1> SUFFICES ASSUME NEW e \in Endpoint, NEW i \in 1 .. Len(inbox[e]), Answers(e, i)
             PROVE  FALSE
  OBVIOUS
<1>1. Expected(inbox[e][i]) /\ inbox[e][i] \in Message /\ inbox[e][i].kind = "answer"
  BY ElementOfSeq DEF ChannelInv, Answers
<1>2. QED
  BY <1>1, MessageTyped DEF Expected

(* A method called begins a session, goes on with it, or ends it.          *)
LEMMA SessionCalls ==
  ASSUME TypeOK, ChannelInv, SessionInv, NEW t \in Task, Starts(t)
  PROVE  SessionInv'
<1> SUFFICES ASSUME NEW w \in heard' PROVE Session(w)' /\ Follows(w)'
  BY DEF SessionInv
<1>1. AdapterTyped /\ AdapterTyped' /\ OnlyMoves(t) /\ task[t] = Idle
      /\ UNCHANGED <<inbox, exposed, chain>> /\ w \in Wallet
  BY CallTyped DEF TypeOK, AdapterTyped, StateTyped, ObservedTyped, walletVars
<1>2. CASE ConnectWithProvider(t, w)
  <2>1. /\ w \in heard \/ Begins(w)
        /\ eip1193Provider' = w /\ UNCHANGED <<stateVars, attached>>
        /\ task'[t] = [op |-> "connectWithProvider", at |-> "accounts",
                      arg |-> w, asked |-> w]
    BY <1>1, <1>2 DEF ConnectWithProvider, Call, Await, AdapterTyped
  <2>2. /\ \A x \in Wallet \ {w} : attached[x] = 0 /\ provider # x
        /\ \A s \in Task : /\ task[s].op \in InSession
                           /\ {task[s].arg, task[s].asked} \subseteq {None, w}
        /\ \A e \in Endpoint \ {w} : \A i \in 1 .. Len(inbox[e]) : ~Answers(e, i)
        /\ (\E s \in Task : task[s].at = "signer") => provider # Rpc
    <3>1. CASE w \in heard
      BY <3>1 DEF SessionInv, Session
    <3>2. CASE Begins(w)
      BY <3>2, NobodyAnswers DEF Begins, Idle, InSession
    <3>3. QED
      BY <2>1, <3>1, <3>2
  <2>3. \A s \in Task : task'[s] = task[s] \/ s = t
    BY <1>1 DEF OnlyMoves
  <2>4. Session(w)'
    <3>1. \A s \in Task : /\ task'[s].op \in InSession
                          /\ {task'[s].arg, task'[s].asked} \subseteq {None, w}
      BY <2>1, <2>2, <2>3 DEF InSession
    <3>2. \A e \in Endpoint \ {w} : \A i \in 1 .. Len(inbox'[e]) : ~Answers(e, i)'
      BY <1>1, <2>2 DEF Answers
    <3>3. (\E s \in Task : task'[s].at = "signer") => provider' # Rpc
      BY <2>1, <2>2, <2>3 DEF stateVars
    <3>4. QED
      BY <2>1, <2>2, <3>1, <3>2, <3>3 DEF Session, stateVars, InSession
  <2>5. Follows(w)'
    BY <2>1 DEF Follows, AboutAccount
  <2>6. QED
    BY <2>4, <2>5
<1>3. CASE SwitchNetwork(t)
  <2>1. /\ w \in heard /\ eip1193Provider # None
        /\ UNCHANGED <<stateVars, eip1193Provider, attached>>
        /\ task'[t] = [op |-> "switchNetwork", at |-> "switch",
                      arg |-> eip1193Provider, asked |-> eip1193Provider]
    BY <1>1, <1>3 DEF SwitchNetwork, Call, Await, AdapterTyped
  <2>2. Session(w) /\ Follows(w) /\ eip1193Provider = w
    BY <2>1 DEF SessionInv, Session
  <2>3. \A s \in Task : task'[s] = task[s] \/ s = t
    BY <1>1 DEF OnlyMoves
  <2>4. Session(w)'
    <3>1. \A s \in Task : /\ task'[s].op \in InSession
                          /\ {task'[s].arg, task'[s].asked} \subseteq {None, w}
      BY <2>1, <2>2, <2>3 DEF InSession, Session
    <3>2. \A e \in Endpoint \ {w} : \A i \in 1 .. Len(inbox'[e]) : ~Answers(e, i)'
      BY <1>1, <2>2 DEF Answers, Session
    <3>3. (\E s \in Task : task'[s].at = "signer") => provider' # Rpc
      BY <2>1, <2>2, <2>3 DEF stateVars, Session
    <3>4. QED
      BY <2>1, <2>2, <3>1, <3>2, <3>3 DEF Session, stateVars, InSession
  <2>5. Follows(w)'
    <3>1. ~AboutAccount(task[t].at) /\ ~Connecting(t)
      BY <1>1 DEF Idle, AboutAccount, Connecting
    <3>2. QED
      BY <1>1, <2>1, <2>2, <2>3, <3>1, FollowsKeep DEF Latest
  <2>6. QED
    BY <2>4, <2>5
<1>4. QED
  BY <1>2, <1>3
     DEF Starts, ConnectWithProvider, ConnectWithProviderInstance, ConnectWithSigner,
         ConnectWithRpc

(* A wallet that sends messages, and changes as it says.                   *)
LEMMA SendingFollows ==
  ASSUME TypeOK, ChannelInv, NEW w \in Wallet, Follows(w), UNCHANGED stateVars,
         NEW e \in Endpoint, NEW ms \in Seq(Message), Send(e, ms),
         \/ exposed'[w] = exposed[w]
         \/ w = e /\ \E k \in 1 .. Len(ms) : ms[k].kind = "accountsChanged",
         \/ chain'[w] = chain[w]
         \/ w = e /\ \E k \in 1 .. Len(ms) : ms[k].kind = "chainChanged",
         \A t \in Task : task'[t].at = task[t].at /\ task'[t].op = task[t].op
  PROVE  Follows(w)'
<1>1. /\ \A f \in Endpoint \ {e} : inbox'[f] = inbox[f]
      /\ \A i \in 0 .. Len(inbox[e]) : \A kind :
           Latest(e, i, kind)' => /\ Latest(e, i, kind)
                                  /\ \A k \in 1 .. Len(ms) : ms[k].kind # kind
  BY SendFacts DEF ChannelInv
<1>2. w \in Endpoint
  BY DEF Endpoint
<1>3. \A kind : Latest(w, 0, kind)' =>
        /\ Latest(w, 0, kind)
        /\ w = e => \A k \in 1 .. Len(ms) : ms[k].kind # kind
  <2>1. CASE w = e
    <3>1. Len(inbox[e]) \in Nat
      BY LenProperties DEF ChannelInv
    <3>2. 0 \in 0 .. Len(inbox[e])
      BY <3>1
    <3>3. QED
      BY <1>1, <2>1, <3>2
  <2>2. CASE w # e
    BY <1>1, <1>2, <2>2 DEF Latest
  <2>3. QED
    BY <2>1, <2>2
<1>4. QED
  BY <1>3, FollowsKeep

(* Serving a request of the session.                                       *)
LEMMA SessionServes ==
  ASSUME TypeOK, ChannelInv, SessionInv, NEW t \in Task, Serve(t)
  PROVE  SessionInv'
<1> SUFFICES ASSUME NEW w \in heard' PROVE Session(w)' /\ Follows(w)'
  BY DEF SessionInv
<1>1. /\ w \in heard /\ w \in Wallet /\ Session(w) /\ Follows(w)
      /\ UNCHANGED <<stateVars, eip1193Provider, attached>>
  BY DEF Serve, SessionInv, TypeOK
<1>2. /\ task[t].asked \in Endpoint /\ OnlyMoves(t)
      /\ task'[t] = [task[t] EXCEPT !.asked = None]
      /\ \E ms : Truly(t, task[t].asked, ms)
  BY ServeFacts
<1>3. task[t].asked = w
  BY <1>1, <1>2, WalletAssumption DEF Session
<1>4. PICK ms \in Seq(Message) :
        /\ Send(w, ms)
        /\ \/ exposed'[w] = exposed[w]
           \/ \E k \in 1 .. Len(ms) : ms[k].kind = "accountsChanged"
        /\ \/ chain'[w] = chain[w]
           \/ \E k \in 1 .. Len(ms) : ms[k].kind = "chainChanged"
  BY <1>1, <1>2, <1>3 DEF Truly
<1>5. /\ \A s \in Task \ {t} : task'[s] = task[s]
      /\ task'[t].op = task[t].op /\ task'[t].at = task[t].at
      /\ task'[t].arg = task[t].arg /\ task'[t].asked = None
  <2>1. task[t] \in TaskState
    BY DEF TypeOK
  <2>2. QED
    BY <1>2, <2>1 DEF OnlyMoves, TaskState
<1>6. \A s \in Task : task'[s].at = task[s].at /\ task'[s].op = task[s].op
  BY <1>5
<1>7. Session(w)'
  <2>1. \A s \in Task : /\ task'[s].op \in InSession
                        /\ {task'[s].arg, task'[s].asked} \subseteq {None, w}
    BY <1>1, <1>5 DEF InSession, Session
  <2>2. \A f \in Endpoint \ {w} : \A i \in 1 .. Len(inbox'[f]) : ~Answers(f, i)'
    BY <1>1, <1>4 DEF Answers, Session, Send, ChannelInv
  <2>3. (\E s \in Task : task'[s].at = "signer") => provider' # Rpc
    BY <1>1, <1>6 DEF Session, stateVars
  <2>4. QED
    BY <1>1, <2>1, <2>2, <2>3 DEF Session, stateVars, InSession
<1>8. Follows(w)'
  <2>1. w \in Endpoint
    BY <1>1 DEF Endpoint
  <2>2. QED
    BY <1>1, <1>4, <1>6, <2>1, SendingFollows
<1>9. QED
  BY <1>7, <1>8

(* The user changes a wallet during the session.                           *)
LEMMA SessionOfUser ==
  ASSUME TypeOK, ChannelInv, SessionInv, NEW x \in Wallet, UserChangesWallet(x)
  PROVE  SessionInv'
<1> SUFFICES ASSUME NEW w \in heard' PROVE Session(w)' /\ Follows(w)'
  BY DEF SessionInv
<1>1. UNCHANGED <<stateVars, eip1193Provider, attached, task, heard>>
  BY UserFacts
<1>2. w \in Wallet /\ Session(w) /\ Follows(w)
  BY <1>1 DEF SessionInv, TypeOK
<1>3. PICK n \in Message :
        /\ n.kind # "answer" /\ Send(x, <<n>>)
        /\ exposed'[w] = exposed[w] \/ (w = x /\ n.kind = "accountsChanged")
        /\ chain'[w] = chain[w] \/ (w = x /\ n.kind = "chainChanged")
  <2>1. \E n \in Message :
          /\ n.kind # "answer" /\ Send(x, <<n>>)
          /\ \A y \in Wallet :
               /\ exposed'[y] = exposed[y] \/ (y = x /\ n.kind = "accountsChanged")
               /\ chain'[y] = chain[y] \/ (y = x /\ n.kind = "chainChanged")
    BY UserFacts
  <2>2. QED
    BY <1>2, <2>1
<1>4. PICK ms \in Seq(Message) :
        /\ Send(x, ms) /\ Len(ms) = 1 /\ ms[1] = n
  <2>1. <<n>> \in Seq(Message) /\ Len(<<n>>) = 1 /\ <<n>>[1] = n
    OBVIOUS
  <2>2. QED
    BY <1>3, <2>1
<1>5. 1 \in 1 .. Len(ms) /\ \A k \in 1 .. Len(ms) : ms[k] = n
  BY <1>4
<1>6. x \in Endpoint
  BY DEF Endpoint
<1>7. Follows(w)'
  BY <1>1, <1>2, <1>3, <1>4, <1>5, <1>6, SendingFollows
<1>8. ASSUME NEW f \in Endpoint \ {w}, NEW i \in 1 .. Len(inbox'[f])
      PROVE  ~Answers(f, i)'
  <2>1. CASE f = x
    <3>1. inbox \in [Endpoint -> Seq(Message)]
      BY DEF ChannelInv
    <3>2. \A j \in 1 .. Len(inbox'[x]) :
            \/ j \in 1 .. Len(inbox[x]) /\ inbox'[x][j] = inbox[x][j]
            \/ \E k \in 1 .. Len(ms) : j = Len(inbox[x]) + k /\ inbox'[x][j] = ms[k]
      BY <1>4, <1>6, <3>1, SendFacts
    <3>3. \/ i \in 1 .. Len(inbox[f]) /\ inbox'[f][i] = inbox[f][i]
          \/ inbox'[f][i] = n
      BY <1>5, <2>1, <3>2
    <3>4. QED
      BY <1>2, <1>3, <3>3 DEF Answers, Session
  <2>2. CASE f # x
    BY <1>2, <1>3, <2>2 DEF Send, ChannelInv, Answers, Session
  <2>3. QED
    BY <2>1, <2>2
<1>9. Session(w)'
  BY <1>1, <1>2, <1>8 DEF Session, stateVars, InSession
<1>10. QED
  BY <1>7, <1>9

(* No task that goes on begins a session; one that throws ends it.         *)
LEMMA HeardOrNot ==
  ASSUME NEW t \in Task, NEW v, Resume(t, v)
  PROVE  /\ heard' = heard \/ heard' = {}
         /\ heard' = heard /\ heard # {} /\ Throw(t) => task[t].op = "switchNetwork"
<1>1. Throw(t) => heard' = {} \/ (heard' = heard /\ task[t].op = "switchNetwork")
  BY DEF Throw
<1>2. Return({t}) => heard' = heard
  BY DEF Return
<1>3. heard' = heard \/ heard' = {}
  BY <1>1, <1>2
     DEF Resume, AccountsGranted, SignerForConnect, NetworkForConnect, Finish,
         SwitchAnswered, Switched, AskNext, SignerForInstance, ReadOnly,
         NetworkForInstance, NetworkForSigner, NetworkForRpc, SignerForHandler,
         RequestFails
<1>4. QED
  BY <1>1, <1>3

(* What a task in a session stores of an answer is what the wallet is, but *)
(* for the events that follow the answer.                                  *)
LEMMA SessionResumes ==
  ASSUME TypeOK, ChannelInv, SessionInv,
         NEW t \in Task, NEW v, Resume(t, v), TaskOK(t), task[t] # Idle,
         NEW e \in Endpoint, Answers(e, 1), inbox[e][1].to = t, inbox[e][1].value = v,
         inbox' = [inbox EXCEPT ![e] = Tail(@)], UNCHANGED walletVars
  PROVE  SessionInv'
<1> SUFFICES ASSUME NEW w \in heard' PROVE Session(w)' /\ Follows(w)'
  BY DEF SessionInv
<1>1. /\ heard' = heard /\ w \in Wallet /\ Session(w) /\ Follows(w)
      /\ Throw(t) => task[t].op = "switchNetwork"
  BY HeardOrNot DEF SessionInv, TypeOK
<1>2. e = w /\ 1 \in 1 .. Len(inbox[w]) /\ inbox[w] # <<>> /\ inbox[w][1].kind = "answer"
  <2>1. 1 \in 1 .. Len(inbox[e]) /\ inbox[e][1].kind = "answer"
    BY DEF Answers
  <2>2. e = w
    BY <1>1, <2>1 DEF Session
  <2>3. inbox[e] # <<>>
    BY <2>1
  <2>4. QED
    BY <2>1, <2>2, <2>3
<1>3. /\ task[t].op \in {"connectWithProvider", "switchNetwork", "onEvent"}
      /\ task[t].arg = w
  <2>1. task[t].op \in InSession /\ task[t].arg \in {None, w}
    BY <1>1 DEF Session
  <2>2. task[t].op # "idle"
    BY DEF TaskOK
  <2>3. task[t].arg \in Wallet
    BY <2>1, <2>2, Awaiting DEF TypeOK, InSession
  <2>4. QED
    BY <2>1, <2>2, <2>3, NoneIsNew DEF InSession
<1>4. /\ \A kind : Latest(w, 0, kind)' => Latest(w, 1, kind)
      /\ \A kind : Latest(w, 0, kind)' /\ kind # "answer" => Latest(w, 0, kind)
      /\ \A f \in Endpoint \ {w} : inbox'[f] = inbox[f]
  <2>1. inbox \in [Endpoint -> Seq(Message)] /\ w \in Endpoint
    BY <1>2 DEF ChannelInv
  <2>2. \A f \in Endpoint, i \in Nat : \A kind :
          Latest(f, i, kind)' => Latest(f, i + Shift(w, f), kind)
    BY <1>2, <2>1, TailFacts
  <2>3. Shift(w, w) = 1 /\ 0 \in Nat /\ 0 + 1 = 1
    BY DEF Shift
  <2>4. \A kind : Latest(w, 0, kind)' => Latest(w, 1, kind)
    BY <2>1, <2>2, <2>3
  <2>5. ASSUME NEW kind, kind # "answer", Latest(w, 1, kind) PROVE Latest(w, 0, kind)
    <3> SUFFICES ASSUME NEW j \in 0 + 1 .. Len(inbox[w]) PROVE inbox[w][j].kind # kind
      BY DEF Latest
    <3>1. j = 1 \/ j \in 1 + 1 .. Len(inbox[w])
      BY <2>1, LenProperties
    <3>2. QED
      BY <1>2, <2>5, <3>1 DEF Latest
  <2>6. QED
    BY <1>2, <2>1, <2>4, <2>5
<1>5. /\ AboutAccount(task[t].at) /\ v # None /\ Latest(w, 0, "accountsChanged")'
           => v = exposed'[w]
      /\ task[t].at = "network" /\ v # None /\ Latest(w, 0, "chainChanged")'
           => v = chain'[w]
  <2>1. /\ AboutAccount(task[t].at) /\ v # None => TellsAccount(inbox[w][1])
        /\ task[t].at = "network" /\ v # None => TellsChain(inbox[w][1])
    BY <1>2 DEF TellsAccount, TellsChain
  <2>2. QED
    BY <1>1, <1>2, <1>4, <2>1 DEF ChannelInv, walletVars
<1>6. ASSUME OnlyMoves(t), task'[t].op \in InSession,
             {task'[t].arg, task'[t].asked} \subseteq {None, w},
             provider' \in {provider, None, w}, eip1193Provider' = eip1193Provider,
             task'[t].at = "signer" => provider' # Rpc,
             \A x \in Wallet \ {w} : attached'[x] = 0
      PROVE  Session(w)'
  <2>1. \A s \in Task : task'[s] = task[s] \/ s = t
    BY <1>6 DEF OnlyMoves
  <2>2. \A s \in Task : /\ task'[s].op \in InSession
                        /\ {task'[s].arg, task'[s].asked} \subseteq {None, w}
    BY <1>1, <1>6, <2>1 DEF Session
  <2>3. \A f \in Endpoint \ {w} : \A i \in 1 .. Len(inbox'[f]) : ~Answers(f, i)'
    BY <1>1, <1>4 DEF Session, Answers
  <2>4. (\E s \in Task : task'[s].at = "signer") => provider' # Rpc
    <3>1. None # Rpc /\ w # Rpc
      BY <1>1, WalletAssumption DEF Endpoint
    <3>2. QED
      BY <1>1, <1>6, <2>1, <3>1 DEF Session
  <2>5. \A x \in Wallet \ {w} : provider' # x
    BY <1>1, <1>6, NoneIsNew DEF Session
  <2>6. QED
    BY <1>1, <1>6, <2>2, <2>3, <2>4, <2>5 DEF Session, InSession
<1>7. \A x \in Wallet \ {w} : attached[x] = 0 /\ Removed[x] = 0
  BY <1>1 DEF Session, Removed
<1>8. exposed' = exposed /\ chain' = chain
  BY DEF walletVars
<1>9. task \in [Task -> TaskState] /\ AdapterTyped /\ ObservedTyped
  BY DEF TypeOK, AdapterTyped, StateTyped, ObservedTyped
<1>10. ASSUME Return({t}) \/ task' = [task EXCEPT ![t] = Idle]
       PROVE  /\ OnlyMoves(t) /\ task'[t] = Idle /\ task'[t].op \in InSession
              /\ {task'[t].arg, task'[t].asked} \subseteq {None, w}
              /\ task'[t].at # "signer"
  <2>1. OnlyMoves(t) /\ task'[t] = Idle
    BY <1>9, <1>10, TaskEnds DEF Return
  <2>2. QED
    BY <2>1 DEF Idle, InSession
<1>11. ASSUME NEW op \in InSession \cap Op, NEW at \in At, Await(t, op, at, w, w)
       PROVE  /\ OnlyMoves(t)
              /\ task'[t] = [op |-> op, at |-> at, arg |-> w, asked |-> w]
              /\ task'[t].op \in InSession
              /\ {task'[t].arg, task'[t].asked} \subseteq {None, w}
  <2>1. w \in Endpoint
    BY <1>1 DEF Endpoint
  <2>2. OnlyMoves(t) /\ task'[t] = [op |-> op, at |-> at, arg |-> w, asked |-> w]
    BY <1>9, <1>11, <2>1, AwaitMoves
  <2>3. QED
    BY <2>2
<1>12. ASSUME Finish(t)
       PROVE  Return({t}) /\ \A x \in Wallet \ {w} : attached'[x] = 0
  BY <1>1, <1>3, <1>7, <1>9, <1>12, AttachedTyped DEF Finish, AdapterTyped
<1>13. CASE AccountsGranted(t, v)
  <2>1. /\ AboutAccount(task[t].at) /\ v # None /\ account' = v /\ provider' = w
        /\ UNCHANGED <<eip1193Provider, attached>>
        /\ Await(t, "connectWithProvider", "signer", w, w)
    BY <1>3, <1>13 DEF AccountsGranted, Resumes, AboutAccount
  <2>2. /\ OnlyMoves(t)
        /\ task'[t] = [op |-> "connectWithProvider", at |-> "signer",
                      arg |-> w, asked |-> w]
    BY <1>11, <2>1 DEF InSession, Op, Method, At
  <2>3. Session(w)'
    BY <1>1, <1>6, <1>7, <2>1, <2>2, WalletAssumption DEF InSession
  <2>4. Follows(w)'
    BY <1>5, <1>8, <2>1, <2>2 DEF Follows, AboutAccount
  <2>5. QED
    BY <2>3, <2>4
<1>14. CASE SignerForConnect(t, v)
  <2>1. /\ task[t].op = "connectWithProvider" /\ task[t].at = "signer" /\ v # None
        /\ signer' = [wallet |-> w, account |-> v]
        /\ UNCHANGED <<provider, account, chainId, eip1193Provider, attached>>
        /\ provider # None /\ Await(t, "connectWithProvider", "network", w, provider)
    BY <1>1, <1>3, <1>14 DEF SignerForConnect, Resumes
  <2>2. provider = w
    BY <1>1, <1>9, <2>1 DEF Session, AdapterTyped, StateTyped, Endpoint
  <2>3. /\ OnlyMoves(t)
        /\ task'[t] = [op |-> "connectWithProvider", at |-> "network",
                      arg |-> w, asked |-> w]
    BY <1>11, <2>1, <2>2 DEF InSession, Op, Method, At
  <2>4. Session(w)'
    BY <1>6, <1>7, <2>1, <2>3 DEF InSession
  <2>5. (\A s \in Task : task'[s].at # "accounts") => \A s \in Task : task[s].at # "accounts"
    BY <2>1, <2>3 DEF OnlyMoves
  <2>6. Follows(w)'
    <3>1. Latest(w, 0, "accountsChanged")' => v = exposed'[w]
      BY <1>5, <2>1 DEF AboutAccount
    <3>2. Latest(w, 0, "accountsChanged")' /\ (\A s \in Task : task'[s].at # "accounts")
            => account' = exposed'[w]
      BY <1>1, <1>4, <1>8, <2>1, <2>2, <2>5 DEF Follows
    <3>3. task'[t].op = "connectWithProvider" /\ task'[t].at = "network"
      BY <2>3
    <3>4. QED
      BY <2>1, <3>1, <3>2, <3>3 DEF Follows
  <2>7. QED
    BY <2>4, <2>6
<1>15. ASSUME ~AboutAccount(task[t].at), OnlyMoves(t),
              UNCHANGED <<provider, signer, account>>, chainId' = v,
              task[t].at = "network" /\ v # None
       PROVE  Follows(w)'
  <2>1. Latest(w, 0, "chainChanged")' => v = chain'[w]
    BY <1>5, <1>15
  <2>2. /\ (\A s \in Task : task'[s].at # "accounts")
             => \A s \in Task : task[s].at # "accounts"
        /\ (\A s \in Task : ~AboutAccount(task'[s].at))
             => \A s \in Task : ~AboutAccount(task[s].at)
    BY <1>15 DEF OnlyMoves, AboutAccount
  <2>3. /\ Latest(w, 0, "accountsChanged")' => Latest(w, 0, "accountsChanged")
        /\ exposed'[w] = exposed[w]
    BY <1>4, <1>8
  <2>4. QED
    BY <1>1, <1>15, <2>1, <2>2, <2>3 DEF Follows, AboutAccount
<1>16. CASE NetworkForConnect(t, v)
  <2>1. /\ task[t].at = "network" /\ v # None /\ chainId' = v
        /\ ~AboutAccount(task[t].at) /\ task[t].op = "connectWithProvider"
        /\ UNCHANGED <<provider, signer, account, eip1193Provider>>
    BY <1>16 DEF NetworkForConnect, Resumes, AboutAccount
  <2>2. CASE Finish(t)
    <3>1. /\ OnlyMoves(t) /\ task'[t].op \in InSession
          /\ {task'[t].arg, task'[t].asked} \subseteq {None, w}
          /\ task'[t].at # "signer" /\ \A x \in Wallet \ {w} : attached'[x] = 0
      BY <1>10, <1>12, <2>2
    <3>2. QED
      BY <1>6, <1>15, <2>1, <3>1
  <2>3. CASE /\ UNCHANGED attached /\ eip1193Provider # None
             /\ Await(t, "connectWithProvider", "switch", w, eip1193Provider)
    <3>1. eip1193Provider = w
      BY <1>1, <2>3 DEF Session
    <3>2. /\ OnlyMoves(t)
          /\ task'[t] = [op |-> "connectWithProvider", at |-> "switch",
                        arg |-> w, asked |-> w]
      BY <1>11, <2>3, <3>1 DEF InSession, Op, Method, At
    <3>3. Session(w)'
      BY <1>6, <1>7, <2>1, <2>3, <3>2 DEF InSession
    <3>4. QED
      BY <1>15, <2>1, <3>2, <3>3
  <2>4. QED
    BY <1>1, <1>3, <1>16, <2>1, <2>2, <2>3 DEF NetworkForConnect
<1>17. ASSUME OnlyMoves(t), UNCHANGED stateVars, ~AboutAccount(task[t].at),
              task[t].at # "network"
       PROVE  Follows(w)'
  <2>1. \A s \in Task : \/ task'[s].at = task[s].at /\ task'[s].op = task[s].op
                        \/ ~AboutAccount(task[s].at) /\ ~Connecting(s)
    BY <1>17 DEF OnlyMoves, Connecting
  <2>2. QED
    BY <1>1, <1>4, <1>8, <1>17, <2>1, FollowsKeep
<1>18. CASE SwitchAnswered(t, v)
  <2>1. /\ UNCHANGED <<stateVars, eip1193Provider>> /\ UNCHANGED <<provider>>
        /\ ~AboutAccount(task[t].at) /\ task[t].at # "network"
        /\ task[t].op \in {"connectWithProvider", "switchNetwork"}
    BY <1>18 DEF SwitchAnswered, Resumes, AboutAccount, stateVars
  <2>2. CASE Switched(t)
    <3>1. \/ Return({t}) /\ \A x \in Wallet \ {w} : attached'[x] = 0
          \/ task' = [task EXCEPT ![t] = Idle] /\ UNCHANGED attached
      BY <1>12, <2>2 DEF Switched
    <3>2. /\ OnlyMoves(t) /\ task'[t].op \in InSession
          /\ {task'[t].arg, task'[t].asked} \subseteq {None, w}
          /\ task'[t].at # "signer" /\ \A x \in Wallet \ {w} : attached'[x] = 0
      BY <1>7, <1>10, <3>1
    <3>3. QED
      BY <1>6, <1>17, <2>1, <3>2
  <2>3. ASSUME NEW at \in {"add", "retry"}, AskNext(t, at)
        PROVE  Session(w)' /\ Follows(w)'
    <3>1. CASE eip1193Provider # None /\ Await(t, task[t].op, at, w, eip1193Provider)
      <4>1. eip1193Provider = w
        BY <1>1, <3>1 DEF Session
      <4>2. /\ OnlyMoves(t) /\ task'[t].op \in InSession /\ task'[t].at = at
            /\ {task'[t].arg, task'[t].asked} \subseteq {None, w}
        BY <1>11, <2>1, <3>1, <4>1 DEF InSession, Op, Method, At
      <4>3. QED
        BY <1>6, <1>7, <1>17, <2>1, <2>3, <4>2 DEF AskNext
    <3>2. CASE Throw(t)
      <4>1. task' = [task EXCEPT ![t] = Idle] /\ UNCHANGED attached
        BY <2>3, <3>2 DEF Throw, AskNext
      <4>2. QED
        BY <1>6, <1>7, <1>10, <1>17, <2>1, <4>1
    <3>3. QED
      BY <1>3, <2>3, <3>1, <3>2 DEF AskNext
  <2>4. QED
    BY <1>18, <2>2, <2>3 DEF SwitchAnswered
<1>19. CASE SignerForHandler(t, v)
  <2>1. /\ task[t].op = "onEvent" /\ task[t].at = "signer" /\ v # None
        /\ signer' = [wallet |-> w, account |-> v] /\ Return({t})
        /\ UNCHANGED <<provider, account, chainId, eip1193Provider, attached>>
    BY <1>3, <1>19 DEF SignerForHandler, Resumes
  <2>2. /\ OnlyMoves(t) /\ task'[t] = Idle /\ task'[t].op \in InSession
        /\ {task'[t].arg, task'[t].asked} \subseteq {None, w}
        /\ task'[t].at # "signer"
    BY <1>10, <2>1
  <2>3. Session(w)'
    BY <1>6, <1>7, <2>1, <2>2
  <2>4. Latest(w, 0, "accountsChanged")' => v = exposed'[w]
    BY <1>5, <2>1 DEF AboutAccount
  <2>5. /\ (\A s \in Task : task'[s].at # "accounts")
             => \A s \in Task : task[s].at # "accounts"
        /\ (\A s \in Task : task'[s].op = "connectWithProvider"
              => task'[s].at \notin {"accounts", "signer", "network"})
             => \A s \in Task : task[s].op = "connectWithProvider"
                  => task[s].at \notin {"accounts", "signer", "network"}
    BY <2>1, <2>2 DEF OnlyMoves
  <2>6. /\ Latest(w, 0, "accountsChanged")' => Latest(w, 0, "accountsChanged")
        /\ Latest(w, 0, "chainChanged")' => Latest(w, 0, "chainChanged")
    BY <1>4
  <2>7. Follows(w)'
    BY <1>1, <1>8, <2>1, <2>4, <2>5, <2>6 DEF Follows
  <2>8. QED
    BY <2>3, <2>7
<1>20. CASE RequestFails(t, v)
  <2>1. /\ Throw(t) /\ task[t].op = "switchNetwork"
        /\ UNCHANGED <<stateVars, eip1193Provider, attached>> /\ UNCHANGED <<provider>>
    BY <1>1, <1>20 DEF RequestFails, stateVars
  <2>2. task' = [task EXCEPT ![t] = Idle] /\ ~AboutAccount(task[t].at)
        /\ task[t].at # "network"
    BY <2>1 DEF Throw, TaskOK, AboutAccount
  <2>3. QED
    BY <1>6, <1>7, <1>10, <1>17, <2>1, <2>2
<1>21. QED
  BY <1>3, <1>13, <1>14, <1>16, <1>18, <1>19, <1>20
     DEF Resume, Resumes, SignerForInstance, ReadOnly, NetworkForInstance,
         NetworkForSigner, NetworkForRpc

(* An event of the wallet in session is handled; one of another is not.    *)
LEMMA SessionHandles ==
  ASSUME TypeOK, ChannelInv, SessionInv, NEW e \in Wallet, NEW m,
         inbox[e] # <<>>, m = inbox[e][1], Handle(e, m), m \in Message,
         inbox' = [inbox EXCEPT ![e] = Tail(@)], UNCHANGED walletVars
  PROVE  SessionInv'
<1> SUFFICES ASSUME NEW w \in heard' PROVE Session(w)' /\ Follows(w)'
  BY DEF SessionInv
<1>1. AdapterTyped /\ e \in Endpoint
  BY DEF TypeOK, AdapterTyped, StateTyped, ObservedTyped, Endpoint
<1>2. /\ heard' = heard \/ (heard' = heard \ {e} /\ attached[e] = 0)
      /\ w \in heard /\ w \in Wallet /\ Session(w) /\ Follows(w)
  <2>1. heard' = heard \/ (heard' = heard \ {e} /\ attached[e] = 0)
    BY DEF Handle, AccountsChanged, ChainChanged, RefreshSigner, WalletDisconnected
  <2>2. QED
    BY <2>1, <1>1 DEF SessionInv, AdapterTyped, ObservedTyped
<1>3. /\ 1 \in 1 .. Len(inbox[e])
      /\ \A f \in Endpoint : \A i \in 1 .. Len(inbox'[f]) :
           /\ i + Shift(e, f) \in 1 .. Len(inbox[f])
           /\ inbox'[f][i] = inbox[f][i + Shift(e, f)]
      /\ \A f \in Endpoint, i \in Nat : \A kind :
           Latest(f, i, kind)' => Latest(f, i + Shift(e, f), kind)
  <2>1. inbox \in [Endpoint -> Seq(Message)]
    BY DEF ChannelInv
  <2>2. QED
    BY <1>1, <2>1, TailFacts
<1>4. \A f \in Endpoint \ {w} : \A i \in 1 .. Len(inbox'[f]) : ~Answers(f, i)'
  <2> TAKE f \in Endpoint \ {w}
  <2> TAKE i \in 1 .. Len(inbox'[f])
  <2>1. PICK k : k = i + Shift(e, f)
    OBVIOUS
  <2>2. k \in 1 .. Len(inbox[f]) /\ inbox'[f][i] = inbox[f][k]
    BY <1>3, <2>1
  <2>3. ~Answers(f, k)
    BY <1>2, <2>2 DEF Session
  <2>4. QED
    BY <2>2, <2>3 DEF Answers
<1>5. m.kind \in {"accountsChanged", "chainChanged", "disconnect"}
  BY DEF Handle
<1>6. exposed' = exposed /\ chain' = chain
  BY DEF walletVars
<1>7. CASE w # e
  <2>1. attached[e] = 0
    BY <1>2, <1>7 DEF Session
  <2>2. UNCHANGED <<stateVars, eip1193Provider, attached, task>>
    BY <2>1 DEF Handle
  <2>3. Session(w)'
    BY <1>2, <1>4, <2>2 DEF Session, stateVars, InSession
  <2>4. inbox'[w] = inbox[w]
    BY <1>2, <1>7 DEF ChannelInv, Endpoint
  <2>5. Follows(w)'
    BY <1>2, <1>6, <2>2, <2>4, FollowsKeep DEF Latest
  <2>6. QED
    BY <2>3, <2>5
<1>8. ASSUME w = e
      PROVE  /\ \A kind : Latest(w, 0, kind)' => Latest(w, 1, kind)
             /\ \A kind : Latest(w, 0, kind)' /\ kind # m.kind => Latest(w, 0, kind)
             /\ m.kind = "accountsChanged" /\ Latest(w, 0, "accountsChanged")'
                  => m.value = exposed[w]
             /\ m.kind = "chainChanged" /\ Latest(w, 0, "chainChanged")'
                  => m.value = chain[w]
  <2>1. \A kind : Latest(w, 0, kind)' => Latest(w, 1, kind)
    <3>1. Shift(e, w) = 1 /\ 0 \in Nat /\ 0 + 1 = 1
      BY <1>8 DEF Shift
    <3>2. QED
      BY <1>1, <1>3, <1>8, <3>1
  <2>2. ASSUME NEW kind, kind # m.kind, Latest(w, 1, kind) PROVE Latest(w, 0, kind)
    <3> SUFFICES ASSUME NEW j \in 0 + 1 .. Len(inbox[w]) PROVE inbox[w][j].kind # kind
      BY DEF Latest
    <3>1. inbox[w] \in Seq(Message)
      BY <1>1, <1>8 DEF ChannelInv
    <3>2. j = 1 \/ j \in 1 + 1 .. Len(inbox[w])
      BY <3>1, LenProperties
    <3>3. QED
      BY <1>8, <2>2, <3>2 DEF Latest
  <2>3. /\ m.kind = "accountsChanged" => TellsAccount(inbox[w][1])
        /\ m.kind = "chainChanged" => TellsChain(inbox[w][1])
    BY <1>8 DEF TellsAccount, TellsChain
  <2>4. QED
    BY <1>3, <1>8, <2>1, <2>2, <2>3 DEF ChannelInv
<1>9. CASE w = e /\ attached[w] > 0 /\ Clear /\ UNCHANGED <<task, settled, heard>>
  <2>1. /\ provider' = None /\ eip1193Provider' = None
        /\ \A x \in Wallet : attached'[x] = 0 \/ attached'[x] = attached[x]
    BY <1>1, <1>9, ClearTyped
  <2>2. Session(w)'
    BY <1>2, <1>4, <1>9, <2>1, NoneIsNew DEF Session, InSession
  <2>3. Follows(w)'
    BY <1>2, <2>1, NoneIsNew DEF Follows
  <2>4. QED
    BY <2>2, <2>3
<1>10. ASSUME w = e, attached[w] > 0, RefreshSigner(w)
       PROVE  /\ Session(w)'
              /\ UNCHANGED <<provider, signer>>
              /\ provider = w => \E t \in Task : AboutAccount(task'[t].at)
              /\ (\A t \in Task : task'[t].at # "accounts")
                   => \A t \in Task : task[t].at # "accounts"
              /\ (\A t \in Task : task'[t].op = "connectWithProvider"
                    => task'[t].at \notin {"accounts", "signer", "network"})
                   => \A t \in Task : task[t].op = "connectWithProvider"
                        => task[t].at \notin {"accounts", "signer", "network"}
  <2>1. /\ UNCHANGED <<provider, signer, eip1193Provider, attached>>
        /\ \A t \in Task :
             \/ task'[t] = task[t]
             \/ /\ task[t] = Idle /\ provider \in Wallet
                /\ task'[t] = [op |-> "onEvent", at |-> "signer", arg |-> provider,
                              asked |-> provider]
        /\ provider \in Wallet => \E t \in Task : task'[t].at = "signer"
    BY <1>1, <1>2, <1>10, RefreshTyped
  <2>2. provider \in Wallet => provider = w
    BY <1>2 DEF Session
  <2>3. \A t \in Task : /\ task'[t].op \in InSession
                        /\ {task'[t].arg, task'[t].asked} \subseteq {None, w}
    BY <1>2, <2>1, <2>2 DEF Session, InSession
  <2>4. (\E t \in Task : task'[t].at = "signer") => provider' # Rpc
    BY <1>2, <2>1, WalletAssumption DEF Session
  <2>5. Session(w)'
    BY <1>2, <1>4, <2>1, <2>3, <2>4 DEF Session, InSession
  <2>6. \A t \in Task : task'[t] = task[t] \/ task[t] = Idle
    BY <2>1
  <2>7. QED
    BY <1>2, <2>1, <2>5, <2>6 DEF AboutAccount, Idle
<1>11. CASE w = e /\ attached[w] > 0 /\ m.kind = "accountsChanged"
            /\ account' = m.value /\ UNCHANGED chainId /\ RefreshSigner(w)
  <2>1. Latest(w, 0, "chainChanged")' => Latest(w, 0, "chainChanged")
    BY <1>8, <1>11
  <2>2. Latest(w, 0, "accountsChanged")' => account' = exposed'[w]
    BY <1>6, <1>8, <1>11
  <2>3. QED
    BY <1>2, <1>6, <1>10, <1>11, <2>1, <2>2 DEF Follows
<1>12. CASE w = e /\ attached[w] > 0 /\ m.kind = "chainChanged"
            /\ chainId' = m.value /\ UNCHANGED account /\ RefreshSigner(w)
  <2>1. Latest(w, 0, "accountsChanged")' => Latest(w, 0, "accountsChanged")
    BY <1>8, <1>12
  <2>2. Latest(w, 0, "chainChanged")' => chainId' = chain'[w]
    BY <1>6, <1>8, <1>12
  <2>3. QED
    BY <1>2, <1>6, <1>10, <1>12, <2>1, <2>2 DEF Follows
<1>13. CASE w = e /\ attached[w] = 0
  <2>1. heard' = heard \ {e}
    BY <1>2, <1>13, BoundAssumption DEF Handle
  <2>2. QED
    BY <1>13, <2>1
<1>14. CASE w = e /\ attached[w] > 0
  BY <1>9, <1>11, <1>12, <1>14
     DEF Handle, AccountsChanged, ChainChanged, WalletDisconnected
<1>15. attached[e] = 0 \/ attached[e] > 0
  BY DEF Handle
<1>16. QED
  BY <1>7, <1>13, <1>14, <1>15

(* Every step keeps what a session promises, or ends it.                   *)
LEMMA SessionStep ==
  ASSUME TypeOK, ChannelInv, SessionInv, [Next]_vars
  PROVE  SessionInv'
<1>1. AdapterTyped /\ \A t \in Task : TaskOK(t)
  BY DEF TypeOK, AdapterTyped, StateTyped, ObservedTyped, ChannelInv
<1>2. ASSUME NEW t \in Task, Starts(t) PROVE SessionInv'
  BY <1>2, SessionCalls
<1>3. ASSUME NEW t \in Task, Serve(t) PROVE SessionInv'
  BY <1>3, SessionServes
<1>4. ASSUME NEW w \in Wallet, UserChangesWallet(w) PROVE SessionInv'
  BY <1>4, SessionOfUser
<1>5. ASSUME NEW e \in Endpoint, Deliver(e) PROVE SessionInv'
  <2> DEFINE m == inbox[e][1]
  <2>1. /\ Head(inbox[e]) = m /\ m \in Message /\ inbox[e] # <<>>
        /\ inbox' = [inbox EXCEPT ![e] = Tail(@)] /\ UNCHANGED walletVars
    BY <1>5, DeliverTyped
  <2> HIDE DEF m
  <2>2. CASE m.kind = "answer" /\ Resume(m.to, m.value)
    <3>1. Answers(e, 1) /\ m.to \in Task /\ Expected(m)
      <4>1. 1 \in 1 .. Len(inbox[e])
        BY <2>1, TailFacts DEF ChannelInv
      <4>2. QED
        BY <2>1, <2>2, <4>1, MessageTyped DEF Answers, ChannelInv, m
    <3>2. PICK t \in Task : t = m.to
      BY <3>1
    <3>2a. PICK v : v = m.value
      OBVIOUS
    <3>3. Resume(t, v) /\ task[t] # Idle /\ TaskOK(t)
      BY <1>1, <2>2, <3>1, <3>2, <3>2a DEF Expected
    <3>4. QED
      BY <2>1, <3>1, <3>2, <3>2a, <3>3, SessionResumes DEF m
  <2>3. CASE e \in Wallet /\ Handle(e, m)
    BY <2>1, <2>3, SessionHandles DEF m
  <2>4. QED
    BY <1>5, <2>1, <2>2, <2>3 DEF Deliver
<1>6. ASSUME Disconnect PROVE SessionInv'
  <2> SUFFICES ASSUME NEW w \in heard' PROVE Session(w)' /\ Follows(w)'
    BY DEF SessionInv
  <2>1. /\ Clear /\ UNCHANGED <<inbox, walletVars, task, settled, heard>>
        /\ w \in Wallet /\ Session(w)
    BY <1>6 DEF Disconnect, SessionInv, TypeOK
  <2>2. /\ provider' = None /\ eip1193Provider' = None
        /\ \A x \in Wallet : attached'[x] = 0 \/ attached'[x] = attached[x]
    BY <1>1, <2>1, ClearTyped
  <2>3. Session(w)'
    BY <2>1, <2>2, NoneIsNew DEF Session, InSession, Answers
  <2>4. Follows(w)'
    BY <2>1, <2>2, NoneIsNew DEF Follows
  <2>5. QED
    BY <2>3, <2>4
<1>7. ASSUME NEW s \in LocalSigners, ConnectWithLocalSigner(s) PROVE SessionInv'
  BY <1>7 DEF ConnectWithLocalSigner, SessionInv
<1>8. ASSUME UNCHANGED vars PROVE SessionInv'
  BY <1>8 DEF vars, walletVars, stateVars, SessionInv, Session, InSession, Answers,
              Follows, Latest
<1>9. QED
  BY <1>2, <1>3, <1>4, <1>5, <1>6, <1>7, <1>8 DEF Next, Starts

(* In a session with one wallet, every change of which was heard, the      *)
(* adapter ends up with the wallet's account, signer and network, whatever *)
(* the order of events, answers, methods and handlers.                     *)
THEOREM SessionFollows == Spec => []FollowsWallet
<1>1. Init => SessionInv
  BY DEF Init, SessionInv
<1>2. TypeOK /\ ChannelInv /\ SessionInv => FollowsWallet
  <2> SUFFICES ASSUME TypeOK, SessionInv, NEW w \in heard,
                      AtRest, inbox[w] = <<>>, provider = w
               PROVE  /\ account = exposed[w]
                      /\ signer = [wallet |-> w, account |-> exposed[w]]
                      /\ chainId = chain[w]
    BY DEF FollowsWallet
  <2>1. \A kind : Latest(w, 0, kind)
    BY DEF Latest
  <2>2. \A t \in Task : task[t].op = "idle" /\ task[t].at = "idle"
    BY DEF AtRest, Idle
  <2>3. QED
    BY <2>1, <2>2 DEF SessionInv, Follows, AboutAccount
<1>3. TypeOK /\ ChannelInv /\ SessionInv /\ [Next]_vars => SessionInv'
  BY SessionStep
<1>4. QED
  BY <1>1, <1>2, <1>3, ChannelsCorrect, PTL DEF Spec

================================================================================
