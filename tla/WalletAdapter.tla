----------------------------- MODULE WalletAdapter -----------------------------
(***************************************************************************)
(* The SDK's wallet adapter, sdk/src/core/WalletAdapter.ts.  Its methods   *)
(* are asynchronous: between two awaits the user may switch account or     *)
(* network in the wallet, the application may call another method, and the *)
(* wallet's events run the handlers the adapter has attached.  A task is   *)
(* one such method or handler that awaits the answer to a request.         *)
(*                                                                         *)
(* The wallets are external.  A wallet sends its events and its answers    *)
(* over one channel, in order, each with the state it had when it sent it. *)
(***************************************************************************)
EXTENDS Naturals, Sequences, FiniteSets

CONSTANTS
  Wallet,         \* EIP-1193 wallets
  Rpc, RpcChain,  \* an RPC endpoint and its network
  Account, Chain,
  ExpectedChain,  \* config.chainId, None where it is not set
  HasNetworkConfig,
  TargetChain,    \* config.networkConfig.chainId, which switchNetwork asks for
  None,           \* null
  Task,           \* how many methods and handlers may be running
  Calls,          \* the methods the application calls
  MaxInbox,       \* bound on the messages under way from a wallet
  MaxAttached     \* bound on the handlers attached to a wallet

Endpoint == Wallet \cup {Rpc}

Method == {"connectWithProvider", "connectWithProviderInstance",
           "connectWithSigner", "connectWithRpc", "switchNetwork", "disconnect"}

ASSUME BoundAssumption == MaxInbox \in Nat /\ MaxAttached \in Nat

ASSUME WalletAssumption ==
  /\ Rpc \notin Wallet /\ None \notin Endpoint \cup Account \cup Chain
  /\ {TargetChain, RpcChain} \subseteq Chain /\ ExpectedChain \in Chain \cup {None}
  /\ HasNetworkConfig \in BOOLEAN
  /\ Calls \subseteq Method

VARIABLES
  \* the wallets
  exposed,          \* the account each wallet shows the page, or None
  chain,            \* the network each is on
  inbox,            \* its events and answers not yet delivered
  \* the adapter
  provider,         \* an endpoint wrapped in an ethers provider, or None
  signer, account, chainId,
  eip1193Provider,
  attached,         \* how many times the handlers are attached to each wallet
  task,
  \* what is observed of it
  told,             \* no field was assigned since the listeners were last called
  settled,          \* how the last task ended
  heard             \* the wallet in session, every change of which was heard

walletVars == <<exposed, chain>>
stateVars == <<provider, signer, account, chainId>>
vars == <<walletVars, inbox, stateVars, eip1193Provider, attached, task, told,
          settled, heard>>

Signers == [wallet : Wallet, account : Account]

\* A signer without a provider, such as a bare key.
LocalSigners == [wallet : {None}, account : Account]

Idle == [op |-> "idle", at |-> "idle", arg |-> None, asked |-> None]

Op == {"idle", "onEvent"} \cup Method

TaskState == [op : Op,
              at : {"idle", "accounts", "signer", "network", "switch", "add", "retry"},
              arg : Endpoint \cup {None} \cup Signers,
              asked : Endpoint \cup {None}]

TypeOK ==
  /\ exposed \in [Wallet -> Account \cup {None}]
  /\ chain \in [Wallet -> Chain]
  /\ provider \in Endpoint \cup {None}
  /\ signer \in Signers \cup LocalSigners \cup {None}
  /\ account \in Account \cup {None}
  /\ chainId \in Chain \cup {None}
  /\ eip1193Provider \in Wallet \cup {None}
  /\ attached \in [Wallet -> 0 .. MaxAttached]
  /\ task \in [Task -> TaskState]
  /\ told \in BOOLEAN
  /\ settled \in {"ok", "failed"}
  /\ heard \subseteq Wallet

Init ==
  /\ exposed \in [Wallet -> Account \cup {None}]
  /\ chain \in [Wallet -> Chain]
  /\ inbox = [e \in Endpoint |-> <<>>]
  /\ provider = None
  /\ signer = None
  /\ account = None
  /\ chainId = None
  /\ eip1193Provider = None
  /\ attached = [w \in Wallet |-> 0]
  /\ task = [t \in Task |-> Idle]
  /\ told = TRUE
  /\ settled = "ok"
  /\ heard = {}

--------------------------------------------------------------------------------
(* How a task ends: it returns, or it throws.                              *)

NotifyListeners == told' = TRUE

\* Faulty variant: the method returns without notifying the listeners.
ReturnInSilence(T) ==
  /\ task' = [t \in Task |-> IF t \in T THEN Idle ELSE task[t]]
  /\ told' = FALSE
  /\ settled' = "ok"
  /\ UNCHANGED heard

Return(T) ==
  /\ task' = [t \in Task |-> IF t \in T THEN Idle ELSE task[t]]
  /\ NotifyListeners
  /\ settled' = "ok"
  /\ UNCHANGED heard

Throw(t) ==
  /\ task' = [task EXCEPT ![t] = Idle]
  /\ IF task[t].op = "switchNetwork"
       THEN UNCHANGED <<settled, heard>>
       ELSE settled' = "failed" /\ heard' = {}

\* removeEventListeners(), then provider.on(...) for each event.
Removed ==
  [w \in Wallet |-> IF w = eip1193Provider THEN 0 ELSE attached[w]]

\* Faulty variant: handlers are attached on top of those attached before.
AttachAgain(w) == attached' = [attached EXCEPT ![w] = @ + 1]

SetupEventListeners(w) ==
  /\ Removed[w] < MaxAttached
  /\ attached' = [Removed EXCEPT ![w] = @ + 1]

--------------------------------------------------------------------------------
(* The methods, up to their first await.                                   *)

Call(t, method) ==
  /\ method \in Calls
  /\ task[t] = Idle
  /\ UNCHANGED <<walletVars, inbox, attached>>

Await(t, op, at, arg, e) ==
  task' = [task EXCEPT ![t] = [op |-> op, at |-> at, arg |-> arg, asked |-> e]]

\* A session with w begins with a connect call made while nothing runs and no
\* other wallet is connected or listened to.
Begins(w) ==
  /\ \A t \in Task : task[t] = Idle
  /\ \A x \in Wallet \ {w} : attached[x] = 0 /\ provider # x

ConnectWithProvider(t, w) ==
  /\ Call(t, "connectWithProvider")
  /\ eip1193Provider' = w
  /\ Await(t, "connectWithProvider", "accounts", w, w)
  /\ heard' = IF w \in heard \/ Begins(w) THEN {w} ELSE {}
  /\ UNCHANGED <<stateVars, told, settled>>

ConnectWithProviderInstance(t, e) ==
  /\ Call(t, "connectWithProviderInstance")
  /\ provider' = e
  /\ Await(t, "connectWithProviderInstance", IF e = Rpc THEN "network" ELSE "signer", e, e)
  /\ heard' = {}
  /\ UNCHANGED <<signer, account, chainId, eip1193Provider, settled>>
  /\ told' = FALSE

ConnectWithSigner(t, s) ==
  /\ Call(t, "connectWithSigner")
  /\ signer' = s
  /\ provider' = s.wallet
  /\ Await(t, "connectWithSigner", "network", s, s.wallet)
  /\ heard' = {}
  /\ UNCHANGED <<account, chainId, eip1193Provider, settled>>
  /\ told' = FALSE

\* if (signer.provider) does not hold: the provider and the chain id stay what
\* they were, and nothing but the signer's own address is awaited.
ConnectWithLocalSigner(s) ==
  /\ "connectWithSigner" \in Calls
  /\ signer' = s
  /\ account' = s.account
  /\ NotifyListeners
  /\ settled' = "ok"
  /\ heard' = {}
  /\ UNCHANGED <<walletVars, inbox, provider, chainId, eip1193Provider, attached, task>>

ConnectWithRpc(t) ==
  /\ Call(t, "connectWithRpc")
  /\ provider' = Rpc
  /\ Await(t, "connectWithRpc", "network", Rpc, Rpc)
  /\ heard' = {}
  /\ UNCHANGED <<signer, account, chainId, eip1193Provider, settled>>
  /\ told' = FALSE

SwitchNetwork(t) ==
  /\ Call(t, "switchNetwork")
  /\ HasNetworkConfig
  /\ eip1193Provider # None
  /\ Await(t, "switchNetwork", "switch", eip1193Provider, eip1193Provider)
  /\ UNCHANGED <<stateVars, eip1193Provider, told, settled, heard>>

\* disconnect() runs in one step.
Clear ==
  /\ attached' = Removed
  /\ provider' = None
  /\ signer' = None
  /\ account' = None
  /\ chainId' = None
  /\ eip1193Provider' = None
  /\ NotifyListeners

Disconnect ==
  /\ "disconnect" \in Calls
  /\ Clear
  /\ UNCHANGED <<walletVars, inbox, task, settled, heard>>

--------------------------------------------------------------------------------
(* The methods, from one await to the next; v is the answer awaited, None  *)
(* when the request fails.                                                 *)

Resumes(t, op, at, v) ==
  /\ task[t].op = op
  /\ task[t].at = at
  /\ task[t].asked = None
  /\ v # None

AccountsGranted(t, v) ==
  /\ Resumes(t, "connectWithProvider", "accounts", v)
  /\ account' = v
  /\ provider' = task[t].arg
  /\ Await(t, "connectWithProvider", "signer", task[t].arg, task[t].arg)
  /\ UNCHANGED <<signer, chainId, eip1193Provider, attached, settled, heard>>
  /\ told' = FALSE

\* The network is asked of this.provider, whatever it has become.
SignerForConnect(t, v) ==
  /\ Resumes(t, "connectWithProvider", "signer", v)
  /\ signer' = [wallet |-> task[t].arg, account |-> v]
  /\ \/ /\ provider # None
        /\ Await(t, "connectWithProvider", "network", task[t].arg, provider)
        /\ UNCHANGED <<settled, heard>>
     \/ provider = None /\ Throw(t)
  /\ UNCHANGED <<provider, account, chainId, eip1193Provider, attached>>
  /\ told' = FALSE

\* setupEventListeners, notify, return.
Finish(t) ==
  /\ SetupEventListeners(task[t].arg)
  /\ Return({t})

NetworkForConnect(t, v) ==
  /\ Resumes(t, "connectWithProvider", "network", v)
  /\ chainId' = v
  /\ UNCHANGED <<provider, signer, account, eip1193Provider>>
  /\ IF ExpectedChain \in {v, None} \/ ~HasNetworkConfig
       THEN Finish(t)
       ELSE /\ UNCHANGED attached
            /\ told' = FALSE
            /\ \/ /\ eip1193Provider # None
                  /\ Await(t, "connectWithProvider", "switch", task[t].arg, eip1193Provider)
                  /\ UNCHANGED <<settled, heard>>
               \/ eip1193Provider = None /\ Throw(t)

\* switchNetwork ends: for its caller, or within connectWithProvider.
Switched(t) ==
  \/ task[t].op = "connectWithProvider" /\ Finish(t)
  \/ /\ task[t].op = "switchNetwork"
     /\ task' = [task EXCEPT ![t] = Idle]
     /\ UNCHANGED <<attached, told, settled, heard>>

\* The next request of switchNetwork goes to this.eip1193Provider.
AskNext(t, at) ==
  /\ \/ /\ eip1193Provider # None
        /\ Await(t, task[t].op, at, task[t].arg, eip1193Provider)
        /\ UNCHANGED <<settled, heard>>
     \/ eip1193Provider = None /\ Throw(t)
  /\ UNCHANGED <<attached, told>>

SwitchAnswered(t, v) ==
  /\ UNCHANGED <<stateVars, eip1193Provider>>
  /\ \E op \in {"connectWithProvider", "switchNetwork"} :
       \/ Resumes(t, op, "switch", v) /\ v = "ok" /\ Switched(t)
       \/ Resumes(t, op, "switch", v) /\ v = "unknown" /\ AskNext(t, "add")
       \/ Resumes(t, op, "add", v) /\ AskNext(t, "retry")
       \/ Resumes(t, op, "retry", v) /\ Switched(t)

SignerForInstance(t, v) ==
  /\ Resumes(t, "connectWithProviderInstance", "signer", v)
  /\ signer' = [wallet |-> task[t].arg, account |-> v]
  /\ account' = v
  /\ Await(t, "connectWithProviderInstance", "network", task[t].arg, task[t].arg)
  /\ UNCHANGED <<provider, chainId, eip1193Provider, attached, settled, heard>>
  /\ told' = FALSE

\* No signer: the connection goes on read-only, with what the fields held.
ReadOnly(t, v) ==
  /\ v = None
  /\ task[t].op = "connectWithProviderInstance" /\ task[t].at = "signer"
  /\ Await(t, "connectWithProviderInstance", "network", task[t].arg, task[t].arg)
  /\ UNCHANGED <<stateVars, eip1193Provider, attached, told, settled, heard>>

NetworkForInstance(t, v) ==
  /\ Resumes(t, "connectWithProviderInstance", "network", v)
  /\ chainId' = v
  /\ UNCHANGED <<provider, signer, account, eip1193Provider, attached>>
  /\ Return({t})

\* await signer.getAddress() answers at once: a signer knows its address.
NetworkForSigner(t, v) ==
  /\ Resumes(t, "connectWithSigner", "network", v)
  /\ chainId' = v
  /\ account' = task[t].arg.account
  /\ UNCHANGED <<provider, signer, eip1193Provider, attached>>
  /\ Return({t})

NetworkForRpc(t, v) ==
  /\ Resumes(t, "connectWithRpc", "network", v)
  /\ chainId' = v
  /\ signer' = None
  /\ account' = None
  /\ UNCHANGED <<provider, eip1193Provider, attached>>
  /\ Return({t})

\* The handlers of accountsChanged and chainChanged, after getSigner.
\* Faulty variant: the signer of the account before the change is kept.
KeepSigner(t, v) ==
  /\ Resumes(t, "onEvent", "signer", v)
  /\ UNCHANGED <<stateVars, eip1193Provider, attached>>
  /\ Return({t})

SignerForHandler(t, v) ==
  /\ Resumes(t, "onEvent", "signer", v)
  /\ signer' = [wallet |-> task[t].arg, account |-> v]
  /\ UNCHANGED <<provider, account, chainId, eip1193Provider, attached>>
  /\ Return({t})

RequestFails(t, v) ==
  /\ v = None
  /\ ~(task[t].op = "connectWithProviderInstance" /\ task[t].at = "signer")
  /\ Throw(t)
  /\ UNCHANGED <<stateVars, eip1193Provider, attached, told>>

Resume(t, v) ==
  \/ AccountsGranted(t, v)
  \/ SignerForConnect(t, v)
  \/ NetworkForConnect(t, v)
  \/ SwitchAnswered(t, v)
  \/ SignerForInstance(t, v)
  \/ ReadOnly(t, v)
  \/ NetworkForInstance(t, v)
  \/ NetworkForSigner(t, v)
  \/ NetworkForRpc(t, v)
  \/ SignerForHandler(t, v)
  \/ RequestFails(t, v)

--------------------------------------------------------------------------------
(* The handlers of the wallet's events, up to getSigner.  Handlers attached *)
(* twice run twice.                                                        *)

StartHandlers(w, T) ==
  /\ T \subseteq {t \in Task : task[t] = Idle}
  /\ Cardinality(T) = attached[w]

\* if (this.provider instanceof BrowserProvider) await getSigner()
RefreshSigner(w) ==
  /\ UNCHANGED <<provider, signer, eip1193Provider, attached, settled, heard>>
  /\ \/ /\ provider \in Wallet
        /\ \E T \in SUBSET Task :
             /\ StartHandlers(w, T)
             /\ task' = [t \in Task |->
                           IF t \in T THEN [op |-> "onEvent", at |-> "signer",
                                           arg |-> provider, asked |-> provider]
                                      ELSE task[t]]
        /\ told' = FALSE
     \/ provider \notin Wallet /\ NotifyListeners /\ UNCHANGED task

AccountsChanged(w, v) ==
  \/ v = None /\ Clear /\ UNCHANGED <<task, settled, heard>>
  \/ v # None /\ account' = v /\ UNCHANGED chainId /\ RefreshSigner(w)

ChainChanged(w, v) == chainId' = v /\ UNCHANGED account /\ RefreshSigner(w)

WalletDisconnected == Clear /\ UNCHANGED <<task, settled, heard>>

Handle(w, m) ==
  \/ /\ attached[w] > 0
     /\ \/ m.kind = "accountsChanged" /\ AccountsChanged(w, m.value)
        \/ m.kind = "chainChanged" /\ ChainChanged(w, m.value)
        \/ m.kind = "disconnect" /\ WalletDisconnected
  \/ /\ attached[w] = 0
     /\ m.kind \in {"accountsChanged", "chainChanged", "disconnect"}
     /\ heard' = heard \ {w}
     /\ UNCHANGED <<stateVars, eip1193Provider, attached, task, told, settled>>

--------------------------------------------------------------------------------
(* The wallets and the RPC endpoint.                                       *)

Event(kind, value) == [kind |-> kind, to |-> None, value |-> value]

Answer(t, value) == [kind |-> "answer", to |-> t, value |-> value]

Send(e, messages) == inbox' = [inbox EXCEPT ![e] = @ \o messages]

\* An event and the answer that goes with it are sent in either order.
SendBoth(e, m, n) == Send(e, <<m, n>>) \/ Send(e, <<n, m>>)

AnswerAccounts(t, w) ==
  /\ w \in Wallet
  /\ task[t].at \in {"accounts", "signer"}
  /\ \/ /\ exposed[w] # None
        /\ Send(w, <<Answer(t, exposed[w])>>)
        /\ UNCHANGED walletVars
     \/ /\ exposed[w] = None
        /\ \E a \in Account :
             /\ exposed' = [exposed EXCEPT ![w] = a]
             /\ SendBoth(w, Event("accountsChanged", a), Answer(t, a))
        /\ UNCHANGED chain

NetworkOf(e) == IF e = Rpc THEN RpcChain ELSE chain[e]

AnswerNetwork(t, e) ==
  /\ task[t].at = "network"
  /\ Send(e, <<Answer(t, NetworkOf(e))>>)
  /\ UNCHANGED walletVars

AnswerSwitch(t, w) ==
  /\ \/ /\ task[t].at \in {"switch", "retry"}
        /\ \/ /\ chain[w] = TargetChain
              /\ Send(w, <<Answer(t, "ok")>>)
              /\ UNCHANGED chain
           \/ /\ chain[w] # TargetChain
              /\ chain' = [chain EXCEPT ![w] = TargetChain]
              /\ SendBoth(w, Event("chainChanged", TargetChain), Answer(t, "ok"))
     \/ /\ task[t].at = "switch"
        /\ Send(w, <<Answer(t, "unknown")>>)
        /\ UNCHANGED chain
     \/ /\ task[t].at = "add"
        /\ Send(w, <<Answer(t, "ok")>>)
        /\ UNCHANGED chain
  /\ UNCHANGED exposed

Serve(t) ==
  /\ task[t].asked # None
  /\ task' = [task EXCEPT ![t].asked = None]
  /\ \/ AnswerAccounts(t, task[t].asked)
     \/ AnswerNetwork(t, task[t].asked)
     \/ AnswerSwitch(t, task[t].asked)
     \/ Send(task[t].asked, <<Answer(t, None)>>) /\ UNCHANGED walletVars
  /\ UNCHANGED <<stateVars, eip1193Provider, attached, told,
                 settled, heard>>

UserChangesWallet(w) ==
  /\ Len(inbox[w]) < MaxInbox
  /\ \/ \E a \in (Account \cup {None}) \ {exposed[w]} :
          /\ exposed' = [exposed EXCEPT ![w] = a]
          /\ Send(w, <<Event("accountsChanged", a)>>)
          /\ UNCHANGED chain
     \/ \E c \in Chain \ {chain[w]} :
          /\ chain' = [chain EXCEPT ![w] = c]
          /\ Send(w, <<Event("chainChanged", c)>>)
          /\ UNCHANGED exposed
     \/ Send(w, <<Event("disconnect", None)>>) /\ UNCHANGED walletVars
  /\ UNCHANGED <<stateVars, eip1193Provider, attached, task, told,
                 settled, heard>>

Deliver(e) ==
  /\ inbox[e] # <<>>
  /\ inbox' = [inbox EXCEPT ![e] = Tail(@)]
  /\ LET m == Head(inbox[e]) IN
       \/ m.kind = "answer" /\ Resume(m.to, m.value)
       \/ e \in Wallet /\ Handle(e, m)
  /\ UNCHANGED <<walletVars>>

Next ==
  \/ \E t \in Task :
       \/ \E w \in Wallet : ConnectWithProvider(t, w)
       \/ \E e \in Endpoint : ConnectWithProviderInstance(t, e)
       \/ \E s \in Signers : ConnectWithSigner(t, s)
       \/ ConnectWithRpc(t)
       \/ SwitchNetwork(t)
       \/ Serve(t)
  \/ \E w \in Wallet : UserChangesWallet(w)
  \/ \E e \in Endpoint : Deliver(e)
  \/ \E s \in LocalSigners : ConnectWithLocalSigner(s)
  \/ Disconnect

Spec == Init /\ [][Next]_vars

--------------------------------------------------------------------------------
AtRest == \A t \in Task : task[t] = Idle

(* When no method and no handler is running and the last of them did not   *)
(* throw, the listeners have been told the adapter's state, however the    *)
(* assignments of overlapping methods and handlers interleaved.            *)
ListenersUpToDate == AtRest /\ settled = "ok" => told

(* In a session with one wallet, every change of which was heard, the      *)
(* adapter follows it: at rest, with no event under way, its account,      *)
(* signer and chain are the wallet's.                                      *)
FollowsWallet ==
  \A w \in heard :
    AtRest /\ inbox[w] = <<>> /\ provider = w =>
      /\ account = exposed[w]
      /\ signer = [wallet |-> w, account |-> exposed[w]]
      /\ chainId = chain[w]

(* What the comment of getChainId says it returns: the current chain ID,   *)
(* or null.                                                                *)
ChainIdIsCurrent ==
  AtRest /\ settled = "ok" /\ provider \in Wallet /\ inbox[provider] = <<>>
    => chainId = chain[provider]

--------------------------------------------------------------------------------
(* The inductive strengthenings.  Who is told: fields assigned since the   *)
(* listeners were called belong to a method that will call them, or throw. *)
ToldInv ==
  ~told => \/ settled = "failed"
           \/ \E t \in Task : task[t].op \notin {"idle", "switchNetwork"}

\* What a task awaits, by where it is.
TaskOK(t) ==
  \/ task[t] = Idle
  \/ /\ task[t].op \in {"connectWithProvider", "switchNetwork", "onEvent"}
     /\ task[t].arg \in Wallet
     /\ task[t].op = "onEvent" => task[t].at = "signer"
     /\ task[t].op = "switchNetwork" => task[t].at \in {"switch", "add", "retry"}
     /\ task[t].at # "network" => task[t].asked # Rpc
  \/ /\ task[t].op = "connectWithProviderInstance"
     /\ task[t].arg \in Endpoint
     /\ \/ task[t].at = "signer" /\ task[t].arg # Rpc /\ task[t].asked # Rpc
        \/ task[t].at = "network"
  \/ task[t].op = "connectWithSigner" /\ task[t].arg \in Signers /\ task[t].at = "network"
  \/ task[t].op = "connectWithRpc" /\ task[t].at = "network"

Message ==
  [kind : {"accountsChanged"}, to : {None}, value : Account \cup {None}]
    \cup [kind : {"chainChanged"}, to : {None}, value : Chain]
    \cup [kind : {"disconnect"}, to : {None}, value : {None}]
    \cup [kind : {"answer"}, to : Task,
           value : Account \cup Chain \cup {"ok", "unknown", None}]

AboutAccount(at) == at \in {"accounts", "signer"}

\* The i-th message of e is an answer.
Answers(e, i) == i \in 1 .. Len(inbox[e]) /\ inbox[e][i].kind = "answer"

Expected(m) ==
  /\ task[m.to] # Idle /\ task[m.to].asked = None
  /\ AboutAccount(task[m.to].at) => m.value \in Account \cup {None}
  /\ task[m.to].at = "network" => m.value \in Chain \cup {None}

\* No event of this kind follows the i-th message of w.
Latest(w, i, kind) == \A j \in i + 1 .. Len(inbox[w]) : inbox[w][j].kind # kind

TellsAccount(m) ==
  \/ m.kind = "accountsChanged"
  \/ m.kind = "answer" /\ m.value # None /\ AboutAccount(task[m.to].at)

TellsChain(m) ==
  \/ m.kind = "chainChanged"
  \/ m.kind = "answer" /\ m.value # None /\ task[m.to].at = "network"

(* The channels: a task awaits one answer at most, and what a wallet says  *)
(* of itself holds until an event that follows.                            *)
ChannelInv ==
  /\ \A t \in Task : TaskOK(t)
  /\ inbox \in [Endpoint -> Seq(Message)]
  /\ \A e \in Endpoint : \A i \in 1 .. Len(inbox[e]) :
       Answers(e, i) => Expected(inbox[e][i])
  /\ \A e, f \in Endpoint : \A i \in 1 .. Len(inbox[e]), j \in 1 .. Len(inbox[f]) :
       Answers(e, i) /\ Answers(f, j) /\ inbox[e][i].to = inbox[f][j].to
         => e = f /\ i = j
  /\ \A w \in Wallet : \A i \in 1 .. Len(inbox[w]) :
       /\ TellsAccount(inbox[w][i]) /\ Latest(w, i, "accountsChanged")
            => inbox[w][i].value = exposed[w]
       /\ TellsChain(inbox[w][i]) /\ Latest(w, i, "chainChanged")
            => inbox[w][i].value = chain[w]

InSession == {"idle", "connectWithProvider", "onEvent", "switchNetwork"}

(* A session is with one wallet: nothing else is asked or answers.         *)
Session(w) ==
  /\ \A x \in Wallet \ {w} : attached[x] = 0 /\ provider # x
  /\ eip1193Provider \in {None, w}
  /\ \A t \in Task : /\ task[t].op \in InSession
                     /\ {task[t].arg, task[t].asked} \subseteq {None, w}
  /\ \A e \in Endpoint \ {w} : \A i \in 1 .. Len(inbox[e]) : ~Answers(e, i)
  /\ (\E t \in Task : task[t].at = "signer") => provider # Rpc

(* What the adapter holds is what the wallet is, but for what an event     *)
(* under way will change and a running task is still to store.             *)
Follows(w) ==
  provider = w =>
    /\ Latest(w, 0, "accountsChanged") /\ (\A t \in Task : task[t].at # "accounts")
         => account = exposed[w]
    /\ Latest(w, 0, "accountsChanged") /\ (\A t \in Task : ~AboutAccount(task[t].at))
         => signer = [wallet |-> w, account |-> exposed[w]]
    /\ /\ Latest(w, 0, "chainChanged")
       /\ \A t \in Task : task[t].op = "connectWithProvider"
                           => task[t].at \notin {"accounts", "signer", "network"}
       => chainId = chain[w]

SessionInv == \A w \in heard : Session(w) /\ Follows(w)

================================================================================
