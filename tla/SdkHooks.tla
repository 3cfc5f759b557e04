-------------------------------- MODULE SdkHooks --------------------------------
(***************************************************************************)
(* The SDK's React hooks (hooks/useUser.ts, useProtocol.ts, useCredentials *)
(* .ts) over the clients they call (UserClient, ProtocolClient,            *)
(* ContractClient) and the two contracts.                                  *)
(*                                                                         *)
(* A component uses one hook; its props are the signer and the address it  *)
(* asks about.  What a hook returns comes from the query cache, a library  *)
(* (@tanstack/react-query) modelled from how the hooks use it, with their  *)
(* default options: an entry is fetched when its key is first observed,    *)
(* when it is invalidated while observed, and on demand.  A fetch reads    *)
(* the chain in one step and lands in another.                             *)
(*                                                                         *)
(* A registration is the value 1 of an account, a requirement the number   *)
(* of times it was set: the contracts only ever raise both.                *)
(***************************************************************************)
EXTENDS Naturals, FiniteSets

CONSTANTS
    Account,        \* wallet addresses
    Given,          \* bound: the addresses a component is given
    None,           \* null, undefined; no number
    MaxSets         \* bound: how often a protocol's requirement is set

ASSUME NoneAssumption == None \notin Account \cup Nat /\ Given \subseteq Account
ASSUME MaxSetsAssumption == MaxSets \in Nat \ {0}

VARIABLES
    hook,           \* the hook the component uses
    props,          \* its signer and the address it is given
    current,        \* useProtocol: currentProtocolAddress
    asked,          \* signers whose getAddress is pending in the effect
    cache,          \* the query cache
    mutation,       \* the running mutation
    registered,     \* the registry: accounts with an identity
    minAge,         \* the access contract: times each requirement was set
    acked,          \* by key, the value the last successful mutation wrote
    reasked         \* the effect ran again before an address was answered

chain == <<registered, minAge>>
view == <<props, current, asked, reasked>>
hookVars == <<hook, view, cache, mutation, chain, acked>>

(***************************************************************************)
(* Keys.  A key names what is asked and of whom; None is undefined.        *)
(***************************************************************************)
Address == Account \cup {None}

\* Faulty variant: the address is not part of the key.
RegistrationKeyAlone(u) == <<"is-registered", None>>

RegistrationKey(u) == <<"is-registered", u>>
Hook == {"useUser", "useProtocol", "useCredentials", "none"}

\* The keys of the hook's queries.
Key ==
    CASE hook = "useUser" -> {"is-registered"} \X Address
      [] hook = "useProtocol" -> {"requirements"} \X Account
      [] hook = "useCredentials" -> {"info", "list"} \X Account
      [] hook = "none" -> {}

\* The enabled queries of a component with props p.
Observed(p, protocol) ==
    CASE hook = "useUser" /\ p.signer # None ->
            {RegistrationKey(p.address)}
      [] hook = "useProtocol" /\ p.signer # None /\ protocol # None ->
            {<<"requirements", protocol>>}
      [] hook = "useCredentials" /\ p.address # None ->
            {"info", "list"} \X {p.address}
      [] OTHER -> {}

\* Queries that can only fail: ContractClient has no isCredentialValid and no
\* getIssuerInfo.  info stands for both, list for the two lists.  The query
\* of hasAccess, which the access contract lacks, is left out.
Unanswerable(k) == k[1] = "info"

\* What the chain answers to a key, asked by a client of signer s.
\* The lists of credentials are empty whoever asks.
Value(k, s) ==
    CASE k[1] = "is-registered" ->
            IF (IF k[2] = None THEN s ELSE k[2]) \in registered THEN 1 ELSE 0
      [] k[1] = "requirements" -> minAge[k[2]]
      [] OTHER -> 0

(***************************************************************************)
(* The query cache.  stale marks an entry whose running fetch had read the *)
(* chain when an invalidation let it go on.                                *)
(***************************************************************************)
Idle == [at |-> "idle"]
Sent(s) == [at |-> "sent", by |-> s]
Empty == [data |-> None, fetch |-> Idle, failed |-> FALSE, stale |-> FALSE]

\* An entry that is not being fetched is fetched for signer s.
Fetched(e, s) ==
    IF e.fetch = Idle THEN [e EXCEPT !.fetch = Sent(s), !.stale = FALSE] ELSE e

\* A refetch cancels a running fetch, but the first load, which it joins.
Refetched(e, s) ==
    IF e.data # None THEN [e EXCEPT !.fetch = Sent(s), !.stale = FALSE]
    ELSE IF e.fetch.at = "read" THEN [e EXCEPT !.stale = TRUE]
    ELSE Fetched(e, s)

On(keys, Change(_, _), s) ==
    [k \in Key |-> IF k \in keys THEN Change(cache[k], IF k[2] = None THEN s ELSE None)
                   ELSE cache[k]]

\* Faulty variant: an observed entry joins any fetch that is running.
InvalidatedJoining(keys) ==
    On(keys \cap Observed(props, current), Fetched, props.signer)

\* Entries nobody observes are fetched when they are observed again, but a
\* fetch of theirs that is running counts then as that.
Invalidated(keys) ==
    [k \in Key |->
        CASE k \in keys \cap Observed(props, current) ->
                Refetched(cache[k], IF k[2] = None THEN props.signer ELSE None)
          [] k \in keys \ Observed(props, current) ->
                [cache[k] EXCEPT !.stale = @ \/ cache[k].fetch.at = "read"]
          [] OTHER -> cache[k]]

\* A component is mounted by its first Render: what useState takes from the
\* props it is mounted with is what the effect would set.
HookInit ==
    /\ hook \in Hook
    /\ props = [signer |-> None, address |-> None]
    /\ current = None
    /\ asked = {}
    /\ cache = [k \in Key |-> Empty]
    /\ mutation = [at |-> "none"]
    /\ registered = {}
    /\ minAge = [a \in Account |-> 0]
    /\ acked = [k \in Key |-> 0]
    /\ reasked = FALSE

\* The component is rendered with other props.  Queries newly observed are
\* fetched; useProtocol's effect takes the address given, or asks the signer
\* for its own, and the queries of the address it had are observed first.
Render(p) ==
    /\ hook # "none"
    /\ p # props
    /\ props' = p
    /\ IF hook = "useProtocol" /\ p.address # None
       THEN current' = p.address /\ UNCHANGED asked
       ELSE /\ asked' = asked \cup (IF hook = "useProtocol" THEN {p.signer} \ {None} ELSE {})
            /\ UNCHANGED current
    /\ reasked' = (reasked \/ asked # {})
    /\ cache' = On((Observed(p, current) \cup Observed(p, current'))
                       \ Observed(props, current), Fetched, p.signer)
    /\ UNCHANGED <<hook, mutation, chain, acked>>

\* signer.getAddress answers, whatever the props have become.
AddressAnswered(s) ==
    /\ s \in asked
    /\ asked' = asked \ {s}
    /\ current' = s
    /\ cache' = On(Observed(props, s) \ Observed(props, current), Fetched, props.signer)
    /\ UNCHANGED <<hook, props, reasked, mutation, chain, acked>>

Refetch(k) ==
    /\ k \in Observed(props, current)
    /\ cache[k].fetch = Idle
    /\ cache' = On({k}, Refetched, props.signer)
    /\ UNCHANGED <<hook, view, mutation, chain, acked>>

\* The node answers a read; an error ends the fetch, its retries included.
FetchReads(k) ==
    /\ cache[k].fetch.at = "sent"
    /\ ~Unanswerable(k)
    /\ cache' = [cache EXCEPT ![k].fetch =
                    [at |-> "read", value |-> Value(k, cache[k].fetch.by)]]
    /\ UNCHANGED <<hook, view, mutation, chain, acked>>

FetchFails(k) ==
    /\ cache[k].fetch.at = "sent"
    /\ cache' = [cache EXCEPT ![k].fetch = Idle, ![k].failed = TRUE]
    /\ UNCHANGED <<hook, view, mutation, chain, acked>>

FetchLands(k) ==
    /\ cache[k].fetch.at = "read"
    /\ cache' = [cache EXCEPT ![k].data = cache[k].fetch.value,
                              ![k].fetch = Idle, ![k].failed = FALSE]
    /\ UNCHANGED <<hook, view, mutation, chain, acked>>

(***************************************************************************)
(* Mutations.  Only registerIdentity and setRequirements can succeed: the  *)
(* contracts lack what the others call, and useCredentials' call methods   *)
(* ContractClient lacks.                                                   *)
(***************************************************************************)
Mutate ==
    /\ mutation.at = "none"
    /\ props.signer # None
    /\ \/ /\ hook = "useUser"
          /\ \E u \in Account :
              mutation' = [at |-> "sent", of |-> u]
       \/ /\ hook = "useProtocol"
          /\ mutation' = [at |-> "sent", of |-> props.signer]
    /\ UNCHANGED <<hook, view, cache, chain, acked>>

Register(u) == u \notin registered /\ registered' = registered \cup {u} /\ UNCHANGED minAge
SetRequirements(p) ==
    minAge[p] < MaxSets /\ minAge' = [minAge EXCEPT ![p] = @ + 1] /\ UNCHANGED registered

\* The transaction is mined: an account is registered once, with a nullifier
\* computed from its address; a protocol sets its own requirement.
MutationMined ==
    /\ mutation.at = "sent"
    /\ IF hook = "useUser" THEN Register(mutation.of) ELSE SetRequirements(mutation.of)
    /\ mutation' = [mutation EXCEPT !.at = "mined"]
    /\ UNCHANGED <<hook, view, cache, acked>>

\* The receipt arrives: onSuccess invalidates every entry of the kind, and
\* the observed ones are fetched again.
MutationSucceeds ==
    /\ mutation.at = "mined"
    /\ mutation' = [at |-> "none"]
    /\ LET kind == IF hook = "useUser" THEN "is-registered" ELSE "requirements"
           value == IF hook = "useUser" THEN 1 ELSE minAge[mutation.of]
       IN  /\ acked' = [acked EXCEPT ![<<kind, mutation.of>>] = value]
           /\ cache' = Invalidated({k \in Key : k[1] = kind})
    /\ UNCHANGED <<hook, view, chain>>

\* It is refused, it reverts, or its receipt cannot be had.
MutationFails ==
    /\ mutation.at # "none"
    /\ mutation' = [at |-> "none"]
    /\ UNCHANGED <<hook, view, cache, chain, acked>>

\* Other users of the contracts.  Bound: they change what the hook reads.
OthersMove ==
    /\ \E a \in Account : IF hook = "useProtocol" THEN SetRequirements(a) ELSE Register(a)
    /\ UNCHANGED <<hook, view, cache, mutation, acked>>

PropsOf == [signer : Address, address : Given \cup {None}]

HookNext ==
    \/ \E p \in PropsOf : Render(p)
    \/ \E s \in Account : AddressAnswered(s)
    \/ \E k \in Key : Refetch(k) \/ FetchReads(k) \/ FetchFails(k) \/ FetchLands(k)
    \/ Mutate \/ MutationMined \/ MutationSucceeds \/ MutationFails
    \/ OthersMove

(***************************************************************************)
(* Properties.                                                             *)
(***************************************************************************)
HookTypeOK ==
    /\ hook \in Hook
    /\ props \in PropsOf
    /\ current \in Address
    /\ asked \subseteq Account
    /\ \A k \in Key :
        /\ cache[k].data \in 0 .. MaxSets + 1 \/ cache[k].data = None
        /\ Unanswerable(k) => cache[k].data = None
        /\ cache[k].fetch.at \in {"idle", "sent", "read"}
        /\ cache[k].fetch.at = "read" => ~Unanswerable(k)
    /\ registered \subseteq Account
    /\ minAge \in [Account -> 0 .. MaxSets]
    /\ mutation.at \in {"none", "sent", "mined"}

\* Once a mutation has succeeded, what its hook shows of the same key is not
\* older: an observed entry that has settled without an error holds the value
\* the mutation wrote or a later one.  The exception is an entry whose fetch,
\* the first load or one left behind by an unobserved key, had read the chain
\* before: it goes on, and its old value is shown until the next refetch.
AckedIsShown ==
    \A k \in Observed(props, current) :
        cache[k].fetch = Idle /\ ~cache[k].failed /\ ~cache[k].stale =>
            cache[k].data # None /\ cache[k].data >= acked[k]

\* What is shown is about what the component asks for.  A user shown as
\* registered is, if the address was given; and useProtocol shows the protocol
\* it was given or else its signer, unless its props changed while a signer
\* was being asked for its address.
ShownIsAsked ==
    /\ hook = "useUser" /\ props.signer # None /\ props.address # None
       /\ cache[RegistrationKey(props.address)].data = 1 =>
            props.address \in registered
    /\ hook = "useProtocol" /\ props.signer # None /\ asked = {} /\ ~reasked =>
            current = IF props.address # None THEN props.address ELSE props.signer
================================================================================
