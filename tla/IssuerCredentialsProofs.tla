------------------------- MODULE IssuerCredentialsProofs -------------------------
(***************************************************************************)
(* Proofs about the SDK's hooks and the issuer they run beside, for any    *)
(* accounts and any number of requests: what a hook shows is not older     *)
(* than what a mutation of its has written, and is about what its          *)
(* component asks for; a revocation the issuer was told of is in the set   *)
(* the backend looks credentials up in, and a check that began after it    *)
(* finds it there.                                                         *)
(***************************************************************************)
EXTENDS IssuerCredentials, TLAPS

Fetch ==
  {Idle} \cup [at : {"sent"}, by : Address] \cup [at : {"read"}, value : 0 .. MaxSets + 1]

Entry ==
  [data : (0 .. MaxSets + 1) \cup {None}, fetch : Fetch, failed : BOOLEAN, stale : BOOLEAN]

Mutation == {[at |-> "none"]} \cup [at : {"sent", "mined"}, of : Account]

HookTyped ==
  /\ hook \in Hook
  /\ props \in PropsOf
  /\ current \in Address
  /\ asked \subseteq Account
  /\ cache \in [Key -> Entry]
  /\ mutation \in Mutation
  /\ registered \subseteq Account
  /\ minAge \in [Account -> 0 .. MaxSets]
  /\ acked \in [Key -> 0 .. MaxSets + 1]

(* Only two hooks have a mutation; one that was mined has been executed,   *)
(* and what was acknowledged is on the chain.                              *)
AckedIsWritten ==
  /\ mutation.at # "none" => hook \in {"useUser", "useProtocol"}
  /\ mutation.at = "mined" /\ hook = "useUser" => mutation.of \in registered
  /\ \A k \in Key, s \in Address : acked[k] <= Value(k, s)

(* A read that no invalidation has met since is not older than what was    *)
(* acknowledged, and of an account it tells what the registry holds.       *)
FreshAt(k) ==
  /\ Unanswerable(k) => cache[k].data = None /\ cache[k].fetch.at # "read"
  /\ cache[k].fetch.at = "read" /\ ~cache[k].stale => cache[k].fetch.value >= acked[k]
  /\ k[1] = "is-registered" /\ k[2] # None =>
       /\ cache[k].data = 1 => k[2] \in registered
       /\ cache[k].fetch.at = "read" /\ cache[k].fetch.value = 1 => k[2] \in registered

ReadIsFresh == \A k \in Key : FreshAt(k)

(* useProtocol has the address of its props, or asks for it.               *)
CurrentIsAsked ==
  hook = "useProtocol" /\ ~reasked =>
    \/ /\ asked = {}
       /\ props.signer # None =>
            current = IF props.address # None THEN props.address ELSE props.signer
    \/ asked = {props.signer} /\ props.address = None

HookInv == HookTyped /\ AckedIsWritten /\ ReadIsFresh /\ CurrentIsAsked /\ AckedIsShown

--------------------------------------------------------------------------------
(* Keys.                                                                   *)

(* null is no address and no number, and a given address is an account.    *)
LEMMA NoneApart == None \notin Account /\ None \notin Nat /\ Given \subseteq Account
  BY NoneAssumption

(* The queries of a hook: which it asks, and of whom.                      *)
LEMMA Keys ==
  ASSUME hook \in Hook, NEW k \in Key
  PROVE  /\ k[1] \in {"is-registered", "requirements", "info", "list"}
         /\ k[2] \in Address
         /\ k = <<k[1], k[2]>>
         /\ k[1] = "is-registered" <=> hook = "useUser"
         /\ k[1] = "requirements" <=> hook = "useProtocol"
         /\ k[1] # "is-registered" => k[2] \in Account
  BY DEF Hook, Key, Address

(* A component observes queries of its own hook.                           *)
LEMMA ObservedKeys ==
  ASSUME hook \in Hook, NEW p \in PropsOf, NEW c \in Address
  PROVE  Observed(p, c) \subseteq Key
  BY NoneApart DEF Hook, Key, Observed, Address, PropsOf, RegistrationKey

(* What the chain answers is a count of what was set.                      *)
LEMMA ValueTyped ==
  ASSUME HookTyped, NEW k \in Key, NEW s \in Address
  PROVE  Value(k, s) \in 0 .. MaxSets + 1
<1>1. hook \in Hook /\ minAge \in [Account -> 0 .. MaxSets]
  BY DEF HookTyped
<1>2. QED
  BY <1>1, Keys, MaxSetsAssumption DEF Value

(* No step takes a registration back or lowers a count.                    *)
LEMMA ValueGrows ==
  ASSUME HookTyped, registered \subseteq registered',
         minAge' \in [Account -> 0 .. MaxSets], \A a \in Account : minAge[a] <= minAge'[a],
         NEW k \in Key, NEW s \in Address
  PROVE  Value(k, s) <= Value(k, s)'
<1>1. hook \in Hook /\ minAge \in [Account -> 0 .. MaxSets]
  BY DEF HookTyped
<1>2. QED
  BY <1>1, Keys, MaxSetsAssumption DEF Value

--------------------------------------------------------------------------------
(* Entries of the cache.                                                   *)

(* An entry is idle, sent or read, and idle only if it is Idle.            *)
LEMMA Entries ==
  ASSUME NEW e \in Entry
  PROVE  /\ e.fetch.at \in {"idle", "sent", "read"}
         /\ e.fetch.at = "idle" <=> e.fetch = Idle
         /\ e.fetch.at = "read" => e.fetch.value \in 0 .. MaxSets + 1
         /\ e.fetch.at = "sent" => e.fetch.by \in Address
  BY DEF Entry, Fetch, Idle

(* A fetch that is begun, or goes on.                                      *)
LEMMA FetchedEntry ==
  ASSUME NEW e \in Entry, NEW s \in Address
  PROVE  /\ Fetched(e, s) \in Entry
         /\ Fetched(e, s).data = e.data
         /\ Fetched(e, s).fetch # Idle
         /\ Fetched(e, s).fetch.at = "sent" \/ Fetched(e, s) = e
<1>1. CASE e.fetch = Idle
  <2>1. Sent(s) \in Fetch /\ Sent(s).at = "sent" /\ Sent(s) # Idle
    BY DEF Sent, Fetch, Idle
  <2>2. Fetched(e, s) = [e EXCEPT !.fetch = Sent(s), !.stale = FALSE]
    BY <1>1 DEF Fetched
  <2>3. QED
    BY <2>1, <2>2 DEF Entry
<1>2. CASE e.fetch # Idle
  BY <1>2 DEF Fetched
<1>3. QED
  BY <1>1, <1>2

(* A fetch that is begun again, or the first load, marked if it had read.  *)
LEMMA RefetchedEntry ==
  ASSUME NEW e \in Entry, NEW s \in Address
  PROVE  /\ Refetched(e, s) \in Entry
         /\ Refetched(e, s).data = e.data
         /\ Refetched(e, s).fetch # Idle
         /\ \/ Refetched(e, s).fetch.at = "sent"
            \/ Refetched(e, s).fetch = e.fetch /\ Refetched(e, s).stale
<1>1. CASE e.data # None
  <2>1. Sent(s) \in Fetch /\ Sent(s).at = "sent" /\ Sent(s) # Idle
    BY DEF Sent, Fetch, Idle
  <2>2. Refetched(e, s) = [e EXCEPT !.fetch = Sent(s), !.stale = FALSE]
    BY <1>1 DEF Refetched
  <2>3. QED
    BY <2>1, <2>2 DEF Entry
<1>2. CASE e.data = None /\ e.fetch.at = "read"
  <2>1. Refetched(e, s) = [e EXCEPT !.stale = TRUE]
    BY <1>2 DEF Refetched
  <2>2. QED
    BY <1>2, <2>1, Entries DEF Entry
<1>3. CASE e.data = None /\ e.fetch.at # "read"
  <2>1. Refetched(e, s) = Fetched(e, s)
    BY <1>3 DEF Refetched
  <2>2. QED
    BY <1>3, <2>1, FetchedEntry, Entries
<1>4. QED
  BY <1>1, <1>2, <1>3

(* An entry whose data stay, and whose fetch is begun, ended, kept or      *)
(* marked, stays as fresh as it was.                                       *)
Moves(k) ==
  /\ cache'[k].data = cache[k].data
  /\ \/ cache'[k].fetch.at \in {"idle", "sent"}
     \/ cache'[k].fetch = cache[k].fetch /\ (cache[k].stale => cache'[k].stale)

(* A step that moves an entry as above leaves what it says of the chain    *)
(* true.                                                                   *)
LEMMA MovedFresh ==
  ASSUME NEW k, FreshAt(k), Moves(k), acked'[k] = acked[k], registered \subseteq registered'
  PROVE  FreshAt(k)'
  BY DEF FreshAt, Moves, Unanswerable

--------------------------------------------------------------------------------
(* The whole cache.                                                        *)

(* What AckedIsShown says of one entry.                                    *)
Shows(k) ==
  cache[k].fetch = Idle /\ ~cache[k].failed /\ ~cache[k].stale =>
    cache[k].data # None /\ cache[k].data >= acked[k]

(* Where keys are fetched, data stay, and only those entries change.       *)
LEMMA OnFetched ==
  ASSUME HookTyped, NEW keys, NEW s \in Address, cache' = On(keys, Fetched, s)
  PROVE  /\ cache' \in [Key -> Entry]
         /\ \A k \in Key : Moves(k)
         /\ \A k \in Key \cap keys : cache'[k].fetch # Idle
         /\ \A k \in Key \ keys : cache'[k] = cache[k]
<1>1. cache \in [Key -> Entry] /\ None \in Address
  BY DEF HookTyped, Address
<1> DEFINE by(k) == IF k[2] = None THEN s ELSE None
<1>2. cache' = [k \in Key |-> IF k \in keys THEN Fetched(cache[k], by(k)) ELSE cache[k]]
  BY DEF On
<1>3. \A k \in Key : by(k) \in Address /\ cache[k] \in Entry
  BY <1>1
<1> HIDE DEF by
<1>4. \A k \in Key : /\ cache'[k] \in Entry
                     /\ Moves(k)
                     /\ k \in keys => cache'[k].fetch # Idle
                     /\ k \notin keys => cache'[k] = cache[k]
  <2> TAKE k \in Key
  <2>1. CASE k \in keys
    <3>1. cache'[k] = Fetched(cache[k], by(k))
      BY <1>2, <2>1
    <3>2. QED
      BY <1>3, <2>1, <3>1, FetchedEntry DEF Moves
  <2>2. CASE k \notin keys
    <3>1. cache'[k] = cache[k]
      BY <1>2, <2>2
    <3>2. QED
      BY <1>3, <2>2, <3>1 DEF Moves
  <2>3. QED
    BY <2>1, <2>2
<1>5. QED
  BY <1>2, <1>4

(* An invalidation leaves no fetch of its keys that had read the chain and *)
(* is not marked, and none of the observed ones at rest.                   *)
LEMMA InvalidatedEntries ==
  ASSUME HookTyped, NEW keys, Key \subseteq keys, cache' = Invalidated(keys)
  PROVE  /\ cache' \in [Key -> Entry]
         /\ \A k \in Key :
              /\ cache'[k].data = cache[k].data
              /\ \/ cache'[k].fetch.at \in {"idle", "sent"}
                 \/ cache'[k].fetch = cache[k].fetch /\ cache'[k].stale
              /\ k \in Observed(props, current) => cache'[k].fetch # Idle
<1>1. cache \in [Key -> Entry] /\ None \in Address /\ props.signer \in Address
  BY DEF HookTyped, PropsOf, Address
<1> DEFINE by(k) == IF k[2] = None THEN props.signer ELSE None
<1>2. \A k \in Key : by(k) \in Address /\ cache[k] \in Entry
  BY <1>1
<1>3. ASSUME NEW k \in Key PROVE
        cache'[k] = IF k \in Observed(props, current) THEN Refetched(cache[k], by(k))
                    ELSE [cache[k] EXCEPT !.stale = @ \/ cache[k].fetch.at = "read"]
  BY DEF Invalidated
<1>4. DOMAIN cache' = Key /\ cache' = [k \in Key |-> cache'[k]]
  BY DEF Invalidated
<1> HIDE DEF by
<1>5. \A k \in Key :
        /\ cache'[k] \in Entry
        /\ cache'[k].data = cache[k].data
        /\ \/ cache'[k].fetch.at \in {"idle", "sent"}
           \/ cache'[k].fetch = cache[k].fetch /\ cache'[k].stale
        /\ k \in Observed(props, current) => cache'[k].fetch # Idle
  <2> TAKE k \in Key
  <2>1. CASE k \in Observed(props, current)
    <3>1. cache'[k] = Refetched(cache[k], by(k))
      BY <1>3, <2>1
    <3>2. QED
      BY <1>2, <3>1, RefetchedEntry
  <2>2. CASE k \notin Observed(props, current)
    <3> DEFINE mark == cache[k].stale \/ cache[k].fetch.at = "read"
    <3>1. cache'[k] = [cache[k] EXCEPT !.stale = mark]
      BY <1>3, <2>2
    <3>2. mark \in BOOLEAN /\ (cache[k].fetch.at = "read" => mark)
      BY <1>2 DEF Entry
    <3> HIDE DEF mark
    <3>3. /\ cache'[k] \in Entry
          /\ cache'[k].data = cache[k].data
          /\ cache'[k].fetch = cache[k].fetch
          /\ cache'[k].stale = mark
      BY <1>2, <3>1, <3>2 DEF Entry
    <3>4. QED
      BY <1>2, <2>2, <3>2, <3>3, Entries
  <2>3. QED
    BY <2>1, <2>2
<1>6. QED
  BY <1>4, <1>5

(* A step that leaves the contracts alone keeps the invariant, but for the *)
(* address useProtocol has, when each entry stays fresh and shows it.      *)
LEMMA ViewStep ==
  ASSUME HookInv, UNCHANGED <<hook, mutation, chain, acked>>,
         props' \in PropsOf, current' \in Address, asked' \subseteq Account,
         cache' \in [Key -> Entry],
         \A k \in Key : FreshAt(k)',
         \A k \in Observed(props', current') : Shows(k)'
  PROVE  HookTyped' /\ AckedIsWritten' /\ ReadIsFresh' /\ AckedIsShown'
<1>1. Key' = Key
  BY DEF Key
<1>2. \A p, c : Observed(p, c)' = Observed(p, c)
  BY DEF Observed
<1>3. \A k \in Key, s \in Address : Value(k, s)' = Value(k, s)
  BY DEF Value, chain
<1>4. HookTyped'
  BY <1>1 DEF HookInv, HookTyped, chain
<1>5. AckedIsWritten'
  BY <1>1, <1>3 DEF HookInv, AckedIsWritten, chain
<1>6. ReadIsFresh'
  BY <1>1 DEF ReadIsFresh
<1>7. AckedIsShown'
  BY DEF AckedIsShown, Shows, Observed
<1>8. QED
  BY <1>4, <1>5, <1>6, <1>7

--------------------------------------------------------------------------------
(* The steps of the component and of the cache.                            *)

(* Newly observed entries are fetched, and the address follows the props.  *)
LEMMA RenderKeeps ==
  ASSUME HookInv, NEW p \in PropsOf, Render(p)
  PROVE  HookInv'
<1>1. HookTyped /\ hook' = hook /\ UNCHANGED <<mutation, chain, acked>> /\ props' = p
  BY DEF HookInv, Render
<1>2. p.signer \in Address /\ p.address \in Address /\ None \in Address
  BY NoneApart DEF PropsOf, Address
<1>3. current' \in Address /\ asked' \subseteq Account
  BY <1>1, <1>2 DEF Render, HookTyped, Address
<1> DEFINE keys == (Observed(p, current) \cup Observed(p, current')) \ Observed(props, current)
<1>4. cache' = On(keys, Fetched, p.signer)
  BY DEF Render
<1>5. /\ cache' \in [Key -> Entry]
      /\ \A k \in Key : Moves(k)
      /\ \A k \in Key \cap keys : cache'[k].fetch # Idle
      /\ \A k \in Key \ keys : cache'[k] = cache[k]
  BY <1>1, <1>2, <1>4, OnFetched
<1>6. \A k \in Key : FreshAt(k)'
  BY <1>1, <1>5, MovedFresh DEF HookInv, ReadIsFresh, chain
<1>7. ASSUME NEW k \in Observed(props', current') PROVE Shows(k)'
  <2>1. k \in Key
    BY <1>1, <1>3, ObservedKeys DEF HookTyped
  <2>2. CASE k \in keys
    BY <1>5, <2>1, <2>2 DEF Shows
  <2>3. CASE k \notin keys
    <3>1. cache'[k] = cache[k] /\ k \in Observed(props, current)
      BY <1>1, <1>5, <2>1, <2>3
    <3>2. Shows(k)
      BY <3>1 DEF HookInv, AckedIsShown, Shows
    <3>3. QED
      BY <1>1, <3>1, <3>2 DEF Shows
  <2>4. QED
    BY <2>2, <2>3
<1>8. CurrentIsAsked'
  <2> SUFFICES ASSUME hook = "useProtocol", ~reasked'
               PROVE  \/ /\ asked' = {}
                         /\ p.signer # None =>
                              current' = IF p.address # None THEN p.address ELSE p.signer
                      \/ asked' = {p.signer} /\ p.address = None
    BY <1>1 DEF CurrentIsAsked
  <2>1. asked = {}
    BY DEF Render
  <2>2. CASE p.address # None
    BY <2>1, <2>2 DEF Render
  <2>3. CASE p.address = None
    BY <2>1, <2>3 DEF Render
  <2>4. QED
    BY <2>2, <2>3
<1>9. QED
  BY <1>1, <1>3, <1>5, <1>6, <1>7, <1>8, ViewStep DEF HookInv

(* The signer's answer is the one that was asked for, when only one was.   *)
LEMMA AnswerKeeps ==
  ASSUME HookInv, NEW s \in Account, AddressAnswered(s)
  PROVE  HookInv'
<1>1. /\ HookTyped /\ hook' = hook /\ UNCHANGED <<mutation, chain, acked>>
      /\ props' = props /\ current' = s /\ asked' = asked \ {s} /\ s \in asked
      /\ reasked' = reasked
  BY DEF HookInv, AddressAnswered
<1>2. props \in PropsOf /\ props.signer \in Address /\ s \in Address /\ asked \subseteq Account
  BY <1>1 DEF HookTyped, PropsOf, Address
<1> DEFINE keys == Observed(props, s) \ Observed(props, current)
<1>4. cache' = On(keys, Fetched, props.signer)
  BY DEF AddressAnswered
<1>5. /\ cache' \in [Key -> Entry]
      /\ \A k \in Key : Moves(k)
      /\ \A k \in Key \cap keys : cache'[k].fetch # Idle
      /\ \A k \in Key \ keys : cache'[k] = cache[k]
  BY <1>1, <1>2, <1>4, OnFetched
<1>6. \A k \in Key : FreshAt(k)'
  BY <1>1, <1>5, MovedFresh DEF HookInv, ReadIsFresh, chain
<1>7. ASSUME NEW k \in Observed(props', current') PROVE Shows(k)'
  <2>1. k \in Key
    BY <1>1, <1>2, ObservedKeys DEF HookTyped
  <2>2. CASE k \in keys
    BY <1>5, <2>1, <2>2 DEF Shows
  <2>3. CASE k \notin keys
    <3>1. cache'[k] = cache[k] /\ k \in Observed(props, current)
      BY <1>1, <1>5, <2>1, <2>3
    <3>2. Shows(k)
      BY <3>1 DEF HookInv, AckedIsShown, Shows
    <3>3. QED
      BY <1>1, <3>1, <3>2 DEF Shows
  <2>4. QED
    BY <2>2, <2>3
<1>8. CurrentIsAsked'
  BY <1>1 DEF HookInv, CurrentIsAsked
<1>9. QED
  BY <1>1, <1>2, <1>5, <1>6, <1>7, <1>8, ViewStep DEF HookInv

(* A step of one entry leaves the others fresh and shown as they are.      *)
LEMMA EntryStep ==
  ASSUME HookInv, NEW k \in Key, UNCHANGED <<hook, view, mutation, chain, acked>>,
         cache' \in [Key -> Entry], \A j \in Key : j # k => cache'[j] = cache[j],
         FreshAt(k)', Shows(k)'
  PROVE  HookInv'
<1>1. HookTyped /\ props \in PropsOf /\ current \in Address /\ asked \subseteq Account
  BY DEF HookInv, HookTyped
<1>2. UNCHANGED <<props, current, asked, reasked>> /\ UNCHANGED <<hook, mutation, chain, acked>>
  BY DEF view
<1>3. \A j \in Key : FreshAt(j)'
  <2> TAKE j \in Key
  <2>1. CASE j # k
    <3>1. cache'[j] = cache[j] /\ FreshAt(j)
      BY <2>1 DEF HookInv, ReadIsFresh
    <3>2. Moves(j)
      BY <3>1 DEF Moves
    <3>3. QED
      BY <1>2, <3>1, <3>2, MovedFresh DEF chain
  <2>2. QED
    BY <2>1
<1>4. \A j \in Observed(props', current') : Shows(j)'
  <2> TAKE j \in Observed(props', current')
  <2>1. j \in Key /\ j \in Observed(props, current)
    BY <1>1, <1>2, ObservedKeys DEF HookTyped
  <2>2. CASE j # k
    <3>1. cache'[j] = cache[j] /\ Shows(j)
      BY <2>1, <2>2 DEF HookInv, AckedIsShown, Shows
    <3>2. QED
      BY <1>2, <3>1 DEF Shows
  <2>3. QED
    BY <2>2
<1>5. CurrentIsAsked'
  BY <1>2 DEF HookInv, CurrentIsAsked
<1>6. QED
  BY <1>1, <1>2, <1>3, <1>4, <1>5, ViewStep DEF HookInv

(* An observer of a stale entry starts a fetch.                            *)
LEMMA RefetchKeeps ==
  ASSUME HookInv, NEW k \in Key, Refetch(k)
  PROVE  HookInv'
<1>1. HookTyped /\ cache \in [Key -> Entry] /\ props.signer \in Address /\ None \in Address
      /\ UNCHANGED <<hook, view, mutation, chain, acked>>
  BY DEF HookInv, HookTyped, Refetch, PropsOf, Address
<1> DEFINE by == IF k[2] = None THEN props.signer ELSE None
<1>2. cache' = [j \in Key |-> IF j = k THEN Refetched(cache[k], by) ELSE cache[j]]
  BY DEF Refetch, On
<1>3. by \in Address /\ cache[k] \in Entry /\ FreshAt(k)
  BY <1>1 DEF HookInv, ReadIsFresh
<1> HIDE DEF by
<1>4. cache'[k] = Refetched(cache[k], by) /\ \A j \in Key : j # k => cache'[j] = cache[j]
  BY <1>2
<1>5. cache'[k] \in Entry /\ Moves(k) /\ cache'[k].fetch # Idle
  BY <1>3, <1>4, RefetchedEntry DEF Moves
<1>6. cache' \in [Key -> Entry]
  BY <1>1, <1>2, <1>4, <1>5
<1>7. FreshAt(k)'
  BY <1>1, <1>3, <1>5, MovedFresh DEF chain
<1>8. Shows(k)'
  BY <1>5 DEF Shows
<1>9. QED
  BY <1>1, <1>4, <1>6, <1>7, <1>8, EntryStep

(* The read is at least what was acknowledged, for the chain is.           *)
LEMMA ReadKeeps ==
  ASSUME HookInv, NEW k \in Key, FetchReads(k)
  PROVE  HookInv'
<1>1. HookTyped /\ cache \in [Key -> Entry] /\ hook \in Hook /\ cache[k] \in Entry
      /\ UNCHANGED <<hook, view, mutation, chain, acked>>
      /\ cache[k].fetch.at = "sent" /\ ~Unanswerable(k) /\ FreshAt(k)
  BY DEF HookInv, HookTyped, FetchReads, ReadIsFresh
<1> DEFINE s == cache[k].fetch.by
           v == Value(k, s)
<1>2. s \in Address
  BY <1>1, Entries
<1>3. v \in 0 .. MaxSets + 1 /\ v >= acked[k]
  <2>1. acked[k] <= v
    BY <1>2 DEF HookInv, AckedIsWritten
  <2>2. v \in 0 .. MaxSets + 1 /\ acked[k] \in 0 .. MaxSets + 1
    BY <1>1, <1>2, ValueTyped DEF HookTyped
  <2> HIDE DEF v
  <2>3. QED
    BY <2>1, <2>2, MaxSetsAssumption
<1>4. k[1] = "is-registered" /\ k[2] # None /\ v = 1 => k[2] \in registered
  BY DEF Value
<1>5. cache' = [cache EXCEPT ![k].fetch = [at |-> "read", value |-> v]]
  BY DEF FetchReads
<1> HIDE DEF s, v
<1>6. [at |-> "read", value |-> v] \in Fetch
  BY <1>3 DEF Fetch
<1>7. cache' = [cache EXCEPT ![k] = [cache[k] EXCEPT !.fetch = [at |-> "read", value |-> v]]]
  BY <1>1, <1>5
<1>8. /\ cache'[k] \in Entry
      /\ cache'[k].data = cache[k].data
      /\ cache'[k].fetch = [at |-> "read", value |-> v]
  BY <1>1, <1>6, <1>7 DEF Entry
<1>9. cache' \in [Key -> Entry] /\ \A j \in Key : j # k => cache'[j] = cache[j]
  BY <1>1, <1>7, <1>8
<1>10. FreshAt(k)'
  <2>1. cache'[k].fetch.at = "read" /\ cache'[k].fetch.value = v
    BY <1>8
  <2>2. acked' = acked /\ registered' = registered
    BY <1>1 DEF chain
  <2>3. QED
    BY <1>1, <1>3, <1>4, <1>8, <2>1, <2>2 DEF FreshAt, Unanswerable
<1>11. Shows(k)'
  BY <1>8 DEF Shows, Idle
<1>12. QED
  BY <1>1, <1>9, <1>10, <1>11, EntryStep

(* A fetch that fails leaves the data there was.                           *)
LEMMA FailKeeps ==
  ASSUME HookInv, NEW k \in Key, FetchFails(k)
  PROVE  HookInv'
<1>1. HookTyped /\ cache \in [Key -> Entry] /\ cache[k] \in Entry
      /\ UNCHANGED <<hook, view, mutation, chain, acked>> /\ FreshAt(k)
  BY DEF HookInv, HookTyped, FetchFails, ReadIsFresh
<1>2. cache' = [cache EXCEPT ![k] = [cache[k] EXCEPT !.fetch = Idle, !.failed = TRUE]]
  BY <1>1 DEF FetchFails
<1>3. /\ cache'[k] \in Entry
      /\ cache'[k].data = cache[k].data
      /\ cache'[k].fetch = Idle
      /\ cache'[k].failed = TRUE
  BY <1>1, <1>2 DEF Entry, Fetch
<1>4. cache' \in [Key -> Entry] /\ \A j \in Key : j # k => cache'[j] = cache[j]
  BY <1>1, <1>2, <1>3
<1>5. FreshAt(k)'
  BY <1>1, <1>3, MovedFresh DEF Moves, Idle, chain
<1>6. Shows(k)'
  BY <1>3 DEF Shows
<1>7. QED
  BY <1>1, <1>4, <1>5, <1>6, EntryStep

(* What lands is what was read.                                            *)
LEMMA LandKeeps ==
  ASSUME HookInv, NEW k \in Key, FetchLands(k)
  PROVE  HookInv'
<1>1. HookTyped /\ cache \in [Key -> Entry] /\ cache[k] \in Entry
      /\ UNCHANGED <<hook, view, mutation, chain, acked>> /\ FreshAt(k)
      /\ cache[k].fetch.at = "read"
  BY DEF HookInv, HookTyped, FetchLands, ReadIsFresh
<1> DEFINE v == cache[k].fetch.value
<1>2. cache' = [cache EXCEPT ![k] =
                  [cache[k] EXCEPT !.data = v, !.fetch = Idle, !.failed = FALSE]]
  BY <1>1 DEF FetchLands
<1>3. v \in 0 .. MaxSets + 1
  BY <1>1, Entries
<1>4. /\ cache'[k] \in Entry
      /\ cache'[k].data = v
      /\ cache'[k].fetch = Idle
      /\ cache'[k].stale = cache[k].stale
  BY <1>1, <1>2, <1>3 DEF Entry, Fetch
<1>5. cache' \in [Key -> Entry] /\ \A j \in Key : j # k => cache'[j] = cache[j]
  BY <1>1, <1>2, <1>4
<1>6. acked' = acked /\ registered' = registered
  BY <1>1 DEF chain
<1>7. FreshAt(k)'
  BY <1>1, <1>4, <1>6 DEF FreshAt, Unanswerable, Idle
<1>8. v # None
  BY <1>3, NoneApart, MaxSetsAssumption
<1>9. Shows(k)'
  BY <1>1, <1>4, <1>6, <1>8 DEF Shows, FreshAt
<1>10. QED
  BY <1>1, <1>5, <1>7, <1>9, EntryStep

--------------------------------------------------------------------------------
(* The steps of mutations and of the chain.                                *)

(* A step that only sends or ends a mutation shows nothing else.           *)
LEMMA MutateKeeps ==
  ASSUME HookInv, UNCHANGED <<hook, view, cache, chain, acked>>, mutation' \in Mutation,
         mutation'.at # "none" => hook \in {"useUser", "useProtocol"},
         mutation'.at # "mined"
  PROVE  HookInv'
<1>1. Key' = Key /\ \A p, c : Observed(p, c)' = Observed(p, c)
  BY DEF Key, Observed
<1>2. UNCHANGED <<hook, props, current, asked, reasked, cache, registered, minAge, acked>>
  BY DEF view, chain
<1>3. HookTyped'
  BY <1>1, <1>2 DEF HookInv, HookTyped
<1>4. AckedIsWritten'
  <2>1. \A k \in Key, s \in Address : Value(k, s)' = Value(k, s)
    BY <1>2 DEF Value
  <2>2. QED
    BY <1>1, <1>2, <2>1 DEF HookInv, AckedIsWritten
<1>5. ReadIsFresh'
  BY <1>1, <1>2 DEF HookInv, ReadIsFresh, FreshAt, Unanswerable
<1>6. CurrentIsAsked'
  BY <1>2 DEF HookInv, CurrentIsAsked
<1>7. AckedIsShown'
  BY <1>1, <1>2 DEF HookInv, AckedIsShown
<1>8. QED
  BY <1>3, <1>4, <1>5, <1>6, <1>7 DEF HookInv

(* The contracts move forward: nothing on a screen gets older than what    *)
(* was acknowledged, and no registration shown is taken back.              *)
LEMMA ChainKeeps ==
  ASSUME HookInv, UNCHANGED <<hook, view, cache, acked>>, mutation' \in Mutation,
         registered \subseteq registered', registered' \subseteq Account,
         minAge' \in [Account -> 0 .. MaxSets], \A a \in Account : minAge[a] <= minAge'[a],
         mutation'.at # "none" => hook \in {"useUser", "useProtocol"},
         mutation'.at = "mined" /\ hook = "useUser" => mutation'.of \in registered'
  PROVE  HookInv'
<1>1. Key' = Key /\ \A p, c : Observed(p, c)' = Observed(p, c)
  BY DEF Key, Observed
<1>2. UNCHANGED <<hook, props, current, asked, reasked, cache, acked>>
  BY DEF view
<1>3. HookTyped'
  BY <1>1, <1>2 DEF HookInv, HookTyped
<1>4. AckedIsWritten'
  <2>1. ASSUME NEW k \in Key, NEW s \in Address PROVE acked[k] <= Value(k, s)'
    <3>1. Value(k, s) <= Value(k, s)' /\ acked[k] <= Value(k, s)
      BY ValueGrows DEF HookInv, AckedIsWritten
    <3>2. Value(k, s) \in 0 .. MaxSets + 1 /\ acked[k] \in 0 .. MaxSets + 1
      BY ValueTyped DEF HookInv, HookTyped
    <3>3. Value(k, s)' \in Nat
      <4>1. hook \in Hook
        BY DEF HookInv, HookTyped
      <4>2. QED
        BY <4>1, <1>2, Keys, MaxSetsAssumption DEF Value
    <3> DEFINE before == Value(k, s)
               after == Value(k, s)'
    <3> HIDE DEF before, after
    <3>4. QED
      <4>1. before <= after /\ acked[k] <= before /\ before \in Nat /\ after \in Nat
            /\ acked[k] \in Nat
        BY <3>1, <3>2, <3>3, MaxSetsAssumption DEF before, after
      <4>2. acked[k] <= after
        BY <4>1
      <4>3. QED
        BY <4>2 DEF after
  <2>2. QED
    BY <1>1, <1>2, <2>1 DEF AckedIsWritten
<1>5. ReadIsFresh'
  BY <1>1, <1>2 DEF HookInv, ReadIsFresh, FreshAt, Unanswerable
<1>6. CurrentIsAsked'
  BY <1>2 DEF HookInv, CurrentIsAsked
<1>7. AckedIsShown'
  BY <1>1, <1>2 DEF HookInv, AckedIsShown
<1>8. QED
  BY <1>3, <1>4, <1>5, <1>6, <1>7 DEF HookInv

(* A registration adds an account, a requirement counts one up.            *)
LEMMA ChainMoves ==
  ASSUME HookTyped, NEW a \in Account, Register(a) \/ SetRequirements(a)
  PROVE  /\ registered \subseteq registered' /\ registered' \subseteq Account
         /\ minAge' \in [Account -> 0 .. MaxSets]
         /\ \A b \in Account : minAge[b] <= minAge'[b]
<1>1. registered \subseteq Account /\ minAge \in [Account -> 0 .. MaxSets]
  BY DEF HookTyped
<1>2. CASE Register(a)
  BY <1>1, <1>2, MaxSetsAssumption DEF Register
<1>3. CASE SetRequirements(a)
  BY <1>1, <1>3, MaxSetsAssumption DEF SetRequirements
<1>4. QED
  BY <1>2, <1>3

(* A mutation is executed when it is mined.                                *)
LEMMA MinedKeeps ==
  ASSUME HookInv, MutationMined
  PROVE  HookInv'
<1>1. HookTyped /\ mutation \in Mutation /\ mutation.at = "sent"
      /\ UNCHANGED <<hook, view, cache, acked>>
      /\ hook \in {"useUser", "useProtocol"}
  BY DEF HookInv, HookTyped, MutationMined, AckedIsWritten
<1>2. mutation.of \in Account /\ mutation' = [mutation EXCEPT !.at = "mined"]
  BY <1>1 DEF Mutation, MutationMined
<1>3. mutation' \in Mutation /\ mutation'.of = mutation.of /\ mutation'.at = "mined"
  BY <1>1, <1>2 DEF Mutation
<1>4. Register(mutation.of) \/ SetRequirements(mutation.of)
  BY DEF MutationMined
<1>5. hook = "useUser" => mutation.of \in registered'
  BY <1>2 DEF MutationMined, Register
<1>6. QED
  BY <1>1, <1>2, <1>3, <1>4, <1>5, ChainMoves, ChainKeeps

(* A receipt: what was written is acknowledged, and every entry that could *)
(* hold something older is fetched again or marked.                        *)
LEMMA SuccessKeeps ==
  ASSUME HookInv, MutationSucceeds
  PROVE  HookInv'
<1>1. HookTyped /\ mutation \in Mutation /\ mutation.at = "mined" /\ hook \in Hook
      /\ UNCHANGED <<hook, view, chain>> /\ hook \in {"useUser", "useProtocol"}
      /\ mutation.of \in Account /\ mutation' = [at |-> "none"]
  BY DEF HookInv, HookTyped, MutationSucceeds, AckedIsWritten, Mutation
<1>2. UNCHANGED <<hook, props, current, asked, reasked, registered, minAge>>
  BY <1>1 DEF view, chain
<1>3. Key' = Key /\ \A p, c : Observed(p, c)' = Observed(p, c)
  BY <1>2 DEF Key, Observed
<1>4. PICK kind : kind = IF hook = "useUser" THEN "is-registered" ELSE "requirements"
  OBVIOUS
<1>5. PICK value : value = IF hook = "useUser" THEN 1 ELSE minAge[mutation.of]
  OBVIOUS
<1>6. acked' = [acked EXCEPT ![<<kind, mutation.of>>] = value]
      /\ cache' = Invalidated({k \in Key : k[1] = kind})
  BY <1>4, <1>5 DEF MutationSucceeds
<1>7. Key \subseteq {k \in Key : k[1] = kind} /\ <<kind, mutation.of>> \in Key
  BY <1>1, <1>4 DEF Key, Address
<1>8. /\ cache' \in [Key -> Entry]
      /\ \A k \in Key :
           /\ cache'[k].data = cache[k].data
           /\ \/ cache'[k].fetch.at \in {"idle", "sent"}
              \/ cache'[k].fetch = cache[k].fetch /\ cache'[k].stale
           /\ k \in Observed(props, current) => cache'[k].fetch # Idle
  BY <1>1, <1>6, <1>7, InvalidatedEntries
<1>9. value \in 0 .. MaxSets + 1
  BY <1>1, <1>5, MaxSetsAssumption DEF HookTyped
<1>10. HookTyped'
  <2>1. acked' \in [Key -> 0 .. MaxSets + 1]
    BY <1>1, <1>6, <1>9 DEF HookTyped
  <2>2. mutation' \in Mutation
    BY <1>1 DEF Mutation
  <2>3. QED
    BY <1>1, <1>2, <1>3, <1>8, <2>1, <2>2 DEF HookTyped
<1>11. AckedIsWritten'
  <2>1. ASSUME NEW k \in Key, NEW s \in Address PROVE acked'[k] <= Value(k, s)'
    <3>1. Value(k, s)' = Value(k, s)
      BY <1>2 DEF Value
    <3>2. CASE k # <<kind, mutation.of>>
      BY <1>1, <1>6, <1>7, <3>1, <3>2 DEF HookInv, HookTyped, AckedIsWritten
    <3>3. CASE k = <<kind, mutation.of>>
      <4>1. acked'[k] = value
        BY <1>1, <1>6, <1>7, <3>3 DEF HookTyped
      <4>2. k[1] = kind /\ k[2] = mutation.of /\ mutation.of # None
        BY <1>1, <3>3, NoneApart
      <4>3. CASE hook = "useUser"
        <5>1. mutation.of \in registered
          BY <1>1, <4>3 DEF HookInv, AckedIsWritten
        <5>2. Value(k, s) = 1
          BY <1>4, <4>2, <4>3, <5>1 DEF Value
        <5>3. QED
          BY <1>5, <3>1, <4>1, <4>3, <5>2
      <4>4. CASE hook = "useProtocol"
        <5>1. Value(k, s) = minAge[mutation.of] /\ value = minAge[mutation.of]
          BY <1>4, <1>5, <4>2, <4>4 DEF Value
        <5>2. QED
          BY <1>9, <3>1, <4>1, <5>1, MaxSetsAssumption
      <4>5. QED
        BY <1>1, <4>3, <4>4
    <3>4. QED
      BY <3>2, <3>3
  <2>2. QED
    BY <1>1, <1>3, <2>1 DEF AckedIsWritten
<1>12. ReadIsFresh'
  <2>1. ASSUME NEW k \in Key PROVE FreshAt(k)'
    <3>1. FreshAt(k)
      BY DEF HookInv, ReadIsFresh
    <3>2. CASE cache'[k].fetch.at \in {"idle", "sent"}
      BY <1>2, <1>8, <3>1, <3>2 DEF FreshAt, Unanswerable
    <3>3. CASE cache'[k].fetch = cache[k].fetch /\ cache'[k].stale
      BY <1>2, <1>8, <3>1, <3>3 DEF FreshAt, Unanswerable
    <3>4. QED
      BY <1>8, <3>2, <3>3
  <2>2. QED
    BY <1>3, <2>1 DEF ReadIsFresh
<1>13. CurrentIsAsked'
  BY <1>2 DEF HookInv, CurrentIsAsked
<1>14. AckedIsShown'
  <2>1. Observed(props, current) \subseteq Key
    BY <1>1, ObservedKeys DEF HookTyped
  <2>2. QED
    BY <1>2, <1>3, <1>8, <2>1 DEF AckedIsShown, Idle
<1>15. QED
  BY <1>10, <1>11, <1>12, <1>13, <1>14 DEF HookInv

--------------------------------------------------------------------------------
(* The invariant, and what follows from it.                                *)

(* The hooks start with an empty cache.                                    *)
LEMMA HookStart == Init => HookInv
<1> SUFFICES ASSUME Init PROVE HookInv
  OBVIOUS
<1>1. HookInit
  BY DEF Init
<1>2. None \in Address /\ hook \in Hook
  BY <1>1 DEF HookInit, Address
<1>3. Empty \in Entry
  BY DEF Empty, Entry, Fetch
<1>4. HookTyped
  BY <1>1, <1>2, <1>3, MaxSetsAssumption DEF HookInit, HookTyped, PropsOf, Mutation
<1>5. AckedIsWritten
  BY <1>1, <1>4, ValueTyped, MaxSetsAssumption DEF HookInit, AckedIsWritten
<1>6. ReadIsFresh
  BY <1>1, NoneApart DEF HookInit, ReadIsFresh, FreshAt, Empty, Idle
<1>7. CurrentIsAsked
  BY <1>1 DEF HookInit, CurrentIsAsked
<1>8. AckedIsShown
  <2>1. Observed(props, current) = {}
    BY <1>1 DEF HookInit, Observed
  <2>2. QED
    BY <2>1 DEF AckedIsShown
<1>9. QED
  BY <1>4, <1>5, <1>6, <1>7, <1>8 DEF HookInv

(* Every step of a hook, of the cache or of the chain keeps it; the other  *)
(* SDK state is not its concern.                                           *)
LEMMA HookStep == HookInv /\ [Next]_vars => HookInv'
<1> SUFFICES ASSUME HookInv, [Next]_vars PROVE HookInv'
  OBVIOUS
<1>1. HookTyped /\ mutation \in Mutation /\ registered \subseteq Account
      /\ minAge \in [Account -> 0 .. MaxSets]
  BY DEF HookInv, HookTyped
<1>2. CASE UNCHANGED hookVars
  <2>1. UNCHANGED <<hook, view, cache, chain, acked>> /\ mutation' = mutation
    BY <1>2 DEF hookVars
  <2>2. \A a \in Account : minAge[a] <= minAge'[a]
    BY <1>1, <2>1, MaxSetsAssumption DEF chain
  <2>3. QED
    BY <1>1, <2>1, <2>2, ChainKeeps DEF chain, HookInv, AckedIsWritten
<1>3. ASSUME NEW p \in PropsOf, Render(p) PROVE HookInv'
  BY <1>3, RenderKeeps
<1>4. ASSUME NEW s \in Account, AddressAnswered(s) PROVE HookInv'
  BY <1>4, AnswerKeeps
<1>5. ASSUME NEW k \in Key, Refetch(k) \/ FetchReads(k) \/ FetchFails(k) \/ FetchLands(k)
      PROVE  HookInv'
  BY <1>5, RefetchKeeps, ReadKeeps, FailKeeps, LandKeeps
<1>6. CASE Mutate
  <2>1. props.signer \in Account
    BY <1>1, <1>6 DEF Mutate, HookTyped, PropsOf, Address
  <2>2. mutation' \in Mutation /\ mutation'.at = "sent" /\ hook \in {"useUser", "useProtocol"}
    BY <1>6, <2>1 DEF Mutate, Mutation
  <2>3. QED
    BY <1>6, <2>2, MutateKeeps DEF Mutate
<1>7. CASE MutationMined
  BY <1>7, MinedKeeps
<1>8. CASE MutationSucceeds
  BY <1>8, SuccessKeeps
<1>9. CASE MutationFails
  <2>1. mutation' \in Mutation /\ mutation'.at = "none"
    BY <1>9 DEF MutationFails, Mutation
  <2>2. QED
    BY <1>9, <2>1, MutateKeeps DEF MutationFails
<1>10. CASE OthersMove
  <2>1. PICK a \in Account : Register(a) \/ SetRequirements(a)
    BY <1>10 DEF OthersMove
  <2>2. UNCHANGED <<hook, view, cache, acked>> /\ mutation' = mutation
    BY <1>10 DEF OthersMove
  <2>3. /\ registered \subseteq registered' /\ registered' \subseteq Account
        /\ minAge' \in [Account -> 0 .. MaxSets]
        /\ \A b \in Account : minAge[b] <= minAge'[b]
    BY <1>1, <2>1, ChainMoves
  <2>4. /\ mutation.at # "none" => hook \in {"useUser", "useProtocol"}
        /\ mutation.at = "mined" /\ hook = "useUser" => mutation.of \in registered
    BY DEF HookInv, AckedIsWritten
  <2>5. QED
    BY <1>1, <2>2, <2>3, <2>4, ChainKeeps
<1>11. CASE IssuerNext
  <2>1. UNCHANGED hookVars
    BY <1>11 DEF IssuerNext, Request, Respond, TimesOut, CheckOnChain, Unauthorized,
                 RegisterCredential, RevokeCredential, CheckCredential, Restart
  <2>2. QED
    BY <1>2, <2>1
<1>12. QED
  BY <1>2, <1>3, <1>4, <1>5, <1>6, <1>7, <1>8, <1>9, <1>10, <1>11
     DEF Next, HookNext, vars

(* So it holds throughout.                                                 *)
LEMMA HookInvariant == Spec => []HookInv
  BY HookStart, HookStep, PTL DEF Spec

(* What a hook shows at rest is not older than what its last mutation of   *)
(* that key wrote.                                                         *)
THEOREM AckedShown == Spec => []AckedIsShown
<1>1. HookInv => AckedIsShown
  BY DEF HookInv
<1>2. QED
  BY <1>1, HookInvariant, PTL

(* A user shown as registered is, and useProtocol shows the protocol it    *)
(* was given or else its signer's.                                         *)
THEOREM ShownAsked == Spec => []ShownIsAsked
<1>1. HookInv => ShownIsAsked
  <2> SUFFICES ASSUME HookInv PROVE ShownIsAsked
    OBVIOUS
  <2>1. ASSUME hook = "useUser", props.address # None,
               cache[RegistrationKey(props.address)].data = 1
        PROVE  props.address \in registered
    <3> DEFINE k == RegistrationKey(props.address)
    <3>1. props.address \in Address
      BY NoneApart DEF HookInv, HookTyped, PropsOf, Address
    <3>2. k \in Key /\ k[1] = "is-registered" /\ k[2] = props.address
      BY <2>1, <3>1 DEF RegistrationKey, Key
    <3>3. QED
      BY <2>1, <3>2 DEF HookInv, ReadIsFresh, FreshAt
  <2>2. ASSUME hook = "useProtocol", props.signer # None, asked = {}, ~reasked
        PROVE  current = IF props.address # None THEN props.address ELSE props.signer
    BY <2>2 DEF HookInv, CurrentIsAsked
  <2>3. QED
    BY <2>1, <2>2 DEF ShownIsAsked
<1>2. QED
  BY <1>1, HookInvariant, PTL

--------------------------------------------------------------------------------
(* Types.                                                                  *)

(* The issuer's part: a request in flight is about a hash of an account.   *)
IssuerTyped ==
  /\ request = [c \in Client |-> request[c]]
  /\ \A c \in Client :
       /\ request[c].at \in {"none", "sent", "served"}
       /\ request[c].at # "none" => request[c].hash \in Hash
  /\ revokedHashes \subseteq Account \X {"lower"}
  /\ confirmed \subseteq Account

(* Each step of the issuer's side touches one request at most.             *)
LEMMA IssuerStep ==
  ASSUME IssuerTyped, [Next]_vars
  PROVE  IssuerTyped'
<1>1. \A h \in Hash : h[1] \in Account
  BY NoneApart DEF Hash
<1>2. CASE UNCHANGED issuerVars
  BY <1>2 DEF issuerVars, IssuerTyped
<1>3. ASSUME NEW c \in Client, NEW op \in Op, NEW h \in Hash, Request(c, op, h)
      PROVE  IssuerTyped'
  <2>1. Requested(op, h).at = "sent" /\ Requested(op, h).hash = h
    BY DEF Requested
  <2>2. QED
    BY <1>3, <2>1 DEF Request, IssuerTyped
<1>4. ASSUME NEW c \in Client, NEW answer, Serve(c, answer), request[c].at = "sent",
             revokedHashes' \subseteq revokedHashes \cup {ToLowerCase(request[c].hash)},
             UNCHANGED confirmed
      PROVE  IssuerTyped'
  <2>1. request[c].hash \in Hash
    BY <1>4 DEF IssuerTyped
  <2>2. ToLowerCase(request[c].hash) \in Account \X {"lower"}
    BY <1>1, <2>1 DEF ToLowerCase
  <2>3. /\ request' = [d \in Client |-> request'[d]]
        /\ request'[c].at = "served" /\ request'[c].hash = request[c].hash
        /\ \A d \in Client : d # c => request'[d] = request[d]
    BY <1>4 DEF Serve, IssuerTyped
  <2>4. QED
    BY <1>4, <2>1, <2>2, <2>3 DEF IssuerTyped
<1>5. ASSUME NEW c \in Client,
             \/ CheckOnChain(c) \/ Unauthorized(c) \/ RegisterCredential(c)
             \/ RevokeCredential(c) \/ CheckCredential(c)
      PROVE  IssuerTyped'
  <2>1. /\ \E answer : Serve(c, answer)
        /\ request[c].at = "sent" /\ UNCHANGED confirmed
    BY <1>5 DEF CheckOnChain, Unauthorized, RegisterCredential, RevokeCredential,
                CheckCredential
  <2>2. revokedHashes' \subseteq revokedHashes \cup {ToLowerCase(request[c].hash)}
    BY <1>5 DEF CheckOnChain, Unauthorized, RegisterCredential, RevokeCredential,
                CheckCredential
  <2>3. QED
    BY <1>4, <2>1, <2>2
<1>6. ASSUME NEW c \in Client, Respond(c) \/ TimesOut(c) PROVE IssuerTyped'
  <2>1. /\ request' = [d \in Client |-> request'[d]]
        /\ request'[c].at = "none"
        /\ \A d \in Client : d # c => request'[d] = request[d]
    BY <1>6 DEF Respond, TimesOut, NoRequest, IssuerTyped
  <2>2. confirmed' \subseteq Account /\ revokedHashes' = revokedHashes
    <3>1. CASE Respond(c)
      <4>1. request[c].hash[1] \in Account
        BY <1>1, <3>1 DEF Respond, IssuerTyped
      <4>2. QED
        BY <3>1, <4>1 DEF Respond, IssuerTyped
    <3>2. CASE TimesOut(c)
      BY <3>2 DEF TimesOut, IssuerTyped
    <3>3. QED
      BY <1>6, <3>1, <3>2
  <2>3. QED
    BY <2>1, <2>2 DEF IssuerTyped
<1>7. CASE Restart
  BY <1>7 DEF Restart, NoRequest, IssuerTyped
<1>8. QED
  BY <1>2, <1>3, <1>5, <1>6, <1>7 DEF Next, IssuerNext, vars

(* The hooks, their cache, the issuer's requests and the revocations have  *)
(* the values the code gives them, for any accounts and requests.          *)
THEOREM TypeCorrect == Spec => []TypeOK
<1>1. Init => IssuerTyped
  BY DEF Init, IssuerTyped, NoRequest
<1>2. IssuerTyped /\ [Next]_vars => IssuerTyped'
  BY IssuerStep
<1>3. HookInv /\ IssuerTyped => TypeOK
  <2> SUFFICES ASSUME HookInv, IssuerTyped PROVE TypeOK
    OBVIOUS
  <2>1. ASSUME NEW k \in Key
        PROVE  /\ cache[k].data \in 0 .. MaxSets + 1 \/ cache[k].data = None
               /\ Unanswerable(k) => cache[k].data = None
               /\ cache[k].fetch.at \in {"idle", "sent", "read"}
               /\ cache[k].fetch.at = "read" => ~Unanswerable(k)
    <3>1. cache[k] \in Entry /\ FreshAt(k)
      BY DEF HookInv, HookTyped, ReadIsFresh
    <3>2. QED
      BY <3>1, Entries DEF Entry, FreshAt
  <2>2. mutation.at \in {"none", "sent", "mined"}
    BY DEF HookInv, HookTyped, Mutation
  <2>3. HookTypeOK
    BY <2>1, <2>2 DEF HookInv, HookTyped, HookTypeOK
  <2>4. QED
    BY <2>3 DEF TypeOK, IssuerTyped
<1>4. QED
  BY <1>1, <1>2, <1>3, HookInvariant, PTL DEF Spec

--------------------------------------------------------------------------------
(* Revocations.                                                            *)

\* The requests of all clients, and nothing else.
RequestsTotal == request = [c \in Client |-> request[c]]

\* A revocation that was acknowledged, or is about to be, is in the set.
ConfirmedKept == \A a \in confirmed : <<a, "lower">> \in revokedHashes

ServedKept ==
    \A c \in Client : request[c].at = "served" /\ request[c].op = "revoke"
        => <<request[c].hash[1], "lower">> \in revokedHashes

\* What a request is owed was acknowledged since the backend started.
OwedConfirmed ==
    \A c \in Client : request[c].at \in {"sent", "served"} /\ request[c].owed
        => request[c].hash[1] \in confirmed

IInv ==
    /\ RequestsTotal
    /\ ConfirmedKept
    /\ ServedKept
    /\ OwedConfirmed
    /\ RevokedStaysRevoked

--------------------------------------------------------------------------------
(* A request that is served keeps the invariant, when a revocation has     *)
(* entered the set and a check has looked into it.                         *)
LEMMA ServeKeeps ==
  ASSUME IInv, NEW c \in Client, NEW answer, request[c].at = "sent", Serve(c, answer),
         revokedHashes \subseteq revokedHashes', UNCHANGED confirmed,
         request[c].op = "revoke" => <<request[c].hash[1], "lower">> \in revokedHashes',
         request[c].op = "check" /\ <<request[c].hash[1], "lower">> \in revokedHashes
             => answer.isRevoked
  PROVE  IInv'
<1>1. RequestsTotal' /\ \A d \in Client : d # c => request'[d] = request[d]
  BY DEF IInv, RequestsTotal, Serve
<1>2. request'[c] = [at |-> "served", op |-> request[c].op, hash |-> request[c].hash,
                     owed |-> request[c].owed, answer |-> answer]
  BY DEF IInv, RequestsTotal, Serve
<1>3. ConfirmedKept' /\ ServedKept' /\ OwedConfirmed'
  BY <1>1, <1>2 DEF IInv, ConfirmedKept, ServedKept, OwedConfirmed
<1>4. RevokedStaysRevoked'
  BY <1>1, <1>2 DEF IInv, ConfirmedKept, OwedConfirmed, RevokedStaysRevoked
<1>5. QED
  BY <1>1, <1>3, <1>4 DEF IInv

(* A revocation the issuer was told of is seen by every check that starts  *)
(* after it, until the backend restarts.                                   *)
THEOREM RevocationsSeen == Spec => []RevokedStaysRevoked
<1>1. Init => IInv
  BY DEF Init, IInv, NoRequest, RequestsTotal, ConfirmedKept, ServedKept, OwedConfirmed,
         RevokedStaysRevoked
<1>2. IInv /\ [Next]_vars => IInv'
  <2> SUFFICES ASSUME IInv, [Next]_vars PROVE IInv'
    OBVIOUS
  <2>1. CASE UNCHANGED issuerVars
    BY <2>1 DEF issuerVars, IInv, RequestsTotal, ConfirmedKept, ServedKept, OwedConfirmed,
                RevokedStaysRevoked
  <2>2. ASSUME NEW c \in Client, NEW op \in Op, NEW h \in Hash, Request(c, op, h)
        PROVE  IInv'
    <3>1. RequestsTotal' /\ \A d \in Client : d # c => request'[d] = request[d]
      BY <2>2 DEF IInv, RequestsTotal, Request
    <3>2. request'[c] = Requested(op, h)
      BY <2>2 DEF IInv, RequestsTotal, Request
    <3>3. UNCHANGED <<revokedHashes, confirmed>>
      BY <2>2 DEF Request
    <3>4. request'[c].at = "sent" /\ request'[c].hash = h
      BY <3>2 DEF Requested
    <3>5. request'[c].owed => h[1] \in confirmed
      <4> DEFINE owed == h[1] \in confirmed
      <4>1. request'[c] = [at |-> "sent", op |-> op, hash |-> h, owed |-> owed]
        BY <3>2, Zenon DEF Requested
      <4> SUFFICES request'[c].owed => owed
        OBVIOUS
      <4> HIDE DEF owed
      <4>2. QED
        BY <4>1
    <3>6. ConfirmedKept' /\ ServedKept' /\ OwedConfirmed'
      BY <3>1, <3>3, <3>4, <3>5 DEF IInv, ConfirmedKept, ServedKept, OwedConfirmed
    <3>7. RevokedStaysRevoked'
      BY <3>1, <3>4 DEF IInv, RevokedStaysRevoked
    <3>8. QED
      BY <3>1, <3>6, <3>7 DEF IInv
  <2>3. ASSUME NEW c \in Client, CheckOnChain(c) \/ Unauthorized(c) \/ RegisterCredential(c)
        PROVE  IInv'
    <3>1. PICK answer : Serve(c, answer)
      BY <2>3 DEF CheckOnChain, Unauthorized, RegisterCredential
    <3>2. QED
      BY <2>3, <3>1, ServeKeeps DEF CheckOnChain, Unauthorized, RegisterCredential
  <2>4. ASSUME NEW c \in Client, RevokeCredential(c) PROVE IInv'
    BY <2>4, ServeKeeps DEF RevokeCredential, ToLowerCase
  <2>5. ASSUME NEW c \in Client, CheckCredential(c) PROVE IInv'
    <3> DEFINE isRevoked == ToLowerCase(request[c].hash) \in revokedHashes
    <3>1. Serve(c, [isValid |-> ~isRevoked, isRevoked |-> isRevoked])
      BY <2>5 DEF CheckCredential
    <3>2. <<request[c].hash[1], "lower">> \in revokedHashes
            => [isValid |-> ~isRevoked, isRevoked |-> isRevoked].isRevoked
      BY DEF ToLowerCase
    <3> HIDE DEF isRevoked
    <3>3. QED
      BY <2>5, <3>1, <3>2, ServeKeeps DEF CheckCredential
  <2>6. ASSUME NEW c \in Client, Respond(c) \/ TimesOut(c) PROVE IInv'
    <3>1. RequestsTotal' /\ \A d \in Client : d # c => request'[d] = request[d]
      BY <2>6 DEF IInv, RequestsTotal, Respond, TimesOut
    <3>2. request'[c] = NoRequest
      BY <2>6 DEF IInv, RequestsTotal, Respond, TimesOut
    <3>3. confirmed' = confirmed \/ (confirmed' = confirmed \cup {request[c].hash[1]}
             /\ <<request[c].hash[1], "lower">> \in revokedHashes)
      BY <2>6 DEF IInv, ServedKept, Respond, TimesOut
    <3>4. UNCHANGED revokedHashes
      BY <2>6 DEF Respond, TimesOut
    <3>5. QED
      BY <3>1, <3>2, <3>3, <3>4 DEF NoRequest, IInv, ConfirmedKept, ServedKept, OwedConfirmed,
         RevokedStaysRevoked
  <2>7. CASE Restart
    BY <2>7 DEF Restart, NoRequest, IInv, RequestsTotal, ConfirmedKept, ServedKept,
                OwedConfirmed, RevokedStaysRevoked
  <2>8. QED
    BY <2>1, <2>2, <2>3, <2>4, <2>5, <2>6, <2>7 DEF Next, IssuerNext, vars, issuerVars
<1>3. IInv => RevokedStaysRevoked
  BY DEF IInv
<1>4. QED
  BY <1>1, <1>2, <1>3, PTL DEF Spec
================================================================================
