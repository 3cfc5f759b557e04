----------------------------- MODULE ProtocolAccess -----------------------------
(***************************************************************************)
(* The access-control contract, src/FHEProtocolAccessControl.sol, next to  *)
(* the registry it reads.  setRequirements is the only call that changes   *)
(* its state (protocolAccess is declared and never written); verifyAccess   *)
(* is a view whose answer depends on both contracts.                       *)
(***************************************************************************)
EXTENDS NoahRegistry

CONSTANT MinAge  \* the minimum ages (uint32) a protocol may ask for

VARIABLE protocolRequirements  \* mapping(address => Requirements)

vars == <<registryVars, protocolRequirements>>

\* The struct a call of setRequirements stores, and the one of a protocol
\* that never made such a call.
Required(minAge) == [minAge |-> minAge, isSet |-> TRUE]

NotSet == [minAge |-> 0, isSet |-> FALSE]

(* Each variable has its type, and a requirement's flag tells the truth:   *)
(* an age is never stored without it.                                      *)
TypeOK ==
  /\ RegistryTypeOK
  /\ protocolRequirements \in [Address -> {Required(m) : m \in MinAge} \cup {NotSet}]

Init ==
  /\ RegistryInit
  /\ protocolRequirements = [p \in Address |-> NotSet]

\* Faulty variants: asking again for the same age toggles the slot off; the
\* age is assigned alone, in place of the whole struct.
SetRequirementsToggling(sender, minAge) ==
  /\ protocolRequirements' =
       [protocolRequirements EXCEPT
          ![sender] = IF @ = Required(minAge) THEN NotSet ELSE Required(minAge)]
  /\ UNCHANGED registryVars

SetRequirementsAgeOnly(sender, minAge) ==
  /\ protocolRequirements' = [protocolRequirements EXCEPT ![sender].minAge = minAge]
  /\ UNCHANGED registryVars

SetRequirements(sender, minAge) ==
  /\ protocolRequirements' = [protocolRequirements EXCEPT ![sender] = Required(minAge)]
  /\ UNCHANGED registryVars

\* The call by protocol p returns true.  Otherwise it reverts; it never
\* returns false, and the encrypted age plays no part in the answer.
VerifyAccess(p, user) ==
  /\ protocolRequirements[p].isSet
  /\ user \in isRegistered

Next ==
  \/ RegistryNext /\ UNCHANGED protocolRequirements
  \/ \E s \in Sender, m \in MinAge : SetRequirements(s, m)

Spec == Init /\ [][Next]_vars

--------------------------------------------------------------------------------
Wallet == Address \ {ZeroAddress}
Document == Nullifier \ {ZeroNullifier}

(* The two reverse mappings of registerIdentity agree: a document names a  *)
(* wallet as its owner exactly when that wallet names the document, for    *)
(* every wallet and document that the code's "absent" values do not stand  *)
(* for, whatever mixture of zero and non-zero arguments callers used.      *)
BindingsMatch ==
  \A u \in Wallet, n \in Document :
    identityNullifiers[n] = u <=> addressToNullifiers[u] = n

(* isRegistered, the one mapping verifyAccess reads, is set exactly when   *)
(* one of the others binds some document to the wallet, through            *)
(* registrations that are repeated and registrations under the zero        *)
(* nullifier; and only a registered wallet has an age.  (A registered one  *)
(* may have the all-zero struct: registerIdentity accepts it.)             *)
RegistrationComplete ==
  \A u \in Wallet :
    /\ u \in isRegistered <=> \E n \in Nullifier : identityNullifiers[n] = u
    /\ encryptedAges[u] # NoCiphertext => u \in isRegistered

(* No sequence of calls, by any issuer, moves a document to another        *)
(* wallet, gives a bound wallet another document, or replaces the          *)
(* encrypted age stored with the binding.                                  *)
BindingUntouched(u, n) ==
  /\ identityNullifiers'[n] = u
  /\ addressToNullifiers'[u] = n
  /\ encryptedAges'[u] = encryptedAges[u]

BindingPermanent ==
  [][\A u \in Wallet, n \in Document :
       identityNullifiers[n] = u => BindingUntouched(u, n)]_vars

(* verifyAccess, once it answers true for a protocol and a user, answers   *)
(* true for them for ever: neither contract can withdraw what the answer   *)
(* rests on, whatever the protocol sets later and whoever loses its role.  *)
AccessNeverWithdrawn ==
  [][\A p \in Sender, u \in Address :
       VerifyAccess(p, u) => VerifyAccess(p, u)']_vars

(* The registry, seen through the bindings of non-zero wallets to non-zero *)
(* documents, is the abstract one-to-one binding.                          *)
Binding == INSTANCE IdentityBinding WITH
  binding <- {b \in Wallet \X Document : identityNullifiers[b[2]] = b[1]}

BindingSpec == Binding!Spec

(* What the revert message of registerIdentity's second requirement says,  *)
(* "Address already registered to an identity": a registered wallet is     *)
(* not registered again.                                                   *)
RegisteredOnce ==
  [][\A u \in isRegistered \cap Wallet :
       addressToNullifiers'[u] = addressToNullifiers[u]]_vars

================================================================================
