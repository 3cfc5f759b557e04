-------------------------- MODULE ProtocolAccessProofs --------------------------
(***************************************************************************)
(* Proofs about the two contracts, for any sets of addresses, documents,   *)
(* ciphertexts and ages.  BindingsMatch is inductive together with the     *)
(* type invariant: the two requirements of registerIdentity say exactly    *)
(* that neither side of the new pair occurs in an existing non-zero pair.  *)
(***************************************************************************)
EXTENDS ProtocolAccess, TLAPS

(* Every step of the two contracts is one of the five calls; a proof about *)
(* steps is a proof about each of them.                                    *)
LEMMA StepCases ==
  ASSUME [Next]_vars
  PROVE  \/ \E s \in Sender, u \in Address, n \in Nullifier, c \in Ciphertext :
              /\ RegisterIdentity(s, u, n, c)
              /\ UNCHANGED protocolRequirements
         \/ UNCHANGED <<bindingVars, protocolRequirements>>
         \/ /\ UNCHANGED bindingVars
            /\ \E s \in Sender, m \in MinAge : SetRequirements(s, m)
  BY DEF Next, RegistryNext, GrantRole, RevokeRole, AddIssuer, SetRequirements,
         vars, registryVars, bindingVars

(* Type correctness: no call stores a value outside its variable's type.   *)
THEOREM TypeCorrect == Spec => []TypeOK
<1>1. Init => TypeOK
  BY AddressAssumption, NullifierAssumption, CiphertextAssumption
     DEF Init, RegistryInit, TypeOK, RegistryTypeOK, Sender, Role
<1>2. TypeOK /\ [Next]_vars => TypeOK'
  <2> SUFFICES ASSUME TypeOK, [Next]_vars PROVE TypeOK'
    OBVIOUS
  <2> USE DEF TypeOK, RegistryTypeOK, registryVars, bindingVars
  <2>1. ASSUME NEW s \in Sender, NEW a \in Address, NEW r \in Role,
               GrantRole(s, r, a), UNCHANGED protocolRequirements
        PROVE  TypeOK'
    BY <2>1 DEF GrantRole
  <2>2. ASSUME NEW s \in Sender, NEW a \in Address, NEW r \in Role,
               RevokeRole(s, r, a), UNCHANGED protocolRequirements
        PROVE  TypeOK'
    BY <2>2 DEF RevokeRole
  <2>3. ASSUME NEW s \in Sender, NEW i \in Address, AddIssuer(s, i),
               UNCHANGED protocolRequirements
        PROVE  TypeOK'
    BY <2>3 DEF AddIssuer
  <2>4. ASSUME NEW s \in Sender, NEW u \in Address, NEW n \in Nullifier,
               NEW c \in Ciphertext, RegisterIdentity(s, u, n, c),
               UNCHANGED protocolRequirements
        PROVE  TypeOK'
    BY <2>4 DEF RegisterIdentity, StoreIdentity
  <2>5. ASSUME NEW s \in Sender, NEW m \in MinAge, SetRequirements(s, m)
        PROVE  TypeOK'
    BY <2>5 DEF SetRequirements, Sender
  <2>6. CASE UNCHANGED vars
    BY <2>6 DEF vars
  <2>7. QED
    BY <2>1, <2>2, <2>3, <2>4, <2>5, <2>6 DEF Next, RegistryNext
<1>3. QED
  BY <1>1, <1>2, PTL DEF Spec

--------------------------------------------------------------------------------
(* The two reverse mappings of the registry agree for ever.                *)
THEOREM BindingsCorrect == Spec => []BindingsMatch
<1>1. Init => BindingsMatch
  BY NullifierAssumption
     DEF Init, RegistryInit, BindingsMatch, Wallet, Document
<1>2. TypeOK /\ BindingsMatch /\ [Next]_vars => BindingsMatch'
  <2> SUFFICES ASSUME TypeOK, BindingsMatch, [Next]_vars PROVE BindingsMatch'
    OBVIOUS
  <2> USE DEF BindingsMatch, Wallet, Document, bindingVars
  <2>1. ASSUME NEW s \in Sender, NEW u \in Address, NEW n \in Nullifier,
               NEW c \in Ciphertext, RegisterIdentity(s, u, n, c)
        PROVE  BindingsMatch'
    BY <2>1 DEF RegisterIdentity, CanRegister, DocumentFree, AddressFree,
                StoreIdentity, TypeOK, RegistryTypeOK
  <2>2. CASE UNCHANGED bindingVars
    BY <2>2
  <2>3. QED
    BY <2>1, <2>2, StepCases DEF SetRequirements, registryVars
<1>3. QED
  BY <1>1, <1>2, TypeCorrect, PTL DEF Spec

(* The mapping verifyAccess reads and the one that binds documents tell    *)
(* the same of every wallet, and no other wallet has an age.               *)
THEOREM RegistrationsComplete == Spec => []RegistrationComplete
<1>1. Init => RegistrationComplete
  BY DEF Init, RegistryInit, RegistrationComplete, Wallet
<1>2. TypeOK /\ RegistrationComplete /\ [Next]_vars => RegistrationComplete'
  <2> SUFFICES ASSUME TypeOK, RegistrationComplete, [Next]_vars,
                      NEW v \in Wallet
               PROVE  /\ v \in isRegistered' <=>
                           \E n \in Nullifier : identityNullifiers'[n] = v
                      /\ encryptedAges'[v] # NoCiphertext => v \in isRegistered'
    BY DEF RegistrationComplete
  <2> USE DEF RegistrationComplete, Wallet, bindingVars
  <2>1. ASSUME NEW s \in Sender, NEW u \in Address, NEW n \in Nullifier,
               NEW c \in Ciphertext, RegisterIdentity(s, u, n, c)
        PROVE  /\ v \in isRegistered' <=>
                    \E d \in Nullifier : identityNullifiers'[d] = v
               /\ encryptedAges'[v] # NoCiphertext => v \in isRegistered'
    <3> USE <2>1 DEF RegisterIdentity, CanRegister, DocumentFree,
                     StoreIdentity, TypeOK, RegistryTypeOK
    <3>1. encryptedAges'[v] # NoCiphertext => v \in isRegistered'
      OBVIOUS
    <3>2. CASE v = u
      <4>1. identityNullifiers'[n] = v /\ v \in isRegistered'
        BY <3>2
      <4>2. QED
        BY <3>1, <4>1
    <3>3. CASE v # u
      <4>1. \A d \in Nullifier : identityNullifiers'[d] = v
                                   <=> identityNullifiers[d] = v
        BY <3>3
      <4>2. v \in isRegistered' <=> v \in isRegistered
        BY <3>3
      <4>3. QED
        BY <3>1, <4>1, <4>2
    <3>4. QED
      BY <3>1, <3>2, <3>3
  <2>2. CASE UNCHANGED bindingVars
    BY <2>2
  <2>3. QED
    BY <2>1, <2>2, StepCases DEF SetRequirements, registryVars
<1>3. QED
  BY <1>1, <1>2, TypeCorrect, PTL DEF Spec

--------------------------------------------------------------------------------
(* A step never disturbs a binding of a non-zero wallet to a non-zero      *)
(* document: the step registers another wallet and another document.       *)
LEMMA StepKeepsBinding ==
  ASSUME TypeOK, BindingsMatch, [Next]_vars,
         NEW u \in Wallet, NEW n \in Document, identityNullifiers[n] = u
  PROVE  BindingUntouched(u, n)
<1> USE DEF BindingUntouched, Wallet, Document, bindingVars
<1>1. addressToNullifiers[u] = n
  BY DEF BindingsMatch
<1>2. ASSUME NEW s \in Sender, NEW v \in Address, NEW m \in Nullifier,
             NEW c \in Ciphertext, RegisterIdentity(s, v, m, c)
      PROVE  BindingUntouched(u, n)
  <2>1. v # u /\ m # n
    BY <1>1, <1>2 DEF RegisterIdentity, CanRegister, DocumentFree, AddressFree
  <2>2. QED
    BY <1>1, <1>2, <2>1 DEF RegisterIdentity, StoreIdentity, TypeOK, RegistryTypeOK
<1>3. CASE UNCHANGED bindingVars
  BY <1>1, <1>3
<1>4. QED
  BY <1>2, <1>3, StepCases DEF SetRequirements, registryVars

(* A binding and the age stored with it are permanent.                     *)
THEOREM BindingsPermanent == Spec => BindingPermanent
<1>1. TypeOK /\ BindingsMatch /\ [Next]_vars =>
        [\A u \in Wallet, n \in Document :
           identityNullifiers[n] = u => BindingUntouched(u, n)]_vars
  BY StepKeepsBinding
<1>2. QED
  BY <1>1, TypeCorrect, BindingsCorrect, PTL DEF Spec, BindingPermanent

(* A positive answer of verifyAccess is permanent.                         *)
THEOREM AccessPermanent == Spec => AccessNeverWithdrawn
<1>1. TypeOK /\ [Next]_vars =>
        [\A p \in Sender, u \in Address :
           VerifyAccess(p, u) => VerifyAccess(p, u)']_vars
  <2> SUFFICES ASSUME TypeOK, [Next]_vars, NEW p \in Sender, NEW u \in Address,
                      VerifyAccess(p, u)
               PROVE  VerifyAccess(p, u)'
    OBVIOUS
  <2> USE DEF VerifyAccess, TypeOK, RegistryTypeOK, bindingVars
  <2>1. CASE \E s \in Sender, v \in Address, n \in Nullifier, c \in Ciphertext :
               /\ RegisterIdentity(s, v, n, c)
               /\ UNCHANGED protocolRequirements
    BY <2>1 DEF RegisterIdentity, StoreIdentity
  <2>2. CASE UNCHANGED <<bindingVars, protocolRequirements>>
    BY <2>2
  <2>3. CASE \E s \in Sender, m \in MinAge : SetRequirements(s, m)
    BY <2>3 DEF SetRequirements, Required, registryVars, Sender
  <2>4. QED
    BY <2>1, <2>2, <2>3, StepCases
<1>2. QED
  BY <1>1, TypeCorrect, PTL DEF Spec, AccessNeverWithdrawn

--------------------------------------------------------------------------------
(* The registry implements the abstract one-to-one binding: a registration *)
(* with non-zero arguments is a Bind, and every other call, registrations   *)
(* that use a zero value included, is a stutter.                           *)
THEOREM Refinement == Spec => BindingSpec
<1> DEFINE bound == {b \in Wallet \X Document : identityNullifiers[b[2]] = b[1]}
<1>1. Init => Binding!Init
  BY DEF Init, RegistryInit, Binding!Init, Wallet, Document
<1>2. TypeOK /\ BindingsMatch /\ [Next]_vars => [Binding!Next]_bound
  <2> SUFFICES ASSUME TypeOK, BindingsMatch, [Next]_vars
               PROVE  Binding!Next \/ bound' = bound
    OBVIOUS
  <2>1. ASSUME NEW s \in Sender, NEW u \in Address, NEW n \in Nullifier,
               NEW c \in Ciphertext, RegisterIdentity(s, u, n, c)
        PROVE  Binding!Next \/ bound' = bound
    <3> USE <2>1 DEF RegisterIdentity, CanRegister, DocumentFree, AddressFree,
                     StoreIdentity, TypeOK, RegistryTypeOK, Wallet, Document
    <3>1. CASE u = ZeroAddress \/ n = ZeroNullifier
      BY <3>1
    <3>2. CASE u \in Wallet /\ n \in Document
      <4>1. \A b \in bound : b[1] # u /\ b[2] # n
        BY <3>2 DEF BindingsMatch
      <4>2. bound' = bound \cup {<<u, n>>}
        BY <3>2
      <4>3. Binding!Bind(u, n)
        BY <4>1, <4>2 DEF Binding!Bind
      <4>4. QED
        BY <3>2, <4>3 DEF Binding!Next
    <3>3. QED
      BY <3>1, <3>2
  <2>2. CASE UNCHANGED bindingVars
    BY <2>2 DEF bindingVars
  <2>3. QED
    BY <2>1, <2>2, StepCases DEF SetRequirements, registryVars, bindingVars
<1>3. QED
  BY <1>1, <1>2, TypeCorrect, BindingsCorrect, PTL
     DEF Spec, BindingSpec, Binding!Spec

(* Seen as a set of pairs, the registry never binds a wallet twice nor a   *)
(* document twice: two bindings that share one side are the same binding.  *)
THEOREM AbstractOneToOne == Spec => []Binding!OneToOne
<1>1. BindingsMatch => Binding!OneToOne
  <2> SUFFICES ASSUME BindingsMatch,
                      NEW b \in Wallet \X Document, identityNullifiers[b[2]] = b[1],
                      NEW c \in Wallet \X Document, identityNullifiers[c[2]] = c[1]
               PROVE  b[1] = c[1] <=> b[2] = c[2]
    BY DEF Binding!OneToOne
  <2>1. addressToNullifiers[b[1]] = b[2] /\ addressToNullifiers[c[1]] = c[2]
    BY DEF BindingsMatch
  <2>2. QED
    BY <2>1
<1>2. QED
  BY <1>1, BindingsCorrect, PTL

================================================================================
