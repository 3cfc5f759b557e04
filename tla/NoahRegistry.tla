------------------------------ MODULE NoahRegistry ------------------------------
(***************************************************************************)
(* The on-chain identity registry, src/FHENoahRegistry.sol.                *)
(*                                                                         *)
(* A transaction is atomic: an action is a call that does not revert, and  *)
(* a call whose guard fails leaves the state as it was.  Reading a Solidity *)
(* mapping at a key never written yields the zero value, so the zero       *)
(* address, the zero nullifier and the all-zero struct are members of      *)
(* their sets: the code uses the first two as "absent" and accepts all     *)
(* three as arguments.  A mapping to bool is the set of the keys it maps   *)
(* to true.                                                                *)
(***************************************************************************)
EXTENDS Naturals

CONSTANTS
  Address,        \* account addresses, the zero address among them
  ZeroAddress,    \* address(0)
  Nullifier,      \* bytes32 nullifiers, the zero word among them
  ZeroNullifier,  \* bytes32(0)
  Ciphertext,     \* encrypted ages (inEuint32 structs), the all-zero one among them
  NoCiphertext,   \* the all-zero struct, that of an address never registered
  Deployer        \* the account that deploys the contracts

ASSUME AddressAssumption ==
  /\ ZeroAddress \in Address
  /\ Deployer \in Address \ {ZeroAddress}

ASSUME NullifierAssumption == ZeroNullifier \in Nullifier

ASSUME CiphertextAssumption == NoCiphertext \in Ciphertext

VARIABLES
  roles,               \* AccessControl: the holders of each role
  trustedIssuers,      \* mapping(address => bool)
  isRegistered,        \* mapping(address => bool)
  encryptedAges,       \* mapping(address => inEuint32)
  identityNullifiers,  \* mapping(bytes32 => address)
  addressToNullifiers  \* mapping(address => bytes32)

bindingVars ==
  <<isRegistered, encryptedAges, identityNullifiers, addressToNullifiers>>
registryVars == <<roles, trustedIssuers, bindingVars>>

Role == {"DEFAULT_ADMIN_ROLE", "ISSUER_MANAGER_ROLE"}

\* No transaction is sent from the zero address.
Sender == Address \ {ZeroAddress}

RegistryTypeOK ==
  /\ roles \in [Role -> SUBSET Address]
  /\ trustedIssuers \subseteq Address
  /\ isRegistered \subseteq Address
  /\ encryptedAges \in [Address -> Ciphertext]
  /\ identityNullifiers \in [Nullifier -> Address]
  /\ addressToNullifiers \in [Address -> Nullifier]

(***************************************************************************)
(* The constructor grants both roles to the deployer.  The deployment      *)
(* script's addIssuer(deployer) is an ordinary AddIssuer step.             *)
(***************************************************************************)
RegistryInit ==
  /\ roles = [r \in Role |-> {Deployer}]
  /\ trustedIssuers = {}
  /\ isRegistered = {}
  /\ encryptedAges = [a \in Address |-> NoCiphertext]
  /\ identityNullifiers = [n \in Nullifier |-> ZeroAddress]
  /\ addressToNullifiers = [a \in Address |-> ZeroNullifier]

--------------------------------------------------------------------------------
(***************************************************************************)
(* OpenZeppelin's AccessControl: the default admin role administers both   *)
(* roles, and a holder may give up a role of its own.  The account may be  *)
(* the zero address.                                                       *)
(***************************************************************************)
GrantRole(sender, role, account) ==
  /\ sender \in roles["DEFAULT_ADMIN_ROLE"]
  /\ roles' = [roles EXCEPT ![role] = @ \cup {account}]
  /\ UNCHANGED <<trustedIssuers, bindingVars>>

RevokeRole(sender, role, account) ==
  /\ sender \in roles["DEFAULT_ADMIN_ROLE"] \/ sender = account
  /\ account \in roles[role]
  /\ roles' = [roles EXCEPT ![role] = @ \ {account}]
  /\ UNCHANGED <<trustedIssuers, bindingVars>>

AddIssuer(sender, issuer) ==
  /\ sender \in roles["ISSUER_MANAGER_ROLE"]
  /\ trustedIssuers' = trustedIssuers \cup {issuer}
  /\ UNCHANGED <<roles, bindingVars>>

--------------------------------------------------------------------------------
\* Faulty variants, for the runs that show which property each guard serves.
DocumentAlwaysFree(nullifier) == nullifier \in Nullifier

AddressAlwaysFree(user) == user \in Address

DocumentFree(nullifier) == identityNullifiers[nullifier] = ZeroAddress

AddressFree(user) == addressToNullifiers[user] = ZeroNullifier

StoreWithoutFlag(user, nullifier, ageInput) ==
  /\ encryptedAges' = [encryptedAges EXCEPT ![user] = ageInput]
  /\ identityNullifiers' = [identityNullifiers EXCEPT ![nullifier] = user]
  /\ addressToNullifiers' = [addressToNullifiers EXCEPT ![user] = nullifier]
  /\ UNCHANGED <<roles, trustedIssuers, isRegistered>>

\* The writes of registerIdentity, once its requirements have been met.
StoreIdentity(user, nullifier, ageInput) ==
  /\ encryptedAges' = [encryptedAges EXCEPT ![user] = ageInput]
  /\ identityNullifiers' = [identityNullifiers EXCEPT ![nullifier] = user]
  /\ addressToNullifiers' = [addressToNullifiers EXCEPT ![user] = nullifier]
  /\ isRegistered' = isRegistered \cup {user}
  /\ UNCHANGED <<roles, trustedIssuers>>

CanRegister(sender, user, nullifier) ==
  /\ sender \in trustedIssuers
  /\ DocumentFree(nullifier)
  /\ AddressFree(user)

RegisterIdentity(sender, user, nullifier, ageInput) ==
  /\ CanRegister(sender, user, nullifier)
  /\ StoreIdentity(user, nullifier, ageInput)

RegistryNext ==
  \/ \E s \in Sender, a \in Address, r \in Role : GrantRole(s, r, a)
  \/ \E s \in Sender, a \in Address, r \in Role : RevokeRole(s, r, a)
  \/ \E s \in Sender, i \in Address : AddIssuer(s, i)
  \/ \E s \in Sender, u \in Address, n \in Nullifier, c \in Ciphertext :
       RegisterIdentity(s, u, n, c)

RegistrySpec == RegistryInit /\ [][RegistryNext]_registryVars

================================================================================
