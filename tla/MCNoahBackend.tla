------------------------------ MODULE MCNoahBackend ------------------------------
(***************************************************************************)
(* Instance of NoahBackend with two concurrent requests.  Their bodies let *)
(* them register one wallet twice, claim one document for two wallets, use *)
(* the zero nullifier, set two requirements, or make a call that reverts.  *)
(***************************************************************************)
EXTENDS NoahBackend, TLC

CONSTANTS
  r1, r2, zero, deployer, relayer, alice, bob, none, zeroWord, docZ, docD, docR,
  docA, docB, ct1

MCRequest == {r1, r2}

Symmetry == Permutations(MCRequest)

MCAddress == {zero, deployer, relayer, alice, bob}
MCNullifier == {zeroWord, docZ, docD, docR, docA, docB}
MCCiphertext == {none, ct1}
MCMinAge == {18, 21}

MCComputeNullifier ==
  [a \in MCAddress |-> CASE a = zero -> docZ [] a = deployer -> docD
                         [] a = relayer -> docR [] a = alice -> docA
                         [] a = bob -> docB]

Register(u, n, c) ==
  [op |-> "registerIdentity", user |-> u, nullifier |-> n, age |-> c]

\* For the safety run: the calls whose effects can conflict.
MCBody ==
  { Register(alice, NoNullifier, ct1), Register(alice, docB, none),
    Register(bob, NoNullifier, ct1), Register(alice, zeroWord, none),
    [op |-> "setRequirements", minAge |-> 18],
    [op |-> "setRequirements", minAge |-> 21] }

\* For the liveness run: calls that can succeed, always do, and never do.
MCBodyLive ==
  { Register(alice, NoNullifier, ct1),
    [op |-> "addIssuer", issuer |-> bob],
    [op |-> "requestAccessVerification"] }

================================================================================
