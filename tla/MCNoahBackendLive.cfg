CONSTANTS
  r1 = r1
  r2 = r2
  zero = zero
  deployer = deployer
  relayer = relayer
  alice = alice
  bob = bob
  none = none
  zeroWord = zeroWord
  docZ = docZ
  docD = docD
  docR = docR
  docA = docA
  docB = docB
  ct1 = ct1
  Request <- MCRequest
  Address <- MCAddress
  ZeroAddress = zero
  Nullifier <- MCNullifier
  ZeroNullifier = zeroWord
  Ciphertext <- MCCiphertext
  NoCiphertext = none
  Deployer = deployer
  MinAge <- MCMinAge
  RelayerAddress = relayer
  ComputeNullifier <- MCComputeNullifier
  NoNullifier = NoNullifier
  Body <- MCBodyLive
  NoBody = NoBody

SPECIFICATION FairSpec

PROPERTIES
  EveryRequestAnswered
