CONSTANTS
  zero = zero
  deployer = deployer
  alice = alice
  none = none
  zeroWord = zeroWord
  doc1 = doc1
  doc2 = doc2
  ct1 = ct1
  Address <- MCAddress
  ZeroAddress = zero
  Nullifier <- MCNullifier
  ZeroNullifier = zeroWord
  Ciphertext <- MCCiphertext
  NoCiphertext = none
  Deployer = deployer
  MinAge <- MCMinAge

SPECIFICATION Spec

PROPERTY
  RegisteredOnce
