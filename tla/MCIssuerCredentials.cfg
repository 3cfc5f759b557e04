CONSTANTS
  alice = alice
  bob = bob
  c1 = c1
  c2 = c2
  Account <- MCAccount
  Given <- MCGiven
  Client <- MCClient
  None = None
  MaxSets = 1

SPECIFICATION Spec

INVARIANTS
  TypeOK
  AckedIsShown
  ShownIsAsked
  RevokedStaysRevoked
