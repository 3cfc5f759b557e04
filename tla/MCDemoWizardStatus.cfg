CONSTANTS
  alice = alice
  bob = bob
  s1 = s1
  s2 = s2
  Account <- MCAccount
  Slot <- MCSlot
  None = None

SPECIFICATION Spec

INVARIANTS
  StatusNamesTheWallet
