CONSTANTS
  w1 = w1
  t1 = t1
  t2 = t2
  a1 = a1
  a2 = a2
  c1 = c1
  c2 = c2
  Wallet <- MCWallet
  Rpc = Rpc
  RpcChain = c1
  Account <- MCAccount
  Chain <- MCChain
  ExpectedChain = c1
  TargetChain = c1
  HasNetworkConfig = TRUE
  None = None
  Task <- MCTask
  Calls = {"connectWithProvider", "switchNetwork", "disconnect"}
  MaxInbox = 1
  MaxAttached = 2

SPECIFICATION Spec

SYMMETRY Symmetry

INVARIANT
  ChainIdIsCurrent
