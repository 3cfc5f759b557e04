----------------------------- MODULE MCWalletAdapter -----------------------------
(***************************************************************************)
(* Instance of WalletAdapter: one wallet with two accounts, the configured *)
(* network and another, and two tasks, so that a handler can run next to a *)
(* method or to another handler.                                           *)
(***************************************************************************)
EXTENDS WalletAdapter, TLC

CONSTANTS w1, t1, t2, a1, a2, c1, c2

MCWallet == {w1}
MCTask == {t1, t2}
MCAccount == {a1, a2}
MCChain == {c1, c2}

Symmetry == Permutations(MCTask) \cup Permutations(MCAccount)

================================================================================
