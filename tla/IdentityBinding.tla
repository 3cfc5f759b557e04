---------------------------- MODULE IdentityBinding ----------------------------
(***************************************************************************)
(* What the identity registry promises, with nothing of how it keeps it:   *)
(* a one-to-one relation between wallets and identity documents that only  *)
(* grows.  A wallet is bound at most once, a document is bound at most     *)
(* once, and a binding, once made, is never withdrawn or replaced.         *)
(***************************************************************************)

CONSTANTS
  Wallet,    \* the wallets that may be bound
  Document   \* the identity documents (their nullifiers)

VARIABLE binding   \* the set of <<wallet, document>> pairs bound so far

Init == binding = {}

Bind(w, d) ==
  /\ \A b \in binding : b[1] # w /\ b[2] # d
  /\ binding' = binding \cup {<<w, d>>}

Next == \E w \in Wallet, d \in Document : Bind(w, d)

Spec == Init /\ [][Next]_binding

TypeOK == binding \subseteq Wallet \X Document

(* Two bindings share their wallet exactly when they share their document. *)
OneToOne == \A b, c \in binding : b[1] = c[1] <=> b[2] = c[2]

================================================================================
