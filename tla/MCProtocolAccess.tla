---------------------------- MODULE MCProtocolAccess ----------------------------
(***************************************************************************)
(* Instance of ProtocolAccess: the deployer and one other account next to  *)
(* the zero address, two documents next to the zero nullifier, so that a   *)
(* document can be asked for by two wallets and a wallet can ask for two   *)
(* documents, with and without the zero values, the all-zero age included. *)
(***************************************************************************)
EXTENDS ProtocolAccess

CONSTANTS zero, deployer, alice, none, zeroWord, doc1, doc2, ct1

MCAddress == {zero, deployer, alice}
MCNullifier == {zeroWord, doc1, doc2}
MCCiphertext == {none, ct1}
MCMinAge == {18}

================================================================================
