---------------------------- MODULE MCTransfers ----------------------------
(* Neither the requests nor the files differ but in name. *)
EXTENDS Transfers, TLC

TransferSymmetry == Permutations(Request) \cup Permutations(File)
=============================================================================
