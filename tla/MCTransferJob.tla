--------------------------- MODULE MCTransferJob ---------------------------
(***************************************************************************)
(* TransferJob for TLC: the threads that run mld_status are                *)
(* interchangeable.                                                        *)
(***************************************************************************)
EXTENDS TransferJob, TLC

HandlerSymmetry == Permutations(Handlers)
=============================================================================
