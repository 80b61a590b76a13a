----------------------- MODULE MCTransferJobInvariant -----------------------
(***************************************************************************)
(* The inductive invariant behind the proofs, for TLC.                     *)
(***************************************************************************)
EXTENDS TransferJobInvariant, TLC

HandlerSymmetry == Permutations(Handlers)

=============================================================================
