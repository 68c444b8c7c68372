------------------------------ MODULE MCRunView ------------------------------
(***************************************************************************)
(* Instances of RunView: a finished run and one or two more.               *)
(***************************************************************************)
EXTENDS RunView, TLC

RunSymmetry == Permutations(Runs)
=============================================================================
