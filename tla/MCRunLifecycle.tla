--------------------------- MODULE MCRunLifecycle ---------------------------
(***************************************************************************)
(* Instances of RunLifecycle for TLC.  No definition orders or names a     *)
(* flow, so flows (and with them the runs named after them) are            *)
(* interchangeable in the instances that check no liveness.                *)
(***************************************************************************)
EXTENDS RunLifecycle, TLC

FlowSymmetry == Permutations(Flows)
=============================================================================
