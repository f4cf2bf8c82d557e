------------------------- MODULE MCApprovalService -------------------------
(***************************************************************************)
(* ApprovalService for TLC.                                                *)
(***************************************************************************)
EXTENDS ApprovalService, TLC

(* Nothing tells two processes, or two approvers of a request, apart.      *)
Interchangeable == Permutations(Services) \cup Permutations(Approvers)

(* One request that both approvers are named in.                           *)
OneKey == {[fingerprint |-> "f1", approvers |-> Approvers]}
=============================================================================
