----------------------------- MODULE MCCertDeploy -----------------------------
(***************************************************************************)
(* CertDeploy for TLC: deployments as model values, interchangeable within *)
(* their kind.                                                             *)
(***************************************************************************)
EXTENDS CertDeploy, TLC

Interchangeable == Permutations(HttpDeploys) \cup Permutations(WsDeploys)

=============================================================================
