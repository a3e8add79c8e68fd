----------------------------- MODULE MCDeployment -----------------------------
(***************************************************************************)
(* A deployment of two projects, both with a golden volume, deployed       *)
(* twice, with its containers recreated from outside once and one rival    *)
(* deployment of the same baselines.                                       *)
(***************************************************************************)
EXTENDS Deployment
=============================================================================
