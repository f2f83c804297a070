----------------------------- MODULE MCCluster -----------------------------
(* The instance of Cluster that TLC checks; the configurations give the     *)
(* objects, the images and the bounds.                                      *)
EXTENDS Cluster
=============================================================================
