-------------------------- MODULE MCClusterBootstrap --------------------------
(***************************************************************************)
(* Small instances of ClusterBootstrap: processes that name the cluster in *)
(* the provider block, in the environment, in both (the block wins), in a  *)
(* block that is not known yet, and one whose block says "".               *)
(***************************************************************************)
EXTENDS ClusterBootstrap

CONSTANTS prod, test

\* A setup from what the block and the environment say of the cluster.
Setup(hcl, env) ==
  [hcl |-> [n \in Settings |-> IF n = "cluster" THEN hcl ELSE Null],
   env |-> [n \in Settings |-> IF n = "cluster" THEN env ELSE Given]]

MCSetups == {Setup(prod, test), Setup(Unknown, prod), Setup(Null, test), Setup(Empty, prod)}
=============================================================================
