---------------------------- MODULE MCLifecycle ----------------------------
(***************************************************************************)
(* Values of the constants of Lifecycle for model checking.                *)
(***************************************************************************)
EXTENDS Lifecycle

OneOfEach == [k \in Disturbances |-> 1]
=============================================================================
