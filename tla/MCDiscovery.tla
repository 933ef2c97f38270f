---------------------------- MODULE MCDiscovery ----------------------------
(***************************************************************************)
(* Values of the constants of Discovery for model checking.                *)
(***************************************************************************)
EXTENDS Discovery, TLC

\* Replicas are interchangeable.
Symmetry == Permutations(Workers)

\* A split: shard 2 is a child of shard 1.
Split == {1, 2}
SplitParents == [s \in Split |-> IF s = 2 THEN {1} ELSE {}]

Allot(omit, errs, stale, crash) ==
  [k \in Disturbances |->
     CASE k = "omit" -> omit [] k = "errs" -> errs [] k = "stale" -> stale
       [] k = "crash" -> crash]

OmitAndFailOrCrash == {Allot(1, 1, 0, 0), Allot(0, 0, 0, 1)}
MissOnce == {Allot(0, 0, 1, 0)}
TwoOfFour == {Allot(1, 1, 0, 0), Allot(0, 0, 1, 1)}
Nothing == {Allot(0, 0, 0, 0)}
=============================================================================
