--------------------------- MODULE MCCoordinator ---------------------------
(***************************************************************************)
(* Values of the constants of Coordinator for model checking.              *)
(***************************************************************************)
EXTENDS Coordinator

TwoWorkers == {1, 2}
ThreeWorkers == {1, 2, 3}
Unowned == [s \in Shards |-> NoOwner]
TwoTwoNone == [s \in Shards |-> IF s <= 2 THEN 1 ELSE 2]

Scenario(shards, ends, stalls, lost) ==
  [active |-> shards,
   budget |-> [k \in Disturbances |-> CASE k = "ends" -> ends
                                        [] k = "stalls" -> stalls
                                        [] k = "lost" -> lost]]

\* An odd number of shards and nothing else; two shards, with a replica that
\* stalls, an Acquire whose answer is lost, or a shard that ends.
OddOrDisturbed ==
  {Scenario(Shards, 0, 0, 0), Scenario({1, 2}, 0, 1, 0),
   Scenario({1, 2}, 0, 0, 1), Scenario({1, 2}, 1, 0, 0)}

Calm == {Scenario(Shards, 0, 0, 0)}
=============================================================================
