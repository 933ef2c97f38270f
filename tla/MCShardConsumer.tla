-------------------------- MODULE MCShardConsumer --------------------------
(***************************************************************************)
(* Values of the constants of ShardConsumer for model checking.            *)
(***************************************************************************)
EXTENDS ShardConsumer

\* One root shard.
OneShard == {1}
NoParents == [s \in OneShard |-> {}]

\* A split: shard 2 is a child of shard 1.
Split == {1, 2}
SplitParents == [s \in Split |-> IF s = 2 THEN {1} ELSE {}]

AllDecodable == [s \in Shards |-> {}]
SecondUndecodable == [s \in Shards |-> {2}]

\* One record of a root shard is there before the replicas, the others come.
OneThere == [s \in Shards |-> IF Parents[s] = {} THEN 1 ELSE 0]

Allot(lost, errs, steals, drains, stops, beats) ==
  [k \in Disturbances |->
     CASE k = "lost" -> lost [] k = "errs" -> errs [] k = "steals" -> steals
       [] k = "drains" -> drains [] k = "stops" -> stops
       [] k = "beats" -> beats]

\* Fencing: a steal, a lost write and a heartbeat.
\* Crashes: lost writes, an error and a crash or cancellation.
\* Handing over: errors, drains and a heartbeat.
ConsumeScenarios == {Allot(1, 0, 1, 0, 0, 1), Allot(2, 1, 0, 0, 1, 0),
                     Allot(0, 2, 0, 2, 0, 1)}

\* A crash after a lost write; a steal.
ReshardScenarios == {Allot(1, 0, 0, 0, 1, 0), Allot(0, 0, 1, 0, 0, 0)}
=============================================================================
