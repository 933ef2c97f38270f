---------------------------- MODULE AtLeastOnce ----------------------------
(***************************************************************************)
(* What the receiver promises its pipeline, without replicas, leases or    *)
(* failures: the records of a shard are handed downstream in order for the *)
(* first time, a shard is started only when its parents are finished, and  *)
(* the durable checkpoint moves forward only, over records that have been  *)
(* accounted for.  Handing a record down again is a stuttering step here:  *)
(* delivery is at least once.                                              *)
(***************************************************************************)
EXTENDS Integers

CONSTANTS Shards, Parents, MaxSeq

VARIABLES tail,         \* number of records put into each shard
          closed,       \* shards that resharding has closed
          processed,    \* records of each shard accounted for at least once
          committed     \* the durable checkpoint of each shard

vars == <<tail, closed, processed, committed>>

ShardEnd == MaxSeq + 1

\* Everything up to position k of shard s is accounted for.
Accounted(s, k) ==
  IF k = ShardEnd THEN s \in closed /\ 1..tail[s] \subseteq processed[s]
                  ELSE k <= tail[s] /\ 1..k \subseteq processed[s]

Finished(s) == committed[s] = ShardEnd

Init ==
  /\ tail \in [Shards -> 0..MaxSeq]
  /\ closed = {}
  /\ processed = [s \in Shards |-> {}]
  /\ committed = [s \in Shards |-> 0]

Put(s) ==
  /\ s \notin closed
  /\ tail' = [tail EXCEPT ![s] = @ + 1]
  /\ UNCHANGED <<closed, processed, committed>>

Close(s) ==
  /\ closed' = closed \cup {s}
  /\ UNCHANGED <<tail, processed, committed>>

Process(s, k) ==
  /\ k \in 1..tail[s]
  /\ 1..(k - 1) \subseteq processed[s]
  /\ \A q \in Parents[s] : Finished(q)
  /\ processed' = [processed EXCEPT ![s] = @ \cup {k}]
  /\ UNCHANGED <<tail, closed, committed>>

Commit(s, k) ==
  /\ k >= committed[s]
  /\ Accounted(s, k)
  /\ committed' = [committed EXCEPT ![s] = k]
  /\ UNCHANGED <<tail, closed, processed>>

Next ==
  \E s \in Shards :
    \/ Put(s)
    \/ Close(s)
    \/ \E k \in 1..MaxSeq : Process(s, k)
    \/ \E k \in 0..ShardEnd : Commit(s, k)

Spec == Init /\ [][Next]_vars
=============================================================================
