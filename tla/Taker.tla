------------------------------- MODULE Taker -------------------------------
(***************************************************************************)
(* lease.Plan (internal/lease/taker.go): the fair-share decision one       *)
(* replica takes over one snapshot of the lease table.  Shard and worker   *)
(* ids are numbers, so < is the order the code gets from sort.Strings.     *)
(*                                                                         *)
(* The input of a plan is a record with                                    *)
(*    active   the shards whose lease is not at SHARD_END (activeShards),  *)
(*    owner    their owners in the snapshot,                               *)
(*    self     the planning worker,                                        *)
(*    fresh    the shards whose owner heartbeated within lease_duration,   *)
(*    drained  the shards whose parents are drained,                       *)
(*    owned    the shards the worker is actively polling.                  *)
(***************************************************************************)
EXTENDS Integers, FiniteSets, FiniteSetsExt

CONSTANT NoOwner        \* the empty owner string

\* Mutant: rounds down.
FloorShareTarget(shards, workers) ==
  IF shards = 0 THEN 0 ELSE shards \div workers

\* ceil(shards / workers)
FairShareTarget(shards, workers) ==
  LET n == IF workers < 1 THEN 1 ELSE workers
  IN  IF shards = 0 THEN 0 ELSE (shards + n - 1) \div n

\* The distinct owners heartbeating, plus self.
ActiveWorkers(in) ==
  {in.self} \cup ({in.owner[s] : s \in in.active \cap in.fresh} \ {NoOwner})

Target(in) ==
  FairShareTarget(Cardinality(in.active), Cardinality(ActiveWorkers(in)))

OwnedActive(in) == in.active \cap in.owned

\* myShards[target:], the highest shard ids.
Surplus(mine, target) ==
  {s \in mine : Cardinality({t \in mine : t < s}) >= target}

\* Unowned, our own but not polled, or stale.
Candidates(in) ==
  {s \in (in.active \cap in.drained) \ in.owned :
     \/ in.owner[s] \in {NoOwner, in.self}
     \/ s \notin in.fresh}

Load(in, o) == Cardinality({s \in in.active \cap in.fresh : in.owner[s] = o})

\* Mutant: a peer exactly at the target counts as overloaded.
OverloadedFromTarget(in, target) ==
  {o \in ActiveWorkers(in) \ {in.self} : Load(in, o) >= target}

\* Fresh peers holding strictly more than target.
Overloaded(in, target) ==
  {o \in ActiveWorkers(in) \ {in.self} : Load(in, o) > target}

\* At most one shard: the lowest drained one of the most loaded peer, the
\* lowest peer id on a tie.
PickStealTarget(in, target) ==
  LET victims == {o \in Overloaded(in, target) :
                    \A v \in Overloaded(in, target) :
                      \/ Load(in, v) < Load(in, o)
                      \/ Load(in, v) = Load(in, o) /\ o <= v}
      choice == {s \in in.active \cap in.fresh \cap in.drained :
                   in.owner[s] \in victims}
  IN  IF choice = {} THEN {} ELSE {Min(choice)}

\* The plans lease.Plan can return: candidates are taken in the order in which
\* List returned the table, which is any order.
Plans(in) ==
  LET target == Target(in)
      mine == OwnedActive(in)
      want == target - Cardinality(mine)
      free == Candidates(in)
  IN  IF want <= 0
        THEN {[acquire |-> {}, release |-> Surplus(mine, target),
               steal |-> {}]}
      ELSE IF Cardinality(free) >= want
        THEN {[acquire |-> a, release |-> {}, steal |-> {}] :
                a \in kSubset(want, free)}
      ELSE {[acquire |-> free, release |-> {},
             steal |-> PickStealTarget(in, target)]}
=============================================================================
