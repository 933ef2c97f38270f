------------------------------- MODULE Lease -------------------------------
(***************************************************************************)
(* The lease store contract: internal/lease/lease.go, with the semantics   *)
(* both implementations give it (memory.go, dynamodb.go).  A row is the    *)
(* state of one shard's ownership.  Every mutating call is a compare and   *)
(* swap on the row: it is refused unless the row still matches what the    *)
(* caller saw, and it bumps the counter, the fencing token, when it takes  *)
(* effect.                                                                 *)
(*                                                                         *)
(* Sequence numbers of one shard are 1..MaxSeq in stream order.  The two   *)
(* sentinels are placed at the ends of that order, so a checkpoint is a    *)
(* position in the life of the shard: TRIM_HORIZON before every record,    *)
(* SHARD_END after all of them.                                            *)
(***************************************************************************)
EXTENDS Integers

CONSTANTS Workers,      \* the worker ids of the replicas
          NoOwner,      \* the empty owner string: "unowned"
          MaxSeq        \* bound: records per shard

ASSUME NoOwnerAssumption == NoOwner \notin Workers
ASSUME MaxSeqAssumption == MaxSeq \in Nat \ {0}

Seqs == 1..MaxSeq
CheckpointTrimHorizon == 0
CheckpointShardEnd == MaxSeq + 1
Checkpoints == 0..(MaxSeq + 1)

\* A row; the row that does not exist has counter -1, which no caller expects.
Row == [owner : Workers \cup {NoOwner},
        counter : Nat \cup {-1},
        checkpoint : Checkpoints]

NoRow == [owner |-> NoOwner, counter |-> -1,
          checkpoint |-> CheckpointTrimHorizon]

Exists(row) == row.counter # -1

\* Store.Ensure: creates the row if there is none, else leaves it alone.
Ensure(row) ==
  IF Exists(row) THEN row
  ELSE [owner |-> NoOwner, counter |-> 0,
        checkpoint |-> CheckpointTrimHorizon]

(***************************************************************************)
(* The conditional writes.  A request carries the owner and counter it is  *)
(* conditional on; for "acquire" the owner is the one to install and the   *)
(* condition is on the counter alone.                                      *)
(***************************************************************************)
Ops == {"acquire", "heartbeat", "checkpoint", "release"}

Requests == [op : Ops, owner : Workers \cup {NoOwner}, counter : Nat,
             checkpoint : Checkpoints]

Request(op, l, seq) ==
  [op |-> op, owner |-> l.owner, counter |-> l.counter, checkpoint |-> seq]

\* The row exists and still carries the counter the caller observed.
CounterMatches(row, req) == Exists(row) /\ row.counter = req.counter

\* Mutant: the condition names the owner but not the counter.
FencedOnOwnerOnly(row, req) == Exists(row) /\ row.owner = req.owner

\* conditionalUpdate / ownerCounterCondition: owner AND counter must match.
Fenced(row, req) == CounterMatches(row, req) /\ row.owner = req.owner

\* Whether the store performs the request; if not it answers ErrLeaseConflict
\* or ErrLeaseNotFound, which no caller treats differently.
Allowed(row, req) ==
  IF req.op = "acquire" THEN CounterMatches(row, req) ELSE Fenced(row, req)

\* Mutant: a checkpoint does not bump the counter.
ApplyKeepsCounter(row, req) ==
  [owner |-> IF req.op = "acquire" THEN req.owner
             ELSE IF req.op = "release" THEN NoOwner ELSE row.owner,
   counter |-> row.counter + (IF req.op = "checkpoint" THEN 0 ELSE 1),
   checkpoint |-> IF req.op = "checkpoint" THEN req.checkpoint
                                           ELSE row.checkpoint]

\* The row after the request, which is also the lease returned to the caller.
Apply(row, req) ==
  [owner |-> IF req.op = "acquire" THEN req.owner
             ELSE IF req.op = "release" THEN NoOwner ELSE row.owner,
   counter |-> row.counter + 1,
   checkpoint |-> IF req.op = "checkpoint" THEN req.checkpoint
                                           ELSE row.checkpoint]
=============================================================================
