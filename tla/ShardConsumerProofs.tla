------------------------ MODULE ShardConsumerProofs ------------------------
(***************************************************************************)
(* Proofs about ShardConsumer, for any workers, shards, parent relation,   *)
(* number of records, batch limit and number of disturbances.              *)
(***************************************************************************)
EXTENDS ShardConsumer, TLAPS

Leased == [owner : Workers \cup {NoOwner}, counter : Nat,
           checkpoint : Checkpoints]

\* What a conditional write that the store performs does to the row, whatever
\* the operation (conditionalUpdate and Acquire in memory.go).
LEMMA ApplyFacts ==
  ASSUME NEW row \in Row, NEW req \in Requests, Allowed(row, req)
  PROVE  /\ Apply(row, req) \in Row
         /\ Apply(row, req) \in Leased
         /\ row.counter = req.counter
         /\ row.counter \in Nat
         /\ Apply(row, req).counter = row.counter + 1
         /\ req.op = "checkpoint" =>
              /\ Apply(row, req).checkpoint = req.checkpoint
              /\ Apply(row, req).owner = req.owner
         /\ req.op # "checkpoint" =>
              Apply(row, req).checkpoint = row.checkpoint
         /\ req.op = "acquire" => Apply(row, req).owner = req.owner
         /\ req.op = "heartbeat" => Apply(row, req).owner = req.owner
<1>1. row.counter \in Nat /\ row.counter = req.counter
  BY DEF Allowed, CounterMatches, Fenced, Exists, Row, Requests
<1>2. req.op # "acquire" => row.owner = req.owner
  BY DEF Allowed, Fenced
<1>3. /\ row.owner \in Workers \cup {NoOwner}
      /\ row.checkpoint \in Checkpoints
      /\ req.owner \in Workers \cup {NoOwner}
      /\ req.op \in Ops
      /\ req.checkpoint \in Checkpoints
  BY DEF Row, Requests
<1>4. QED
  BY <1>1, <1>2, <1>3 DEF Apply, Row, Leased, Ops

\* The request a poller makes with the lease in its hand is well formed.
LEMMA RequestType ==
  ASSUME NEW op \in Ops, NEW l \in Leased,
         NEW seq \in Checkpoints
  PROVE  /\ Request(op, l, seq) \in Requests
         /\ Request(op, l, seq).op = op
         /\ Request(op, l, seq).owner = l.owner
         /\ Request(op, l, seq).counter = l.counter
         /\ Request(op, l, seq).checkpoint = seq
BY DEF Request, Requests, Leased

\* The same for the coordinator's Acquire.
LEMMA AcquireType ==
  ASSUME TypeOK, NEW w \in Workers, NEW s \in Shards, Exists(lease[s])
  PROVE  /\ AcquireRequest(w, s) \in Requests
         /\ AcquireRequest(w, s).op = "acquire"
         /\ AcquireRequest(w, s).owner = w
         /\ AcquireRequest(w, s).counter = lease[s].counter
<1>1. lease[s].counter \in Nat
  BY DEF TypeOK, Row, Exists
<1>2. QED
  BY <1>1, MaxSeqAssumption
  DEF AcquireRequest, Requests, Ops, Checkpoints, CheckpointTrimHorizon

-----------------------------------------------------------------------------
(***************************************************************************)
(* Type correctness.                                                       *)
(***************************************************************************)
LEMMA NewPollerType ==
  ASSUME NEW l \in Leased, NEW pc \in PCs
  PROVE  NewPoller(pc, l) \in PollerState
BY MaxSeqAssumption, CheckpointAttemptsAssumption
DEF NewPoller, PollerState, Leased, NilIter, CheckpointShardEnd

LEMMA NoPollerType == NoPoller \in PollerState
<1>1. [owner |-> NoOwner, counter |-> 0,
       checkpoint |-> CheckpointTrimHorizon] \in Leased
  BY MaxSeqAssumption DEF Leased, Checkpoints, CheckpointTrimHorizon
<1>2. QED
  BY <1>1, NewPollerType DEF NoPoller, PCs

LEMMA SpendType ==
  ASSUME TypeOK, NEW kind \in Disturbances, Spend(kind)
  PROVE  budget' \in BudgetState
BY DEF TypeOK, Spend, BudgetState

LEMMA CallTypes ==
  ASSUME TypeOK, NEW s \in Shards, NEW req \in Requests
  PROVE  /\ CallOK(s, req) =>
              /\ lease' \in [Shards -> Row]
              /\ lease'[s] \in Leased
              /\ net' \subseteq Shards \X Requests
              /\ budget' \in BudgetState
         /\ CallRefused(s, req) \/ CallLost(s, req) =>
              /\ lease' \in [Shards -> Row]
              /\ net' \subseteq Shards \X Requests
              /\ budget' \in BudgetState
<1>1. ASSUME CallOK(s, req)
      PROVE  /\ lease' \in [Shards -> Row]
             /\ lease'[s] \in Leased
             /\ net' \subseteq Shards \X Requests
             /\ budget' \in BudgetState
  <2>1. lease[s] \in Row
    BY DEF TypeOK
  <2>2. Apply(lease[s], req) \in Row /\ Apply(lease[s], req) \in Leased
    BY <1>1, <2>1, ApplyFacts DEF CallOK
  <2>3. QED
    BY <1>1, <2>2 DEF CallOK, TypeOK
<1>2. ASSUME CallRefused(s, req)
      PROVE  /\ lease' \in [Shards -> Row]
             /\ net' \subseteq Shards \X Requests
             /\ budget' \in BudgetState
  BY <1>2 DEF CallRefused, TypeOK
<1>3. ASSUME CallLost(s, req)
      PROVE  /\ lease' \in [Shards -> Row]
             /\ net' \subseteq Shards \X Requests
             /\ budget' \in BudgetState
  <2>1. budget' \in BudgetState
    BY <1>3, SpendType DEF CallLost, Disturbances
  <2>2. QED
    BY <1>3, <2>1 DEF CallLost, TypeOK
<1>4. QED
  BY <1>1, <1>2, <1>3

LEMMA Ranges ==
  /\ 0 \in 0..MaxSeq /\ 0 \in 0..NilIter
  /\ 0 \in 0..CheckpointAttempts /\ 1 \in 0..CheckpointAttempts
  /\ Seqs \subseteq 0..MaxSeq
BY MaxSeqAssumption, CheckpointAttemptsAssumption
DEF Seqs, NilIter, CheckpointShardEnd

LEMMA SetPollerType ==
  ASSUME TypeOK, NEW p \in Pollers, NEW r \in PollerState, SetPoller(p, r)
  PROVE  poller' \in [Pollers -> PollerState]
BY DEF TypeOK, SetPoller

\* The requests a running poller makes.
LEMMA PollerRequests ==
  ASSUME TypeOK, NEW p \in Pollers
  PROVE  /\ p[1] \in Workers /\ p[2] \in Shards /\ p = <<p[1], p[2]>>
         /\ poller[p] \in PollerState
         /\ poller[p].leased \in Leased
         /\ CheckpointRequest(p) \in Requests
         /\ ShardEndRequest(p) \in Requests
         /\ Request("release", poller[p].leased, CheckpointTrimHorizon)
              \in Requests
         /\ Request("heartbeat", poller[p].leased, CheckpointTrimHorizon)
              \in Requests
<1>1. p[1] \in Workers /\ p[2] \in Shards /\ p = <<p[1], p[2]>>
  BY DEF Pollers
<1>2. poller[p] \in PollerState /\ poller[p].leased \in Leased
  BY DEF TypeOK, PollerState, Leased
<1>3. poller[p].seq \in Checkpoints /\ CheckpointShardEnd \in Checkpoints
      /\ CheckpointTrimHorizon \in Checkpoints
  BY <1>2, MaxSeqAssumption
  DEF PollerState, Checkpoints, CheckpointShardEnd, CheckpointTrimHorizon
<1>4. QED
  BY <1>1, <1>2, <1>3, RequestType
  DEF CheckpointRequest, ShardEndRequest, Ops

\* Every poller step leaves the variables in their types.
LEMMA PollerStepType ==
  ASSUME TypeOK, PollerPositions,
         NEW p \in Pollers, PollerStep(p) \/ Heartbeat(p) \/ Drain(p)
  PROVE  TypeOK'
<1> DEFINE r == poller[p]
<1>0. /\ p[1] \in Workers /\ p[2] \in Shards
      /\ r \in PollerState
      /\ r.leased \in Leased
      /\ CheckpointRequest(p) \in Requests
      /\ ShardEndRequest(p) \in Requests
      /\ Request("release", r.leased, CheckpointTrimHorizon) \in Requests
      /\ Request("heartbeat", r.leased, CheckpointTrimHorizon) \in Requests
  BY PollerRequests
<1>a. EndOfPass(r) \in PollerState /\ Stopped(EndOfPass(r)) \in PollerState
  <2>1. EndOfPass(r) \in PollerState
    BY <1>0, Ranges DEF EndOfPass, PollerState
  <2>2. QED
    BY <2>1 DEF Stopped, PollerState, PCs
<1>1. CASE OpenIterator(p)
  BY <1>0, <1>1, MaxSeqAssumption
  DEF OpenIterator, SetPoller, TypeOK, PollerState, PCs, Checkpoints, NilIter,
      CheckpointShardEnd
<1>2. CASE OpenIteratorFails(p)
  <2>1. budget' \in BudgetState
    BY <1>2, SpendType DEF OpenIteratorFails, Disturbances, TypeOK
  <2>2. Stopped(r) \in PollerState
    BY <1>0 DEF Stopped, PollerState, PCs
  <2>3. QED
    BY <1>2, <2>1, <2>2 DEF OpenIteratorFails, SetPoller, TypeOK
<1>3. CASE PollStops(p)
  BY <1>0, <1>3 DEF PollStops, SetPoller, TypeOK, PollerState, PCs
<1>4. CASE PollReachesEnd(p)
  BY <1>0, <1>4 DEF PollReachesEnd, SetPoller, TypeOK, PollerState, PCs
<1>5. CASE GetRecords(p)
  <2>1. PICK x \in Responses(p[2], r.iter) :
          SetPoller(p, IF x.last = r.iter
                         THEN [r EXCEPT !.iter = x.next]
                         ELSE [r EXCEPT !.pc = "deliver", !.last = x.last,
                                        !.next = x.next])
    BY <1>5 DEF GetRecords
  <2>2. x.last \in 0..MaxSeq /\ x.next \in 0..NilIter
    BY <1>0, <2>1, MaxSeqAssumption
    DEF Responses, TypeOK, PollerState, NilIter, CheckpointShardEnd
  <2>3. QED
    BY <1>0, <1>5, <2>1, <2>2
    DEF GetRecords, SetPoller, TypeOK, PollerState, PCs
<1>6. CASE GetRecordsExpired(p)
  <2>1. budget' \in BudgetState
    BY <1>6, SpendType DEF GetRecordsExpired, Disturbances
  <2>2. QED
    BY <1>0, <1>6, <2>1
    DEF GetRecordsExpired, SetPoller, TypeOK, PollerState, PCs
<1>7. CASE Deliver(p)
  <2>1. PollerPosition(p)
    BY <1>7 DEF PollerPositions, Running, Deliver
  <2>2. Cursor(r) \in Seqs
    BY <1>0, <1>7, <2>1, MaxSeqAssumption
    DEF PollerPosition, Position, InBatch, Cursor, Deliver, Seqs, PollerState, NilIter,
        CheckpointShardEnd
  <2>3. [r EXCEPT !.seq = Cursor(r),
                  !.pc = IF Cursor(r) = r.last THEN "ckpt" ELSE @]
          \in PollerState
    <3>1. Cursor(r) \in 0..MaxSeq
      BY <2>2, Ranges
    <3>2. (IF Cursor(r) = r.last THEN "ckpt" ELSE r.pc) \in PCs
      BY <1>0 DEF PollerState, PCs
    <3>3. QED
      BY <1>0, <3>1, <3>2 DEF PollerState
  <2>4. processed' \in [Shards -> SUBSET Seqs]
    BY <1>0, <1>7, <2>2 DEF Deliver, TypeOK
  <2>5. QED
    BY <1>7, <2>3, <2>4 DEF Deliver, SetPoller, TypeOK
<1>8. CASE DeliverRetry(p)
  <2>1. budget' \in BudgetState
    BY <1>8, SpendType DEF DeliverRetry, Disturbances, TypeOK
  <2>2. /\ [r EXCEPT !.pc = "ckpt", !.retry = TRUE] \in PollerState
        /\ [EndOfPass(r) EXCEPT !.pc = "open"] \in PollerState
    BY <1>0, <1>a DEF PollerState, PCs
  <2>3. QED
    BY <1>8, <2>1, <2>2 DEF DeliverRetry, SetPoller, TypeOK
<1>9. CASE Checkpoint(p)
  <2>1. /\ lease' \in [Shards -> Row]
        /\ lease'[p[2]] \in Leased
        /\ net' \subseteq Shards \X Requests
        /\ budget' \in BudgetState
    BY <1>0, <1>9, CallTypes DEF Checkpoint
  <2> DEFINE done == [EndOfPass(r) EXCEPT !.leased = lease'[p[2]]]
  <2>2. done \in PollerState
    BY <1>a, <2>1 DEF PollerState, Leased
  <2>3. /\ [done EXCEPT !.pc = "open"] \in PollerState
        /\ [done EXCEPT !.pc = "loop", !.iter = r.next] \in PollerState
    BY <1>0, <2>2 DEF PollerState, PCs
  <2>4. QED
    BY <1>9, <2>1, <2>3 DEF Checkpoint, SetPoller, TypeOK
<1>10. CASE CheckpointGivesUp(p)
  <2>1. /\ lease' \in [Shards -> Row]
        /\ net' \subseteq Shards \X Requests
        /\ budget' \in BudgetState
    BY <1>0, <1>10, CallTypes DEF CheckpointGivesUp, CallAborted, TypeOK
  <2>2. QED
    BY <1>10, <1>a, <2>1 DEF CheckpointGivesUp, SetPoller, TypeOK
<1>11. CASE CheckpointFails(p)
  <2>1. /\ lease' \in [Shards -> Row]
        /\ net' \subseteq Shards \X Requests
        /\ budget' \in BudgetState
    BY <1>0, <1>11, CallTypes DEF CheckpointFails
  <2>2. r.attempt + 1 < CheckpointAttempts =>
          [r EXCEPT !.attempt = @ + 1] \in PollerState
    BY <1>0, CheckpointAttemptsAssumption DEF PollerState
  <2>3. QED
    BY <1>11, <1>a, <2>1, <2>2 DEF CheckpointFails, SetPoller, TypeOK
<1>12. CASE WriteShardEnd(p)
  <2> DEFINE exit == [r EXCEPT !.pc = "exit", !.attempt = 0]
  <2>1. /\ lease' \in [Shards -> Row]
        /\ CallOK(p[2], ShardEndRequest(p)) => lease'[p[2]] \in Leased
        /\ net' \subseteq Shards \X Requests
        /\ budget' \in BudgetState
    BY <1>0, <1>12, CallTypes DEF WriteShardEnd, CallAborted, TypeOK
  <2>2. exit \in PollerState /\ [r EXCEPT !.attempt = 1] \in PollerState
    <3>1. exit \in PollerState
      BY <1>0, Ranges DEF PollerState, PCs
    <3>2. [r EXCEPT !.attempt = 1] \in PollerState
      BY <1>0, Ranges DEF PollerState
    <3>3. QED
      BY <3>1, <3>2
  <2>3. lease'[p[2]] \in Leased =>
          [exit EXCEPT !.leased = lease'[p[2]]] \in PollerState
    BY <2>2 DEF PollerState, Leased
  <2>4. \E n \in PollerState : SetPoller(p, n)
    BY <1>12, <2>1, <2>2, <2>3 DEF WriteShardEnd
  <2>5. QED
    BY <1>12, <2>1, <2>4 DEF WriteShardEnd, SetPoller, TypeOK
<1>13. CASE Release(p)
  <2>1. /\ lease' \in [Shards -> Row]
        /\ net' \subseteq Shards \X Requests
        /\ budget' \in BudgetState
    BY <1>0, <1>13, CallTypes DEF Release, CallAborted, TypeOK
  <2>2. QED
    BY <1>13, <2>1, NoPollerType DEF Release, SetPoller, TypeOK
<1>14. CASE Heartbeat(p)
  <2> DEFINE req == Request("heartbeat", r.leased, CheckpointTrimHorizon)
  <2>1. CASE /\ Allowed(lease[p[2]], req)
             /\ lease' = [lease EXCEPT ![p[2]] = Apply(@, req)]
             /\ Spend("beats")
             /\ SetPoller(p, [r EXCEPT !.leased = lease'[p[2]]])
             /\ UNCHANGED net
    <3>1. lease[p[2]] \in Row /\ lease'[p[2]] = Apply(lease[p[2]], req)
      BY <1>0, <2>1 DEF TypeOK
    <3>2. Apply(lease[p[2]], req) \in Row /\ lease'[p[2]] \in Leased
      BY <1>0, <2>1, <3>1, ApplyFacts
    <3>3. [r EXCEPT !.leased = lease'[p[2]]] \in PollerState
      BY <1>0, <3>2 DEF PollerState, Leased
    <3>4. budget' \in BudgetState
      BY <2>1, SpendType DEF Disturbances
    <3>5. QED
      BY <1>14, <2>1, <3>2, <3>3, <3>4 DEF Heartbeat, SetPoller, TypeOK
  <2>2. CASE CallRefused(p[2], req) /\ SetPoller(p, [r EXCEPT !.cancelled = TRUE])
    <3>1. [r EXCEPT !.cancelled = TRUE] \in PollerState
      BY <1>0 DEF PollerState
    <3>2. QED
      BY <1>0, <1>14, <2>2, <3>1, CallTypes DEF Heartbeat, SetPoller, TypeOK
  <2>3. CASE CallLost(p[2], req) /\ UNCHANGED poller
    BY <1>0, <1>14, <2>3, CallTypes DEF Heartbeat, TypeOK
  <2>4. QED
    BY <1>14, <2>1, <2>2, <2>3 DEF Heartbeat
<1>15. CASE Drain(p)
  <2>1. budget' \in BudgetState
    BY <1>15, SpendType DEF Drain, Disturbances
  <2>2. [r EXCEPT !.drain = TRUE] \in PollerState
    BY <1>0 DEF PollerState
  <2>3. QED
    BY <1>15, <2>1, <2>2 DEF Drain, SetPoller, TypeOK
<1>20. QED
  BY <1>1, <1>2, <1>3, <1>4, <1>5, <1>6, <1>7, <1>8, <1>9, <1>10, <1>11,
     <1>12, <1>13, <1>14, <1>15 DEF PollerStep

\* What the coordinator does leaves them in their types too.
LEMMA CoordinatorStepType ==
  ASSUME TypeOK, NEW w \in Workers, NEW s \in Shards, CoordinatorStep(w, s)
  PROVE  TypeOK'
<1> DEFINE req == AcquireRequest(w, s)
<1>1. /\ req \in Requests
      /\ <<w, s>> \in Pollers
      /\ "open" \in PCs
  BY AcquireType
  DEF CoordinatorStep, TryAcquire, Steal, AcquireLost, CanTake, Pollers, PCs
<1>2. CASE TryAcquire(w, s)
  <2>1. /\ lease' \in [Shards -> Row]
        /\ lease'[s] \in Leased
        /\ net' \subseteq Shards \X Requests
        /\ budget' \in BudgetState
    BY <1>1, <1>2, CallTypes DEF TryAcquire
  <2>2. NewPoller("open", lease'[s]) \in PollerState
    BY <1>1, <2>1, NewPollerType
  <2>3. QED
    BY <1>1, <1>2, <2>1, <2>2 DEF TryAcquire, SetPoller, TypeOK
<1>3. CASE Steal(w, s)
  <2>1. lease[s] \in Row /\ lease'[s] = Apply(lease[s], req)
    BY <1>3 DEF Steal, TypeOK
  <2>2. Apply(lease[s], req) \in Row /\ lease'[s] \in Leased
    BY <1>1, <1>3, <2>1, ApplyFacts DEF Steal
  <2>3. NewPoller("open", lease'[s]) \in PollerState
    BY <1>1, <2>2, NewPollerType
  <2>4. budget' \in BudgetState
    BY <1>3, SpendType DEF Steal, Disturbances
  <2>5. QED
    BY <1>1, <1>3, <2>2, <2>3, <2>4 DEF Steal, SetPoller, TypeOK
<1>4. CASE AcquireLost(w, s)
  BY <1>1, <1>4, CallTypes DEF AcquireLost, TypeOK
<1>5. QED
  BY <1>2, <1>3, <1>4 DEF CoordinatorStep

LEMMA TypeStep ==
  ASSUME TypeOK, PollerPositions, [Next]_vars
  PROVE  TypeOK'
<1>1. ASSUME NEW s \in Shards, PutRecord(s)
      PROVE  TypeOK'
  BY <1>1, MaxSeqAssumption DEF PutRecord, TypeOK
<1>2. ASSUME NEW s \in Shards, CloseShard(s)
      PROVE  TypeOK'
  BY <1>2 DEF CloseShard, TypeOK
<1>3. ASSUME NEW s \in Shards, EnsureLease(s)
      PROVE  TypeOK'
  <2>1. Ensure(lease[s]) \in Row
    BY MaxSeqAssumption
    DEF Ensure, Row, TypeOK, Checkpoints, CheckpointTrimHorizon
  <2>2. QED
    BY <1>3, <2>1 DEF EnsureLease, TypeOK
<1>4. ASSUME NEW w \in Workers, NEW s \in Shards, CoordinatorStep(w, s)
      PROVE  TypeOK'
  BY <1>4, CoordinatorStepType
<1>5. ASSUME NEW w \in Workers, Kill(w)
      PROVE  TypeOK'
  <2>1. budget' \in BudgetState
    BY <1>5, SpendType DEF Kill, Disturbances
  <2>2. ASSUME NEW p \in Pollers
        PROVE  [poller[p] EXCEPT !.drain = TRUE, !.cancelled = TRUE,
                                 !.killed = TRUE] \in PollerState
    BY DEF TypeOK, PollerState
  <2>3. poller' \in [Pollers -> PollerState]
    BY <1>5, <2>2 DEF Kill, TypeOK
  <2>4. QED
    BY <1>5, <2>1, <2>3 DEF Kill, TypeOK
<1>6. ASSUME NEW w \in Workers, Crash(w)
      PROVE  TypeOK'
  <2>1. budget' \in BudgetState
    BY <1>6, SpendType DEF Crash, Disturbances
  <2>2. poller' \in [Pollers -> PollerState]
    BY <1>6, NoPollerType DEF Crash, TypeOK
  <2>3. QED
    BY <1>6, <2>1, <2>2 DEF Crash, TypeOK
<1>7. ASSUME NEW p \in Pollers, PollerStep(p) \/ Heartbeat(p) \/ Drain(p)
      PROVE  TypeOK'
  BY <1>7, PollerStepType
<1>8. CASE LateWrite
  <2>1. PICK m \in net : /\ Allowed(lease[m[1]], m[2])
                         /\ lease' = [lease EXCEPT ![m[1]] = Apply(@, m[2])]
    BY <1>8 DEF LateWrite
  <2>2. m[1] \in Shards /\ m[2] \in Requests /\ lease[m[1]] \in Row
    BY DEF TypeOK
  <2>3. Apply(lease[m[1]], m[2]) \in Row
    BY <2>1, <2>2, ApplyFacts
  <2>4. QED
    BY <1>8, <2>1, <2>2, <2>3 DEF LateWrite, TypeOK
<1>9. CASE NothingLeft \/ UNCHANGED vars
  BY <1>9 DEF NothingLeft, vars, TypeOK
<1>10. QED
  BY <1>1, <1>2, <1>3, <1>4, <1>5, <1>6, <1>7, <1>8, <1>9 DEF Next

-----------------------------------------------------------------------------
(***************************************************************************)
(* What has been accounted for stays accounted for.                        *)
(***************************************************************************)
\* The stream and the ghost only grow, and a closed shard does not grow.
Grows ==
  /\ closed \subseteq closed'
  /\ \A s \in Shards :
       /\ processed[s] \subseteq processed'[s]
       /\ tail[s] <= tail'[s]
       /\ s \in closed => tail'[s] = tail[s]

LEMMA StepGrows ==
  ASSUME TypeOK, [Next]_vars
  PROVE  Grows
<1>0. \A s \in Shards : tail[s] \in Nat
  BY MaxSeqAssumption DEF TypeOK
<1>1. ASSUME UNCHANGED <<tail, closed, processed>>
      PROVE  Grows
  BY <1>0, <1>1 DEF Grows
<1>2. ASSUME NEW s \in Shards, PutRecord(s)
      PROVE  Grows
  BY <1>0, <1>2 DEF PutRecord, Grows, TypeOK
<1>3. ASSUME NEW s \in Shards, CloseShard(s)
      PROVE  Grows
  BY <1>0, <1>3 DEF CloseShard, Grows
<1>4. ASSUME NEW p \in Pollers, Deliver(p)
      PROVE  Grows
  BY <1>0, <1>4 DEF Deliver, Grows, TypeOK
<1>5. ASSUME NEW p \in Pollers, PollerStep(p), ~Deliver(p)
      PROVE  UNCHANGED <<tail, closed, processed>>
  BY <1>5
  DEF PollerStep, OpenIterator, OpenIteratorFails, PollStops, PollReachesEnd,
      GetRecords, GetRecordsExpired, DeliverRetry, Checkpoint,
      CheckpointGivesUp, CheckpointFails, WriteShardEnd, Release
<1>6. QED
  BY <1>1, <1>2, <1>3, <1>4, <1>5
  DEF Next, EnsureLease, CoordinatorStep, TryAcquire, Steal, AcquireLost, Kill,
      Crash, Heartbeat, Drain, LateWrite, NothingLeft, vars

\* Position k of shard s is accounted for after the step.
AccountedNext(s, k) ==
  IF k = CheckpointShardEnd
    THEN s \in closed' /\ 1..tail'[s] \subseteq processed'[s]
    ELSE k <= tail'[s] /\ 1..k \subseteq processed'[s]

LEMMA AccountedStable ==
  ASSUME TypeOK, TypeOK', Grows, NEW s \in Shards, NEW k \in Checkpoints,
         Accounted(s, k)
  PROVE  AccountedNext(s, k)
<1>1. tail[s] \in Nat /\ tail'[s] \in Nat /\ k \in Nat
  BY MaxSeqAssumption DEF TypeOK, Checkpoints
<1>2. QED
  BY <1>1 DEF Accounted, AccountedNext, Grows, CheckpointShardEnd

-----------------------------------------------------------------------------
(***************************************************************************)
(* The induction step, in two halves: each action has the effects below,   *)
(* and those effects preserve the invariant.                               *)
(***************************************************************************)
\* A row is created, or stays, or is written under the counter, and then its
\* checkpoint stays or moves forward over accounted records.
RowStep(s) ==
  \/ lease'[s] = lease[s]
  \/ /\ ~Exists(lease[s])
     /\ lease'[s] = Ensure(lease[s])
     /\ \A q \in Parents[s] : Exists(lease[q])
  \/ /\ lease[s].counter \in Nat
     /\ lease'[s].counter = lease[s].counter + 1
     /\ \/ lease'[s].checkpoint = lease[s].checkpoint
        \/ /\ lease[s].checkpoint <= lease'[s].checkpoint
           /\ AccountedNext(s, lease'[s].checkpoint)

\* A poller stays, or is gone, or moved within the invariant; a new one has
\* drained parents.
PollerEffect(p) ==
  /\ \/ poller'[p] = poller[p]
     \/ ~Running(p)'
     \/ PollerPosition(p)' /\ TokenTrails(p)'
  /\ Running(p)' => \/ Running(p)
                    \/ Exists(lease[p[2]]) /\ ParentsDrained(p[2])

Effects ==
  /\ \A s \in Shards : RowStep(s)
  /\ \A p \in Pollers : PollerEffect(p)
  /\ \A m \in net' : m \in net \/ PendingWrite(m)'
  /\ \A s \in Shards :
       processed'[s] = processed[s] \/ \E w \in Workers : Running(<<w, s>>)

\* Checkpoints move forward, over accounted records.
LEMMA CheckpointsForward ==
  ASSUME IInv, TypeOK', Grows, Effects
  PROVE  \A s \in Shards : /\ lease[s].checkpoint <= lease'[s].checkpoint
                           /\ AccountedNext(s, lease'[s].checkpoint)
<1> SUFFICES ASSUME NEW s \in Shards
             PROVE  /\ lease[s].checkpoint <= lease'[s].checkpoint
                    /\ AccountedNext(s, lease'[s].checkpoint)
  OBVIOUS
<1>0. /\ lease[s].checkpoint \in Checkpoints /\ lease[s].checkpoint \in Nat
      /\ TypeOK
  BY MaxSeqAssumption DEF IInv, TypeOK, Row, Checkpoints
<1>1. AccountedNext(s, lease[s].checkpoint)
  BY <1>0, AccountedStable DEF IInv, NoLoss
<1>2. CASE lease'[s].checkpoint = lease[s].checkpoint
  BY <1>0, <1>1, <1>2
<1>3. CASE ~Exists(lease[s]) /\ lease'[s] = Ensure(lease[s])
  BY <1>3, <1>2 DEF IInv, AbsentRows, NoRow, Ensure
<1>4. QED
  BY <1>2, <1>3 DEF Effects, RowStep

LEMMA EffectsPreserve ==
  ASSUME IInv, TypeOK', Grows, Effects
  PROVE  IInv'
<1> USE DEF IInv
<1>0. /\ \A s \in Shards : /\ lease[s] \in Row /\ lease'[s] \in Row
                           /\ lease[s].checkpoint \in Checkpoints
                           /\ lease[s].checkpoint \in Nat
                           /\ lease'[s].checkpoint \in Nat
                           /\ lease[s].counter \in Int
      /\ \A p \in Pollers : p[1] \in Workers /\ p[2] \in Shards
  BY MaxSeqAssumption DEF TypeOK, Row, Checkpoints, Pollers
<1>1. AbsentRows'
  <2> SUFFICES ASSUME NEW s \in Shards, ~Exists(lease'[s])
               PROVE  lease'[s] = NoRow
    BY DEF AbsentRows
  <2>1. lease'[s] = lease[s]
    BY <1>0 DEF Effects, RowStep, Exists, Ensure
  <2>2. QED
    BY <2>1 DEF AbsentRows
<1>2. \A s \in Shards : /\ lease[s].checkpoint <= lease'[s].checkpoint
                        /\ AccountedNext(s, lease'[s].checkpoint)
  BY CheckpointsForward
<1>3. NoLoss'
  BY <1>2 DEF NoLoss, Accounted, AccountedNext
<1>4. \A s \in Shards : /\ lease[s].counter <= lease'[s].counter
                        /\ lease[s].counter = lease'[s].counter
                             => lease'[s] = lease[s]
  BY <1>0 DEF Effects, RowStep, Ensure, Exists, AbsentRows, NoRow
<1>5. PollerPositions'
  <2> SUFFICES ASSUME NEW p \in Pollers, Running(p)'
               PROVE  PollerPosition(p)'
    BY DEF PollerPositions
  <2>1. CASE poller'[p] = poller[p]
    <3> DEFINE r == poller[p]
               s == p[2]
    <3>1. PollerPosition(p) /\ s \in Shards /\ r \in PollerState
      BY <1>0, <2>1 DEF PollerPositions, Running, TypeOK
    <3>2. r.leased.checkpoint \in Checkpoints /\ r.iter \in Checkpoints
      BY <3>1 DEF PollerState, Checkpoints, NilIter, CheckpointShardEnd
    <3>3. AccountedNext(s, r.leased.checkpoint)
      BY <3>1, <3>2, AccountedStable DEF PollerPosition, Position
    <3>4. r.pc \in {"loop", "deliver", "ckpt", "end"} =>
            AccountedNext(s, r.iter)
      BY <3>1, <3>2, AccountedStable DEF PollerPosition, Position
    <3>5. InBatch(r) =>
            /\ r.last <= tail'[s]
            /\ r.seq # 0 => 1..r.seq \subseteq processed'[s]
            /\ \/ r.next = r.last
               \/ r.next = NilIter /\ s \in closed' /\ r.last = tail'[s]
      <4>1. r.last \in Nat /\ tail[s] \in Nat /\ tail'[s] \in Nat
        BY <3>1, MaxSeqAssumption DEF PollerState, TypeOK
      <4>2. QED
        BY <3>1, <4>1 DEF PollerPosition, Position, Grows
    <3>6. QED
      BY <2>1, <3>1, <3>3, <3>4, <3>5
      DEF PollerPosition, Position, Accounted, AccountedNext, InBatch
  <2>2. QED
    BY <2>1 DEF Effects, PollerEffect
<1>6. TokensTrail'
  <2> SUFFICES ASSUME NEW p \in Pollers, Running(p)'
               PROVE  TokenTrails(p)'
    BY DEF TokensTrail
  <2>1. CASE poller'[p] = poller[p]
    <3>1. TokenTrails(p) /\ p[2] \in Shards
          /\ poller[p].leased.counter \in Nat
      BY <1>0, <2>1 DEF TokensTrail, Running, TypeOK, PollerState
    <3>2. lease[p[2]].counter \in Int /\ lease'[p[2]].counter \in Int
      BY <1>0, <3>1 DEF Row
    <3>3. QED
      BY <1>4, <2>1, <3>1, <3>2 DEF TokenTrails
  <2>2. QED
    BY <2>1 DEF Effects, PollerEffect
<1>7. PendingWrites'
  <2> SUFFICES ASSUME NEW m \in net'
               PROVE  PendingWrite(m)'
    BY DEF PendingWrites
  <2>1. CASE m \in net
    <3>1. /\ PendingWrite(m) /\ m[1] \in Shards
          /\ m[2].checkpoint \in Checkpoints /\ m[2].counter \in Nat
      BY <2>1 DEF PendingWrites, TypeOK, Requests
    <3>2. lease[m[1]].counter \in Int /\ lease'[m[1]].counter \in Int
      BY <1>0, <3>1 DEF Row
    <3>3. m[2].op = "checkpoint" => AccountedNext(m[1], m[2].checkpoint)
      BY <3>1, AccountedStable DEF PendingWrite
    <3>4. QED
      BY <1>4, <3>1, <3>2, <3>3 DEF PendingWrite, Accounted, AccountedNext
  <2>2. QED
    BY <2>1 DEF Effects
<1>8. ParentsFirst'
  <2> SUFFICES ASSUME NEW s \in Shards, NEW q \in Parents[s]
               PROVE  /\ Exists(lease'[s]) => Exists(lease'[q])
                      /\ (\/ processed'[s] # {}
                          \/ \E w \in Workers : Running(<<w, s>>)')
                           => lease'[q].checkpoint = CheckpointShardEnd
    BY DEF ParentsFirst
  <2>1. q \in Shards
    BY ShardsAssumption
  <2>2. Exists(lease[q]) => Exists(lease'[q])
    BY <1>0, <1>4, <2>1 DEF Exists, Row
  <2>3. Exists(lease'[s]) => Exists(lease[q])
    BY <1>0 DEF ParentsFirst, Effects, RowStep, Exists
  <2>4. lease[q].checkpoint = CheckpointShardEnd
          => lease'[q].checkpoint = CheckpointShardEnd
    BY <1>0, <1>2, <2>1, MaxSeqAssumption
    DEF Row, Checkpoints, CheckpointShardEnd
  <2>5. ASSUME NEW w \in Workers, Running(<<w, s>>)'
        PROVE  lease[q].checkpoint = CheckpointShardEnd
    <3>1. <<w, s>> \in Pollers
      BY DEF Pollers
    <3>2. CASE Running(<<w, s>>)
      BY <3>2 DEF ParentsFirst
    <3>3. CASE Exists(lease[s]) /\ ParentsDrained(s)
      BY <3>3 DEF ParentsFirst, ParentsDrained
    <3>4. QED
      BY <2>5, <3>1, <3>2, <3>3 DEF Effects, PollerEffect
  <2>6. processed'[s] # {} => lease[q].checkpoint = CheckpointShardEnd
    BY DEF Effects, ParentsFirst
  <2>7. QED
    BY <2>2, <2>3, <2>4, <2>5, <2>6
<1>9. QED
  BY <1>1, <1>3, <1>5, <1>6, <1>7, <1>8

-----------------------------------------------------------------------------
(***************************************************************************)
(* The effects of each action.                                             *)
(***************************************************************************)
\* A conditional write that the store performs is a row step, provided a
\* checkpoint it carries is ahead of the row and accounted for.
LEMMA WriteEffect ==
  ASSUME IInv, NEW s \in Shards, NEW req \in Requests,
         Allowed(lease[s], req),
         lease' = [lease EXCEPT ![s] = Apply(@, req)],
         req.op = "checkpoint" =>
           /\ lease[s].checkpoint <= req.checkpoint
           /\ AccountedNext(s, req.checkpoint)
  PROVE  \A t \in Shards : RowStep(t)
<1>1. lease[s] \in Row /\ lease'[s] = Apply(lease[s], req)
  BY DEF IInv, TypeOK
<1>2. RowStep(s)
  BY <1>1, ApplyFacts DEF RowStep
<1>3. \A t \in Shards \ {s} : lease'[t] = lease[t]
  BY DEF IInv, TypeOK
<1>4. QED
  BY <1>2, <1>3 DEF RowStep

\* The fence: a poller's write is performed only on the very row it holds.
LEMMA HolderIsCurrent ==
  ASSUME IInv, NEW p \in Pollers, Running(p),
         NEW op \in {"heartbeat", "checkpoint", "release"},
         NEW seq \in Checkpoints,
         Allowed(lease[p[2]], Request(op, poller[p].leased, seq))
  PROVE  lease[p[2]] = poller[p].leased
BY DEF IInv, TokensTrail, TokenTrails, Allowed, Fenced, CounterMatches, Request

\* A step of one poller touches no other.
LEMMA OnePoller ==
  ASSUME TypeOK, NEW p \in Pollers, NEW r, Running(p), SetPoller(p, r),
         r.pc = "idle" \/ (PollerPosition(p)' /\ TokenTrails(p)')
  PROVE  \A q \in Pollers : PollerEffect(q)
<1>1. poller'[p] = r /\ \A q \in Pollers \ {p} : poller'[q] = poller[q]
  BY DEF TypeOK, SetPoller
<1>2. PollerEffect(p)
  BY <1>1 DEF PollerEffect, Running
<1>3. ASSUME NEW q \in Pollers \ {p}
      PROVE  PollerEffect(q)
  BY <1>1 DEF PollerEffect, Running
<1>4. QED
  BY <1>2, <1>3

\* A step of a poller that leaves the row and the stream alone; it may have
\* sent a request into the void.
LEMMA UnwrittenStep ==
  ASSUME IInv, NEW p \in Pollers, NEW r, Running(p), SetPoller(p, r),
         \/ r.pc = "idle"
         \/ r.leased = poller[p].leased /\ Position(p[2], r),
         \A m \in net' : m \in net \/ PendingWrite(m)',
         UNCHANGED <<lease, tail, closed, processed>>
  PROVE  Effects
<1>1. poller'[p] = r
  BY DEF IInv, TypeOK, SetPoller
<1>2. ASSUME r.leased = poller[p].leased, Position(p[2], r)
      PROVE  PollerPosition(p)' /\ TokenTrails(p)'
  <2>1. PollerPosition(p)'
    BY <1>1, <1>2 DEF PollerPosition, Position, Accounted, InBatch
  <2>2. TokenTrails(p)'
    BY <1>1, <1>2 DEF IInv, TokensTrail, TokenTrails
  <2>3. QED
    BY <2>1, <2>2
<1>3. \A q \in Pollers : PollerEffect(q)
  BY <1>2, OnePoller DEF IInv
<1>4. QED
  BY <1>3 DEF Effects, RowStep

\* A step of a poller that does nothing but move within its loop.
LEMMA QuietStep ==
  ASSUME IInv, NEW p \in Pollers, NEW r, Running(p), SetPoller(p, r),
         r.leased = poller[p].leased, Position(p[2], r),
         UNCHANGED <<lease, tail, closed, processed, net>>
  PROVE  Effects
BY UnwrittenStep

\* A step of a poller whose write the store performed: the poller carries on
\* with the row it was returned, or is gone.
LEMMA WrittenStep ==
  ASSUME IInv, NEW p \in Pollers, NEW r, Running(p), SetPoller(p, r),
         NEW op \in {"heartbeat", "checkpoint", "release"},
         NEW seq \in Checkpoints,
         Allowed(lease[p[2]], Request(op, poller[p].leased, seq)),
         lease' = [lease EXCEPT
                     ![p[2]] = Apply(@, Request(op, poller[p].leased, seq))],
         op = "checkpoint" =>
           poller[p].leased.checkpoint <= seq /\ Accounted(p[2], seq),
         \/ r.pc = "idle"
         \/ op # "release" /\ r.leased = lease'[p[2]] /\ Position(p[2], r),
         UNCHANGED <<tail, closed, processed, net>>
  PROVE  Effects
<1> DEFINE req == Request(op, poller[p].leased, seq)
<1>1. /\ p[1] \in Workers /\ p[2] \in Shards /\ lease[p[2]] \in Row
      /\ poller[p].leased \in Leased
  BY PollerRequests DEF IInv, TypeOK
<1>2. /\ req \in Requests /\ req.op = op /\ req.checkpoint = seq
      /\ req.owner = poller[p].leased.owner
  BY <1>1, RequestType DEF Ops
<1>3. lease[p[2]] = poller[p].leased
  BY HolderIsCurrent
<1>4. lease'[p[2]] = Apply(lease[p[2]], req)
  BY <1>1 DEF IInv, TypeOK
<1> HIDE DEF req
<1>5. op = "checkpoint" => AccountedNext(p[2], seq)
  BY DEF Accounted, AccountedNext
<1>6. \A t \in Shards : RowStep(t)
  <2>1. Allowed(lease[p[2]], req)
        /\ lease' = [lease EXCEPT ![p[2]] = Apply(@, req)]
    BY DEF req
  <2>2. QED
    BY <1>1, <1>2, <1>3, <1>5, <2>1, WriteEffect
<1>7. poller'[p] = r
  BY DEF IInv, TypeOK, SetPoller
<1>8. ASSUME op # "release", r.leased = lease'[p[2]], Position(p[2], r)
      PROVE  PollerPosition(p)' /\ TokenTrails(p)'
  <2>1. PollerPosition(p)'
    BY <1>7, <1>8 DEF PollerPosition, Position, Accounted, InBatch
  <2>2. lease[p[2]].owner = p[1]
    BY <1>3 DEF IInv, TokensTrail, TokenTrails
  <2>3. lease'[p[2]].owner = p[1] /\ lease'[p[2]].counter \in Nat
    <3>1. Allowed(lease[p[2]], req)
      BY DEF req
    <3>2. QED
      BY <1>1, <1>2, <1>3, <1>4, <1>8, <2>2, <3>1, ApplyFacts
      DEF Leased
  <2>4. TokenTrails(p)'
    BY <1>7, <1>8, <2>3 DEF TokenTrails
  <2>5. QED
    BY <2>1, <2>4
<1>9. \A q \in Pollers : PollerEffect(q)
  BY <1>7, <1>8, OnePoller DEF IInv
<1>10. QED
  BY <1>6, <1>9 DEF Effects

\* A request of a poller that got lost is a pending write within the
\* invariant.
LEMMA LostRequest ==
  ASSUME IInv, NEW p \in Pollers, Running(p),
         NEW op \in {"heartbeat", "checkpoint", "release"},
         NEW seq \in Checkpoints,
         op = "checkpoint" =>
           poller[p].leased.checkpoint <= seq /\ Accounted(p[2], seq),
         UNCHANGED <<tail, closed, processed>>,
         CallLost(p[2], Request(op, poller[p].leased, seq))
  PROVE  /\ \A m \in net' : m \in net \/ PendingWrite(m)'
         /\ \A s \in Shards : RowStep(s)
         /\ UNCHANGED lease
<1> DEFINE req == Request(op, poller[p].leased, seq)
<1>1. /\ req.op = op /\ req.counter = poller[p].leased.counter
      /\ req.checkpoint = seq
  BY DEF Request
<1>2. TokenTrails(p)
  BY DEF IInv, TokensTrail
<1>3. lease' = lease /\ net' = net \cup {<<p[2], req>>}
  BY DEF CallLost
<1> HIDE DEF req
<1>4. ASSUME NEW m, m = <<p[2], req>>
      PROVE  PendingWrite(m)'
  <2>0. m[1] = p[2] /\ m[2] = req
    BY <1>4
  <2>1. /\ req.counter <= lease'[p[2]].counter
        /\ req.counter = lease'[p[2]].counter
             => lease'[p[2]].checkpoint = poller[p].leased.checkpoint
    BY <1>1, <1>2, <1>3 DEF TokenTrails
  <2>2. op = "checkpoint" => Accounted(p[2], seq)'
    BY DEF Accounted
  <2>3. QED
    BY <1>1, <2>0, <2>1, <2>2 DEF PendingWrite
<1>5. QED
  BY <1>3, <1>4 DEF RowStep

\* The numbers and flags of a poller, for the steps below.
LEMMA PollerFields ==
  ASSUME IInv, NEW p \in Pollers, Running(p)
  PROVE  /\ p[1] \in Workers /\ p[2] \in Shards
         /\ poller[p] \in PollerState
         /\ poller[p].leased \in Leased
         /\ poller[p].leased.checkpoint \in Checkpoints
         /\ poller[p].leased.checkpoint \in Nat
         /\ poller[p].iter \in Nat
         /\ poller[p].last \in 0..MaxSeq
         /\ poller[p].last \in Nat
         /\ poller[p].seq \in 0..MaxSeq
         /\ poller[p].seq \in Nat
         /\ tail[p[2]] \in 0..MaxSeq
         /\ tail[p[2]] \in Nat
         /\ Position(p[2], poller[p])
<1>1. p[1] \in Workers /\ p[2] \in Shards /\ poller[p] \in PollerState
  BY DEF Pollers, IInv, TypeOK
<1>2. poller[p].leased \in Leased
  BY <1>1 DEF PollerState, Leased
<1>3. Position(p[2], poller[p])
  BY DEF IInv, PollerPositions, PollerPosition
<1>4. QED
  BY <1>1, <1>2, <1>3, MaxSeqAssumption
  DEF PollerState, Leased, Checkpoints, IInv, TypeOK

\* Steps that read the stream or leave the loop.
LEMMA ReadEffects ==
  ASSUME IInv, NEW p \in Pollers,
         \/ OpenIterator(p) \/ OpenIteratorFails(p)
         \/ PollStops(p) \/ PollReachesEnd(p)
         \/ GetRecords(p) \/ GetRecordsExpired(p)
  PROVE  Effects
<1> DEFINE r == poller[p]
           s == p[2]
<1>0. Running(p)
  BY DEF Running, OpenIterator, OpenIteratorFails, PollStops, PollReachesEnd,
         GetRecords, GetRecordsExpired, Polling
<1>1. /\ s \in Shards /\ r \in PollerState
      /\ r.leased.checkpoint \in Nat /\ r.iter \in Nat /\ tail[s] \in Nat
      /\ r.leased.checkpoint \in Checkpoints
      /\ Position(s, r)
  BY <1>0, PollerFields
<1>2. CASE OpenIterator(p)
  <2> DEFINE n == [r EXCEPT !.pc = "loop", !.iter = r.leased.checkpoint]
  <2>1. /\ n.leased = r.leased /\ n.pc = "loop" /\ n.seq = r.seq
        /\ n.iter = r.leased.checkpoint
    BY <1>1 DEF PollerState
  <2>2. Position(s, n)
    BY <1>1, <1>2, <2>1 DEF OpenIterator, Position, InBatch
  <2>3. QED
    BY <1>0, <1>2, <2>1, <2>2, QuietStep DEF OpenIterator
<1>3. CASE OpenIteratorFails(p)
  <2> DEFINE n == Stopped(r)
  <2>1. n.leased = r.leased /\ n.pc = "exit" /\ n.seq = r.seq
    BY <1>1 DEF PollerState, Stopped
  <2>2. Position(s, n)
    BY <1>1, <1>3, <2>1 DEF OpenIteratorFails, Position, InBatch
  <2>3. QED
    BY <1>0, <1>3, <2>1, <2>2, QuietStep DEF OpenIteratorFails
<1>4. CASE PollStops(p)
  <2> DEFINE n == [r EXCEPT !.pc = "exit"]
  <2>1. n.leased = r.leased /\ n.pc = "exit" /\ n.seq = r.seq
    BY <1>1 DEF PollerState
  <2>2. Position(s, n)
    BY <1>1, <1>4, <2>1 DEF PollStops, Position, InBatch
  <2>3. QED
    BY <1>0, <1>4, <2>1, <2>2, QuietStep DEF PollStops
<1>5. CASE PollReachesEnd(p)
  <2> DEFINE n == [r EXCEPT !.pc = "end"]
  <2>1. /\ n.leased = r.leased /\ n.pc = "end" /\ n.seq = r.seq
        /\ n.iter = r.iter
    BY <1>1 DEF PollerState
  <2>2. Position(s, n)
    BY <1>1, <1>5, <2>1 DEF PollReachesEnd, Position, InBatch
  <2>3. QED
    BY <1>0, <1>5, <2>1, <2>2, QuietStep DEF PollReachesEnd
<1>6. CASE GetRecords(p)
  <2>1. PICK x \in Responses(s, r.iter) :
          SetPoller(p, IF x.last = r.iter
                         THEN [r EXCEPT !.iter = x.next]
                         ELSE [r EXCEPT !.pc = "deliver", !.last = x.last,
                                        !.next = x.next])
    BY <1>6 DEF GetRecords
  <2>2. /\ x.last \in Nat /\ r.iter <= x.last /\ x.last <= tail[s]
        /\ \/ x.next = x.last
           \/ x.next = NilIter /\ s \in closed /\ x.last = tail[s]
    BY <1>1, <2>1 DEF Responses
  <2>3. r.pc = "loop" /\ r.seq = 0 /\ Accounted(s, r.iter)
        /\ r.leased.checkpoint <= r.iter
        /\ Accounted(s, r.leased.checkpoint)
    BY <1>1, <1>6 DEF GetRecords, Polling, Position, InBatch
  <2>4. CASE x.last = r.iter
    <3> DEFINE n == [r EXCEPT !.iter = x.next]
    <3>1. /\ n.leased = r.leased /\ n.pc = "loop" /\ n.seq = 0
          /\ n.iter = x.next
      BY <1>1, <2>3 DEF PollerState
    <3>2. Accounted(s, x.next) /\ r.leased.checkpoint <= x.next
      BY <1>1, <2>2, <2>3, <2>4, MaxSeqAssumption
      DEF Accounted, NilIter, CheckpointShardEnd, Checkpoints
    <3>3. Position(s, n)
      BY <2>3, <3>1, <3>2 DEF Position, InBatch
    <3>4. QED
      BY <1>0, <1>6, <2>1, <2>4, <3>1, <3>3, QuietStep DEF GetRecords
  <2>5. CASE x.last # r.iter
    <3> DEFINE n == [r EXCEPT !.pc = "deliver", !.last = x.last,
                              !.next = x.next]
    <3>1. /\ n.leased = r.leased /\ n.pc = "deliver" /\ n.seq = 0
          /\ n.iter = r.iter /\ n.last = x.last /\ n.next = x.next
      BY <1>1, <2>3 DEF PollerState
    <3>2. Position(s, n)
      BY <1>1, <2>2, <2>3, <2>5, <3>1 DEF Position, InBatch
    <3>3. QED
      BY <1>0, <1>6, <2>1, <2>5, <3>1, <3>2, QuietStep DEF GetRecords
  <2>6. QED
    BY <2>4, <2>5
<1>7. CASE GetRecordsExpired(p)
  <2> DEFINE n == [r EXCEPT !.pc = "open"]
  <2>1. n.leased = r.leased /\ n.pc = "open" /\ n.seq = r.seq
    BY <1>1 DEF PollerState
  <2>2. Position(s, n)
    BY <1>1, <1>7, <2>1 DEF GetRecordsExpired, Polling, Position, InBatch
  <2>3. QED
    BY <1>0, <1>7, <2>1, <2>2, QuietStep DEF GetRecordsExpired
<1>8. QED
  BY <1>2, <1>3, <1>4, <1>5, <1>6, <1>7

\* handleRecord lets the checkpoint pass only over a record it disposed of.
LEMMA PassedIsDisposed ==
  ASSUME NEW decodable \in BOOLEAN, NEW h \in HandleRecord(decodable),
         h.result # "recordRetry"
  PROVE  h.disposed
BY DEF HandleRecord

\* A record goes down.
LEMMA DeliverEffects ==
  ASSUME IInv, TypeOK', Grows, NEW p \in Pollers, Deliver(p)
  PROVE  Effects
<1> DEFINE r == poller[p]
           s == p[2]
           k == Cursor(r)
           n == [r EXCEPT !.seq = k, !.pc = IF k = r.last THEN "ckpt" ELSE @]
<1>0. Running(p) /\ r.pc = "deliver"
  BY DEF Running, Deliver
<1>1. /\ s \in Shards /\ r \in PollerState /\ p = <<p[1], s>> /\ p[1] \in Workers
      /\ r.leased.checkpoint \in Checkpoints
      /\ r.leased.checkpoint \in Nat /\ r.iter \in Nat /\ tail[s] \in Nat
      /\ r.last \in Nat /\ r.seq \in Nat /\ tail[s] \in 0..MaxSeq
      /\ Position(s, r)
  BY <1>0, PollerFields DEF Pollers
<1>2. /\ r.iter < r.last /\ r.last <= tail[s]
      /\ k \in Nat /\ r.iter < k /\ k <= r.last
      /\ 1..(k - 1) \subseteq processed[s]
      /\ \/ r.next = r.last
         \/ r.next = NilIter /\ s \in closed /\ r.last = tail[s]
      /\ Accounted(s, r.iter) /\ r.leased.checkpoint <= r.iter
  BY <1>0, <1>1, MaxSeqAssumption
  DEF Position, InBatch, Cursor, Accounted, CheckpointShardEnd
<1>3. /\ n.leased = r.leased /\ n.seq = k /\ n.iter = r.iter
      /\ n.last = r.last /\ n.next = r.next
      /\ n.pc = IF k = r.last THEN "ckpt" ELSE "deliver"
  BY <1>0, <1>1 DEF PollerState
<1>4. processed'[s] = processed[s] \cup {k}
  BY <1>1, PassedIsDisposed DEF Deliver, IInv, TypeOK
<1>5. poller'[p] = n /\ SetPoller(p, n)
  BY DEF Deliver, SetPoller, IInv, TypeOK
<1>6. UNCHANGED <<lease, tail, closed, net>>
  BY DEF Deliver
<1>7. 1..k \subseteq processed'[s]
  BY <1>2, <1>4
<1>8. /\ AccountedNext(s, r.leased.checkpoint)
      /\ AccountedNext(s, r.iter)
  <2>1. r.iter \in Checkpoints
    BY <1>1 DEF PollerState, Checkpoints, NilIter, CheckpointShardEnd
  <2>2. QED
    BY <1>1, <1>2, <2>1, AccountedStable DEF Position, IInv
<1> HIDE DEF n, k
<1>9. PollerPosition(p)'
  BY <1>1, <1>2, <1>3, <1>5, <1>6, <1>7, <1>8
  DEF PollerPosition, Position, InBatch, Accounted, AccountedNext
<1>10. TokenTrails(p)'
  BY <1>0, <1>3, <1>5, <1>6 DEF IInv, TokensTrail, TokenTrails
<1>11. \A q \in Pollers : PollerEffect(q)
  BY <1>0, <1>5, <1>9, <1>10, OnePoller DEF IInv
<1>12. \A t \in Shards :
         processed'[t] = processed[t] \/ \E w \in Workers : Running(<<w, t>>)
  <2>1. \A t \in Shards \ {s} : processed'[t] = processed[t]
    BY DEF Deliver, IInv, TypeOK
  <2>2. \E w \in Workers : Running(<<w, s>>)
    BY <1>0, <1>1
  <2>3. QED
    BY <2>1, <2>2
<1>13. QED
  BY <1>6, <1>11, <1>12 DEF Effects, RowStep

\* A batch is cut short, or the poller is told to drain.
LEMMA CutEffects ==
  ASSUME IInv, NEW p \in Pollers, DeliverRetry(p) \/ Drain(p)
  PROVE  Effects
<1> DEFINE r == poller[p]
           s == p[2]
<1>0. Running(p)
  BY DEF Running, DeliverRetry, Drain
<1>1. /\ s \in Shards /\ r \in PollerState
      /\ Position(s, r)
  BY <1>0, PollerFields
<1>2. CASE DeliverRetry(p) /\ r.seq # 0
  <2> DEFINE n == [r EXCEPT !.pc = "ckpt", !.retry = TRUE]
  <2>1. /\ n.leased = r.leased /\ n.pc = "ckpt" /\ n.seq = r.seq
        /\ n.iter = r.iter /\ n.last = r.last /\ n.next = r.next /\ n.retry
    BY <1>1 DEF PollerState
  <2>2. Position(s, n)
    BY <1>1, <1>2, <2>1 DEF DeliverRetry, Position, InBatch
  <2>3. QED
    BY <1>0, <1>2, <2>1, <2>2, QuietStep DEF DeliverRetry
<1>3. CASE DeliverRetry(p) /\ r.seq = 0
  <2> DEFINE n == [EndOfPass(r) EXCEPT !.pc = "open"]
  <2>1. n.leased = r.leased /\ n.pc = "open" /\ n.seq = 0
    BY <1>1 DEF PollerState, EndOfPass
  <2>2. Position(s, n)
    BY <1>1, <1>3, <2>1 DEF DeliverRetry, Position, InBatch
  <2>3. QED
    BY <1>0, <1>3, <2>1, <2>2, QuietStep DEF DeliverRetry
<1>4. CASE Drain(p)
  <2> DEFINE n == [r EXCEPT !.drain = TRUE]
  <2>1. /\ n.leased = r.leased /\ n.pc = r.pc /\ n.seq = r.seq
        /\ n.iter = r.iter /\ n.last = r.last /\ n.next = r.next
        /\ n.retry = r.retry
    BY <1>1 DEF PollerState
  <2>2. Position(s, n)
    BY <1>1, <2>1 DEF Position, InBatch
  <2>3. QED
    BY <1>0, <1>4, <2>1, <2>2, QuietStep DEF Drain
<1>5. QED
  BY <1>2, <1>3, <1>4

\* The poller's conditional writes: checkpoints, SHARD_END, the release and
\* the heartbeat.
LEMMA CheckpointEffects ==
  ASSUME IInv, NEW p \in Pollers,
         Checkpoint(p) \/ CheckpointGivesUp(p) \/ CheckpointFails(p)
  PROVE  Effects
<1> DEFINE r == poller[p]
           s == p[2]
           e == EndOfPass(r)
<1>0. Running(p) /\ r.pc = "ckpt"
  BY DEF Running, Checkpoint, CheckpointGivesUp, CheckpointFails
<1>1. /\ s \in Shards /\ r \in PollerState
      /\ r.leased.checkpoint \in Nat /\ r.iter \in Nat /\ tail[s] \in Nat
      /\ r.seq \in Nat /\ r.last \in Nat
      /\ r.seq \in 0..MaxSeq /\ r.leased \in Leased
      /\ Position(s, r)
  BY <1>0, PollerFields
<1>2. /\ r.seq \in Checkpoints /\ "checkpoint" \in Ops
      /\ r.seq # CheckpointShardEnd
      /\ CheckpointRequest(p) = Request("checkpoint", r.leased, r.seq)
  BY <1>1, MaxSeqAssumption
  DEF Checkpoints, CheckpointShardEnd, CheckpointRequest, Ops
<1>3. /\ r.leased.checkpoint <= r.seq
      /\ Accounted(s, r.seq)
      /\ Accounted(s, r.leased.checkpoint)
  BY <1>0, <1>1, <1>2 DEF Position, InBatch, Accounted
<1>4. UNCHANGED <<tail, closed, processed>>
  BY DEF Checkpoint, CheckpointGivesUp, CheckpointFails
<1>5. /\ e.leased = r.leased /\ e.seq = 0 /\ e \in PollerState
  BY <1>1, Ranges DEF EndOfPass, PollerState
<1>6. /\ Stopped(e).leased = r.leased /\ Stopped(e).seq = 0
      /\ Stopped(e).pc = "exit"
  BY <1>5 DEF Stopped, PollerState
<1>7. Position(s, Stopped(e))
  BY <1>3, <1>6 DEF Position, InBatch
<1>8. CASE Checkpoint(p)
  <2> DEFINE done == [e EXCEPT !.leased = lease'[s]]
             n == IF r.retry THEN [done EXCEPT !.pc = "open"]
                  ELSE [done EXCEPT !.pc = "loop", !.iter = r.next]
  <2>1. /\ Allowed(lease[s], Request("checkpoint", r.leased, r.seq))
        /\ lease' = [lease EXCEPT
                       ![s] = Apply(@, Request("checkpoint", r.leased, r.seq))]
        /\ UNCHANGED net
        /\ SetPoller(p, n)
    BY <1>2, <1>8 DEF Checkpoint, CallOK
  <2>2. lease'[s].checkpoint = r.seq
    BY <1>1, <2>1 DEF IInv, TypeOK, Apply, Request
  <2>3. CASE r.retry
    <3>1. n.leased = lease'[s] /\ n.pc = "open" /\ n.seq = 0
      BY <1>5, <2>3 DEF PollerState
    <3>2. Position(s, n)
      BY <1>3, <2>2, <3>1 DEF Position, InBatch
    <3>3. QED
      BY <1>0, <1>2, <1>3, <1>4, <2>1, <3>1, <3>2, WrittenStep
  <2>4. CASE ~r.retry
    <3>1. /\ n.leased = lease'[s] /\ n.pc = "loop" /\ n.seq = 0
          /\ n.iter = r.next
      BY <1>5, <2>4 DEF PollerState
    <3>2. Accounted(s, r.next) /\ r.seq <= r.next
      BY <1>0, <1>1, <1>3, <2>4, MaxSeqAssumption
      DEF Position, InBatch, Accounted, NilIter, CheckpointShardEnd
    <3>3. Position(s, n)
      BY <1>3, <2>2, <3>1, <3>2 DEF Position, InBatch
    <3>4. QED
      BY <1>0, <1>2, <1>3, <1>4, <2>1, <3>1, <3>3, WrittenStep
  <2>5. QED
    BY <2>3, <2>4
<1>9. CASE CheckpointGivesUp(p)
  BY <1>0, <1>4, <1>6, <1>7, <1>9, QuietStep
  DEF CheckpointGivesUp, CallRefused, CallAborted
<1>10. CASE CheckpointFails(p)
  <2>1. CallLost(s, Request("checkpoint", r.leased, r.seq))
    BY <1>2, <1>10 DEF CheckpointFails
  <2>2. /\ \A m \in net' : m \in net \/ PendingWrite(m)'
        /\ UNCHANGED lease
    BY <1>0, <1>2, <1>3, <1>4, <2>1, LostRequest
  <2>3. CASE r.attempt + 1 < CheckpointAttempts
    <3> DEFINE n == [r EXCEPT !.attempt = @ + 1]
    <3>1. /\ n.leased = r.leased /\ n.pc = r.pc /\ n.seq = r.seq
          /\ n.iter = r.iter /\ n.last = r.last /\ n.next = r.next
          /\ n.retry = r.retry
      BY <1>1 DEF PollerState
    <3>2. Position(s, n)
      BY <1>1, <3>1 DEF Position, InBatch
    <3>3. SetPoller(p, n)
      BY <1>10, <2>3 DEF CheckpointFails
    <3>4. QED
      BY <1>0, <1>4, <2>2, <3>1, <3>2, <3>3, UnwrittenStep
  <2>4. CASE ~(r.attempt + 1 < CheckpointAttempts)
    <3>1. SetPoller(p, Stopped(e))
      BY <1>10, <2>4 DEF CheckpointFails
    <3>2. QED
      BY <1>0, <1>4, <1>6, <1>7, <2>2, <3>1, UnwrittenStep
  <2>5. QED
    BY <2>3, <2>4
<1>11. QED
  BY <1>8, <1>9, <1>10

LEMMA ShardEndEffects ==
  ASSUME IInv, NEW p \in Pollers, WriteShardEnd(p)
  PROVE  Effects
<1> DEFINE r == poller[p]
           s == p[2]
           exit == [r EXCEPT !.pc = "exit", !.attempt = 0]
           again == [r EXCEPT !.attempt = 1]
<1>0. Running(p) /\ r.pc = "end"
  BY DEF Running, WriteShardEnd
<1>1. /\ s \in Shards /\ r \in PollerState /\ r.leased \in Leased
      /\ r.leased.checkpoint \in Nat
      /\ Position(s, r)
  BY <1>0, PollerFields
<1>2. /\ CheckpointShardEnd \in Checkpoints /\ "checkpoint" \in Ops
      /\ ShardEndRequest(p) = Request("checkpoint", r.leased, CheckpointShardEnd)
  BY MaxSeqAssumption DEF Checkpoints, CheckpointShardEnd, ShardEndRequest, Ops
<1>3. /\ r.leased.checkpoint <= CheckpointShardEnd
      /\ Accounted(s, CheckpointShardEnd)
      /\ Accounted(s, r.leased.checkpoint)
      /\ r.seq = 0
  BY <1>0, <1>1 DEF Position, InBatch, NilIter
<1>4. UNCHANGED <<tail, closed, processed>>
  BY DEF WriteShardEnd
<1>5. /\ exit.leased = r.leased /\ exit.pc = "exit" /\ exit.seq = 0
      /\ again.leased = r.leased /\ again.pc = "end" /\ again.seq = 0
      /\ again.iter = r.iter
  BY <1>0, <1>1, <1>3 DEF PollerState
<1>6. Position(s, exit) /\ Position(s, again)
  BY <1>0, <1>1, <1>3, <1>5 DEF Position, InBatch
<1>7. CASE /\ CallOK(s, ShardEndRequest(p))
           /\ SetPoller(p, [exit EXCEPT !.leased = lease'[s]])
  <2> DEFINE n == [exit EXCEPT !.leased = lease'[s]]
  <2>1. /\ Allowed(lease[s], Request("checkpoint", r.leased, CheckpointShardEnd))
        /\ lease' = [lease EXCEPT ![s] =
             Apply(@, Request("checkpoint", r.leased, CheckpointShardEnd))]
        /\ UNCHANGED net
    BY <1>2, <1>7 DEF CallOK
  <2>2. lease'[s].checkpoint = CheckpointShardEnd
    BY <1>1, <2>1 DEF IInv, TypeOK, Apply, Request
  <2>3. n.leased = lease'[s] /\ n.pc = "exit" /\ n.seq = 0
    BY <1>1, <1>3 DEF PollerState
  <2>4. Position(s, n)
    BY <1>3, <2>2, <2>3 DEF Position, InBatch
  <2>5. QED
    BY <1>0, <1>2, <1>3, <1>4, <1>7, <2>1, <2>3, <2>4, WrittenStep
<1>8. CASE /\ \/ CallRefused(s, ShardEndRequest(p))
              \/ CallLost(s, ShardEndRequest(p))
              \/ CallAborted(IF r.attempt = 0 THEN r.cancelled ELSE r.killed)
           /\ SetPoller(p, IF r.cancelled /\ r.attempt = 0
                             THEN again ELSE exit)
  <2>1. /\ \A m \in net' : m \in net \/ PendingWrite(m)'
        /\ UNCHANGED lease
    <3>1. CASE CallLost(s, ShardEndRequest(p))
      BY <1>0, <1>2, <1>3, <1>4, <3>1, LostRequest
    <3>2. QED
      BY <1>8, <3>1 DEF CallRefused, CallAborted
  <2>2. CASE r.cancelled /\ r.attempt = 0
    BY <1>0, <1>4, <1>5, <1>6, <1>8, <2>1, <2>2, UnwrittenStep
  <2>3. CASE ~(r.cancelled /\ r.attempt = 0)
    BY <1>0, <1>4, <1>5, <1>6, <1>8, <2>1, <2>3, UnwrittenStep
  <2>4. QED
    BY <2>2, <2>3
<1>9. QED
  BY <1>7, <1>8 DEF WriteShardEnd

LEMMA ReleaseEffects ==
  ASSUME IInv, NEW p \in Pollers, Release(p)
  PROVE  Effects
<1> DEFINE r == poller[p]
           s == p[2]
           req == Request("release", r.leased, CheckpointTrimHorizon)
<1>0. Running(p) /\ NoPoller.pc = "idle" /\ SetPoller(p, NoPoller)
  BY DEF Running, Release, NoPoller, NewPoller
<1>1. UNCHANGED <<tail, closed, processed>>
  BY DEF Release
<1>2. CheckpointTrimHorizon \in Checkpoints
  BY MaxSeqAssumption DEF Checkpoints, CheckpointTrimHorizon
<1>3. CASE CallOK(s, req)
  BY <1>0, <1>1, <1>2, <1>3, WrittenStep DEF CallOK
<1>4. CASE CallLost(s, req)
  <2>1. (\A m \in net' : m \in net \/ PendingWrite(m)') /\ UNCHANGED lease
    BY <1>0, <1>1, <1>2, <1>4, LostRequest
  <2>2. QED
    BY <1>0, <1>1, <2>1, UnwrittenStep
<1>5. CASE CallRefused(s, req) \/ CallAborted(r.killed)
  BY <1>0, <1>1, <1>5, UnwrittenStep DEF CallRefused, CallAborted
<1>6. QED
  BY <1>3, <1>4, <1>5 DEF Release

LEMMA HeartbeatEffects ==
  ASSUME IInv, NEW p \in Pollers, Heartbeat(p)
  PROVE  Effects
<1> DEFINE r == poller[p]
           s == p[2]
           req == Request("heartbeat", r.leased, CheckpointTrimHorizon)
<1>0. Running(p)
  BY DEF Heartbeat
<1>1. UNCHANGED <<tail, closed, processed>>
  BY DEF Heartbeat
<1>2. CheckpointTrimHorizon \in Checkpoints /\ "heartbeat" \in Ops
  BY MaxSeqAssumption DEF Checkpoints, CheckpointTrimHorizon, Ops
<1>3. /\ s \in Shards /\ r \in PollerState /\ r.leased \in Leased
      /\ lease[s] \in Row
      /\ Position(s, r)
  BY <1>0, PollerFields DEF IInv, TypeOK
<1>4. CASE /\ Allowed(lease[s], req)
           /\ lease' = [lease EXCEPT ![s] = Apply(@, req)]
           /\ SetPoller(p, [r EXCEPT !.leased = lease'[s]])
           /\ UNCHANGED net
  <2> DEFINE n == [r EXCEPT !.leased = lease'[s]]
  <2>1. lease[s] = r.leased
    BY <1>0, <1>2, <1>4, HolderIsCurrent
  <2>2. lease'[s].checkpoint = r.leased.checkpoint
    BY <1>3, <1>4, <2>1 DEF IInv, TypeOK, Apply, Request
  <2>3. /\ n.leased = lease'[s] /\ n.pc = r.pc /\ n.seq = r.seq
        /\ n.iter = r.iter /\ n.last = r.last /\ n.next = r.next
        /\ n.retry = r.retry
    BY <1>3 DEF PollerState
  <2>4. Position(s, n)
    BY <1>3, <2>2, <2>3 DEF Position, InBatch
  <2>5. QED
    BY <1>0, <1>1, <1>2, <1>4, <2>3, <2>4, WrittenStep
<1>5. CASE CallRefused(s, req) /\ SetPoller(p, [r EXCEPT !.cancelled = TRUE])
  <2> DEFINE n == [r EXCEPT !.cancelled = TRUE]
  <2>1. /\ n.leased = r.leased /\ n.pc = r.pc /\ n.seq = r.seq
        /\ n.iter = r.iter /\ n.last = r.last /\ n.next = r.next
        /\ n.retry = r.retry
    BY <1>3 DEF PollerState
  <2>2. Position(s, n)
    BY <1>3, <2>1 DEF Position, InBatch
  <2>3. QED
    BY <1>0, <1>1, <1>5, <2>1, <2>2, QuietStep DEF CallRefused
<1>6. CASE CallLost(s, req) /\ UNCHANGED poller
  <2>1. (\A m \in net' : m \in net \/ PendingWrite(m)') /\ UNCHANGED lease
    BY <1>0, <1>1, <1>2, <1>6, LostRequest
  <2>2. \A q \in Pollers : PollerEffect(q)
    BY <1>6 DEF PollerEffect, Running
  <2>3. QED
    BY <1>1, <2>1, <2>2 DEF Effects, RowStep
<1>7. QED
  BY <1>4, <1>5, <1>6 DEF Heartbeat

\* The coordinator takes a lease, or tries to.
LEMMA AcquireEffects ==
  ASSUME IInv, NEW w \in Workers, NEW s \in Shards, CoordinatorStep(w, s)
  PROVE  Effects
<1> DEFINE req == AcquireRequest(w, s)
           p == <<w, s>>
           n == NewPoller("open", lease'[s])
<1>0. /\ UNCHANGED <<tail, closed, processed>>
      /\ CanTake(w, s) /\ Exists(lease[s]) /\ ParentsDrained(s) /\ ~Running(p)
  BY DEF CoordinatorStep, TryAcquire, Steal, AcquireLost, CanTake
<1>1. /\ req \in Requests /\ req.op = "acquire" /\ req.owner = w
      /\ req.counter = lease[s].counter /\ req.counter \in Nat
      /\ lease[s] \in Row /\ p \in Pollers /\ p[1] = w /\ p[2] = s
  BY <1>0, AcquireType DEF Pollers, IInv, TypeOK, Requests
<1> HIDE DEF req
<1>2. CASE TryAcquire(w, s) \/ Steal(w, s)
  <2>1. /\ Allowed(lease[s], req)
        /\ lease' = [lease EXCEPT ![s] = Apply(@, req)]
        /\ SetPoller(p, n)
        /\ UNCHANGED net
    BY <1>2 DEF TryAcquire, Steal, CallOK, req
  <2>2. \A t \in Shards : RowStep(t)
    BY <1>1, <2>1, WriteEffect
  <2>3. lease'[s] = Apply(lease[s], req)
    BY <2>1 DEF IInv, TypeOK
  <2>4. /\ lease'[s].checkpoint = lease[s].checkpoint
        /\ lease'[s].owner = w /\ lease'[s].counter \in Nat
    BY <1>1, <2>1, <2>3, ApplyFacts DEF Leased
  <2>5. /\ poller'[p] = n
        /\ \A q \in Pollers \ {p} : poller'[q] = poller[q]
    BY <1>1, <2>1 DEF SetPoller, IInv, TypeOK
  <2>6. n.leased = lease'[s] /\ n.pc = "open" /\ n.seq = 0
    BY DEF NewPoller
  <2> HIDE DEF n
  <2>7. PollerPosition(p)'
    <3>1. Accounted(s, lease[s].checkpoint)
      BY DEF IInv, NoLoss
    <3>2. QED
      BY <1>0, <1>1, <2>4, <2>5, <2>6, <3>1
      DEF PollerPosition, Position, InBatch, Accounted
  <2>8. TokenTrails(p)'
    BY <1>1, <2>4, <2>5, <2>6 DEF TokenTrails
  <2>9. PollerEffect(p)
    BY <1>0, <1>1, <2>7, <2>8 DEF PollerEffect
  <2>10. ASSUME NEW q \in Pollers \ {p}
         PROVE  PollerEffect(q)
    BY <2>5 DEF PollerEffect, Running
  <2>11. QED
    BY <1>0, <2>1, <2>2, <2>9, <2>10 DEF Effects
<1>3. CASE AcquireLost(w, s)
  <2>1. lease' = lease /\ net' = net \cup {<<s, req>>} /\ poller' = poller
    BY <1>3 DEF AcquireLost, CallLost, req
  <2>2. ASSUME NEW m, m = <<s, req>>
        PROVE  PendingWrite(m)'
    <3>1. m[1] = s /\ m[2] = req
      BY <2>2
    <3>2. QED
      BY <1>1, <2>1, <3>1 DEF PendingWrite
  <2>3. \A q \in Pollers : PollerEffect(q)
    BY <2>1 DEF PollerEffect, Running
  <2>4. QED
    BY <1>0, <2>1, <2>2, <2>3 DEF Effects, RowStep
<1>4. QED
  BY <1>2, <1>3 DEF CoordinatorStep

\* The stream, discovery, the end of a process, and the network.
LEMMA EnvironmentEffects ==
  ASSUME IInv, TypeOK', Grows,
         \/ \E s \in Shards : PutRecord(s) \/ CloseShard(s) \/ EnsureLease(s)
         \/ \E w \in Workers : Kill(w) \/ Crash(w)
         \/ LateWrite \/ NothingLeft \/ UNCHANGED vars
  PROVE  Effects
<1>1. ASSUME UNCHANGED <<poller>>
      PROVE  \A p \in Pollers : PollerEffect(p)
  BY <1>1 DEF PollerEffect, Running
<1>2. ASSUME NEW s \in Shards, PutRecord(s) \/ CloseShard(s)
      PROVE  Effects
  BY <1>1, <1>2 DEF PutRecord, CloseShard, Effects, RowStep
<1>3. ASSUME NEW s \in Shards, EnsureLease(s)
      PROVE  Effects
  <2>1. /\ lease'[s] = Ensure(lease[s])
        /\ \A t \in Shards \ {s} : lease'[t] = lease[t]
    BY <1>3 DEF EnsureLease, IInv, TypeOK
  <2>2. \A t \in Shards : RowStep(t)
    BY <1>3, <2>1 DEF EnsureLease, RowStep
  <2>3. QED
    BY <1>1, <1>3, <2>2 DEF EnsureLease, Effects
<1>4. ASSUME NEW w \in Workers, Kill(w)
      PROVE  Effects
  <2>1. UNCHANGED <<lease, tail, closed, processed, net>>
    BY <1>4 DEF Kill
  <2>2. ASSUME NEW p \in Pollers, poller'[p] # poller[p]
        PROVE  PollerEffect(p)
    <3> DEFINE r == poller[p]
               n == [r EXCEPT !.drain = TRUE, !.cancelled = TRUE,
                              !.killed = TRUE]
    <3>1. Running(p) /\ poller'[p] = n
      BY <1>4, <2>2 DEF Kill
    <3>2. r \in PollerState /\ Position(p[2], r)
      BY <3>1, PollerFields
    <3>3. /\ n.leased = r.leased /\ n.pc = r.pc /\ n.seq = r.seq
          /\ n.iter = r.iter /\ n.last = r.last /\ n.next = r.next
          /\ n.retry = r.retry
      BY <3>2 DEF PollerState
    <3> HIDE DEF n
    <3>4. PollerPosition(p)'
      BY <2>1, <3>1, <3>2, <3>3 DEF PollerPosition, Position, InBatch, Accounted
    <3>5. TokenTrails(p)'
      BY <2>1, <3>1, <3>3 DEF IInv, TokensTrail, TokenTrails
    <3>6. QED
      BY <3>1, <3>4, <3>5 DEF PollerEffect
  <2>3. ASSUME NEW p \in Pollers, poller'[p] = poller[p]
        PROVE  PollerEffect(p)
    BY <2>3 DEF PollerEffect, Running
  <2>4. QED
    BY <2>1, <2>2, <2>3 DEF Effects, RowStep
<1>5. ASSUME NEW w \in Workers, Crash(w)
      PROVE  Effects
  <2>1. ASSUME NEW p \in Pollers
        PROVE  PollerEffect(p)
    BY <1>5 DEF Crash, PollerEffect, Running, NoPoller, NewPoller
  <2>2. QED
    BY <1>5, <2>1 DEF Crash, Effects, RowStep
<1>6. CASE LateWrite
  <2>1. PICK m \in net : /\ Allowed(lease[m[1]], m[2])
                         /\ lease' = [lease EXCEPT ![m[1]] = Apply(@, m[2])]
    BY <1>6 DEF LateWrite
  <2> DEFINE s == m[1]
             req == m[2]
  <2>2. /\ s \in Shards /\ req \in Requests /\ lease[s] \in Row
        /\ req.checkpoint \in Checkpoints
    BY DEF IInv, TypeOK, Requests
  <2>3. lease[s].counter = req.counter
    BY <2>1, <2>2, ApplyFacts
  <2>4. req.op = "checkpoint" =>
          lease[s].checkpoint <= req.checkpoint /\ Accounted(s, req.checkpoint)
    BY <2>3 DEF IInv, PendingWrites, PendingWrite
  <2>5. req.op = "checkpoint" => AccountedNext(s, req.checkpoint)
    BY <2>2, <2>4, AccountedStable DEF IInv
  <2>6. \A t \in Shards : RowStep(t)
    BY <2>1, <2>2, <2>4, <2>5, WriteEffect
  <2>7. QED
    BY <1>1, <1>6, <2>6 DEF LateWrite, Effects
<1>7. CASE NothingLeft \/ UNCHANGED vars
  BY <1>1, <1>7 DEF NothingLeft, vars, Effects, RowStep
<1>8. QED
  BY <1>2, <1>3, <1>4, <1>5, <1>6, <1>7

\* Every step has the effects the invariant needs.
LEMMA StepEffects ==
  ASSUME IInv, TypeOK', Grows, [Next]_vars
  PROVE  Effects
<1>1. ASSUME NEW p \in Pollers, PollerStep(p) \/ Heartbeat(p) \/ Drain(p)
      PROVE  Effects
  BY <1>1, ReadEffects, DeliverEffects, CutEffects, CheckpointEffects,
     ShardEndEffects, ReleaseEffects, HeartbeatEffects DEF PollerStep
<1>2. QED
  BY <1>1, AcquireEffects, EnvironmentEffects DEF Next

LEMMA InvariantStep ==
  ASSUME IInv, [Next]_vars
  PROVE  IInv'
<1>1. TypeOK' /\ Grows
  BY TypeStep, StepGrows DEF IInv
<1>2. QED
  BY <1>1, StepEffects, EffectsPreserve

LEMMA InvariantInit ==
  ASSUME Init
  PROVE  IInv
<1>1. TypeOK
  <2>1. NoRow \in Row
    BY MaxSeqAssumption DEF NoRow, Row, Checkpoints, CheckpointTrimHorizon
  <2>2. QED
    BY <2>1, NoPollerType, BacklogAssumption, AllotmentsAssumption
    DEF Init, TypeOK, BudgetState
<1>2. AbsentRows /\ ParentsFirst
  <2>1. \A w \in Workers, s \in Shards : ~Running(<<w, s>>)
    BY DEF Init, Running, NoPoller, NewPoller, Pollers
  <2>2. \A s \in Shards : lease[s] = NoRow /\ processed[s] = {}
    BY DEF Init
  <2>3. ~Exists(NoRow)
    BY DEF Exists, NoRow
  <2>4. QED
    BY <2>1, <2>2, <2>3 DEF AbsentRows, ParentsFirst
<1>3. NoLoss
  BY <1>1, MaxSeqAssumption
  DEF Init, TypeOK, NoLoss, Accounted, NoRow, CheckpointTrimHorizon,
      CheckpointShardEnd
<1>4. PollerPositions /\ TokensTrail /\ PendingWrites
  BY DEF Init, PollerPositions, TokensTrail, PendingWrites, Running, NoPoller,
         NewPoller
<1>5. QED
  BY <1>1, <1>2, <1>3, <1>4 DEF IInv

-----------------------------------------------------------------------------
(***************************************************************************)
(* The theorems.                                                           *)
(***************************************************************************)
\* The inductive invariant holds in every reachable state.
THEOREM Invariance == Spec => []IInv
<1>1. Init => IInv
  BY InvariantInit
<1>2. IInv /\ [Next]_vars => IInv'
  BY InvariantStep
<1>3. QED
  BY <1>1, <1>2, PTL DEF Spec

\* The variables keep their types: in particular no poller reads or checkpoints
\* beyond the last record of a shard.
THEOREM TypeCorrect == Spec => []TypeOK
<1>1. IInv => TypeOK
  BY DEF IInv
<1>2. QED
  BY <1>1, Invariance, PTL

\* No record is lost, for any number of replicas, shards, records, crashes,
\* steals, rejections and lost or late store calls.
THEOREM NothingLost == Spec => []NoLoss
<1>1. IInv => NoLoss
  BY DEF IInv
<1>2. QED
  BY <1>1, Invariance, PTL

\* A lease whose token still passes the fence is the row itself.
THEOREM TokensCurrent == Spec => []TokenIsCurrent
<1>1. IInv => TokenIsCurrent
  BY DEF IInv, TokensTrail, TokenTrails, TokenIsCurrent, Fenced, CounterMatches
<1>2. QED
  BY <1>1, Invariance, PTL

\* Children start only after everything in their parents is disposed of.
THEOREM ParentsComeFirst == Spec => []ChildAfterParent
<1>1. ASSUME IInv
      PROVE  ChildAfterParent
  <2> SUFFICES ASSUME NEW s \in Shards, processed[s] # {}, NEW q \in Parents[s]
               PROVE  q \in closed /\ 1..tail[q] \subseteq processed[q]
    BY DEF ChildAfterParent
  <2>1. q \in Shards /\ lease[q].checkpoint = CheckpointShardEnd
    BY <1>1, ShardsAssumption DEF IInv, ParentsFirst
  <2>2. QED
    BY <1>1, <2>1 DEF IInv, NoLoss, Accounted
<1>2. QED
  BY <1>1, Invariance, PTL

\* No step moves a checkpoint back.
LEMMA ForwardStep ==
  ASSUME IInv, [Next]_vars
  PROVE  \A s \in Shards : lease'[s].checkpoint >= lease[s].checkpoint
<1>1. TypeOK' /\ Grows
  BY TypeStep, StepGrows DEF IInv
<1>2. \A s \in Shards : lease[s].checkpoint <= lease'[s].checkpoint
  BY <1>1, StepEffects, CheckpointsForward
<1>3. \A s \in Shards : /\ lease[s].checkpoint \in Int
                        /\ lease'[s].checkpoint \in Int
  BY <1>1 DEF IInv, TypeOK, Row, Checkpoints
<1>4. QED
  BY <1>2, <1>3

\* Checkpoints never move back, also under duplicated and late writes.
THEOREM CheckpointsAdvance == Spec => CheckpointsNeverRegress
<1>1. IInv /\ [Next]_vars =>
        [\A s \in Shards : lease'[s].checkpoint >= lease[s].checkpoint]_lease
  BY ForwardStep
<1>2. QED
  BY <1>1, Invariance, PTL DEF Spec, CheckpointsNeverRegress

-----------------------------------------------------------------------------
(***************************************************************************)
(* Refinement of AtLeastOnce.                                              *)
(***************************************************************************)
Committed == [s \in Shards |-> lease[s].checkpoint]

\* A step that writes at most one row and leaves the stream alone commits.
LEMMA RowStepCommits ==
  ASSUME IInv, [Next]_vars, UNCHANGED <<tail, closed, processed>>,
         \/ lease' = lease
         \/ \E s \in Shards, x \in Row : lease' = [lease EXCEPT ![s] = x]
  PROVE  [AtLeastOnceOf!Next]_(AtLeastOnceOf!vars)
<1>0. TypeOK' /\ Grows
  BY TypeStep, StepGrows DEF IInv
<1>1. CASE lease' = lease
  BY <1>1 DEF AtLeastOnceOf!vars
<1>2. ASSUME NEW s \in Shards, NEW x \in Row, lease' = [lease EXCEPT ![s] = x]
      PROVE  AtLeastOnceOf!Commit(s, x.checkpoint)
  <2>1. lease'[s] = x
    BY <1>2 DEF IInv, TypeOK
  <2>2. /\ lease[s].checkpoint <= x.checkpoint
        /\ AccountedNext(s, x.checkpoint)
    BY <1>0, <2>1, StepEffects, CheckpointsForward
  <2>3. Committed' = [Committed EXCEPT ![s] = x.checkpoint]
    BY <1>2, <2>1 DEF Committed, IInv, TypeOK
  <2>4. x.checkpoint \in Int /\ lease[s].checkpoint \in Int
    BY DEF Row, Checkpoints, IInv, TypeOK
  <2>5. AtLeastOnceOf!Accounted(s, x.checkpoint)
    BY <2>2
    DEF AccountedNext, AtLeastOnceOf!Accounted, AtLeastOnceOf!ShardEnd,
        CheckpointShardEnd
  <2>6. QED
    BY <2>2, <2>3, <2>4, <2>5 DEF AtLeastOnceOf!Commit, Committed
<1>3. \A x \in Row : x.checkpoint \in 0..AtLeastOnceOf!ShardEnd
  BY DEF Row, Checkpoints, AtLeastOnceOf!ShardEnd
<1>4. QED
  BY <1>1, <1>2, <1>3 DEF AtLeastOnceOf!Next

\* Deliver is Process.
LEMMA DeliverProcesses ==
  ASSUME IInv, NEW p \in Pollers, Deliver(p)
  PROVE  AtLeastOnceOf!Process(p[2], Cursor(poller[p]))
         /\ Cursor(poller[p]) \in 1..MaxSeq
<1> DEFINE r == poller[p]
           s == p[2]
           k == Cursor(r)
<1>0. Running(p) /\ r.pc = "deliver"
  BY DEF Running, Deliver
<1>1. /\ s \in Shards /\ r \in PollerState /\ p = <<p[1], s>> /\ p[1] \in Workers
      /\ r.iter \in Nat /\ tail[s] \in Nat
      /\ r.last \in Nat /\ r.seq \in Nat /\ tail[s] \in 0..MaxSeq
      /\ Position(s, r)
  BY <1>0, PollerFields DEF Pollers
<1>2. /\ k \in 1..tail[s] /\ k \in 1..MaxSeq
      /\ 1..(k - 1) \subseteq processed[s]
  BY <1>0, <1>1, MaxSeqAssumption
  DEF Position, InBatch, Cursor, Accounted, CheckpointShardEnd
<1>3. processed' = [processed EXCEPT ![s] = @ \cup {k}]
  BY <1>1, PassedIsDisposed DEF Deliver
<1>4. \A q \in Parents[s] : lease[q].checkpoint = CheckpointShardEnd
  BY <1>0, <1>1 DEF IInv, ParentsFirst
<1>5. \A q \in Parents[s] : AtLeastOnceOf!Finished(q)
  BY <1>1, <1>4, ShardsAssumption
  DEF AtLeastOnceOf!Finished, AtLeastOnceOf!ShardEnd, CheckpointShardEnd
<1>6. UNCHANGED <<tail, closed, lease>>
  BY DEF Deliver
<1> HIDE DEF k
<1>7. AtLeastOnceOf!Process(s, k)
  BY <1>2, <1>3, <1>5, <1>6 DEF AtLeastOnceOf!Process
<1>8. QED
  BY <1>2, <1>7 DEF k

\* Every other step of a replica writes one row at most.
LEMMA OneRow ==
  ASSUME IInv, [Next]_vars
  PROVE  \/ lease' = lease
         \/ \E s \in Shards, x \in Row : lease' = [lease EXCEPT ![s] = x]
<1>1. ASSUME NEW s \in Shards, NEW req \in Requests, Allowed(lease[s], req),
             lease' = [lease EXCEPT ![s] = Apply(@, req)]
      PROVE  \E x \in Row : lease' = [lease EXCEPT ![s] = x]
  <2>1. lease[s] \in Row
    BY DEF IInv, TypeOK
  <2>2. Apply(lease[s], req) \in Row
    BY <1>1, <2>1, ApplyFacts
  <2>3. QED
    BY <1>1, <2>2
<1>2. ASSUME NEW s \in Shards, EnsureLease(s)
      PROVE  \E x \in Row : lease' = [lease EXCEPT ![s] = x]
  <2>1. Ensure(lease[s]) \in Row
    BY MaxSeqAssumption
    DEF Ensure, Row, IInv, TypeOK, Checkpoints, CheckpointTrimHorizon
  <2>2. QED
    BY <1>2, <2>1 DEF EnsureLease
<1>3. ASSUME NEW w \in Workers, NEW s \in Shards, CoordinatorStep(w, s)
      PROVE  \/ lease' = lease
             \/ \E x \in Row : lease' = [lease EXCEPT ![s] = x]
  <2>1. AcquireRequest(w, s) \in Requests
    BY <1>3, AcquireType
    DEF CoordinatorStep, TryAcquire, Steal, AcquireLost, CanTake, IInv
  <2>2. QED
    BY <1>1, <1>3, <2>1
    DEF CoordinatorStep, TryAcquire, Steal, AcquireLost, CallOK, CallLost
<1>4. ASSUME NEW p \in Pollers, PollerStep(p) \/ Heartbeat(p) \/ Drain(p)
      PROVE  \/ lease' = lease
             \/ \E x \in Row : lease' = [lease EXCEPT ![p[2]] = x]
  <2>1. /\ p[2] \in Shards
        /\ CheckpointRequest(p) \in Requests
        /\ ShardEndRequest(p) \in Requests
        /\ Request("release", poller[p].leased, CheckpointTrimHorizon)
             \in Requests
        /\ Request("heartbeat", poller[p].leased, CheckpointTrimHorizon)
             \in Requests
    BY PollerRequests DEF IInv
  <2>2. CASE Checkpoint(p) \/ WriteShardEnd(p)
    BY <1>1, <2>1, <2>2
    DEF Checkpoint, WriteShardEnd, CallOK, CallRefused, CallLost, CallAborted
  <2>3. CASE Release(p) \/ Heartbeat(p)
    BY <1>1, <2>1, <2>3
    DEF Release, Heartbeat, CallOK, CallRefused, CallLost, CallAborted
  <2>4. CASE ~(Checkpoint(p) \/ WriteShardEnd(p) \/ Release(p) \/ Heartbeat(p))
    BY <1>4, <2>4
    DEF PollerStep, Drain, OpenIterator, OpenIteratorFails, PollStops,
        PollReachesEnd, GetRecords, GetRecordsExpired, Deliver, DeliverRetry,
        CheckpointGivesUp, CheckpointFails, CallRefused, CallLost, CallAborted
  <2>5. QED
    BY <2>2, <2>3, <2>4
<1>5. CASE LateWrite
  BY <1>1, <1>5 DEF LateWrite, IInv, TypeOK
<1>6. \A p \in Pollers : p[2] \in Shards
  BY DEF Pollers
<1>7. QED
  BY <1>2, <1>3, <1>4, <1>5, <1>6
  DEF Next, PutRecord, CloseShard, Kill, Crash, NothingLeft, vars

LEMMA RefinementStep ==
  ASSUME IInv, [Next]_vars
  PROVE  [AtLeastOnceOf!Next]_(AtLeastOnceOf!vars)
<1>1. ASSUME NEW s \in Shards, PutRecord(s)
      PROVE  AtLeastOnceOf!Put(s)
  BY <1>1 DEF PutRecord, AtLeastOnceOf!Put
<1>2. ASSUME NEW s \in Shards, CloseShard(s)
      PROVE  AtLeastOnceOf!Close(s)
  BY <1>2 DEF CloseShard, AtLeastOnceOf!Close
<1>3. ASSUME NEW p \in Pollers, Deliver(p)
      PROVE  AtLeastOnceOf!Next
  <2>1. p[2] \in Shards
    BY DEF Pollers
  <2>2. QED
    BY <1>3, <2>1, DeliverProcesses DEF AtLeastOnceOf!Next
<1>4. CASE UNCHANGED <<tail, closed, processed>>
  BY <1>4, OneRow, RowStepCommits
<1>5. CASE /\ \A s \in Shards : ~PutRecord(s) /\ ~CloseShard(s)
           /\ \A p \in Pollers : ~Deliver(p)
  <2>1. UNCHANGED <<tail, closed, processed>>
    BY <1>5
    DEF Next, EnsureLease, CoordinatorStep, TryAcquire, Steal, AcquireLost,
        Kill, Crash, Heartbeat, Drain, LateWrite, NothingLeft, vars,
        PollerStep, OpenIterator, OpenIteratorFails, PollStops,
        PollReachesEnd, GetRecords, GetRecordsExpired, DeliverRetry,
        Checkpoint, CheckpointGivesUp, CheckpointFails, WriteShardEnd, Release
  <2>2. QED
    BY <1>4, <2>1
<1>6. QED
  BY <1>1, <1>2, <1>3, <1>5 DEF AtLeastOnceOf!Next

\* The replicas together implement ordered at-least-once consumption.
THEOREM Refinement == Spec => Implements
<1>1. Init => AtLeastOnceOf!Init
  BY BacklogAssumption DEF Init, AtLeastOnceOf!Init, NoRow, CheckpointTrimHorizon
<1>2. IInv /\ [Next]_vars => [AtLeastOnceOf!Next]_(AtLeastOnceOf!vars)
  BY RefinementStep
<1>3. QED
  BY <1>1, <1>2, Invariance, PTL
  DEF Spec, Implements, AtLeastOnceOf!Spec

-----------------------------------------------------------------------------
(***************************************************************************)
(* Graceful handover: what holds while nothing is lost, stolen or killed.  *)
(***************************************************************************)
\* A poller holds the row itself, is not cancelled before it leaves the loop,
\* and reads from the checkpoint on or has come to the end of the shard.
Undisturbed(p) ==
  LET r == poller[p]
  IN  /\ r.leased = lease[p[2]]
      /\ r.cancelled => r.pc = "exit"
      /\ ~r.killed
      /\ r.pc \in {"loop", "deliver", "ckpt"} =>
           r.iter \in {r.leased.checkpoint, NilIter}

\* p has record k of its batch behind it, and has still to checkpoint it.
Behind(p, k) ==
  InBatch(poller[p]) /\ poller[p].seq # 0 /\ k <= poller[p].seq

\* Whatever has been disposed of is checkpointed or about to be.
Handed(s) ==
  \A k \in processed[s] : \/ k <= lease[s].checkpoint
                          \/ \E w \in Workers : Behind(<<w, s>>, k)

NoneLeft(b) == \A k \in {"lost", "steals", "stops"} : b.left[k] = 0

Calm ==
  /\ NoneLeft(budget)
  /\ net = {}
  /\ \A p \in Pollers : Running(p) => Undisturbed(p)
  /\ \A s \in Shards : Handed(s)

\* The invariant behind NoRedelivery, inductive together with IInv.
Handover == Graceful => Calm

LEMMA SpendKeeps ==
  ASSUME TypeOK, NEW kind \in Disturbances, Spend(kind)
  PROVE  /\ budget'.given = budget.given
         /\ budget.left[kind] > 0
         /\ \A k \in Disturbances \ {kind} : budget'.left[k] = budget.left[k]
<1>1. /\ budget.left[kind] > 0
      /\ budget' = [budget EXCEPT !.left[kind] = @ - 1]
  BY DEF Spend
<1>2. budget \in [given : [Disturbances -> Nat], left : [Disturbances -> Nat]]
  BY DEF TypeOK, BudgetState
<1>3. /\ budget'.given = budget.given
      /\ budget'.left = [budget.left EXCEPT ![kind] = @ - 1]
  BY <1>1, <1>2
<1>4. QED
  BY <1>1, <1>2, <1>3

\* Nothing that is allotted only to rougher behaviours happens.
LEMMA Gentle ==
  ASSUME TypeOK, NoneLeft(budget)
  PROVE  /\ ~Spend("lost") /\ ~Spend("steals") /\ ~Spend("stops")
         /\ \A kind \in {"errs", "drains", "beats"} :
              Spend(kind) => /\ budget'.given = budget.given
                             /\ NoneLeft(budget')
<1>1. ~Spend("lost") /\ ~Spend("steals") /\ ~Spend("stops")
  BY DEF Spend, NoneLeft
<1>2. ASSUME NEW kind \in {"errs", "drains", "beats"}, Spend(kind)
      PROVE  budget'.given = budget.given /\ NoneLeft(budget')
  <2>1. kind \in Disturbances
    BY DEF Disturbances
  <2>2. /\ budget'.given = budget.given
        /\ \A k \in Disturbances \ {kind} : budget'.left[k] = budget.left[k]
    BY <1>2, <2>1, SpendKeeps
  <2>3. \A k \in {"lost", "steals", "stops"} : k \in Disturbances \ {kind}
    BY <1>2 DEF Disturbances
  <2>4. QED
    BY <2>2, <2>3 DEF NoneLeft
<1>3. QED
  BY <1>1, <1>2

\* The row a poller of s holds names it as the owner, so it is the only one.
LEMMA Alone ==
  ASSUME IInv, Calm, NEW p \in Pollers, Running(p)
  PROVE  /\ lease[p[2]].owner = p[1]
         /\ \A q \in Pollers \ {p} : q[2] = p[2] => ~Running(q)
<1>1. \A q \in Pollers : Running(q) => lease[q[2]].owner = q[1]
  BY DEF Calm, Undisturbed, IInv, TokensTrail, TokenTrails
<1>2. ASSUME NEW q \in Pollers, q[2] = p[2], Running(q)
      PROVE  q = p
  <2>1. q[1] = p[1]
    BY <1>1, <1>2
  <2>2. QED
    BY <1>2, <2>1 DEF Pollers
<1>3. QED
  BY <1>1, <1>2

\* The row is that of the poller, whatever it asks for is performed.
LEMMA Accepted ==
  ASSUME IInv, Calm, NEW p \in Pollers, Running(p)
  PROVE  /\ Allowed(lease[p[2]], CheckpointRequest(p))
         /\ Allowed(lease[p[2]], ShardEndRequest(p))
         /\ Allowed(lease[p[2]],
                    Request("release", poller[p].leased, CheckpointTrimHorizon))
         /\ Allowed(lease[p[2]],
                    Request("heartbeat", poller[p].leased, CheckpointTrimHorizon))
<1>1. poller[p].leased = lease[p[2]] /\ poller[p].leased \in Leased
  BY PollerRequests DEF Calm, Undisturbed, IInv
<1>2. Exists(lease[p[2]])
  BY <1>1 DEF Exists, Leased
<1>3. QED
  BY <1>1, <1>2
  DEF Allowed, Fenced, CounterMatches, CheckpointRequest, ShardEndRequest, Request

\* A poller that is alone at its shard, or gets the shard while nobody else is
\* there, needs to be looked at only where it changes something.
LEMMA CalmFrame ==
  ASSUME IInv, Calm, NEW p \in Pollers,
         \A q \in Pollers \ {p} : q[2] = p[2] => ~Running(q),
         NoneLeft(budget'), net' = {},
         \A q \in Pollers \ {p} : poller'[q] = poller[q],
         \A t \in Shards \ {p[2]} : /\ lease'[t] = lease[t]
                                    /\ processed'[t] = processed[t],
         Running(p)' => Undisturbed(p)',
         \A k \in processed'[p[2]] : k <= lease'[p[2]].checkpoint \/ Behind(p, k)'
  PROVE  Calm'
<1>1. p = <<p[1], p[2]>> /\ p[1] \in Workers /\ p[2] \in Shards
  BY DEF Pollers
<1>2. ASSUME NEW q \in Pollers \ {p}, Running(q)'
      PROVE  Undisturbed(q)'
  <2>1. Running(q) /\ q[2] # p[2] /\ q[2] \in Shards
    BY <1>2 DEF Running, Pollers
  <2>2. poller'[q] = poller[q] /\ lease'[q[2]] = lease[q[2]]
    BY <2>1
  <2>3. Undisturbed(q)
    BY <2>1 DEF Calm
  <2>4. QED
    BY <2>2, <2>3 DEF Undisturbed
<1>3. Handed(p[2])'
  <2>1. ASSUME NEW k \in processed'[p[2]]
        PROVE  \/ k <= lease'[p[2]].checkpoint
               \/ \E w \in Workers : Behind(<<w, p[2]>>, k)'
    <3>1. CASE k <= lease'[p[2]].checkpoint
      BY <3>1
    <3>2. CASE Behind(p, k)'
      <4>1. Behind(<<p[1], p[2]>>, k)'
        BY <1>1, <3>2 DEF Behind
      <4>2. QED
        BY <1>1, <4>1
    <3>3. QED
      BY <3>1, <3>2
  <2>2. QED
    BY <2>1 DEF Handed
<1>4. ASSUME NEW t \in Shards \ {p[2]}
      PROVE  Handed(t)'
  <2>1. \A w \in Workers : <<w, t>> \in Pollers \ {p}
    BY <1>1 DEF Pollers
  <2>2. \A w \in Workers : poller'[<<w, t>>] = poller[<<w, t>>]
    BY <2>1
  <2>3. Handed(t)
    BY DEF Calm
  <2>4. QED
    BY <2>2, <2>3 DEF Handed, Behind
<1>5. QED
  BY <1>2, <1>3, <1>4 DEF Calm

\* A poller that was not cancelled, killed or refused reads every record once.
LEMMA CalmPollerStep ==
  ASSUME IInv, Calm, NEW p \in Pollers,
         PollerStep(p) \/ Heartbeat(p) \/ Drain(p)
  PROVE  Calm' /\ budget'.given = budget.given
<1> DEFINE r == poller[p]
           s == p[2]
<1>0. /\ s \in Shards /\ r \in PollerState
      /\ r.leased \in Leased /\ lease[s] \in Row
      /\ CheckpointRequest(p) \in Requests
      /\ ShardEndRequest(p) \in Requests
      /\ Request("release", r.leased, CheckpointTrimHorizon) \in Requests
      /\ Request("heartbeat", r.leased, CheckpointTrimHorizon) \in Requests
  BY PollerRequests DEF IInv, TypeOK
<1>a. Running(p)
  BY DEF PollerStep, Heartbeat, Drain, Running, OpenIterator, OpenIteratorFails,
         PollStops, PollReachesEnd, GetRecords, GetRecordsExpired, Polling,
         Deliver, DeliverRetry, Checkpoint, CheckpointGivesUp, CheckpointFails,
         WriteShardEnd, Release
<1>b. /\ r.leased = lease[s] /\ (r.cancelled => r.pc = "exit") /\ ~r.killed
      /\ r.pc \in {"loop", "deliver", "ckpt"} =>
           r.iter \in {r.leased.checkpoint, NilIter}
  BY <1>a DEF Calm, Undisturbed
<1>c. Position(s, r)
  BY <1>a DEF IInv, PollerPositions, PollerPosition
<1>d. \A q \in Pollers \ {p} : q[2] = s => ~Running(q)
  BY <1>a, Alone
<1>e. NoneLeft(budget) /\ net = {} /\ TypeOK /\ poller \in [Pollers -> PollerState]
  BY DEF Calm, IInv, TypeOK
<1>f. /\ ~Spend("lost")
      /\ \A kind \in {"errs", "drains", "beats"} :
           Spend(kind) => budget'.given = budget.given /\ NoneLeft(budget')
  BY <1>e, Gentle
<1>g. /\ \A k \in processed[s] : k <= lease[s].checkpoint \/ Behind(p, k)
      /\ processed[s] \subseteq Seqs /\ lease \in [Shards -> Row]
      /\ processed \in [Shards -> SUBSET Seqs]
  <2>1. ASSUME NEW k \in processed[s], NEW w \in Workers, Behind(<<w, s>>, k)
        PROVE  Behind(p, k)
    <3>1. <<w, s>> \in Pollers /\ <<w, s>>[2] = s
      BY <1>0 DEF Pollers
    <3>2. Running(<<w, s>>)
      BY <2>1 DEF Behind, InBatch, Running
    <3>3. <<w, s>> = p
      BY <1>d, <3>1, <3>2
    <3>4. QED
      BY <2>1, <3>3
  <2>2. QED
    BY <1>0, <2>1 DEF Calm, Handed, IInv, TypeOK
<1> HIDE DEF r, s
<1>j. /\ \A q \in Pollers \ {p} : poller'[q] = poller[q]
      /\ \A x : SetPoller(p, x) => poller'[p] = x
  <2>1. ASSUME NEW x, SetPoller(p, x)
        PROVE  poller'[p] = x /\ \A q \in Pollers \ {p} : poller'[q] = poller[q]
    BY <1>e, <2>1 DEF SetPoller
  <2>2. (\E x : SetPoller(p, x)) \/ poller' = poller
    <3>1. CASE OpenIterator(p) \/ OpenIteratorFails(p) \/ PollStops(p)
               \/ PollReachesEnd(p) \/ GetRecordsExpired(p) \/ Deliver(p)
               \/ DeliverRetry(p) \/ Drain(p)
      BY <3>1 DEF OpenIterator, OpenIteratorFails, PollStops, PollReachesEnd,
                  GetRecordsExpired, Deliver, DeliverRetry, Drain
    <3>2. CASE GetRecords(p)
      BY <3>2 DEF GetRecords
    <3>3. CASE Checkpoint(p) \/ CheckpointGivesUp(p) \/ CheckpointFails(p)
               \/ WriteShardEnd(p) \/ Release(p)
      BY <3>3 DEF Checkpoint, CheckpointGivesUp, CheckpointFails, WriteShardEnd,
                  Release
    <3>4. CASE Heartbeat(p)
      BY <3>4 DEF Heartbeat
    <3>5. QED
      BY <3>1, <3>2, <3>3, <3>4 DEF PollerStep
  <2>3. QED
    BY <2>1, <2>2
<1> DEFINE x == poller'[p]
\* Steps that leave the table alone.
<1>h. ASSUME lease' = lease, net' = net, NoneLeft(budget'),
             processed' = processed,
             x.leased = r.leased, x.cancelled => x.pc = "exit", ~x.killed,
             x.pc \in {"loop", "deliver", "ckpt"} =>
               x.iter \in {r.leased.checkpoint, NilIter},
             InBatch(r) /\ r.seq # 0 => x.pc \in {"deliver", "ckpt"} /\ x.seq = r.seq
      PROVE  Calm'
  <2>1. Undisturbed(p)'
    BY <1>b, <1>h DEF Undisturbed, s
  <2>2. \A k \in processed'[s] : k <= lease'[s].checkpoint \/ Behind(p, k)'
    BY <1>g, <1>h DEF Behind, InBatch, r
  <2>3. QED
    BY <1>d, <1>e, <1>h, <1>j, <2>1, <2>2, CalmFrame DEF s
\* Steps that write to the row.
<1>i. ASSUME NEW req \in Requests, req.op \in {"checkpoint", "heartbeat", "release"},
             CallOK(s, req) \/ (lease' = [lease EXCEPT ![s] = Apply(@, req)]),
             net' = net, NoneLeft(budget'), processed' = processed,
             \/ x.pc = "idle"
             \/ /\ x.leased = lease'[s] /\ (x.cancelled => x.pc = "exit")
                /\ ~x.killed
                /\ x.pc \in {"loop", "deliver", "ckpt"} =>
                     x.iter \in {lease'[s].checkpoint, NilIter},
             \A k \in processed[s] :
               \/ k <= lease'[s].checkpoint
               \/ x.pc \in {"deliver", "ckpt"} /\ x.seq # 0 /\ k <= x.seq
      PROVE  Calm'
  <2>1. Running(p)' => Undisturbed(p)'
    BY <1>i DEF Undisturbed, s, Running
  <2>2. \A k \in processed'[s] : k <= lease'[s].checkpoint \/ Behind(p, k)'
    BY <1>i DEF Behind, InBatch
  <2>3. \A t \in Shards \ {s} : lease'[t] = lease[t] /\ processed'[t] = processed[t]
    BY <1>g, <1>i DEF CallOK
  <2>4. QED
    BY <1>d, <1>e, <1>i, <1>j, <2>1, <2>2, <2>3, CalmFrame DEF s
<1>1. CASE OpenIterator(p)
  <2>1. x = [r EXCEPT !.pc = "loop", !.iter = r.leased.checkpoint]
    BY <1>1, <1>j DEF OpenIterator, r
  <2>2. r.pc = "open" /\ UNCHANGED <<lease, net, budget, processed>>
    BY <1>1 DEF OpenIterator, r
  <2>3. /\ x.leased = r.leased /\ x.cancelled = r.cancelled /\ x.killed = r.killed
        /\ x.pc = "loop" /\ x.iter = r.leased.checkpoint
    BY <1>0, <2>1 DEF PollerState
  <2> HIDE DEF x
  <2>4. QED
    BY <1>b, <1>e, <1>h, <2>2, <2>3 DEF InBatch
<1>2. CASE OpenIteratorFails(p)
  <2>1. x = [r EXCEPT !.pc = "exit", !.cancelled = TRUE]
    BY <1>2, <1>j DEF OpenIteratorFails, Stopped, r
  <2>2. /\ r.pc = "open" /\ UNCHANGED <<lease, net, processed>>
        /\ NoneLeft(budget') /\ budget'.given = budget.given
    BY <1>2, <1>e, <1>f DEF OpenIteratorFails, r
  <2>3. x.leased = r.leased /\ x.killed = r.killed /\ x.pc = "exit"
    BY <1>0, <2>1 DEF PollerState
  <2> HIDE DEF x
  <2>4. QED
    BY <1>b, <1>e, <1>h, <2>2, <2>3 DEF InBatch
<1>3. CASE PollStops(p) \/ PollReachesEnd(p)
  <2>1. PICK pc \in {"exit", "end"} : SetPoller(p, [r EXCEPT !.pc = pc])
    BY <1>3 DEF PollStops, PollReachesEnd, r
  <2>2. r.pc = "loop" /\ UNCHANGED <<lease, net, budget, processed>>
    BY <1>3 DEF PollStops, PollReachesEnd, r
  <2>3. x = [r EXCEPT !.pc = pc]
    BY <1>j, <2>1
  <2>4. /\ x.leased = r.leased /\ x.killed = r.killed
        /\ x.cancelled = r.cancelled /\ x.pc \in {"exit", "end"}
    BY <1>0, <2>3 DEF PollerState
  <2> HIDE DEF x
  <2>5. QED
    BY <1>b, <1>e, <1>h, <2>2, <2>4 DEF InBatch
<1>4. CASE GetRecords(p)
  <2>1. PICK y \in Responses(s, r.iter) :
          IF y.last = r.iter
            THEN SetPoller(p, [r EXCEPT !.iter = y.next])
            ELSE SetPoller(p, [r EXCEPT !.pc = "deliver", !.last = y.last,
                                        !.next = y.next])
    BY <1>4 DEF GetRecords, r, s
  <2>2. /\ r.pc = "loop" /\ ~r.cancelled /\ r.iter # NilIter
        /\ UNCHANGED <<lease, net, budget, processed>>
    BY <1>4 DEF GetRecords, Polling, r
  <2>3. y.next \in {y.last, NilIter}
    BY <2>1 DEF Responses
  <2>4. \/ x = [r EXCEPT !.iter = y.next] /\ y.last = r.iter
        \/ x = [r EXCEPT !.pc = "deliver", !.last = y.last, !.next = y.next]
    BY <1>j, <2>1
  <2>5. /\ x.leased = r.leased /\ x.cancelled = r.cancelled /\ x.killed = r.killed
        /\ x.iter \in {r.iter, NilIter}
    BY <1>0, <2>3, <2>4 DEF PollerState
  <2> HIDE DEF x
  <2>6. QED
    BY <1>b, <1>e, <1>h, <2>2, <2>5 DEF InBatch
<1>5. CASE GetRecordsExpired(p)
  <2>1. x = [r EXCEPT !.pc = "open"]
    BY <1>5, <1>j DEF GetRecordsExpired, r
  <2>2. /\ r.pc = "loop" /\ ~r.cancelled /\ UNCHANGED <<lease, net, processed>>
        /\ NoneLeft(budget') /\ budget'.given = budget.given
    BY <1>5, <1>f DEF GetRecordsExpired, Polling, r
  <2>3. /\ x.leased = r.leased /\ x.cancelled = r.cancelled /\ x.killed = r.killed
        /\ x.pc = "open"
    BY <1>0, <2>1 DEF PollerState
  <2> HIDE DEF x
  <2>4. QED
    BY <1>b, <1>e, <1>h, <2>2, <2>3 DEF InBatch
<1>6. CASE DeliverRetry(p)
  <2>1. x = IF r.seq # 0 THEN [r EXCEPT !.pc = "ckpt", !.retry = TRUE]
                         ELSE [EndOfPass(r) EXCEPT !.pc = "open"]
    BY <1>6, <1>j DEF DeliverRetry, r
  <2>2. /\ r.pc = "deliver" /\ UNCHANGED <<lease, net, processed>>
        /\ NoneLeft(budget') /\ budget'.given = budget.given
    BY <1>6, <1>e, <1>f DEF DeliverRetry, r
  <2>3. CASE r.seq # 0
    <3>1. /\ x.leased = r.leased /\ x.cancelled = r.cancelled
          /\ x.killed = r.killed /\ x.pc = "ckpt" /\ x.iter = r.iter
          /\ x.seq = r.seq
      BY <1>0, <2>1, <2>3 DEF PollerState
    <3> HIDE DEF x
    <3>2. QED
      BY <1>b, <1>e, <1>h, <2>2, <3>1 DEF InBatch
  <2>4. CASE r.seq = 0
    <3>1. /\ x.leased = r.leased /\ x.cancelled = r.cancelled
          /\ x.killed = r.killed /\ x.pc = "open"
      BY <1>0, <2>1, <2>4 DEF PollerState, EndOfPass
    <3> HIDE DEF x
    <3>2. QED
      BY <1>b, <1>e, <1>h, <2>2, <2>4, <3>1 DEF InBatch
  <2>5. QED
    BY <2>3, <2>4
<1>7. CASE Drain(p)
  <2>1. x = [r EXCEPT !.drain = TRUE]
    BY <1>7, <1>j DEF Drain, r
  <2>2. /\ UNCHANGED <<lease, net, processed>>
        /\ NoneLeft(budget') /\ budget'.given = budget.given
    BY <1>7, <1>f DEF Drain
  <2>3. /\ x.leased = r.leased /\ x.cancelled = r.cancelled /\ x.killed = r.killed
        /\ x.pc = r.pc /\ x.iter = r.iter /\ x.seq = r.seq
    BY <1>0, <2>1 DEF PollerState
  <2> HIDE DEF x
  <2>4. QED
    BY <1>b, <1>e, <1>h, <2>2, <2>3 DEF InBatch
<1>8. CASE Deliver(p)
  <2> DEFINE k == Cursor(r)
  <2>1. /\ r.pc = "deliver" /\ UNCHANGED <<lease, net, budget>>
        /\ processed' \in {processed, [processed EXCEPT ![s] = @ \cup {k}]}
        /\ x = [r EXCEPT !.seq = k, !.pc = IF k = r.last THEN "ckpt" ELSE @]
    <3>1. /\ r.pc = "deliver" /\ UNCHANGED <<lease, net, budget>>
          /\ SetPoller(p, [r EXCEPT !.seq = k,
                                    !.pc = IF k = r.last THEN "ckpt" ELSE @])
      BY <1>8 DEF Deliver, r
    <3>2. PICK h : processed' = [processed EXCEPT
                                   ![s] = IF h.disposed THEN @ \cup {k} ELSE @]
      BY <1>8 DEF Deliver, r, s
    <3>3. processed' \in {processed, [processed EXCEPT ![s] = @ \cup {k}]}
      BY <1>g, <3>2
    <3>4. QED
      BY <1>j, <3>1, <3>3
  <2>2. /\ x.leased = r.leased /\ x.cancelled = r.cancelled /\ x.killed = r.killed
        /\ x.pc \in {"deliver", "ckpt"} /\ x.iter = r.iter /\ x.seq = k
    BY <1>0, <2>1 DEF PollerState
  <2>3. /\ r.iter = r.leased.checkpoint /\ k \in Nat /\ k # 0
        /\ r.iter < k /\ r.seq < k /\ r.seq \in Nat /\ r.iter \in Nat
    <3>1. r.iter < r.last /\ r.last \in 0..MaxSeq /\ r.iter \in 0..NilIter
          /\ r.seq \in 0..MaxSeq /\ (r.seq # 0 => r.iter < r.seq)
      BY <1>0, <1>c, <2>1 DEF Position, InBatch, PollerState
    <3>2. r.iter # NilIter
      BY <3>1, MaxSeqAssumption DEF NilIter, CheckpointShardEnd
    <3>3. r.iter = r.leased.checkpoint
      BY <1>b, <2>1, <3>2
    <3>4. QED
      BY <3>1, <3>3, MaxSeqAssumption DEF Cursor, NilIter, CheckpointShardEnd
  <2> HIDE DEF x, k
  <2>4. Undisturbed(p)'
    BY <1>b, <2>1, <2>2, <2>3 DEF Undisturbed, s, x
  <2>5. \A j \in processed'[s] : Behind(p, j)'
    <3>1. \A j \in processed'[s] : j = k \/ j \in processed[s]
      BY <1>0, <1>g, <2>1
    <3>2. \A j \in processed[s] : j <= r.iter \/ j <= r.seq
      BY <1>b, <1>g, <2>3 DEF Behind, r
    <3>3. \A j \in processed[s] : j \in Nat
      BY <1>g, MaxSeqAssumption DEF Seqs
    <3>4. \A j \in processed'[s] : j <= k
      BY <2>3, <3>1, <3>2, <3>3
    <3>5. QED
      BY <2>2, <2>3, <3>4 DEF Behind, InBatch, x
  <2>6. \A t \in Shards \ {s} : lease'[t] = lease[t] /\ processed'[t] = processed[t]
    BY <1>g, <2>1
  <2>7. Calm'
    BY <1>d, <1>e, <1>j, <2>1, <2>4, <2>5, <2>6, CalmFrame DEF s
  <2>8. QED
    BY <2>1, <2>7
<1>9. CASE Checkpoint(p)
  <2> DEFINE req == CheckpointRequest(p)
             done == [EndOfPass(r) EXCEPT !.leased = lease'[s]]
  <2>1. /\ r.pc = "ckpt" /\ CallOK(s, req) /\ processed' = processed
        /\ x = IF r.retry THEN [done EXCEPT !.pc = "open"]
                          ELSE [done EXCEPT !.pc = "loop", !.iter = r.next]
    BY <1>9, <1>j DEF Checkpoint, r, s
  <2>2. /\ req.op = "checkpoint" /\ req.checkpoint = r.seq
        /\ lease' = [lease EXCEPT ![s] = Apply(@, req)]
        /\ net' = net /\ budget' = budget
    BY <2>1 DEF CheckpointRequest, Request, CallOK, r
  <2>3. lease'[s].checkpoint = r.seq
    BY <1>0, <1>g, <2>2 DEF Apply
  <2>4. /\ x.leased = lease'[s] /\ x.cancelled = r.cancelled
        /\ x.killed = r.killed
        /\ x.pc \in {"open", "loop"} /\ (x.pc = "loop" => ~r.retry /\ x.iter = r.next)
    <3>1. CASE r.retry
      BY <1>0, <2>1, <3>1 DEF PollerState, EndOfPass
    <3>2. CASE ~r.retry
      BY <1>0, <2>1, <3>2 DEF PollerState, EndOfPass
    <3>3. QED
      BY <3>1, <3>2
  <2>5. ~r.retry => r.next \in {r.seq, NilIter}
    BY <1>c, <2>1 DEF Position, InBatch
  <2>6. \A k \in processed[s] : k <= r.seq
    <3>1. r.iter < r.last /\ r.last \in 0..MaxSeq /\ r.iter \in 0..NilIter
          /\ r.seq \in 0..MaxSeq /\ r.iter < r.seq
      BY <1>0, <1>c, <2>1 DEF Position, InBatch, PollerState
    <3>2. r.iter # NilIter
      BY <3>1, MaxSeqAssumption DEF NilIter, CheckpointShardEnd
    <3>3. r.iter = lease[s].checkpoint
      BY <1>b, <2>1, <3>2
    <3>4. \A j \in processed[s] : j <= r.iter \/ j <= r.seq
      BY <1>g, <3>3 DEF Behind, r
    <3>5. \A j \in processed[s] : j \in Nat
      BY <1>g, MaxSeqAssumption DEF Seqs
    <3>6. r.iter \in Nat /\ r.seq \in Nat
      BY <3>1, MaxSeqAssumption DEF NilIter, CheckpointShardEnd
    <3>7. QED
      BY <3>1, <3>4, <3>5, <3>6
  <2> HIDE DEF x, req, done
  <2>7. req \in Requests
    BY <1>0 DEF req
  <2>8. QED
    BY <1>b, <1>e, <1>i, <2>1, <2>2, <2>3, <2>4, <2>5, <2>6, <2>7
<1>10. CASE CheckpointGivesUp(p) \/ CheckpointFails(p)
  <2>1. r.pc = "ckpt"
    BY <1>10 DEF CheckpointGivesUp, CheckpointFails, r
  <2>2. /\ ~CallRefused(s, CheckpointRequest(p))
        /\ ~CallLost(s, CheckpointRequest(p))
        /\ ~CallAborted(r.cancelled)
    BY <1>a, <1>b, <1>f, <2>1, Accepted DEF CallRefused, CallLost, CallAborted, s
  <2>3. QED
    BY <1>10, <2>2 DEF CheckpointGivesUp, CheckpointFails, r, s
<1>11. CASE WriteShardEnd(p)
  <2> DEFINE req == ShardEndRequest(p)
             exit == [r EXCEPT !.pc = "exit", !.attempt = 0]
  <2>0. r.pc = "end" /\ processed' = processed
    BY <1>11 DEF WriteShardEnd, r
  <2>1. /\ ~CallRefused(s, req) /\ ~CallLost(s, req)
        /\ ~CallAborted(IF r.attempt = 0 THEN r.cancelled ELSE r.killed)
    BY <1>a, <1>b, <1>f, <2>0, Accepted DEF CallRefused, CallLost, CallAborted, s
  <2>2. CallOK(s, req) /\ SetPoller(p, [exit EXCEPT !.leased = lease'[s]])
    BY <1>11, <2>1 DEF WriteShardEnd, r, s
  <2>3. /\ req.op = "checkpoint" /\ req.checkpoint = CheckpointShardEnd
        /\ lease' = [lease EXCEPT ![s] = Apply(@, req)]
        /\ net' = net /\ budget' = budget
    BY <2>2 DEF ShardEndRequest, Request, CallOK
  <2>4. lease'[s].checkpoint = CheckpointShardEnd
    BY <1>0, <1>g, <2>3 DEF Apply
  <2>5. x = [exit EXCEPT !.leased = lease'[s]]
    BY <1>j, <2>2
  <2>6. x.leased = lease'[s] /\ x.killed = r.killed /\ x.pc = "exit"
    BY <1>0, <2>5 DEF PollerState
  <2>7. \A k \in processed[s] : k <= CheckpointShardEnd
    BY <1>g, MaxSeqAssumption DEF Seqs, CheckpointShardEnd
  <2> HIDE DEF x, req, exit
  <2>8. req \in Requests
    BY <1>0 DEF req
  <2>9. QED
    BY <1>b, <1>e, <1>i, <2>0, <2>2, <2>3, <2>4, <2>6, <2>7, <2>8
<1>12. CASE Release(p)
  <2> DEFINE req == Request("release", r.leased, CheckpointTrimHorizon)
  <2>0. r.pc = "exit" /\ processed' = processed /\ x = NoPoller
    BY <1>12, <1>j DEF Release, r
  <2>1. ~CallRefused(s, req) /\ ~CallLost(s, req) /\ ~CallAborted(r.killed)
    BY <1>a, <1>b, <1>f, Accepted DEF CallRefused, CallLost, CallAborted, s, r
  <2>2. CallOK(s, req)
    BY <1>12, <2>1 DEF Release, r, s
  <2>3. /\ req.op = "release"
        /\ lease' = [lease EXCEPT ![s] = Apply(@, req)]
        /\ net' = net /\ budget' = budget
    BY <2>2 DEF Request, CallOK
  <2>4. lease'[s].checkpoint = lease[s].checkpoint
    BY <1>0, <1>g, <2>3 DEF Apply
  <2>5. x.pc = "idle"
    BY <2>0 DEF NoPoller, NewPoller
  <2>6. \A k \in processed[s] : k <= lease[s].checkpoint
    BY <1>g, <2>0 DEF Behind, InBatch, r
  <2> HIDE DEF x, req
  <2>7. req \in Requests
    BY <1>0 DEF req
  <2>8. QED
    BY <1>b, <1>e, <1>i, <2>0, <2>2, <2>3, <2>4, <2>5, <2>6, <2>7
<1>13. CASE Heartbeat(p)
  <2> DEFINE req == Request("heartbeat", r.leased, CheckpointTrimHorizon)
  <2>1. ~CallRefused(s, req) /\ ~CallLost(s, req)
    BY <1>a, <1>f, Accepted DEF CallRefused, CallLost, s, r
  <2>2. /\ lease' = [lease EXCEPT ![s] = Apply(@, req)]
        /\ Spend("beats") /\ SetPoller(p, [r EXCEPT !.leased = lease'[s]])
        /\ net' = net /\ processed' = processed
    BY <1>13, <2>1 DEF Heartbeat, r, s
  <2>3. req.op = "heartbeat"
    BY DEF Request
  <2>4. lease'[s].checkpoint = lease[s].checkpoint
    BY <1>0, <1>g, <2>2, <2>3 DEF Apply
  <2>5. x = [r EXCEPT !.leased = lease'[s]]
    BY <1>j, <2>2
  <2>6. /\ x.leased = lease'[s] /\ x.cancelled = r.cancelled
        /\ x.killed = r.killed /\ x.pc = r.pc /\ x.iter = r.iter /\ x.seq = r.seq
    BY <1>0, <2>5 DEF PollerState
  <2>7. \A k \in processed[s] :
          \/ k <= lease'[s].checkpoint
          \/ r.pc \in {"deliver", "ckpt"} /\ r.seq # 0 /\ k <= r.seq
    BY <1>g, <2>4 DEF Behind, InBatch, r
  <2>8. NoneLeft(budget') /\ budget'.given = budget.given
    BY <1>f, <2>2
  <2> HIDE DEF x, req
  <2>9. req \in Requests
    BY <1>0 DEF req
  <2>10. QED
    BY <1>b, <1>i, <2>2, <2>3, <2>4, <2>6, <2>7, <2>8, <2>9
<1>14. QED
  BY <1>1, <1>2, <1>3, <1>4, <1>5, <1>6, <1>7, <1>8, <1>9, <1>10, <1>11, <1>12,
     <1>13 DEF PollerStep

\* A poller starts where the last one has left the row.
LEMMA CalmAcquire ==
  ASSUME IInv, Calm, NEW w \in Workers, NEW s \in Shards, TryAcquire(w, s)
  PROVE  Calm' /\ budget' = budget
<1> DEFINE p == <<w, s>>
           req == AcquireRequest(w, s)
<1>1. p \in Pollers /\ p[1] = w /\ p[2] = s
  BY DEF Pollers
<1>2. /\ lease' = [lease EXCEPT ![s] = Apply(@, req)]
      /\ UNCHANGED <<net, budget, processed>>
      /\ poller' = [poller EXCEPT ![p] = NewPoller("open", lease'[s])]
      /\ ~Running(p) /\ Claimable(w, s)
  BY DEF TryAcquire, CallOK, SetPoller, CanTake
<1>3. /\ poller \in [Pollers -> PollerState] /\ lease \in [Shards -> Row]
      /\ processed \in [Shards -> SUBSET Seqs]
  BY DEF IInv, TypeOK
<1>4. \A q \in Pollers : q[2] = s => ~Running(q)
  <2>1. ASSUME NEW q \in Pollers, q[2] = s, Running(q)
        PROVE  FALSE
    <3>1. lease[s].owner = q[1] /\ q[1] \in Workers /\ q = <<q[1], s>>
      BY <2>1, Alone DEF Pollers
    <3>2. q[1] = w
      BY <1>2, <2>1, <3>1 DEF Claimable
    <3>3. QED
      BY <1>2, <2>1, <3>1, <3>2
  <2>2. QED
    BY <2>1
<1>5. /\ poller'[p] = NewPoller("open", lease'[s])
      /\ \A q \in Pollers \ {p} : poller'[q] = poller[q]
      /\ \A t \in Shards \ {s} : lease'[t] = lease[t]
      /\ lease'[s].checkpoint = lease[s].checkpoint
  BY <1>1, <1>2, <1>3 DEF Apply, AcquireRequest
<1>6. \A k \in processed[s] : k <= lease[s].checkpoint
  <2>1. \A v \in Workers, k \in processed[s] : ~Behind(<<v, s>>, k)
    <3>1. \A v \in Workers : ~Running(<<v, s>>)
      BY <1>4 DEF Pollers
    <3>2. QED
      BY <3>1 DEF Behind, InBatch, Running
  <2>2. QED
    BY <2>1 DEF Calm, Handed
<1>7. NoneLeft(budget) /\ net = {}
  BY DEF Calm
<1> HIDE DEF p, req
<1>8. Undisturbed(p)'
  BY <1>1, <1>5 DEF Undisturbed, NewPoller
<1>9. QED
  BY <1>1, <1>2, <1>4, <1>5, <1>6, <1>7, <1>8, CalmFrame

LEMMA HandoverStep ==
  ASSUME IInv, Handover, [Next]_vars
  PROVE  Handover'
<1> USE DEF IInv
<1>0. TypeOK
  OBVIOUS
<1>a. Handover = (Graceful => Calm) /\ Handover' = (Graceful' => Calm')
  BY DEF Handover, Calm
<1>b. budget'.given = budget.given
  <2>1. \A kind \in Disturbances : Spend(kind) => budget'.given = budget.given
    BY <1>0, SpendKeeps
  <2>2. \A s \in Shards : \A req :
          CallOK(s, req) \/ CallRefused(s, req) \/ CallLost(s, req)
            => budget'.given = budget.given
    BY <2>1 DEF CallOK, CallRefused, CallLost, Disturbances
  <2>3. ASSUME NEW p \in Pollers, PollerStep(p) \/ Heartbeat(p) \/ Drain(p)
        PROVE  budget'.given = budget.given
    <3>0. p[2] \in Shards
      BY DEF Pollers
    <3>1. CASE \/ OpenIterator(p) \/ OpenIteratorFails(p) \/ PollStops(p)
               \/ PollReachesEnd(p) \/ GetRecords(p) \/ GetRecordsExpired(p)
               \/ Deliver(p) \/ DeliverRetry(p) \/ Drain(p)
      BY <2>1, <3>1 DEF OpenIterator, OpenIteratorFails, PollStops, PollReachesEnd,
         GetRecords, GetRecordsExpired, Deliver, DeliverRetry, Drain, Disturbances
    <3>2. CASE Checkpoint(p) \/ CheckpointGivesUp(p) \/ CheckpointFails(p)
      BY <2>2, <3>0, <3>2
      DEF Checkpoint, CheckpointGivesUp, CheckpointFails, CallAborted
    <3>3. CASE WriteShardEnd(p) \/ Release(p)
      BY <2>2, <3>0, <3>3 DEF WriteShardEnd, Release, CallAborted
    <3>4. CASE Heartbeat(p)
      BY <2>1, <2>2, <3>0, <3>4 DEF Heartbeat, Disturbances
    <3>5. QED
      BY <2>3, <3>1, <3>2, <3>3, <3>4 DEF PollerStep
  <2>4. ASSUME NEW w \in Workers, NEW s \in Shards, CoordinatorStep(w, s)
        PROVE  budget'.given = budget.given
    BY <2>1, <2>2, <2>4
    DEF CoordinatorStep, TryAcquire, Steal, AcquireLost, Disturbances
  <2>5. ASSUME NEW w \in Workers, Kill(w) \/ Crash(w)
        PROVE  budget'.given = budget.given
    BY <2>1, <2>5 DEF Kill, Crash, Disturbances
  <2>6. QED
    BY <2>3, <2>4, <2>5
    DEF Next, PutRecord, CloseShard, EnsureLease, LateWrite, NothingLeft, vars
<1>c. Graceful' = Graceful
  BY <1>b DEF Graceful
<1>d. SUFFICES ASSUME Calm PROVE Calm'
  BY <1>a, <1>c
<1>e. ~Spend("lost") /\ ~Spend("steals") /\ ~Spend("stops")
  BY <1>0, <1>d, Gentle DEF Calm
<1>1. ASSUME NEW p \in Pollers, PollerStep(p) \/ Heartbeat(p) \/ Drain(p)
      PROVE  Calm'
  BY <1>1, <1>d, CalmPollerStep
<1>2. ASSUME NEW w \in Workers, NEW s \in Shards, CoordinatorStep(w, s)
      PROVE  Calm'
  <2>1. TryAcquire(w, s)
    BY <1>2, <1>e DEF CoordinatorStep, Steal, AcquireLost, CallLost
  <2>2. QED
    BY <1>d, <2>1, CalmAcquire
<1>3. ASSUME NEW w \in Workers, Kill(w) \/ Crash(w)
      PROVE  FALSE
  BY <1>3, <1>e DEF Kill, Crash
<1>4. CASE UNCHANGED <<lease, processed, poller, net, budget>>
  BY <1>4, <1>d DEF Calm, Running, Undisturbed, Handed, Behind
<1>5. ASSUME NEW s \in Shards, EnsureLease(s)
      PROVE  Calm'
  <2>1. /\ ~Exists(lease[s]) /\ lease' = [lease EXCEPT ![s] = Ensure(@)]
        /\ UNCHANGED <<processed, poller, net, budget>>
    BY <1>5 DEF EnsureLease
  <2>2. /\ lease[s] = NoRow /\ lease \in [Shards -> Row]
    BY <2>1 DEF AbsentRows, TypeOK
  <2>3. /\ \A t \in Shards : lease'[t].checkpoint = lease[t].checkpoint
        /\ \A t \in Shards \ {s} : lease'[t] = lease[t]
    BY <2>1, <2>2 DEF Ensure, NoRow, Exists
  <2>4. \A t \in Shards : Handed(t)'
    BY <1>d, <2>1, <2>3 DEF Calm, Handed, Behind
  <2>5. ASSUME NEW p \in Pollers, Running(p)'
        PROVE  Undisturbed(p)'
    <3>1. Running(p) /\ Undisturbed(p) /\ p[2] \in Shards
      BY <1>d, <2>1, <2>5 DEF Running, Calm, Pollers
    <3>2. p[2] # s
      <4>1. poller[p].leased \in Leased /\ poller[p].leased = lease[p[2]]
        BY <3>1, PollerRequests DEF Undisturbed
      <4>2. QED
        BY <2>1, <4>1 DEF Leased, Exists
    <3>3. lease'[p[2]] = lease[p[2]]
      BY <2>3, <3>1, <3>2
    <3>4. QED
      BY <2>1, <3>1, <3>3 DEF Undisturbed
  <2>6. QED
    BY <1>d, <2>1, <2>4, <2>5 DEF Calm
<1>6. ASSUME LateWrite
      PROVE  FALSE
  BY <1>6, <1>d DEF LateWrite, Calm
<1>7. QED
  BY <1>1, <1>2, <1>3, <1>4, <1>5, <1>6
  DEF Next, PutRecord, CloseShard, NothingLeft, vars

LEMMA HandoverInit == Init => Handover
<1> SUFFICES ASSUME Init, Graceful PROVE Calm
  BY DEF Handover, Calm
<1>1. PICK a \in Allotments : budget = [given |-> a, left |-> a]
  BY DEF Init
<1>2. NoneLeft(budget)
  BY <1>1 DEF NoneLeft, Graceful
<1>3. \A p \in Pollers : ~Running(p)
  BY DEF Init, Running, NoPoller, NewPoller
<1>4. \A s \in Shards : Handed(s)
  BY DEF Init, Handed
<1>5. QED
  BY <1>2, <1>3, <1>4 DEF Init, Calm

\* While nothing worse happens than drains, rejections and Kinesis errors, a
\* record that has been disposed of is not handed down again, by whichever
\* poller takes the shard next: the handover of a drained shard is exactly once
\* (NoRedelivery).
THEOREM HandsOverOnce == Spec => []NoRedelivery
<1>1. Init => IInv /\ Handover
  BY HandoverInit, InvariantInit
<1>2. IInv /\ Handover /\ [Next]_vars => (IInv /\ Handover)'
  BY HandoverStep, InvariantStep
<1>3. IInv /\ Handover => NoRedelivery
  <2>1. SUFFICES ASSUME IInv, Handover, Graceful, NEW p \in Pollers,
                        poller[p].pc = "deliver",
                        Cursor(poller[p]) \in processed[p[2]]
                 PROVE  FALSE
    BY DEF NoRedelivery
  <2> DEFINE r == poller[p]
             k == Cursor(r)
  <2>2. Calm /\ Running(p) /\ TypeOK
    BY <2>1 DEF Handover, Calm, Running, IInv
  <2>3. /\ r.leased = lease[p[2]] /\ r.iter \in {r.leased.checkpoint, NilIter}
        /\ Position(p[2], r) /\ r \in PollerState /\ p[2] \in Shards
    BY <2>1, <2>2, PollerRequests
    DEF Calm, Undisturbed, IInv, PollerPositions, PollerPosition
  <2>4. /\ r.iter < r.last /\ r.last \in 0..MaxSeq /\ r.iter \in 0..NilIter
        /\ r.seq \in 0..MaxSeq /\ (r.seq # 0 => r.iter < r.seq)
    BY <2>1, <2>3 DEF Position, InBatch, PollerState
  <2>5. r.iter \in Nat /\ r.seq \in Nat /\ r.iter = lease[p[2]].checkpoint
    BY <2>3, <2>4, MaxSeqAssumption DEF NilIter, CheckpointShardEnd
  <2>6. k \in Nat /\ r.iter < k /\ r.seq < k
    BY <2>4, <2>5 DEF Cursor
  <2>7. k <= lease[p[2]].checkpoint \/ \E w \in Workers : Behind(<<w, p[2]>>, k)
    BY <2>1, <2>2, <2>3 DEF Calm, Handed
  <2>8. ASSUME NEW w \in Workers, Behind(<<w, p[2]>>, k)
        PROVE  FALSE
    <3>1. <<w, p[2]>> \in Pollers /\ <<w, p[2]>>[2] = p[2]
      BY <2>3 DEF Pollers
    <3>2. Running(<<w, p[2]>>)
      BY <2>8 DEF Behind, InBatch, Running
    <3>3. <<w, p[2]>> = p
      BY <2>1, <2>2, <3>1, <3>2, Alone
    <3>4. k <= r.seq
      BY <2>8, <3>3 DEF Behind
    <3>5. QED
      BY <2>5, <2>6, <3>4
  <2> HIDE DEF k, r
  <2>9. ~(k <= lease[p[2]].checkpoint)
    BY <2>5, <2>6
  <2>10. QED
    BY <2>7, <2>8, <2>9
<1>4. QED
  BY <1>1, <1>2, <1>3, PTL DEF Spec
=============================================================================
