--------------------------- MODULE ShardConsumer ---------------------------
(***************************************************************************)
(* Replicas of the Kinesis receiver consuming a stream: for every worker   *)
(* and shard one possible shardPoller (poller.go, poller_lease.go,         *)
(* poller_records.go), the lease rows they contend for, and the stream     *)
(* they read.                                                              *)
(*                                                                         *)
(* The coordinator appears through what it does to pollers: it ensures     *)
(* rows, acquires a lease and starts a poller, asks pollers to drain, and  *)
(* cancels them.  Which lease it goes for is left open here: any lease     *)
(* that reconcile could ever pick.  A store call either takes effect,      *)
(* or is refused, or fails in the network; a request that failed may still *)
(* reach the store at any later time, also after its worker crashed, and   *)
(* more than once.                                                         *)
(***************************************************************************)
EXTENDS Lease

CONSTANTS Shards,
          Parents,              \* Parents[s]: the shards s was split or merged from
          Undecodable,          \* Undecodable[s]: records that fail to decompress or decode
          DeadLetterEnabled,    \* cfg.DeadLetter.Enabled
          Backlog,              \* Backlog[s]: records in s before any replica starts
          MaxRecords,           \* cfg.MaxRecords, the GetRecords limit
          CheckpointAttempts,   \* checkpointAttempts, 3 in the code
          Allotments            \* bound: how often each disturbance may happen, by scenario

Disturbances == {"lost",    \* store calls that fail in the network
                 "errs",    \* Kinesis errors and downstream rejections
                 "steals",  \* takeovers of a lease whose poller is alive
                 "drains",  \* graceful stops of a poller
                 "stops",   \* hard cancels and crashes
                 "beats"}   \* heartbeats (not a fault, but unbounded in the code)

ASSUME ShardsAssumption == Parents \in [Shards -> SUBSET Shards]
ASSUME UndecodableAssumption == Undecodable \in [Shards -> SUBSET Seqs]
ASSUME BacklogAssumption == Backlog \in [Shards -> 0..MaxSeq]
ASSUME DeadLetterAssumption == DeadLetterEnabled \in BOOLEAN
ASSUME MaxRecordsAssumption == MaxRecords \in Nat \ {0}
ASSUME CheckpointAttemptsAssumption == CheckpointAttempts \in Nat \ {0}
ASSUME AllotmentsAssumption == Allotments \subseteq [Disturbances -> Nat]

VARIABLES lease,        \* the lease table: a row, or NoRow, for every shard
          tail,         \* number of records put into each shard
          closed,       \* shards that resharding has closed
          processed,    \* ghost: records disposed of downstream at least once
          poller,       \* the poller of every (worker, shard)
          net,          \* requests that failed but may still reach the store
          budget        \* disturbances allotted to the behaviour, and left

vars == <<lease, tail, closed, processed, poller, net, budget>>

Pollers == Workers \X Shards

\* NextShardIterator = nil: a closed shard has been read to its end.
NilIter == CheckpointShardEnd

\* "open": at openIterator, "loop": top of the poll loop, "deliver": handing
\* out.Records down, "ckpt": in checkpointWithRetry, "end": in writeShardEnd,
\* "exit": runPoll has returned, release still to do; "idle": no poller.
PCs == {"idle", "open", "loop", "deliver", "ckpt", "end", "exit"}

PollerState ==
  [pc : PCs,
   leased : [owner : Workers \cup {NoOwner}, counter : Nat,
             checkpoint : Checkpoints],
   iter : 0..NilIter,       \* position the iterator reads after
   last : 0..MaxSeq,        \* last record of the batch in hand
   next : 0..NilIter,       \* NextShardIterator of the batch in hand
   seq : 0..MaxSeq,         \* advanceSeq, 0 for ""
   retry : BOOLEAN,
   attempt : 0..CheckpointAttempts,
   cancelled : BOOLEAN,     \* pollCtx is done
   killed : BOOLEAN,        \* killCtx is done
   drain : BOOLEAN]         \* drainCh is closed

BudgetState == [given : [Disturbances -> Nat], left : [Disturbances -> Nat]]

\* startPoller: a poller for the lease l just acquired.
NewPoller(pc, l) ==
  [pc |-> pc, leased |-> l, iter |-> 0, last |-> 0, next |-> 0, seq |-> 0,
   retry |-> FALSE, attempt |-> 0, cancelled |-> FALSE, killed |-> FALSE,
   drain |-> FALSE]

NoPoller ==
  NewPoller("idle", [owner |-> NoOwner, counter |-> 0,
                     checkpoint |-> CheckpointTrimHorizon])

TypeOK ==
  /\ lease \in [Shards -> Row]
  /\ tail \in [Shards -> 0..MaxSeq]
  /\ closed \subseteq Shards
  /\ processed \in [Shards -> SUBSET Seqs]
  /\ poller \in [Pollers -> PollerState]
  /\ net \subseteq Shards \X Requests
  /\ budget \in BudgetState

Init ==
  /\ lease = [s \in Shards |-> NoRow]
  /\ tail = Backlog
  /\ closed = {}
  /\ processed = [s \in Shards |-> {}]
  /\ poller = [p \in Pollers |-> NoPoller]
  /\ net = {}
  /\ \E a \in Allotments : budget = [given |-> a, left |-> a]

Spend(kind) ==
  /\ budget.left[kind] > 0
  /\ budget' = [budget EXCEPT !.left[kind] = @ - 1]

SetPoller(p, r) == poller' = [poller EXCEPT ![p] = r]

Running(p) == poller[p].pc # "idle"

-----------------------------------------------------------------------------
(***************************************************************************)
(* The stream.  A child shard appears when its parents are closed.         *)
(***************************************************************************)
Listed(s) == Parents[s] \subseteq closed

PutRecord(s) ==
  /\ Listed(s) /\ s \notin closed
  /\ tail[s] < MaxSeq
  /\ tail' = [tail EXCEPT ![s] = @ + 1]
  /\ UNCHANGED <<lease, closed, processed, poller, net, budget>>

CloseShard(s) ==
  /\ Listed(s) /\ s \notin closed
  /\ closed' = closed \cup {s}
  /\ UNCHANGED <<lease, tail, processed, poller, net, budget>>

-----------------------------------------------------------------------------
(***************************************************************************)
(* Store calls on shard s and what the caller learns of them.              *)
(***************************************************************************)
CallOK(s, req) ==
  /\ Allowed(lease[s], req)
  /\ lease' = [lease EXCEPT ![s] = Apply(@, req)]
  /\ UNCHANGED <<net, budget>>

CallRefused(s, req) ==
  /\ ~Allowed(lease[s], req)
  /\ UNCHANGED <<lease, net, budget>>

CallLost(s, req) ==
  /\ Spend("lost")
  /\ net' = net \cup {<<s, req>>}
  /\ UNCHANGED lease

\* The call is not even sent: its context is already done.
CallAborted(done) ==
  /\ done
  /\ UNCHANGED <<lease, net, budget>>

\* A request whose caller saw an error takes effect after all.
LateWrite ==
  /\ \E m \in net :
       /\ Allowed(lease[m[1]], m[2])
       /\ lease' = [lease EXCEPT ![m[1]] = Apply(@, m[2])]
  /\ UNCHANGED <<tail, closed, processed, poller, net, budget>>

-----------------------------------------------------------------------------
(***************************************************************************)
(* The coordinator, as seen by leases and pollers.                         *)
(***************************************************************************)
\* discoverShards: parents are listed, and so ensured, before their children.
EnsureLease(s) ==
  /\ Listed(s) /\ ~Exists(lease[s])
  /\ \A q \in Parents[s] : Exists(lease[q])
  /\ lease' = [lease EXCEPT ![s] = Ensure(@)]
  /\ UNCHANGED <<tail, closed, processed, poller, net, budget>>

\* Mutant: a parent that nobody owns counts as drained.
ParentsUnowned(s) ==
  \A q \in Parents[s] : Exists(lease[q]) => lease[q].owner = NoOwner

\* parentsDrained; a parent without a row counts as drained.
ParentsDrained(s) ==
  \A q \in Parents[s] :
    Exists(lease[q]) => lease[q].checkpoint = CheckpointShardEnd

\* A lease that no live poller works on: free, our own from before, or one
\* whose owner is gone and which goes stale.
Claimable(w, s) ==
  \A v \in Workers \ {w} : lease[s].owner = v => ~Running(<<v, s>>)

\* What reconcile can hand to tryAcquire: an unfinished lease with drained
\* parents that this worker is not polling.  The counter makes the successful
\* Acquire atomic with the List it is based on.
CanTake(w, s) ==
  /\ Exists(lease[s])
  /\ lease[s].checkpoint # CheckpointShardEnd
  /\ ParentsDrained(s)
  /\ ~Running(<<w, s>>)
  /\ \A t \in Shards : ~poller[<<w, t>>].killed

AcquireRequest(w, s) ==
  [op |-> "acquire", owner |-> w, counter |-> lease[s].counter,
   checkpoint |-> CheckpointTrimHorizon]

\* tryAcquire and startPoller.
TryAcquire(w, s) ==
  /\ CanTake(w, s) /\ Claimable(w, s)
  /\ CallOK(s, AcquireRequest(w, s))
  /\ SetPoller(<<w, s>>, NewPoller("open", lease'[s]))
  /\ UNCHANGED <<tail, closed, processed>>

\* The same against a live owner: a rebalancing steal, or an owner that could
\* not heartbeat for lease_duration.
Steal(w, s) ==
  /\ CanTake(w, s) /\ ~Claimable(w, s)
  /\ Spend("steals")
  /\ Allowed(lease[s], AcquireRequest(w, s))
  /\ lease' = [lease EXCEPT ![s] = Apply(@, AcquireRequest(w, s))]
  /\ SetPoller(<<w, s>>, NewPoller("open", lease'[s]))
  /\ UNCHANGED <<tail, closed, processed, net>>

\* Acquire fails in the network: no poller is started, whether or not the
\* write takes effect.
AcquireLost(w, s) ==
  /\ CanTake(w, s) /\ Claimable(w, s)
  /\ CallLost(s, AcquireRequest(w, s))
  /\ UNCHANGED <<tail, closed, processed, poller>>

\* Mutant: draining cancels the poll context.
DrainCancels(p) ==
  /\ Running(p) /\ ~poller[p].drain
  /\ Spend("drains")
  /\ SetPoller(p, [poller[p] EXCEPT !.drain = TRUE, !.cancelled = TRUE])
  /\ UNCHANGED <<lease, tail, closed, processed, net>>

\* releasePoller, or drainAndStop for one of its pollers.
Drain(p) ==
  /\ Running(p) /\ ~poller[p].drain
  /\ Spend("drains")
  /\ SetPoller(p, [poller[p] EXCEPT !.drain = TRUE])
  /\ UNCHANGED <<lease, tail, closed, processed, net>>

\* Shutdown hits its deadline: every poller of w has been asked to drain and is
\* now cancelled, its exit-path writes too.
Kill(w) ==
  /\ \E s \in Shards : Running(<<w, s>>) /\ ~poller[<<w, s>>].killed
  /\ Spend("stops")
  /\ poller' = [p \in Pollers |->
                  IF p[1] = w /\ Running(p)
                    THEN [poller[p] EXCEPT !.drain = TRUE, !.cancelled = TRUE,
                                           !.killed = TRUE]
                    ELSE poller[p]]
  /\ UNCHANGED <<lease, tail, closed, processed, net>>

\* The process of w dies; nothing of it survives but what it sent.
Crash(w) ==
  /\ \E s \in Shards : Running(<<w, s>>)
  /\ Spend("stops")
  /\ poller' = [p \in Pollers |-> IF p[1] = w THEN NoPoller ELSE poller[p]]
  /\ UNCHANGED <<lease, tail, closed, processed, net>>

-----------------------------------------------------------------------------
(***************************************************************************)
(* The poller: runPoll and what it calls.  p is <<worker, shard>>.         *)
(***************************************************************************)
\* stop(); return.
Stopped(r) == [r EXCEPT !.pc = "exit", !.cancelled = TRUE]

\* The batch variables are local to one pass of the loop.
EndOfPass(r) ==
  [r EXCEPT !.last = 0, !.next = 0, !.seq = 0, !.retry = FALSE, !.attempt = 0]

\* Mutant: TRIM_HORIZON is opened as LATEST.
OpenIteratorLatest(p) ==
  LET r == poller[p]
  IN  /\ r.pc = "open"
      /\ r.leased.checkpoint # CheckpointShardEnd
      /\ SetPoller(p, [r EXCEPT !.pc = "loop",
                                !.iter = IF r.leased.checkpoint = 0
                                           THEN tail[p[2]]
                                           ELSE r.leased.checkpoint])
      /\ UNCHANGED <<lease, tail, closed, processed, net, budget>>

\* openIterator: resume just after the checkpoint of the lease in hand.
OpenIterator(p) ==
  LET r == poller[p]
  IN  /\ r.pc = "open"
      /\ r.leased.checkpoint # CheckpointShardEnd
      /\ SetPoller(p, [r EXCEPT !.pc = "loop", !.iter = r.leased.checkpoint])
      /\ UNCHANGED <<lease, tail, closed, processed, net, budget>>

\* GetShardIterator fails, or there is nothing left to read: the poller stops.
OpenIteratorFails(p) ==
  LET r == poller[p]
  IN  /\ r.pc = "open"
      /\ \/ /\ r.cancelled \/ r.leased.checkpoint = CheckpointShardEnd
            /\ UNCHANGED budget
         \/ Spend("errs")
      /\ SetPoller(p, Stopped(r))
      /\ UNCHANGED <<lease, tail, closed, processed, net>>

\* The top of the loop leaves it: cancelled, or drained with more to read.
PollStops(p) ==
  LET r == poller[p]
  IN  /\ r.pc = "loop"
      /\ r.cancelled \/ (r.drain /\ r.iter # NilIter)
      /\ SetPoller(p, [r EXCEPT !.pc = "exit"])
      /\ UNCHANGED <<lease, tail, closed, processed, net, budget>>

\* iter == nil: go and write SHARD_END, before a drain is honoured.
PollReachesEnd(p) ==
  LET r == poller[p]
  IN  /\ r.pc = "loop" /\ ~r.cancelled /\ r.iter = NilIter
      /\ SetPoller(p, [r EXCEPT !.pc = "end"])
      /\ UNCHANGED <<lease, tail, closed, processed, net, budget>>

Polling(r) == r.pc = "loop" /\ ~r.cancelled /\ ~r.drain /\ r.iter # NilIter

\* What Kinesis answers: up to MaxRecords records after the iterator, and the
\* next iterator, which is nil once a closed shard has been read to its end.
Responses(s, iter) ==
  {x \in [last : iter..tail[s], next : iter..NilIter] :
     /\ x.last <= iter + MaxRecords
     /\ \/ x.next = x.last
        \/ x.next = NilIter /\ s \in closed /\ x.last = tail[s]}

\* Mutant: an empty response does not take over the next iterator.
GetRecordsKeepsIterator(p) ==
  LET r == poller[p]
  IN  /\ Polling(r)
      /\ \E x \in Responses(p[2], r.iter) :
           IF x.last = r.iter
             THEN UNCHANGED poller
             ELSE SetPoller(p, [r EXCEPT !.pc = "deliver", !.last = x.last,
                                         !.next = x.next])
      /\ UNCHANGED <<lease, tail, closed, processed, net, budget>>

GetRecords(p) ==
  LET r == poller[p]
  IN  /\ Polling(r)
      /\ \E x \in Responses(p[2], r.iter) :
           IF x.last = r.iter
             THEN SetPoller(p, [r EXCEPT !.iter = x.next])
             ELSE SetPoller(p, [r EXCEPT !.pc = "deliver", !.last = x.last,
                                         !.next = x.next])
      /\ UNCHANGED <<lease, tail, closed, processed, net, budget>>

\* ExpiredIteratorException: re-open from the checkpoint.
GetRecordsExpired(p) ==
  LET r == poller[p]
  IN  /\ Polling(r)
      /\ Spend("errs")
      /\ SetPoller(p, [r EXCEPT !.pc = "open"])
      /\ UNCHANGED <<lease, tail, closed, processed, net>>

\* Mutant: a failed dead-letter emit still lets the checkpoint advance.
HandleRecordDropsFailedDeadLetter(decodable) ==
  IF decodable
    THEN {[result |-> "recordOK", disposed |-> TRUE],
          [result |-> "recordSkip", disposed |-> TRUE],
          [result |-> "recordRetry", disposed |-> FALSE]}
    ELSE {[result |-> "recordSkip", disposed |-> ~DeadLetterEnabled],
          [result |-> "recordSkip", disposed |-> TRUE]}

\* handleRecord and maybeDeadLetter: what the poll loop is told of a record,
\* and whether the record has been disposed of downstream.
HandleRecord(decodable) ==
  IF decodable
    THEN {[result |-> "recordOK", disposed |-> TRUE],
          [result |-> "recordSkip", disposed |-> TRUE],
          [result |-> "recordRetry", disposed |-> FALSE]}
    ELSE {[result |-> "recordSkip", disposed |-> TRUE]} \cup
         (IF DeadLetterEnabled
            THEN {[result |-> "recordRetry", disposed |-> FALSE]} ELSE {})

\* The record of the batch that is handled next.
Cursor(r) == (IF r.seq = 0 THEN r.iter ELSE r.seq) + 1

\* Mutant: the batch ends one record late.
DeliverPastBatch(p) ==
  LET r == poller[p]
      s == p[2]
      k == Cursor(r)
  IN  /\ r.pc = "deliver"
      /\ processed' = [processed EXCEPT ![s] = @ \cup {k}]
      /\ SetPoller(p, [r EXCEPT !.seq = k,
                                !.pc = IF k > r.last THEN "ckpt" ELSE @])
      /\ UNCHANGED <<lease, tail, closed, net, budget>>

\* One record goes down and the checkpoint may advance past it.
Deliver(p) ==
  LET r == poller[p]
      s == p[2]
      k == Cursor(r)
  IN  /\ r.pc = "deliver"
      /\ \E h \in HandleRecord(k \notin Undecodable[s]) :
           /\ h.result # "recordRetry"
           /\ processed' = [processed EXCEPT
                              ![s] = IF h.disposed THEN @ \cup {k} ELSE @]
      /\ SetPoller(p, [r EXCEPT !.seq = k,
                                !.pc = IF k = r.last THEN "ckpt" ELSE @])
      /\ UNCHANGED <<lease, tail, closed, net, budget>>

\* recordRetry: the batch stops here; checkpoint the good prefix if there is
\* one, then re-read.
DeliverRetry(p) ==
  LET r == poller[p]
      k == Cursor(r)
  IN  /\ r.pc = "deliver"
      /\ \E h \in HandleRecord(k \notin Undecodable[p[2]]) :
           h.result = "recordRetry"
      /\ \/ r.cancelled /\ UNCHANGED budget
         \/ Spend("errs")
      /\ SetPoller(p, IF r.seq # 0
                        THEN [r EXCEPT !.pc = "ckpt", !.retry = TRUE]
                        ELSE [EndOfPass(r) EXCEPT !.pc = "open"])
      /\ UNCHANGED <<lease, tail, closed, processed, net>>

CheckpointRequest(p) ==
  Request("checkpoint", poller[p].leased, poller[p].seq)

\* Mutant: a batch cut short by a retry goes on with the next iterator.
CheckpointIgnoresRetry(p) ==
  LET r == poller[p]
  IN  /\ r.pc = "ckpt"
      /\ CallOK(p[2], CheckpointRequest(p))
      /\ SetPoller(p, [EndOfPass(r) EXCEPT !.leased = lease'[p[2]],
                                           !.pc = "loop", !.iter = r.next])
      /\ UNCHANGED <<tail, closed, processed>>

\* checkpointWithRetry succeeds: on with the next iterator, or re-open.
Checkpoint(p) ==
  LET r == poller[p]
      done == [EndOfPass(r) EXCEPT !.leased = lease'[p[2]]]
  IN  /\ r.pc = "ckpt"
      /\ CallOK(p[2], CheckpointRequest(p))
      /\ SetPoller(p, IF r.retry
                        THEN [done EXCEPT !.pc = "open"]
                        ELSE [done EXCEPT !.pc = "loop", !.iter = r.next])
      /\ UNCHANGED <<tail, closed, processed>>

\* The lease is lost, or the context is done: no further attempt.
CheckpointGivesUp(p) ==
  /\ poller[p].pc = "ckpt"
  /\ \/ CallRefused(p[2], CheckpointRequest(p))
     \/ CallAborted(poller[p].cancelled)
  /\ SetPoller(p, Stopped(EndOfPass(poller[p])))
  /\ UNCHANGED <<tail, closed, processed>>

\* A transient failure: try again, CheckpointAttempts times in all.
CheckpointFails(p) ==
  LET r == poller[p]
  IN  /\ r.pc = "ckpt"
      /\ CallLost(p[2], CheckpointRequest(p))
      /\ SetPoller(p, IF r.attempt + 1 < CheckpointAttempts
                        THEN [r EXCEPT !.attempt = @ + 1]
                        ELSE Stopped(EndOfPass(r)))
      /\ UNCHANGED <<tail, closed, processed>>

ShardEndRequest(p) ==
  Request("checkpoint", poller[p].leased, CheckpointShardEnd)

\* writeShardEnd: one attempt, and a second one under the exit context if the
\* first failed with the poll context done.
WriteShardEnd(p) ==
  LET r == poller[p]
      exit == [r EXCEPT !.pc = "exit", !.attempt = 0]
  IN  /\ r.pc = "end"
      /\ \/ /\ CallOK(p[2], ShardEndRequest(p))
            /\ SetPoller(p, [exit EXCEPT !.leased = lease'[p[2]]])
         \/ /\ \/ CallRefused(p[2], ShardEndRequest(p))
               \/ CallLost(p[2], ShardEndRequest(p))
               \/ CallAborted(IF r.attempt = 0 THEN r.cancelled ELSE r.killed)
            /\ SetPoller(p, IF r.cancelled /\ r.attempt = 0
                              THEN [r EXCEPT !.attempt = 1] ELSE exit)
      /\ UNCHANGED <<tail, closed, processed>>

\* The deferred release, once the heartbeat goroutine has stopped.  Whatever
\* comes of it, the coordinator then forgets the poller.
Release(p) ==
  LET req == Request("release", poller[p].leased, CheckpointTrimHorizon)
  IN  /\ poller[p].pc = "exit"
      /\ \/ CallOK(p[2], req)
         \/ CallRefused(p[2], req)
         \/ CallLost(p[2], req)
         \/ CallAborted(poller[p].killed)
      /\ SetPoller(p, NoPoller)
      /\ UNCHANGED <<tail, closed, processed>>

\* runHeartbeat, concurrent with all of the above; only a refusal stops it.
Heartbeat(p) ==
  LET r == poller[p]
      req == Request("heartbeat", r.leased, CheckpointTrimHorizon)
  IN  /\ Running(p)
      /\ UNCHANGED <<tail, closed, processed>>
      /\ \/ /\ Allowed(lease[p[2]], req)
            /\ lease' = [lease EXCEPT ![p[2]] = Apply(@, req)]
            /\ Spend("beats")
            /\ SetPoller(p, [r EXCEPT !.leased = lease'[p[2]]])
            /\ UNCHANGED net
         \/ /\ CallRefused(p[2], req)
            /\ SetPoller(p, [r EXCEPT !.cancelled = TRUE])
         \/ /\ CallLost(p[2], req)
            /\ UNCHANGED poller

\* Every lease is at SHARD_END: reconcile has nothing to plan.
NothingLeft ==
  /\ \A s \in Shards : lease[s].checkpoint = CheckpointShardEnd
  /\ \A p \in Pollers : ~Running(p)
  /\ UNCHANGED vars

-----------------------------------------------------------------------------
PollerStep(p) ==
  \/ OpenIterator(p) \/ OpenIteratorFails(p)
  \/ PollStops(p) \/ PollReachesEnd(p)
  \/ GetRecords(p) \/ GetRecordsExpired(p)
  \/ Deliver(p) \/ DeliverRetry(p)
  \/ Checkpoint(p) \/ CheckpointGivesUp(p) \/ CheckpointFails(p)
  \/ WriteShardEnd(p) \/ Release(p)

CoordinatorStep(w, s) ==
  TryAcquire(w, s) \/ Steal(w, s) \/ AcquireLost(w, s)

Next ==
  \/ \E s \in Shards : PutRecord(s) \/ CloseShard(s) \/ EnsureLease(s)
  \/ \E w \in Workers, s \in Shards : CoordinatorStep(w, s)
  \/ \E w \in Workers : Kill(w) \/ Crash(w)
  \/ \E p \in Pollers : PollerStep(p) \/ Heartbeat(p) \/ Drain(p)
  \/ LateWrite
  \/ NothingLeft

Spec == Init /\ [][Next]_vars

(***************************************************************************)
(* Fairness: discovery and reconcile run on a ticker in every live replica *)
(* and each poller is a goroutine that the scheduler and the bounded store *)
(* and Kinesis calls do not starve.  Nothing is assumed of producers, of   *)
(* resharding, of heartbeats or of late writes; the budgets make every     *)
(* outage end.                                                             *)
(***************************************************************************)
Fairness ==
  /\ \A s \in Shards : WF_vars(EnsureLease(s))
  /\ \A s \in Shards : WF_vars(\E w \in Workers : TryAcquire(w, s))
  /\ \A p \in Pollers : WF_vars(PollerStep(p))

FairSpec == Spec /\ Fairness

-----------------------------------------------------------------------------
(***************************************************************************)
(* Properties.                                                             *)
(***************************************************************************)
\* Everything up to checkpoint k of shard s has been disposed of downstream;
\* for SHARD_END that is everything the closed shard will ever hold.
Accounted(s, k) ==
  IF k = CheckpointShardEnd
    THEN s \in closed /\ 1..tail[s] \subseteq processed[s]
    ELSE k <= tail[s] /\ 1..k \subseteq processed[s]

\* No record is lost: the durable checkpoint of a shard never covers a record
\* that was not delivered, permanently rejected or dead-lettered, whatever
\* batches were cut short by a retry (runPoll), re-read after a failed
\* checkpoint (checkpointWithRetry) or written late by a former owner.
NoLoss == \A s \in Shards : Accounted(s, lease[s].checkpoint)

\* The lease a poller caches is the row itself whenever its fencing token
\* still passes, so checkpoint and openIterator act on current state: the
\* heartbeat and the poll loop share p.leased under leaseMu, and a stolen,
\* released or late-written row never matches the token again.
TokenIsCurrent ==
  \A p \in Pollers :
    Running(p) /\ Fenced(lease[p[2]], poller[p].leased)
      => poller[p].leased = lease[p[2]]

\* A child shard is touched only when its parents are finished: all their
\* records disposed of, not merely handed to some poller (parentsDrained).
ChildAfterParent ==
  \A s \in Shards : processed[s] # {} =>
    \A q \in Parents[s] : q \in closed /\ 1..tail[q] \subseteq processed[q]

\* A checkpoint never moves back, whoever writes it and however late: the
\* counter fence of conditionalUpdate is what rules it out.
CheckpointsNeverRegress ==
  [][\A s \in Shards : lease'[s].checkpoint >= lease[s].checkpoint]_lease

\* Nothing worse happens than drains, rejections and Kinesis errors.
Graceful == \A k \in {"lost", "steals", "stops"} : budget.given[k] = 0

\* Draining hands a shard over without re-delivery: as long as everything is
\* graceful, the record a poller is about to hand down has not been disposed of
\* before (releasePoller: "the handoff is effectively exactly-once").
NoRedelivery ==
  Graceful => \A p \in Pollers : poller[p].pc = "deliver" =>
                Cursor(poller[p]) \notin processed[p[2]]

\* The receiver implements ordered at-least-once consumption, with the
\* checkpoint column of the lease table as the committed position.
AtLeastOnceOf == INSTANCE AtLeastOnce
                   WITH committed <- [s \in Shards |-> lease[s].checkpoint]

Implements == AtLeastOnceOf!Spec

\* Every record put into the stream is eventually disposed of, through
\* crashes, steals, lost store calls and drains of its pollers.
EventuallyProcessed ==
  \A s \in Shards, k \in Seqs : (k <= tail[s]) ~> (k \in processed[s])

\* Every closed shard eventually gets its SHARD_END, so that its children are
\* not held back for good (writeShardEnd and its retry under the exit context).
EventuallyFinished ==
  \A s \in Shards :
    (s \in closed) ~> (lease[s].checkpoint = CheckpointShardEnd)

-----------------------------------------------------------------------------
(***************************************************************************)
(* The inductive invariant behind NoLoss, TokenIsCurrent, ChildAfterParent *)
(* and CheckpointsNeverRegress.                                            *)
(***************************************************************************)
InBatch(r) == r.pc \in {"deliver", "ckpt"}

\* Where the poll loop stands: its iterator is past the checkpoint it holds,
\* everything before the iterator is accounted for, and inside a batch so is
\* everything up to advanceSeq.
Position(s, r) ==
  /\ Accounted(s, r.leased.checkpoint)
  /\ r.pc \in {"loop", "deliver", "ckpt", "end"} =>
       Accounted(s, r.iter) /\ r.leased.checkpoint <= r.iter
  /\ r.pc = "end" => r.iter = NilIter
  /\ ~InBatch(r) => r.seq = 0
  /\ InBatch(r) =>
       /\ r.iter < r.last /\ r.last <= tail[s]
       /\ r.seq # 0 => /\ r.iter < r.seq /\ r.seq <= r.last
                       /\ 1..r.seq \subseteq processed[s]
       /\ \/ r.next = r.last
          \/ r.next = NilIter /\ s \in closed /\ r.last = tail[s]
  /\ r.pc = "deliver" => r.seq # r.last
  /\ r.pc = "ckpt" => r.seq # 0 /\ (~r.retry => r.seq = r.last)

PollerPosition(p) == Position(p[2], poller[p])

PollerPositions == \A p \in Pollers : Running(p) => PollerPosition(p)

\* A lease in a poller's hand was the row at that counter.
TokenTrails(p) ==
  LET l == poller[p].leased
      row == lease[p[2]]
  IN  /\ l.owner = p[1]
      /\ l.counter <= row.counter
      /\ l.counter = row.counter => l = row

TokensTrail == \A p \in Pollers : Running(p) => TokenTrails(p)

\* A checkpoint write still in the network covers accounted records only, and
\* if the fence still lets it pass it moves the row forward.
PendingWrite(m) ==
  LET s == m[1]
      req == m[2]
  IN  /\ req.counter <= lease[s].counter
      /\ req.op = "checkpoint" =>
           /\ Accounted(s, req.checkpoint)
           /\ req.counter = lease[s].counter
                => lease[s].checkpoint <= req.checkpoint

PendingWrites == \A m \in net : PendingWrite(m)

\* A shard that is being read, or has been, has finished parents; rows appear
\* parents first.
ParentsFirst ==
  \A s \in Shards :
    /\ Exists(lease[s]) => \A q \in Parents[s] : Exists(lease[q])
    /\ processed[s] # {} \/ (\E w \in Workers : Running(<<w, s>>)) =>
         \A q \in Parents[s] : lease[q].checkpoint = CheckpointShardEnd

AbsentRows == \A s \in Shards : ~Exists(lease[s]) => lease[s] = NoRow

IInv == /\ TypeOK
        /\ AbsentRows
        /\ NoLoss
        /\ PollerPositions
        /\ TokensTrail
        /\ PendingWrites
        /\ ParentsFirst
=============================================================================
