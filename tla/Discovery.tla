----------------------------- MODULE Discovery -----------------------------
(***************************************************************************)
(* Shard discovery and the garbage collection of leases                    *)
(* (shard_discovery.go) around the reconcile pass of several replicas: a   *)
(* pass lists the shards of the stream and ensures their rows, lists the   *)
(* lease table, takes a lease, and deletes the rows of shards that Kinesis *)
(* has trimmed.  ListShards is eventually consistent: it may leave out a   *)
(* shard.                                                                  *)
(*                                                                         *)
(* Row counters are represented as in Coordinator, by who still has the    *)
(* current one: known[w] for the coordinator of w, whose last List read    *)
(* it, holds[w] for its pollers.                                           *)
(***************************************************************************)
EXTENDS Integers, FiniteSets

CONSTANTS Workers, NoOwner,
          Shards,               \* numbers; parents have smaller ids
          Parents,
          OrphanReapThreshold,  \* orphanReapThreshold, 3 in the code
          Allotments            \* bound: how often each disturbance may happen, by scenario

Disturbances == {"omit",     \* ListShards leaves out a shard
                 "errs",     \* ListShards, Ensure or List fails
                 "stale",    \* List misses a row
                 "crash"}    \* a replica dies

ASSUME NoOwnerAssumption == NoOwner \notin Workers
ASSUME ShardsAssumption ==
  /\ Shards \subseteq Nat /\ Parents \in [Shards -> SUBSET Shards]
  /\ \A s \in Shards : \A p \in Parents[s] : p < s
ASSUME ThresholdAssumption == OrphanReapThreshold \in Nat \ {0}
ASSUME AllotmentsAssumption == Allotments \subseteq [Disturbances -> Nat]

VARIABLES closed, trimmed,  \* the stream: shards closed, and past retention
          rows,             \* shards that have a lease row
          ended,            \* rows at SHARD_END
          owner,            \* the owner column
          polls,            \* c.active of each worker
          holds,            \* its pollers whose lease is current
          reading,          \* shards whose lease holder has opened an iterator
          known,            \* its observations that are current
          quiet,            \* those unchanged for lease_duration
          absent,           \* c.absent, capped at the threshold
          pass,             \* the pass each worker is in, see NoPass
          done,             \* ghost: shards that ever reached SHARD_END
          reaped,           \* ghost: shards whose row was ever deleted
          budget

stream == <<closed, trimmed>>
memory == <<known, quiet, absent, pass>>
vars == <<stream, rows, ended, owner, polls, holds, reading, memory, done,
          reaped, budget>>

\* What a pass knows: c.liveShards, which outlives the pass in the code but is
\* read only by a pass whose own discovery has written it (ok, discoveryOK),
\* the rows it listed at SHARD_END, and the shard it is about to acquire.
NoPass == [phase |-> "idle", ok |-> FALSE, live |-> {}, ended |-> {},
           take |-> {}]

TypeOK ==
  /\ closed \subseteq Shards /\ trimmed \subseteq closed
  /\ rows \subseteq Shards /\ ended \subseteq rows
  /\ owner \in [Shards -> Workers \cup {NoOwner}]
  /\ \A s \in Shards \ rows : owner[s] = NoOwner
  /\ {polls, holds, known, quiet} \subseteq [Workers -> SUBSET Shards]
  /\ \A w \in Workers : /\ holds[w] \subseteq polls[w]
                        /\ quiet[w] \subseteq known[w]
                        /\ known[w] \subseteq rows
                        /\ \A s \in holds[w] : owner[s] = w
  /\ reading \subseteq UNION {holds[w] : w \in Workers}
  /\ absent \in [Workers -> [Shards -> 0..OrphanReapThreshold]]
  /\ pass \in [Workers -> [phase : {"idle", "ensure", "list", "take", "clean"},
                           ok : BOOLEAN, live : SUBSET Shards,
                           ended : SUBSET Shards, take : SUBSET Shards]]
  /\ done \cup reaped \subseteq Shards
  /\ budget \in [given : Allotments, left : [Disturbances -> Nat]]

Init ==
  /\ closed = {} /\ trimmed = {}
  /\ rows = {} /\ ended = {} /\ done = {} /\ reaped = {}
  /\ owner = [s \in Shards |-> NoOwner]
  /\ polls = [w \in Workers |-> {}] /\ holds = polls
  /\ reading = {}
  /\ known = polls /\ quiet = polls
  /\ absent = [w \in Workers |-> [s \in Shards |-> 0]]
  /\ pass = [w \in Workers |-> NoPass]
  /\ \E a \in Allotments : budget = [given |-> a, left |-> a]

Spend(kind) ==
  /\ budget.left[kind] > 0
  /\ budget' = [budget EXCEPT !.left[kind] = @ - 1]

\* A write to the row of s outdates every counter that was read before.
Outdate(s) ==
  /\ known' = [w \in Workers |-> known[w] \ {s}]
  /\ quiet' = [w \in Workers |-> quiet[w] \ {s}]

CappedAdd(n) == IF n < OrphanReapThreshold THEN n + 1 ELSE n

-----------------------------------------------------------------------------
(***************************************************************************)
(* The stream: children appear when their parents are closed, and closed   *)
(* shards disappear when their retention is over.                          *)
(***************************************************************************)
InStream == {s \in Shards \ trimmed : Parents[s] \subseteq closed}

\* A reshard; it closes only the shards that it gives children.
CloseShard(s) ==
  /\ s \in InStream \ closed
  /\ \E c \in Shards : s \in Parents[c]
  /\ closed' = closed \cup {s}
  /\ UNCHANGED <<trimmed, rows, ended, owner, polls, holds, reading, memory,
                 done, reaped, budget>>

TrimShard(s) ==
  /\ s \in closed \ trimmed
  /\ trimmed' = trimmed \cup {s}
  /\ UNCHANGED <<closed, rows, ended, owner, polls, holds, reading, memory,
                 done, reaped, budget>>

-----------------------------------------------------------------------------
(***************************************************************************)
(* Pollers, as far as rows are concerned.                                  *)
(***************************************************************************)
\* Mutant: the poller goes on after GetShardIterator failed.
OpenIteratorAnyway(w, s) ==
  /\ s \in holds[w] \ (reading \cup ended)
  /\ reading' = reading \cup {s}
  /\ UNCHANGED <<stream, rows, ended, owner, polls, holds, memory, done,
                 reaped, budget>>

\* openIterator: Kinesis gives no iterator for a shard it has trimmed, and the
\* poller then ends (PollerExits).
OpenIterator(w, s) ==
  /\ s \in holds[w] \ (reading \cup ended)
  /\ s \notin trimmed
  /\ reading' = reading \cup {s}
  /\ UNCHANGED <<stream, rows, ended, owner, polls, holds, memory, done,
                 reaped, budget>>

\* writeShardEnd; there is nothing more to read.
FinishShard(w, s) ==
  /\ s \in holds[w] \cap reading /\ s \in closed \ ended
  /\ ended' = ended \cup {s} /\ done' = done \cup {s}
  /\ reading' = reading \ {s}
  /\ Outdate(s)
  /\ UNCHANGED <<stream, rows, owner, polls, holds, absent, pass,
                 reaped, budget>>

\* Mutant: the release is not fenced.
PollerExitsUnfenced(w, s) ==
  /\ s \in polls[w] \cap rows
  /\ owner' = [owner EXCEPT ![s] = NoOwner] /\ Outdate(s)
  /\ reading' = reading \ {s}
  /\ polls' = [polls EXCEPT ![w] = @ \ {s}]
  /\ holds' = [holds EXCEPT ![w] = @ \ {s}]
  /\ UNCHANGED <<stream, rows, ended, absent, pass, done,
                 reaped, budget>>

\* The poller ends, for whatever reason, and releases what it still holds.
PollerExits(w, s) ==
  /\ s \in polls[w]
  /\ IF s \in holds[w]
       THEN /\ owner' = [owner EXCEPT ![s] = NoOwner] /\ Outdate(s)
            /\ reading' = reading \ {s}
       ELSE UNCHANGED <<owner, known, quiet, reading>>
  /\ polls' = [polls EXCEPT ![w] = @ \ {s}]
  /\ holds' = [holds EXCEPT ![w] = @ \ {s}]
  /\ UNCHANGED <<stream, rows, ended, absent, pass, done,
                 reaped, budget>>

\* lease_duration passes on a counter that w knows; a running poller would
\* have moved it.  It matters for rows that name an owner only.
Elapse(w, s) ==
  /\ s \in known[w] \ quiet[w] /\ owner[s] # NoOwner
  /\ \A v \in Workers : s \notin holds[v]
  /\ quiet' = [quiet EXCEPT ![w] = @ \cup {s}]
  /\ UNCHANGED <<stream, rows, ended, owner, polls, holds, reading, known,
                 absent, pass, done, reaped, budget>>

Crash(w) ==
  /\ Spend("crash")
  /\ polls' = [polls EXCEPT ![w] = {}]
  /\ holds' = [holds EXCEPT ![w] = {}]
  /\ reading' = reading \ holds[w]
  /\ known' = [known EXCEPT ![w] = {}]
  /\ quiet' = [quiet EXCEPT ![w] = {}]
  /\ absent' = [absent EXCEPT ![w] = [s \in Shards |-> 0]]
  /\ pass' = [pass EXCEPT ![w] = NoPass]
  /\ UNCHANGED <<stream, rows, ended, owner, done, reaped>>

-----------------------------------------------------------------------------
(***************************************************************************)
(* A pass of the coordinator of w.                                         *)
(***************************************************************************)
\* listShards: all shards of the stream, or all but one.
Listing(l) ==
  \/ l = InStream /\ UNCHANGED budget
  \/ /\ \E s \in InStream : l = InStream \ {s}
     /\ Spend("omit")

\* discoverShards lists the stream.
Discover(w) ==
  /\ pass[w].phase = "idle"
  /\ \E l \in SUBSET InStream :
       /\ Listing(l)
       /\ pass' = [pass EXCEPT ![w].phase = "ensure", ![w].live = l]
  /\ UNCHANGED <<stream, rows, ended, owner, polls, holds, reading, known,
                 quiet, absent, done, reaped>>

\* It ensures the rows of what it listed, some time later.
EnsureRows(w) ==
  /\ pass[w].phase = "ensure"
  /\ rows' = rows \cup pass[w].live
  /\ pass' = [pass EXCEPT ![w].phase = "list", ![w].ok = TRUE]
  /\ UNCHANGED <<stream, ended, owner, polls, holds, reading, known, quiet,
                 absent, done, reaped, budget>>

\* ListShards fails, or an Ensure after some others succeeded; the pass goes on
\* without the new listing.  A failure at startup restarts the replica, which
\* is no different.
DiscoverFails(w) ==
  /\ \/ pass[w].phase = "idle" /\ UNCHANGED rows
     \/ /\ pass[w].phase = "ensure"
        /\ \E n \in {0} \cup pass[w].live :
             rows' = rows \cup {s \in pass[w].live : s <= n}
  /\ Spend("errs")
  /\ pass' = [pass EXCEPT ![w].phase = "list", ![w].live = {}]
  /\ UNCHANGED <<stream, ended, owner, polls, holds, reading, known, quiet,
                 absent, done, reaped>>

\* Mutant: a parent without a row is waited for.
ParentsEnded(s, seen) == Parents[s] \subseteq ended

\* Mutant: a parent that has a row at all is taken to be drained.
ParentsKnown(s, seen) == Parents[s] \cap rows \subseteq seen

\* parentsDrained, over the rows listed: one that is not there counts as
\* drained.
ParentsDrained(s, seen) == Parents[s] \cap seen \subseteq ended

\* What lease.Plan may pick, whichever owner the row has: free, stale, our own
\* after a restart, or stolen.  Coordinator says which of them it does pick.
Takeable(w, seen) ==
  {s \in seen \ (ended \cup polls[w]) : ParentsDrained(s, seen)}

\* Store.List scans the table without ConsistentRead.  A row it returns in an
\* old version is of no use to the caller, whose writes are fenced; it may
\* also miss a row.
Scan(seen) ==
  \/ seen = rows /\ UNCHANGED budget
  \/ /\ \E q \in rows : seen = rows \ {q}
     /\ Spend("stale")

\* Store.List and refreshObservations, which forgets rows that are not listed.
List(w) ==
  /\ pass[w].phase = "list"
  /\ \E seen \in SUBSET rows :
       /\ Scan(seen)
       /\ known' = [known EXCEPT ![w] = seen]
       /\ quiet' = [quiet EXCEPT ![w] = @ \cap seen]
       /\ absent' = [absent EXCEPT ![w] =
                       [s \in Shards |-> IF s \in seen THEN @[s] ELSE 0]]
       /\ \E t \in {{}} \cup {{s} : s \in Takeable(w, seen)} :
            pass' = [pass EXCEPT ![w].phase = "take", ![w].take = t,
                                 ![w].ended = ended \cap seen]
  /\ UNCHANGED <<stream, rows, ended, owner, polls, holds, reading, done, reaped>>

\* List fails: reconcile returns at once.
ListFails(w) ==
  /\ pass[w].phase = "list"
  /\ Spend("errs")
  /\ pass' = [pass EXCEPT ![w] = NoPass]
  /\ UNCHANGED <<stream, rows, ended, owner, polls, holds, reading, known,
                 quiet, absent, done, reaped>>

\* tryAcquire, fenced on the counter that List returned.
Take(w) ==
  /\ pass[w].phase = "take"
  /\ LET got == (pass[w].take \cap known[w]) \ polls[w]
     IN  /\ owner' = [s \in Shards |-> IF s \in got THEN w ELSE owner[s]]
         /\ polls' = [polls EXCEPT ![w] = @ \cup got]
         /\ holds' = [v \in Workers |-> IF v = w THEN holds[v] \cup got
                                                 ELSE holds[v] \ got]
         /\ reading' = reading \ got
         /\ known' = [v \in Workers |-> known[v] \ got]
         /\ quiet' = [v \in Workers |-> quiet[v] \ got]
  /\ pass' = IF pass[w].ok
               THEN [pass EXCEPT ![w].phase = "clean", ![w].take = {}]
               ELSE [pass EXCEPT ![w] = NoPass]
  /\ UNCHANGED <<stream, rows, ended, absent, done, reaped,
                 budget>>

\* The listed leases that are at SHARD_END and that Kinesis does not list.
Orphans(w) == pass[w].ended \ pass[w].live

\* Mutant: the first absence is enough.
ReapableAtOnce(w, count) ==
  {s \in Orphans(w) \ polls[w] : owner[s] # NoOwner => s \in quiet[w]}

\* Mutant: only a released lease is collected.
ReapableUnowned(w, count) ==
  {s \in Orphans(w) \ polls[w] :
     count[s] >= OrphanReapThreshold /\ owner[s] = NoOwner}

\* Absent for long enough, not polled here, and without a fresh owner.
Reapable(w, count) ==
  {s \in Orphans(w) \ polls[w] :
     /\ count[s] >= OrphanReapThreshold
     /\ owner[s] # NoOwner => s \in quiet[w]}

\* Store.Delete of the rows in gone.  One call may fail, with or without effect;
\* its shard is then not noted as collected.
Deletes(gone, deleted, noted) ==
  \/ deleted = gone /\ noted = gone /\ UNCHANGED budget
  \/ /\ \E s \in gone : noted = gone \ {s} /\ deleted \in {gone, noted}
     /\ Spend("errs")

\* cleanupOrphans; Delete is fenced on the counter that List returned.
Cleanup(w) ==
  LET count == [s \in Shards |-> IF s \in pass[w].live THEN 0
                                 ELSE IF s \in Orphans(w)
                                   THEN CappedAdd(absent[w][s])
                                 ELSE absent[w][s]]
      gone == Reapable(w, count) \cap known[w]
  IN  /\ pass[w].phase = "clean"
      /\ IF pass[w].live = {}
           THEN UNCHANGED <<rows, ended, owner, known, quiet, absent, reaped, budget>>
           ELSE \E deleted \in SUBSET gone, noted \in SUBSET gone :
                  /\ Deletes(gone, deleted, noted)
                  /\ rows' = rows \ deleted /\ ended' = ended \ deleted
                  /\ reaped' = reaped \cup deleted
                  /\ owner' = [s \in Shards |-> IF s \in deleted THEN NoOwner
                                                                ELSE owner[s]]
                  /\ known' = [v \in Workers |-> known[v] \ deleted]
                  /\ quiet' = [v \in Workers |-> quiet[v] \ deleted]
                  /\ absent' = [absent EXCEPT ![w] =
                                  [s \in Shards |-> IF s \in noted THEN 0
                                                    ELSE count[s]]]
      /\ pass' = [pass EXCEPT ![w] = NoPass]
      /\ UNCHANGED <<stream, polls, holds, reading, done>>

-----------------------------------------------------------------------------
Pass(w) == Discover(w) \/ EnsureRows(w) \/ List(w) \/ Take(w) \/ Cleanup(w)

Next ==
  \/ \E s \in Shards : CloseShard(s) \/ TrimShard(s)
  \/ \E w \in Workers : \/ Pass(w) \/ DiscoverFails(w) \/ ListFails(w)
                        \/ Crash(w)
  \/ \E w \in Workers, s \in Shards :
       OpenIterator(w, s) \/ FinishShard(w, s) \/ PollerExits(w, s) \/ Elapse(w, s)

Spec == Init /\ [][Next]_vars

\* The plan of w includes s, and w acquires it.
Picks(w, s) == List(w) /\ pass'[w].take = {s}

\* Coordinators run on a ticker, pollers end when they can get no iterator or
\* their shard is finished, and time passes.  A shard that can be acquired again
\* and again is acquired some day, which is the subject of Coordinator; one that
\* is polled again and again is opened and read to its end, which is the subject
\* of ShardConsumer.  Nothing is assumed of the stream.
Fairness ==
  /\ \A w \in Workers : WF_vars(Pass(w))
  /\ \A w \in Workers, s \in Shards :
       /\ SF_vars(OpenIterator(w, s))
       /\ WF_vars(s \in ended \cup (trimmed \ reading) /\ PollerExits(w, s))
       /\ WF_vars(Elapse(w, s))
       /\ SF_vars(Picks(w, s))
       /\ SF_vars(FinishShard(w, s))

FairSpec == Spec /\ Fairness

-----------------------------------------------------------------------------
\* How often a replica's listings can lack s although Kinesis has not trimmed
\* it: whenever ListShards omits it, and once because the stream was listed
\* before s was there.
Misled(s) == budget.given["omit"] + (IF Parents[s] = {} THEN 0 ELSE 1)

\* The row of a shard is deleted only when Kinesis has trimmed the shard, so
\* that discovery never re-creates it at TRIM_HORIZON to be read a second time
\* (cleanupOrphans), unless ListShards omits shards so often that
\* orphanReapThreshold does not make up for it.
OnlyTrimmedReaped ==
  \A s \in reaped : Misled(s) < OrphanReapThreshold => s \in trimmed

\* A shard that was read to its end is not read again from TRIM_HORIZON, although
\* its row may be deleted, and created anew by a replica that listed the stream
\* before (discoverShards, cleanupOrphans), under the same bound on omissions.
NoSecondReading ==
  \A s \in done : Misled(s) < OrphanReapThreshold => s \notin reading

\* A shard is taken only when its parents have been finished or are past
\* retention, although a parent without a row counts as drained
\* (parentsDrained).
ChildAfterParent ==
  \A w \in Workers : \A s \in polls[w] : Parents[s] \subseteq done \cup trimmed

\* The same, as long as neither a listing of the stream omits a shard nor a scan
\* of the table misses a row: failed passes, crashes, reaping and other replicas
\* do not let a child overtake its parent.
ChildAfterListedParent ==
  (budget.given["omit"] = 0 /\ budget.given["stale"] = 0) => ChildAfterParent

\* The lease table does not keep the rows of trimmed shards that were
\* finished, also when the owner died before releasing them.
EventuallyReaped ==
  \A s \in Shards : (s \in trimmed \cap ended) ~> (s \notin rows)

\* A parent that can never reach SHARD_END: it was trimmed with its row below
\* SHARD_END, so nobody can open it and cleanupOrphans does not collect it.
Unfinishable(p) == p \in (trimmed \cap rows) \ (ended \cup reading)

\* Every shard of the stream is acquired some day, so that resharding never
\* leaves records unread: failed passes, omitted listings, stale scans and a
\* crash only delay it (discoverShards, parentsDrained).  The exception is a
\* child of a shard that was trimmed before it was read to its end.
EventuallyTaken ==
  \A s \in Shards :
    s \in InStream ~> \/ \E w \in Workers : s \in polls[w]
                     \/ s \in done \cup trimmed
                     \/ \E p \in Parents[s] : Unfinishable(p)

\* ADR-0006: "shards whose parent rows have been trimmed past retention are
\* treated as drained".
TrimmedIsDrained ==
  \A s \in Shards :
    (s \in InStream /\ Parents[s] \subseteq trimmed)
      ~> (ParentsDrained(s, rows) \/ s \in trimmed)
=============================================================================
