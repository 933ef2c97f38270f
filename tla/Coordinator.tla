---------------------------- MODULE Coordinator ----------------------------
(***************************************************************************)
(* The coordinators of several replicas dividing the shards of a stream    *)
(* among themselves (coordinator.go: reconcile, tryAcquire, releasePoller, *)
(* startPoller; shard_discovery.go: refreshObservations), with no leader   *)
(* and no common clock, only the lease table.                              *)
(*                                                                         *)
(* A lease counter is only ever compared for equality with the row's, and  *)
(* every write moves the row's on.  So instead of numbers the model keeps  *)
(* who still has the row's current counter: observed[w][s] is Outdated     *)
(* when the counter w got from its last List is not the row's any more,    *)
(* and the time since it first saw that counter otherwise; holds[w] are    *)
(* the pollers of w whose lease is current.  Time is counted in ticks, and *)
(* durations saturate at LeaseDuration, the only value they are compared   *)
(* with.                                                                   *)
(***************************************************************************)
EXTENDS Taker

CONSTANTS Workers, Shards,
          LeaseDuration, HeartbeatInterval,
          InitialOwner,         \* who polls which shard at the start
          Scenarios             \* bound: [active, budget], see Init

Disturbances == {"ends",     \* a shard is read to its end
                 "stalls",   \* a replica stops responding for a while
                 "lost"}     \* an Acquire takes effect but its answer is lost

ASSUME ShardsAssumption == Shards \subseteq Nat /\ IsFiniteSet(Shards)
ASSUME NoOwnerAssumption == NoOwner \notin Workers
ASSUME DurationAssumption ==
  /\ LeaseDuration \in Nat /\ HeartbeatInterval \in Nat \ {0}
  /\ HeartbeatInterval < LeaseDuration
ASSUME InitialAssumption == InitialOwner \in [Shards -> Workers \cup {NoOwner}]
ASSUME ScenariosAssumption ==
  \A c \in Scenarios : c.active \subseteq Shards /\ c.budget \in [Disturbances -> Nat]

VARIABLES active,       \* the shards whose row is not at SHARD_END
          owner,        \* the owner column of the lease table
          silent,       \* ghost: ticks since each row was last written
          polls,        \* c.active of each worker
          draining,     \* its pollers that were asked to drain
          holds,        \* its pollers whose lease is still current
          observed,     \* c.observed: now - seenAt, or Outdated
          todo,         \* what is left of the plan each worker executes
          stalled,      \* workers that are paused
          budget

vars == <<active, owner, silent, polls, draining, holds, observed, todo,
          stalled, budget>>

Ticks == 0..LeaseDuration

Outdated == -1

\* Between passes, and after a plan without takeovers.
NoPlan == [acquire |-> {}, steal |-> {}]

TypeOK ==
  /\ active \subseteq Shards
  /\ owner \in [Shards -> Workers \cup {NoOwner}]
  /\ silent \in [Shards -> Ticks]
  /\ polls \in [Workers -> SUBSET Shards]
  /\ draining \in [Workers -> SUBSET Shards]
  /\ holds \in [Workers -> SUBSET Shards]
  /\ \A w \in Workers : /\ draining[w] \cup holds[w] \subseteq polls[w]
                        /\ \A s \in holds[w] : owner[s] = w
  /\ observed \in [Workers -> [Shards -> Ticks \cup {Outdated}]]
  /\ todo \in [Workers -> [acquire : SUBSET Shards, steal : SUBSET Shards]]
  /\ stalled \subseteq Workers
  /\ budget \in [Disturbances -> Nat]

\* A scenario says which shards are still active and how often each disturbance
\* happens.
Init ==
  /\ \E c \in Scenarios : active = c.active /\ budget = c.budget
  /\ owner = [s \in Shards |-> IF s \in active THEN InitialOwner[s] ELSE NoOwner]
  /\ silent = [s \in Shards |-> 0]
  /\ polls = [w \in Workers |-> {s \in active : InitialOwner[s] = w}]
  /\ draining = [w \in Workers |-> {}]
  /\ holds = polls
  /\ observed = [w \in Workers |-> [s \in Shards |-> Outdated]]
  /\ todo = [w \in Workers |-> NoPlan]
  /\ stalled = {}

Spend(kind) ==
  /\ budget[kind] > 0
  /\ budget' = [budget EXCEPT ![kind] = @ - 1]

\* A write to the row of s: every counter anyone remembers is now outdated.
Write(s, o) ==
  /\ owner' = [owner EXCEPT ![s] = o]
  /\ silent' = [silent EXCEPT ![s] = 0]
  /\ observed' = [w \in Workers |-> [observed[w] EXCEPT ![s] = Outdated]]

-----------------------------------------------------------------------------
(***************************************************************************)
(* Time, and replicas that stop for longer than anyone expects.            *)
(***************************************************************************)
After(n) == IF n \in 0..(LeaseDuration - 1) THEN n + 1 ELSE n

\* A poller that is not stalled gets its heartbeat through in time.  The age of
\* a row at SHARD_END does not matter to anyone and is not counted.
Tick ==
  /\ \A w \in Workers \ stalled, s \in Shards :
       s \in holds[w] => silent[s] < HeartbeatInterval
  /\ silent' = [s \in Shards |-> IF s \in active THEN After(silent[s]) ELSE 0]
  /\ observed' = [w \in Workers |-> [s \in Shards |->
                    IF s \in active THEN After(observed[w][s]) ELSE observed[w][s]]]
  /\ UNCHANGED <<active, owner, polls, draining, holds, todo, stalled, budget>>

Stall(w) ==
  /\ w \notin stalled /\ Spend("stalls")
  /\ stalled' = stalled \cup {w}
  /\ UNCHANGED <<active, owner, silent, polls, draining, holds, observed, todo>>

Resume(w) ==
  /\ w \in stalled
  /\ stalled' = stalled \ {w}
  /\ UNCHANGED <<active, owner, silent, polls, draining, holds, observed, todo,
                 budget>>

-----------------------------------------------------------------------------
(***************************************************************************)
(* Pollers.                                                                *)
(***************************************************************************)
\* A heartbeat or a checkpoint goes through.
Heartbeat(w, s) ==
  /\ w \notin stalled /\ s \in holds[w]
  /\ Write(s, w)
  /\ UNCHANGED <<active, polls, draining, holds, todo, stalled, budget>>

\* writeShardEnd: from now on the shard counts in nobody's fair share.
FinishShard(w, s) ==
  /\ w \notin stalled /\ s \in holds[w] \cap active
  /\ Spend("ends")
  /\ active' = active \ {s}
  /\ Write(s, w)
  /\ UNCHANGED <<polls, draining, holds, todo, stalled>>

\* The poller drained or finished its shard, or one of its writes was refused:
\* it releases what it still holds and leaves c.active.
PollerStops(w, s) ==
  /\ w \notin stalled
  /\ s \in draining[w] \cup (polls[w] \ (holds[w] \cap active))
  /\ IF s \in holds[w] THEN Write(s, NoOwner)
                       ELSE UNCHANGED <<owner, silent, observed>>
  /\ polls' = [polls EXCEPT ![w] = @ \ {s}]
  /\ draining' = [draining EXCEPT ![w] = @ \ {s}]
  /\ holds' = [holds EXCEPT ![w] = @ \ {s}]
  /\ UNCHANGED <<active, todo, stalled, budget>>

-----------------------------------------------------------------------------
(***************************************************************************)
(* The reconcile pass.                                                     *)
(***************************************************************************)
\* Mutant: a counter that moved does not restart the observation.
RefreshKeepsSeenAt(w) ==
  [s \in Shards |-> IF s \in active /\ observed[w][s] = Outdated THEN LeaseDuration
                    ELSE observed[w][s]]

\* refreshObservations: a counter that moved since the last List is seen now.
RefreshObservations(w) ==
  [s \in Shards |-> IF s \in active /\ observed[w][s] = Outdated THEN 0
                    ELSE observed[w][s]]

\* What reconcile hands to lease.Plan.
PlanInput(w) ==
  [active |-> active, owner |-> owner, self |-> w, drained |-> active,
   fresh |-> {s \in active : owner[s] # NoOwner /\
                             RefreshObservations(w)[s] < LeaseDuration},
   owned |-> polls[w]]

\* reconcile up to the first tryAcquire: the table is listed, the plan made and
\* its releases carried out, the pollers of the surplus shards being asked to
\* drain.  How old the plan is when it is executed is left open.
Reconcile(w) ==
  /\ w \notin stalled /\ todo[w] = NoPlan
  /\ observed' = [observed EXCEPT ![w] = RefreshObservations(w)]
  /\ \E plan \in Plans(PlanInput(w)) :
       /\ draining' = [draining EXCEPT ![w] = @ \cup plan.release]
       /\ todo' = [todo EXCEPT ![w] = [acquire |-> plan.acquire,
                                       steal |-> plan.steal]]
  /\ UNCHANGED <<active, owner, silent, polls, holds, stalled, budget>>

\* The shard tryAcquire is called for next, and the rest of the plan.
Due(w) == Min(IF todo[w].acquire # {} THEN todo[w].acquire ELSE todo[w].steal)
Advance(w) ==
  todo' = IF todo[w].acquire = {}
            THEN [todo EXCEPT ![w] = NoPlan]
            ELSE [todo EXCEPT ![w].acquire = @ \ {Due(w)}]

Acting(w) == w \notin stalled /\ todo[w] # NoPlan

\* tryAcquire would start a second poller for the shard, or its counter moved.
Refusal(w, s) == s \in polls[w] \/ observed[w][s] = Outdated

\* tryAcquire succeeds and startPoller installs the poller.
TryAcquire(w) ==
  LET s == Due(w)
  IN  /\ Acting(w) /\ ~Refusal(w, s)
      /\ Write(s, w)
      /\ polls' = [polls EXCEPT ![w] = @ \cup {s}]
      /\ holds' = [v \in Workers |-> IF v = w THEN holds[v] \cup {s}
                                              ELSE holds[v] \ {s}]
      /\ Advance(w)
      /\ UNCHANGED <<active, draining, stalled, budget>>

\* Mutant: a refused Acquire is taken for a success.
AcquireRefusedStartsPoller(w) ==
  LET s == Due(w)
  IN  /\ Acting(w) /\ Refusal(w, s)
      /\ polls' = [polls EXCEPT ![w] = @ \cup {s}]
      /\ holds' = [holds EXCEPT ![w] = @ \cup {s}]
      /\ Advance(w)
      /\ UNCHANGED <<active, owner, silent, draining, observed, stalled, budget>>

\* tryAcquire returns without a lease: conflict, or already polled.
AcquireRefused(w) ==
  /\ Acting(w) /\ Refusal(w, Due(w))
  /\ Advance(w)
  /\ UNCHANGED <<active, owner, silent, polls, draining, holds, observed,
                 stalled, budget>>

\* The Acquire takes effect but tryAcquire is told otherwise: the row names an
\* owner that does not poll the shard.
AcquireLost(w) ==
  LET s == Due(w)
  IN  /\ Acting(w) /\ ~Refusal(w, s)
      /\ Spend("lost")
      /\ Write(s, w)
      /\ holds' = [v \in Workers |-> holds[v] \ {s}]
      /\ Advance(w)
      /\ UNCHANGED <<active, polls, draining, stalled>>

-----------------------------------------------------------------------------
Pass(w) == Reconcile(w) \/ TryAcquire(w) \/ AcquireRefused(w)

Next ==
  \/ Tick
  \/ \E w \in Workers : Stall(w) \/ Resume(w) \/ Pass(w) \/ AcquireLost(w)
  \/ \E w \in Workers, s \in Shards : Heartbeat(w, s) \/ PollerStops(w, s)
                                      \/ FinishShard(w, s)

Spec == Init /\ [][Next]_vars

(***************************************************************************)
(* Fairness: time passes, stalls end, coordinators and pollers run.  A row *)
(* that is written all the time can refuse an Acquire whose snapshot it    *)
(* outran; the strong fairness says that a race that can be won again and  *)
(* again is won some day, because the few milliseconds between List and    *)
(* Acquire are not always hit by a write of the owner.                     *)
(***************************************************************************)
Fairness ==
  /\ WF_vars(Tick)
  /\ \A w \in Workers : /\ WF_vars(Resume(w))
                        /\ WF_vars(Pass(w))
                        /\ SF_vars(TryAcquire(w))
  /\ \A w \in Workers, s \in Shards : /\ WF_vars(Heartbeat(w, s))
                                      /\ WF_vars(PollerStops(w, s))

FairSpec == Spec /\ Fairness

-----------------------------------------------------------------------------
\* A lease is taken from a peer without a plan to steal it only after the
\* row has been silent for lease_duration, although each replica judges by
\* what it happened to see of the counter and by its own clock
\* (refreshObservations), and acts on a snapshot that may be old by then
\* (tryAcquire).
StaleMeansSilent ==
  [][\A w \in Workers, s \in Shards :
       (owner'[s] = w /\ owner[s] \notin {w, NoOwner})
         => silent[s] >= LeaseDuration \/ s \in todo[w].steal]_vars

Division ==
  /\ UNION {polls[w] : w \in Workers} = active
  /\ \A w \in Workers :
       /\ holds[w] = polls[w]
       /\ Cardinality(polls[w]) <=
            FairShareTarget(Cardinality(active),
                            Cardinality({v \in Workers : polls[v] # {}}))

\* A replica sheds a shard while one of its pollers has lost its lease and has
\* not noticed: reconcile counts that poller as well.
HastyRelease ==
  \E w \in Workers : holds[w] # polls[w] /\ ~(draining'[w] \subseteq draining[w])

\* Rebalancing comes to rest: the active shards end up divided among the
\* workers, none above its fair share of the workers that have a shard, and
\* nobody moves a shard any more (lease.Plan carried out by every replica on
\* its own snapshot).  The one way to move shards back and forth for ever is
\* that again and again a replica plans between a steal and the next write of
\* the poller it was stolen from, which discovery_interval > heartbeat_interval
\* makes unlikely but Config.Validate does not ask for.
Settles ==
  []<><<HastyRelease>>_vars \/ (<>[]Division /\ <>[][UNCHANGED polls]_vars)

\* ADR-0008: "Shards redistribute as replicas join and leave, converging to an
\* even-as-possible split".
EvenSplit ==
  <>[](\A v, w \in Workers :
         Cardinality(polls[v]) <= Cardinality(polls[w]) + 1)
=============================================================================
