-------------------------- MODULE LifecycleProofs --------------------------
(***************************************************************************)
(* Proofs about Lifecycle, for any finite set of shards and any number of  *)
(* disturbances.                                                           *)
(***************************************************************************)
EXTENDS Lifecycle, FiniteSetTheorems, TLAPS

\* The pollers that have a goroutine.
Going == {s \in Shards : poller[s] \in {"running", "released"}}

\* The discovery loop counts for one in c.wg while it runs.
Looping == IF runner \in {"none", "exited"} THEN 0 ELSE 1

\* c.wg is the number of goroutines: of the loop, and of the pollers.
Counted == wg = Looping + Cardinality(Going)

\* The discovery loop holds a lease from tryAcquire until its poller has its
\* goroutine or the lease is released; the only poller in c.active without a
\* goroutine is the one the loop is starting.
Handover ==
  /\ runner \in {"install", "go", "release"} <=> taking # NoShard
  /\ runner \in {"install", "release"} => poller[taking] = "none"
  /\ \A s \in Shards :
       poller[s] = "installed" <=> runner = "go" /\ taking = s

\* Without the discovery loop there are no pollers.
Started ==
  /\ runner = "none" <=> start # "started"
  /\ runner = "none" => \A s \in Shards : poller[s] = "none"

\* From drainAndStop on, every poller that may be at work has been asked to
\* drain or is still to be asked; what a clean end leaves behind.
Stopping ==
  /\ shutdown \in {"stop", "drain", "wait", "grace", "expired"} => stopped
  /\ stopped => shutdown # "none"
  /\ stopped => \A s \in Shards :
       poller[s] \in {"installed", "running"} => s \in drain \cup snapshot
  /\ shutdown \notin {"stop", "drain"} => snapshot = {}
  /\ shutdown = "clean" /\ stopped => Quiet
  /\ shutdown = "clean" /\ ~stopped => start = "unbuilt" \/ ~Never("early")

\* A release is given up only once Shutdown has run out of time.
Cancelled ==
  cancelled => /\ stopped \/ start = "failed"
               /\ Quiet \/ shutdown \in {"grace", "expired"}

\* A row that names the replica has a poller, or is in tryAcquire's hands.
Held ==
  Never("lost") /\ shutdown \notin {"grace", "expired"} =>
    \A s \in owned : \/ poller[s] \in {"installed", "running"}
                     \/ taking = s

Spent == \A kind \in Disturbances : budget[kind] <= Budget[kind]

\* The parts of the invariant that are about control rather than counting.
Control == Handover /\ Started /\ Stopping /\ Cancelled /\ Held /\ Spent

\* The inductive invariant.
IInv == TypeOK /\ Counted /\ Control

LEMMA InvariantInit == Init => IInv
<1> SUFFICES ASSUME Init PROVE IInv
  OBVIOUS
<1>1. Going = {} /\ Looping = 0
  BY DEF Init, Going, Looping
<1>2. Cardinality({}) = 0 /\ Cardinality(Shards) \in Nat
  BY FS_EmptySet, FS_CardinalityType, ShardsAssumption
<1>a. /\ poller \in [Shards -> PollerStates]
      /\ active = {s \in Shards : poller[s] # "none"}
  BY DEF Init, PollerStates
<1>b. wg \in 0..(1 + Cardinality(Shards)) /\ budget \in [Disturbances -> Nat]
  BY <1>2, BudgetAssumption DEF Init
<1>3. TypeOK
  BY <1>a, <1>b DEF Init, TypeOK
<1>4. Counted
  BY <1>1, <1>2 DEF Init, Counted
<1>5. Control
  BY NoShardAssumption, BudgetAssumption
  DEF Init, Control, Handover, Started, Stopping, Cancelled, Held, Spent
<1>6. QED
  BY <1>3, <1>4, <1>5 DEF IInv

-----------------------------------------------------------------------------
(***************************************************************************)
(* Counting goroutines.                                                    *)
(***************************************************************************)
\* There are at most as many poller goroutines as shards.
LEMMA GoingBounded ==
  /\ IsFiniteSet(Going)
  /\ Cardinality(Going) \in 0..Cardinality(Shards)
<1>1. Going \subseteq Shards
  BY DEF Going
<1>2. QED
  BY <1>1, ShardsAssumption, FS_Subset, FS_CardinalityType

\* When c.wg is zero nothing of the replica runs.
LEMMA ZeroMeansQuiet ==
  ASSUME TypeOK, Counted, Handover, wg = 0
  PROVE  Quiet
<1>1. Looping = 0 /\ Cardinality(Going) = 0
  BY GoingBounded DEF Counted, Looping, TypeOK
<1>2. Going = {}
  BY <1>1, GoingBounded, FS_EmptySet
<1>3. runner \in {"none", "exited"}
  BY <1>1 DEF Looping
<1>4. ASSUME NEW s \in Shards
      PROVE  poller[s] = "none"
  BY <1>2, <1>3 DEF Going, Handover, TypeOK, PollerStates
<1>5. QED
  BY <1>3, <1>4 DEF Quiet

\* A step that starts no goroutine and ends none leaves the count right.
LEMMA CountKept ==
  ASSUME Counted, wg' = wg, Looping' = Looping, Going' = Going
  PROVE  Counted'
BY DEF Counted

\* c.wg is kept up to date: wg.Add and wg.Done match the goroutines.
LEMMA CountedStep ==
  ASSUME IInv, [Next]_vars
  PROVE  Counted'
<1> USE DEF IInv, Control
<1>0. wg \in Nat /\ Looping \in {0, 1} /\ Cardinality(Going) \in Nat
      /\ IsFiniteSet(Going)
  BY GoingBounded DEF TypeOK, Looping
<1>1. CASE StartSpawns
  <2>1. Going' = Going
    BY <1>1 DEF StartSpawns, Going
  <2>2. CASE stopped
    BY <1>1, <2>1, <2>2, CountKept DEF StartSpawns, Looping
  <2>3. CASE ~stopped
    <3>1. Looping = 0 /\ Looping' = 1 /\ wg' = wg + 1
      BY <1>1, <2>3 DEF StartSpawns, Looping, Started
    <3>2. QED
      BY <1>0, <2>1, <3>1 DEF Counted
  <2>4. QED
    BY <2>2, <2>3
<1>2. CASE RunChecks
  <2>1. Going' = Going /\ Looping = 1
    BY <1>2 DEF RunChecks, Going, Looping
  <2>2. CASE runner' = "exited" /\ wg' = wg - 1
    <3>1. Looping' = 0
      BY <2>2 DEF Looping
    <3>2. QED
      BY <1>0, <2>1, <2>2, <3>1 DEF Counted
  <2>3. CASE runner' = "pass" /\ wg' = wg
    BY <2>1, <2>3, CountKept DEF Looping
  <2>4. QED
    BY <1>2, <2>2, <2>3 DEF RunChecks
<1>3. CASE GoPoller
  <2>1. taking \in Shards /\ poller[taking] = "installed" /\ taking \notin Going
    BY <1>3 DEF GoPoller, Handover, TypeOK, Going
  <2>2. Going' = Going \cup {taking}
    BY <1>3, <2>1 DEF GoPoller, SetPoller, TypeOK, Going
  <2>3. Cardinality(Going') = Cardinality(Going) + 1
    BY <1>0, <2>1, <2>2, FS_AddElement
  <2>4. Looping' = Looping /\ wg' = wg + 1
    BY <1>3 DEF GoPoller, Looping
  <2>5. QED
    BY <1>0, <2>3, <2>4 DEF Counted
<1>4. ASSUME NEW s \in Shards, PollerClears(s)
      PROVE  Counted'
  <2>1. s \in Going
    BY <1>4 DEF PollerClears, Going
  <2>2. Going' = Going \ {s}
    BY <1>4 DEF PollerClears, SetPoller, TypeOK, Going
  <2>3. Cardinality(Going') = Cardinality(Going) - 1
    BY <1>0, <2>1, <2>2, FS_RemoveElement
  <2>4. Looping' = Looping /\ wg' = wg - 1
    BY <1>4 DEF PollerClears, Looping
  <2>5. QED
    BY <1>0, <2>3, <2>4 DEF Counted
<1>5. ASSUME NEW s \in Shards, PollerReleases(s)
      PROVE  Counted'
  <2>1. Going' = Going
    BY <1>5 DEF PollerReleases, SetPoller, TypeOK, Going
  <2>2. QED
    BY <1>5, <2>1, CountKept DEF PollerReleases, Looping
<1>6. CASE Install
  <2>1. taking \in Shards /\ poller[taking] = "none"
    BY <1>6 DEF Install, Handover, TypeOK
  <2>2. Going' = Going
    BY <1>6, <2>1 DEF Install, SetPoller, TypeOK, Going
  <2>3. QED
    BY <1>6, <2>2, CountKept DEF Install, Looping
<1>7. CASE PassEnds \/ ReleaseRaced \/ \E s \in Shards : TryAcquire(s)
  <2>1. Going' = Going /\ Looping' = Looping /\ wg' = wg
    BY <1>7 DEF PassEnds, ReleaseRaced, TryAcquire, Going, Looping
  <2>2. QED
    BY <2>1, CountKept
<1>8. CASE UNCHANGED <<runner, poller, wg>>
  <2>1. Going' = Going /\ Looping' = Looping /\ wg' = wg
    BY <1>8 DEF Going, Looping
  <2>2. QED
    BY <2>1, CountKept
<1>9. QED
  BY <1>1, <1>2, <1>3, <1>4, <1>5, <1>6, <1>7, <1>8
  DEF Next, StartStep, RunStep, PollerStep, Closing, vars, coord, SetUp,
      StartBegins, StartDiscovers, ReleasePoller, Wedge, ShutdownUnbuilt,
      DrainAndStop, StopDiscovery, DrainOne, WaitBegins, WaitEnds, Deadline,
      GraceEnds

-----------------------------------------------------------------------------
(***************************************************************************)
(* The other parts of the invariant.                                       *)
(***************************************************************************)
\* The variables keep their types; the range of wg comes from the count.
LEMMA TypeStep ==
  ASSUME IInv, [Next]_vars
  PROVE  TypeOK'
<1>0. wg' \in 0..(1 + Cardinality(Shards))
  <2>1. Going' \subseteq Shards
    BY DEF Going
  <2>2. /\ Cardinality(Shards) \in Nat
        /\ Cardinality(Going') \in 0..Cardinality(Shards)
    BY <2>1, ShardsAssumption, FS_Subset, FS_CardinalityType
  <2>3. wg' = Looping' + Cardinality(Going') /\ Looping' \in {0, 1}
    BY CountedStep DEF Counted, Looping
  <2>4. QED
    BY <2>2, <2>3
<1> USE <1>0, NoShardAssumption
    DEF IInv, Control, TypeOK, Handover, PollerStates, Disturbances, coord,
        contexts, closing
<1>1. CASE SetUp
  BY <1>1 DEF SetUp
<1>2. CASE StartBegins
  BY <1>2 DEF StartBegins
<1>3. CASE StartDiscovers
  BY <1>3 DEF StartDiscovers
<1>4. CASE StartSpawns
  BY <1>4 DEF StartSpawns
<1>5. CASE RunChecks
  BY <1>5 DEF RunChecks
<1>6. CASE PassEnds
  BY <1>6 DEF PassEnds
<1>7. CASE Install
  BY <1>7 DEF Install, SetPoller
<1>8. CASE GoPoller
  BY <1>8 DEF GoPoller, SetPoller
<1>9. CASE ReleaseRaced
  BY <1>9 DEF ReleaseRaced, ReleaseRow, Spend
<1>10. ASSUME NEW s \in Shards, ReleasePoller(s)
      PROVE  TypeOK'
  BY <1>10 DEF ReleasePoller
<1>11. ASSUME NEW s \in Shards, TryAcquire(s)
      PROVE  TypeOK'
  BY <1>11 DEF TryAcquire, Spend
<1>12. ASSUME NEW s \in Shards, Wedge(s)
      PROVE  TypeOK'
  BY <1>12 DEF Wedge, Spend
<1>13. ASSUME NEW s \in Shards, PollerReleases(s)
      PROVE  TypeOK'
  BY <1>13 DEF PollerReleases, ReleaseRow, Spend, SetPoller
<1>14. ASSUME NEW s \in Shards, PollerClears(s)
      PROVE  TypeOK'
  BY <1>14 DEF PollerClears, SetPoller
<1>15. CASE ShutdownUnbuilt
  BY <1>15 DEF ShutdownUnbuilt, Spend
<1>16. CASE DrainAndStop
  BY <1>16 DEF DrainAndStop
<1>17. CASE StopDiscovery
  BY <1>17 DEF StopDiscovery
<1>18. ASSUME NEW s \in Shards, DrainOne(s)
      PROVE  TypeOK'
  BY <1>18 DEF DrainOne
<1>19. CASE WaitBegins
  BY <1>19 DEF WaitBegins
<1>20. CASE WaitEnds
  BY <1>20 DEF WaitEnds
<1>21. CASE Deadline
  BY <1>21 DEF Deadline
<1>22. CASE GraceEnds
  BY <1>22 DEF GraceEnds
<1>23. CASE UNCHANGED vars
  BY <1>23 DEF vars
<1>24. QED
  BY <1>1, <1>2, <1>3, <1>4, <1>5, <1>6, <1>7, <1>8, <1>9, <1>10, <1>11,
     <1>12, <1>13, <1>14, <1>15, <1>16, <1>17, <1>18, <1>19, <1>20, <1>21,
     <1>22, <1>23
  DEF Next, StartStep, RunStep, PollerStep, Closing

\* Every step keeps the hand-over of leases, the order of Start and Shutdown,
\* and the rows accounted for.
LEMMA ControlStep ==
  ASSUME IInv, [Next]_vars
  PROVE  Control'
<1> USE NoShardAssumption, BudgetAssumption
    DEF IInv, Control, TypeOK, Handover, Started, Stopping, Cancelled, Held,
        Spent, Quiet, Never, coord, contexts, closing, PollerStates,
        Disturbances
<1>1. CASE SetUp
  BY <1>1 DEF SetUp
<1>2. CASE StartBegins
  BY <1>2 DEF StartBegins
<1>3. CASE StartDiscovers
  BY <1>3 DEF StartDiscovers
<1>4. CASE StartSpawns
  BY <1>4 DEF StartSpawns
<1>5. CASE RunChecks
  BY <1>5 DEF RunChecks
<1>6. CASE PassEnds
  BY <1>6 DEF PassEnds
<1>7. CASE Install
  BY <1>7 DEF Install, SetPoller
<1>8. CASE GoPoller
  BY <1>8 DEF GoPoller, SetPoller
<1>9. CASE ReleaseRaced
  BY <1>9 DEF ReleaseRaced, ReleaseRow, Spend
<1>10. ASSUME NEW s \in Shards, ReleasePoller(s)
      PROVE  Control'
  BY <1>10 DEF ReleasePoller
<1>11. ASSUME NEW s \in Shards, TryAcquire(s)
      PROVE  Control'
  BY <1>11 DEF TryAcquire, Spend
<1>12. ASSUME NEW s \in Shards, Wedge(s)
      PROVE  Control'
  BY <1>12 DEF Wedge, Spend
<1>13. ASSUME NEW s \in Shards, PollerReleases(s)
      PROVE  Control'
  BY <1>13 DEF PollerReleases, ReleaseRow, Spend, SetPoller
<1>14. ASSUME NEW s \in Shards, PollerClears(s)
      PROVE  Control'
  BY <1>14 DEF PollerClears, SetPoller
<1>15. CASE ShutdownUnbuilt
  BY <1>15 DEF ShutdownUnbuilt, Spend
<1>16. CASE DrainAndStop
  BY <1>16 DEF DrainAndStop
<1>17. CASE StopDiscovery
  BY <1>17 DEF StopDiscovery
<1>18. ASSUME NEW s \in Shards, DrainOne(s)
      PROVE  Control'
  BY <1>18 DEF DrainOne
<1>19. CASE WaitBegins
  BY <1>19 DEF WaitBegins
<1>20. CASE WaitEnds
  <2>1. Quiet
    BY <1>20, ZeroMeansQuiet DEF WaitEnds
  <2>2. QED
    BY <1>20, <2>1 DEF WaitEnds
<1>21. CASE Deadline
  BY <1>21 DEF Deadline
<1>22. CASE GraceEnds
  BY <1>22 DEF GraceEnds
<1>23. CASE UNCHANGED vars
  BY <1>23 DEF vars
<1>24. QED
  BY <1>1, <1>2, <1>3, <1>4, <1>5, <1>6, <1>7, <1>8, <1>9, <1>10, <1>11,
     <1>12, <1>13, <1>14, <1>15, <1>16, <1>17, <1>18, <1>19, <1>20, <1>21,
     <1>22, <1>23
  DEF Next, StartStep, RunStep, PollerStep, Closing

LEMMA InvariantStep ==
  ASSUME IInv, [Next]_vars
  PROVE  IInv'
BY TypeStep, CountedStep, ControlStep DEF IInv

-----------------------------------------------------------------------------
(***************************************************************************)
(* The theorems.                                                           *)
(***************************************************************************)
\* Spec keeps the inductive invariant.
THEOREM Invariance == Spec => []IInv
<1>1. Init => IInv
  BY InvariantInit
<1>2. IInv /\ [Next]_vars => IInv'
  BY InvariantStep
<1>3. QED
  BY <1>1, <1>2, PTL DEF Spec

\* The variables keep their types: c.wg never becomes negative, and c.active is
\* the set of shards that have a poller.
THEOREM TypeCorrect == Spec => []TypeOK
<1>1. IInv => TypeOK
  BY DEF IInv
<1>2. QED
  BY <1>1, Invariance, PTL

\* A Shutdown that reports success leaves nothing of the replica running, and
\* nothing of it starts later, wherever Start and the discovery loop were.
THEOREM CleanStops == Spec => []CleanMeansStopped
<1>1. IInv => CleanMeansStopped
  BY DEF IInv, Control, Stopping, Started, CleanMeansStopped, Quiet
<1>2. QED
  BY <1>1, Invariance, PTL

\* A Shutdown that reports success leaves no row in the replica's name, unless a
\* store call failed.
THEOREM CleanReleases == Spec => []CleanMeansReleased
<1>1. ASSUME IInv
      PROVE  CleanMeansReleased
  <2> SUFFICES ASSUME shutdown = "clean", Never("early"), Never("lost"),
                      NEW s \in owned
               PROVE  FALSE
    BY DEF CleanMeansReleased
  <2>1. Quiet
    BY <1>1 DEF IInv, Control, Stopping, Started, Quiet
  <2>2. taking = NoShard
    BY <1>1, <2>1 DEF IInv, Control, Handover, Quiet
  <2>3. s \in Shards /\ poller[s] = "none"
    BY <1>1, <2>1 DEF IInv, TypeOK, Quiet
  <2>4. QED
    BY <1>1, <2>2, <2>3, NoShardAssumption DEF IInv, Control, Held
<1>2. QED
  BY <1>1, Invariance, PTL

\* When drainAndStop is through, no poller is left that was not asked to drain.
THEOREM AllAsked == Spec => []EveryoneAsked
<1>1. IInv => EveryoneAsked
  BY DEF IInv, Control, Stopping, EveryoneAsked
<1>2. QED
  BY <1>1, Invariance, PTL

\* wg.Add is called only while the count is positive once somebody waits: by
\* start never, by startPoller only from the counted discovery loop.
THEOREM AddsAreCounted == Spec => NoAddAtZero
<1>1. ASSUME IInv, [Next]_vars, wg' > wg, shutdown \in {"wait", "grace"}
      PROVE  wg > 0
  <2>1. stopped /\ wg \in Nat
    BY <1>1 DEF IInv, Control, Stopping, TypeOK
  <2>2. runner = "go" \/ wg' \in {wg, wg - 1}
    BY <1>1, <2>1
    DEF Next, StartStep, RunStep, PollerStep, Closing, vars, coord, SetUp,
        StartBegins, StartDiscovers, StartSpawns, RunChecks, PassEnds, Install,
        GoPoller, ReleaseRaced, TryAcquire, ReleasePoller, PollerReleases,
        PollerClears, Wedge, ShutdownUnbuilt, DrainAndStop, StopDiscovery, DrainOne,
        WaitBegins, WaitEnds, Deadline, GraceEnds
  <2>3. Looping = 1
    BY <1>1, <2>1, <2>2 DEF Looping
  <2>4. QED
    BY <1>1, <2>3, GoingBounded DEF IInv, Counted
<1>2. IInv /\ [Next]_vars =>
        [wg' > wg /\ shutdown \in {"wait", "grace"} => wg > 0]_vars
  BY <1>1
<1>3. QED
  BY <1>2, Invariance, PTL DEF Spec, NoAddAtZero
=============================================================================
