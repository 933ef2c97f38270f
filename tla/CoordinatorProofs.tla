------------------------- MODULE CoordinatorProofs -------------------------
(***************************************************************************)
(* Proofs about Taker and Coordinator: what lease.Plan returns for any     *)
(* lease table and any set of workers; and its execution by any number of  *)
(* workers for any number of shards, any durations, initial owners and     *)
(* scenarios.                                                              *)
(***************************************************************************)
EXTENDS Coordinator, Extrema, FiniteSetTheorems, TLAPS

-----------------------------------------------------------------------------
(* lease.Plan.                                                             *)

\* FairShareTarget is the share rounded up: it is enough for all shards, and one
\* shard less per worker is not.
LEMMA TargetIsCeiling ==
  ASSUME NEW shards \in Nat, NEW workers \in Nat \ {0}
  PROVE  LET target == FairShareTarget(shards, workers)
         IN  /\ target \in Nat
             /\ target * workers >= shards
             /\ shards # 0 => (target - 1) * workers < shards
<1>1. CASE shards = 0
  BY <1>1 DEF FairShareTarget
<1>2. CASE shards # 0
  <2>1. FairShareTarget(shards, workers) = (shards + workers - 1) \div workers
    BY <1>2 DEF FairShareTarget
  <2>2. QED
    BY <1>2, <2>1
<1>3. QED
  BY <1>1, <1>2

\* myShards[:target] has target shards when there are that many (the release
\* branch of lease.Plan).
LEMMA SurplusSize ==
  ASSUME NEW mine \in SUBSET Int, IsFiniteSet(mine), NEW target \in Nat
  PROVE  /\ Surplus(mine, target) \subseteq mine
         /\ Cardinality(mine) >= target =>
              Cardinality(mine \ Surplus(mine, target)) = target
<1> DEFINE Kept(T) == T \ Surplus(T, target)
           Bad == {T \in SUBSET mine : /\ Cardinality(T) >= target
                                       /\ Cardinality(Kept(T)) # target}
<1>1. Surplus(mine, target) \subseteq mine
  BY DEF Surplus
<1>2. SUFFICES Bad = {}
  BY <1>1
<1>3. SUFFICES ASSUME NEW T \in Bad, \A x \in T : T \ {x} \notin Bad
               PROVE  FALSE
  BY MinimalSubset
<1>4. IsFiniteSet(T) /\ Cardinality(T) \in Nat /\ T \subseteq Int
  BY FS_Subset, FS_CardinalityType
<1>5. ASSUME NEW U \in SUBSET T, NEW x \in T, U = {t \in T : t < x}
      PROVE  Cardinality(U) < Cardinality(T)
  <2>1. x \notin U
    BY <1>4, <1>5
  <2>2. Cardinality(U) <= Cardinality(T) /\ Cardinality(U) # Cardinality(T)
    BY <1>4, <1>5, <2>1, FS_Subset
  <2>3. Cardinality(U) \in Nat
    BY <1>4, FS_Subset, FS_CardinalityType
  <2>4. QED
    BY <1>4, <2>2, <2>3
<1>6. CASE Cardinality(T) = target
  <2>1. \A x \in T : ~(Cardinality({t \in T : t < x}) >= target)
    <3>1. SUFFICES ASSUME NEW x \in T
                   PROVE  ~(Cardinality({t \in T : t < x}) >= target)
      OBVIOUS
    <3>2. Cardinality({t \in T : t < x}) < Cardinality(T)
      BY <1>5
    <3>3. Cardinality({t \in T : t < x}) \in Nat
      BY <1>4, FS_Subset, FS_CardinalityType
    <3>4. QED
      BY <1>6, <3>2, <3>3
  <2>2. Kept(T) = T
    BY <2>1 DEF Surplus
  <2>3. QED
    BY <1>6, <2>2
<1>7. CASE Cardinality(T) > target
  <2>1. T # {}
    BY <1>4, <1>7, FS_EmptySet
  <2>2. PICK m \in T : \A y \in T : m >= y
    BY <1>4, <2>1, LargestInteger
  <2>3. Cardinality(T \ {m}) = Cardinality(T) - 1
    BY <1>4, FS_RemoveElement
  <2>4. Cardinality(Kept(T \ {m})) = target
    BY <1>3, <1>4, <1>7, <2>3
  <2>5. \A x \in T \ {m} : {t \in T : t < x} = {t \in T \ {m} : t < x}
    BY <1>4, <2>2
  <2>6. {t \in T : t < m} = T \ {m}
    <3>1. \A t \in T : t < m <=> t # m
      BY <1>4, <2>2
    <3>2. QED
      BY <3>1
  <2>7. m \in Surplus(T, target)
    BY <1>4, <1>7, <2>3, <2>6 DEF Surplus
  <2>8. Kept(T) = Kept(T \ {m})
    BY <2>5, <2>7 DEF Surplus
  <2>9. QED
    BY <2>4, <2>8
<1>8. QED
  BY <1>4, <1>6, <1>7
-----------------------------------------------------------------------------
(***************************************************************************)
(* The plan.                                                               *)
(***************************************************************************)
\* The share of a worker is a natural number.
LEMMA TargetType ==
  ASSUME NEW in, IsFiniteSet(in.active)
  PROVE  Target(in) \in Nat
<1> DEFINE A == in.active \cap in.fresh
           T == {in.owner[s] : s \in A}
           f == [s \in A |-> in.owner[s]]
<1>1. IsFiniteSet(A) /\ Cardinality(in.active) \in Nat
  BY FS_Intersection, FS_CardinalityType
<1>2. f \in Surjection(A, T)
  BY DEF Surjection
<1>3. IsFiniteSet(T)
  <2> HIDE DEF A, T, f
  <2> QED
    BY <1>1, <1>2, FS_Surjection
<1>4. IsFiniteSet(T \ {NoOwner})
  BY <1>3, FS_RemoveElement
<1>5. IsFiniteSet((T \ {NoOwner}) \cup {in.self})
  BY <1>4, FS_AddElement
<1>6. ActiveWorkers(in) = (T \ {NoOwner}) \cup {in.self}
  BY DEF ActiveWorkers
<1>7. Cardinality(ActiveWorkers(in)) \in Nat \ {0}
  BY <1>5, <1>6, FS_CardinalityType, FS_EmptySet
<1>8. QED
  BY <1>1, <1>7, TargetIsCeiling DEF Target

\* The shard pickStealTarget names is heartbeated by a peer that holds more than
\* its share, so that a steal never takes a peer below it.
LEMMA StealSparesPeers ==
  ASSUME NEW in, in.active \subseteq Nat, NEW target,
         NEW s \in PickStealTarget(in, target)
  PROVE  /\ s \in in.active \cap in.fresh \cap in.drained
         /\ in.owner[s] \in ActiveWorkers(in) \ {in.self}
         /\ Load(in, in.owner[s]) > target
         /\ PickStealTarget(in, target) = {s}
<1> DEFINE victims == {o \in Overloaded(in, target) :
                         \A v \in Overloaded(in, target) :
                           \/ Load(in, v) < Load(in, o)
                           \/ Load(in, v) = Load(in, o) /\ o <= v}
           choice == {t \in in.active \cap in.fresh \cap in.drained :
                        in.owner[t] \in victims}
<1>1. choice # {} /\ s = Min(choice) /\ PickStealTarget(in, target) = {s}
  BY DEF PickStealTarget
<1>2. s \in choice
  <2>1. choice \in SUBSET Nat
    OBVIOUS
  <2> HIDE DEF choice
  <2>2. QED
    BY <1>1, <2>1, MinFacts
<1>3. in.owner[s] \in Overloaded(in, target)
  BY <1>2
<1>4. QED
  BY <1>1, <1>2, <1>3 DEF Overloaded

\* What lease.Plan may return, for any table: it releases only shards it polls,
\* takes only candidates, steals at most one shard, and only when every
\* candidate is taken, of a peer above the share; and what the worker ends up
\* with is never more than its share, and exactly its share if it releases.
THEOREM PlanKeepsToShare ==
  ASSUME NEW in, IsFiniteSet(in.active), in.active \subseteq Nat,
         NEW plan \in Plans(in)
  PROVE  LET mine == OwnedActive(in) \ plan.release
         IN  /\ plan.release \subseteq OwnedActive(in)
             /\ plan.acquire \subseteq Candidates(in)
             /\ \A s \in plan.steal :
                  /\ plan.acquire = Candidates(in)
                  /\ plan.steal = {s}
                  /\ s \in in.active \cap in.fresh \cap in.drained
                  /\ in.owner[s] # in.self
                  /\ Load(in, in.owner[s]) > Target(in)
             /\ Cardinality(mine \cup plan.acquire \cup plan.steal)
                  <= Target(in)
             /\ plan.release # {} => Cardinality(mine) = Target(in)
<1> DEFINE target == Target(in)
           mine == OwnedActive(in)
           want == target - Cardinality(mine)
           free == Candidates(in)
<1>1. /\ IsFiniteSet(mine) /\ Cardinality(mine) \in Nat
      /\ IsFiniteSet(free) /\ Cardinality(free) \in Nat
      /\ mine \subseteq in.active /\ free \subseteq in.active
      /\ mine \cap free = {}
  <2>1. mine \subseteq in.active /\ free \subseteq in.active /\ mine \cap free = {}
    BY DEF OwnedActive, Candidates
  <2>2. QED
    BY <2>1, FS_Subset, FS_CardinalityType
<1>2. target \in Nat
  BY TargetType
<1> HIDE DEF target, mine, free
<1>3. CASE want <= 0
  <2>1. plan = [acquire |-> {}, release |-> Surplus(mine, target), steal |-> {}]
    BY <1>3 DEF Plans, target, mine, free
  <2>2. mine \in SUBSET Int
    BY <1>1
  <2>3. Cardinality(mine \ plan.release) = target /\ plan.release \subseteq mine
    BY <1>1, <1>2, <1>3, <2>1, <2>2, SurplusSize
  <2>4. (mine \ plan.release) \cup plan.acquire \cup plan.steal
          = mine \ plan.release
    BY <2>1
  <2>5. QED
    BY <1>2, <2>1, <2>3, <2>4 DEF mine, target
<1>4. CASE want > 0 /\ Cardinality(free) >= want
  <2>1. PICK a \in kSubset(want, free) :
          plan = [acquire |-> a, release |-> {}, steal |-> {}]
    BY <1>1, <1>2, <1>4 DEF Plans, target, mine, free
  <2>2. a \subseteq free /\ Cardinality(a) = want /\ IsFiniteSet(a)
    BY <1>1, FS_Subset DEF kSubset
  <2>3. Cardinality(mine \cap a) = 0
    <3>1. mine \cap a = {}
      BY <1>1, <2>2
    <3>2. QED
      BY <3>1, FS_EmptySet
  <2>4. Cardinality(mine \cup a) = Cardinality(mine) + Cardinality(a)
                                    - Cardinality(mine \cap a)
    BY <1>1, <2>2, FS_Union
  <2>5. Cardinality(mine \cup a) = target
    BY <1>1, <1>2, <2>2, <2>3, <2>4
  <2>6. (mine \ plan.release) \cup plan.acquire \cup plan.steal = mine \cup a
    BY <2>1
  <2>7. QED
    BY <1>2, <2>1, <2>2, <2>5, <2>6 DEF mine, free, target
<1>5. CASE want > 0 /\ ~(Cardinality(free) >= want)
  <2> DEFINE b == PickStealTarget(in, target)
  <2>1. plan = [acquire |-> free, release |-> {}, steal |-> b]
    <3>1. ~(want <= 0)
      BY <1>1, <1>2, <1>5
    <3>2. QED
      BY <1>5, <3>1 DEF Plans, target, mine, free
  <2>2. IsFiniteSet(b) /\ Cardinality(b) \in 0..1
    <3>1. CASE b = {}
      BY <3>1, FS_EmptySet
    <3>2. CASE b # {}
      <4>1. PICK x \in b : TRUE
        BY <3>2
      <4>2. b = {x}
        BY <4>1, StealSparesPeers
      <4>3. IsFiniteSet({x}) /\ Cardinality({x}) = 1
        BY FS_Singleton
      <4>4. IsFiniteSet(b) /\ Cardinality(b) = 1
        BY <4>2, <4>3
      <4>5. QED
        BY <4>4
    <3>3. QED
      BY <3>1, <3>2
  <2>3. IsFiniteSet(mine \cup free)
        /\ Cardinality(mine \cup free) = Cardinality(mine) + Cardinality(free)
    <3>1. Cardinality(mine \cap free) = 0
      BY <1>1, FS_EmptySet
    <3>2. /\ IsFiniteSet(mine \cup free)
          /\ Cardinality(mine \cup free) =
               Cardinality(mine) + Cardinality(free) - Cardinality(mine \cap free)
      BY <1>1, FS_Union
    <3>3. QED
      BY <1>1, <3>1, <3>2
  <2>4. Cardinality((mine \cup free) \cup b)
          <= Cardinality(mine) + Cardinality(free) + 1
    <3>1. Cardinality((mine \cup free) \cap b) \in Nat
      BY <2>2, FS_Intersection, FS_CardinalityType
    <3>2. Cardinality((mine \cup free) \cup b) =
            Cardinality(mine \cup free) + Cardinality(b)
              - Cardinality((mine \cup free) \cap b)
      BY <2>2, <2>3, FS_Union
    <3>3. QED
      BY <1>1, <2>2, <2>3, <3>1, <3>2
  <2>5. (mine \ plan.release) \cup plan.acquire \cup plan.steal
          = (mine \cup free) \cup b
    BY <2>1
  <2>6. Cardinality((mine \cup free) \cup b) \in Nat
    BY <2>2, <2>3, FS_Union, FS_CardinalityType
  <2>7. Cardinality((mine \ plan.release) \cup plan.acquire \cup plan.steal)
          <= target
    <3>1. Cardinality(mine) + Cardinality(free) + 1 <= target
      BY <1>1, <1>2, <1>5
    <3>2. Cardinality((mine \cup free) \cup b) <= target
      BY <1>1, <1>2, <2>4, <2>6, <3>1
    <3>3. QED
      BY <2>5, <3>2
  <2>8. ASSUME NEW s \in plan.steal
        PROVE  /\ plan.acquire = free /\ plan.steal = {s}
               /\ s \in in.active \cap in.fresh \cap in.drained
               /\ in.owner[s] # in.self
               /\ Load(in, in.owner[s]) > target
    BY <2>1, <2>8, StealSparesPeers
  <2>9. QED
    BY <2>1, <2>7, <2>8 DEF mine, free, target
<1>6. QED
  BY <1>1, <1>2, <1>3, <1>4, <1>5

-----------------------------------------------------------------------------
(* The coordinator.                                                        *)

\* A counter somebody still knows is that of an active row, and was first seen
\* after the row's last write.
Seen ==
  \A w \in Workers, s \in Shards :
    observed[w][s] # Outdated => s \in active /\ observed[w][s] <= silent[s]

\* A shard that a plan takes over was nobody's, the planner's own, or stale, and
\* still is unless its counter moved.
Planned ==
  \A w \in Workers : \A s \in todo[w].acquire :
    observed[w][s] # Outdated => \/ owner[s] \in {NoOwner, w}
                                 \/ observed[w][s] >= LeaseDuration

\* The inductive invariant.
IInv == TypeOK /\ Seen /\ Planned

-----------------------------------------------------------------------------
(***************************************************************************)
(* What the helpers do.                                                    *)
(***************************************************************************)
LEMMA InvariantInit == Init => IInv
<1> SUFFICES ASSUME Init PROVE IInv
  OBVIOUS
<1>1. active \subseteq Shards /\ budget \in [Disturbances -> Nat]
  BY ScenariosAssumption DEF Init
<1>2. owner \in [Shards -> Workers \cup {NoOwner}]
  BY InitialAssumption DEF Init
<1>3. polls \in [Workers -> SUBSET Shards]
  BY <1>1 DEF Init
<1>4. /\ draining \in [Workers -> SUBSET Shards]
      /\ holds \in [Workers -> SUBSET Shards]
      /\ todo \in [Workers -> [acquire : SUBSET Shards, steal : SUBSET Shards]]
  BY <1>3 DEF Init, NoPlan
<1>5. /\ silent \in [Shards -> Ticks]
      /\ observed \in [Workers -> [Shards -> Ticks \cup {Outdated}]]
  BY DurationAssumption DEF Init, Ticks
<1>6. \A w \in Workers : /\ draining[w] \cup holds[w] \subseteq polls[w]
                         /\ \A s \in holds[w] : owner[s] = w
  BY <1>1 DEF Init
<1>7. TypeOK
  BY <1>1, <1>2, <1>3, <1>4, <1>5, <1>6 DEF TypeOK, Init
<1>8. Seen /\ Planned
  BY DEF Init, Seen, Planned, NoPlan
<1>9. QED
  BY <1>7, <1>8 DEF IInv

\* A tick more, up to the saturation at LeaseDuration.
LEMMA AfterFacts ==
  ASSUME NEW n \in Ticks \cup {Outdated}
  PROVE  /\ After(n) \in Ticks \cup {Outdated}
         /\ After(n) = Outdated <=> n = Outdated
         /\ n \in Ticks => After(n) \in Ticks
         /\ n >= LeaseDuration => After(n) >= LeaseDuration
         /\ \A m \in Ticks : n <= m => After(n) <= After(m)
BY DurationAssumption DEF After, Ticks, Outdated

\* A write leaves the row with its new owner and nobody with its counter.
LEMMA WriteFacts ==
  ASSUME TypeOK, NEW s \in Shards, NEW o \in Workers \cup {NoOwner}, Write(s, o)
  PROVE  /\ owner' \in [Shards -> Workers \cup {NoOwner}]
         /\ silent' \in [Shards -> Ticks]
         /\ observed' \in [Workers -> [Shards -> Ticks \cup {Outdated}]]
         /\ owner'[s] = o
         /\ \A w \in Workers : observed'[w][s] = Outdated
         /\ \A t \in Shards \ {s} :
              /\ owner'[t] = owner[t] /\ silent'[t] = silent[t]
              /\ \A w \in Workers : observed'[w][t] = observed[w][t]
<1>1. silent' \in [Shards -> Ticks]
  BY DurationAssumption DEF Write, TypeOK, Ticks
<1>2. QED
  BY <1>1 DEF Write, TypeOK

\* A worker in the middle of a plan has a shard to go for.
LEMMA DueFacts ==
  ASSUME TypeOK, NEW w \in Workers, Acting(w)
  PROVE  /\ Due(w) \in Shards
         /\ Due(w) \in todo[w].acquire \/ Due(w) \in todo[w].steal
<1> DEFINE next == IF todo[w].acquire # {} THEN todo[w].acquire ELSE todo[w].steal
<1>1. todo[w] \in [acquire : SUBSET Shards, steal : SUBSET Shards]
  BY DEF TypeOK
<1>2. next # {} /\ next \in SUBSET Nat
  BY <1>1, ShardsAssumption DEF Acting, NoPlan
<1>3. Min(next) \in next
  <2> HIDE DEF next
  <2> QED
    BY <1>2, MinFacts
<1>4. QED
  BY <1>1, <1>3 DEF Due

\* Advance only drops shards from the plan.
LEMMA AdvanceFacts ==
  ASSUME TypeOK, NEW w \in Workers, Advance(w)
  PROVE  /\ todo' \in [Workers -> [acquire : SUBSET Shards,
                                   steal : SUBSET Shards]]
         /\ \A v \in Workers : todo'[v].acquire \subseteq todo[v].acquire
<1>1. todo[w] \in [acquire : SUBSET Shards, steal : SUBSET Shards]
  BY DEF TypeOK
<1>2. todo'[w] \in [acquire : SUBSET Shards, steal : SUBSET Shards]
      /\ todo'[w].acquire \subseteq todo[w].acquire
  <2>1. CASE todo[w].acquire = {}
    <3>1. todo'[w] = NoPlan
      BY <2>1 DEF Advance, TypeOK
    <3>2. QED
      BY <3>1 DEF NoPlan
  <2>2. CASE todo[w].acquire # {}
    BY <1>1, <2>2 DEF Advance, TypeOK
  <2>3. QED
    BY <2>1, <2>2
<1>3. QED
  BY <1>2 DEF Advance, TypeOK

\* What a plan of reconcile contains: the releases are pollers of the worker,
\* and what it acquires is free or stale by what it has seen.
LEMMA PlanFacts ==
  ASSUME TypeOK, NEW w \in Workers, NEW plan \in Plans(PlanInput(w))
  PROVE  /\ plan.release \subseteq polls[w]
         /\ plan.acquire \subseteq active /\ plan.steal \subseteq active
         /\ \A s \in plan.acquire : \/ owner[s] \in {NoOwner, w}
                                     \/ RefreshObservations(w)[s] >= LeaseDuration
<1> DEFINE in == PlanInput(w)
<1>1. /\ in.active = active /\ in.owner = owner /\ in.self = w
      /\ in.owned = polls[w]
      /\ in.fresh = {s \in active : owner[s] # NoOwner /\
                                    RefreshObservations(w)[s] < LeaseDuration}
  BY DEF PlanInput
<1>2. IsFiniteSet(active) /\ active \subseteq Nat /\ active \subseteq Shards
  BY ShardsAssumption, FS_Subset DEF TypeOK
<1>3. \A s \in active : RefreshObservations(w)[s] \in Int
  BY <1>2, DurationAssumption DEF TypeOK, RefreshObservations, Ticks, Outdated
<1> HIDE DEF in
<1>4. /\ plan.release \subseteq OwnedActive(in)
      /\ plan.acquire \subseteq Candidates(in)
      /\ \A s \in plan.steal : s \in in.active
  BY <1>1, <1>2, PlanKeepsToShare DEF in
<1>5. \A s \in Candidates(in) :
        /\ s \in active
        /\ \/ owner[s] \in {NoOwner, w}
           \/ RefreshObservations(w)[s] >= LeaseDuration
  BY <1>1, <1>3, DurationAssumption DEF Candidates
<1>6. QED
  BY <1>1, <1>4, <1>5 DEF OwnedActive

-----------------------------------------------------------------------------
(***************************************************************************)
(* Every step keeps the invariant.                                         *)
(***************************************************************************)
\* A write to a row keeps what is said of counters and plans, if plans only
\* shrink.
LEMMA WriteKeeps ==
  ASSUME IInv, NEW s \in Shards, NEW o \in Workers \cup {NoOwner}, Write(s, o),
         \A v \in Workers : todo'[v].acquire \subseteq todo[v].acquire,
         active \ {s} \subseteq active'
  PROVE  Seen' /\ Planned'
<1> USE DEF IInv
<1>1. /\ \A w \in Workers : observed'[w][s] = Outdated
      /\ \A t \in Shards \ {s} :
           /\ owner'[t] = owner[t] /\ silent'[t] = silent[t]
           /\ \A w \in Workers : observed'[w][t] = observed[w][t]
  BY WriteFacts
<1>2. Seen'
  BY <1>1 DEF Seen
<1>3. Planned'
  <2>1. \A v \in Workers : todo[v].acquire \subseteq Shards
    BY DEF TypeOK
  <2>2. QED
    BY <1>1, <2>1 DEF Planned
<1>4. QED
  BY <1>2, <1>3

LEMMA TickKeeps ==
  ASSUME IInv, Tick
  PROVE  IInv'
<1> USE DEF IInv
<1>1. ASSUME NEW s \in Shards
      PROVE  /\ silent[s] \in Ticks /\ silent'[s] \in Ticks
             /\ s \in active => silent'[s] = After(silent[s])
  BY AfterFacts, DurationAssumption DEF Tick, TypeOK, Ticks
<1>2. ASSUME NEW w \in Workers, NEW s \in Shards
      PROVE  /\ observed[w][s] \in Ticks \cup {Outdated}
             /\ observed'[w][s] \in Ticks \cup {Outdated}
             /\ s \in active => observed'[w][s] = After(observed[w][s])
             /\ s \notin active => observed'[w][s] = observed[w][s]
  BY AfterFacts DEF Tick, TypeOK
<1>3. TypeOK'
  <2>1. silent' \in [Shards -> Ticks]
    BY <1>1 DEF Tick
  <2>2. observed' \in [Workers -> [Shards -> Ticks \cup {Outdated}]]
    BY <1>2 DEF Tick
  <2>3. QED
    BY <2>1, <2>2 DEF Tick, TypeOK
<1>4. Seen'
  <2> SUFFICES ASSUME NEW w \in Workers, NEW s \in Shards,
                      observed'[w][s] # Outdated
               PROVE  s \in active' /\ observed'[w][s] <= silent'[s]
    BY DEF Seen
  <2>1. observed[w][s] # Outdated
    BY <1>2, AfterFacts
  <2>2. s \in active /\ observed[w][s] <= silent[s]
    BY <2>1 DEF Seen
  <2>3. QED
    BY <1>1, <1>2, <2>2, AfterFacts DEF Tick
<1>5. Planned'
  <2> SUFFICES ASSUME NEW w \in Workers, NEW s \in todo[w].acquire,
                      observed'[w][s] # Outdated
               PROVE  owner[s] \in {NoOwner, w} \/ observed'[w][s] >= LeaseDuration
    BY DEF Planned, Tick
  <2>1. s \in Shards
    BY DEF TypeOK
  <2>2. observed[w][s] # Outdated
    BY <1>2, <2>1, AfterFacts
  <2>3. owner[s] \in {NoOwner, w} \/ observed[w][s] >= LeaseDuration
    BY <2>2 DEF Planned
  <2>4. QED
    BY <1>2, <2>1, <2>2, <2>3, AfterFacts DEF Seen
<1>6. QED
  BY <1>3, <1>4, <1>5

LEMMA ReconcileKeeps ==
  ASSUME IInv, NEW w \in Workers, Reconcile(w)
  PROVE  IInv'
<1> USE DEF IInv
<1>1. PICK plan \in Plans(PlanInput(w)) :
        /\ draining' = [draining EXCEPT ![w] = @ \cup plan.release]
        /\ todo' = [todo EXCEPT ![w] = [acquire |-> plan.acquire,
                                        steal |-> plan.steal]]
  BY DEF Reconcile
<1>2. /\ plan.release \subseteq polls[w]
      /\ plan.acquire \subseteq active /\ plan.steal \subseteq active
      /\ \A s \in plan.acquire : \/ owner[s] \in {NoOwner, w}
                                  \/ RefreshObservations(w)[s] >= LeaseDuration
  BY PlanFacts
<1>3. active \subseteq Shards /\ silent \in [Shards -> Ticks]
  BY DEF TypeOK
<1>4. ASSUME NEW s \in Shards
      PROVE  /\ RefreshObservations(w)[s] \in Ticks \cup {Outdated}
             /\ RefreshObservations(w)[s] \in {observed[w][s], 0}
             /\ RefreshObservations(w)[s] # observed[w][s] => s \in active
  BY <1>3, DurationAssumption DEF RefreshObservations, TypeOK, Ticks
<1>5. /\ observed' = [observed EXCEPT ![w] = RefreshObservations(w)]
      /\ RefreshObservations(w) \in [Shards -> Ticks \cup {Outdated}]
  BY <1>4 DEF Reconcile, RefreshObservations
<1>6. TypeOK'
  <2>1. observed' \in [Workers -> [Shards -> Ticks \cup {Outdated}]]
    BY <1>5 DEF TypeOK
  <2>2. todo' \in [Workers -> [acquire : SUBSET Shards, steal : SUBSET Shards]]
    BY <1>1, <1>2, <1>3 DEF TypeOK
  <2>3. /\ draining' \in [Workers -> SUBSET Shards]
        /\ \A v \in Workers : draining'[v] \subseteq polls[v]
    BY <1>1, <1>2 DEF TypeOK
  <2>4. QED
    BY <2>1, <2>2, <2>3 DEF TypeOK, Reconcile
<1>7. Seen'
  BY <1>3, <1>4, <1>5, DurationAssumption DEF Seen, Reconcile, TypeOK, Ticks
<1>8. Planned'
  <2>1. ASSUME NEW v \in Workers, v # w
        PROVE  todo'[v] = todo[v] /\ observed'[v] = observed[v]
    BY <1>1, <1>5, <2>1 DEF TypeOK
  <2>2. todo'[w].acquire = plan.acquire
        /\ observed'[w] = RefreshObservations(w)
    BY <1>1, <1>5 DEF TypeOK
  <2>3. QED
    BY <1>2, <2>1, <2>2 DEF Planned, Reconcile
<1>9. QED
  BY <1>6, <1>7, <1>8
\* tryAcquire, whether or not its answer arrives: the row changes hands, and a
\* poller that had its counter does not have it any more.
LEMMA AcquireKeeps ==
  ASSUME IInv, NEW w \in Workers, TryAcquire(w) \/ AcquireLost(w)
  PROVE  IInv'
<1> USE DEF IInv
<1> DEFINE s == Due(w)
<1>1. Acting(w) /\ Write(s, w) /\ Advance(w) /\ active' = active
  BY DEF TryAcquire, AcquireLost
<1>2. s \in Shards
  BY <1>1, DueFacts
<1> HIDE DEF s
<1>3. /\ todo' \in [Workers -> [acquire : SUBSET Shards, steal : SUBSET Shards]]
      /\ \A v \in Workers : todo'[v].acquire \subseteq todo[v].acquire
  BY <1>1, AdvanceFacts
<1>4. Seen' /\ Planned'
  BY <1>1, <1>2, <1>3, WriteKeeps
<1>5. /\ owner' \in [Shards -> Workers \cup {NoOwner}]
      /\ silent' \in [Shards -> Ticks]
      /\ observed' \in [Workers -> [Shards -> Ticks \cup {Outdated}]]
      /\ owner'[s] = w
      /\ \A t \in Shards \ {s} : owner'[t] = owner[t]
  BY <1>1, <1>2, WriteFacts
<1>6. CASE TryAcquire(w)
  <2>1. /\ polls' = [polls EXCEPT ![w] = @ \cup {s}]
        /\ holds' = [v \in Workers |-> IF v = w THEN holds[v] \cup {s}
                                                ELSE holds[v] \ {s}]
        /\ UNCHANGED <<draining, stalled, budget>>
    BY <1>6 DEF TryAcquire, s
  <2>2. polls' \in [Workers -> SUBSET Shards] /\ holds' \in [Workers -> SUBSET Shards]
    BY <1>2, <2>1 DEF TypeOK
  <2>3. \A v \in Workers : /\ draining'[v] \cup holds'[v] \subseteq polls'[v]
                            /\ \A t \in holds'[v] : owner'[t] = v
    BY <1>2, <1>5, <2>1 DEF TypeOK
  <2>4. QED
    BY <1>1, <1>3, <1>4, <1>5, <2>1, <2>2, <2>3 DEF TypeOK
<1>7. CASE AcquireLost(w)
  <2>1. /\ holds' = [v \in Workers |-> holds[v] \ {s}]
        /\ UNCHANGED <<polls, draining, stalled>>
        /\ budget' \in [Disturbances -> Nat]
    BY <1>7 DEF AcquireLost, s, Spend, TypeOK, Disturbances
  <2>2. holds' \in [Workers -> SUBSET Shards]
    BY <2>1 DEF TypeOK
  <2>3. \A v \in Workers : /\ draining'[v] \cup holds'[v] \subseteq polls'[v]
                            /\ \A t \in holds'[v] : owner'[t] = v
    BY <1>5, <2>1 DEF TypeOK
  <2>4. QED
    BY <1>1, <1>3, <1>4, <1>5, <2>1, <2>2, <2>3 DEF TypeOK
<1>8. QED
  BY <1>6, <1>7

\* Pollers write only rows they hold the counter of.
LEMMA PollerKeeps ==
  ASSUME IInv, NEW w \in Workers, NEW s \in Shards,
         Heartbeat(w, s) \/ FinishShard(w, s) \/ PollerStops(w, s)
  PROVE  IInv'
<1> USE DEF IInv
<1>0. \A v \in Workers : todo'[v].acquire \subseteq todo[v].acquire
  BY DEF Heartbeat, FinishShard, PollerStops
<1>1. CASE Heartbeat(w, s)
  <2>1. Write(s, w) /\ active \ {s} \subseteq active' /\ owner[s] = w
    BY <1>1 DEF Heartbeat, TypeOK
  <2>2. QED
    BY <1>0, <1>1, <2>1, WriteFacts, WriteKeeps DEF Heartbeat, TypeOK
<1>2. CASE FinishShard(w, s)
  <2>1. Write(s, w) /\ active \ {s} \subseteq active' /\ owner[s] = w
    BY <1>2 DEF FinishShard, TypeOK
  <2>2. Seen' /\ Planned'
    BY <1>0, <2>1, WriteKeeps
  <2>3. budget' \in [Disturbances -> Nat] /\ active' \subseteq Shards
    BY <1>2 DEF FinishShard, Spend, TypeOK, Disturbances
  <2>4. QED
    BY <1>2, <2>1, <2>2, <2>3, WriteFacts DEF FinishShard, TypeOK
<1>3. CASE PollerStops(w, s)
  <2>1. /\ polls' \in [Workers -> SUBSET Shards]
        /\ draining' \in [Workers -> SUBSET Shards]
        /\ holds' \in [Workers -> SUBSET Shards]
        /\ \A v \in Workers : /\ draining'[v] \cup holds'[v] \subseteq polls'[v]
                               /\ holds'[v] = IF v = w THEN holds[v] \ {s}
                                                       ELSE holds[v]
    BY <1>3 DEF PollerStops, TypeOK
  <2>2. CASE s \in holds[w]
    <3>1. Write(s, NoOwner) /\ owner[s] = w
      BY <1>3, <2>2 DEF PollerStops, TypeOK
    <3>2. Seen' /\ Planned'
      BY <1>0, <1>3, <3>1, WriteKeeps DEF PollerStops
    <3>3. /\ owner' \in [Shards -> Workers \cup {NoOwner}]
          /\ silent' \in [Shards -> Ticks]
          /\ observed' \in [Workers -> [Shards -> Ticks \cup {Outdated}]]
          /\ \A t \in Shards \ {s} : owner'[t] = owner[t]
      BY <3>1, WriteFacts
    <3>4. \A v \in Workers : \A t \in holds'[v] : owner'[t] = v
      BY <2>1, <3>1, <3>3 DEF TypeOK
    <3>5. QED
      BY <1>3, <2>1, <3>2, <3>3, <3>4 DEF PollerStops, TypeOK
  <2>3. CASE s \notin holds[w]
    <3>1. UNCHANGED <<owner, silent, observed, active, todo, stalled, budget>>
      BY <1>3, <2>3 DEF PollerStops
    <3>2. QED
      BY <2>1, <3>1 DEF TypeOK, Seen, Planned
  <2>4. QED
    BY <2>2, <2>3
<1>4. QED
  BY <1>1, <1>2, <1>3

LEMMA InvariantStep ==
  ASSUME IInv, [Next]_vars
  PROVE  IInv'
<1>1. CASE Tick
  BY <1>1, TickKeeps
<1>2. ASSUME NEW w \in Workers, Stall(w)
      PROVE  IInv'
  BY <1>2 DEF Stall, Spend, IInv, TypeOK, Seen, Planned, Disturbances
<1>3. ASSUME NEW w \in Workers, Resume(w)
      PROVE  IInv'
  BY <1>3 DEF Resume, IInv, TypeOK, Seen, Planned
<1>4. ASSUME NEW w \in Workers, Reconcile(w)
      PROVE  IInv'
  BY <1>4, ReconcileKeeps
<1>5. ASSUME NEW w \in Workers, TryAcquire(w) \/ AcquireLost(w)
      PROVE  IInv'
  BY <1>5, AcquireKeeps
<1>6. ASSUME NEW w \in Workers, AcquireRefused(w)
      PROVE  IInv'
  <2>1. /\ todo' \in [Workers -> [acquire : SUBSET Shards,
                                  steal : SUBSET Shards]]
        /\ \A v \in Workers : todo'[v].acquire \subseteq todo[v].acquire
    BY <1>6, AdvanceFacts DEF AcquireRefused, IInv
  <2>2. QED
    BY <1>6, <2>1 DEF AcquireRefused, IInv, TypeOK, Seen, Planned
<1>7. ASSUME NEW w \in Workers, NEW s \in Shards,
             Heartbeat(w, s) \/ FinishShard(w, s) \/ PollerStops(w, s)
      PROVE  IInv'
  BY <1>7, PollerKeeps
<1>8. CASE UNCHANGED vars
  BY <1>8 DEF vars, IInv, TypeOK, Seen, Planned
<1>9. QED
  BY <1>1, <1>2, <1>3, <1>4, <1>5, <1>6, <1>7, <1>8 DEF Next, Pass

-----------------------------------------------------------------------------
(***************************************************************************)
(* The theorems.                                                           *)
(***************************************************************************)
\* Spec keeps the inductive invariant.
THEOREM Invariance == Spec => []IInv
<1>1. Init => IInv
  BY InvariantInit
<1>2. IInv /\ [Next]_vars => IInv'
  BY InvariantStep
<1>3. QED
  BY <1>1, <1>2, PTL DEF Spec

\* The variables keep their types; in particular a poller whose lease is current
\* is in the row's owner column, so no shard has two such pollers.
THEOREM TypeCorrect == Spec => []TypeOK
<1>1. IInv => TypeOK
  BY DEF IInv
<1>2. QED
  BY <1>1, Invariance, PTL

\* A lease changes hands without a plan to steal it only after lease_duration
\* of silence, for any durations, stalls and lost answers.
THEOREM TakeoverNeedsSilence == Spec => StaleMeansSilent
<1> DEFINE Rule(w, s) ==
      (owner'[s] = w /\ owner[s] \notin {w, NoOwner})
        => silent[s] >= LeaseDuration \/ s \in todo[w].steal
<1>1. ASSUME IInv, [Next]_vars, NEW w \in Workers, NEW s \in Shards,
             owner'[s] = w, owner[s] \notin {w, NoOwner}
      PROVE  silent[s] >= LeaseDuration \/ s \in todo[w].steal
  <2> USE DEF IInv
  <2>a. owner' # owner
    BY <1>1
  <2>1. ASSUME NEW v \in Workers, NEW t \in Shards,
               Heartbeat(v, t) \/ FinishShard(v, t) \/ PollerStops(v, t)
        PROVE  FALSE
    <3>1. \/ owner' = owner
          \/ owner' = [owner EXCEPT ![t] = NoOwner]
          \/ owner' = [owner EXCEPT ![t] = v] /\ owner[t] = v
      BY <1>1, <2>1 DEF Heartbeat, FinishShard, PollerStops, Write, TypeOK
    <3>2. QED
      BY <1>1, <3>1, NoOwnerAssumption DEF TypeOK
  <2>2. PICK v \in Workers : TryAcquire(v) \/ AcquireLost(v)
    BY <1>1, <2>a, <2>1
    DEF Next, Pass, Tick, Stall, Resume, Reconcile, AcquireRefused, vars
  <2>3. Acting(v) /\ ~Refusal(v, Due(v)) /\ owner' = [owner EXCEPT ![Due(v)] = v]
    BY <2>2 DEF TryAcquire, AcquireLost, Write
  <2>4. v = w /\ Due(v) = s
    BY <1>1, <2>3 DEF TypeOK
  <2>5. observed[w][s] # Outdated
    BY <2>3, <2>4 DEF Refusal
  <2>6. s \in todo[w].acquire \/ s \in todo[w].steal
    BY <1>1, <2>3, <2>4, DueFacts
  <2>7. CASE s \in todo[w].acquire
    <3>1. observed[w][s] >= LeaseDuration
      BY <1>1, <2>5, <2>7 DEF Planned
    <3>2. observed[w][s] <= silent[s]
      BY <1>1, <2>5 DEF Seen
    <3>3. observed[w][s] \in Int /\ silent[s] \in Int /\ LeaseDuration \in Int
      BY <1>1, DurationAssumption DEF TypeOK, Ticks, Outdated
    <3>4. QED
      BY <3>1, <3>2, <3>3
  <2>8. QED
    BY <2>6, <2>7
<1>2. IInv /\ [Next]_vars => [\A w \in Workers, s \in Shards : Rule(w, s)]_vars
  BY <1>1
<1>3. QED
  BY <1>2, Invariance, PTL DEF Spec, StaleMeansSilent
=============================================================================
