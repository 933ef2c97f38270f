-------------------------- MODULE DiscoveryProofs --------------------------
(***************************************************************************)
(* Proofs about Discovery, for any number of workers, any shards and       *)
(* lineage, any threshold and any number of disturbances.                  *)
(***************************************************************************)
EXTENDS Discovery, TLAPS

\* A shard is closed only after its parents, and finished only when closed.
Lineage ==
  /\ \A s \in closed : Parents[s] \subseteq closed
  /\ done \subseteq closed

\* A finished shard is at SHARD_END until its row is deleted; whatever a pass
\* remembers at SHARD_END was finished, and only such shards are counted absent.
Finished ==
  /\ ended \subseteq done /\ done \subseteq ended \cup reaped
  /\ reading \cap ended = {}
  /\ \A w \in Workers : /\ pass[w].ended \subseteq done
                        /\ \A s \in Shards : absent[w][s] # 0 => s \in done

\* A row somebody holds the counter of is not taken for abandoned.
Unheld == \A v, w \in Workers : quiet[w] \cap holds[v] = {}

Spent == \A kind \in Disturbances : budget.left[kind] <= budget.given[kind]

\* discoveryOK is set by a pass that listed the stream, which alone cleans up.
Phases == \A w \in Workers :
            /\ pass[w].phase \in {"idle", "ensure"} => ~pass[w].ok
            /\ pass[w].phase = "clean" => pass[w].ok

\* The pass of w has listed the stream, and s was not there.
Unlisted(w, s) ==
  (pass[w].phase = "ensure" \/ pass[w].ok) /\ s \notin pass[w].live

\* The absences of s that w has counted, and the one it is about to count.
Absences(w, s) == absent[w][s] + (IF Unlisted(w, s) THEN 1 ELSE 0)

\* An absence of a shard that is not trimmed is an omission of ListShards, or
\* the one listing that was made before the shard existed.
Excused ==
  \A w \in Workers : \A s \in Shards \ trimmed :
    Absences(w, s) + budget.left["omit"] <= Misled(s)

\* A deleted row stays that of a trimmed shard, which nobody can open.
Gone == \A s \in reaped : Misled(s) < OrphanReapThreshold
                            => s \in trimmed \ reading

\* Neither a listing nor a scan misses anything.
Accurate == budget.given["omit"] = 0 /\ budget.given["stale"] = 0

\* Then rows and acquisitions follow the lineage.
Followed ==
  Accurate =>
    /\ \A w \in Workers : \A s \in pass[w].live :
         Parents[s] \subseteq pass[w].live \cup trimmed
    /\ \A s \in rows : Parents[s] \subseteq rows \cup done \cup trimmed
    /\ \A w \in Workers : \A s \in pass[w].take \cup polls[w] :
         Parents[s] \subseteq done \cup trimmed

\* The inductive invariant.
IInv == /\ TypeOK /\ Lineage /\ Finished /\ Unheld /\ Spent /\ Phases
        /\ Excused /\ Gone /\ Followed

LEMMA InvariantInit == Init => IInv
<1> SUFFICES ASSUME Init PROVE IInv
  OBVIOUS
<1>1. PICK a \in Allotments : budget = [given |-> a, left |-> a]
  BY DEF Init
<1>2. a \in [Disturbances -> Nat]
  BY AllotmentsAssumption
<1>3. TypeOK
  <2>1. /\ {polls, holds, known, quiet} \subseteq [Workers -> SUBSET Shards]
        /\ \A w \in Workers : holds[w] = {} /\ quiet[w] = {} /\ known[w] = {}
    BY DEF Init
  <2>2. pass \in [Workers -> [phase : {"idle", "ensure", "list", "take", "clean"},
                              ok : BOOLEAN, live : SUBSET Shards,
                              ended : SUBSET Shards, take : SUBSET Shards]]
    BY DEF Init, NoPass
  <2>3. absent \in [Workers -> [Shards -> 0..OrphanReapThreshold]]
    BY ThresholdAssumption DEF Init
  <2>4. QED
    BY <1>1, <1>2, <2>1, <2>2, <2>3 DEF Init, TypeOK
<1>4. Lineage /\ Finished /\ Unheld /\ Phases /\ Gone
  BY DEF Init, Lineage, Finished, Unheld, Phases, Gone, NoPass
<1>5. Spent /\ Excused
  BY <1>1, <1>2
  DEF Init, Spent, Excused, Absences, Unlisted, Misled, NoPass, Disturbances
<1>6. Followed
  BY DEF Init, Followed, NoPass
<1>7. QED
  BY <1>3, <1>4, <1>5, <1>6 DEF IInv

-----------------------------------------------------------------------------
(***************************************************************************)
(* Budgets, passes and the deletions of a pass.                            *)
(***************************************************************************)
LEMMA BudgetFacts ==
  ASSUME TypeOK
  PROVE  \A kind \in Disturbances :
           budget.given[kind] \in Nat /\ budget.left[kind] \in Nat
BY AllotmentsAssumption DEF TypeOK

\* A disturbance uses up its allotment and no other.
LEMMA SpendFacts ==
  ASSUME TypeOK, Spent, NEW kind \in Disturbances, Spend(kind)
  PROVE  /\ budget' \in [given : Allotments, left : [Disturbances -> Nat]]
         /\ Spent'
         /\ budget'.given = budget.given
         /\ budget'.left[kind] = budget.left[kind] - 1
         /\ \A k \in Disturbances \ {kind} : budget'.left[k] = budget.left[k]
<1>1. /\ budget'.given = budget.given
      /\ budget'.left = [budget.left EXCEPT ![kind] = @ - 1]
      /\ budget' = [given |-> budget'.given, left |-> budget'.left]
  BY DEF Spend, TypeOK
<1>2. budget'.left \in [Disturbances -> Nat]
  BY <1>1 DEF Spend, TypeOK
<1>3. budget' \in [given : Allotments, left : [Disturbances -> Nat]]
  <2>1. budget'.given \in Allotments
    BY <1>1 DEF TypeOK
  <2>2. QED
    BY <1>1, <1>2, <2>1
<1>4. /\ budget'.left[kind] = budget.left[kind] - 1
      /\ \A k \in Disturbances \ {kind} : budget'.left[k] = budget.left[k]
  BY <1>1 DEF TypeOK
<1>5. Spent'
  BY <1>1, <1>4, BudgetFacts DEF Spent
<1>6. QED
  BY <1>1, <1>3, <1>4, <1>5

PassType == [phase : {"idle", "ensure", "list", "take", "clean"},
             ok : BOOLEAN, live : SUBSET Shards,
             ended : SUBSET Shards, take : SUBSET Shards]

\* The pass of w alone becomes r.
Moves(w, r) ==
  /\ pass' \in [Workers -> PassType]
  /\ pass'[w] = r
  /\ \A v \in Workers \ {w} : pass'[v] = pass[v]

LEMMA MovesFacts ==
  ASSUME TypeOK, NEW w \in Workers, NEW r \in PassType,
         pass' = [pass EXCEPT ![w] = r]
  PROVE  Moves(w, r)
BY DEF TypeOK, PassType, Moves

LEMMA NoPassType == NoPass \in PassType
BY DEF NoPass, PassType

\* What each step of a pass makes of it.
LEMMA PassSteps ==
  ASSUME TypeOK, NEW w \in Workers
  PROVE  LET p == pass[w]
         IN  /\ Crash(w) \/ ListFails(w) \/ Cleanup(w) => Moves(w, NoPass)
             /\ Discover(w) => \E l \in SUBSET InStream :
                  /\ Listing(l)
                  /\ Moves(w, [phase |-> "ensure", ok |-> p.ok, live |-> l,
                               ended |-> p.ended, take |-> p.take])
             /\ EnsureRows(w) =>
                  Moves(w, [phase |-> "list", ok |-> TRUE, live |-> p.live,
                            ended |-> p.ended, take |-> p.take])
             /\ DiscoverFails(w) =>
                  Moves(w, [phase |-> "list", ok |-> p.ok, live |-> {},
                            ended |-> p.ended, take |-> p.take])
             /\ Take(w) =>
                  Moves(w, IF p.ok
                             THEN [phase |-> "clean", ok |-> p.ok,
                                   live |-> p.live, ended |-> p.ended,
                                   take |-> {}]
                             ELSE NoPass)
<1> DEFINE p == pass[w]
<1>1. p \in PassType /\ pass \in [Workers -> PassType]
  BY DEF TypeOK, PassType
<1>2. Crash(w) \/ ListFails(w) \/ Cleanup(w) => Moves(w, NoPass)
  BY MovesFacts, NoPassType DEF Crash, ListFails, Cleanup
<1>3. ASSUME Discover(w)
      PROVE  \E l \in SUBSET InStream :
               /\ Listing(l)
               /\ Moves(w, [phase |-> "ensure", ok |-> p.ok, live |-> l,
                            ended |-> p.ended, take |-> p.take])
  <2>1. PICK l \in SUBSET InStream :
          /\ Listing(l)
          /\ pass' = [pass EXCEPT ![w].phase = "ensure", ![w].live = l]
    BY <1>3 DEF Discover
  <2>2. l \in SUBSET Shards
    BY DEF InStream
  <2>3. Moves(w, [phase |-> "ensure", ok |-> p.ok, live |-> l,
                  ended |-> p.ended, take |-> p.take])
    BY <1>1, <2>1, <2>2 DEF Moves, PassType
  <2>4. QED
    BY <2>1, <2>3
<1>4. ASSUME EnsureRows(w)
      PROVE  Moves(w, [phase |-> "list", ok |-> TRUE, live |-> p.live,
                       ended |-> p.ended, take |-> p.take])
  BY <1>1, <1>4 DEF EnsureRows, Moves, PassType
<1>5. ASSUME DiscoverFails(w)
      PROVE  Moves(w, [phase |-> "list", ok |-> p.ok, live |-> {},
                       ended |-> p.ended, take |-> p.take])
  BY <1>1, <1>5 DEF DiscoverFails, Moves, PassType
<1>6. ASSUME Take(w)
      PROVE  Moves(w, IF p.ok
                        THEN [phase |-> "clean", ok |-> p.ok, live |-> p.live,
                              ended |-> p.ended, take |-> {}]
                        ELSE NoPass)
  <2>1. CASE p.ok
    <3>1. pass' = [pass EXCEPT ![w].phase = "clean", ![w].take = {}]
      BY <1>6, <2>1 DEF Take
    <3>2. Moves(w, [phase |-> "clean", ok |-> p.ok, live |-> p.live,
                    ended |-> p.ended, take |-> {}])
      BY <1>1, <3>1 DEF Moves, PassType
    <3>3. QED
      BY <2>1, <3>2
  <2>2. CASE ~p.ok
    <3>1. pass' = [pass EXCEPT ![w] = NoPass]
      BY <1>6, <2>2 DEF Take
    <3>2. QED
      BY <2>2, <3>1, MovesFacts, NoPassType
  <2>3. QED
    BY <2>1, <2>2
<1>7. QED
  BY <1>2, <1>3, <1>4, <1>5, <1>6

\* What List remembers of what it saw.
LEMMA ListFacts ==
  ASSUME TypeOK, NEW w \in Workers, List(w)
  PROVE  \E seen \in SUBSET rows :
           /\ Scan(seen)
           /\ known' = [known EXCEPT ![w] = seen]
           /\ quiet' = [quiet EXCEPT ![w] = @ \cap seen]
           /\ absent' = [absent EXCEPT ![w] =
                           [s \in Shards |-> IF s \in seen THEN absent[w][s]
                                             ELSE 0]]
           /\ \E t \in SUBSET Takeable(w, seen) :
                Moves(w, [phase |-> "take", ok |-> pass[w].ok,
                          live |-> pass[w].live, ended |-> ended \cap seen,
                          take |-> t])
<1>1. PICK seen \in SUBSET rows :
        /\ Scan(seen)
        /\ known' = [known EXCEPT ![w] = seen]
        /\ quiet' = [quiet EXCEPT ![w] = @ \cap seen]
        /\ absent' = [absent EXCEPT ![w] =
                        [s \in Shards |-> IF s \in seen THEN absent[w][s]
                                          ELSE 0]]
        /\ \E t \in {{}} \cup {{s} : s \in Takeable(w, seen)} :
             pass' = [pass EXCEPT ![w].phase = "take", ![w].take = t,
                                  ![w].ended = ended \cap seen]
  BY DEF List
<1>2. PICK t \in {{}} \cup {{s} : s \in Takeable(w, seen)} :
        pass' = [pass EXCEPT ![w].phase = "take", ![w].take = t,
                             ![w].ended = ended \cap seen]
  BY <1>1
<1>3. t \in SUBSET Takeable(w, seen) /\ t \in SUBSET Shards
  BY <1>2 DEF Takeable, TypeOK
<1>4. Moves(w, [phase |-> "take", ok |-> pass[w].ok, live |-> pass[w].live,
                ended |-> ended \cap seen, take |-> t])
  <2>1. /\ pass[w] \in PassType /\ pass \in [Workers -> PassType]
        /\ ended \cap seen \in SUBSET Shards
    BY DEF TypeOK, PassType
  <2>2. QED
    BY <1>2, <1>3, <2>1 DEF Moves, PassType
<1>5. QED
  BY <1>1, <1>3, <1>4

\* The absences of w after cleanupOrphans, before it deletes anything.
Count(w) == [s \in Shards |-> IF s \in pass[w].live THEN 0
                              ELSE IF s \in Orphans(w)
                                THEN CappedAdd(absent[w][s])
                              ELSE absent[w][s]]

\* w has deleted the rows of gone, finished shards, absent for long enough, that
\* nobody holds, and counts absences anew for those of noted.
Cleaned(w, gone, noted) ==
  /\ \A s \in gone : /\ s \in done /\ s \in rows
                     /\ Count(w)[s] >= OrphanReapThreshold
                     /\ \A v \in Workers : s \notin holds[v]
  /\ rows' = rows \ gone /\ ended' = ended \ gone
  /\ reaped' = reaped \cup gone
  /\ owner' = [s \in Shards |-> IF s \in gone THEN NoOwner ELSE owner[s]]
  /\ known' = [v \in Workers |-> known[v] \ gone]
  /\ quiet' = [v \in Workers |-> quiet[v] \ gone]
  /\ \/ absent' = absent
     \/ absent' = [absent EXCEPT ![w] =
           [s \in Shards |-> IF s \in noted THEN 0 ELSE Count(w)[s]]]

LEMMA CleanupFacts ==
  ASSUME IInv, NEW w \in Workers, Cleanup(w)
  PROVE  \E gone \in SUBSET Orphans(w) : \E noted \in SUBSET Orphans(w) :
           Cleaned(w, gone, noted)
<1> USE DEF IInv
<1> DEFINE gone == Reapable(w, Count(w)) \cap known[w]
<1>1. CASE pass[w].live = {}
  <2>1. UNCHANGED <<rows, ended, owner, known, quiet, absent, reaped>>
    BY <1>1 DEF Cleanup
  <2>2. /\ owner = [s \in Shards |-> IF s \in {} THEN NoOwner ELSE owner[s]]
        /\ known = [v \in Workers |-> known[v] \ {}]
        /\ quiet = [v \in Workers |-> quiet[v] \ {}]
    BY DEF TypeOK
  <2>3. {} \in SUBSET Orphans(w) /\ rows = rows \ {} /\ ended = ended \ {}
        /\ reaped = reaped \cup {}
    OBVIOUS
  <2>4. Cleaned(w, {}, {})
    BY <2>1, <2>2, <2>3 DEF Cleaned
  <2>5. QED
    BY <2>3, <2>4
<1>2. CASE pass[w].live # {}
  <2>1. PICK deleted \in SUBSET gone, noted \in SUBSET gone :
        /\ rows' = rows \ deleted /\ ended' = ended \ deleted
        /\ reaped' = reaped \cup deleted
        /\ owner' = [s \in Shards |-> IF s \in deleted THEN NoOwner ELSE owner[s]]
        /\ known' = [v \in Workers |-> known[v] \ deleted]
        /\ quiet' = [v \in Workers |-> quiet[v] \ deleted]
        /\ absent' = [absent EXCEPT ![w] =
                        [s \in Shards |-> IF s \in noted THEN 0
                                          ELSE Count(w)[s]]]
    BY <1>2 DEF Cleanup, Count
  <2>2. ASSUME NEW s \in gone
        PROVE  /\ s \in Orphans(w) /\ s \in done /\ s \in rows
               /\ Count(w)[s] >= OrphanReapThreshold
               /\ \A v \in Workers : s \notin holds[v]
    <3>1. /\ s \in Orphans(w) /\ s \in known[w]
          /\ Count(w)[s] >= OrphanReapThreshold
          /\ owner[s] # NoOwner => s \in quiet[w]
      BY <2>2 DEF Reapable
    <3>2. s \in done /\ s \in rows
      BY <3>1 DEF Orphans, Finished, TypeOK
    <3>3. ASSUME NEW v \in Workers, s \in holds[v]
          PROVE  FALSE
      BY <3>1, <3>3, NoOwnerAssumption DEF TypeOK, Unheld
    <3>4. QED
      BY <3>1, <3>2, <3>3
  <2>3. deleted \in SUBSET Orphans(w) /\ noted \in SUBSET Orphans(w)
    BY <2>2
  <2> HIDE DEF gone
  <2>4. Cleaned(w, deleted, noted)
    BY <2>1, <2>2 DEF Cleaned
  <2>5. QED
    BY <2>3, <2>4
<1>3. QED
  BY <1>1, <1>2
-----------------------------------------------------------------------------
(***************************************************************************)
(* Type correctness.                                                       *)
(***************************************************************************)
\* The counters everybody knows lose the rows of g.
LEMMA OutdateFacts ==
  ASSUME TypeOK, NEW g,
         known' = [v \in Workers |-> known[v] \ g],
         quiet' = [v \in Workers |-> quiet[v] \ g]
  PROVE  /\ {known', quiet'} \subseteq [Workers -> SUBSET Shards]
         /\ \A v \in Workers : /\ quiet'[v] \subseteq known'[v]
                               /\ known'[v] \subseteq known[v] \ g
BY DEF TypeOK

\* A row that somebody holds exists.
LEMMA HeldExists ==
  ASSUME TypeOK, NEW w \in Workers, NEW s \in holds[w]
  PROVE  s \in Shards /\ s \in rows /\ owner[s] = w
BY NoOwnerAssumption DEF TypeOK

LEMMA TypeStep ==
  ASSUME IInv, [Next]_vars
  PROVE  TypeOK'
<1> USE DEF IInv
<1>1. ASSUME NEW s \in Shards, CloseShard(s) \/ TrimShard(s)
      PROVE  TypeOK'
  BY <1>1 DEF CloseShard, TrimShard, TypeOK, memory
<1>2. ASSUME NEW w \in Workers, NEW s \in Shards, OpenIterator(w, s)
      PROVE  TypeOK'
  BY <1>2 DEF OpenIterator, TypeOK, memory, stream
<1>3. ASSUME NEW w \in Workers, NEW s \in Shards, FinishShard(w, s)
      PROVE  TypeOK'
  <2>1. s \in rows
    BY <1>3, HeldExists DEF FinishShard
  <2>2. /\ {known', quiet'} \subseteq [Workers -> SUBSET Shards]
        /\ \A v \in Workers : /\ quiet'[v] \subseteq known'[v]
                              /\ known'[v] \subseteq known[v]
    BY <1>3, OutdateFacts DEF FinishShard, Outdate
  <2>3. QED
    BY <1>3, <2>1, <2>2 DEF FinishShard, TypeOK, stream
<1>4. ASSUME NEW w \in Workers, NEW s \in Shards, PollerExits(w, s)
      PROVE  TypeOK'
  <2>1. /\ {polls', holds'} \subseteq [Workers -> SUBSET Shards]
        /\ \A v \in Workers : /\ holds'[v] \subseteq polls'[v]
                              /\ holds'[v] = IF v = w THEN holds[v] \ {s}
                                                      ELSE holds[v]
    <3>1. /\ polls' = [polls EXCEPT ![w] = @ \ {s}]
          /\ holds' = [holds EXCEPT ![w] = @ \ {s}]
      BY <1>4 DEF PollerExits
    <3>2. /\ polls \in [Workers -> SUBSET Shards] /\ holds \in [Workers -> SUBSET Shards]
          /\ \A v \in Workers : holds[v] \subseteq polls[v]
      BY DEF TypeOK
    <3>3. polls' \in [Workers -> SUBSET Shards] /\ holds' \in [Workers -> SUBSET Shards]
      BY <3>1, <3>2
    <3>4. QED
      BY <3>1, <3>2, <3>3
  <2>2. /\ {known', quiet'} \subseteq [Workers -> SUBSET Shards]
        /\ \A v \in Workers : /\ quiet'[v] \subseteq known'[v]
                              /\ known'[v] \subseteq known[v]
    BY <1>4, OutdateFacts DEF PollerExits, Outdate, TypeOK
  <2>3. /\ owner' \in [Shards -> Workers \cup {NoOwner}]
        /\ \A t \in Shards : owner'[t] = owner[t] \/ owner'[t] = NoOwner
        /\ \A v \in Workers : \A t \in holds'[v] : owner'[t] = v
    <3>1. CASE s \in holds[w]
      <4>1. owner' = [owner EXCEPT ![s] = NoOwner] /\ owner[s] = w
        BY <1>4, <3>1, HeldExists DEF PollerExits
      <4>2. \A v \in Workers : s \notin holds'[v]
        BY <2>1, <4>1, HeldExists
      <4>3. QED
        BY <2>1, <4>1, <4>2 DEF TypeOK
    <3>2. CASE s \notin holds[w]
      BY <1>4, <2>1, <3>2 DEF PollerExits, TypeOK
    <3>3. QED
      BY <3>1, <3>2
  <2>4. reading' \subseteq UNION {holds'[v] : v \in Workers}
    BY <1>4, <2>1 DEF PollerExits, TypeOK
  <2>5. QED
    BY <1>4, <2>1, <2>2, <2>3, <2>4 DEF PollerExits, TypeOK, stream
<1>5. ASSUME NEW w \in Workers, NEW s \in Shards, Elapse(w, s)
      PROVE  TypeOK'
  BY <1>5 DEF Elapse, TypeOK, stream
<1>6. ASSUME NEW w \in Workers, Crash(w)
      PROVE  TypeOK'
  <2>1. /\ {polls', holds', known', quiet'} \subseteq [Workers -> SUBSET Shards]
        /\ \A v \in Workers : /\ holds'[v] = IF v = w THEN {} ELSE holds[v]
                              /\ polls'[v] = IF v = w THEN {} ELSE polls[v]
                              /\ known'[v] = IF v = w THEN {} ELSE known[v]
                              /\ quiet'[v] = IF v = w THEN {} ELSE quiet[v]
    BY <1>6 DEF Crash, TypeOK
  <2>2. absent' \in [Workers -> [Shards -> 0..OrphanReapThreshold]]
    BY <1>6, ThresholdAssumption DEF Crash, TypeOK
  <2>3. pass' \in [Workers -> PassType]
    BY <1>6, PassSteps DEF Moves
  <2>4. budget' \in [given : Allotments, left : [Disturbances -> Nat]]
    BY <1>6, SpendFacts DEF Crash, Disturbances
  <2>5. reading' \subseteq UNION {holds'[v] : v \in Workers}
    BY <1>6, <2>1 DEF Crash, TypeOK
  <2>6. QED
    BY <1>6, <2>1, <2>2, <2>3, <2>4, <2>5
    DEF Crash, TypeOK, stream, PassType
<1>7. ASSUME NEW w \in Workers, Discover(w)
      PROVE  TypeOK'
  <2>1. PICK l : Listing(l) /\ pass' \in [Workers -> PassType]
    BY <1>7, PassSteps DEF Moves
  <2>2. budget' \in [given : Allotments, left : [Disturbances -> Nat]]
    BY <2>1, SpendFacts DEF Listing, Disturbances, TypeOK
  <2>3. QED
    BY <1>7, <2>1, <2>2 DEF Discover, TypeOK, stream, PassType
<1>8. ASSUME NEW w \in Workers, EnsureRows(w) \/ DiscoverFails(w)
      PROVE  TypeOK'
  <2>1. pass' \in [Workers -> PassType]
    BY <1>8, PassSteps DEF Moves
  <2>2. budget' \in [given : Allotments, left : [Disturbances -> Nat]]
    BY <1>8, SpendFacts DEF EnsureRows, DiscoverFails, Disturbances, TypeOK
  <2>3. rows \subseteq rows' /\ rows' \subseteq Shards
    BY <1>8 DEF EnsureRows, DiscoverFails, TypeOK
  <2>4. QED
    BY <1>8, <2>1, <2>2, <2>3
    DEF EnsureRows, DiscoverFails, TypeOK, stream, PassType
<1>9. ASSUME NEW w \in Workers, List(w)
      PROVE  TypeOK'
  <2>1. PICK seen \in SUBSET rows :
          /\ Scan(seen)
          /\ known' = [known EXCEPT ![w] = seen]
          /\ quiet' = [quiet EXCEPT ![w] = @ \cap seen]
          /\ absent' = [absent EXCEPT ![w] =
                          [s \in Shards |-> IF s \in seen THEN absent[w][s]
                                            ELSE 0]]
          /\ pass' \in [Workers -> PassType]
    BY <1>9, ListFacts DEF Moves
  <2>2. budget' \in [given : Allotments, left : [Disturbances -> Nat]]
    BY <2>1, SpendFacts DEF Scan, Disturbances, TypeOK
  <2>3. absent' \in [Workers -> [Shards -> 0..OrphanReapThreshold]]
    BY <2>1, ThresholdAssumption DEF TypeOK
  <2>4. /\ {known', quiet'} \subseteq [Workers -> SUBSET Shards]
        /\ \A v \in Workers : /\ quiet'[v] \subseteq known'[v]
                              /\ known'[v] \subseteq rows
    BY <2>1 DEF TypeOK
  <2>5. QED
    BY <1>9, <2>1, <2>2, <2>3, <2>4 DEF List, TypeOK, stream, PassType
<1>10. ASSUME NEW w \in Workers, ListFails(w)
      PROVE  TypeOK'
  <2>1. pass' \in [Workers -> PassType]
    BY <1>10, PassSteps DEF Moves
  <2>2. budget' \in [given : Allotments, left : [Disturbances -> Nat]]
    BY <1>10, SpendFacts DEF ListFails, Disturbances
  <2>3. QED
    BY <1>10, <2>1, <2>2 DEF ListFails, TypeOK, stream, PassType
<1>11. ASSUME NEW w \in Workers, Take(w)
      PROVE  TypeOK'
  <2> DEFINE got == (pass[w].take \cap known[w]) \ polls[w]
  <2>1. /\ owner' = [s \in Shards |-> IF s \in got THEN w ELSE owner[s]]
        /\ polls' = [polls EXCEPT ![w] = @ \cup got]
        /\ holds' = [v \in Workers |-> IF v = w THEN holds[v] \cup got
                                                ELSE holds[v] \ got]
        /\ reading' = reading \ got
        /\ known' = [v \in Workers |-> known[v] \ got]
        /\ quiet' = [v \in Workers |-> quiet[v] \ got]
    BY <1>11 DEF Take
  <2>2. got \subseteq rows /\ got \subseteq Shards
    BY DEF TypeOK
  <2>3. pass' \in [Workers -> PassType]
    BY <1>11, PassSteps DEF Moves
  <2> HIDE DEF got
  <2>4. /\ {known', quiet'} \subseteq [Workers -> SUBSET Shards]
        /\ \A v \in Workers : /\ quiet'[v] \subseteq known'[v]
                              /\ known'[v] \subseteq rows
    BY <2>1, OutdateFacts DEF TypeOK
  <2>5. /\ {polls', holds'} \subseteq [Workers -> SUBSET Shards]
        /\ \A v \in Workers : holds'[v] \subseteq polls'[v]
    BY <2>1, <2>2 DEF TypeOK
  <2>6. /\ owner' \in [Shards -> Workers \cup {NoOwner}]
        /\ \A s \in Shards \ rows : owner'[s] = NoOwner
        /\ \A v \in Workers : \A s \in holds'[v] : owner'[s] = v
    BY <2>1, <2>2 DEF TypeOK
  <2>7. reading' \subseteq UNION {holds'[v] : v \in Workers}
    BY <2>1 DEF TypeOK
  <2>8. QED
    BY <1>11, <2>3, <2>4, <2>5, <2>6, <2>7 DEF Take, TypeOK, stream, PassType
<1>12. ASSUME NEW w \in Workers, Cleanup(w)
      PROVE  TypeOK'
  <2>1. PICK gone \in SUBSET Orphans(w), noted \in SUBSET Orphans(w) :
          Cleaned(w, gone, noted)
    BY <1>12, CleanupFacts
  <2> USE DEF Cleaned
  <2>2. gone \subseteq Shards
    BY DEF Orphans, TypeOK
  <2>3. absent' \in [Workers -> [Shards -> 0..OrphanReapThreshold]]
    <3>1. \A s \in Shards : Count(w)[s] \in 0..OrphanReapThreshold
      <4>1. \A s \in Shards : absent[w][s] \in 0..OrphanReapThreshold
        BY DEF TypeOK
      <4>2. QED
        BY <4>1, ThresholdAssumption DEF Count, CappedAdd
    <3> DEFINE left == [s \in Shards |-> IF s \in noted THEN 0 ELSE Count(w)[s]]
    <3>2. left \in [Shards -> 0..OrphanReapThreshold]
      BY <3>1, ThresholdAssumption
    <3>3. absent' = absent \/ absent' = [absent EXCEPT ![w] = left]
      BY <2>1
    <3> HIDE DEF left
    <3>4. QED
      BY <3>2, <3>3 DEF TypeOK
  <2>4. pass' \in [Workers -> PassType]
    BY <1>12, PassSteps DEF Moves
  <2>5. /\ {known', quiet'} \subseteq [Workers -> SUBSET Shards]
        /\ \A v \in Workers : /\ quiet'[v] \subseteq known'[v]
                              /\ known'[v] \subseteq rows'
    BY <2>1, OutdateFacts DEF TypeOK
  <2>6. /\ owner' \in [Shards -> Workers \cup {NoOwner}]
        /\ \A s \in Shards \ rows' : owner'[s] = NoOwner
        /\ \A v \in Workers : \A s \in holds[v] : owner'[s] = v
    BY <2>1, HeldExists DEF TypeOK
  <2>7. budget' \in [given : Allotments, left : [Disturbances -> Nat]]
    <3>1. budget' = budget \/ Spend("errs")
      BY <1>12 DEF Cleanup, Deletes
    <3>2. QED
      BY <3>1, SpendFacts DEF TypeOK, Disturbances
  <2>8. QED
    BY <1>12, <2>1, <2>2, <2>3, <2>4, <2>5, <2>6, <2>7
    DEF Cleanup, TypeOK, stream, PassType
<1>13. CASE UNCHANGED vars
  BY <1>13 DEF vars, stream, memory, TypeOK
<1>14. QED
  BY <1>1, <1>2, <1>3, <1>4, <1>5, <1>6, <1>7, <1>8, <1>9, <1>10, <1>11,
     <1>12, <1>13
  DEF Next, Pass
-----------------------------------------------------------------------------
(***************************************************************************)
(* The other parts of the invariant.                                       *)
(***************************************************************************)
\* The allotments stay, and what is left of them only shrinks.
LEMMA BudgetStep ==
  ASSUME TypeOK, Spent, [Next]_vars
  PROVE  /\ Spent' /\ budget'.given = budget.given
         /\ \A kind \in Disturbances : budget'.left[kind] <= budget.left[kind]
<1>1. ASSUME NEW kind \in Disturbances, Spend(kind)
      PROVE  /\ Spent' /\ budget'.given = budget.given
             /\ \A k \in Disturbances : budget'.left[k] <= budget.left[k]
  BY <1>1, SpendFacts, BudgetFacts
<1>2. CASE budget' = budget
  BY <1>2, BudgetFacts DEF Spent
<1>a. ASSUME NEW w \in Workers, Cleanup(w)
      PROVE  budget' = budget \/ Spend("errs")
  BY <1>a DEF Cleanup, Deletes
<1>3. budget' = budget \/ \E kind \in Disturbances : Spend(kind)
  BY <1>a DEF Next, Pass, CloseShard, TrimShard, OpenIterator, FinishShard,
         PollerExits, Elapse, Crash, Discover, Listing, EnsureRows,
         DiscoverFails, List, Scan, ListFails, Take, Disturbances, vars
<1>4. QED
  BY <1>1, <1>2, <1>3

LEMMA LineageStep ==
  ASSUME IInv, [Next]_vars
  PROVE  Lineage'
<1> USE DEF IInv, Lineage
<1>1. ASSUME NEW s \in Shards, CloseShard(s)
      PROVE  Lineage'
  BY <1>1 DEF CloseShard, InStream
<1>2. ASSUME NEW w \in Workers, NEW s \in Shards, FinishShard(w, s)
      PROVE  Lineage'
  BY <1>2 DEF FinishShard, stream
<1>3. CASE UNCHANGED <<closed, done>>
  BY <1>3
<1>4. QED
  BY <1>1, <1>2, <1>3
  DEF Next, Pass, TrimShard, OpenIterator, PollerExits, Elapse, Crash, Discover,
      EnsureRows, DiscoverFails, List, ListFails, Take, Cleanup, vars, stream

LEMMA PhasesStep ==
  ASSUME IInv, [Next]_vars
  PROVE  Phases'
<1> USE DEF IInv, Phases
<1>1. ASSUME NEW w \in Workers,
             \/ Crash(w) \/ ListFails(w) \/ Cleanup(w) \/ Discover(w)
             \/ EnsureRows(w) \/ DiscoverFails(w) \/ Take(w)
      PROVE  Phases'
  <2>1. CASE Crash(w) \/ ListFails(w) \/ Cleanup(w)
    BY <2>1 DEF Crash, ListFails, Cleanup, NoPass, TypeOK
  <2>2. CASE Discover(w)
    BY <2>2 DEF Discover, TypeOK
  <2>3. CASE EnsureRows(w)
    BY <2>3 DEF EnsureRows, TypeOK
  <2>4. CASE DiscoverFails(w)
    BY <2>4 DEF DiscoverFails, TypeOK
  <2>5. CASE Take(w)
    BY <2>5 DEF Take, NoPass, TypeOK
  <2>6. QED
    BY <1>1, <2>1, <2>2, <2>3, <2>4, <2>5
<1>2. ASSUME NEW w \in Workers, List(w)
      PROVE  Phases'
  BY <1>2 DEF List, TypeOK
<1>3. CASE UNCHANGED pass
  BY <1>3
<1>4. QED
  BY <1>1, <1>2, <1>3
  DEF Next, Pass, CloseShard, TrimShard, OpenIterator, FinishShard, PollerExits,
      Elapse, vars, memory

LEMMA FinishedStep ==
  ASSUME IInv, [Next]_vars
  PROVE  Finished'
<1> USE DEF IInv, Finished
<1>1. ASSUME NEW w \in Workers, NEW s \in Shards,
             OpenIterator(w, s) \/ PollerExits(w, s)
      PROVE  Finished'
  BY <1>1 DEF OpenIterator, PollerExits, memory
<1>2. ASSUME NEW w \in Workers, NEW s \in Shards, FinishShard(w, s)
      PROVE  Finished'
  BY <1>2 DEF FinishShard
<1>3. ASSUME NEW w \in Workers, Crash(w)
      PROVE  Finished'
  BY <1>3 DEF Crash, NoPass, TypeOK
<1>4. ASSUME NEW w \in Workers,
             Discover(w) \/ EnsureRows(w) \/ DiscoverFails(w)
      PROVE  Finished'
  <2>1. CASE Discover(w)
    BY <2>1 DEF Discover, TypeOK
  <2>2. CASE EnsureRows(w)
    BY <2>2 DEF EnsureRows, TypeOK
  <2>3. CASE DiscoverFails(w)
    BY <2>3 DEF DiscoverFails, TypeOK
  <2>4. QED
    BY <1>4, <2>1, <2>2, <2>3
<1>5. ASSUME NEW w \in Workers, ListFails(w) \/ Take(w)
      PROVE  Finished'
  <2>1. CASE ListFails(w)
    BY <2>1 DEF ListFails, NoPass, TypeOK
  <2>2. CASE Take(w)
    BY <2>2 DEF Take, NoPass, TypeOK
  <2>3. QED
    BY <1>5, <2>1, <2>2
<1>6. ASSUME NEW w \in Workers, List(w)
      PROVE  Finished'
  BY <1>6 DEF List, TypeOK
<1>7. ASSUME NEW w \in Workers, Cleanup(w)
      PROVE  Finished'
  <2>1. PICK gone \in SUBSET Orphans(w), noted \in SUBSET Orphans(w) :
          Cleaned(w, gone, noted)
    BY <1>7, CleanupFacts
  <2> USE DEF Cleaned
  <2>2. \A v \in Workers : pass'[v].ended \subseteq pass[v].ended
    BY <1>7 DEF Cleanup, NoPass, TypeOK
  <2>3. \A v \in Workers, s \in Shards : absent'[v][s] # 0 => s \in done
    <3>1. \A s \in Shards : Count(w)[s] # 0 => s \in done
      BY DEF Count, Orphans
    <3> DEFINE left == [s \in Shards |-> IF s \in noted THEN 0 ELSE Count(w)[s]]
    <3>2. \A s \in Shards : left[s] # 0 => s \in done
      BY <3>1
    <3>3. absent' = absent \/ absent' = [absent EXCEPT ![w] = left]
      BY <2>1
    <3> HIDE DEF left
    <3>4. QED
      BY <3>2, <3>3 DEF TypeOK
  <2>4. QED
    BY <1>7, <2>1, <2>2, <2>3 DEF Cleanup
<1>8. CASE UNCHANGED <<done, ended, reaped, reading, pass, absent>>
  BY <1>8
<1>9. QED
  BY <1>1, <1>2, <1>3, <1>4, <1>5, <1>6, <1>7, <1>8
  DEF Next, Pass, CloseShard, TrimShard, Elapse, vars, memory

LEMMA UnheldStep ==
  ASSUME IInv, [Next]_vars
  PROVE  Unheld'
<1> USE DEF IInv, Unheld
<1>1. ASSUME NEW w \in Workers, NEW s \in Shards,
             FinishShard(w, s) \/ PollerExits(w, s) \/ Elapse(w, s)
      PROVE  Unheld'
  <2>1. CASE FinishShard(w, s)
    BY <2>1 DEF FinishShard, Outdate, TypeOK
  <2>2. CASE PollerExits(w, s)
    BY <2>2 DEF PollerExits, Outdate, TypeOK
  <2>3. CASE Elapse(w, s)
    BY <2>3 DEF Elapse, TypeOK
  <2>4. QED
    BY <1>1, <2>1, <2>2, <2>3
<1>2. ASSUME NEW w \in Workers, Crash(w)
      PROVE  Unheld'
  BY <1>2 DEF Crash, TypeOK
<1>3. ASSUME NEW w \in Workers, List(w)
      PROVE  Unheld'
  BY <1>3 DEF List, TypeOK
<1>4. ASSUME NEW w \in Workers, Take(w)
      PROVE  Unheld'
  BY <1>4 DEF Take, TypeOK
<1>5. ASSUME NEW w \in Workers, Cleanup(w)
      PROVE  Unheld'
  <2>1. \A v \in Workers : quiet'[v] \subseteq quiet[v]
    BY <1>5, CleanupFacts DEF Cleaned
  <2>2. QED
    BY <1>5, <2>1 DEF Cleanup
<1>6. CASE UNCHANGED <<holds, quiet>>
  BY <1>6
<1>7. QED
  BY <1>1, <1>2, <1>3, <1>4, <1>5, <1>6
  DEF Next, Pass, CloseShard, TrimShard, OpenIterator, Discover, EnsureRows,
      DiscoverFails, ListFails, vars, memory
\* What must be shown for the absences counted by w when only its pass changes.
LEMMA ExcusedFrame ==
  ASSUME IInv, [Next]_vars, NEW w \in Workers,
         trimmed' = trimmed,
         \A v \in Workers \ {w} : pass'[v] = pass[v] /\ absent'[v] = absent[v],
         \A s \in Shards \ trimmed :
           Absences(w, s)' + budget'.left["omit"] <= Misled(s)
  PROVE  Excused'
<1>1. /\ budget'.given = budget.given
      /\ budget'.left["omit"] <= budget.left["omit"]
      /\ budget'.left["omit"] \in Nat /\ budget.left["omit"] \in Nat
      /\ budget.given["omit"] \in Nat
  BY BudgetStep, BudgetFacts, TypeStep DEF IInv, Disturbances, TypeOK
<1>2. \A s \in Shards : Misled(s)' = Misled(s) /\ Misled(s) \in Nat
  BY <1>1 DEF Misled
<1>3. ASSUME NEW v \in Workers \ {w}, NEW s \in Shards \ trimmed
      PROVE  Absences(v, s)' + budget'.left["omit"] <= Misled(s)
  <2>1. Absences(v, s)' = Absences(v, s) /\ Absences(v, s) \in Nat
    BY DEF Absences, Unlisted, IInv, TypeOK
  <2>2. Absences(v, s) + budget.left["omit"] <= Misled(s)
    BY DEF IInv, Excused
  <2>3. QED
    BY <1>1, <1>2, <2>1, <2>2
<1>4. QED
  BY <1>2, <1>3 DEF Excused

\* No step makes more absences than omissions of ListShards, and the one
\* listing from before the shard existed, account for.
LEMMA ExcusedStep ==
  ASSUME IInv, [Next]_vars
  PROVE  Excused'
<1> USE DEF IInv
<1>0. /\ budget'.given = budget.given
      /\ budget'.left["omit"] <= budget.left["omit"]
      /\ budget'.left["omit"] \in Nat /\ budget.left["omit"] \in Nat
      /\ budget.given["omit"] \in Nat
      /\ budget.left["omit"] <= budget.given["omit"]
  BY BudgetStep, BudgetFacts, TypeStep DEF Disturbances, TypeOK, Spent
<1>a. ASSUME NEW w \in Workers, NEW s \in Shards \ trimmed
      PROVE  /\ absent[w][s] \in Nat /\ Misled(s) \in Nat
             /\ absent[w][s] + budget.left["omit"] <= Misled(s)
             /\ Unlisted(w, s) =>
                  absent[w][s] + 1 + budget.left["omit"] <= Misled(s)
             /\ budget.given["omit"] <= Misled(s)
  <2>1. absent[w][s] \in Nat /\ Misled(s) \in Nat
    BY <1>0 DEF TypeOK, Misled
  <2>2. Absences(w, s) + budget.left["omit"] <= Misled(s)
    BY DEF Excused
  <2>3. QED
    BY <1>0, <2>1, <2>2 DEF Absences, Misled
<1>1. ASSUME NEW w \in Workers, Crash(w)
      PROVE  Excused'
  <2>1. /\ Moves(w, NoPass) /\ trimmed' = trimmed
        /\ absent' = [absent EXCEPT ![w] = [s \in Shards |-> 0]]
    BY <1>1, PassSteps DEF Crash, stream
  <2>2. ASSUME NEW s \in Shards \ trimmed
        PROVE  Absences(w, s)' + budget'.left["omit"] <= Misled(s)
    <3>1. Absences(w, s)' = 0
      BY <2>1 DEF Absences, Unlisted, Moves, NoPass, TypeOK
    <3>2. QED
      BY <1>0, <1>a, <3>1
  <2>3. QED
    BY <2>1, <2>2, ExcusedFrame DEF Moves, TypeOK
<1>2. ASSUME NEW w \in Workers, Discover(w)
      PROVE  Excused'
  <2>1. PICK l \in SUBSET InStream :
          /\ Listing(l)
          /\ Moves(w, [phase |-> "ensure", ok |-> pass[w].ok, live |-> l,
                       ended |-> pass[w].ended, take |-> pass[w].take])
    BY <1>2, PassSteps
  <2>2. trimmed' = trimmed /\ absent' = absent
    BY <1>2 DEF Discover, stream
  <2>3. ASSUME NEW s \in Shards \ trimmed
        PROVE  Absences(w, s)' + budget'.left["omit"] <= Misled(s)
    <3>1. Absences(w, s)' = absent[w][s] + (IF s \notin l THEN 1 ELSE 0)
      BY <2>1, <2>2 DEF Absences, Unlisted, Moves
    <3>2. CASE s \in l
      BY <1>0, <1>a, <3>1, <3>2
    <3>3. CASE s \in InStream \ l
      <4>1. Spend("omit")
        BY <2>1, <3>3 DEF Listing
      <4>2. budget'.left["omit"] = budget.left["omit"] - 1
        BY <4>1, SpendFacts DEF Disturbances
      <4>3. QED
        BY <1>0, <1>a, <3>1, <3>3, <4>2
    <3>4. CASE s \notin InStream
      <4>1. ~(Parents[s] \subseteq closed)
        BY <3>4 DEF InStream
      <4>2. s \notin closed /\ Parents[s] # {}
        BY <4>1 DEF Lineage
      <4>3. absent[w][s] = 0
        BY <4>2 DEF Finished, Lineage
      <4>4. Misled(s) = budget.given["omit"] + 1
        BY <4>2 DEF Misled
      <4>5. QED
        BY <1>0, <2>1, <3>1, <3>4, <4>3, <4>4
    <3>5. QED
      BY <3>2, <3>3, <3>4
  <2>4. QED
    BY <2>1, <2>2, <2>3, ExcusedFrame DEF Moves
<1>3. ASSUME NEW w \in Workers,
             \/ EnsureRows(w) \/ DiscoverFails(w) \/ List(w) \/ ListFails(w)
             \/ Take(w)
      PROVE  Excused'
  <2>1. trimmed' = trimmed
    BY <1>3 DEF EnsureRows, DiscoverFails, List, ListFails, Take, stream
  <2>2. ASSUME NEW s \in Shards
        PROVE  Unlisted(w, s)' => Unlisted(w, s)
    <3>1. CASE EnsureRows(w)
      <4>1. pass[w].phase = "ensure" /\ pass'[w].live = pass[w].live
        BY <3>1 DEF EnsureRows, TypeOK
      <4>2. QED
        BY <4>1 DEF Unlisted
    <3>2. CASE DiscoverFails(w)
      <4>1. pass[w].phase \in {"idle", "ensure"}
        BY <3>2 DEF DiscoverFails
      <4>2. pass'[w].phase = "list" /\ pass'[w].ok = pass[w].ok
        BY <3>2 DEF DiscoverFails, TypeOK
      <4>3. ~pass[w].ok
        BY <4>1 DEF Phases
      <4>4. QED
        BY <4>2, <4>3 DEF Unlisted
    <3>3. CASE List(w)
      <4>1. /\ pass'[w].phase = "take" /\ pass'[w].ok = pass[w].ok
            /\ pass'[w].live = pass[w].live
        BY <3>3 DEF List, TypeOK
      <4>2. QED
        BY <4>1 DEF Unlisted
    <3>4. CASE ListFails(w) \/ (Take(w) /\ ~pass[w].ok)
      <4>1. pass' = [pass EXCEPT ![w] = NoPass]
        BY <3>4 DEF ListFails, Take
      <4>2. pass'[w] = NoPass
        BY <4>1 DEF TypeOK
      <4>3. QED
        BY <4>2 DEF Unlisted, NoPass
    <3>5. CASE Take(w) /\ pass[w].ok
      <4>1. pass' = [pass EXCEPT ![w].phase = "clean", ![w].take = {}]
        BY <3>5 DEF Take
      <4>2. pass'[w].live = pass[w].live
        BY <4>1 DEF TypeOK
      <4>3. QED
        BY <3>5, <4>2 DEF Unlisted
    <3>6. QED
      BY <1>3, <3>1, <3>2, <3>3, <3>4, <3>5
  <2>3. /\ \A s \in Shards : absent'[w][s] \in {0, absent[w][s]}
        /\ \A v \in Workers \ {w} : absent'[v] = absent[v]
    <3>1. CASE List(w)
      BY <3>1, ListFacts DEF TypeOK
    <3>2. CASE absent' = absent
      BY <3>2
    <3>3. QED
      BY <1>3, <3>1, <3>2 DEF EnsureRows, DiscoverFails, ListFails, Take
  <2>4. \A v \in Workers \ {w} : pass'[v] = pass[v]
    <3>1. CASE List(w)
      BY <3>1, ListFacts DEF Moves
    <3>2. CASE EnsureRows(w) \/ DiscoverFails(w) \/ ListFails(w) \/ Take(w)
      BY <3>2, PassSteps DEF Moves
    <3>3. QED
      BY <1>3, <3>1, <3>2
  <2>5. ASSUME NEW s \in Shards \ trimmed
        PROVE  Absences(w, s)' + budget'.left["omit"] <= Misled(s)
    BY <1>0, <1>a, <2>2, <2>3 DEF Absences
  <2>6. QED
    BY <2>1, <2>3, <2>4, <2>5, ExcusedFrame
<1>4. ASSUME NEW w \in Workers, Cleanup(w)
      PROVE  Excused'
  <2>1. Moves(w, NoPass) /\ trimmed' = trimmed
    BY <1>4, PassSteps DEF Cleanup, stream
  <2>2. PICK gone \in SUBSET Orphans(w), noted \in SUBSET Orphans(w) :
          Cleaned(w, gone, noted)
    BY <1>4, CleanupFacts
  <2> USE DEF Cleaned
  <2>3. /\ \A s \in Shards : absent'[w][s] \in {0, absent[w][s], Count(w)[s]}
        /\ \A v \in Workers \ {w} : absent'[v] = absent[v]
    BY <2>2 DEF TypeOK
  <2>4. ASSUME NEW s \in Shards \ trimmed
        PROVE  Absences(w, s)' + budget'.left["omit"] <= Misled(s)
    <3>1. Absences(w, s)' = absent'[w][s]
      <4>1. absent'[w][s] \in Nat
        BY TypeStep DEF TypeOK
      <4>2. QED
        BY <2>1, <4>1 DEF Absences, Unlisted, Moves, NoPass
    <3>2. \/ Count(w)[s] \in {0, absent[w][s]}
          \/ Count(w)[s] = absent[w][s] + 1 /\ s \notin pass[w].live
      BY DEF Count, Orphans, CappedAdd
    <3>3. s \notin pass[w].live => Unlisted(w, s)
      BY <1>4 DEF Cleanup, Phases, Unlisted
    <3>4. QED
      BY <1>0, <1>a, <2>3, <3>1, <3>2, <3>3
  <2>5. QED
    BY <2>1, <2>3, <2>4, ExcusedFrame DEF Moves
<1>5. CASE UNCHANGED <<pass, absent, budget>> /\ trimmed \subseteq trimmed'
  BY <1>5 DEF Excused, Absences, Unlisted, Misled
<1>6. QED
  BY <1>1, <1>2, <1>3, <1>4, <1>5
  DEF Next, Pass, CloseShard, TrimShard, OpenIterator, FinishShard, PollerExits,
      Elapse, vars, memory, stream

LEMMA GoneStep ==
  ASSUME IInv, [Next]_vars
  PROVE  Gone'
<1> USE DEF IInv
<1>0. \A s \in Shards : Misled(s)' = Misled(s)
  BY BudgetStep DEF Misled
<1>a. reaped \subseteq Shards
  BY DEF TypeOK
<1>1. ASSUME NEW w \in Workers, NEW s \in Shards, OpenIterator(w, s)
      PROVE  Gone'
  BY <1>0, <1>a, <1>1 DEF OpenIterator, Gone, stream
<1>2. ASSUME NEW w \in Workers, Cleanup(w)
      PROVE  Gone'
  <2>1. PICK gone \in SUBSET Orphans(w), noted \in SUBSET Orphans(w) :
          Cleaned(w, gone, noted)
    BY <1>2, CleanupFacts
  <2> USE DEF Cleaned
  <2>2. trimmed' = trimmed /\ reading' = reading
    BY <1>2 DEF Cleanup, stream
  <2>3. ASSUME NEW s \in gone, Misled(s) < OrphanReapThreshold
        PROVE  s \in trimmed \ reading
    <3>1. s \in Shards /\ s \in Orphans(w) /\ s \notin pass[w].live
      BY DEF Orphans, TypeOK
    <3>2. s \notin reading
      BY <2>1 DEF TypeOK
    <3>3. SUFFICES ASSUME s \notin trimmed PROVE FALSE
      BY <3>2
    <3>4. /\ absent[w][s] \in Nat /\ budget.left["omit"] \in Nat
          /\ budget.given["omit"] \in Nat
      BY <3>1, BudgetFacts DEF TypeOK, Disturbances
    <3>5. Unlisted(w, s)
      BY <1>2, <3>1 DEF Cleanup, Phases, Unlisted
    <3>6. absent[w][s] + 1 + budget.left["omit"] <= Misled(s)
      BY <3>1, <3>3, <3>4, <3>5 DEF Excused, Absences
    <3>7. Count(w)[s] <= absent[w][s] + 1 /\ Count(w)[s] \in Nat
      BY <3>1, <3>4 DEF Count, CappedAdd
    <3>8. Misled(s) \in Nat
      BY <3>4 DEF Misled
    <3>9. QED
      BY <2>1, <2>3, <3>4, <3>6, <3>7, <3>8, ThresholdAssumption
  <2>4. gone \subseteq Shards
    BY DEF Orphans, TypeOK
  <2>5. QED
    BY <1>0, <1>a, <2>1, <2>2, <2>3, <2>4 DEF Gone
<1>3. CASE /\ reaped' = reaped
           /\ trimmed \subseteq trimmed'
           /\ reading' \subseteq reading
  BY <1>0, <1>a, <1>3 DEF Gone
<1>4. QED
  BY <1>1, <1>2, <1>3
  DEF Next, Pass, CloseShard, TrimShard, FinishShard, PollerExits, Elapse, Crash,
      Discover, EnsureRows, DiscoverFails, List, ListFails, Take, vars, stream

\* The parents of whatever is listed, has a row or is taken are accounted for.
LEMMA FollowedStep ==
  ASSUME IInv, [Next]_vars
  PROVE  Followed'
<1> USE DEF IInv
<1>0. Accurate' = Accurate
  BY BudgetStep DEF Accurate
<1>a. SUFFICES ASSUME Accurate
               PROVE  /\ \A w \in Workers : \A s \in pass'[w].live :
                           Parents[s] \subseteq pass'[w].live \cup trimmed'
                      /\ \A s \in rows' :
                           Parents[s] \subseteq rows' \cup done' \cup trimmed'
                      /\ \A w \in Workers :
                           \A s \in pass'[w].take \cup polls'[w] :
                             Parents[s] \subseteq done' \cup trimmed'
  BY <1>0 DEF Followed
<1>b. /\ budget.left["omit"] = 0 /\ budget.left["stale"] = 0
      /\ ~Spend("omit") /\ ~Spend("stale")
  <2>1. budget.left["omit"] = 0 /\ budget.left["stale"] = 0
    BY <1>a, BudgetFacts DEF Accurate, Spent, Disturbances
  <2>2. QED
    BY <2>1 DEF Spend
<1>c. /\ \A w \in Workers : \A s \in pass[w].live :
           Parents[s] \subseteq pass[w].live \cup trimmed
      /\ \A s \in rows : Parents[s] \subseteq rows \cup done \cup trimmed
      /\ \A w \in Workers : \A s \in pass[w].take \cup polls[w] :
           Parents[s] \subseteq done \cup trimmed
  BY <1>a DEF Followed
<1>d. \A s \in Shards : Parents[s] \subseteq Shards
  BY ShardsAssumption
<1>1. ASSUME NEW w \in Workers, NEW s \in Shards, PollerExits(w, s)
      PROVE  /\ \A v \in Workers : polls'[v] \subseteq polls[v]
             /\ UNCHANGED <<pass, rows, done, trimmed>>
  BY <1>1 DEF PollerExits, stream, TypeOK
<1>2. ASSUME NEW w \in Workers, Crash(w)
      PROVE  /\ \A v \in Workers : /\ polls'[v] \subseteq polls[v]
                                   /\ pass'[v].take \subseteq pass[v].take
                                   /\ pass'[v].live \in {{}, pass[v].live}
             /\ UNCHANGED <<rows, done, trimmed>>
  BY <1>2 DEF Crash, NoPass, stream, TypeOK
<1>3. ASSUME NEW w \in Workers, ListFails(w)
      PROVE  /\ \A v \in Workers : /\ pass'[v].take \subseteq pass[v].take
                                   /\ pass'[v].live \in {{}, pass[v].live}
             /\ UNCHANGED <<rows, done, trimmed, polls>>
  BY <1>3 DEF ListFails, NoPass, stream, TypeOK
<1>4. ASSUME NEW w \in Workers, Discover(w)
      PROVE  Followed'
  <2>1. PICK l \in SUBSET InStream :
          /\ Listing(l)
          /\ Moves(w, [phase |-> "ensure", ok |-> pass[w].ok, live |-> l,
                       ended |-> pass[w].ended, take |-> pass[w].take])
    BY <1>4, PassSteps
  <2>2. l = InStream
    BY <1>b, <2>1 DEF Listing
  <2>3. \A s \in InStream : Parents[s] \subseteq InStream \cup trimmed
    BY <1>d DEF InStream, Lineage
  <2>4. /\ \A v \in Workers : pass'[v].take = pass[v].take
        /\ \A v \in Workers \ {w} : pass'[v].live = pass[v].live
        /\ pass'[w].live = InStream
    BY <2>1, <2>2 DEF Moves
  <2>5. UNCHANGED <<rows, done, trimmed, polls>>
    BY <1>4 DEF Discover, stream
  <2>6. QED
    BY <1>c, <2>3, <2>4, <2>5 DEF Followed
<1>5. ASSUME NEW w \in Workers, EnsureRows(w)
      PROVE  Followed'
  <2>1. /\ \A v \in Workers : pass'[v].take = pass[v].take
        /\ \A v \in Workers : pass'[v].live = pass[v].live
    BY <1>5 DEF EnsureRows, TypeOK
  <2>2. /\ UNCHANGED <<done, trimmed, polls>>
        /\ rows' = rows \cup pass[w].live
    BY <1>5 DEF EnsureRows, stream
  <2>3. QED
    BY <1>c, <2>1, <2>2 DEF Followed
<1>6. ASSUME NEW w \in Workers, DiscoverFails(w)
      PROVE  Followed'
  <2>1. /\ \A v \in Workers : pass'[v].take = pass[v].take
        /\ \A v \in Workers : pass'[v].live \in {{}, pass[v].live}
    BY <1>6 DEF DiscoverFails, TypeOK
  <2>2. UNCHANGED <<done, trimmed, polls>>
    BY <1>6 DEF DiscoverFails, stream
  <2>3. \A s \in rows' : Parents[s] \subseteq rows' \cup done \cup trimmed
    <3>1. CASE UNCHANGED rows
      BY <1>c, <3>1
    <3>2. CASE \E n \in {0} \cup pass[w].live :
                 rows' = rows \cup {s \in pass[w].live : s <= n}
      <4>1. PICK n \in {0} \cup pass[w].live :
                   rows' = rows \cup {s \in pass[w].live : s <= n}
        BY <3>2
      <4>2. pass[w].live \subseteq Shards /\ Shards \subseteq Nat /\ n \in Nat
        BY <4>1, ShardsAssumption DEF TypeOK
      <4>3. ASSUME NEW s \in pass[w].live, s <= n, NEW p \in Parents[s]
            PROVE  p \in rows' \cup trimmed
        <5>1. p < s /\ p \in Nat /\ s \in Nat
          BY <1>d, <4>2, ShardsAssumption
        <5>2. p \in pass[w].live \cup trimmed
          BY <1>c
        <5>3. p <= n
          BY <4>2, <4>3, <5>1
        <5>4. QED
          BY <4>1, <5>2, <5>3
      <4>4. QED
        BY <1>c, <4>1, <4>3
    <3>3. QED
      BY <1>6, <3>1, <3>2 DEF DiscoverFails
  <2>4. QED
    BY <1>c, <2>1, <2>2, <2>3 DEF Followed
<1>7. ASSUME NEW w \in Workers, List(w)
      PROVE  Followed'
  <2>0. PICK seen \in SUBSET rows :
          /\ Scan(seen)
          /\ \E t \in SUBSET Takeable(w, seen) :
               Moves(w, [phase |-> "take", ok |-> pass[w].ok,
                         live |-> pass[w].live, ended |-> ended \cap seen,
                         take |-> t])
    BY <1>7, ListFacts
  <2>1. PICK t \in SUBSET Takeable(w, seen) :
          Moves(w, [phase |-> "take", ok |-> pass[w].ok,
                    live |-> pass[w].live, ended |-> ended \cap seen,
                    take |-> t])
    BY <2>0
  <2>2. seen = rows
    BY <1>b, <2>0 DEF Scan
  <2>3. \A s \in t : Parents[s] \subseteq done \cup trimmed
    BY <1>c, <2>2 DEF Takeable, ParentsDrained, Finished
  <2>4. /\ \A v \in Workers : pass'[v].live = pass[v].live
        /\ \A v \in Workers \ {w} : pass'[v].take = pass[v].take
        /\ pass'[w].take = t
    BY <2>1 DEF Moves
  <2>5. UNCHANGED <<rows, done, trimmed, polls>>
    BY <1>7 DEF List, stream
  <2>6. QED
    BY <1>c, <2>3, <2>4, <2>5 DEF Followed
<1>8. ASSUME NEW w \in Workers, Take(w)
      PROVE  Followed'
  <2>1. /\ \A v \in Workers : pass'[v].take \subseteq pass[v].take
        /\ \A v \in Workers : pass'[v].live \in {{}, pass[v].live}
    BY <1>8 DEF Take, NoPass, TypeOK
  <2>2. \A v \in Workers : polls'[v] \subseteq polls[v] \cup pass[v].take
    BY <1>8 DEF Take, TypeOK
  <2>3. UNCHANGED <<rows, done, trimmed>>
    BY <1>8 DEF Take, stream
  <2>4. QED
    BY <1>c, <2>1, <2>2, <2>3 DEF Followed
<1>9. ASSUME NEW w \in Workers, Cleanup(w)
      PROVE  Followed'
  <2>1. /\ rows' \subseteq rows
        /\ rows \subseteq rows' \cup done
    BY <1>9, CleanupFacts DEF Cleaned
  <2>2. /\ \A v \in Workers : pass'[v].take \subseteq pass[v].take
        /\ \A v \in Workers : pass'[v].live \in {{}, pass[v].live}
    BY <1>9 DEF Cleanup, NoPass, TypeOK
  <2>3. UNCHANGED <<done, trimmed, polls>>
    BY <1>9 DEF Cleanup, stream
  <2>4. QED
    BY <1>c, <2>1, <2>2, <2>3 DEF Followed
<1>10. CASE /\ UNCHANGED <<rows, polls, pass>>
            /\ done \subseteq done' /\ trimmed \subseteq trimmed'
  BY <1>c, <1>10
<1>11. QED
  <2>1. ASSUME NEW w \in Workers,
               Crash(w) \/ ListFails(w) \/ \E s \in Shards : PollerExits(w, s)
        PROVE  Followed'
    BY <1>1, <1>2, <1>3, <1>c, <2>1 DEF Followed
  <2> DEFINE Grows == /\ UNCHANGED <<rows, polls, pass>>
                      /\ done \subseteq done' /\ trimmed \subseteq trimmed'
  <2>a. ASSUME NEW s \in Shards, CloseShard(s) \/ TrimShard(s)
        PROVE  Grows
    BY <2>a DEF CloseShard, TrimShard, memory
  <2>b. ASSUME NEW w \in Workers, NEW s \in Shards,
               OpenIterator(w, s) \/ FinishShard(w, s) \/ Elapse(w, s)
        PROVE  Grows
    BY <2>b DEF OpenIterator, FinishShard, Elapse, memory, stream
  <2>c. ASSUME UNCHANGED vars
        PROVE  Grows
    BY <2>c DEF vars, memory, stream
  <2> HIDE DEF Grows
  <2>2. Followed' \/ Grows
    BY <1>4, <1>5, <1>6, <1>7, <1>8, <1>9, <2>1, <2>a, <2>b, <2>c DEF Next, Pass
  <2>3. QED
    BY <1>0, <1>a, <1>10, <2>2 DEF Followed, Grows

-----------------------------------------------------------------------------
LEMMA InvariantStep == IInv /\ [Next]_vars => IInv'
BY TypeStep, BudgetStep, LineageStep, PhasesStep, FinishedStep, UnheldStep,
   ExcusedStep, GoneStep, FollowedStep DEF IInv

\* The inductive invariant of discovery and lease cleanup holds forever.
THEOREM Invariance == Spec => []IInv
BY InvariantInit, InvariantStep, PTL DEF Spec

\* Type correctness: in particular a replica only ever has the fresh counter of
\* a row that is there, and nobody but its owner does (TypeOK).
THEOREM TypeCorrect == Spec => []TypeOK
<1>1. IInv => TypeOK
  BY DEF IInv
<1>2. QED
  BY <1>1, Invariance, PTL

\* cleanupOrphans deletes the row of a shard only when Kinesis has trimmed it,
\* whatever the replicas, their crashes and their failed passes do, as long as
\* ListShards omits the shard less often than orphanReapThreshold makes up for
\* (OnlyTrimmedReaped).
THEOREM ReapsOnlyTrimmed == Spec => []OnlyTrimmedReaped
<1>1. IInv => OnlyTrimmedReaped
  BY DEF IInv, Gone, OnlyTrimmedReaped
<1>2. QED
  BY <1>1, Invariance, PTL

\* A shard that has been read to its end is not read again, although its row may
\* be deleted and created anew by a replica that listed the stream before
\* (NoSecondReading).
THEOREM ReadOnce == Spec => []NoSecondReading
<1>1. IInv => NoSecondReading
  BY DEF IInv, Finished, Gone, NoSecondReading
<1>2. QED
  BY <1>1, Invariance, PTL

\* While listings and scans are complete, no replica takes a shard before its
\* parents are finished or past retention, in spite of crashes, failed passes
\* and the collection of the parents' rows (ChildAfterListedParent).
THEOREM ChildrenWait == Spec => []ChildAfterListedParent
<1>1. IInv => ChildAfterListedParent
  BY DEF IInv, Followed, Accurate, ChildAfterListedParent, ChildAfterParent
<1>2. QED
  BY <1>1, Invariance, PTL
=============================================================================
