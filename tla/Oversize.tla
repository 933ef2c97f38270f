------------------------------ MODULE Oversize ------------------------------
(***************************************************************************)
(* The packing half of the exporter (record.go: emit; oversize.go:         *)
(* packChain, tryEncode, packSplit; signal_*.go: truncateAttributes,       *)
(* splitHalf).  A batch is grouped by partition key (module Grouping), and *)
(* each group is packed into records of at most MaxRecordSize bytes by the *)
(* configured chain of policies.  The recursion of packSplit is the stack  *)
(* of the pieces still to pack.                                            *)
(***************************************************************************)
EXTENDS Grouping

CONSTANTS N,               \* items of a batch, numbered in batch order
          Inputs,          \* [batch, plan, policies]: batches and configurations
          MaxRecordSize,   \* max_record_size
          MaxAttr,         \* oversize.max_attribute_value_bytes
          MaxAttempts,     \* oversize.max_attempts
          ShortKey,        \* keyOverhead of tag_hash
          LongKey,         \* keyOverhead of random
          MaxErrors        \* bound: failures of the codec or compressor

Items == 1..N

ASSUME SizesAssumption ==
  /\ N \in Nat /\ MaxRecordSize \in Nat \ {0} /\ MaxAttr \in Nat \ {0}
  /\ ShortKey \in Nat /\ LongKey \in Nat
ASSUME BoundsAssumption == MaxAttempts \in Nat \ {0} /\ MaxErrors \in Nat

VARIABLES batch,            \* what is exported
          plan,             \* the key plan
          policies,         \* oversize.policies
          next,             \* groupByTags: the resource, unit and item to group
          groups,           \* emit: the groups still to pack
          key,              \* emit: the key of the group being packed
          current,          \* packChain: the piece as the policies left it
          left,             \* packChain: the policies not tried yet
          stack,            \* packSplit: the pieces to pack, next one first
          at,               \* where the export stands
          errs,             \* failures of the codec so far
          entries,          \* emit: the records for flush
          drops             \* items counted as dropped, by reason

vars == <<batch, plan, policies, next, groups, key, current, left, stack, at, errs,
          entries, drops>>

input == <<batch, plan, policies>>

CodecErrors == {"marshal_error", "compress_error"}
Reasons == CodecErrors \cup
           {"reject_policy", "chain_exhausted", "max_attempts", "irreducible"}

\* Config.Validate: split_half and reject end the chain they appear in.
ValidChain(chain) ==
  /\ chain # <<>>
  /\ \A i \in DOMAIN chain :
       \/ chain[i] = "truncate"
       \/ chain[i] \in {"split_half", "reject"} /\ i = Len(chain)

\* Config.Validate: what is read from attributes needs a name, which the name of
\* a metric has not.
ValidPlan(p) ==
  \A i \in DOMAIN p :
    \/ p[i].source \in {"resource", "datapoint"} /\ p[i].name # ""
    \/ p[i].source = "metric_name" /\ p[i].name = ""

-----------------------------------------------------------------------------
(* Batches.  In the batch that is exported, origins are positions and      *)
(* items are numbered in its order.                                        *)

IsSeq(s) == s \in Seq(ToSet(s))

ItemOK(x) == /\ x = [id |-> x.id, body |-> x.body, attrs |-> x.attrs]
             /\ x.id \in Items
ItemsOK(items) == IsSeq(items) /\ \A x \in ToSet(items) : ItemOK(x)

UnitOK(u) == /\ u = [from |-> u.from, name |-> u.name, items |-> u.items]
             /\ u.from \in Nat /\ ItemsOK(u.items)
UnitsOK(us) == IsSeq(us) /\ \A u \in ToSet(us) : UnitOK(u)

ResourceOK(r) == /\ r = [from |-> r.from, attrs |-> r.attrs, units |-> r.units]
                 /\ r.from \in Nat /\ UnitsOK(r.units)
BatchOK(b) == IsSeq(b) /\ \A r \in ToSet(b) : ResourceOK(r)

GroupOK(g) == g = [key |-> g.key, res |-> g.res] /\ BatchOK(g.res)

PieceOK(p) == /\ p = [res |-> p.res, trimmed |-> p.trimmed]
              /\ p.trimmed \in BOOLEAN /\ BatchOK(p.res)

\* The items of a batch in order, its scopes and metrics flattened.
ItemsOf(b) ==
  FlattenSeq(FlattenSeq([i \in DOMAIN b |->
    [k \in DOMAIN b[i].units |-> b[i].units[k].items]]))

\* Their ids.
IdsOf(items) == [n \in DOMAIN items |-> items[n].id]
IdsOfUnits(us) == FlattenSeq([k \in DOMAIN us |-> IdsOf(us[k].items)])
Ids(b) == FlattenSeq([i \in DOMAIN b |-> IdsOfUnits(b[i].units)])

Numbered(b) ==
  /\ \A i \in DOMAIN b : /\ b[i].from = i
                         /\ \A k \in DOMAIN b[i].units : b[i].units[k].from = k
  /\ \A m, n \in DOMAIN Ids(b) : m < n => Ids(b)[m] < Ids(b)[n]

ASSUME InputsAssumption ==
  \A in \in Inputs : /\ IsSeq(in.policies) /\ ValidChain(in.policies)
                     /\ IsSeq(in.plan) /\ ValidPlan(in.plan)
                     /\ BatchOK(in.batch) /\ Numbered(in.batch)

\* What joinParts relies on: the separator is in no part of a key.  The comment on
\* tagSep calls it vanishingly unlikely; nothing checks it.
Plain(t) == IsSeq(t) /\ TagSep \notin ToSet(t)

ASSUME SeparatorAssumption ==
  \A in \in Inputs : \A r \in ToSet(in.batch) : \A u \in ToSet(r.units) :
    \A x \in ToSet(u.items) :
      LET parts == ResolveParts(in.plan, r.attrs, u.name, x.attrs)
      IN  \A i \in DOMAIN parts : Plain(parts[i])

-----------------------------------------------------------------------------
(* Pieces: a sequence of resources, and whether its attributes were        *)
(* truncated (truncation is of a whole piece, and idempotent).             *)

Piece(b) == [res |-> b, trimmed |-> FALSE]
NoPiece == Piece(<<>>)

ItemCount(p) == Len(Ids(p.res))

\* Bytes are named by their role in UTF-8: a continuation byte is "c".
RuneStart(byte) == byte # "c"

\* Mutant: the cut is where the limit is.
CutAtLimit(t) == MaxAttr

\* utf8SafeCut: at the limit, or up to three bytes before it, but not at 0.
Utf8SafeCut(t) ==
  LET cuts == {n \in 1..MaxAttr : n > MaxAttr - 4 /\ RuneStart(t[n + 1])}
  IN IF cuts = {} THEN MaxAttr ELSE Max(cuts)

\* clampStringAttrs, on one value.
Clamp(v, trimmed) ==
  IF trimmed /\ v.kind = "str" /\ Len(v.text) > MaxAttr
    THEN SubSeq(v.text, 1, Utf8SafeCut(v.text)) ELSE v.text

AttrBytes(attrs, trimmed) ==
  MapThenSumSet(LAMBDA n : Len(Clamp(attrs[n], trimmed)), DOMAIN attrs)

ItemBytes(item, trimmed) == item.body + AttrBytes(item.attrs, trimmed)

\* Bytes of the encoded piece: one for each resource, and what it carries.
Bytes(p) ==
  LET items == ItemsOf(p.res)
  IN  MapThenSumSet(LAMBDA i : 1 + AttrBytes(p.res[i].attrs, p.trimmed), DOMAIN p.res)
      + MapThenSumSet(LAMBDA j : ItemBytes(items[j], p.trimmed), DOMAIN items)

tagHash == plan # <<>>

keyOverhead == IF tagHash THEN ShortKey ELSE LongKey

\* Mutant: the key is not budgeted for.
FitsWithoutKey(p) == Bytes(p) <= MaxRecordSize

Fits(p) == Bytes(p) + keyOverhead <= MaxRecordSize

\* tryEncode: the results one encoding can have.  An error counts only through
\* the items it drops: one on a piece without items looks like a misfit.
TryEncode(p) ==
  {IF Fits(p) THEN "fit" ELSE "large"} \cup
  (IF errs = MaxErrors THEN {}
   ELSE IF ItemCount(p) = 0 THEN {"large"} ELSE CodecErrors)

\* The encoding of piece p had result r.
Encoded(p, r) ==
  /\ r \in TryEncode(p)
  /\ errs' = IF r = (IF Fits(p) THEN "fit" ELSE "large") THEN errs ELSE errs + 1

\* truncateAttributes: does it change anything?
Clampable(p) ==
  LET Long(attrs) == \E n \in DOMAIN attrs : Clamp(attrs[n], TRUE) # attrs[n].text
  IN  /\ ~p.trimmed
      /\ \/ \E i \in DOMAIN p.res : Long(p.res[i].attrs)
         \/ \E item \in ToSet(ItemsOf(p.res)) : Long(item.attrs)

\* Mutant: one is split off at a time.
MiddleOne(s) == 1

Middle(s) == Len(s) \div 2

\* Mutant: the element in the middle is in both halves.
SecondHalfOverlaps(s) == SubSeq(s, Middle(s), Len(s))

FirstHalf(s) == SubSeq(s, 1, Middle(s))
SecondHalf(s) == SubSeq(s, Middle(s) + 1, Len(s))

\* Mutant: a single metric is a leaf.
SplittableNotPoints(p) ==
  \/ Len(p.res) > 1
  \/ Len(p.res) = 1 /\ Len(p.res[1].units) > 1

Splittable(p) ==
  \/ Len(p.res) > 1
  \/ Len(p.res) = 1 /\ Len(p.res[1].units) > 1
  \/ Len(p.res) = 1 /\ Len(p.res[1].units) = 1 /\ Len(p.res[1].units[1].items) > 1

\* splitHalf: the halves of the resources, of the units of the only resource, or
\* of the items of its only unit.
SplitHalf(p) ==
  IF Len(p.res) > 1
    THEN <<[p EXCEPT !.res = FirstHalf(@)], [p EXCEPT !.res = SecondHalf(@)]>>
  ELSE IF Len(p.res[1].units) > 1
    THEN <<[p EXCEPT !.res[1].units = FirstHalf(@)],
           [p EXCEPT !.res[1].units = SecondHalf(@)]>>
  ELSE <<[p EXCEPT !.res[1].units[1].items = FirstHalf(@)],
         [p EXCEPT !.res[1].units[1].items = SecondHalf(@)]>>

-----------------------------------------------------------------------------
Init ==
  /\ \E in \in Inputs :
       batch = in.batch /\ plan = in.plan /\ policies = in.policies
  /\ next = [res |-> 1, unit |-> 1, item |-> 1] /\ groups = <<>>
  /\ key = <<>> /\ current = NoPiece /\ left = <<>> /\ stack = <<>>
  /\ at = "begin" /\ errs = 0
  /\ entries = <<>> /\ drops = [r \in Reasons |-> 0]

-----------------------------------------------------------------------------
(* groupByTags: without a key plan the batch is one group; otherwise the   *)
(* loop over its resources, or the loops over its items.                   *)

packing == <<key, current, left, stack, errs, entries, drops>>

GroupWhole ==
  /\ at = "begin" /\ ~tagHash
  /\ groups' = <<[key |-> <<>>, res |-> batch]>>
  /\ at' = "grouped"
  /\ UNCHANGED <<input, next, packing>>

Regrouping(byResource) == at = "begin" /\ tagHash /\ (ResourceOnly(plan) <=> byResource)

GroupResource ==
  /\ Regrouping(TRUE) /\ next.res <= Len(batch)
  /\ groups' = AddResource(plan, groups, batch[next.res])
  /\ next' = [next EXCEPT !.res = @ + 1]
  /\ UNCHANGED <<input, at, packing>>

nextResource == batch[next.res]
nextUnit == nextResource.units[next.unit]

GroupLeaf ==
  /\ Regrouping(FALSE) /\ next.res <= Len(batch)
  /\ next.unit <= Len(nextResource.units) /\ next.item <= Len(nextUnit.items)
  /\ groups' = AddLeaf(plan, groups, nextResource, nextUnit, nextUnit.items[next.item])
  /\ next' = [next EXCEPT !.item = @ + 1]
  /\ UNCHANGED <<input, at, packing>>

UnitEnds ==
  /\ Regrouping(FALSE) /\ next.res <= Len(batch)
  /\ next.unit <= Len(nextResource.units) /\ next.item > Len(nextUnit.items)
  /\ groups' = IF nextUnit.items = <<>>
                 THEN AddShell(plan, groups, nextResource, nextUnit) ELSE groups
  /\ next' = [next EXCEPT !.unit = @ + 1, !.item = 1]
  /\ UNCHANGED <<input, at, packing>>

ResourceEnds ==
  /\ Regrouping(FALSE) /\ next.res <= Len(batch)
  /\ next.unit > Len(nextResource.units)
  /\ next' = [res |-> next.res + 1, unit |-> 1, item |-> 1]
  /\ UNCHANGED <<input, groups, at, packing>>

GroupingEnds ==
  /\ at = "begin" /\ tagHash /\ next.res > Len(batch)
  /\ at' = "grouped"
  /\ UNCHANGED <<input, next, groups, packing>>

-----------------------------------------------------------------------------
\* A piece becomes a record.  The key stands for its hash; under random every
\* record gets a key of its own.
Ship(p) ==
  /\ entries' = Append(entries, [key |-> key, piece |-> p])
  /\ UNCHANGED drops

\* addReason and recordDrop.
Drop(p, reason) ==
  /\ drops' = [drops EXCEPT ![reason] = @ + ItemCount(p)]
  /\ UNCHANGED entries

Neither == UNCHANGED <<entries, drops>>

\* packChain returns.
Return == at' = "emit" /\ current' = NoPiece /\ left' = <<>> /\ stack' = <<>>

\* emit: the next group, first encoded as it is.
TakeGroup ==
  /\ at \in {"grouped", "emit"} /\ groups # <<>>
  /\ key' = Head(groups).key
  /\ current' = Piece(Head(groups).res)
  /\ groups' = Tail(groups)
  /\ left' = policies /\ at' = "first"
  /\ UNCHANGED <<input, next, stack, errs, entries, drops>>

FirstTry ==
  /\ at = "first"
  /\ \E r \in TryEncode(current) :
       /\ Encoded(current, r)
       /\ \/ r = "fit" /\ Ship(current) /\ Return
          \/ r \in CodecErrors /\ Drop(current, r) /\ Return
          \/ /\ r = "large" /\ at' = "policies" /\ Neither
             /\ UNCHANGED <<current, left, stack>>
  /\ UNCHANGED <<input, next, groups, key>>

\* truncate_attribute_values: a clone that fits is shipped, one that does not
\* is handed on, and one that cannot be encoded is forgotten.
Truncate ==
  /\ at = "policies" /\ left # <<>> /\ Head(left) = "truncate"
  /\ \/ /\ ~Clampable(current)
        /\ left' = Tail(left) /\ Neither
        /\ UNCHANGED <<current, stack, at, errs>>
     \/ /\ Clampable(current)
        /\ LET trimmed == [current EXCEPT !.trimmed = TRUE] IN
           \E r \in TryEncode(trimmed) :
             /\ Encoded(trimmed, r)
             /\ \/ r = "fit" /\ Ship(trimmed) /\ Return
                \/ /\ r # "fit" /\ left' = Tail(left) /\ Neither
                   /\ current' = IF r = "large" THEN trimmed ELSE current
                   /\ UNCHANGED <<stack, at>>
  /\ UNCHANGED <<input, next, groups, key>>

StartSplit ==
  /\ at = "policies" /\ left # <<>> /\ Head(left) = "split_half"
  /\ at' = "split"
  /\ stack' = <<[piece |-> current, depth |-> 0]>>
  /\ current' = NoPiece /\ left' = <<>> /\ Neither
  /\ UNCHANGED <<input, next, groups, key, errs>>

Reject ==
  /\ at = "policies" /\ left # <<>> /\ Head(left) = "reject"
  /\ Drop(current, "reject_policy") /\ Return
  /\ UNCHANGED <<input, next, groups, key, errs>>

Exhausted ==
  /\ at = "policies" /\ left = <<>>
  /\ Drop(current, "chain_exhausted") /\ Return
  /\ UNCHANGED <<input, next, groups, key, errs>>

\* Mutant: one halving too many.
OutOfAttemptsLate(d) == d > MaxAttempts

OutOfAttempts(d) == d >= MaxAttempts

\* Mutant: the second half is packed first.
HalvesSwapped(p, d) == [i \in 1..2 |-> [piece |-> SplitHalf(p)[3 - i], depth |-> d + 1]]

\* The two calls that packSplit makes of itself.
Halves(p, d) == [i \in 1..2 |-> [piece |-> SplitHalf(p)[i], depth |-> d + 1]]

\* One call of packSplit.
PackSplit ==
  /\ at = "split" /\ stack # <<>>
  /\ LET p == Head(stack).piece
         d == Head(stack).depth
     IN \E r \in TryEncode(p) :
          /\ Encoded(p, r)
          /\ \/ r = "fit" /\ Ship(p) /\ stack' = Tail(stack)
             \/ r \in CodecErrors /\ Drop(p, r) /\ stack' = Tail(stack)
             \/ /\ r = "large" /\ OutOfAttempts(d)
                /\ Drop(p, "max_attempts") /\ stack' = Tail(stack)
             \/ /\ r = "large" /\ ~OutOfAttempts(d) /\ ~Splittable(p)
                /\ Drop(p, "irreducible") /\ stack' = Tail(stack)
             \/ /\ r = "large" /\ ~OutOfAttempts(d) /\ Splittable(p)
                /\ stack' = Halves(p, d) \o Tail(stack) /\ Neither
  /\ UNCHANGED <<input, next, groups, key, current, left, at>>

SplitEnds ==
  /\ at = "split" /\ stack = <<>>
  /\ Return /\ Neither
  /\ UNCHANGED <<input, next, groups, key, errs>>

\* emit hands the records to flush (module PutRecords).
Flush ==
  /\ at \in {"grouped", "emit"} /\ groups = <<>>
  /\ at' = "flush"
  /\ UNCHANGED <<input, next, groups, key, current, left, stack, errs, entries, drops>>

Next ==
  \/ GroupWhole \/ GroupResource
  \/ GroupLeaf \/ UnitEnds \/ ResourceEnds \/ GroupingEnds
  \/ TakeGroup \/ FirstTry
  \/ Truncate \/ StartSplit \/ Reject \/ Exhausted
  \/ PackSplit \/ SplitEnds
  \/ Flush

Spec == Init /\ [][Next]_vars

-----------------------------------------------------------------------------
Origin(i) == batch[CHOOSE r \in DOMAIN batch : i \in ToSet(Ids(<<batch[r]>>))]

UnitOf(r, i) == CHOOSE u \in ToSet(r.units) : \E x \in ToSet(u.items) : x.id = i
ItemOf(u, i) == CHOOSE x \in ToSet(u.items) : x.id = i

PartsOf(r, u, attrs) == ResolveParts(plan, r.attrs, u.name, attrs)

\* The tuple of key parts of item i.
KeyTuple(i) ==
  LET r == Origin(i)
      u == UnitOf(r, i)
  IN  PartsOf(r, u, ItemOf(u, i).attrs)

\* Type correctness: whatever is grouped, truncated and halved is a batch.
TypeOK ==
  /\ next \in [res : Nat, unit : Nat, item : Nat]
  /\ IsSeq(groups) /\ \A g \in ToSet(groups) : GroupOK(g)
  /\ PieceOK(current)
  /\ \E n \in 1..(Len(policies) + 1) : left = SubSeq(policies, n, Len(policies))
  /\ IsSeq(stack)
  /\ \A c \in ToSet(stack) : PieceOK(c.piece) /\ c.depth \in 0..MaxAttempts
  /\ at \in {"begin", "grouped", "emit", "first", "policies", "split", "flush"}
  /\ errs \in 0..MaxErrors
  /\ IsSeq(entries) /\ \A e \in ToSet(entries) : PieceOK(e.piece)
  /\ drops \in [Reasons -> Nat]

\* Grouping loses and merges nothing: no two groups have the same key, no group
\* has a metric twice, and every item, and every metric that has none, is in
\* the group of its key under the metric it came with (bucketFor, ensureMetric,
\* the branch for metrics without data points).
Regrouped ==
  LET Kept(r, u, x) ==
        \E g \in DOMAIN groups :
          /\ tagHash => groups[g].key =
               JoinParts(PartsOf(r, u, IF x = <<>> THEN NoAttrs ELSE x[1].attrs))
          /\ \E q \in ToSet(groups[g].res) : \E v \in ToSet(q.units) :
               /\ q.from = r.from /\ v.from = u.from /\ v.name = u.name
               /\ x # <<>> => \E y \in ToSet(v.items) : y.id = x[1].id
  IN at = "grouped" =>
       /\ \A g, h \in DOMAIN groups : groups[g].key = groups[h].key => g = h
       /\ \A g \in DOMAIN groups :
            /\ IsInjective([i \in DOMAIN groups[g].res |-> groups[g].res[i].from])
            /\ \A r \in ToSet(groups[g].res) :
                 IsInjective([k \in DOMAIN r.units |-> r.units[k].from])
       /\ \A r \in ToSet(batch) : \A u \in ToSet(r.units) :
            IF u.items = <<>> THEN Kept(r, u, <<>>)
            ELSE \A x \in ToSet(u.items) : Kept(r, u, <<x>>)

\* after is before with what the plan promotes to records of this level added.
Extends(before, after, parts, sources) ==
  /\ \A n \in DOMAIN before : n \in DOMAIN after /\ after[n] = before[n]
  /\ \A n \in DOMAIN after \ DOMAIN before :
       \E i \in DOMAIN plan :
         /\ plan[i].promote = n /\ plan[i].source \in sources
         /\ parts[i] # <<>> /\ after[n] = Str(parts[i])
  /\ \A i \in DOMAIN plan :
       plan[i].source \in sources /\ plan[i].promote # NoPromote /\ parts[i] # <<>>
         => plan[i].promote \in DOMAIN after

\* Promotion only adds: attributes that are there keep their value, what is added
\* is a part of the item's own key, and no part that the plan promotes is missing
\* from an item or from a resource that has items (applyPromotions, which the
\* groupers call once for each item of a resource).
Additive ==
  at = "grouped" =>
    \A g \in DOMAIN groups : \A r \in ToSet(groups[g].res) :
      \A u \in ToSet(r.units) : \A x \in ToSet(u.items) :
        LET from == batch[r.from]
            item == CHOOSE y \in ToSet(ItemsOf(<<from>>)) : y.id = x.id
        IN  /\ Extends(item.attrs, x.attrs, KeyTuple(x.id), ToLeaf)
            /\ Extends(from.attrs, r.attrs, KeyTuple(x.id), ToResource)

Shipped == FlattenSeq([e \in DOMAIN entries |-> Ids(entries[e].piece.res)])
Pending == FlattenSeq([i \in DOMAIN stack |-> Ids(stack[i].piece.res)])
           \o Ids(current.res)
           \o FlattenSeq([g \in DOMAIN groups |-> Ids(groups[g].res)])
Dropped == drops["marshal_error"] + drops["compress_error"] + drops["reject_policy"]
           + drops["chain_exhausted"] + drops["max_attempts"] + drops["irreducible"]

\* No item is in two records, and at every moment of grouping, truncating and
\* halving the items that are shipped, pending and counted as dropped are the
\* items of the batch (emit, packChain, packSplit and drops.merge).
Accounted ==
  at # "begin" =>
    /\ IsInjective(Shipped \o Pending)
    /\ Len(Shipped) + Len(Pending) + Dropped = Len(Ids(batch))

\* What emit hands to flush is what Kinesis takes: a record is within the limit
\* together with its key, which tryEncode has to budget for before the record has
\* one.
RecordsFit ==
  \A e \in DOMAIN entries :
    Bytes(entries[e].piece) + keyOverhead <= MaxRecordSize

\* Under tag_hash two items have the same key if and only if they have the same
\* tuple of key parts, wherever in the joined text one part ends and the next
\* begins (groupByTags, joinParts).
OneKeyPerTuple ==
  tagHash =>
    \A e, f \in DOMAIN entries :
      \A i \in ToSet(Ids(entries[e].piece.res)), j \in ToSet(Ids(entries[f].piece.res)) :
        (entries[e].key = entries[f].key) <=> (KeyTuple(i) = KeyTuple(j))

\* Records are in the order of the batch, key by key under tag_hash (the order
\* flush then sends them in): regrouping and packSplit's two halves keep it.
InOrder ==
  \A m, n \in DOMAIN Shipped :
    (m < n /\ (~tagHash \/ KeyTuple(Shipped[m]) = KeyTuple(Shipped[n])))
      => Shipped[m] < Shipped[n]

\* A cut is between two code points of t.
Boundary(t, n) == n = 0 \/ n = Len(t) \/ RuneStart(t[n + 1])

\* What utf8SafeCut relies on: a code point has at most four bytes.
Utf8(t) == /\ t \in Seq(STRING)
           /\ \A n \in 1..(Len(t) - 3) : \E m \in n..(n + 3) : RuneStart(t[m])

\* A truncated value that is shipped is valid UTF-8 if it was before, and no
\* shorter than the limit makes it, unless its first code point alone exceeds the
\* limit (utf8SafeCut, whose scan stops before a cut at 0).
WellFormed ==
  LET Cut(v, trimmed) ==
        LET t == v.text
            n == Len(Clamp(v, trimmed))
            fitting == {b \in 1..Min({Len(t), MaxAttr}) : Boundary(t, b)}
        IN  trimmed /\ v.kind = "str" /\ Utf8(t) /\ fitting # {} => n = Max(fitting)
  IN \A e \in DOMAIN entries : LET p == entries[e].piece IN
       \A m \in {r.attrs : r \in ToSet(p.res)} \cup {x.attrs : x \in ToSet(ItemsOf(p.res))} :
         \A n \in DOMAIN m : Cut(m[n], p.trimmed)

\* The record that item i would be on its own, with what is promoted to it.
Alone(i, trimmed) ==
  LET r == Origin(i)
      u == UnitOf(r, i)
      x == ItemOf(u, i)
      Promoted(sources, attrs) == ApplyPromotions(plan, KeyTuple(i), sources, attrs)
  IN [res |-> <<[r EXCEPT
                   !.attrs = Promoted(ToResource, @),
                   !.units = <<[u EXCEPT !.items =
                     <<[x EXCEPT !.attrs = Promoted(ToLeaf, @)]>>]>>]>>,
      trimmed |-> trimmed]

Halvings(n) == CHOOSE d \in 0..n : 2^d >= n /\ \A e \in 0..(d - 1) : 2^e < n
Widest(S) == IF S = {} THEN 0 ELSE Halvings(Max(S))

\* Resources, units and items of the batch can be told apart by MaxAttempts
\* halvings.
AttemptsSuffice ==
  Widest({Len(batch)})
    + Widest({Len(batch[r].units) : r \in DOMAIN batch})
    + Widest(UNION {{Len(batch[r].units[u].items) : u \in DOMAIN batch[r].units} :
                      r \in DOMAIN batch}) <= MaxAttempts

\* With split_half in the chain and no codec failure, an item is given up only if
\* it does not fit a record of its own, truncated if the chain truncates, unless
\* the batch needs more halvings than max_attempts: packSplit halves rather than
\* peels off, and calls nothing irreducible that splitHalf could reduce.
OnlyUnfitDropped ==
  (/\ at = "flush" /\ errs = 0 /\ Last(policies) = "split_half"
   /\ AttemptsSuffice \/ drops["max_attempts"] = 0)
  => \A i \in ToSet(Ids(batch)) \ ToSet(Shipped) :
       ~Fits(Alone(i, Head(policies) = "truncate"))
=============================================================================
