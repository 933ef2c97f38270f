------------------------------ MODULE Grouping ------------------------------
(***************************************************************************)
(* Partition keys of the exporter (partition.go, partition_grouping.go and *)
(* the groupers of signal_*.go): a batch is regrouped so that every group  *)
(* holds the items of one key, and key parts are written back to the       *)
(* records where the key plan says so.                                     *)
(*                                                                         *)
(* A batch is a sequence of resources [from, attrs, units], a unit is      *)
(* [from, name, items], an item [id, body, attrs].  A log record or a span *)
(* is a unit of one item and no name; a metric's items are its data        *)
(* points, and it may have none.  Scopes are flattened: no key reads them. *)
(* from is the index of a resource or unit in the batch, by which the      *)
(* buckets of the code find what they have already copied (rm, sm, metric, *)
(* and their likes for spans and logs).                                    *)
(*                                                                         *)
(* A text is a sequence of bytes, attributes are a function from names to  *)
(* values [kind, text], text being what AsString returns.                  *)
(*                                                                         *)
(* The operators here are the bodies of the groupers' loops; the loops are *)
(* steps of module Oversize.                                               *)
(***************************************************************************)
EXTENDS Integers, Sequences, SequencesExt, FiniteSetsExt

TagSep == "sep"                 \* a byte that no attribute value has

Str(t) == [kind |-> "str", text |-> t]

NoAttrs == <<>>                 \* emptyAttrs

-----------------------------------------------------------------------------
(* Key plans: sequences of [source, name, re, promote], the empty plan     *)
(* standing for strategy random.  re maps a text to its submatches, as     *)
(* FindStringSubmatch does (<<>> if there is no match); it is <<>> itself  *)
(* where no regex is configured.                                           *)

NoRegex == <<>>
NoPromote == ""

ResourceOnly(plan) == \A i \in DOMAIN plan : plan[i].source = "resource"

\* The first capture group, or the whole match if the pattern has no group.
FirstCapture(re, v) ==
  IF re[v] = <<>> THEN <<>> ELSE IF Len(re[v]) > 1 THEN re[v][2] ELSE re[v][1]

Get(attrs, n) == IF n \in DOMAIN attrs THEN attrs[n].text ELSE <<>>

ResolveParts(plan, res, metricName, leaf) ==
  [i \in DOMAIN plan |->
     LET v == CASE plan[i].source = "resource" -> Get(res, plan[i].name)
                [] plan[i].source = "datapoint" -> Get(leaf, plan[i].name)
                [] plan[i].source = "metric_name" -> metricName
     IN  IF plan[i].re = NoRegex THEN v ELSE FirstCapture(plan[i].re, v)]

\* Mutant: without the separator.
JoinPlainly(parts) == FlattenSeq(parts)

JoinParts(parts) ==
  FlattenSeq([i \in DOMAIN parts |->
                IF i = 1 THEN parts[i] ELSE <<TagSep>> \o parts[i]])

\* The components that are promoted to name n of the records at the level that
\* sources belong to.
Promoters(plan, parts, sources, n) ==
  {i \in DOMAIN plan : /\ plan[i].promote = n /\ plan[i].promote # NoPromote
                       /\ plan[i].source \in sources /\ parts[i] # <<>>}

\* Mutant: a promoted value replaces the attribute that is there.
PromotionsReplace(plan, parts, sources, attrs) ==
  LET names == {n \in {plan[i].promote : i \in DOMAIN plan} :
                  Promoters(plan, parts, sources, n) # {}}
  IN [n \in names |-> Str(parts[Min(Promoters(plan, parts, sources, n))])] @@ attrs

\* applyPromotions: putIfAbsent in the order of the plan, so an attribute that is
\* there stays, and of two components with one target the first counts.
ApplyPromotions(plan, parts, sources, attrs) ==
  LET names == {n \in {plan[i].promote : i \in DOMAIN plan} :
                  Promoters(plan, parts, sources, n) # {}}
  IN [n \in DOMAIN attrs \cup names |->
        IF n \in DOMAIN attrs THEN attrs[n]
        ELSE Str(parts[Min(Promoters(plan, parts, sources, n))])]

ToResource == {"resource"}
ToLeaf == {"datapoint", "metric_name"}

-----------------------------------------------------------------------------
(* Groups: sequences of [key, res], one for each key, first seen first.    *)

\* Mutant: everything goes to the first group.
OneBucket(groups, key) == IF groups = <<>> THEN <<[key |-> key, res |-> <<>>]>> ELSE groups

\* bucketFor.
BucketFor(groups, key) ==
  IF \E g \in DOMAIN groups : groups[g].key = key THEN groups
  ELSE Append(groups, [key |-> key, res |-> <<>>])

\* One step of groupByResource, for resource r.
AddResource(plan, groups, r) ==
  LET parts == ResolveParts(plan, r.attrs, <<>>, NoAttrs)
      key == JoinParts(parts)
      moved == [r EXCEPT !.attrs = ApplyPromotions(plan, parts, ToResource, @)]
      opened == BucketFor(groups, key)
      g == SelectInSeq(opened, LAMBDA h : h.key = key)
  IN [opened EXCEPT ![g].res = Append(@, moved)]

\* Mutant: metrics of one name become one.
SameName(u, v) == u.name = v.name

\* The origin by which a bucket knows a unit; origins are of one resource here.
SameUnit(u, v) == u.from = v.from

\* ensureMetric, ensureScope: the copies of resource r and of its unit u, without
\* items, made when they are first needed.
Ensure(res, r, u) ==
  LET at == SelectInSeq(res, LAMBDA q : q.from = r.from)
      opened == IF at = 0 THEN Append(res, [r EXCEPT !.units = <<>>]) ELSE res
      a == IF at = 0 THEN Len(opened) ELSE at
  IN IF \E n \in DOMAIN opened[a].units : SameUnit(opened[a].units[n], u) THEN opened
     ELSE [opened EXCEPT ![a].units = Append(@, [u EXCEPT !.items = <<>>])]

\* One step of groupByLeaf, for item x of unit u of resource r.
AddLeaf(plan, groups, r, u, x) ==
  LET parts == ResolveParts(plan, r.attrs, u.name, x.attrs)
      key == JoinParts(parts)
      opened == BucketFor(groups, key)
      g == SelectInSeq(opened, LAMBDA h : h.key = key)
      res == Ensure(opened[g].res, r, u)
      a == SelectInSeq(res, LAMBDA q : q.from = r.from)
      c == SelectInSeq(res[a].units, LAMBDA q : SameUnit(q, u))
      moved == [x EXCEPT !.attrs = ApplyPromotions(plan, parts, ToLeaf, @)]
  IN [opened EXCEPT ![g].res =
        [res EXCEPT ![a].units[c].items = Append(@, moved),
                    ![a].attrs = ApplyPromotions(plan, parts, ToResource, @)]]

\* Mutant: a metric without data points is left out.
AddNoShell(plan, groups, r, u) == groups

\* The branch for a metric without data points, whose copy gets no promotions.
AddShell(plan, groups, r, u) ==
  LET key == JoinParts(ResolveParts(plan, r.attrs, u.name, NoAttrs))
      opened == BucketFor(groups, key)
      g == SelectInSeq(opened, LAMBDA h : h.key = key)
  IN [opened EXCEPT ![g].res = Ensure(@, r, u)]
=============================================================================
