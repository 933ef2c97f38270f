----------------------------- MODULE MCOversize -----------------------------
(***************************************************************************)
(* Values of the constants of Oversize for model checking.                 *)
(***************************************************************************)
EXTENDS Oversize

-----------------------------------------------------------------------------
(* Packing: every weight of four items in ten batches, without a key plan  *)
(* and with a key of the resource, and every chain of at most one          *)
(* truncation and a terminator.                                            *)

\* Texts that are cut to one byte when the limit is two.
Short == <<>>
Long == <<"a", "l", "c">>
Longer == <<"a", "l", "c", "a">>

Carry(t) == IF t = <<>> THEN NoAttrs ELSE "x" :> Str(t)

\* An item of which three fit a record, one that fits only truncated, and one
\* that never fits.
Weights == {[body |-> 1, text |-> Short], [body |-> 1, text |-> Long],
            [body |-> 4, text |-> Short]}

Shape(k, t, us) == [key |-> k, text |-> t, units |-> us]

\* A resource attribute of 4 bytes leaves no room for an item unless it is
\* truncated.
Shapes(t) ==
  { \* four log records of one resource
    <<Shape("a", t, <<<<1>>, <<2>>, <<3>>, <<4>>>>)>>,
    \* a metric with four data points
    <<Shape("a", t, <<<<1, 2, 3, 4>>>>)>>,
    \* two resources of one key
    <<Shape("a", t, <<<<1, 2>>>>), Shape("a", Short, <<<<3>>, <<4>>>>)>>,
    \* a key that comes back
    <<Shape("a", t, <<<<1>>>>), Shape("b", Short, <<<<2>>, <<3>>>>),
      Shape("a", Short, <<<<4>>>>)>>,
    \* halving on two axes, and a metric without data points
    <<Shape("a", Short, <<<<1>>, <<2, 3, 4>>>>), Shape("b", t, <<<<>>>>)>> }

Resource(i, attrs, us) == [from |-> i, attrs |-> attrs, units |-> us]
Unit(u, n, xs) == [from |-> u, name |-> n, items |-> xs]
Item(x, b, attrs) == [id |-> x, body |-> b, attrs |-> attrs]

Filled(shape, w) ==
  [i \in DOMAIN shape |->
     Resource(i, ("k" :> Str(<<shape[i].key>>)) @@ Carry(shape[i].text),
       [u \in DOMAIN shape[i].units |->
          Unit(u, <<>>, [n \in DOMAIN shape[i].units[u] |->
            LET x == shape[i].units[u][n]
            IN Item(x, w[x].body, Carry(w[x].text))])])]

Source(s, n, re, p) == [source |-> s, name |-> n, re |-> re, promote |-> p]

ResourceKey == <<Source("resource", "k", NoRegex, NoPromote)>>

Input(b, p, chain) == [batch |-> b, plan |-> p, policies |-> chain]

Chains == {<<"truncate">>, <<"truncate", "split_half">>, <<"truncate", "reject">>,
           <<"split_half">>, <<"reject">>}

Packing ==
  {Input(Filled(shape, w), p, chain) :
     shape \in Shapes(Short) \cup Shapes(Longer), w \in [1..4 -> Weights],
     p \in {<<>>, ResourceKey}, chain \in Chains}

-----------------------------------------------------------------------------
(* Keying: plans over resource and item attributes and metric names, with  *)
(* and without promotion.                                                  *)

Texts == BoundedSeq({"a", "b"}, 2)
A == <<"a">>
B == <<"b">>
AB == <<"a", "b">>
BB == <<"b", "b">>

\* ^(.), with a group, and ^b.*, without.
FirstByte == [v \in Texts |-> IF v = <<>> THEN <<>> ELSE <<<<v[1]>>, <<v[1]>>>>]
FromB == [v \in Texts |-> IF v # <<>> /\ v[1] = "b" THEN <<v>> ELSE <<>>]

\* Two metrics of one name, a metric without data points, keys that would collide
\* without a separator, and texts whose first code point is at or over the limit,
\* of items that fit a record when they are truncated.
SomeMetrics ==
  <<Resource(1, "r" :> Str(A),
      <<Unit(1, AB, <<Item(1, 1, "d" :> Str(B)), Item(2, 1, "d" :> Str(BB))>>),
        Unit(2, AB, <<Item(3, 0, ("d" :> Str(B)) @@ Carry(<<"l", "c", "c">>))>>),
        Unit(3, B, <<>>)>>),
    Resource(2, "r" :> Str(AB),
      <<Unit(1, AB, <<Item(4, 0, Carry(<<"l", "c", "a", "a">>))>>)>>)>>

\* A key that comes back, a value that is not a string, and a target of promotion
\* that is taken.
SomeLogs ==
  <<Resource(1, "r" :> Str(A),
      <<Unit(1, <<>>, <<Item(1, 1, "d" :> Str(B))>>),
        Unit(2, <<>>, <<Item(2, 1, "d" :> Str(A))>>),
        Unit(3, <<>>, <<Item(3, 1, ("d" :> Str(B)) @@ ("p" :> Str(A)))>>)>>),
    Resource(2, "p" :> Str(B),
      <<Unit(1, <<>>, <<Item(4, 1, "d" :> [kind |-> "int", text |-> B])>>)>>)>>

Plans ==
  { <<Source("resource", "r", NoRegex, "p")>>,
    <<Source("resource", "r", NoRegex, NoPromote),
      Source("datapoint", "d", NoRegex, NoPromote)>>,
    <<Source("datapoint", "d", NoRegex, "p"),
      Source("metric_name", "", FirstByte, "n")>>,
    <<Source("resource", "r", NoRegex, "p"), Source("datapoint", "d", FromB, "p")>>,
    <<Source("datapoint", "d", FromB, "p"),
      Source("datapoint", "d", NoRegex, "p")>> }

Keying ==
  {Input(b, p, chain) : b \in {SomeMetrics, SomeLogs}, p \in Plans,
                        chain \in {<<"split_half">>, <<"truncate", "split_half">>}}

AllInputs == Packing \cup Keying
=============================================================================
