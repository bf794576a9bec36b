--------------------------- MODULE HybridMultiIndex ---------------------------
(***************************************************************************)
(* The tree path class of hybridmultiindex.hh: a tuple of indices each of  *)
(* which is a std::size_t or an index_constant, made from arguments of any *)
(* integral type, with the functions that make new multi-indices of old    *)
(* ones (a multi-index is not mutated) and the comparison.                 *)
(***************************************************************************)
EXTENDS Integers, Sequences

CONSTANT Size       \* 2^w for a size_t of w bits

size_t == 0 .. Size - 1

Entry == [type : {"size_t", "index_constant"}, value : size_t]

MultiIndex == Seq(Entry)

(* An argument: a number of an integral type or a std::integral_constant.  *)
Argument == [type : {"integral", "integral_constant"}, value : Int]

(* The static_assert, and the assertion, that guard the conversion; a      *)
(* constant that is no size_t is no template argument either.              *)
Castable(t) == t.value >= 0 /\ (t.type = "integral_constant" => t.value < Size)

(* A number that does not fit is taken modulo 2^w.                         *)
castToHybridSizeT(t) ==
  [type |-> IF t.type = "integral_constant" THEN "index_constant" ELSE "size_t",
   value |-> t.value % Size]

(* HybridMultiIndex(i...), makeTreePath, hybridTreePath and treePath.      *)
makeTreePath(args) == [j \in 1 .. Len(args) |-> castToHybridSizeT(args[j])]

treePathSize(p) == Len(p)

(* operator[](index_constant<i>), and the run-time operator[], which has   *)
(* an answer also where there is no entry.                                 *)
treePathEntry(p, i) == p[i + 1]

at(p, pos) == IF pos < Len(p) THEN treePathEntry(p, pos).value ELSE 0

front(p) == treePathEntry(p, 0)

back(p) == treePathEntry(p, Len(p) - 1)

values(p) == [j \in 1 .. Len(p) |-> p[j].value]

(* Hybrid::plus: the sum is a constant if both are.                        *)
plus(s, t) ==
  [type |-> IF s.type = t.type THEN s.type ELSE "size_t",
   value |-> (s.value + t.value) % Size]

push_back(p, i) == Append(p, i)

push_front(p, i) == << i >> \o p

pop_back(p) == [j \in 1 .. Len(p) - 1 |-> p[j]]

pop_front(p) == [j \in 1 .. Len(p) - 1 |-> p[j + 1]]

accumulate_back(p, i) == push_back(pop_back(p), plus(back(p), i))

accumulate_front(p, i) == push_front(pop_front(p), plus(front(p), i))

join(p, q) == p \o q

reverse(p) == [j \in 1 .. Len(p) |-> p[Len(p) - (j - 1)]]

(* An index_constant converts to size_t, but to no index_constant of       *)
(* another value.                                                          *)
IsInteroperable(s, t) == s.type = "size_t" \/ t.type = "size_t" \/ s = t

isStatic(p) == \A j \in 1 .. Len(p) : p[j].type = "index_constant"

(* operator==; the overload for two purely static multi-indices compares   *)
(* the multi-indices of their values.                                      *)
Equal(p, q) ==
  IF isStatic(p) /\ isStatic(q)
    THEN values(p) = values(q)
    ELSE /\ Len(p) = Len(q)
         /\ \A j \in 1 .. Len(p) : IsInteroperable(p[j], q[j])
         /\ \A j \in 1 .. Len(p) : p[j].value = q[j].value

=============================================================================
