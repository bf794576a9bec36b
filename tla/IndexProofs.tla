------------------------------ MODULE IndexProofs ------------------------------
(***************************************************************************)
(* The parts that compute with child indices: the functions of             *)
(* HybridMultiIndex for multi-indices of every length, representation and  *)
(* width of size_t, then the index maps of filters and views for every     *)
(* CompositeNode, every filter and every number of views.                  *)
(***************************************************************************)
EXTENDS HybridMultiIndex, NodeViews, SequenceTheorems, FiniteSetTheorems, TLAPS

-----------------------------------------------------------------------------
(* Multi-indices.                                                          *)
(* Entries of the same value are interoperable, whatever their types.      *)
LEMMA SameValueInteroperable ==
  ASSUME NEW s \in Entry, NEW t \in Entry, s.value = t.value
  PROVE  IsInteroperable(s, t)
BY DEF Entry, IsInteroperable

(* Two multi-indices are equal if and only if their values are, however    *)
(* each value is represented: operator== misses no case between its        *)
(* branches.                                                               *)
THEOREM EqualIsEqualValues ==
  ASSUME NEW p \in MultiIndex, NEW q \in MultiIndex
  PROVE  Equal(p, q) <=> values(p) = values(q)
<1>1. CASE isStatic(p) /\ isStatic(q)
  BY <1>1 DEF Equal
<1>2. CASE ~ (isStatic(p) /\ isStatic(q))
  <2>1. ASSUME Equal(p, q) PROVE values(p) = values(q)
    BY <1>2, <2>1 DEF Equal, values
  <2>2. ASSUME values(p) = values(q) PROVE Equal(p, q)
    <3>1. Len(p) = Len(q)
      <4>1. DOMAIN values(p) = 1 .. Len(p) /\ DOMAIN values(q) = 1 .. Len(q)
        BY DEF values
      <4>2. Len(p) \in Nat /\ Len(q) \in Nat
        BY DEF MultiIndex
      <4>3. 1 .. Len(p) = 1 .. Len(q)
        BY <2>2, <4>1
      <4> QED BY <4>2, <4>3
    <3>2. \A j \in 1 .. Len(p) : p[j].value = q[j].value
      <4> SUFFICES ASSUME NEW j \in 1 .. Len(p) PROVE p[j].value = q[j].value
        OBVIOUS
      <4>1. values(p)[j] = p[j].value /\ values(q)[j] = q[j].value
        BY <3>1 DEF values
      <4> QED BY <2>2, <4>1
    <3>3. \A j \in 1 .. Len(p) : IsInteroperable(p[j], q[j])
      BY <3>1, <3>2, SameValueInteroperable DEF MultiIndex
    <3> QED BY <1>2, <3>1, <3>2, <3>3 DEF Equal
  <2> QED BY <2>1, <2>2
<1> QED BY <1>1, <1>2

(* reverse undoes itself.                                                  *)
THEOREM ReverseTwice ==
  ASSUME NEW p \in MultiIndex
  PROVE  reverse(p) \in MultiIndex /\ reverse(reverse(p)) = p
<1>1. Len(p) \in Nat /\ p \in [1 .. Len(p) -> Entry]
  BY DEF MultiIndex
<1>2. reverse(p) \in MultiIndex /\ Len(reverse(p)) = Len(p)
  BY <1>1 DEF MultiIndex, reverse
<1>3. \A j \in 1 .. Len(p) : reverse(reverse(p))[j] = p[j]
  BY <1>1, <1>2 DEF reverse
<1> QED BY <1>1, <1>2, <1>3 DEF reverse

(* push and pop at one end undo each other.                                *)
THEOREM PushPop ==
  ASSUME NEW p \in MultiIndex, NEW i \in Entry
  PROVE  pop_back(push_back(p, i)) = p /\ pop_front(push_front(p, i)) = p
<1>1. Len(p) \in Nat /\ p \in [1 .. Len(p) -> Entry]
  BY DEF MultiIndex
<1>2. pop_back(push_back(p, i)) = p
  BY <1>1 DEF MultiIndex, pop_back, push_back
<1>3. pop_front(push_front(p, i)) = p
  BY <1>1 DEF MultiIndex, pop_front, push_front
<1> QED BY <1>2, <1>3

(* Modulo n does nothing below n.                                           *)
LEMMA SmallModulo ==
  ASSUME NEW n \in Nat \ {0}, NEW a \in 0 .. n - 1
  PROVE  a % n = a
BY SMT

(* makeTreePath keeps every value that a size_t can hold, and what is      *)
(* known at compile time stays known; the run-time operator[] of the       *)
(* result reads the arguments.                                             *)
THEOREM MakeTreePathKeepsValues ==
  ASSUME Size \in Nat \ {0}, NEW args \in Seq(Argument),
         \A j \in 1 .. Len(args) : Castable(args[j]) /\ args[j].value < Size,
         NEW p, p = makeTreePath(args)
  PROVE  /\ p \in MultiIndex
         /\ treePathSize(p) = Len(args)
         /\ \A i \in 0 .. Len(args) - 1 : at(p, i) = args[i + 1].value
         /\ isStatic(p) <=>
              \A j \in 1 .. Len(args) : args[j].type = "integral_constant"
<1>1. Len(args) \in Nat /\ \A j \in 1 .. Len(args) : args[j] \in Argument
  OBVIOUS
<1>2. ASSUME NEW j \in 1 .. Len(args)
      PROVE  /\ castToHybridSizeT(args[j]) \in Entry
             /\ castToHybridSizeT(args[j]).value = args[j].value
             /\ castToHybridSizeT(args[j]).type = "index_constant"
                  <=> args[j].type = "integral_constant"
  <2> DEFINE v == args[j].value
  <2>1. v \in 0 .. Size - 1
    BY <1>1 DEF Argument, Castable
  <2> HIDE DEF v
  <2>2. v % Size = v
    BY <2>1, SmallModulo
  <2> QED BY <1>1, <2>1, <2>2 DEF v, castToHybridSizeT, Entry, size_t, Argument
<1>3. Len(p) = Len(args) /\ \A j \in 1 .. Len(args) : p[j] = castToHybridSizeT(args[j])
  BY <1>1 DEF makeTreePath
<1>4. p \in MultiIndex
  <2>1. p = [j \in 1 .. Len(args) |-> castToHybridSizeT(args[j])]
    BY DEF makeTreePath
  <2>2. p \in [1 .. Len(args) -> Entry]
    BY <1>2, <2>1
  <2> QED BY <1>1, <2>2 DEF MultiIndex
<1>5. \A i \in 0 .. Len(args) - 1 : at(p, i) = args[i + 1].value
  BY <1>1, <1>2, <1>3 DEF at, treePathEntry
<1>6. isStatic(p) <=> \A j \in 1 .. Len(args) : args[j].type = "integral_constant"
  BY <1>2, <1>3 DEF isStatic
<1> QED BY <1>3, <1>4, <1>5, <1>6 DEF treePathSize

(* What happens at the front is what happens at the back of the reversed   *)
(* multi-index.                                                            *)
THEOREM ReverseSwapsEnds ==
  ASSUME NEW p \in MultiIndex, p # << >>, NEW i \in Entry
  PROVE  /\ reverse(pop_front(p)) = pop_back(reverse(p))
         /\ reverse(push_front(p, i)) = push_back(reverse(p), i)
         /\ front(p) = back(reverse(p))
<1>1. Len(p) \in Nat \ {0} /\ p \in [1 .. Len(p) -> Entry]
  BY DEF MultiIndex
<1> DEFINE r == reverse(p)
<1>2. r \in Seq(Entry) /\ Len(r) = Len(p) /\ \A j \in 1 .. Len(p) : r[j] = p[Len(p) - (j - 1)]
  BY <1>1 DEF reverse
<1> HIDE DEF r
<1>3. reverse(pop_front(p)) = pop_back(r)
  <2> DEFINE q == pop_front(p)
  <2>1. Len(q) = Len(p) - 1 /\ \A j \in 1 .. Len(p) - 1 : q[j] = p[j + 1]
    BY <1>1 DEF pop_front
  <2> HIDE DEF q
  <2>2. ASSUME NEW j \in 1 .. Len(q) PROVE q[Len(q) - (j - 1)] = r[j]
    <3>1. Len(q) - (j - 1) \in 1 .. Len(p) - 1
      BY <1>1, <2>1
    <3>2. q[Len(q) - (j - 1)] = p[(Len(q) - (j - 1)) + 1]
      BY <2>1, <3>1
    <3>3. (Len(q) - (j - 1)) + 1 = Len(p) - (j - 1) /\ j \in 1 .. Len(p)
      BY <1>1, <2>1
    <3> QED BY <1>2, <3>2, <3>3
  <2>3. reverse(q) = [j \in 1 .. Len(p) - 1 |-> q[Len(q) - (j - 1)]]
    BY <2>1 DEF reverse
  <2>4. pop_back(r) = [j \in 1 .. Len(p) - 1 |-> r[j]]
    BY <1>2 DEF pop_back
  <2> QED BY <2>1, <2>2, <2>3, <2>4 DEF q
<1>4. reverse(push_front(p, i)) = push_back(r, i)
  <2> DEFINE q == << i >> \o p
  <2>1. /\ q \in Seq(Entry) /\ Len(q) = Len(p) + 1 /\ q[1] = i
        /\ \A j \in 1 .. Len(p) : q[j + 1] = p[j]
    BY <1>1 DEF MultiIndex
  <2> HIDE DEF q
  <2> DEFINE s == reverse(q)
             a == Append(r, i)
  <2>2. /\ s \in Seq(Entry) /\ Len(s) = Len(p) + 1
        /\ \A j \in 1 .. Len(p) + 1 : s[j] = q[Len(q) - (j - 1)]
    BY <1>1, <2>1 DEF reverse
  <2>3. /\ a \in Seq(Entry) /\ Len(a) = Len(p) + 1 /\ a[Len(p) + 1] = i
        /\ \A j \in 1 .. Len(p) : a[j] = r[j]
    BY <1>1, <1>2, AppendProperties
  <2> HIDE DEF s, a
  <2>4. \A j \in 1 .. Len(p) : s[j] = r[j]
    <3> SUFFICES ASSUME NEW j \in 1 .. Len(p) PROVE s[j] = r[j]
      OBVIOUS
    <3>1. s[j] = q[(Len(p) - (j - 1)) + 1]
      BY <1>1, <2>1, <2>2
    <3>2. Len(p) - (j - 1) \in 1 .. Len(p)
      BY <1>1
    <3> QED BY <1>2, <2>1, <3>1, <3>2
  <2>5. s[Len(p) + 1] = i
    BY <1>1, <2>1, <2>2
  <2>6. s = a
    <3>1. ASSUME NEW j \in 1 .. Len(s) PROVE s[j] = a[j]
      <4>1. j \in 1 .. Len(p) \/ j = Len(p) + 1
        BY <1>1, <2>2
      <4> QED BY <2>3, <2>4, <2>5, <4>1
    <3>2. s \in Seq(Entry) /\ a \in Seq(Entry) /\ Len(s) = Len(a)
      BY <2>2, <2>3
    <3> QED BY <3>1, <3>2, SeqEqual
  <2> QED BY <2>6 DEF s, a, q, push_front, push_back
<1>5. front(p) = back(r)
  BY <1>1, <1>2 DEF front, back, treePathEntry
<1> QED BY <1>3, <1>4, <1>5 DEF r

(* Accumulating at the back keeps the length and every other entry; the   *)
(* last entry is the sum modulo the width of size_t, and a compile-time    *)
(* index exactly if both summands are.                                     *)
THEOREM AccumulateBack ==
  ASSUME Size \in Nat \ {0}, NEW p \in MultiIndex, p # << >>, NEW i \in Entry,
         NEW q, q = accumulate_back(p, i)
  PROVE  /\ q \in MultiIndex
         /\ Len(q) = Len(p)
         /\ \A j \in 1 .. Len(p) - 1 : q[j] = p[j]
         /\ q[Len(p)].value = (p[Len(p)].value + i.value) % Size
         /\ q[Len(p)].type = "index_constant" <=>
              p[Len(p)].type = "index_constant" /\ i.type = "index_constant"
<1> DEFINE init == pop_back(p)
           last == plus(p[Len(p)], i)
<1>1. Len(p) \in Nat \ {0} /\ p \in [1 .. Len(p) -> Entry]
  BY DEF MultiIndex
<1>2. init \in MultiIndex /\ Len(init) = Len(p) - 1
  BY <1>1 DEF MultiIndex, pop_back
<1>3. last \in Entry
  <2>1. p[Len(p)] \in Entry
    BY <1>1
  <2> DEFINE sum == p[Len(p)].value + i.value
  <2>2. sum \in Nat
    BY <2>1 DEF Entry, size_t
  <2> HIDE DEF sum
  <2>3. sum % Size \in 0 .. Size - 1
    BY <2>2
  <2> QED BY <2>1, <2>3 DEF sum, plus, Entry, size_t
<1>4. last.type = "index_constant" <=>
        p[Len(p)].type = "index_constant" /\ i.type = "index_constant"
  BY <1>1 DEF plus, Entry
<1>5. last.value = (p[Len(p)].value + i.value) % Size
  BY DEF plus
<1>6. \A j \in 1 .. Len(p) - 1 : init[j] = p[j]
  BY DEF pop_back
<1>7. q = Append(init, last)
  BY DEF accumulate_back, push_back, back, treePathEntry
<1> HIDE DEF init, last
<1>8. /\ Append(init, last) \in Seq(Entry)
      /\ Len(Append(init, last)) = Len(init) + 1
      /\ \A j \in 1 .. Len(init) : Append(init, last)[j] = init[j]
      /\ Append(init, last)[Len(init) + 1] = last
  BY <1>2, <1>3, AppendProperties DEF MultiIndex
<1>9. q \in MultiIndex /\ Len(q) = Len(p) /\ q[Len(p)] = last
  BY <1>1, <1>2, <1>7, <1>8 DEF MultiIndex
<1>10. \A j \in 1 .. Len(p) - 1 : q[j] = p[j]
  BY <1>1, <1>2, <1>6, <1>7, <1>8
<1> QED BY <1>4, <1>5, <1>9, <1>10

-----------------------------------------------------------------------------
(* Filters and views.                                                      *)

(* The function on the empty set.                                          *)
None == [x \in {} |-> x]

(* The recursion principles of StackLemmas ask for a tree; they are used   *)
(* for orders other than that of a tree, and an empty one will do.         *)
Lem == INSTANCE StackLemmas WITH
  Node <- {}, Type <- {}, TypeOf <- None, Tag <- None, Child <- None, Level <- None,
  ChildType <- None

(* What StackLemmas assumes holds of the empty tree.                       *)
LEMMA NoTree ==
  /\ Lem!NodeAssumption
  /\ Lem!NestingAssumption
  /\ Lem!ClassAssumption
  /\ Lem!ChildTypeAssumption
BY DEF Lem!NodeAssumption, Lem!NestingAssumption, Lem!ClassAssumption,
       Lem!ChildTypeAssumption, None

-----------------------------------------------------------------------------
(* The entries of a filter_result.                                         *)
EntryType == [filtered_index : Nat, original_index : Nat]

(* The entries made of the children from old_k on, the next one getting    *)
(* the index new_k: the recursion filter_helper unfolds.                   *)
Unfolds(apply, accepts, classes) ==
  apply = [from \in Nat \X (0 .. Len(classes)) |->
             LET new_k == from[1]
                 old_k == from[2]
             IN  IF old_k = Len(classes) THEN << >>
                 ELSE IF << classes[old_k + 1], new_k, old_k >> \in accepts
                   THEN << FilterEntry(new_k, old_k) >> \o apply[<< new_k + 1, old_k + 1 >>]
                   ELSE apply[<< new_k, old_k + 1 >>]]

(* There is a function that the recursion of filter_helper defines: every  *)
(* instantiation goes on to the next child and stops at the end.           *)
LEMMA FilterRecursion ==
  ASSUME NEW accepts, NEW classes \in Seq(Class)
  PROVE  \E apply \in [Nat \X (0 .. Len(classes)) -> Seq(EntryType)] :
           Unfolds(apply, accepts, classes)
<1> DEFINE n == Len(classes)
           D == Nat \X (0 .. n)
           V == Seq(EntryType)
           rank == [d \in D |-> n - d[2]]
           Accepted(d) == << classes[d[2] + 1], d[1], d[2] >> \in accepts
           After(d) == IF Accepted(d) THEN << d[1] + 1, d[2] + 1 >> ELSE << d[1], d[2] + 1 >>
           below == [d \in D |-> IF d[2] = n THEN << >> ELSE << After(d) >>]
           Made(d, e) == IF Accepted(d) THEN << FilterEntry(d[1], d[2]) >> \o e ELSE e
           step == [x \in D \X Seq(V) |->
                      IF x[1][2] = n \/ x[2] = << >> THEN << >> ELSE Made(x[1], x[2][1])]
<1>1. n \in Nat
  OBVIOUS
<1>2. \A d \in D : d[1] \in Nat /\ d[2] \in 0 .. n
  OBVIOUS
<1>3. \A d \in D : d[2] # n => After(d) \in D /\ After(d)[2] = d[2] + 1
  BY <1>1
<1>4. \A d \in D, e \in V : Made(d, e) \in V
  <2> SUFFICES ASSUME NEW d \in D, NEW e \in V PROVE Made(d, e) \in V
    OBVIOUS
  <2>1. FilterEntry(d[1], d[2]) \in EntryType
    BY <1>1, <1>2 DEF FilterEntry, EntryType
  <2>2. << FilterEntry(d[1], d[2]) >> \in V
    BY <2>1
  <2>. QED BY <2>2
<1> HIDE DEF n, D, V, After, Made
<1>5. rank \in [D -> Nat]
  BY <1>1, <1>2
<1>6. below \in [D -> Seq(D)]
  BY <1>3
<1>7. Lem!Descends(D, rank, below)
  <2> SUFFICES ASSUME NEW d \in D, NEW i \in 1 .. Len(below[d])
               PROVE  rank[below[d][i]] < rank[d]
    BY DEF Lem!Descends
  <2>1. d[2] # n /\ below[d][i] = After(d)
    OBVIOUS
  <2>. QED BY <1>1, <1>2, <1>3, <2>1
<1>8. step \in [D \X Seq(V) -> V]
  <2> SUFFICES ASSUME NEW x \in D \X Seq(V)
               PROVE  (IF x[1][2] = n \/ x[2] = << >> THEN << >> ELSE Made(x[1], x[2][1])) \in V
    OBVIOUS
  <2>1. CASE x[1][2] = n \/ x[2] = << >>
    BY <2>1 DEF V
  <2>2. CASE ~ (x[1][2] = n \/ x[2] = << >>)
    <3>1. x[1] \in D /\ x[2] \in Seq(V) /\ x[2] # << >>
      BY <2>2
    <3>2. x[2][1] \in V
      BY <3>1
    <3>. QED BY <1>4, <2>2, <3>1, <3>2
  <2>. QED BY <2>1, <2>2
<1>9. PICK f \in [D -> V] : Lem!Follows(f, D, V, below, step)
  <2> HIDE DEF rank, below, step
  <2>. QED BY <1>5, <1>6, <1>7, <1>8, NoTree, Lem!RankRecursion
<1>10. ASSUME NEW d \in D
       PROVE  f[d] = IF d[2] = n THEN << >> ELSE Made(d, f[After(d)])
  <2>1. PICK c \in Seq(V) : Lem!MadeFrom(f, d, c, below, step)
    BY <1>9 DEF Lem!Follows
  <2>2. /\ Len(c) = Len(below[d]) /\ \A i \in 1 .. Len(below[d]) : c[i] = f[below[d][i]]
        /\ f[d] = step[<< d, c >>]
    BY <2>1 DEF Lem!MadeFrom
  <2>3. f[d] = IF d[2] = n \/ c = << >> THEN << >> ELSE Made(d, c[1])
    BY <2>2
  <2>4. CASE d[2] = n
    BY <2>3, <2>4
  <2>5. CASE d[2] # n
    <3>1. below[d] = << After(d) >>
      BY <2>5
    <3> HIDE DEF below, step
    <3>2. Len(below[d]) = 1 /\ below[d][1] = After(d)
      BY <3>1
    <3>3. Len(c) = 1 /\ c[1] = f[After(d)]
      BY <2>2, <3>2
    <3>4. c # << >>
      BY <3>3
    <3>. QED BY <2>3, <2>5, <3>3, <3>4
  <2>. QED BY <2>4, <2>5
<1>11. Unfolds(f, accepts, classes)
  <2>1. ASSUME NEW d \in D
        PROVE  f[d] = IF d[2] = n THEN << >>
                      ELSE IF Accepted(d)
                        THEN << FilterEntry(d[1], d[2]) >> \o f[<< d[1] + 1, d[2] + 1 >>]
                        ELSE f[<< d[1], d[2] + 1 >>]
    BY <1>10 DEF Made, After
  <2>. QED BY <2>1 DEF Unfolds, n, D
<1>. QED BY <1>11 DEF D, V, n

(* A prefix of p entries stands for children before i, the rest does not.  *)
SplitsAt(e, p, i) ==
  /\ \A q \in 1 .. p : e[q].original_index < i
  /\ \A q \in p + 1 .. Len(e) : i <= e[q].original_index

(* The entries are in the order of the children.                           *)
Sorted(e) ==
  \A p, q \in 1 .. Len(e) : p < q => e[p].original_index < e[q].original_index

(* The entries e stand for children from low to n - 1.                     *)
Within(e, low, n) == \A p \in 1 .. Len(e) : e[p].original_index \in low .. n - 1

(* A child has an entry if it is accepted with the index it gets.          *)
Selected(e, accepts, classes, new_k, old_k) ==
  \A i \in old_k .. Len(classes) - 1, p \in 0 .. Len(e) :
    SplitsAt(e, p, i) =>
      (p < Len(e) /\ e[p + 1].original_index = i
         <=> << classes[i + 1], new_k + p, i >> \in accepts)

(* filter_helper at a child that is accepted: what holds of the entries of *)
(* the tail holds of the longer list.                                      *)
LEMMA FilterOne ==
  ASSUME NEW accepts, NEW classes \in Seq(Class), NEW new_k \in Nat,
         NEW old_k \in 0 .. Len(classes) - 1, NEW e \in Seq(EntryType),
         << classes[old_k + 1], new_k, old_k >> \in accepts,
         Sorted(e), Within(e, old_k + 1, Len(classes)),
         Selected(e, accepts, classes, new_k + 1, old_k + 1),
         NEW f, f = << FilterEntry(new_k, old_k) >> \o e
  PROVE  /\ f \in Seq(EntryType) /\ Sorted(f) /\ Within(f, old_k, Len(classes))
         /\ Selected(f, accepts, classes, new_k, old_k)
<1> DEFINE x == FilterEntry(new_k, old_k)
           n == Len(classes)
<1>0. n \in Nat /\ old_k \in Nat /\ old_k < n
  OBVIOUS
<1>1. x \in EntryType /\ x.original_index = old_k
  BY <1>0 DEF FilterEntry, EntryType
<1> HIDE DEF x, n
<1>2. /\ f \in Seq(EntryType) /\ Len(f) = Len(e) + 1 /\ f[1] = x
      /\ \A p \in 1 .. Len(e) : f[p + 1] = e[p]
  <2>1. << x >> \in Seq(EntryType)
    BY <1>1
  <2>2. f = << x >> \o e
    BY DEF x
  <2>. QED BY <2>1, <2>2
<1>3. Len(e) \in Nat
  OBVIOUS
<1>4. \A p \in 2 .. Len(f) : f[p] = e[p - 1] /\ p - 1 \in 1 .. Len(e)
  <2> SUFFICES ASSUME NEW p \in 2 .. Len(f) PROVE f[p] = e[p - 1] /\ p - 1 \in 1 .. Len(e)
    OBVIOUS
  <2>1. p - 1 \in 1 .. Len(e) /\ (p - 1) + 1 = p
    BY <1>2, <1>3
  <2>. QED BY <1>2, <2>1
<1>5. \A p \in 1 .. Len(e) : /\ e[p].original_index \in Nat
                            /\ old_k < e[p].original_index
                            /\ e[p].original_index < n
  BY <1>0 DEF Within, n
<1>6. Sorted(f)
  <2> SUFFICES ASSUME NEW p \in 1 .. Len(f), NEW q \in 1 .. Len(f), p < q
               PROVE  f[p].original_index < f[q].original_index
    BY DEF Sorted
  <2>1. q \in 2 .. Len(f)
    BY <1>2, <1>3
  <2>2. CASE p = 1
    BY <1>1, <1>2, <1>4, <1>5, <2>1, <2>2
  <2>3. CASE p # 1
    <3>1. p \in 2 .. Len(f) /\ p - 1 < q - 1
      BY <1>2, <1>3, <2>3
    <3>. QED BY <1>4, <2>1, <3>1 DEF Sorted
  <2>. QED BY <2>2, <2>3
<1>7. Within(f, old_k, n)
  <2> SUFFICES ASSUME NEW p \in 1 .. Len(f) PROVE f[p].original_index \in old_k .. n - 1
    BY DEF Within
  <2>1. CASE p = 1
    BY <1>0, <1>1, <1>2, <2>1
  <2>2. CASE p # 1
    <3>1. p \in 2 .. Len(f)
      BY <1>2, <1>3, <2>2
    <3>2. PICK q : q = p - 1
      OBVIOUS
    <3>3. q \in 1 .. Len(e) /\ f[p] = e[q]
      BY <1>4, <3>1, <3>2
    <3>4. PICK c : c = e[q].original_index
      OBVIOUS
    <3>5. c \in Nat /\ old_k < c /\ c < n
      BY <1>5, <3>3, <3>4
    <3>6. c \in old_k .. n - 1
      BY ONLY <1>0, <3>5
    <3>7. f[p].original_index = c
      BY <3>3, <3>4
    <3>. QED BY ONLY <3>6, <3>7
  <2>. QED BY <2>1, <2>2
<1>8. Selected(f, accepts, classes, new_k, old_k)
  <2> SUFFICES ASSUME NEW i \in old_k .. n - 1, NEW p \in 0 .. Len(f), SplitsAt(f, p, i)
               PROVE  p < Len(f) /\ f[p + 1].original_index = i
                        <=> << classes[i + 1], new_k + p, i >> \in accepts
    BY DEF Selected, n
  <2>1. CASE i = old_k
    <3>1. p = 0
      <4> SUFFICES ASSUME 1 <= p PROVE FALSE
        BY <1>2, <1>3
      <4>1. 1 \in 1 .. p
        BY <1>2, <1>3
      <4>2. f[1].original_index < i
        BY <4>1 DEF SplitsAt
      <4>. QED BY <1>0, <1>1, <1>2, <2>1, <4>2
    <3>2. p < Len(f) /\ f[p + 1].original_index = i
      BY <1>1, <1>2, <1>3, <2>1, <3>1
    <3>3. new_k + p = new_k
      BY <3>1
    <3>. QED BY <2>1, <3>2, <3>3
  <2>2. CASE i # old_k
    <3>1. i \in old_k + 1 .. n - 1
      BY <1>0, <2>2
    <3>2. 1 <= p
      <4> SUFFICES ASSUME p = 0 PROVE FALSE
        BY <1>2, <1>3
      <4>1. 1 \in p + 1 .. Len(f)
        BY <1>2, <1>3
      <4>2. i <= f[1].original_index
        BY <4>1 DEF SplitsAt
      <4>. QED BY <1>0, <1>1, <1>2, <3>1, <4>2
    <3> DEFINE r == p - 1
    <3>3. r \in 0 .. Len(e) /\ p = r + 1
      BY <1>2, <1>3, <3>2
    <3> HIDE DEF r
    <3>4. SplitsAt(e, r, i)
      <4>1. ASSUME NEW q \in 1 .. r PROVE e[q].original_index < i
        <5>1. q \in 1 .. Len(e) /\ q + 1 \in 1 .. p
          BY <1>3, <3>3
        <5>. QED BY <1>2, <5>1 DEF SplitsAt
      <4>2. ASSUME NEW q \in r + 1 .. Len(e) PROVE i <= e[q].original_index
        <5>1. q \in 1 .. Len(e) /\ q + 1 \in p + 1 .. Len(f)
          BY <1>2, <1>3, <3>3
        <5>. QED BY <1>2, <5>1 DEF SplitsAt
      <4>. QED BY <4>1, <4>2 DEF SplitsAt
    <3>5. r < Len(e) /\ e[r + 1].original_index = i
            <=> << classes[i + 1], new_k + 1 + r, i >> \in accepts
      BY <3>1, <3>3, <3>4 DEF Selected, n
    <3>6. r \in Nat /\ p = r + 1 /\ Len(f) = Len(e) + 1
      BY <1>2, <1>3, <3>3
    <3>8. new_k + p = new_k + 1 + r /\ (p < Len(f) <=> r < Len(e))
      BY <1>3, <3>6
    <3>7. r < Len(e) => f[p + 1] = e[r + 1]
      BY <1>2, <1>3, <3>3
    <3>. QED BY <3>5, <3>7, <3>8
  <2>. QED BY <2>1, <2>2
<1>. QED BY <1>2, <1>6, <1>7, <1>8 DEF n

(* filter_helper at a child that is dropped.                               *)
LEMMA FilterNone ==
  ASSUME NEW accepts, NEW classes \in Seq(Class), NEW new_k \in Nat,
         NEW old_k \in 0 .. Len(classes) - 1, NEW e \in Seq(EntryType),
         ~ << classes[old_k + 1], new_k, old_k >> \in accepts,
         Within(e, old_k + 1, Len(classes)),
         Selected(e, accepts, classes, new_k, old_k + 1)
  PROVE  Within(e, old_k, Len(classes)) /\ Selected(e, accepts, classes, new_k, old_k)
<1> DEFINE n == Len(classes)
<1>0. n \in Nat /\ old_k \in Nat /\ old_k < n /\ Len(e) \in Nat
  OBVIOUS
<1> HIDE DEF n
<1>1. \A p \in 1 .. Len(e) : e[p].original_index \in old_k + 1 .. n - 1
  BY DEF Within, n
<1>2. Within(e, old_k, n)
  BY <1>0, <1>1 DEF Within
<1>3. Selected(e, accepts, classes, new_k, old_k)
  <2> SUFFICES ASSUME NEW i \in old_k .. n - 1, NEW p \in 0 .. Len(e), SplitsAt(e, p, i)
               PROVE  p < Len(e) /\ e[p + 1].original_index = i
                        <=> << classes[i + 1], new_k + p, i >> \in accepts
    BY DEF Selected, n
  <2>1. CASE i = old_k
    <3>1. p = 0
      <4> SUFFICES ASSUME 1 <= p PROVE FALSE
        BY <1>0
      <4>1. 1 \in 1 .. p /\ 1 \in 1 .. Len(e)
        BY <1>0
      <4>2. e[1].original_index < i
        BY <4>1 DEF SplitsAt
      <4>. QED BY <1>0, <1>1, <2>1, <4>1, <4>2
    <3>2. ~ (p < Len(e) /\ e[p + 1].original_index = i)
      <4> SUFFICES ASSUME p < Len(e), e[p + 1].original_index = i PROVE FALSE
        OBVIOUS
      <4>1. p + 1 \in 1 .. Len(e)
        BY <1>0
      <4>2. e[p + 1].original_index \in old_k + 1 .. n - 1
        BY <1>1, <4>1
      <4>. QED BY <1>0, <2>1, <4>2
    <3>3. new_k + p = new_k
      BY <3>1
    <3>. QED BY <2>1, <3>2, <3>3
  <2>2. CASE i # old_k
    <3>1. i \in old_k + 1 .. n - 1
      BY <1>0, <2>2
    <3>. QED BY <3>1 DEF Selected, n
  <2>. QED BY <2>1, <2>2
<1>. QED BY <1>2, <1>3 DEF n

(* What a simple filter makes of the children of a node.                   *)
LEMMA SimpleFilterEntries ==
  ASSUME NEW accepts, NEW classes \in Seq(Class)
  PROVE  LET e == filter_helper(accepts, classes)
         IN  /\ e \in Seq(EntryType) /\ Sorted(e) /\ Within(e, 0, Len(classes))
             /\ Selected(e, accepts, classes, 0, 0)
<1> DEFINE n == Len(classes)
           apply == CHOOSE f : Unfolds(f, accepts, classes)
           Good(e, new_k, old_k) ==
             /\ e \in Seq(EntryType) /\ Sorted(e) /\ Within(e, old_k, n)
             /\ Selected(e, accepts, classes, new_k, old_k)
           T == {l \in Nat : \A new_k \in Nat, old_k \in 0 .. n :
                   n - old_k = l => Good(apply[<< new_k, old_k >>], new_k, old_k)}
<1>0. n \in Nat
  OBVIOUS
<1>1. Unfolds(apply, accepts, classes)
  BY FilterRecursion
<1>2. filter_helper(accepts, classes) = apply[<< 0, 0 >>]
  BY DEF filter_helper, Unfolds
<1> HIDE DEF apply
<1>3. \A new_k \in Nat, old_k \in 0 .. n : apply[<< new_k, old_k >>] =
          IF old_k = n THEN << >>
          ELSE IF << classes[old_k + 1], new_k, old_k >> \in accepts
            THEN << FilterEntry(new_k, old_k) >> \o apply[<< new_k + 1, old_k + 1 >>]
            ELSE apply[<< new_k, old_k + 1 >>]
  BY <1>1 DEF Unfolds
<1>4. 0 \in T
  <2> SUFFICES ASSUME NEW new_k \in Nat, NEW old_k \in 0 .. n, n - old_k = 0
               PROVE  Good(apply[<< new_k, old_k >>], new_k, old_k)
    OBVIOUS
  <2>1. old_k = n
    BY <1>0
  <2>2. apply[<< new_k, old_k >>] = << >>
    BY <1>3, <2>1
  <2>3. old_k .. n - 1 = {}
    BY <1>0, <2>1
  <2>4. Good(<< >>, new_k, old_k)
    BY <2>3 DEF Sorted, Within, Selected, n
  <2>. QED BY <2>2, <2>4
<1>5. ASSUME NEW l \in Nat, l \in T PROVE l + 1 \in T
  <2> SUFFICES ASSUME NEW new_k \in Nat, NEW old_k \in 0 .. n, n - old_k = l + 1
               PROVE  Good(apply[<< new_k, old_k >>], new_k, old_k)
    OBVIOUS
  <2>1. /\ old_k # n /\ old_k + 1 \in 0 .. n /\ n - (old_k + 1) = l
        /\ new_k + 1 \in Nat /\ old_k \in 0 .. n - 1
    BY <1>0
  <2>2. CASE << classes[old_k + 1], new_k, old_k >> \in accepts
    <3> DEFINE e == apply[<< new_k + 1, old_k + 1 >>]
               f == apply[<< new_k, old_k >>]
    <3>1. Good(e, new_k + 1, old_k + 1)
      BY <1>5, <2>1
    <3>2. f = << FilterEntry(new_k, old_k) >> \o e
      BY <1>3, <2>1, <2>2
    <3> HIDE DEF e, f
    <3>3. Good(f, new_k, old_k)
      BY <2>1, <2>2, <3>1, <3>2, FilterOne DEF n
    <3>. QED BY <3>3 DEF f
  <2>3. CASE ~ << classes[old_k + 1], new_k, old_k >> \in accepts
    <3> DEFINE e == apply[<< new_k, old_k + 1 >>]
    <3>1. Good(e, new_k, old_k + 1)
      BY <1>5, <2>1
    <3>2. apply[<< new_k, old_k >>] = e
      BY <1>3, <2>1, <2>3
    <3> HIDE DEF e
    <3>3. Good(e, new_k, old_k)
      BY <2>1, <2>3, <3>1, FilterNone DEF n
    <3>. QED BY <3>2, <3>3
  <2>. QED BY <2>2, <2>3
<1>6. n \in T
  <2> HIDE DEF T
  <2>1. Nat \subseteq T
    BY <1>4, <1>5, NoTree, Lem!CountingInduction
  <2>. QED BY <1>0, <2>1
<1>7. Good(apply[<< 0, 0 >>], 0, 0)
  <2>1. 0 \in 0 .. n /\ n - 0 = n
    BY <1>0
  <2> HIDE DEF Good
  <2>. QED BY <1>6, <2>1
<1>. QED BY <1>2, <1>7 DEF n

(* An increasing sequence of numbers.                                      *)
Increasing(m) == \A p, q \in 1 .. Len(m) : p < q => m[p] < m[q]

(* In an increasing sequence there is a place at which i is or would be.   *)
LEMMA SplitExists ==
  ASSUME NEW m \in Seq(Nat), Increasing(m), NEW i \in Nat
  PROVE  \E p \in 0 .. Len(m) : /\ \A q \in 1 .. p : m[q] < i
                                /\ \A q \in p + 1 .. Len(m) : i <= m[q]
<1> DEFINE n == Len(m)
           T == {q \in 1 .. n + 1 : q = n + 1 \/ i <= m[q]}
<1>1. n \in Nat
  OBVIOUS
<1>2. \A q \in 1 .. n : m[q] \in Nat
  OBVIOUS
<1> HIDE DEF n
<1>3. n + 1 \in T
  BY <1>1
<1>4. PICK l \in T : \A q \in T : l <= q
  <2>1. T \subseteq Nat
    BY <1>1
  <2>2. T # {}
    BY <1>3
  <2> HIDE DEF T
  <2>. QED BY <2>1, <2>2, NoTree, Lem!LeastElement
<1> DEFINE p == l - 1
<1>5. p \in 0 .. n /\ l = p + 1 /\ l \in 1 .. n + 1
  BY <1>1
<1> HIDE DEF p
<1>6. ASSUME NEW q \in 1 .. p PROVE m[q] < i
  <2>1. q \in 1 .. n /\ q < l
    BY <1>1, <1>5
  <2>2. q \notin T
    BY <1>1, <1>4, <1>5, <2>1
  <2>3. q \in 1 .. n + 1
    BY <1>1, <2>1
  <2>. QED BY <1>2, <2>1, <2>2, <2>3
<1>7. ASSUME NEW q \in p + 1 .. n PROVE i <= m[q]
  <2>1. q \in 1 .. n /\ l \in 1 .. n /\ l <= q
    BY <1>1, <1>5
  <2>2. i <= m[l]
    BY <1>1, <2>1
  <2>3. CASE q = l
    BY <2>2, <2>3
  <2>4. CASE q # l
    <3>1. m[l] < m[q]
      BY <2>1, <2>4 DEF Increasing, n
    <3>. QED BY <1>2, <2>1, <2>2, <3>1
  <2>. QED BY <2>3, <2>4
<1>. QED BY <1>5, <1>6, <1>7 DEF n

(* The number of entries before that place is the number of smaller        *)
(* entries.                                                                *)
LEMMA CountBefore ==
  ASSUME NEW m \in Seq(Nat), Increasing(m), NEW i \in Nat, NEW p \in 0 .. Len(m),
         \A q \in 1 .. p : m[q] < i, \A q \in p + 1 .. Len(m) : i <= m[q]
  PROVE  Cardinality({j \in ToSet(m) : j < i}) = p
<1> DEFINE S == {j \in ToSet(m) : j < i}
           f == [q \in 1 .. p |-> m[q]]
<1>1. Len(m) \in Nat /\ p \in Nat /\ \A q \in 1 .. Len(m) : m[q] \in Nat
  OBVIOUS
<1>2. \A q \in 1 .. p : q \in 1 .. Len(m) /\ q \in DOMAIN m
  BY <1>1
<1>3. f \in [1 .. p -> S]
  BY <1>2 DEF ToSet
<1>4. ASSUME NEW a \in 1 .. p, NEW b \in 1 .. p, f[a] = f[b] PROVE a = b
  <2>1. m[a] = m[b] /\ m[a] \in Nat /\ a \in 1 .. Len(m) /\ b \in 1 .. Len(m)
    BY <1>1, <1>2, <1>4
  <2>2. ~ (a < b) /\ ~ (b < a)
    BY <1>1, <2>1 DEF Increasing
  <2>. QED BY <1>1, <2>2
<1>5. ASSUME NEW j \in S PROVE \E q \in 1 .. p : f[q] = j
  <2>1. PICK q \in DOMAIN m : m[q] = j
    BY DEF ToSet
  <2>2. q \in 1 .. Len(m) /\ m[q] < i
    BY <2>1
  <2>3. q \in 1 .. p
    <3>1. ~ (q \in p + 1 .. Len(m))
      BY <1>1, <2>2
    <3>. QED BY <1>1, <2>2, <3>1
  <2>. QED BY <2>1, <2>3
<1> HIDE DEF f, S
<1>6. f \in Bijection(1 .. p, S)
  BY <1>3, <1>4, <1>5 DEF Bijection, Injection, Surjection, IsInjective
<1>7. ExistsBijection(1 .. p, S)
  BY <1>6 DEF ExistsBijection
<1>8. IsFiniteSet(1 .. p) /\ Cardinality(1 .. p) = p
  <2>1. IsFiniteSet(1 .. p) /\ Cardinality(1 .. p) = IF 1 > p THEN 0 ELSE p - 1 + 1
    BY <1>1, FS_Interval
  <2>. QED BY <1>1, <2>1
<1>9. Cardinality(S) = Cardinality(1 .. p)
  BY <1>7, <1>8, FS_Bijection
<1>. QED BY <1>8, <1>9 DEF S

-----------------------------------------------------------------------------
(* A view.                                                                 *)
ViewType ==
  [node : Nat, kind : Kind, IndexMap : Seq(Nat), ChildTypes : Seq(Class),
   argument : {"reference", "shared_ptr"}, owning : BOOLEAN]

(* r is a view on a node with the child classes types.                     *)
Shows(r, types) ==
  /\ types \in Seq(Class)
  /\ r.IndexMap = IndexMap(r.kind, types)
  /\ Len(r.ChildTypes) = Len(r.IndexMap)
  /\ \A k \in 1 .. Len(r.IndexMap) :
       /\ r.IndexMap[k] \in 0 .. Len(types) - 1
       /\ r.ChildTypes[k] = types[r.IndexMap[k] + 1]

(* A view was made on an earlier node and shows the children its kind      *)
(* selects; made with a shared_ptr, it owns that node.                     *)
Made(v) ==
  /\ views[v].node \in 0 .. v - 1
  /\ Shows(views[v], ChildTypes(views[v].node))
  /\ views[v].argument = "shared_ptr" => views[v].owning = TRUE

(* The inductive invariant.  Views are made of what is there and compiles, *)
(* the children fit the CompositeNode, and what a living view owns lives.  *)
IInv ==
  /\ views \in Seq(ViewType)
  /\ \A v \in 1 .. Len(views) : Made(v)
  /\ children \in [1 .. Len(Classes) -> UNION {Object[c] : c \in Class}]
  /\ \A k \in 1 .. Len(Classes) : children[k] \in Object[Classes[k]]
  /\ alive \subseteq 0 .. Len(views) /\ handles \subseteq 0 .. Len(views)
  /\ \A v \in alive \ {0} : views[v].owning = TRUE => views[v].node \in alive

(* An index map is a sequence of numbers, whatever the kind of view.       *)
LEMMA IndexMapType ==
  ASSUME NEW kind \in Kind, NEW types \in Seq(Class)
  PROVE  IndexMap(kind, types) \in Seq(Nat)
<1>1. CASE kind = [tag |-> "ProxyNode"]
  <2>1. \A k \in 1 .. Len(types) : k - 1 \in Nat
    OBVIOUS
  <2>. QED BY <1>1, <2>1 DEF IndexMap
<1>2. CASE kind \in Filter
  <2>1. kind \in FilterType
    BY <1>2, FilterAssumption
  <2> DEFINE e == FilterResult(kind, types)
  <2>2. e \in Seq(EntryType)
    <3>1. CASE kind.tag = "SimpleFilterTag"
      BY <3>1, SimpleFilterEntries DEF FilterResult
    <3>2. CASE kind.tag # "SimpleFilterTag"
      <4>1. kind.indices \in Seq(Nat)
        BY <2>1, <3>2 DEF FilterType
      <4>2. e = [k \in 1 .. Len(kind.indices) |-> FilterEntry(k - 1, kind.indices[k])]
        BY <3>2 DEF FilterResult, index_filter_helper
      <4>3. ASSUME NEW k \in 1 .. Len(kind.indices)
            PROVE  FilterEntry(k - 1, kind.indices[k]) \in EntryType
        <5>1. k - 1 \in Nat /\ kind.indices[k] \in Nat
          BY <4>1
        <5>. QED BY <5>1 DEF FilterEntry, EntryType
      <4> HIDE DEF e
      <4>. QED BY <4>1, <4>2, <4>3
    <3>. QED BY <3>1, <3>2
  <2>3. kind.tag # "ProxyNode"
    BY <2>1 DEF FilterType
  <2>4. IndexMap(kind, types) = [k \in 1 .. Len(e) |-> e[k].original_index]
    BY <2>3 DEF IndexMap
  <2> HIDE DEF e
  <2>5. Len(e) \in Nat
    BY <2>2
  <2>6. ASSUME NEW k \in 1 .. Len(e) PROVE e[k].original_index \in Nat
    <3>1. e[k] \in EntryType
      BY <2>2, ElementOfSeq
    <3>. QED BY <3>1 DEF EntryType
  <2>. QED BY <2>4, <2>5, <2>6
<1>. QED BY <1>1, <1>2 DEF Kind

(* Every node has a sequence of child classes.                             *)
LEMMA TypesOf ==
  ASSUME IInv, NEW v \in 0 .. Len(views)
  PROVE  ChildTypes(v) \in Seq(Class) /\ degree(v) \in Nat /\ Len(views) \in Nat
<1>1. CASE v = 0
  BY <1>1, FilterAssumption DEF ChildTypes, degree, IInv
<1>2. CASE v # 0
  <2>1. v \in 1 .. Len(views) /\ views[v] \in ViewType
    BY <1>2, ElementOfSeq DEF IInv, Made
  <2>. QED BY <1>2, <2>1 DEF ChildTypes, degree, ViewType, IInv
<1>. QED BY <1>1, <1>2

(* The child that a child of a view stands for, one view down.             *)
Below(place) == << views[place[1]].node, mapped_index(place[1], place[2]) >>

(* The child one view down exists and has the same class.                  *)
LEMMA PlaceBelow ==
  ASSUME IInv, NEW place \in Place
  PROVE  /\ place[1] \in 0 .. Len(views)
         /\ place[2] \in 0 .. degree(place[1]) - 1
         /\ place = << place[1], place[2] >>
         /\ place[1] # 0 => /\ Below(place) \in Place /\ Below(place)[1] \in 0 .. place[1] - 1
                         /\ ChildTypes(place[1])[place[2] + 1] =
                              ChildTypes(Below(place)[1])[Below(place)[2] + 1]
<1>1. PICK v \in 0 .. Len(views) : place \in {v} \X (0 .. degree(v) - 1)
  BY DEF Place
<1>2. place[1] = v /\ place[2] \in 0 .. degree(v) - 1 /\ place = << place[1], place[2] >>
  BY <1>1
<1>3. ASSUME v # 0
      PROVE  /\ Below(place) \in Place /\ Below(place)[1] \in 0 .. v - 1
             /\ ChildTypes(v)[place[2] + 1] = ChildTypes(Below(place)[1])[Below(place)[2] + 1]
  <2> DEFINE r == views[v]
             u == r.node
             types == ChildTypes(u)
             k == place[2] + 1
  <2>1. v \in 1 .. Len(views) /\ Len(views) \in Nat /\ degree(v) \in Nat
    BY <1>3, TypesOf
  <2>2. u \in 0 .. v - 1 /\ Shows(r, types)
    BY <2>1 DEF IInv, Made
  <2>3. u \in 0 .. Len(views)
    BY <2>1, <2>2
  <2>4. degree(v) = Len(r.IndexMap) /\ ChildTypes(v) = r.ChildTypes
    BY <1>3, <2>2 DEF Shows, degree, ChildTypes
  <2>5. k \in 1 .. Len(r.IndexMap)
    BY <1>2, <2>1, <2>4
  <2>6. r.IndexMap[k] \in 0 .. Len(types) - 1 /\ r.ChildTypes[k] = types[r.IndexMap[k] + 1]
    BY <2>2, <2>5 DEF Shows
  <2>7. Below(place) = << u, r.IndexMap[k] >>
    BY <1>2 DEF Below, mapped_index
  <2> HIDE DEF r, u, types, k
  <2>8. r.IndexMap[k] \in 0 .. degree(u) - 1
    BY <2>6 DEF degree, types
  <2>9. Below(place) \in Place
    BY <2>3, <2>7, <2>8 DEF Place
  <2>10. Below(place)[1] = u /\ Below(place)[2] = r.IndexMap[k]
    BY <2>7
  <2>. QED BY <2>2, <2>4, <2>6, <2>9, <2>10 DEF types, k
<1>. QED BY <1>2, <1>3

(* A sequence of one element is not empty.                                 *)
LEMMA OneIsSome ==
  ASSUME NEW c, Len(c) = 1
  PROVE  c # << >>
OBVIOUS

(* What is found by going down to the CompositeNode.                       *)
GoesDown(f, last) ==
  f = [place \in Place |-> IF place[1] = 0 THEN last[place] ELSE f[Below(place)]]

(* Going down comes to an end: there is a function that reads at the       *)
(* CompositeNode what is asked for there.                                  *)
LEMMA WayDown ==
  ASSUME IInv, NEW V, NEW last \in [Place -> V]
  PROVE  \E f \in [Place -> V] : GoesDown(f, last)
<1> DEFINE D == Place
           rank == [d \in D |-> d[1]]
           below == [d \in D |-> IF d[1] = 0 THEN << >> ELSE << Below(d) >>]
           step == [x \in D \X Seq(V) |->
                      IF x[1][1] = 0 \/ x[2] = << >> THEN last[x[1]] ELSE x[2][1]]
<1>1. \A d \in D : d[1] \in Nat
  <2>1. Len(views) \in Nat
    BY DEF IInv, Made
  <2>. QED BY <2>1, PlaceBelow
<1>2. \A d \in D : d[1] # 0 => Below(d) \in D /\ Below(d)[1] < d[1]
  <2> SUFFICES ASSUME NEW d \in D, d[1] # 0 PROVE Below(d) \in D /\ Below(d)[1] < d[1]
    OBVIOUS
  <2>1. Below(d) \in Place /\ Below(d)[1] \in 0 .. d[1] - 1
    BY PlaceBelow
  <2>. QED BY <1>1, <2>1
<1> HIDE DEF D
<1>5. rank \in [D -> Nat]
  BY <1>1
<1>6. below \in [D -> Seq(D)]
  BY <1>2
<1>7. Lem!Descends(D, rank, below)
  <2> SUFFICES ASSUME NEW d \in D, NEW i \in 1 .. Len(below[d])
               PROVE  rank[below[d][i]] < rank[d]
    BY DEF Lem!Descends
  <2>1. d[1] # 0 /\ below[d][i] = Below(d)
    OBVIOUS
  <2>. QED BY <1>2, <2>1
<1>8. step \in [D \X Seq(V) -> V]
  <2> SUFFICES ASSUME NEW x \in D \X Seq(V)
               PROVE  (IF x[1][1] = 0 \/ x[2] = << >> THEN last[x[1]] ELSE x[2][1]) \in V
    OBVIOUS
  <2>1. x[1] \in D /\ x[2] \in Seq(V) /\ last[x[1]] \in V
    BY DEF D
  <2>2. x[2] # << >> => x[2][1] \in V
    BY <2>1
  <2>. QED BY <2>1, <2>2
<1>9. PICK f \in [D -> V] : Lem!Follows(f, D, V, below, step)
  <2> HIDE DEF rank, below, step
  <2>. QED BY <1>5, <1>6, <1>7, <1>8, NoTree, Lem!RankRecursion
<1>10. ASSUME NEW d \in D
       PROVE  f[d] = IF d[1] = 0 THEN last[d] ELSE f[Below(d)]
  <2>1. PICK c \in Seq(V) : Lem!MadeFrom(f, d, c, below, step)
    BY <1>9 DEF Lem!Follows
  <2>2. /\ Len(c) = Len(below[d]) /\ \A i \in 1 .. Len(below[d]) : c[i] = f[below[d][i]]
        /\ f[d] = step[<< d, c >>]
    BY <2>1 DEF Lem!MadeFrom
  <2>3. f[d] = IF d[1] = 0 \/ c = << >> THEN last[d] ELSE c[1]
    BY <2>2
  <2>4. CASE d[1] = 0
    BY <2>3, <2>4
  <2>5. CASE d[1] # 0
    <3>1. below[d] = << Below(d) >>
      BY <2>5
    <3> HIDE DEF below, step
    <3>2. Len(below[d]) = 1 /\ below[d][1] = Below(d)
      BY <3>1
    <3>3. Len(c) = 1
      BY <2>2, <3>2
    <3>4. c[1] = f[Below(d)]
      BY <2>2, <3>2
    <3>5. c # << >>
      BY ONLY <3>3, OneIsSome
    <3>. QED BY <2>3, <2>5, <3>4, <3>5
  <2>. QED BY <2>4, <2>5
<1>11. GoesDown(f, last)
  BY <1>10 DEF GoesDown, D
<1>. QED BY <1>11 DEF D

(* slot satisfies the equation that defines it.                            *)
LEMMA SlotUnfolds ==
  ASSUME IInv
  PROVE  \A place \in Place : slot[place] = IF place[1] = 0 THEN place[2] ELSE slot[Below(place)]
<1> DEFINE last == [place \in Place |-> place[2]]
           Is(f) == f = [place \in Place |->
                           LET v == place[1]
                               k == place[2]
                           IN  IF v = 0 THEN k ELSE f[<< views[v].node, mapped_index(v, k) >>]]
<1>1. last \in [Place -> {place[2] : place \in Place}]
  OBVIOUS
<1>2. PICK f : GoesDown(f, last)
  <2> HIDE DEF last
  <2>. QED BY <1>1, WayDown
<1>3. Is(f)
  BY <1>2 DEF GoesDown, Below
<1>4. slot = CHOOSE g : Is(g)
  BY DEF slot
<1> HIDE DEF Is
<1>5. Is(slot)
  BY <1>3, <1>4
<1>. QED BY <1>5 DEF Is, Below

(* child satisfies the equation that defines it.                           *)
LEMMA ChildUnfolds ==
  ASSUME IInv
  PROVE  \A place \in Place :
           child[place] = IF place[1] = 0 THEN children[place[2] + 1] ELSE child[Below(place)]
<1> DEFINE last == [place \in Place |-> children[place[2] + 1]]
           Is(f) == f = [place \in Place |->
                           LET v == place[1]
                               k == place[2]
                           IN  IF v = 0 THEN children[k + 1]
                               ELSE f[<< views[v].node, mapped_index(v, k) >>]]
<1>1. last \in [Place -> {children[place[2] + 1] : place \in Place}]
  OBVIOUS
<1>2. PICK f : GoesDown(f, last)
  <2> HIDE DEF last
  <2>. QED BY <1>1, WayDown
<1>3. Is(f)
  BY <1>2 DEF GoesDown, Below
<1>4. child = CHOOSE g : Is(g)
  BY DEF child
<1> HIDE DEF Is
<1>5. Is(child)
  BY <1>3, <1>4
<1>. QED BY <1>5 DEF Is, Below

(* All views agree which child of the CompositeNode a child stands for,    *)
(* and of which class it is.                                               *)
LEMMA StandsFor ==
  ASSUME IInv
  PROVE  \A place \in Place :
           /\ slot[place] \in 0 .. Len(Classes) - 1
           /\ child[place] = children[slot[place] + 1]
           /\ ChildTypes(place[1])[place[2] + 1] = Classes[slot[place] + 1]
<1> DEFINE Right(place) == /\ slot[place] \in 0 .. Len(Classes) - 1
                        /\ child[place] = children[slot[place] + 1]
                        /\ ChildTypes(place[1])[place[2] + 1] = Classes[slot[place] + 1]
           T == {place \in Place : Right(place)}
           rank == [place \in Place |-> place[1]]
<1>1. Len(views) \in Nat /\ \A place \in Place : place[1] \in Nat
  <2>1. Len(views) \in Nat
    BY DEF IInv, Made
  <2>. QED BY <2>1, PlaceBelow
<1>2. rank \in [Place -> Nat]
  BY <1>1
<1>3. ASSUME NEW place \in Place, \A b \in Place : rank[b] < rank[place] => b \in T
      PROVE  place \in T
  <2>1. CASE place[1] = 0
    <3>1. slot[place] = place[2] /\ child[place] = children[place[2] + 1]
      BY <2>1, SlotUnfolds, ChildUnfolds
    <3>2. place[2] \in 0 .. degree(0) - 1
      BY <2>1, PlaceBelow
    <3>3. ChildTypes(0) = Classes /\ degree(0) = Len(Classes)
      BY DEF ChildTypes, degree
    <3>. QED BY <2>1, <3>1, <3>2, <3>3
  <2>2. CASE place[1] # 0
    <3> DEFINE b == Below(place)
    <3>1. /\ b \in Place /\ b[1] \in 0 .. place[1] - 1
          /\ ChildTypes(place[1])[place[2] + 1] = ChildTypes(b[1])[b[2] + 1]
      BY <2>2, PlaceBelow
    <3>2. slot[place] = slot[b] /\ child[place] = child[b]
      BY <2>2, SlotUnfolds, ChildUnfolds
    <3> HIDE DEF b, T
    <3>3. rank[b] < rank[place]
      BY <1>1, <3>1
    <3>4. b \in T
      BY <1>3, <3>1, <3>3
    <3>5. Right(b)
      BY <3>4 DEF T
    <3>6. Right(place)
      BY <3>1, <3>2, <3>5
    <3> HIDE DEF Right
    <3>. QED BY <3>6 DEF T
  <2>. QED BY <2>1, <2>2
<1>4. Place \subseteq T
  <2> HIDE DEF T, rank
  <2>. QED BY <1>2, <1>3, NoTree, Lem!RankInduction
<1>. QED BY <1>4

-----------------------------------------------------------------------------
(* The nodes a view forwards to.                                           *)
LEMMA ChainUnfolds ==
  ASSUME IInv
  PROVE  \A v \in 0 .. Len(views) :
           Chain[v] = {v} \cup IF v = 0 THEN {} ELSE Chain[views[v].node]
<1> DEFINE n == Len(views)
           D == 0 .. n
           V == SUBSET Nat
           rank == [d \in D |-> d]
           below == [d \in D |-> IF d = 0 THEN << >> ELSE << views[d].node >>]
           step == [x \in D \X Seq(V) |->
                      {x[1]} \cup IF x[1] = 0 \/ x[2] = << >> THEN {} ELSE x[2][1]]
           Is(f) == f = [v \in D |-> {v} \cup IF v = 0 THEN {} ELSE f[views[v].node]]
<1>1. n \in Nat /\ \A d \in D : d \in Nat
  BY DEF IInv, Made
<1>2. \A d \in D : d # 0 => views[d].node \in D /\ views[d].node < d
  <2> SUFFICES ASSUME NEW d \in D, d # 0 PROVE views[d].node \in D /\ views[d].node < d
    OBVIOUS
  <2>1. d \in 1 .. n
    BY <1>1
  <2>2. views[d].node \in 0 .. d - 1
    BY <2>1 DEF IInv, Made
  <2>. QED BY <1>1, <2>1, <2>2
<1> HIDE DEF D, n
<1>5. rank \in [D -> Nat]
  BY <1>1
<1>6. below \in [D -> Seq(D)]
  BY <1>2
<1>7. Lem!Descends(D, rank, below)
  <2> SUFFICES ASSUME NEW d \in D, NEW i \in 1 .. Len(below[d])
               PROVE  rank[below[d][i]] < rank[d]
    BY DEF Lem!Descends
  <2>1. d # 0 /\ below[d][i] = views[d].node
    OBVIOUS
  <2>. QED BY <1>2, <2>1
<1>8. step \in [D \X Seq(V) -> V]
  <2> SUFFICES ASSUME NEW x \in D \X Seq(V)
               PROVE  ({x[1]} \cup IF x[1] = 0 \/ x[2] = << >> THEN {} ELSE x[2][1]) \in V
    OBVIOUS
  <2>1. x[1] \in D /\ x[2] \in Seq(V) /\ x[1] \in Nat
    BY <1>1
  <2>2. x[2] # << >> => x[2][1] \in V
    BY <2>1
  <2>. QED BY <2>1, <2>2
<1>9. PICK f \in [D -> V] : Lem!Follows(f, D, V, below, step)
  <2> HIDE DEF rank, below, step, V
  <2>. QED BY <1>5, <1>6, <1>7, <1>8, NoTree, Lem!RankRecursion
<1>10. ASSUME NEW d \in D
       PROVE  f[d] = {d} \cup IF d = 0 THEN {} ELSE f[views[d].node]
  <2>1. PICK c \in Seq(V) : Lem!MadeFrom(f, d, c, below, step)
    BY <1>9 DEF Lem!Follows
  <2>2. /\ Len(c) = Len(below[d]) /\ \A i \in 1 .. Len(below[d]) : c[i] = f[below[d][i]]
        /\ f[d] = step[<< d, c >>]
    BY <2>1 DEF Lem!MadeFrom
  <2>3. f[d] = {d} \cup IF d = 0 \/ c = << >> THEN {} ELSE c[1]
    BY <2>2
  <2>4. CASE d = 0
    BY <2>3, <2>4
  <2>5. CASE d # 0
    <3>1. below[d] = << views[d].node >>
      BY <2>5
    <3> HIDE DEF below, step
    <3>2. Len(below[d]) = 1 /\ below[d][1] = views[d].node
      BY <3>1
    <3>3. Len(c) = 1
      BY <2>2, <3>2
    <3>4. c[1] = f[views[d].node]
      BY <2>2, <3>2
    <3>5. c # << >>
      BY ONLY <3>3, OneIsSome
    <3>. QED BY <2>3, <2>5, <3>4, <3>5
  <2>. QED BY <2>4, <2>5
<1>11. Is(f)
  BY <1>10
<1>12. Chain = CHOOSE g : Is(g)
  BY DEF Chain, D, n
<1> HIDE DEF Is
<1>13. Is(Chain)
  BY <1>11, <1>12
<1>. QED BY <1>13 DEF Is, D, n

(* A usable node lives.                                                    *)
LEMMA UsableLives ==
  ASSUME IInv, NEW v \in Usable
  PROVE  v \in 0 .. Len(views) /\ v \in alive
<1>1. v \in 0 .. Len(views) /\ Chain[v] \subseteq alive
  BY DEF Usable, IInv
<1>2. v \in Chain[v]
  BY <1>1, ChainUnfolds
<1>. QED BY <1>1, <1>2

(* An owner keeps alive all it forwards to.                                *)
LEMMA OwnersHold ==
  ASSUME IInv PROVE OwnersStayUsable
<1> DEFINE Shared(v) == \A u \in Chain[v] \ {0} : views[u].argument = "shared_ptr"
           T == {v \in Nat : v \in alive /\ Shared(v) => Chain[v] \subseteq alive}
<1>0. alive \subseteq 0 .. Len(views) /\ Len(views) \in Nat
  BY DEF IInv, Made
<1>1. ASSUME NEW v \in Nat, \A u \in Nat : u < v => u \in T PROVE v \in T
  <2> SUFFICES ASSUME v \in alive, Shared(v) PROVE Chain[v] \subseteq alive
    OBVIOUS
  <2>1. v \in 0 .. Len(views)
    BY <1>0
  <2>2. Chain[v] = {v} \cup IF v = 0 THEN {} ELSE Chain[views[v].node]
    BY <2>1, ChainUnfolds
  <2>3. CASE v = 0
    BY <2>2, <2>3
  <2>4. CASE v # 0
    <3> DEFINE u == views[v].node
    <3>1. v \in 1 .. Len(views) /\ v \in alive \ {0}
      BY <2>1, <2>4
    <3>2. views[v].argument = "shared_ptr"
      BY <2>2, <2>4
    <3>3. u \in 0 .. v - 1 /\ u \in alive
      BY <3>1, <3>2 DEF IInv, Made
    <3>4. Chain[v] = {v} \cup Chain[u]
      BY <2>2, <2>4
    <3>5. Shared(u)
      BY <3>4
    <3> HIDE DEF u, Shared
    <3>6. u \in Nat /\ u < v
      BY <3>3
    <3>7. Chain[u] \subseteq alive
      BY <1>1, <3>3, <3>5, <3>6
    <3>. QED BY <3>4, <3>7
  <2>. QED BY <2>3, <2>4
<1>2. Nat \subseteq T
  <2> HIDE DEF T
  <2>. QED BY <1>1, NoTree, Lem!InductionOnSets
<1>. QED BY <1>0, <1>2 DEF OwnersStayUsable

(* The children are of the classes the views were made for.                *)
LEMMA ChildrenFit ==
  ASSUME IInv PROVE ChildrenFitTypes
<1> SUFFICES ASSUME NEW v \in 0 .. Len(views), NEW k \in 0 .. degree(v) - 1
             PROVE  child[<< v, k >>] \in Object[ChildTypes(v)[k + 1]]
  BY DEF ChildrenFitTypes
<1> DEFINE place == << v, k >>
<1>1. place \in Place /\ place[1] = v /\ place[2] = k
  BY DEF Place
<1> HIDE DEF place
<1>2. /\ slot[place] \in 0 .. Len(Classes) - 1
      /\ child[place] = children[slot[place] + 1]
      /\ ChildTypes(v)[k + 1] = Classes[slot[place] + 1]
  BY <1>1, StandsFor
<1>3. slot[place] + 1 \in 1 .. Len(Classes)
  BY <1>2, FilterAssumption
<1>4. children[slot[place] + 1] \in Object[Classes[slot[place] + 1]]
  BY <1>3 DEF IInv, Made
<1>. QED BY <1>2, <1>4 DEF place

(* The entries of a simple filter are what the property asks for.          *)
LEMMA FilterSelects ==
  ASSUME IInv PROVE SimpleFilterSelects
<1> SUFFICES ASSUME NEW v \in 1 .. Len(views), views[v].kind.tag = "SimpleFilterTag"
             PROVE  LET kept == ToSet(views[v].IndexMap)
                        before(i) == Cardinality({j \in kept : j < i})
                        types == ChildTypes(views[v].node)
                    IN  /\ \A i \in 0 .. Len(types) - 1 :
                             i \in kept <=>
                               << types[i + 1], before(i), i >> \in views[v].kind.accepts
                        /\ \A j, k \in 0 .. degree(v) - 1 :
                             j < k => mapped_index(v, j) < mapped_index(v, k)
  BY DEF SimpleFilterSelects
<1> DEFINE r == views[v]
           types == ChildTypes(r.node)
           accepts == r.kind.accepts
           e == filter_helper(accepts, types)
           m == r.IndexMap
<1>1. r \in ViewType /\ Shows(r, types)
  BY ElementOfSeq DEF IInv, Made
<1>2. types \in Seq(Class) /\ m \in Seq(Nat) /\ Len(types) \in Nat /\ Len(m) \in Nat
  BY <1>1 DEF ViewType, Shows
<1>3. /\ e \in Seq(EntryType) /\ Sorted(e) /\ Within(e, 0, Len(types))
      /\ Selected(e, accepts, types, 0, 0)
  BY <1>2, SimpleFilterEntries
<1>4. m = [k \in 1 .. Len(e) |-> e[k].original_index]
  <2>1. m = IndexMap(r.kind, types)
    BY <1>1 DEF Shows
  <2>2. r.kind.tag = "SimpleFilterTag"
    OBVIOUS
  <2>. QED BY <2>1, <2>2 DEF IndexMap, FilterResult
<1>5. degree(v) = Len(m)
  <2>1. v # 0 /\ Len(r.ChildTypes) = Len(m)
    BY <1>1 DEF Shows
  <2>. QED BY <2>1 DEF degree, ChildTypes
<1>6. \A j \in 0 .. Len(m) - 1 : mapped_index(v, j) = m[j + 1]
  BY DEF mapped_index
<1> HIDE DEF r, types, accepts, e, m
<1>7. Len(m) = Len(e) /\ \A k \in 1 .. Len(m) : m[k] = e[k].original_index
  BY <1>3, <1>4
<1>8. Increasing(m)
  BY <1>3, <1>7 DEF Increasing, Sorted
<1>9. ASSUME NEW j \in 0 .. degree(v) - 1, NEW k \in 0 .. degree(v) - 1, j < k
      PROVE  mapped_index(v, j) < mapped_index(v, k)
  <2>1. j + 1 \in 1 .. Len(m) /\ k + 1 \in 1 .. Len(m) /\ j + 1 < k + 1
    BY <1>2, <1>5, <1>9
  <2>2. m[j + 1] < m[k + 1]
    BY <1>8, <2>1 DEF Increasing
  <2>3. j \in 0 .. Len(m) - 1 /\ k \in 0 .. Len(m) - 1
    BY <1>5
  <2>. QED BY <1>6, <2>2, <2>3
<1>10. ASSUME NEW i \in 0 .. Len(types) - 1
       PROVE  i \in ToSet(m)
                <=> << types[i + 1], Cardinality({j \in ToSet(m) : j < i}), i >> \in accepts
  <2>1. i \in Nat
    BY <1>2
  <2>2. PICK p \in 0 .. Len(m) : /\ \A q \in 1 .. p : m[q] < i
                                 /\ \A q \in p + 1 .. Len(m) : i <= m[q]
    BY <1>2, <1>8, <2>1, SplitExists
  <2>3. Cardinality({j \in ToSet(m) : j < i}) = p
    BY <1>2, <1>8, <2>1, <2>2, CountBefore
  <2>4. SplitsAt(e, p, i)
    <3>1. \A q \in 1 .. p : q \in 1 .. Len(m)
      BY <1>2
    <3>2. \A q \in p + 1 .. Len(m) : q \in 1 .. Len(m)
      BY <1>2
    <3>. QED BY <1>7, <2>2, <3>1, <3>2 DEF SplitsAt
  <2>5. p < Len(e) /\ e[p + 1].original_index = i <=> << types[i + 1], 0 + p, i >> \in accepts
    BY <1>3, <1>7, <2>4 DEF Selected
  <2>6. 0 + p = p /\ p \in Nat
    BY <1>2
  <2>7. p < Len(m) => p + 1 \in 1 .. Len(m)
    BY <1>2, <2>6
  <2>8. i \in ToSet(m) <=> p < Len(m) /\ m[p + 1] = i
    <3>1. ASSUME p < Len(m), m[p + 1] = i PROVE i \in ToSet(m)
      <4>1. p + 1 \in DOMAIN m
        BY <1>2, <2>7, <3>1
      <4>. QED BY <3>1, <4>1 DEF ToSet
    <3>2. ASSUME i \in ToSet(m) PROVE p < Len(m) /\ m[p + 1] = i
      <4>1. PICK q \in 1 .. Len(m) : m[q] = i
        BY <1>2, <3>2 DEF ToSet
      <4>2. ~ (q \in 1 .. p)
        BY <2>1, <2>2, <4>1
      <4>3. p < Len(m) /\ p + 1 <= q
        BY <1>2, <2>6, <4>2
      <4>4. p + 1 \in 1 .. Len(m) /\ p + 1 \in p + 1 .. Len(m)
        BY <1>2, <2>6, <4>3
      <4>5. i <= m[p + 1] /\ m[p + 1] \in Nat
        BY <1>2, <2>2, <4>4
      <4>6. CASE p + 1 = q
        BY <4>1, <4>3, <4>6
      <4>7. CASE p + 1 # q
        <5>1. p + 1 < q
          BY <2>6, <4>3, <4>7
        <5>2. m[p + 1] < m[q]
          BY <1>8, <4>1, <4>4, <5>1 DEF Increasing
        <5>. QED BY <2>1, <4>1, <4>5, <5>2
      <4>. QED BY <4>6, <4>7
    <3>. QED BY <3>1, <3>2
  <2>9. p < Len(m) => m[p + 1] = e[p + 1].original_index
    BY <1>7, <2>7
  <2>. QED BY <1>7, <2>3, <2>5, <2>6, <2>8, <2>9
<1>. QED BY <1>9, <1>10 DEF r, types, accepts, m

-----------------------------------------------------------------------------
(* The CompositeNode alone satisfies the invariant.                        *)
LEMMA InitIInv == Init => IInv
<1> SUFFICES ASSUME Init PROVE IInv
  OBVIOUS
<1>1. views = << >> /\ Len(views) = 0 /\ views \in Seq(ViewType)
  BY DEF Init
<1>2. \A v \in 1 .. Len(views) : FALSE
  BY <1>1
<1>3. alive = {0} /\ handles = {0} /\ alive \ {0} = {}
  BY DEF Init
<1>4. /\ children \in [1 .. Len(Classes) -> UNION {Object[c] : c \in Class}]
      /\ \A k \in 1 .. Len(Classes) : children[k] \in Object[Classes[k]]
  BY DEF Init
<1>5. alive \subseteq 0 .. Len(views) /\ handles \subseteq 0 .. Len(views)
  BY <1>1, <1>3
<1>. QED BY <1>1, <1>2, <1>3, <1>4, <1>5 DEF IInv, Made

(* A new view on a node that lives.                                        *)
LEMMA NewViewKeeps ==
  ASSUME IInv, NEW node \in 0 .. Len(views), node \in alive, NEW kind \in Kind,
         Compiles(kind, ChildTypes(node)),
         NEW argument \in {"reference", "shared_ptr"}, NEW owning \in BOOLEAN,
         argument = "shared_ptr" => owning = TRUE,
         NewView(node, kind, argument, owning)
  PROVE  IInv'
<1> DEFINE n == Len(views)
           r == View(node, kind, argument, owning)
           types == ChildTypes(node)
           map == IndexMap(kind, types)
<1>1. n \in Nat /\ types \in Seq(Class) /\ Len(types) \in Nat
  BY TypesOf
<1>2. map \in Seq(Nat) /\ \A k \in 1 .. Len(map) : map[k] \in 0 .. Len(types) - 1
  <2>1. map \in Seq(Nat)
    BY <1>1, IndexMapType
  <2>2. \A i \in ToSet(map) : i < Len(types)
    BY DEF Compiles
  <2> HIDE DEF map, types
  <2>3. \A k \in 1 .. Len(map) : map[k] \in ToSet(map) /\ map[k] \in Nat
    BY <2>1 DEF ToSet
  <2>. QED BY <1>1, <2>1, <2>2, <2>3
<1>3. r = [node |-> node, kind |-> kind, IndexMap |-> map,
           ChildTypes |-> [k \in 1 .. Len(map) |-> types[map[k] + 1]],
           argument |-> argument, owning |-> owning]
  BY DEF View
<1>4. views' = Append(views, r) /\ handles' = handles \cup {n + 1} /\ alive' = alive \cup {n + 1}
      /\ children' = children
  BY DEF NewView
<1>5. views \in Seq(ViewType)
  BY DEF IInv
<1> HIDE DEF r, map
<1>6. Len(map) \in Nat /\ \A k \in 1 .. Len(map) : types[map[k] + 1] \in Class
  <2> HIDE DEF types
  <2>1. Len(map) \in Nat
    BY <1>2
  <2>2. \A k \in 1 .. Len(map) : map[k] + 1 \in 1 .. Len(types)
    BY <1>1, <1>2
  <2>. QED BY <1>1, <2>1, <2>2
<1>7. r \in ViewType
  <2> HIDE DEF types
  <2>1. [k \in 1 .. Len(map) |-> types[map[k] + 1]] \in Seq(Class)
    BY <1>6
  <2>2. node \in Nat
    BY <1>1
  <2>. QED BY <1>2, <1>3, <2>1, <2>2 DEF ViewType
<1>8. Shows(r, types)
  <2> HIDE DEF types
  <2>1. Len([k \in 1 .. Len(map) |-> types[map[k] + 1]]) = Len(map)
    BY <1>6
  <2>2. r.IndexMap = map /\ r.kind = kind
        /\ r.ChildTypes = [k \in 1 .. Len(map) |-> types[map[k] + 1]]
    BY <1>3
  <2>3. map = IndexMap(r.kind, types)
    BY <2>2 DEF map
  <2>. QED BY <1>1, <1>2, <2>1, <2>2, <2>3 DEF Shows
<1> HIDE DEF types, n
<1>9. /\ views' \in Seq(ViewType) /\ Len(views') = n + 1
      /\ views'[n + 1] = r /\ \A v \in 1 .. n : views'[v] = views[v]
  BY <1>1, <1>4, <1>5, <1>7, AppendProperties DEF n
<1>10. \A u \in 0 .. n : ChildTypes(u)' = ChildTypes(u)
  <2> SUFFICES ASSUME NEW u \in 0 .. n PROVE ChildTypes(u)' = ChildTypes(u)
    OBVIOUS
  <2>1. CASE u = 0
    BY <2>1 DEF ChildTypes
  <2>2. CASE u # 0
    <3>1. u \in 1 .. n
      BY <1>1, <2>2
    <3>. QED BY <1>9, <2>2, <3>1 DEF ChildTypes
  <2>. QED BY <2>1, <2>2
<1>11. ASSUME NEW v \in 1 .. n + 1
       PROVE  Made(v)'
  <2>1. CASE v = n + 1
    <3>1. views'[v] = r /\ r.node = node /\ r.argument = argument /\ r.owning = owning
      BY <1>3, <1>9, <2>1
    <3>2. node \in 0 .. n /\ 0 .. n = 0 .. v - 1
      BY <1>1, <2>1 DEF n
    <3>3. ChildTypes(node)' = types
      BY <1>10, <3>2 DEF types
    <3>. QED BY <1>8, <3>1, <3>2, <3>3 DEF Made
  <2>2. CASE v # n + 1
    <3>1. v \in 1 .. n /\ views'[v] = views[v]
      BY <1>1, <1>9, <2>2
    <3>2. Made(v)
      BY <3>1 DEF IInv, n
    <3>3. PICK u : u = views[v].node
      OBVIOUS
    <3>4. /\ u \in 0 .. v - 1
          /\ Shows(views[v], ChildTypes(u))
          /\ views[v].argument = "shared_ptr" => views[v].owning = TRUE
      BY <3>2, <3>3 DEF Made
    <3>5. u \in 0 .. n
      BY <1>1, <3>1, <3>4 DEF n
    <3>6. views'[v].node = u /\ Shows(views'[v], ChildTypes(u)')
      BY <1>10, <3>1, <3>3, <3>4, <3>5
    <3>. QED BY <3>1, <3>4, <3>6 DEF Made, ChildTypes
  <2>. QED BY <2>1, <2>2
<1>12. alive' \subseteq 0 .. n + 1 /\ handles' \subseteq 0 .. n + 1
  <2>1. alive \subseteq 0 .. n /\ handles \subseteq 0 .. n
    BY DEF IInv, n
  <2>. QED BY <1>1, <1>4, <2>1
<1>13. ASSUME NEW v \in alive' \ {0}, views'[v].owning = TRUE
       PROVE  views'[v].node \in alive'
  <2>1. CASE v = n + 1
    BY <1>3, <1>4, <1>9, <2>1
  <2>2. CASE v # n + 1
    <3>1. v \in alive \ {0} /\ v \in 1 .. n
      <4>1. v \in alive \ {0}
        BY <1>4, <2>2
      <4>2. v \in 0 .. n
        BY <4>1 DEF IInv, n
      <4>. QED BY <1>1, <4>1, <4>2
    <3>2. views'[v] = views[v]
      BY <1>9, <3>1
    <3>3. views[v].node \in alive
      BY <1>13, <3>1, <3>2 DEF IInv
    <3>. QED BY <1>4, <3>2, <3>3
  <2>. QED BY <2>1, <2>2
<1>14. /\ children' \in [1 .. Len(Classes) -> UNION {Object[c] : c \in Class}]
       /\ \A k \in 1 .. Len(Classes) : children'[k] \in Object[Classes[k]]
  BY <1>4 DEF IInv
<1>. QED BY <1>9, <1>11, <1>12, <1>13, <1>14 DEF IInv

(* Every step keeps the invariant.                                         *)
LEMMA NextIInv == IInv /\ [Next]_vars => IInv'
<1> SUFFICES ASSUME IInv, [Next]_vars PROVE IInv'
  OBVIOUS
<1>1. ASSUME Wrap PROVE IInv'
  <2>1. PICK node \in Usable, kind \in Kind :
          /\ Compiles(kind, ChildTypes(node))
          /\ ViewOfReference(node, kind) \/ ViewOfStorage(node, kind)
    BY <1>1 DEF Wrap
  <2>2. node \in 0 .. Len(views) /\ node \in alive
    BY UsableLives
  <2>3. CASE ViewOfReference(node, kind)
    <3>1. NewView(node, kind, "reference", FALSE)
      BY <2>3 DEF ViewOfReference
    <3>. QED BY <2>1, <2>2, <3>1, NewViewKeeps
  <2>4. CASE ViewOfStorage(node, kind)
    <3>1. NewView(node, kind, "shared_ptr", TRUE)
      BY <2>4 DEF ViewOfStorage
    <3>. QED BY <2>1, <2>2, <3>1, NewViewKeeps
  <2>. QED BY <2>1, <2>3, <2>4
<1>2. ASSUME SetChild PROVE IInv'
  <2>1. PICK v \in Usable : \E k \in 0 .. degree(v) - 1 :
                 \E o \in Object[ChildTypes(v)[k + 1]] : setChild(v, k, o)
    BY <1>2 DEF SetChild
  <2>2. PICK k \in 0 .. degree(v) - 1 : \E o \in Object[ChildTypes(v)[k + 1]] : setChild(v, k, o)
    BY <2>1
  <2>3. PICK o \in Object[ChildTypes(v)[k + 1]] : setChild(v, k, o)
    BY <2>2
  <2>4. v \in 0 .. Len(views)
    BY UsableLives
  <2> DEFINE s == slot[<< v, k >>] + 1
  <2>5. << v, k >> \in Place
    BY <2>4 DEF Place
  <2>6. s \in 1 .. Len(Classes) /\ o \in Object[Classes[s]]
    <3>1. /\ slot[<< v, k >>] \in 0 .. Len(Classes) - 1
          /\ ChildTypes(v)[k + 1] = Classes[s]
      BY <2>5, StandsFor
    <3>2. Len(Classes) \in Nat
      BY FilterAssumption
    <3>. QED BY <3>1, <3>2
  <2>7. Classes[s] \in Class
    BY <2>6, FilterAssumption
  <2>8. children' = [children EXCEPT ![s] = o] /\ UNCHANGED << views, handles, alive >>
    BY <2>3 DEF setChild
  <2> HIDE DEF s
  <2>9. children' \in [1 .. Len(Classes) -> UNION {Object[c] : c \in Class}]
    BY <2>6, <2>7, <2>8 DEF IInv
  <2>10. \A i \in 1 .. Len(Classes) : children'[i] \in Object[Classes[i]]
    BY <2>6, <2>8 DEF IInv
  <2>. QED BY <2>8, <2>9, <2>10 DEF IInv, Made, ChildTypes
<1>3. ASSUME Release PROVE IInv'
  BY <1>3 DEF Release, IInv, Made, ChildTypes
<1>4. ASSUME Reclaim PROVE IInv'
  <2>1. PICK v \in alive \ handles :
          /\ ~ \E w \in alive \ {0} : views[w].owning /\ views[w].node = v
          /\ alive' = alive \ {v}
          /\ UNCHANGED << children, views, handles >>
    BY <1>4 DEF Reclaim
  <2>2. ASSUME NEW w \in alive' \ {0}, views'[w].owning = TRUE
        PROVE  views'[w].node \in alive'
    <3>1. w \in alive \ {0} /\ views[w].owning = TRUE
      BY <2>1, <2>2
    <3>2. views[w].node \in alive
      BY <3>1 DEF IInv
    <3>3. views[w].node # v
      BY <2>1, <3>1
    <3>. QED BY <2>1, <3>2, <3>3
  <2>3. alive' \subseteq 0 .. Len(views')
    BY <2>1 DEF IInv
  <2>. QED BY <2>1, <2>2, <2>3 DEF IInv, Made, ChildTypes
<1>5. ASSUME UNCHANGED vars PROVE IInv'
  BY <1>5 DEF vars, IInv, Made, ChildTypes
<1>. QED BY <1>1, <1>2, <1>3, <1>4, <1>5 DEF Next

-----------------------------------------------------------------------------
(* The invariant holds throughout.                                         *)
LEMMA ViewsIInv == Spec => []IInv
BY InitIInv, NextIInv, PTL DEF Spec

(* The object child(k) of any view returns has the class that the view has *)
(* for k at compile time, however filters and proxies are stacked and      *)
(* whatever has been set through whichever of them.                        *)
THEOREM ChildrenFitTypesAlways == Spec => []ChildrenFitTypes
BY ViewsIInv, ChildrenFit, PTL

(* A view with a simple filter has exactly the children that apply accepts *)
(* with the index they get, in their order, for every filter and every     *)
(* node below.                                                             *)
THEOREM SimpleFilterSelectsAlways == Spec => []SimpleFilterSelects
BY ViewsIInv, FilterSelects, PTL

(* Views made with a shared_ptr keep all they forward to alive, in         *)
(* whatever order the client makes views and gives up its shared_ptrs.     *)
THEOREM OwnersStayUsableAlways == Spec => []OwnersStayUsable
BY ViewsIInv, OwnersHold, PTL

-----------------------------------------------------------------------------
(* The facts about child and slot as formulas, to be had in the next state *)
(* too.                                                                    *)
SlotsUnfold ==
  \A place \in Place : slot[place] = IF place[1] = 0 THEN place[2] ELSE slot[Below(place)]

(* A child of a view is the object in its slot.                            *)
SlotsAgree == \A place \in Place : child[place] = children[slot[place] + 1]

(* Both hold in a state with the invariant ...                             *)
LEMMA SlotsNow == IInv => SlotsUnfold /\ SlotsAgree
BY SlotUnfolds, StandsFor DEF SlotsUnfold, SlotsAgree

(* ... and in the next state.                                              *)
LEMMA SlotsNext == IInv' => SlotsUnfold' /\ SlotsAgree'
BY SlotsNow, PTL

(* As long as no view is made, no child moves to another slot.             *)
LEMMA SlotsStay ==
  ASSUME IInv, IInv', views' = views
  PROVE  Place' = Place /\ \A place \in Place : slot[place]' = slot[place]
<1> DEFINE T == {place \in Place : slot[place]' = slot[place]}
           rank == [place \in Place |-> place[1]]
<1>1. Place' = Place
  BY DEF Place, degree, ChildTypes
<1>2. Len(views) \in Nat /\ \A place \in Place : place[1] \in Nat
  <2>1. Len(views) \in Nat
    BY DEF IInv
  <2>. QED BY <2>1, PlaceBelow
<1>3. rank \in [Place -> Nat]
  BY <1>2
<1>4. ASSUME NEW place \in Place, \A b \in Place : rank[b] < rank[place] => b \in T
      PROVE  place \in T
  <2>1. slot[place]' = IF place[1] = 0 THEN place[2] ELSE slot[Below(place)]'
    BY <1>1, SlotsNext DEF SlotsUnfold
  <2>2. slot[place] = IF place[1] = 0 THEN place[2] ELSE slot[Below(place)]
    BY SlotUnfolds
  <2>3. CASE place[1] = 0
    BY <2>1, <2>2, <2>3
  <2>4. CASE place[1] # 0
    <3>1. PICK b : b = Below(place)
      OBVIOUS
    <3>2. b \in Place /\ b[1] \in 0 .. place[1] - 1
      BY <2>4, <3>1, PlaceBelow
    <3>3. Below(place)' = b
      BY <3>1 DEF Below, mapped_index
    <3>4. rank[b] < rank[place]
      BY <1>2, <3>2
    <3>5. slot[b]' = slot[b]
      BY <1>4, <3>2, <3>4
    <3>6. slot[place]' = slot'[b]
      BY <2>1, <2>4, <3>3
    <3>7. slot[place] = slot[b]
      BY <2>2, <2>4, <3>1
    <3>. QED BY <3>5, <3>6, <3>7
  <2>. QED BY <2>3, <2>4
<1>5. Place \subseteq T
  <2> HIDE DEF T, rank
  <2>. QED BY <1>3, <1>4, NoTree, Lem!RankInduction
<1>. QED BY <1>1, <1>5

(* A setChild through a usable view is seen in every view by the children  *)
(* in the same slot and by no others.                                      *)
LEMMA SetChildSeen ==
  ASSUME IInv, IInv',
         NEW v \in Usable, NEW k \in 0 .. degree(v) - 1,
         NEW o \in Object[ChildTypes(v)[k + 1]],
         setChild(v, k, o),
         NEW w \in 0 .. Len(views), NEW j \in 0 .. degree(w) - 1
  PROVE  child[<< w, j >>]' =
           IF slot[<< w, j >>] = slot[<< v, k >>] THEN o ELSE child[<< w, j >>]
<1> DEFINE there == << v, k >>
           here == << w, j >>
<1>1. v \in 0 .. Len(views)
  BY UsableLives
<1>2. there \in Place /\ here \in Place
  BY <1>1 DEF Place
<1> HIDE DEF there, here
<1>3. children' = [children EXCEPT ![slot[there] + 1] = o] /\ views' = views
  BY DEF setChild, there
<1>4. here \in Place' /\ slot[here]' = slot[here]
  BY <1>2, <1>3, SlotsStay
<1>5. child[here]' = children'[slot[here] + 1]
  BY <1>4, SlotsNext DEF SlotsAgree
<1>6. child[here] = children[slot[here] + 1]
  BY <1>2, SlotsNow DEF SlotsAgree
<1>7. /\ slot[here] \in 0 .. Len(Classes) - 1
      /\ slot[there] \in 0 .. Len(Classes) - 1
  BY <1>2, StandsFor
<1>8. DOMAIN children = 1 .. Len(Classes) /\ Len(Classes) \in Nat
  BY FilterAssumption DEF IInv
<1>9. child[here]' = IF slot[here] = slot[there] THEN o ELSE child[here]
  BY <1>3, <1>5, <1>6, <1>7, <1>8
<1>. QED BY <1>9 DEF here, there

(* setChild through a filter or proxy arrives at the one child of the      *)
(* CompositeNode it names, and is seen from all views of that child and    *)
(* from no other place.                                                    *)
THEOREM SetChildIsSeenAlways == Spec => SetChildIsSeen
<1>1. IInv /\ IInv' /\ [Next]_vars =>
        [\A v \in Usable : \A k \in 0 .. degree(v) - 1 :
           \A o \in Object[ChildTypes(v)[k + 1]] :
             setChild(v, k, o) =>
               \A w \in 0 .. Len(views) : \A j \in 0 .. degree(w) - 1 :
                 child[<< w, j >>]' =
                   IF slot[<< w, j >>] = slot[<< v, k >>] THEN o ELSE child[<< w, j >>]]_vars
  BY SetChildSeen
<1>. QED BY <1>1, ViewsIInv, PTL DEF Spec, SetChildIsSeen

=============================================================================
