------------------------------ MODULE StackLemmas ------------------------------
(* Facts about sequences used as call stacks, the innermost activation     *)
(* last, about the tree paths the activations carry, and the forms of      *)
(* induction and recursion the proofs share: over the numbers, over the    *)
(* nesting of classes, and over both as a tree is built. Two sections tell *)
(* a depth-first visit from a call stack: which position may be entered or *)
(* left next (VisitsFrom), and which leafs have been met so far (Reports). *)
(* The last sections compare TreeInfo, which reads classes and rests on    *)
(* ChildTypeAssumption, with sums over the objects of a tree (InfoIsSum).  *)
EXTENDS ClassInfo, SequenceTheorems, WellFoundedInduction, TLAPS

(* What the three ways of changing a call stack do, element by element:    *)
(* an activation goes on,                                                  *)
LEMMA ReplaceTop ==
  ASSUME NEW S, NEW s \in Seq(S), s # << >>, NEW f \in S
  PROVE  /\ [s EXCEPT ![Len(s)] = f] \in Seq(S)
         /\ Len([s EXCEPT ![Len(s)] = f]) = Len(s)
         /\ [s EXCEPT ![Len(s)] = f] # << >>
         /\ [s EXCEPT ![Len(s)] = f][Len(s)] = f
         /\ \A k \in 1 .. Len(s) - 1 : [s EXCEPT ![Len(s)] = f][k] = s[k]
  OBVIOUS

(* it returns,                                                             *)
LEMMA PopTop ==
  ASSUME NEW S, NEW s \in Seq(S), s # << >>
  PROVE  /\ Front(s) \in Seq(S)
         /\ Len(Front(s)) = Len(s) - 1
         /\ \A k \in 1 .. Len(s) - 1 : Front(s)[k] = s[k]
<1> DEFINE n == Len(s) - 1
<1>1. Len(s) \in Nat /\ n \in Nat /\ n <= Len(s)
  BY EmptySeq
<1>2. \A i \in 1 .. n : s[i] \in S
  BY <1>1, ElementOfSeq
<1> HIDE DEF n
<1>3. SubSeq(s, 1, n) \in Seq(S)
  BY <1>1, <1>2, SubSeqProperties
<1>4. Len(SubSeq(s, 1, n)) = n /\ \A i \in 1 .. n : SubSeq(s, 1, n)[i] = s[i]
  BY <1>1, <1>2, SMT
<1>. QED BY <1>3, <1>4 DEF Front, n

(* it calls another one.                                                   *)
LEMMA PushTop ==
  ASSUME NEW S, NEW s \in Seq(S), NEW f \in S
  PROVE  /\ Append(s, f) \in Seq(S)
         /\ Append(s, f) # << >>
         /\ Len(Append(s, f)) = Len(s) + 1
         /\ Append(s, f)[Len(s) + 1] = f
         /\ \A k \in 1 .. Len(s) : Append(s, f)[k] = s[k]
  OBVIOUS

(* What holds of every activation in a narrower set holds in a wider one.  *)
LEMMA WiderStack ==
  ASSUME NEW S, NEW T, S \subseteq T, NEW s \in Seq(S)
  PROVE  s \in Seq(T)
<1>1. Len(s) \in Nat /\ s = [k \in 1 .. Len(s) |-> s[k]]
  OBVIOUS
<1>2. \A k \in 1 .. Len(s) : s[k] \in T
  BY ElementOfSeq
<1>. QED BY <1>1, <1>2

-----------------------------------------------------------------------------
(* A call stack seen as one of another specification: every activation is  *)
(* replaced by what F makes of it.  Going on, returning and calling are    *)
(* the same on either side.                                                *)
Seen(F, s) == [k \in 1 .. Len(s) |-> F[s[k]]]

(* The ways in which applyToTree changes an activation: field by field.    *)
IsFrame(r) ==
  r = [node |-> r.node, path |-> r.path, i |-> r.i, pc |-> r.pc,
       size |-> r.size, child |-> r.child]

LEMMA FrameSized ==
  ASSUME NEW r, NEW q, IsFrame(r), IsFrame(q),
         q.node = r.node, q.path = r.path, q.i = r.i, q.child = r.child
  PROVE  q = [r EXCEPT !.pc = q.pc, !.size = q.size]
<1> DEFINE n == r.node  p == r.path  a == r.i  b == r.pc  c == r.size  d == r.child
           j == q.i  s == q.pc  t == q.size  e == q.child
<1>1. /\ r = [node |-> n, path |-> p, i |-> a, pc |-> b, size |-> c, child |-> d]
      /\ q = [node |-> n, path |-> p, i |-> a, pc |-> s, size |-> t, child |-> d]
  BY DEF IsFrame
<1> HIDE DEF n, p, a, b, c, d, j, s, t, e
<1>2. [r EXCEPT !.pc = s] = [node |-> n, path |-> p, i |-> a, pc |-> s, size |-> c, child |-> d]
  BY <1>1
<1>3. [[node |-> n, path |-> p, i |-> a, pc |-> s, size |-> c, child |-> d]
        EXCEPT !.size = t] = q
  BY <1>1
<1>4. [r EXCEPT !.pc = s, !.size = t]
        = [[r EXCEPT !.pc = s] EXCEPT !.size = t]
  BY Zenon
<1>. QED BY <1>2, <1>3, <1>4, Zenon DEF s, t

LEMMA FrameEnters ==
  ASSUME NEW r, NEW q, IsFrame(r), IsFrame(q),
         q.node = r.node, q.path = r.path, q.i = r.i, q.size = r.size
  PROVE  q = [r EXCEPT !.pc = q.pc, !.child = q.child]
<1> DEFINE n == r.node  p == r.path  a == r.i  b == r.pc  c == r.size  d == r.child
           j == q.i  s == q.pc  t == q.size  e == q.child
<1>1. /\ r = [node |-> n, path |-> p, i |-> a, pc |-> b, size |-> c, child |-> d]
      /\ q = [node |-> n, path |-> p, i |-> a, pc |-> s, size |-> c, child |-> e]
  BY DEF IsFrame
<1> HIDE DEF n, p, a, b, c, d, j, s, t, e
<1>2. [r EXCEPT !.pc = s] = [node |-> n, path |-> p, i |-> a, pc |-> s, size |-> c, child |-> d]
  BY <1>1
<1>3. [[node |-> n, path |-> p, i |-> a, pc |-> s, size |-> c, child |-> d]
        EXCEPT !.child = e] = q
  BY <1>1
<1>4. [r EXCEPT !.pc = s, !.child = e]
        = [[r EXCEPT !.pc = s] EXCEPT !.child = e]
  BY Zenon
<1>. QED BY <1>2, <1>3, <1>4, Zenon DEF s, e

LEMMA FrameLeaves ==
  ASSUME NEW r, NEW q, IsFrame(r), IsFrame(q),
         q.node = r.node, q.path = r.path, q.size = r.size
  PROVE  q = [r EXCEPT !.pc = q.pc, !.i = q.i, !.child = q.child]
<1> DEFINE n == r.node  p == r.path  a == r.i  b == r.pc  c == r.size  d == r.child
           j == q.i  s == q.pc  t == q.size  e == q.child
<1>1. /\ r = [node |-> n, path |-> p, i |-> a, pc |-> b, size |-> c, child |-> d]
      /\ q = [node |-> n, path |-> p, i |-> j, pc |-> s, size |-> c, child |-> e]
  BY DEF IsFrame
<1> HIDE DEF n, p, a, b, c, d, j, s, t, e
<1>2. [r EXCEPT !.pc = s] = [node |-> n, path |-> p, i |-> a, pc |-> s, size |-> c, child |-> d]
  BY <1>1
<1>3. [[node |-> n, path |-> p, i |-> a, pc |-> s, size |-> c, child |-> d]
        EXCEPT !.i = j] = [node |-> n, path |-> p, i |-> j, pc |-> s, size |-> c, child |-> d]
  BY <1>1
<1>4. [[node |-> n, path |-> p, i |-> j, pc |-> s, size |-> c, child |-> d]
        EXCEPT !.child = e] = q
  BY <1>1
<1>5. [r EXCEPT !.pc = s, !.i = j, !.child = e]
        = [[[r EXCEPT !.pc = s] EXCEPT !.i = j] EXCEPT !.child = e]
  BY Zenon
<1>. QED BY <1>2, <1>3, <1>4, <1>5, Zenon DEF s, j, e

LEMMA SeenStack ==
  ASSUME NEW F, NEW s \in Seq(DOMAIN F)
  PROVE  /\ Seen(F, s) \in Seq({F[x] : x \in DOMAIN F})
         /\ Len(Seen(F, s)) = Len(s)
         /\ s # << >> => Seen(F, s) # << >>
<1>1. Len(s) \in Nat /\ \A k \in 1 .. Len(s) : s[k] \in DOMAIN F
  BY ElementOfSeq
<1>2. \A k \in 1 .. Len(s) : F[s[k]] \in {F[x] : x \in DOMAIN F}
  BY <1>1
<1>. QED BY <1>1, <1>2 DEF Seen

LEMMA SeenTop ==
  ASSUME NEW F, NEW s \in Seq(DOMAIN F), s # << >>
  PROVE  Last(Seen(F, s)) = F[Last(s)]
<1>1. Len(s) \in 1 .. Len(s)
  OBVIOUS
<1>2. Len(Seen(F, s)) = Len(s)
  BY SeenStack
<1>. QED BY <1>1, <1>2 DEF Last, Seen

LEMMA SeenReplace ==
  ASSUME NEW F, NEW s \in Seq(DOMAIN F), s # << >>, NEW f \in DOMAIN F
  PROVE  Seen(F, [s EXCEPT ![Len(s)] = f])
           = [Seen(F, s) EXCEPT ![Len(Seen(F, s))] = F[f]]
<1> DEFINE r == [s EXCEPT ![Len(s)] = f]
<1>1. Len(s) \in 1 .. Len(s) /\ Len(r) = Len(s)
  BY ReplaceTop
<1>2. Len(Seen(F, s)) = Len(s)
  BY SeenStack
<1>3. \A k \in 1 .. Len(s) : r[k] = IF k = Len(s) THEN f ELSE s[k]
  OBVIOUS
<1> HIDE DEF r
<1>4. Seen(F, r) = [k \in 1 .. Len(s) |-> IF k = Len(s) THEN F[f] ELSE F[s[k]]]
  BY <1>1, <1>3 DEF Seen
<1>. QED BY <1>1, <1>2, <1>4 DEF Seen, r

LEMMA SeenPop ==
  ASSUME NEW F, NEW s \in Seq(DOMAIN F), s # << >>
  PROVE  Seen(F, Front(s)) = Front(Seen(F, s))
<1> DEFINE n == Len(s) - 1
           t == Seen(F, s)
           T == {F[x] : x \in DOMAIN F}
<1>1. t \in Seq(T) /\ t # << >> /\ Len(t) = Len(s)
  BY SeenStack
<1>n. n \in Nat
  BY EmptySeq
<1>2. Front(s) = [k \in 1 .. n |-> s[k]]
  <2>1. Front(s) \in Seq(DOMAIN F) /\ Len(Front(s)) = n /\ \A k \in 1 .. n : Front(s)[k] = s[k]
    BY PopTop
  <2>. QED BY <2>1
<1>4. \A k \in 1 .. n : t[k] = F[s[k]] /\ Front(s)[k] = s[k]
  BY <1>n, <1>2 DEF Seen
<1>5. Len(Front(s)) = n
  BY PopTop
<1>3. Front(t) = [k \in 1 .. n |-> t[k]]
  <2> HIDE DEF t, T
  <2>1. Front(t) \in Seq(T) /\ Len(Front(t)) = n /\ \A k \in 1 .. n : Front(t)[k] = t[k]
    BY <1>1, PopTop
  <2>. QED BY <2>1
<1>6. \A k \in 1 .. n : F[Front(s)[k]] = t[k]
  BY <1>4
<1> HIDE DEF t, n
<1>7. Seen(F, Front(s)) = [k \in 1 .. n |-> t[k]]
  BY <1>5, <1>6 DEF Seen
<1>. QED BY <1>3, <1>7 DEF t

LEMMA SeenPush ==
  ASSUME NEW F, NEW s \in Seq(DOMAIN F), NEW f \in DOMAIN F
  PROVE  Seen(F, Append(s, f)) = Append(Seen(F, s), F[f])
<1> DEFINE T == {F[x] : x \in DOMAIN F}
           t == Seen(F, s)
           a == Append(s, f)
           b == Append(t, F[f])
<1>1. /\ a \in Seq(DOMAIN F) /\ Len(a) = Len(s) + 1 /\ a[Len(s) + 1] = f
      /\ \A k \in 1 .. Len(s) : a[k] = s[k]
  BY PushTop
<1>2. t \in Seq(T) /\ Len(t) = Len(s) /\ F[f] \in T
  BY SeenStack
<1>3. \A k \in 1 .. Len(s) : t[k] = F[s[k]]
  BY DEF Seen
<1>4. Len(s) \in Nat
  OBVIOUS
<1> HIDE DEF T, t, a
<1>5. /\ b \in Seq(T) /\ Len(b) = Len(s) + 1 /\ b[Len(s) + 1] = F[f]
      /\ \A k \in 1 .. Len(s) : b[k] = t[k]
  BY <1>2, PushTop
<1> HIDE DEF b
<1>6. Seen(F, a) = [k \in 1 .. Len(s) + 1 |-> F[a[k]]]
  BY <1>1 DEF Seen
<1>7. \A k \in 1 .. Len(s) + 1 : F[a[k]] = b[k]
  <2> TAKE k \in 1 .. Len(s) + 1
  <2>1. CASE k = Len(s) + 1
    BY <2>1, <1>1, <1>5
  <2>2. CASE k \in 1 .. Len(s)
    BY <2>2, <1>1, <1>3, <1>5
  <2>. QED BY <1>4, <2>1, <2>2
<1>8. b = [k \in 1 .. Len(s) + 1 |-> b[k]]
  BY <1>5
<1>. QED BY <1>6, <1>7, <1>8 DEF a, b, t

-----------------------------------------------------------------------------
(* The empty path leads to the root, and one more index from a node to one *)
(* of its children.                                                        *)
LEMMA LeadsToRoot ==
  ASSUME NEW h, NEW r \in Node
  PROVE  Leads(h, r, << >>, r)
<1> DEFINE walk == [k \in 1 .. 1 |-> r]
<1>1. walk \in [1 .. Len(<< >>) + 1 -> Node] /\ walk[1] = r
  OBVIOUS
<1> HIDE DEF walk
<1>. QED BY <1>1 DEF Leads

LEMMA LeadsToChild ==
  ASSUME NEW h \in [Node -> Seq(Node)], NEW r, NEW path \in TreePath,
         NEW n \in Node, Leads(h, r, path, n), NEW i \in Nat, i < Len(h[n])
  PROVE  /\ h[n][i + 1] \in Node
         /\ push_back(path, i) \in TreePath
         /\ Leads(h, r, push_back(path, i), h[n][i + 1])
<1> DEFINE longer == push_back(path, i)
           m == h[n][i + 1]
<1>1. m \in Node
  <2>1. h[n] \in Seq(Node)
    OBVIOUS
  <2>2. i + 1 \in 1 .. Len(h[n])
    BY <2>1
  <2>. QED BY <2>1, <2>2, ElementOfSeq
<1>2. /\ longer \in TreePath /\ Len(path) \in Nat
      /\ Len(longer) = Len(path) + 1 /\ longer[Len(path) + 1] = i
      /\ \A k \in 1 .. Len(path) : longer[k] = path[k]
  BY PushTop DEF push_back, TreePath
<1>3. PICK walk \in [1 .. Len(path) + 1 -> Node] :
        /\ walk[1] = r
        /\ walk[Len(path) + 1] = n
        /\ \A k \in 1 .. Len(path) :
             /\ path[k] \in 0 .. Len(h[walk[k]]) - 1
             /\ walk[k + 1] = h[walk[k]][path[k] + 1]
  BY DEF Leads
<1> DEFINE walked == [k \in 1 .. Len(path) + 2 |->
                        IF k = Len(path) + 2 THEN m ELSE walk[k]]
<1> HIDE DEF longer, m
<1>4. /\ walked \in [1 .. Len(longer) + 1 -> Node]
      /\ walked[Len(path) + 2] = m
      /\ \A k \in 1 .. Len(path) + 1 : walked[k] = walk[k]
  BY <1>1, <1>2, <1>3
<1> HIDE DEF walked
<1>5. ASSUME NEW k \in 1 .. Len(longer)
      PROVE  /\ longer[k] \in 0 .. Len(h[walked[k]]) - 1
             /\ walked[k + 1] = h[walked[k]][longer[k] + 1]
  <2>1. CASE k \in 1 .. Len(path)
    <3>1. /\ longer[k] = path[k] /\ walked[k] = walk[k]
          /\ walked[k + 1] = walk[k + 1]
      BY <1>2, <1>4, <2>1
    <3>. QED BY <1>3, <2>1, <3>1
  <2>2. CASE k = Len(path) + 1
    <3>1. longer[k] = i /\ walked[k] = n /\ walked[k + 1] = m
      <4>1. k \in 1 .. Len(path) + 1 /\ k + 1 = Len(path) + 2
        BY <1>2, <2>2
      <4>2. longer[k] = i /\ walked[k] = walk[k]
        BY <1>2, <1>4, <2>2, <4>1
      <4>3. walk[k] = n
        BY <1>3, <2>2
      <4>. QED BY <1>4, <4>1, <4>2, <4>3
    <3>2. h[n] \in Seq(Node) /\ i \in 0 .. Len(h[n]) - 1
      OBVIOUS
    <3>. QED BY <3>1, <3>2 DEF m
  <2>. QED BY <1>2, <2>1, <2>2
<1>6. walked[1] = r /\ walked[Len(longer) + 1] = m
  BY <1>2, <1>3, <1>4
<1>7. Leads(h, r, longer, m)
  BY <1>4, <1>5, <1>6 DEF Leads
<1>. QED BY <1>1, <1>2, <1>7 DEF longer, m

-----------------------------------------------------------------------------
(* Induction, in a form without operators as parameters: over the numbers, *)
(* and over any set whose elements have a rank.  A set of numbers that is  *)
(* not empty has a least element,                                          *)
LEMMA LeastElement ==
  ASSUME NEW T, T \subseteq Nat, T # {}
  PROVE  \E n \in T : \A m \in T : n <= m
<1> DEFINE R == OpToRel(<, Nat)
<1>1. IsWellFoundedOn(R, Nat)
  BY NatLessThanWellFounded
<1> HIDE DEF R
<1>2. PICK n \in T : \A m \in T : ~ (<< m, n >> \in R)
  BY <1>1, WFMin
<1>3. \A m \in T : m < n => << m, n >> \in R
  BY DEF R, OpToRel
<1>4. \A m \in T : ~ (m < n)
  BY <1>2, <1>3
<1>5. n \in Nat /\ \A m \in T : m \in Nat
  OBVIOUS
<1>6. \A m \in T : n <= m
  BY <1>4, <1>5
<1>. QED BY <1>6

(* so whatever is passed on from all smaller numbers holds of every one,   *)
LEMMA InductionOnSets ==
  ASSUME NEW T, 
         \A n \in Nat : (\A m \in Nat : m < n => m \in T) => n \in T
  PROVE  Nat \subseteq T
<1> SUFFICES ASSUME Nat \ T # {} PROVE FALSE
  OBVIOUS
<1>1. PICK n \in Nat \ T : \A m \in Nat \ T : n <= m
  <2> DEFINE U == Nat \ T
  <2>1. U \subseteq Nat /\ U # {}
    OBVIOUS
  <2> HIDE DEF U
  <2>2. \E n \in U : \A m \in U : n <= m
    BY <2>1, LeastElement
  <2>. QED BY <2>2 DEF U
<1>2. \A m \in Nat : m < n => m \in T
  BY <1>1
<1>. QED BY <1>1, <1>2

(* and whatever holds of 0 and is passed on from each number to the next.  *)
LEMMA CountingInduction ==
  ASSUME NEW T, 0 \in T, \A n \in Nat : n \in T => n + 1 \in T
  PROVE  Nat \subseteq T
<1>1. ASSUME NEW n \in Nat, \A m \in Nat : m < n => m \in T PROVE n \in T
  <2>1. CASE n = 0
    BY <2>1
  <2>2. CASE n # 0
    <3>1. n - 1 \in Nat /\ n - 1 < n /\ (n - 1) + 1 = n
      BY <2>2
    <3>. QED BY <1>1, <3>1
  <2>. QED BY <2>1, <2>2
<1>. QED BY <1>1, InductionOnSets

(* Induction over a set whose elements have a rank.                        *)
LEMMA RankInduction ==
  ASSUME NEW D, NEW rank \in [D -> Nat], NEW T,
         \A d \in D : (\A e \in D : rank[e] < rank[d] => e \in T) => d \in T
  PROVE  D \subseteq T
<1> DEFINE U == {n \in Nat : \A d \in D : rank[d] = n => d \in T}
<1>1. ASSUME NEW n \in Nat, \A m \in Nat : m < n => m \in U PROVE n \in U
  <2> SUFFICES ASSUME NEW d \in D, rank[d] = n PROVE d \in T
    OBVIOUS
  <2>1. ASSUME NEW e \in D, rank[e] < n PROVE e \in T
    <3>1. rank[e] \in U
      BY <1>1, <2>1
    <3>. QED BY <3>1
  <2>. QED BY <2>1
<1>2. Nat \subseteq U
  <2> HIDE DEF U
  <2>. QED BY <1>1, InductionOnSets
<1>. QED BY <1>2

(* A recursive definition over a set D: below[d] are the elements that     *)
(* what is said of d depends on.  They are of lower rank,                  *)
Descends(D, rank, below) ==
  \A d \in D : \A i \in 1 .. Len(below[d]) : rank[below[d][i]] < rank[d]

(* and step makes the value of d from their values, c.                     *)
MadeFrom(f, d, c, below, step) ==
  /\ Len(c) = Len(below[d])
  /\ \A i \in 1 .. Len(below[d]) : c[i] = f[below[d][i]]
  /\ f[d] = step[<< d, c >>]

Follows(f, D, V, below, step) ==
  \A d \in D : \E c \in Seq(V) : MadeFrom(f, d, c, below, step)

(* There is a function that is as the definition says.                     *)
LEMMA RankRecursion ==
  ASSUME NEW D, NEW V, NEW rank \in [D -> Nat], NEW below \in [D -> Seq(D)],
         Descends(D, rank, below), NEW step \in [D \X Seq(V) -> V]
  PROVE  \E f \in [D -> V] : Follows(f, D, V, below, step)
<1> DEFINE Next(f, d) == step[<< d, [i \in 1 .. Len(below[d]) |-> f[below[d][i]]] >>]
           Up(f, n) == \A d \in D : rank[d] < n => f[d] = Next(f, d)
           T == {n \in Nat : \E f \in [D -> V] : Up(f, n)}
<1>1. ASSUME NEW f \in [D -> V], NEW d \in D PROVE Next(f, d) \in V
  <2>1. below[d] \in Seq(D)
    OBVIOUS
  <2>2. Len(below[d]) \in Nat /\ \A i \in 1 .. Len(below[d]) : below[d][i] \in D
    BY <2>1, ElementOfSeq
  <2>3. \A i \in 1 .. Len(below[d]) : f[below[d][i]] \in V
    BY <2>2
  <2>4. [i \in 1 .. Len(below[d]) |-> f[below[d][i]]] \in Seq(V)
    BY <2>2, <2>3
  <2>. QED BY <2>4
<1>2. ASSUME NEW f, NEW g, NEW d \in D, \A e \in D : rank[e] < rank[d] => f[e] = g[e]
      PROVE  Next(f, d) = Next(g, d)
  <2>1. below[d] \in Seq(D)
    OBVIOUS
  <2>2. \A i \in 1 .. Len(below[d]) : below[d][i] \in D /\ f[below[d][i]] = g[below[d][i]]
    BY <1>2, <2>1, ElementOfSeq DEF Descends
  <2>3. [i \in 1 .. Len(below[d]) |-> f[below[d][i]]] = [i \in 1 .. Len(below[d]) |-> g[below[d][i]]]
    BY <2>2
  <2>. QED BY <2>3
<1>3. \A d \in D : rank[d] \in Nat
  OBVIOUS
<1> HIDE DEF Next
<1>4. CASE D = {}
  <2>1. [d \in D |-> 0] \in [D -> V]
    BY <1>4
  <2>. QED BY <1>4, <2>1 DEF Follows
<1>5. CASE D # {}
  <2>1. \E v : v \in V
    <3>1. PICK d \in D : TRUE
      BY <1>5
    <3>2. << >> \in Seq(V)
      OBVIOUS
    <3>3. << d, << >> >> \in D \X Seq(V)
      BY <3>2
    <3>. QED BY <3>3
  <2>2. 0 \in T
    <3>1. PICK v : v \in V
      BY <2>1
    <3>2. [d \in D |-> v] \in [D -> V]
      BY <3>1
    <3>3. Up([d \in D |-> v], 0)
      BY <1>3
    <3>. QED BY <3>2, <3>3
  <2>3. ASSUME NEW n \in Nat, n \in T PROVE n + 1 \in T
    <3>1. PICK f \in [D -> V] : Up(f, n)
      BY <2>3
    <3> DEFINE g == [d \in D |-> Next(f, d)]
    <3>2. g \in [D -> V]
      BY <1>1
    <3>3. ASSUME NEW d \in D, rank[d] < n + 1 PROVE g[d] = Next(g, d)
      <4>1. ASSUME NEW e \in D, rank[e] < rank[d] PROVE f[e] = g[e]
        <5>1. rank[e] < n
          BY <1>3, <3>3, <4>1
        <5>. QED BY <3>1, <5>1
      <4> HIDE DEF g
      <4>2. Next(f, d) = Next(g, d)
        BY <1>2, <4>1
      <4>. QED BY <4>2 DEF g
    <3>4. Up(g, n + 1)
      BY <3>3
    <3> HIDE DEF g, Up
    <3>. QED BY <3>2, <3>4
  <2>4. Nat \subseteq T
    <3> HIDE DEF T
    <3>. QED BY <2>2, <2>3, CountingInduction
  <2> DEFINE h == [n \in Nat |-> CHOOSE f \in [D -> V] : Up(f, n)]
             f == [d \in D |-> h[rank[d] + 1][d]]
  <2>5. ASSUME NEW n \in Nat PROVE h[n] \in [D -> V] /\ Up(h[n], n)
    <3>1. \E g \in [D -> V] : Up(g, n)
      BY <2>4
    <3> HIDE DEF Up
    <3>. QED BY <3>1
  <2> HIDE DEF h
  <2>6. ASSUME NEW m \in Nat, NEW n \in Nat
        PROVE  \A d \in D : rank[d] < m /\ rank[d] < n => h[m][d] = h[n][d]
    <3> DEFINE U == {d \in D : rank[d] < m /\ rank[d] < n => h[m][d] = h[n][d]}
    <3>1. ASSUME NEW d \in D, \A e \in D : rank[e] < rank[d] => e \in U PROVE d \in U
      <4> SUFFICES ASSUME rank[d] < m, rank[d] < n PROVE h[m][d] = h[n][d]
        OBVIOUS
      <4>1. ASSUME NEW e \in D, rank[e] < rank[d] PROVE h[m][e] = h[n][e]
        <5>1. e \in U /\ rank[e] < m /\ rank[e] < n
          BY <1>3, <3>1, <4>1
        <5>. QED BY <5>1
      <4>2. Next(h[m], d) = Next(h[n], d)
        BY <1>2, <4>1
      <4>3. h[m][d] = Next(h[m], d) /\ h[n][d] = Next(h[n], d)
        BY <2>5
      <4>. QED BY <4>2, <4>3
    <3>2. D \subseteq U
      <4> HIDE DEF U
      <4>. QED BY <3>1, RankInduction
    <3>. QED BY <3>2
  <2>7. f \in [D -> V]
    <3>1. ASSUME NEW d \in D PROVE h[rank[d] + 1][d] \in V
      <4>1. rank[d] + 1 \in Nat
        BY <1>3
      <4>. QED BY <2>5, <4>1
    <3>. QED BY <3>1
  <2>8. ASSUME NEW d \in D PROVE f[d] = Next(f, d)
    <3>1. rank[d] + 1 \in Nat /\ rank[d] < rank[d] + 1
      BY <1>3
    <3>2. h[rank[d] + 1][d] = Next(h[rank[d] + 1], d)
      BY <2>5, <3>1
    <3>3. ASSUME NEW e \in D, rank[e] < rank[d] PROVE f[e] = h[rank[d] + 1][e]
      <4>1. rank[e] + 1 \in Nat /\ rank[e] < rank[e] + 1 /\ rank[e] < rank[d] + 1
        BY <1>3, <3>3
      <4>. QED BY <2>6, <3>1, <4>1
    <3> HIDE DEF f
    <3>4. Next(f, d) = Next(h[rank[d] + 1], d)
      BY <1>2, <3>3
    <3>5. f[d] = h[rank[d] + 1][d]
      BY DEF f
    <3>. QED BY <3>2, <3>4, <3>5
  <2> HIDE DEF f
  <2>9. ASSUME NEW d \in D
        PROVE  \E c \in Seq(V) : MadeFrom(f, d, c, below, step)
    <3> DEFINE c == [i \in 1 .. Len(below[d]) |-> f[below[d][i]]]
    <3>1. below[d] \in Seq(D)
      OBVIOUS
    <3>2. Len(below[d]) \in Nat /\ \A i \in 1 .. Len(below[d]) : f[below[d][i]] \in V
      BY <2>7, <3>1, ElementOfSeq
    <3>3. c \in Seq(V) /\ Len(c) = Len(below[d])
      BY <3>2
    <3>4. f[d] = step[<< d, c >>]
      BY <2>8 DEF Next
    <3>5. \A i \in 1 .. Len(below[d]) : c[i] = f[below[d][i]]
      OBVIOUS
    <3> HIDE DEF c
    <3>6. MadeFrom(f, d, c, below, step)
      BY <3>3, <3>4, <3>5 DEF MadeFrom
    <3>. QED BY <3>3, <3>6
  <2>. QED BY <2>7, <2>9 DEF Follows
<1>. QED BY <1>4, <1>5

(* In particular, a function of the numbers may be defined by its value at *)
(* 0 and what the next value is made of.                                   *)
Counts(f, base, step) ==
  f[0] = base /\ \A n \in Nat : f[n + 1] = step[<< n, f[n] >>]

LEMMA CountingRecursion ==
  ASSUME NEW V, NEW base \in V, NEW step \in [Nat \X V -> V]
  PROVE  \E f \in [Nat -> V] : Counts(f, base, step)
<1> DEFINE rank == [n \in Nat |-> n]
           below == [n \in Nat |-> IF n = 0 THEN << >> ELSE << n - 1 >>]
           made == [x \in Nat \X Seq(V) |->
                      IF x[1] = 0 \/ x[2] = << >> THEN base
                      ELSE step[<< x[1] - 1, x[2][1] >>]]
<1>1. rank \in [Nat -> Nat]
  OBVIOUS
<1>2. below \in [Nat -> Seq(Nat)]
  <2>1. ASSUME NEW n \in Nat PROVE (IF n = 0 THEN << >> ELSE << n - 1 >>) \in Seq(Nat)
    OBVIOUS
  <2>. QED BY <2>1
<1>3. Descends(Nat, rank, below)
  BY DEF Descends
<1>4. made \in [Nat \X Seq(V) -> V]
  <2>1. ASSUME NEW x \in Nat \X Seq(V)
        PROVE  (IF x[1] = 0 \/ x[2] = << >> THEN base
                ELSE step[<< x[1] - 1, x[2][1] >>]) \in V
    <3>1. CASE x[1] = 0 \/ x[2] = << >>
      BY <3>1
    <3>2. CASE ~ (x[1] = 0 \/ x[2] = << >>)
      <4>1. x[1] \in Nat /\ x[1] # 0 /\ x[2] \in Seq(V) /\ x[2] # << >>
        BY <3>2
      <4>2. x[1] - 1 \in Nat
        BY <4>1
      <4>3. x[2][1] \in V
        BY <4>1, EmptySeq, ElementOfSeq
      <4>. QED BY <3>2, <4>2, <4>3
    <3>. QED BY <3>1, <3>2
  <2>. QED BY <2>1
<1>5. PICK f \in [Nat -> V] : Follows(f, Nat, V, below, made)
  <2> HIDE DEF rank, below, made
  <2>. QED BY <1>1, <1>2, <1>3, <1>4, RankRecursion
<1>6. f[0] = base
  <2>1. PICK c \in Seq(V) : f[0] = made[<< 0, c >>]
    BY <1>5 DEF Follows, MadeFrom
  <2>. QED BY <2>1
<1>7. ASSUME NEW n \in Nat PROVE f[n + 1] = step[<< n, f[n] >>]
  <2>1. n + 1 \in Nat /\ n + 1 # 0 /\ (n + 1) - 1 = n
    OBVIOUS
  <2>2. below[n + 1] = << n >>
    BY <2>1
  <2> HIDE DEF below
  <2>3. PICK c \in Seq(V) : MadeFrom(f, n + 1, c, below, made)
    BY <1>5, <2>1 DEF Follows
  <2>4. Len(c) = 1 /\ c[1] = f[n] /\ c # << >> /\ f[n + 1] = made[<< n + 1, c >>]
    BY <2>2, <2>3 DEF MadeFrom
  <2>5. made[<< n + 1, c >>] = step[<< (n + 1) - 1, c[1] >>]
    BY <2>1, <2>4
  <2>. QED BY <2>1, <2>4, <2>5
<1>. QED BY <1>6, <1>7 DEF Counts

(* A definition may depend on everything of lower rank, infinitely much    *)
(* perhaps: step is given the function, and looks at it only there.        *)
LooksBelow(step, D, V, rank) ==
  \A d \in D, g, h \in [D -> V] :
    (\A e \in D : rank[e] < rank[d] => g[e] = h[e]) => step[<< d, g >>] = step[<< d, h >>]

Obeys(f, D, step) == \A d \in D : f[d] = step[<< d, f >>]

LEMMA RecursionFromBelow ==
  ASSUME NEW D, NEW V, NEW v \in V, NEW rank \in [D -> Nat],
         NEW step \in [D \X [D -> V] -> V], LooksBelow(step, D, V, rank)
  PROVE  \E f \in [D -> V] : Obeys(f, D, step)
<1> DEFINE W == [D -> V]
           first == [d \in D |-> v]
           better == [x \in Nat \X W |-> [d \in D |-> step[<< d, x[2] >>]]]
<1>1. first \in W
  OBVIOUS
<1>2. better \in [Nat \X W -> W]
  <2> SUFFICES ASSUME NEW x \in Nat \X W PROVE [d \in D |-> step[<< d, x[2] >>]] \in W
    OBVIOUS
  <2>. QED OBVIOUS
<1>3. PICK F \in [Nat -> W] : Counts(F, first, better)
  <2> HIDE DEF W, first, better
  <2>. QED BY <1>1, <1>2, CountingRecursion
<1>4. ASSUME NEW n \in Nat PROVE F[n] \in W /\ \A d \in D : F[n + 1][d] = step[<< d, F[n] >>]
  <2>1. F[n] \in W
    BY <1>3
  <2>2. F[n + 1] = better[<< n, F[n] >>]
    BY <1>3 DEF Counts
  <2>. QED BY <2>1, <2>2
<1> HIDE DEF first, better
<1>5. \A n \in Nat : \A d \in D : rank[d] < n => F[n + 1][d] = F[n][d]
  <2> DEFINE T == {n \in Nat : \A d \in D : rank[d] < n => F[n + 1][d] = F[n][d]}
  <2>1. 0 \in T
    OBVIOUS
  <2>2. ASSUME NEW n \in Nat, n \in T PROVE n + 1 \in T
    <3> SUFFICES ASSUME NEW d \in D, rank[d] < n + 1 PROVE F[(n + 1) + 1][d] = F[n + 1][d]
      OBVIOUS
    <3>3. n + 1 \in Nat
      OBVIOUS
    <3>1. F[(n + 1) + 1][d] = step[<< d, F[n + 1] >>] /\ F[n + 1] \in W
      BY <1>4, <3>3
    <3>2. F[n + 1][d] = step[<< d, F[n] >>] /\ F[n] \in W
      BY <1>4
    <3>4. ASSUME NEW e \in D, rank[e] < rank[d] PROVE F[n + 1][e] = F[n][e]
      <4>1. rank[e] \in Nat /\ rank[d] \in Nat
        OBVIOUS
      <4>2. rank[e] < n
        BY <3>4, <4>1
      <4>. QED BY <2>2, <4>2
    <3>. QED BY <3>1, <3>2, <3>4 DEF LooksBelow
  <2> HIDE DEF T
  <2>3. Nat \subseteq T
    BY <2>1, <2>2, CountingInduction
  <2>. QED BY <2>3 DEF T
<1>6. \A m \in Nat : \A n \in 0 .. m, d \in D : rank[d] < n => F[m][d] = F[n][d]
  <2> DEFINE T == {m \in Nat : \A n \in 0 .. m, d \in D : rank[d] < n => F[m][d] = F[n][d]}
  <2>1. 0 \in T
    OBVIOUS
  <2>2. ASSUME NEW m \in Nat, m \in T PROVE m + 1 \in T
    <3> SUFFICES ASSUME NEW n \in 0 .. m + 1, NEW d \in D, rank[d] < n PROVE F[m + 1][d] = F[n][d]
      OBVIOUS
    <3>1. CASE n = m + 1
      BY <3>1
    <3>2. CASE n # m + 1
      <4>1. PICK r \in Nat : r = rank[d]
        OBVIOUS
      <4>2. n \in Nat /\ n <= m
        BY <3>2
      <4>3. r < m
        BY <4>1, <4>2
      <4>4. n \in 0 .. m /\ rank[d] < m
        BY <4>1, <4>2, <4>3
      <4>5. F[m + 1][d] = F[m][d]
        BY <1>5, <4>4
      <4>6. F[m][d] = F[n][d]
        BY <2>2, <4>4
      <4>. QED BY <4>5, <4>6
    <3>. QED BY <3>1, <3>2
  <2> HIDE DEF T
  <2>3. Nat \subseteq T
    BY <2>1, <2>2, CountingInduction
  <2>. QED BY <2>3 DEF T
<1> DEFINE f == [d \in D |-> F[rank[d] + 1][d]]
<1>7. f \in W
  <2> SUFFICES ASSUME NEW d \in D PROVE F[rank[d] + 1][d] \in V
    OBVIOUS
  <2>1. rank[d] + 1 \in Nat
    OBVIOUS
  <2>2. F[rank[d] + 1] \in W
    BY <1>4, <2>1
  <2>. QED BY <2>2
<1>8. ASSUME NEW d \in D PROVE f[d] = step[<< d, f >>]
  <2>1. rank[d] \in Nat
    OBVIOUS
  <2>2. f[d] = step[<< d, F[rank[d]] >>] /\ F[rank[d]] \in W
    BY <1>4, <2>1
  <2>3. ASSUME NEW e \in D, rank[e] < rank[d] PROVE F[rank[d]][e] = f[e]
    <3>1. rank[e] \in Nat /\ rank[e] + 1 \in 0 .. rank[d] /\ rank[e] < rank[e] + 1
      BY <2>1, <2>3
    <3>. QED BY <1>6, <2>1, <3>1
  <2> HIDE DEF f
  <2>. QED BY <1>7, <2>2, <2>3 DEF LooksBelow
<1>. QED BY <1>7, <1>8 DEF Obeys

(* Finitely many numbers have a bound.                                     *)
LEMMA SequenceBounded ==
  ASSUME NEW s \in Seq(Nat)
  PROVE  \E b \in Nat : \A i \in 1 .. Len(s) : s[i] <= b
<1> DEFINE T == {n \in Nat : n <= Len(s) => \E b \in Nat : \A i \in 1 .. n : s[i] <= b}
<1>1. 0 \in T
  OBVIOUS
<1>2. ASSUME NEW n \in Nat, n \in T PROVE n + 1 \in T
  <2> SUFFICES ASSUME n + 1 <= Len(s) PROVE \E b \in Nat : \A i \in 1 .. n + 1 : s[i] <= b
    OBVIOUS
  <2>1. Len(s) \in Nat
    OBVIOUS
  <2>2. n <= Len(s) /\ n + 1 \in 1 .. Len(s)
    BY <2>1
  <2>3. PICK b \in Nat : \A i \in 1 .. n : s[i] <= b
    BY <1>2, <2>2
  <2>4. s[n + 1] \in Nat /\ \A i \in 1 .. n : s[i] \in Nat
    BY <2>1, <2>2, ElementOfSeq
  <2>5. CASE s[n + 1] <= b
    <3>1. \A i \in 1 .. n + 1 : s[i] <= b
      BY <2>3, <2>5
    <3>. QED BY <3>1
  <2>6. CASE b < s[n + 1]
    <3>1. \A i \in 1 .. n + 1 : s[i] <= s[n + 1]
      BY <2>3, <2>4, <2>6
    <3>. QED BY <2>4, <3>1
  <2>7. s[n + 1] <= b \/ b < s[n + 1]
    BY <2>4
  <2>. QED BY <2>5, <2>6, <2>7
<1>3. Nat \subseteq T
  <2> HIDE DEF T
  <2>. QED BY <1>1, <1>2, CountingInduction
<1>4. Len(s) \in Nat
  OBVIOUS
<1>5. \A n \in Nat : n <= Len(s) => \E b \in Nat : \A i \in 1 .. n : s[i] <= b
  BY <1>3
<1> HIDE DEF T
<1>6. Len(s) <= Len(s)
  BY <1>4
<1> DEFINE l == Len(s)
<1>7. l \in Nat /\ l <= l /\ \A n \in Nat : n <= l => \E b \in Nat : \A i \in 1 .. n : s[i] <= b
  BY <1>4, <1>5, <1>6
<1> HIDE DEF l
<1>8. \E b \in Nat : \A i \in 1 .. l : s[i] <= b
  BY <1>7
<1>. QED BY <1>8 DEF l

(* The finite trees whose nodes are labelled from L, by their height.      *)
TreesOver(L, V) == [of : L, children : Seq(V)]

ByHeight(W, L) ==
  W = [n \in Nat |-> IF n = 0 THEN {} ELSE TreesOver(L, W[n - 1])]

LEMMA TreeStages ==
  ASSUME NEW L
  PROVE  \E W : ByHeight(W, L)
<1> DEFINE Over(V) == TreesOver(L, V)
           Up(g, n) == \A m \in 0 .. n : g[m] = IF m = 0 THEN {} ELSE Over(g[m - 1])
           T == {n \in Nat : \E g : Up(g, n)}
<1> HIDE DEF Over
<1>2. 0 \in T
  <2>1. Up([m \in {0} |-> {}], 0)
    OBVIOUS
  <2>. QED BY <2>1
<1>3. ASSUME NEW n \in Nat, n \in T PROVE n + 1 \in T
  <2>1. PICK g : Up(g, n)
    BY <1>3
  <2> DEFINE h == [m \in 0 .. n + 1 |-> IF m = 0 THEN {} ELSE Over(g[m - 1])]
  <2>2. \A m \in 0 .. n : h[m] = g[m]
    BY <2>1
  <2>3. \A m \in 0 .. n + 1 : m # 0 => m - 1 \in 0 .. n
    OBVIOUS
  <2>4. \A m \in 0 .. n + 1 : h[m] = IF m = 0 THEN {} ELSE Over(h[m - 1])
    BY <2>2, <2>3
  <2>5. Up(h, n + 1)
    BY <2>4
  <2> HIDE DEF h, Up
  <2>. QED BY <2>5
<1>4. Nat \subseteq T
  <2> HIDE DEF T
  <2>. QED BY <1>2, <1>3, CountingInduction
<1> DEFINE h == [n \in Nat |-> CHOOSE g : Up(g, n)]
           W == [n \in Nat |-> h[n][n]]
<1>5. ASSUME NEW n \in Nat PROVE Up(h[n], n)
  <2>1. \E g : Up(g, n)
    BY <1>4
  <2> HIDE DEF Up
  <2>. QED BY <2>1
<1> HIDE DEF h
<1>6. ASSUME NEW m \in Nat, NEW n \in Nat
      PROVE  \A k \in Nat : k <= m /\ k <= n => h[m][k] = h[n][k]
  <2> DEFINE U == {k \in Nat : k <= m /\ k <= n => h[m][k] = h[n][k]}
  <2>1. 0 \in U
    <3>1. 0 \in 0 .. m /\ 0 \in 0 .. n
      OBVIOUS
    <3>. QED BY <1>5, <3>1
  <2>2. ASSUME NEW k \in Nat, k \in U PROVE k + 1 \in U
    <3> SUFFICES ASSUME k + 1 <= m, k + 1 <= n PROVE h[m][k + 1] = h[n][k + 1]
      OBVIOUS
    <3>1. h[m][k] = h[n][k]
      BY <2>2
    <3>2. k + 1 \in 0 .. m /\ k + 1 \in 0 .. n /\ k + 1 # 0 /\ (k + 1) - 1 = k
      OBVIOUS
    <3>3. h[m][k + 1] = Over(h[m][k]) /\ h[n][k + 1] = Over(h[n][k])
      BY <1>5, <3>2
    <3>. QED BY <3>1, <3>3
  <2>3. Nat \subseteq U
    <3> HIDE DEF U
    <3>. QED BY <2>1, <2>2, CountingInduction
  <2>. QED BY <2>3
<1>7. W[0] = {}
  <2>1. 0 \in 0 .. 0
    OBVIOUS
  <2>. QED BY <1>5, <2>1
<1>8. ASSUME NEW n \in Nat PROVE W[n + 1] = Over(W[n])
  <2>1. n + 1 \in Nat /\ n + 1 \in 0 .. n + 1 /\ n + 1 # 0 /\ (n + 1) - 1 = n
    OBVIOUS
  <2>2. h[n + 1][n + 1] = Over(h[n + 1][n])
    BY <1>5, <2>1
  <2>3. h[n + 1][n] = h[n][n]
    BY <1>6, <2>1
  <2>. QED BY <2>1, <2>2, <2>3
<1> HIDE DEF W
<1> DEFINE v(n) == IF n = 0 THEN {} ELSE Over(W[n - 1])
<1>9. ASSUME NEW n \in Nat PROVE W[n] = v(n)
  <2>1. CASE n = 0
    BY <1>7, <2>1
  <2>2. CASE n # 0
    <3>1. n - 1 \in Nat /\ (n - 1) + 1 = n
      BY <2>2
    <3>. QED BY <1>8, <2>2, <3>1
  <2>. QED BY <2>1, <2>2
<1>10. W = [n \in Nat |-> W[n]]
  BY DEF W
<1>11. W = [n \in Nat |-> v(n)]
  <2> HIDE DEF v
  <2>. QED BY <1>9, <1>10
<1>. QED BY <1>11 DEF ByHeight, Over

(* Each stage is made of the one before,                                   *)
LEMMA NextStage ==
  ASSUME NEW L, NEW W, ByHeight(W, L), NEW n \in Nat
  PROVE  W[0] = {} /\ W[n + 1] = TreesOver(L, W[n])
<1> DEFINE v(k) == IF k = 0 THEN {} ELSE TreesOver(L, W[k - 1])
<1>1. W = [k \in Nat |-> v(k)]
  BY DEF ByHeight
<1>2. ASSUME NEW k \in Nat PROVE W[k] = v(k)
  <2> HIDE DEF v
  <2>. QED BY <1>1
<1>3. n + 1 \in Nat /\ n + 1 # 0 /\ (n + 1) - 1 = n
  OBVIOUS
<1>. QED BY <1>2, <1>3

(* and has it,                                                             *)
LEMMA StagesGrow ==
  ASSUME NEW L, NEW W, ByHeight(W, L)
  PROVE  \A m, n \in Nat : m <= n => W[m] \subseteq W[n]
<1> DEFINE Over(V) == TreesOver(L, V)
<1>1. ASSUME NEW A, NEW B, A \subseteq B PROVE Over(A) \subseteq Over(B)
  <2>1. Seq(A) \subseteq Seq(B)
    BY <1>1, WiderStack
  <2>. QED BY <2>1 DEF TreesOver
<1>7. W[0] = {}
  BY NextStage
<1>8. ASSUME NEW n \in Nat PROVE W[n + 1] = Over(W[n])
  BY NextStage
<1> HIDE DEF Over
<1>9. ASSUME NEW n \in Nat PROVE W[n] \subseteq W[n + 1]
  <2> DEFINE U == {k \in Nat : W[k] \subseteq W[k + 1]}
  <2>1. 0 \in U
    BY <1>7
  <2>2. ASSUME NEW k \in Nat, k \in U PROVE k + 1 \in U
    <3>1. k + 1 \in Nat /\ W[k] \subseteq W[k + 1]
      BY <2>2
    <3>2. W[k + 1] = Over(W[k]) /\ W[(k + 1) + 1] = Over(W[k + 1])
      BY <1>8, <3>1
    <3>. QED BY <1>1, <3>1, <3>2
  <2>3. Nat \subseteq U
    <3> HIDE DEF U
    <3>. QED BY <2>1, <2>2, CountingInduction
  <2>. QED BY <2>3
<1>10. ASSUME NEW m \in Nat, NEW n \in Nat, m <= n PROVE W[m] \subseteq W[n]
  <2> DEFINE U == {k \in Nat : W[m] \subseteq W[m + k]}
  <2>1. 0 \in U
    <3>1. m + 0 = m
      OBVIOUS
    <3>. QED BY <3>1
  <2>2. ASSUME NEW k \in Nat, k \in U PROVE k + 1 \in U
    <3>1. m + k \in Nat /\ m + (k + 1) = (m + k) + 1
      OBVIOUS
    <3>2. W[m + k] \subseteq W[m + (k + 1)]
      BY <1>9, <3>1
    <3>. QED BY <2>2, <3>2
  <2>3. Nat \subseteq U
    <3> HIDE DEF U
    <3>. QED BY <2>1, <2>2, CountingInduction
  <2>4. n - m \in Nat /\ m + (n - m) = n
    BY <1>10
  <2>5. n - m \in U
    BY <2>3, <2>4
  <2>. QED BY <2>4, <2>5
<1>. QED BY <1>10

(* so there is a set with all of them.                                     *)
LEMMA StagesClosed ==
  ASSUME NEW L, NEW W, ByHeight(W, L), NEW V, V = UNION {W[n] : n \in Nat}
  PROVE  [of : L, children : Seq(V)] \subseteq V
<1> DEFINE Over(A) == TreesOver(L, A)
<1>8. ASSUME NEW n \in Nat PROVE W[n + 1] = Over(W[n])
  BY NextStage
<1>10. ASSUME NEW m \in Nat, NEW n \in Nat, m <= n PROVE W[m] \subseteq W[n]
  BY <1>10, StagesGrow
<1> HIDE DEF Over
<1>11. ASSUME NEW t \in Over(V) PROVE t \in V
  <2>1. t = [of |-> t.of, children |-> t.children] /\ t.of \in L /\ t.children \in Seq(V)
    BY DEF Over, TreesOver
  <2> DEFINE c == t.children
             stage == [i \in 1 .. Len(c) |-> CHOOSE n \in Nat : c[i] \in W[n]]
  <2>2. Len(c) \in Nat /\ c = [i \in 1 .. Len(c) |-> c[i]]
    BY <2>1
  <2>3. ASSUME NEW i \in 1 .. Len(c) PROVE stage[i] \in Nat /\ c[i] \in W[stage[i]]
    <3>1. c[i] \in V
      BY <2>1, ElementOfSeq
    <3>. QED BY <3>1
  <2>4. stage \in Seq(Nat) /\ Len(stage) = Len(c)
    <3> DEFINE first(i) == CHOOSE n \in Nat : c[i] \in W[n]
    <3>1. \A i \in 1 .. Len(c) : first(i) \in Nat
      BY <2>3
    <3> HIDE DEF first, c
    <3>2. [i \in 1 .. Len(c) |-> first(i)] \in Seq(Nat) /\ Len([i \in 1 .. Len(c) |-> first(i)]) = Len(c)
      BY <2>2, <3>1
    <3>. QED BY <3>2 DEF first
  <2> HIDE DEF stage
  <2>5. PICK b \in Nat : \A i \in 1 .. Len(c) : stage[i] <= b
    BY <2>4, SequenceBounded
  <2>6. \A i \in 1 .. Len(c) : c[i] \in W[b]
    BY <1>10, <2>3, <2>5
  <2>7. c \in Seq(W[b])
    <3> HIDE DEF c
    <3>. QED BY <2>2, <2>6
  <2>8. t \in Over(W[b])
    BY <2>1, <2>7 DEF Over, TreesOver
  <2>9. b + 1 \in Nat /\ t \in W[b + 1]
    BY <1>8, <2>8
  <2>. QED BY <2>9
<1>12. [of : L, children : Seq(V)] \subseteq V
  BY <1>11 DEF Over, TreesOver
<1>. QED BY <1>12

(* In short:                                                               *)
LEMMA TreesExist ==
  ASSUME NEW L
  PROVE  \E V : [of : L, children : Seq(V)] \subseteq V
<1>1. PICK W : ByHeight(W, L)
  BY TreeStages
<1> DEFINE V == UNION {W[n] : n \in Nat}
<1>2. V = UNION {W[n] : n \in Nat}
  OBVIOUS
<1> HIDE DEF V
<1>3. [of : L, children : Seq(V)] \subseteq V
  BY <1>1, <1>2, StagesClosed
<1>. QED BY <1>3

(* In particular, there is a function that gives every element of D its    *)
(* tree.                                                                   *)
IsTree(t, l, c) == t = [of |-> l, children |-> c]

TreeOf(f, d, l, V, below) ==
  \E c \in Seq(V) :
    /\ Len(c) = Len(below[d])
    /\ \A i \in 1 .. Len(below[d]) : c[i] = f[below[d][i]]
    /\ IsTree(f[d], l, c)

Trees(f, D, label, V, below) == \A d \in D : TreeOf(f, d, label[d], V, below)

LEMMA TreeRecursion ==
  ASSUME NEW D, NEW L, NEW label \in [D -> L], NEW rank \in [D -> Nat],
         NEW below \in [D -> Seq(D)], Descends(D, rank, below)
  PROVE  \E V : \E f \in [D -> V] : Trees(f, D, label, V, below)
<1>1. PICK V : [of : L, children : Seq(V)] \subseteq V
  BY TreesExist
<1> DEFINE step == [x \in D \X Seq(V) |-> [of |-> label[x[1]], children |-> x[2]]]
<1>2. step \in [D \X Seq(V) -> V]
  <2>1. ASSUME NEW x \in D \X Seq(V)
        PROVE  [of |-> label[x[1]], children |-> x[2]] \in V
    <3>1. x[1] \in D /\ x[2] \in Seq(V)
      OBVIOUS
    <3>2. [of |-> label[x[1]], children |-> x[2]] \in [of : L, children : Seq(V)]
      BY <3>1
    <3>. QED BY <1>1, <3>2
  <2>. QED BY <2>1
<1>3. \A d \in D, c \in Seq(V) : IsTree(step[<< d, c >>], label[d], c)
  BY DEF IsTree
<1> HIDE DEF step
<1>4. PICK f \in [D -> V] : Follows(f, D, V, below, step)
  BY <1>2, RankRecursion
<1>5. ASSUME NEW d \in D PROVE TreeOf(f, d, label[d], V, below)
  <2>1. PICK c \in Seq(V) : MadeFrom(f, d, c, below, step)
    BY <1>4 DEF Follows
  <2>. QED BY <1>3, <2>1 DEF MadeFrom, TreeOf
<1>6. Trees(f, D, label, V, below)
  BY <1>5 DEF Trees
<1>. QED BY <1>6

(* Nodes as such a set: a class nests deeper than its children's classes.  *)
LevelOf == [n \in Node |-> Level[TypeOf[n]]]

LEMMA LevelDecreases ==
  /\ LevelOf \in [Node -> Nat]
  /\ \A n \in Node : \A i \in 1 .. Len(Child[n]) :
       Child[n][i] \in Node /\ LevelOf[Child[n][i]] < LevelOf[n]
<1>1. Child \in [Node -> Seq(Node)] /\ TypeOf \in [Node -> Type] /\ Level \in [Type -> Nat]
  BY TreeAssumption DEF NodeAssumption
<1>2. LevelOf \in [Node -> Nat]
  BY <1>1 DEF LevelOf
<1>3. ASSUME NEW n \in Node, NEW i \in 1 .. Len(Child[n])
      PROVE  Child[n][i] \in Node /\ LevelOf[Child[n][i]] < LevelOf[n]
  <2>1. Child[n] \in Seq(Node)
    BY <1>1
  <2>2. Child[n][i] \in Node
    BY <2>1, ElementOfSeq
  <2>3. Level[TypeOf[Child[n][i]]] < Level[TypeOf[n]]
    BY TreeAssumption DEF NestingAssumption
  <2>. QED BY <2>2, <2>3 DEF LevelOf
<1>. QED BY <1>2, <1>3

-----------------------------------------------------------------------------
(* A depth-first visit, told from a call stack.  The stack is seen as the  *)
(* spots where its activations stand: a position, open once its children   *)
(* are being visited, and the child that is next or, in an activation that *)
(* waits, being visited.  h is what the nodes hold, acc the accepted pairs *)
(* of classes, O and C are the positions entered and left so far.          *)
Spot == [path : TreePath, node : Node, i : Nat, open : BOOLEAN]

Place(p) == [path |-> p.path, node |-> p.node]

ChildPlace(h, p, i) == [path |-> push_back(p.path, i), node |-> h[p.node][i + 1]]

WantedBy(h, acc, p) ==
  {i \in 0 .. Len(h[p.node]) - 1 : << TypeOf[p.node], TypeOf[h[p.node][i + 1]] >> \in acc}

(* A position the visit has met: on the stack, or below a child that an    *)
(* activation is done with.                                                *)
BehindAt(x, s, k) ==
  \/ s[k].open /\ x.path = s[k].path
  \/ /\ k <= Len(x.path)
     /\ \A j \in 1 .. k - 1 : x.path[j] = s[j].i
     /\ x.path[k] < s[k].i

Behind(x, s) == \E k \in 1 .. Len(s) : BehindAt(x, s, k)

Nested(h, acc, s) ==
  \A k \in 1 .. Len(s) - 1 : /\ s[k].open /\ s[k].i \in WantedBy(h, acc, s[k])
                             /\ Place(s[k + 1]) = ChildPlace(h, s[k], s[k].i)

Indexed(s) ==
  \A k \in 1 .. Len(s) : /\ Len(s[k].path) = k - 1
                         /\ \A j \in 1 .. k - 1 : s[k].path[j] = s[j].i

Visited(h, acc, s, O, C) ==
  \A k \in 1 .. Len(s) :
    /\ s[k].open => Place(s[k]) \in O \ C
    /\ ~ s[k].open => s[k].i = 0
    /\ \A j \in WantedBy(h, acc, s[k]) : j < s[k].i => ChildPlace(h, s[k], j) \in C

AllBehind(s, X) == s # << >> => \A x \in X : x.path \in TreePath /\ Behind(x, s)

VisitsFrom(r, h, acc, s, O, C) ==
  /\ s \in Seq(Spot)
  /\ s # << >> => s[1].node = r
  /\ Nested(h, acc, s)
  /\ Indexed(s)
  /\ Visited(h, acc, s, O, C)
  /\ AllBehind(s, O \cup C)

(* A position that may be entered now.                                     *)
MayEnter(r, h, acc, e, O, C) ==
  \/ O = {} /\ e = [path |-> << >>, node |-> r]
  \/ \E p \in O \ C : \E i \in WantedBy(h, acc, p) :
       /\ e = ChildPlace(h, p, i)
       /\ \A j \in WantedBy(h, acc, p) : j < i => ChildPlace(h, p, j) \in C

(* The root, or a child of a position entered.                             *)
Adjoins(r, h, acc, e, O) ==
  \/ e = [path |-> << >>, node |-> r]
  \/ \E p \in O : \E i \in WantedBy(h, acc, p) : e = ChildPlace(h, p, i)

LEMMA SpotAt ==
  ASSUME NEW s \in Seq(Spot), NEW k \in 1 .. Len(s)
  PROVE  /\ s[k] \in Spot
         /\ s[k].path \in TreePath /\ s[k].node \in Node
         /\ s[k].i \in Nat /\ s[k].open \in BOOLEAN
<1>1. s[k] \in Spot
  BY ElementOfSeq
<1>. QED BY <1>1 DEF Spot

(* The visit starts at the root;                                           *)
LEMMA VisitStarts ==
  ASSUME NEW r \in Node, NEW h, NEW acc, NEW p \in Spot,
         Place(p) = [path |-> << >>, node |-> r], p.i = 0, ~ p.open
  PROVE  VisitsFrom(r, h, acc, << p >>, {}, {})
<1> DEFINE s == << p >>
<1>1. s \in Seq(Spot) /\ Len(s) = 1 /\ s[1] = p
  OBVIOUS
<1> HIDE DEF s
<1>2. p.path = << >> /\ p.node = r
  BY DEF Place
<1>3. Len(p.path) = 0
  BY <1>2
<1>4. \A k \in 1 .. 1 : k = 1 /\ k - 1 = 0
  OBVIOUS
<1>5. WantedBy(h, acc, p) \subseteq Int /\ \A j \in WantedBy(h, acc, p) : ~ j < 0
  BY DEF WantedBy
<1>6. Nested(h, acc, s) /\ Indexed(s)
  BY <1>1, <1>3, <1>4 DEF Nested, Indexed
<1>7. Visited(h, acc, s, {}, {})
  BY <1>1, <1>4, <1>5 DEF Visited
<1>8. VisitsFrom(r, h, acc, s, {}, {})
  BY <1>1, <1>2, <1>6, <1>7 DEF VisitsFrom, AllBehind
<1>. QED BY <1>8 DEF s

(* Nothing at or below a spot that is not open has been visited, so that   *)
(* it may be entered.                                                      *)
LEMMA NotVisitedYet ==
  ASSUME NEW r, NEW h, NEW acc, NEW s, NEW O, NEW C, VisitsFrom(r, h, acc, s, O, C),
         s # << >>, ~ s[Len(s)].open, NEW x \in O \cup C,
         Len(x.path) >= Len(s) - 1, \A j \in 1 .. Len(s) - 1 : x.path[j] = s[j].i
  PROVE  FALSE
<1>1. s \in Seq(Spot) /\ Len(s) \in 1 .. Len(s) /\ Len(s) \in Nat
  BY EmptySeq DEF VisitsFrom
<1>2. \A k \in 1 .. Len(s) : s[k].i \in Nat
  BY <1>1, SpotAt
<1>3. s[Len(s)].i = 0 /\ x.path \in TreePath /\ Behind(x, s)
  BY <1>1 DEF VisitsFrom, Visited, AllBehind
<1>4. Len(x.path) \in Nat /\ \A k \in 1 .. Len(x.path) : x.path[k] \in Nat
  BY <1>3, ElementOfSeq DEF TreePath
<1>5. ASSUME NEW k \in 1 .. Len(s), s[k].open, x.path = s[k].path
      PROVE  FALSE
  <2>1. Len(x.path) = k - 1
    BY <1>5 DEF VisitsFrom, Indexed
  <2>2. k = Len(s)
    BY <1>1, <2>1
  <2>. QED BY <1>5, <2>2
<1>6. ASSUME NEW k \in 1 .. Len(s), k <= Len(x.path), x.path[k] < s[k].i
      PROVE  FALSE
  <2>1. x.path[k] \in Nat /\ s[k].i \in Nat
    BY <1>1, <1>2, <1>4, <1>6
  <2>2. CASE k = Len(s)
    BY <1>3, <1>6, <2>1, <2>2
  <2>3. CASE k # Len(s)
    <3>1. x.path[k] = s[k].i
      BY <1>1, <2>3
    <3>. QED BY <1>6, <2>1, <3>1
  <2>. QED BY <2>2, <2>3
<1>. QED BY <1>3, <1>5, <1>6 DEF Behind, BehindAt

LEMMA TopMayEnter ==
  ASSUME NEW r, NEW h, NEW acc, NEW s, NEW O, NEW C, VisitsFrom(r, h, acc, s, O, C),
         s # << >>, ~ s[Len(s)].open
  PROVE  /\ MayEnter(r, h, acc, Place(s[Len(s)]), O, C)
         /\ Place(s[Len(s)]) \notin O
         /\ Adjoins(r, h, acc, Place(s[Len(s)]), O)
<1> DEFINE q == s[Len(s)]
<1>1. s \in Seq(Spot) /\ Len(s) \in 1 .. Len(s) /\ Len(s) \in Nat
  BY EmptySeq DEF VisitsFrom
<1>2. Len(q.path) = Len(s) - 1 /\ \A j \in 1 .. Len(s) - 1 : q.path[j] = s[j].i
  BY <1>1 DEF VisitsFrom, Indexed
<1>3. q.path \in TreePath
  BY <1>1, SpotAt
<1> HIDE DEF q
<1>4. Place(q) \notin O
  <2> SUFFICES ASSUME Place(q) \in O PROVE FALSE
    OBVIOUS
  <2> DEFINE x == Place(q)
  <2>1. x.path = q.path
    BY DEF Place
  <2> HIDE DEF x
  <2>2. x \in O \cup C /\ Len(x.path) >= Len(s) - 1 /\ \A j \in 1 .. Len(s) - 1 : x.path[j] = s[j].i
    BY <1>1, <1>2, <2>1 DEF x
  <2>. QED BY <2>2, NotVisitedYet DEF q
<1>5. CASE Len(s) = 1
  <2>1. q.node = r /\ q.path = << >>
    <3>1. Len(q.path) = 0
      BY <1>2, <1>5
    <3>. QED BY <1>3, <1>5, <3>1, EmptySeq DEF VisitsFrom, TreePath, q
  <2>2. O = {}
    <3> SUFFICES ASSUME NEW x \in O PROVE FALSE
      OBVIOUS
    <3>1. Len(x.path) \in Nat
      BY <1>1 DEF VisitsFrom, AllBehind, TreePath
    <3>2. Len(x.path) >= Len(s) - 1 /\ \A j : j \notin 1 .. Len(s) - 1
      BY <1>5, <3>1
    <3>. QED BY <3>2, NotVisitedYet
  <2>. QED BY <1>4, <2>1, <2>2 DEF MayEnter, Adjoins, Place, q
<1>6. CASE Len(s) # 1
  <2> DEFINE k == Len(s) - 1
             p == s[k]
             e == Place(p)
  <2> HIDE DEF p, e
  <2>1. k \in 1 .. Len(s) - 1 /\ k \in 1 .. Len(s) /\ k + 1 = Len(s)
    <3>1. \A n \in Nat : n \in 1 .. n /\ n # 1 =>
            n - 1 \in 1 .. n - 1 /\ n - 1 \in 1 .. n /\ n - 1 + 1 = n
      OBVIOUS
    <3>. QED BY <1>1, <1>6, <3>1
  <2> HIDE DEF k
  <2>2. p.open /\ p.i \in WantedBy(h, acc, p) /\ Place(q) = ChildPlace(h, p, p.i)
    BY <2>1 DEF VisitsFrom, Nested, q, p
  <2>3. e \in O \ C /\ \A j \in WantedBy(h, acc, p) : j < p.i => ChildPlace(h, p, j) \in C
    BY <2>1, <2>2 DEF VisitsFrom, Visited, p, e
  <2>4. WantedBy(h, acc, e) = WantedBy(h, acc, p) /\ \A j : ChildPlace(h, e, j) = ChildPlace(h, p, j)
    BY DEF WantedBy, ChildPlace, Place, e
  <2>5. MayEnter(r, h, acc, Place(q), O, C)
    BY <2>2, <2>3, <2>4 DEF MayEnter
  <2>. QED BY <1>4, <2>2, <2>3, <2>4, <2>5 DEF Adjoins, q
<1>. QED BY <1>5, <1>6

(* a position is entered;                                                  *)
LEMMA VisitEnters ==
  ASSUME NEW r, NEW h, NEW acc, NEW s, NEW O, NEW C, VisitsFrom(r, h, acc, s, O, C),
         s # << >>, ~ s[Len(s)].open, NEW p \in Spot,
         Place(p) = Place(s[Len(s)]), p.i = 0, p.open
  PROVE  VisitsFrom(r, h, acc, [s EXCEPT ![Len(s)] = p], O \cup {Place(p)}, C)
<1> DEFINE q == s[Len(s)]
           t == [s EXCEPT ![Len(s)] = p]
           e == Place(p)
<1>1. s \in Seq(Spot) /\ Len(s) \in 1 .. Len(s) /\ Len(s) \in Nat
  BY EmptySeq DEF VisitsFrom
<1>2. /\ t \in Seq(Spot) /\ Len(t) = Len(s) /\ t # << >> /\ t[Len(s)] = p
      /\ \A k \in 1 .. Len(s) - 1 : t[k] = s[k]
  BY <1>1, ReplaceTop
<1> HIDE DEF t
<1>3. p.path = q.path /\ p.node = q.node /\ q.i = 0
  BY <1>1 DEF Place, VisitsFrom, Visited
<1>4. Len(q.path) = Len(s) - 1 /\ \A j \in 1 .. Len(s) - 1 : q.path[j] = s[j].i
  BY <1>1 DEF VisitsFrom, Indexed
<1>5. e \notin O \cup C
  <2> SUFFICES ASSUME e \in O \cup C PROVE FALSE
    OBVIOUS
  <2>1. e.path = q.path
    BY <1>3 DEF Place
  <2> HIDE DEF e, q
  <2>2. Len(e.path) >= Len(s) - 1 /\ \A j \in 1 .. Len(s) - 1 : e.path[j] = s[j].i
    BY <1>1, <1>4, <2>1
  <2>. QED BY <2>2, NotVisitedYet
<1> HIDE DEF e
(* Only the last spot is another one, and only because it is open.         *)
<1>6. ASSUME NEW k \in 1 .. Len(s)
      PROVE  /\ t[k].i = s[k].i /\ t[k].path = s[k].path /\ t[k].node = s[k].node
             /\ Place(t[k]) = Place(s[k])
             /\ s[k].open => t[k] = s[k]
             /\ k # Len(s) => t[k] = s[k]
  <2>1. CASE k = Len(s)
    BY <1>2, <1>3, <2>1
  <2>2. CASE k # Len(s)
    <3>1. t[k] = s[k]
      BY <1>1, <1>2, <2>2
    <3>. QED BY <3>1
  <2>. QED BY <2>1, <2>2
<1>7. ASSUME NEW k \in 1 .. Len(s)
      PROVE  /\ WantedBy(h, acc, t[k]) = WantedBy(h, acc, s[k])
             /\ \A j : ChildPlace(h, t[k], j) = ChildPlace(h, s[k], j)
  BY <1>6 DEF WantedBy, ChildPlace
<1>8. t[1].node = r
  BY <1>1, <1>6 DEF VisitsFrom
<1>9. Nested(h, acc, t)
  <2> SUFFICES ASSUME NEW k \in 1 .. Len(s) - 1
               PROVE  /\ t[k].open /\ t[k].i \in WantedBy(h, acc, t[k])
                      /\ Place(t[k + 1]) = ChildPlace(h, t[k], t[k].i)
    BY <1>2 DEF Nested
  <2>1. k \in 1 .. Len(s) /\ k + 1 \in 1 .. Len(s)
    BY <1>1
  <2>2. /\ s[k].open /\ s[k].i \in WantedBy(h, acc, s[k])
        /\ Place(s[k + 1]) = ChildPlace(h, s[k], s[k].i)
    BY DEF VisitsFrom, Nested
  <2>. QED BY <1>2, <1>6, <2>1, <2>2
<1>10. Indexed(t)
  <2> SUFFICES ASSUME NEW k \in 1 .. Len(s)
               PROVE  Len(t[k].path) = k - 1 /\ \A j \in 1 .. k - 1 : t[k].path[j] = t[j].i
    BY <1>2 DEF Indexed
  <2>1. Len(s[k].path) = k - 1 /\ \A j \in 1 .. k - 1 : s[k].path[j] = s[j].i
    BY DEF VisitsFrom, Indexed
  <2>2. \A j \in 1 .. k - 1 : j \in 1 .. Len(s)
    BY <1>1
  <2>. QED BY <1>6, <2>1, <2>2
<1>11. Visited(h, acc, t, O \cup {e}, C)
  <2> SUFFICES ASSUME NEW k \in 1 .. Len(s)
               PROVE  /\ t[k].open => Place(t[k]) \in (O \cup {e}) \ C
                      /\ ~ t[k].open => t[k].i = 0
                      /\ \A j \in WantedBy(h, acc, t[k]) :
                           j < t[k].i => ChildPlace(h, t[k], j) \in C
    BY <1>2 DEF Visited
  <2>1. /\ s[k].open => Place(s[k]) \in O \ C
        /\ \A j \in WantedBy(h, acc, s[k]) : j < s[k].i => ChildPlace(h, s[k], j) \in C
    BY DEF VisitsFrom, Visited
  <2>2. \A j \in WantedBy(h, acc, t[k]) : j < t[k].i => ChildPlace(h, t[k], j) \in C
    BY <1>6, <1>7, <2>1
  <2>3. CASE k = Len(s)
    BY <1>2, <1>5, <2>2, <2>3 DEF e
  <2>4. CASE k # Len(s)
    <3>1. t[k] = s[k]
      BY <1>6, <2>4
    <3>2. ~ s[k].open => s[k].i = 0
      BY DEF VisitsFrom, Visited
    <3>. QED BY <2>1, <2>2, <3>1, <3>2
  <2>. QED BY <2>3, <2>4
<1>12. AllBehind(t, (O \cup {e}) \cup C)
  <2> SUFFICES ASSUME NEW x \in (O \cup {e}) \cup C PROVE x.path \in TreePath /\ Behind(x, t)
    BY DEF AllBehind
  <2>1. CASE x = e
    <3>1. x.path = t[Len(s)].path /\ t[Len(s)].open /\ x.path \in TreePath
      BY <1>2, <2>1 DEF e, Place, Spot
    <3>2. BehindAt(x, t, Len(s))
      BY <3>1 DEF BehindAt
    <3>. QED BY <1>1, <1>2, <3>1, <3>2 DEF Behind
  <2>2. CASE x # e
    <3>1. x.path \in TreePath /\ Behind(x, s)
      BY <2>2 DEF VisitsFrom, AllBehind
    <3>2. PICK k \in 1 .. Len(s) : BehindAt(x, s, k)
      BY <3>1 DEF Behind
    <3>3. /\ t[k].path = s[k].path /\ t[k].i = s[k].i
          /\ s[k].open => t[k].open
          /\ \A j \in 1 .. k - 1 : t[j].i = s[j].i
      <4>1. \A j \in 1 .. k - 1 : j \in 1 .. Len(s)
        BY <1>1
      <4>. QED BY <1>6, <4>1
    <3>4. BehindAt(x, t, k)
      BY <3>2, <3>3 DEF BehindAt
    <3>. QED BY <1>2, <3>1, <3>4 DEF Behind
  <2>. QED BY <2>1, <2>2
<1>13. VisitsFrom(r, h, acc, t, O \cup {e}, C)
  BY <1>2, <1>8, <1>9, <1>10, <1>11, <1>12 DEF VisitsFrom
<1>. QED BY <1>13 DEF t, e

(* the visit goes on below it, at a child it wants;                        *)
LEMMA VisitCalls ==
  ASSUME NEW r, NEW h, NEW acc, NEW s, NEW O, NEW C, VisitsFrom(r, h, acc, s, O, C),
         s # << >>, s[Len(s)].open, s[Len(s)].i \in WantedBy(h, acc, s[Len(s)]),
         NEW p \in Spot, Place(p) = ChildPlace(h, s[Len(s)], s[Len(s)].i), p.i = 0, ~ p.open
  PROVE  VisitsFrom(r, h, acc, Append(s, p), O, C)
<1> DEFINE q == s[Len(s)]
           t == Append(s, p)
           n == Len(s) + 1
<1>1. s \in Seq(Spot) /\ Len(s) \in 1 .. Len(s) /\ Len(s) \in Nat
  BY EmptySeq DEF VisitsFrom
<1>2. /\ t \in Seq(Spot) /\ Len(t) = n /\ t # << >> /\ t[n] = p
      /\ \A k \in 1 .. Len(s) : t[k] = s[k]
  BY <1>1, PushTop
<1> HIDE DEF t
<1>3. /\ n \in Nat /\ 1 \in 1 .. Len(s) /\ \A k \in 1 .. n : k \in 1 .. Len(s) \/ k = n
      /\ \A k \in 1 .. Len(s) : k \in 1 .. n /\ k # n
  BY <1>1
<1>4. t[1].node = r
  BY <1>2, <1>3 DEF VisitsFrom
<1>5. Nested(h, acc, t)
  <2> SUFFICES ASSUME NEW k \in 1 .. Len(s)
               PROVE  /\ t[k].open /\ t[k].i \in WantedBy(h, acc, t[k])
                      /\ Place(t[k + 1]) = ChildPlace(h, t[k], t[k].i)
    <3>1. Len(t) - 1 = Len(s)
      BY <1>1, <1>2
    <3>. QED BY <3>1 DEF Nested
  <2>1. CASE k = Len(s)
    BY <1>1, <1>2, <2>1
  <2>2. CASE k # Len(s)
    <3>1. k \in 1 .. Len(s) - 1 /\ k + 1 \in 1 .. Len(s)
      BY <1>1, <2>2
    <3>. QED BY <1>2, <3>1 DEF VisitsFrom, Nested
  <2>. QED BY <2>1, <2>2
<1>6. Indexed(t)
  <2> SUFFICES ASSUME NEW k \in 1 .. n
               PROVE  Len(t[k].path) = k - 1 /\ \A j \in 1 .. k - 1 : t[k].path[j] = t[j].i
    BY <1>2 DEF Indexed
  <2>1. \A j \in 1 .. k - 1 : t[j] = s[j]
    BY <1>1, <1>2
  <2>2. CASE k \in 1 .. Len(s)
    <3>1. Len(s[k].path) = k - 1 /\ \A j \in 1 .. k - 1 : s[k].path[j] = s[j].i
      BY <2>2 DEF VisitsFrom, Indexed
    <3>. QED BY <1>2, <2>1, <2>2, <3>1
  <2>3. CASE k = n
    <3>1. q.path \in TreePath /\ q.i \in Nat
      BY <1>1, SpotAt
    <3>2. Len(q.path) = Len(s) - 1 /\ \A j \in 1 .. Len(s) - 1 : q.path[j] = s[j].i
      BY <1>1 DEF VisitsFrom, Indexed
    <3>3. p.path = Append(q.path, q.i)
      BY DEF Place, ChildPlace, push_back
    <3> HIDE DEF q
    <3>4. /\ Len(p.path) = Len(s) /\ p.path[Len(s)] = q.i
          /\ \A j \in 1 .. Len(s) - 1 : p.path[j] = q.path[j]
      BY <1>1, <3>1, <3>2, <3>3, AppendProperties DEF TreePath
    <3>5. \A j \in 1 .. Len(s) : j = Len(s) \/ j \in 1 .. Len(s) - 1
      BY <1>1
    <3>6. \A j \in 1 .. Len(s) : p.path[j] = s[j].i
      BY <3>2, <3>4, <3>5 DEF q
    <3>7. k - 1 = Len(s)
      BY <1>1, <2>3
    <3>. QED BY <1>2, <2>1, <2>3, <3>4, <3>6, <3>7
  <2>. QED BY <1>3, <2>2, <2>3
<1>7. Visited(h, acc, t, O, C)
  <2> SUFFICES ASSUME NEW k \in 1 .. n
               PROVE  /\ t[k].open => Place(t[k]) \in O \ C
                      /\ ~ t[k].open => t[k].i = 0
                      /\ \A j \in WantedBy(h, acc, t[k]) :
                           j < t[k].i => ChildPlace(h, t[k], j) \in C
    BY <1>2 DEF Visited
  <2>1. CASE k \in 1 .. Len(s)
    <3>1. t[k] = s[k]
      BY <1>2, <2>1
    <3>. QED BY <2>1, <3>1 DEF VisitsFrom, Visited
  <2>2. CASE k = n
    <3>1. WantedBy(h, acc, p) \subseteq Int /\ \A j \in WantedBy(h, acc, p) : ~ j < 0
      BY DEF WantedBy
    <3>. QED BY <1>2, <2>2, <3>1
  <2>. QED BY <1>3, <2>1, <2>2
<1>8. AllBehind(t, O \cup C)
  <2> SUFFICES ASSUME NEW x \in O \cup C PROVE x.path \in TreePath /\ Behind(x, t)
    BY DEF AllBehind
  <2>1. x.path \in TreePath /\ Behind(x, s)
    BY DEF VisitsFrom, AllBehind
  <2>2. PICK k \in 1 .. Len(s) : BehindAt(x, s, k)
    BY <2>1 DEF Behind
  <2>3. k \in 1 .. Len(t) /\ t[k] = s[k] /\ \A j \in 1 .. k - 1 : t[j] = s[j]
    BY <1>1, <1>2, <1>3
  <2>4. BehindAt(x, t, k)
    BY <2>2, <2>3 DEF BehindAt
  <2>. QED BY <2>1, <2>3, <2>4 DEF Behind
<1>9. VisitsFrom(r, h, acc, t, O, C)
  BY <1>2, <1>4, <1>5, <1>6, <1>7, <1>8 DEF VisitsFrom
<1>. QED BY <1>9 DEF t

(* and when everything it wants below a position has been visited, it      *)
(* leaves the position, or has entered and left a leaf, and goes back to   *)
(* the position above.                                                     *)
LEMMA TopMayBeLeft ==
  ASSUME NEW r, NEW h, NEW acc, NEW s, NEW O, NEW C, VisitsFrom(r, h, acc, s, O, C),
         s # << >>, s[Len(s)].open,
         \A j \in WantedBy(h, acc, s[Len(s)]) : j < s[Len(s)].i
  PROVE  /\ Place(s[Len(s)]) \in O \ C
         /\ \A j \in WantedBy(h, acc, Place(s[Len(s)])) :
              ChildPlace(h, Place(s[Len(s)]), j) \in C
<1>1. Len(s) \in 1 .. Len(s)
  BY EmptySeq DEF VisitsFrom
<1> DEFINE q == s[Len(s)]
<1>2. Place(q) \in O \ C /\ \A j \in WantedBy(h, acc, q) : ChildPlace(h, q, j) \in C
  BY <1>1 DEF VisitsFrom, Visited
<1> HIDE DEF q
<1>3. WantedBy(h, acc, Place(q)) = WantedBy(h, acc, q)
      /\ \A j : ChildPlace(h, Place(q), j) = ChildPlace(h, q, j)
  BY DEF WantedBy, ChildPlace, Place
<1>. QED BY <1>2, <1>3 DEF q

LEMMA VisitEnds ==
  ASSUME NEW r, NEW h, NEW acc, NEW O, NEW C
  PROVE  VisitsFrom(r, h, acc, << >>, O, C)
<1>1. << >> \in Seq(Spot) /\ \A k : k \notin 1 .. Len(<< >>) /\ k \notin 1 .. Len(<< >>) - 1
  OBVIOUS
<1>. QED BY <1>1 DEF VisitsFrom, Nested, Indexed, Visited, AllBehind

LEMMA VisitReturns ==
  ASSUME NEW r, NEW h, NEW acc, NEW s, NEW O, NEW C, VisitsFrom(r, h, acc, s, O, C),
         s # << >>, Len(s) # 1,
         NEW p \in Spot, Place(p) = Place(s[Len(s) - 1]), p.open,
         p.i = s[Len(s) - 1].i + 1
  PROVE  VisitsFrom(r, h, acc, [Front(s) EXCEPT ![Len(s) - 1] = p],
                    O \cup {Place(s[Len(s)])}, C \cup {Place(s[Len(s)])})
<1> DEFINE e == Place(s[Len(s)])
           n == Len(s) - 1
           f == Front(s)
           t == [f EXCEPT ![n] = p]
<1>1. s \in Seq(Spot) /\ Len(s) \in 1 .. Len(s) /\ Len(s) \in Nat
  BY EmptySeq DEF VisitsFrom
<1>2. n \in Nat /\ n \in 1 .. n /\ n \in 1 .. Len(s) /\ n + 1 = Len(s) /\ n \in 1 .. Len(s) - 1
  <2>1. \A m \in Nat : m \in 1 .. m /\ m # 1 =>
          /\ m - 1 \in Nat /\ m - 1 \in 1 .. m - 1 /\ m - 1 \in 1 .. m /\ m - 1 + 1 = m
    OBVIOUS
  <2>. QED BY <1>1, <2>1
<1>3. f \in Seq(Spot) /\ Len(f) = n /\ \A k \in 1 .. n : f[k] = s[k]
  BY <1>1, PopTop
<1> HIDE DEF n, f
<1>4. f # << >>
  BY <1>2, <1>3
<1>5. /\ t \in Seq(Spot) /\ Len(t) = n /\ t # << >> /\ t[n] = p
      /\ \A k \in 1 .. n - 1 : t[k] = s[k]
  <2>1. /\ [f EXCEPT ![Len(f)] = p] \in Seq(Spot) /\ Len([f EXCEPT ![Len(f)] = p]) = Len(f)
        /\ [f EXCEPT ![Len(f)] = p] # << >> /\ [f EXCEPT ![Len(f)] = p][Len(f)] = p
        /\ \A k \in 1 .. Len(f) - 1 : [f EXCEPT ![Len(f)] = p][k] = f[k]
    BY <1>3, <1>4, ReplaceTop
  <2>2. \A k \in 1 .. n - 1 : k \in 1 .. n
    BY <1>2
  <2>. QED BY <1>3, <2>1, <2>2
<1> HIDE DEF t, e
<1>6. p.path = s[n].path /\ p.node = s[n].node /\ p.i = s[n].i + 1 /\ s[n].i \in Nat
  BY <1>1, <1>2, SpotAt DEF Place, n
<1>7. /\ s[n].open /\ s[n].i \in WantedBy(h, acc, s[n])
      /\ e = ChildPlace(h, s[n], s[n].i)
  BY <1>2 DEF VisitsFrom, Nested, e
<1>8. ASSUME NEW k \in 1 .. n
      PROVE  /\ t[k].path = s[k].path /\ t[k].node = s[k].node
             /\ Place(t[k]) = Place(s[k]) /\ t[k].open /\ s[k].open
             /\ k # n => t[k] = s[k]
             /\ \A j \in 1 .. k - 1 : t[j] = s[j]
  <2>1. s[k].open
    BY <1>2 DEF VisitsFrom, Nested
  <2>2. \A j \in 1 .. k - 1 : t[j] = s[j]
    BY <1>2, <1>5
  <2>3. CASE k = n
    BY <1>5, <1>6, <2>1, <2>2, <2>3 DEF Place
  <2>4. CASE k # n
    <3>1. t[k] = s[k]
      BY <1>2, <1>5, <2>4
    <3>. QED BY <2>1, <2>2, <3>1
  <2>. QED BY <2>3, <2>4
<1>9. ASSUME NEW k \in 1 .. n
      PROVE  /\ WantedBy(h, acc, t[k]) = WantedBy(h, acc, s[k])
             /\ \A j : ChildPlace(h, t[k], j) = ChildPlace(h, s[k], j)
  BY <1>8 DEF WantedBy, ChildPlace
(* The position left is none of those on the rest of the stack.            *)
<1>10. ASSUME NEW k \in 1 .. n PROVE Place(s[k]) # e
  <2>1. Len(s[k].path) = k - 1 /\ Len(s[Len(s)].path) = Len(s) - 1
    BY <1>1, <1>2 DEF VisitsFrom, Indexed
  <2>2. k - 1 # Len(s) - 1
    BY <1>1, <1>2
  <2>. QED BY <2>1, <2>2 DEF Place, e
<1>11. t[1].node = r
  <2>1. 1 \in 1 .. n
    BY <1>2
  <2>. QED BY <1>8, <2>1 DEF VisitsFrom
<1>12. Nested(h, acc, t)
  <2> SUFFICES ASSUME NEW k \in 1 .. n - 1
               PROVE  /\ t[k].open /\ t[k].i \in WantedBy(h, acc, t[k])
                      /\ Place(t[k + 1]) = ChildPlace(h, t[k], t[k].i)
    BY <1>5 DEF Nested
  <2>1. k \in 1 .. n /\ k + 1 \in 1 .. n /\ k \in 1 .. Len(s) - 1 /\ k # n
    BY <1>1, <1>2
  <2>2. Place(s[k + 1]) = ChildPlace(h, s[k], s[k].i) /\ s[k].i \in WantedBy(h, acc, s[k])
    BY <2>1 DEF VisitsFrom, Nested
  <2>3. t[k] = s[k] /\ Place(t[k + 1]) = Place(s[k + 1]) /\ t[k].open
    BY <1>8, <2>1
  <2>. QED BY <2>2, <2>3
<1>13. Indexed(t)
  <2> SUFFICES ASSUME NEW k \in 1 .. n
               PROVE  Len(t[k].path) = k - 1 /\ \A j \in 1 .. k - 1 : t[k].path[j] = t[j].i
    BY <1>5 DEF Indexed
  <2>1. k \in 1 .. Len(s)
    BY <1>1, <1>2
  <2>2. Len(s[k].path) = k - 1 /\ \A j \in 1 .. k - 1 : s[k].path[j] = s[j].i
    BY <2>1 DEF VisitsFrom, Indexed
  <2>3. t[k].path = s[k].path /\ \A j \in 1 .. k - 1 : t[j] = s[j]
    BY <1>8
  <2>. QED BY <2>2, <2>3
<1>14. Visited(h, acc, t, O \cup {e}, C \cup {e})
  <2> SUFFICES ASSUME NEW k \in 1 .. n
               PROVE  /\ Place(t[k]) \in (O \cup {e}) \ (C \cup {e})
                      /\ \A j \in WantedBy(h, acc, t[k]) :
                           j < t[k].i => ChildPlace(h, t[k], j) \in C \cup {e}
    BY <1>5, <1>8 DEF Visited
  <2>1. k \in 1 .. Len(s)
    BY <1>1, <1>2
  <2>2. /\ Place(s[k]) \in O \ C
        /\ \A j \in WantedBy(h, acc, s[k]) : j < s[k].i => ChildPlace(h, s[k], j) \in C
    BY <1>8, <2>1 DEF VisitsFrom, Visited
  <2>3. Place(t[k]) \in (O \cup {e}) \ (C \cup {e})
    BY <1>8, <1>10, <2>2
  <2>4. CASE k # n
    BY <1>8, <1>9, <2>2, <2>3, <2>4
  <2>5. CASE k = n
    <3> SUFFICES ASSUME NEW j \in WantedBy(h, acc, s[n]), j < s[n].i + 1
                 PROVE  ChildPlace(h, s[n], j) \in C \cup {e}
      BY <1>5, <1>6, <1>9, <2>3, <2>5
    <3>1. j \in Int
      BY DEF WantedBy
    <3>2. j < s[n].i \/ j = s[n].i
      BY <1>6, <3>1
    <3>. QED BY <1>7, <2>2, <2>5, <3>2
  <2>. QED BY <2>4, <2>5
<1>15. AllBehind(t, (O \cup {e}) \cup (C \cup {e}))
  <2> SUFFICES ASSUME NEW x \in O \cup C \cup {e} PROVE x.path \in TreePath /\ Behind(x, t)
    BY DEF AllBehind
  <2>1. Len(s[n].path) = n - 1 /\ \A j \in 1 .. n - 1 : s[n].path[j] = s[j].i
    BY <1>2 DEF VisitsFrom, Indexed
  (* At or below the position left is below the position above it.         *)
  <2>2. ASSUME x.path \in TreePath, Len(x.path) >= n, \A j \in 1 .. n : x.path[j] = s[j].i
        PROVE  Behind(x, t)
    <3>1. x.path[n] < t[n].i
      BY <1>2, <1>5, <1>6, <2>2
    <3>2. \A j \in 1 .. n - 1 : j \in 1 .. n
      BY <1>2
    <3>3. \A j \in 1 .. n - 1 : x.path[j] = t[j].i
      BY <1>5, <2>2, <3>2
    <3>4. BehindAt(x, t, n)
      BY <2>2, <3>1, <3>3 DEF BehindAt
    <3>. QED BY <1>2, <1>5, <3>4 DEF Behind
  <2>3. /\ s[Len(s)].path \in TreePath /\ Len(s[Len(s)].path) = n
        /\ \A j \in 1 .. n : s[Len(s)].path[j] = s[j].i
    BY <1>1, SpotAt DEF VisitsFrom, Indexed, n
  <2>4. CASE x = e
    <3>1. x.path = s[Len(s)].path
      BY <2>4 DEF e, Place
    <3>2. Len(x.path) >= n
      BY <1>2, <2>3, <3>1
    <3>. QED BY <2>2, <2>3, <3>1, <3>2
  <2>5. CASE x # e
    <3>1. x.path \in TreePath /\ Behind(x, s)
      BY <2>5 DEF VisitsFrom, AllBehind
    <3>2. PICK k \in 1 .. Len(s) : BehindAt(x, s, k)
      BY <3>1 DEF Behind
    <3>3. CASE k \in 1 .. n /\ k # n
      <4>1. t[k] = s[k] /\ \A j \in 1 .. k - 1 : t[j] = s[j]
        BY <1>8, <3>3
      <4>2. BehindAt(x, t, k)
        BY <3>2, <4>1 DEF BehindAt
      <4>. QED BY <1>5, <3>1, <3>3, <4>2 DEF Behind
    <3>4. CASE k = n
      <4>1. CASE x.path = s[n].path
        <5>1. x.path = t[n].path /\ t[n].open
          BY <1>2, <1>8, <4>1
        <5>2. BehindAt(x, t, n)
          BY <5>1 DEF BehindAt
        <5>. QED BY <1>2, <1>5, <3>1, <5>2 DEF Behind
      <4>2. CASE /\ n <= Len(x.path) /\ \A j \in 1 .. n - 1 : x.path[j] = s[j].i
                 /\ x.path[n] < s[n].i
        <5>1. Len(x.path) \in Nat /\ n \in 1 .. Len(x.path)
          BY <1>2, <3>1, <4>2 DEF TreePath
        <5>2. x.path[n] \in Nat
          BY <3>1, <5>1, ElementOfSeq DEF TreePath
        <5>3. x.path[n] < t[n].i
          BY <1>5, <1>6, <4>2, <5>2
        <5>4. BehindAt(x, t, n)
          BY <1>5, <4>2, <5>3 DEF BehindAt
        <5>. QED BY <1>2, <1>5, <3>1, <5>4 DEF Behind
      <4>. QED BY <3>2, <3>4, <4>1, <4>2 DEF BehindAt
    <3>5. CASE k = Len(s)
      <4>1. Len(x.path) \in Nat
        BY <3>1 DEF TreePath
      <4>2. CASE x.path = s[Len(s)].path
        <5>1. Len(x.path) >= n
          BY <1>2, <2>3, <4>2
        <5>. QED BY <2>2, <2>3, <3>1, <4>2, <5>1
      <4>3. CASE Len(s) <= Len(x.path) /\ \A j \in 1 .. Len(s) - 1 : x.path[j] = s[j].i
        <5>1. Len(x.path) >= n
          BY <1>2, <4>1, <4>3
        <5>2. Len(s) - 1 = n
          BY DEF n
        <5>. QED BY <2>2, <3>1, <4>3, <5>1, <5>2
      <4>. QED BY <3>2, <3>5, <4>2, <4>3 DEF BehindAt
    <3>6. (k \in 1 .. n /\ k # n) \/ k = n \/ k = Len(s)
      BY <1>1, <1>2
    <3>. QED BY <3>3, <3>4, <3>5, <3>6
  <2>. QED BY <2>4, <2>5
<1>16. VisitsFrom(r, h, acc, t, O \cup {e}, C \cup {e})
  BY <1>5, <1>11, <1>12, <1>13, <1>14, <1>15 DEF VisitsFrom
<1>. QED BY <1>16 DEF t, e, f, n

-----------------------------------------------------------------------------
(* A function of the first numbers, made value by value from the one before.*)
Steps(g, base, step, n) ==
  g[0] = base /\ \A k \in 1 .. n : g[k] = step[<< k, g[k - 1] >>]

LEMMA StepsExist ==
  ASSUME NEW V, NEW base \in V, NEW n \in Nat, NEW step \in [(1 .. n) \X V -> V]
  PROVE  \E g \in [0 .. n -> V] : Steps(g, base, step, n)
<1> DEFINE more == [x \in Nat \X V |->
                      IF x[1] + 1 \in 1 .. n THEN step[<< x[1] + 1, x[2] >>] ELSE x[2]]
<1>1. more \in [Nat \X V -> V]
  <2> SUFFICES ASSUME NEW x \in Nat \X V
               PROVE  (IF x[1] + 1 \in 1 .. n THEN step[<< x[1] + 1, x[2] >>] ELSE x[2]) \in V
    OBVIOUS
  <2>1. x[1] \in Nat /\ x[2] \in V
    OBVIOUS
  <2>2. ASSUME x[1] + 1 \in 1 .. n PROVE step[<< x[1] + 1, x[2] >>] \in V
    <3>1. << x[1] + 1, x[2] >> \in (1 .. n) \X V
      BY <2>1, <2>2
    <3>. QED BY <3>1
  <2>. QED BY <2>1, <2>2
<1> HIDE DEF more
<1>2. PICK f \in [Nat -> V] : Counts(f, base, more)
  BY <1>1, CountingRecursion
<1> DEFINE g == [k \in 0 .. n |-> f[k]]
<1>3. \A k \in 0 .. n : k \in Nat /\ g[k] = f[k]
  OBVIOUS
<1>4. g \in [0 .. n -> V]
  BY <1>3
<1>5. g[0] = base
  <2>1. 0 \in 0 .. n
    OBVIOUS
  <2>. QED BY <1>2, <1>3, <2>1 DEF Counts
<1> HIDE DEF g
<1>6. ASSUME NEW k \in 1 .. n PROVE g[k] = step[<< k, g[k - 1] >>]
  <2>1. PICK m \in Nat : k = m + 1
    <3>1. k - 1 \in Nat /\ k = (k - 1) + 1
      OBVIOUS
    <3>. QED BY <3>1
  <2>2. m \in 0 .. n /\ m + 1 \in 0 .. n /\ m + 1 \in 1 .. n /\ k - 1 = m
    BY <2>1
  <2>3. f[m + 1] = more[<< m, f[m] >>] /\ f[m] \in V
    BY <1>2 DEF Counts
  <2>4. more[<< m, f[m] >>] = step[<< m + 1, f[m] >>]
    BY <2>2, <2>3 DEF more
  <2>. QED BY <1>3, <2>1, <2>2, <2>3, <2>4
<1>. QED BY <1>4, <1>5, <1>6 DEF Steps

-----------------------------------------------------------------------------
(* A function that walks down along a path: it goes on while ok lets it,   *)
(* and last says what it finds at the end.                                 *)
FollowsPath(f, P, last, none, Ok, next) ==
  \A p \in P, path \in TreePath :
    f[<< p, path >>] =
      IF path = << >> THEN last[p]
      ELSE IF << p, Head(path) >> \in Ok
             THEN f[<< next[<< p, Head(path) >>], Tail(path) >>] ELSE none

LEMMA PathTail ==
  ASSUME NEW path \in TreePath, path # << >>
  PROVE  /\ Head(path) \in Nat /\ Tail(path) \in TreePath /\ Head(path) = path[1]
         /\ Len(path) \in Nat \ {0} /\ Len(Tail(path)) = Len(path) - 1
         /\ \A k \in 1 .. Len(path) - 1 : Tail(path)[k] = path[k + 1]
<1>. USE DEF TreePath
<1>1. Len(path) \in Nat \ {0} /\ Head(path) = path[1] /\ Head(path) \in Nat
  BY EmptySeq
<1>2. /\ Tail(path) \in Seq(Nat) /\ Len(Tail(path)) = Len(path) - 1
      /\ \A k \in 1 .. Len(path) - 1 : Tail(path)[k] = path[k + 1]
  BY <1>1
<1>. QED BY <1>1, <1>2

LEMMA WalkRecursion ==
  ASSUME NEW P, NEW V, NEW last \in [P -> V], NEW none \in V, NEW Ok \in SUBSET (P \X Nat),
         NEW next \in [Ok -> P]
  PROVE  \E f \in [P \X TreePath -> V] : FollowsPath(f, P, last, none, Ok, next)
<1> DEFINE D == P \X TreePath
           goes(x) == x[2] # << >> /\ << x[1], Head(x[2]) >> \in Ok
           down(x) == << next[<< x[1], Head(x[2]) >>], Tail(x[2]) >>
           rank == [x \in D |-> Len(x[2])]
           below == [x \in D |-> IF goes(x) THEN << down(x) >> ELSE << >>]
           step == [y \in D \X Seq(V) |->
                      IF y[1][2] = << >> THEN last[y[1][1]]
                      ELSE IF goes(y[1]) /\ Len(y[2]) > 0 THEN y[2][1] ELSE none]
<1>1. ASSUME NEW x \in D
      PROVE  /\ x[1] \in P /\ x[2] \in TreePath /\ rank[x] = Len(x[2]) /\ rank[x] \in Nat
             /\ goes(x) => down(x) \in D /\ rank[down(x)] < rank[x]
  <2>1. x[1] \in P /\ x[2] \in TreePath /\ rank[x] = Len(x[2])
    OBVIOUS
  <2>2. rank[x] \in Nat
    BY <2>1 DEF TreePath
  <2>3. ASSUME goes(x) PROVE down(x) \in D /\ rank[down(x)] < rank[x]
    <3>1. Tail(x[2]) \in TreePath /\ Len(x[2]) \in Nat \ {0} /\ Len(Tail(x[2])) = Len(x[2]) - 1
      BY <2>1, <2>3, PathTail
    <3>2. next[<< x[1], Head(x[2]) >>] \in P
      BY <2>3
    <3> DEFINE q == next[<< x[1], Head(x[2]) >>]
               t == Tail(x[2])
    <3>3. rank[<< q, t >>] = Len(t) /\ << q, t >> \in D
      BY <3>1, <3>2
    <3> HIDE DEF rank, D
    <3>. QED BY <2>1, <3>1, <3>3
  <2> HIDE DEF rank, D, goes, down
  <2>. QED BY <2>1, <2>2, <2>3
<1>2. rank \in [D -> Nat]
  <2>1. \A x \in D : Len(x[2]) \in Nat
    BY DEF TreePath
  <2>. QED BY <2>1
<1>3. ASSUME NEW x \in D
      PROVE  /\ below[x] \in Seq(D)
             /\ goes(x) => Len(below[x]) = 1 /\ below[x][1] = down(x)
             /\ ~ goes(x) => Len(below[x]) = 0
  <2>1. goes(x) => down(x) \in D
    BY <1>1
  <2>2. below[x] = IF goes(x) THEN << down(x) >> ELSE << >>
    OBVIOUS
  <2> HIDE DEF goes, down, below, D
  <2>3. CASE goes(x)
    BY <2>1, <2>2, <2>3
  <2>4. CASE ~ goes(x)
    BY <2>2, <2>4, EmptySeq
  <2>. QED BY <2>3, <2>4
<1>4. below \in [D -> Seq(D)]
  <2> DEFINE v(x) == IF goes(x) THEN << down(x) >> ELSE << >>
  <2>1. below = [x \in D |-> v(x)]
    OBVIOUS
  <2>2. \A x \in D : v(x) \in Seq(D)
    <3>1. \A x \in D : below[x] = v(x)
      BY <2>1
    <3> HIDE DEF below, v, D, goes, down
    <3>. QED BY <1>3, <3>1
  <2> HIDE DEF below, v, D
  <2>. QED BY <2>1, <2>2
<1>5. Descends(D, rank, below)
  <2> SUFFICES ASSUME NEW d \in D, NEW i \in 1 .. Len(below[d])
               PROVE  rank[below[d][i]] < rank[d]
    BY DEF Descends
  <2> HIDE DEF D, rank, below, goes, down
  <2>1. goes(d) /\ i = 1
    <3> DEFINE l == Len(below[d])
               g == goes(d)
    <3>1. (g => l = 1) /\ (~ g => l = 0) /\ i \in 1 .. l
      BY <1>3
    <3> HIDE DEF l, g
    <3>2. g /\ i = 1
      BY <3>1
    <3>. QED BY <3>2 DEF g
  <2>. QED BY <1>1, <1>3, <2>1
<1>6. step \in [D \X Seq(V) -> V]
  <2> SUFFICES ASSUME NEW y \in D \X Seq(V)
               PROVE  (IF y[1][2] = << >> THEN last[y[1][1]]
                       ELSE IF goes(y[1]) /\ Len(y[2]) > 0 THEN y[2][1] ELSE none) \in V
    OBVIOUS
  <2>1. y[1][1] \in P /\ y[2] \in Seq(V)
    OBVIOUS
  <2>2. Len(y[2]) > 0 => y[2][1] \in V
    BY <2>1
  <2> HIDE DEF goes
  <2>. QED BY <2>1, <2>2
<1>7. ASSUME NEW d \in D, NEW c \in Seq(V)
      PROVE  step[<< d, c >>] = IF d[2] = << >> THEN last[d[1]]
                                ELSE IF goes(d) /\ Len(c) > 0 THEN c[1] ELSE none
  OBVIOUS
<1>8. PICK f \in [D -> V] : Follows(f, D, V, below, step)
  <2> HIDE DEF D, rank, below, step
  <2>. QED BY <1>2, <1>4, <1>5, <1>6, RankRecursion
<1>9. ASSUME NEW x \in D
      PROVE  f[x] = IF x[2] = << >> THEN last[x[1]] ELSE IF goes(x) THEN f[down(x)] ELSE none
  <2>1. PICK c \in Seq(V) : MadeFrom(f, x, c, below, step)
    BY <1>8 DEF Follows
  <2>2. goes(x) => x[2] # << >>
    OBVIOUS
  <2> HIDE DEF D, rank, below, step, goes, down
  <2>3. /\ Len(c) = Len(below[x]) /\ f[x] = step[<< x, c >>]
        /\ \A i \in 1 .. Len(below[x]) : c[i] = f[below[x][i]]
    BY <2>1 DEF MadeFrom
  <2>4. CASE goes(x)
    <3>1. Len(c) = 1 /\ c[1] = f[down(x)]
      BY <1>3, <2>3, <2>4
    <3>. QED BY <1>7, <2>2, <2>3, <2>4, <3>1
  <2>5. CASE ~ goes(x)
    BY <1>7, <2>3, <2>5
  <2>. QED BY <2>4, <2>5
<1>10. ASSUME NEW p \in P, NEW path \in TreePath
       PROVE  f[<< p, path >>] =
                IF path = << >> THEN last[p]
                ELSE IF << p, Head(path) >> \in Ok
                       THEN f[<< next[<< p, Head(path) >>], Tail(path) >>] ELSE none
  <2> DEFINE x == << p, path >>
  <2>1. x \in D /\ x[1] = p /\ x[2] = path
    OBVIOUS
  <2>2. goes(x) <=> path # << >> /\ << p, Head(path) >> \in Ok
    BY <2>1
  <2>3. down(x) = << next[<< p, Head(path) >>], Tail(path) >>
    BY <2>1
  <2> HIDE DEF goes, down, x, D
  <2>4. f[x] = IF path = << >> THEN last[p] ELSE IF goes(x) THEN f[down(x)] ELSE none
    BY <1>9, <2>1
  <2>. QED BY <2>2, <2>3, <2>4 DEF x
<1>. QED BY <1>8, <1>10 DEF FollowsPath

LEMMA ChildImplUnfolds ==
  ASSUME NEW n \in Node, NEW path \in TreePath
  PROVE  childImpl[<< n, path >>] =
           IF path = << >> THEN {n}
           ELSE IF checkChildIndex(n, Head(path))
                  THEN childImpl[<< child(n, Head(path)), Tail(path) >>] ELSE {}
<1> DEFINE D == Node \X TreePath
           last == [m \in Node |-> {m}]
           Ok == {x \in Node \X Nat : checkChildIndex(x[1], x[2])}
           next == [x \in Ok |-> child(x[1], x[2])]
           v(g, at) == IF at[2] = << >> THEN {at[1]}
                       ELSE IF checkChildIndex(at[1], Head(at[2]))
                              THEN g[<< child(at[1], Head(at[2])), Tail(at[2]) >>] ELSE {}
<1>1. last \in [Node -> SUBSET Node] /\ {} \in SUBSET Node
  OBVIOUS
<1>2. \A x \in Ok : x[1] \in Node /\ x[2] \in Nat /\ child(x[1], x[2]) \in Node
  BY TreeAssumption DEF NodeAssumption, checkChildIndex, degree, child
<1>3. next \in [Ok -> Node]
  <2> HIDE DEF Ok
  <2>. QED BY <1>2
<1>4. \E f \in [Node \X TreePath -> SUBSET Node] : FollowsPath(f, Node, last, {}, Ok, next)
  <2>1. Ok \in SUBSET (Node \X Nat)
    OBVIOUS
  <2> HIDE DEF last, Ok, next
  <2>. QED BY <1>1, <1>3, <2>1, WalkRecursion
<1>5. PICK f \in [Node \X TreePath -> SUBSET Node] : FollowsPath(f, Node, last, {}, Ok, next)
  BY <1>4
<1>6. ASSUME NEW m \in Node, NEW q \in TreePath
      PROVE  f[<< m, q >>] = IF q = << >> THEN {m}
                             ELSE IF checkChildIndex(m, Head(q))
                                    THEN f[<< child(m, Head(q)), Tail(q) >>] ELSE {}
  <2>1. f[<< m, q >>] = IF q = << >> THEN last[m]
                        ELSE IF << m, Head(q) >> \in Ok
                               THEN f[<< next[<< m, Head(q) >>], Tail(q) >>] ELSE {}
    BY <1>5 DEF FollowsPath
  <2>2. last[m] = {m}
    OBVIOUS
  <2>3. ASSUME q # << >>
        PROVE  /\ << m, Head(q) >> \in Ok <=> checkChildIndex(m, Head(q))
               /\ << m, Head(q) >> \in Ok => next[<< m, Head(q) >>] = child(m, Head(q))
    <3>1. Head(q) \in Nat
      BY <2>3, PathTail
    <3>. QED BY <3>1
  <2> HIDE DEF last, Ok, next
  <2>. QED BY <2>1, <2>2, <2>3
<1>7. f = [at \in D |-> v(f, at)]
  <2>1. ASSUME NEW at \in D PROVE f[at] = v(f, at)
    <3>1. at[1] \in Node /\ at[2] \in TreePath /\ at = << at[1], at[2] >>
      OBVIOUS
    <3> DEFINE m == at[1]
               q == at[2]
    <3>2. f[<< m, q >>] = v(f, at)
      BY <1>6, <3>1
    <3>. QED BY <3>1, <3>2
  <2> HIDE DEF v
  <2>. QED BY <2>1
<1>8. \E g : g = [at \in D |-> v(g, at)]
  BY <1>7
<1>9. childImpl = [at \in D |-> v(childImpl, at)]
  BY <1>8, Zenon DEF childImpl
<1>. QED
  <2> DEFINE at == << n, path >>
             w(x) == v(childImpl, x)
  <2>1. childImpl = [x \in D |-> w(x)]
    BY <1>9
  <2>2. at \in D /\ at[1] = n /\ at[2] = path
    OBVIOUS
  <2> HIDE DEF w, D, at
  <2>3. childImpl[at] = w(at)
    BY <2>1, <2>2
  <2>. QED BY <2>2, <2>3 DEF w, at

(* On the way down along a path.                                           *)
LEMMA LeadsFromChild ==
  ASSUME NEW r \in Node, NEW path \in TreePath, NEW n \in Node, Leads(Child, r, path, n)
  PROVE  /\ path = << >> => r = n
         /\ path # << >> => /\ checkChildIndex(r, Head(path)) /\ child(r, Head(path)) \in Node
                            /\ Leads(Child, child(r, Head(path)), Tail(path), n)
<1>1. PICK walk \in [1 .. Len(path) + 1 -> Node] :
        /\ walk[1] = r /\ walk[Len(path) + 1] = n
        /\ \A k \in 1 .. Len(path) :
             /\ path[k] \in 0 .. Len(Child[walk[k]]) - 1
             /\ walk[k + 1] = Child[walk[k]][path[k] + 1]
  BY DEF Leads
<1>2. ASSUME path = << >> PROVE r = n
  BY <1>1, <1>2
<1>3. ASSUME path # << >>
      PROVE  /\ checkChildIndex(r, Head(path)) /\ child(r, Head(path)) \in Node
             /\ Leads(Child, child(r, Head(path)), Tail(path), n)
  <2> DEFINE l == Len(path)
             t == Tail(path)
             c == child(r, Head(path))
             rest == [k \in 1 .. l |-> walk[k + 1]]
  <2>1. /\ Head(path) = path[1] /\ l \in Nat \ {0} /\ Len(t) = l - 1
        /\ \A k \in 1 .. l - 1 : t[k] = path[k + 1]
    BY <1>3, PathTail
  <2> HIDE DEF t
  <2>2. 1 \in 1 .. l /\ 2 \in 1 .. l + 1 /\ \A k \in 1 .. l : k + 1 \in 1 .. l + 1
    BY <2>1
  <2>3. /\ path[1] \in 0 .. Len(Child[r]) - 1 /\ walk[2] = Child[r][path[1] + 1]
    BY <1>1, <2>2
  <2>4. checkChildIndex(r, Head(path)) /\ c = walk[2] /\ c \in Node
    <3>1. Len(Child[r]) \in Nat
      BY TreeAssumption DEF NodeAssumption
    <3>. QED BY <2>1, <2>2, <2>3, <3>1 DEF checkChildIndex, degree, child
  <2>5. rest \in [1 .. Len(t) + 1 -> Node] /\ rest[1] = c /\ rest[Len(t) + 1] = n
    <3>1. Len(t) + 1 = l /\ l \in 1 .. l
      BY <2>1
    <3>2. rest \in [1 .. l -> Node] /\ rest[1] = walk[2] /\ rest[l] = walk[l + 1]
      BY <2>2, <3>1
    <3>. QED BY <1>1, <2>4, <3>1, <3>2
  <2>6. ASSUME NEW k \in 1 .. Len(t)
        PROVE  /\ t[k] \in 0 .. Len(Child[rest[k]]) - 1
               /\ rest[k + 1] = Child[rest[k]][t[k] + 1]
    <3>1. k \in 1 .. l - 1 /\ k \in 1 .. l /\ k + 1 \in 1 .. l
      BY <2>1
    <3>2. t[k] = path[k + 1] /\ rest[k] = walk[k + 1] /\ rest[k + 1] = walk[k + 1 + 1]
      BY <2>1, <3>1
    <3>. QED BY <1>1, <3>1, <3>2
  <2> HIDE DEF rest, c
  <2>7. Leads(Child, c, t, n)
    BY <2>5, <2>6 DEF Leads
  <2>. QED BY <2>4, <2>7 DEF c, t
<1>. QED BY <1>2, <1>3

(* child(tree, treePath) ends where the path leads.                        *)
LEMMA ChildImplFollows ==
  ASSUME NEW r \in Node, NEW path \in TreePath, NEW n \in Node, Leads(Child, r, path, n)
  PROVE  childImpl[<< r, path >>] = {n}
<1> DEFINE Found(m, q, e) == Leads(Child, m, q, e) => childImpl[<< m, q >>] = {e}
           T == {l \in Nat : \A m \in Node, q \in TreePath, e \in Node : Len(q) = l => Found(m, q, e)}
<1>1. ASSUME NEW l \in Nat, \A k \in Nat : k < l => k \in T PROVE l \in T
  <2> SUFFICES ASSUME NEW m \in Node, NEW q \in TreePath, NEW e \in Node, Len(q) = l,
                      Leads(Child, m, q, e)
               PROVE  childImpl[<< m, q >>] = {e}
    OBVIOUS
  <2>1. CASE q = << >>
    BY <2>1, ChildImplUnfolds, LeadsFromChild
  <2>2. CASE q # << >>
    <3> DEFINE c == child(m, Head(q))
               t == Tail(q)
    <3>1. checkChildIndex(m, Head(q)) /\ c \in Node /\ Leads(Child, c, t, e)
      BY <2>2, LeadsFromChild
    <3>2. t \in TreePath /\ Len(t) \in Nat /\ Len(t) < l
      <4>1. t \in TreePath /\ Len(q) \in Nat \ {0} /\ Len(t) = Len(q) - 1
        BY <2>2, PathTail
      <4> HIDE DEF t
      <4>. QED BY <4>1
    <3>3. childImpl[<< m, q >>] = childImpl[<< c, t >>]
      BY <2>2, <3>1, ChildImplUnfolds
    <3> HIDE DEF c, t
    <3>4. Len(t) \in T
      BY <1>1, <3>2
    <3>5. Found(c, t, e)
      BY <3>1, <3>2, <3>4
    <3>. QED BY <3>1, <3>3, <3>5
  <2>. QED BY <2>1, <2>2
<1>2. Nat \subseteq T
  <2> HIDE DEF T
  <2>. QED BY <1>1, InductionOnSets
<1>3. Len(path) \in T
  <2>1. Len(path) \in Nat
    BY DEF TreePath
  <2> HIDE DEF T
  <2>. QED BY <1>2, <2>1
<1>4. Found(r, path, n)
  <2> HIDE DEF Found
  <2>. QED BY <1>3
<1>. QED BY <1>4

-----------------------------------------------------------------------------
(* FlattenSeq: what is in one of the sequences is in their concatenation.  *)
LEMMA FlattenUnfolds ==
  ASSUME NEW S, NEW ss \in Seq(Seq(S)), ss # << >>
  PROVE  \E g \in [1 .. Len(ss) -> Seq(S)] :
           /\ FlattenSeq(ss) = g[Len(ss)]
           /\ \A i \in 1 .. Len(ss) : g[i] = IF i = 1 THEN ss[i] ELSE g[i - 1] \o ss[i]
<1> DEFINE l == Len(ss)
           v(g, i) == IF i = 1 THEN ss[i] ELSE g[i - 1] \o ss[i]
           step == [x \in Nat \X Seq(S) |->
                      IF x[1] + 1 \in 1 .. l
                        THEN IF x[1] = 0 THEN ss[1] ELSE x[2] \o ss[x[1] + 1]
                        ELSE << >>]
<1>1. l \in Nat \ {0} /\ \A i \in 1 .. l : ss[i] \in Seq(S)
  BY EmptySeq, ElementOfSeq
<1>2. step \in [Nat \X Seq(S) -> Seq(S)]
  <2> SUFFICES ASSUME NEW x \in Nat \X Seq(S)
               PROVE  (IF x[1] + 1 \in 1 .. l
                        THEN IF x[1] = 0 THEN ss[1] ELSE x[2] \o ss[x[1] + 1]
                        ELSE << >>) \in Seq(S)
    OBVIOUS
  <2>1. x[1] \in Nat /\ x[2] \in Seq(S) /\ 1 \in 1 .. l
    BY <1>1
  <2>2. x[1] + 1 \in 1 .. l => ss[x[1] + 1] \in Seq(S)
    BY <1>1
  <2>3. ss[1] \in Seq(S)
    BY <1>1, <2>1
  <2> HIDE DEF l
  <2>. QED BY <2>1, <2>2, <2>3
<1>3. PICK f \in [Nat -> Seq(S)] : Counts(f, << >>, step)
  <2> HIDE DEF step
  <2>1. << >> \in Seq(S)
    OBVIOUS
  <2>. QED BY <1>2, <2>1, CountingRecursion
<1> DEFINE g == [i \in 1 .. l |-> f[i]]
<1>4. g \in [1 .. l -> Seq(S)]
  <2>1. \A i \in 1 .. l : i \in Nat
    OBVIOUS
  <2> HIDE DEF l
  <2>. QED BY <2>1
<1>5. ASSUME NEW i \in 1 .. l PROVE g[i] = v(g, i)
  <2>1. PICK n \in Nat : i = n + 1
    <3>1. i - 1 \in Nat /\ i = (i - 1) + 1
      OBVIOUS
    <3>. QED BY <3>1
  <2>2. f[n + 1] = step[<< n, f[n] >>]
    BY <1>3 DEF Counts
  <2>3. f[n] \in Seq(S) /\ n + 1 \in 1 .. l
    BY <2>1
  <2>4. step[<< n, f[n] >>] = IF n = 0 THEN ss[1] ELSE f[n] \o ss[n + 1]
    BY <2>3
  <2>5. CASE n = 0
    <3>1. g[i] = f[n + 1] /\ i = 1
      BY <2>1, <2>5
    <3> HIDE DEF g, step
    <3>. QED BY <2>2, <2>4, <2>5, <3>1
  <2>6. CASE n # 0
    <3>1. i - 1 = n /\ n \in 1 .. l /\ i # 1
      BY <2>1, <2>3, <2>6
    <3>2. g[i] = f[n + 1] /\ g[i - 1] = f[n]
      BY <2>1, <3>1
    <3> HIDE DEF g, step
    <3>. QED BY <2>1, <2>2, <2>4, <2>6, <3>1, <3>2
  <2>. QED BY <2>5, <2>6
<1>6. g = [i \in 1 .. l |-> v(g, i)]
  <2> DEFINE w(i) == v(g, i)
  <2>1. \A i \in 1 .. l : f[i] = w(i)
    BY <1>5
  <2> HIDE DEF w, l
  <2>2. g = [i \in 1 .. l |-> w(i)]
    BY <2>1
  <2>. QED BY <2>2 DEF w
<1> DEFINE flatten == CHOOSE h : h = [i \in 1 .. l |-> v(h, i)]
<1>7. flatten = [i \in 1 .. l |-> v(flatten, i)]
  <2>1. \E h : h = [i \in 1 .. l |-> v(h, i)]
    BY <1>6
  <2> HIDE DEF v, l
  <2>. QED BY <2>1
<1>8. FlattenSeq(ss) = flatten[l]
  BY <1>1 DEF FlattenSeq
<1> HIDE DEF flatten, l
<1>9. \A i \in 1 .. l : flatten[i] = v(flatten, i)
  <2> DEFINE w(i) == v(flatten, i)
  <2>1. flatten = [i \in 1 .. l |-> w(i)]
    BY <1>7
  <2> HIDE DEF w
  <2>2. \A i \in 1 .. l : flatten[i] = w(i)
    BY <2>1
  <2>. QED BY <2>2 DEF w
<1>10. \A i \in 1 .. l : flatten[i] \in Seq(S)
  <2> DEFINE T == {i \in Nat : i + 1 \in 1 .. l => flatten[i + 1] \in Seq(S)}
  <2>1. 0 \in T
    <3>1. 1 \in 1 .. l
      BY <1>1
    <3>2. flatten[1] = ss[1]
      BY <1>9, <3>1
    <3>. QED BY <1>1, <3>1, <3>2
  <2>2. ASSUME NEW i \in Nat, i \in T PROVE i + 1 \in T
    <3> SUFFICES ASSUME (i + 1) + 1 \in 1 .. l PROVE flatten[(i + 1) + 1] \in Seq(S)
      OBVIOUS
    <3>1. i + 1 \in 1 .. l /\ (i + 1) + 1 # 1 /\ ((i + 1) + 1) - 1 = i + 1
      BY <1>1
    <3>2. flatten[i + 1] \in Seq(S) /\ ss[(i + 1) + 1] \in Seq(S)
      BY <1>1, <2>2, <3>1
    <3>3. flatten[(i + 1) + 1] = flatten[i + 1] \o ss[(i + 1) + 1]
      BY <1>9, <3>1
    <3>. QED BY <3>2, <3>3
  <2>3. Nat \subseteq T
    <3> HIDE DEF T
    <3>. QED BY <2>1, <2>2, CountingInduction
  <2> SUFFICES ASSUME NEW i \in 1 .. l PROVE flatten[i] \in Seq(S)
    OBVIOUS
  <2>4. i - 1 \in Nat /\ (i - 1) + 1 = i
    BY <1>1
  <2>. QED BY <2>3, <2>4
<1>11. flatten \in [1 .. l -> Seq(S)]
  <2> DEFINE w(i) == v(flatten, i)
  <2>1. flatten = [i \in 1 .. l |-> w(i)]
    BY <1>7
  <2>2. \A i \in 1 .. l : w(i) \in Seq(S)
    BY <1>9, <1>10
  <2> HIDE DEF w
  <2>. QED BY <2>1, <2>2
<1>. QED BY <1>8, <1>9, <1>11 DEF l

(* What is in the concatenation, and which sequences it is made of.        *)
LEMMA FlattenHas ==
  ASSUME NEW S, NEW ss \in Seq(Seq(S))
  PROVE  /\ FlattenSeq(ss) \in Seq(S)
         /\ \A x : x \in ToSet(FlattenSeq(ss)) <=> \E i \in 1 .. Len(ss) : x \in ToSet(ss[i])
<1>1. CASE ss = << >>
  <2>1. Len(ss) = 0 /\ FlattenSeq(ss) = << >>
    BY <1>1 DEF FlattenSeq
  <2>2. ToSet(<< >>) = {}
    BY DEF ToSet
  <2>. QED BY <2>1, <2>2
<1>2. CASE ss # << >>
  <2> DEFINE l == Len(ss)
  <2>1. PICK g \in [1 .. l -> Seq(S)] :
           /\ FlattenSeq(ss) = g[l]
           /\ \A i \in 1 .. l : g[i] = IF i = 1 THEN ss[i] ELSE g[i - 1] \o ss[i]
    BY <1>2, FlattenUnfolds
  <2>2. l \in Nat \ {0} /\ l \in 1 .. l /\ \A i \in 1 .. l : ss[i] \in Seq(S)
    BY <1>2, EmptySeq, ElementOfSeq
  <2> HIDE DEF l
  <2> DEFINE Has(n) == \A x : x \in ToSet(g[n]) <=> \E i \in 1 .. n : x \in ToSet(ss[i])
             T == {n \in Nat : n + 1 \in 1 .. l => Has(n + 1)}
  <2>3. 0 \in T
    <3>1. 1 \in 1 .. l
      BY <2>2
    <3>2. g[1] = ss[1]
      BY <2>1, <3>1
    <3>3. Has(1)
      BY <3>2
    <3>. QED BY <3>3
  <2>4. ASSUME NEW n \in Nat, n \in T PROVE n + 1 \in T
    <3> SUFFICES ASSUME (n + 1) + 1 \in 1 .. l PROVE Has((n + 1) + 1)
      OBVIOUS
    <3>1. n + 1 \in 1 .. l /\ (n + 1) + 1 # 1 /\ ((n + 1) + 1) - 1 = n + 1
      BY <2>2
    <3>2. g[(n + 1) + 1] = g[n + 1] \o ss[(n + 1) + 1]
      BY <2>1, <3>1
    <3>3. g[n + 1] \in Seq(S) /\ ss[(n + 1) + 1] \in Seq(S)
      BY <2>1, <2>2, <3>1
    <3>4. ASSUME NEW a \in Seq(S), NEW b \in Seq(S)
          PROVE  \A x : x \in ToSet(a \o b) <=> x \in ToSet(a) \/ x \in ToSet(b)
      <4>1. /\ Len(a) \in Nat /\ Len(b) \in Nat /\ Len(a \o b) = Len(a) + Len(b)
            /\ \A k \in 1 .. Len(a) : (a \o b)[k] = a[k]
            /\ \A k \in 1 .. Len(b) : (a \o b)[Len(a) + k] = b[k]
        OBVIOUS
      <4>2. /\ DOMAIN a = 1 .. Len(a) /\ DOMAIN b = 1 .. Len(b)
            /\ DOMAIN (a \o b) = 1 .. Len(a \o b)
        OBVIOUS
      <4> SUFFICES ASSUME NEW x PROVE x \in ToSet(a \o b) <=> x \in ToSet(a) \/ x \in ToSet(b)
        OBVIOUS
      <4>3. ASSUME x \in ToSet(a \o b) PROVE x \in ToSet(a) \/ x \in ToSet(b)
        <5>1. PICK k \in 1 .. Len(a) + Len(b) : x = (a \o b)[k]
          BY <4>1, <4>2, <4>3 DEF ToSet
        <5>2. CASE k \in 1 .. Len(a)
          BY <4>1, <4>2, <5>1, <5>2 DEF ToSet
        <5>3. CASE k \notin 1 .. Len(a)
          <6>1. PICK j \in 1 .. Len(b) : k = Len(a) + j
            <7>1. k - Len(a) \in 1 .. Len(b) /\ k = Len(a) + (k - Len(a))
              BY <4>1, <5>3
            <7>. QED BY <7>1
          <6>2. x = b[j]
            BY <4>1, <5>1, <6>1
          <6>. QED BY <4>2, <6>2 DEF ToSet
        <5>. QED BY <5>2, <5>3
      <4>4. ASSUME x \in ToSet(a) PROVE x \in ToSet(a \o b)
        <5>1. PICK k \in 1 .. Len(a) : x = a[k]
          BY <4>2, <4>4 DEF ToSet
        <5>2. k \in 1 .. Len(a \o b)
          BY <4>1
        <5>. QED BY <4>1, <4>2, <5>1, <5>2 DEF ToSet
      <4>5. ASSUME x \in ToSet(b) PROVE x \in ToSet(a \o b)
        <5>1. PICK k \in 1 .. Len(b) : x = b[k]
          BY <4>2, <4>5 DEF ToSet
        <5>2. Len(a) + k \in 1 .. Len(a \o b)
          BY <4>1
        <5>. QED BY <4>1, <4>2, <5>1, <5>2 DEF ToSet
      <4>. QED BY <4>3, <4>4, <4>5
    <3>5. \A x : x \in ToSet(g[(n + 1) + 1]) <=> x \in ToSet(g[n + 1]) \/ x \in ToSet(ss[(n + 1) + 1])
      BY <3>2, <3>3, <3>4
    <3>6. Has(n + 1)
      BY <2>4, <3>1
    <3>7. \A i : i \in 1 .. (n + 1) + 1 <=> i \in 1 .. n + 1 \/ i = (n + 1) + 1
      OBVIOUS
    <3>. QED BY <3>5, <3>6, <3>7
  <2>5. Nat \subseteq T
    <3> HIDE DEF T
    <3>. QED BY <2>3, <2>4, CountingInduction
  <2>6. l - 1 \in Nat /\ (l - 1) + 1 = l
    BY <2>2
  <2>7. Has(l)
    BY <2>2, <2>5, <2>6
  <2>. QED BY <2>1, <2>2, <2>7 DEF l
<1>. QED BY <1>1, <1>2

-----------------------------------------------------------------------------
(* leafTreePathTuple is defined by recursion on the nesting of classes.    *)
PlaceLevel == [at \in Node \X TreePath |-> Level[TypeOf[at[1]]]]

TuplesBelow(g, at) ==
  [k \in 1 .. degree(at[1]) |-> g[<< child(at[1], k - 1), push_back(at[2], k - 1) >>]]

LeafTupleStep(g, at) ==
  IF isLeaf(at[1]) THEN << at[2] >> ELSE FlattenSeq(TuplesBelow(g, at))

(* A child is a node, of a smaller level.                                  *)
LEMMA ChildOf ==
  ASSUME NEW n \in Node, NEW k \in 1 .. degree(n)
  PROVE  /\ child(n, k - 1) \in Node /\ k - 1 \in Nat /\ (k - 1) + 1 = k
         /\ child(n, k - 1) = Child[n][k] /\ degree(n) \in Nat
         /\ Level[TypeOf[n]] \in Nat /\ Level[TypeOf[child(n, k - 1)]] \in Nat
         /\ Level[TypeOf[child(n, k - 1)]] < Level[TypeOf[n]]
<1>1. Child[n] \in Seq(Node) /\ degree(n) = Len(Child[n]) /\ degree(n) \in Nat
  BY TreeAssumption DEF NodeAssumption, degree
<1>2. k - 1 \in Nat /\ (k - 1) + 1 = k
  BY <1>1
<1>3. Child[n][k] \in Node /\ child(n, k - 1) = Child[n][k]
  BY <1>1, <1>2, ElementOfSeq DEF child
<1>4. Level[TypeOf[Child[n][k]]] < Level[TypeOf[n]]
  BY <1>1, TreeAssumption DEF NestingAssumption
<1>5. Level[TypeOf[n]] \in Nat /\ Level[TypeOf[Child[n][k]]] \in Nat
  BY <1>3, TreeAssumption DEF NodeAssumption
<1>. QED BY <1>1, <1>2, <1>3, <1>4, <1>5

LEMMA PlaceLevelType == PlaceLevel \in [Node \X TreePath -> Nat]
<1>1. \A at \in Node \X TreePath : Level[TypeOf[at[1]]] \in Nat
  BY TreeAssumption DEF NodeAssumption
<1>. QED BY <1>1 DEF PlaceLevel

(* A child's place is below its parent's.                                  *)
LEMMA PlaceBelow ==
  ASSUME NEW at \in Node \X TreePath, NEW k \in 1 .. degree(at[1])
  PROVE  /\ << child(at[1], k - 1), push_back(at[2], k - 1) >> \in Node \X TreePath
         /\ PlaceLevel[<< child(at[1], k - 1), push_back(at[2], k - 1) >>] < PlaceLevel[at]
<1>1. at[1] \in Node /\ at[2] \in TreePath
  OBVIOUS
<1>2. /\ child(at[1], k - 1) \in Node /\ k - 1 \in Nat
      /\ Level[TypeOf[child(at[1], k - 1)]] < Level[TypeOf[at[1]]]
  BY <1>1, ChildOf
<1>3. push_back(at[2], k - 1) \in TreePath
  BY <1>1, <1>2 DEF push_back, TreePath
<1>. QED BY <1>2, <1>3 DEF PlaceLevel

LEMMA TuplesBelowType ==
  ASSUME NEW g, NEW at \in Node \X TreePath,
         \A k \in 1 .. degree(at[1]) :
           g[<< child(at[1], k - 1), push_back(at[2], k - 1) >>] \in Seq(TreePath)
  PROVE  /\ TuplesBelow(g, at) \in Seq(Seq(TreePath))
         /\ Len(TuplesBelow(g, at)) = degree(at[1])
         /\ LeafTupleStep(g, at) \in Seq(TreePath)
<1>1. at[1] \in Node /\ at[2] \in TreePath
  OBVIOUS
<1> DEFINE n == at[1]
           path == at[2]
           v(k) == g[<< child(n, k - 1), push_back(path, k - 1) >>]
           l == degree(n)
<1>2. l \in Nat
  BY <1>1, TreeAssumption DEF NodeAssumption, degree
<1>3. \A k \in 1 .. l : v(k) \in Seq(TreePath)
  OBVIOUS
<1>4. TuplesBelow(g, at) = [k \in 1 .. l |-> v(k)]
  BY DEF TuplesBelow
<1>5. << path >> \in Seq(TreePath)
  BY <1>1
<1> HIDE DEF v, l
<1>6. TuplesBelow(g, at) \in Seq(Seq(TreePath)) /\ Len(TuplesBelow(g, at)) = l
  BY <1>2, <1>3, <1>4
<1>7. FlattenSeq(TuplesBelow(g, at)) \in Seq(TreePath)
  BY <1>6, FlattenHas
<1>. QED BY <1>5, <1>6, <1>7 DEF LeafTupleStep, l

(* leafTreePathTuple is defined by its own right-hand side, and a sequence *)
(* of paths.                                                               *)
LEMMA LeafTupleUnfolds ==
  /\ leafTreePathTuple \in [Node \X TreePath -> Seq(TreePath)]
  /\ \A at \in Node \X TreePath : leafTreePathTuple[at] = LeafTupleStep(leafTreePathTuple, at)
<1> DEFINE D == Node \X TreePath
           V == Seq(TreePath)
           step == [x \in D \X [D -> V] |-> LeafTupleStep(x[2], x[1])]
<1>1. step \in [D \X [D -> V] -> V]
  <2>1. \A x \in D \X [D -> V] : LeafTupleStep(x[2], x[1]) \in V
    <3> SUFFICES ASSUME NEW x \in D \X [D -> V] PROVE LeafTupleStep(x[2], x[1]) \in V
      OBVIOUS
    <3>1. x[1] \in D /\ x[2] \in [D -> V]
      OBVIOUS
    <3>2. \A k \in 1 .. degree(x[1][1]) :
            x[2][<< child(x[1][1], k - 1), push_back(x[1][2], k - 1) >>] \in V
      BY <3>1, PlaceBelow
    <3>. QED BY <3>1, <3>2, TuplesBelowType
  <2>. QED BY <2>1
<1>2. LooksBelow(step, D, V, PlaceLevel)
  <2> SUFFICES ASSUME NEW d \in D, NEW g \in [D -> V], NEW h \in [D -> V],
                      \A e \in D : PlaceLevel[e] < PlaceLevel[d] => g[e] = h[e]
               PROVE  step[<< d, g >>] = step[<< d, h >>]
    BY DEF LooksBelow
  <2>1. step[<< d, g >>] = LeafTupleStep(g, d) /\ step[<< d, h >>] = LeafTupleStep(h, d)
    OBVIOUS
  <2>2. d[1] \in Node /\ d[2] \in TreePath
    OBVIOUS
  <2>3. ASSUME NEW k \in 1 .. degree(d[1])
        PROVE  g[<< child(d[1], k - 1), push_back(d[2], k - 1) >>]
                 = h[<< child(d[1], k - 1), push_back(d[2], k - 1) >>]
    <3> DEFINE e == << child(d[1], k - 1), push_back(d[2], k - 1) >>
    <3>3. e \in D /\ PlaceLevel[e] < PlaceLevel[d]
      BY PlaceBelow
    <3> HIDE DEF e, D
    <3>4. g[e] = h[e]
      BY <3>3
    <3>. QED BY <3>4 DEF e
  <2>4. TuplesBelow(g, d) = TuplesBelow(h, d)
    BY <2>3 DEF TuplesBelow
  <2> HIDE DEF step
  <2>. QED BY <2>1, <2>4 DEF LeafTupleStep
<1>3. PICK f \in [D -> V] : Obeys(f, D, step)
  <2>1. << >> \in V
    OBVIOUS
  <2> HIDE DEF D, V, step
  <2>2. PlaceLevel \in [D -> Nat]
    BY PlaceLevelType DEF D
  <2>. QED BY <1>1, <1>2, <2>1, <2>2, RecursionFromBelow
<1> DEFINE v(g, at) ==
             LET n == at[1]
                 prefix == at[2]
             IN  IF isLeaf(n)
                   THEN << prefix >>
                   ELSE FlattenSeq([k \in 1 .. degree(n) |->
                          g[<< child(n, k - 1), push_back(prefix, k - 1) >>]])
<1>4. ASSUME NEW g, NEW at PROVE v(g, at) = LeafTupleStep(g, at)
  BY DEF LeafTupleStep, TuplesBelow
<1>5. f = [at \in D |-> v(f, at)]
  <2>1. \A at \in D : f[at] = v(f, at)
    <3> SUFFICES ASSUME NEW at \in D PROVE f[at] = v(f, at)
      OBVIOUS
    <3>1. f[at] = step[<< at, f >>]
      BY <1>3 DEF Obeys
    <3>2. step[<< at, f >>] = LeafTupleStep(f, at)
      OBVIOUS
    <3> HIDE DEF step, v
    <3>. QED BY <1>4, <3>1, <3>2
  <2> HIDE DEF v
  <2>. QED BY <2>1
<1>6. \E g : g = [at \in D |-> v(g, at)]
  BY <1>5
<1>7. leafTreePathTuple = [at \in D |-> v(leafTreePathTuple, at)]
  BY <1>6, Zenon DEF leafTreePathTuple
<1>8. \A at \in D : leafTreePathTuple[at] = LeafTupleStep(leafTreePathTuple, at)
  <2> DEFINE w(at) == v(leafTreePathTuple, at)
  <2>1. leafTreePathTuple = [at \in D |-> w(at)]
    BY <1>7
  <2>2. \A at \in D : w(at) = LeafTupleStep(leafTreePathTuple, at)
    BY <1>4
  <2> HIDE DEF w
  <2>. QED BY <2>1, <2>2
<1>9. \A at \in D : leafTreePathTuple[at] \in V
  <2> DEFINE T == {at \in D : leafTreePathTuple[at] \in V}
  <2>1. ASSUME NEW d \in D, \A e \in D : PlaceLevel[e] < PlaceLevel[d] => e \in T PROVE d \in T
    <3>1. \A k \in 1 .. degree(d[1]) :
            leafTreePathTuple[<< child(d[1], k - 1), push_back(d[2], k - 1) >>] \in V
      BY <2>1, PlaceBelow
    <3>2. LeafTupleStep(leafTreePathTuple, d) \in V
      BY <3>1, TuplesBelowType
    <3>. QED BY <1>8, <3>2
  <2> HIDE DEF T, D
  <2>2. PlaceLevel \in [D -> Nat]
    BY PlaceLevelType DEF D
  <2>3. D \subseteq T
    BY <2>1, <2>2, RankInduction
  <2>. QED BY <2>3 DEF T
<1>10. leafTreePathTuple \in [D -> V]
  <2> DEFINE w(at) == v(leafTreePathTuple, at)
  <2>1. leafTreePathTuple = [at \in D |-> w(at)]
    BY <1>7
  <2>2. \A at \in D : w(at) \in V
    BY <1>4, <1>8, <1>9
  <2> HIDE DEF w
  <2>. QED BY <2>1, <2>2
<1>. QED BY <1>8, <1>10

-----------------------------------------------------------------------------
(* The leafs below the first children of a node.                           *)
FirstTuples(at, g) ==
  /\ g[0] = << >>
  /\ \A i \in 0 .. degree(at[1]) : g[i] \in Seq(TreePath)
  /\ \A i \in 1 .. degree(at[1]) :
       g[i] = g[i - 1] \o leafTreePathTuple[<< child(at[1], i - 1), push_back(at[2], i - 1) >>]
  /\ ~ isLeaf(at[1]) => g[degree(at[1])] = leafTreePathTuple[at]

First(n, path, i) == (CHOOSE g : FirstTuples(<< n, path >>, g))[i]

LEMMA FirstTuplesExist ==
  ASSUME NEW at \in Node \X TreePath
  PROVE  \E g : FirstTuples(at, g)
<1> DEFINE n == at[1]
           ss == TuplesBelow(leafTreePathTuple, at)
           d == degree(n)
           tuple(k) == leafTreePathTuple[<< child(n, k - 1), push_back(at[2], k - 1) >>]
<1>1. /\ n \in Node /\ d \in Nat
      /\ \A k \in 1 .. d : << child(n, k - 1), push_back(at[2], k - 1) >> \in Node \X TreePath
  <2>1. n \in Node
    OBVIOUS
  <2>2. d \in Nat
    BY <2>1, TreeAssumption DEF NodeAssumption, degree
  <2>. QED BY <2>1, <2>2, PlaceBelow
<1>2. \A k \in 1 .. d : tuple(k) \in Seq(TreePath)
  BY <1>1, LeafTupleUnfolds
<1>3. ss \in Seq(Seq(TreePath)) /\ Len(ss) = d /\ ss = [k \in 1 .. d |-> tuple(k)]
  BY <1>2, TuplesBelowType DEF TuplesBelow
<1>4. ~ isLeaf(n) => leafTreePathTuple[at] = FlattenSeq(ss)
  BY LeafTupleUnfolds DEF LeafTupleStep
<1>5. CASE d = 0
  <2> DEFINE g == [k \in {0} |-> << >>]
  <2>1. g[0] = << >> /\ << >> \in Seq(TreePath)
    OBVIOUS
  <2>2. ss = << >>
    BY <1>3, <1>5, EmptySeq
  <2>3. FlattenSeq(ss) = << >>
    BY <2>2 DEF FlattenSeq
  <2>4. 0 .. d = {0} /\ 1 .. d = {}
    BY <1>5
  <2> HIDE DEF g, ss, tuple
  <2>5. FirstTuples(at, g)
    BY <1>4, <1>5, <2>1, <2>3, <2>4 DEF FirstTuples
  <2>. QED BY <2>5
<1>6. CASE d # 0
  <2>1. ss # << >>
    BY <1>3, <1>6
  <2>2. PICK h \in [1 .. d -> Seq(TreePath)] :
           /\ FlattenSeq(ss) = h[d]
           /\ \A i \in 1 .. d : h[i] = IF i = 1 THEN ss[i] ELSE h[i - 1] \o ss[i]
    <3> HIDE DEF ss, d
    <3>1. \E h \in [1 .. Len(ss) -> Seq(TreePath)] :
            /\ FlattenSeq(ss) = h[Len(ss)]
            /\ \A i \in 1 .. Len(ss) : h[i] = IF i = 1 THEN ss[i] ELSE h[i - 1] \o ss[i]
      <4>1. ss \in Seq(Seq(TreePath)) /\ ss # << >>
        BY <1>3, <2>1
      <4>. QED BY <4>1, FlattenUnfolds
    <3>2. Len(ss) = d
      BY <1>3
    <3>. QED BY <3>1, <3>2
  <2>3. \A i \in 1 .. d : ss[i] = tuple(i)
    BY <1>3
  <2> HIDE DEF ss, d, tuple
  <2> DEFINE g == [i \in 0 .. d |-> IF i = 0 THEN << >> ELSE h[i]]
  <2>4. g[0] = << >> /\ \A i \in 1 .. d : g[i] = h[i] /\ h[i] \in Seq(TreePath)
    BY <1>1
  <2>5. \A i \in 0 .. d : i = 0 \/ i \in 1 .. d
    BY <1>1
  <2>6. << >> \in Seq(TreePath)
    OBVIOUS
  <2> HIDE DEF g
  <2>7. \A i \in 0 .. d : g[i] \in Seq(TreePath)
    BY <2>4, <2>5, <2>6
  <2>8. ASSUME NEW i \in 1 .. d PROVE g[i] = g[i - 1] \o tuple(i)
    <3>1. CASE i = 1
      <4>1. i - 1 = 0 /\ h[i] = tuple(i)
        <5>1. i - 1 = 0
          BY <3>1
        <5>2. h[i] = ss[i]
          BY <2>2, <3>1
        <5>. QED BY <2>3, <5>1, <5>2
      <4>2. << >> \o tuple(i) = tuple(i)
        BY <1>2
      <4>. QED BY <2>4, <4>1, <4>2
    <3>2. CASE i # 1
      <4>1. i - 1 \in 1 .. d
        BY <1>1, <3>2
      <4>. QED BY <2>2, <2>3, <2>4, <3>2, <4>1
    <3>. QED BY <3>1, <3>2
  <2>9. d \in 1 .. d
    BY <1>1, <1>6
  <2>10. ~ isLeaf(n) => g[d] = leafTreePathTuple[at]
    BY <1>4, <2>2, <2>4, <2>9
  <2>11. FirstTuples(at, g)
    BY <2>4, <2>7, <2>8, <2>10 DEF FirstTuples, d, tuple
  <2>. QED BY <2>11
<1>. QED BY <1>5, <1>6

LEMMA FirstGrows ==
  ASSUME NEW n \in Node, NEW path \in TreePath
  PROVE  /\ First(n, path, 0) = << >>
         /\ \A i \in 0 .. degree(n) : First(n, path, i) \in Seq(TreePath)
         /\ \A i \in 1 .. degree(n) :
              First(n, path, i) =
                First(n, path, i - 1)
                  \o leafTreePathTuple[<< child(n, i - 1), push_back(path, i - 1) >>]
         /\ ~ isLeaf(n) => First(n, path, degree(n)) = leafTreePathTuple[<< n, path >>]
<1> DEFINE at == << n, path >>
           c == CHOOSE g : FirstTuples(at, g)
<1>1. at \in Node \X TreePath /\ at[1] = n /\ at[2] = path
  OBVIOUS
<1>2. \A i : First(n, path, i) = c[i]
  BY DEF First
<1> HIDE DEF at
<1>3. \E g : FirstTuples(at, g)
  BY <1>1, FirstTuplesExist
<1>4. FirstTuples(at, c)
  BY <1>3
<1> HIDE DEF c
<1>5. leafTreePathTuple[at] = leafTreePathTuple[<< n, path >>]
  BY DEF at
<1>. QED BY <1>1, <1>2, <1>4, <1>5 DEF FirstTuples

-----------------------------------------------------------------------------
(* The activations of a recursive loop over the children of a node: i of   *)
(* them have been called for.                                              *)
LoopFrame == [node : Node, path : TreePath, i : Nat, started : BOOLEAN]

(* A waiting activation has started its loop and made a turn of it, and    *)
(* one that has not started has made none.                                 *)
Looping(s) ==
  \A k \in 1 .. Len(s) : /\ k # Len(s) => s[k].started /\ s[k].i > 0
                         /\ ~ s[k].started => s[k].i = 0

(* The stack is a walk down from the tree, and each waiting activation has *)
(* called for the child before its index.                                  *)
Walks(r, s) ==
  /\ Looping(s)
  /\ \A k \in 1 .. Len(s) : s[k].i <= degree(s[k].node)
  /\ \A k \in 1 .. Len(s) - 1 : /\ s[k + 1].node = child(s[k].node, s[k].i - 1)
                                /\ s[k + 1].path = push_back(s[k].path, s[k].i - 1)
  /\ s # << >> => s[1].node = r /\ s[1].path = << >>

(* The leafs met are those w[k] met before the activation k was made, and  *)
(* those below the children it is done with.                               *)
Enumerates(w, s, met) ==
  /\ w[1] = << >>
  /\ \A k \in 1 .. Len(s) : w[k] \in Seq(TreePath)
  /\ \A k \in 1 .. Len(s) - 1 : w[k + 1] = w[k] \o First(s[k].node, s[k].path, s[k].i - 1)
  /\ met = w[Len(s)] \o First(s[Len(s)].node, s[Len(s)].path, s[Len(s)].i)

Reports(r, s, met) ==
  /\ Walks(r, s)
  /\ s = << >> => met = leafTreePathTuple[<< r, << >> >>]
  /\ s # << >> => \E w : Enumerates(w, s, met)

(* Joining lists of leafs is associative.                                  *)
LEMMA PathsAssociative ==
  ASSUME NEW a \in Seq(TreePath), NEW b \in Seq(TreePath), NEW c \in Seq(TreePath)
  PROVE  (a \o b) \o c = a \o (b \o c)
BY ConcatAssociative

(* An activation returns when the leafs below its node have been met.      *)
LEMMA ReportsReturn ==
  ASSUME NEW r \in Node, NEW s \in Seq(LoopFrame), s # << >>, Walks(r, s),
         NEW w, NEW m0, Enumerates(w, s, m0), NEW met,
         met = w[Len(s)] \o leafTreePathTuple[<< s[Len(s)].node, s[Len(s)].path >>]
  PROVE  Reports(r, Front(s), met)
<1> DEFINE l == Len(s)
           t == Front(s)
<1>1. /\ t \in Seq(LoopFrame) /\ Len(t) = l - 1 /\ l \in Nat \ {0}
      /\ \A k \in 1 .. l - 1 : t[k] = s[k]
  BY PopTop, EmptySeq
<1>2. \A k \in 1 .. l : s[k] \in LoopFrame
  BY ElementOfSeq
<1> HIDE DEF l, t
<1>3. \A k \in 1 .. l - 1 : k \in 1 .. l /\ k # l
  BY <1>1
<1>4. \A k \in 1 .. (l - 1) - 1 : k \in 1 .. l - 1 /\ k + 1 \in 1 .. l - 1
  BY <1>1
<1>5. Looping(t)
  BY <1>1, <1>3 DEF Walks, Looping, l
<1>6. \A k \in 1 .. Len(t) : t[k].i <= degree(t[k].node)
  BY <1>1, <1>3 DEF Walks, l
<1>7. \A k \in 1 .. Len(t) - 1 : /\ t[k + 1].node = child(t[k].node, t[k].i - 1)
                                 /\ t[k + 1].path = push_back(t[k].path, t[k].i - 1)
  BY <1>1, <1>4 DEF Walks, l
<1>8. t # << >> => l - 1 \in 1 .. l - 1 /\ 1 \in 1 .. l - 1
  <2>1. t # << >> => Len(t) # 0
    BY <1>1, EmptySeq
  <2>. QED BY <1>1, <2>1
<1>9. t # << >> => t[1].node = r /\ t[1].path = << >>
  BY <1>1, <1>8 DEF Walks
<1>10. Walks(r, t)
  BY <1>5, <1>6, <1>7, <1>9 DEF Walks
<1>11. ASSUME t = << >> PROVE met = leafTreePathTuple[<< r, << >> >>]
  <2>1. l = 1
    BY <1>1, <1>11
  <2>2. s[l].node = r /\ s[l].path = << >> /\ w[l] = << >>
    BY <2>1 DEF Walks, Enumerates
  <2>3. << r, << >> >> \in Node \X TreePath
    <3>1. << >> \in TreePath
      BY DEF TreePath
    <3>. QED BY <3>1
  <2>4. leafTreePathTuple[<< r, << >> >>] \in Seq(TreePath)
    BY <2>3, LeafTupleUnfolds
  <2>5. << >> \o leafTreePathTuple[<< r, << >> >>] = leafTreePathTuple[<< r, << >> >>]
    BY <2>4
  <2>. QED BY <2>2, <2>5 DEF l
<1>12. ASSUME t # << >> PROVE Enumerates(w, t, met)
  <2> DEFINE f == s[l - 1]
  <2>1. /\ l - 1 \in 1 .. l - 1 /\ l - 1 \in 1 .. l /\ l - 1 # l /\ (l - 1) + 1 = l
        /\ l \in 1 .. l
    BY <1>1, <1>8, <1>12
  <2>2. /\ f.node \in Node /\ f.path \in TreePath /\ f.i \in Nat /\ f.i > 0
        /\ f.i <= degree(f.node)
        /\ s[l].node = child(f.node, f.i - 1) /\ s[l].path = push_back(f.path, f.i - 1)
    <3>1. s[l - 1].i > 0 /\ s[l - 1].i <= degree(s[l - 1].node)
      BY <2>1, ZenonT(60) DEF Walks, Looping, l
    <3>2. /\ s[(l - 1) + 1].node = child(s[l - 1].node, s[l - 1].i - 1)
          /\ s[(l - 1) + 1].path = push_back(s[l - 1].path, s[l - 1].i - 1)
      BY <2>1 DEF Walks, l
    <3>3. s[l - 1] \in LoopFrame
      BY <1>2, <2>1, SMTT(40)
    <3>. QED BY <2>1, <3>1, <3>2, <3>3, SMTT(40) DEF LoopFrame
  <2> DEFINE below == leafTreePathTuple[<< child(f.node, f.i - 1), push_back(f.path, f.i - 1) >>]
             a == First(f.node, f.path, f.i - 1)
             b == First(f.node, f.path, f.i)
  <2>3. w[l] = w[l - 1] \o a /\ w[l - 1] \in Seq(TreePath)
    BY <2>1 DEF Enumerates, l
  <2>4. met = w[l] \o below
    BY <2>2 DEF l
  <2> HIDE DEF f
  <2>5. degree(f.node) \in Nat
    BY <2>2, TreeAssumption DEF NodeAssumption, degree
  <2>6. f.i \in 1 .. degree(f.node) /\ f.i - 1 \in 0 .. degree(f.node)
    BY <2>2, <2>5
  <2>7. b = a \o below /\ a \in Seq(TreePath)
    BY <2>2, <2>6, FirstGrows
  <2>8. << child(f.node, f.i - 1), push_back(f.path, f.i - 1) >> \in Node \X TreePath
    <3>1. child(f.node, f.i - 1) \in Node /\ f.i - 1 \in Nat
      BY <2>2, <2>6, ChildOf
    <3>2. push_back(f.path, f.i - 1) \in TreePath
      BY <2>2, <3>1 DEF push_back, TreePath
    <3>. QED BY <3>1, <3>2
  <2>9. below \in Seq(TreePath)
    BY <2>8, LeafTupleUnfolds
  <2> HIDE DEF a, b, below
  <2>10. met = w[l - 1] \o b
    <3>1. (w[l - 1] \o a) \o below = w[l - 1] \o (a \o below)
      <4>1. w[l - 1] \in Seq(TreePath) /\ a \in Seq(TreePath) /\ below \in Seq(TreePath)
        BY <2>3, <2>7, <2>9
      <4>. QED BY <4>1, PathsAssociative, Zenon
    <3>2. w[l] = w[l - 1] \o a
      BY <2>3
    <3>3. met = (w[l - 1] \o a) \o below
      BY <2>4, <3>2, Zenon
    <3>4. b = a \o below
      BY <2>7
    <3>. QED BY <3>1, <3>3, <3>4, Zenon
  <2>11. w[1] = << >> /\ \A k \in 1 .. l - 1 : w[k] \in Seq(TreePath)
    BY <1>3 DEF Enumerates, l
  <2>12. \A k \in 1 .. (l - 1) - 1 : w[k + 1] = w[k] \o First(t[k].node, t[k].path, t[k].i - 1)
    BY <1>1, <1>4 DEF Enumerates, l
  <2>13. t[l - 1] = f
    BY <1>1, <2>1 DEF f
  <2>14. met = w[Len(t)] \o First(t[Len(t)].node, t[Len(t)].path, t[Len(t)].i)
    BY <1>1, <2>10, <2>13 DEF b
  <2>. QED BY <1>1, <2>11, <2>12, <2>14 DEF Enumerates
<1>. QED BY <1>10, <1>11, <1>12 DEF Reports, t

(* A report starts with a loop at the root and no leaf met.                *)
LEMMA ReportsStart ==
  ASSUME NEW r \in Node, NEW f \in LoopFrame,
         f.node = r, f.path = << >>, f.i = 0, f.started = FALSE
  PROVE  Reports(r, << f >>, << >>)
<1> DEFINE s == << f >>
           w == [k \in {1} |-> << >>]
<1>1. Len(s) = 1 /\ s[1] = f /\ s # << >> /\ 1 .. 1 = {1} /\ 1 .. 1 - 1 = {}
  OBVIOUS
<1> HIDE DEF s
<1>2. << >> \in TreePath
  BY DEF TreePath
<1>3. degree(r) \in Nat
  BY TreeAssumption DEF NodeAssumption, degree
<1>4. Looping(s)
  BY <1>1 DEF Looping
<1>5. Walks(r, s)
  BY <1>1, <1>3, <1>4 DEF Walks
<1>6. First(f.node, f.path, f.i) = << >>
  BY <1>2, FirstGrows
<1>7. w[1] = << >> /\ << >> \in Seq(TreePath) /\ << >> \o << >> = << >>
  OBVIOUS
<1> HIDE DEF w
<1>8. Enumerates(w, s, << >>)
  BY <1>1, <1>6, <1>7 DEF Enumerates
<1>. QED BY <1>1, <1>5, <1>8 DEF Reports, s

(* The innermost loop of a report.                                         *)
LEMMA ReportsTop ==
  ASSUME NEW r \in Node, NEW s \in Seq(LoopFrame), s # << >>, NEW met, Reports(r, s, met)
  PROVE  /\ Walks(r, s) /\ \E w : Enumerates(w, s, met)
         /\ Len(s) \in Nat /\ Len(s) \in 1 .. Len(s) /\ s[Len(s)] \in LoopFrame
         /\ s[Len(s)].node \in Node /\ s[Len(s)].path \in TreePath /\ s[Len(s)].i \in Nat
         /\ s[Len(s)].i <= degree(s[Len(s)].node) /\ degree(s[Len(s)].node) \in Nat
         /\ << s[Len(s)].node, s[Len(s)].path >> \in Node \X TreePath
         /\ ~ s[Len(s)].started => s[Len(s)].i = 0
<1> DEFINE l == Len(s)
<1>1. l \in Nat /\ l \in 1 .. l
  BY EmptySeq
<1>2. s[l] \in LoopFrame
  BY <1>1, ElementOfSeq
<1> HIDE DEF l
<1>3. s[l].node \in Node /\ s[l].path \in TreePath /\ s[l].i \in Nat
  BY <1>2 DEF LoopFrame
<1>4. degree(s[l].node) \in Nat
  BY <1>3, TreeAssumption DEF NodeAssumption, degree
<1>5. Walks(r, s) /\ \E w : Enumerates(w, s, met)
  BY DEF Reports
<1>6. s[l].i <= degree(s[l].node) /\ (~ s[l].started => s[l].i = 0)
  BY <1>1, <1>5 DEF Walks, Looping, l
<1>. QED BY <1>1, <1>2, <1>3, <1>4, <1>5, <1>6 DEF l

(* At a leaf the path is reported.                                         *)
LEMMA ReportsLeaf ==
  ASSUME NEW r \in Node, NEW s \in Seq(LoopFrame), s # << >>, NEW met, Reports(r, s, met),
         ~ s[Len(s)].started, isLeaf(s[Len(s)].node)
  PROVE  Reports(r, Front(s), Append(met, s[Len(s)].path))
<1> DEFINE f == s[Len(s)]
<1>1. /\ Walks(r, s) /\ Len(s) \in 1 .. Len(s)
      /\ f.node \in Node /\ f.path \in TreePath /\ f.i = 0
      /\ << f.node, f.path >> \in Node \X TreePath
  BY ReportsTop
<1>2. PICK w : Enumerates(w, s, met)
  BY ReportsTop
<1> HIDE DEF f
<1>3. leafTreePathTuple[<< f.node, f.path >>] = << f.path >>
  BY <1>1, LeafTupleUnfolds DEF LeafTupleStep, f
<1>4. First(f.node, f.path, f.i) = << >>
  BY <1>1, FirstGrows
<1>5. met = w[Len(s)] \o << >> /\ w[Len(s)] \in Seq(TreePath)
  BY <1>1, <1>2, <1>4 DEF Enumerates, f
<1>6. Append(met, f.path) = w[Len(s)] \o leafTreePathTuple[<< f.node, f.path >>]
  <2>1. \A q \in Seq(TreePath), p \in TreePath : Append(q \o << >>, p) = q \o << p >>
    OBVIOUS
  <2>. QED BY <1>1, <1>3, <1>5, <2>1
<1>. QED BY <1>1, <1>2, <1>6, ReportsReturn DEF f

(* When all the children have been called for, nothing is left to report.  *)
LEMMA ReportsDone ==
  ASSUME NEW r \in Node, NEW s \in Seq(LoopFrame), s # << >>, NEW met, Reports(r, s, met),
         ~ isLeaf(s[Len(s)].node), s[Len(s)].i >= degree(s[Len(s)].node)
  PROVE  Reports(r, Front(s), met)
<1> DEFINE f == s[Len(s)]
<1>1. /\ Walks(r, s) /\ Len(s) \in 1 .. Len(s)
      /\ f.node \in Node /\ f.path \in TreePath /\ f.i = degree(f.node)
  <2>1. /\ Walks(r, s) /\ Len(s) \in 1 .. Len(s)
        /\ f.node \in Node /\ f.path \in TreePath
        /\ f.i \in Nat /\ degree(f.node) \in Nat /\ f.i <= degree(f.node)
    BY ReportsTop
  <2>2. f.i >= degree(f.node)
    OBVIOUS
  <2> HIDE DEF f
  <2>. QED BY <2>1, <2>2
<1>2. PICK w : Enumerates(w, s, met)
  BY ReportsTop
<1> HIDE DEF f
<1>3. First(f.node, f.path, degree(f.node)) = leafTreePathTuple[<< f.node, f.path >>]
  BY <1>1, FirstGrows DEF f
<1>4. met = w[Len(s)] \o leafTreePathTuple[<< f.node, f.path >>]
  BY <1>1, <1>2, <1>3 DEF Enumerates, f
<1>. QED BY <1>1, <1>2, <1>4, ReportsReturn DEF f

(* A loop that starts changes nothing about the report.                    *)
LEMMA ReportsStarted ==
  ASSUME NEW r \in Node, NEW s \in Seq(LoopFrame), s # << >>, NEW met, Reports(r, s, met),
         NEW f \in LoopFrame, f.started = TRUE,
         f.node = s[Len(s)].node, f.path = s[Len(s)].path, f.i = s[Len(s)].i
  PROVE  Reports(r, [s EXCEPT ![Len(s)] = f], met)
<1> DEFINE l == Len(s)
           t == [s EXCEPT ![l] = f]
<1>1. Walks(r, s) /\ l \in Nat /\ l \in 1 .. l
  BY ReportsTop
<1>2. PICK w : Enumerates(w, s, met)
  BY ReportsTop
<1>3. /\ Len(t) = l /\ t # << >> /\ t[l] = f
      /\ \A k \in 1 .. l - 1 : t[k] = s[k]
  BY ReplaceTop
<1> HIDE DEF t, l
<1>4. \A k \in 1 .. l : /\ t[k].node = s[k].node /\ t[k].path = s[k].path
                        /\ t[k].i = s[k].i
                        /\ s[k].started => t[k].started
  <2> SUFFICES ASSUME NEW k \in 1 .. l
               PROVE  /\ t[k].node = s[k].node /\ t[k].path = s[k].path
                      /\ t[k].i = s[k].i
                      /\ s[k].started => t[k].started
    OBVIOUS
  <2>1. CASE k = l
    BY <1>3, <2>1 DEF l
  <2>2. CASE k # l
    <3>1. k \in 1 .. l - 1
      BY <1>1, <2>2
    <3>. QED BY <1>3, <3>1
  <2>. QED BY <2>1, <2>2
<1>5. \A k \in 1 .. l - 1 : k \in 1 .. l /\ k + 1 \in 1 .. l
  BY <1>1
<1>6. 1 \in 1 .. l /\ l \in 1 .. l
  BY <1>1
<1>7. Looping(t)
  BY <1>1, <1>3, <1>4 DEF Walks, Looping, l
<1>8. Walks(r, t)
  BY <1>1, <1>3, <1>4, <1>5, <1>6, <1>7 DEF Walks, l
<1>9. Enumerates(w, t, met)
  BY <1>2, <1>3, <1>4, <1>5, <1>6 DEF Enumerates, l
<1>10. Reports(r, t, met)
  BY <1>3, <1>8, <1>9 DEF Reports
<1>. QED BY <1>10 DEF t, l

(* A loop calls for its next child: what has been met so far was met       *)
(* before the loop below starts.                                           *)
LEMMA ReportsEnters ==
  ASSUME NEW r \in Node, NEW p \in Seq(LoopFrame), p # << >>, NEW met, Reports(r, p, met),
         NEW c, c = p[Len(p)], c.i < degree(c.node),
         NEW g \in LoopFrame, g.started = TRUE,
         g.node = c.node, g.path = c.path, g.i = c.i + 1,
         NEW f \in LoopFrame, f.started = FALSE, f.i = 0,
         f.node = child(c.node, c.i), f.path = push_back(c.path, c.i)
  PROVE  Reports(r, Append([p EXCEPT ![Len(p)] = g], f), met)
<1> DEFINE l == Len(p)
           s == [p EXCEPT ![l] = g]
           t == Append(s, f)
<1>1. /\ Walks(r, p) /\ l \in Nat /\ l \in 1 .. l
      /\ c.node \in Node /\ c.path \in TreePath /\ c.i \in Nat /\ degree(c.node) \in Nat
  BY ReportsTop
<1>2. PICK w : Enumerates(w, p, met)
  BY ReportsTop
<1>3. c.i + 1 \in 1 .. degree(c.node) /\ (c.i + 1) - 1 = c.i /\ c.i \in 0 .. degree(c.node)
  BY <1>1
<1>4. child(c.node, c.i) \in Node /\ push_back(c.path, c.i) \in TreePath
  <2>1. child(c.node, c.i) \in Node
    BY <1>1, <1>3, ChildOf
  <2>. QED BY <1>1, <2>1 DEF push_back, TreePath
<1>5. /\ s \in Seq(LoopFrame) /\ Len(s) = l /\ s[l] = g
      /\ \A k \in 1 .. l - 1 : s[k] = p[k]
  BY ReplaceTop
<1> HIDE DEF s
<1>6. /\ t # << >> /\ Len(t) = l + 1 /\ t[l + 1] = f
      /\ \A k \in 1 .. l : t[k] = s[k]
  BY <1>5, PushTop
<1>16. c = p[l]
  OBVIOUS
<1> HIDE DEF t, l
<1> DEFINE u == [k \in 1 .. l + 1 |-> IF k \in 1 .. l THEN w[k] ELSE met]
<1>7. l + 1 \in 1 .. l + 1 /\ l + 1 \notin 1 .. l /\ 1 \in 1 .. l /\ 1 .. l \subseteq 1 .. l + 1
  BY <1>1
<1>8. u[l + 1] = met /\ \A k \in 1 .. l : u[k] = w[k]
  BY <1>7
<1> HIDE DEF u
<1>9. \A k \in 1 .. l - 1 : t[k] = p[k] /\ k \in 1 .. l /\ k + 1 \in 1 .. l
  <2>1. \A k \in 1 .. l - 1 : k \in 1 .. l /\ k + 1 \in 1 .. l
    BY <1>1
  <2>. QED BY <1>5, <1>6, <2>1
<1>10. t[l] = g
  BY <1>1, <1>5, <1>6
<1>11. \A k \in 1 .. l + 1 : k \in 1 .. l - 1 \/ k = l \/ k = l + 1
  BY <1>1
<1>12. Looping(t)
  <2>1. \A k \in 1 .. l - 1 : k # l /\ k # l + 1
    BY <1>1
  <2>2. g.i > 0 /\ l # l + 1
    BY <1>1
  <2>3. Looping(p)
    BY <1>1 DEF Walks
  <2>4. ASSUME NEW k \in 1 .. l + 1
        PROVE  /\ k # l + 1 => t[k].started /\ t[k].i > 0
               /\ ~ t[k].started => t[k].i = 0
    <3>1. CASE k \in 1 .. l - 1
      BY <1>9, <2>1, <2>3, <3>1 DEF Looping, l
    <3>2. CASE k = l
      BY <1>10, <2>2, <3>2
    <3>3. CASE k = l + 1
      BY <1>6, <3>3
    <3>. QED BY <1>11, <3>1, <3>2, <3>3
  <2>. QED BY <1>6, <2>4 DEF Looping
<1>13. \A k \in 1 .. l + 1 : t[k].i <= degree(t[k].node)
  <2>1. degree(f.node) \in Nat
    BY <1>4, TreeAssumption DEF NodeAssumption, degree
  <2>2. g.i <= degree(g.node)
    BY <1>3
  <2>3. f.i <= degree(f.node)
    BY <2>1
  <2>. QED BY <1>1, <1>6, <1>9, <1>10, <1>11, <2>2, <2>3 DEF Walks, l
<1>14. \A k \in 1 .. l : /\ t[k + 1].node = child(t[k].node, t[k].i - 1)
                         /\ t[k + 1].path = push_back(t[k].path, t[k].i - 1)
  <2> SUFFICES ASSUME NEW k \in 1 .. l
               PROVE  /\ t[k + 1].node = child(t[k].node, t[k].i - 1)
                      /\ t[k + 1].path = push_back(t[k].path, t[k].i - 1)
    OBVIOUS
  <2>1. CASE k = l
    BY <1>3, <1>6, <1>10, <2>1
  <2>2. CASE k # l
    <3>1. k \in 1 .. l - 1
      BY <1>1, <2>2
    <3>2. /\ p[k + 1].node = child(p[k].node, p[k].i - 1)
          /\ p[k + 1].path = push_back(p[k].path, p[k].i - 1)
      BY <1>1, <3>1 DEF Walks, l
    <3>3. t[k] = p[k]
      BY <1>9, <3>1
    <3>4. t[k + 1].node = p[k + 1].node /\ t[k + 1].path = p[k + 1].path
      <4>1. CASE k + 1 = l
        BY <1>10, <1>16, <4>1
      <4>2. CASE k + 1 # l
        <5>1. k + 1 \in 1 .. l - 1
          BY <1>1, <3>1, <4>2
        <5>. QED BY <1>9, <5>1
      <4>. QED BY <4>1, <4>2
    <3>. QED BY <3>2, <3>3, <3>4
  <2>. QED BY <2>1, <2>2
<1>15. t[1].node = r /\ t[1].path = << >>
  <2>1. p[1].node = r /\ p[1].path = << >>
    BY <1>1 DEF Walks
  <2>2. CASE l = 1
    BY <1>10, <1>16, <2>1, <2>2
  <2>3. CASE l # 1
    <3>1. 1 \in 1 .. l - 1
      BY <1>1, <2>3
    <3>. QED BY <1>9, <2>1, <3>1
  <2>. QED BY <2>2, <2>3
<1>17. Len(t) = l + 1 /\ (l + 1) - 1 = l
  BY <1>1, <1>6
<1>18. Walks(r, t)
  BY <1>6, <1>12, <1>13, <1>14, <1>15, <1>17 DEF Walks
<1>19. /\ w[1] = << >> /\ \A k \in 1 .. l : w[k] \in Seq(TreePath)
       /\ \A k \in 1 .. l - 1 : w[k + 1] = w[k] \o First(p[k].node, p[k].path, p[k].i - 1)
       /\ met = w[l] \o First(c.node, c.path, c.i)
  BY <1>2, <1>16 DEF Enumerates, l
<1>20. First(c.node, c.path, c.i) \in Seq(TreePath)
  BY <1>1, <1>3, FirstGrows
<1>21. met \in Seq(TreePath)
  BY <1>1, <1>19, <1>20
<1>22. First(f.node, f.path, f.i) = << >>
  <2>1. f.node \in Node /\ f.path \in TreePath
    BY <1>4
  <2>2. First(f.node, f.path, 0) = << >>
    BY <2>1, FirstGrows
  <2>. QED BY <2>2
<1>23. met = met \o << >>
  BY <1>21
<1>24. u[1] = << >> /\ \A k \in 1 .. l + 1 : u[k] \in Seq(TreePath)
  <2>1. \A k \in 1 .. l + 1 : k \in 1 .. l \/ k = l + 1
    BY <1>1
  <2>. QED BY <1>7, <1>8, <1>19, <1>21, <2>1
<1>25. \A k \in 1 .. l : u[k + 1] = u[k] \o First(t[k].node, t[k].path, t[k].i - 1)
  <2> SUFFICES ASSUME NEW k \in 1 .. l
               PROVE  u[k + 1] = u[k] \o First(t[k].node, t[k].path, t[k].i - 1)
    OBVIOUS
  <2>1. CASE k = l
    BY <1>3, <1>8, <1>10, <1>19, <2>1
  <2>2. CASE k # l
    <3>1. k \in 1 .. l - 1
      BY <1>1, <2>2
    <3>2. t[k] = p[k] /\ k \in 1 .. l /\ k + 1 \in 1 .. l
      BY <1>9, <3>1
    <3>3. w[k + 1] = w[k] \o First(p[k].node, p[k].path, p[k].i - 1)
      BY <1>19, <3>1
    <3>4. u[k] = w[k] /\ u[k + 1] = w[k + 1]
      BY <1>8, <3>2
    <3>. QED BY <3>2, <3>3, <3>4, Zenon
  <2>. QED BY <2>1, <2>2
<1>26. met = u[l + 1] \o First(t[l + 1].node, t[l + 1].path, t[l + 1].i)
  BY <1>6, <1>8, <1>22, <1>23
<1>27. Enumerates(u, t, met)
  BY <1>17, <1>24, <1>25, <1>26 DEF Enumerates
<1>28. Reports(r, t, met)
  BY <1>6, <1>18, <1>27 DEF Reports
<1>. QED BY <1>28 DEF t, s, l

-----------------------------------------------------------------------------
(* The numbers of TreeInfo, and what a child and its next siblings are     *)
(* joined to.                                                              *)
Info == [depth : Nat, nodeCount : Nat, leafCount : Nat]

NoInfo == [depth |-> 0, nodeCount |-> 0, leafCount |-> 0]

LeafInfo == [depth |-> 1, nodeCount |-> 1, leafCount |-> 1]

Above(r) ==
  [depth |-> 1 + r.depth, nodeCount |-> 1 + r.nodeCount, leafCount |-> r.leafCount]

Larger(i, j) == IF i > j THEN i ELSE j

Joined(c, r) ==
  [depth |-> IF c.depth > r.depth THEN c.depth ELSE r.depth,
   nodeCount |-> c.nodeCount + r.nodeCount,
   leafCount |-> c.leafCount + r.leafCount]

(* g[k] is what the d children with the numbers c are joined to from the   *)
(* k-th one on.                                                            *)
Joins(d, c, g) ==
  /\ g[d] = NoInfo
  /\ \A k \in 0 .. d : g[k] \in Info
  /\ \A k \in 0 .. d - 1 : g[k] = Joined(c[k], g[k + 1])

LEMMA JoinedIs ==
  ASSUME NEW c \in Info, NEW r \in Info
  PROVE  /\ Joined(c, r) \in Info
         /\ Joined(c, r).depth = Larger(c.depth, r.depth)
         /\ Joined(c, r).nodeCount = c.nodeCount + r.nodeCount
         /\ Joined(c, r).leafCount = c.leafCount + r.leafCount
<1>1. /\ c.depth \in Nat /\ c.nodeCount \in Nat /\ c.leafCount \in Nat
      /\ r.depth \in Nat /\ r.nodeCount \in Nat /\ r.leafCount \in Nat
  BY DEF Info
<1>. QED BY <1>1 DEF Joined, Info, Larger

LEMMA AboveIs ==
  ASSUME NEW r \in Info
  PROVE  /\ Above(r) \in Info /\ Above(r).depth = 1 + r.depth
         /\ Above(r).nodeCount = 1 + r.nodeCount /\ Above(r).leafCount = r.leafCount
BY DEF Above, Info

LEMMA NoInfoIs == NoInfo \in Info /\ LeafInfo \in Info
BY DEF NoInfo, LeafInfo, Info

(* From the last child to the first.                                       *)
LEMMA DownFrom ==
  ASSUME NEW d \in Nat, NEW T, d \in T,
         \A k \in 0 .. d - 1 : k + 1 \in T => k \in T
  PROVE  0 .. d \subseteq T
<1> DEFINE U == {j \in Nat : j \in 0 .. d => d - j \in T}
<1>1. 0 \in U
  <2>1. d - 0 = d
    OBVIOUS
  <2>. QED BY <2>1
<1>2. ASSUME NEW j \in Nat, j \in U PROVE j + 1 \in U
  <2> SUFFICES ASSUME j + 1 \in 0 .. d PROVE d - (j + 1) \in T
    OBVIOUS
  <2>1. PICK k : k = d - (j + 1)
    OBVIOUS
  <2>2. k \in 0 .. d - 1 /\ k + 1 = d - j /\ j \in 0 .. d
    BY <2>1
  <2>3. k + 1 \in T
    BY <1>2, <2>2
  <2>. QED BY <2>1, <2>2, <2>3
<1>3. Nat \subseteq U
  <2> HIDE DEF U
  <2>. QED BY <1>1, <1>2, CountingInduction
<1>4. ASSUME NEW k \in 0 .. d PROVE k \in T
  <2>1. d - k \in Nat /\ d - k \in 0 .. d /\ d - (d - k) = k
    OBVIOUS
  <2>2. d - (d - k) \in T
    BY <1>3, <2>1
  <2>. QED BY <2>1, <2>2
<1>. QED BY <1>4

(* Whatever satisfies the equations is typed.                              *)
LEMMA JoinsType ==
  ASSUME NEW d \in Nat, NEW c, \A k \in 0 .. d - 1 : c[k] \in Info, NEW g,
         g[d] = NoInfo, \A k \in 0 .. d - 1 : g[k] = Joined(c[k], g[k + 1])
  PROVE  Joins(d, c, g)
<1> DEFINE T == {k \in 0 .. d : g[k] \in Info}
<1>1. d \in T
  BY NoInfoIs
<1>2. ASSUME NEW k \in 0 .. d - 1, k + 1 \in T PROVE k \in T
  <2>1. c[k] \in Info /\ g[k + 1] \in Info /\ g[k] = Joined(c[k], g[k + 1]) /\ k \in 0 .. d
    BY <1>2
  <2>. QED BY <2>1, JoinedIs
<1>3. 0 .. d \subseteq T
  <2> HIDE DEF T
  <2>. QED BY <1>1, <1>2, DownFrom
<1>. QED BY <1>3 DEF Joins

LEMMA JoinsExist ==
  ASSUME NEW d \in Nat, NEW c, \A k \in 0 .. d - 1 : c[k] \in Info
  PROVE  \E g : Joins(d, c, g) /\ g = [k \in 0 .. d |-> g[k]]
<1> DEFINE step == [x \in (1 .. d) \X Info |-> Joined(c[d - x[1]], x[2])]
<1>1. step \in [(1 .. d) \X Info -> Info]
  <2>1. ASSUME NEW x \in (1 .. d) \X Info PROVE Joined(c[d - x[1]], x[2]) \in Info
    <3>1. d - x[1] \in 0 .. d - 1 /\ x[2] \in Info
      OBVIOUS
    <3>. QED BY <3>1, JoinedIs
  <2>. QED BY <2>1
<1>2. PICK h \in [0 .. d -> Info] : Steps(h, NoInfo, step, d)
  <2> HIDE DEF step
  <2>. QED BY <1>1, NoInfoIs, StepsExist
<1> DEFINE g == [k \in 0 .. d |-> h[d - k]]
<1>3. g[d] = NoInfo
  <2>1. d \in 0 .. d /\ d - d = 0
    OBVIOUS
  <2>. QED BY <1>2, <2>1 DEF Steps
<1>4. ASSUME NEW k \in 0 .. d - 1 PROVE g[k] = Joined(c[k], g[k + 1])
  <2>1. /\ k \in 0 .. d /\ k + 1 \in 0 .. d /\ d - k \in 1 .. d /\ (d - k) - 1 = d - (k + 1)
        /\ d - (d - k) = k /\ (d - k) - 1 \in 0 .. d
    OBVIOUS
  <2>2. g[k] = h[d - k] /\ g[k + 1] = h[(d - k) - 1]
    BY <2>1
  <2>3. h[d - k] = step[<< d - k, h[(d - k) - 1] >>] /\ h[(d - k) - 1] \in Info
    BY <1>2, <2>1 DEF Steps
  <2>4. PICK j : j = d - k
    OBVIOUS
  <2>5. step[<< j, h[j - 1] >>] = Joined(c[d - j], h[j - 1])
    BY <2>1, <2>3, <2>4
  <2> HIDE DEF g, step
  <2>. QED BY <2>1, <2>2, <2>3, <2>4, <2>5
<1>5. g = [k \in 0 .. d |-> g[k]]
  OBVIOUS
<1> HIDE DEF g
<1>6. Joins(d, c, g)
  BY <1>3, <1>4, JoinsType
<1>. QED BY <1>5, <1>6

LEMMA JoinsAgree ==
  ASSUME NEW d \in Nat, NEW b, NEW c, \A k \in 0 .. d - 1 : b[k] = c[k],
         NEW g, Joins(d, b, g), NEW h, Joins(d, c, h)
  PROVE  \A k \in 0 .. d : g[k] = h[k]
<1> DEFINE T == {k \in 0 .. d : g[k] = h[k]}
<1>1. d \in T
  BY DEF Joins
<1>2. ASSUME NEW k \in 0 .. d - 1, k + 1 \in T PROVE k \in T
  <2>1. g[k + 1] = h[k + 1] /\ k \in 0 .. d /\ b[k] = c[k]
    BY <1>2
  <2>2. g[k] = Joined(b[k], g[k + 1]) /\ h[k] = Joined(c[k], h[k + 1])
    BY DEF Joins
  <2>. QED BY <2>1, <2>2
<1>3. 0 .. d \subseteq T
  <2> HIDE DEF T
  <2>. QED BY <1>1, <1>2, DownFrom
<1>. QED BY <1>3

-----------------------------------------------------------------------------
(* The numbers of the objects: those of the children summed up, whatever   *)
(* the node above them is. They are what a walk over the tree can count.   *)
LEMMA NodeBelow ==
  ASSUME NEW n \in Node, NEW k \in 0 .. degree(n) - 1
  PROVE  child(n, k) \in Node /\ LevelOf[child(n, k)] < LevelOf[n]
<1>1. degree(n) \in Nat
  BY TreeAssumption DEF NodeAssumption, degree
<1>2. k + 1 \in 1 .. degree(n) /\ (k + 1) - 1 = k
  BY <1>1
<1>3. child(n, (k + 1) - 1) \in Node /\ Level[TypeOf[child(n, (k + 1) - 1)]] < Level[TypeOf[n]]
  BY <1>2, ChildOf
<1>. QED BY <1>2, <1>3 DEF LevelOf

OfChildren(f, n) == [k \in 0 .. degree(n) - 1 |-> f[child(n, k)]]

InfoChain(f, n, g) == Joins(degree(n), OfChildren(f, n), g)

InfoBelow(f, n) == \A k \in 0 .. degree(n) - 1 : f[child(n, k)] \in Info

SumsUp(f, n) ==
  IF isLeaf(n) THEN f[n] = LeafInfo ELSE \E g : InfoChain(f, n, g) /\ f[n] = Above(g[0])

Summed == CHOOSE f : f \in [Node -> Info] /\ \A n \in Node : SumsUp(f, n)

LEMMA ChainsExist ==
  ASSUME NEW n \in Node, NEW f, InfoBelow(f, n)
  PROVE  /\ degree(n) \in Nat /\ 0 \in 0 .. degree(n)
         /\ \E g : InfoChain(f, n, g)
<1>1. degree(n) \in Nat
  BY TreeAssumption DEF NodeAssumption, degree
<1>2. \A k \in 0 .. degree(n) - 1 : OfChildren(f, n)[k] \in Info
  BY DEF InfoBelow, OfChildren
<1>3. \E g : Joins(degree(n), OfChildren(f, n), g)
  BY <1>1, <1>2, JoinsExist
<1>. QED BY <1>1, <1>3 DEF InfoChain

LEMMA SummedUnfolds ==
  /\ Summed \in [Node -> Info]
  /\ \A n \in Node : InfoBelow(Summed, n) /\ SumsUp(Summed, n)
<1> DEFINE F == [Node -> Info]
           chain(f, n) == CHOOSE g : InfoChain(f, n, g)
           value(f, n) == IF isLeaf(n) THEN LeafInfo ELSE Above(chain(f, n)[0])
           step == [x \in Node \X F |-> value(x[2], x[1])]
<1>1. ASSUME NEW f \in F, NEW n \in Node PROVE InfoBelow(f, n)
  BY NodeBelow DEF InfoBelow
<1>2. ASSUME NEW f \in F, NEW n \in Node
      PROVE  InfoChain(f, n, chain(f, n)) /\ chain(f, n)[0] \in Info
  <2>1. \E g : InfoChain(f, n, g)
    BY <1>1, ChainsExist
  <2>2. InfoChain(f, n, chain(f, n))
    BY <2>1
  <2> HIDE DEF chain
  <2>3. 0 \in 0 .. degree(n)
    BY <1>1, ChainsExist
  <2>. QED BY <2>2, <2>3 DEF InfoChain, Joins
<1> HIDE DEF chain
<1>3. ASSUME NEW f \in F, NEW n \in Node PROVE value(f, n) \in Info
  BY <1>2, NoInfoIs, AboveIs
<1>4. step \in [Node \X F -> Info]
  <2>1. ASSUME NEW x \in Node \X F PROVE value(x[2], x[1]) \in Info
    <3>1. x[1] \in Node /\ x[2] \in F
      OBVIOUS
    <3> HIDE DEF value, F
    <3>. QED BY <1>3, <3>1
  <2> HIDE DEF value, F
  <2>. QED BY <2>1
<1>5. ASSUME NEW x \in Node, NEW f \in F PROVE step[<< x, f >>] = value(f, x)
  <2> DEFINE z == << x, f >>
  <2>1. z \in Node \X F /\ z[1] = x /\ z[2] = f
    OBVIOUS
  <2> HIDE DEF value, F, z
  <2>2. step[z] = value(f, x)
    BY <2>1
  <2>. QED BY <2>2 DEF z
<1>6. LooksBelow(step, Node, Info, LevelOf)
  <2> SUFFICES ASSUME NEW d \in Node, NEW g \in F, NEW h \in F,
                      \A e \in Node : LevelOf[e] < LevelOf[d] => g[e] = h[e]
               PROVE  step[<< d, g >>] = step[<< d, h >>]
    BY DEF LooksBelow
  <2>1. \A k \in 0 .. degree(d) - 1 : OfChildren(g, d)[k] = OfChildren(h, d)[k]
    BY NodeBelow DEF OfChildren
  <2>2. degree(d) \in Nat /\ 0 \in 0 .. degree(d)
    BY <1>1, ChainsExist
  <2>3. /\ Joins(degree(d), OfChildren(g, d), chain(g, d))
        /\ Joins(degree(d), OfChildren(h, d), chain(h, d))
    BY <1>2 DEF InfoChain
  <2>4. chain(g, d)[0] = chain(h, d)[0]
    <3> DEFINE b == OfChildren(g, d)
               c == OfChildren(h, d)
               p == chain(g, d)
               q == chain(h, d)
               l == degree(d)
    <3>1. l \in Nat /\ 0 \in 0 .. l /\ Joins(l, b, p) /\ Joins(l, c, q)
      BY <2>2, <2>3
    <3>2. \A k \in 0 .. l - 1 : b[k] = c[k]
      BY <2>1
    <3> HIDE DEF b, c, p, q, l
    <3>3. \A k \in 0 .. l : p[k] = q[k]
      BY <3>1, <3>2, JoinsAgree
    <3>. QED BY <3>1, <3>3 DEF p, q
  <2>5. value(g, d) = value(h, d)
    BY <2>4
  <2> HIDE DEF step, value, F
  <2>. QED BY <1>5, <2>5
<1>7. PICK f \in F : Obeys(f, Node, step)
  <2> HIDE DEF step
  <2>. QED BY <1>4, <1>6, NoInfoIs, LevelDecreases, RecursionFromBelow
<1>8. ASSUME NEW n \in Node PROVE SumsUp(f, n)
  <2>1. f[n] = step[<< n, f >>]
    BY <1>7 DEF Obeys
  <2> HIDE DEF step
  <2>2. f[n] = value(f, n)
    BY <1>5, <2>1
  <2>. QED BY <1>2, <2>2 DEF SumsUp
<1>9. Summed \in [Node -> Info] /\ \A n \in Node : SumsUp(Summed, n)
  BY <1>7, <1>8 DEF Summed
<1>10. ASSUME NEW n \in Node PROVE InfoBelow(Summed, n)
  BY <1>1, <1>9
<1>. QED BY <1>9, <1>10

-----------------------------------------------------------------------------
(* TreeInfo is defined by its own right-hand side.                         *)
ClassLevel == [t \in Classes |-> Level[t]]

LEMMA ClassObject ==
  ASSUME NEW t \in Classes
  PROVE  /\ objectOf(t) \in Node /\ TypeOf[objectOf(t)] = t /\ t \in Type
         /\ StaticDegree(t) \in Nat /\ Level[t] \in Nat
<1>1. \E n \in Node : TypeOf[n] = t
  BY DEF Classes
<1>2. objectOf(t) \in Node /\ TypeOf[objectOf(t)] = t
  BY <1>1 DEF objectOf
<1>. QED BY <1>2, TreeAssumption DEF NodeAssumption, StaticDegree, degree

(* Both recursions of TreeInfo go to classes of a lower level.             *)
LEMMA ClassBelow ==
  ASSUME NEW t \in Classes
  PROVE  /\ \A k \in 0 .. StaticDegree(t) - 1 :
              ChildOfType(t, k) \in Classes /\ Level[ChildOfType(t, k)] < Level[t]
         /\ Tag[t] = "PowerNodeTag" =>
              ChildType[t] \in Classes /\ Level[ChildType[t]] < Level[t]
<1> DEFINE w == objectOf(t)
<1>1. w \in Node /\ TypeOf[w] = t
  BY ClassObject
<1> HIDE DEF w
<1>2. ASSUME NEW k \in 0 .. degree(w) - 1
      PROVE  TypeOf[child(w, k)] \in Classes /\ Level[TypeOf[child(w, k)]] < Level[t]
  <2>1. child(w, k) \in Node /\ LevelOf[child(w, k)] < LevelOf[w]
    BY <1>1, NodeBelow
  <2>2. LevelOf[child(w, k)] = Level[TypeOf[child(w, k)]] /\ LevelOf[w] = Level[t]
    BY <1>1, <2>1 DEF LevelOf
  <2>. QED BY <2>1, <2>2 DEF Classes
<1>3. Tag[t] = "PowerNodeTag" => ChildType[t] \in Classes /\ Level[ChildType[t]] < Level[t]
  BY <1>1, ChildTypeAssumption DEF TagOf
<1>. QED BY <1>2, <1>3 DEF StaticDegree, ChildOfType, w

ChildrenInfo(f, t) ==
  LET children_info[k \in 0 .. StaticDegree(t)] ==
        LET Child_k   == f[ChildOfType(t, k)]
            NextChild == children_info[k + 1]
        IN  IF k = StaticDegree(t)
              THEN [depth |-> 0, nodeCount |-> 0, leafCount |-> 0]
              ELSE [depth |-> IF Child_k.depth > NextChild.depth
                                THEN Child_k.depth ELSE NextChild.depth,
                    nodeCount |-> Child_k.nodeCount + NextChild.nodeCount,
                    leafCount |-> Child_k.leafCount + NextChild.leafCount]
  IN  children_info[0]

OfTypes(f, t) == [k \in 0 .. StaticDegree(t) - 1 |-> f[ChildOfType(t, k)]]

Repeated(d, c) ==
  [depth |-> 1 + c.depth, nodeCount |-> 1 + d * c.nodeCount, leafCount |-> d * c.leafCount]

InfoStep(f, t) ==
  CASE Tag[t] = "LeafNodeTag" -> LeafInfo
    [] Tag[t] = "PowerNodeTag" -> Repeated(StaticDegree(t), f[ChildType[t]])
    [] OTHER -> Above(ChildrenInfo(f, t))

LEMMA ChildrenInfoJoins ==
  ASSUME NEW t \in Classes, NEW f, \A k \in 0 .. StaticDegree(t) - 1 : f[ChildOfType(t, k)] \in Info
  PROVE  \E g : Joins(StaticDegree(t), OfTypes(f, t), g) /\ ChildrenInfo(f, t) = g[0]
<1> DEFINE d == StaticDegree(t)
           c == OfTypes(f, t)
           v(g, k) ==
             LET Child_k   == f[ChildOfType(t, k)]
                 NextChild == g[k + 1]
             IN  IF k = d
                   THEN [depth |-> 0, nodeCount |-> 0, leafCount |-> 0]
                   ELSE [depth |-> IF Child_k.depth > NextChild.depth
                                     THEN Child_k.depth ELSE NextChild.depth,
                         nodeCount |-> Child_k.nodeCount + NextChild.nodeCount,
                         leafCount |-> Child_k.leafCount + NextChild.leafCount]
<1>1. d \in Nat
  BY ClassObject
<1>2. ChildrenInfo(f, t) = (CHOOSE g : g = [k \in 0 .. d |-> v(g, k)])[0]
  BY DEF ChildrenInfo
<1>3. ASSUME NEW g PROVE v(g, d) = NoInfo
  BY DEF NoInfo
<1>4. ASSUME NEW g, NEW k \in 0 .. d - 1 PROVE v(g, k) = Joined(c[k], g[k + 1])
  <2>1. k # d /\ c[k] = f[ChildOfType(t, k)]
    BY <1>1 DEF OfTypes
  <2> HIDE DEF c
  <2>. QED BY <2>1 DEF Joined
<1>5. \A k \in 0 .. d - 1 : c[k] \in Info
  BY DEF OfTypes
<1> HIDE DEF v, d, c
<1>6. PICK e : Joins(d, c, e) /\ e = [k \in 0 .. d |-> e[k]]
  BY <1>1, <1>5, JoinsExist
<1>7. \A k \in 0 .. d : e[k] = v(e, k)
  <2> SUFFICES ASSUME NEW k \in 0 .. d PROVE e[k] = v(e, k)
    OBVIOUS
  <2>1. CASE k = d
    BY <1>3, <1>6, <2>1 DEF Joins
  <2>2. CASE k # d
    <3>1. k \in 0 .. d - 1
      BY <1>1, <2>2
    <3>. QED BY <1>4, <1>6, <3>1 DEF Joins
  <2>. QED BY <2>1, <2>2
<1>8. \E g : g = [k \in 0 .. d |-> v(g, k)]
  <2> DEFINE w(k) == v(e, k)
  <2>1. \A k \in 0 .. d : e[k] = w(k)
    BY <1>7
  <2> HIDE DEF w
  <2>2. e = [k \in 0 .. d |-> w(k)]
    BY <1>6, <2>1
  <2>. QED BY <2>2 DEF w
<1> DEFINE g == CHOOSE g : g = [k \in 0 .. d |-> v(g, k)]
<1>9. g = [k \in 0 .. d |-> v(g, k)]
  BY <1>8
<1> HIDE DEF g
<1>10. \A k \in 0 .. d : g[k] = v(g, k)
  <2> DEFINE w(k) == v(g, k)
  <2>1. g = [k \in 0 .. d |-> w(k)]
    BY <1>9
  <2> HIDE DEF w
  <2>2. \A k \in 0 .. d : g[k] = w(k)
    BY <2>1
  <2>. QED BY <2>2 DEF w
<1>11. g[d] = NoInfo /\ \A k \in 0 .. d - 1 : g[k] = Joined(c[k], g[k + 1])
  <2>1. d \in 0 .. d /\ \A k \in 0 .. d - 1 : k \in 0 .. d
    BY <1>1
  <2>. QED BY <1>3, <1>4, <1>10, <2>1
<1>12. Joins(d, c, g)
  BY <1>1, <1>5, <1>11, JoinsType
<1>. QED BY <1>2, <1>12 DEF g, d, c

LEMMA InfoStepType ==
  ASSUME NEW t \in Classes, NEW f,
         \A u \in Classes : ClassLevel[u] < ClassLevel[t] => f[u] \in Info
  PROVE  InfoStep(f, t) \in Info
<1>0. \A u \in Classes : Level[u] < Level[t] => f[u] \in Info
  BY DEF ClassLevel
<1>1. CASE Tag[t] = "LeafNodeTag"
  BY <1>1, NoInfoIs DEF InfoStep
<1>2. CASE Tag[t] = "PowerNodeTag"
  <2> DEFINE c == f[ChildType[t]]
             d == StaticDegree(t)
  <2>1. c \in Info /\ d \in Nat
    BY <1>0, <1>2, ClassBelow, ClassObject
  <2> HIDE DEF c, d
  <2>2. d * c.nodeCount \in Nat /\ d * c.leafCount \in Nat /\ c.depth \in Nat
    BY <2>1 DEF Info
  <2>3. Repeated(d, c) \in Info
    BY <2>2 DEF Repeated, Info
  <2>. QED BY <1>2, <2>3 DEF InfoStep, c, d
<1>3. CASE Tag[t] # "LeafNodeTag" /\ Tag[t] # "PowerNodeTag"
  <2>1. PICK g : Joins(StaticDegree(t), OfTypes(f, t), g) /\ ChildrenInfo(f, t) = g[0]
    BY <1>0, ClassBelow, ChildrenInfoJoins
  <2>2. 0 \in 0 .. StaticDegree(t)
    BY ClassObject
  <2>3. ChildrenInfo(f, t) \in Info
    BY <2>1, <2>2 DEF Joins
  <2>. QED BY <1>3, <2>3, AboveIs DEF InfoStep
<1>. QED BY <1>1, <1>2, <1>3

LEMMA InfoStepLooksBelow ==
  ASSUME NEW t \in Classes, NEW f \in [Classes -> Info], NEW h \in [Classes -> Info],
         \A u \in Classes : ClassLevel[u] < ClassLevel[t] => f[u] = h[u]
  PROVE  InfoStep(f, t) = InfoStep(h, t)
<1>1. \A u \in Classes : Level[u] < Level[t] => f[u] = h[u]
  BY DEF ClassLevel
<1>2. CASE Tag[t] = "PowerNodeTag"
  <2>1. f[ChildType[t]] = h[ChildType[t]]
    BY <1>1, <1>2, ClassBelow
  <2>. QED BY <1>2, <2>1 DEF InfoStep
<1>3. CASE Tag[t] # "PowerNodeTag"
  <2> DEFINE d == StaticDegree(t)
             b == OfTypes(f, t)
             c == OfTypes(h, t)
  <2>1. PICK p : Joins(d, b, p) /\ ChildrenInfo(f, t) = p[0]
    BY ClassBelow, ChildrenInfoJoins
  <2>2. PICK q : Joins(d, c, q) /\ ChildrenInfo(h, t) = q[0]
    BY ClassBelow, ChildrenInfoJoins
  <2>3. d \in Nat /\ 0 \in 0 .. d
    BY ClassObject
  <2>4. \A k \in 0 .. d - 1 : b[k] = c[k]
    BY <1>1, ClassBelow DEF OfTypes
  <2> HIDE DEF b, c, d
  <2>5. \A k \in 0 .. d : p[k] = q[k]
    <3>1. Joins(d, b, p) /\ Joins(d, c, q) /\ d \in Nat
      BY <2>1, <2>2, <2>3
    <3>. QED BY <2>4, <3>1, JoinsAgree
  <2>6. ChildrenInfo(f, t) = ChildrenInfo(h, t)
    BY <2>1, <2>2, <2>3, <2>5
  <2>. QED BY <1>3, <2>6 DEF InfoStep
<1>. QED BY <1>2, <1>3

LEMMA TreeInfoUnfolds ==
  TreeInfo \in [Classes -> Info] /\ \A t \in Classes : TreeInfo[t] = InfoStep(TreeInfo, t)
<1> DEFINE F == [Classes -> Info]
           step == [x \in Classes \X F |-> InfoStep(x[2], x[1])]
<1>1. step \in [Classes \X F -> Info]
  <2>1. ASSUME NEW x \in Classes \X F PROVE InfoStep(x[2], x[1]) \in Info
    BY InfoStepType
  <2>. QED BY <2>1
<1>2. ASSUME NEW t \in Classes, NEW f \in F PROVE step[<< t, f >>] = InfoStep(f, t)
  <2> DEFINE z == << t, f >>
  <2>1. z \in Classes \X F /\ z[1] = t /\ z[2] = f
    OBVIOUS
  <2> HIDE DEF F, z
  <2>2. step[z] = InfoStep(f, t)
    BY <2>1
  <2>. QED BY <2>2 DEF z
<1>3. LooksBelow(step, Classes, Info, ClassLevel)
  <2> SUFFICES ASSUME NEW t \in Classes, NEW f \in F, NEW h \in F,
                      \A u \in Classes : ClassLevel[u] < ClassLevel[t] => f[u] = h[u]
               PROVE  step[<< t, f >>] = step[<< t, h >>]
    BY DEF LooksBelow
  <2>1. InfoStep(f, t) = InfoStep(h, t)
    BY InfoStepLooksBelow
  <2> HIDE DEF step
  <2>. QED BY <1>2, <2>1
<1>4. ClassLevel \in [Classes -> Nat]
  BY ClassObject DEF ClassLevel
<1>5. PICK f \in F : Obeys(f, Classes, step)
  <2> HIDE DEF step
  <2>. QED BY <1>1, <1>3, <1>4, NoInfoIs, RecursionFromBelow
<1> DEFINE v(g, t) ==
             LET ChildInfo == g[ChildType[t]]
                 children_info[k \in 0 .. StaticDegree(t)] ==
                   LET Child_k   == g[ChildOfType(t, k)]
                       NextChild == children_info[k + 1]
                   IN  IF k = StaticDegree(t)
                         THEN [depth |-> 0, nodeCount |-> 0, leafCount |-> 0]
                         ELSE [depth |-> IF Child_k.depth > NextChild.depth
                                           THEN Child_k.depth ELSE NextChild.depth,
                               nodeCount |-> Child_k.nodeCount + NextChild.nodeCount,
                               leafCount |-> Child_k.leafCount + NextChild.leafCount]
                 Children == children_info[0]
             IN  CASE Tag[t] = "LeafNodeTag" ->
                        [depth |-> 1, nodeCount |-> 1, leafCount |-> 1]
                   [] Tag[t] = "PowerNodeTag" ->
                        [depth |-> 1 + ChildInfo.depth,
                         nodeCount |-> 1 + StaticDegree(t) * ChildInfo.nodeCount,
                         leafCount |-> StaticDegree(t) * ChildInfo.leafCount]
                   [] OTHER ->
                        [depth |-> 1 + Children.depth,
                         nodeCount |-> 1 + Children.nodeCount,
                         leafCount |-> Children.leafCount]
<1>6. ASSUME NEW g, NEW t PROVE v(g, t) = InfoStep(g, t)
  BY DEF InfoStep, ChildrenInfo, LeafInfo, Repeated, Above
<1>7. f = [t \in Classes |-> v(f, t)]
  <2> DEFINE w(t) == v(f, t)
  <2>1. \A t \in Classes : f[t] = w(t)
    <3> SUFFICES ASSUME NEW t \in Classes PROVE f[t] = v(f, t)
      OBVIOUS
    <3>1. f[t] = step[<< t, f >>]
      BY <1>5 DEF Obeys
    <3> HIDE DEF step, v
    <3>. QED BY <1>2, <1>6, <3>1
  <2> HIDE DEF w
  <2>2. f = [t \in Classes |-> w(t)]
    BY <2>1
  <2>. QED BY <2>2 DEF w
<1>8. \E g : g = [t \in Classes |-> v(g, t)]
  <2> HIDE DEF v
  <2>. QED BY <1>7
<1>9. TreeInfo = [t \in Classes |-> v(TreeInfo, t)]
  BY <1>8, ZenonT(60) DEF TreeInfo
<1>10. \A t \in Classes : TreeInfo[t] = InfoStep(TreeInfo, t)
  <2> DEFINE w(t) == v(TreeInfo, t)
  <2>1. TreeInfo = [t \in Classes |-> w(t)]
    BY <1>9
  <2>2. \A t \in Classes : w(t) = InfoStep(TreeInfo, t)
    BY <1>6
  <2> HIDE DEF w
  <2>. QED BY <2>1, <2>2
<1> HIDE DEF v, step
<1> DEFINE T == {t \in Classes : TreeInfo[t] \in Info}
<1>11. ASSUME NEW t \in Classes, \A u \in Classes : ClassLevel[u] < ClassLevel[t] => u \in T
       PROVE  t \in T
  BY <1>10, <1>11, InfoStepType
<1>12. Classes \subseteq T
  <2> HIDE DEF T
  <2>. QED BY <1>4, <1>11, RankInduction
<1>13. TreeInfo = [t \in Classes |-> TreeInfo[t]]
  <2> DEFINE w(t) == v(TreeInfo, t)
  <2>1. TreeInfo = [t \in Classes |-> w(t)]
    BY <1>9
  <2> HIDE DEF w
  <2>. QED BY <2>1
<1>. QED BY <1>10, <1>12, <1>13

-----------------------------------------------------------------------------
(* A condition on every node of a tree: what isStatic and isFilled are,    *)
(* unfolded.                                                               *)
EverywhereBelow(S, n, f) == n \in S /\ \A i \in 0 .. degree(n) - 1 : f[child(n, i)]

LEMMA ConditionExists ==
  ASSUME NEW S
  PROVE  \E f \in [Node -> BOOLEAN] : f = [n \in Node |-> EverywhereBelow(S, n, f)]
<1> DEFINE step == [x \in Node \X Seq(BOOLEAN) |->
                      x[1] \in S /\ \A i \in 1 .. Len(x[2]) : x[2][i] = TRUE]
<1>1. Child \in [Node -> Seq(Node)]
  BY TreeAssumption DEF NodeAssumption
<1>2. step \in [Node \X Seq(BOOLEAN) -> BOOLEAN]
  OBVIOUS
<1>3. Descends(Node, LevelOf, Child)
  BY LevelDecreases DEF Descends
<1>4. PICK f \in [Node -> BOOLEAN] : Follows(f, Node, BOOLEAN, Child, step)
  <2> HIDE DEF step
  <2>. QED BY <1>1, <1>2, <1>3, LevelDecreases, RankRecursion
<1>5. ASSUME NEW n \in Node PROVE f[n] = EverywhereBelow(S, n, f)
  <2>1. PICK c \in Seq(BOOLEAN) : MadeFrom(f, n, c, Child, step)
    BY <1>4 DEF Follows
  <2>2. /\ Len(c) = Len(Child[n])
        /\ \A k \in 1 .. Len(Child[n]) : c[k] = f[Child[n][k]]
        /\ f[n] = step[<< n, c >>]
    BY <2>1 DEF MadeFrom
  <2>3. f[n] = (n \in S /\ \A i \in 1 .. Len(c) : c[i] = TRUE)
    <3> DEFINE x == << n, c >>
    <3>1. x \in Node \X Seq(BOOLEAN) /\ x[1] = n /\ x[2] = c
      OBVIOUS
    <3> HIDE DEF x
    <3>2. step[x] = (n \in S /\ \A i \in 1 .. Len(c) : c[i] = TRUE)
      BY <3>1
    <3>. QED BY <2>2, <3>2 DEF x
  <2>4. Len(c) = degree(n) /\ degree(n) \in Nat
    BY <1>1, <2>2 DEF degree
  <2>5. \A k \in 1 .. Len(c) : c[k] \in BOOLEAN /\ c[k] = f[child(n, k - 1)]
    <3>1. \A k \in 1 .. Len(c) : c[k] \in BOOLEAN
      BY ElementOfSeq
    <3>2. \A k \in 1 .. Len(c) : (k - 1) + 1 = k
      BY <2>4
    <3>. QED BY <2>2, <3>1, <3>2 DEF child
  <2>6. (\A k \in 1 .. Len(c) : c[k] = TRUE) <=> \A i \in 0 .. degree(n) - 1 : f[child(n, i)]
    <3>1. ASSUME \A k \in 1 .. Len(c) : c[k] = TRUE, NEW i \in 0 .. degree(n) - 1
          PROVE  f[child(n, i)]
      <4>1. i + 1 \in 1 .. Len(c) /\ (i + 1) - 1 = i
        BY <2>4
      <4>2. c[i + 1] = TRUE /\ c[i + 1] = f[child(n, i)]
        BY <2>5, <3>1, <4>1
      <4>. QED BY <4>2
    <3>2. ASSUME \A i \in 0 .. degree(n) - 1 : f[child(n, i)], NEW k \in 1 .. Len(c)
          PROVE  c[k] = TRUE
      <4>1. k - 1 \in 0 .. degree(n) - 1
        BY <2>4
      <4>2. f[child(n, k - 1)]
        BY <3>2, <4>1
      <4>3. c[k] \in BOOLEAN /\ c[k] = f[child(n, k - 1)]
        BY <2>5
      <4>. QED BY <4>2, <4>3
    <3>. QED BY <3>1, <3>2
  <2>. QED BY <2>3, <2>6 DEF EverywhereBelow
<1>6. f = [n \in Node |-> EverywhereBelow(S, n, f)]
  BY <1>5
<1>. QED BY <1>6

LEMMA IsStaticUnfolds ==
  \A n \in Node :
    /\ isStatic[n] \in BOOLEAN
    /\ isStatic[n] <=> /\ TagOf(n) # "DynamicPowerNodeTag"
                       /\ \A i \in 0 .. degree(n) - 1 : isStatic[child(n, i)]
<1> DEFINE S == {n \in Node : TagOf(n) # "DynamicPowerNodeTag"}
           value(g, n) == /\ TagOf(n) # "DynamicPowerNodeTag"
                          /\ \A i \in 0 .. degree(n) - 1 : g[child(n, i)]
<1>1. PICK f \in [Node -> BOOLEAN] : f = [n \in Node |-> EverywhereBelow(S, n, f)]
  BY ConditionExists
<1>2. \A n \in Node : EverywhereBelow(S, n, f) = value(f, n)
  BY DEF EverywhereBelow
<1>3. f = [n \in Node |-> value(f, n)]
  <2> HIDE DEF value, S
  <2>. QED BY <1>1, <1>2
<1>4. \E g : g = [n \in Node |-> value(g, n)]
  BY <1>3
<1>5. isStatic = [n \in Node |-> value(isStatic, n)]
  BY <1>4, Zenon DEF isStatic
<1>6. ASSUME NEW n \in Node PROVE isStatic[n] = value(isStatic, n)
  BY <1>5
<1>. QED BY <1>6

LEMMA FilledUnfolds ==
  \A n \in Node :
    /\ isFilled[n] \in BOOLEAN
    /\ isFilled[n] <=> /\ isLeaf(n) \/ degree(n) > 0
                       /\ \A i \in 0 .. degree(n) - 1 : isFilled[child(n, i)]
<1> DEFINE S == {n \in Node : isLeaf(n) \/ degree(n) > 0}
           value(g, n) == /\ isLeaf(n) \/ degree(n) > 0
                          /\ \A i \in 0 .. degree(n) - 1 : g[child(n, i)]
<1>1. PICK f \in [Node -> BOOLEAN] : f = [n \in Node |-> EverywhereBelow(S, n, f)]
  BY ConditionExists
<1>2. \A n \in Node : EverywhereBelow(S, n, f) = value(f, n)
  BY DEF EverywhereBelow
<1>3. f = [n \in Node |-> value(f, n)]
  <2> HIDE DEF value, S
  <2>. QED BY <1>1, <1>2
<1>4. \E g : g = [n \in Node |-> value(g, n)]
  BY <1>3
<1>5. isFilled = [n \in Node |-> value(isFilled, n)]
  BY <1>4, Zenon DEF isFilled
<1>6. ASSUME NEW n \in Node PROVE isFilled[n] = value(isFilled, n)
  BY <1>5
<1>. QED BY <1>6

-----------------------------------------------------------------------------
(* TreeInfo, which reads classes only, next to the sums over the objects.  *)
OfClass == [n \in Node |-> TreeInfo[TypeOf[n]]]

(* What TreeInfo has of the class of a node that is not dynamic.           *)
LEMMA InfoOfNode ==
  ASSUME NEW n \in Node, TagOf(n) # "DynamicPowerNodeTag"
  PROVE  /\ TypeOf[n] \in Classes /\ TreeInfo[TypeOf[n]] \in Info
         /\ isLeaf(n) => TreeInfo[TypeOf[n]] = LeafInfo
         /\ TagOf(n) = "PowerNodeTag" =>
              \E c \in Info :
                /\ TreeInfo[TypeOf[n]] = Repeated(degree(n), c)
                /\ \A k \in 0 .. degree(n) - 1 : OfClass[child(n, k)] = c
         /\ TagOf(n) = "CompositeNodeTag" =>
              \E g : InfoChain(OfClass, n, g) /\ TreeInfo[TypeOf[n]] = Above(g[0])
<1> DEFINE t == TypeOf[n]
           w == objectOf(t)
<1>1. t \in Classes /\ w \in Node /\ TypeOf[w] = t
  BY ClassObject DEF Classes
<1> HIDE DEF t, w
<1>2. TreeInfo[t] \in Info /\ TreeInfo[t] = InfoStep(TreeInfo, t)
  BY <1>1, TreeInfoUnfolds
<1>3. TagOf(n) = Tag[t]
  BY DEF TagOf, t
<1>4. degree(w) = degree(n) /\ degree(n) \in Nat
  BY <1>1, TreeAssumption DEF ClassAssumption, NodeAssumption, degree, t
<1>5. StaticDegree(t) = degree(n)
  BY <1>4 DEF StaticDegree, w
<1>6. isLeaf(n) => TreeInfo[t] = LeafInfo
  BY <1>2, <1>3 DEF isLeaf, InfoStep
<1>7. ASSUME TagOf(n) = "PowerNodeTag"
      PROVE  \E c \in Info : /\ TreeInfo[t] = Repeated(degree(n), c)
                             /\ \A k \in 0 .. degree(n) - 1 : OfClass[child(n, k)] = c
  <2> DEFINE c == TreeInfo[ChildType[t]]
  <2>1. c \in Info
    BY <1>1, <1>3, <1>7, ClassBelow, TreeInfoUnfolds
  <2>2. TreeInfo[t] = Repeated(degree(n), c)
    BY <1>2, <1>3, <1>5, <1>7 DEF InfoStep
  <2>3. ASSUME NEW k \in 0 .. degree(n) - 1 PROVE OfClass[child(n, k)] = c
    <3>1. child(n, k) \in Node
      BY NodeBelow
    <3>2. TypeOf[child(n, k)] = ChildType[t]
      BY <1>7, ChildTypeAssumption DEF t
    <3>. QED BY <3>1, <3>2 DEF OfClass
  <2>. QED BY <2>1, <2>2, <2>3
<1>8. ASSUME TagOf(n) = "CompositeNodeTag"
      PROVE  \E g : InfoChain(OfClass, n, g) /\ TreeInfo[t] = Above(g[0])
  <2>1. ASSUME NEW k \in 0 .. degree(n) - 1
        PROVE  ChildOfType(t, k) = TypeOf[child(n, k)] /\ child(n, k) \in Node
    <3>1. k + 1 \in 1 .. Len(Child[n])
      BY <1>4 DEF degree
    <3>2. TypeOf[Child[w][k + 1]] = TypeOf[Child[n][k + 1]]
      BY <1>1, <1>8, <3>1, TreeAssumption DEF ClassAssumption, t
    <3>3. child(n, k) \in Node
      BY NodeBelow
    <3>. QED BY <3>2, <3>3 DEF ChildOfType, child, w
  <2>2. \A k \in 0 .. StaticDegree(t) - 1 : TreeInfo[ChildOfType(t, k)] \in Info
    BY <1>1, ClassBelow, TreeInfoUnfolds
  <2>3. PICK g : Joins(StaticDegree(t), OfTypes(TreeInfo, t), g)
                 /\ ChildrenInfo(TreeInfo, t) = g[0]
    BY <1>1, <2>2, ChildrenInfoJoins
  <2>4. OfTypes(TreeInfo, t) = OfChildren(OfClass, n)
    BY <1>5, <2>1 DEF OfTypes, OfChildren, OfClass
  <2>5. TreeInfo[t] = Above(g[0])
    BY <1>2, <1>3, <1>8, <2>3 DEF InfoStep
  <2>. QED BY <1>5, <2>3, <2>4, <2>5 DEF InfoChain
<1>. QED BY <1>1, <1>2, <1>6, <1>7, <1>8 DEF t

(* x counts what y counts and is as deep or, unless everything is filled,  *)
(* deeper.                                                                 *)
Covers(x, y, filled) ==
  /\ x.leafCount = y.leafCount /\ x.nodeCount = y.nodeCount
  /\ y.depth <= x.depth /\ (filled => y.depth = x.depth)

LEMMA CoversJoined ==
  ASSUME NEW x \in Info, NEW y \in Info, NEW p \in Info, NEW q \in Info,
         NEW a \in BOOLEAN, NEW b \in BOOLEAN, Covers(x, y, a), Covers(p, q, b)
  PROVE  Covers(Joined(x, p), Joined(y, q), a /\ b)
<1>1. /\ x.depth \in Nat /\ x.nodeCount \in Nat /\ x.leafCount \in Nat
      /\ y.depth \in Nat /\ y.nodeCount \in Nat /\ y.leafCount \in Nat
      /\ p.depth \in Nat /\ p.nodeCount \in Nat /\ p.leafCount \in Nat
      /\ q.depth \in Nat /\ q.nodeCount \in Nat /\ q.leafCount \in Nat
  BY DEF Info
<1>. QED BY <1>1, JoinedIs DEF Covers, Larger

Filled(n) == \A k \in 0 .. degree(n) - 1 : isFilled[child(n, k)]

(* The children of a composite node,                                       *)
LEMMA ChainCovers ==
  ASSUME NEW n \in Node,
         \A k \in 0 .. degree(n) - 1 :
           Covers(OfClass[child(n, k)], Summed[child(n, k)], isFilled[child(n, k)]),
         NEW g, InfoChain(OfClass, n, g), NEW h, InfoChain(Summed, n, h)
  PROVE  Covers(g[0], h[0], Filled(n))
<1> DEFINE d == degree(n)
           T == {k \in 0 .. d : Covers(g[k], h[k], Filled(n))}
<1>1. d \in Nat
  BY TreeAssumption DEF NodeAssumption, degree
<1>2. Joins(d, OfChildren(OfClass, n), g) /\ Joins(d, OfChildren(Summed, n), h)
  BY DEF InfoChain
<1> DEFINE b == OfChildren(OfClass, n)
           c == OfChildren(Summed, n)
<1>3. ASSUME NEW k \in 0 .. d - 1
      PROVE  /\ b[k] \in Info /\ c[k] \in Info /\ Covers(b[k], c[k], isFilled[child(n, k)])
             /\ isFilled[child(n, k)] \in BOOLEAN
  <2>1. child(n, k) \in Node
    BY NodeBelow
  <2>2. b[k] = OfClass[child(n, k)] /\ c[k] = Summed[child(n, k)]
    BY DEF OfChildren
  <2>3. OfClass[child(n, k)] \in Info
    BY <2>1, TreeInfoUnfolds DEF OfClass, Classes
  <2>4. Summed[child(n, k)] \in Info
    BY <2>1, SummedUnfolds
  <2>. QED BY <2>1, <2>2, <2>3, <2>4, FilledUnfolds
<1>4. Filled(n) \in BOOLEAN /\ (Filled(n) => \A k \in 0 .. d - 1 : isFilled[child(n, k)])
  BY DEF Filled
<1> HIDE DEF d, b, c
<1>5. d \in T
  <2>1. g[d] = NoInfo /\ h[d] = NoInfo /\ d \in 0 .. d
    BY <1>1, <1>2 DEF Joins
  <2>2. NoInfo.depth = 0
    BY DEF NoInfo
  <2>. QED BY <2>1, <2>2 DEF Covers
<1>6. ASSUME NEW k \in 0 .. d - 1, k + 1 \in T PROVE k \in T
  <2>1. /\ k \in 0 .. d /\ k + 1 \in 0 .. d /\ Covers(g[k + 1], h[k + 1], Filled(n))
    BY <1>1, <1>6
  <2>2. /\ g[k] = Joined(b[k], g[k + 1]) /\ h[k] = Joined(c[k], h[k + 1])
        /\ g[k + 1] \in Info /\ h[k + 1] \in Info
    BY <1>2, <2>1 DEF Joins, b, c
  <2>3. Covers(Joined(b[k], g[k + 1]), Joined(c[k], h[k + 1]), isFilled[child(n, k)] /\ Filled(n))
    BY <1>3, <1>4, <2>1, <2>2, CoversJoined
  <2>4. Covers(g[k], h[k], Filled(n))
    BY <1>4, <2>2, <2>3 DEF Covers
  <2>. QED BY <2>1, <2>4
<1>7. 0 .. d \subseteq T
  <2> HIDE DEF T
  <2>. QED BY <1>1, <1>5, <1>6, DownFrom
<1>8. 0 \in 0 .. d
  BY <1>1
<1>. QED BY <1>7, <1>8

(* and those of a power node.                                              *)
LEMMA RepeatedCovers ==
  ASSUME NEW n \in Node, NEW x \in Info,
         \A k \in 0 .. degree(n) - 1 : Covers(x, Summed[child(n, k)], isFilled[child(n, k)]),
         NEW h, InfoChain(Summed, n, h)
  PROVE  Covers(Repeated(degree(n), x), Above(h[0]), degree(n) > 0 /\ Filled(n))
<1> DEFINE d == degree(n)
           c == OfChildren(Summed, n)
           T == {k \in 0 .. d : /\ h[k].nodeCount = (d - k) * x.nodeCount
                                /\ h[k].leafCount = (d - k) * x.leafCount
                                /\ h[k].depth <= x.depth
                                /\ Filled(n) /\ k < d => h[k].depth = x.depth}
<1>1. d \in Nat
  BY TreeAssumption DEF NodeAssumption, degree
<1>2. Joins(d, c, h)
  BY DEF InfoChain
<1>3. ASSUME NEW k \in 0 .. d - 1
      PROVE  c[k] \in Info /\ Covers(x, c[k], isFilled[child(n, k)])
  <2>1. child(n, k) \in Node /\ c[k] = Summed[child(n, k)]
    BY NodeBelow DEF OfChildren
  <2>. QED BY <2>1, SummedUnfolds
<1>4. Filled(n) => \A k \in 0 .. d - 1 : isFilled[child(n, k)]
  BY DEF Filled
<1>5. x.depth \in Nat /\ x.nodeCount \in Nat /\ x.leafCount \in Nat
  BY DEF Info
<1> HIDE DEF d, c
<1>6. d \in T
  <2>1. h[d] = NoInfo /\ d \in 0 .. d /\ d - d = 0
    BY <1>1, <1>2 DEF Joins
  <2>2. NoInfo.depth = 0 /\ NoInfo.nodeCount = 0 /\ NoInfo.leafCount = 0
    BY DEF NoInfo
  <2>3. 0 * x.nodeCount = 0 /\ 0 * x.leafCount = 0
    BY <1>5
  <2>. QED BY <1>1, <1>5, <2>1, <2>2, <2>3
<1>7. ASSUME NEW k \in 0 .. d - 1, k + 1 \in T PROVE k \in T
  <2>1. k \in 0 .. d /\ k + 1 \in 0 .. d /\ k < d /\ d - k = (d - (k + 1)) + 1
    BY <1>1
  <2>2. h[k] = Joined(c[k], h[k + 1]) /\ h[k + 1] \in Info /\ c[k] \in Info
    BY <1>2, <1>3, <2>1 DEF Joins
  <2>3. PICK y : y = c[k]
    OBVIOUS
  <2>4. PICK r : r = h[k + 1]
    OBVIOUS
  <2>5. /\ h[k].depth = Larger(y.depth, r.depth) /\ h[k].nodeCount = y.nodeCount + r.nodeCount
        /\ h[k].leafCount = y.leafCount + r.leafCount
    BY <2>2, <2>3, <2>4, JoinedIs
  <2>6. /\ y.nodeCount = x.nodeCount /\ y.leafCount = x.leafCount /\ y.depth <= x.depth
        /\ Filled(n) => y.depth = x.depth
        /\ y.depth \in Nat /\ r.depth \in Nat
    BY <1>3, <1>4, <2>2, <2>3, <2>4 DEF Covers, Info
  <2>7. PICK j \in Nat : j = d - (k + 1)
    BY <1>1
  <2>8. r.nodeCount = j * x.nodeCount /\ r.leafCount = j * x.leafCount /\ r.depth <= x.depth
    BY <1>7, <2>4, <2>7
  <2>9. \A i \in Nat : i + j * i = (j + 1) * i
    OBVIOUS
  <2>10. x.nodeCount + j * x.nodeCount = (j + 1) * x.nodeCount
    BY <1>5, <2>9
  <2>11. x.leafCount + j * x.leafCount = (j + 1) * x.leafCount
    BY <1>5, <2>9
  <2>12. Larger(y.depth, r.depth) <= x.depth
         /\ (Filled(n) => Larger(y.depth, r.depth) = x.depth)
    BY <1>5, <2>6, <2>8 DEF Larger
  <2>13. d - k = j + 1
    BY <2>1, <2>7
  <2>. QED BY <2>1, <2>5, <2>6, <2>8, <2>10, <2>11, <2>12, <2>13
<1>8. 0 .. d \subseteq T
  <2> HIDE DEF T
  <2>. QED BY <1>1, <1>6, <1>7, DownFrom
<1>9. 0 \in 0 .. d /\ d - 0 = d /\ (d > 0 => 0 < d)
  BY <1>1
<1>10. /\ h[0].nodeCount = d * x.nodeCount /\ h[0].leafCount = d * x.leafCount
       /\ h[0].depth <= x.depth /\ (Filled(n) /\ 0 < d => h[0].depth = x.depth)
  BY <1>8, <1>9
<1>11. h[0] \in Info
  BY <1>2, <1>9 DEF Joins
<1>12. h[0].depth \in Nat
  BY <1>11 DEF Info
<1>13. /\ Repeated(d, x).depth = 1 + x.depth /\ Repeated(d, x).nodeCount = 1 + d * x.nodeCount
       /\ Repeated(d, x).leafCount = d * x.leafCount
  BY DEF Repeated
<1>14. 1 + h[0].depth <= 1 + x.depth
  BY <1>5, <1>10, <1>12
<1>. QED BY <1>9, <1>10, <1>11, <1>13, <1>14, AboveIs DEF Covers, d

(* For a tree without dynamic nodes TreeInfo counts the nodes and leafs    *)
(* the objects make up, and its depth is theirs or, above an inner node    *)
(* without children, more.                                                 *)
LEMMA InfoIsSum ==
  \A n \in Node : isStatic[n] => Covers(TreeInfo[TypeOf[n]], Summed[n], isFilled[n])
<1> DEFINE T == {n \in Node : isStatic[n] => Covers(OfClass[n], Summed[n], isFilled[n])}
<1>1. ASSUME NEW n \in Node, \A e \in Node : LevelOf[e] < LevelOf[n] => e \in T
      PROVE  n \in T
  <2> SUFFICES ASSUME isStatic[n] PROVE Covers(OfClass[n], Summed[n], isFilled[n])
    OBVIOUS
  <2>1. TagOf(n) # "DynamicPowerNodeTag" /\ \A k \in 0 .. degree(n) - 1 : isStatic[child(n, k)]
    BY IsStaticUnfolds
  <2>2. ASSUME NEW k \in 0 .. degree(n) - 1
        PROVE  Covers(OfClass[child(n, k)], Summed[child(n, k)], isFilled[child(n, k)])
    <3>1. child(n, k) \in T
      BY <1>1, NodeBelow
    <3>. QED BY <2>1, <3>1
  <2> HIDE DEF T
  <2>3. OfClass[n] = TreeInfo[TypeOf[n]]
    BY DEF OfClass
  <2>4. InfoBelow(Summed, n) /\ SumsUp(Summed, n)
    BY SummedUnfolds
  <2>5. isFilled[n] => (isLeaf(n) \/ degree(n) > 0) /\ Filled(n)
    BY FilledUnfolds DEF Filled
  <2>6. CASE isLeaf(n)
    <3>1. OfClass[n] = LeafInfo /\ Summed[n] = LeafInfo
      BY <2>1, <2>3, <2>4, <2>6, InfoOfNode DEF SumsUp
    <3>2. LeafInfo.depth = 1
      BY DEF LeafInfo
    <3>. QED BY <3>1, <3>2 DEF Covers
  <2>7. CASE TagOf(n) = "PowerNodeTag"
    <3>1. ~ isLeaf(n)
      BY <2>7 DEF isLeaf
    <3>2. PICK h : InfoChain(Summed, n, h) /\ Summed[n] = Above(h[0])
      BY <2>4, <3>1 DEF SumsUp
    <3>3. PICK x \in Info : /\ TreeInfo[TypeOf[n]] = Repeated(degree(n), x)
                            /\ \A k \in 0 .. degree(n) - 1 : OfClass[child(n, k)] = x
      BY <2>1, <2>7, InfoOfNode
    <3>4. \A k \in 0 .. degree(n) - 1 : Covers(x, Summed[child(n, k)], isFilled[child(n, k)])
      BY <2>2, <3>3
    <3>5. Covers(Repeated(degree(n), x), Above(h[0]), degree(n) > 0 /\ Filled(n))
      BY <3>2, <3>4, RepeatedCovers
    <3>. QED BY <2>3, <2>5, <3>1, <3>2, <3>3, <3>5 DEF Covers
  <2>8. CASE TagOf(n) = "CompositeNodeTag"
    <3>1. ~ isLeaf(n)
      BY <2>8 DEF isLeaf
    <3>2. PICK h : InfoChain(Summed, n, h) /\ Summed[n] = Above(h[0])
      BY <2>4, <3>1 DEF SumsUp
    <3>3. PICK g : InfoChain(OfClass, n, g) /\ TreeInfo[TypeOf[n]] = Above(g[0])
      BY <2>1, <2>8, InfoOfNode
    <3>4. Covers(g[0], h[0], Filled(n))
      BY <2>2, <3>2, <3>3, ChainCovers
    <3>5. g[0] \in Info /\ h[0] \in Info
      <4>1. 0 \in 0 .. degree(n)
        BY <2>4, ChainsExist
      <4>. QED BY <3>2, <3>3, <4>1 DEF InfoChain, Joins
    <3>6. g[0].depth \in Nat /\ h[0].depth \in Nat
      BY <3>5 DEF Info
    <3>7. Covers(Above(g[0]), Above(h[0]), Filled(n))
      BY <3>4, <3>5, <3>6, AboveIs DEF Covers
    <3>. QED BY <2>3, <2>5, <3>2, <3>3, <3>7 DEF Covers
  <2>9. isLeaf(n) \/ TagOf(n) = "PowerNodeTag" \/ TagOf(n) = "CompositeNodeTag"
    <3>1. TagOf(n) \in NodeTags
      BY TreeAssumption DEF NodeAssumption, TagOf
    <3>. QED BY <2>1, <3>1 DEF NodeTags, isLeaf
  <2>. QED BY <2>6, <2>7, <2>8, <2>9
<1>2. Node \subseteq T
  <2> HIDE DEF T
  <2>. QED BY <1>1, LevelDecreases, RankInduction
<1>. QED BY <1>2 DEF OfClass

=============================================================================
