------------------------- MODULE HybridTraversalProofs -------------------------
(***************************************************************************)
(* Proofs about hybridApplyToTree (module HybridTraversal), for every set  *)
(* of nodes that satisfies TreeAssumption: the traversal is well typed, it *)
(* makes the callbacks of applyToTree, and the value handed from callback  *)
(* to callback is what all callbacks made of it, except where the value of *)
(* a destroyed object was read.                                            *)
(*                                                                         *)
(* What the counting visitors return is compared with the tree in two      *)
(* parts: where the value is stored, by DInv, which says what the          *)
(* traversal has met so far, and what it is, by SInv, a balance between    *)
(* what the callbacks have contributed and what the activations have left  *)
(* to do, node counts and all being those of TreeInfo.                     *)
(***************************************************************************)
EXTENDS HybridTraversal, StackLemmas, SequenceTheorems, FiniteSetTheorems, TLAPS

Callback == {"pre", "beforeChild", "in", "afterChild", "post", "leaf"}

(* The depth visitor carries its value in a type, out of reach of the      *)
(* destruction of temporaries.                                             *)
Carriable(kind) == {v \in Value : kind = "depth" => v.storage = "type"}

(* The index is not past the children of the node, an inner one.           *)
Within(n, i) == ~ isLeaf(n) /\ i <= degree(n)

(* The activations with such a value and, inside the loop body, with the   *)
(* index of a child.                                                       *)
Sound(kind) ==
  {f \in Frame : /\ f.val \in Carriable(kind)
                 /\ IF f.pc = "start" THEN f.i = 0 ELSE Within(f.node, f.i)
                 /\ f.pc \in {"in", "visitChild", "afterChild"} =>
                      f.i < degree(f.node)}

(* v is the value u, if it is one.                                         *)
Amounts(v, u) == v = Indeterminate \/ v.n = u

(* The largest number of S; the depths met so far have one.                *)
IsLargest(m, S) == m \in S /\ \A x \in S : x <= m

(* The inductive invariant.                                                *)
IInv ==
  /\ TypeOK
  /\ stack \in Seq(Sound(visitor.kind))
  /\ \E m \in Nat : IsLargest(m, leafDepths)
  /\ leafDepths \subseteq Nat
  /\ EveryCallbackCounts

-----------------------------------------------------------------------------
LEMMA LargestIsMax ==
  ASSUME NEW S \in SUBSET Nat, NEW m \in Nat, IsLargest(m, S)
  PROVE  Max(S) = m
<1>1. ASSUME NEW x \in S, \A y \in S : x >= y PROVE x = m
  BY <1>1 DEF IsLargest
<1>2. \A y \in S : m >= y
  BY DEF IsLargest
<1>. QED BY <1>1, <1>2 DEF Max, IsLargest

LEMMA CarriableIsTyped ==
  ASSUME NEW kind, NEW v \in Carriable(kind)
  PROVE  /\ v \in Value /\ v.storage \in {"type", "memory"}
         /\ v = Indeterminate \/ v.n \in Nat
         /\ v = Indeterminate => v.n = -1 /\ v.storage = "memory" /\ kind # "depth"
         /\ v = [storage |-> v.storage, n |-> v.n]
BY DEF Carriable, Value, Indeterminate

(* The innermost activation.                                               *)
LEMMA TopIsSound ==
  ASSUME IInv, stack # << >>
  PROVE  /\ Len(stack) \in 1 .. Len(stack) /\ Top = stack[Len(stack)]
         /\ Top \in Sound(visitor.kind) /\ Top \in Frame
         /\ Top.node \in Node /\ Top.i \in Nat /\ Top.path \in TreePath
         /\ Top.val \in Carriable(visitor.kind)
         /\ Amounts(Top.val, expected)
<1>1. Len(stack) \in 1 .. Len(stack) /\ Top = stack[Len(stack)]
  BY DEF IInv, TypeOK, Top, Last
<1>2. Top \in Sound(visitor.kind)
  BY <1>1, ElementOfSeq DEF IInv
<1>3. Amounts(Top.val, expected)
  BY DEF IInv, EveryCallbackCounts, carried, Done, Amounts
<1>. QED BY <1>1, <1>2, <1>3 DEF Sound, Frame

LEMMA DegreeIsNat == \A n \in Node : degree(n) \in Nat
<1>1. Child \in [Node -> Seq(Node)]
  BY TreeAssumption DEF NodeAssumption
<1>. QED BY <1>1 DEF degree

LEMMA ChildIsNode ==
  ASSUME NEW n \in Node, NEW i \in Nat, i < degree(n)
  PROVE  child(n, i) \in Node
<1>1. Child[n] \in Seq(Node)
  BY TreeAssumption DEF NodeAssumption
<1>2. i + 1 \in 1 .. Len(Child[n])
  BY <1>1 DEF degree
<1>. QED BY <1>1, <1>2, ElementOfSeq DEF child

(* When there is no next index, the loop is past the last child, and with  *)
(* run-time indices it has been through its body once at least.            *)
LEMMA LoopIsOver ==
  ASSUME IInv, stack # << >>, Top.pc = "loop", ~ NextIndexTaken
  PROVE  /\ Top.i = degree(Top.node)
         /\ ~ StaticIndices(visitor, Top.node) => Top.i > 0
<1> DEFINE d == degree(Top.node)
           i == Top.i
<1>1. i \in Nat /\ d \in Nat /\ i <= d
  BY TopIsSound, DegreeIsNat DEF Sound, Within
<1>2. CASE StaticIndices(visitor, Top.node)
  <2>1. ~ i < d
    BY <1>2 DEF NextIndexTaken
  <2> HIDE DEF d, i
  <2>2. i = d
    BY <1>1, <2>1
  <2>. QED BY <1>2, <2>2 DEF d, i
<1>3. CASE ~ StaticIndices(visitor, Top.node)
  <2> DEFINE m == IF d > 1 THEN d ELSE 1
  <2>1. ~ i < Max({1, d})
    BY <1>3 DEF NextIndexTaken
  <2> HIDE DEF d, i
  <2>2. {1, d} \in SUBSET Nat /\ m \in Nat /\ IsLargest(m, {1, d}) /\ m > 0 /\ m >= d
    BY <1>1 DEF IsLargest
  <2>3. Max({1, d}) = m
    <3> HIDE DEF m
    <3>. QED BY <2>2, LargestIsMax
  <2> HIDE DEF m
  <2>4. i = d /\ i > 0
    BY <1>1, <2>1, <2>2, <2>3
  <2>. QED BY <2>4 DEF d, i
<1>. QED BY <1>2, <1>3

LEMMA KindIsKnown ==
  ASSUME TypeOK
  PROVE  visitor.kind \in Kinds
BY HybridVisitorAssumption DEF TypeOK, VisitorType

-----------------------------------------------------------------------------
(* What a callback adds to the log, and to what the log amounts to.        *)
LEMMA CountGrows ==
  ASSUME log \in Seq(Event), NEW e, log' = Append(log, e), NEW cbs
  PROVE  Count(cbs)' = Count(cbs) + (IF e.cb \in cbs THEN 1 ELSE 0) /\ Count(cbs) \in Nat
<1> DEFINE K == {k \in 1 .. Len(log) : log[k].cb \in cbs}
           L == {k \in 1 .. Len(log') : log'[k].cb \in cbs}
           n == Len(log) + 1
<1>1. Len(log) \in Nat /\ Len(log') = n /\ log'[n] = e
      /\ \A k \in 1 .. Len(log) : log'[k] = log[k]
  OBVIOUS
<1>2. IsFiniteSet(K) /\ n \notin K /\ Cardinality(K) \in Nat
  <2>1. IsFiniteSet(1 .. Len(log))
    BY <1>1, FS_Interval
  <2>2. IsFiniteSet(K)
    BY <2>1, FS_Subset
  <2>. QED BY <1>1, <2>2, FS_CardinalityType
<1>3. L = IF e.cb \in cbs THEN K \cup {n} ELSE K
  BY <1>1
<1>4. Count(cbs) = Cardinality(K) /\ Count(cbs)' = Cardinality(L)
  BY DEF Count
<1> HIDE DEF K, L, n
<1>5. CASE e.cb \in cbs
  BY <1>2, <1>3, <1>4, <1>5, FS_AddElement
<1>6. CASE e.cb \notin cbs
  BY <1>2, <1>3, <1>4, <1>6
<1>. QED BY <1>5, <1>6

LEMMA DepthsGrow ==
  ASSUME log \in Seq(Event), NEW e \in Event, log' = Append(log, e)
  PROVE  leafDepths' = leafDepths \cup (IF e.cb = "leaf" THEN {Len(e.path) + 1} ELSE {})
<1>1. ToSet(log') = ToSet(log) \cup {e}
  BY DEF ToSet
<1>. QED BY <1>1 DEF leafDepths

LEMMA LargestStays ==
  ASSUME IInv, NEW e \in Event, log' = Append(log, e)
  PROVE  /\ leafDepths' \subseteq Nat
         /\ \E m \in Nat : IsLargest(m, leafDepths)'
         /\ e.cb # "leaf" => Max(leafDepths') = Max(leafDepths)
         /\ e.cb = "leaf" =>
              Max(leafDepths') = IF Max(leafDepths) < Len(e.path) + 1
                                   THEN Len(e.path) + 1
                                   ELSE Max(leafDepths)
<1> DEFINE y == Len(e.path) + 1
           D == leafDepths
           E == leafDepths'
<1>1. y \in Nat
  BY DEF Event, TreePath
<1>2. E = D \cup (IF e.cb = "leaf" THEN {y} ELSE {})
  BY DepthsGrow DEF IInv, TypeOK
<1>3. D \in SUBSET Nat
  BY DEF IInv
<1>4. PICK m \in Nat : IsLargest(m, D)
  BY DEF IInv
<1> DEFINE u == IF e.cb = "leaf" /\ m < y THEN y ELSE m
<1> HIDE DEF y, D, E
<1>5. E \in SUBSET Nat /\ u \in Nat /\ IsLargest(u, E)
  BY <1>1, <1>2, <1>3, <1>4 DEF IsLargest
<1>6. Max(D) = m /\ Max(E) = u
  BY <1>3, <1>4, <1>5, LargestIsMax
<1>7. (\E x \in Nat : IsLargest(x, leafDepths))'
  BY <1>5 DEF IsLargest, E
<1>. QED BY <1>5, <1>6, <1>7 DEF y, D, E

(* What the callbacks do with a value.                                     *)
LEMMA OneMore ==
  ASSUME NEW kind, NEW v \in Carriable(kind), NEW u \in Nat, Amounts(v, u)
  PROVE  plus1(v) \in Carriable(kind) /\ Amounts(plus1(v), u + 1)
<1>1. CASE v = Indeterminate
  BY <1>1 DEF plus1, Amounts
<1>2. CASE v # Indeterminate
  <2>1. v \in [storage : {"type", "memory"}, n : Nat] /\ v.n = u
    BY <1>2 DEF Carriable, Value, Amounts
  <2>2. plus1(v) = [v EXCEPT !.n = u + 1]
    BY <1>2, <2>1 DEF plus1
  <2>. QED BY <2>1, <2>2 DEF Carriable, Value, Amounts
<1>. QED BY <1>1, <1>2

LEMMA ToMemory ==
  ASSUME NEW kind, kind # "depth", NEW v \in Carriable(kind), NEW u, Amounts(v, u)
  PROVE  /\ [v EXCEPT !.storage = "memory"] \in Carriable(kind)
         /\ Amounts([v EXCEPT !.storage = "memory"], u)
<1>1. CASE v = Indeterminate
  BY <1>1 DEF Carriable, Value, Amounts, Indeterminate
<1>2. CASE v # Indeterminate
  BY <1>2 DEF Carriable, Value, Amounts
<1>. QED BY <1>1, <1>2

(* The new value is what the new log amounts to: every callback adds to    *)
(* the value what it adds to the log.                                      *)
LEMMA CallCounts ==
  ASSUME IInv, stack # << >>, NEW cb \in Callback, Call(cb), visitor' = visitor,
         NEW f \in Sound(visitor.kind), f.path = Top.path,
         Amounts(f.val, expected)
  PROVE  /\ log' \in Seq(Event)
         /\ leafDepths' \subseteq Nat /\ \E m \in Nat : IsLargest(m, leafDepths)'
         /\ Applied(cb, f) \in Carriable(visitor.kind)
         /\ Amounts(Applied(cb, f), expected')
<1> DEFINE e == [cb |-> cb, node |-> Top.node, path |-> Top.path, index |-> Top.i]
           v == Applied(cb, f)
           kind == visitor.kind
<1>1. e \in Event /\ e.cb = cb /\ e.path = f.path
  BY TopIsSound DEF Event, Callback
<1>2. log \in Seq(Event) /\ log' = Append(log, e)
  BY DEF IInv, TypeOK, Call
<1> HIDE DEF e
<1>3. log' \in Seq(Event) /\ Len(log') = Len(log) + 1 /\ Len(log) \in Nat
  BY <1>1, <1>2
<1>4. f.val \in Carriable(kind) /\ f.path \in TreePath /\ kind \in Kinds
  BY TopIsSound, KindIsKnown DEF Sound, IInv
<1>5. leafDepths' \subseteq Nat /\ \E m \in Nat : IsLargest(m, leafDepths)'
  BY <1>1, <1>2, LargestStays
<1>6. CASE kind = "client"
  <2>1. v = plus1(f.val) /\ expected = Len(log) /\ expected' = Len(log) + 1
    BY <1>3, <1>6 DEF Applied, expected
  <2>. QED BY <1>3, <1>4, <1>5, <2>1, OneMore
<1>7. CASE kind \in {"leafCount", "nodeCount"}
  <2> DEFINE cbs == IF kind = "leafCount" THEN {"leaf"} ELSE {"leaf", "pre"}
  <2>1. expected = Count(cbs) /\ expected' = Count(cbs)'
    BY <1>7 DEF expected
  <2>2. /\ Count(cbs)' = Count(cbs) + (IF cb \in cbs THEN 1 ELSE 0)
        /\ Count(cbs) \in Nat
    BY <1>1, <1>2, CountGrows
  <2>3. CASE cb \in cbs
    <3>1. v = plus1(f.val)
      BY <1>7, <2>3 DEF Applied
    <3>. HIDE DEF cbs
    <3>. QED BY <1>3, <1>4, <1>5, <2>1, <2>2, <2>3, <3>1, OneMore
  <2>4. CASE cb \notin cbs
    <3>1. v \in {f.val, [f.val EXCEPT !.storage = "memory"]}
      BY <1>7, <2>4 DEF Applied
    <3>2. expected' = expected
      <4>. HIDE DEF cbs
      <4>. QED BY <2>1, <2>2, <2>4
    <3>3. kind # "depth"
      BY <1>7
    <3>. QED BY <1>3, <1>4, <1>5, <3>1, <3>2, <3>3, ToMemory
  <2>. QED BY <2>3, <2>4
<1>8. CASE kind = "depth"
  <2>1. expected = Max(leafDepths) /\ expected' = Max(leafDepths')
    BY <1>8 DEF expected
  <2>2. f.val.storage = "type" /\ f.val.n = Max(leafDepths) /\ f.val # Indeterminate
    BY <1>4, <1>8, <2>1, CarriableIsTyped DEF Amounts, Carriable
  <2>3. /\ cb # "leaf" => Max(leafDepths') = Max(leafDepths)
        /\ cb = "leaf" =>
              Max(leafDepths') = IF Max(leafDepths) < Len(f.path) + 1
                                   THEN Len(f.path) + 1
                                   ELSE Max(leafDepths)
    BY <1>1, <1>2, LargestStays
  <2>4. v = IF cb = "leaf" /\ Max(leafDepths) < Len(f.path) + 1
              THEN [storage |-> "type", n |-> Len(f.path) + 1]
              ELSE f.val
    BY <1>8, <2>2 DEF Applied
  <2>5. v \in Carriable(kind)
    BY <1>4, <2>4 DEF Carriable, Value, TreePath
  <2>6. v.n = Max(leafDepths')
    BY <2>2, <2>3, <2>4
  <2>. QED BY <1>3, <1>5, <2>1, <2>5, <2>6 DEF Amounts
<1>. QED BY <1>4, <1>6, <1>7, <1>8 DEF Kinds

-----------------------------------------------------------------------------
(* The three ways the value travels: it stays in the innermost activation, *)
(* moves into a new one, or back into the one that waits.                  *)
LEMMA StaysOnTop ==
  ASSUME IInv, stack # << >>, NEW f \in Sound(visitor.kind), UNCHANGED result,
         stack' = [stack EXCEPT ![Len(stack)] = f]
  PROVE  /\ stack' \in Seq(Sound(visitor.kind)) /\ carried' = {f.val}
         /\ result' \in SUBSET Value
<1>1. /\ stack' \in Seq(Sound(visitor.kind)) /\ stack' # << >>
      /\ Len(stack') = Len(stack) /\ stack'[Len(stack)] = f
  BY ReplaceTop DEF IInv
<1>. QED BY <1>1 DEF carried, Done, Top, Last, IInv, TypeOK

LEMMA GoesBack ==
  ASSUME IInv, stack # << >>, NEW v \in Carriable(visitor.kind), Return(v)
  PROVE  /\ stack' \in Seq(Sound(visitor.kind)) /\ carried' = {v}
         /\ result' \in SUBSET Value
<1> DEFINE s == Front(stack)
           n == Len(stack) - 1
<1>1. v \in Value
  BY DEF Carriable
<1>2. CASE Len(stack) = 1
  BY <1>1, <1>2 DEF Return, carried, Done
<1>3. CASE Len(stack) # 1
  <2>1. Len(stack) \in Nat /\ Len(stack) >= 1
    BY TopIsSound
  <2>2. s \in Seq(Sound(visitor.kind)) /\ Len(s) = n
    BY PopTop DEF IInv
  <2>n. n \in 1 .. n /\ s # << >>
    BY <1>3, <2>1, <2>2
  <2>3. stack' = [s EXCEPT ![n].val = v] /\ result' = result
    BY <1>3 DEF Return
  <2> DEFINE f == [s[n] EXCEPT !.val = v]
  <2> HIDE DEF s, n
  <2>4. s[n] \in Sound(visitor.kind)
    BY <2>2, <2>n, ElementOfSeq
  <2>5. f \in Sound(visitor.kind) /\ f.val = v
    BY <1>1, <2>4 DEF Sound, Frame
  <2>6. stack' = [s EXCEPT ![Len(s)] = f]
    BY <2>2, <2>3
  <2> HIDE DEF f
  <2>7. /\ stack' \in Seq(Sound(visitor.kind)) /\ stack' # << >>
        /\ stack'[Len(stack')] = f
    BY <2>2, <2>n, <2>5, <2>6, ReplaceTop
  <2>. QED BY <2>3, <2>5, <2>7 DEF carried, Done, Top, Last, IInv, TypeOK
<1>. QED BY <1>2, <1>3

-----------------------------------------------------------------------------
LEMMA InitIInv == Init => IInv
<1> SUFFICES ASSUME Init PROVE IInv
  OBVIOUS
<1> DEFINE f == Activation(root, << >>, Initial(visitor))
           kind == visitor.kind
<1>1. /\ visitor \in Visitor /\ root \in Node /\ stack = << f >> /\ log = << >>
      /\ result = {} /\ failed \in BOOLEAN
  BY DEF Init, Compiles
<1>2. kind \in Kinds
  BY <1>1, HybridVisitorAssumption DEF VisitorType
<1>3. Initial(visitor) \in Carriable(kind) /\ Initial(visitor).n = 0
  BY <1>2 DEF Initial, Carriable, Value, Kinds
<1>4. f \in Frame /\ f.val = Initial(visitor) /\ f.pc = "start" /\ f.i = 0
  BY <1>1, <1>3 DEF Activation, Frame, TreePath, Carriable
<1> HIDE DEF f
<1>5. f \in Sound(kind)
  BY <1>3, <1>4 DEF Sound
<1>6. TypeOK /\ stack \in Seq(Sound(kind))
  <2>1. stack \in Seq(Frame) /\ stack \in Seq(Sound(kind))
    BY <1>1, <1>4, <1>5
  <2>2. log \in Seq(Event) /\ result \in SUBSET Value
    BY <1>1
  <2>. QED BY <1>1, <2>1, <2>2 DEF TypeOK
<1>7. leafDepths = {0}
  BY <1>1 DEF leafDepths, ToSet
<1>8. IsLargest(0, leafDepths) /\ leafDepths \in SUBSET Nat
  BY <1>7 DEF IsLargest
<1>9. expected = 0
  <2>1. Len(log) = 0 /\ \A cbs : Count(cbs) = 0
    BY <1>1, FS_EmptySet DEF Count
  <2>2. Max(leafDepths) = 0
    BY <1>8, LargestIsMax
  <2>. QED BY <1>2, <2>1, <2>2 DEF expected, Kinds
<1>10. carried = {Initial(visitor)}
  BY <1>1, <1>4 DEF carried, Done, Top, Last
<1>. QED BY <1>3, <1>6, <1>8, <1>9, <1>10 DEF IInv, EveryCallbackCounts

LEMMA NextIInv == IInv /\ [Next]_vars => IInv'
<1> SUFFICES ASSUME IInv, [Next]_vars PROVE IInv'
  OBVIOUS
<1> DEFINE kind == visitor.kind
<1>typed. /\ root \in Node /\ visitor \in Visitor /\ failed \in BOOLEAN
          /\ log \in Seq(Event) /\ result \in SUBSET Value
  BY DEF IInv, TypeOK
(* What is left to show for a step with a callback cb, made of f.          *)
<1>called. ASSUME stack # << >>, UNCHANGED << root, visitor, failed >>,
                  NEW cb \in Callback, Call(cb),
                  NEW f \in Sound(kind), f.path = Top.path, Amounts(f.val, expected),
                  stack' \in Seq(Sound(kind)), result' \in SUBSET Value,
                  carried' = {Applied(cb, f)}
           PROVE  IInv'
  <2>1. /\ log' \in Seq(Event)
        /\ leafDepths' \subseteq Nat /\ \E m \in Nat : IsLargest(m, leafDepths)'
        /\ Amounts(Applied(cb, f), expected')
    BY <1>called, CallCounts
  <2>2. stack' \in Seq(Frame)
    BY <1>called, WiderStack DEF Sound
  <2>3. TypeOK'
    BY <1>typed, <1>called, <2>1, <2>2 DEF TypeOK
  <2>4. EveryCallbackCounts'
    BY <1>called, <2>1 DEF EveryCallbackCounts, Amounts
  <2>. QED BY <1>called, <2>1, <2>3, <2>4 DEF IInv
(* The same for a step without a callback.                                 *)
<1>quiet. ASSUME UNCHANGED << root, visitor, log >>, failed' \in BOOLEAN,
                 stack' \in Seq(Sound(kind)), result' \in SUBSET Value,
                 carried' = carried
          PROVE  IInv'
  <2>1. stack' \in Seq(Frame)
    BY <1>quiet, WiderStack DEF Sound
  <2>2. TypeOK'
    BY <1>typed, <1>quiet, <2>1 DEF TypeOK
  <2>3. expected' = expected /\ leafDepths' = leafDepths
    BY <1>quiet DEF expected, leafDepths, Count
  <2>4. EveryCallbackCounts'
    BY <1>quiet, <2>3 DEF EveryCallbackCounts, IInv
  <2>. QED BY <1>quiet, <2>2, <2>3, <2>4 DEF IInv
(* A callback after which the activation goes on.                          *)
<1>on. ASSUME stack # << >>, UNCHANGED << root, visitor, result, failed >>,
              NEW cb \in {"pre", "beforeChild", "in"}, Call(cb),
              NEW pc \in {"loop", "in", "visitChild"}, Goto(pc, Applied(cb, Top)),
              Within(Top.node, Top.i), pc # "loop" => Top.i < degree(Top.node)
       PROVE  IInv'
  <2> DEFINE f == [Top EXCEPT !.pc = pc, !.val = Applied(cb, Top)]
  <2>1. cb \in Callback
    BY DEF Callback
  <2>2. Applied(cb, Top) \in Carriable(kind)
    BY <1>on, <2>1, TopIsSound, CallCounts
  <2>3. f \in Sound(kind) /\ f.val = Applied(cb, Top)
    BY <1>on, <2>2, TopIsSound DEF Sound, Frame, Carriable
  <2>4. stack' = [stack EXCEPT ![Len(stack)] = f]
    BY <1>on, TopIsSound DEF Goto, IInv
  <2> HIDE DEF f
  <2>5. /\ stack' \in Seq(Sound(kind)) /\ carried' = {Applied(cb, Top)}
        /\ result' \in SUBSET Value
    BY <1>on, <2>3, <2>4, StaysOnTop
  <2>. QED BY <1>on, <1>called, <2>1, <2>5, TopIsSound
(* A callback after which it returns, made of f.                           *)
<1>back. ASSUME stack # << >>, UNCHANGED << root, visitor, failed >>,
                NEW cb \in {"post", "leaf"}, Call(cb),
                NEW f \in Sound(kind), f.path = Top.path, Amounts(f.val, expected),
                Return(Applied(cb, f))
         PROVE  IInv'
  <2>1. cb \in Callback
    BY DEF Callback
  <2>2. Applied(cb, f) \in Carriable(kind)
    BY <1>back, <2>1, CallCounts
  <2>3. /\ stack' \in Seq(Sound(kind)) /\ carried' = {Applied(cb, f)}
        /\ result' \in SUBSET Value
    BY <1>back, <2>2, GoesBack
  <2>. QED BY <1>back, <1>called, <2>1, <2>3
<1>1. CASE Leaf
  <2>1. /\ stack # << >> /\ Call("leaf") /\ Return(Applied("leaf", Top))
        /\ UNCHANGED << root, visitor, failed >>
    BY <1>1 DEF Leaf, At
  <2>. QED BY <1>back, <2>1, TopIsSound
<1>2. CASE Pre
  <2>1. /\ stack # << >> /\ Top.pc = "start" /\ ~ isLeaf(Top.node) /\ Call("pre")
        /\ Goto("loop", Applied("pre", Top))
        /\ UNCHANGED << root, visitor, result, failed >>
    BY <1>2 DEF Pre, At
  <2>2. Within(Top.node, Top.i)
    <3>1. Top.i = 0 /\ Top.node \in Node
      BY <2>1, TopIsSound DEF Sound
    <3>. QED BY <2>1, <3>1, DegreeIsNat DEF Within
  <2>. QED BY <1>on, <2>1, <2>2
<1>3. CASE AssertionFails
  <2>1. failed' = TRUE /\ UNCHANGED << root, visitor, stack, log, result >>
    BY <1>3 DEF AssertionFails
  <2>2. carried' = carried
    BY <2>1 DEF carried, Done, Top
  <2>. QED BY <1>quiet, <1>typed, <2>1, <2>2 DEF IInv
<1>4. CASE BeforeChild
  <2> DEFINE pc == IF Top.i = 0 THEN "visitChild" ELSE "in"
  <2>1. /\ stack # << >> /\ Top.pc = "loop" /\ Call("beforeChild")
        /\ Goto(pc, Applied("beforeChild", Top))
        /\ Top.i < degree(Top.node)
        /\ UNCHANGED << root, visitor, result, failed >>
    BY <1>4 DEF BeforeChild, At, checkChildIndex
  <2>2. pc \in {"visitChild", "in"}
    OBVIOUS
  <2>3. Within(Top.node, Top.i)
    BY <2>1, TopIsSound DEF Sound
  <2> HIDE DEF pc
  <2>. QED BY <1>on, <2>1, <2>2, <2>3
<1>5. CASE In
  <2>1. /\ stack # << >> /\ Top.pc = "in" /\ Call("in")
        /\ Goto("visitChild", Applied("in", Top))
        /\ UNCHANGED << root, visitor, result, failed >>
    BY <1>5 DEF In, At
  <2>2. Top.i < degree(Top.node) /\ Within(Top.node, Top.i)
    BY <2>1, TopIsSound DEF Sound
  <2>. QED BY <1>on, <2>1, <2>2
<1>6. CASE VisitChild
  <2> DEFINE w == [Top EXCEPT !.pc = "afterChild"]
             s == [stack EXCEPT ![Len(stack)] = w]
             f == Activation(child(Top.node, Top.i), push_back(Top.path, Top.i), Top.val)
  <2>1. /\ stack # << >> /\ Top.pc = "visitChild"
        /\ stack' = Append([stack EXCEPT ![Len(stack)].pc = "afterChild"], f)
        /\ UNCHANGED << root, visitor, log, result, failed >>
    BY <1>6 DEF VisitChild, At
  <2>2. /\ Top.val \in Carriable(kind) /\ Top.i < degree(Top.node)
        /\ Within(Top.node, Top.i)
    BY <2>1, TopIsSound DEF Sound
  <2>3. w \in Sound(kind)
    BY <2>1, <2>2, TopIsSound DEF Sound, Frame
  <2>4. f \in Sound(kind) /\ f.val = Top.val
    <3>1. child(Top.node, Top.i) \in Node
      BY <2>1, <2>2, TopIsSound, ChildIsNode
    <3>2. push_back(Top.path, Top.i) \in TreePath
      BY <2>1, TopIsSound DEF push_back, TreePath
    <3>. QED BY <2>2, <3>1, <3>2 DEF Activation, Sound, Frame, Carriable
  <2>5. stack' = Append(s, f)
    BY <2>1, TopIsSound DEF IInv
  <2> HIDE DEF f, w
  <2>6. s \in Seq(Sound(kind))
    BY <2>1, <2>3, ReplaceTop DEF IInv
  <2> HIDE DEF s
  <2>7. /\ stack' \in Seq(Sound(kind)) /\ stack' # << >>
        /\ stack'[Len(stack')] = f
    BY <2>4, <2>5, <2>6, PushTop
  <2>8. carried' = carried
    BY <2>1, <2>4, <2>7 DEF carried, Done, Top, Last
  <2>. QED BY <1>quiet, <1>typed, <2>1, <2>7, <2>8
<1>7. CASE SkipChild
  <2> DEFINE f == [Top EXCEPT !.pc = "afterChild", !.val = Top.val]
  <2>1. /\ stack # << >> /\ Top.pc = "visitChild" /\ Goto("afterChild", Top.val)
        /\ UNCHANGED << root, visitor, log, result, failed >>
    BY <1>7 DEF SkipChild, At
  <2>2. f \in Sound(kind) /\ f.val = Top.val
    BY <2>1, TopIsSound DEF Sound, Frame
  <2>3. stack' = [stack EXCEPT ![Len(stack)] = f]
    BY <2>1, TopIsSound DEF Goto, IInv
  <2> HIDE DEF f
  <2>4. stack' \in Seq(Sound(kind)) /\ carried' = {Top.val}
    BY <2>1, <2>2, <2>3, StaysOnTop
  <2>5. carried = {Top.val}
    BY <2>1 DEF carried, Done
  <2>. QED BY <1>quiet, <1>typed, <2>1, <2>4, <2>5
<1>8. CASE AfterChild
  <2> DEFINE v == Applied("afterChild", Top)
             f == [Top EXCEPT !.pc = "loop", !.i = @ + 1, !.val = v]
  <2>1. /\ stack # << >> /\ Top.pc = "afterChild" /\ Call("afterChild")
        /\ stack' = [stack EXCEPT ![Len(stack)].pc = "loop",
                                  ![Len(stack)].i = @ + 1,
                                  ![Len(stack)].val = v]
        /\ UNCHANGED << root, visitor, result, failed >>
    BY <1>8 DEF AfterChild, At
  <2>2. v \in Carriable(kind)
    BY <2>1, TopIsSound, CallCounts DEF Callback
  <2> HIDE DEF v
  <2>w. Within(Top.node, Top.i + 1)
    <3>1. Top.i < degree(Top.node) /\ Within(Top.node, Top.i)
      BY <2>1, TopIsSound DEF Sound
    <3>. QED BY <2>1, <3>1, TopIsSound, DegreeIsNat DEF Within
  <2>3. f \in Sound(kind) /\ f.val = v
    BY <2>1, <2>2, <2>w, TopIsSound DEF Sound, Frame, Carriable
  <2>4. stack' = [stack EXCEPT ![Len(stack)] = f]
    BY <2>1, TopIsSound DEF IInv
  <2> HIDE DEF f
  <2>5. /\ stack' \in Seq(Sound(kind)) /\ carried' = {v}
        /\ result' \in SUBSET Value
    BY <2>1, <2>3, <2>4, StaysOnTop
  <2>. QED BY <1>called, <2>1, <2>5, TopIsSound DEF Callback, v
<1>9. CASE Post
  <2>1. stack # << >> /\ Call("post") /\ UNCHANGED << root, visitor, failed >>
    BY <1>9 DEF Post, At
  <2>2. PICK u \in {Top.val, Indeterminate} :
          /\ u = Indeterminate => u = Top.val \/ Top.val.storage = "memory"
          /\ Return(Applied("post", [Top EXCEPT !.val = u]))
    BY <1>9 DEF Post, left_fold
  <2> DEFINE f == [Top EXCEPT !.val = u]
  <2>3. u \in Carriable(kind) /\ Amounts(u, expected)
    BY <2>1, <2>2, TopIsSound DEF Carriable, Value, Indeterminate, Amounts
  <2>4. f \in Sound(kind) /\ f.path = Top.path /\ f.val = u
    BY <2>1, <2>3, TopIsSound DEF Sound, Frame, Carriable
  <2>5. Return(Applied("post", f))
    BY <2>2
  <2> HIDE DEF f
  <2>. QED BY <1>back, <2>1, <2>3, <2>4, <2>5
<1>10. CASE UNCHANGED vars
  <2>1. carried' = carried
    BY <1>10 DEF vars, carried, Done, Top
  <2>. QED BY <1>10, <1>quiet, <1>typed, <2>1 DEF vars, IInv
<1>. QED
  BY <1>1, <1>2, <1>3, <1>4, <1>5, <1>6, <1>7, <1>8, <1>9, <1>10 DEF Next

LEMMA Invariance == Spec => []IInv
BY InitIInv, NextIInv, PTL DEF Spec

-----------------------------------------------------------------------------
(* hybridApplyToTree goes to existing children only, short of the          *)
(* assertion, and its values are numbers in memory or in a type, or what   *)
(* is read from a destroyed object.                                        *)
THEOREM TypeCorrect == Spec => []TypeOK
<1>1. IInv => TypeOK
  BY DEF IInv
<1>. QED BY <1>1, Invariance, PTL

(* No callback's contribution is lost or counted twice on the way of the   *)
(* value down and up the tree, whatever the visitor: a value that can be   *)
(* read is the number of callbacks, leafs or nodes met, or their depth.    *)
THEOREM EveryContributionIsKept == Spec => []EveryCallbackCounts
<1>1. IInv => EveryCallbackCounts
  BY DEF IInv
<1>. QED BY <1>1, Invariance, PTL

-----------------------------------------------------------------------------
(* hybridApplyToTree seen as applyToTree (operator Product): the call      *)
(* stack is the same, every activation without its value.                  *)
PlainStack == [k \in 1 .. Len(stack) |-> PlainFrame(stack[k])]

View(kind) == [f \in Sound(kind) |-> PlainFrame(f)]

LEMMA StackSeen ==
  ASSUME NEW kind, NEW s \in Seq(Sound(kind))
  PROVE  [k \in 1 .. Len(s) |-> PlainFrame(s[k])] = Seen(View(kind), s)
<1>1. \A k \in 1 .. Len(s) : s[k] \in Sound(kind)
  BY ElementOfSeq
<1>. QED BY <1>1 DEF Seen, View

(* The innermost activation there.                                         *)
LEMMA TopSeen ==
  ASSUME IInv, stack # << >>
  PROVE  /\ PlainStack # << >>
         /\ Last(PlainStack) = PlainFrame(Top)
         /\ Product!Top = PlainFrame(Top)
<1>1. Sound(visitor.kind) = DOMAIN View(visitor.kind) /\ View(visitor.kind)[Top] = PlainFrame(Top)
  BY TopIsSound DEF View
<1>2. PlainStack = Seen(View(visitor.kind), stack)
  BY StackSeen DEF IInv, PlainStack
<1>3. PlainStack # << >> /\ Last(PlainStack) = PlainFrame(Top)
  <2>1. stack \in Seq(DOMAIN View(visitor.kind))
    BY <1>1 DEF IInv
  <2>2. Seen(View(visitor.kind), stack) # << >>
    BY <2>1, SeenStack
  <2>3. Last(Seen(View(visitor.kind), stack)) = View(visitor.kind)[Last(stack)]
    BY <2>1, SeenTop
  <2>. QED BY <1>1, <1>2, <2>2, <2>3 DEF Top
<1>4. Product!Top = Last(PlainStack)
  BY DEF Product!Top, Product!Last, Last, PlainStack
<1>. QED BY <1>3, <1>4

(* What the changes of the call stack are there.                           *)
LEMMA ReplaceSeen ==
  ASSUME IInv, IInv', visitor' = visitor, stack # << >>, NEW f,
         stack' = [stack EXCEPT ![Len(stack)] = f]
  PROVE  PlainStack' = [PlainStack EXCEPT ![Len(PlainStack)] = PlainFrame(f)]
<1> DEFINE F == View(visitor.kind)
<1>1. stack \in Seq(Sound(visitor.kind)) /\ stack' \in Seq(Sound(visitor.kind))
  BY DEF IInv
<1>2. f \in Sound(visitor.kind)
  <2>1. Len(stack) \in 1 .. Len(stack') /\ stack'[Len(stack)] = f
    BY <1>1
  <2>. QED BY <1>1, <2>1, ElementOfSeq
<1>3. PlainStack = Seen(F, stack) /\ PlainStack' = Seen(F, stack')
  BY <1>1, StackSeen DEF PlainStack
<1>4. DOMAIN F = Sound(visitor.kind) /\ F[f] = PlainFrame(f)
  BY <1>2 DEF View
<1> HIDE DEF F
<1>5. Seen(F, [stack EXCEPT ![Len(stack)] = f])
        = [Seen(F, stack) EXCEPT ![Len(Seen(F, stack))] = F[f]]
  BY <1>1, <1>2, <1>4, SeenReplace
<1>. QED BY <1>3, <1>4, <1>5

LEMMA PopSeen ==
  ASSUME IInv, IInv', visitor' = visitor, stack # << >>, NEW v, Return(v)
  PROVE  PlainStack' = Front(PlainStack)
<1> DEFINE F == View(visitor.kind)
<1>1. stack \in Seq(Sound(visitor.kind)) /\ stack' \in Seq(Sound(visitor.kind))
  BY DEF IInv
<1>2. PlainStack = Seen(F, stack) /\ PlainStack' = Seen(F, stack')
  BY <1>1, StackSeen DEF PlainStack
<1>3. DOMAIN F = Sound(visitor.kind)
  BY DEF View
<1> HIDE DEF F
<1>4. Seen(F, Front(stack)) = Front(Seen(F, stack))
  BY <1>1, <1>3, SeenPop
<1> DEFINE s == Front(stack)
           n == Len(stack) - 1
<1>5. s \in Seq(Sound(visitor.kind)) /\ Len(s) = n
  BY <1>1, PopTop
<1>6. Len(stack) # 1 => n \in 1 .. n
  <2> DEFINE len == Len(stack)
  <2>1. len \in Nat /\ len >= 1
    BY TopIsSound
  <2> HIDE DEF len
  <2>2. len # 1 => len - 1 \in 1 .. len - 1
    BY <2>1
  <2>. QED BY <2>2 DEF len
<1> HIDE DEF s
<1>7. Len(stack') = n /\ \A k \in 1 .. n : PlainFrame(stack'[k]) = PlainFrame(s[k])
  <2>1. CASE Len(stack) = 1
    BY <2>1 DEF Return
  <2>2. CASE Len(stack) # 1
    <3>1. stack' = [s EXCEPT ![n].val = v]
      BY <2>2 DEF Return, s
    <3>3. n \in 1 .. n
      BY <1>6, <2>2
    <3> HIDE DEF n
    <3>2. Len(stack') = n /\ \A k \in 1 .. n : k # n => stack'[k] = s[k]
      BY <1>5, <3>1
    <3>4. s[n] \in Frame
      BY <1>5, <3>3, ElementOfSeq DEF Sound
    <3>5. stack'[n] = [s[n] EXCEPT !.val = v]
      BY <1>5, <3>1, <3>3
    <3>6. PlainFrame(stack'[n]) = PlainFrame(s[n])
      <4> DEFINE f == s[n]
                 g == stack'[n]
      <4>1. /\ g.node = f.node /\ g.path = f.path /\ g.i = f.i /\ g.pc = f.pc
        BY <3>4, <3>5 DEF Frame
      <4> HIDE DEF f, g
      <4>2. PlainFrame(g) = PlainFrame(f)
        BY <4>1 DEF PlainFrame
      <4>. QED BY <4>2 DEF f, g
    <3>. QED BY <3>2, <3>6
  <2>. QED BY <2>1, <2>2
<1>8. Seen(F, stack') = Seen(F, s)
  <2>1. \A k \in 1 .. n : stack'[k] \in DOMAIN F /\ s[k] \in DOMAIN F
    BY <1>1, <1>3, <1>5, <1>7, ElementOfSeq
  <2>2. \A k \in 1 .. n : F[stack'[k]] = F[s[k]]
    BY <1>7, <2>1 DEF F, View
  <2>. QED BY <1>5, <1>7, <2>2 DEF Seen
<1>. QED BY <1>2, <1>4, <1>8 DEF s

LEMMA PushSeen ==
  ASSUME NEW kind, NEW s \in Seq(Sound(kind)), NEW f \in Sound(kind)
  PROVE  [k \in 1 .. Len(Append(s, f)) |-> PlainFrame(Append(s, f)[k])]
           = Append([k \in 1 .. Len(s) |-> PlainFrame(s[k])], PlainFrame(f))
<1> DEFINE F == View(kind)
<1>1. DOMAIN F = Sound(kind) /\ F[f] = PlainFrame(f)
  BY DEF View
<1>2. Append(s, f) \in Seq(Sound(kind))
  OBVIOUS
<1>3. /\ [k \in 1 .. Len(s) |-> PlainFrame(s[k])] = Seen(F, s)
      /\ [k \in 1 .. Len(Append(s, f)) |-> PlainFrame(Append(s, f)[k])]
           = Seen(F, Append(s, f))
  BY <1>2, StackSeen
<1> HIDE DEF F
<1>. QED BY <1>1, <1>3, SeenPush

-----------------------------------------------------------------------------
LEMMA InitIsProductInit == Init => Product!Init
<1> SUFFICES ASSUME Init PROVE Product!Init
  OBVIOUS
<1> DEFINE f == Activation(root, << >>, Initial(visitor))
<1>1. /\ root \in Node /\ visitor \in Visitor /\ log = << >> /\ stack = << f >>
  BY DEF Init, Compiles
<1>2. PlainFrame(f) = Product!Activation(root, << >>)
  BY DEF PlainFrame, Activation, Product!Activation
<1> HIDE DEF f
<1>3. PlainStack = << Product!Activation(root, << >>) >>
  <2>1. [k \in 1 .. Len(<< f >>) |-> PlainFrame(<< f >>[k])] = << PlainFrame(f) >>
    OBVIOUS
  <2>. QED BY <1>1, <1>2, <2>1 DEF PlainStack
<1>. QED BY <1>1, <1>3 DEF Product!Init, PlainStack

(* The callback is told the same to the visitor of applyToTree, whose       *)
(* callbacks need not change the tree.                                     *)
LEMMA CallSeen ==
  ASSUME IInv, stack # << >>, NEW cb, Call(cb)
  PROVE  Product!Call(cb) /\ \A open : Product!CallbackChanges(open)
<1>1. /\ Product!Top.node = Top.node /\ Product!Top.path = Top.path
      /\ Product!Top.i = Top.i
  BY TopSeen DEF PlainFrame
<1>2. Product!Call(cb)
  BY <1>1 DEF Call, Product!Call
<1>. QED BY <1>2 DEF Product!CallbackChanges

LEMMA NextIsProductNext ==
  ASSUME IInv, IInv', Next
  PROVE  Product!Next \/ UNCHANGED Product!vars
<1> DEFINE P == PlainStack
           n == Len(PlainStack)
           Step(f) == [stack EXCEPT ![Len(stack)] = f]
<1>at. ASSUME NEW pc, At(pc)
       PROVE  /\ stack # << >> /\ Top.pc = pc /\ Product!At(pc)
              /\ P # << >> /\ n \in DOMAIN P /\ P[n] = PlainFrame(Top)
  <2>1. stack # << >> /\ Top.pc = pc
    BY <1>at DEF At
  <2>2. P # << >> /\ Last(P) = PlainFrame(Top) /\ Product!Top = PlainFrame(Top)
    BY <2>1, TopSeen
  <2>3. P \in Seq({PlainFrame(stack[k]) : k \in 1 .. Len(stack)})
    BY DEF PlainStack, IInv, TypeOK
  <2>4. n \in DOMAIN P
    BY <2>2, <2>3
  <2>5. Product!At(pc)
    BY <2>1, <2>2 DEF Product!At, PlainStack, PlainFrame
  <2>. QED BY <2>1, <2>2, <2>4, <2>5 DEF Last
<1>top. ASSUME stack # << >>
        PROVE  /\ Top \in Frame /\ Top.node \in Node
               /\ Product!Top = PlainFrame(Top)
               /\ Product!Top.node = Top.node /\ Product!Top.path = Top.path
               /\ Product!Top.i = Top.i /\ Product!Top.pc = Top.pc
               /\ (Product!isLeaf(Top.node) <=> isLeaf(Top.node))
  BY <1>top, TopSeen, TopIsSound
     DEF PlainFrame, Product!isLeaf, Product!TagOf, isLeaf, TagOf
<1>1. CASE Leaf
  <2>1. /\ At("start") /\ isLeaf(Top.node) /\ Call("leaf")
        /\ Return(Applied("leaf", Top))
        /\ UNCHANGED << root, visitor >>
    BY <1>1 DEF Leaf
  <2>2. P' = Front(P)
    BY <1>at, <2>1, PopSeen
  <2>3. Product!Return
    BY <2>2 DEF Product!Return, Product!Front, Front, PlainStack
  <2>4. Product!Leaf
    BY <1>at, <1>top, <2>1, <2>3, CallSeen DEF Product!Leaf
  <2>. QED BY <2>4 DEF Product!Next
(* An activation that goes on as f, from where it stands.                  *)
<1>on. ASSUME NEW pc, At(pc), UNCHANGED visitor, NEW f, stack' = Step(f)
       PROVE  P' = [P EXCEPT ![n] = PlainFrame(f)]
  BY <1>on, <1>at, ReplaceSeen
<1>2. CASE Pre
  <2> DEFINE v == Applied("pre", Top)
  <2>1. /\ At("start") /\ ~ isLeaf(Top.node) /\ Call("pre") /\ Goto("loop", v)
        /\ UNCHANGED << root, visitor >>
    BY <1>2 DEF Pre
  <2> HIDE DEF v
  <2> DEFINE f == [Top EXCEPT !.pc = "loop", !.val = v]
             size == Len(Child[Top.node])
  <2>2. stack' = Step(f)
    BY <1>at, <1>top, <2>1, TopIsSound DEF Goto, IInv
  <2>3. /\ f.node = Top.node /\ f.path = Top.path /\ f.i = Top.i /\ f.pc = "loop"
        /\ Top.pc = "start"
    BY <1>at, <1>top, <2>1 DEF Frame
  <2> HIDE DEF f, size
  <2>4. PlainFrame(f) = [PlainFrame(Top) EXCEPT !.pc = "loop", !.size = size]
    <3> DEFINE r == PlainFrame(Top)  q == PlainFrame(f)
    <3>1. /\ IsFrame(r) /\ IsFrame(q)
          /\ q.node = r.node /\ q.path = r.path /\ q.i = r.i /\ q.child = r.child
          /\ q.pc = "loop" /\ q.size = size
      BY <2>3 DEF PlainFrame, IsFrame, size, degree
    <3> HIDE DEF r, q
    <3>2. q = [r EXCEPT !.pc = q.pc, !.size = q.size]
      BY <3>1, FrameSized
    <3>. QED BY <3>1, <3>2 DEF r, q
  <2>5. P' = [P EXCEPT ![n] = PlainFrame(f)]
    BY <1>on, <2>1, <2>2
  <2>6. P' = [P EXCEPT ![n].pc = "loop", ![n].size = size]
    BY <1>at, <2>1, <2>4, <2>5
  <2>7. Product!Pre
    BY <1>at, <1>top, <2>1, <2>6, CallSeen DEF Product!Pre, PlainStack, size
  <2>. QED BY <2>7 DEF Product!Next
<1>3. CASE AssertionFails
  <2>1. UNCHANGED << root, visitor, stack, log >>
    BY <1>3 DEF AssertionFails
  <2>2. P' = P
    BY <2>1 DEF PlainStack
  <2>. QED BY <2>1, <2>2 DEF Product!vars, PlainStack
<1>4. CASE BeforeChild
  <2> DEFINE pc == IF Top.i > 0 THEN "in" ELSE "visitChild"
             v == Applied("beforeChild", Top)
             c == Child[Top.node][Top.i + 1]
  <2>1. /\ At("loop") /\ Top.i < degree(Top.node) /\ Call("beforeChild")
        /\ Goto(pc, v) /\ UNCHANGED << root, visitor >>
    <3>1. At("loop") /\ (Top.i > 0 <=> ~ Top.i = 0)
      BY <1>4, TopIsSound DEF BeforeChild, At
    <3>2. pc = IF Top.i = 0 THEN "visitChild" ELSE "in"
      BY <3>1
    <3>. QED BY <1>4, <3>1, <3>2 DEF BeforeChild, checkChildIndex
  <2> HIDE DEF v
  <2> DEFINE f == [Top EXCEPT !.pc = pc, !.val = v]
  <2>2. stack' = Step(f)
    BY <1>at, <1>top, <2>1, TopIsSound DEF Goto, IInv
  <2>3. /\ f.node = Top.node /\ f.path = Top.path /\ f.i = Top.i /\ f.pc = pc
        /\ Top.pc = "loop"
    BY <1>at, <1>top, <2>1 DEF Frame
  <2>p. pc \in {"in", "visitChild"}
    OBVIOUS
  <2>c. /\ Top.i < Len(Child[Top.node]) /\ c = child(Top.node, Top.i)
        /\ degree(Top.node) = Len(Child[Top.node])
    BY <2>1 DEF degree, child
  <2>m. Product!Top.i < Product!Top.size
    <3>1. Product!Top.size = degree(Top.node)
      BY <1>at, <1>top, <2>1, <2>3 DEF PlainFrame
    <3>. QED BY <1>at, <1>top, <2>1, <2>c, <3>1
  <2> HIDE DEF f, c
  <2>4. PlainFrame(f) = [PlainFrame(Top) EXCEPT !.pc = pc, !.child = c]
    <3> DEFINE r == PlainFrame(Top)  q == PlainFrame(f)
    <3> HIDE DEF pc
    <3>1. /\ IsFrame(r) /\ IsFrame(q)
          /\ q.node = r.node /\ q.path = r.path /\ q.i = r.i /\ q.size = r.size
          /\ q.pc = pc /\ q.child = c
      BY <2>3, <2>p, <2>c DEF PlainFrame, IsFrame
    <3> HIDE DEF r, q
    <3>2. q = [r EXCEPT !.pc = q.pc, !.child = q.child]
      BY <3>1, FrameEnters
    <3>. QED BY <3>1, <3>2 DEF r, q
  <2>5. P' = [P EXCEPT ![n] = PlainFrame(f)]
    BY <1>on, <2>1, <2>2
  <2>6. P' = [P EXCEPT ![n].pc = pc, ![n].child = c]
    <3> HIDE DEF pc
    <3>. QED BY <1>at, <2>1, <2>4, <2>5
  <2>7. Product!BeforeChild
    BY <1>at, <1>top, <2>1, <2>6, <2>m, CallSeen DEF Product!BeforeChild, PlainStack, c
  <2>. QED BY <2>7 DEF Product!Next
(* The steps that only move the point at which the activation stands.      *)
<1>goto. ASSUME NEW now \in {"in", "visitChild"}, At(now), UNCHANGED visitor,
                NEW pc \in {"visitChild", "afterChild"}, NEW v, Goto(pc, v)
         PROVE  Product!Goto(pc)
  <2> DEFINE f == [Top EXCEPT !.pc = pc, !.val = v]
  <2>2. stack' = Step(f)
    BY <1>at, <1>top, <1>goto, TopIsSound DEF Goto, IInv
  <2>3. /\ f.node = Top.node /\ f.path = Top.path /\ f.i = Top.i /\ f.pc = pc
        /\ Top.pc = now
    BY <1>at, <1>top, <1>goto DEF Frame
  <2> HIDE DEF f
  <2>4. PlainFrame(f) = [PlainFrame(Top) EXCEPT !.pc = pc]
    BY <2>3 DEF PlainFrame
  <2>5. P' = [P EXCEPT ![n] = PlainFrame(f)]
    BY <1>on, <1>goto, <2>2
  <2>6. P' = [P EXCEPT ![n].pc = pc]
    BY <1>at, <1>goto, <2>4, <2>5
  <2>. QED BY <2>6 DEF Product!Goto, PlainStack
<1>5. CASE In
  <2>1. /\ At("in") /\ Call("in") /\ Goto("visitChild", Applied("in", Top))
        /\ UNCHANGED << root, visitor >>
    BY <1>5 DEF In
  <2>2. Product!Goto("visitChild")
    BY <1>goto, <2>1
  <2>3. Product!In
    BY <1>at, <2>1, <2>2, CallSeen DEF Product!In
  <2>. QED BY <2>3 DEF Product!Next
(* A child is accepted by its class and that of its parent.                *)
<1>accepts. ASSUME At("visitChild")
            PROVE  /\ Product!Accepts(Product!Top.node, Product!Top.child)
                         <=> Accepts(Top.node, Top.i)
                   /\ Product!Top.child = child(Top.node, Top.i)
                   /\ child(Top.node, Top.i) \in Node
  <2>1. Product!Top.child = child(Top.node, Top.i) /\ Product!Top.node = Top.node
    BY <1>at, <1>top, <1>accepts DEF PlainFrame
  <2>2. child(Top.node, Top.i) \in Node /\ Top.node \in Node
    <3>1. Top.i < degree(Top.node)
      BY <1>at, <1>accepts, TopIsSound DEF Sound
    <3>. QED BY <1>at, <1>accepts, <3>1, TopIsSound, ChildIsNode
  <2>. QED BY <2>1, <2>2 DEF Product!Accepts, Accepts
<1>6. CASE VisitChild
  <2> DEFINE w == [Top EXCEPT !.pc = "afterChild"]
             s == Step(w)
             f == Activation(child(Top.node, Top.i), push_back(Top.path, Top.i), Top.val)
             g == Product!Activation(Product!Top.child,
                                     push_back(Product!Top.path, Product!Top.i))
  <2>1. /\ At("visitChild") /\ Accepts(Top.node, Top.i)
        /\ stack' = Append([stack EXCEPT ![Len(stack)].pc = "afterChild"], f)
        /\ UNCHANGED << root, visitor, log >>
    BY <1>6 DEF VisitChild
  <2>2. stack' = Append(s, f)
    BY <1>at, <1>top, <2>1, TopIsSound DEF IInv
  <2>3. /\ w \in Frame /\ w.node = Top.node /\ w.path = Top.path /\ w.i = Top.i
        /\ w.pc = "afterChild" /\ w.val = Top.val /\ Top.pc = "visitChild"
    BY <1>at, <1>top, <2>1 DEF Frame
  <2>4. PlainFrame(f) = g
    BY <1>at, <1>top, <1>accepts, <2>1 DEF PlainFrame, Activation, Product!Activation
  <2> HIDE DEF f, w, g
  <2>5. w \in Sound(visitor.kind)
    BY <1>at, <2>1, <2>3, TopIsSound DEF Sound
  <2>6. s \in Seq(Sound(visitor.kind)) /\ Len(s) = Len(stack)
    BY <1>at, <2>1, <2>5, ReplaceTop DEF IInv
  <2>7. f \in Sound(visitor.kind)
    <3>1. stack' \in Seq(Sound(visitor.kind)) /\ s \in Seq(Sound(visitor.kind)) /\ Len(s) \in Nat
      BY <2>1, <2>6 DEF IInv
    <3> HIDE DEF s
    <3>2. Len(s) + 1 \in 1 .. Len(stack') /\ stack'[Len(s) + 1] = f
      BY <2>2, <3>1
    <3>. QED BY <3>1, <3>2, ElementOfSeq
  <2>8. PlainFrame(w) = [PlainFrame(Top) EXCEPT !.pc = "afterChild"]
    BY <2>3 DEF PlainFrame
  <2>9. [k \in 1 .. Len(s) |-> PlainFrame(s[k])] = [P EXCEPT ![n].pc = "afterChild"]
    <3> DEFINE F == View(visitor.kind)
    <3>1. /\ DOMAIN F = Sound(visitor.kind) /\ F[w] = PlainFrame(w)
          /\ stack \in Seq(Sound(visitor.kind)) /\ stack # << >>
      BY <1>at, <2>1, <2>5 DEF View, IInv
    <3>2. /\ [k \in 1 .. Len(s) |-> PlainFrame(s[k])] = Seen(F, s)
          /\ P = Seen(F, stack)
      BY <2>6, <3>1, StackSeen DEF PlainStack
    <3> HIDE DEF F
    <3>3. Seen(F, s) = [Seen(F, stack) EXCEPT ![Len(Seen(F, stack))] = F[w]]
      BY <2>5, <3>1, SeenReplace
    <3>4. [k \in 1 .. Len(s) |-> PlainFrame(s[k])] = [P EXCEPT ![n] = PlainFrame(w)]
      BY <3>1, <3>2, <3>3
    <3>. QED BY <1>at, <2>1, <2>8, <3>4
  <2> HIDE DEF s
  <2>10. P' = Append([P EXCEPT ![n].pc = "afterChild"], g)
    <3>1. P' = Append([k \in 1 .. Len(s) |-> PlainFrame(s[k])], PlainFrame(f))
      BY <2>2, <2>6, <2>7, PushSeen DEF PlainStack
    <3>. QED BY <2>4, <2>9, <3>1
  <2>11. Product!VisitChild
    BY <1>at, <1>accepts, <2>1, <2>10 DEF Product!VisitChild, Product!push_back, push_back,
                                     PlainStack, g
  <2>. QED BY <2>11 DEF Product!Next
<1>7. CASE SkipChild
  <2>1. /\ At("visitChild") /\ ~ Accepts(Top.node, Top.i) /\ Goto("afterChild", Top.val)
        /\ UNCHANGED << root, visitor, log >>
    BY <1>7 DEF SkipChild
  <2>2. Product!Goto("afterChild")
    BY <1>goto, <2>1
  <2>3. Product!SkipChild
    BY <1>at, <1>accepts, <2>1, <2>2 DEF Product!SkipChild
  <2>. QED BY <2>3 DEF Product!Next
<1>8. CASE AfterChild
  <2> DEFINE v == Applied("afterChild", Top)
  <2>1. /\ At("afterChild") /\ Call("afterChild") /\ UNCHANGED << root, visitor >>
        /\ stack' = [stack EXCEPT ![Len(stack)].pc = "loop", ![Len(stack)].i = @ + 1,
                                  ![Len(stack)].val = v]
    BY <1>8 DEF AfterChild
  <2> HIDE DEF v
  <2> DEFINE f == [Top EXCEPT !.pc = "loop", !.i = @ + 1, !.val = v]
  <2>2. stack' = Step(f)
    BY <1>at, <1>top, <2>1, TopIsSound DEF IInv
  <2>3. /\ f.node = Top.node /\ f.path = Top.path /\ f.i = Top.i + 1 /\ f.pc = "loop"
        /\ Top.pc = "afterChild"
    BY <1>at, <1>top, <2>1 DEF Frame
  <2> HIDE DEF f
  <2>4. PlainFrame(f) = [PlainFrame(Top) EXCEPT !.pc = "loop", !.i = Top.i + 1,
                                                    !.child = Top.node]
    <3> DEFINE r == PlainFrame(Top)  q == PlainFrame(f)
    <3>1. /\ IsFrame(r) /\ IsFrame(q)
          /\ q.node = r.node /\ q.path = r.path /\ q.size = r.size
          /\ q.pc = "loop" /\ q.i = Top.i + 1 /\ q.child = Top.node
      BY <2>3 DEF PlainFrame, IsFrame
    <3> HIDE DEF r, q
    <3>2. q = [r EXCEPT !.pc = q.pc, !.i = q.i, !.child = q.child]
      BY <3>1, FrameLeaves
    <3>. QED BY <3>1, <3>2 DEF r, q
  <2>i. P[n].i = Top.i
    BY <1>at, <2>1 DEF PlainFrame
  <2>5. P' = [P EXCEPT ![n] = PlainFrame(f)]
    BY <1>on, <2>1, <2>2
  <2>6. P' = [P EXCEPT ![n].pc = "loop", ![n].i = @ + 1, ![n].child = Top.node]
    BY <1>at, <2>1, <2>4, <2>5, <2>i
  <2>7. Product!AfterChild
    BY <1>at, <1>top, <2>1, <2>6, CallSeen DEF Product!AfterChild, PlainStack
  <2>. QED BY <2>7 DEF Product!Next
<1>9. CASE Post
  <2>1. /\ At("loop") /\ ~ NextIndexTaken /\ Call("post")
        /\ UNCHANGED << root, visitor >>
    BY <1>9 DEF Post
  <2>r. PICK v : Return(v)
    BY <1>9 DEF Post
  <2>2. P' = Front(P)
    BY <1>at, <2>1, <2>r, PopSeen
  <2>3. Product!Return
    BY <2>2 DEF Product!Return, Product!Front, Front, PlainStack
  <2>4. Product!Top.i = Product!Top.size
    <3>1. Product!Top.size = degree(Top.node)
      BY <1>at, <1>top, <2>1 DEF PlainFrame
    <3>2. Top.i = degree(Top.node)
      BY <1>at, <2>1, LoopIsOver
    <3>. QED BY <1>at, <1>top, <2>1, <3>1, <3>2
  <2>5. Product!Post
    BY <1>at, <1>top, <2>1, <2>3, <2>4, CallSeen DEF Product!Post
  <2>. QED BY <2>5 DEF Product!Next
<1>. QED
  BY <1>1, <1>2, <1>3, <1>4, <1>5, <1>6, <1>7, <1>8, <1>9 DEF Next

(* hybridApplyToTree implements applyToTree: whatever the visitor hands on *)
(* and wherever the indices are known to the compiler, it receives the     *)
(* callbacks applyToTree makes, with the same nodes, paths and indices.    *)
THEOREM HybridImplementsTraversal == Spec => ImplementsTraversal
<1>1. Init => Product!Init
  BY InitIsProductInit
<1>2. IInv /\ IInv' /\ [Next]_vars => [Product!Next]_(Product!vars)
  <2>1. ASSUME UNCHANGED vars PROVE UNCHANGED Product!vars
    BY <2>1 DEF vars, Product!vars
  <2>. QED BY <2>1, NextIsProductNext
<1>. QED BY <1>1, <1>2, Invariance, PTL DEF Spec, ImplementsTraversal

-----------------------------------------------------------------------------
(* What a tree without dynamic nodes is, unfolded.                         *)
IsDynamic(n) == TagOf(n) = "DynamicPowerNodeTag"

LEMMA StaticIs ==
  \A n \in Node :
    /\ isStatic[n] \in BOOLEAN
    /\ isStatic[n] <=> ~ IsDynamic(n) /\ \A i \in 0 .. degree(n) - 1 : isStatic[child(n, i)]
BY IsStaticUnfolds DEF IsDynamic

(* The k-th activation is done with child j, and it has met with a dynamic *)
(* node: its own, when it has come to a child, or one below such a child.  *)
Over(s, k, j) ==
  j < s[k].i \/ (j = s[k].i /\ k = Len(s) /\ s[k].pc = "afterChild")

Met(s, k) ==
  \/ IsDynamic(s[k].node) /\ s[k].pc # "start" /\ (s[k].i > 0 \/ s[k].pc # "loop")
  \/ \E j \in 0 .. degree(s[k].node) - 1 :
       Over(s, k, j) /\ ~ isStatic[child(s[k].node, j)]

(* Any activation has, or the traversal that is over.                      *)
DynamicMet(s, r) ==
  IF s = << >> THEN ~ isStatic[r] ELSE \E k \in 1 .. Len(s) : Met(s, k)

WalksDown(s, r) ==
  /\ s # << >> => s[1].node = r
  /\ \A k \in 1 .. Len(s) - 1 :
       s[k].pc = "afterChild" /\ s[k + 1].node = child(s[k].node, s[k].i)

Counting(kind) == kind \in {"leafCount", "nodeCount"}

(* Where the values in vs are stored: in memory as soon as a dynamic node  *)
(* was met, in a type as long as there is none in the tree.                *)
StoredRight(vs, s, r) ==
  \A v \in vs : /\ DynamicMet(s, r) => v.storage = "memory"
                /\ isStatic[r] => v.storage = "type"

(* The inductive invariant.                                                *)
DInv ==
  /\ WalksDown(stack, root)
  /\ isStatic[root] => \A k \in 1 .. Len(stack) : isStatic[stack[k].node]
  /\ result \subseteq Carriable(visitor.kind)
  /\ stack # << >> => result = {}
  /\ Counting(visitor.kind) => StoredRight(carried, stack, root)

(* What a callback does to the place where the value is stored.            *)
LEMMA AppliedStorage ==
  ASSUME TypeOK, NEW kind, kind = visitor.kind, Counting(kind),
         NEW cb \in Callback, NEW f \in Sound(kind)
  PROVE  Applied(cb, f).storage =
           IF cb = "beforeChild" /\ IsDynamic(f.node) THEN "memory" ELSE f.val.storage
<1>1. /\ f.val = [storage |-> f.val.storage, n |-> f.val.n]
      /\ f.val = Indeterminate => f.val.storage = "memory"
      /\ f.node \in Node
  BY CarriableIsTyped DEF Sound, Frame
<1>2. visitor.treePathType = "fullyStatic"
  BY InfoVisitorAssumption DEF TypeOK, Counting
<1>3. StaticIndices(visitor, f.node) <=> ~ IsDynamic(f.node)
  BY <1>2 DEF StaticIndices, IsDynamic
<1>4. plus1(f.val).storage = f.val.storage
  BY <1>1 DEF plus1
<1>5. [f.val EXCEPT !.storage = "memory"].storage = "memory"
  BY <1>1
<1>. QED BY <1>3, <1>4, <1>5 DEF Applied, Counting, Callback

(* The innermost activation goes on with f.                                *)
LEMMA StoredOn ==
  ASSUME IInv, DInv, stack # << >>, UNCHANGED << root, visitor, result >>,
         NEW f \in Sound(visitor.kind), stack' = [stack EXCEPT ![Len(stack)] = f],
         f.node = Top.node,
         Counting(visitor.kind) =>
           \/ f.val.storage = "memory" /\ IsDynamic(Top.node)
           \/ /\ f.val.storage = Top.val.storage
              /\ Met(stack', Len(stack)) => Met(stack, Len(stack))
  PROVE  DInv'
<1> DEFINE n == Len(stack)
           kind == visitor.kind
<1>1. n \in 1 .. n /\ n \in Nat /\ Top = stack[n] /\ stack \in Seq(Sound(kind))
  BY TopIsSound DEF IInv
<1>2. /\ Len(stack') = n /\ stack' # << >> /\ stack'[n] = f
      /\ \A k \in 1 .. n - 1 : stack'[k] = stack[k]
  BY <1>1, ReplaceTop
<1>3. carried' = {f.val} /\ carried = {Top.val}
  BY StaysOnTop DEF carried, Done
<1> HIDE DEF n
<1>4. \A k \in 1 .. n : stack'[k].node = stack[k].node
  <2>1. \A k \in 1 .. n : k = n \/ k \in 1 .. n - 1
    BY <1>1
  <2>. QED BY <1>1, <1>2, <2>1
<1>5. WalksDown(stack', root)
  <2>1. 1 \in 1 .. n /\ \A k \in 1 .. n - 1 : k \in 1 .. n /\ k + 1 \in 1 .. n
    BY <1>1
  <2>. QED BY <1>2, <1>4, <2>1 DEF DInv, WalksDown, n
<1>6. isStatic[root] => \A k \in 1 .. Len(stack') : isStatic[stack'[k].node]
  BY <1>2, <1>4 DEF DInv, n
<1>7. ASSUME Counting(kind) PROVE StoredRight(carried', stack', root)
  <2>1. ASSUME DynamicMet(stack', root) PROVE f.val.storage = "memory"
    <3>1. PICK k \in 1 .. n : Met(stack', k)
      BY <1>2, <2>1 DEF DynamicMet
    <3>2. CASE k = n
      <4>1. CASE Met(stack, n)
        <5>1. DynamicMet(stack, root)
          BY <1>1, <4>1 DEF DynamicMet, n
        <5>2. Top.val.storage = "memory"
          BY <1>3, <1>7, <5>1 DEF DInv, StoredRight
        <5>. QED BY <1>7, <5>2
      <4>2. CASE ~ Met(stack, n)
        BY <1>7, <3>1, <3>2, <4>2 DEF n
      <4>. QED BY <4>1, <4>2
    <3>3. CASE k # n
      <4>1. k \in 1 .. n - 1
        BY <1>1, <3>3
      <4>2. Met(stack, k)
        BY <1>2, <3>1, <3>3, <4>1 DEF Met, Over, n
      <4>3. DynamicMet(stack, root)
        BY <4>2 DEF DynamicMet, n
      <4>4. Top.val.storage = "memory"
        BY <1>3, <1>7, <4>3 DEF DInv, StoredRight
      <4>. QED BY <1>7, <4>4
    <3>. QED BY <3>2, <3>3
  <2>2. ASSUME isStatic[root] PROVE f.val.storage = "type"
    <3>1. isStatic[Top.node] /\ Top.node \in Node
      BY <1>1, <2>2, TopIsSound DEF DInv, n
    <3>2. ~ IsDynamic(Top.node)
      BY <3>1, StaticIs
    <3>3. Top.val.storage = "type"
      BY <1>3, <1>7, <2>2 DEF DInv, StoredRight
    <3>. QED BY <1>7, <3>2, <3>3
  <2>. QED BY <1>3, <2>1, <2>2 DEF StoredRight
<1>. QED BY <1>2, <1>5, <1>6, <1>7 DEF DInv

(* It returns, with v.                                                     *)
LEMMA StoredBack ==
  ASSUME IInv, DInv, stack # << >>, UNCHANGED << root, visitor >>,
         NEW v \in Carriable(visitor.kind), Return(v),
         Counting(visitor.kind) =>
           /\ v.storage = Top.val.storage
           /\ ~ isStatic[Top.node] => Top.val.storage = "memory"
  PROVE  DInv'
<1> DEFINE n == Len(stack) - 1
           s == Front(stack)
           kind == visitor.kind
<1>1. /\ Len(stack) \in 1 .. Len(stack) /\ Len(stack) \in Nat /\ Top = stack[Len(stack)]
      /\ stack \in Seq(Sound(kind)) /\ Top.node \in Node
  BY TopIsSound DEF IInv
<1>2. carried' = {v} /\ carried = {Top.val}
  BY GoesBack DEF carried, Done
<1>3. Counting(kind) /\ isStatic[root] => v.storage = "type"
  BY <1>2 DEF DInv, StoredRight
<1>4. CASE Len(stack) = 1
  <2>1. stack' = << >> /\ result' = {v} /\ Len(stack') = 0 /\ Top.node = root
    BY <1>1, <1>4 DEF Return, DInv, WalksDown
  <2>2. \A k : k \notin 1 .. Len(stack') /\ k \notin 1 .. Len(stack') - 1
    BY <2>1
  <2>3. Counting(kind) => StoredRight(carried', stack', root)
    BY <1>2, <1>3, <2>1 DEF StoredRight, DynamicMet
  <2>. QED BY <2>1, <2>2, <2>3 DEF DInv, WalksDown
<1>5. CASE Len(stack) # 1
  <2>. HIDE DEF s
  <2>1. n \in Nat /\ n >= 1 /\ n + 1 = Len(stack) /\ Len(stack) - 1 = n
    <3> DEFINE m == Len(stack)
    <3>1. m \in Nat /\ m \in 1 .. m /\ m # 1 /\ n = m - 1
      BY <1>1, <1>5
    <3>2. SUFFICES n \in Nat /\ n >= 1 /\ n + 1 = m /\ m - 1 = n
      OBVIOUS
    <3> HIDE DEF m, n
    <3>. QED BY <3>1
  <2>2. s \in Seq(Sound(kind)) /\ Len(s) = n /\ \A k \in 1 .. n : s[k] = stack[k]
    BY <1>1, PopTop DEF s
  <2>. HIDE DEF n
  <2>3. n \in 1 .. n /\ 1 \in 1 .. n /\ n # Len(stack)
    BY <2>1
  <2>4. \A k \in 1 .. n : k \in 1 .. Len(stack) /\ k # Len(stack)
    BY <2>1
  <2>5. \A k \in 1 .. n : k = n \/ k \in 1 .. n - 1
    BY <2>1
  <2>6. \A k \in 1 .. n - 1 : k \in 1 .. n /\ k + 1 \in 1 .. n
    BY <2>1
  <2>7. s # << >>
    BY <2>1, <2>2
  <2>8. stack' = [s EXCEPT ![n].val = v] /\ result' = result
    BY <1>5, <2>1 DEF Return, s, n
  <2> DEFINE f == [s[n] EXCEPT !.val = v]
  <2>9. s[n] \in Sound(kind)
    BY <2>3, <2>2, ElementOfSeq
  <2>10. f \in Sound(kind) /\ f.node = s[n].node /\ f.i = s[n].i /\ f.pc = s[n].pc
    BY <2>9 DEF Sound, Frame, Carriable
  <2>11. stack' = [s EXCEPT ![Len(s)] = f]
    BY <2>2, <2>8 DEF f
  <2> HIDE DEF f
  <2>12. /\ Len(stack') = n /\ stack' # << >> /\ stack'[n] = f
        /\ \A k \in 1 .. n - 1 : stack'[k] = s[k]
    BY <2>1, <2>3, <2>2, <2>7, <2>10, <2>11, ReplaceTop
  <2>13. \A k \in 1 .. n : /\ stack'[k].node = stack[k].node
                          /\ stack'[k].i = stack[k].i /\ stack'[k].pc = stack[k].pc
    BY <2>1, <2>3, <2>4, <2>5, <2>6, <2>2, <2>10, <2>12
  <2>14. WalksDown(stack', root)
    BY <2>1, <2>3, <2>4, <2>5, <2>6, <2>12, <2>13 DEF DInv, WalksDown
  <2>15. isStatic[root] => \A k \in 1 .. Len(stack') : isStatic[stack'[k].node]
    BY <2>1, <2>3, <2>4, <2>5, <2>6, <2>12, <2>13 DEF DInv
  <2>16. ASSUME Counting(kind) PROVE StoredRight(carried', stack', root)
    <3>1. ASSUME DynamicMet(stack', root) PROVE v.storage = "memory"
      <4>1. PICK k \in 1 .. n : Met(stack', k)
        BY <2>12, <3>1 DEF DynamicMet
      <4>2. CASE Met(stack, k)
        <5>1. DynamicMet(stack, root)
          BY <2>1, <2>3, <2>4, <2>5, <2>6, <4>2 DEF DynamicMet
        <5>2. Top.val.storage = "memory"
          BY <1>2, <2>16, <5>1 DEF DInv, StoredRight
        <5>. QED BY <2>16, <5>2
      <4>3. CASE ~ Met(stack, k)
        <5>1. PICK j \in 0 .. degree(stack[k].node) - 1 :
                 Over(stack', k, j) /\ ~ isStatic[child(stack[k].node, j)]
          BY <2>13, <4>1, <4>3 DEF Met
        <5>2. ~ Over(stack, k, j)
          BY <4>3, <5>1 DEF Met
        <5>3. k = n /\ j = stack[k].i
          BY <2>12, <2>13, <5>1, <5>2 DEF Over
        <5>4. Top.node = child(stack[k].node, j)
          BY <1>1, <2>1, <2>3, <2>4, <2>5, <2>6, <5>3 DEF DInv, WalksDown
        <5>. QED BY <2>16, <5>1, <5>4
      <4>. QED BY <4>2, <4>3
    <3>. QED BY <1>2, <1>3, <2>16, <3>1 DEF StoredRight
  <2>. QED BY <2>8, <2>12, <2>14, <2>15, <2>16 DEF DInv
<1>. QED BY <1>4, <1>5

(* It calls an activation for its child.                                   *)
LEMMA StoredDown ==
  ASSUME IInv, DInv, stack # << >>, UNCHANGED << root, visitor, result >>,
         NEW w \in Sound(visitor.kind), NEW f \in Sound(visitor.kind),
         stack' = Append([stack EXCEPT ![Len(stack)] = w], f),
         Top.pc = "visitChild", Top.i < degree(Top.node),
         w.node = Top.node, w.i = Top.i, w.pc = "afterChild",
         f.node = child(Top.node, Top.i), f.i = 0, f.pc = "start", f.val = Top.val
  PROVE  DInv'
<1> DEFINE n == Len(stack)
           kind == visitor.kind
           t == [stack EXCEPT ![n] = w]
<1>1. /\ n \in 1 .. n /\ n \in Nat /\ Top = stack[n] /\ stack \in Seq(Sound(kind))
      /\ Top.node \in Node /\ Top.i \in Nat
  BY TopIsSound DEF IInv
<1>2. /\ t \in Seq(Sound(kind)) /\ Len(t) = n /\ t[n] = w
      /\ \A k \in 1 .. n - 1 : t[k] = stack[k]
  BY <1>1, ReplaceTop
<1>3. stack' = Append(t, f)
  OBVIOUS
<1> HIDE DEF t
<1>4. /\ stack' # << >> /\ Len(stack') = n + 1 /\ stack'[n + 1] = f
      /\ \A k \in 1 .. n : stack'[k] = t[k]
  BY <1>2, <1>3, PushTop
<1> HIDE DEF n
<1>5. /\ \A k \in 1 .. n + 1 : k = n + 1 \/ k \in 1 .. n
      /\ \A k \in 1 .. n : k = n \/ k \in 1 .. n - 1
      /\ \A k \in 1 .. n - 1 : k + 1 \in 1 .. n /\ k \in 1 .. n
      /\ 1 \in 1 .. n /\ (n + 1) - 1 = n /\ n # n + 1
      /\ \A k \in 1 .. n : k # n + 1
  BY <1>1
<1>6. \A k \in 1 .. n : stack'[k].node = stack[k].node /\ stack'[k].i = stack[k].i
  BY <1>1, <1>2, <1>4, <1>5
<1>7. carried' = {Top.val} /\ carried = {Top.val}
  BY <1>4 DEF carried, Done, Top, Last
<1>8. WalksDown(stack', root)
  BY <1>1, <1>2, <1>4, <1>5, <1>6 DEF DInv, WalksDown, n
<1>9. isStatic[root] => \A k \in 1 .. Len(stack') : isStatic[stack'[k].node]
  <2> SUFFICES ASSUME isStatic[root] PROVE \A k \in 1 .. n + 1 : isStatic[stack'[k].node]
    BY <1>4
  <2>1. \A k \in 1 .. n : isStatic[stack'[k].node]
    BY <1>6 DEF DInv, n
  <2>2. isStatic[f.node]
    <3>1. isStatic[Top.node]
      BY <1>1 DEF DInv, n
    <3>2. Top.i \in 0 .. degree(Top.node) - 1
      BY <1>1, DegreeIsNat
    <3>. QED BY <1>1, <3>1, <3>2, StaticIs
  <2>. QED BY <1>4, <1>5, <2>1, <2>2
<1>10. ASSUME Counting(kind) PROVE StoredRight(carried', stack', root)
  <2>1. ASSUME DynamicMet(stack', root) PROVE Top.val.storage = "memory"
    <3>1. PICK k \in 1 .. n + 1 : Met(stack', k)
      BY <1>4, <2>1 DEF DynamicMet
    <3>2. k # n + 1
      <4> SUFFICES ASSUME k = n + 1 PROVE FALSE
        OBVIOUS
      <4>1. \A j \in 0 .. degree(f.node) - 1 : ~ (j < f.i)
        BY DegreeIsNat
      <4>. QED BY <1>4, <3>1, <4>1 DEF Met, Over
    <3>3. k \in 1 .. n
      BY <1>5, <3>2
    <3>4. Met(stack, k)
      <4>1. k = n => stack[k].pc = "visitChild"
        BY <1>1
      <4>2. k # n => stack'[k].pc = stack[k].pc
        BY <1>2, <1>4, <1>5, <3>3
      <4>. QED BY <1>4, <1>5, <1>6, <3>1, <3>3, <4>1, <4>2 DEF Met, Over
    <3>5. DynamicMet(stack, root)
      BY <3>3, <3>4 DEF DynamicMet, n
    <3>. QED BY <1>7, <1>10, <3>5 DEF DInv, StoredRight
  <2>2. isStatic[root] => Top.val.storage = "type"
    BY <1>7, <1>10 DEF DInv, StoredRight
  <2>. QED BY <1>7, <2>1, <2>2 DEF StoredRight
<1>. QED BY <1>4, <1>8, <1>9, <1>10 DEF DInv

(* Going on within the loop meets with nothing new.                        *)
LEMMA MetBefore ==
  ASSUME IInv, stack # << >>, NEW f \in Sound(visitor.kind),
         stack' = [stack EXCEPT ![Len(stack)] = f], f.node = Top.node,
         IsDynamic(Top.node) /\ (f.pc = "loop" => f.i > 0) =>
           Top.pc \in {"in", "visitChild", "afterChild"},
         f.pc # "afterChild",
         \A j \in Nat : j < f.i => j < Top.i \/ (j = Top.i /\ Top.pc = "afterChild"),
         Met(stack', Len(stack))
  PROVE  Met(stack, Len(stack))
<1> DEFINE n == Len(stack)
<1>1. /\ n \in 1 .. n /\ Top = stack[n] /\ stack \in Seq(Sound(visitor.kind))
      /\ Top.node \in Node
  BY TopIsSound DEF IInv
<1>2. stack'[n] = f /\ Len(stack') = n
  BY <1>1, ReplaceTop
<1> HIDE DEF n
<1>3. CASE IsDynamic(Top.node) /\ (f.pc = "loop" => f.i > 0)
  <2>1. Top.pc \in {"in", "visitChild", "afterChild"}
    BY <1>3
  <2>. QED BY <1>1, <1>3, <2>1 DEF Met, n
<1>4. CASE ~ (IsDynamic(Top.node) /\ (f.pc = "loop" => f.i > 0))
  <2>1. PICK j \in 0 .. degree(Top.node) - 1 :
          Over(stack', n, j) /\ ~ isStatic[child(Top.node, j)]
    BY <1>2, <1>4 DEF Met, n
  <2>2. j < f.i /\ j \in Nat
    BY <1>1, <1>2, <2>1, DegreeIsNat DEF Over
  <2>3. Over(stack, n, j)
    BY <1>1, <2>2 DEF Over, n
  <2>. QED BY <1>1, <2>1, <2>3 DEF Met, n
<1>. QED BY <1>3, <1>4

LEMMA InitDInv == Init => DInv
<1> SUFFICES ASSUME Init PROVE DInv
  OBVIOUS
<1> DEFINE f == Activation(root, << >>, Initial(visitor))
<1>1. stack = << f >> /\ result = {} /\ root \in Node
  BY DEF Init, Compiles
<1>2. f.node = root /\ f.i = 0 /\ f.pc = "start" /\ f.val = Initial(visitor)
  BY DEF Activation
<1> HIDE DEF f
<1>3. Len(stack) = 1 /\ stack[1] = f /\ stack # << >> /\ 1 .. 1 = {1} /\ 1 .. 1 - 1 = {}
  BY <1>1
<1>4. carried = {Initial(visitor)}
  BY <1>2, <1>3 DEF carried, Done, Top, Last
<1>5. ~ DynamicMet(stack, root)
  <2>1. \A j \in 0 .. degree(root) - 1 : ~ (j < f.i)
    BY <1>1, <1>2, DegreeIsNat
  <2>2. ~ Met(stack, 1)
    BY <1>2, <1>3, <2>1 DEF Met, Over
  <2>. QED BY <1>3, <2>2 DEF DynamicMet
<1>6. Counting(visitor.kind) => Initial(visitor).storage = "type"
  BY DEF Counting, Initial
<1>7. WalksDown(stack, root)
  BY <1>2, <1>3 DEF WalksDown
<1>8. isStatic[root] => \A k \in 1 .. Len(stack) : isStatic[stack[k].node]
  BY <1>2, <1>3
<1>9. Counting(visitor.kind) => StoredRight(carried, stack, root)
  BY <1>4, <1>5, <1>6 DEF StoredRight
<1>. QED BY <1>1, <1>3, <1>7, <1>8, <1>9 DEF DInv

(* An activation that has met with a dynamic node has its value in memory. *)
LEMMA MetInMemory ==
  ASSUME IInv, DInv, stack # << >>, Counting(visitor.kind), Met(stack, Len(stack))
  PROVE  Top.val.storage = "memory"
<1>1. Len(stack) \in 1 .. Len(stack)
  BY TopIsSound
<1>2. DynamicMet(stack, root)
  BY <1>1 DEF DynamicMet
<1>3. carried = {Top.val}
  BY DEF carried, Done
<1>. QED BY <1>2, <1>3 DEF DInv, StoredRight

LEMMA NextDInv == IInv /\ DInv /\ [Next]_vars => DInv'
<1> SUFFICES ASSUME IInv, DInv, [Next]_vars PROVE DInv'
  OBVIOUS
<1> DEFINE kind == visitor.kind
<1>typed. TypeOK
  BY DEF IInv
(* A callback after which the activation goes on.                          *)
<1>on. ASSUME stack # << >>, UNCHANGED << root, visitor, result >>,
              NEW cb \in {"pre", "beforeChild", "in"}, Call(cb),
              NEW pc \in {"loop", "in", "visitChild"}, Goto(pc, Applied(cb, Top)),
              Within(Top.node, Top.i), pc # "loop" => Top.i < degree(Top.node),
              \/ cb = "beforeChild"
              \/ cb = "pre" /\ pc = "loop" /\ Top.i = 0
              \/ cb = "in" /\ Top.pc = "in"
       PROVE  DInv'
  <2> DEFINE f == [Top EXCEPT !.pc = pc, !.val = Applied(cb, Top)]
  <2>1. cb \in Callback
    BY DEF Callback
  <2>2. Applied(cb, Top) \in Carriable(kind)
    BY <1>on, <2>1, TopIsSound, CallCounts
  <2>3. /\ f \in Sound(kind) /\ f.val = Applied(cb, Top) /\ f.node = Top.node
        /\ f.i = Top.i /\ f.pc = pc
    BY <1>on, <2>2, TopIsSound DEF Sound, Frame, Carriable
  <2>4. stack' = [stack EXCEPT ![Len(stack)] = f]
    BY <1>on, TopIsSound DEF Goto, IInv
  <2> HIDE DEF f
  <2>5. ASSUME Counting(kind), ~ (cb = "beforeChild" /\ IsDynamic(Top.node))
        PROVE  /\ f.val.storage = Top.val.storage
               /\ Met(stack', Len(stack)) => Met(stack, Len(stack))
    <3>1. f.val.storage = Top.val.storage
      BY <1>on, <1>typed, <2>1, <2>3, <2>5, TopIsSound, AppliedStorage
    <3>2. IsDynamic(Top.node) /\ (f.pc = "loop" => f.i > 0) =>
            Top.pc \in {"in", "visitChild", "afterChild"}
      BY <1>on, <2>3, <2>5
    <3>3. Met(stack', Len(stack)) => Met(stack, Len(stack))
      BY <1>on, <2>3, <2>4, <3>2, MetBefore
    <3>. QED BY <3>1, <3>3
  <2>6. ASSUME Counting(kind), cb = "beforeChild", IsDynamic(Top.node)
        PROVE  f.val.storage = "memory"
    BY <1>on, <1>typed, <2>1, <2>3, <2>6, TopIsSound, AppliedStorage
  <2>. QED BY <1>on, <2>3, <2>4, <2>5, <2>6, StoredOn
(* A callback after which it returns, made of f.                           *)
<1>back. ASSUME stack # << >>, UNCHANGED << root, visitor >>,
                NEW cb \in {"post", "leaf"}, Call(cb),
                NEW f \in Sound(kind), f.path = Top.path, Amounts(f.val, expected),
                Return(Applied(cb, f)),
                Counting(kind) => /\ f.val.storage = Top.val.storage
                                  /\ ~ isStatic[Top.node] => Top.val.storage = "memory"
         PROVE  DInv'
  <2>1. cb \in Callback /\ cb # "beforeChild"
    BY DEF Callback
  <2>2. Applied(cb, f) \in Carriable(kind)
    BY <1>back, <2>1, CallCounts
  <2>3. Counting(kind) => Applied(cb, f).storage = Top.val.storage
    BY <1>back, <1>typed, <2>1, AppliedStorage
  <2>. QED BY <1>back, <2>2, <2>3, StoredBack
(* A step that leaves the activations and their values alone.              *)
<1>quiet. ASSUME UNCHANGED << root, visitor, stack, result >> PROVE DInv'
  <2>1. carried' = carried
    BY <1>quiet DEF carried, Done, Top
  <2>. QED BY <1>quiet, <2>1 DEF DInv
<1>1. CASE Leaf
  <2>1. /\ stack # << >> /\ isLeaf(Top.node) /\ Call("leaf") /\ Return(Applied("leaf", Top))
        /\ UNCHANGED << root, visitor, failed >>
    BY <1>1 DEF Leaf, At
  <2>2. isStatic[Top.node]
    <3>1. Top.node \in Node
      BY <2>1, TopIsSound
    <3>2. degree(Top.node) = 0 /\ ~ IsDynamic(Top.node)
      BY <2>1, <3>1, TreeAssumption DEF NestingAssumption, degree, isLeaf, IsDynamic
    <3>3. \A i \in 0 .. degree(Top.node) - 1 : isStatic[child(Top.node, i)]
      BY <3>2
    <3>. QED BY <3>1, <3>2, <3>3, StaticIs
  <2>. QED BY <1>back, <2>1, <2>2, TopIsSound
<1>2. CASE Pre
  <2>1. /\ stack # << >> /\ Top.pc = "start" /\ ~ isLeaf(Top.node) /\ Call("pre")
        /\ Goto("loop", Applied("pre", Top))
        /\ UNCHANGED << root, visitor, result, failed >>
    BY <1>2 DEF Pre, At
  <2>2. Within(Top.node, Top.i) /\ Top.i = 0
    <3>1. Top.i = 0 /\ Top.node \in Node
      BY <2>1, TopIsSound DEF Sound
    <3>. QED BY <2>1, <3>1, DegreeIsNat DEF Within
  <2>. QED BY <1>on, <2>1, <2>2
<1>3. CASE AssertionFails
  BY <1>3, <1>quiet DEF AssertionFails
<1>4. CASE BeforeChild
  <2> DEFINE pc == IF Top.i = 0 THEN "visitChild" ELSE "in"
  <2>1. /\ stack # << >> /\ Top.pc = "loop" /\ Call("beforeChild")
        /\ Goto(pc, Applied("beforeChild", Top))
        /\ Top.i < degree(Top.node)
        /\ UNCHANGED << root, visitor, result, failed >>
    BY <1>4 DEF BeforeChild, At, checkChildIndex
  <2>2. pc \in {"visitChild", "in"}
    OBVIOUS
  <2>3. Within(Top.node, Top.i)
    BY <2>1, TopIsSound DEF Sound
  <2> HIDE DEF pc
  <2>. QED BY <1>on, <2>1, <2>2, <2>3
<1>5. CASE In
  <2>1. /\ stack # << >> /\ Top.pc = "in" /\ Call("in")
        /\ Goto("visitChild", Applied("in", Top))
        /\ UNCHANGED << root, visitor, result, failed >>
    BY <1>5 DEF In, At
  <2>2. Top.i < degree(Top.node) /\ Within(Top.node, Top.i)
    BY <2>1, TopIsSound DEF Sound
  <2>. QED BY <1>on, <2>1, <2>2
<1>6. CASE VisitChild
  <2> DEFINE w == [Top EXCEPT !.pc = "afterChild"]
             f == Activation(child(Top.node, Top.i), push_back(Top.path, Top.i), Top.val)
  <2>1. /\ stack # << >> /\ Top.pc = "visitChild"
        /\ stack' = Append([stack EXCEPT ![Len(stack)].pc = "afterChild"], f)
        /\ UNCHANGED << root, visitor, result >>
    BY <1>6 DEF VisitChild, At
  <2>2. /\ Top.val \in Carriable(kind) /\ Top.i < degree(Top.node)
        /\ Within(Top.node, Top.i)
    BY <2>1, TopIsSound DEF Sound
  <2>3. /\ w \in Sound(kind) /\ w.node = Top.node /\ w.i = Top.i /\ w.pc = "afterChild"
    BY <2>1, <2>2, TopIsSound DEF Sound, Frame
  <2>4. f \in Sound(kind)
    <3>1. child(Top.node, Top.i) \in Node
      BY <2>1, <2>2, TopIsSound, ChildIsNode
    <3>2. push_back(Top.path, Top.i) \in TreePath
      BY <2>1, TopIsSound DEF push_back, TreePath
    <3>. QED BY <2>2, <3>1, <3>2 DEF Activation, Sound, Frame, Carriable
  <2>5. /\ f.val = Top.val /\ f.node = child(Top.node, Top.i) /\ f.i = 0 /\ f.pc = "start"
    BY DEF Activation
  <2>6. stack' = Append([stack EXCEPT ![Len(stack)] = w], f)
    BY <2>1, TopIsSound DEF IInv
  <2> HIDE DEF f, w
  <2>. QED BY <2>1, <2>2, <2>3, <2>4, <2>5, <2>6, StoredDown
<1>7. CASE SkipChild
  <2> DEFINE f == [Top EXCEPT !.pc = "afterChild", !.val = Top.val]
  <2>1. /\ stack # << >> /\ Top.pc = "visitChild" /\ Goto("afterChild", Top.val)
        /\ ~ Accepts(Top.node, Top.i) /\ UNCHANGED << root, visitor, result >>
    BY <1>7 DEF SkipChild, At
  <2>2. f \in Sound(kind) /\ f.node = Top.node
    BY <2>1, TopIsSound DEF Sound, Frame
  <2>3. stack' = [stack EXCEPT ![Len(stack)] = f]
    BY <2>1, TopIsSound DEF Goto, IInv
  <2>4. ~ Counting(kind)
    <3>1. Top.node \in Node /\ child(Top.node, Top.i) \in Node
      BY <2>1, TopIsSound, ChildIsNode DEF Sound
    <3>2. << TypeOf[Top.node], TypeOf[child(Top.node, Top.i)] >> \in Type \X Type
      BY <3>1, TreeAssumption DEF NodeAssumption
    <3>. QED BY <1>typed, <2>1, <3>2, InfoVisitorAssumption DEF TypeOK, Counting, Accepts
  <2> HIDE DEF f
  <2>. QED BY <2>1, <2>2, <2>3, <2>4, StoredOn
<1>8. CASE AfterChild
  <2> DEFINE v == Applied("afterChild", Top)
             f == [Top EXCEPT !.pc = "loop", !.i = @ + 1, !.val = v]
  <2>1. /\ stack # << >> /\ Top.pc = "afterChild" /\ Call("afterChild")
        /\ stack' = [stack EXCEPT ![Len(stack)].pc = "loop",
                                  ![Len(stack)].i = @ + 1,
                                  ![Len(stack)].val = v]
        /\ UNCHANGED << root, visitor, result, failed >>
    BY <1>8 DEF AfterChild, At
  <2>2. v \in Carriable(kind)
    BY <2>1, TopIsSound, CallCounts DEF Callback
  <2>3. Counting(kind) => v.storage = Top.val.storage
    BY <1>typed, <2>1, TopIsSound, AppliedStorage DEF Callback
  <2> HIDE DEF v
  <2>4. Within(Top.node, Top.i + 1)
    <3>1. Top.i < degree(Top.node) /\ Within(Top.node, Top.i)
      BY <2>1, TopIsSound DEF Sound
    <3>. QED BY <2>1, <3>1, TopIsSound, DegreeIsNat DEF Within
  <2>5. /\ f \in Sound(kind) /\ f.val = v /\ f.node = Top.node /\ f.i = Top.i + 1
        /\ f.pc = "loop"
    BY <2>1, <2>2, <2>4, TopIsSound DEF Sound, Frame, Carriable
  <2>6. stack' = [stack EXCEPT ![Len(stack)] = f]
    BY <2>1, TopIsSound DEF IInv
  <2> HIDE DEF f
  <2>7. \A j \in Nat : j < f.i => j < Top.i \/ (j = Top.i /\ Top.pc = "afterChild")
    BY <2>1, <2>5, TopIsSound
  <2>8. Met(stack', Len(stack)) => Met(stack, Len(stack))
    BY <2>1, <2>5, <2>6, <2>7, MetBefore
  <2>. QED BY <2>1, <2>3, <2>5, <2>6, <2>8, StoredOn
<1>9. CASE Post
  <2>1. /\ stack # << >> /\ Top.pc = "loop" /\ ~ NextIndexTaken /\ Call("post")
        /\ UNCHANGED << root, visitor, failed >>
    BY <1>9 DEF Post, At
  <2>2. PICK u \in {Top.val, Indeterminate} :
          /\ u = Indeterminate => u = Top.val \/ Top.val.storage = "memory"
          /\ Return(Applied("post", [Top EXCEPT !.val = u]))
    BY <1>9 DEF Post, left_fold
  <2> DEFINE f == [Top EXCEPT !.val = u]
  <2>3. u \in Carriable(kind) /\ Amounts(u, expected)
    BY <2>1, <2>2, TopIsSound DEF Carriable, Value, Indeterminate, Amounts
  <2>4. f \in Sound(kind) /\ f.path = Top.path /\ f.val = u
    BY <2>1, <2>3, TopIsSound DEF Sound, Frame, Carriable
  <2>5. Return(Applied("post", f))
    BY <2>2
  <2> HIDE DEF f
  <2>6. u.storage = Top.val.storage
    BY <2>2 DEF Indeterminate
  <2>7. ASSUME Counting(kind), ~ isStatic[Top.node] PROVE Top.val.storage = "memory"
    <3>1. /\ Len(stack) \in 1 .. Len(stack) /\ Top = stack[Len(stack)]
          /\ Top.node \in Node /\ Top.i = degree(Top.node)
          /\ ~ StaticIndices(visitor, Top.node) => Top.i > 0
      BY <2>1, TopIsSound, LoopIsOver
    <3>2. CASE IsDynamic(Top.node)
      <4>1. Top.i > 0
        BY <3>1, <3>2 DEF StaticIndices, IsDynamic
      <4>2. Met(stack, Len(stack))
        BY <2>1, <3>1, <3>2, <4>1 DEF Met
      <4>. QED BY <2>1, <2>7, <4>2, MetInMemory
    <3>3. CASE ~ IsDynamic(Top.node)
      <4>1. PICK j \in 0 .. degree(Top.node) - 1 : ~ isStatic[child(Top.node, j)]
        BY <2>7, <3>1, <3>3, StaticIs
      <4>2. j < Top.i
        BY <3>1, DegreeIsNat
      <4>3. Met(stack, Len(stack))
        BY <3>1, <4>1, <4>2 DEF Met, Over
      <4>. QED BY <2>1, <2>7, <4>3, MetInMemory
    <3>. QED BY <3>2, <3>3
  <2>. QED BY <1>back, <2>1, <2>3, <2>4, <2>5, <2>6, <2>7
<1>10. CASE UNCHANGED vars
  BY <1>10, <1>quiet DEF vars
<1>. QED
  BY <1>1, <1>2, <1>3, <1>4, <1>5, <1>6, <1>7, <1>8, <1>9, <1>10 DEF Next

LEMMA StorageInvariance == Spec => [](IInv /\ DInv)
<1>1. Init => IInv /\ DInv
  BY InitIInv, InitDInv
<1>2. (IInv /\ DInv) /\ [Next]_vars => (IInv /\ DInv)'
  BY NextIInv, NextDInv
<1>. QED BY <1>1, <1>2, PTL DEF Spec

(* The value leafCount or nodeCount returns is in memory if and only if    *)
(* there is a DynamicPowerNode in the tree, on which Info::isDynamic       *)
(* relies, and the one depth returns is an integral constant always.       *)
THEOREM DynamicIsInMemory == Spec => []DynamicInfo
<1>1. ASSUME IInv, DInv PROVE DynamicInfo
  <2> SUFFICES ASSUME NEW v \in result
               PROVE  /\ visitor.kind \in {"leafCount", "nodeCount"} =>
                           (v.storage = "memory" <=> ~ isStatic[root])
                      /\ visitor.kind = "depth" => v.storage = "type"
    BY DEF DynamicInfo
  <2>1. stack = << >>
    BY <1>1 DEF DInv
  <2>2. visitor.kind = "depth" => v.storage = "type"
    BY <1>1 DEF DInv, Carriable
  <2>3. ASSUME Counting(visitor.kind)
        PROVE  (~ isStatic[root] => v.storage = "memory") /\ (isStatic[root] => v.storage = "type")
    BY <1>1, <2>1, <2>3 DEF DInv, StoredRight, carried, Done, DynamicMet
  <2>. QED BY <2>2, <2>3 DEF Counting
<1>. QED BY <1>1, StorageInvariance, PTL

-----------------------------------------------------------------------------
(* rest[n][k] is what the children of n from the k-th one on come to, of a *)
(* leaf just as well.                                                      *)
Rests(rest) ==
  \A n \in Node :
    /\ Summed[n] \in Info
    /\ Summed[n] = IF isLeaf(n) THEN LeafInfo ELSE Above(rest[n][0])
    /\ rest[n][degree(n)] = NoInfo
    /\ \A k \in 0 .. degree(n) - 1 :
         rest[n][k] = Joined(Summed[child(n, k)], rest[n][k + 1])

LEMMA RestsExist == \E rest \in [Node -> [Nat -> Info]] : Rests(rest)
<1> DEFINE chain(n) == CHOOSE g : /\ InfoChain(Summed, n, g)
                                  /\ ~ isLeaf(n) => Summed[n] = Above(g[0])
           rest == [n \in Node |->
                      [k \in Nat |-> IF k <= degree(n) THEN chain(n)[k] ELSE NoInfo]]
<1>1. ASSUME NEW n \in Node
      PROVE  /\ InfoChain(Summed, n, chain(n))
             /\ ~ isLeaf(n) => Summed[n] = Above(chain(n)[0])
  <2>1. InfoBelow(Summed, n) /\ SumsUp(Summed, n)
    BY SummedUnfolds
  <2>2. \E g : InfoChain(Summed, n, g)
    BY <2>1, ChainsExist
  <2>3. \E g : InfoChain(Summed, n, g) /\ (~ isLeaf(n) => Summed[n] = Above(g[0]))
    BY <2>1, <2>2 DEF SumsUp
  <2>. QED BY <2>3
<1> HIDE DEF chain
<1>2. ASSUME NEW n \in Node
      PROVE  /\ degree(n) \in Nat
             /\ \A k \in 0 .. degree(n) : chain(n)[k] \in Info
             /\ chain(n)[degree(n)] = NoInfo
             /\ \A k \in 0 .. degree(n) - 1 :
                  chain(n)[k] = Joined(Summed[child(n, k)], chain(n)[k + 1])
  BY <1>1, DegreeIsNat DEF InfoChain, Joins, OfChildren
<1>3. rest \in [Node -> [Nat -> Info]]
  <2>1. ASSUME NEW n \in Node, NEW k \in Nat
        PROVE  (IF k <= degree(n) THEN chain(n)[k] ELSE NoInfo) \in Info
    BY <1>2, NoInfoIs
  <2>. QED BY <2>1
<1>4. ASSUME NEW n \in Node, NEW k \in 0 .. degree(n) PROVE rest[n][k] = chain(n)[k]
  BY <1>2
<1> HIDE DEF rest
<1>5. ASSUME NEW n \in Node
      PROVE  /\ Summed[n] \in Info
             /\ Summed[n] = IF isLeaf(n) THEN LeafInfo ELSE Above(rest[n][0])
             /\ rest[n][degree(n)] = NoInfo
             /\ \A k \in 0 .. degree(n) - 1 :
                  rest[n][k] = Joined(Summed[child(n, k)], rest[n][k + 1])
  <2>1. 0 \in 0 .. degree(n) /\ degree(n) \in 0 .. degree(n)
    BY <1>2
  <2>2. \A k \in 0 .. degree(n) - 1 : k \in 0 .. degree(n) /\ k + 1 \in 0 .. degree(n)
    BY <1>2
  <2>3. Summed[n] \in Info /\ SumsUp(Summed, n)
    BY SummedUnfolds
  <2>4. Summed[n] = IF isLeaf(n) THEN LeafInfo ELSE Above(rest[n][0])
    BY <1>1, <1>4, <2>1, <2>3 DEF SumsUp
  <2>. QED BY <1>2, <1>4, <2>1, <2>2, <2>3, <2>4
<1>6. Rests(rest)
  BY <1>5 DEF Rests
<1>. QED BY <1>3, <1>6

(* What lies behind the k-th child of n.                                   *)
Rest == CHOOSE rest \in [Node -> [Nat -> Info]] : Rests(rest)

LEMMA RestIs == Rest \in [Node -> [Nat -> Info]] /\ Rests(Rest)
BY RestsExist DEF Rest

(* The number an Info visitor is after.                                    *)
Wanted(kind, x) ==
  IF kind = "depth" THEN x.depth ELSE IF kind = "nodeCount" THEN x.nodeCount ELSE x.leafCount

(* What the value u becomes by subtrees with the number x whose roots are  *)
(* k steps below the root.                                                 *)
Reached(kind, u, x, k) ==
  IF kind = "depth" THEN IF u < k + x THEN k + x ELSE u ELSE u + x

(* The value u of the k-th activation, called for n with the value e and   *)
(* done with j children, comes with what lies ahead to the number of n.    *)
Comes(kind, u, e, n, j, k) ==
  /\ Reached(kind, u, Wanted(kind, Rest[n][j]), k)
       = Reached(kind, e, Wanted(kind, Summed[n]), k - 1)
  /\ kind = "depth" /\ j > 0 => u >= k

Entry(s, k) == IF k = 1 THEN 0 ELSE s[k - 1].val.n

Passed(f, innermost) == IF innermost /\ f.pc = "afterChild" THEN f.i + 1 ELSE f.i

Balanced(kind, s, k) ==
  IF s[k].pc = "start"
    THEN s[k].val.n = Entry(s, k)
    ELSE Comes(kind, s[k].val.n, Entry(s, k), s[k].node, Passed(s[k], k = Len(s)), k)

(* An Info visitor at work on a tree for which Summed has what it wants.   *)
Informing ==
  /\ isStatic[root]
  /\ visitor.kind # "client"
  /\ ~ (visitor.kind = "depth" /\ \E n \in Node : Childless(n))

(* The inductive invariant.                                                *)
SInv ==
  Informing =>
    /\ \A k \in 1 .. Len(stack) : /\ stack[k].val.storage = "type"
                                  /\ Len(stack[k].path) = k - 1
                                  /\ Balanced(visitor.kind, stack, k)
    /\ \A v \in result : v.n = Wanted(visitor.kind, Summed[root])

LEMMA WantedIsNat ==
  /\ \A kind : \A x \in Info : Wanted(kind, x) \in Nat
  /\ \A n \in Node : Summed[n] \in Info
  /\ \A n \in Node, k \in Nat : Rest[n][k] \in Info
BY RestIs DEF Info, Wanted, Rests

(* Before the first child.                                                 *)
LEMMA ComesAtFirst ==
  ASSUME NEW kind \in {"leafCount", "nodeCount", "depth"}, NEW e \in Nat,
         NEW n \in Node, ~ isLeaf(n), NEW k \in Nat, k > 0
  PROVE  Comes(kind, IF kind = "nodeCount" THEN e + 1 ELSE e, e, n, 0, k)
<1> DEFINE x == Rest[n][0]
<1>1. x \in Info /\ Summed[n] = Above(x)
  BY WantedIsNat, RestIs DEF Rests
<1>2. x.depth \in Nat /\ x.nodeCount \in Nat /\ x.leafCount \in Nat
  BY <1>1 DEF Info
<1>3. /\ Above(x).depth = 1 + x.depth /\ Above(x).nodeCount = 1 + x.nodeCount
      /\ Above(x).leafCount = x.leafCount
  BY DEF Above
<1> HIDE DEF x
<1>4. Reached(kind, IF kind = "nodeCount" THEN e + 1 ELSE e, Wanted(kind, x), k)
        = Reached(kind, e, Wanted(kind, Above(x)), k - 1)
  <2>1. CASE kind = "leafCount"
    BY <1>2, <1>3, <2>1 DEF Reached, Wanted
  <2>2. CASE kind = "nodeCount"
    BY <1>2, <1>3, <2>2 DEF Reached, Wanted
  <2>3. CASE kind = "depth"
    BY <1>2, <1>3, <2>3 DEF Reached, Wanted
  <2>. QED BY <2>1, <2>2, <2>3
<1>. QED BY <1>1, <1>4 DEF Comes, x

(* Past one more child.                                                    *)
LEMMA ComesFurther ==
  ASSUME NEW kind, NEW u \in Nat, NEW e \in Nat, NEW n \in Node,
         NEW j \in Nat, j < degree(n), NEW k \in Nat, k > 0, Comes(kind, u, e, n, j, k)
  PROVE  Comes(kind, Reached(kind, u, Wanted(kind, Summed[child(n, j)]), k),
               e, n, j + 1, k)
<1> DEFINE x == Summed[child(n, j)]
           y == Rest[n][j + 1]
           a == Wanted(kind, x)
           b == Wanted(kind, y)
           w == Reached(kind, u, a, k)
<1>1. j \in 0 .. degree(n) - 1 /\ j + 1 \in Nat
  BY DegreeIsNat
<1>2. Rest[n][j] = Joined(x, y)
  BY <1>1, RestIs DEF Rests
<1>3. child(n, j) \in Node
  BY <1>1, ChildIsNode
<1>4. x \in Info /\ y \in Info /\ a \in Nat /\ b \in Nat
  BY <1>1, <1>3, WantedIsNat
<1>5. Wanted(kind, Joined(x, y)) =
        IF kind = "depth" THEN IF a > b THEN a ELSE b ELSE a + b
  BY DEF Wanted, Joined
<1> HIDE DEF x, y, a, b
<1>6. Reached(kind, w, b, k) = Reached(kind, u, Wanted(kind, Joined(x, y)), k)
  <2>1. CASE kind = "depth"
    BY <1>4, <1>5, <2>1 DEF Reached
  <2>2. CASE kind # "depth"
    BY <1>4, <1>5, <2>2 DEF Reached
  <2>. QED BY <2>1, <2>2
<1>7. kind = "depth" => w >= k
  BY <1>4 DEF Reached
<1> HIDE DEF w
<1>8. Reached(kind, w, Wanted(kind, Rest[n][j + 1]), k)
        = Reached(kind, e, Wanted(kind, Summed[n]), k - 1)
  BY <1>2, <1>6 DEF Comes, b, y
<1>9. Comes(kind, w, e, n, j + 1, k)
  BY <1>7, <1>8 DEF Comes
<1>. QED BY <1>9 DEF w, a, x

(* Past the last one.                                                      *)
LEMMA ComesToAll ==
  ASSUME NEW kind, NEW u \in Nat, NEW e, NEW n \in Node, NEW k \in Nat,
         kind = "depth" => degree(n) > 0, Comes(kind, u, e, n, degree(n), k)
  PROVE  u = Reached(kind, e, Wanted(kind, Summed[n]), k - 1)
<1>1. Rest[n][degree(n)] = NoInfo
  BY RestIs DEF Rests
<1>2. Wanted(kind, NoInfo) = 0
  BY DEF Wanted, NoInfo
<1>3. Reached(kind, u, 0, k) = u
  BY DEF Comes, Reached
<1>. QED BY <1>1, <1>2, <1>3 DEF Comes

-----------------------------------------------------------------------------
(* The values are numbers.                                                 *)
LEMMA ValuesAreNumbers ==
  ASSUME IInv, SInv, Informing
  PROVE  \A k \in 1 .. Len(stack) : stack[k].val.n \in Nat /\ Entry(stack, k) \in Nat
<1>1. ASSUME NEW k \in 1 .. Len(stack) PROVE stack[k].val.n \in Nat
  <2>1. stack[k] \in Sound(visitor.kind)
    BY ElementOfSeq DEF IInv
  <2>2. stack[k].val \in Carriable(visitor.kind)
    BY <2>1 DEF Sound
  <2>3. stack[k].val # Indeterminate
    BY DEF SInv, Indeterminate
  <2>. QED BY <2>2, <2>3, CarriableIsTyped
<1>2. ASSUME NEW k \in 1 .. Len(stack) PROVE Entry(stack, k) \in Nat
  <2>1. CASE k = 1
    BY <2>1 DEF Entry
  <2>2. CASE k # 1
    <3>1. k - 1 \in 1 .. Len(stack)
      BY <2>2
    <3>. QED BY <1>1, <2>2, <3>1 DEF Entry
  <2>. QED BY <2>1, <2>2
<1>. QED BY <1>1, <1>2

(* What a callback makes of the value of the innermost activation.         *)
LEMMA AppliedNumber ==
  ASSUME IInv, DInv, SInv, Informing, stack # << >>, NEW cb \in Callback
  PROVE  /\ Applied(cb, Top).storage = "type"
         /\ Applied(cb, Top).n =
              IF cb = "leaf" THEN Reached(visitor.kind, Top.val.n, 1, Len(stack) - 1)
              ELSE IF cb = "pre" /\ visitor.kind = "nodeCount" THEN Top.val.n + 1
              ELSE Top.val.n
<1> DEFINE kind == visitor.kind
           u == Top.val
<1>1. /\ Len(stack) \in 1 .. Len(stack) /\ Top = stack[Len(stack)] /\ Top \in Sound(kind)
      /\ Top.node \in Node /\ u \in Carriable(kind)
  BY TopIsSound
<1>2. u.storage = "type" /\ u.n \in Nat /\ Len(Top.path) = Len(stack) - 1
  BY <1>1, ValuesAreNumbers DEF SInv
<1>3. u = [storage |-> u.storage, n |-> u.n] /\ u # Indeterminate
  BY <1>1, <1>2, CarriableIsTyped DEF Indeterminate
<1>4. TypeOK /\ kind \in Kinds /\ kind # "client"
  BY KindIsKnown DEF Informing, IInv
<1>5. CASE kind = "depth"
  <2>1. Applied(cb, Top) =
          IF cb = "leaf" /\ u.n < (Len(stack) - 1) + 1
            THEN [storage |-> "type", n |-> (Len(stack) - 1) + 1] ELSE u
    BY <1>2, <1>5 DEF Applied
  <2>2. cb # "leaf" => Applied(cb, Top) = u
    BY <2>1
  <2>3. cb = "leaf" => /\ Applied(cb, Top).storage = "type"
                       /\ Applied(cb, Top).n = Reached(kind, u.n, 1, Len(stack) - 1)
    BY <1>2, <1>5, <2>1 DEF Reached
  <2>. QED BY <1>2, <1>5, <2>2, <2>3
<1>6. CASE Counting(kind)
  <2>1. ~ IsDynamic(Top.node)
    BY <1>1, StaticIs DEF DInv, Informing
  <2>2. Applied(cb, Top).storage = "type"
    BY <1>1, <1>2, <1>4, <1>6, <2>1, AppliedStorage
  <2>3. plus1(u).n = u.n + 1 /\ [u EXCEPT !.storage = "memory"].n = u.n
    BY <1>3 DEF plus1
  <2>4. Applied(cb, Top).n =
          IF cb = "leaf" \/ (cb = "pre" /\ kind = "nodeCount") THEN u.n + 1 ELSE u.n
    BY <1>6, <2>3 DEF Applied, Counting
  <2>5. Reached(kind, u.n, 1, Len(stack) - 1) = u.n + 1
    BY <1>6 DEF Reached, Counting
  <2>. QED BY <2>2, <2>4, <2>5
<1>. QED BY <1>4, <1>5, <1>6 DEF Kinds, Counting

(* The innermost activation goes on with f.                                *)
LEMMA BalancedOn ==
  ASSUME IInv, SInv, stack # << >>, UNCHANGED << root, visitor, result >>,
         NEW f \in Sound(visitor.kind), stack' = [stack EXCEPT ![Len(stack)] = f],
         f.path = Top.path, f.pc # "start",
         Informing => /\ f.val.storage = "type"
                      /\ Comes(visitor.kind, f.val.n, Entry(stack, Len(stack)), f.node,
                               Passed(f, TRUE), Len(stack))
  PROVE  SInv'
<1> SUFFICES ASSUME Informing'
             PROVE  /\ \A k \in 1 .. Len(stack') : /\ stack'[k].val.storage = "type"
                                                   /\ Len(stack'[k].path) = k - 1
                                                   /\ Balanced(visitor.kind, stack', k)
                    /\ \A v \in result : v.n = Wanted(visitor.kind, Summed[root])
  BY DEF SInv
<1> DEFINE n == Len(stack)
           kind == visitor.kind
<1>1. n \in 1 .. n /\ n \in Nat /\ Top = stack[n] /\ stack \in Seq(Sound(kind))
  BY TopIsSound DEF IInv
<1>2. /\ Len(stack') = n /\ stack'[n] = f
      /\ \A k \in 1 .. n - 1 : stack'[k] = stack[k]
  BY <1>1, ReplaceTop
<1>3. Informing
  BY DEF Informing
<1>4. /\ \A k \in 1 .. n : /\ stack[k].val.storage = "type"
                           /\ Len(stack[k].path) = k - 1
                           /\ Balanced(kind, stack, k)
      /\ \A v \in result : v.n = Wanted(kind, Summed[root])
      /\ f.val.storage = "type"
      /\ Comes(kind, f.val.n, Entry(stack, n), f.node, Passed(f, TRUE), n)
  BY <1>3 DEF SInv
<1>5. Len(stack) = n
  OBVIOUS
<1> HIDE DEF n
<1>6. ASSUME NEW k \in 1 .. n PROVE Entry(stack', k) = Entry(stack, k)
  <2>1. k # 1 => k - 1 \in 1 .. n - 1
    BY <1>1
  <2>. QED BY <1>2, <2>1 DEF Entry
<1>7. ASSUME NEW k \in 1 .. n
      PROVE  /\ stack'[k].val.storage = "type" /\ Len(stack'[k].path) = k - 1
             /\ Balanced(kind, stack', k)
  <2>1. CASE k = n
    <3>1. Balanced(kind, stack', n)
      BY <1>1, <1>2, <1>4, <1>6, <2>1 DEF Balanced, Passed
    <3>. QED BY <1>1, <1>2, <1>4, <2>1, <3>1
  <2>2. CASE k # n
    <3>1. k \in 1 .. n - 1 /\ k # Len(stack) /\ k # Len(stack')
      BY <1>1, <1>2, <1>5, <2>2
    <3>2. Balanced(kind, stack', k) <=> Balanced(kind, stack, k)
      BY <1>2, <1>6, <3>1 DEF Balanced, Passed
    <3>. QED BY <1>2, <1>4, <3>1, <3>2
  <2>. QED BY <2>1, <2>2
<1>. QED BY <1>2, <1>4, <1>7

(* It calls an activation for its child.                                   *)
LEMMA BalancedDown ==
  ASSUME IInv, SInv, stack # << >>, UNCHANGED << root, visitor, result >>,
         NEW w \in Sound(visitor.kind), NEW f \in Sound(visitor.kind),
         stack' = Append([stack EXCEPT ![Len(stack)] = w], f),
         Top.pc = "visitChild",
         w.node = Top.node, w.path = Top.path, w.i = Top.i, w.val = Top.val,
         w.pc = "afterChild",
         Len(f.path) = Len(Top.path) + 1, f.pc = "start", f.val = Top.val
  PROVE  SInv'
<1> SUFFICES ASSUME Informing'
             PROVE  /\ \A k \in 1 .. Len(stack') : /\ stack'[k].val.storage = "type"
                                                   /\ Len(stack'[k].path) = k - 1
                                                   /\ Balanced(visitor.kind, stack', k)
                    /\ \A v \in result : v.n = Wanted(visitor.kind, Summed[root])
  BY DEF SInv
<1> DEFINE n == Len(stack)
           kind == visitor.kind
           t == [stack EXCEPT ![n] = w]
<1>1. n \in 1 .. n /\ n \in Nat /\ Top = stack[n] /\ stack \in Seq(Sound(kind))
  BY TopIsSound DEF IInv
<1>2. /\ t \in Seq(Sound(kind)) /\ Len(t) = n /\ t[n] = w
      /\ \A k \in 1 .. n - 1 : t[k] = stack[k]
  BY <1>1, ReplaceTop
<1>3. stack' = Append(t, f)
  OBVIOUS
<1> HIDE DEF t
<1>4. /\ Len(stack') = n + 1 /\ stack'[n + 1] = f
      /\ \A k \in 1 .. n : stack'[k] = t[k]
  BY <1>2, <1>3, PushTop
<1>5. Informing
  BY DEF Informing
<1>6. /\ \A k \in 1 .. n : /\ stack[k].val.storage = "type"
                           /\ Len(stack[k].path) = k - 1
                           /\ Balanced(kind, stack, k)
      /\ \A v \in result : v.n = Wanted(kind, Summed[root])
  BY <1>5 DEF SInv
<1>7. /\ \A k \in 1 .. n + 1 : k = n + 1 \/ k \in 1 .. n
      /\ \A k \in 1 .. n : k = n \/ k \in 1 .. n - 1
      /\ \A k \in 1 .. n : k # n + 1
      /\ \A k \in 1 .. n - 1 : k \in 1 .. n /\ k # n
      /\ n + 1 # 1 /\ (n + 1) - 1 = n
      /\ \A k \in 1 .. n : k # 1 => k - 1 \in 1 .. n
  BY <1>1
<1>8. Len(stack) = n
  OBVIOUS
<1> HIDE DEF n
<1>9. \A k \in 1 .. n : /\ stack'[k].val = stack[k].val /\ stack'[k].node = stack[k].node
                        /\ stack'[k].path = stack[k].path /\ stack'[k].i = stack[k].i
  BY <1>1, <1>2, <1>4, <1>7
<1>10. ASSUME NEW k \in 1 .. n PROVE Entry(stack', k) = Entry(stack, k)
  BY <1>7, <1>9 DEF Entry
<1>11. ASSUME NEW k \in 1 .. n PROVE Balanced(kind, stack', k)
  <2>1. CASE k = n
    <3>1. Passed(stack'[n], FALSE) = stack[n].i /\ Passed(stack[n], TRUE) = stack[n].i
      BY <1>1, <1>9 DEF Passed
    <3>2. stack[n].pc # "start" /\ stack'[n].pc # "start" /\ n # Len(stack')
      BY <1>1, <1>2, <1>4, <1>7
    <3>3. Comes(kind, stack[n].val.n, Entry(stack, n), stack[n].node, stack[n].i, n)
      BY <1>1, <1>6, <1>8, <3>1, <3>2 DEF Balanced
    <3>4. Comes(kind, stack'[n].val.n, Entry(stack', n), stack'[n].node, stack[n].i, n)
      BY <1>1, <1>9, <1>10, <2>1, <3>3
    <3>5. (n = Len(stack')) = FALSE
      BY <3>2
    <3>. QED BY <2>1, <3>1, <3>2, <3>4, <3>5 DEF Balanced
  <2>2. CASE k # n
    <3>1. k \in 1 .. n - 1 /\ k # Len(stack) /\ k # Len(stack')
      BY <1>4, <1>7, <1>8, <2>2
    <3>2. stack'[k] = stack[k]
      BY <1>2, <1>4, <3>1
    <3>3. Balanced(kind, stack', k) <=> Balanced(kind, stack, k)
      BY <1>10, <3>1, <3>2 DEF Balanced, Passed
    <3>. QED BY <1>6, <3>3
  <2>. QED BY <2>1, <2>2
<1>12. Balanced(kind, stack', n + 1)
  <2>1. Entry(stack', n + 1) = Top.val.n
    BY <1>1, <1>7, <1>9 DEF Entry
  <2>. QED BY <1>4, <2>1 DEF Balanced
<1>13. /\ f.val.storage = "type" /\ Len(f.path) = (n + 1) - 1
  <2>1. stack[n].val.storage = "type" /\ Len(stack[n].path) = n - 1 /\ (n - 1) + 1 = (n + 1) - 1
    BY <1>1, <1>6
  <2>. QED BY <1>1, <2>1
<1>14. ASSUME NEW k \in 1 .. n + 1
       PROVE  /\ stack'[k].val.storage = "type" /\ Len(stack'[k].path) = k - 1
              /\ Balanced(kind, stack', k)
  <2>1. CASE k = n + 1
    BY <1>4, <1>12, <1>13, <2>1
  <2>2. CASE k \in 1 .. n
    BY <1>6, <1>9, <1>11, <2>2
  <2>. QED BY <1>7, <2>1, <2>2
<1>. QED BY <1>4, <1>6, <1>14

(* It returns, with v.                                                     *)
LEMMA BalancedBack ==
  ASSUME IInv, DInv, SInv, stack # << >>, UNCHANGED << root, visitor >>,
         NEW v \in Carriable(visitor.kind), Return(v),
         Informing => /\ v.storage = "type"
                      /\ v.n = Reached(visitor.kind, Entry(stack, Len(stack)),
                                       Wanted(visitor.kind, Summed[Top.node]),
                                       Len(stack) - 1)
  PROVE  SInv'
<1> SUFFICES ASSUME Informing'
             PROVE  /\ \A k \in 1 .. Len(stack') : /\ stack'[k].val.storage = "type"
                                                   /\ Len(stack'[k].path) = k - 1
                                                   /\ Balanced(visitor.kind, stack', k)
                    /\ \A u \in result' : u.n = Wanted(visitor.kind, Summed[root])
  BY DEF SInv
<1> DEFINE n == Len(stack) - 1
           s == Front(stack)
           kind == visitor.kind
<1>1. /\ Len(stack) \in 1 .. Len(stack) /\ Len(stack) \in Nat /\ Top = stack[Len(stack)]
      /\ stack \in Seq(Sound(kind)) /\ Top.node \in Node
  BY TopIsSound DEF IInv
<1>2. Informing
  BY DEF Informing
<1>3. /\ \A k \in 1 .. Len(stack) : /\ stack[k].val.storage = "type"
                                    /\ Len(stack[k].path) = k - 1
                                    /\ Balanced(kind, stack, k)
      /\ \A u \in result : u.n = Wanted(kind, Summed[root])
      /\ v.storage = "type"
      /\ v.n = Reached(kind, Entry(stack, Len(stack)), Wanted(kind, Summed[Top.node]),
                       Len(stack) - 1)
  BY <1>2 DEF SInv
<1>4. CASE Len(stack) = 1
  <2>1. stack' = << >> /\ result' = {v} /\ Len(stack') = 0 /\ Top.node = root
    BY <1>1, <1>4 DEF Return, DInv, WalksDown
  <2>2. v.n = Reached(kind, 0, Wanted(kind, Summed[root]), 0)
    BY <1>3, <1>4, <2>1 DEF Entry
  <2>3. Wanted(kind, Summed[root]) \in Nat
    BY <1>1, <2>1, WantedIsNat
  <2>4. v.n = Wanted(kind, Summed[root])
    BY <2>2, <2>3 DEF Reached
  <2>. QED BY <2>1, <2>4
<1>5. CASE Len(stack) # 1
  <2> HIDE DEF s
  <2>1. n \in Nat /\ n >= 1 /\ n + 1 = Len(stack) /\ Len(stack) - 1 = n
    <3> DEFINE m == Len(stack)
    <3>1. m \in Nat /\ m \in 1 .. m /\ m # 1 /\ n = m - 1
      BY <1>1, <1>5
    <3>2. SUFFICES n \in Nat /\ n >= 1 /\ n + 1 = m /\ m - 1 = n
      OBVIOUS
    <3> HIDE DEF m, n
    <3>. QED BY <3>1
  <2>2. s \in Seq(Sound(kind)) /\ Len(s) = n /\ \A k \in 1 .. n : s[k] = stack[k]
    BY <1>1, PopTop DEF s
  <2>3. stack' = [s EXCEPT ![n].val = v] /\ result' = result
    BY <1>5 DEF Return, s
  <2> HIDE DEF n
  <2>4. n \in 1 .. n /\ n \in 1 .. n + 1 /\ n + 1 \in 1 .. n + 1 /\ n # n + 1 /\ n + 1 # 1
        /\ n > 0 /\ n \in 1 .. (n + 1) - 1 /\ (n + 1) - 1 = n
    BY <2>1
  <2>5. /\ \A k \in 1 .. n : k \in 1 .. n + 1 /\ k # n + 1
        /\ \A k \in 1 .. n : k # n => k \in 1 .. n - 1
        /\ \A k \in 1 .. n : k # 1 => k - 1 \in 1 .. n - 1 /\ k - 1 \in 1 .. n
    BY <2>1
  <2>6. s # << >>
    BY <2>1, <2>2
  <2> DEFINE f == [s[n] EXCEPT !.val = v]
  <2>7. s[n] \in Sound(kind) /\ s[n] = stack[n]
    BY <2>2, <2>4, ElementOfSeq
  <2>8. /\ f \in Sound(kind) /\ f.node = stack[n].node /\ f.i = stack[n].i
        /\ f.pc = stack[n].pc /\ f.path = stack[n].path /\ f.val = v
    BY <2>7 DEF Sound, Frame, Carriable
  <2>9. stack' = [s EXCEPT ![Len(s)] = f]
    BY <2>2, <2>3 DEF f
  <2> HIDE DEF f
  <2>10. /\ Len(stack') = n /\ stack' # << >> /\ stack'[n] = f
         /\ \A k \in 1 .. n - 1 : stack'[k] = s[k]
    BY <2>2, <2>4, <2>6, <2>8, <2>9, ReplaceTop
  <2>11. \A k \in 1 .. n - 1 : k \in 1 .. n
    BY <2>1
  <2>12. \A k \in 1 .. n - 1 : stack'[k] = stack[k]
    BY <2>2, <2>10, <2>11
  <2>13. ASSUME NEW k \in 1 .. n PROVE Entry(stack', k) = Entry(stack, k)
    BY <2>5, <2>12 DEF Entry
  <2>14. Balanced(kind, stack', n)
    <3> DEFINE u == stack[n].val.n
               e == Entry(stack, n)
               m == stack[n].node
               j == stack[n].i
    <3>1. /\ stack[n].pc = "afterChild" /\ Top.node = child(m, j)
          /\ m \in Node /\ j \in Nat /\ j < degree(m)
      <4>1. stack[n].pc = "afterChild" /\ stack[n + 1].node = child(m, j)
        BY <2>1, <2>4 DEF DInv, WalksDown
      <4>. QED BY <1>1, <2>1, <2>7, <4>1 DEF Sound, Frame
    <3>2. u \in Nat /\ e \in Nat
      BY <1>2, <2>1, <2>4, ValuesAreNumbers
    <3>3. Passed(stack[n], FALSE) = j /\ (n = Len(stack)) = FALSE
      BY <2>1, <2>4 DEF Passed
    <3>4. Balanced(kind, stack, n)
      BY <1>3, <2>1, <2>4
    <3>5. Comes(kind, u, e, m, j, n)
      BY <3>1, <3>3, <3>4 DEF Balanced
    <3>6. Entry(stack, n + 1) = u
      BY <2>4 DEF Entry
    <3>7. v.n = Reached(kind, u, Wanted(kind, Summed[child(m, j)]), n)
      BY <1>3, <2>1, <3>1, <3>6
    <3> HIDE DEF u, e, m, j
    <3>8. Comes(kind, v.n, e, m, j + 1, n)
      BY <2>1, <2>4, <3>1, <3>2, <3>5, <3>7, ComesFurther
    <3>9. Passed(f, TRUE) = j + 1 /\ f.pc # "start" /\ f.node = m
      BY <2>8, <3>1 DEF Passed, j, m
    <3>10. Entry(stack', n) = e
      BY <2>4, <2>13 DEF e
    <3>11. Comes(kind, f.val.n, Entry(stack', n), f.node, Passed(f, TRUE), n)
      BY <2>8, <3>8, <3>9, <3>10
    <3>12. (n = Len(stack')) = TRUE
      BY <2>10
    <3>. QED BY <2>10, <3>9, <3>11, <3>12 DEF Balanced
  <2>15. ASSUME NEW k \in 1 .. n
         PROVE  /\ stack'[k].val.storage = "type" /\ Len(stack'[k].path) = k - 1
                /\ Balanced(kind, stack', k)
    <3>1. k \in 1 .. Len(stack) /\ k # Len(stack)
      BY <2>1, <2>5
    <3>2. CASE k = n
      BY <1>3, <2>8, <2>10, <2>14, <3>1, <3>2
    <3>3. CASE k # n
      <4>1. k \in 1 .. n - 1 /\ k # Len(stack')
        BY <2>5, <2>10, <3>3
      <4>2. stack'[k] = stack[k]
        BY <2>12, <4>1
      <4>3. Balanced(kind, stack', k) <=> Balanced(kind, stack, k)
        BY <2>13, <3>1, <4>1, <4>2 DEF Balanced, Passed
      <4>. QED BY <1>3, <3>1, <4>2, <4>3
    <3>. QED BY <3>2, <3>3
  <2>. QED BY <1>3, <2>3, <2>10, <2>15
<1>. QED BY <1>4, <1>5

LEMMA InitSInv == Init => SInv
<1> SUFFICES ASSUME Init, Informing
             PROVE  /\ \A k \in 1 .. Len(stack) : /\ stack[k].val.storage = "type"
                                                  /\ Len(stack[k].path) = k - 1
                                                  /\ Balanced(visitor.kind, stack, k)
                    /\ \A v \in result : v.n = Wanted(visitor.kind, Summed[root])
  BY DEF SInv
<1> DEFINE f == Activation(root, << >>, Initial(visitor))
<1>1. stack = << f >> /\ result = {}
  BY DEF Init
<1>2. Len(f.path) = 0 /\ f.pc = "start" /\ f.val.storage = "type" /\ f.val.n = 0
  BY DEF Activation, Initial, Informing
<1> HIDE DEF f
<1>3. Len(stack) = 1 /\ stack[1] = f /\ 1 - 1 = 0 /\ \A k \in 1 .. 1 : k = 1
  BY <1>1
<1>4. Balanced(visitor.kind, stack, 1)
  BY <1>2, <1>3 DEF Balanced, Entry
<1>. QED BY <1>1, <1>2, <1>3, <1>4

(* The innermost activation is balanced.                                   *)
LEMMA TopIsBalanced ==
  ASSUME IInv, SInv, Informing, stack # << >>
  PROVE  /\ Top.val.storage = "type" /\ Len(Top.path) = Len(stack) - 1
         /\ Top.val.n \in Nat /\ Entry(stack, Len(stack)) \in Nat
         /\ IF Top.pc = "start"
              THEN Top.val.n = Entry(stack, Len(stack))
              ELSE Comes(visitor.kind, Top.val.n, Entry(stack, Len(stack)), Top.node,
                         Passed(Top, TRUE), Len(stack))
<1>1. Len(stack) \in 1 .. Len(stack) /\ Top = stack[Len(stack)]
  BY TopIsSound
<1>2. Balanced(visitor.kind, stack, Len(stack))
  BY <1>1 DEF SInv
<1>3. (Len(stack) = Len(stack)) = TRUE
  OBVIOUS
<1>4. IF Top.pc = "start"
        THEN Top.val.n = Entry(stack, Len(stack))
        ELSE Comes(visitor.kind, Top.val.n, Entry(stack, Len(stack)), Top.node,
                   Passed(Top, TRUE), Len(stack))
  BY <1>1, <1>2, <1>3 DEF Balanced
<1>5. Top.val.n \in Nat /\ Entry(stack, Len(stack)) \in Nat
  BY <1>1, ValuesAreNumbers
<1>. QED BY <1>1, <1>4, <1>5 DEF SInv

LEMMA NextSInv == IInv /\ DInv /\ SInv /\ [Next]_vars => SInv'
<1> SUFFICES ASSUME IInv, DInv, SInv, [Next]_vars PROVE SInv'
  OBVIOUS
<1> DEFINE kind == visitor.kind
           n == Len(stack)
(* A callback after which the activation goes on.                          *)
<1>on. ASSUME stack # << >>, UNCHANGED << root, visitor, result >>,
              NEW cb \in {"pre", "beforeChild", "in"}, Call(cb),
              NEW pc \in {"loop", "in", "visitChild"}, Goto(pc, Applied(cb, Top)),
              Within(Top.node, Top.i), pc # "loop" => Top.i < degree(Top.node),
              \/ cb = "pre" /\ Top.pc = "start" /\ Top.i = 0
              \/ cb # "pre" /\ Top.pc \in {"loop", "in"}
       PROVE  SInv'
  <2> DEFINE v == Applied(cb, Top)
             f == [Top EXCEPT !.pc = pc, !.val = v]
  <2>1. cb \in Callback /\ cb # "leaf"
    BY DEF Callback
  <2>2. v \in Carriable(kind)
    BY <1>on, <2>1, TopIsSound, CallCounts
  <2>3. stack' = [stack EXCEPT ![n] = f]
    BY <1>on, TopIsSound DEF Goto, IInv
  <2> HIDE DEF v
  <2>4. /\ f \in Sound(kind) /\ f.val = v /\ f.node = Top.node
        /\ f.i = Top.i /\ f.pc = pc /\ f.path = Top.path
    BY <1>on, <2>2, TopIsSound DEF Sound, Frame, Carriable
  <2> HIDE DEF f
  <2>5. ASSUME Informing
        PROVE  /\ f.val.storage = "type"
               /\ Comes(kind, f.val.n, Entry(stack, n), f.node, Passed(f, TRUE), n)
    <3>1. /\ v.storage = "type"
          /\ v.n = IF cb = "pre" /\ kind = "nodeCount" THEN Top.val.n + 1 ELSE Top.val.n
      BY <1>on, <2>1, <2>5, AppliedNumber DEF v
    <3>2. Passed(f, TRUE) = Top.i
      BY <2>4 DEF Passed
    <3>3. CASE cb = "pre"
      <4>1. Top.pc = "start" /\ Top.i = 0 /\ ~ isLeaf(Top.node)
        BY <1>on, <3>3 DEF Within
      <4>2. Top.val.n = Entry(stack, n) /\ Entry(stack, n) \in Nat
        BY <1>on, <2>5, <4>1, TopIsBalanced
      <4>3. kind \in {"leafCount", "nodeCount", "depth"}
        BY <2>5, KindIsKnown DEF Informing, IInv, Kinds
      <4>4. Top.node \in Node /\ n \in Nat /\ n > 0
        BY <1>on, TopIsSound
      <4>5. v.n = IF kind = "nodeCount" THEN Entry(stack, n) + 1 ELSE Entry(stack, n)
        BY <3>1, <3>3, <4>2
      <4> HIDE DEF n, kind
      <4>6. Comes(kind, v.n, Entry(stack, n), Top.node, 0, n)
        BY <4>1, <4>2, <4>3, <4>4, <4>5, ComesAtFirst
      <4>. QED BY <2>4, <3>1, <3>2, <4>1, <4>6
    <3>4. CASE cb # "pre"
      <4>1. Top.pc \in {"loop", "in"}
        BY <1>on, <3>4
      <4>2. Comes(kind, Top.val.n, Entry(stack, n), Top.node, Passed(Top, TRUE), n)
        BY <1>on, <2>5, <4>1, TopIsBalanced
      <4>3. Passed(Top, TRUE) = Top.i
        BY <4>1 DEF Passed
      <4>. QED BY <2>4, <3>1, <3>2, <3>4, <4>2, <4>3
    <3>. QED BY <3>3, <3>4
  <2>. QED BY <1>on, <2>3, <2>4, <2>5, BalancedOn
(* A callback after which it returns, made of f.                           *)
<1>back. ASSUME stack # << >>, UNCHANGED << root, visitor >>,
                NEW cb \in {"post", "leaf"}, Call(cb),
                NEW f \in Sound(kind), f.path = Top.path, Amounts(f.val, expected),
                Return(Applied(cb, f)),
                Informing =>
                  /\ f = Top
                  /\ Applied(cb, Top).n = Reached(kind, Entry(stack, n),
                                                  Wanted(kind, Summed[Top.node]), n - 1)
         PROVE  SInv'
  <2>1. cb \in Callback
    BY DEF Callback
  <2>2. Applied(cb, f) \in Carriable(kind)
    BY <1>back, <2>1, CallCounts
  <2>3. Informing => Applied(cb, f).storage = "type"
    BY <1>back, <2>1, AppliedNumber
  <2>. QED BY <1>back, <2>2, <2>3, BalancedBack
<1>1. CASE Leaf
  <2>1. /\ stack # << >> /\ Top.pc = "start" /\ isLeaf(Top.node) /\ Call("leaf")
        /\ Return(Applied("leaf", Top)) /\ UNCHANGED << root, visitor, failed >>
    BY <1>1 DEF Leaf, At
  <2>2. ASSUME Informing
        PROVE  Applied("leaf", Top).n = Reached(kind, Entry(stack, n),
                                                Wanted(kind, Summed[Top.node]), n - 1)
    <3>1. Applied("leaf", Top).n = Reached(kind, Top.val.n, 1, n - 1)
      BY <2>1, <2>2, AppliedNumber DEF Callback
    <3>2. Top.val.n = Entry(stack, n)
      BY <2>1, <2>2, TopIsBalanced
    <3>3. Summed[Top.node] = LeafInfo
      BY <2>1, RestIs, TopIsSound DEF Rests
    <3>4. Wanted(kind, LeafInfo) = 1
      BY DEF Wanted, LeafInfo
    <3>. QED BY <3>1, <3>2, <3>3, <3>4
  <2>. QED BY <1>back, <2>1, <2>2, TopIsSound
<1>2. CASE Pre
  <2>1. /\ stack # << >> /\ Top.pc = "start" /\ ~ isLeaf(Top.node) /\ Call("pre")
        /\ Goto("loop", Applied("pre", Top))
        /\ UNCHANGED << root, visitor, result, failed >>
    BY <1>2 DEF Pre, At
  <2>2. Within(Top.node, Top.i) /\ Top.i = 0
    <3>1. Top.i = 0 /\ Top.node \in Node
      BY <2>1, TopIsSound DEF Sound
    <3>. QED BY <2>1, <3>1, DegreeIsNat DEF Within
  <2>. QED BY <1>on, <2>1, <2>2
<1>3. CASE UNCHANGED << root, visitor, stack, result >>
  BY <1>3 DEF SInv, Informing, Balanced, Entry
<1>4. CASE BeforeChild
  <2> DEFINE pc == IF Top.i = 0 THEN "visitChild" ELSE "in"
  <2>1. /\ stack # << >> /\ Top.pc = "loop" /\ Call("beforeChild")
        /\ Goto(pc, Applied("beforeChild", Top))
        /\ Top.i < degree(Top.node)
        /\ UNCHANGED << root, visitor, result, failed >>
    BY <1>4 DEF BeforeChild, At, checkChildIndex
  <2>2. pc \in {"visitChild", "in"}
    OBVIOUS
  <2>3. Within(Top.node, Top.i)
    BY <2>1, TopIsSound DEF Sound
  <2> HIDE DEF pc
  <2>. QED BY <1>on, <2>1, <2>2, <2>3
<1>5. CASE In
  <2>1. /\ stack # << >> /\ Top.pc = "in" /\ Call("in")
        /\ Goto("visitChild", Applied("in", Top))
        /\ UNCHANGED << root, visitor, result, failed >>
    BY <1>5 DEF In, At
  <2>2. Top.i < degree(Top.node) /\ Within(Top.node, Top.i)
    BY <2>1, TopIsSound DEF Sound
  <2>. QED BY <1>on, <2>1, <2>2
<1>6. CASE VisitChild
  <2> DEFINE w == [Top EXCEPT !.pc = "afterChild"]
             f == Activation(child(Top.node, Top.i), push_back(Top.path, Top.i), Top.val)
  <2>1. /\ stack # << >> /\ Top.pc = "visitChild"
        /\ stack' = Append([stack EXCEPT ![Len(stack)].pc = "afterChild"], f)
        /\ UNCHANGED << root, visitor, result >>
    BY <1>6 DEF VisitChild, At
  <2>2. /\ Top.val \in Carriable(kind) /\ Top.i < degree(Top.node)
        /\ Within(Top.node, Top.i)
    BY <2>1, TopIsSound DEF Sound
  <2>3. /\ w \in Sound(kind) /\ w.node = Top.node /\ w.i = Top.i /\ w.pc = "afterChild"
        /\ w.path = Top.path /\ w.val = Top.val
    BY <2>1, <2>2, TopIsSound DEF Sound, Frame
  <2>4. push_back(Top.path, Top.i) \in TreePath
        /\ Len(push_back(Top.path, Top.i)) = Len(Top.path) + 1
    BY <2>1, TopIsSound DEF push_back, TreePath
  <2>5. f \in Sound(kind)
    <3>1. child(Top.node, Top.i) \in Node
      BY <2>1, <2>2, TopIsSound, ChildIsNode
    <3>. QED BY <2>2, <2>4, <3>1 DEF Activation, Sound, Frame, Carriable
  <2>6. f.val = Top.val /\ f.pc = "start" /\ Len(f.path) = Len(Top.path) + 1
    BY <2>4 DEF Activation
  <2>7. stack' = Append([stack EXCEPT ![Len(stack)] = w], f)
    BY <2>1, TopIsSound DEF IInv
  <2> HIDE DEF f, w
  <2>. QED BY <2>1, <2>3, <2>5, <2>6, <2>7, BalancedDown
<1>7. CASE SkipChild
  <2> DEFINE f == [Top EXCEPT !.pc = "afterChild", !.val = Top.val]
  <2>1. /\ stack # << >> /\ Top.pc = "visitChild" /\ Goto("afterChild", Top.val)
        /\ ~ Accepts(Top.node, Top.i) /\ UNCHANGED << root, visitor, result >>
    BY <1>7 DEF SkipChild, At
  <2>2. f \in Sound(kind) /\ f.path = Top.path /\ f.pc # "start"
    BY <2>1, TopIsSound DEF Sound, Frame
  <2>3. stack' = [stack EXCEPT ![Len(stack)] = f]
    BY <2>1, TopIsSound DEF Goto, IInv
  <2>4. ~ Informing
    <3>1. Top.node \in Node /\ child(Top.node, Top.i) \in Node
      BY <2>1, TopIsSound, ChildIsNode DEF Sound
    <3>2. << TypeOf[Top.node], TypeOf[child(Top.node, Top.i)] >> \in Type \X Type
      BY <3>1, TreeAssumption DEF NodeAssumption
    <3>. QED BY <2>1, <3>2, InfoVisitorAssumption DEF IInv, TypeOK, Informing, Accepts
  <2> HIDE DEF f
  <2>. QED BY <2>1, <2>2, <2>3, <2>4, BalancedOn
<1>8. CASE AfterChild
  <2> DEFINE v == Applied("afterChild", Top)
             f == [Top EXCEPT !.pc = "loop", !.i = @ + 1, !.val = v]
  <2>1. /\ stack # << >> /\ Top.pc = "afterChild" /\ Call("afterChild")
        /\ stack' = [stack EXCEPT ![Len(stack)].pc = "loop",
                                  ![Len(stack)].i = @ + 1,
                                  ![Len(stack)].val = v]
        /\ UNCHANGED << root, visitor, result, failed >>
    BY <1>8 DEF AfterChild, At
  <2>2. v \in Carriable(kind)
    BY <2>1, TopIsSound, CallCounts DEF Callback
  <2>3. Informing => v.storage = "type" /\ v.n = Top.val.n
    BY <2>1, AppliedNumber DEF Callback
  <2> HIDE DEF v
  <2>4. Within(Top.node, Top.i + 1)
    <3>1. Top.i < degree(Top.node) /\ Within(Top.node, Top.i)
      BY <2>1, TopIsSound DEF Sound
    <3>. QED BY <2>1, <3>1, TopIsSound, DegreeIsNat DEF Within
  <2>5. /\ f \in Sound(kind) /\ f.val = v /\ f.node = Top.node /\ f.i = Top.i + 1
        /\ f.pc = "loop" /\ f.path = Top.path
    BY <2>1, <2>2, <2>4, TopIsSound DEF Sound, Frame, Carriable
  <2>6. stack' = [stack EXCEPT ![Len(stack)] = f]
    BY <2>1, TopIsSound DEF IInv
  <2> HIDE DEF f
  <2>7. Passed(f, TRUE) = Passed(Top, TRUE) /\ f.pc # "start" /\ Top.pc # "start"
    BY <2>1, <2>5 DEF Passed
  <2>8. Informing => Comes(kind, f.val.n, Entry(stack, n), f.node, Passed(f, TRUE), n)
    BY <2>1, <2>3, <2>5, <2>7, TopIsBalanced
  <2>. QED BY <2>1, <2>3, <2>5, <2>6, <2>7, <2>8, BalancedOn
<1>9. CASE Post
  <2>1. /\ stack # << >> /\ Top.pc = "loop" /\ ~ NextIndexTaken /\ Call("post")
        /\ UNCHANGED << root, visitor, failed >>
    BY <1>9 DEF Post, At
  <2>2. PICK u \in {Top.val, Indeterminate} :
          /\ u = Indeterminate => u = Top.val \/ Top.val.storage = "memory"
          /\ Return(Applied("post", [Top EXCEPT !.val = u]))
    BY <1>9 DEF Post, left_fold
  <2> DEFINE f == [Top EXCEPT !.val = u]
  <2>3. u \in Carriable(kind) /\ Amounts(u, expected)
    BY <2>1, <2>2, TopIsSound DEF Carriable, Value, Indeterminate, Amounts
  <2>4. f \in Sound(kind) /\ f.path = Top.path /\ f.val = u
    BY <2>1, <2>3, TopIsSound DEF Sound, Frame, Carriable
  <2>5. Return(Applied("post", f))
    BY <2>2
  <2>6. u = Top.val => f = Top
    BY <2>1, TopIsSound DEF Frame
  <2> HIDE DEF f
  <2>7. ASSUME Informing
        PROVE  /\ f = Top
               /\ Applied("post", Top).n = Reached(kind, Entry(stack, n),
                                                   Wanted(kind, Summed[Top.node]), n - 1)
    <3>1. Top.val.storage = "type" /\ Top.val.n \in Nat
      BY <2>1, <2>7, TopIsBalanced
    <3>2. f = Top
      BY <2>2, <2>6, <3>1
    <3>3. /\ Top.node \in Node /\ Top.i = degree(Top.node) /\ n \in Nat /\ n \in 1 .. n
          /\ ~ isLeaf(Top.node) /\ Top = stack[n]
      BY <2>1, TopIsSound, LoopIsOver DEF Sound, Within
    <3>4. Comes(kind, Top.val.n, Entry(stack, n), Top.node, degree(Top.node), n)
      <4>1. Passed(Top, TRUE) = degree(Top.node)
        BY <2>1, <3>3 DEF Passed
      <4>. QED BY <2>1, <2>7, <4>1, TopIsBalanced
    <3>5. kind = "depth" => degree(Top.node) > 0
      <4>1. isStatic[Top.node]
        BY <2>7, <3>3 DEF DInv, Informing
      <4>. QED BY <2>7, <3>3, <4>1, DegreeIsNat DEF Informing, Childless
    <3>6. Applied("post", Top).n = Top.val.n
      BY <2>1, <2>7, AppliedNumber DEF Callback
    <3> HIDE DEF n, kind
    <3>. QED BY <3>1, <3>2, <3>3, <3>4, <3>5, <3>6, ComesToAll
  <2>. QED BY <1>back, <2>1, <2>3, <2>4, <2>5, <2>7
<1>. QED
  BY <1>1, <1>2, <1>3, <1>4, <1>5, <1>6, <1>7, <1>8, <1>9 DEF Next, AssertionFails, vars

LEMMA NumberInvariance == Spec => [](IInv /\ DInv /\ SInv)
<1>1. Init => IInv /\ DInv /\ SInv
  BY InitIInv, InitDInv, InitSInv
<1>2. (IInv /\ DInv /\ SInv) /\ [Next]_vars => (IInv /\ DInv /\ SInv)'
  BY NextIInv, NextDInv, NextSInv
<1>. QED BY <1>1, <1>2, PTL DEF Spec

(* Where every class of inner nodes has children.                          *)
LEMMA StaticIsFilled ==
  ASSUME ~ \E n \in Node : Childless(n)
  PROVE  \A n \in Node : isStatic[n] => isFilled[n]
<1> DEFINE T == {n \in Node : isStatic[n] => isFilled[n]}
<1>1. ASSUME NEW n \in Node, \A e \in Node : LevelOf[e] < LevelOf[n] => e \in T
      PROVE  n \in T
  <2> SUFFICES ASSUME isStatic[n] PROVE isFilled[n]
    OBVIOUS
  <2>1. isLeaf(n) \/ degree(n) > 0
    BY DegreeIsNat DEF Childless
  <2>2. ASSUME NEW k \in 0 .. degree(n) - 1 PROVE isFilled[child(n, k)]
    <3>1. isStatic[child(n, k)]
      BY IsStaticUnfolds
    <3>2. child(n, k) \in T
      BY <1>1, NodeBelow
    <3>. QED BY <3>1, <3>2
  <2> HIDE DEF T
  <2>. QED BY <2>1, <2>2, FilledUnfolds
<1>2. Node \subseteq T
  <2> HIDE DEF T
  <2>. QED BY <1>1, LevelDecreases, RankInduction
<1>. QED BY <1>2

(* What Info::leafCount, nodeCount and depth give for a static tree is an  *)
(* integral constant, and it is the number TreeInfo computes by recursion  *)
(* over the classes, depth where every inner node has children.            *)
THEOREM InfoAgreesWithTreeInfo == Spec => []StaticInfo
<1>1. ASSUME IInv, DInv, SInv PROVE StaticInfo
  <2> SUFFICES ASSUME isStatic[root], visitor.kind # "client", NEW v \in result
               PROVE  /\ v.storage = "type"
                      /\ v.n = TreeInfo[TypeOf[root]][visitor.kind]
                         \/ (visitor.kind = "depth" /\ \E n \in Node : Childless(n))
    BY DEF StaticInfo
  <2>1. visitor.kind \in {"leafCount", "nodeCount", "depth"}
    BY <1>1, KindIsKnown DEF Kinds, IInv
  <2>2. v.storage = "type"
    <3>1. CASE visitor.kind = "depth"
      BY <1>1, <3>1 DEF DInv, Carriable
    <3>2. CASE Counting(visitor.kind)
      <4>1. stack = << >> /\ carried = result
        BY <1>1 DEF DInv, carried, Done
      <4>. QED BY <1>1, <3>2, <4>1 DEF DInv, StoredRight
    <3>. QED BY <2>1, <3>1, <3>2 DEF Counting
  <2>3. ASSUME Informing PROVE v.n = TreeInfo[TypeOf[root]][visitor.kind]
    <3>1. v.n = Wanted(visitor.kind, Summed[root])
      BY <1>1, <2>3 DEF SInv
    <3>2. Covers(TreeInfo[TypeOf[root]], Summed[root], isFilled[root])
      BY <1>1, InfoIsSum DEF IInv, TypeOK
    <3>3. ASSUME visitor.kind = "depth" PROVE isFilled[root]
      BY <1>1, <2>3, <3>3, StaticIsFilled DEF Informing, IInv, TypeOK
    <3>. QED BY <2>1, <3>1, <3>2, <3>3 DEF Wanted, Covers
  <2>. QED BY <2>2, <2>3 DEF Informing
<1>. QED BY <1>1, NumberInvariance, PTL

=============================================================================
