-------------------------- MODULE PairTraversalProofs --------------------------
(***************************************************************************)
(* Proofs about applyToTreePair (module PairTraversal), for every pair of  *)
(* trees that satisfies TreeAssumption: the traversal is well typed, the   *)
(* one path it hands to a callback leads, in each of the two trees, to the *)
(* node of that tree it hands over with it, trees that fit are traversed   *)
(* without a failure, and the whole is applyToTree on the product of the   *)
(* two trees.                                                              *)
(***************************************************************************)
EXTENDS PairTraversal, StackLemmas, SequenceTheorems, TLAPS

(* The path leads to both nodes of the pair n.                             *)
LeadsToPair(r, path, n) == \A t \in 1 .. 2 : Leads(Child, r[t], path, n[t])

(* The index is one that both nodes of the pair have a child for.          *)
HaveChild(n, i) == \A t \in 1 .. 2 : i < degree(n[t])

(* The index is not past the children of either node of the pair, of inner *)
(* nodes.                                                                  *)
Within(n, i) == ~ SomeLeaf(n) /\ \A t \in 1 .. 2 : i <= degree(n[t])

(* The activations of a traversal that started at r: their paths are       *)
(* right, the loop does not run past the children of either tree, and      *)
(* inside the loop body there are children to go to.                       *)
Sound(r) ==
  {f \in Frame : /\ LeadsToPair(r, f.path, f.node)
                 /\ IF f.pc = "start" THEN f.i = 0 ELSE Within(f.node, f.i)
                 /\ f.pc \in {"in", "visitChild", "afterChild"} =>
                      HaveChild(f.node, f.i)}

(* The inductive invariant.                                                *)
IInv == TypeOK /\ stack \in Seq(Sound(root)) /\ PathLeadsToBoth

-----------------------------------------------------------------------------
(* Where both nodes have child i, the children are a pair of nodes and the *)
(* longer path leads to it.                                                *)
LEMMA ChildrenAreReached ==
  ASSUME NEW r, NEW path \in TreePath, NEW n \in Pair, NEW i \in Nat,
         LeadsToPair(r, path, n), HaveChild(n, i)
  PROVE  /\ children(n, i) \in Pair
         /\ push_back(path, i) \in TreePath
         /\ LeadsToPair(r, push_back(path, i), children(n, i))
<1> DEFINE c(t) == Child[n[t]][i + 1]
<1>1. ASSUME NEW t \in 1 .. 2
      PROVE  /\ c(t) \in Node /\ children(n, i)[t] = c(t)
             /\ push_back(path, i) \in TreePath
             /\ Leads(Child, r[t], push_back(path, i), c(t))
  <2>1. n[t] \in Node
    BY DEF Pair
  <2>2. Child \in [Node -> Seq(Node)]
    BY TreeAssumption DEF NodeAssumption
  <2>3. Leads(Child, r[t], path, n[t]) /\ i < Len(Child[n[t]])
    BY DEF LeadsToPair, HaveChild, degree
  <2>4. children(n, i)[t] = c(t)
    BY DEF children, child
  <2>. QED BY <2>1, <2>2, <2>3, <2>4, LeadsToChild
<1>2. children(n, i) \in Pair
  <2>1. c(1) \in Node /\ c(2) \in Node
    BY <1>1
  <2>. QED BY <2>1 DEF children, child, Pair
<1>. QED BY <1>1, <1>2 DEF LeadsToPair

LEMMA DegreeIsNat == \A n \in Node : degree(n) \in Nat
<1>1. Child \in [Node -> Seq(Node)]
  BY TreeAssumption DEF NodeAssumption
<1>. QED BY <1>1 DEF degree

LEMMA SoundIsTyped == ASSUME NEW r, NEW s \in Seq(Sound(r)) PROVE s \in Seq(Frame)
BY WiderStack DEF Sound

(* The innermost activation.                                               *)
LEMMA TopIsSound ==
  ASSUME IInv, stack # << >>
  PROVE  /\ Len(stack) \in 1 .. Len(stack) /\ Top = stack[Len(stack)]
         /\ Top \in Sound(root) /\ Top \in Frame
         /\ Top.node \in Pair /\ Top.i \in Nat /\ Top.path \in TreePath
<1>1. Len(stack) \in 1 .. Len(stack) /\ Top = stack[Len(stack)]
  BY DEF IInv, Top, Last
<1>2. Top \in Sound(root)
  BY <1>1, ElementOfSeq DEF IInv
<1>. QED BY <1>1, <1>2 DEF Sound, Frame

(* It goes on as a sound activation.                                       *)
LEMMA TopChanges ==
  ASSUME IInv, stack # << >>, NEW f \in Sound(root),
         stack' = [stack EXCEPT ![Len(stack)] = f]
  PROVE  stack' \in Seq(Sound(root))
BY ReplaceTop DEF IInv

LEMMA TopGoes ==
  ASSUME IInv, stack # << >>,
         NEW pc \in {"loop", "in", "visitChild", "afterChild"}, Goto(pc),
         Within(Top.node, Top.i), pc # "loop" => HaveChild(Top.node, Top.i)
  PROVE  stack' \in Seq(Sound(root))
<1> DEFINE f == [Top EXCEPT !.pc = pc]
<1>1. /\ f \in Frame /\ f.node = Top.node /\ f.path = Top.path
      /\ f.i = Top.i /\ f.pc = pc
  BY TopIsSound DEF Frame
<1>2. stack' = [stack EXCEPT ![Len(stack)] = f]
  BY TopIsSound DEF Goto, IInv
<1> HIDE DEF f
<1>3. f \in Sound(root)
  BY <1>1, TopIsSound DEF Sound
<1>. QED BY <1>2, <1>3, TopChanges

(* The position a callback is told is that of the innermost activation,    *)
(* hence the right one.                                                    *)
LEMMA CallIsRight ==
  ASSUME IInv, stack # << >>, root' = root,
         NEW cb \in {"pre", "beforeChild", "in", "afterChild", "post", "leaf"},
         Call(cb)
  PROVE  log' \in Seq(Event) /\ PathLeadsToBoth'
<1> DEFINE e == [cb |-> cb, node |-> Top.node, path |-> Top.path, index |-> Top.i]
<1>1. e \in Event /\ e.node = Top.node /\ e.path = Top.path
  BY TopIsSound DEF Event
<1>2. log \in Seq(Event) /\ log' = Append(log, e)
  BY DEF IInv, TypeOK, Call
<1> HIDE DEF e
<1>3. log' \in Seq(Event) /\ Last(log') = e
  BY <1>1, <1>2, PushTop DEF Last
<1>4. LeadsToPair(root, e.path, e.node)
  BY <1>1, TopIsSound DEF Sound
<1>. QED BY <1>3, <1>4 DEF PathLeadsToBoth, LeadsToPair

-----------------------------------------------------------------------------
LEMMA InitIInv == Init => IInv
<1> SUFFICES ASSUME Init PROVE IInv
  OBVIOUS
<1> DEFINE f == Activation(root, << >>)
<1>1. /\ root \in Pair /\ accepted \in Visitor /\ failed \in BOOLEAN
      /\ stack = << f >> /\ log = << >>
  BY DEF Init
<1>2. /\ f \in Frame /\ f.node = root /\ f.path = << >> /\ f.pc = "start"
      /\ f.i = 0
  BY <1>1 DEF Activation, Frame, TreePath
<1> HIDE DEF f
<1>3. LeadsToPair(root, << >>, root)
  <2>1. \A t \in 1 .. 2 : root[t] \in Node
    BY <1>1 DEF Pair
  <2>. QED BY <2>1, LeadsToRoot DEF LeadsToPair
<1>4. f \in Sound(root)
  BY <1>2, <1>3 DEF Sound
<1>5. stack \in Seq(Sound(root)) /\ log \in Seq(Event)
  BY <1>1, <1>4
<1>6. PathLeadsToBoth
  BY <1>1 DEF PathLeadsToBoth
<1>. QED BY <1>1, <1>5, <1>6, SoundIsTyped DEF IInv, TypeOK

LEMMA NextIInv == IInv /\ [Next]_vars => IInv'
<1> SUFFICES ASSUME IInv, [Next]_vars PROVE IInv'
  OBVIOUS
(* What is left to show for a step.                                        *)
<1>step. ASSUME UNCHANGED << root, accepted >>, failed' \in BOOLEAN,
                stack' \in Seq(Sound(root)), log' \in Seq(Event), PathLeadsToBoth'
         PROVE  IInv'
  BY <1>step, SoundIsTyped DEF IInv, TypeOK
<1>quiet. ASSUME UNCHANGED << root, log >>
          PROVE  log' \in Seq(Event) /\ PathLeadsToBoth'
  BY <1>quiet DEF IInv, TypeOK, PathLeadsToBoth
<1>failed. failed \in BOOLEAN
  BY DEF IInv, TypeOK
(* An activation that returns.                                             *)
<1>back. ASSUME stack # << >>, Return, UNCHANGED << root, accepted, failed >>,
                NEW cb \in {"post", "leaf"}, Call(cb)
         PROVE  IInv'
  <2>1. log' \in Seq(Event) /\ PathLeadsToBoth'
    BY <1>back, CallIsRight
  <2>2. stack' \in Seq(Sound(root))
    BY <1>back, PopTop DEF IInv, Return
  <2>. QED BY <1>step, <1>failed, <1>back, <2>1, <2>2
(* A callback after which the activation goes on.                          *)
<1>on. ASSUME stack # << >>, UNCHANGED << root, accepted, failed >>,
              NEW cb \in {"pre", "beforeChild", "in"}, Call(cb),
              NEW pc \in {"loop", "in", "visitChild"}, Goto(pc),
              Within(Top.node, Top.i), pc # "loop" => HaveChild(Top.node, Top.i)
       PROVE  IInv'
  <2>1. log' \in Seq(Event) /\ PathLeadsToBoth'
    BY <1>on, CallIsRight
  <2>2. stack' \in Seq(Sound(root))
    BY <1>on, TopGoes
  <2>. QED BY <1>step, <1>failed, <1>on, <2>1, <2>2
<1>1. CASE Leaf
  BY <1>1, <1>back DEF Leaf, At
<1>2. CASE Pre
  <2>1. /\ stack # << >> /\ Top.pc = "start" /\ Call("pre") /\ Goto("loop")
        /\ UNCHANGED << root, accepted, failed >> /\ ~ SomeLeaf(Top.node)
    BY <1>2 DEF Pre, At
  <2>2. Within(Top.node, Top.i)
    <3>1. Top.i = 0 /\ Top.node[1] \in Node /\ Top.node[2] \in Node
      BY <2>1, TopIsSound DEF Sound, Pair
    <3>. QED BY <2>1, <3>1, DegreeIsNat DEF Within
  <2>. QED BY <1>on, <2>1, <2>2
<1>3. CASE AssertionFails
  <2>1. failed' = TRUE /\ UNCHANGED << root, accepted, stack, log >>
    BY <1>3 DEF AssertionFails
  <2>. QED BY <1>step, <1>quiet, <2>1 DEF IInv
<1>4. CASE BeforeChild
  <2> DEFINE pc == IF Top.i > 0 THEN "in" ELSE "visitChild"
  <2>1. /\ stack # << >> /\ Top.pc = "loop" /\ Call("beforeChild") /\ Goto(pc)
        /\ UNCHANGED << root, accepted, failed >>
        /\ Top.i < degree(Top.node[1]) /\ Top.i < degree(Top.node[2])
    BY <1>4 DEF BeforeChild, At
  <2>2. HaveChild(Top.node, Top.i) /\ Within(Top.node, Top.i)
    <3>1. Within(Top.node, Top.i)
      BY <2>1, TopIsSound DEF Sound
    <3>. QED BY <2>1, <3>1 DEF HaveChild
  <2>3. pc \in {"in", "visitChild"}
    OBVIOUS
  <2> HIDE DEF pc
  <2>. QED BY <1>on, <2>1, <2>2, <2>3
<1>5. CASE In
  <2>1. /\ stack # << >> /\ Top.pc = "in" /\ Call("in") /\ Goto("visitChild")
        /\ UNCHANGED << root, accepted, failed >>
    BY <1>5 DEF In, At
  <2>2. HaveChild(Top.node, Top.i) /\ Within(Top.node, Top.i)
    BY <2>1, TopIsSound DEF Sound
  <2>. QED BY <1>on, <2>1, <2>2
<1>6. CASE VisitChild
  <2> DEFINE w == [Top EXCEPT !.pc = "afterChild"]
             s == [stack EXCEPT ![Len(stack)] = w]
             f == Activation(children(Top.node, Top.i), push_back(Top.path, Top.i))
  <2>1. /\ stack # << >> /\ Top.pc = "visitChild"
        /\ stack' = Append([stack EXCEPT ![Len(stack)].pc = "afterChild"], f)
        /\ UNCHANGED << root, accepted, log, failed >>
    BY <1>6 DEF VisitChild, At
  <2>2. /\ LeadsToPair(root, Top.path, Top.node) /\ HaveChild(Top.node, Top.i)
        /\ Within(Top.node, Top.i)
    BY <2>1, TopIsSound DEF Sound
  <2>3. w \in Sound(root)
    BY <2>1, <2>2, TopIsSound DEF Sound, Frame
  <2>4. f \in Sound(root)
    <3>1. /\ children(Top.node, Top.i) \in Pair
          /\ push_back(Top.path, Top.i) \in TreePath
          /\ LeadsToPair(root, push_back(Top.path, Top.i), children(Top.node, Top.i))
      BY <2>1, <2>2, TopIsSound, ChildrenAreReached
    <3>. QED BY <3>1 DEF Activation, Sound, Frame
  <2>5. stack' = Append(s, f)
    BY <2>1, TopIsSound DEF IInv
  <2> HIDE DEF f, w
  <2>6. s \in Seq(Sound(root))
    BY <2>1, <2>3, ReplaceTop DEF IInv
  <2> HIDE DEF s
  <2>7. stack' \in Seq(Sound(root))
    BY <2>4, <2>5, <2>6, PushTop
  <2>. QED BY <1>step, <1>quiet, <1>failed, <2>1, <2>7
<1>7. CASE SkipChild
  <2>1. /\ stack # << >> /\ Top.pc = "visitChild" /\ Goto("afterChild")
        /\ UNCHANGED << root, accepted, log, failed >>
    BY <1>7 DEF SkipChild, At
  <2>2. HaveChild(Top.node, Top.i) /\ Within(Top.node, Top.i)
    BY <2>1, TopIsSound DEF Sound
  <2>3. stack' \in Seq(Sound(root))
    BY <2>1, <2>2, TopGoes
  <2>. QED BY <1>step, <1>quiet, <1>failed, <2>1, <2>3
<1>8. CASE AfterChild
  <2> DEFINE f == [Top EXCEPT !.pc = "loop", !.i = @ + 1]
  <2>1. /\ stack # << >> /\ Top.pc = "afterChild" /\ Call("afterChild")
        /\ stack' = [stack EXCEPT ![Len(stack)].pc = "loop",
                                  ![Len(stack)].i = @ + 1]
        /\ UNCHANGED << root, accepted, failed >>
    BY <1>8 DEF AfterChild, At
  <2>2. log' \in Seq(Event) /\ PathLeadsToBoth'
    BY <2>1, CallIsRight
  <2>3. f \in Frame /\ f.node = Top.node /\ f.path = Top.path /\ f.pc = "loop"
    BY <2>1, TopIsSound DEF Frame
  <2>i. f.i = Top.i + 1
    BY <2>1, TopIsSound DEF Frame
  <2>4. stack' = [stack EXCEPT ![Len(stack)] = f]
    BY <2>1, TopIsSound DEF IInv
  <2> HIDE DEF f
  <2>w. Within(Top.node, Top.i + 1)
    <3>1. HaveChild(Top.node, Top.i) /\ Within(Top.node, Top.i)
      BY <2>1, TopIsSound DEF Sound
    <3>2. /\ Top.i \in Nat /\ Top.node[1] \in Node /\ Top.node[2] \in Node
      BY <2>1, TopIsSound DEF Pair
    <3>. QED BY <3>1, <3>2, DegreeIsNat DEF HaveChild, Within
  <2>5. f \in Sound(root)
    BY <2>1, <2>3, <2>i, <2>w, TopIsSound DEF Sound
  <2>6. stack' \in Seq(Sound(root))
    BY <2>1, <2>4, <2>5, TopChanges
  <2>. QED BY <1>step, <1>failed, <2>1, <2>2, <2>6
<1>9. CASE Post
  BY <1>9, <1>back DEF Post, At
<1>10. CASE UNCHANGED vars
  BY <1>10, <1>step, <1>quiet, <1>failed DEF vars, IInv
<1>. QED
  BY <1>1, <1>2, <1>3, <1>4, <1>5, <1>6, <1>7, <1>8, <1>9, <1>10 DEF Next

LEMMA Invariance == Spec => []IInv
BY InitIInv, NextIInv, PTL DEF Spec

-----------------------------------------------------------------------------
(* applyToTreePair never goes to a child that one of the trees has not:    *)
(* its call stack and the log hold pairs of nodes throughout.              *)
THEOREM TypeCorrect == Spec => []TypeOK
<1>1. IInv => TypeOK
  BY DEF IInv
<1>. QED BY <1>1, Invariance, PTL

(* The one path a callback gets is the position of both its nodes, each in *)
(* its own tree, for all pairs of trees and all visitors.                  *)
THEOREM PairPathsAreRight == Spec => []PathLeadsToBoth
<1>1. IInv => PathLeadsToBoth
  BY DEF IInv
<1>. QED BY <1>1, Invariance, PTL

-----------------------------------------------------------------------------
(* The product of the trees (operator Product): its call stack is that of  *)
(* the pair traversal, every activation seen as the product's.             *)
ProductStack == [k \in 1 .. Len(stack) |-> ProductFrame(stack[k])]

View(r) == [f \in Sound(r) |-> ProductFrame(f)]

LEMMA StackSeen ==
  ASSUME NEW r, NEW s \in Seq(Sound(r))
  PROVE  [k \in 1 .. Len(s) |-> ProductFrame(s[k])] = Seen(View(r), s)
<1>1. \A k \in 1 .. Len(s) : s[k] \in Sound(r)
  BY ElementOfSeq
<1>. QED BY <1>1 DEF Seen, View

(* The product's innermost activation.                                     *)
LEMMA TopSeen ==
  ASSUME IInv, stack # << >>
  PROVE  /\ ProductStack # << >>
         /\ Last(ProductStack) = ProductFrame(Top)
         /\ Product!Top = ProductFrame(Top)
<1>1. Sound(root) = DOMAIN View(root) /\ View(root)[Top] = ProductFrame(Top)
  BY TopIsSound DEF View
<1>2. ProductStack = Seen(View(root), stack)
  BY StackSeen DEF IInv, ProductStack
<1>3. ProductStack # << >> /\ Last(ProductStack) = ProductFrame(Top)
  <2>1. stack \in Seq(DOMAIN View(root))
    BY <1>1 DEF IInv
  <2>2. Seen(View(root), stack) # << >>
    BY <2>1, SeenStack
  <2>3. Last(Seen(View(root), stack)) = View(root)[Last(stack)]
    BY <2>1, SeenTop
  <2>. QED BY <1>1, <1>2, <2>2, <2>3 DEF Top
<1>4. Product!Top = Last(ProductStack)
  BY DEF Product!Top, Product!Last, Last, ProductStack
<1>. QED BY <1>3, <1>4

(* What the changes of the call stack are in the product.                  *)
LEMMA ReplaceSeen ==
  ASSUME IInv, IInv', root' = root, stack # << >>, NEW f,
         stack' = [stack EXCEPT ![Len(stack)] = f]
  PROVE  ProductStack' = [ProductStack EXCEPT ![Len(ProductStack)] = ProductFrame(f)]
<1> DEFINE F == View(root)
<1>1. stack \in Seq(Sound(root)) /\ stack' \in Seq(Sound(root))
  BY DEF IInv
<1>2. f \in Sound(root)
  <2>1. Len(stack) \in 1 .. Len(stack') /\ stack'[Len(stack)] = f
    BY <1>1
  <2>. QED BY <1>1, <2>1, ElementOfSeq
<1>3. ProductStack = Seen(F, stack) /\ ProductStack' = Seen(F, stack')
  BY <1>1, StackSeen DEF ProductStack
<1>4. DOMAIN F = Sound(root) /\ F[f] = ProductFrame(f)
  BY <1>2 DEF View
<1> HIDE DEF F
<1>5. Seen(F, [stack EXCEPT ![Len(stack)] = f])
        = [Seen(F, stack) EXCEPT ![Len(Seen(F, stack))] = F[f]]
  BY <1>1, <1>2, <1>4, SeenReplace
<1>. QED BY <1>3, <1>4, <1>5

LEMMA PopSeen ==
  ASSUME IInv, IInv', root' = root, stack # << >>, Return
  PROVE  ProductStack' = Front(ProductStack)
<1> DEFINE F == View(root)
<1>1. stack \in Seq(Sound(root)) /\ stack' \in Seq(Sound(root))
  BY DEF IInv
<1>2. ProductStack = Seen(F, stack) /\ ProductStack' = Seen(F, stack')
  BY <1>1, StackSeen DEF ProductStack
<1>3. DOMAIN F = Sound(root)
  BY DEF View
<1> HIDE DEF F
<1>4. Seen(F, Front(stack)) = Front(Seen(F, stack))
  BY <1>1, <1>3, SeenPop
<1>. QED BY <1>2, <1>4 DEF Return

LEMMA PushSeen ==
  ASSUME NEW r, NEW s \in Seq(Sound(r)), NEW f \in Sound(r)
  PROVE  [k \in 1 .. Len(Append(s, f)) |-> ProductFrame(Append(s, f)[k])]
           = Append([k \in 1 .. Len(s) |-> ProductFrame(s[k])], ProductFrame(f))
<1> DEFINE F == View(r)
<1>1. DOMAIN F = Sound(r) /\ F[f] = ProductFrame(f)
  BY DEF View
<1>2. Append(s, f) \in Seq(Sound(r))
  OBVIOUS
<1>3. /\ [k \in 1 .. Len(s) |-> ProductFrame(s[k])] = Seen(F, s)
      /\ [k \in 1 .. Len(Append(s, f)) |-> ProductFrame(Append(s, f)[k])]
           = Seen(F, Append(s, f))
  BY <1>2, StackSeen
<1> HIDE DEF F
<1>. QED BY <1>1, <1>3, SeenPush

(* The product has a leaf where one of the two nodes is one, and elsewhere *)
(* the children both have.                                                 *)
LEMMA ProductNode ==
  ASSUME NEW n \in Pair
  PROVE  /\ Product!isLeaf(n) <=> SomeLeaf(n)
         /\ ~ SomeLeaf(n) =>
              /\ Len(ProductChild[n]) \in Nat
              /\ \A t \in 1 .. 2 : Len(ProductChild[n]) <= degree(n[t])
              /\ \E t \in 1 .. 2 : Len(ProductChild[n]) = degree(n[t])
              /\ \A i \in Nat : i < Len(ProductChild[n]) =>
                   ProductChild[n][i + 1] = children(n, i)
<1>1. n[1] \in Node /\ n[2] \in Node /\ n = << n[1], n[2] >>
  BY DEF Pair
<1>2. TypesOf(n) \in ClassPair /\ TypesOf(n)[1] = TypeOf[n[1]] /\ TypesOf(n)[2] = TypeOf[n[2]]
  BY <1>1, TreeAssumption DEF NodeAssumption, TypesOf, ClassPair
<1>3. Product!isLeaf(n) <=> SomeLeaf(n)
  BY <1>2 DEF Product!isLeaf, Product!TagOf, ProductTag, SomeLeaf, isLeaf, TagOf
<1>4. ASSUME ~ SomeLeaf(n)
      PROVE  /\ Len(ProductChild[n]) \in Nat
             /\ \A t \in 1 .. 2 : Len(ProductChild[n]) <= degree(n[t])
             /\ \E t \in 1 .. 2 : Len(ProductChild[n]) = degree(n[t])
             /\ \A i \in Nat : i < Len(ProductChild[n]) =>
                  ProductChild[n][i + 1] = children(n, i)
  <2> DEFINE m == Min({degree(n[1]), degree(n[2])})
  <2>1. degree(n[1]) \in Nat /\ degree(n[2]) \in Nat
    BY <1>1, DegreeIsNat
  <2>2. m \in {degree(n[1]), degree(n[2])} /\ m <= degree(n[1]) /\ m <= degree(n[2])
    <3>1. \E x \in {degree(n[1]), degree(n[2])} :
             \A y \in {degree(n[1]), degree(n[2])} : x <= y
      BY <2>1
    <3>. QED BY <3>1 DEF Min
  <2>3. ProductChild[n] = [k \in 1 .. m |-> children(n, k - 1)]
    BY <1>4 DEF ProductChild
  <2> HIDE DEF m
  <2>4. Len(ProductChild[n]) = m
    BY <2>1, <2>2, <2>3
  <2>5. ASSUME NEW i \in Nat, i < Len(ProductChild[n])
        PROVE  ProductChild[n][i + 1] = children(n, i)
    <3>1. i + 1 \in 1 .. m /\ (i + 1) - 1 = i
      BY <2>1, <2>2, <2>4, <2>5
    <3>. QED BY <2>3, <3>1
  <2>6. \A t \in 1 .. 2 : m <= degree(n[t])
    BY <2>2
  <2>. QED BY <2>1, <2>2, <2>4, <2>5, <2>6
<1>. QED BY <1>3, <1>4

-----------------------------------------------------------------------------
LEMMA InitIsProductInit == Init => Product!Init
<1> SUFFICES ASSUME Init PROVE Product!Init
  OBVIOUS
<1>1. /\ root \in Pair /\ accepted \in Visitor /\ log = << >>
      /\ stack = << Activation(root, << >>) >>
  BY DEF Init
<1>2. ProductFrame(Activation(root, << >>)) = Product!Activation(root, << >>)
  BY DEF ProductFrame, Activation, Product!Activation
<1>3. ProductStack = << Product!Activation(root, << >>) >>
  <2> DEFINE f == Activation(root, << >>)
  <2> HIDE DEF f
  <2>1. [k \in 1 .. Len(<< f >>) |-> ProductFrame(<< f >>[k])] = << ProductFrame(f) >>
    OBVIOUS
  <2>. QED BY <1>1, <1>2, <2>1 DEF ProductStack, f
<1>. QED BY <1>1, <1>3 DEF Product!Init, ProductStack

(* The callback is told the same in the product, and changes nothing.      *)
LEMMA CallSeen ==
  ASSUME IInv, stack # << >>, NEW cb, Call(cb)
  PROVE  Product!Call(cb) /\ \A open : Product!CallbackChanges(open)
<1>1. /\ Product!Top.node = Top.node /\ Product!Top.path = Top.path
      /\ Product!Top.i = Top.i
  BY TopSeen DEF ProductFrame
<1>2. Product!Call(cb)
  BY <1>1 DEF Call, Product!Call
<1>. QED BY <1>2 DEF Product!CallbackChanges

LEMMA NextIsProductNext ==
  ASSUME IInv, IInv', Next
  PROVE  Product!Next \/ UNCHANGED Product!vars
<1> DEFINE P == ProductStack
           n == Len(ProductStack)
           Step(f) == [stack EXCEPT ![Len(stack)] = f]
<1>at. ASSUME NEW pc, At(pc)
       PROVE  /\ stack # << >> /\ Top.pc = pc /\ Product!At(pc)
              /\ P # << >> /\ n \in DOMAIN P /\ P[n] = ProductFrame(Top)
  <2>1. stack # << >> /\ Top.pc = pc
    BY <1>at DEF At
  <2>2. P # << >> /\ Last(P) = ProductFrame(Top) /\ Product!Top = ProductFrame(Top)
    BY <2>1, TopSeen
  <2>3. P \in Seq({ProductFrame(stack[k]) : k \in 1 .. Len(stack)})
    BY DEF ProductStack, IInv, TypeOK
  <2>4. n \in DOMAIN P
    BY <2>2, <2>3
  <2>5. Product!At(pc)
    BY <2>1, <2>2 DEF Product!At, ProductStack, ProductFrame
  <2>. QED BY <2>1, <2>2, <2>4, <2>5 DEF Last
<1>top. ASSUME stack # << >>
        PROVE  /\ Top \in Frame /\ Top.node \in Pair
               /\ Product!Top = ProductFrame(Top)
               /\ Product!Top.node = Top.node /\ Product!Top.path = Top.path
               /\ Product!Top.i = Top.i /\ Product!Top.pc = Top.pc
               /\ Product!isLeaf(Top.node) <=> SomeLeaf(Top.node)
  BY <1>top, TopSeen, TopIsSound, ProductNode DEF ProductFrame
<1>1. CASE Leaf
  <2>1. /\ At("start") /\ SomeLeaf(Top.node) /\ Call("leaf") /\ Return
        /\ UNCHANGED << root, accepted >>
    BY <1>1 DEF Leaf
  <2>2. P' = Front(P)
    BY <1>at, <2>1, PopSeen
  <2>3. Product!Return
    BY <2>2 DEF Product!Return, Product!Front, Front, ProductStack
  <2>4. Product!Leaf
    BY <1>at, <1>top, <2>1, <2>3, CallSeen DEF Product!Leaf
  <2>. QED BY <2>4 DEF Product!Next
(* An activation that goes on as f, for which the product has g.           *)
<1>on. ASSUME NEW pc, At(pc), UNCHANGED root, NEW f, stack' = Step(f)
       PROVE  P' = [P EXCEPT ![n] = ProductFrame(f)]
  BY <1>on, <1>at, ReplaceSeen
<1>2. CASE Pre
  <2>1. /\ At("start") /\ ~ SomeLeaf(Top.node) /\ Call("pre") /\ Goto("loop")
        /\ UNCHANGED << root, accepted >>
    BY <1>2 DEF Pre
  <2> DEFINE f == [Top EXCEPT !.pc = "loop"]
             size == Len(ProductChild[Top.node])
  <2>2. stack' = Step(f)
    BY <1>at, <1>top, <2>1, TopIsSound DEF Goto, IInv
  <2>3. /\ f.node = Top.node /\ f.path = Top.path /\ f.i = Top.i /\ f.pc = "loop"
        /\ Top.pc = "start"
    BY <1>at, <1>top, <2>1 DEF Frame
  <2> HIDE DEF f, size
  <2>4. ProductFrame(f) = [ProductFrame(Top) EXCEPT !.pc = "loop", !.size = size]
    <3> DEFINE r == ProductFrame(Top)  q == ProductFrame(f)
    <3>1. /\ IsFrame(r) /\ IsFrame(q)
          /\ q.node = r.node /\ q.path = r.path /\ q.i = r.i /\ q.child = r.child
          /\ q.pc = "loop" /\ q.size = size
      BY <2>3 DEF ProductFrame, IsFrame, size
    <3> HIDE DEF r, q
    <3>2. q = [r EXCEPT !.pc = q.pc, !.size = q.size]
      BY <3>1, FrameSized
    <3>. QED BY <3>1, <3>2 DEF r, q
  <2>5. P' = [P EXCEPT ![n] = ProductFrame(f)]
    BY <1>on, <2>1, <2>2
  <2>6. P' = [P EXCEPT ![n].pc = "loop", ![n].size = size]
    BY <1>at, <2>1, <2>4, <2>5
  <2>7. Product!Pre
    BY <1>at, <1>top, <2>1, <2>6, CallSeen DEF Product!Pre, ProductStack, size
  <2>. QED BY <2>7 DEF Product!Next
<1>3. CASE AssertionFails
  <2>1. UNCHANGED << root, accepted, stack, log >>
    BY <1>3 DEF AssertionFails
  <2>2. P' = P
    BY <2>1 DEF ProductStack
  <2>. QED BY <2>1, <2>2 DEF Product!vars, ProductStack
<1>4. CASE BeforeChild
  <2> DEFINE pc == IF Top.i > 0 THEN "in" ELSE "visitChild"
             f == [Top EXCEPT !.pc = pc]
             c == ProductChild[Top.node][Top.i + 1]
  <2>1. /\ At("loop") /\ Top.i < degree(Top.node[1]) /\ Top.i < degree(Top.node[2])
        /\ Call("beforeChild") /\ Goto(pc) /\ UNCHANGED << root, accepted >>
    BY <1>4 DEF BeforeChild
  <2>2. stack' = Step(f)
    BY <1>at, <1>top, <2>1, TopIsSound DEF Goto, IInv
  <2>3. /\ f.node = Top.node /\ f.path = Top.path /\ f.i = Top.i /\ f.pc = pc
        /\ Top.pc = "loop"
    BY <1>at, <1>top, <2>1 DEF Frame
  <2>p. pc \in {"in", "visitChild"}
    OBVIOUS
  <2>c. /\ Top.i < Len(ProductChild[Top.node]) /\ c = children(Top.node, Top.i)
    <3>1. ~ SomeLeaf(Top.node) /\ Top.i \in Nat /\ Top.node \in Pair
      BY <1>at, <2>1, TopIsSound DEF Sound, Within
    <3>2. Top.i < Len(ProductChild[Top.node])
      BY <2>1, <3>1, ProductNode
    <3>. QED BY <3>1, <3>2, ProductNode
  <2>m. Product!Top.i < Product!Top.size
    <3>1. Product!Top.size = Len(ProductChild[Top.node])
      BY <1>at, <1>top, <2>1, <2>3 DEF ProductFrame
    <3>. QED BY <1>at, <1>top, <2>1, <2>c, <3>1
  <2> HIDE DEF f, c
  <2>4. ProductFrame(f) = [ProductFrame(Top) EXCEPT !.pc = pc, !.child = c]
    <3> DEFINE r == ProductFrame(Top)  q == ProductFrame(f)
    <3> HIDE DEF pc
    <3>1. /\ IsFrame(r) /\ IsFrame(q)
          /\ q.node = r.node /\ q.path = r.path /\ q.i = r.i /\ q.size = r.size
          /\ q.pc = pc /\ q.child = c
      BY <2>3, <2>p, <2>c DEF ProductFrame, IsFrame
    <3> HIDE DEF r, q
    <3>2. q = [r EXCEPT !.pc = q.pc, !.child = q.child]
      BY <3>1, FrameEnters
    <3>. QED BY <3>1, <3>2 DEF r, q
  <2>5. P' = [P EXCEPT ![n] = ProductFrame(f)]
    BY <1>on, <2>1, <2>2
  <2>6. P' = [P EXCEPT ![n].pc = pc, ![n].child = c]
    <3> HIDE DEF pc
    <3>. QED BY <1>at, <2>1, <2>4, <2>5
  <2>7. Product!BeforeChild
    BY <1>at, <1>top, <2>1, <2>6, <2>m, CallSeen DEF Product!BeforeChild, ProductStack, c
  <2>. QED BY <2>7 DEF Product!Next
(* The steps that only move the point at which the activation stands.      *)
<1>goto. ASSUME NEW now \in {"in", "visitChild"}, At(now), UNCHANGED root,
                NEW pc \in {"visitChild", "afterChild"}, Goto(pc)
         PROVE  Product!Goto(pc)
  <2> DEFINE f == [Top EXCEPT !.pc = pc]
  <2>2. stack' = Step(f)
    BY <1>at, <1>top, <1>goto, TopIsSound DEF Goto, IInv
  <2>3. /\ f.node = Top.node /\ f.path = Top.path /\ f.i = Top.i /\ f.pc = pc
        /\ Top.pc = now
    BY <1>at, <1>top, <1>goto DEF Frame
  <2> HIDE DEF f
  <2>4. ProductFrame(f) = [ProductFrame(Top) EXCEPT !.pc = pc]
    BY <2>3 DEF ProductFrame
  <2>5. P' = [P EXCEPT ![n] = ProductFrame(f)]
    BY <1>on, <1>goto, <2>2
  <2>6. P' = [P EXCEPT ![n].pc = pc]
    BY <1>at, <1>goto, <2>4, <2>5
  <2>. QED BY <2>6 DEF Product!Goto, ProductStack
<1>5. CASE In
  <2>1. /\ At("in") /\ Call("in") /\ Goto("visitChild") /\ UNCHANGED << root, accepted >>
    BY <1>5 DEF In
  <2>2. Product!Goto("visitChild")
    BY <1>goto, <2>1
  <2>3. Product!In
    BY <1>at, <2>1, <2>2, CallSeen DEF Product!In
  <2>. QED BY <2>3 DEF Product!Next
(* A child is accepted by the classes of the pairs.                        *)
<1>accepts. ASSUME At("visitChild")
            PROVE  /\ Product!Accepts(Product!Top.node, Product!Top.child)
                         <=> Accepts(Top.node, Top.i)
                   /\ Product!Top.child = children(Top.node, Top.i)
                   /\ children(Top.node, Top.i) \in Pair
  <2>1. Product!Top.child = children(Top.node, Top.i) /\ Product!Top.node = Top.node
    BY <1>at, <1>top, <1>accepts DEF ProductFrame
  <2>2. children(Top.node, Top.i) \in Pair /\ Top.node \in Pair
    <3>1. HaveChild(Top.node, Top.i) /\ LeadsToPair(root, Top.path, Top.node)
      BY <1>at, <1>accepts, TopIsSound DEF Sound
    <3>. QED BY <1>at, <1>accepts, <3>1, TopIsSound, ChildrenAreReached
  <2>. QED BY <2>1, <2>2 DEF Product!Accepts, Accepts
<1>6. CASE VisitChild
  <2> DEFINE w == [Top EXCEPT !.pc = "afterChild"]
             s == Step(w)
             f == Activation(children(Top.node, Top.i), push_back(Top.path, Top.i))
             g == Product!Activation(Product!Top.child,
                                     push_back(Product!Top.path, Product!Top.i))
  <2>1. /\ At("visitChild") /\ Accepts(Top.node, Top.i)
        /\ stack' = Append([stack EXCEPT ![Len(stack)].pc = "afterChild"], f)
        /\ UNCHANGED << root, accepted, log >>
    BY <1>6 DEF VisitChild
  <2>2. stack' = Append(s, f)
    BY <1>at, <1>top, <2>1, TopIsSound DEF IInv
  <2>3. /\ w \in Frame /\ w.node = Top.node /\ w.path = Top.path /\ w.i = Top.i
        /\ w.pc = "afterChild" /\ Top.pc = "visitChild"
    BY <1>at, <1>top, <2>1 DEF Frame
  <2>4. ProductFrame(f) = g
    BY <1>at, <1>top, <1>accepts, <2>1 DEF ProductFrame, Activation, Product!Activation
  <2> HIDE DEF f, w, g
  <2>5. w \in Sound(root)
    BY <1>at, <2>1, <2>3, TopIsSound DEF Sound
  <2>6. s \in Seq(Sound(root)) /\ Len(s) = Len(stack)
    BY <1>at, <2>1, <2>5, ReplaceTop DEF IInv
  <2>7. f \in Sound(root)
    <3>1. stack' \in Seq(Sound(root)) /\ s \in Seq(Sound(root)) /\ Len(s) \in Nat
      BY <2>1, <2>6 DEF IInv
    <3> HIDE DEF s
    <3>2. Len(s) + 1 \in 1 .. Len(stack') /\ stack'[Len(s) + 1] = f
      BY <2>2, <3>1
    <3>. QED BY <3>1, <3>2, ElementOfSeq
  <2>8. ProductFrame(w) = [ProductFrame(Top) EXCEPT !.pc = "afterChild"]
    BY <2>3 DEF ProductFrame
  <2>9. [k \in 1 .. Len(s) |-> ProductFrame(s[k])] = [P EXCEPT ![n].pc = "afterChild"]
    <3> DEFINE F == View(root)
    <3>1. /\ DOMAIN F = Sound(root) /\ F[w] = ProductFrame(w)
          /\ stack \in Seq(Sound(root)) /\ stack # << >>
      BY <1>at, <2>1, <2>5 DEF View, IInv
    <3>2. /\ [k \in 1 .. Len(s) |-> ProductFrame(s[k])] = Seen(F, s)
          /\ P = Seen(F, stack)
      BY <2>6, <3>1, StackSeen DEF ProductStack
    <3> HIDE DEF F
    <3>3. Seen(F, s) = [Seen(F, stack) EXCEPT ![Len(Seen(F, stack))] = F[w]]
      BY <2>5, <3>1, SeenReplace
    <3>4. [k \in 1 .. Len(s) |-> ProductFrame(s[k])] = [P EXCEPT ![n] = ProductFrame(w)]
      BY <3>1, <3>2, <3>3
    <3>. QED BY <1>at, <2>1, <2>8, <3>4
  <2> HIDE DEF s
  <2>10. P' = Append([P EXCEPT ![n].pc = "afterChild"], g)
    <3>1. P' = Append([k \in 1 .. Len(s) |-> ProductFrame(s[k])], ProductFrame(f))
      BY <2>2, <2>6, <2>7, PushSeen DEF ProductStack
    <3>. QED BY <2>4, <2>9, <3>1
  <2>11. Product!VisitChild
    BY <1>at, <1>accepts, <2>1, <2>10 DEF Product!VisitChild, Product!push_back, push_back,
                                     ProductStack, g
  <2>. QED BY <2>11 DEF Product!Next
<1>7. CASE SkipChild
  <2>1. /\ At("visitChild") /\ ~ Accepts(Top.node, Top.i) /\ Goto("afterChild")
        /\ UNCHANGED << root, accepted, log >>
    BY <1>7 DEF SkipChild
  <2>2. Product!Goto("afterChild")
    BY <1>goto, <2>1
  <2>3. Product!SkipChild
    BY <1>at, <1>accepts, <2>1, <2>2 DEF Product!SkipChild
  <2>. QED BY <2>3 DEF Product!Next
<1>8. CASE AfterChild
  <2> DEFINE f == [Top EXCEPT !.pc = "loop", !.i = @ + 1]
  <2>1. /\ At("afterChild") /\ Call("afterChild") /\ UNCHANGED << root, accepted >>
        /\ stack' = [stack EXCEPT ![Len(stack)].pc = "loop", ![Len(stack)].i = @ + 1]
    BY <1>8 DEF AfterChild
  <2>2. stack' = Step(f)
    BY <1>at, <1>top, <2>1, TopIsSound DEF IInv
  <2>3. /\ f.node = Top.node /\ f.path = Top.path /\ f.i = Top.i + 1 /\ f.pc = "loop"
        /\ Top.pc = "afterChild"
    BY <1>at, <1>top, <2>1 DEF Frame
  <2> HIDE DEF f
  <2>4. ProductFrame(f) = [ProductFrame(Top) EXCEPT !.pc = "loop", !.i = Top.i + 1,
                                                    !.child = Top.node]
    <3> DEFINE r == ProductFrame(Top)  q == ProductFrame(f)
    <3>1. /\ IsFrame(r) /\ IsFrame(q)
          /\ q.node = r.node /\ q.path = r.path /\ q.size = r.size
          /\ q.pc = "loop" /\ q.i = Top.i + 1 /\ q.child = Top.node
      BY <2>3 DEF ProductFrame, IsFrame
    <3> HIDE DEF r, q
    <3>2. q = [r EXCEPT !.pc = q.pc, !.i = q.i, !.child = q.child]
      BY <3>1, FrameLeaves
    <3>. QED BY <3>1, <3>2 DEF r, q
  <2>i. P[n].i = Top.i
    BY <1>at, <2>1 DEF ProductFrame
  <2>5. P' = [P EXCEPT ![n] = ProductFrame(f)]
    BY <1>on, <2>1, <2>2
  <2>6. P' = [P EXCEPT ![n].pc = "loop", ![n].i = @ + 1, ![n].child = Top.node]
    BY <1>at, <2>1, <2>4, <2>5, <2>i
  <2>7. Product!AfterChild
    BY <1>at, <1>top, <2>1, <2>6, CallSeen DEF Product!AfterChild, ProductStack
  <2>. QED BY <2>7 DEF Product!Next
<1>9. CASE Post
  <2>1. /\ At("loop") /\ Top.i = degree(Top.node[1]) /\ Call("post") /\ Return
        /\ UNCHANGED << root, accepted >>
    BY <1>9 DEF Post
  <2>2. P' = Front(P)
    BY <1>at, <2>1, PopSeen
  <2>3. Product!Return
    BY <2>2 DEF Product!Return, Product!Front, Front, ProductStack
  <2>4. Product!Top.i = Product!Top.size
    <3>1. Product!Top.size = Len(ProductChild[Top.node])
      BY <1>at, <1>top, <2>1 DEF ProductFrame
    <3>2. Within(Top.node, Top.i) /\ Top.node \in Pair /\ Top.i \in Nat
      BY <1>at, <2>1, TopIsSound DEF Sound
    <3>3. Top.i = Len(ProductChild[Top.node])
      <4>1. Top.node[1] \in Node /\ Top.node[2] \in Node
        BY <3>2 DEF Pair
      <4>2. degree(Top.node[1]) \in Nat /\ degree(Top.node[2]) \in Nat
        BY <4>1, DegreeIsNat
      <4>3. /\ Len(ProductChild[Top.node]) \in Nat
            /\ Len(ProductChild[Top.node]) <= degree(Top.node[1])
            /\ \/ Len(ProductChild[Top.node]) = degree(Top.node[1])
               \/ Len(ProductChild[Top.node]) = degree(Top.node[2])
        BY <3>2, ProductNode DEF Within
      <4>. QED BY <2>1, <3>2, <4>2, <4>3 DEF Within
    <3>. QED BY <1>at, <1>top, <2>1, <3>1, <3>3
  <2>5. Product!Post
    BY <1>at, <1>top, <2>1, <2>3, <2>4, CallSeen DEF Product!Post
  <2>. QED BY <2>5 DEF Product!Next
<1>. QED
  BY <1>1, <1>2, <1>3, <1>4, <1>5, <1>6, <1>7, <1>8, <1>9 DEF Next

(* applyToTreePair implements applyToTree on the product of its two trees: *)
(* from whatever pair it starts and whatever the visitor accepts, every    *)
(* step makes the callback applyToTree would make there, or is the failing *)
(* assertion, which makes none.                                            *)
THEOREM PairImplementsTraversal == Spec => ImplementsTraversal
<1>1. Init => Product!Init
  BY InitIsProductInit
<1>2. IInv /\ IInv' /\ [Next]_vars => [Product!Next]_(Product!vars)
  <2>1. ASSUME UNCHANGED vars PROVE UNCHANGED Product!vars
    BY <2>1 DEF vars, Product!vars
  <2>. QED BY <2>1, NextIsProductNext
<1>. QED BY <1>1, <1>2, Invariance, PTL DEF Spec, ImplementsTraversal

-----------------------------------------------------------------------------
(* The definition of Fits can be unfolded: the children of a pair of nodes *)
(* are of classes that nest less deep.                                     *)
Fitting(n) == ~ SomeLeaf(n) /\ degree(n[1]) <= degree(n[2])

ChildPairs ==
  [n \in Pair |-> IF Fitting(n) THEN [k \in 1 .. degree(n[1]) |-> children(n, k - 1)]
                                ELSE << >>]

LEMMA ChildPairsDescend ==
  /\ ChildPairs \in [Pair -> Seq(Pair)]
  /\ \A n \in Pair : Fitting(n) => /\ Len(ChildPairs[n]) = degree(n[1])
                                   /\ degree(n[1]) \in Nat
                                   /\ \A k \in 1 .. degree(n[1]) :
                                        ChildPairs[n][k] = children(n, k - 1)
  /\ [n \in Pair |-> LevelOf[n[1]]] \in [Pair -> Nat]
  /\ Descends(Pair, [n \in Pair |-> LevelOf[n[1]]], ChildPairs)
<1> DEFINE rank == [n \in Pair |-> LevelOf[n[1]]]
<1>1. \A n \in Pair : n[1] \in Node /\ n[2] \in Node
  BY DEF Pair
<1>2. rank \in [Pair -> Nat]
  BY <1>1, LevelDecreases
<1>3. ASSUME NEW n \in Pair, Fitting(n)
      PROVE  /\ degree(n[1]) \in Nat
             /\ \A k \in 1 .. degree(n[1]) :
                  /\ children(n, k - 1) \in Pair
                  /\ LevelOf[children(n, k - 1)[1]] < LevelOf[n[1]]
  <2>1. n[1] \in Node /\ n[2] \in Node /\ degree(n[1]) \in Nat /\ degree(n[2]) \in Nat
    BY <1>1, DegreeIsNat
  <2>2. ASSUME NEW k \in 1 .. degree(n[1])
        PROVE  /\ children(n, k - 1) \in Pair
               /\ LevelOf[children(n, k - 1)[1]] < LevelOf[n[1]]
    <3>1. /\ k \in 1 .. Len(Child[n[1]]) /\ k \in 1 .. Len(Child[n[2]]) /\ (k - 1) + 1 = k
      BY <1>3, <2>1 DEF Fitting, degree
    <3>2. children(n, k - 1) = << Child[n[1]][k], Child[n[2]][k] >>
      BY <3>1 DEF children, child
    <3>3. Child[n[1]][k] \in Node /\ Child[n[2]][k] \in Node
          /\ LevelOf[Child[n[1]][k]] < LevelOf[n[1]]
      BY <2>1, <3>1, LevelDecreases
    <3>. QED BY <3>2, <3>3 DEF Pair
  <2>. QED BY <2>1, <2>2
<1>4. ASSUME NEW n \in Pair, Fitting(n)
      PROVE  /\ ChildPairs[n] \in Seq(Pair)
             /\ Len(ChildPairs[n]) = degree(n[1])
             /\ \A k \in 1 .. degree(n[1]) : ChildPairs[n][k] = children(n, k - 1)
  <2> DEFINE m == degree(n[1])
             s == [k \in 1 .. m |-> children(n, k - 1)]
  <2>1. ChildPairs[n] = s
    BY <1>4 DEF ChildPairs
  <2>2. m \in Nat /\ \A k \in 1 .. m : children(n, k - 1) \in Pair
    BY <1>3, <1>4
  <2> HIDE DEF m
  <2>3. s \in Seq(Pair) /\ Len(s) = m /\ \A k \in 1 .. m : s[k] = children(n, k - 1)
    BY <2>2
  <2>. QED BY <2>1, <2>3 DEF m
<1>5. ASSUME NEW n \in Pair, ~ Fitting(n)
      PROVE  ChildPairs[n] = << >> /\ << >> \in Seq(Pair) /\ Len(<< >>) = 0
  BY <1>5 DEF ChildPairs
<1>6. ChildPairs \in [Pair -> Seq(Pair)]
  <2>1. \A n \in Pair : ChildPairs[n] \in Seq(Pair)
    BY <1>4, <1>5
  <2>2. ChildPairs = [n \in Pair |-> ChildPairs[n]]
    BY DEF ChildPairs
  <2>. QED BY <2>1, <2>2
<1>7. Descends(Pair, rank, ChildPairs)
  <2> SUFFICES ASSUME NEW n \in Pair, NEW k \in 1 .. Len(ChildPairs[n])
               PROVE  rank[ChildPairs[n][k]] < rank[n]
    BY DEF Descends
  <2>1. Fitting(n)
    BY <1>5
  <2>2. ChildPairs[n][k] = children(n, k - 1) /\ k \in 1 .. degree(n[1])
    BY <1>4, <2>1
  <2>. QED BY <1>3, <2>1, <2>2
<1>. QED BY <1>2, <1>3, <1>4, <1>6, <1>7

LEMMA FitsUnfolds ==
  \A n \in Pair :
    /\ Fits[n] \in BOOLEAN
    /\ Fits[n] = (\/ SomeLeaf(n)
                  \/ /\ degree(n[1]) <= degree(n[2])
                     /\ \A i \in 0 .. degree(n[1]) - 1 : Fits[children(n, i)])
<1> DEFINE Made(n, c) == SomeLeaf(n) \/ (Fitting(n) /\ \A i \in 1 .. Len(c) : c[i] = TRUE)
           step == [x \in Pair \X Seq(BOOLEAN) |-> Made(x[1], x[2])]
<1>1. step \in [Pair \X Seq(BOOLEAN) -> BOOLEAN]
  OBVIOUS
<1>2. PICK f \in [Pair -> BOOLEAN] : Follows(f, Pair, BOOLEAN, ChildPairs, step)
  <2> HIDE DEF step
  <2>. QED BY <1>1, ChildPairsDescend, RankRecursion
<1>3. ASSUME NEW n \in Pair
      PROVE  f[n] = (\/ SomeLeaf(n)
                     \/ /\ degree(n[1]) <= degree(n[2])
                        /\ \A i \in 0 .. degree(n[1]) - 1 : f[children(n, i)])
  <2>1. PICK c \in Seq(BOOLEAN) : MadeFrom(f, n, c, ChildPairs, step)
    BY <1>2 DEF Follows
  <2>2. /\ Len(c) = Len(ChildPairs[n])
        /\ \A k \in 1 .. Len(ChildPairs[n]) : c[k] = f[ChildPairs[n][k]]
        /\ f[n] = step[<< n, c >>]
    BY <2>1 DEF MadeFrom
  <2>3. f[n] = Made(n, c)
    <3> DEFINE x == << n, c >>
    <3>1. x \in Pair \X Seq(BOOLEAN) /\ x[1] = n /\ x[2] = c
      OBVIOUS
    <3> HIDE DEF x, Made
    <3>2. step[x] = Made(n, c)
      BY <3>1
    <3>. QED BY <2>2, <3>2 DEF x
  <2>4. CASE SomeLeaf(n)
    BY <2>3, <2>4
  <2>5. CASE ~ SomeLeaf(n) /\ ~ (degree(n[1]) <= degree(n[2]))
    BY <2>3, <2>5 DEF Fitting
  <2>6. CASE Fitting(n)
    <3>1. /\ Len(c) = degree(n[1]) /\ degree(n[1]) \in Nat
          /\ \A k \in 1 .. degree(n[1]) :
               ChildPairs[n][k] = children(n, k - 1) /\ c[k] = f[children(n, k - 1)]
      BY <2>2, <2>6, ChildPairsDescend
    <3>2. \A k \in 1 .. Len(c) : c[k] \in BOOLEAN
      BY ElementOfSeq
    <3>3. (\A k \in 1 .. Len(c) : c[k] = TRUE)
            <=> \A i \in 0 .. degree(n[1]) - 1 : f[children(n, i)]
      <4>1. ASSUME \A k \in 1 .. Len(c) : c[k] = TRUE, NEW i \in 0 .. degree(n[1]) - 1
            PROVE  f[children(n, i)]
        <5>1. i + 1 \in 1 .. degree(n[1]) /\ (i + 1) - 1 = i
          BY <3>1
        <5>2. c[i + 1] = f[children(n, i)] /\ c[i + 1] = TRUE
          BY <3>1, <4>1, <5>1
        <5>. QED BY <5>2
      <4>2. ASSUME \A i \in 0 .. degree(n[1]) - 1 : f[children(n, i)], NEW k \in 1 .. Len(c)
            PROVE  c[k] = TRUE
        <5>1. k - 1 \in 0 .. degree(n[1]) - 1
          BY <3>1
        <5>2. f[children(n, k - 1)]
          BY <4>2, <5>1
        <5>3. c[k] = f[children(n, k - 1)]
          BY <3>1
        <5>4. c[k]
          BY <5>2, <5>3
        <5>. QED BY <3>2, <5>4
      <4>. QED BY <4>1, <4>2
    <3>4. f[n] = \A k \in 1 .. Len(c) : c[k] = TRUE
      BY <2>3, <2>6 DEF Fitting
    <3>. QED BY <2>6, <3>3, <3>4 DEF Fitting
  <2>. QED BY <2>4, <2>5, <2>6 DEF Fitting
<1>4. f = [n \in Pair |-> \/ SomeLeaf(n)
                         \/ /\ degree(n[1]) <= degree(n[2])
                            /\ \A i \in 0 .. degree(n[1]) - 1 : f[children(n, i)]]
  BY <1>3
<1>5. Fits = [n \in Pair |-> \/ SomeLeaf(n)
                            \/ /\ degree(n[1]) <= degree(n[2])
                               /\ \A i \in 0 .. degree(n[1]) - 1 : Fits[children(n, i)]]
  BY <1>4, Zenon DEF Fits
<1>. QED BY <1>5

(* Once the root fits, every pair that is met does: the invariant that     *)
(* excludes the assertion.                                                 *)
AllFit ==
  Fits[root] => ~ failed /\ \A k \in 1 .. Len(stack) : Fits[stack[k].node]

LEMMA InitAllFit == Init => AllFit
<1> SUFFICES ASSUME Init PROVE AllFit
  OBVIOUS
<1> DEFINE f == Activation(root, << >>)
<1>1. stack = << f >> /\ f.node = root /\ failed = FALSE
  BY DEF Init, Activation
<1> HIDE DEF f
<1>. QED BY <1>1 DEF AllFit

(* Going on and returning leave the nodes of the activations.              *)
LEMMA KeepsNodes ==
  ASSUME AllFit, UNCHANGED << root, failed >>, Len(stack') <= Len(stack),
         Len(stack) \in Nat, Len(stack') \in Nat,
         \A k \in 1 .. Len(stack') : stack'[k].node = stack[k].node
  PROVE  AllFit'
<1> SUFFICES ASSUME Fits[root] PROVE \A k \in 1 .. Len(stack') : Fits[stack'[k].node]
  BY DEF AllFit
<1>1. \A k \in 1 .. Len(stack') : k \in 1 .. Len(stack)
  OBVIOUS
<1>. QED BY <1>1 DEF AllFit

LEMMA NextAllFit == IInv /\ AllFit /\ [Next]_vars => AllFit'
<1> SUFFICES ASSUME IInv, AllFit, [Next]_vars PROVE AllFit'
  OBVIOUS
<1> DEFINE l == Len(stack)
<1>t. stack \in Seq(Sound(root)) /\ l \in Nat
  BY DEF IInv
<1>on. ASSUME stack # << >>, UNCHANGED << root, failed >>, NEW f, f.node = Top.node,
              stack' = [stack EXCEPT ![Len(stack)] = f]
       PROVE  AllFit'
  <2>1. Len(stack') = l /\ \A k \in 1 .. l : stack'[k].node = stack[k].node
    BY <1>t, <1>on, TopIsSound
  <2>2. /\ Len(stack') <= Len(stack) /\ Len(stack) \in Nat /\ Len(stack') \in Nat
        /\ \A k \in 1 .. Len(stack') : stack'[k].node = stack[k].node
    BY <1>t, <2>1
  <2>. QED BY <1>on, <2>2, KeepsNodes
<1>goto. ASSUME stack # << >>, UNCHANGED << root, failed >>, NEW pc, Goto(pc)
         PROVE  AllFit'
  <2> DEFINE f == [Top EXCEPT !.pc = pc]
  <2>1. f.node = Top.node
    BY <1>goto, TopIsSound DEF Frame
  <2>2. stack' = [stack EXCEPT ![Len(stack)] = f]
    BY <1>goto, TopIsSound DEF Goto, IInv
  <2> HIDE DEF f
  <2>. QED BY <1>goto, <1>on, <2>1, <2>2
<1>back. ASSUME stack # << >>, UNCHANGED << root, failed >>, Return
         PROVE  AllFit'
  <2>1. Len(stack') = l - 1 /\ l \in Nat \ {0} /\ \A k \in 1 .. l - 1 : stack'[k] = stack[k]
    BY <1>t, <1>back, PopTop, EmptySeq DEF Return
  <2>. QED BY <1>t, <1>back, <2>1, KeepsNodes
<1>1. CASE Leaf
  BY <1>1, <1>back DEF Leaf, At
<1>2. CASE Pre
  BY <1>2, <1>goto DEF Pre, At
<1>3. CASE AssertionFails
  <2>1. /\ stack # << >> /\ Top.pc = "loop" /\ UNCHANGED << root, accepted, stack, log >>
        /\ Top.i < degree(Top.node[1]) /\ Top.i >= degree(Top.node[2])
    BY <1>3 DEF AssertionFails, At
  <2>2. Within(Top.node, Top.i) /\ Top.node \in Pair /\ Top.i \in Nat
    BY <2>1, TopIsSound DEF Sound
  <2>3. ~ Fits[Top.node]
    <3>1. degree(Top.node[1]) \in Nat /\ degree(Top.node[2]) \in Nat
      BY <2>2, DegreeIsNat DEF Pair
    <3>2. ~ (degree(Top.node[1]) <= degree(Top.node[2]))
      BY <2>1, <2>2, <3>1
    <3>3. ~ SomeLeaf(Top.node)
      BY <2>2 DEF Within
    <3>. QED BY <2>2, <3>2, <3>3, FitsUnfolds
  <2>4. ~ Fits[root]
    BY <2>1, <2>3, TopIsSound DEF AllFit
  <2>. QED BY <2>1, <2>4 DEF AllFit
<1>4. CASE BeforeChild
  BY <1>4, <1>goto DEF BeforeChild, At
<1>5. CASE In
  BY <1>5, <1>goto DEF In, At
<1>6. CASE VisitChild
  <2> DEFINE w == [Top EXCEPT !.pc = "afterChild"]
             s == [stack EXCEPT ![Len(stack)] = w]
             f == Activation(children(Top.node, Top.i), push_back(Top.path, Top.i))
  <2>1. /\ stack # << >> /\ Top.pc = "visitChild"
        /\ stack' = Append([stack EXCEPT ![Len(stack)].pc = "afterChild"], f)
        /\ UNCHANGED << root, accepted, log, failed >>
    BY <1>6 DEF VisitChild, At
  <2>2. HaveChild(Top.node, Top.i) /\ Within(Top.node, Top.i)
    BY <2>1, TopIsSound DEF Sound
  <2>3. w.node = Top.node /\ f.node = children(Top.node, Top.i)
    BY <2>1, TopIsSound DEF Frame, Activation
  <2>4. stack' = Append(s, f)
    BY <2>1, TopIsSound DEF IInv
  <2> HIDE DEF f, w
  <2>5. /\ Len(s) = l /\ \A k \in 1 .. l : s[k].node = stack[k].node
        /\ s \in Seq(Sound(root) \cup {w})
    BY <1>t, <2>1, <2>3, TopIsSound
  <2> HIDE DEF s
  <2>6. /\ Len(stack') = l + 1 /\ stack'[l + 1] = f
        /\ \A k \in 1 .. l : stack'[k].node = stack[k].node
    BY <2>4, <2>5
  <2>7. ASSUME Fits[Top.node] PROVE Fits[f.node]
    <3>1. degree(Top.node[1]) \in Nat /\ Top.node \in Pair /\ Top.i \in Nat
      BY <2>1, TopIsSound, DegreeIsNat DEF Pair
    <3>2. Top.i \in 0 .. degree(Top.node[1]) - 1
      BY <2>2, <3>1 DEF HaveChild
    <3>3. ~ SomeLeaf(Top.node)
      BY <2>2 DEF Within
    <3>4. \/ SomeLeaf(Top.node)
          \/ /\ degree(Top.node[1]) <= degree(Top.node[2])
             /\ \A i \in 0 .. degree(Top.node[1]) - 1 : Fits[children(Top.node, i)]
      BY <2>7, <3>1, FitsUnfolds, Zenon
    <3>5. Fits[children(Top.node, Top.i)]
      BY <3>2, <3>3, <3>4, Zenon
    <3>. QED BY <2>3, <3>5
  <2>8. Fits[root] => Fits[Top.node]
    BY <2>1, TopIsSound DEF AllFit
  <2>9. \A k \in 1 .. l + 1 : k \in 1 .. l \/ k = l + 1
    BY <1>t
  <2> HIDE DEF l
  <2>. QED BY <2>1, <2>6, <2>7, <2>8, <2>9 DEF AllFit, l
<1>7. CASE SkipChild
  BY <1>7, <1>goto DEF SkipChild, At
<1>8. CASE AfterChild
  <2> DEFINE f == [Top EXCEPT !.pc = "loop", !.i = @ + 1]
  <2>1. /\ stack # << >>
        /\ stack' = [stack EXCEPT ![Len(stack)].pc = "loop",
                                  ![Len(stack)].i = @ + 1]
        /\ UNCHANGED << root, accepted, failed >>
    BY <1>8 DEF AfterChild, At
  <2>2. f.node = Top.node
    BY <2>1, TopIsSound DEF Frame
  <2>3. stack' = [stack EXCEPT ![Len(stack)] = f]
    BY <2>1, TopIsSound DEF IInv
  <2> HIDE DEF f
  <2>. QED BY <1>on, <2>1, <2>2, <2>3
<1>9. CASE Post
  BY <1>9, <1>back DEF Post, At
<1>10. CASE UNCHANGED vars
  BY <1>10 DEF vars, AllFit
<1>. QED
  BY <1>1, <1>2, <1>3, <1>4, <1>5, <1>6, <1>7, <1>8, <1>9, <1>10 DEF Next

(* child() refuses an index only if the second tree lacks a child of the   *)
(* first: pairs of trees that fit are traversed without a failure.         *)
THEOREM FittingPairsNeverFail == Spec => []FailsOnlyOnMissingChildren
<1>1. AllFit => FailsOnlyOnMissingChildren
  BY DEF AllFit, FailsOnlyOnMissingChildren
<1>. QED BY <1>1, Invariance, InitAllFit, NextAllFit, PTL DEF Spec

=============================================================================
