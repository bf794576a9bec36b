----------------------------- MODULE PairTraversal -----------------------------
(***************************************************************************)
(* applyToTreePair(tree1, tree2, visitor) of pairtraversal.hh, one action  *)
(* per visitor callback, in the manner of Traversal.                       *)
(*                                                                         *)
(* A position of the traversal is a pair of nodes, and the node fields of  *)
(* frames and callbacks hold such pairs.  The index range is that of the   *)
(* first tree alone; both children are fetched before beforeChild, and     *)
(* child() asserts that the index is below the degree of its node.         *)
(***************************************************************************)
EXTENDS TypeTree, SequencesExt

CONSTANT Visitor    \* the visitors considered: sets of pairs (class pair of
                    \*   the parents, class pair of the children)

Pair == Node \X Node

ClassPair == Type \X Type

ASSUME PairVisitorAssumption == Visitor \subseteq SUBSET (ClassPair \X ClassPair)

VARIABLES
  root,      \* the two tree arguments
  accepted,  \* where VisitChild::value is true
  stack,     \* activations of Detail::applyToTreePair, the innermost one last
  log,       \* the callbacks the visitor has received
  failed     \* an assertion has failed

vars == << root, accepted, stack, log, failed >>

Frame == [node : Pair, path : TreePath, i : Nat,
          pc : {"start", "loop", "in", "visitChild", "afterChild"}]

Event == [cb : {"pre", "beforeChild", "in", "afterChild", "post", "leaf"},
          node : Pair, path : TreePath, index : Nat]

Activation(n, path) == [node |-> n, path |-> path, i |-> 0, pc |-> "start"]

Top == Last(stack)

At(pc) == ~ failed /\ stack # << >> /\ Top.pc = pc

Goto(pc) == stack' = [stack EXCEPT ![Len(stack)].pc = pc]

Return == stack' = Front(stack)

Call(cb) ==
  log' = Append(log, [cb |-> cb, node |-> Top.node, path |-> Top.path,
                      index |-> Top.i])

TypesOf(n) == << TypeOf[n[1]], TypeOf[n[2]] >>

children(n, i) == << child(n[1], i), child(n[2], i) >>

Accepts(n, i) == << TypesOf(n), TypesOf(children(n, i)) >> \in accepted

SomeLeaf(n) == isLeaf(n[1]) \/ isLeaf(n[2])

(* Every class pair the recursion can meet must let both nodes be asked    *)
(* for children in the same way: by a run-time index, which a              *)
(* CompositeNode has not, or by a compile-time index and degree, which a   *)
(* DynamicPowerNode has not; and compile-time indices have to exist in the *)
(* second tree.                                                            *)
Compiles[n \in Pair] ==
  \/ SomeLeaf(n)
  \/ LET tags == {TagOf(n[1]), TagOf(n[2])}
     IN  /\ ~ {"CompositeNodeTag", "DynamicPowerNodeTag"} \subseteq tags
         /\ "CompositeNodeTag" \in tags => degree(n[1]) <= degree(n[2])
         /\ \A i \in 0 .. degree(n[1]) - 1 :
              i < degree(n[2]) => Compiles[children(n, i)]

Init ==
  /\ root \in {n \in Pair : Compiles[n]}
  /\ accepted \in Visitor
  /\ stack = << Activation(root, << >>) >>
  /\ log = << >>
  /\ failed = FALSE

-----------------------------------------------------------------------------
(* The overload for the case that one of the two nodes is a leaf.          *)
Leaf ==
  /\ At("start")
  /\ SomeLeaf(Top.node)
  /\ Call("leaf")
  /\ Return
  /\ UNCHANGED << root, accepted, failed >>

Pre ==
  /\ At("start")
  /\ ~ SomeLeaf(Top.node)
  /\ Call("pre")
  /\ Goto("loop")
  /\ UNCHANGED << root, accepted, failed >>

AssertionFails_OnAnyDifference ==
  /\ At("loop")
  /\ degree(Top.node[1]) # degree(Top.node[2])
  /\ failed' = TRUE
  /\ UNCHANGED << root, accepted, stack, log >>

(* tree2.child(i) where tree2 has no child i.                              *)
AssertionFails ==
  /\ At("loop")
  /\ Top.i < degree(Top.node[1])
  /\ Top.i >= degree(Top.node[2])
  /\ failed' = TRUE
  /\ UNCHANGED << root, accepted, stack, log >>

BeforeChild ==
  /\ At("loop")
  /\ Top.i < degree(Top.node[1])
  /\ Top.i < degree(Top.node[2])
  /\ Call("beforeChild")
  /\ Goto(IF Top.i > 0 THEN "in" ELSE "visitChild")
  /\ UNCHANGED << root, accepted, failed >>

In ==
  /\ At("in")
  /\ Call("in")
  /\ Goto("visitChild")
  /\ UNCHANGED << root, accepted, failed >>

VisitChild_SamePath ==
  /\ At("visitChild")
  /\ Accepts(Top.node, Top.i)
  /\ stack' = Append([stack EXCEPT ![Len(stack)].pc = "afterChild"],
                     Activation(children(Top.node, Top.i), Top.path))
  /\ UNCHANGED << root, accepted, log, failed >>

VisitChild ==
  /\ At("visitChild")
  /\ Accepts(Top.node, Top.i)
  /\ stack' = Append([stack EXCEPT ![Len(stack)].pc = "afterChild"],
                     Activation(children(Top.node, Top.i),
                                push_back(Top.path, Top.i)))
  /\ UNCHANGED << root, accepted, log, failed >>

SkipChild ==
  /\ At("visitChild")
  /\ ~ Accepts(Top.node, Top.i)
  /\ Goto("afterChild")
  /\ UNCHANGED << root, accepted, log, failed >>

AfterChild ==
  /\ At("afterChild")
  /\ Call("afterChild")
  /\ stack' = [stack EXCEPT ![Len(stack)].pc = "loop",
                            ![Len(stack)].i = @ + 1]
  /\ UNCHANGED << root, accepted, failed >>

Post_LastChildMissing ==
  /\ At("loop")
  /\ Top.i >= degree(Top.node[1]) - 1
  /\ Call("post")
  /\ Return
  /\ UNCHANGED << root, accepted, failed >>

Post_SecondDegree ==
  /\ At("loop")
  /\ Top.i = degree(Top.node[2])
  /\ Call("post")
  /\ Return
  /\ UNCHANGED << root, accepted, failed >>

Post ==
  /\ At("loop")
  /\ Top.i = degree(Top.node[1])
  /\ Call("post")
  /\ Return
  /\ UNCHANGED << root, accepted, failed >>

Next ==
  \/ Leaf \/ Pre \/ AssertionFails \/ BeforeChild \/ In \/ VisitChild
  \/ SkipChild \/ AfterChild \/ Post

Spec == Init /\ [][Next]_vars /\ WF_vars(Next)

-----------------------------------------------------------------------------
(* The types of the state.                                                 *)
TypeOK ==
  /\ root \in Pair
  /\ accepted \in Visitor
  /\ stack \in Seq(Frame)
  /\ log \in Seq(Event)
  /\ failed \in BOOLEAN

Done == stack = << >>

(* The one path handed to a callback is the position of both nodes handed  *)
(* to it, each in its own tree.                                            *)
PathLeadsToBoth ==
  log # << >> =>
    LET e == Last(log)
    IN  \A t \in 1 .. 2 : Leads(Child, root[t], e.path, e.node[t])

(* The product of the two trees: pairs of nodes, with the pairs of         *)
(* children both have, a leaf where one of the two is.                     *)
ProductChild ==
  [n \in Pair |->
     IF SomeLeaf(n)
       THEN << >>
       ELSE [k \in 1 .. Min({degree(n[1]), degree(n[2])}) |-> children(n, k - 1)]]

ProductTag ==
  [t \in ClassPair |-> IF Tag[t[2]] = "LeafNodeTag" THEN Tag[t[2]] ELSE Tag[t[1]]]

(* What applyToTree would remember where the pair traversal asks again.    *)
ProductFrame(f) ==
  [node |-> f.node, path |-> f.path, i |-> f.i, pc |-> f.pc,
   size |-> IF f.pc = "start" THEN 0 ELSE Len(ProductChild[f.node]),
   child |-> IF f.pc \in {"start", "loop"} THEN f.node ELSE children(f.node, f.i)]

Product ==
  INSTANCE Traversal WITH
    MaxChanges <- 0, held <- ProductChild, changes <- 0,
    stack <- [k \in 1 .. Len(stack) |-> ProductFrame(stack[k])],
    Node <- Pair, Type <- ClassPair, TypeOf <- [n \in Pair |-> TypesOf(n)],
    Tag <- ProductTag, Child <- ProductChild,
    Level <- [t \in ClassPair |-> Level[t[1]]]

(* Traversing a pair of trees is traversing their product: the visitor is  *)
(* called as applyToTree would call it on the product, until an assertion  *)
(* fails.                                                                  *)
ImplementsTraversal == Product!Init /\ [][Product!Next]_(Product!vars)

(* The second tree has at least the children of the first, wherever the    *)
(* traversal may take both of them.                                        *)
Fits[n \in Pair] ==
  \/ SomeLeaf(n)
  \/ /\ degree(n[1]) <= degree(n[2])
     /\ \A i \in 0 .. degree(n[1]) - 1 : Fits[children(n, i)]

(* "The two TypeTrees are not required to be exactly identical" means, for *)
(* the assertion in child(): the second tree may have more children than   *)
(* the first anywhere, and leafs may be opposite anything.                 *)
FailsOnlyOnMissingChildren == Fits[root] => ~ failed

(* The traversal of every pair ends: both trees have been left, or child() *)
(* has refused an index.                                                   *)
Terminates == <>(Done \/ failed)

=============================================================================
