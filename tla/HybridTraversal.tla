---------------------------- MODULE HybridTraversal ----------------------------
(***************************************************************************)
(* hybridApplyToTree(tree, visitor, init) of accumulate_static.hh with the *)
(* visitors of Experimental::Info, one action per visitor callback.        *)
(*                                                                         *)
(* The callbacks are those of applyToTree, but each of them takes a value  *)
(* and gives back the value for the next one.  val, in a frame, is the     *)
(* local variable that holds the value at that point (pre_val, val_before, *)
(* val_in, val_visit, in_val); it travels down with the arguments of the   *)
(* recursion and up with the returned value.  An integral_constant carries *)
(* its value in its type, a size_t or an object of the client in memory.   *)
(***************************************************************************)
EXTENDS ClassInfo

CONSTANT Visitor    \* the visitors considered

Kinds == {"leafCount", "nodeCount", "depth", "client"}

(* VisitChild, treePathType, and whose callbacks they are: those of the    *)
(* three Info visitors or those of a client, which count the callbacks.    *)
VisitorType == [accepted : SUBSET (Type \X Type),
                treePathType : {"fullyStatic", "dynamic"},
                kind : Kinds]

ASSUME HybridVisitorAssumption == Visitor \subseteq VisitorType

(* The Info visitors derive from StaticTraversal and VisitTree.            *)
ASSUME InfoVisitorAssumption ==
  \A v \in Visitor :
    v.kind # "client" =>
      v.accepted = Type \X Type /\ v.treePathType = "fullyStatic"

VARIABLES
  root,      \* the tree argument of the public hybridApplyToTree
  visitor,   \* the visitor argument
  stack,     \* activations of Impl::hybridApplyToTree, the innermost one last
  log,       \* the callbacks the visitor has received
  result,    \* what the public function has returned: empty, or one value
  failed     \* an assertion has failed

vars == << root, visitor, stack, log, result, failed >>

(* What reading an object after its lifetime has ended gives.              *)
Indeterminate == [storage |-> "memory", n |-> -1]

Value == [storage : {"type", "memory"}, n : Nat] \cup {Indeterminate}

Frame == [node : Node, path : TreePath, i : Nat, val : Value,
          pc : {"start", "loop", "in", "visitChild", "afterChild"}]

Event == [cb : {"pre", "beforeChild", "in", "afterChild", "post", "leaf"},
          node : Node, path : TreePath, index : Nat]

Activation(n, path, v) ==
  [node |-> n, path |-> path, i |-> 0, val |-> v, pc |-> "start"]

Top == Last(stack)

At(pc) == ~ failed /\ stack # << >> /\ Top.pc = pc

Accepts(n, i) == << TypeOf[n], TypeOf[child(n, i)] >> \in visitor.accepted

(* The branch with compile-time indices and a fold.  The other branch has  *)
(* run-time indices and a loop.                                            *)
StaticIndices(v, n) ==
  TagOf(n) # "DynamicPowerNodeTag" /\ v.treePathType # "dynamic"

(* A CompositeNode has no child(std::size_t).                              *)
Compiles(v) ==
  LET ok[n \in Node] ==
        /\ TagOf(n) = "CompositeNodeTag" => StaticIndices(v, n)
        /\ \A i \in 0 .. degree(n) - 1 :
             << TypeOf[n], TypeOf[child(n, i)] >> \in v.accepted => ok[child(n, i)]
  IN  {n \in Node : ok[n]}

(* What the callbacks of the visitors do with the value u.                 *)
plus1_Plain(u) ==
  IF u = Indeterminate THEN u ELSE [storage |-> "memory", n |-> u.n + 1]

plus1(u) == IF u = Indeterminate THEN u ELSE [u EXCEPT !.n = @ + 1]

Applied_DepthOfPath(cb, f) ==
  CASE visitor.kind = "client" -> plus1(f.val)
    [] visitor.kind = "depth" ->
         IF cb = "leaf" /\ f.val.n < Len(f.path)
           THEN [storage |-> "type", n |-> Len(f.path)]
           ELSE f.val
    [] visitor.kind \in {"leafCount", "nodeCount"} ->
         IF cb = "leaf" \/ (cb = "pre" /\ visitor.kind = "nodeCount")
           THEN plus1(f.val)
           ELSE f.val

Applied(cb, f) ==
  CASE visitor.kind = "client" -> plus1(f.val)
    [] visitor.kind = "depth" ->
         IF cb = "leaf" /\ f.val.n < Len(f.path) + 1
           THEN [storage |-> "type", n |-> Len(f.path) + 1]
           ELSE f.val
    [] visitor.kind \in {"leafCount", "nodeCount"} ->
         IF cb = "leaf" \/ (cb = "pre" /\ visitor.kind = "nodeCount")
           THEN plus1(f.val)
           ELSE IF cb = "beforeChild" /\ ~ StaticIndices(visitor, f.node)
                  THEN [f.val EXCEPT !.storage = "memory"]
                  ELSE f.val

(* The call of a callback, which leaves v in the activation, and the       *)
(* return of the activation with v.                                        *)
Call(cb) ==
  log' = Append(log, [cb |-> cb, node |-> Top.node, path |-> Top.path,
                      index |-> Top.i])

Goto(pc, v) == stack' = [stack EXCEPT ![Len(stack)].pc = pc,
                                      ![Len(stack)].val = v]

Return_Discards(v) ==
  /\ stack' = Front(stack)
  /\ result' = IF Len(stack) = 1 THEN {v} ELSE result

Return(v) ==
  IF Len(stack) = 1
    THEN stack' = << >> /\ result' = {v}
    ELSE /\ stack' = [Front(stack) EXCEPT ![Len(stack) - 1].val = v]
         /\ UNCHANGED result

(* The Info visitors start from Indices::_0.                               *)
Initial(v) ==
  [storage |-> IF v.kind = "client" THEN "memory" ELSE "type", n |-> 0]

Init ==
  /\ visitor \in Visitor
  /\ root \in Compiles(visitor)
  /\ stack = << Activation(root, << >>, Initial(visitor)) >>
  /\ log = << >>
  /\ result = {}
  /\ failed = FALSE

-----------------------------------------------------------------------------
Leaf ==
  /\ At("start")
  /\ isLeaf(Top.node)
  /\ Call("leaf")
  /\ Return(Applied("leaf", Top))
  /\ UNCHANGED << root, visitor, failed >>

Pre ==
  /\ At("start")
  /\ ~ isLeaf(Top.node)
  /\ Call("pre")
  /\ Goto("loop", Applied("pre", Top))
  /\ UNCHANGED << root, visitor, result, failed >>

(* The loop with run-time indices applies child 0 before it asks for the   *)
(* degree.                                                                 *)
NextIndexTaken ==
  Top.i < (IF StaticIndices(visitor, Top.node)
             THEN degree(Top.node)
             ELSE Max({1, degree(Top.node)}))

(* tree.child(0) of an empty node.                                         *)
AssertionFails ==
  /\ At("loop")
  /\ NextIndexTaken
  /\ ~ checkChildIndex(Top.node, Top.i)
  /\ failed' = TRUE
  /\ UNCHANGED << root, visitor, stack, log, result >>

BeforeChild_AlwaysIn ==
  /\ At("loop")
  /\ NextIndexTaken
  /\ checkChildIndex(Top.node, Top.i)
  /\ Call("beforeChild")
  /\ Goto("in", Applied("beforeChild", Top))
  /\ UNCHANGED << root, visitor, result, failed >>

BeforeChild ==
  /\ At("loop")
  /\ NextIndexTaken
  /\ checkChildIndex(Top.node, Top.i)
  /\ Call("beforeChild")
  /\ Goto(IF Top.i = 0 THEN "visitChild" ELSE "in", Applied("beforeChild", Top))
  /\ UNCHANGED << root, visitor, result, failed >>

In ==
  /\ At("in")
  /\ Call("in")
  /\ Goto("visitChild", Applied("in", Top))
  /\ UNCHANGED << root, visitor, result, failed >>

VisitChild ==
  /\ At("visitChild")
  /\ Accepts(Top.node, Top.i)
  /\ stack' = Append([stack EXCEPT ![Len(stack)].pc = "afterChild"],
                     Activation(child(Top.node, Top.i),
                                push_back(Top.path, Top.i), Top.val))
  /\ UNCHANGED << root, visitor, log, result, failed >>

SkipChild ==
  /\ At("visitChild")
  /\ ~ Accepts(Top.node, Top.i)
  /\ Goto("afterChild", Top.val)
  /\ UNCHANGED << root, visitor, log, result, failed >>

AfterChild ==
  /\ At("afterChild")
  /\ Call("afterChild")
  /\ stack' = [stack EXCEPT ![Len(stack)].pc = "loop",
                            ![Len(stack)].i = @ + 1,
                            ![Len(stack)].val = Applied("afterChild", Top)]
  /\ UNCHANGED << root, visitor, result, failed >>

(* What left_fold gives for the value v of the last apply_i.  v is a       *)
(* temporary in an activation of left_fold that has returned when its      *)
(* caller copies the result; without children there is no temporary, and   *)
(* an integral_constant has nothing to read.                               *)
left_fold(v, n) ==
  {v} \cup (IF degree(n) > 0 /\ v.storage = "memory" THEN {Indeterminate} ELSE {})

Post ==
  /\ At("loop")
  /\ ~ NextIndexTaken
  /\ \E in_val \in IF StaticIndices(visitor, Top.node)
                     THEN left_fold(Top.val, Top.node)
                     ELSE {Top.val} :
       Return(Applied("post", [Top EXCEPT !.val = in_val]))
  /\ Call("post")
  /\ UNCHANGED << root, visitor, failed >>

Next ==
  \/ Leaf \/ Pre \/ AssertionFails \/ BeforeChild \/ In \/ VisitChild
  \/ SkipChild \/ AfterChild \/ Post

Spec == Init /\ [][Next]_vars /\ WF_vars(Next)

-----------------------------------------------------------------------------
(* The types of the state.                                                 *)
TypeOK ==
  /\ root \in Node
  /\ visitor \in Visitor
  /\ stack \in Seq(Frame)
  /\ log \in Seq(Event)
  /\ result \in SUBSET Value
  /\ failed \in BOOLEAN

Done == stack = << >>

(* The value the next callback will get, or the one returned.              *)
carried == IF Done THEN result ELSE {Top.val}

Count(cbs) == Cardinality({k \in 1 .. Len(log) : log[k].cb \in cbs})

leafDepths == {0} \cup {Len(e.path) + 1 : e \in {x \in ToSet(log) : x.cb = "leaf"}}

(* The value the callbacks made so far amount to.                          *)
expected ==
  CASE visitor.kind = "client" -> Len(log)
    [] visitor.kind = "leafCount" -> Count({"leaf"})
    [] visitor.kind = "nodeCount" -> Count({"leaf", "pre"})
    [] visitor.kind = "depth" -> Max(leafDepths)

(* The value handed on is what all callbacks made of it, one after the     *)
(* other, except where the value of a destroyed object was read.           *)
EveryCallbackCounts == \A v \in carried \ {Indeterminate} : v.n = expected

(* A class of inner nodes without children, as PowerNode<T,0>: TreeInfo    *)
(* counts it for the depth, a visitor that looks at leafs does not.        *)
Childless(n) == isStatic[n] /\ ~ isLeaf(n) /\ degree(n) = 0

(* Info::leafCount, nodeCount and depth of a tree without dynamic nodes    *)
(* are integral constants and agree with TreeInfo, depth where every inner *)
(* node has children.                                                      *)
StaticInfo ==
  isStatic[root] /\ visitor.kind # "client" =>
    \A v \in result :
      /\ v.storage = "type"
      /\ v.n = TreeInfo[TypeOf[root]][visitor.kind]
         \/ (visitor.kind = "depth" /\ \E n \in Node : Childless(n))

(* Info::isDynamic looks at the type leafCount returns: it is size_t if    *)
(* and only if there is a dynamic node in the tree.  Info::depth is an     *)
(* integral constant always.                                               *)
DynamicInfo ==
  \A v \in result :
    /\ visitor.kind \in {"leafCount", "nodeCount"} =>
         (v.storage = "memory" <=> ~ isStatic[root])
    /\ visitor.kind = "depth" => v.storage = "type"

PlainFrame(f) ==
  [node |-> f.node, path |-> f.path, i |-> f.i, pc |-> f.pc,
   size |-> IF f.pc = "start" THEN 0 ELSE degree(f.node),
   child |-> IF f.pc \in {"start", "loop"} THEN f.node ELSE child(f.node, f.i)]

Product == INSTANCE Traversal WITH
  Visitor <- {v.accepted : v \in Visitor},
  accepted <- visitor.accepted,
  MaxChanges <- 0, held <- Child, changes <- 0,
  stack <- [k \in 1 .. Len(stack) |-> PlainFrame(stack[k])]

(* The visitor receives the callbacks applyToTree would make.              *)
ImplementsTraversal == Product!Init /\ [][Product!Next]_(Product!vars)

(* child() is asked for children that exist.                               *)
NoAssertionFails == ~ failed

(* leafCount is the number of leaf nodes in the tree: the value survives   *)
(* the way it is handed on.                                                *)
LeafCountIsRight ==
  visitor.kind = "leafCount" => \A v \in result : v.n = Count({"leaf"})

=============================================================================
