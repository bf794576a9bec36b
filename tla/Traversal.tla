------------------------------- MODULE Traversal -------------------------------
(***************************************************************************)
(* applyToTree(tree, visitor) of traversal.hh, one action per visitor      *)
(* callback.                                                               *)
(*                                                                         *)
(* The function is recursive; stack is its call stack, with one frame per  *)
(* activation: the tree and treePath arguments, the loop index i, size,    *)
(* the end of the index range, child, the reference taken at the head of   *)
(* the loop body, and the point at which the activation stands.  log is    *)
(* what the visitor has been told: the name of each callback with the      *)
(* node, the path and the child index of the activation that made the call.*)
(*                                                                         *)
(* A visitor accepts or rejects children by class                          *)
(* (Visitor::VisitChild<Tree,Child,TreePath>::value): accepted is the set  *)
(* of pairs of parent and child class it accepts, all of them for the      *)
(* mixin VisitTree, none for VisitDirectChildren, anything for a           *)
(* hand-written VisitChild.  That VisitChild may look at the type of the   *)
(* path as well is left out.                                               *)
(*                                                                         *)
(* Callbacks get the nodes by reference and may change the tree: a node    *)
(* can be assigned from another one of its class, which for a              *)
(* DynamicPowerNode can change the degree.  held is what every node holds. *)
(* The index range is computed once and child references are kept across   *)
(* callbacks, so a callback must keep its hands off the nodes whose        *)
(* traversal is under way.  pre(n) may still change n, and post(n) again.  *)
(***************************************************************************)
EXTENDS TypeTree, SequencesExt

CONSTANTS
  Visitor,     \* the visitors considered: subsets of Type \X Type
  MaxChanges   \* bound on the number of changes callbacks make to the tree

ASSUME VisitorAssumption == Visitor \subseteq SUBSET (Type \X Type)

VARIABLES
  root,      \* the tree argument of the public applyToTree
  accepted,  \* the class pairs for which VisitChild::value is true
  held,      \* the children every node holds at present
  changes,   \* how often a callback has changed the tree
  stack,     \* activations of Detail::applyToTree, the innermost one last
  log        \* the callbacks the visitor has received

vars == << root, accepted, held, changes, stack, log >>

Callback == {"pre", "beforeChild", "in", "afterChild", "post", "leaf"}

Point == {"start", "loop", "in", "visitChild", "afterChild"}

Frame == [node : Node, path : TreePath, i : Nat, size : Nat, child : Node,
          pc : Point]

Event == [cb : Callback, node : Node, path : TreePath, index : Nat]

(* size and child have no value yet; the node stands in for the child, as  *)
(* it does again when the loop body is left.                               *)
Activation_LoopUnset(n, path) ==
  [node |-> n, path |-> path, i |-> -1, size |-> 0, child |-> n, pc |-> "start"]

Activation(n, path) ==
  [node |-> n, path |-> path, i |-> 0, size |-> 0, child |-> n, pc |-> "start"]

Accepts(n, c) == << TypeOf[n], TypeOf[c] >> \in accepted

NodesOf(frames) == {frames[k].node : k \in 1 .. Len(frames)}

(* The innermost activation, and how it goes on.                           *)
Top == Last(stack)

At(pc) == stack # << >> /\ Top.pc = pc

Goto(pc) == stack' = [stack EXCEPT ![Len(stack)].pc = pc]

Return == stack' = Front(stack)

Call(cb) ==
  log' = Append(log, [cb |-> cb, node |-> Top.node, path |-> Top.path,
                      index |-> Top.i])

(* What a callback may do to the tree: assign any node that is not open.   *)
CallbackChanges(open) ==
  \/ UNCHANGED << held, changes >>
  \/ /\ changes < MaxChanges
     /\ changes' = changes + 1
     /\ \E n \in Node \ open, m \in Node :
          /\ TypeOf[m] = TypeOf[n]
          /\ held[m] # held[n]
          /\ held' = [held EXCEPT ![n] = held[m]]

(* The public function starts with an empty hybridTreePath().              *)
Init ==
  /\ root \in Node
  /\ accepted \in Visitor
  /\ held = Child
  /\ changes = 0
  /\ stack = << Activation(root, << >>) >>
  /\ log = << >>

-----------------------------------------------------------------------------
(* The overload for leaf nodes.                                            *)
Leaf ==
  /\ At("start")
  /\ isLeaf(Top.node)
  /\ Call("leaf")
  /\ CallbackChanges(NodesOf(Front(stack)))
  /\ Return
  /\ UNCHANGED << root, accepted >>

(* The general overload.  The index range is computed once, after pre.     *)
Pre_RangeBeforeCallback ==
  /\ At("start")
  /\ ~ isLeaf(Top.node)
  /\ Call("pre")
  /\ CallbackChanges(NodesOf(Front(stack)))
  /\ stack' = [stack EXCEPT ![Len(stack)].pc = "loop",
                            ![Len(stack)].size = Len(held[Top.node])]
  /\ UNCHANGED << root, accepted >>

Pre ==
  /\ At("start")
  /\ ~ isLeaf(Top.node)
  /\ Call("pre")
  /\ CallbackChanges(NodesOf(Front(stack)))
  /\ stack' = [stack EXCEPT ![Len(stack)].pc = "loop",
                            ![Len(stack)].size = Len(held'[Top.node])]
  /\ UNCHANGED << root, accepted >>

(* The child reference is taken first, then beforeChild is called.         *)
BeforeChild_AlwaysIn ==
  /\ At("loop")
  /\ Top.i < Top.size
  /\ Call("beforeChild")
  /\ CallbackChanges(NodesOf(stack))
  /\ stack' = [stack EXCEPT ![Len(stack)].pc = "in",
                            ![Len(stack)].child = held[Top.node][Top.i + 1]]
  /\ UNCHANGED << root, accepted >>

BeforeChild ==
  /\ At("loop")
  /\ Top.i < Top.size
  /\ Call("beforeChild")
  /\ CallbackChanges(NodesOf(stack))
  /\ stack' = [stack EXCEPT ![Len(stack)].pc = IF Top.i > 0 THEN "in" ELSE "visitChild",
                            ![Len(stack)].child = held[Top.node][Top.i + 1]]
  /\ UNCHANGED << root, accepted >>

In ==
  /\ At("in")
  /\ Call("in")
  /\ CallbackChanges(NodesOf(stack))
  /\ Goto("visitChild")
  /\ UNCHANGED << root, accepted >>

VisitChild_SamePath ==
  /\ At("visitChild")
  /\ Accepts(Top.node, Top.child)
  /\ stack' = Append([stack EXCEPT ![Len(stack)].pc = "afterChild"],
                     Activation(Top.child, Top.path))
  /\ UNCHANGED << root, accepted, held, changes, log >>

VisitChild_AfterChildFirst ==
  /\ At("visitChild")
  /\ Accepts(Top.node, Top.child)
  /\ Call("afterChild")
  /\ stack' = Append([stack EXCEPT ![Len(stack)].pc = "loop",
                                   ![Len(stack)].i = @ + 1,
                                   ![Len(stack)].child = Top.node],
                     Activation(Top.child, push_back(Top.path, Top.i)))
  /\ UNCHANGED << root, accepted, held, changes >>

(* VisitChild::value is true: recurse with the extended path.              *)
VisitChild ==
  /\ At("visitChild")
  /\ Accepts(Top.node, Top.child)
  /\ stack' = Append([stack EXCEPT ![Len(stack)].pc = "afterChild"],
                     Activation(Top.child, push_back(Top.path, Top.i)))
  /\ UNCHANGED << root, accepted, held, changes, log >>

SkipChild ==
  /\ At("visitChild")
  /\ ~ Accepts(Top.node, Top.child)
  /\ Goto("afterChild")
  /\ UNCHANGED << root, accepted, held, changes, log >>

AfterChild ==
  /\ At("afterChild")
  /\ Call("afterChild")
  /\ CallbackChanges(NodesOf(stack))
  /\ stack' = [stack EXCEPT ![Len(stack)].pc = "loop",
                            ![Len(stack)].i = @ + 1,
                            ![Len(stack)].child = Top.node]
  /\ UNCHANGED << root, accepted >>

Post_LastChildMissing ==
  /\ At("loop")
  /\ Top.i >= Top.size - 1
  /\ Call("post")
  /\ CallbackChanges(NodesOf(Front(stack)))
  /\ Return
  /\ UNCHANGED << root, accepted >>

Post_OnePastTheEnd ==
  /\ At("loop")
  /\ Top.i > Top.size
  /\ Call("post")
  /\ CallbackChanges(NodesOf(Front(stack)))
  /\ Return
  /\ UNCHANGED << root, accepted >>

Post ==
  /\ At("loop")
  /\ Top.i = Top.size
  /\ Call("post")
  /\ CallbackChanges(NodesOf(Front(stack)))
  /\ Return
  /\ UNCHANGED << root, accepted >>

Next ==
  \/ Leaf \/ Pre \/ BeforeChild \/ In \/ VisitChild \/ SkipChild
  \/ AfterChild \/ Post

(* The traversal is a sequential function whose callbacks return: as long  *)
(* as there is something to do it goes on.                                 *)
Spec == Init /\ [][Next]_vars /\ WF_vars(Next)

-----------------------------------------------------------------------------
(* The types of the state.                                                *)
TypeOK ==
  /\ root \in Node
  /\ accepted \in Visitor
  /\ held \in [Node -> Seq(Node)]
  /\ changes \in Nat
  /\ stack \in Seq(Frame)
  /\ log \in Seq(Event)

Done == stack = << >>

(* The path handed to a callback is the position of the node handed to it: *)
(* following the path from the root of the traversal ends at that node.    *)
(* (Said of the latest callback in every state, so of all of them.)        *)
PathLeadsToNode ==
  log # << >> => Leads(held, root, Last(log).path, Last(log).node)

(* What an open activation remembers is what its node holds: the index     *)
(* range computed after pre, and between beforeChild and afterChild the    *)
(* child reference, are never stale, whatever callbacks do to other nodes. *)
NothingStale ==
  \A k \in 1 .. Len(stack) :
    LET f == stack[k]
    IN  f.pc # "start" =>
          /\ f.size = Len(held[f.node])
          /\ f.pc # "loop" => f.child = held[f.node][f.i + 1]

(* The callbacks made for one position, without those of positions below,  *)
(* each with its index.                                                    *)
CallsIn(events, path) ==
  LET among[k \in 0 .. Len(events)] ==
        IF k = 0 THEN << >>
        ELSE IF events[k].path = path
          THEN Append(among[k - 1], << events[k].cb, events[k].index >>)
          ELSE among[k - 1]
  IN  among[Len(events)]

(* What visitor.hh promises for an inner node: pre, then for every child   *)
(* beforeChild and afterChild, even if the child is rejected, with in      *)
(* between two of them, then post.  Due[d] is what comes before child d.   *)
Due[d \in Nat] ==
  IF d = 0 THEN << << "pre", 0 >> >>
  ELSE Due[d - 1]
         \o << << "beforeChild", d - 1 >> >>
         \o (IF d > 1 THEN << << "in", d - 1 >> >> ELSE << >>)
         \o << << "afterChild", d - 1 >> >>

Promised(d) == Append(Due[d], << "post", d >>)

(* No activation ever departs from that order: one that is open has made a *)
(* part of the calls due for the children its node holds, and the ones     *)
(* that returned have made all the calls for some number of children, the  *)
(* degree their node had.                                                  *)
CallbackProtocol ==
  \A e \in ToSet(log) :
    LET calls == CallsIn(log, e.path)
    IN  IF isLeaf(e.node)
          THEN calls = << << "leaf", 0 >> >>
          ELSE IF Last(calls)[1] = "post"
            THEN calls = Promised(Last(calls)[2])
            ELSE IsPrefix(calls, Promised(Len(held[e.node])))

(* Child callbacks bracket the visit of the child: whatever the visitor is *)
(* told about a position below child i comes after beforeChild(i) and, if  *)
(* in was due, after in; and afterChild(i) comes when all of it is over.   *)
ChildCallsBracketVisit ==
  \A j, k \in 1 .. Len(log) :
    IsStrictPrefix(log[j].path, log[k].path) =>
      LET i == log[k].path[Len(log[j].path) + 1]
      IN  /\ log[j].cb = "beforeChild" => (log[j].index <= i <=> j < k)
          /\ log[j].cb = "in" => (log[j].index <= i <=> j < k)
          /\ log[j].cb = "afterChild" => (log[j].index < i <=> j < k)

(* Every behaviour of the traversal is a depth-first visit of the tree.    *)
opened == {[path |-> e.path, node |-> e.node] :
             e \in {x \in ToSet(log) : x.cb \in {"pre", "leaf"}}}

closed == {[path |-> e.path, node |-> e.node] :
             e \in {x \in ToSet(log) : x.cb \in {"post", "leaf"}}}

Abstract == INSTANCE DepthFirst

ImplementsDepthFirst == Abstract!Spec

(* The traversal terminates, with the root left behind.                    *)
Terminates == <>Done

=============================================================================
