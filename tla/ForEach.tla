-------------------------------- MODULE ForEach --------------------------------
(***************************************************************************)
(* forEachNode and forEachLeafNode of traversal.hh.                        *)
(*                                                                         *)
(* The three public functions share one recursion over (preFunc, leafFunc, *)
(* postFunc) and differ in which of the three is the client's function and *)
(* which is NoOp.  client names the public function; calls is the full     *)
(* sequence of calls the recursion makes, "seen" what of it reaches the    *)
(* client.                                                                 *)
(*                                                                         *)
(* Unlike applyToTree this recursion has no child callbacks, descends into *)
(* every child, asks the node for its degree in every turn of the loop     *)
(* (the loop of the dynamic traversal, which is preferred), and fetches    *)
(* the child when it recurses, not before.                                 *)
(***************************************************************************)
EXTENDS TreeOps

VARIABLES
  root,    \* the tree argument
  client,  \* the public function that was called
  stack,   \* activations of Detail::forEachNode, the innermost one last
  calls    \* the calls made so far, those of NoOp included

vars == << root, client, stack, calls >>

Client == {"forEachNode(pre,leaf,post)", "forEachNode(node)", "forEachLeafNode"}

(* The functions that are not NoOp.                                        *)
Active_InnerToo(c) ==
  IF c = "forEachLeafNode" THEN {"pre", "leaf"} ELSE {"pre", "leaf", "post"}

Active(c) == CASE c = "forEachNode(pre,leaf,post)" -> {"pre", "leaf", "post"}
               [] c = "forEachNode(node)"          -> {"pre", "leaf"}
               [] c = "forEachLeafNode"            -> {"leaf"}

Frame == [node : Node, path : TreePath, i : Nat, started : BOOLEAN]

Activation(n, path) == [node |-> n, path |-> path, i |-> 0, started |-> FALSE]

Top == Last(stack)

Call(func) ==
  calls' = Append(calls, [func |-> func, node |-> Top.node, path |-> Top.path])

(* The calls that reach the client, the others being calls of NoOp.        *)
Received(functions, made) ==
  LET received[k \in 0 .. Len(made)] ==
        IF k = 0
          THEN << >>
          ELSE IF made[k].func \in functions
                 THEN Append(received[k - 1], made[k])
                 ELSE received[k - 1]
  IN  received[Len(made)]

seen == Received(Active(client), calls)

Init ==
  /\ root \in Node
  /\ client \in Client
  /\ stack = << Activation(root, << >>) >>
  /\ calls = << >>

LeafFunc ==
  /\ stack # << >>
  /\ isLeaf(Top.node)
  /\ Call("leaf")
  /\ stack' = Front(stack)
  /\ UNCHANGED << root, client >>

PreFunc ==
  /\ stack # << >>
  /\ ~ isLeaf(Top.node) /\ ~ Top.started
  /\ Call("pre")
  /\ stack' = [stack EXCEPT ![Len(stack)].started = TRUE]
  /\ UNCHANGED << root, client >>

(* One turn of the loop: the index moves on when the recursion returns,    *)
(* which nothing can observe before.                                       *)
Recurse_SamePath ==
  /\ stack # << >>
  /\ Top.started /\ Top.i < degree(Top.node)
  /\ stack' = Append([stack EXCEPT ![Len(stack)].i = @ + 1],
                     Activation(child(Top.node, Top.i), Top.path))
  /\ UNCHANGED << root, client, calls >>

Recurse ==
  /\ stack # << >>
  /\ Top.started /\ Top.i < degree(Top.node)
  /\ stack' = Append([stack EXCEPT ![Len(stack)].i = @ + 1],
                     Activation(child(Top.node, Top.i),
                                push_back(Top.path, Top.i)))
  /\ UNCHANGED << root, client, calls >>

PostFunc_TooEarly ==
  /\ stack # << >>
  /\ Top.started /\ Top.i >= degree(Top.node) - 1
  /\ Call("post")
  /\ stack' = Front(stack)
  /\ UNCHANGED << root, client >>

PostFunc ==
  /\ stack # << >>
  /\ Top.started /\ Top.i >= degree(Top.node)
  /\ Call("post")
  /\ stack' = Front(stack)
  /\ UNCHANGED << root, client >>

Next == LeafFunc \/ PreFunc \/ Recurse \/ PostFunc

Spec == Init /\ [][Next]_vars /\ WF_vars(Next)

-----------------------------------------------------------------------------
(* The types of the state.                                                *)
TypeOK ==
  /\ root \in Node
  /\ client \in Client
  /\ stack \in Seq(Frame)
  /\ calls \in Seq([func : {"pre", "leaf", "post"}, node : Node, path : TreePath])

Done == stack = << >>

(* A path handed out, to the client or to NoOp, and given back to          *)
(* child(tree, treePath) yields the node it was handed out with: no        *)
(* assertion on the way fails.  childStorage(tree, treePath) yields the    *)
(* pointer the parent keeps to it.                                         *)
PathsRetrieveNodes ==
  \A k \in 1 .. Len(calls) :
    LET node == calls[k].node
        path == calls[k].path
    IN  /\ childImpl[<< root, path >>] = {node}
        /\ path # << >> =>
             \E parent \in Node :
               /\ childImpl[<< root, Front(path) >>] = {parent}
               /\ childStorage(root, path) =
                    {[slot |-> << parent, Last(path) >>, to |-> node]}

(* Two independently written enumerations of the leafs agree: the leafs    *)
(* that reach forEachLeafNode's function, in this order, are those of the  *)
(* tuple leafTreePathTuple<Tree>() computes from the type alone.           *)
PathsSeen == [k \in 1 .. Len(seen) |-> seen[k].path]

LeafsAgreeWithTuple ==
  Done /\ client = "forEachLeafNode" /\ isStatic[root] =>
    PathsSeen = leafTreePathTuple[<< root, << >> >>]

(* The traversal is a depth-first visit that descends into every child.    *)
opened == {[path |-> c.path, node |-> c.node] :
             c \in {x \in ToSet(calls) : x.func \in {"pre", "leaf"}}}

closed == {[path |-> c.path, node |-> c.node] :
             c \in {x \in ToSet(calls) : x.func \in {"post", "leaf"}}}

Abstract == INSTANCE DepthFirst WITH accepted <- Type \X Type, held <- Child

ImplementsDepthFirst == Abstract!Spec

=============================================================================
