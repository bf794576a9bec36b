----------------------------- MODULE LeafReduction -----------------------------
(***************************************************************************)
(* reduceOverLeafs(tree, functor, reduction, startValue) of                *)
(* traversalutilities.hh: applyToTree with a visitor that visits the whole *)
(* tree and reduces the functor's value at each leaf into its own value.   *)
(*                                                                         *)
(* Functor and reduction are the client's.  The functor's value stands for *)
(* itself, by the path and the node it is called with; the reduction       *)
(* concatenates, so that a result shows which values went into it, and on  *)
(* which side.                                                             *)
(***************************************************************************)
EXTENDS Traversal, TreeOps

startValue == << >>

functor(node, path) == << [node |-> node, path |-> path] >>

reduction(left, right) == left \o right

(* LeafReductionVisitor::leaf.                                             *)
leaf_Swapped(value, node, path) == reduction(functor(node, path), value)

leaf(value, node, path) == reduction(value, functor(node, path))

(* _value, once these callbacks have been received.  The other callbacks   *)
(* are the empty ones of DefaultVisitor.                                   *)
value_(events) ==
  LET after[k \in 0 .. Len(events)] ==
        IF k = 0 THEN startValue
        ELSE IF events[k].cb = "leaf"
          THEN leaf(after[k - 1], events[k].node, events[k].path)
          ELSE after[k - 1]
  IN  after[Len(events)]

(* The visitor derives from TreeVisitor and takes the tree as const.       *)
IsReduction == accepted = Type \X Type /\ changes = 0

(* reduceOverLeafs reduces the leafs of a tree from left to right, each    *)
(* with the path that leafTreePathTuple has for it, whether or not the     *)
(* client's reduction is commutative.                                      *)
ReducesLeafsInOrder ==
  Done /\ IsReduction /\ isStatic[root] =>
    LET result == value_(log)
        paths == leafTreePathTuple[<< root, << >> >>]
    IN  /\ Len(result) = Len(paths)
        /\ \A k \in 1 .. Len(paths) :
             result[k].path = paths[k] /\ {result[k].node} = childImpl[<< root, paths[k] >>]

=============================================================================
