-------------------------------- MODULE TreeOps --------------------------------
(***************************************************************************)
(* Functions of the library that compute something from a tree without a   *)
(* visitor: child(node, treePath) of childextraction.hh and                *)
(* leafTreePathTuple of traversal.hh.                                      *)
(***************************************************************************)
EXTENDS TypeTree, SequencesExt

(* checkChildIndex(node, i): the assertion that guards every step down.    *)
checkChildIndex(n, i) == i < degree(n)

(* childImpl(node, i0, i...): one node further down per index.  The result *)
(* is the set holding the node found, empty once an assertion has failed.  *)
childImpl[at \in Node \X TreePath] ==
  LET n == at[1]
      indices == at[2]
  IN  IF indices = << >> THEN {n}
      ELSE IF checkChildIndex(n, Head(indices))
             THEN childImpl[<< child(n, Head(indices)), Tail(indices) >>]
             ELSE {}

(* childStorageImpl(nodePtr, i0, i...): the same walk along the pointers.  *)
(* A pointer is known by its target and by the slot it was copied from, if *)
(* any.                                                                    *)
NodePtr == [slot : {<< >>} \cup (Node \X Nat), to : Node]

childStorageImpl[at \in NodePtr \X TreePath] ==
  LET p == at[1]
      indices == at[2]
      i == Head(indices)
  IN  IF indices = << >> THEN {p}
      ELSE IF checkChildIndex(p.to, i)
             THEN childStorageImpl[<< [slot |-> << p.to, i >>, to |-> child(p.to, i)],
                                      Tail(indices) >>]
             ELSE {}

(* childStorage(node, treePath) needs an index at least, and starts with   *)
(* &node.                                                                  *)
childStorage(n, path) == childStorageImpl[<< [slot |-> << >>, to |-> n], path >>]

(* leafTreePathTuple<Tree>(prefix): the paths to the leafs, concatenated   *)
(* from the children's tuples.  It needs Tree::degree() at compile time,   *)
(* so it exists only where no node below is a DynamicPowerNode.            *)
isStatic[n \in Node] ==
  /\ TagOf(n) # "DynamicPowerNodeTag"
  /\ \A i \in 0 .. degree(n) - 1 : isStatic[child(n, i)]

leafTreePathTuple[at \in Node \X TreePath] ==
  LET n == at[1]
      prefix == at[2]
  IN  IF isLeaf(n)
        THEN << prefix >>
        ELSE FlattenSeq([k \in 1 .. degree(n) |->
               leafTreePathTuple[<< child(n, k - 1), push_back(prefix, k - 1) >>]])

=============================================================================
