---------------------------- MODULE MCPairTraversal ----------------------------
EXTENDS PairTraversal, MCTrees

(* VisitTree, VisitDirectChildren, and a visitor that chooses by the class *)
(* of the second child.                                                    *)
MC_Visitor ==
  {ClassPair \X ClassPair, {}, ClassPair \X (Type \X {"L", "P", "D"})}

=============================================================================
