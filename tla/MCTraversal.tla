------------------------------ MODULE MCTraversal ------------------------------
EXTENDS LeafReduction, MCTrees

(* VisitTree, VisitDirectChildren, visitors that choose by the class of    *)
(* the child, and two that choose by the class of the parent.              *)
MC_Visitor ==
  {Type \X classes : classes \in {{}, Type, {"L"}, {"P"}, {"D", "P", "M"}, {"L", "D"}}}
    \cup {{"C", "Q"} \X Type, {"C", "D"} \X Type}

=============================================================================
