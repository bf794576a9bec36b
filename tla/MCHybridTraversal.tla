--------------------------- MODULE MCHybridTraversal ---------------------------
EXTENDS HybridTraversal, MCTrees

(* The Info visitors, and clients that visit everything, nothing, or what  *)
(* is below the power nodes.                                               *)
MC_Visitor ==
  [accepted : {Type \X Type}, treePathType : {"fullyStatic"},
   kind : Kinds \ {"client"}]
    \cup [accepted : {Type \X Type, {}, {"D", "P"} \X Type},
          treePathType : {"fullyStatic", "dynamic"}, kind : {"client"}]

=============================================================================
