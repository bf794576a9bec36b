------------------------------- MODULE MCForEach -------------------------------
EXTENDS StaticOps, MCTrees

(* A class Z of power nodes with ChildType P and no children, and a        *)
(* composite with a node of it.                                            *)
MCF_Type == MC_Type \cup {"Z", "O"}

MCF_Tag == MC_Tag @@ [Z |-> "PowerNodeTag", O |-> "CompositeNodeTag"]

MCF_Level == MC_Level @@ [Z |-> 2, O |-> 3]

MCF_ChildType == MC_ChildType @@ [Z |-> "P", O |-> "O"]

MCF_Node == MC_Node \cup {"zero", "over"}

MCF_TypeOf == MC_TypeOf @@ [zero |-> "Z", over |-> "O"]

MCF_Child == MC_Child @@ [zero |-> << >>, over |-> <<"zero", "a">>]

=============================================================================
