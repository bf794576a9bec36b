---------------------------- MODULE MCTreeContainer ----------------------------
EXTENDS TreeContainer

(* Power nodes and dynamic nodes over dynamic nodes over power nodes, a    *)
(* composite of a leaf and a dynamic node; dynamic nodes of size 0 to 2.   *)
(* Power nodes of degree 1 over a leaf (S), a dynamic node (F) and a       *)
(* composite of one of them (G).                                           *)
MC_Type == {"L", "P", "D", "E", "V", "C", "S", "F", "Q", "G"}

MC_Tag == [L |-> "LeafNodeTag", P |-> "PowerNodeTag",
           D |-> "DynamicPowerNodeTag", E |-> "PowerNodeTag",
           V |-> "DynamicPowerNodeTag", C |-> "CompositeNodeTag",
           S |-> "PowerNodeTag", F |-> "PowerNodeTag",
           Q |-> "CompositeNodeTag", G |-> "PowerNodeTag"]

MC_Level == [L |-> 0, P |-> 1, D |-> 2, E |-> 3, V |-> 3, C |-> 3,
             S |-> 1, F |-> 3, Q |-> 2, G |-> 3]

MC_Child ==
  [a |-> << >>, b |-> << >>,
   aa |-> <<"a", "a">>, ab |-> <<"a", "b">>,
   d0 |-> << >>, d1 |-> <<"ab">>, d2 |-> <<"aa", "ab">>,
   e01 |-> <<"d0", "d1">>, e10 |-> <<"d1", "d0">>,
   v1 |-> <<"d1">>, v2 |-> <<"d0", "d1">>,
   c0 |-> <<"a", "d0">>, c2 |-> <<"b", "d2">>,
   s |-> <<"b">>, f0 |-> <<"d0">>, f1 |-> <<"d1">>,
   q |-> <<"s", "a">>, g |-> <<"q">>]

MC_Node == DOMAIN MC_Child

MC_TypeOf ==
  [n \in MC_Node |->
     CASE n \in {"a", "b"} -> "L"
       [] n \in {"aa", "ab"} -> "P"
       [] n \in {"d0", "d1", "d2"} -> "D"
       [] n \in {"e01", "e10"} -> "E"
       [] n \in {"v1", "v2"} -> "V"
       [] n \in {"c0", "c2"} -> "C"
       [] n = "s" -> "S"
       [] n \in {"f0", "f1"} -> "F"
       [] n = "q" -> "Q"
       [] n = "g" -> "G"]

MC_Value == {0, 1}

MC_LeafToValue == {[n \in MC_Node |-> 1], [n \in MC_Node |-> IF n = "b" THEN 1 ELSE 0]}

(* A power node of degree 1 over a power node of two leafs.                *)
Single_Type == {"L", "P", "O"}

Single_Tag == [L |-> "LeafNodeTag", P |-> "PowerNodeTag", O |-> "PowerNodeTag"]

Single_Level == [L |-> 0, P |-> 1, O |-> 2]

Single_Child == [a |-> << >>, b |-> << >>, ab |-> <<"a", "b">>, only |-> <<"ab">>]

Single_Node == DOMAIN Single_Child

Single_TypeOf == [a |-> "L", b |-> "L", ab |-> "P", only |-> "O"]

Single_LeafToValue == {[n \in Single_Node |-> IF n = "b" THEN 1 ELSE 0]}

=============================================================================
