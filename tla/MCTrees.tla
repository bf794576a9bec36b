-------------------------------- MODULE MCTrees --------------------------------
(* A small world of nodes for TLC: two leaf classes, a power node class    *)
(* with distinct and with aliased children, a dynamic power node class     *)
(* with objects of size 0, 1 and 2, a composite of all of them, and a      *)
(* composite without dynamic nodes.                                        *)
EXTENDS Integers, Sequences

MC_Type == {"L", "M", "P", "D", "C", "Q"}

MC_Tag == [L |-> "LeafNodeTag", M |-> "LeafNodeTag", P |-> "PowerNodeTag",
           D |-> "DynamicPowerNodeTag", C |-> "CompositeNodeTag",
           Q |-> "CompositeNodeTag"]

MC_Level == [L |-> 0, M |-> 0, P |-> 1, D |-> 2, C |-> 3, Q |-> 2]

MC_ChildType == [t \in MC_Type |-> IF t = "D" THEN "P" ELSE "L"]

MC_Node == {"a", "b", "m", "ab", "aa", "none", "one", "two", "tree", "thin", "quad"}

MC_TypeOf == [a |-> "L", b |-> "L", m |-> "M", ab |-> "P", aa |-> "P",
              none |-> "D", one |-> "D", two |-> "D", tree |-> "C", thin |-> "C",
              quad |-> "Q"]

MC_Child ==
  [a |-> << >>, b |-> << >>, m |-> << >>,
   ab |-> <<"a", "b">>,
   aa |-> <<"a", "a">>,            \* PowerNode(t, false): one object, two slots
   none |-> << >>,                 \* DynamicPowerNode of size 0
   one |-> <<"ab">>,
   two |-> <<"aa", "ab">>,
   tree |-> <<"ab", "m", "two">>,
   thin |-> <<"aa", "m", "none">>,
   quad |-> <<"ab", "m", "aa">>]

=============================================================================
