--------------------------- MODULE MCTransformation ---------------------------
(* Source trees for TLC: power, dynamic and composite nodes with recursive *)
(* descriptors (P, D, C, R) and without (W, E, Q), below and above each other.*)
EXTENDS Transformation

MC_Type == {"L", "P", "D", "C", "W", "E", "Q", "R"}

MC_Tag == [L |-> "LeafNodeTag", P |-> "PowerNodeTag", D |-> "DynamicPowerNodeTag",
           C |-> "CompositeNodeTag", W |-> "PowerNodeTag",
           E |-> "DynamicPowerNodeTag", Q |-> "CompositeNodeTag", R |-> "CompositeNodeTag"]

MC_Level == [L |-> 0, P |-> 1, D |-> 2, C |-> 3, W |-> 4, E |-> 2, Q |-> 5, R |-> 6]

MC_Recursive == {"P", "D", "C", "R"}

MC_Node == {"a", "b", "ab", "aa", "none", "two", "thin", "tree", "whole", "some", "quad",
            "big"}

MC_TypeOf == [a |-> "L", b |-> "L", ab |-> "P", aa |-> "P", none |-> "D", two |-> "D",
              thin |-> "C", tree |-> "C", whole |-> "W", some |-> "E", quad |-> "Q",
              big |-> "R"]

MC_Child ==
  [a |-> << >>, b |-> << >>,
   ab |-> <<"a", "b">>,
   aa |-> <<"a", "a">>,            \* one object in two slots
   none |-> << >>,
   two |-> <<"aa", "ab">>,
   thin |-> <<"none", "a", "some">>,
   tree |-> <<"two", "b", "some">>,
   whole |-> <<"tree", "thin">>,
   some |-> <<"ab">>,
   quad |-> <<"whole", "ab">>,
   big |-> <<"tree", "whole", "quad", "thin">>]

=============================================================================
