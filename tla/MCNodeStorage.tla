----------------------------- MODULE MCNodeStorage -----------------------------
(* Two budgets of node objects, one behaviour makes the objects of one.    *)
(* Left alone by the client: leafs (class L), nodes of PowerNode<L,2>      *)
(* (class P) and one of DynamicPowerNode<P> (class D) of size 0 or 1, so   *)
(* that destroying one node destroys nodes two levels down.  Looked after: *)
(* leafs, nodes of CompositeNode<L,L> (class C) and one of                 *)
(* DynamicPowerNode<C> (class E) of size 1.                                *)
EXTENDS NodeStorage, TLC

CONSTANTS l1, l2, p1, p2, d1, k1, k2, c1, c2, e1

MC_Class == {"L", "P", "D", "C", "E"}
MC_Level == [L |-> 0, P |-> 1, D |-> 2, C |-> 1, E |-> 2]
MC_Tag == [L |-> "LeafNodeTag", P |-> "PowerNodeTag", D |-> "DynamicPowerNodeTag",
           C |-> "CompositeNodeTag", E |-> "DynamicPowerNodeTag"]
MC_Shapes == [L |-> {<< >>}, P |-> {<<"L", "L">>}, D |-> {<< >>, <<"P">>},
              C |-> {<<"L", "L">>}, E |-> {<<"C">>}]

LeftAlone == {l1, l2, p1, p2, d1}
MC_Careful == {k1, k2, c1, c2, e1}
MC_Obj == LeftAlone \cup MC_Careful
MC_Budget == {LeftAlone, MC_Careful}

MC_ClassOf == [o \in MC_Obj |->
                 CASE o \in {l1, l2, k1, k2} -> "L" [] o \in {p1, p2} -> "P"
                   [] o \in {c1, c2} -> "C" [] o = d1 -> "D" [] o = e1 -> "E"]

MC_Symmetry == Permutations({l1, l2}) \cup Permutations({p1, p2})
                 \cup Permutations({k1, k2}) \cup Permutations({c1, c2})

=============================================================================
