------------------------------ MODULE MCNodeViews ------------------------------
EXTENDS NodeViews

MC_Object == [A |-> {"a1", "a2"}, B |-> {"b1"}]

MC_Classes == <<"A", "B", "A">>

(* IndexFilter: nothing, reversal, an index twice, a single index.         *)
(* SimpleFilter: accept all, by class, by the new index, by the old index. *)
MC_Filter ==
  [tag : {"AdvancedFilterTag"}, indices : {<< >>, <<2, 1, 0>>, <<0, 0>>, <<1>>, <<0, 2>>}]
    \cup [tag : {"SimpleFilterTag"},
          accepts : {Class \X (0 .. 2) \X (0 .. 2), {"A"} \X (0 .. 2) \X (0 .. 2),
                     Class \X {0} \X (0 .. 2), {"B"} \X {1} \X {1, 2},
                     Class \X (0 .. 1) \X {1, 2}}]

=============================================================================
