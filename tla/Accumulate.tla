------------------------------- MODULE Accumulate -------------------------------
(***************************************************************************)
(* AccumulateValue<Tree,Functor,Reduction,startValue,ParentChildReduction> *)
(* and AccumulateType<Tree,Policy> of accumulate_static.hh: computations   *)
(* over the classes of a tree, done by the compiler.                       *)
(*                                                                         *)
(* A policy holds the template arguments: algorithm, the reductions, the   *)
(* functor as doVisit, the classes it selects, visit, the name of what it  *)
(* computes, and result_type, and the start value.                         *)
(***************************************************************************)
EXTENDS TreeOps

Algorithm == {"AccumulateValue", "flattened_reduction", "bottom_up_reduction"}

(* The reductions the header offers, and a client's, which keep every      *)
(* visit and the reduction it went through: that is what any choice of     *)
(* functor and reductions makes of the tree.                               *)
reduce_Min(op, r1, r2) ==
  CASE op = "plus" -> r1 + r2
    [] op = "max"  -> IF r1 > r2 THEN r2 ELSE r1
    [] OTHER       -> Append(r1, [path |-> r2, by |-> op])

reduce(op, r1, r2) ==
  LET bool(b) == IF b THEN 1 ELSE 0
  IN  CASE op = "or_"      -> bool(r1 # 0 \/ r2 # 0)
        [] op = "and_"     -> bool(r1 # 0 /\ r2 # 0)
        [] op = "plus"     -> r1 + r2
        [] op = "minus"    -> r1 - r2
        [] op = "multiply" -> r1 * r2
        [] op = "min"      -> IF r1 < r2 THEN r1 ELSE r2
        [] op = "max"      -> IF r1 > r2 THEN r1 ELSE r2
        [] OTHER           -> Append(r1, [path |-> r2, by |-> op])

(* Functor::visit<Node,TreePath>.                                          *)
visit(policy, path) ==
  CASE policy.visit = "one"   -> 1
    [] policy.visit = "level" -> Len(path) + 1
    [] policy.visit = "path"  -> path

(* accumulate_node_helper, accumulate_type_node_helper                     *)
node_helper(policy, n, path, op, current) ==
  IF TypeOf[n] \in policy.doVisit
    THEN reduce(op, current, visit(policy, path))
    ELSE current

(* What the accumulation enters a child with.                              *)
propagate_type_down_tree_Swapped(policy, current, path) ==
  IF policy.algorithm = "bottom_up_reduction" /\ Last(path) = 0
    THEN policy.start
    ELSE current

propagate_type_down_tree(policy, current, path) ==
  IF policy.algorithm = "flattened_reduction" /\ Last(path) = 0
    THEN policy.start
    ELSE current

(* accumulate_value and accumulate_type, of a node, its path and the       *)
(* current result: the children from left to right, the result of one      *)
(* being the start of the next, then the node itself.                      *)
Accumulation(policy) ==
  LET accumulate[at \in Node \X TreePath \X policy.result_type] ==
        LET n == at[1]
            path == at[2]
            over_children[k \in 0 .. degree(n)] ==
              IF k = 0
                THEN at[3]
                ELSE accumulate[
                       << child(n, k - 1), push_back(path, k - 1),
                          propagate_type_down_tree(
                            policy, over_children[k - 1], push_back(path, k - 1)) >>]
        IN  IF isLeaf(n)
              THEN node_helper(policy, n, path, policy.Reduction, at[3])
              ELSE node_helper(policy, n, path, policy.ParentChildReduction,
                               over_children[degree(n)])
  IN  accumulate

Accumulated(policy, tree) == Accumulation(policy)[<< tree, << >>, policy.start >>]

=============================================================================
