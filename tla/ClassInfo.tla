------------------------------- MODULE ClassInfo -------------------------------
(***************************************************************************)
(* What the compiler knows of a tree from its class alone: TreeInfo of     *)
(* utility.hh. It reads the template arguments of the classes and never an *)
(* object; a CompositeNode's are read here off an object of the class, the *)
(* one of a power node is ChildType, which it has children of or not.      *)
(***************************************************************************)
EXTENDS TreeOps

CONSTANT ChildType    \* [Type -> Type]: PowerNode<T,k>::ChildType

Classes == {TypeOf[n] : n \in Node}

(* Node::ChildType is the class of all children of a power node, and an    *)
(* object of it exists, so that its own template arguments can be read.    *)
ASSUME ChildTypeAssumption ==
  /\ ChildType \in [Type -> Type]
  /\ \A n \in Node :
       TagOf(n) = "PowerNodeTag" =>
         /\ ChildType[TypeOf[n]] \in Classes
         /\ Level[ChildType[TypeOf[n]]] < Level[TypeOf[n]]
         /\ \A i \in 0 .. degree(n) - 1 : TypeOf[child(n, i)] = ChildType[TypeOf[n]]

objectOf(t) == CHOOSE n \in Node : TypeOf[n] = t

StaticDegree(t) == degree(objectOf(t))

ChildOfType(t, k) == TypeOf[child(objectOf(t), k)]

(* TreeInfo<Tree>: a leaf counts 1.  A power node multiplies the numbers   *)
(* of its ChildType by the degree and is one deeper than ChildType, with   *)
(* or without children; a composite node sums up its children's numbers    *)
(* (generic_compositenode_children_info) and is one deeper than the        *)
(* deepest of them.                                                        *)
TreeInfo[t \in Classes] ==
  LET ChildInfo == TreeInfo[ChildType[t]]
      children_info[k \in 0 .. StaticDegree(t)] ==
        LET Child_k   == TreeInfo[ChildOfType(t, k)]
            NextChild == children_info[k + 1]
        IN  IF k = StaticDegree(t)
              THEN [depth |-> 0, nodeCount |-> 0, leafCount |-> 0]
              ELSE [depth |-> IF Child_k.depth > NextChild.depth
                                THEN Child_k.depth ELSE NextChild.depth,
                    nodeCount |-> Child_k.nodeCount + NextChild.nodeCount,
                    leafCount |-> Child_k.leafCount + NextChild.leafCount]
      Children == children_info[0]
  IN  CASE Tag[t] = "LeafNodeTag" ->
             [depth |-> 1, nodeCount |-> 1, leafCount |-> 1]
        [] Tag[t] = "PowerNodeTag" ->
             [depth |-> 1 + ChildInfo.depth,
              nodeCount |-> 1 + StaticDegree(t) * ChildInfo.nodeCount,
              leafCount |-> StaticDegree(t) * ChildInfo.leafCount]
        [] OTHER ->
             [depth |-> 1 + Children.depth,
              nodeCount |-> 1 + Children.nodeCount,
              leafCount |-> Children.leafCount]

(* No inner node of the tree is without children, as a PowerNode<T,0> is.  *)
isFilled[n \in Node] ==
  /\ isLeaf(n) \/ degree(n) > 0
  /\ \A i \in 0 .. degree(n) - 1 : isFilled[child(n, i)]

=============================================================================
