-------------------------------- MODULE LeafMap --------------------------------
(***************************************************************************)
(* What a tree container promises: a value for every leaf of the tree it   *)
(* was made or last resized for, by the path to that leaf.                 *)
(***************************************************************************)
EXTENDS TypeTree

CONSTANTS
  Value,          \* the values stored
  DefaultValue,   \* the value-initialised one
  LeafToValue,    \* the predicates passed to makeTreeContainer
  LeafPaths(_),   \* the paths to the leafs of a tree
  StaticPaths(_), \* those the class of the tree guarantees
  NodeAt(_, _)    \* the node of a tree at the end of a path

VARIABLES
  tree,   \* the client's tree
  map     \* the stored values by leaf path

Made(f) == map' = [p \in LeafPaths(tree) |-> f[NodeAt(tree, p)]]

Cleared(paths) == map' = [p \in paths |-> DefaultValue]

(* What was there stays, what is new has the default value.                *)
Resized ==
  map' = [p \in LeafPaths(tree) |->
            IF p \in DOMAIN map THEN map[p] ELSE DefaultValue]

Written == \E p \in DOMAIN map, v \in Value : map' = [map EXCEPT ![p] = v]

Init ==
  /\ tree \in Node
  /\ map = [p \in StaticPaths(tree) |-> DefaultValue]

Next ==
  \/ /\ \/ \E f \in LeafToValue : Made(f)
        \/ Cleared(StaticPaths(tree))
        \/ Cleared(LeafPaths(tree))
        \/ Resized
        \/ Written
     /\ UNCHANGED tree
  \/ /\ tree' \in {n \in Node : TypeOf[n] = TypeOf[tree]}
     /\ UNCHANGED map

Spec == Init /\ [][Next]_<< tree, map >>

=============================================================================
