----------------------------- MODULE TreeContainer -----------------------------
(***************************************************************************)
(* The containers of treecontainer.hh: nested arrays, vectors and tuples   *)
(* shaped like a tree, with a value at every leaf.                         *)
(*                                                                         *)
(* The client holds a tree and a container of the class that fits the      *)
(* class of the tree.  The tree may become another one of its class (a     *)
(* DynamicPowerNode in it may be assigned one of another size); the        *)
(* container learns of it only when it is resized.                         *)
(*                                                                         *)
(* The values are no std::arrays themselves.                               *)
(***************************************************************************)
EXTENDS TreeOps

CONSTANTS
  Value,          \* the values stored
  DefaultValue,   \* the value-initialised one
  LeafToValue     \* the predicates passed to makeTreeContainer

ASSUME ValueAssumption ==
  /\ DefaultValue \in Value
  /\ LeafToValue \subseteq [Node -> Value]

VARIABLES
  tree,        \* the client's tree
  container,   \* TreeContainerVectorBackend::container_
  sizedFor     \* the tree the container was made or last resized for

containerVars == << tree, container, sizedFor >>

(* A leaf is represented by its value, an inner node by the sequence of    *)
(* what its children are represented by.                                   *)
Leaf(v) == [of |-> {v}, children |-> << >>]

Inner(children) == [of |-> {}, children |-> children]

(* A PowerNode becomes std::array{x, ...} of what its children become.     *)
(* Written with a single x that is a std::array, this is a copy of x and   *)
(* not an array of arrays: a PowerNode of degree 1 over a PowerNode adds   *)
(* no level of nesting.                                                    *)
Collapses(n) ==
  /\ TagOf(n) = "PowerNodeTag"
  /\ degree(n) = 1
  /\ TagOf(child(n, 0)) = "PowerNodeTag"

(* No such node is around.  Where there is one, containers can be made but *)
(* neither resized nor accessed down to the leafs: resizeImpl and          *)
(* accessByTreePath expect the missing level and do not compile.           *)
Nests == \A n \in Node : ~ Collapses(n)

(* Values nested less deep than depth.                                     *)
NestedValues[depth \in Nat] ==
  IF depth = 0
    THEN {}
    ELSE [of : SUBSET Value, children : Seq(NestedValues[depth - 1])]

(* The type of the container: a node class has one, whatever the sizes of  *)
(* its DynamicPowerNodes are.                                              *)
Container[n \in Node] ==
  IF Collapses(n)
    THEN Container[child(n, 0)]
    ELSE {c \in NestedValues[Level[TypeOf[n]] + 1] :
            IF isLeaf(n)
              THEN \E v \in Value : c = Leaf(v)
              ELSE /\ c.of = {}
                   /\ TagOf(n) # "DynamicPowerNodeTag" => Len(c.children) = degree(n)
                   /\ \A m \in Node : \A k \in 1 .. Len(c.children) :
                        TypeOf[m] = TypeOf[n] /\ k <= degree(m) =>
                          c.children[k] \in Container[child(m, k - 1)]}

(* ContainerFactory: the four overloads differ in the class of the nested  *)
(* container (array, vector, TupleVector) only.                            *)
ContainerFactory(f, root_) ==
  LET make[n \in Node] ==
        CASE isLeaf(n)    -> Leaf(f[n])
          [] Collapses(n) -> make[child(n, 0)]
          [] OTHER        -> Inner([k \in 1 .. degree(n) |-> make[child(n, k - 1)]])
  IN  make[root_]

(* A default-constructed container: vectors are empty, arrays and tuples   *)
(* are not.                                                                *)
DefaultContainer[n \in Node] ==
  CASE isLeaf(n) -> Leaf(DefaultValue)
    [] TagOf(n) = "DynamicPowerNodeTag" -> Inner(<< >>)
    [] Collapses(n) -> DefaultContainer[child(n, 0)]
    [] OTHER -> Inner([k \in 1 .. degree(n) |-> DefaultContainer[child(n, k - 1)]])

(* vector::resize keeps a prefix and appends default-constructed elements; *)
(* only the container of a DynamicPowerNode has a resize.                  *)
resize_Clears(elements, n) ==
  [k \in 1 .. degree(n) |-> DefaultContainer[child(n, k - 1)]]

resize(elements, n) ==
  [k \in 1 .. degree(n) |->
     IF k <= Len(elements) THEN elements[k] ELSE DefaultContainer[child(n, k - 1)]]

resizeImpl_Flat(container_, root_) ==
  LET sized[n \in Node] ==
        [c \in Container[n] |->
           IF isLeaf(n) THEN c
           ELSE IF TagOf(n) = "DynamicPowerNodeTag" THEN Inner(resize(c.children, n))
           ELSE Inner([k \in 1 .. degree(n) |-> sized[child(n, k - 1)][c.children[k]]])]
  IN  sized[root_][container_]

resizeImpl(container_, root_) ==
  LET sized[n \in Node] ==
        [c \in Container[n] |->
           IF isLeaf(n)
             THEN c
             ELSE LET elements == IF TagOf(n) = "DynamicPowerNodeTag"
                                    THEN resize(c.children, n)
                                    ELSE c.children
                  IN  Inner([k \in 1 .. degree(n) |->
                               sized[child(n, k - 1)][elements[k]]])]
  IN  sized[root_][container_]

(* container[head] repeated along the path.  The result is the set holding *)
(* what was found, empty where an index is out of range (undefined         *)
(* behaviour of operator[]).                                               *)
accessByTreePath(c, path) ==
  LET found[k \in 0 .. Len(path)] ==
        IF k = 0
          THEN {c}
          ELSE {x.children[path[k] + 1] :
                  x \in {y \in found[k - 1] : path[k] < Len(y.children)}}
  IN  found[Len(path)]

(* container[path] = v: the value and all it is nested in.                 *)
Assigned(c, path, v) ==
  LET part(k) == CHOOSE x \in accessByTreePath(c, SubSeq(path, 1, k)) : TRUE
      assigned[up \in 0 .. Len(path)] ==
        LET k == Len(path) - up
        IN  IF up = 0
              THEN Leaf(v)
              ELSE Inner([part(k).children EXCEPT ![path[k + 1] + 1] = assigned[up - 1]])
  IN  assigned[Len(path)]

LeafPaths(n) == ToSet(leafTreePathTuple[<< n, << >> >>])

(* The node at the end of a path that has been checked.                    *)
NodeAt(n, path) == CHOOSE m \in childImpl[<< n, path >>] : TRUE

(* The paths whose existence the class of the tree guarantees.             *)
StaticPaths(n) ==
  {p \in LeafPaths(n) :
     \A k \in 0 .. Len(p) - 1 :
       TagOf(NodeAt(n, SubSeq(p, 1, k))) # "DynamicPowerNodeTag"}

-----------------------------------------------------------------------------
makeTreeContainer ==
  /\ \E f \in LeafToValue : container' = ContainerFactory(f, tree)
  /\ sizedFor' = {tree}
  /\ UNCHANGED tree

DefaultConstruct ==
  /\ container' = DefaultContainer[tree]
  /\ sizedFor' = {}
  /\ UNCHANGED tree

(* TreeContainerVectorBackend(const Tree&)                                 *)
ConstructFromTree ==
  /\ container' = resizeImpl(DefaultContainer[tree], tree)
  /\ sizedFor' = {tree}
  /\ UNCHANGED tree

Resize ==
  /\ container' = resizeImpl(container, tree)
  /\ sizedFor' = {tree}
  /\ UNCHANGED tree

(* container[path] = v for the path of a leaf of the tree.  The client     *)
(* stays within the container; SizedIsAccessible says when every leaf is.  *)
Assign ==
  /\ \E path \in LeafPaths(tree), v \in Value :
       /\ accessByTreePath(container, path) # {}
       /\ container' = Assigned(container, path, v)
  /\ UNCHANGED << tree, sizedFor >>

ReplaceTree ==
  /\ tree' \in {n \in Node : TypeOf[n] = TypeOf[tree]}
  /\ UNCHANGED << container, sizedFor >>

StoreInit ==
  /\ tree \in Node
  /\ container = DefaultContainer[tree]
  /\ sizedFor = {}

(* All a client can do when nothing else compiles.                         *)
FactorySpec ==
  StoreInit /\ [][makeTreeContainer \/ DefaultConstruct \/ ReplaceTree]_containerVars

ContainerInit == Nests /\ StoreInit

ContainerNext ==
  \/ makeTreeContainer \/ DefaultConstruct \/ ConstructFromTree \/ Resize
  \/ Assign \/ ReplaceTree

ContainerSpec == ContainerInit /\ [][ContainerNext]_containerVars

-----------------------------------------------------------------------------
(* Once the container has been made or resized for the tree, every leaf    *)
(* path of the tree, and no other, leads to a value.                       *)
SizedIsAccessible ==
  \A t \in sizedFor :
    \A path \in UNION {LeafPaths(n) : n \in Node} :
      (\E x \in accessByTreePath(container, path) : x.of # {})
        <=> path \in LeafPaths(t)

(* makeTreeContainer gives a nested container of the same structure as the *)
(* tree: wherever a path to a leaf passes, it finds an array, vector or    *)
(* tuple with an element for every child of the node there.                *)
SameStructure ==
  \A t \in sizedFor : \A path \in LeafPaths(t) : \A k \in 0 .. Len(path) :
    \E part \in accessByTreePath(container, SubSeq(path, 1, k)) :
      Len(part.children) = degree(NodeAt(t, SubSeq(path, 1, k)))

(* The paths along which the container has values.                         *)
StoredPaths ==
  {p \in UNION {LeafPaths(n) : n \in {m \in Node : TypeOf[m] = TypeOf[tree]}} :
     \E x \in accessByTreePath(container, p) : x.of # {}}

MapOfLeafs == INSTANCE LeafMap WITH
  map <- [p \in StoredPaths |->
            CHOOSE v \in UNION {x.of : x \in accessByTreePath(container, p)} : TRUE]

(* The nested container is a map from leaf paths to values: an assignment  *)
(* changes one value, also where one node object sits at several leaf      *)
(* positions, and a resize keeps every value whose leaf is still there.    *)
ImplementsLeafMap == MapOfLeafs!Spec

=============================================================================
