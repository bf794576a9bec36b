------------------------------- MODULE TypeTree -------------------------------
(***************************************************************************)
(* The static structure all algorithms of dune-typetree work on.           *)
(*                                                                         *)
(* A node is a C++ object; what the algorithms may do with it is decided   *)
(* by its class, so a node has a Type and the type has a Tag, the node tag *)
(* of nodetags.hh.  Inner nodes hold their children in a storage           *)
(* (std::array, std::vector or std::tuple of std::shared_ptr); Child[n] is *)
(* that storage with every pointer replaced by the object it points to.    *)
(* Two slots, of one node or of several, may point to the same object, so  *)
(* the nodes form a directed acyclic graph.  A cycle cannot be built: the  *)
(* class of an inner node names the classes of its children as template    *)
(* arguments, which Level, the nesting depth of those arguments, records.  *)
(*                                                                         *)
(* Indices are 0-based as in the code; TLA+ sequences are 1-based, and     *)
(* "child" is the only place where the two meet.                           *)
(***************************************************************************)
EXTENDS Integers, Sequences

CONSTANTS
  Node,     \* the node objects
  Type,     \* their classes
  TypeOf,   \* [Node -> Type]
  Tag,      \* [Type -> NodeTags]
  Child,    \* [Node -> Seq(Node)]: the children a node holds
  Level     \* [Type -> Nat]: how deep the template arguments nest

NodeTags == {"LeafNodeTag", "PowerNodeTag", "DynamicPowerNodeTag",
             "CompositeNodeTag"}

(* Every operation of the library is a template over the node's class.     *)
TagOf(n) == Tag[TypeOf[n]]

isLeaf(n) == TagOf(n) = "LeafNodeTag"

degree(n) == Len(Child[n])

child(n, i) == Child[n][i + 1]

NodeAssumption ==
  /\ TypeOf \in [Node -> Type]
  /\ Tag \in [Type -> NodeTags]
  /\ Child \in [Node -> Seq(Node)]
  /\ Level \in [Type -> Nat]

(* A leaf node has degree 0; a child's class is a template argument of its *)
(* parent's class.                                                         *)
NestingAssumption ==
  \A n \in Node :
    /\ isLeaf(n) => Child[n] = << >>
    /\ \A i \in 1 .. Len(Child[n]) :
         Level[TypeOf[Child[n][i]]] < Level[TypeOf[n]]

(* What the class fixes: the degree unless the node is a                   *)
(* DynamicPowerNode, and the class of every child.                         *)
ClassAssumption ==
  \A m, n \in Node :
    TypeOf[m] = TypeOf[n] =>
      /\ TagOf(n) # "DynamicPowerNodeTag" => Len(Child[m]) = Len(Child[n])
      /\ TagOf(n) = "CompositeNodeTag" =>
           \A i \in 1 .. Len(Child[n]) :
             TypeOf[Child[m][i]] = TypeOf[Child[n][i]]
      /\ TagOf(n) \in {"PowerNodeTag", "DynamicPowerNodeTag"} =>
           \A i \in 1 .. Len(Child[m]), j \in 1 .. Len(Child[n]) :
             TypeOf[Child[m][i]] = TypeOf[Child[n][j]]

ASSUME TreeAssumption ==
  NodeAssumption /\ NestingAssumption /\ ClassAssumption

-----------------------------------------------------------------------------
(* Tree paths: the child indices on the way down from the root.            *)

TreePath == Seq(Nat)

push_back(path, i) == Append(path, i)

(* path, walked down from root, ends at n: some sequence of nodes starts   *)
(* at root, ends at n, and each of its nodes is the child of its           *)
(* predecessor that the path names.  held is what the nodes hold, Child    *)
(* unless the tree has been changed.                                       *)
Leads(held, root, path, n) ==
  \E walk \in [1 .. Len(path) + 1 -> Node] :
    /\ walk[1] = root
    /\ walk[Len(path) + 1] = n
    /\ \A k \in 1 .. Len(path) :
         /\ path[k] \in 0 .. Len(held[walk[k]]) - 1
         /\ walk[k + 1] = held[walk[k]][path[k] + 1]

=============================================================================
