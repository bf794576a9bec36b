-------------------------------- MODULE StaticOps --------------------------------
(***************************************************************************)
(* What the compiler computes from the classes of a tree, next to what     *)
(* forEachNode meets in the object: the accumulations of                   *)
(* accumulate_static.hh, TreeInfo, and the templates of treepath.hh on the *)
(* paths it hands out.                                                     *)
(***************************************************************************)
EXTENDS ForEach, Accumulate, ClassInfo

CONSTANT Size       \* 2^w for a size_t of w bits

(* degree() is a std::size_t.                                              *)
ASSUME SizeAssumption ==
  Size \in Nat /\ \A n \in Node : degree(n) < Size

Paths == INSTANCE TreePath

(* The templates for static tree paths take the path of a node apart into  *)
(* the path of its parent and its index there, and agree with the          *)
(* functions that replace them.                                            *)
TemplatesFindParent ==
  \A call \in ToSet(seen) :
    isStatic[root] /\ call.path # << >> =>
      LET path   == Paths!StaticTreePath(call.path)
          parent == Paths!TreePathPopBack(path)
          index  == Paths!TreePathBack[path]
      IN  /\ Paths!TreePathSize(parent) = Len(path) - 1
          /\ \E m \in childImpl[<< root, Paths!values(parent) >>] : child(m, index) = call.node
          /\ parent = Paths!pop_back(path) /\ index = Paths!back(path).value
          /\ Paths!TreePathPushBack(parent, index) = path
          /\ Paths!TreePathPushFront(Paths!TreePathPopFront(path),
                                     Paths!TreePathFront(path)) = path
          /\ Paths!TreePathConcat(parent, Paths!StaticTreePath(<<index>>)) = path

(* A policy that keeps every visit of the selected classes.                *)
Keeping(algorithm, classes) ==
  [algorithm |-> algorithm, doVisit |-> classes, visit |-> "path", start |-> << >>,
   result_type |-> Seq([path : TreePath, by : {"Reduction", "ParentChildReduction"}]),
   Reduction |-> "Reduction", ParentChildReduction |-> "ParentChildReduction"]

(* The nodes of the selected classes as forEachNode leaves them: leafs by  *)
(* the reduction of siblings, inner nodes by that of parent and child.     *)
Left(classes) ==
  LET left[k \in 0 .. Len(calls)] ==
        IF k = 0
          THEN << >>
          ELSE IF calls[k].func # "pre" /\ TypeOf[calls[k].node] \in classes
                 THEN Append(left[k - 1],
                        [path |-> calls[k].path,
                         by |-> IF calls[k].func = "leaf" THEN "Reduction"
                                ELSE "ParentChildReduction"])
                 ELSE left[k - 1]
  IN  left[Len(calls)]

(* The compiler's walk over the types and the walk over the objects meet   *)
(* the nodes in the same order: AccumulateValue, and AccumulateType with   *)
(* bottom_up_reduction, reduce every selected node once, when forEachNode  *)
(* would call postFunc or leafFunc for it.                                 *)
ReducesInPostorder ==
  Done /\ isStatic[root] =>
    \A algorithm \in {"AccumulateValue", "bottom_up_reduction"},
       classes \in SUBSET Type :
      Accumulated(Keeping(algorithm, classes), root) = Left(classes)

(* flattened_reduction "visits the tree in postorder and performs a flat   *)
(* reduction over the resulting type list" (accumulate_static.hh).         *)
FlattenedIsFlat ==
  Done /\ isStatic[root] =>
    \A classes \in SUBSET Type :
      Accumulated(Keeping("flattened_reduction", classes), root) = Left(classes)

Counting(what, op, classes) ==
  [algorithm |-> "AccumulateValue", doVisit |-> classes, visit |-> what, start |-> 0,
   result_type |-> Nat,
   Reduction |-> op, ParentChildReduction |-> op]

(* Three computations of the same numbers agree: TreeInfo, AccumulateValue *)
(* with plus and max, and what the functions of the client have seen. Only *)
(* the depth of TreeInfo goes further than the objects, where an inner     *)
(* node without children has a ChildType all the same.                     *)
CountsAgree ==
  Done /\ isStatic[root] =>
    LET leafClasses == {t \in Type : Tag[t] = "LeafNodeTag"}
        Count(func) == Len(Received({func}, calls))
        info == TreeInfo[TypeOf[root]]
        levels == Accumulated(Counting("level", "max", Type), root)
    IN  /\ Accumulated(Counting("one", "plus", leafClasses), root) = info.leafCount
        /\ Accumulated(Counting("one", "plus", Type), root) = info.nodeCount
        /\ levels <= info.depth
        /\ isFilled[root] => levels = info.depth
        /\ Count("leaf") = info.leafCount
        /\ Count("leaf") + Count("post") = info.nodeCount

=============================================================================
