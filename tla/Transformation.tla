---------------------------- MODULE Transformation ----------------------------
(***************************************************************************)
(* TransformTree<SourceTree,Transformation> of transformation.hh: a new    *)
(* tree is built from a source tree, bottom up, with one call of a         *)
(* descriptor of the transformation per node.                              *)
(*                                                                         *)
(* The class of a node decides its descriptor.  A leaf's descriptor gets   *)
(* the node; so does a non-recursive one, and takes care of the subtree on *)
(* its own; a recursive one gets the node and the transformed children.    *)
(* stack is the call stack of TransformTree<...>::transform and            *)
(* transform_storage.  targets are the nodes the descriptors have made, in *)
(* this order; a target is known by its number.                            *)
(*                                                                         *)
(* The descriptors are the generic ones, with target nodes that keep a     *)
(* pointer to their source node.  It owns the node if the descriptor was   *)
(* given a shared_ptr, and does not if it was given a reference.  (The     *)
(* simple descriptors make nodes that do not know their source.)  All      *)
(* slots of the source tree own what they point to.                        *)
(***************************************************************************)
EXTENDS TypeTree, SequencesExt

CONSTANT Recursive    \* classes with NodeTransformation::recursive

ASSUME RecursiveAssumption == Recursive \subseteq Type

VARIABLES
  source,   \* the argument of the public function
  entry,    \* the public function that was called
  stack,    \* activations, the innermost one last
  targets,  \* the target nodes made so far
  result,   \* 0, or the target returned
  dropped   \* the client has given up its source tree

vars == << source, entry, stack, targets, result, dropped >>

Entry == {"transform(const S&)", "transform(shared_ptr<const S>)",
          "transform_storage(shared_ptr<const S>)"}

(* How an activation gets the source node and hands it on to the           *)
(* descriptor.                                                             *)
Handing == {"reference", "shared_ptr"}

(* In children_storage, 0 is the null pointer.                             *)
Frame == [node : Node, handed : Handing, children_storage : Seq(Nat), k : Nat,
          pc : {"start", "loop"}]

Target == [of : Node, handed : Handing, children : Seq(Nat)]

Activation_LoopUnset(n, handed) ==
  [node |-> n, handed |-> handed, children_storage |-> << >>, k |-> -1, pc |-> "start"]

Activation(n, handed) ==
  [node |-> n, handed |-> handed, children_storage |-> << >>, k |-> 0, pc |-> "start"]

(* The specialisations that need the children first.                       *)
TransformsChildren(n) == ~ isLeaf(n) /\ TypeOf[n] \in Recursive

(* The CompositeNode specialisation has no transform(shared_ptr).          *)
Compiles(n, e) ==
  e = "transform(shared_ptr<const S>)" =>
    ~ (TransformsChildren(n) /\ TagOf(n) = "CompositeNodeTag")

Top == Last(stack)

At(pc) == stack # << >> /\ Top.pc = pc

(* node_storage[k] = transform_storage(...), and the next turn of the loop. *)
Store(f, t) ==
  [f EXCEPT !.children_storage = [f.children_storage EXCEPT ![f.k + 1] = t],
            !.k = f.k + 1]

(* The innermost activation returns the target t: to the waiting loop or   *)
(* to the client.                                                          *)
Return(t) ==
  /\ targets' = Append(targets, t)
  /\ IF Len(stack) = 1
       THEN stack' = << >> /\ result' = Len(targets) + 1
       ELSE LET below == Len(stack) - 1
            IN  /\ stack' = [Front(stack) EXCEPT
                     ![below] = Store(stack[below], Len(targets) + 1)]
                /\ UNCHANGED result
  /\ UNCHANGED << source, entry, dropped >>

(* The descriptor makes the target node from what it is given.             *)
Descriptor_Unordered(children) ==
  [of |-> Top.node, handed |-> Top.handed, children |-> Reverse(children)]

Descriptor(children) ==
  [of |-> Top.node, handed |-> Top.handed, children |-> children]

Init ==
  /\ source \in Node
  /\ entry \in {e \in Entry : Compiles(source, e)}
  /\ stack = << Activation(source, IF entry = "transform(const S&)"
                                     THEN "reference" ELSE "shared_ptr") >>
  /\ targets = << >>
  /\ result = 0
  /\ dropped = FALSE

-----------------------------------------------------------------------------
TransformWhole_AnyNode ==
  /\ At("start")
  /\ Return(Descriptor(<< >>))

(* Leaf nodes, and any node with a non-recursive descriptor.               *)
TransformWhole ==
  /\ At("start")
  /\ ~ TransformsChildren(Top.node)
  /\ Return(Descriptor(<< >>))

(* node_storage_provider, or the std::tuple of a composite node.           *)
ProvideStorage ==
  /\ At("start")
  /\ TransformsChildren(Top.node)
  /\ stack' = [stack EXCEPT
       ![Len(stack)].pc = "loop",
       ![Len(stack)].children_storage = [k \in 1 .. degree(Top.node) |-> 0]]
  /\ UNCHANGED << source, entry, targets, result, dropped >>

TransformChild_ByReference ==
  /\ At("loop")
  /\ Top.k < degree(Top.node)
  /\ stack' = Append(stack, Activation(child(Top.node, Top.k), Top.handed))
  /\ UNCHANGED << source, entry, targets, result, dropped >>

(* A child object met before is not transformed again.                     *)
TransformChild_Cached ==
  /\ At("loop")
  /\ Top.k < degree(Top.node)
  /\ LET c == child(Top.node, Top.k)
         known == {t \in 1 .. Len(targets) : targets[t].of = c}
     IN  stack' = IF known = {}
                    THEN Append(stack, Activation(c, "shared_ptr"))
                    ELSE [stack EXCEPT
                            ![Len(stack)].children_storage[Top.k + 1] =
                               CHOOSE t \in known : TRUE,
                            ![Len(stack)].k = @ + 1]
  /\ UNCHANGED << source, entry, targets, result, dropped >>

(* transform_storage(source.childStorage(k), transformation): a copy of    *)
(* the child's shared_ptr is handed down.                                  *)
TransformChild ==
  /\ At("loop")
  /\ Top.k < degree(Top.node)
  /\ stack' = Append(stack, Activation(child(Top.node, Top.k), "shared_ptr"))
  /\ UNCHANGED << source, entry, targets, result, dropped >>

TransformNode_LastChildMissing ==
  /\ At("loop")
  /\ Top.k >= degree(Top.node) - 1
  /\ Return(Descriptor(Top.children_storage))

TransformNode_Never ==
  /\ At("loop")
  /\ Top.k > degree(Top.node)
  /\ Return(Descriptor(Top.children_storage))

(* NodeTransformation::transform(source, transformation, children).        *)
TransformNode ==
  /\ At("loop")
  /\ Top.k = degree(Top.node)
  /\ Return(Descriptor(Top.children_storage))

(* After the call the client may give up its source tree.                  *)
DropSource ==
  /\ result # 0
  /\ ~ dropped
  /\ dropped' = TRUE
  /\ UNCHANGED << source, entry, stack, targets, result >>

Transform == TransformWhole \/ ProvideStorage \/ TransformChild \/ TransformNode

Next == Transform \/ DropSource

Spec == Init /\ [][Next]_vars /\ WF_vars(Transform)

-----------------------------------------------------------------------------
(* The types of the state.                                                 *)
TypeOK ==
  /\ source \in Node
  /\ entry \in Entry
  /\ stack \in Seq(Frame)
  /\ targets \in Seq(Target)
  /\ result \in 0 .. Len(targets)
  /\ dropped \in BOOLEAN

Done == stack = << >>

(* The children a target holds have been made before it: no descriptor     *)
(* ever sees a null pointer or a child that is not finished.               *)
ChildrenFirst ==
  \A t \in 1 .. Len(targets) :
    \A j \in 1 .. Len(targets[t].children) : targets[t].children[j] \in 1 .. t - 1

(* The target tree is a tree, also where the source tree holds one object  *)
(* in two slots: a child stored twice is transformed twice, and no target  *)
(* gets two parents.                                                       *)
NoSharedTargets ==
  \A t, u \in 1 .. Len(targets) :
    \A i \in 1 .. Len(targets[t].children), j \in 1 .. Len(targets[u].children) :
      targets[t].children[i] = targets[u].children[j] => t = u /\ i = j

(* The tree below a target, and what it is to look like: the source tree,  *)
(* down to the nodes whose descriptors are not recursive.                  *)
TargetTree[t \in 1 .. Len(targets)] ==
  [of |-> targets[t].of,
   children |-> [j \in 1 .. Len(targets[t].children) |-> TargetTree[targets[t].children[j]]]]

PrunedChild == [n \in Node |-> IF TransformsChildren(n) THEN Child[n] ELSE << >>]

SourceTree[n \in Node] ==
  [of |-> n,
   children |-> [j \in 1 .. Len(PrunedChild[n]) |-> SourceTree[PrunedChild[n][j]]]]

(* What is returned mirrors the source tree.                               *)
MirrorsSource == result # 0 => TargetTree[result] = SourceTree[source]

(* The source nodes that something keeps alive: the client, an activation  *)
(* or a target with a shared_ptr, and a node that is alive.                *)
Subtree[n \in Node] == {n} \cup UNION {Subtree[child(n, i)] : i \in 0 .. degree(n) - 1}

AliveSources ==
  LET kept == (IF dropped THEN {} ELSE {source})
                \cup {f.node : f \in {x \in ToSet(stack) : x.handed = "shared_ptr"}}
                \cup {t.of : t \in {x \in ToSet(targets) : x.handed = "shared_ptr"}}
  IN  UNION {Subtree[n] : n \in kept}

(* Target nodes can be used after the source tree has been given up, all   *)
(* but the root of a tree that was made from a reference.                  *)
SourcesKept ==
  \A t \in 1 .. Len(targets) :
    targets[t].of \in AliveSources \/ (t = result /\ entry = "transform(const S&)")

(* The positions whose targets have been made, and those whose children    *)
(* are being transformed.                                                  *)
PositionsBelow[at \in (1 .. Len(targets)) \X TreePath] ==
  LET t == at[1]
      path == at[2]
  IN  {[path |-> path, node |-> targets[t].of]}
        \cup UNION {PositionsBelow[<< targets[t].children[j], push_back(path, j - 1) >>] :
                      j \in 1 .. Len(targets[t].children)}

PathOf(f) == [g \in 1 .. f - 1 |-> stack[g].k]

closed ==
  IF result # 0
    THEN PositionsBelow[<< result, << >> >>]
    ELSE UNION {UNION {PositionsBelow[<< stack[f].children_storage[j],
                                         push_back(PathOf(f), j - 1) >>] :
                         j \in 1 .. stack[f].k} :
                 f \in 1 .. Len(stack)}

opened ==
  closed \cup {[path |-> PathOf(f), node |-> stack[f].node] :
                 f \in {g \in 1 .. Len(stack) : stack[g].pc = "loop"}}

Abstract == INSTANCE DepthFirst WITH
  root <- source, accepted <- Recursive \X Type,
  Child <- PrunedChild, held <- PrunedChild,
  Tag <- [t \in Type |-> IF t \in Recursive THEN Tag[t] ELSE "LeafNodeTag"]

(* The descriptors are called in postorder: transforming a tree is a       *)
(* depth-first visit that leaves a position when its target has been made. *)
(* A stateful transformation sees the nodes in that order.                 *)
ImplementsDepthFirst == Abstract!Spec

(* The target tree is returned.                                            *)
Terminates == <>(result # 0)

=============================================================================
