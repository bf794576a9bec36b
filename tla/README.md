# A TLA+ verification project for dune-typetree

dune-typetree is a C++ template library for trees whose nodes have different
classes: the shape of a tree is (mostly) part of its type, the node objects hold
their children by `std::shared_ptr`, and algorithms walk the tree calling a
visitor.  The library is sequential and performs no I/O.  What is hard about it
is not concurrency but

- *callback order*: five kinds of callbacks per inner node interleave with the
  callbacks of everything below it, and three enumerations of the leafs
  (run-time loop, compile-time loop, tuple of paths) have to agree;
- *ownership*: owning and non-owning pointers to the same objects are mixed by
  the way a child is passed (lvalue, const lvalue, rvalue, `shared_ptr`), and
  nodes are copied, moved, assigned and half constructed;
- *two sources of truth*: class and object, compile-time and run-time index,
  container and tree, view and node below can disagree;
- *boundaries*: dynamic nodes of degree 0, trees of different degrees,
  temporaries handed on by reference.

The modules translate `src/dune/typetree/*.hh`; `PROJECT.json` maps every
definition to the lines it models.  Indices are 0-based as in the code, and
`TypeTree!child` is where they meet TLA+'s 1-based sequences.

## Inventory

| Component (files) | State | Operations | Status |
|---|---|---|---|
| Node classes (`leafnode`, `powernode`, `dynamicpowernode`, `compositenode`, `nodeinterface`, `nodetags`) | array, vector or tuple of `shared_ptr`s | constructors, `setChild`, `child`, `childStorage`, copy, move, assign, destroy | modelled: `TypeTree` (shape), `NodeStorage` (ownership) |
| Argument conversion, `TreeInfo`, `left_fold` (`utility`) | - | `convert_arg`, `TreeInfo`, `left_fold` | modelled: `NodeStorage`, `ClassInfo`, `HybridTraversal` |
| Child access by path (`childextraction`) | - | `child(node, path)`, `childStorage(node, path)` | modelled: `TreeOps` |
| Traversal (`traversal`, `visitor`) | call stack, visitor | `applyToTree`, `forEachNode`, `forEachLeafNode`, `leafTreePathTuple` | modelled: `Traversal`, `ForEach`, `TreeOps`, `DepthFirst` |
| Leaf reduction (`traversalutilities`) | visitor with a value | `reduceOverLeafs` | modelled: `LeafReduction` |
| Pair traversal (`pairtraversal`) | call stack, visitor | `applyToTreePair` | modelled: `PairTraversal` |
| Hybrid traversal, `Experimental::Info` (`accumulate_static`, `visitor`) | call stack, carried value | `hybridApplyToTree`, `leafCount`, `nodeCount`, `depth`, `isDynamic` | modelled: `HybridTraversal` |
| Compile-time accumulation (`accumulate_static`) | types | `AccumulateValue`, `AccumulateType` | modelled: `Accumulate` |
| Tree container (`treecontainer`) | nested standard containers | make, construct, `resize`, access by path | modelled: `TreeContainer`, `LeafMap` |
| Filters and filtered node (`filters`, `filteredcompositenode`) | `shared_ptr` to the node below | filter evaluation, `child`, `setChild` | modelled: `NodeViews` |
| Proxy node (`proxynode`) | one `shared_ptr` | forwarding | partly: `NodeViews` |
| Multi-indices (`hybridmultiindex`, `treepath`) | immutable tuples | construction, access, push, pop, accumulate, join, reverse, `==`; the deprecated templates | modelled: `HybridMultiIndex`, `TreePath` |
| Transformation (`transformation` and its descriptor headers) | call stack, target nodes | `transform`, `transform_storage` | modelled: `Transformation` |
| `FixedCapacityStack` | bounded array | push, pop, view | not modelled |
| exceptions, type traits, umbrella header, tests, build | - | - | no behaviour of their own |

How they interact: every algorithm reads a tree through `degree()` and
`child()`; the traversals call back into a visitor and hand it nodes by
reference and paths by value; `TreeContainer`, `TreeInfo` and `Info` have to
agree with what a traversal meets; filtered and proxy nodes forward to a node
they share; all storing of children goes through `convert_arg`; a transformation
walks a tree without a visitor and hands descriptors the children they have made.

What makes each component correct:

- *node classes*: an owning pointer never outlives its object, nothing is
  destroyed twice or leaked, and a client that keeps its side of the bargain
  never sees a dangling pointer;
- *traversals*: the callbacks of a node nest as promised, the path passed is the
  position of the node passed, the order is depth first, the walk ends, and
  the variants (pair, hybrid, forEach) do what the basic one does;
- *Info, TreeInfo, accumulation*: the number or reduction computed is that of
  the whole tree, at compile time exactly where that is possible;
- *container*: a map from leaf paths to values, whatever is resized;
- *filters, proxies*: type-level and object-level index maps agree on all
  levels, and a view made with a `shared_ptr` stays usable;
- *multi-indices*: comparison is by value, conversions and rearrangements keep
  the values;
- *transformation*: descriptors get finished children, in postorder; the result
  mirrors the source and is a tree even where the source holds a node twice.

## Modules

`TypeTree` declares the constants shared by all tree modules (`Node`, `Type`,
`TypeOf`, `Tag`, `Child`, `Level`) and `TreeAssumption`: leafs have no
children, a class is built from classes of lower template nesting (so the nodes
form a DAG: an object may sit in several slots), and a class fixes what its
template arguments fix.  `TreeOps` adds the functions without a visitor.
`ClassInfo` adds what can be read off a class without an object of its children
(`ChildType`, with `ChildTypeAssumption`) and `TreeInfo`, a function of classes
with one case per specialisation: only so does a `PowerNode<T,0>`, which has no
child but a `ChildType`, get the depth that the code gives it.

| Module | Extends | State and actions |
|---|---|---|
| `Traversal` | `TypeTree` | `stack` is the C++ call stack of `applyToTree`: node, path, loop index, position in the body, and what an activation remembers across callbacks (`size`, the end of the index range, and `child`, the child reference).  One action per callback, `VisitChild`/`SkipChild` for the `if` on `VisitChild::value`; `log` holds the callbacks received.  `held` is what the nodes hold at present: a callback may assign to any node that is not being traversed (`CallbackChanges`). |
| `DepthFirst` | `TypeTree` | abstract: the sets of positions entered and left so far, without a call stack, on a tree that may change anywhere but at the open positions (`Change`); what `applyToTree`, `forEachNode` and `TransformTree` promise. |
| `LeafReduction` | `Traversal`, `TreeOps` | operators only: the value of `reduceOverLeafs`' visitor as a function of the callbacks received. |
| `ForEach` | `TreeOps` | `forEachNode` with one or with two functions and `forEachLeafNode`: which functions the client passes decides which calls reach it. |
| `PairTraversal` | `TypeTree` | as `Traversal` on pairs of nodes; `AssertionFails` is `child()` refusing an index of the second tree. |
| `HybridTraversal` | `ClassInfo` | as `Traversal`, each frame with the carried value; `left_fold` may read a destroyed temporary (`Indeterminate`), a choice because it depends on the build. |
| `NodeStorage` | - | `life` and `slots` of every object, the client's `shared_ptr` variables `handle`, the constructor call in progress `ctor`.  A constructor is `Begin`, one `ConvertNext` per argument, then `Constructed`, or `ConstructorThrows` at any conversion that makes an object.  Destruction is one `Reclaim` per object, during which nothing else happens.  `Careful` are the objects the client looks after: it lends them only while it manages them itself and ends their life only when nothing points there. |
| `Transformation` | `TypeTree` | the call stack of `TransformTree`, each frame with the `children_storage` it fills, and `targets`, the nodes the descriptors have made.  `TransformWhole` is the descriptor of a leaf or a non-recursive one, `ProvideStorage`/`TransformChild`/`TransformNode` the loop before a recursive one; `DropSource` is the client giving up its source tree afterwards. |
| `NodeViews` | - | a composite node and the filtered and proxy views put on it or on each other, side by side as well; who owns what.  `Wrap` makes a view from a reference or a `shared_ptr`, `SetChild` goes through any view, `Release` and `Reclaim` end lives. |
| `TreeContainer` / `LeafMap` | `TreeOps` | nested containers, and the map they implement.  Where a power node of degree 1 sits on a power node (`Collapses`), the container can be made (`FactorySpec`) but not resized or accessed down to the leafs, as that does not compile; `ContainerSpec` is about trees without such nodes (`Nests`). |
| `Accumulate` | `TreeOps` | operators only, as all of it happens in the compiler: `Accumulation` is the recursion over nodes, paths and current results, for a policy that says what is visited and how it is reduced. |
| `StaticOps` | `ForEach`, `Accumulate`, `ClassInfo`, `TreePath` | what the compiler computes of a tree, stated next to what `forEachNode` meets in it. |
| `HybridMultiIndex`, `TreePath` | - | operators only: multi-indices are values. |

The `MC*` modules give the constants values for TLC; `MCTrees` is the world of
trees the traversal runs share.  The modules named `...Proofs` hold the
theorems, `StackLemmas` what they share: what going on, returning and calling do
to a call stack, how the position a path leads to moves down by one index,
induction and recursion, and depth-first visits.  Definitions named `X_Something`
next to a definition `X` are wrong variants of it (a dropped guard, an
off-by-one, a swapped order), kept to confirm that each property notices such a
mistake; no specification uses them.

## Runs

Deadlock is not checked in any run: the modelled functions return and
construction bounds (`Budget`, `MaxLevel`) run out, which is where behaviours
rightly stop.

| Run | Checks | Shows |
|---|---|---|
| `traversal` | `TypeOK`, `PathLeadsToNode`, `NothingStale`, `CallbackProtocol`, `ChildCallsBracketVisit`, `ReducesLeafsInOrder`, `ImplementsDepthFirst`, `Terminates` | nesting and order of callbacks, right path with right node, index range and child reference never stale while callbacks change other nodes, implementation of `DepthFirst`, termination; `reduceOverLeafs` reduces from left to right |
| `for_each` | `LeafsAgreeWithTuple`, `PathsRetrieveNodes`, `TemplatesFindParent`, `ReducesInPostorder`, `CountsAgree`, `ImplementsDepthFirst` | the hand-written recursion of `forEachNode` agrees with `leafTreePathTuple`, `TreeInfo`, `child(tree, path)`, `childStorage(tree, path)`, `AccumulateValue`, `bottom_up_reduction` and the templates of `treepath.hh` |
| `storage` | `TypeOK`, `OwnedIsAlive`, `NoLeak`, `NoDangling` | ownership under a client that takes no care of its objects, and what it has to do for objects to be safe |
| `pair` | `PathLeadsToBoth`, `FailsOnlyOnMissingChildren`, `ImplementsTraversal`, `Terminates` | `applyToTreePair` is `applyToTree` on the product tree; its assertion fails only where the second tree has fewer children |
| `hybrid` | `EveryCallbackCounts`, `StaticInfo`, `DynamicInfo`, `ImplementsTraversal` | same callbacks as `applyToTree`, no contribution to the value lost, `Info` agrees with `TreeInfo` (in depth, where inner nodes have children) |
| `hybrid_empty` | `NoAssertionFails` (violated) | finding 1 |
| `hybrid_fold` | `LeafCountIsRight` (violated) | finding 2 |
| `tree_container` | `SizedIsAccessible`, `ImplementsLeafMap` | after `resize` exactly the tree's leaf paths are accessible; values survive where their leaf does |
| `container_single` | `SameStructure` (violated) | finding 4 |
| `filtered_node` | `ChildrenFitTypes`, `SimpleFilterSelects`, `OwnersStayUsable`, `SetChildIsSeen` | types and objects agree through views on views; a change through one view shows in the others where it should; owning views keep what they need |
| `transformation` | `TypeOK`, `ChildrenFirst`, `NoSharedTargets`, `MirrorsSource`, `SourcesKept`, `ImplementsDepthFirst`, `Terminates` | descriptors are called in postorder with finished children, the result mirrors the source, is a tree, and outlives the source where it was made from a `shared_ptr` |
| `accumulate_flattened` | `FlattenedIsFlat` (violated) | finding 3 |

The type invariants of `ForEach`, `PairTraversal` and `HybridTraversal` are
proved (see below) and therefore not checked again.

### Bounds

- *Trees* (`MCTrees`): eleven objects of six classes, up to four levels, with every
  node tag, an aliased pair of children, dynamic nodes of size 0, 1
  and 2, and composites with and without dynamic parts; every object is a root.  The
  recursion treats a node by its tag, degree and the answer of the visitor, and
  a frame interacts with its parent only; degrees 0 to 3 and every nesting of tags that changes the code path occur.
- *Changes to the tree* (`traversal`, `MaxChanges = 2`): callbacks change the
  tree at most twice, each time giving one node the children of another node of
  its class; two changes can undo each other or hit a node and its child.
- *Visitors*: accept all (`VisitTree`), none (`VisitDirectChildren`), and sets
  chosen by the class of the child and of the parent.
- *Storage*: two leafs, two nodes of one class and one dynamic node above, one
  handle.  Two objects per class is what a copy, a self-swap and an alias need;
  the dynamic node gives three levels and a storage that changes length.  Each
  object is made once, and a behaviour makes the five of one of two worlds
  (`Budget`): one the client takes no care of, with power nodes in the middle
  and a dynamic node of size 0 or 1, and one it looks after (`Careful`), with
  composite nodes, whose arguments are converted in any order, and a dynamic
  node of size 1.  The properties are also proved for any number of objects and
  for clients that look after some objects and not after others.
- *Container*: dynamic nodes of size 0 to 2 in every context (below power,
  dynamic and composite nodes), power nodes of degree 1 over a leaf, a composite
  and a dynamic node, two values.  The values are no arrays themselves; a
  power node over leafs with arrays for values would collapse in the same way.
- *Views*: a composite of three children of two classes, two views
  (`MaxViews = 2`), on top of each other or side by side; index filters that
  drop, reverse and repeat, simple filters that look at class, new index and
  old index, and proxies.
- *Transformation* (`MCTransformation`): twelve source nodes of eight classes,
  with recursive and non-recursive descriptors on every kind of inner node,
  above and below each other, an aliased pair of children, and dynamic nodes
  without children; all three entry points.
- *Accumulation, `TreeInfo`*: all static trees of `MCTrees` and, in `MCForEach`,
  a `PowerNode<P,0>` alone and below a composite node; all sets of selected classes;
  `Size` is 2^8 there, more than any degree, and the theorems hold for any.

### Fairness

The traversals assume `WF_vars(Next)`: a called C++ function whose callbacks
return continues until it returns; there is nothing else that could run.
`NodeStorage` and `TreeContainer` have safety properties only and assume nothing.
`Transformation` assumes `WF_vars(Transform)`: the call
runs to its end, whether the client then drops its source is up to the client.
`DepthFirst` is fair to `Progress`, a visit without a change of the tree: a
traversal may not be held up by changes for ever.

### Findings

1. `hybrid_empty`: with a run-time index range, `hybridApplyToTree` applies child
   0 before looking at `degree()`, so an empty `DynamicPowerNode` fails the
   assertion in `child()` (`accumulate_static.hh:664`).  `applyToTree` handles
   such trees.
2. `hybrid_fold`: `left_fold` (`utility.hh:100`) returns a reference to a
   temporary of an activation that has returned.  Where the carried value is an
   object (a `size_t` once a dynamic node has been met), the result of a static
   node around or after it is read from dead storage.  The example in the
   comment above `left_fold` shows the same under AddressSanitizer.
3. `accumulate_flattened`: `flattened_reduction` starts again at every first
   child (`accumulate_static.hh:358`) and so loses the results of earlier
   siblings; `bottom_up_reduction` does not.  The two policies appear to be
   exchanged.
4. `container_single`: `std::array{x}` (`treecontainer.hh:83`) with a single `x`
   that is a `std::array` is a copy of `x`, so a power node of degree 1 over a
   power node is not represented in the container, against the comment in
   lines 28-30.  Such a container compiles, but neither `resize` nor
   `operator[]` with the path of a leaf does.

The wording in `visitor.hh` that the trees of a pair "are not required to be
exactly identical" holds in the sense of `FailsOnlyOnMissingChildren`: the
second tree may have more children, not fewer.

## Proofs

All theorems are about arbitrary constants that satisfy the named assumptions.

- `TraversalProofs`, from `TreeAssumption` and `VisitorAssumption`, for any
  number of changes to the tree: `TypeCorrect`, `CallbackPathsAreRight`
  (`Spec => []PathLeadsToNode`), `RememberedIsCurrent` (`Spec =>
  []NothingStale`), `CallsBracketChildren` (`Spec => []ChildCallsBracketVisit`),
  `CallbacksInDocumentedOrder` (`Spec => []CallbackProtocol`),
  `VisitsDepthFirst`, every step of `applyToTree` being one of `DepthFirst` or
  none, and `ReducesLeafsInOrderAlways` (`Spec => []ReducesLeafsInOrder`).
  The inductive invariant `IInv` adds to `TypeOK` that the call stack is
  a walk down from the root in the tree as it is (`IsWalk`): every activation
  but the innermost waits in its loop for the child its index names, and a path
  consists of the indices of the activations below.  Because nodes elsewhere
  may change, that the path of the top frame alone leads somewhere would not be
  inductive: the waiting activations are what keeps the way to it unchanged.
  What the log holds is then located from the stack: `Past` says of a callback
  that it lies behind the stack, above the innermost activation or below a child
  some activation is done with.  A position that is about to be entered can
  therefore not have been met before, which is what keeps `Visiting` (the
  positions entered and left are those `DepthFirst` may have entered and left)
  and `InOrder` (for each position, the callbacks made are a prefix of those
  due there, all of them once it is left).  For `reduceOverLeafs`, `Reduced`
  says that the value is made of the leafs below the children the activations
  are done with, in the order of `leafTreePathTuple`; it needs `InOrder` for
  an activation at the end of its loop not to be one of a leaf.
- `TreeProofs`, for `forEachNode`, from `TreeAssumption`: `TypeCorrect`,
  `FunctionPathsAreRight` (every call made so far got a node with the path to
  it), `PathsAreGoodForAccess` (`Spec => []PathsRetrieveNodes`) and
  `VisitsDepthFirst`, the steps of `ImplementsDepthFirst`.  `childImpl` and
  `childStorageImpl` recurse along a path that gets shorter; by induction over
  its length they follow any path that leads to a node, and no
  `checkChildIndex` fails on the way.
  `LeafsComeAsInTuple` (`Spec => []LeafsAgreeWithTuple`): `Reporting` cuts the
  leafs met so far, as in `ReducesLeafsInOrderAlways`, into pieces, one for each activation, that hold the leafs
  below the children the activation is done with.  Such a piece is the beginning
  of the node's `leafTreePathTuple`, and all of it when the activation returns.
  `AccumulationFollowsCalls` says of every policy, not only those the runs use,
  that the compiler's result is what the policy makes of the calls in their
  order; `Accumulating` is its invariant: each activation was entered with some
  result, and folding the calls since then gives what the children it is done
  with make of that.  It leaves out `flattened_reduction`, of which it is false
  (run `accumulate_flattened`).  From it follow `ReducesInPostorderAlways`
  (`Spec => []ReducesInPostorder`) and, with an induction over the nesting of
  classes that compares `TreeInfo` and the accumulation node by node,
  `CountsAgreeAlways` (`Spec => []CountsAgree`); it needs `ChildTypeAssumption`,
  that a power node's children are of its `ChildType`.  `TreeInfo` multiplies
  where the tree has children to sum over, which is the same as all of them
  have one class (`RepeatedCovers`).  Where an inner node has no children,
  `TreeInfo` may have more levels than the tree, never fewer.
  `TemplatesFindParentAlways` (`Spec => []TemplatesFindParent`) needs
  `SizeAssumption` too: indices are below a node's degree, which is a
  `std::size_t`, and so are compile-time constants of that type.
  For containers, from `TreeAssumption` and `ValueAssumption`:
  `SizedIsAccessibleAlways` (`ContainerSpec => []SizedIsAccessible`) and
  `ContainerIsLeafMap` (`ContainerSpec => ImplementsLeafMap`, the whole
  refinement, as neither side has fairness), both for trees that satisfy `Nests`,
  the only ones for which `ContainerSpec` has behaviours.  First each recursive function is
  shown to be what its definition says and to stay within the containers of the
  class: `leafTreePathTuple` over the nesting of classes, which takes what is in
  a concatenation (`FlattenHas`); `resizeImpl`, a function of functions, by
  `RecursionFromBelow`; access and assignment, which the code defines from the
  tail of the path, along it.  `ContainerInv` says that the container is one of
  the class of the tree and has values exactly at the leafs of the tree it was
  sized for, or, if it was only default-constructed, at those the class
  guarantees.  What an operation does to the values at all paths (`Held`) is
  then an induction over the nesting of classes, in which `resizeImpl` keeps what
  is at the old paths.
- `PairTraversalProofs`, from `TreeAssumption` and `PairVisitorAssumption`:
  `TypeCorrect`, `PairPathsAreRight` (`Spec => []PathLeadsToBoth`),
  `PairImplementsTraversal` (`Spec => ImplementsTraversal`, action by action:
  what `applyToTreePair` does is what `applyToTree` does on pairs of nodes) and
  `FittingPairsNeverFail` (`Spec => []FailsOnlyOnMissingChildren`).  The trees
  are constant here, so it is enough that every activation is where its path
  leads, in both trees, and that inside the loop body its index is below both
  degrees; the second part is what the assertion in `child()` contributes.
  `FittingPairsNeverFail` is by induction over the nesting of classes: pairs
  that fit have children that fit.
- `HybridTraversalProofs`, from `TreeAssumption`, `HybridVisitorAssumption` and,
  for the last two, `InfoVisitorAssumption` (what the visitors of `Info` derive
  from), for the last `ChildTypeAssumption`:
  `TypeCorrect`, `EveryContributionIsKept` (`Spec => []EveryCallbackCounts`),
  `HybridImplementsTraversal` (`Spec => ImplementsTraversal`),
  `DynamicIsInMemory` (`Spec => []DynamicInfo`) and `InfoAgreesWithTreeInfo`
  (`Spec => []StaticInfo`).  The invariant of `EveryContributionIsKept` adds
  that the depth visitor's value is always carried in a type: only therefore can
  `leaf`, which compares it with the length of the path, never meet the value of
  a destroyed object and turn it into a number that looks right.  `DInv` says
  that a value is in memory exactly if a dynamic node has been met.  `SInv` is a
  balance: what the value has is what the node counts of the whole tree are
  without what the activations have still to visit, all in terms of `TreeInfo`,
  which is unfolded level by level.  Depth agrees except where an inner node has
  no children (`PowerNode<T, 0>`, `CompositeNode<>`): the visitor counts depth
  at leafs, `TreeInfo` by nesting.
- `TransformationProofs`, from `TreeAssumption` and `RecursiveAssumption`:
  `TypeCorrect`, `DescriptorsGetFinishedChildren` (`Spec => []ChildrenFirst`),
  `ResultIsTree` (`Spec => []NoSharedTargets`), `ResultMirrorsSource` (`Spec =>
  []MirrorsSource`), `TargetsKeepSources` (`Spec => []SourcesKept`) and
  `TransformsDepthFirst`, the steps of `ImplementsDepthFirst`.  The invariant
  says that every target is in at most one place, a filled slot of one
  activation or below one other target.  `Mirroring` is `MirrorsSource` said of
  every target and its children; that the whole trees agree follows by an
  induction over the targets, children being older than their parents.
  `Owning` says which activations and targets hold a `shared_ptr`, and the
  subtree below a node kept alive is alive.  `TransformsDepthFirst` has no log
  to look at: what has been left is what is below filled slots
  (`PositionsBelow`), which only grows because targets do not change.
- `NodeStorageProofs`, from `StorageAssumption`: `StorageTypeCorrect`,
  `OwnersKeepAlive` (`Spec => []OwnedIsAlive`), `NothingLeaks` (`Spec =>
  []NoLeak`) and `CarefulNeverDangles` (`Spec => []NoDangling`, about the
  objects that the client looks after).  `OwnedIsAlive` is inductive beside `TypeOK` because a step
  hands out ownership only of what was owned before or has just been put on the
  heap (`OwnedStep`), and objects leave the heap only when `Doomed`, that is,
  not owned.  The definition of `Owned` covers the `shared_ptr` arguments of a
  constructor in progress, without which a throw would break the induction.
  For the other two `LInv` says that ownership climbs the nesting of the
  classes: in a group of objects that own each other, one of a lowest class
  would have no owner, so there is no such group and nothing leaks.  Its other
  part says that what a pointer does not own, the client manages itself, if it
  is an object it looks after.
- `IndexProofs`, for multi-indices assuming only that `Size` is positive:
  `EqualIsEqualValues` (the branches of `operator==` by representation amount
  to comparison of values), `MakeTreePathKeepsValues` (arguments of any
  integral type keep their value if it is in the range of `size_t`),
  `ReverseTwice`, `ReverseSwapsEnds`, `PushPop` and `AccumulateBack`.
  For the views, from `FilterAssumption`: `ChildrenFitTypesAlways`,
  `SimpleFilterSelectsAlways`, `OwnersStayUsableAlways` (each `Spec => []` the
  property of that name) and `SetChildIsSeenAlways` (`Spec => SetChildIsSeen`),
  for composite nodes of any degree, any filters and any number of views.  The
  invariant says that a view was made on an earlier node, so that going down
  ends, and that its index map is what its filter makes of the classes below.
  `StandsFor` is the middle of it: by induction downwards, a child of a view, its
  class and its slot in the composite node belong together; a `setChild` then
  changes one slot, and `SlotsStay` that no slot moves.  What
  `filter_helper` computes is found by induction over the children: a child has an
  entry exactly if it is accepted with the number of entries before it
  (`Selected`).  That owners keep alive what they forward to is inductive as
  it stands, one view at a time; the chain follows by induction.

`StackLemmas` holds what these share.  Three parts of it are more than
book-keeping.  Induction and recursion are stated without operators as
parameters: a property is the set of values that have it (`LeastElement`,
`InductionOnSets`), and a recursive function is shown to exist, and so to be as
its definition says, for recursion over numbers (`CountingRecursion`), over
anything with a rank (`RankRecursion`) and over trees (`TreeRecursion`).  That
is what makes `TreeInfo`, `SourceTree`, `TargetTree`, `Subtree` and
`PositionsBelow`, which are recursive functions, accessible to proofs.  A
depth-first visit is told from any call stack (`VisitsFrom`): the innermost
position may be entered, it may be left when its loop is through, and entering,
calling and returning keep this so.  And so are the leafs such a visit has met
(`Reports`): the beginning of `leafTreePathTuple` that the loops on the stack
have got to.  `applyToTree` and `forEachNode` are both seen as such a stack of
loops.

Model-checked only: liveness (`Terminates`) and with it the
fairness part of the refinements of `DepthFirst`, which is outside what the
prover handles.

## Not modelled

- Which programs compile, except where it decides what can happen at run time
  (`Compiles` in the pair, hybrid, view and transformation modules).  The
  composite specialisation of `TransformTree` has no `transform(shared_ptr)`, so
  that entry exists for the other kinds of source nodes only.
- Callbacks that change a node being traversed between its `pre` and `post`:
  the code computes the index range once and keeps a child reference, and makes
  no promise for such changes; `CallbackChanges` states which changes it allows.
  In the other traversals the trees are constant.
- Exceptions thrown by visitors and by descriptors: the C++ stack unwinds and
  releases the children made so far, no library state is left behind.
- `FixedCapacityStack`: nothing in the repository uses, tests or documents it.
- Proxies of const nodes, `childStorage` and `nodeStorage` of a proxy, which
  forward as `child` does; stream output and `std::hash` of multi-indices.
- Null children during traversal: completing a default-constructed node is the
  client's duty, as the constructors' comments say.

## Plan

Done, in this order: `TypeTree`, `Traversal` with `DepthFirst`; `ForEach`;
`NodeStorage`; `PairTraversal`; `HybridTraversal`; `TreeContainer`;
`Accumulate`; `HybridMultiIndex`; trees that change during a traversal;
`LeafReduction`; `Transformation`; `NodeViews` in place of a model of the
filtered node alone; `TreePath`; the theorems above.

Next:

1. Descriptors and visitors that throw, with the release of what was made.
