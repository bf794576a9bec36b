------------------------------- MODULE NodeViews -------------------------------
(***************************************************************************)
(* The filters of filters.hh, and the nodes that have no children of their *)
(* own: the FilteredCompositeNode shows some of the children of another    *)
(* node, the ProxyNode shows them all.                                     *)
(*                                                                         *)
(* Node 0 is a CompositeNode, node v > 0 is the v-th view; it was made on  *)
(* the node views[v].node, which may be a view again and may have several  *)
(* views.  child(k) and setChild(k) of a view go to the node below it.  A  *)
(* view made with a shared_ptr owns that node, a view made with a          *)
(* reference does not.  All nodes are heap objects; the client has a       *)
(* shared_ptr to those in handles.  (A ProxyNode of a power node forwards  *)
(* its indices in the same way; such a node cannot be filtered.)           *)
(***************************************************************************)
EXTENDS Integers, Sequences, SequencesExt

CONSTANTS
  Class,     \* the classes of children
  Object,    \* [Class -> set of objects]
  Classes,   \* Seq(Class): the ChildTypes of the CompositeNode
  Filter,    \* the filters considered
  MaxViews   \* bound: how many views are made

(* IndexFilter<indices...> is an AdvancedFilter.  A SimpleFilter decides   *)
(* with apply<Child,new_index,old_index>::value.                           *)
FilterType ==
  [tag : {"AdvancedFilterTag"}, indices : Seq(Nat)]
    \cup [tag : {"SimpleFilterTag"}, accepts : SUBSET (Class \X Nat \X Nat)]

ASSUME FilterAssumption ==
  /\ Classes \in Seq(Class)
  /\ DOMAIN Object = Class
  /\ Filter \subseteq FilterType
  /\ MaxViews \in Nat

FilterEntry(new, old) == [filtered_index |-> new, original_index |-> old]

(* index_filter_helper<Node,new_index,old_index,indices...>: new_index     *)
(* counts the entries.                                                     *)
index_filter_helper(indices) ==
  [k \in 1 .. Len(indices) |-> FilterEntry(k - 1, indices[k])]

(* filter_helper<Filter,new_k,old_k,child,tail...>: new_k advances with    *)
(* the entries, old_k with the children.                                   *)
filter_helper_OneCounter(accepts, classes) ==
  LET apply[from \in Nat \X (0 .. Len(classes))] ==
        LET new_k == from[1]
            old_k == from[2]
        IN  IF old_k = Len(classes) THEN << >>
            ELSE IF << classes[old_k + 1], old_k, old_k >> \in accepts
              THEN << FilterEntry(new_k, old_k) >> \o apply[<< new_k + 1, old_k + 1 >>]
              ELSE apply[<< new_k, old_k + 1 >>]
  IN  apply[<< 0, 0 >>]

filter_helper(accepts, classes) ==
  LET apply[from \in Nat \X (0 .. Len(classes))] ==
        LET new_k == from[1]
            old_k == from[2]
        IN  IF old_k = Len(classes) THEN << >>
            ELSE IF << classes[old_k + 1], new_k, old_k >> \in accepts
              THEN << FilterEntry(new_k, old_k) >> \o apply[<< new_k + 1, old_k + 1 >>]
              ELSE apply[<< new_k, old_k + 1 >>]
  IN  apply[<< 0, 0 >>]

(* get_filter: filter<Filter> turns a simple filter into an advanced one.  *)
FilterResult(f, classes) ==
  IF f.tag = "SimpleFilterTag"
    THEN filter_helper(f.accepts, classes)
    ELSE index_filter_helper(f.indices)

VARIABLES
  children,  \* the storage of the CompositeNode
  views,     \* the views, in the order they were made
  handles,   \* the nodes the client has a shared_ptr to
  alive      \* the nodes not yet destroyed

vars == << children, views, handles, alive >>

(* A ProxyNode, or a FilteredCompositeNode with its filter.                *)
Kind == {[tag |-> "ProxyNode"]} \cup Filter

(* ChildTypes: a view fixes it at compile time.                            *)
ChildTypes(v) == IF v = 0 THEN Classes ELSE views[v].ChildTypes

degree(v) == Len(ChildTypes(v))

(* The children of the node below that the children of a view stand for.   *)
IndexMap(kind, types) ==
  IF kind.tag = "ProxyNode"
    THEN [k \in 1 .. Len(types) |-> k - 1]
    ELSE LET filter_result == FilterResult(kind, types)
         IN  [k \in 1 .. Len(filter_result) |-> filter_result[k].original_index]

(* argument is what the constructor was given, owning says whether _node   *)
(* owns the node below.                                                    *)
View(node, kind, argument, owning) ==
  LET types == ChildTypes(node)
      map   == IndexMap(kind, types)
  IN  [node |-> node, kind |-> kind, IndexMap |-> map,
       ChildTypes |-> [k \in 1 .. Len(map) |-> types[map[k] + 1]],
       argument |-> argument, owning |-> owning]

mapped_index_Unmapped(v, k) == k

mapped_index(v, k) == views[v].IndexMap[k + 1]

(* The children there are, each a node and an index.                      *)
Place == UNION {{v} \X (0 .. degree(v) - 1) : v \in 0 .. Len(views)}

child[place \in Place] ==
  LET v == place[1]
      k == place[2]
  IN  IF v = 0 THEN children[k + 1] ELSE child[<< views[v].node, mapped_index(v, k) >>]

(* The slot of the CompositeNode that setChild on a node ends up at.       *)
slot[place \in Place] ==
  LET v == place[1]
      k == place[2]
  IN  IF v = 0 THEN k ELSE slot[<< views[v].node, mapped_index(v, k) >>]

(* An index beyond the children of the node below does not compile.        *)
Compiles(kind, types) == \A i \in ToSet(IndexMap(kind, types)) : i < Len(types)

(* A node and what it forwards to, down to the CompositeNode.              *)
Chain[v \in 0 .. Len(views)] ==
  {v} \cup IF v = 0 THEN {} ELSE Chain[views[v].node]

(* The nodes a client may use: it can name them, and nothing they forward  *)
(* to has been destroyed.                                                  *)
Usable == {v \in handles : Chain[v] \subseteq alive}

-----------------------------------------------------------------------------
Init ==
  /\ children \in {s \in [1 .. Len(Classes) -> UNION {Object[c] : c \in Class}] :
                     \A k \in 1 .. Len(Classes) : s[k] \in Object[Classes[k]]}
  /\ views = << >>
  /\ handles = {0}
  /\ alive = {0}

NewView(node, kind, argument, owning) ==
  /\ views' = Append(views, View(node, kind, argument, owning))
  /\ handles' = handles \cup {Len(views) + 1}
  /\ alive' = alive \cup {Len(views) + 1}
  /\ UNCHANGED children

(* The constructors from Node&: _node(stackobject_to_shared_ptr(node)).    *)
ViewOfReference(node, kind) == NewView(node, kind, "reference", FALSE)

(* The constructors from shared_ptr<Node>: _node(std::move(node)).         *)
ViewOfStorage_NotOwning(node, kind) == NewView(node, kind, "shared_ptr", FALSE)

ViewOfStorage(node, kind) == NewView(node, kind, "shared_ptr", TRUE)

Wrap ==
  /\ Len(views) < MaxViews
  /\ \E node \in Usable, kind \in Kind :
       /\ Compiles(kind, ChildTypes(node))
       /\ ViewOfReference(node, kind) \/ ViewOfStorage(node, kind)

setChild_OneLevel(v, k, o) ==
  /\ children' = [children EXCEPT ![(IF v = 0 THEN k ELSE mapped_index(v, k)) + 1] = o]
  /\ UNCHANGED << views, handles, alive >>

setChild(v, k, o) ==
  /\ children' = [children EXCEPT ![slot[<< v, k >>] + 1] = o]
  /\ UNCHANGED << views, handles, alive >>

SetChild ==
  \E v \in Usable : \E k \in 0 .. degree(v) - 1 :
    \E o \in Object[ChildTypes(v)[k + 1]] : setChild(v, k, o)

(* The client gives up a shared_ptr.                                       *)
Release ==
  \E v \in handles :
    /\ handles' = handles \ {v}
    /\ UNCHANGED << children, views, alive >>

(* A node goes when nothing owns it any more; its own _node goes with it.  *)
Reclaim ==
  \E v \in alive \ handles :
    /\ ~ \E w \in alive \ {0} : views[w].owning /\ views[w].node = v
    /\ alive' = alive \ {v}
    /\ UNCHANGED << children, views, handles >>

Next == Wrap \/ SetChild \/ Release \/ Reclaim

Spec == Init /\ [][Next]_vars

-----------------------------------------------------------------------------
(* Every child is an object of the class its slot has at compile time, in  *)
(* all views: the index maps of types and of objects agree.                *)
ChildrenFitTypes ==
  \A v \in 0 .. Len(views) : \A k \in 0 .. degree(v) - 1 :
    child[<< v, k >>] \in Object[ChildTypes(v)[k + 1]]

(* A simple filter keeps the order of the children and drops a child       *)
(* exactly if apply, told the index the child would get, says so.          *)
SimpleFilterSelects ==
  \A v \in 1 .. Len(views) :
    views[v].kind.tag = "SimpleFilterTag" =>
      LET kept == ToSet(views[v].IndexMap)
          before(i) == Cardinality({j \in kept : j < i})
          types == ChildTypes(views[v].node)
      IN  /\ \A i \in 0 .. Len(types) - 1 :
               i \in kept <=> << types[i + 1], before(i), i >> \in views[v].kind.accepts
          /\ \A j, k \in 0 .. degree(v) - 1 :
               j < k => mapped_index(v, j) < mapped_index(v, k)

(* setChild through a view is seen through that view, and in every other   *)
(* one by those children only that stand for the same child of the         *)
(* CompositeNode.                                                          *)
SetChildIsSeen ==
  [][\A v \in Usable : \A k \in 0 .. degree(v) - 1 :
       \A o \in Object[ChildTypes(v)[k + 1]] :
         setChild(v, k, o) =>
           \A w \in 0 .. Len(views) : \A j \in 0 .. degree(w) - 1 :
             child[<< w, j >>]' =
               IF slot[<< w, j >>] = slot[<< v, k >>] THEN o ELSE child[<< w, j >>]]_vars

(* A view made with a shared_ptr, on views made with a shared_ptr all the  *)
(* way down, can be used as long as it lives, whatever the client has      *)
(* given up below it and whatever lent views there are on the same nodes.  *)
OwnersStayUsable ==
  \A v \in alive :
    (\A u \in Chain[v] \ {0} : views[u].argument = "shared_ptr")
      => Chain[v] \subseteq alive

=============================================================================
