------------------------------ MODULE DepthFirst ------------------------------
(***************************************************************************)
(* What a traversal of a type tree promises, whatever its callbacks are:   *)
(* positions of the tree are entered and left, the root first; a position  *)
(* is entered while its parent is open and after everything its parent     *)
(* holds further to the left has been left for good; a position is left    *)
(* when nothing below it remains.  A leaf is entered and left at once.     *)
(*                                                                         *)
(* There is no call stack and no notion of "current node" here; the        *)
(* detailed traversals are shown to implement this specification.          *)
(*                                                                         *)
(* The tree may change meanwhile, in any way that leaves the nodes at open *)
(* positions alone: what a traversal promises it promises about the tree   *)
(* as it is when a position is entered.                                    *)
(***************************************************************************)
EXTENDS TypeTree

VARIABLES
  root,      \* the node the traversal starts from
  accepted,  \* the traversal descends where (parent class, child class) is in it
  held,      \* the children every node holds at present
  opened,    \* positions entered so far
  closed     \* positions left so far

vars == << root, accepted, held, opened, closed >>

(* A position is a path together with the node found there.                *)
RootPosition == [path |-> << >>, node |-> root]

Below(e, i) == [path |-> push_back(e.path, i), node |-> held[e.node][i + 1]]

(* The children of e the traversal has to enter.                           *)
Wanted(e) ==
  {i \in 0 .. Len(held[e.node]) - 1 :
     << TypeOf[e.node], TypeOf[held[e.node][i + 1]] >> \in accepted}

Init ==
  /\ root \in Node
  /\ accepted \in SUBSET (Type \X Type)
  /\ held = Child
  /\ opened = {}
  /\ closed = {}

(* e may be entered now.                                                   *)
Enterable(e) ==
  \/ opened = {} /\ e = RootPosition
  \/ \E p \in opened \ closed : \E i \in Wanted(p) :
       /\ e = Below(p, i)
       /\ \A j \in Wanted(p) : j < i => Below(p, j) \in closed

(* A node that is open before and after the step holds what it held.       *)
OpenNodesKept ==
  \A p \in opened \ closed' : held'[p.node] = held[p.node]

Enter(e) ==
  /\ Enterable(e)
  /\ e \notin opened
  /\ ~ isLeaf(e.node)
  /\ opened' = opened \cup {e}
  /\ UNCHANGED << root, accepted, closed >>
  /\ OpenNodesKept

VisitLeaf(e) ==
  /\ Enterable(e)
  /\ e \notin opened
  /\ isLeaf(e.node)
  /\ opened' = opened \cup {e}
  /\ closed' = closed \cup {e}
  /\ UNCHANGED << root, accepted >>
  /\ OpenNodesKept

Leave(e) ==
  /\ e \in opened \ closed
  /\ \A i \in Wanted(e) : Below(e, i) \in closed
  /\ closed' = closed \cup {e}
  /\ UNCHANGED << root, accepted, opened >>
  /\ OpenNodesKept

(* A step of the traversal.                                                *)
Visit ==
  \/ Enter(RootPosition) \/ VisitLeaf(RootPosition)
  \/ \E e \in opened :
       \/ \E i \in Wanted(e) : Enter(Below(e, i)) \/ VisitLeaf(Below(e, i))
       \/ Leave(e)

(* The tree changes, and the traversal does not move on.                   *)
Change ==
  /\ UNCHANGED << root, accepted, opened, closed >>
  /\ OpenNodesKept

Next == Visit \/ Change

(* The traversal goes on when the tree is left in peace.                   *)
Progress == held' = held /\ Visit

Spec == Init /\ [][Next]_vars /\ WF_vars(Progress)

=============================================================================
