---------------------------- MODULE TraversalProofs ----------------------------
(***************************************************************************)
(* Proofs about applyToTree (module Traversal), for every set of nodes     *)
(* that satisfies TreeAssumption and whatever the callbacks do to nodes    *)
(* that are not open: the traversal is well typed, every path it hands to  *)
(* a callback leads to the node it hands over with it, no activation goes  *)
(* on with an index range or a child reference that is out of date, and    *)
(* callbacks come depth first, in the documented order.  And about         *)
(* reduceOverLeafs (LeafReduction), which takes the leafs as               *)
(* leafTreePathTuple lists them.                                           *)
(*                                                                         *)
(* IInv says that the call stack is a walk down from the root. On top of   *)
(* it, Past says of every callback in the log that it lies behind the call *)
(* stack: above the innermost activation, at one that waits, or below a    *)
(* child an activation is done with. From where the log lies follows what  *)
(* may come next: Visiting relates it to the states of DepthFirst, InOrder *)
(* counts, position by position, how many of the callbacks due there have  *)
(* been made. Reduced says, of a visitor that visits everything and leaves *)
(* the tree alone, that the leafs reduced so far are those below the       *)
(* children the activations are done with.                                 *)
(***************************************************************************)
EXTENDS LeafReduction, StackLemmas, SequenceTheorems, TLAPS

(* A call stack s that describes one walk down from r, where nodes hold h. *)
(* Every activation but the innermost one waits in the middle of its loop  *)
(* for the child its index names, and the path of an activation consists   *)
(* of the indices of the activations below it on the stack.                *)
InLoop(f) == f.pc \in {"in", "visitChild", "afterChild"}

IndexOK(f, h) ==
  /\ f.pc = "start" => f.i = 0
  /\ f.pc # "start" => f.i <= f.size /\ f.size = Len(h[f.node])
  /\ InLoop(f) => f.i < f.size /\ f.child = h[f.node][f.i + 1]

RecordsIndices(s, k) ==
  /\ Len(s[k].path) = k - 1
  /\ \A j \in 1 .. k - 1 : s[k].path[j] = s[j].i

WaitsFor(s, k) ==
  /\ s[k].pc = "afterChild"
  /\ s[k + 1].node = s[k].child

IsWalk(s, r, h) ==
  /\ s # << >> => s[1].node = r
  /\ \A k \in 1 .. Len(s) : IndexOK(s[k], h) /\ RecordsIndices(s, k)
  /\ \A k \in 1 .. Len(s) - 1 : WaitsFor(s, k)

(* What nodes may hold.                                                    *)
Holdings == [Node -> Seq(Node)]

(* g and h agree on the nodes of the activations in s that are under way.  *)
AgreeOnOpen(s, g, h) ==
  \A k \in 1 .. Len(s) : s[k].pc # "start" => g[s[k].node] = h[s[k].node]

(* The inductive invariant.                                                *)
IInv == TypeOK /\ IsWalk(stack, root, held) /\ PathLeadsToNode

-----------------------------------------------------------------------------
LEMMA ChildIsNode ==
  ASSUME NEW h \in Holdings, NEW n \in Node
  PROVE  /\ h[n] \in Seq(Node) /\ Len(h[n]) \in Nat
         /\ \A i \in 0 .. Len(h[n]) - 1 : h[n][i + 1] \in Node
<1>1. h[n] \in Seq(Node) /\ Len(h[n]) \in Nat
  BY DEF Holdings
<1>2. ASSUME NEW i \in 0 .. Len(h[n]) - 1 PROVE h[n][i + 1] \in Node
  BY <1>1, ElementOfSeq
<1>. QED BY <1>1, <1>2

LEMMA FrameAt ==
  ASSUME NEW s \in Seq(Frame), NEW k \in 1 .. Len(s)
  PROVE  /\ s[k] \in Frame
         /\ s[k].node \in Node /\ s[k].path \in TreePath
         /\ s[k].i \in Nat /\ s[k].pc \in Point
         /\ s[k].size \in Nat /\ s[k].child \in Node
<1>1. s[k] \in Frame
  BY ElementOfSeq
<1>. QED BY <1>1 DEF Frame

-----------------------------------------------------------------------------
(* Replacing the top, popping and pushing keep a walk a walk.              *)
LEMMA WalkReplaceTop ==
  ASSUME NEW r \in Node, NEW h, NEW s \in Seq(Frame), s # << >>, IsWalk(s, r, h),
         NEW f \in Frame, IndexOK(f, h),
         f.node = Last(s).node, f.path = Last(s).path
  PROVE  IsWalk([s EXCEPT ![Len(s)] = f], r, h)
<1> DEFINE t == [s EXCEPT ![Len(s)] = f]
<1>1. /\ Len(s) \in Nat /\ Len(s) >= 1
      /\ Len(t) = Len(s) /\ t # << >> /\ t[Len(s)] = f
      /\ \A k \in 1 .. Len(s) - 1 : t[k] = s[k]
  BY ReplaceTop, EmptySeq
<1> HIDE DEF t
<1>2. t[1].node = r
  BY <1>1 DEF IsWalk, Last
<1>3. ASSUME NEW k \in 1 .. Len(t) PROVE IndexOK(t[k], h) /\ RecordsIndices(t, k)
  <2>1. IndexOK(s[k], h) /\ RecordsIndices(s, k)
    BY <1>1 DEF IsWalk
  <2>2. t[k].path = s[k].path /\ \A j \in 1 .. k - 1 : t[j] = s[j]
    BY <1>1 DEF Last
  <2>3. IndexOK(t[k], h)
    BY <1>1, <2>1
  <2>. QED BY <2>1, <2>2, <2>3 DEF RecordsIndices
<1>4. ASSUME NEW k \in 1 .. Len(t) - 1 PROVE WaitsFor(t, k)
  <2>1. WaitsFor(s, k)
    BY <1>1 DEF IsWalk
  <2>2. t[k] = s[k] /\ t[k + 1].node = s[k + 1].node
    BY <1>1 DEF Last
  <2>. QED BY <2>1, <2>2 DEF WaitsFor
<1>. QED BY <1>1, <1>2, <1>3, <1>4 DEF IsWalk, t

LEMMA WalkPop ==
  ASSUME NEW r \in Node, NEW h, NEW s \in Seq(Frame), s # << >>, IsWalk(s, r, h)
  PROVE  IsWalk(Front(s), r, h)
<1> DEFINE t == Front(s)
<1>1. /\ Len(s) \in Nat /\ Len(s) >= 1
      /\ t \in Seq(Frame) /\ Len(t) = Len(s) - 1
      /\ \A k \in 1 .. Len(s) - 1 : t[k] = s[k]
  BY PopTop, EmptySeq
<1> HIDE DEF t
<1>2. t # << >> => t[1].node = r
  BY <1>1, EmptySeq DEF IsWalk
<1>3. ASSUME NEW k \in 1 .. Len(t) PROVE IndexOK(t[k], h) /\ RecordsIndices(t, k)
  <2>1. IndexOK(s[k], h) /\ RecordsIndices(s, k)
    BY <1>1 DEF IsWalk
  <2>2. t[k] = s[k] /\ \A j \in 1 .. k - 1 : t[j] = s[j]
    BY <1>1
  <2>. QED BY <2>1, <2>2 DEF RecordsIndices
<1>4. ASSUME NEW k \in 1 .. Len(t) - 1 PROVE WaitsFor(t, k)
  <2>1. WaitsFor(s, k)
    BY <1>1 DEF IsWalk
  <2>2. t[k] = s[k] /\ t[k + 1] = s[k + 1]
    BY <1>1
  <2>. QED BY <2>1, <2>2 DEF WaitsFor
<1>. QED BY <1>2, <1>3, <1>4 DEF IsWalk, t

LEMMA WalkPush ==
  ASSUME NEW r \in Node, NEW h \in Holdings, NEW s \in Seq(Frame), s # << >>,
         IsWalk(s, r, h), Last(s).pc = "afterChild"
  PROVE  LET f == Activation(Last(s).child, push_back(Last(s).path, Last(s).i))
         IN  f \in Frame /\ IsWalk(Append(s, f), r, h)
<1> DEFINE top == s[Len(s)]
           f == Activation(top.child, push_back(top.path, top.i))
           t == Append(s, f)
<1>1. Len(s) \in Nat /\ Len(s) >= 1 /\ Last(s) = top
  BY EmptySeq DEF Last
<1>2. /\ top.node \in Node /\ top.path \in TreePath /\ top.i \in Nat
  BY <1>1, FrameAt
<1>3. top.child \in Node
  BY <1>1, FrameAt
<1>4. f \in Frame /\ f.node = top.child
      /\ f.path = Append(top.path, top.i) /\ f.i = 0 /\ f.pc = "start"
  BY <1>2, <1>3 DEF Activation, Frame, push_back, TreePath, Point
<1> HIDE DEF f
<1>5. /\ t # << >> /\ Len(t) = Len(s) + 1 /\ t[Len(s) + 1] = f
      /\ \A k \in 1 .. Len(s) : t[k] = s[k]
  BY <1>4, PushTop
<1> HIDE DEF t
<1>6. t[1].node = r
  BY <1>1, <1>5 DEF IsWalk
<1>7. ASSUME NEW k \in 1 .. Len(t) PROVE IndexOK(t[k], h) /\ RecordsIndices(t, k)
  <2>1. CASE k \in 1 .. Len(s)
    <3>1. IndexOK(s[k], h) /\ RecordsIndices(s, k)
      BY <2>1 DEF IsWalk
    <3>2. t[k] = s[k] /\ \A j \in 1 .. k - 1 : t[j] = s[j]
      BY <1>1, <1>5, <2>1
    <3>. QED BY <3>1, <3>2 DEF RecordsIndices
  <2>2. CASE k = Len(s) + 1
    <3>1. t[k] = f
      BY <1>5, <2>2
    <3>2. IndexOK(f, h)
      BY <1>4 DEF IndexOK, InLoop
    <3>3. RecordsIndices(s, Len(s))
      BY <1>1 DEF IsWalk
    <3>4. Len(f.path) = Len(s) /\ f.path[Len(s)] = top.i
      BY <1>1, <1>2, <1>4, <3>3 DEF RecordsIndices, TreePath
    <3>5. \A j \in 1 .. Len(s) - 1 : f.path[j] = s[j].i
      BY <1>1, <1>2, <1>4, <3>3 DEF RecordsIndices, TreePath
    <3>6. \A j \in 1 .. Len(s) : f.path[j] = t[j].i
      BY <1>1, <1>5, <3>4, <3>5
    <3>. QED BY <1>1, <2>2, <3>1, <3>2, <3>4, <3>6 DEF RecordsIndices
  <2>. QED BY <1>1, <1>5, <2>1, <2>2
<1>8. ASSUME NEW k \in 1 .. Len(t) - 1 PROVE WaitsFor(t, k)
  <2>1. CASE k \in 1 .. Len(s) - 1
    <3>1. WaitsFor(s, k)
      BY <2>1 DEF IsWalk
    <3>2. t[k] = s[k] /\ t[k + 1] = s[k + 1]
      BY <1>1, <1>5, <2>1
    <3>. QED BY <3>1, <3>2 DEF WaitsFor
  <2>2. CASE k = Len(s)
    <3>1. t[k] = top /\ t[k + 1] = f
      BY <1>1, <1>5, <2>2
    <3>. QED BY <1>1, <1>4, <3>1 DEF WaitsFor
  <2>. QED BY <1>1, <1>5, <2>1, <2>2
<1>9. IsWalk(t, r, h)
  BY <1>6, <1>7, <1>8 DEF IsWalk
<1>. QED BY <1>1, <1>4, <1>9 DEF f, t


(* A walk stays a walk when the nodes under way hold what they held.       *)
LEMMA WalkKept ==
  ASSUME NEW r, NEW g, NEW h, NEW s \in Seq(Frame), IsWalk(s, r, g),
         AgreeOnOpen(s, g, h)
  PROVE  IsWalk(s, r, h)
<1>1. ASSUME NEW k \in 1 .. Len(s) PROVE IndexOK(s[k], h)
  <2>1. IndexOK(s[k], g)
    BY DEF IsWalk
  <2>2. s[k].pc # "start" => h[s[k].node] = g[s[k].node]
    BY DEF AgreeOnOpen
  <2>. QED BY <2>1, <2>2 DEF IndexOK, InLoop
<1>. QED BY <1>1 DEF IsWalk

-----------------------------------------------------------------------------
(* What a callback leaves: nodes that hold nodes, and the nodes it was not *)
(* to touch as they were.                                                  *)
LEMMA ChangesAreTyped ==
  ASSUME TypeOK, NEW open, CallbackChanges(open)
  PROVE  /\ held' \in Holdings /\ changes' \in Nat
         /\ \A n \in Node \cap open : held'[n] = held[n]
<1>1. CASE UNCHANGED << held, changes >>
  BY <1>1 DEF TypeOK, Holdings
<1>2. CASE ~ UNCHANGED << held, changes >>
  <2>1. changes' = changes + 1
    BY <1>2 DEF CallbackChanges
  <2>2. PICK n \in Node \ open : \E m \in Node : held' = [held EXCEPT ![n] = held[m]]
    BY <1>2 DEF CallbackChanges
  <2>3. PICK m \in Node : held' = [held EXCEPT ![n] = held[m]]
    BY <2>2
  <2>. QED BY <2>1, <2>2, <2>3 DEF TypeOK, Holdings
<1>. QED BY <1>1, <1>2

(* The innermost activation is where its path says it is, as far as the    *)
(* activations that wait for it can tell.                                  *)
LEMMA TopIsReached ==
  ASSUME TypeOK, NEW h, stack # << >>, IsWalk(stack, root, held),
         \A k \in 1 .. Len(stack) - 1 : h[stack[k].node] = held[stack[k].node]
  PROVE  Leads(h, root, Top.path, Top.node)
<1> DEFINE walk == [k \in 1 .. Len(stack) |-> stack[k].node]
<1>1. Len(stack) \in Nat /\ Len(stack) >= 1 /\ Top = stack[Len(stack)]
  BY DEF TypeOK, Top, Last
<1>2. RecordsIndices(stack, Len(stack))
  BY <1>1 DEF IsWalk
<1>3. Len(Top.path) + 1 = Len(stack)
  BY <1>1, <1>2 DEF RecordsIndices
<1>4. walk \in [1 .. Len(stack) -> Node]
  BY <1>1, FrameAt DEF TypeOK
<1>5. walk[1] = root /\ walk[Len(stack)] = Top.node
  <2>1. walk[1] = stack[1].node /\ walk[Len(stack)] = stack[Len(stack)].node
    BY <1>1
  <2>2. stack[1].node = root
    BY DEF IsWalk
  <2>. QED BY <1>1, <2>1, <2>2
<1>6. ASSUME NEW k \in 1 .. Len(Top.path)
      PROVE  /\ Top.path[k] \in 0 .. Len(h[walk[k]]) - 1
             /\ walk[k + 1] = h[walk[k]][Top.path[k] + 1]
  <2>1. /\ k \in 1 .. Len(stack) - 1 /\ k \in 1 .. Len(stack)
        /\ k + 1 \in 1 .. Len(stack)
    BY <1>1, <1>3
  <2>2. Top.path[k] = stack[k].i
    BY <1>1, <1>2, <2>1 DEF RecordsIndices
  <2>3. IndexOK(stack[k], held) /\ WaitsFor(stack, k)
    BY <2>1 DEF IsWalk
  <2>4. stack[k].i \in Nat /\ stack[k].size \in Nat
    <3>1. stack \in Seq(Frame)
      BY DEF TypeOK
    <3>. QED BY <2>1, <3>1, FrameAt
  <2>5. /\ stack[k].i \in 0 .. Len(h[stack[k].node]) - 1
        /\ stack[k + 1].node = h[stack[k].node][stack[k].i + 1]
    <3>1. stack[k].pc = "afterChild" /\ stack[k + 1].node = stack[k].child
      BY <2>3 DEF WaitsFor
    <3>2. /\ stack[k].i < stack[k].size
          /\ stack[k].size = Len(held[stack[k].node])
          /\ stack[k].child = held[stack[k].node][stack[k].i + 1]
      BY <2>3, <3>1 DEF IndexOK, InLoop
    <3>3. h[stack[k].node] = held[stack[k].node]
      BY <2>1
    <3>. QED BY <2>4, <3>1, <3>2, <3>3
  <2>. QED BY <2>1, <2>2, <2>5
<1>. QED BY <1>3, <1>4, <1>5, <1>6 DEF Leads

(* A callback adds one well-typed event, for the innermost activation, to  *)
(* the log; hence the position it mentions is the right one.               *)
LEMMA CallIsRight ==
  ASSUME TypeOK, IsWalk(stack, root, held), stack # << >>,
         root' = root, NEW cb \in Callback, Call(cb),
         NEW open, NodesOf(Front(stack)) \subseteq open, CallbackChanges(open)
  PROVE  log' \in Seq(Event) /\ PathLeadsToNode'
<1> DEFINE e == [cb |-> cb, node |-> Top.node, path |-> Top.path, index |-> Top.i]
<1>1. /\ Len(stack) \in 1 .. Len(stack) /\ Top = stack[Len(stack)]
      /\ Top.node \in Node /\ Top.path \in TreePath /\ Top.i \in Nat
  <2>1. Len(stack) \in 1 .. Len(stack) /\ Top = stack[Len(stack)]
    BY DEF TypeOK, Top, Last
  <2>2. stack \in Seq(Frame)
    BY DEF TypeOK
  <2>. QED BY <2>1, <2>2, FrameAt
<1>2. e \in Event /\ e.node = Top.node /\ e.path = Top.path
  BY <1>1 DEF Event
<1>3. log \in Seq(Event) /\ log' = Append(log, e)
  BY DEF TypeOK, Call
<1> HIDE DEF e
<1>4. log' \in Seq(Event) /\ Last(log') = e
  BY <1>2, <1>3, PushTop DEF Last
<1>5. ASSUME NEW k \in 1 .. Len(stack) - 1
      PROVE  held'[stack[k].node] = held[stack[k].node]
  <2>1. Len(Front(stack)) = Len(stack) - 1 /\ Front(stack)[k] = stack[k]
    BY PopTop DEF TypeOK
  <2>2. stack[k].node \in open
    BY <2>1 DEF NodesOf
  <2>3. stack \in Seq(Frame) /\ Len(stack) \in Nat /\ k \in 1 .. Len(stack)
    BY DEF TypeOK
  <2>4. stack[k].node \in Node
    BY <2>3, FrameAt
  <2>. QED BY <2>2, <2>4, ChangesAreTyped
<1>6. Leads(held', root, Top.path, Top.node)
  BY <1>5, TopIsReached
<1>. QED BY <1>2, <1>4, <1>6 DEF PathLeadsToNode

(* The callbacks around a child leave all activations alone, the others    *)
(* all but the innermost one.                                              *)
LEMMA AllKept ==
  ASSUME TypeOK, IsWalk(stack, root, held), CallbackChanges(NodesOf(stack))
  PROVE  IsWalk(stack, root, held')
<1>1. ASSUME NEW k \in 1 .. Len(stack) PROVE held'[stack[k].node] = held[stack[k].node]
  <2>1. stack[k].node \in Node \cap NodesOf(stack)
    BY FrameAt DEF TypeOK, NodesOf
  <2>. QED BY <2>1, ChangesAreTyped
<1>. QED BY <1>1, WalkKept DEF AgreeOnOpen, TypeOK

LEMMA FrontKept ==
  ASSUME TypeOK, IsWalk(stack, root, held), stack # << >>,
         CallbackChanges(NodesOf(Front(stack)))
  PROVE  /\ IsWalk(Front(stack), root, held')
         /\ Top.pc = "start" => IsWalk(stack, root, held')
<1> DEFINE s == Front(stack)
<1>1. /\ s \in Seq(Frame) /\ Len(s) = Len(stack) - 1
      /\ \A k \in 1 .. Len(stack) - 1 : s[k] = stack[k]
  BY PopTop DEF TypeOK
<1>2. Len(stack) \in Nat /\ Top = stack[Len(stack)]
  BY DEF TypeOK, Top, Last
<1> HIDE DEF s
<1>3. ASSUME NEW k \in 1 .. Len(s) PROVE held'[s[k].node] = held[s[k].node]
  <2>1. s[k].node \in Node \cap NodesOf(s)
    BY <1>1, FrameAt DEF NodesOf
  <2>. QED BY <2>1, ChangesAreTyped DEF s
<1>4. IsWalk(s, root, held)
  BY WalkPop DEF TypeOK, s
<1>5. IsWalk(s, root, held')
  BY <1>1, <1>3, <1>4, WalkKept DEF AgreeOnOpen
<1>6. ASSUME Top.pc = "start" PROVE IsWalk(stack, root, held')
  <2>1. AgreeOnOpen(stack, held, held')
    BY <1>1, <1>2, <1>3, <1>6 DEF AgreeOnOpen
  <2>. QED BY <2>1, WalkKept DEF TypeOK
<1>. QED BY <1>5, <1>6 DEF s

(* Changing the innermost activation.                                      *)
LEMMA TopChanges ==
  ASSUME TypeOK, stack # << >>, NEW h, IsWalk(stack, root, h),
         NEW f \in Frame, IndexOK(f, h), f.node = Top.node, f.path = Top.path,
         stack' = [stack EXCEPT ![Len(stack)] = f]
  PROVE  stack' \in Seq(Frame) /\ IsWalk(stack', root, h)
BY WalkReplaceTop, ReplaceTop DEF TypeOK, Top

(* Goto is such a change, inside the loop body.                            *)
LEMMA TopGoes ==
  ASSUME TypeOK, stack # << >>, NEW h, IsWalk(stack, root, h),
         NEW pc \in {"in", "visitChild", "afterChild"}, Goto(pc), InLoop(Top)
  PROVE  stack' \in Seq(Frame) /\ IsWalk(stack', root, h)
<1> DEFINE f == [Top EXCEPT !.pc = pc]
<1>1. Len(stack) \in 1 .. Len(stack) /\ Top = stack[Len(stack)]
  BY DEF TypeOK, Top, Last
<1>2. Top \in Frame /\ IndexOK(Top, h)
  BY <1>1, FrameAt DEF TypeOK, IsWalk
<1>3. /\ f \in Frame /\ f.node = Top.node /\ f.path = Top.path
      /\ f.i = Top.i /\ f.size = Top.size /\ f.child = Top.child /\ f.pc = pc
  BY <1>2 DEF Frame, Point
<1>4. stack' = [stack EXCEPT ![Len(stack)] = f]
  BY <1>1 DEF Goto, TypeOK
<1> HIDE DEF f
<1>5. IndexOK(f, h)
  BY <1>2, <1>3 DEF IndexOK, InLoop
<1>. QED BY <1>3, <1>4, <1>5, TopChanges

-----------------------------------------------------------------------------
LEMMA InitIInv == Init => IInv
<1> SUFFICES ASSUME Init PROVE IInv
  OBVIOUS
<1> DEFINE f == Activation(root, << >>)
<1>1. /\ f \in Frame /\ f.node = root /\ f.path = << >> /\ f.i = 0
      /\ f.pc = "start"
  BY DEF Init, Activation, Frame, TreePath, Point
<1>2. stack = << f >> /\ root \in Node /\ log = << >>
  BY DEF Init
<1> HIDE DEF f
<1>3. held \in [Node -> Seq(Node)] /\ changes \in Nat
  BY TreeAssumption DEF Init, NodeAssumption
<1>4. TypeOK
  BY <1>1, <1>2, <1>3 DEF Init, TypeOK
<1>5. IndexOK(f, held)
  BY <1>1 DEF IndexOK, InLoop
<1>6. RecordsIndices(stack, 1)
  BY <1>1, <1>2 DEF RecordsIndices
<1>7. IsWalk(stack, root, held)
  BY <1>1, <1>2, <1>5, <1>6 DEF IsWalk
<1>8. PathLeadsToNode
  BY <1>2 DEF PathLeadsToNode
<1>. QED BY <1>4, <1>7, <1>8 DEF IInv

LEMMA NextIInv == IInv /\ [Next]_vars => IInv'
<1> SUFFICES ASSUME IInv, [Next]_vars PROVE IInv'
  OBVIOUS
<1> USE DEF IInv
(* What every action finds and leaves alone.                               *)
<1>top. ASSUME stack # << >>
        PROVE  /\ Len(stack) \in 1 .. Len(stack) /\ Top = stack[Len(stack)]
               /\ Top \in Frame /\ Top.node \in Node /\ Top.i \in Nat
               /\ Top.path \in TreePath /\ Top.size \in Nat
               /\ IndexOK(Top, held)
               /\ NodesOf(Front(stack)) \subseteq NodesOf(stack)
  <2>1. Len(stack) \in 1 .. Len(stack) /\ Top = stack[Len(stack)]
    BY <1>top DEF TypeOK, Top, Last
  <2>2. NodesOf(Front(stack)) \subseteq NodesOf(stack)
    <3>1. /\ Len(Front(stack)) = Len(stack) - 1
          /\ \A k \in 1 .. Len(stack) - 1 : Front(stack)[k] = stack[k]
      BY <1>top, PopTop DEF TypeOK
    <3>2. 1 .. Len(stack) - 1 \subseteq 1 .. Len(stack)
      BY <2>1
    <3>. QED BY <3>1, <3>2 DEF NodesOf
  <2>. QED BY <2>1, <2>2, FrameAt DEF TypeOK, IsWalk
<1>same. ASSUME UNCHANGED << root, accepted >>
         PROVE  root' \in Node /\ accepted' \in Visitor
  BY <1>same DEF TypeOK
<1>held. ASSUME NEW open, CallbackChanges(open)
         PROVE  held' \in [Node -> Seq(Node)] /\ changes' \in Nat
  BY <1>held, ChangesAreTyped DEF Holdings
(* An activation that returns.                                             *)
<1>back. ASSUME stack # << >>, NEW cb \in Callback, Call(cb), Return,
                CallbackChanges(NodesOf(Front(stack))), UNCHANGED << root, accepted >>
         PROVE  IInv'
  <2>1. log' \in Seq(Event) /\ PathLeadsToNode'
    BY <1>back, CallIsRight
  <2>2. stack' \in Seq(Frame) /\ IsWalk(stack', root', held')
    BY <1>back, PopTop, FrontKept DEF TypeOK, Return
  <2>. QED BY <1>same, <1>held, <1>back, <2>1, <2>2 DEF TypeOK
<1>1. CASE Leaf
  BY <1>1, <1>back DEF Leaf, At, Callback
<1>2. CASE Pre
  <2> DEFINE f == [Top EXCEPT !.pc = "loop", !.size = Len(held'[Top.node])]
  <2>1. /\ stack # << >> /\ Top.pc = "start" /\ Call("pre")
        /\ CallbackChanges(NodesOf(Front(stack)))
        /\ stack' = [stack EXCEPT ![Len(stack)].pc = "loop",
                                  ![Len(stack)].size = Len(held'[Top.node])]
        /\ UNCHANGED << root, accepted >>
    BY <1>2 DEF Pre, At
  <2>2. log' \in Seq(Event) /\ PathLeadsToNode'
    BY <2>1, CallIsRight DEF Callback
  <2>3. held' \in Holdings /\ IsWalk(stack, root, held')
    BY <2>1, FrontKept, ChangesAreTyped
  <2>4. Len(held'[Top.node]) \in Nat
    BY <1>top, <2>1, <2>3, ChildIsNode
  <2>5. /\ f \in Frame /\ f.node = Top.node /\ f.path = Top.path
        /\ f.i = Top.i /\ f.pc = "loop" /\ f.size = Len(held'[Top.node])
    BY <1>top, <2>1, <2>4 DEF Frame, Point
  <2>6. stack' = [stack EXCEPT ![Len(stack)] = f]
    BY <1>top, <2>1 DEF TypeOK
  <2> HIDE DEF f
  <2>7. IndexOK(f, held')
    BY <1>top, <2>1, <2>4, <2>5 DEF IndexOK, InLoop
  <2>8. stack' \in Seq(Frame) /\ IsWalk(stack', root', held')
    BY <2>1, <2>3, <2>5, <2>6, <2>7, TopChanges
  <2>. QED BY <1>same, <1>held, <2>1, <2>2, <2>8 DEF TypeOK
<1>3. CASE BeforeChild
  <2> DEFINE pc == IF Top.i > 0 THEN "in" ELSE "visitChild"
             c == held[Top.node][Top.i + 1]
             f == [Top EXCEPT !.pc = pc, !.child = c]
  <2>1. /\ stack # << >> /\ Top.pc = "loop" /\ Top.i < Top.size
        /\ Call("beforeChild") /\ CallbackChanges(NodesOf(stack))
        /\ stack' = [stack EXCEPT ![Len(stack)].pc = pc, ![Len(stack)].child = c]
        /\ UNCHANGED << root, accepted >>
    BY <1>3 DEF BeforeChild, At
  <2>2. log' \in Seq(Event) /\ PathLeadsToNode'
    BY <1>top, <2>1, CallIsRight DEF Callback
  <2>3. IsWalk(stack, root, held')
    BY <2>1, AllKept
  <2>4. Top.size = Len(held[Top.node]) /\ held'[Top.node] = held[Top.node]
    <3>1. Top.node \in Node \cap NodesOf(stack)
      BY <1>top, <2>1 DEF NodesOf
    <3>. QED BY <1>top, <2>1, <3>1, ChangesAreTyped DEF IndexOK
  <2>5. c \in Node
    BY <1>top, <2>1, <2>4, ChildIsNode DEF TypeOK, Holdings
  <2>6. pc \in Point /\ InLoop([Top EXCEPT !.pc = pc])
    BY <1>top, <2>1 DEF Point, InLoop, Frame
  <2> HIDE DEF pc, c
  <2>7. /\ f \in Frame /\ f.node = Top.node /\ f.path = Top.path
        /\ f.i = Top.i /\ f.pc = pc /\ f.size = Top.size /\ f.child = c
    BY <1>top, <2>1, <2>5, <2>6 DEF Frame
  <2>8. stack' = [stack EXCEPT ![Len(stack)] = f]
    BY <1>top, <2>1 DEF TypeOK
  <2> HIDE DEF f
  <2>9. pc # "start"
    BY DEF pc
  <2>10. IndexOK(f, held')
    BY <1>top, <2>1, <2>4, <2>7, <2>9 DEF IndexOK, c
  <2>11. stack' \in Seq(Frame) /\ IsWalk(stack', root', held')
    BY <2>1, <2>3, <2>7, <2>8, <2>10, TopChanges
  <2>. QED BY <1>same, <1>held, <2>1, <2>2, <2>11 DEF TypeOK
<1>4. CASE In
  <2>1. /\ stack # << >> /\ InLoop(Top) /\ Call("in") /\ Goto("visitChild")
        /\ CallbackChanges(NodesOf(stack)) /\ UNCHANGED << root, accepted >>
    BY <1>4 DEF In, At, InLoop
  <2>2. log' \in Seq(Event) /\ PathLeadsToNode'
    BY <1>top, <2>1, CallIsRight DEF Callback
  <2>3. stack' \in Seq(Frame) /\ IsWalk(stack', root', held')
    BY <2>1, AllKept, TopGoes
  <2>. QED BY <1>same, <1>held, <2>1, <2>2, <2>3 DEF TypeOK
<1>5. CASE VisitChild
  <2> DEFINE w == [Top EXCEPT !.pc = "afterChild"]
             s == [stack EXCEPT ![Len(stack)] = w]
             f == Activation(Last(s).child, push_back(Last(s).path, Last(s).i))
  <2>1. /\ stack # << >> /\ Top.pc = "visitChild"
        /\ stack' = Append([stack EXCEPT ![Len(stack)].pc = "afterChild"],
                           Activation(Top.child, push_back(Top.path, Top.i)))
        /\ UNCHANGED << root, accepted, held, changes, log >>
    BY <1>5 DEF VisitChild, At
  <2>2. /\ w \in Frame /\ w.node = Top.node /\ w.path = Top.path
        /\ w.i = Top.i /\ w.pc = "afterChild" /\ w.size = Top.size
        /\ w.child = Top.child
    BY <1>top, <2>1 DEF Frame, Point
  <2>3. [stack EXCEPT ![Len(stack)].pc = "afterChild"] = s
    BY <1>top, <2>1 DEF TypeOK
  <2> HIDE DEF w
  <2>4. IndexOK(w, held)
    BY <2>2, <1>top, <2>1 DEF IndexOK, InLoop
  <2>5. s \in Seq(Frame) /\ s # << >> /\ Last(s) = w
    BY <2>1, <2>2, ReplaceTop DEF TypeOK, Last
  <2>6. IsWalk(s, root, held)
    BY <2>1, <2>2, <2>4, WalkReplaceTop DEF TypeOK, Top
  <2> HIDE DEF s
  <2>7. f \in Frame /\ IsWalk(Append(s, f), root, held)
    BY <2>2, <2>5, <2>6, WalkPush DEF TypeOK, Holdings
  <2>8. stack' = Append(s, f)
    BY <2>1, <2>2, <2>3, <2>5
  <2>9. stack' \in Seq(Frame)
    <3> HIDE DEF f
    <3>. QED BY <2>5, <2>7, <2>8
  <2>10. IsWalk(stack', root', held') /\ PathLeadsToNode'
    BY <2>1, <2>7, <2>8 DEF PathLeadsToNode
  <2>. QED BY <1>same, <2>1, <2>9, <2>10 DEF TypeOK
<1>6. CASE SkipChild
  <2>1. /\ stack # << >> /\ InLoop(Top) /\ Goto("afterChild")
        /\ UNCHANGED << root, accepted, held, changes, log >>
    BY <1>6 DEF SkipChild, At, InLoop
  <2>2. stack' \in Seq(Frame) /\ IsWalk(stack', root', held')
    BY <2>1, TopGoes
  <2>. QED BY <1>same, <2>1, <2>2 DEF TypeOK, PathLeadsToNode
<1>7. CASE AfterChild
  <2> DEFINE f == [Top EXCEPT !.pc = "loop", !.i = @ + 1, !.child = Top.node]
  <2>1. /\ stack # << >> /\ Top.pc = "afterChild" /\ Call("afterChild")
        /\ CallbackChanges(NodesOf(stack))
        /\ stack' = [stack EXCEPT ![Len(stack)].pc = "loop",
                                  ![Len(stack)].i = @ + 1,
                                  ![Len(stack)].child = Top.node]
        /\ UNCHANGED << root, accepted >>
    BY <1>7 DEF AfterChild, At
  <2>2. log' \in Seq(Event) /\ PathLeadsToNode'
    BY <1>top, <2>1, CallIsRight DEF Callback
  <2>3. IsWalk(stack, root, held')
    BY <2>1, AllKept
  <2>4. IndexOK(Top, held')
    BY <1>top, <2>1, <2>3 DEF IsWalk
  <2>5. /\ f \in Frame /\ f.node = Top.node /\ f.path = Top.path
        /\ f.i = Top.i + 1 /\ f.pc = "loop" /\ f.size = Top.size
    BY <1>top, <2>1 DEF Frame, Point
  <2>6. stack' = [stack EXCEPT ![Len(stack)] = f]
    BY <1>top, <2>1 DEF TypeOK
  <2> HIDE DEF f
  <2>7. IndexOK(f, held')
    BY <1>top, <2>1, <2>4, <2>5 DEF IndexOK, InLoop
  <2>8. stack' \in Seq(Frame) /\ IsWalk(stack', root', held')
    BY <2>1, <2>3, <2>5, <2>6, <2>7, TopChanges
  <2>. QED BY <1>same, <1>held, <2>1, <2>2, <2>8 DEF TypeOK
<1>8. CASE Post
  BY <1>8, <1>back DEF Post, At, Callback
<1>9. CASE UNCHANGED vars
  BY <1>9 DEF vars, TypeOK, PathLeadsToNode
<1>. QED
  BY <1>1, <1>2, <1>3, <1>4, <1>5, <1>6, <1>7, <1>8, <1>9 DEF Next

LEMMA Invariance == Spec => []IInv
BY InitIInv, NextIInv, PTL DEF Spec

-----------------------------------------------------------------------------
(* The log seen from the call stack: every event lies behind the point the *)
(* traversal has reached.  Either an activation that is still there made   *)
(* the call, at an earlier point of its loop,                              *)
Made(e, f) ==
  /\ e.node = f.node
  /\ f.pc # "start"
  /\ e.cb \in {"pre", "beforeChild", "in", "afterChild"}
  /\ e.cb = "beforeChild" => e.index < f.i \/ (e.index = f.i /\ InLoop(f))
  /\ e.cb = "in" =>
       e.index < f.i \/ (e.index = f.i /\ f.pc \in {"visitChild", "afterChild"})
  /\ e.cb = "afterChild" => e.index < f.i

(* or it was made below a child that the k-th activation is done with.     *)
Over(j, s, k) ==
  j < s[k].i \/ (k = Len(s) /\ j = s[k].i /\ s[k].pc = "afterChild")

Branches(path, s, k) ==
  k <= Len(path) /\ \A j \in 1 .. k - 1 : path[j] = s[j].i

Past(e, s) ==
  \/ s = << >>
  \/ \E k \in 1 .. Len(s) : e.path = s[k].path /\ Made(e, s[k])
  \/ \E k \in 1 .. Len(s) : Branches(e.path, s, k) /\ Over(e.path[k], s, k)

AllPast(events, s) == \A n \in 1 .. Len(events) : Past(events[n], s)

(* An activation goes on from f to g.                                      *)
Further(f, g) ==
  /\ g.node = f.node /\ g.path = f.path
  /\ \A e \in Event : Made(e, f) => Made(e, g)
  /\ f.i < g.i \/ (f.i = g.i /\ (f.pc = "afterChild" => g.pc = "afterChild"))

LEMMA StrictPrefix ==
  ASSUME NEW S, NEW s \in Seq(S), NEW t \in Seq(S), IsStrictPrefix(s, t)
  PROVE  /\ Len(s) < Len(t)
         /\ \A k \in 1 .. Len(s) : s[k] = t[k]
<1>1. Len(s) \in Nat /\ Len(t) \in Nat /\ Len(s) <= Len(t)
      /\ SubSeq(s, 1, Len(s)) = SubSeq(t, 1, Len(s)) /\ s # t
  BY DEF IsStrictPrefix, IsPrefix
<1>2. ASSUME NEW k \in 1 .. Len(s) PROVE s[k] = t[k]
  <2>1. SubSeq(s, 1, Len(s))[k] = s[k] /\ SubSeq(t, 1, Len(s))[k] = t[k]
    BY <1>1
  <2>. QED BY <1>1, <2>1
<1>3. Len(s) # Len(t)
  BY <1>1, <1>2, SeqEqual
<1>. QED BY <1>1, <1>2, <1>3

LEMMA PastAdvance ==
  ASSUME NEW s \in Seq(Frame), s # << >>, NEW f \in Frame, Further(Last(s), f),
         NEW e \in Event, Past(e, s)
  PROVE  Past(e, [s EXCEPT ![Len(s)] = f])
<1> DEFINE t == [s EXCEPT ![Len(s)] = f]
<1>1. /\ Len(s) \in 1 .. Len(s) /\ Last(s) = s[Len(s)]
      /\ Len(t) = Len(s) /\ t[Len(s)] = f
      /\ \A k \in 1 .. Len(s) - 1 : t[k] = s[k]
  BY ReplaceTop, EmptySeq DEF Last
<1> HIDE DEF t
<1>2. ASSUME NEW k \in 1 .. Len(s), e.path = s[k].path, Made(e, s[k])
      PROVE  e.path = t[k].path /\ Made(e, t[k])
  <2>1. CASE k = Len(s)
    BY <1>1, <1>2, <2>1 DEF Further
  <2>2. CASE k # Len(s)
    <3>1. t[k] = s[k]
      BY <1>1, <2>2
    <3>. QED BY <1>2, <3>1
  <2>. QED BY <2>1, <2>2
<1>3. ASSUME NEW k \in 1 .. Len(s), Branches(e.path, s, k), Over(e.path[k], s, k)
      PROVE  Branches(e.path, t, k) /\ Over(e.path[k], t, k)
  <2>1. Branches(e.path, t, k)
    BY <1>1, <1>3 DEF Branches
  <2>2. CASE k = Len(s)
    <3>1. e.path[k] \in Nat
      BY <1>1, <1>3, ElementOfSeq DEF Branches, Event, TreePath
    <3>2. s[k].i \in Nat /\ f.i \in Nat
      BY FrameAt DEF Frame
    <3>. QED BY <1>1, <1>3, <2>1, <2>2, <3>1, <3>2 DEF Over, Further
  <2>3. CASE k # Len(s)
    <3>1. t[k] = s[k]
      BY <1>1, <2>3
    <3>. QED BY <1>1, <1>3, <2>1, <2>3, <3>1 DEF Over
  <2>. QED BY <2>2, <2>3
<1>4. Past(e, t)
  BY <1>1, <1>2, <1>3 DEF Past
<1>. QED BY <1>4 DEF t

(* Once an activation has returned, whatever happened at or below its      *)
(* position is past for the one that waited for it.                        *)
LEMMA BelowIsPast ==
  ASSUME NEW r, NEW h, NEW s \in Seq(Frame), s # << >>, IsWalk(s, r, h),
         NEW e \in Event, Len(e.path) >= Len(s) - 1,
         \A j \in 1 .. Len(s) - 1 : e.path[j] = s[j].i
  PROVE  Past(e, Front(s))
<1> DEFINE t == Front(s)
           n == Len(s) - 1
<1>1. /\ Len(s) \in Nat /\ n \in Nat
      /\ t \in Seq(Frame) /\ Len(t) = n
      /\ \A k \in 1 .. n : t[k] = s[k]
  BY PopTop, EmptySeq
<1> HIDE DEF t
<1>2. CASE n = 0
  BY <1>1, <1>2, EmptySeq DEF Past, t
<1>3. CASE n > 0
  <2>1. n \in 1 .. n /\ WaitsFor(s, n)
    BY <1>1, <1>3 DEF IsWalk
  <2>2. Branches(e.path, t, n)
    BY <1>1, <2>1 DEF Branches
  <2>3. Over(e.path[n], t, n)
    BY <1>1, <2>1 DEF Over, WaitsFor
  <2>. QED BY <1>1, <2>1, <2>2, <2>3 DEF Past, t
<1>. QED BY <1>1, <1>2, <1>3

LEMMA PastReturn ==
  ASSUME NEW r, NEW h, NEW s \in Seq(Frame), s # << >>, IsWalk(s, r, h),
         NEW e \in Event, Past(e, s)
  PROVE  Past(e, Front(s))
<1> DEFINE t == Front(s)
<1>1. /\ Len(s) \in 1 .. Len(s) /\ Len(s) \in Nat
      /\ t \in Seq(Frame) /\ Len(t) = Len(s) - 1
      /\ \A k \in 1 .. Len(s) - 1 : t[k] = s[k]
  BY PopTop, EmptySeq
<1> HIDE DEF t
<1>2. ASSUME NEW k \in 1 .. Len(s), e.path = s[k].path, Made(e, s[k])
      PROVE  Past(e, t)
  <2>1. CASE k = Len(s)
    <3>1. RecordsIndices(s, k)
      BY DEF IsWalk
    <3>. QED BY <1>1, <1>2, <2>1, <3>1, BelowIsPast DEF RecordsIndices, t
  <2>2. CASE k # Len(s)
    <3>1. k \in 1 .. Len(t) /\ t[k] = s[k]
      BY <1>1, <2>2
    <3>. QED BY <1>2, <3>1 DEF Past
  <2>. QED BY <2>1, <2>2
<1>3. ASSUME NEW k \in 1 .. Len(s), Branches(e.path, s, k), Over(e.path[k], s, k)
      PROVE  Past(e, t)
  <2>0. Len(e.path) \in Nat
    BY DEF Event, TreePath
  <2>1. CASE k = Len(s)
    BY <1>1, <1>3, <2>0, <2>1, BelowIsPast DEF Branches, t
  <2>2. CASE k # Len(s)
    <3>1. k \in 1 .. Len(t) /\ t[k] = s[k] /\ \A j \in 1 .. k - 1 : t[j] = s[j]
      BY <1>1, <2>2
    <3>2. Branches(e.path, t, k) /\ Over(e.path[k], t, k)
      BY <1>3, <2>2, <3>1 DEF Branches, Over
    <3>. QED BY <3>1, <3>2 DEF Past
  <2>. QED BY <2>1, <2>2
<1>. QED BY <1>2, <1>3 DEF Past, t

(* An activation that begins has made no call, and none was made below it. *)
LEMMA PastCall ==
  ASSUME NEW s \in Seq(Frame), s # << >>, Last(s).pc = "visitChild",
         NEW w \in Frame, w.i = Last(s).i, Further(Last(s), w),
         NEW f \in Frame,
         NEW e \in Event, Past(e, s)
  PROVE  Past(e, Append([s EXCEPT ![Len(s)] = w], f))
<1> DEFINE u == [s EXCEPT ![Len(s)] = w]
           t == Append(u, f)
<1>1. /\ Len(s) \in 1 .. Len(s) /\ Len(s) \in Nat /\ Last(s) = s[Len(s)]
      /\ u \in Seq(Frame) /\ Len(u) = Len(s) /\ u[Len(s)] = w
      /\ \A k \in 1 .. Len(s) - 1 : u[k] = s[k]
  BY ReplaceTop, EmptySeq DEF Last
<1> HIDE DEF u
<1>2. Len(t) = Len(s) + 1 /\ \A k \in 1 .. Len(s) : t[k] = u[k]
  BY <1>1, PushTop
<1> HIDE DEF t
<1>3. ASSUME NEW k \in 1 .. Len(s), e.path = s[k].path, Made(e, s[k])
      PROVE  Past(e, t)
  <2>1. k \in 1 .. Len(t)
    BY <1>1, <1>2
  <2>2. CASE k = Len(s)
    <3>1. t[k] = w
      BY <1>1, <1>2, <2>2
    <3>. QED BY <1>1, <1>3, <2>1, <2>2, <3>1 DEF Past, Further
  <2>3. CASE k # Len(s)
    <3>1. t[k] = s[k]
      BY <1>1, <1>2, <2>3
    <3>. QED BY <1>3, <2>1, <3>1 DEF Past
  <2>. QED BY <2>2, <2>3
<1>4. ASSUME NEW k \in 1 .. Len(s), Branches(e.path, s, k), Over(e.path[k], s, k)
      PROVE  Past(e, t)
  <2>1. k \in 1 .. Len(t) /\ k # Len(t)
    BY <1>1, <1>2
  <2>2. \A j \in 1 .. k - 1 : t[j] = s[j]
    BY <1>1, <1>2
  <2>3. t[k].i = s[k].i
    <3>1. CASE k = Len(s)
      BY <1>1, <1>2, <3>1
    <3>2. CASE k # Len(s)
      BY <1>1, <1>2, <3>2
    <3>. QED BY <3>1, <3>2
  <2>4. e.path[k] < s[k].i
    BY <1>1, <1>4 DEF Over
  <2>5. Branches(e.path, t, k) /\ Over(e.path[k], t, k)
    BY <1>4, <2>2, <2>3, <2>4 DEF Branches, Over
  <2>. QED BY <2>1, <2>5 DEF Past
<1>5. Past(e, t)
  BY <1>1, <1>3, <1>4, EmptySeq DEF Past
<1>. QED BY <1>5 DEF t, u

-----------------------------------------------------------------------------
(* What the actions do to the innermost activation and to the log.         *)
Now(cb) == [cb |-> cb, node |-> Top.node, path |-> Top.path, index |-> Top.i]

Advances(pc, i) ==
  \E f \in Frame : /\ stack' = [stack EXCEPT ![Len(stack)] = f]
                   /\ f.node = Top.node /\ f.path = Top.path
                   /\ f.i = i /\ f.pc = pc

LEMMA TopFrame ==
  ASSUME TypeOK, stack # << >>
  PROVE  /\ Len(stack) \in 1 .. Len(stack) /\ Len(stack) \in Nat /\ Top = stack[Len(stack)]
         /\ Top \in Frame /\ Top.node \in Node /\ Top.path \in TreePath
         /\ Top.i \in Nat /\ Top.size \in Nat /\ Top.child \in Node /\ Top.pc \in Point
<1>1. Len(stack) \in 1 .. Len(stack) /\ Len(stack) \in Nat /\ Top = stack[Len(stack)]
  BY DEF TypeOK, Top, Last
<1>2. stack \in Seq(Frame)
  BY DEF TypeOK
<1>. QED BY <1>1, <1>2, FrameAt

LEMMA NewTop ==
  ASSUME NEW s \in Seq(Frame), s # << >>, NEW f, [s EXCEPT ![Len(s)] = f] \in Seq(Frame)
  PROVE  f \in Frame
<1>1. Len(s) \in 1 .. Len(s) /\ s = [k \in 1 .. Len(s) |-> s[k]]
  BY EmptySeq
<1> DEFINE t == [s EXCEPT ![Len(s)] = f]
<1>2. t[Len(s)] = f /\ DOMAIN t = 1 .. Len(s)
  BY <1>1
<1>3. DOMAIN t = 1 .. Len(t)
  BY LenProperties
<1> HIDE DEF t
<1>4. Len(s) \in 1 .. Len(t)
  BY <1>1, <1>2, <1>3
<1>5. t \in Seq(Frame)
  BY DEF t
<1>. QED BY <1>2, <1>4, <1>5, ElementOfSeq

LEMMA PreMoves ==
  ASSUME IInv, IInv', Pre
  PROVE  Advances("loop", Top.i)
<1>1. stack # << >> /\ TypeOK /\ stack' \in Seq(Frame)
      /\ stack' = [stack EXCEPT ![Len(stack)].pc = "loop",
                                ![Len(stack)].size = Len(held'[Top.node])]
  BY DEF IInv, TypeOK, Pre, At
<1> DEFINE f == [Top EXCEPT !.pc = "loop", !.size = Len(held'[Top.node])]
<1>2. stack' = [stack EXCEPT ![Len(stack)] = f]
  BY <1>1, TopFrame DEF TypeOK
<1>3. f.node = Top.node /\ f.path = Top.path /\ f.i = Top.i /\ f.pc = "loop"
  BY <1>1, TopFrame DEF Frame
<1> HIDE DEF f
<1>5. f \in Frame
  BY <1>1, <1>2, NewTop DEF TypeOK
<1>. QED BY <1>2, <1>3, <1>5 DEF Advances

LEMMA BeforeChildMoves ==
  ASSUME IInv, IInv', BeforeChild
  PROVE  Advances(IF Top.i > 0 THEN "in" ELSE "visitChild", Top.i)
<1> DEFINE pc == IF Top.i > 0 THEN "in" ELSE "visitChild"
           c == held[Top.node][Top.i + 1]
           f == [Top EXCEPT !.pc = pc, !.child = c]
<1>1. stack # << >> /\ TypeOK /\ stack' \in Seq(Frame)
      /\ stack' = [stack EXCEPT ![Len(stack)].pc = pc, ![Len(stack)].child = c]
  BY DEF IInv, TypeOK, BeforeChild, At
<1> HIDE DEF pc, c
<1>2. stack' = [stack EXCEPT ![Len(stack)] = f]
  BY <1>1, TopFrame DEF TypeOK
<1>3. f.node = Top.node /\ f.path = Top.path /\ f.i = Top.i /\ f.pc = pc
  BY <1>1, TopFrame DEF Frame
<1> HIDE DEF f
<1>5. f \in Frame
  BY <1>1, <1>2, NewTop DEF TypeOK
<1>6. Advances(pc, Top.i)
  BY <1>2, <1>3, <1>5 DEF Advances
<1>. QED BY <1>6 DEF pc

LEMMA GotoMoves ==
  ASSUME IInv, IInv', stack # << >>, NEW pc, Goto(pc)
  PROVE  Advances(pc, Top.i)
<1> DEFINE f == [Top EXCEPT !.pc = pc]
<1>1. TypeOK /\ stack' \in Seq(Frame) /\ stack' = [stack EXCEPT ![Len(stack)].pc = pc]
  BY DEF IInv, TypeOK, Goto
<1>2. stack' = [stack EXCEPT ![Len(stack)] = f]
  BY <1>1, TopFrame DEF TypeOK
<1>3. f.node = Top.node /\ f.path = Top.path /\ f.i = Top.i /\ f.pc = pc
  BY <1>1, TopFrame DEF Frame
<1> HIDE DEF f
<1>5. f \in Frame
  BY <1>1, <1>2, NewTop DEF TypeOK
<1>. QED BY <1>2, <1>3, <1>5 DEF Advances

LEMMA AfterChildMoves ==
  ASSUME IInv, IInv', AfterChild
  PROVE  Advances("loop", Top.i + 1)
<1> DEFINE f == [Top EXCEPT !.pc = "loop", !.i = @ + 1, !.child = Top.node]
<1>1. stack # << >> /\ TypeOK /\ stack' \in Seq(Frame)
      /\ stack' = [stack EXCEPT ![Len(stack)].pc = "loop",
                                ![Len(stack)].i = @ + 1,
                                ![Len(stack)].child = Top.node]
  BY DEF IInv, TypeOK, AfterChild, At
<1>2. stack' = [stack EXCEPT ![Len(stack)] = f]
  BY <1>1, TopFrame DEF TypeOK
<1>3. f.node = Top.node /\ f.path = Top.path /\ f.i = Top.i + 1 /\ f.pc = "loop"
  BY <1>1, TopFrame DEF Frame
<1> HIDE DEF f
<1>5. f \in Frame
  BY <1>1, <1>2, NewTop DEF TypeOK
<1>. QED BY <1>2, <1>3, <1>5 DEF Advances

(* VisitChild lets the activation wait and begins another one.             *)
Calls ==
  \E w, f \in Frame :
    /\ stack' = Append([stack EXCEPT ![Len(stack)] = w], f)
    /\ w.node = Top.node /\ w.path = Top.path /\ w.i = Top.i /\ w.pc = "afterChild"
    /\ w.child = Top.child
    /\ f.node = Top.child /\ f.path = push_back(Top.path, Top.i)
    /\ f.i = 0 /\ f.pc = "start"

LEMMA VisitChildMoves ==
  ASSUME IInv, IInv', VisitChild
  PROVE  Calls
<1> DEFINE w == [Top EXCEPT !.pc = "afterChild"]
           f == Activation(Top.child, push_back(Top.path, Top.i))
<1>1. stack # << >> /\ TypeOK
      /\ stack' = Append([stack EXCEPT ![Len(stack)].pc = "afterChild"], f)
  BY DEF IInv, TypeOK, VisitChild, At
<1>2. /\ w \in Frame /\ w.node = Top.node /\ w.path = Top.path
      /\ w.i = Top.i /\ w.pc = "afterChild" /\ w.child = Top.child
  BY <1>1, TopFrame DEF Frame, Point
<1>3. /\ f \in Frame /\ f.node = Top.child /\ f.path = push_back(Top.path, Top.i)
      /\ f.i = 0 /\ f.pc = "start"
  BY <1>1, TopFrame DEF Activation, Frame, push_back, TreePath, Point
<1>4. [stack EXCEPT ![Len(stack)].pc = "afterChild"] = [stack EXCEPT ![Len(stack)] = w]
  BY <1>1, TopFrame DEF TypeOK
<1> HIDE DEF w, f
<1>. QED BY <1>1, <1>2, <1>3, <1>4 DEF Calls

LEMMA Stages ==
  ASSUME NEW f \in Frame, NEW g \in Frame, g.node = f.node, g.path = f.path,
         \/ /\ g.i = f.i
            /\ \/ f.pc = "start"
               \/ f.pc = "loop" /\ g.pc \in {"in", "visitChild"}
               \/ f.pc = "in" /\ g.pc = "visitChild"
               \/ f.pc = "visitChild" /\ g.pc = "afterChild"
         \/ g.i = f.i + 1 /\ g.pc = "loop"
  PROVE  Further(f, g)
<1>1. f.i \in Nat /\ g.i \in Nat
  BY DEF Frame
<1>2. ASSUME NEW e \in Event, Made(e, f) PROVE Made(e, g)
  <2>1. e.index \in Nat
    BY DEF Event
  <2>. QED BY <1>1, <1>2, <2>1 DEF Made, InLoop
<1>3. f.i < g.i \/ (f.i = g.i /\ (f.pc = "afterChild" => g.pc = "afterChild"))
  BY <1>1
<1>. QED BY <1>2, <1>3 DEF Further

-----------------------------------------------------------------------------
(* All of the log stays in the past, the latest event included.            *)
LEMMA Noted ==
  ASSUME TypeOK, AllPast(log, stack), stack # << >>, NEW cb \in Callback, Call(cb),
         NEW s, \A e \in Event : Past(e, stack) => Past(e, s), Past(Now(cb), s)
  PROVE  AllPast(log', s)
<1>1. Now(cb) \in Event
  BY TopFrame DEF Now, Event
<1>2. log \in Seq(Event) /\ log' = Append(log, Now(cb))
  BY DEF TypeOK, Call, Now
<1>3. /\ Len(log') = Len(log) + 1 /\ log'[Len(log) + 1] = Now(cb)
      /\ \A n \in 1 .. Len(log) : log'[n] = log[n]
  BY <1>1, <1>2, PushTop
<1>4. ASSUME NEW n \in 1 .. Len(log') PROVE Past(log'[n], s)
  <2>1. CASE n \in 1 .. Len(log)
    <3>1. log[n] \in Event /\ Past(log[n], stack)
      BY <1>2, <2>1, ElementOfSeq DEF AllPast
    <3>. QED BY <1>3, <2>1, <3>1
  <2>2. CASE n = Len(log) + 1
    BY <1>3, <2>2
  <2>3. Len(log) \in Nat
    BY <1>2
  <2>. QED BY <1>3, <2>1, <2>2, <2>3
<1>. QED BY <1>4 DEF AllPast

(* An activation makes a call and goes on.                                 *)
LEMMA NotedAndOn ==
  ASSUME TypeOK, AllPast(log, stack), stack # << >>, NEW cb \in Callback, Call(cb),
         NEW f \in Frame, stack' = [stack EXCEPT ![Len(stack)] = f],
         Further(Top, f), Made(Now(cb), f)
  PROVE  AllPast(log', stack')
<1>1. /\ Len(stack') = Len(stack) /\ stack'[Len(stack)] = f
      /\ Len(stack) \in 1 .. Len(stack)
  BY TopFrame DEF TypeOK
<1>2. ASSUME NEW e \in Event, Past(e, stack) PROVE Past(e, [stack EXCEPT ![Len(stack)] = f])
  BY <1>2, PastAdvance DEF TypeOK, Top
<1>3. Past(Now(cb), [stack EXCEPT ![Len(stack)] = f])
  <2>1. Now(cb).path = f.path
    BY DEF Now, Further
  <2>. QED BY <1>1, <2>1 DEF Past
<1>4. AllPast(log', [stack EXCEPT ![Len(stack)] = f])
  BY <1>2, <1>3, Noted
<1>. QED BY <1>4

(* An activation makes its last call and returns.                          *)
LEMMA NotedAndBack ==
  ASSUME IInv, AllPast(log, stack), stack # << >>, NEW cb \in Callback, Call(cb), Return
  PROVE  AllPast(log', stack')
<1>1. TypeOK /\ stack \in Seq(Frame) /\ IsWalk(stack, root, held)
  BY DEF IInv, TypeOK
<1>2. \A e \in Event : Past(e, stack) => Past(e, Front(stack))
  BY <1>1, PastReturn
<1>3. Past(Now(cb), Front(stack))
  <2>1. Now(cb) \in Event /\ Now(cb).path = Top.path
    BY <1>1, TopFrame DEF Now, Event
  <2>2. RecordsIndices(stack, Len(stack)) /\ Top = stack[Len(stack)] /\ Len(stack) \in Nat
    BY <1>1, TopFrame DEF IsWalk
  <2>3. /\ Len(Now(cb).path) = Len(stack) - 1
        /\ \A j \in 1 .. Len(stack) - 1 : Now(cb).path[j] = stack[j].i
    BY <2>1, <2>2 DEF RecordsIndices
  <2>. QED BY <1>1, <2>1, <2>2, <2>3, BelowIsPast
<1>4. AllPast(log', Front(stack))
  BY <1>1, <1>2, <1>3, Noted
<1>. QED BY <1>4 DEF Return

LEMMA PastKept ==
  ASSUME IInv, IInv', AllPast(log, stack), [Next]_vars
  PROVE  AllPast(log', stack')
<1>1. TypeOK /\ (stack # << >> => Top \in Frame /\ Top.i \in Nat)
  BY TopFrame DEF IInv
<1>2. CASE Leaf
  BY <1>2, NotedAndBack DEF Leaf, At, Callback
<1>3. CASE Pre
  <2>1. stack # << >> /\ Top.pc = "start" /\ Call("pre")
    BY <1>3 DEF Pre, At
  <2>2. PICK f \in Frame : /\ stack' = [stack EXCEPT ![Len(stack)] = f]
                           /\ f.node = Top.node /\ f.path = Top.path
                           /\ f.i = Top.i /\ f.pc = "loop"
    BY <1>3, PreMoves DEF Advances
  <2>3. Further(Top, f)
    BY <1>1, <2>1, <2>2, Stages
  <2>4. Made(Now("pre"), f)
    BY <2>2 DEF Made, Now
  <2>. QED BY <1>1, <2>1, <2>2, <2>3, <2>4, NotedAndOn DEF Callback
<1>4. CASE BeforeChild
  <2>1. stack # << >> /\ Top.pc = "loop" /\ Call("beforeChild")
    BY <1>4 DEF BeforeChild, At
  <2>2. PICK f \in Frame : /\ stack' = [stack EXCEPT ![Len(stack)] = f]
                           /\ f.node = Top.node /\ f.path = Top.path
                           /\ f.i = Top.i /\ f.pc \in {"in", "visitChild"}
    BY <1>4, BeforeChildMoves DEF Advances
  <2>3. Further(Top, f)
    BY <1>1, <2>1, <2>2, Stages
  <2>4. Made(Now("beforeChild"), f)
    BY <2>2 DEF Made, Now, InLoop
  <2>. QED BY <1>1, <2>1, <2>2, <2>3, <2>4, NotedAndOn DEF Callback
<1>5. CASE In
  <2>1. stack # << >> /\ Top.pc = "in" /\ Call("in") /\ Goto("visitChild")
    BY <1>5 DEF In, At
  <2>2. PICK f \in Frame : /\ stack' = [stack EXCEPT ![Len(stack)] = f]
                           /\ f.node = Top.node /\ f.path = Top.path
                           /\ f.i = Top.i /\ f.pc = "visitChild"
    BY <2>1, GotoMoves DEF Advances
  <2>3. Further(Top, f)
    BY <1>1, <2>1, <2>2, Stages
  <2>4. Made(Now("in"), f)
    BY <2>2 DEF Made, Now
  <2>. QED BY <1>1, <2>1, <2>2, <2>3, <2>4, NotedAndOn DEF Callback
<1>6. CASE VisitChild
  <2>1. stack # << >> /\ Top.pc = "visitChild" /\ log' = log
    BY <1>6 DEF VisitChild, At
  <2>2. PICK w \in Frame, f \in Frame :
          /\ stack' = Append([stack EXCEPT ![Len(stack)] = w], f)
          /\ w.node = Top.node /\ w.path = Top.path /\ w.i = Top.i /\ w.pc = "afterChild"
    BY <1>6, VisitChildMoves DEF Calls
  <2>3. Further(Top, w)
    BY <1>1, <2>1, <2>2, Stages
  <2>4. ASSUME NEW e \in Event, Past(e, stack)
        PROVE  Past(e, Append([stack EXCEPT ![Len(stack)] = w], f))
    BY <1>1, <2>1, <2>2, <2>3, <2>4, PastCall DEF TypeOK, Top
  <2>5. \A n \in 1 .. Len(log) : log[n] \in Event
    BY <1>1, ElementOfSeq DEF TypeOK
  <2>. QED BY <2>1, <2>2, <2>4, <2>5 DEF AllPast
<1>7. CASE SkipChild
  <2>1. stack # << >> /\ Top.pc = "visitChild" /\ log' = log /\ Goto("afterChild")
    BY <1>7 DEF SkipChild, At
  <2>2. PICK f \in Frame : /\ stack' = [stack EXCEPT ![Len(stack)] = f]
                           /\ f.node = Top.node /\ f.path = Top.path
                           /\ f.i = Top.i /\ f.pc = "afterChild"
    BY <2>1, GotoMoves DEF Advances
  <2>3. Further(Top, f)
    BY <1>1, <2>1, <2>2, Stages
  <2>4. ASSUME NEW e \in Event, Past(e, stack)
        PROVE  Past(e, [stack EXCEPT ![Len(stack)] = f])
    BY <1>1, <2>1, <2>3, <2>4, PastAdvance DEF TypeOK, Top
  <2>5. \A n \in 1 .. Len(log) : log[n] \in Event
    BY <1>1, ElementOfSeq DEF TypeOK
  <2>. QED BY <2>1, <2>2, <2>4, <2>5 DEF AllPast
<1>8. CASE AfterChild
  <2>1. stack # << >> /\ Top.pc = "afterChild" /\ Call("afterChild")
    BY <1>8 DEF AfterChild, At
  <2>2. PICK f \in Frame : /\ stack' = [stack EXCEPT ![Len(stack)] = f]
                           /\ f.node = Top.node /\ f.path = Top.path
                           /\ f.i = Top.i + 1 /\ f.pc = "loop"
    BY <1>8, AfterChildMoves DEF Advances
  <2>3. Further(Top, f)
    BY <1>1, <2>1, <2>2, Stages
  <2>4. Made(Now("afterChild"), f)
    BY <1>1, <2>1, <2>2 DEF Made, Now
  <2>. QED BY <1>1, <2>1, <2>2, <2>3, <2>4, NotedAndOn DEF Callback
<1>9. CASE Post
  BY <1>9, NotedAndBack DEF Post, At, Callback
<1>10. CASE UNCHANGED vars
  BY <1>10 DEF vars
<1>. QED
  BY <1>2, <1>3, <1>4, <1>5, <1>6, <1>7, <1>8, <1>9, <1>10 DEF Next

-----------------------------------------------------------------------------
(* The calls around a child.  An event of an open activation bears on the  *)
(* child that is being visited below it, an event below the innermost      *)
(* activation on a child that it is done with.                             *)
Brackets(e, i, before) ==
  /\ e.cb = "beforeChild" => (e.index <= i <=> before)
  /\ e.cb = "in" => (e.index <= i <=> before)
  /\ e.cb = "afterChild" => (e.index < i <=> before)

LEMMA BracketsPair ==
  ChildCallsBracketVisit <=>
    \A j, k \in 1 .. Len(log) :
      IsStrictPrefix(log[j].path, log[k].path) =>
        Brackets(log[j], log[k].path[Len(log[j].path) + 1], j < k)
BY DEF ChildCallsBracketVisit, Brackets

LEMMA AncestorsBracket ==
  ASSUME IInv, stack # << >>, NEW e \in Event, Past(e, stack),
         IsStrictPrefix(e.path, Top.path)
  PROVE  Brackets(e, Top.path[Len(e.path) + 1], TRUE)
<1>1. /\ Len(stack) \in 1 .. Len(stack) /\ Len(stack) \in Nat /\ Top = stack[Len(stack)]
      /\ Top.path \in TreePath /\ stack \in Seq(Frame)
  BY TopFrame DEF IInv, TypeOK
<1>2. e.path \in TreePath /\ Len(e.path) \in Nat /\ e.index \in Nat
  BY DEF Event, TreePath
<1>3. Len(e.path) < Len(Top.path) /\ \A k \in 1 .. Len(e.path) : e.path[k] = Top.path[k]
  BY <1>1, <1>2, StrictPrefix DEF TreePath
<1>4. RecordsIndices(stack, Len(stack))
  BY <1>1 DEF IInv, IsWalk
<1>5. Len(Top.path) = Len(stack) - 1 /\ \A j \in 1 .. Len(stack) - 1 : Top.path[j] = stack[j].i
  BY <1>1, <1>4 DEF RecordsIndices
<1>6. ASSUME NEW k \in 1 .. Len(stack), e.path = stack[k].path, Made(e, stack[k])
      PROVE  Brackets(e, Top.path[Len(e.path) + 1], TRUE)
  <2>1. Len(e.path) = k - 1
    BY <1>6 DEF IInv, IsWalk, RecordsIndices
  <2>2. k \in 1 .. Len(stack) - 1 /\ Len(e.path) + 1 = k
    BY <1>1, <1>2, <1>3, <1>5, <2>1
  <2>3. Top.path[Len(e.path) + 1] = stack[k].i
    BY <1>5, <2>2
  <2>4. stack[k].i \in Nat
    BY <1>1, FrameAt
  <2>. QED BY <1>2, <1>6, <2>3, <2>4 DEF Brackets, Made
<1>7. ASSUME NEW k \in 1 .. Len(stack), Branches(e.path, stack, k), Over(e.path[k], stack, k)
      PROVE  FALSE
  <2>1. k \in 1 .. Len(e.path) /\ k \in 1 .. Len(stack) - 1
    BY <1>1, <1>2, <1>3, <1>5, <1>7 DEF Branches
  <2>2. e.path[k] = stack[k].i
    BY <1>3, <1>5, <2>1
  <2>3. stack[k].i \in Nat
    BY <1>1, FrameAt
  <2>. QED BY <1>1, <1>7, <2>1, <2>2, <2>3 DEF Over
<1>. QED BY <1>6, <1>7 DEF Past

LEMMA DescendantsBracketed ==
  ASSUME IInv, stack # << >>, NEW e \in Event, Past(e, stack),
         IsStrictPrefix(Top.path, e.path),
         NEW cb \in Callback,
         cb = "beforeChild" => Top.pc = "loop", cb = "in" => Top.pc = "in"
  PROVE  Brackets(Now(cb), e.path[Len(Top.path) + 1], FALSE)
<1>1. /\ Len(stack) \in 1 .. Len(stack) /\ Len(stack) \in Nat /\ Top = stack[Len(stack)]
      /\ Top.path \in TreePath /\ stack \in Seq(Frame) /\ Top.i \in Nat
  BY TopFrame DEF IInv, TypeOK
<1>2. e.path \in TreePath /\ Len(e.path) \in Nat
  BY DEF Event, TreePath
<1>3. Len(Top.path) < Len(e.path) /\ \A k \in 1 .. Len(Top.path) : Top.path[k] = e.path[k]
  BY <1>1, <1>2, StrictPrefix DEF TreePath
<1>4. RecordsIndices(stack, Len(stack))
  BY <1>1 DEF IInv, IsWalk
<1>5. Len(Top.path) = Len(stack) - 1 /\ \A j \in 1 .. Len(stack) - 1 : Top.path[j] = stack[j].i
  BY <1>1, <1>4 DEF RecordsIndices
<1>6. ASSUME NEW k \in 1 .. Len(stack), e.path = stack[k].path
      PROVE  FALSE
  <2>1. Len(e.path) = k - 1
    BY <1>6 DEF IInv, IsWalk, RecordsIndices
  <2>. QED BY <1>1, <1>3, <1>5, <2>1
<1>7. ASSUME NEW k \in 1 .. Len(stack), Branches(e.path, stack, k), Over(e.path[k], stack, k)
      PROVE  Brackets(Now(cb), e.path[Len(Top.path) + 1], FALSE)
  <2>1. CASE k # Len(stack)
    <3>1. k \in 1 .. Len(stack) - 1 /\ k \in 1 .. Len(Top.path)
      BY <1>1, <1>5, <2>1
    <3>2. e.path[k] = stack[k].i /\ stack[k].i \in Nat
      BY <1>1, <1>3, <1>5, <3>1, FrameAt
    <3>. QED BY <1>7, <2>1, <3>2 DEF Over
  <2>2. CASE k = Len(stack)
    <3>1. Len(Top.path) + 1 = k /\ k \in 1 .. Len(e.path)
      BY <1>1, <1>5, <1>7, <2>2 DEF Branches
    <3>2. e.path[k] \in Nat
      BY <1>2, <3>1, ElementOfSeq DEF TreePath
    <3>3. e.path[k] < Top.i \/ (e.path[k] = Top.i /\ Top.pc = "afterChild")
      BY <1>1, <1>7, <2>2 DEF Over
    <3>4. Now(cb).cb = cb /\ Now(cb).index = Top.i
      BY DEF Now
    <3>. QED BY <1>1, <3>1, <3>2, <3>3, <3>4 DEF Brackets
  <2>. QED BY <2>1, <2>2
<1>. QED BY <1>6, <1>7 DEF Past

LEMMA BracketsNoted ==
  ASSUME IInv, stack # << >>, AllPast(log, stack), ChildCallsBracketVisit,
         NEW cb \in Callback, Call(cb),
         cb = "beforeChild" => Top.pc = "loop", cb = "in" => Top.pc = "in"
  PROVE  ChildCallsBracketVisit'
<1> DEFINE n == Len(log)
           e == Now(cb)
<1>1. e \in Event /\ e.path = Top.path /\ Top.path \in TreePath
  BY TopFrame DEF IInv, Now, Event
<1>2. log \in Seq(Event) /\ log' = Append(log, e) /\ n \in Nat
  BY DEF IInv, TypeOK, Call, Now
<1> HIDE DEF e
<1>3. Len(log') = n + 1 /\ log'[n + 1] = e /\ \A j \in 1 .. n : log'[j] = log[j]
  BY <1>1, <1>2, PushTop
<1>4. \A j \in 1 .. n : log[j] \in Event /\ Past(log[j], stack)
  BY <1>2, ElementOfSeq DEF AllPast
<1> HIDE DEF n
<1>5. ASSUME NEW j \in 1 .. n + 1, NEW k \in 1 .. n + 1,
             IsStrictPrefix(log'[j].path, log'[k].path)
      PROVE  Brackets(log'[j], log'[k].path[Len(log'[j].path) + 1], j < k)
  <2>1. CASE j \in 1 .. n /\ k \in 1 .. n
    BY <1>3, <1>5, <2>1, BracketsPair DEF n
  <2>2. CASE j \in 1 .. n /\ k = n + 1
    <3>1. (j < k) = TRUE
      BY <1>2, <2>2
    <3>2. log'[j] = log[j] /\ log'[k].path = Top.path
      BY <1>1, <1>3, <2>2
    <3>3. Brackets(log[j], Top.path[Len(log[j].path) + 1], TRUE)
      BY <1>4, <1>5, <2>2, <3>2, AncestorsBracket
    <3>. QED BY <3>1, <3>2, <3>3
  <2>3. CASE j = n + 1 /\ k \in 1 .. n
    <3>1. (j < k) = FALSE
      BY <1>2, <2>3
    <3>2. log'[j] = e /\ log'[k] = log[k]
      BY <1>3, <2>3
    <3>3. Brackets(e, log[k].path[Len(Top.path) + 1], FALSE)
      BY <1>1, <1>4, <1>5, <2>3, <3>2, DescendantsBracketed DEF e
    <3>. QED BY <1>1, <3>1, <3>2, <3>3
  <2>4. CASE j = n + 1 /\ k = n + 1
    BY <1>5, <2>4 DEF IsStrictPrefix
  <2>5. (j \in 1 .. n \/ j = n + 1) /\ (k \in 1 .. n \/ k = n + 1)
    BY <1>2
  <2>. QED BY <2>1, <2>2, <2>3, <2>4, <2>5
<1>6. \A j, k \in 1 .. Len(log') :
        IsStrictPrefix(log'[j].path, log'[k].path) =>
          Brackets(log'[j], log'[k].path[Len(log'[j].path) + 1], j < k)
  BY <1>3, <1>5
<1>. QED BY <1>6 DEF ChildCallsBracketVisit, Brackets

LEMMA BracketsKept ==
  ASSUME IInv, AllPast(log, stack), ChildCallsBracketVisit, [Next]_vars
  PROVE  ChildCallsBracketVisit'
<1>1. CASE Leaf
  BY <1>1, BracketsNoted DEF Leaf, At, Callback
<1>2. CASE Pre
  BY <1>2, BracketsNoted DEF Pre, At, Callback
<1>3. CASE BeforeChild
  BY <1>3, BracketsNoted DEF BeforeChild, At, Callback
<1>4. CASE In
  BY <1>4, BracketsNoted DEF In, At, Callback
<1>5. CASE VisitChild \/ SkipChild \/ UNCHANGED vars
  <2>1. log' = log
    BY <1>5 DEF VisitChild, SkipChild, vars
  <2>. QED BY <2>1 DEF ChildCallsBracketVisit
<1>6. CASE AfterChild
  BY <1>6, BracketsNoted DEF AfterChild, At, Callback
<1>7. CASE Post
  BY <1>7, BracketsNoted DEF Post, At, Callback
<1>. QED BY <1>1, <1>2, <1>3, <1>4, <1>5, <1>6, <1>7 DEF Next

LEMMA LogInvariance == Spec => [](IInv /\ AllPast(log, stack) /\ ChildCallsBracketVisit)
<1>1. Init => IInv /\ AllPast(log, stack) /\ ChildCallsBracketVisit
  <2> SUFFICES ASSUME Init PROVE IInv /\ AllPast(log, stack) /\ ChildCallsBracketVisit
    OBVIOUS
  <2>1. log = << >> /\ \A n : n \notin 1 .. Len(<< >>)
    BY EmptySeq DEF Init
  <2>. QED BY <2>1, InitIInv DEF AllPast, ChildCallsBracketVisit
<1>2. IInv /\ AllPast(log, stack) /\ ChildCallsBracketVisit /\ [Next]_vars
        => (IInv /\ AllPast(log, stack) /\ ChildCallsBracketVisit)'
  <2> SUFFICES ASSUME IInv, AllPast(log, stack), ChildCallsBracketVisit, [Next]_vars
               PROVE  IInv' /\ AllPast(log', stack') /\ ChildCallsBracketVisit'
    BY DEF AllPast, Past, Made, Branches, Over, InLoop
  <2>1. IInv'
    BY NextIInv
  <2>2. AllPast(log', stack')
    BY <2>1, PastKept
  <2>. QED BY <2>1, <2>2, BracketsKept
<1>. QED BY <1>1, <1>2, PTL DEF Spec

-----------------------------------------------------------------------------
(* The positions that have been entered and left, seen from the call       *)
(* stack s.  h is what the nodes hold, acc the accepted class pairs, O and *)
(* C are the positions entered and left.  What has been entered and not    *)
(* left is under way, every waiting activation waits for a child that is   *)
(* accepted, and the accepted children an activation is done with have     *)
(* been left.                                                              *)
PosOf(f) == [path |-> f.path, node |-> f.node]

WantedOf(f, h, acc) ==
  {j \in 0 .. Len(h[f.node]) - 1 : << TypeOf[f.node], TypeOf[h[f.node][j + 1]] >> \in acc}

BelowOf(f, h, j) == [path |-> push_back(f.path, j), node |-> h[f.node][j + 1]]

Handled(s, k, h, acc, C) ==
  \A j \in WantedOf(s[k], h, acc) : Over(j, s, k) => BelowOf(s[k], h, j) \in C

Visits(s, h, acc, O, C) ==
  /\ \A k \in 1 .. Len(s) : s[k].pc # "start" => PosOf(s[k]) \in O /\ Handled(s, k, h, acc, C)
  /\ \A x \in O : x \in C \/ \E k \in 1 .. Len(s) : x = PosOf(s[k])
  /\ \A k \in 1 .. Len(s) - 1 : << TypeOf[s[k].node], TypeOf[s[k].child] >> \in acc

LEMMA VisitsKept ==
  ASSUME NEW s, NEW g, NEW h, NEW acc, NEW O, NEW C, Visits(s, g, acc, O, C),
         AgreeOnOpen(s, g, h)
  PROVE  Visits(s, h, acc, O, C)
<1>1. ASSUME NEW k \in 1 .. Len(s), s[k].pc # "start" PROVE Handled(s, k, h, acc, C)
  <2>1. Handled(s, k, g, acc, C) /\ h[s[k].node] = g[s[k].node]
    BY <1>1 DEF Visits, AgreeOnOpen
  <2>. QED BY <2>1 DEF Handled, WantedOf, BelowOf
<1>. QED BY <1>1 DEF Visits

LEMMA VisitsAdvance ==
  ASSUME NEW s \in Seq(Frame), s # << >>, NEW f \in Frame,
         f.node = Last(s).node, f.path = Last(s).path, f.pc # "start",
         NEW h, NEW acc, NEW O, NEW C, Visits(s, h, acc, O, C),
         \A j \in WantedOf(f, h, acc) :
           j < f.i \/ (j = f.i /\ f.pc = "afterChild") => BelowOf(f, h, j) \in C
  PROVE  Visits([s EXCEPT ![Len(s)] = f], h, acc, O \cup {PosOf(f)}, C)
<1> DEFINE t == [s EXCEPT ![Len(s)] = f]
<1>1. /\ Len(s) \in 1 .. Len(s) /\ Last(s) = s[Len(s)] /\ Len(s) \in Nat
      /\ Len(t) = Len(s) /\ t[Len(s)] = f
      /\ \A k \in 1 .. Len(s) - 1 : t[k] = s[k]
  BY ReplaceTop, EmptySeq DEF Last
<1> HIDE DEF t
<1>2. ASSUME NEW k \in 1 .. Len(t), t[k].pc # "start"
      PROVE  PosOf(t[k]) \in O \cup {PosOf(f)} /\ Handled(t, k, h, acc, C)
  <2>1. CASE k = Len(s)
    <3>1. t[k] = f
      BY <1>1, <2>1
    <3>2. \A j : Over(j, t, k) => j < f.i \/ (j = f.i /\ f.pc = "afterChild")
      BY <3>1 DEF Over
    <3>. QED BY <3>1, <3>2 DEF Handled
  <2>2. CASE k # Len(s)
    <3>1. k \in 1 .. Len(s) - 1 /\ k \in 1 .. Len(s) /\ k # Len(t)
      BY <1>1, <2>2
    <3>2. t[k] = s[k]
      BY <1>1, <3>1
    <3>3. PosOf(s[k]) \in O /\ Handled(s, k, h, acc, C)
      BY <1>2, <3>1, <3>2 DEF Visits
    <3>4. \A j : Over(j, t, k) => Over(j, s, k)
      BY <3>1, <3>2 DEF Over
    <3>. QED BY <3>2, <3>3, <3>4 DEF Handled
  <2>. QED BY <2>1, <2>2
<1>3. \A k \in 1 .. Len(s) : PosOf(t[k]) = PosOf(s[k])
  BY <1>1 DEF PosOf
<1>4. \A x \in O \cup {PosOf(f)} : x \in C \/ \E k \in 1 .. Len(t) : x = PosOf(t[k])
  BY <1>1, <1>3 DEF Visits
<1>5. \A k \in 1 .. Len(t) - 1 : << TypeOf[t[k].node], TypeOf[t[k].child] >> \in acc
  BY <1>1 DEF Visits
<1>6. Visits(t, h, acc, O \cup {PosOf(f)}, C)
  BY <1>2, <1>4, <1>5 DEF Visits
<1>. QED BY <1>6 DEF t

(* The innermost activation is at the child its caller waits for.          *)
LEMMA ChildPosition ==
  ASSUME NEW r, NEW h, NEW s \in Seq(Frame), s # << >>, IsWalk(s, r, h),
         NEW k \in 1 .. Len(s) - 1
  PROVE  /\ s[k].pc = "afterChild" /\ s[k].i \in 0 .. Len(h[s[k].node]) - 1
         /\ s[k + 1].node = s[k].child
         /\ s[k].child = h[s[k].node][s[k].i + 1]
         /\ PosOf(s[k + 1]) = BelowOf(s[k], h, s[k].i)
<1>1. Len(s) \in Nat /\ k \in 1 .. Len(s) /\ k + 1 \in 1 .. Len(s) /\ k \in Nat
  BY EmptySeq
<1>2. /\ s[k].path \in Seq(Nat) /\ s[k + 1].path \in Seq(Nat)
      /\ s[k].i \in Nat /\ s[k].size \in Nat
  BY <1>1, FrameAt DEF TreePath
<1>3. IndexOK(s[k], h) /\ WaitsFor(s, k) /\ RecordsIndices(s, k) /\ RecordsIndices(s, k + 1)
  BY <1>1 DEF IsWalk
<1>4. s[k].pc = "afterChild" /\ s[k + 1].node = s[k].child
  BY <1>3 DEF WaitsFor
<1>5. s[k].i < Len(h[s[k].node]) /\ s[k].child = h[s[k].node][s[k].i + 1]
      /\ Len(h[s[k].node]) = s[k].size
  BY <1>3, <1>4 DEF IndexOK, InLoop
<1>6. s[k + 1].path = Append(s[k].path, s[k].i)
  <2> DEFINE p == s[k].path
             q == s[k + 1].path
             a == Append(p, s[k].i)
  <2>1. Len(p) = k - 1 /\ Len(q) = k
    BY <1>1, <1>3 DEF RecordsIndices
  <2>2. /\ \A j \in 1 .. k - 1 : p[j] = s[j].i
        /\ \A j \in 1 .. k : q[j] = s[j].i
    BY <1>1, <1>3 DEF RecordsIndices
  <2> HIDE DEF p, q
  <2>3. p \in Seq(Nat) /\ q \in Seq(Nat)
    BY <1>2 DEF p, q
  <2>4. a \in Seq(Nat) /\ Len(a) = k /\ a[k] = s[k].i /\ \A j \in 1 .. k - 1 : a[j] = p[j]
    BY <1>1, <1>2, <2>1, <2>3, AppendProperties
  <2> HIDE DEF a
  <2>5. \A j \in 1 .. k : q[j] = a[j]
    <3>1. \A j \in 1 .. k : j \in 1 .. k - 1 \/ j = k
      BY <1>1
    <3>. QED BY <2>2, <2>4, <3>1
  <2>6. q = a
    BY <2>1, <2>3, <2>4, <2>5, SeqEqual
  <2>. QED BY <2>6 DEF p, q, a
<1>. QED BY <1>2, <1>4, <1>5, <1>6 DEF PosOf, BelowOf, push_back

LEMMA VisitsReturn ==
  ASSUME NEW r, NEW h, NEW s \in Seq(Frame), s # << >>, IsWalk(s, r, h),
         NEW acc, NEW O, NEW C, Visits(s, h, acc, O, C), NEW P, P \subseteq {PosOf(Last(s))}
  PROVE  Visits(Front(s), h, acc, O \cup P, C \cup {PosOf(Last(s))})
<1> DEFINE t == Front(s)
           D == C \cup {PosOf(Last(s))}
<1>1. /\ Len(s) \in 1 .. Len(s) /\ Len(s) \in Nat /\ Last(s) = s[Len(s)]
      /\ t \in Seq(Frame) /\ Len(t) = Len(s) - 1
      /\ \A k \in 1 .. Len(s) - 1 : t[k] = s[k]
  BY PopTop, EmptySeq DEF Last
<1> HIDE DEF t
<1>2. ASSUME NEW k \in 1 .. Len(t), t[k].pc # "start"
      PROVE  PosOf(t[k]) \in O \cup P /\ Handled(t, k, h, acc, D)
  <2>1. k \in 1 .. Len(s) - 1 /\ k \in 1 .. Len(s) /\ t[k] = s[k] /\ k # Len(s)
    BY <1>1
  <2>2. PosOf(s[k]) \in O /\ Handled(s, k, h, acc, C)
    BY <1>2, <2>1 DEF Visits
  <2>3. ASSUME NEW j \in WantedOf(t[k], h, acc), Over(j, t, k)
        PROVE  BelowOf(t[k], h, j) \in D
    <3>1. CASE j < s[k].i
      BY <2>1, <2>2, <2>3, <3>1 DEF Handled, Over
    <3>2. CASE k = Len(t) /\ j = s[k].i
      <4>1. PosOf(s[k + 1]) = BelowOf(s[k], h, s[k].i)
        BY <2>1, ChildPosition
      <4>2. k + 1 = Len(s)
        BY <1>1, <3>2
      <4>. QED BY <1>1, <2>1, <3>2, <4>1, <4>2
    <3>. QED BY <2>1, <2>3, <3>1, <3>2 DEF Over
  <2>. QED BY <2>1, <2>2, <2>3 DEF Handled
<1>3. ASSUME NEW x \in O \cup P PROVE x \in D \/ \E k \in 1 .. Len(t) : x = PosOf(t[k])
  <2>1. CASE x \in P
    BY <2>1
  <2>2. CASE x \in C
    BY <2>2
  <2>3. CASE \E k \in 1 .. Len(s) : x = PosOf(s[k])
    <3>1. PICK k \in 1 .. Len(s) : x = PosOf(s[k])
      BY <2>3
    <3>2. CASE k = Len(s)
      BY <1>1, <3>1, <3>2
    <3>3. CASE k # Len(s)
      BY <1>1, <3>1, <3>3
    <3>. QED BY <3>2, <3>3
  <2>. QED BY <2>1, <2>2, <2>3 DEF Visits
<1>4. \A k \in 1 .. Len(t) - 1 : << TypeOf[t[k].node], TypeOf[t[k].child] >> \in acc
  BY <1>1 DEF Visits
<1>5. Visits(t, h, acc, O \cup P, D)
  BY <1>2, <1>3, <1>4 DEF Visits
<1>. QED BY <1>5 DEF t

LEMMA VisitsCall ==
  ASSUME NEW s \in Seq(Frame), s # << >>, Last(s).pc = "visitChild",
         NEW w \in Frame, w.node = Last(s).node, w.path = Last(s).path, w.i = Last(s).i,
         w.child = Last(s).child,
         NEW f \in Frame, f.pc = "start",
         NEW h, NEW acc, NEW O, NEW C, Visits(s, h, acc, O, C),
         << TypeOf[w.node], TypeOf[w.child] >> \in acc
  PROVE  Visits(Append([s EXCEPT ![Len(s)] = w], f), h, acc, O, C)
<1> DEFINE u == [s EXCEPT ![Len(s)] = w]
           t == Append(u, f)
<1>1. /\ Len(s) \in 1 .. Len(s) /\ Len(s) \in Nat /\ Last(s) = s[Len(s)]
      /\ u \in Seq(Frame) /\ Len(u) = Len(s) /\ u[Len(s)] = w
      /\ \A k \in 1 .. Len(s) - 1 : u[k] = s[k]
  BY ReplaceTop, EmptySeq DEF Last
<1> HIDE DEF u
<1>2. /\ Len(t) = Len(s) + 1 /\ t[Len(s) + 1] = f
      /\ \A k \in 1 .. Len(s) : t[k] = u[k]
  BY <1>1, PushTop
<1> HIDE DEF t
<1>3. ASSUME NEW k \in 1 .. Len(s)
      PROVE  /\ t[k].node = s[k].node /\ t[k].path = s[k].path /\ t[k].i = s[k].i
             /\ t[k].child = s[k].child
             /\ k # Len(s) => t[k] = s[k]
  <2>1. CASE k = Len(s)
    BY <1>1, <1>2, <2>1
  <2>2. CASE k # Len(s)
    BY <1>1, <1>2, <2>2
  <2>. QED BY <2>1, <2>2
<1>4. ASSUME NEW k \in 1 .. Len(t), t[k].pc # "start"
      PROVE  PosOf(t[k]) \in O /\ Handled(t, k, h, acc, C)
  <2>1. k \in 1 .. Len(s) /\ k # Len(t)
    <3>1. k # Len(s) + 1
      BY <1>2, <1>4
    <3>. QED BY <1>1, <1>2, <3>1
  <2>2. s[k].pc # "start"
    <3>1. CASE k = Len(s)
      BY <1>1, <3>1
    <3>2. CASE k # Len(s)
      BY <1>3, <1>4, <2>1, <3>2
    <3>. QED BY <3>1, <3>2
  <2>3. PosOf(s[k]) \in O /\ Handled(s, k, h, acc, C)
    BY <2>1, <2>2 DEF Visits
  <2>4. \A j : Over(j, t, k) => Over(j, s, k)
    BY <1>3, <2>1 DEF Over
  <2>5. PosOf(t[k]) = PosOf(s[k])
    BY <1>3, <2>1 DEF PosOf
  <2>6. WantedOf(t[k], h, acc) = WantedOf(s[k], h, acc)
    BY <1>3, <2>1 DEF WantedOf
  <2>7. \A j : BelowOf(t[k], h, j) = BelowOf(s[k], h, j)
    BY <1>3, <2>1 DEF BelowOf
  <2>. QED BY <2>3, <2>4, <2>5, <2>6, <2>7 DEF Handled
<1>5. \A x \in O : x \in C \/ \E k \in 1 .. Len(t) : x = PosOf(t[k])
  <2>1. \A k \in 1 .. Len(s) : k \in 1 .. Len(t) /\ PosOf(t[k]) = PosOf(s[k])
    BY <1>1, <1>2, <1>3 DEF PosOf
  <2>. QED BY <2>1 DEF Visits
<1>6. ASSUME NEW k \in 1 .. Len(t) - 1
      PROVE  << TypeOf[t[k].node], TypeOf[t[k].child] >> \in acc
  <2>1. k \in 1 .. Len(s)
    BY <1>1, <1>2
  <2>2. CASE k = Len(s)
    BY <1>1, <1>2, <2>2
  <2>3. CASE k # Len(s)
    <3>1. k \in 1 .. Len(s) - 1 /\ t[k] = s[k]
      BY <1>1, <1>3, <2>1, <2>3
    <3>. QED BY <3>1 DEF Visits
  <2>. QED BY <2>2, <2>3
<1>7. Visits(t, h, acc, O, C)
  BY <1>4, <1>5, <1>6 DEF Visits
<1>. QED BY <1>7 DEF t, u

-----------------------------------------------------------------------------
(* The positions in the log.                                               *)
LEMMA PositionsLogged ==
  ASSUME TypeOK, stack # << >>, NEW cb \in Callback, Call(cb)
  PROVE  /\ opened' = opened \cup (IF cb \in {"pre", "leaf"} THEN {PosOf(Top)} ELSE {})
         /\ closed' = closed \cup (IF cb \in {"post", "leaf"} THEN {PosOf(Top)} ELSE {})
<1> DEFINE e == Now(cb)
<1>1. e \in Event /\ e.cb = cb /\ [path |-> e.path, node |-> e.node] = PosOf(Top)
  BY TopFrame DEF Now, Event, PosOf
<1>2. log \in Seq(Event) /\ log' = Append(log, e) /\ Len(log) \in Nat
  BY DEF TypeOK, Call, Now
<1> HIDE DEF e
<1>3. /\ Len(log') = Len(log) + 1 /\ log'[Len(log) + 1] = e
      /\ \A n \in 1 .. Len(log) : log'[n] = log[n]
  BY <1>1, <1>2, PushTop
<1>4. DOMAIN log = 1 .. Len(log) /\ DOMAIN log' = 1 .. Len(log) + 1
  BY <1>1, <1>2, <1>3, LenProperties
<1>5. ToSet(log') = ToSet(log) \cup {e}
  <2>1. \A n \in 1 .. Len(log) + 1 : n \in 1 .. Len(log) \/ n = Len(log) + 1
    BY <1>2
  <2>2. 1 .. Len(log) \subseteq 1 .. Len(log) + 1 /\ Len(log) + 1 \in 1 .. Len(log) + 1
    BY <1>2
  <2>. QED BY <1>3, <1>4, <2>1, <2>2 DEF ToSet
<1>6. opened' = {[path |-> x.path, node |-> x.node] :
                   x \in {y \in ToSet(log) \cup {e} : y.cb \in {"pre", "leaf"}}}
  BY <1>5 DEF opened
<1>7. closed' = {[path |-> x.path, node |-> x.node] :
                   x \in {y \in ToSet(log) \cup {e} : y.cb \in {"post", "leaf"}}}
  BY <1>5 DEF closed
<1>8. opened' = opened \cup (IF cb \in {"pre", "leaf"} THEN {PosOf(Top)} ELSE {})
  <2> HIDE DEF Callback
  <2>. QED BY <1>1, <1>6 DEF opened
<1>9. closed' = closed \cup (IF cb \in {"post", "leaf"} THEN {PosOf(Top)} ELSE {})
  <2> HIDE DEF Callback
  <2>. QED BY <1>1, <1>7 DEF closed
<1>. QED BY <1>8, <1>9

LEMMA LoggedPositions ==
  ASSUME TypeOK
  PROVE  /\ \A x \in opened : \E n \in 1 .. Len(log) :
              log[n] \in Event /\ x.path = log[n].path /\ log[n].cb \in {"pre", "leaf"}
         /\ \A x \in closed : \E n \in 1 .. Len(log) :
              log[n] \in Event /\ x.path = log[n].path /\ log[n].cb \in {"post", "leaf"}
<1>1. DOMAIN log = 1 .. Len(log) /\ \A n \in 1 .. Len(log) : log[n] \in Event
  BY LenProperties, ElementOfSeq DEF TypeOK
<1>. QED BY <1>1 DEF opened, closed, ToSet

(* Nothing has been said yet about the position of an activation that      *)
(* begins, or below it,                                                    *)
LEMMA Untouched ==
  ASSUME IInv, stack # << >>, Top.pc = "start", NEW e \in Event, Past(e, stack),
         Len(e.path) >= Len(Top.path),
         \A j \in 1 .. Len(Top.path) : e.path[j] = Top.path[j]
  PROVE  FALSE
<1>1. /\ Len(stack) \in 1 .. Len(stack) /\ Len(stack) \in Nat /\ Top = stack[Len(stack)]
      /\ stack \in Seq(Frame)
  BY TopFrame DEF IInv, TypeOK
<1>2. e.path \in TreePath /\ Len(e.path) \in Nat
  BY DEF Event, TreePath
<1>3. RecordsIndices(stack, Len(stack)) /\ IndexOK(Top, held)
  BY <1>1 DEF IInv, IsWalk
<1>4. /\ Len(Top.path) = Len(stack) - 1 /\ Top.i = 0
      /\ \A j \in 1 .. Len(stack) - 1 : Top.path[j] = stack[j].i
  BY <1>1, <1>3 DEF RecordsIndices, IndexOK
<1>5. ASSUME NEW k \in 1 .. Len(stack), e.path = stack[k].path, Made(e, stack[k])
      PROVE  FALSE
  <2>1. Len(e.path) = k - 1
    BY <1>5 DEF IInv, IsWalk, RecordsIndices
  <2>2. k = Len(stack)
    BY <1>1, <1>2, <1>4, <2>1
  <2>. QED BY <1>1, <1>5, <2>2 DEF Made
<1>6. ASSUME NEW k \in 1 .. Len(stack), Branches(e.path, stack, k), Over(e.path[k], stack, k)
      PROVE  FALSE
  <2>1. e.path[k] \in Nat /\ stack[k].i \in Nat
    BY <1>1, <1>2, <1>6, FrameAt, ElementOfSeq DEF Branches, TreePath
  <2>2. CASE k = Len(stack)
    BY <1>1, <1>4, <1>6, <2>1, <2>2 DEF Over
  <2>3. CASE k # Len(stack)
    <3>1. k \in 1 .. Len(stack) - 1 /\ k \in 1 .. Len(Top.path)
      BY <1>1, <1>4, <2>3
    <3>2. e.path[k] = stack[k].i
      BY <1>4, <3>1
    <3>. QED BY <1>6, <2>1, <2>3, <3>2 DEF Over
  <2>. QED BY <2>2, <2>3
<1>. QED BY <1>1, <1>5, <1>6, EmptySeq DEF Past

(* and the last call for an activation has not been made while it is on    *)
(* the stack.                                                              *)
LEMMA NotClosed ==
  ASSUME IInv, AllPast(log, stack), NEW k \in 1 .. Len(stack)
  PROVE  PosOf(stack[k]) \notin closed
<1> SUFFICES ASSUME PosOf(stack[k]) \in closed PROVE FALSE
  OBVIOUS
<1>1. stack \in Seq(Frame) /\ Len(stack) \in Nat /\ TypeOK
  BY DEF IInv, TypeOK
<1>2. PICK n \in 1 .. Len(log) : /\ log[n] \in Event /\ stack[k].path = log[n].path
                                 /\ log[n].cb \in {"post", "leaf"}
  BY <1>1, LoggedPositions DEF PosOf
<1>3. Past(log[n], stack) /\ stack # << >>
  BY EmptySeq DEF AllPast
<1>4. RecordsIndices(stack, k)
  BY DEF IInv, IsWalk
<1>5. PICK m \in 1 .. Len(stack) :
        Branches(log[n].path, stack, m) /\ Over(log[n].path[m], stack, m)
  BY <1>2, <1>3 DEF Past, Made
<1>6. m \in 1 .. k - 1 /\ m # Len(stack)
  BY <1>1, <1>2, <1>4, <1>5 DEF Branches, RecordsIndices
<1>7. log[n].path[m] = stack[m].i /\ stack[m].i \in Nat
  BY <1>1, <1>2, <1>4, <1>6, FrameAt DEF RecordsIndices
<1>. QED BY <1>5, <1>6, <1>7 DEF Over

LEMMA NotOpened ==
  ASSUME IInv, AllPast(log, stack), stack # << >>, Top.pc = "start", NEW x \in opened
  PROVE  x.path # Top.path /\ Len(Top.path) > 0
<1>1. TypeOK /\ Top.path \in TreePath /\ Len(Top.path) \in Nat
  BY TopFrame DEF IInv, TreePath
<1>2. PICK n \in 1 .. Len(log) : log[n] \in Event /\ x.path = log[n].path
  BY <1>1, LoggedPositions
<1>3. Past(log[n], stack)
  BY DEF AllPast
<1>4. Len(log[n].path) \in Nat
  BY <1>2 DEF Event, TreePath
<1>5. CASE x.path = Top.path
  <2>1. Len(log[n].path) >= Len(Top.path)
    BY <1>1, <1>2, <1>5
  <2>. QED BY <1>2, <1>3, <1>5, <2>1, Untouched
<1>6. CASE ~ (Len(Top.path) > 0)
  <2>1. Len(log[n].path) >= Len(Top.path) /\ \A j : j \notin 1 .. Len(Top.path)
    BY <1>1, <1>4, <1>6
  <2>. QED BY <1>2, <1>3, <2>1, Untouched
<1>. QED BY <1>5, <1>6

-----------------------------------------------------------------------------
(* Every step keeps Visits,                                                *)
Visiting == Visits(stack, held, accepted, opened, closed)

LEMMA InitVisiting == Init => AllPast(log, stack) /\ Visiting
<1> SUFFICES ASSUME Init PROVE AllPast(log, stack) /\ Visiting
  OBVIOUS
<1> DEFINE f == Activation(root, << >>)
<1>1. stack = << f >> /\ f.pc = "start" /\ log = << >>
  BY DEF Init, Activation
<1> HIDE DEF f
<1>2. /\ Len(stack) = 1 /\ stack[1].pc = "start"
      /\ DOMAIN log = {} /\ \A n : n \notin 1 .. Len(log)
  BY <1>1
<1>3. opened = {}
  BY <1>2 DEF opened, ToSet
<1>. QED BY <1>2, <1>3 DEF Visiting, Visits, AllPast

LEMMA WantedIsWithin ==
  ASSUME IInv, stack # << >>, NEW h \in Holdings, NEW j \in WantedOf(Top, h, accepted)
  PROVE  j \in Nat /\ j < Len(h[Top.node])
<1>1. Len(h[Top.node]) \in Nat
  BY TopFrame, ChildIsNode DEF IInv
<1>. QED BY <1>1 DEF WantedOf

(* The innermost activation goes on to another point of the loop, where it *)
(* is done with the same children.                                         *)
LEMMA VisitingOn ==
  ASSUME IInv, Visiting, stack # << >>, Top.pc # "start",
         NEW f \in Frame, stack' = [stack EXCEPT ![Len(stack)] = f],
         f.node = Top.node, f.path = Top.path, f.pc # "start",
         AgreeOnOpen(stack, held, held'),
         \A j \in WantedOf(Top, held, accepted) :
           j < f.i \/ (j = f.i /\ f.pc = "afterChild") =>
             j < Top.i \/ (j = Top.i /\ Top.pc = "afterChild"),
         opened' = opened, closed' = closed, accepted' = accepted
  PROVE  Visiting'
<1>1. /\ Len(stack) \in 1 .. Len(stack) /\ Top = stack[Len(stack)] /\ stack \in Seq(Frame)
  BY TopFrame DEF IInv, TypeOK
<1>2. held'[Top.node] = held[Top.node]
  BY <1>1 DEF AgreeOnOpen
<1>3. Visits(stack, held', accepted, opened, closed)
  BY VisitsKept DEF Visiting
<1>4. PosOf(Top) \in opened /\ Handled(stack, Len(stack), held', accepted, closed)
  BY <1>1, <1>3 DEF Visits
<1>5. PosOf(f) = PosOf(Top)
  BY DEF PosOf
<1>6. ASSUME NEW j \in WantedOf(f, held', accepted),
             j < f.i \/ (j = f.i /\ f.pc = "afterChild")
      PROVE  BelowOf(f, held', j) \in closed
  <2>1. j \in WantedOf(Top, held, accepted) /\ j \in WantedOf(Top, held', accepted)
    BY <1>2 DEF WantedOf
  <2>2. Over(j, stack, Len(stack))
    BY <1>1, <1>6, <2>1 DEF Over
  <2>3. BelowOf(Top, held', j) \in closed
    BY <1>1, <1>4, <2>1, <2>2 DEF Handled
  <2>. QED BY <2>3 DEF BelowOf
<1>7. Visits([stack EXCEPT ![Len(stack)] = f], held', accepted, opened \cup {PosOf(f)}, closed)
  BY <1>1, <1>3, <1>6, VisitsAdvance DEF Top
<1>8. opened \cup {PosOf(f)} = opened
  BY <1>4, <1>5
<1>. QED BY <1>7, <1>8 DEF Visiting

LEMMA OpenKept ==
  ASSUME IInv, NEW open, CallbackChanges(open),
         NEW k \in 1 .. Len(stack), stack[k].node \in open
  PROVE  held'[stack[k].node] = held[stack[k].node]
<1>1. TypeOK /\ stack[k].node \in Node \cap open
  BY FrameAt DEF IInv, TypeOK
<1>. QED BY <1>1, ChangesAreTyped

LEMMA FrontOpenKept ==
  ASSUME IInv, stack # << >>, CallbackChanges(NodesOf(Front(stack))),
         NEW k \in 1 .. Len(stack) - 1
  PROVE  held'[stack[k].node] = held[stack[k].node]
<1>1. Len(Front(stack)) = Len(stack) - 1 /\ Front(stack)[k] = stack[k]
  BY PopTop DEF IInv, TypeOK
<1>2. stack[k].node \in NodesOf(Front(stack))
  BY <1>1 DEF NodesOf
<1>3. k \in 1 .. Len(stack)
  BY TopFrame DEF IInv
<1>. QED BY <1>2, <1>3, OpenKept

LEMMA VisitingReturns ==
  ASSUME IInv, Visiting, stack # << >>, CallbackChanges(NodesOf(Front(stack))),
         Return, accepted' = accepted, NEW P, P \subseteq {PosOf(Top)},
         opened' = opened \cup P, closed' = closed \cup {PosOf(Top)}
  PROVE  Visiting'
<1>1. /\ stack \in Seq(Frame) /\ IsWalk(stack, root, held)
      /\ Len(Front(stack)) = Len(stack) - 1
      /\ \A k \in 1 .. Len(stack) - 1 : Front(stack)[k] = stack[k]
  BY PopTop DEF IInv, TypeOK
<1>2. Visits(Front(stack), held, accepted, opened \cup P, closed \cup {PosOf(Top)})
  BY <1>1, VisitsReturn DEF Visiting, Top
<1>3. AgreeOnOpen(Front(stack), held, held')
  BY <1>1, FrontOpenKept DEF AgreeOnOpen
<1>4. Visits(Front(stack), held', accepted, opened \cup P, closed \cup {PosOf(Top)})
  BY <1>2, <1>3, VisitsKept
<1>. QED BY <1>4 DEF Visiting, Return

LEMMA VisitingKept ==
  ASSUME IInv, IInv', Visiting, [Next]_vars
  PROVE  Visiting'
<1>t. /\ TypeOK
      /\ stack # << >> => /\ Top \in Frame /\ Top.i \in Nat
                          /\ Len(stack) \in 1 .. Len(stack) /\ Top = stack[Len(stack)]
                          /\ stack \in Seq(Frame) /\ IndexOK(Top, held)
  BY TopFrame DEF IInv, TypeOK, IsWalk
<1>h. held \in Holdings /\ held' \in Holdings
  BY DEF IInv, TypeOK, Holdings
<1>k. ASSUME CallbackChanges(NodesOf(stack)) PROVE AgreeOnOpen(stack, held, held')
  BY <1>k, OpenKept DEF AgreeOnOpen, NodesOf
<1>1. CASE Leaf
  <2>1. /\ stack # << >> /\ Call("leaf") /\ Return /\ accepted' = accepted
        /\ CallbackChanges(NodesOf(Front(stack)))
    BY <1>1 DEF Leaf, At
  <2>2. opened' = opened \cup {PosOf(Top)} /\ closed' = closed \cup {PosOf(Top)}
    BY <1>t, <2>1, PositionsLogged DEF Callback
  <2>. QED BY <2>1, <2>2, VisitingReturns
<1>2. CASE Post
  <2>1. /\ stack # << >> /\ Call("post") /\ Return /\ accepted' = accepted
        /\ CallbackChanges(NodesOf(Front(stack)))
    BY <1>2 DEF Post, At
  <2>2. opened' = opened \cup {} /\ closed' = closed \cup {PosOf(Top)}
    BY <1>t, <2>1, PositionsLogged DEF Callback
  <2>. QED BY <2>1, <2>2, VisitingReturns
<1>3. CASE Pre
  <2>1. /\ stack # << >> /\ Top.pc = "start" /\ Call("pre") /\ accepted' = accepted
        /\ CallbackChanges(NodesOf(Front(stack)))
    BY <1>3 DEF Pre, At
  <2>2. opened' = opened \cup {PosOf(Top)} /\ closed' = closed
    BY <1>t, <2>1, PositionsLogged DEF Callback
  <2>3. PICK f \in Frame : /\ stack' = [stack EXCEPT ![Len(stack)] = f]
                           /\ f.node = Top.node /\ f.path = Top.path
                           /\ f.i = Top.i /\ f.pc = "loop"
    BY <1>3, PreMoves DEF Advances
  <2>4. AgreeOnOpen(stack, held, held')
    <3>1. ASSUME NEW k \in 1 .. Len(stack), stack[k].pc # "start"
          PROVE  held'[stack[k].node] = held[stack[k].node]
      <4>1. k \in 1 .. Len(stack) - 1
        BY <1>t, <2>1, <3>1
      <4>. QED BY <2>1, <4>1, FrontOpenKept
    <3>. QED BY <3>1 DEF AgreeOnOpen
  <2>5. Visits(stack, held', accepted, opened, closed)
    BY <2>4, VisitsKept DEF Visiting
  <2>6. \A j \in WantedOf(f, held', accepted) :
          ~ (j < f.i \/ (j = f.i /\ f.pc = "afterChild"))
    <3>1. f.i = 0
      BY <1>t, <2>1, <2>3 DEF IndexOK
    <3>2. WantedOf(f, held', accepted) = WantedOf(Top, held', accepted)
      BY <2>3 DEF WantedOf
    <3>3. \A j \in WantedOf(Top, held', accepted) : j \in Nat
      BY <1>h, <2>1, WantedIsWithin
    <3>. QED BY <2>3, <3>1, <3>2, <3>3
  <2>7. Visits([stack EXCEPT ![Len(stack)] = f], held', accepted,
               opened \cup {PosOf(f)}, closed)
    BY <1>t, <2>1, <2>3, <2>5, <2>6, VisitsAdvance DEF Top
  <2>8. PosOf(f) = PosOf(Top)
    BY <2>3 DEF PosOf
  <2>. QED BY <2>1, <2>2, <2>3, <2>7, <2>8 DEF Visiting
<1>4. CASE BeforeChild
  <2>1. /\ stack # << >> /\ Top.pc = "loop" /\ Call("beforeChild") /\ accepted' = accepted
        /\ CallbackChanges(NodesOf(stack))
    BY <1>4 DEF BeforeChild, At
  <2>2. opened' = opened /\ closed' = closed
    BY <1>t, <2>1, PositionsLogged DEF Callback
  <2>3. PICK f \in Frame : /\ stack' = [stack EXCEPT ![Len(stack)] = f]
                           /\ f.node = Top.node /\ f.path = Top.path
                           /\ f.i = Top.i /\ f.pc \in {"in", "visitChild"}
    BY <1>4, BeforeChildMoves DEF Advances
  <2>. QED BY <1>k, <2>1, <2>2, <2>3, VisitingOn
<1>5. CASE In
  <2>1. /\ stack # << >> /\ Top.pc = "in" /\ Call("in") /\ accepted' = accepted
        /\ CallbackChanges(NodesOf(stack)) /\ Goto("visitChild")
    BY <1>5 DEF In, At
  <2>2. opened' = opened /\ closed' = closed
    BY <1>t, <2>1, PositionsLogged DEF Callback
  <2>3. PICK f \in Frame : /\ stack' = [stack EXCEPT ![Len(stack)] = f]
                           /\ f.node = Top.node /\ f.path = Top.path
                           /\ f.i = Top.i /\ f.pc = "visitChild"
    BY <2>1, GotoMoves DEF Advances
  <2>. QED BY <1>k, <2>1, <2>2, <2>3, VisitingOn
<1>6. CASE VisitChild
  <2>1. /\ stack # << >> /\ Top.pc = "visitChild" /\ Accepts(Top.node, Top.child)
        /\ accepted' = accepted /\ held' = held /\ log' = log
    BY <1>6 DEF VisitChild, At
  <2>2. opened' = opened /\ closed' = closed
    BY <2>1 DEF opened, closed
  <2>3. PICK w \in Frame, f \in Frame :
          /\ stack' = Append([stack EXCEPT ![Len(stack)] = w], f)
          /\ w.node = Top.node /\ w.path = Top.path /\ w.i = Top.i
          /\ w.child = Top.child /\ f.pc = "start"
    BY <1>6, VisitChildMoves DEF Calls
  <2>4. << TypeOf[w.node], TypeOf[w.child] >> \in accepted
    BY <2>1, <2>3 DEF Accepts
  <2>5. Visits(Append([stack EXCEPT ![Len(stack)] = w], f), held, accepted, opened, closed)
    BY <1>t, <2>1, <2>3, <2>4, VisitsCall DEF Visiting, Top
  <2>. QED BY <2>1, <2>2, <2>3, <2>5 DEF Visiting
<1>7. CASE SkipChild
  <2>1. /\ stack # << >> /\ Top.pc = "visitChild" /\ ~ Accepts(Top.node, Top.child)
        /\ accepted' = accepted /\ held' = held /\ log' = log /\ Goto("afterChild")
    BY <1>7 DEF SkipChild, At
  <2>2. opened' = opened /\ closed' = closed
    BY <2>1 DEF opened, closed
  <2>3. PICK f \in Frame : /\ stack' = [stack EXCEPT ![Len(stack)] = f]
                           /\ f.node = Top.node /\ f.path = Top.path
                           /\ f.i = Top.i /\ f.pc = "afterChild"
    BY <2>1, GotoMoves DEF Advances
  <2>4. Top.child = held[Top.node][Top.i + 1]
    BY <1>t, <2>1 DEF IndexOK, InLoop
  <2>5. Top.i \notin WantedOf(Top, held, accepted)
    BY <2>1, <2>4 DEF WantedOf, Accepts
  <2>6. AgreeOnOpen(stack, held, held')
    BY <2>1 DEF AgreeOnOpen
  <2>. QED BY <2>1, <2>2, <2>3, <2>5, <2>6, VisitingOn
<1>8. CASE AfterChild
  <2>1. /\ stack # << >> /\ Top.pc = "afterChild" /\ Call("afterChild")
        /\ accepted' = accepted /\ CallbackChanges(NodesOf(stack))
    BY <1>8 DEF AfterChild, At
  <2>2. opened' = opened /\ closed' = closed
    BY <1>t, <2>1, PositionsLogged DEF Callback
  <2>3. PICK f \in Frame : /\ stack' = [stack EXCEPT ![Len(stack)] = f]
                           /\ f.node = Top.node /\ f.path = Top.path
                           /\ f.i = Top.i + 1 /\ f.pc = "loop"
    BY <1>8, AfterChildMoves DEF Advances
  <2>4. \A j \in WantedOf(Top, held, accepted) : j < f.i => j < Top.i \/ j = Top.i
    <3>1. \A j \in WantedOf(Top, held, accepted) : j \in Nat
      BY <1>h, <2>1, WantedIsWithin
    <3>. QED BY <1>t, <2>1, <2>3, <3>1
  <2>. QED BY <1>k, <2>1, <2>2, <2>3, <2>4, VisitingOn
<1>9. CASE UNCHANGED vars
  BY <1>9 DEF vars, Visiting, opened, closed
<1>. QED
  BY <1>1, <1>2, <1>3, <1>4, <1>5, <1>6, <1>7, <1>8, <1>9 DEF Next

(* and is a step of a depth-first visit, or moves nothing there.           *)
LEMMA AbstractTerms ==
  ASSUME NEW f
  PROVE  /\ Abstract!Wanted(PosOf(f)) = WantedOf(f, held, accepted)
         /\ \A i : Abstract!Below(PosOf(f), i) = BelowOf(f, held, i)
BY DEF Abstract!Wanted, WantedOf, Abstract!Below, BelowOf, PosOf, Abstract!push_back, push_back

LEMMA TopEnterable ==
  ASSUME IInv, AllPast(log, stack), Visiting, stack # << >>, Top.pc = "start"
  PROVE  /\ Abstract!Enterable(PosOf(Top))
         /\ PosOf(Top) \notin opened
         /\ \/ PosOf(Top) = Abstract!RootPosition
            \/ \E e \in opened : \E i \in Abstract!Wanted(e) : PosOf(Top) = Abstract!Below(e, i)
<1>1. /\ Len(stack) \in 1 .. Len(stack) /\ Len(stack) \in Nat /\ Top = stack[Len(stack)]
      /\ stack \in Seq(Frame) /\ IsWalk(stack, root, held)
      /\ Top.path \in TreePath /\ Len(Top.path) \in Nat
  BY TopFrame DEF IInv, TypeOK, TreePath
<1>2. PosOf(Top) \notin opened
  BY NotOpened DEF PosOf
<1>3. RecordsIndices(stack, Len(stack))
  BY <1>1 DEF IsWalk
<1>4. CASE Len(stack) = 1
  <2>1. Top.node = root /\ Len(Top.path) = 0
    BY <1>1, <1>3, <1>4 DEF IsWalk, RecordsIndices
  <2>2. opened = {}
    BY <1>1, <2>1, NotOpened
  <2>3. Top.path = << >>
    BY <1>1, <2>1 DEF TreePath
  <2>. QED BY <1>2, <2>1, <2>2, <2>3 DEF Abstract!Enterable, Abstract!RootPosition, PosOf
<1>5. CASE Len(stack) # 1
  <2> DEFINE k == Len(stack) - 1
             p == stack[k]
  <2>1. k \in 1 .. Len(stack) - 1 /\ k \in 1 .. Len(stack) /\ k + 1 = Len(stack)
    <3> HIDE DEF p
    <3>1. Len(stack) \in Nat /\ Len(stack) >= 2
      BY <1>1, <1>5
    <3> HIDE DEF IInv
    <3>. QED BY <3>1
  <2> HIDE DEF k
  <2>2. /\ p.pc = "afterChild" /\ p.i \in 0 .. Len(held[p.node]) - 1
        /\ p.child = held[p.node][p.i + 1]
        /\ PosOf(stack[k + 1]) = BelowOf(p, held, p.i)
    BY <1>1, <2>1, ChildPosition
  <2>3. /\ PosOf(p) \in opened /\ Handled(stack, k, held, accepted, closed)
        /\ << TypeOf[p.node], TypeOf[p.child] >> \in accepted
    BY <2>1, <2>2 DEF Visiting, Visits
  <2>4. PosOf(p) \notin closed
    BY <2>1, NotClosed
  <2>5. p.i \in WantedOf(p, held, accepted)
    BY <2>2, <2>3 DEF WantedOf
  <2>6. \A j \in WantedOf(p, held, accepted) : j < p.i => BelowOf(p, held, j) \in closed
    BY <2>3 DEF Handled, Over
  <2>7. PosOf(Top) = BelowOf(p, held, p.i)
    BY <1>1, <2>1, <2>2
  <2> HIDE DEF p
  <2>8. /\ p.i \in Abstract!Wanted(PosOf(p))
        /\ PosOf(Top) = Abstract!Below(PosOf(p), p.i)
        /\ \A j \in Abstract!Wanted(PosOf(p)) : j < p.i => Abstract!Below(PosOf(p), j) \in closed
    BY <2>5, <2>6, <2>7, AbstractTerms
  <2>. QED BY <1>2, <2>3, <2>4, <2>8 DEF Abstract!Enterable
<1>. QED BY <1>4, <1>5

LEMMA LeafIsLeaf ==
  ASSUME NEW n
  PROVE  Abstract!isLeaf(n) <=> isLeaf(n)
BY DEF Abstract!isLeaf, isLeaf, Abstract!TagOf, TagOf

(* Callbacks leave alone what is open before and after the step.           *)
LEMMA OpenPositionsKept ==
  ASSUME IInv, AllPast(log, stack), Visiting, closed \subseteq closed',
         \/ CallbackChanges(NodesOf(stack))
         \/ /\ stack # << >> /\ CallbackChanges(NodesOf(Front(stack)))
            /\ PosOf(Top) \notin opened \/ PosOf(Top) \in closed'
  PROVE  Abstract!OpenNodesKept
<1> SUFFICES ASSUME NEW p \in opened, p \notin closed' PROVE held'[p.node] = held[p.node]
  BY DEF Abstract!OpenNodesKept
<1>1. PICK k \in 1 .. Len(stack) : p = PosOf(stack[k])
  BY DEF Visiting, Visits
<1>2. p.node = stack[k].node
  BY <1>1 DEF PosOf
<1>3. CASE CallbackChanges(NodesOf(stack))
  BY <1>2, <1>3, OpenKept DEF NodesOf
<1>4. CASE /\ stack # << >> /\ CallbackChanges(NodesOf(Front(stack)))
           /\ PosOf(Top) \notin opened \/ PosOf(Top) \in closed'
  <2>1. Len(stack) \in Nat /\ Top = stack[Len(stack)]
    BY <1>4, TopFrame DEF IInv
  <2>2. k # Len(stack)
    BY <1>1, <1>4, <2>1
  <2>3. k \in 1 .. Len(stack) - 1
    BY <2>1, <2>2
  <2>. QED BY <1>2, <1>4, <2>3, FrontOpenKept
<1>. QED BY <1>3, <1>4

LEMMA StepIsVisit ==
  ASSUME IInv, AllPast(log, stack), Visiting, [Next]_vars
  PROVE  [Abstract!Next]_(Abstract!vars)
<1>t. TypeOK
  BY DEF IInv
<1>1. CASE Leaf
  <2>1. /\ stack # << >> /\ Top.pc = "start" /\ isLeaf(Top.node) /\ Call("leaf")
        /\ CallbackChanges(NodesOf(Front(stack))) /\ UNCHANGED << root, accepted >>
    BY <1>1 DEF Leaf, At
  <2>2. opened' = opened \cup {PosOf(Top)} /\ closed' = closed \cup {PosOf(Top)}
    BY <1>t, <2>1, PositionsLogged DEF Callback
  <2>3. Abstract!OpenNodesKept
    BY <2>1, <2>2, OpenPositionsKept
  <2>4. PosOf(Top).node = Top.node
    BY DEF PosOf
  <2>5. Abstract!VisitLeaf(PosOf(Top))
    BY <2>1, <2>2, <2>3, <2>4, TopEnterable, LeafIsLeaf DEF Abstract!VisitLeaf
  <2>6. Abstract!Visit
    BY <2>1, <2>5, TopEnterable DEF Abstract!Visit
  <2>. QED BY <2>6 DEF Abstract!Next
<1>2. CASE Pre
  <2>1. /\ stack # << >> /\ Top.pc = "start" /\ ~ isLeaf(Top.node) /\ Call("pre")
        /\ CallbackChanges(NodesOf(Front(stack))) /\ UNCHANGED << root, accepted >>
    BY <1>2 DEF Pre, At
  <2>2. opened' = opened \cup {PosOf(Top)} /\ closed' = closed
    BY <1>t, <2>1, PositionsLogged DEF Callback
  <2>3. Abstract!OpenNodesKept
    BY <2>1, <2>2, TopEnterable, OpenPositionsKept
  <2>4. PosOf(Top).node = Top.node
    BY DEF PosOf
  <2>5. Abstract!Enter(PosOf(Top))
    BY <2>1, <2>2, <2>3, <2>4, TopEnterable, LeafIsLeaf DEF Abstract!Enter
  <2>6. Abstract!Visit
    BY <2>1, <2>5, TopEnterable DEF Abstract!Visit
  <2>. QED BY <2>6 DEF Abstract!Next
<1>3. CASE Post
  <2>1. /\ stack # << >> /\ Top.pc = "loop" /\ Top.i = Top.size /\ Call("post")
        /\ CallbackChanges(NodesOf(Front(stack))) /\ UNCHANGED << root, accepted >>
    BY <1>3 DEF Post, At
  <2>2. opened' = opened /\ closed' = closed \cup {PosOf(Top)}
    BY <1>t, <2>1, PositionsLogged DEF Callback
  <2>3. Abstract!OpenNodesKept
    BY <2>1, <2>2, OpenPositionsKept
  <2>4. /\ Len(stack) \in 1 .. Len(stack) /\ Top = stack[Len(stack)] /\ IndexOK(Top, held)
    BY <1>t, <2>1, TopFrame DEF IInv, IsWalk
  <2>5. /\ PosOf(Top) \in opened /\ PosOf(Top) \notin closed
        /\ Handled(stack, Len(stack), held, accepted, closed)
    BY <2>1, <2>4, NotClosed DEF Visiting, Visits
  <2>6. ASSUME NEW i \in WantedOf(Top, held, accepted)
        PROVE  BelowOf(Top, held, i) \in closed
    <3>1. i < Top.i
      <4>1. held \in Holdings
        BY <1>t DEF TypeOK, Holdings
      <4>. QED BY <2>1, <2>4, <4>1, WantedIsWithin DEF IndexOK
    <3>. QED BY <2>4, <2>5, <3>1 DEF Handled, Over
  <2>7. \A i \in Abstract!Wanted(PosOf(Top)) : Abstract!Below(PosOf(Top), i) \in closed
    BY <2>6, AbstractTerms
  <2>8. Abstract!Leave(PosOf(Top))
    BY <2>1, <2>2, <2>3, <2>5, <2>7 DEF Abstract!Leave
  <2>. QED BY <2>5, <2>8 DEF Abstract!Next, Abstract!Visit
<1>4. CASE BeforeChild \/ In \/ AfterChild
  <2>1. PICK cb \in Callback :
          /\ cb \notin {"pre", "leaf", "post"} /\ stack # << >> /\ Call(cb)
          /\ CallbackChanges(NodesOf(stack)) /\ UNCHANGED << root, accepted >>
    BY <1>4 DEF BeforeChild, In, AfterChild, At, Callback
  <2>2. opened' = opened /\ closed' = closed
    BY <1>t, <2>1, PositionsLogged
  <2>3. Abstract!OpenNodesKept
    BY <2>1, <2>2, OpenPositionsKept
  <2>. QED BY <2>1, <2>2, <2>3 DEF Abstract!Next, Abstract!Change
<1>5. CASE VisitChild \/ SkipChild \/ UNCHANGED vars
  <2>1. UNCHANGED << root, accepted, held, log >>
    BY <1>5 DEF VisitChild, SkipChild, vars
  <2>2. opened' = opened /\ closed' = closed
    BY <2>1 DEF opened, closed
  <2>. QED BY <2>1, <2>2 DEF Abstract!vars
<1>. QED BY <1>1, <1>2, <1>3, <1>4, <1>5 DEF Next

LEMMA InitIsVisit == Init => Abstract!Init
<1> SUFFICES ASSUME Init PROVE Abstract!Init
  OBVIOUS
<1>1. DOMAIN log = {} /\ root \in Node /\ accepted \in SUBSET (Type \X Type) /\ held = Child
  BY VisitorAssumption DEF Init
<1>2. opened = {} /\ closed = {}
  BY <1>1 DEF opened, closed, ToSet
<1>. QED BY <1>1, <1>2 DEF Abstract!Init

-----------------------------------------------------------------------------
(* The calls for one position.                                             *)
CallList == Seq(Callback \X Nat)

(* What Due defines by recursion, one child at a time.                     *)
DueAround(i) ==
  << << "beforeChild", i >> >>
    \o (IF i > 0 THEN << << "in", i >> >> ELSE << >>)
    \o << << "afterChild", i >> >>

LEMMA DueAroundIsList == \A i \in Nat : DueAround(i) \in CallList
  BY DEF DueAround, CallList, Callback

LEMMA DueUnfolds ==
  /\ Due \in [Nat -> CallList]
  /\ Due[0] = << << "pre", 0 >> >>
  /\ \A d \in Nat : Due[d + 1] = Due[d] \o DueAround(d)
<1> DEFINE base == << << "pre", 0 >> >>
           step == [x \in Nat \X CallList |-> x[2] \o DueAround(x[1])]
<1>1. base \in CallList
  BY DEF CallList, Callback
<1>2. step \in [Nat \X CallList -> CallList]
  <2>1. ASSUME NEW x \in Nat \X CallList PROVE x[2] \o DueAround(x[1]) \in CallList
    <3>1. x[2] \in CallList /\ DueAround(x[1]) \in CallList
      BY DueAroundIsList
    <3>. QED BY <3>1 DEF CallList
  <2>. QED BY <2>1
<1>c. PICK f \in [Nat -> CallList] : Counts(f, base, step)
  <2> HIDE DEF base, step
  <2>. QED BY <1>1, <1>2, CountingRecursion
<1>3. f[0] = base
  BY <1>c DEF Counts
<1>4. \A n \in Nat : f[n + 1] = f[n] \o DueAround(n)
  BY <1>c DEF Counts
<1> DEFINE value(g, d) ==
             IF d = 0 THEN << << "pre", 0 >> >>
             ELSE g[d - 1]
                    \o << << "beforeChild", d - 1 >> >>
                    \o (IF d > 1 THEN << << "in", d - 1 >> >> ELSE << >>)
                    \o << << "afterChild", d - 1 >> >>
<1>5. ASSUME NEW d \in Nat PROVE f[d] = value(f, d)
  <2>1. CASE d = 0
    BY <1>3, <2>1
  <2>2. CASE d # 0
    <3>1. d - 1 \in Nat /\ (d - 1) + 1 = d /\ (d - 1 > 0 <=> d > 1)
      BY <2>2
    <3>2. f[d] = f[d - 1] \o DueAround(d - 1) /\ f[d - 1] \in CallList
      BY <1>4, <3>1
    <3> DEFINE a == << << "beforeChild", d - 1 >> >>
               b == IF d > 1 THEN << << "in", d - 1 >> >> ELSE << >>
               c == << << "afterChild", d - 1 >> >>
    <3>3. a \in CallList /\ b \in CallList /\ c \in CallList
      <4> DEFINE C == Callback \X Nat
                 x == << "beforeChild", d - 1 >>
                 y == << "in", d - 1 >>
                 z == << "afterChild", d - 1 >>
      <4>1. x \in C /\ y \in C /\ z \in C
        BY <3>1 DEF Callback
      <4>2. a = << x >> /\ b \in {<< y >>, << >>} /\ c = << z >>
        OBVIOUS
      <4>3. CallList = Seq(C)
        BY DEF CallList
      <4> HIDE DEF C, x, y, z, a, b, c
      <4>4. << >> \in Seq(C) /\ << x >> \in Seq(C) /\ << y >> \in Seq(C) /\ << z >> \in Seq(C)
        BY <4>1
      <4>. QED BY <4>2, <4>3, <4>4
    <3>4. DueAround(d - 1) = a \o b \o c
      BY <3>1 DEF DueAround
    <3>5. value(f, d) = f[d - 1] \o a \o b \o c
      BY <2>2
    <3> HIDE DEF a, b, c, value
    <3>6. f[d - 1] \o (a \o b \o c) = f[d - 1] \o a \o b \o c
      <4> DEFINE C == Callback \X Nat
                 x == f[d - 1]
      <4>1. x \in Seq(C) /\ a \in Seq(C) /\ b \in Seq(C) /\ c \in Seq(C)
        BY <3>2, <3>3 DEF CallList
      <4> HIDE DEF C, x
      <4> DEFINE ab == a \o b
      <4>2. ab \in Seq(C)
        BY <4>1
      <4>5. \A u, v, w \in Seq(C) : (u \o v) \o w = u \o (v \o w)
        BY ConcatAssociative
      <4>3. (x \o a) \o b = x \o ab
        BY <4>1, <4>5
      <4> HIDE DEF ab
      <4>4. (x \o ab) \o c = x \o (ab \o c)
        BY <4>1, <4>2, <4>5, Zenon
      <4>. QED BY <4>3, <4>4 DEF x, ab
    <3>. QED BY <3>2, <3>4, <3>5, <3>6
  <2>. QED BY <2>1, <2>2
<1>6. f = [d \in Nat |-> value(f, d)]
  BY <1>5
<1>7. \E g : g = [d \in Nat |-> value(g, d)]
  BY <1>6
<1>8. Due = [d \in Nat |-> value(Due, d)]
  BY <1>7, Zenon DEF Due
<1>9. Due[0] = base /\ \A d \in Nat : Due[d + 1] = value(Due, d + 1)
  <2> DEFINE v(d) == value(Due, d)
  <2>1. Due = [d \in Nat |-> v(d)]
    BY <1>8
  <2>2. v(0) = base
    OBVIOUS
  <2> HIDE DEF v
  <2>3. \A d \in Nat : Due[d] = v(d)
    BY <2>1
  <2> HIDE DEF value, base
  <2>4. \A d \in Nat : Due[d + 1] = v(d + 1)
    BY <2>3
  <2>. QED BY <2>2, <2>3, <2>4 DEF v
<1>10. ASSUME NEW d \in Nat, Due[d] = f[d] PROVE Due[d + 1] = f[d + 1]
  <2>1. (d + 1) - 1 = d /\ d + 1 \in Nat /\ d + 1 # 0
    OBVIOUS
  <2>2. value(Due, d + 1) = value(f, d + 1)
    BY <1>10, <2>1
  <2> HIDE DEF value
  <2>. QED BY <1>5, <1>9, <2>1, <2>2
<1>11. \A d \in Nat : Due[d] = f[d]
  <2> DEFINE T == {d \in Nat : Due[d] = f[d]}
  <2>1. 0 \in T
    BY <1>3, <1>9
  <2>2. \A d \in Nat : d \in T => d + 1 \in T
    BY <1>10
  <2>3. Nat \subseteq T
    <3> HIDE DEF T
    <3>. QED BY <2>1, <2>2, CountingInduction
  <2>. QED BY <2>3
<1>12. Due = f
  <2>1. Due = [d \in Nat |-> Due[d]]
    BY <1>8
  <2>2. f = [d \in Nat |-> f[d]]
    OBVIOUS
  <2>. QED BY <1>11, <2>1, <2>2
<1>. QED BY <1>3, <1>4, <1>12

(* What CallsIn gathers from a log, one event at a time.                   *)
Gathers(g, events, p) ==
  /\ g \in [0 .. Len(events) -> CallList]
  /\ g[0] = << >>
  /\ \A k \in 1 .. Len(events) :
       g[k] = IF events[k].path = p
                THEN Append(g[k - 1], << events[k].cb, events[k].index >>)
                ELSE g[k - 1]

LEMMA CallsGathered ==
  ASSUME NEW events \in Seq(Event), NEW p
  PROVE  \E g : Gathers(g, events, p) /\ CallsIn(events, p) = g[Len(events)]
<1> DEFINE n == Len(events)
           step == [x \in Nat \X CallList |->
                      IF x[1] < n /\ events[x[1] + 1].path = p
                        THEN Append(x[2], << events[x[1] + 1].cb, events[x[1] + 1].index >>)
                        ELSE x[2]]
<1>1. n \in Nat /\ << >> \in CallList
  BY DEF CallList
<1>2. ASSUME NEW k \in 1 .. n PROVE << events[k].cb, events[k].index >> \in Callback \X Nat
  <2>1. events[k] \in Event
    BY ElementOfSeq
  <2>. QED BY <2>1 DEF Event
<1>3. step \in [Nat \X CallList -> CallList]
  <2>1. ASSUME NEW x \in Nat \X CallList, x[1] < n
        PROVE  Append(x[2], << events[x[1] + 1].cb, events[x[1] + 1].index >>) \in CallList
    <3>1. x[1] \in Nat /\ x[2] \in CallList
      OBVIOUS
    <3>2. x[1] + 1 \in 1 .. n
      BY <1>1, <2>1, <3>1
    <3>. QED BY <1>2, <3>1, <3>2 DEF CallList
  <2>2. \A x \in Nat \X CallList : x[2] \in CallList
    OBVIOUS
  <2> HIDE DEF n
  <2>. QED BY <2>1, <2>2
<1>c. PICK f \in [Nat -> CallList] : Counts(f, << >>, step)
  <2> HIDE DEF step
  <2>. QED BY <1>1, <1>3, CountingRecursion
<1>4. f[0] = << >> /\ \A k \in Nat : f[k + 1] = step[<< k, f[k] >>]
  BY <1>c DEF Counts
<1> DEFINE value(h, k) ==
             IF k = 0 THEN << >>
             ELSE IF events[k].path = p
               THEN Append(h[k - 1], << events[k].cb, events[k].index >>)
               ELSE h[k - 1]
           g == [k \in 0 .. n |-> f[k]]
<1>5. ASSUME NEW k \in 0 .. n PROVE g[k] = value(g, k)
  <2>1. CASE k = 0
    BY <1>1, <1>4, <2>1
  <2>2. CASE k # 0
    <3>1. k - 1 \in Nat /\ (k - 1) + 1 = k /\ k - 1 < n /\ k - 1 \in 0 .. n
      BY <1>1, <2>2
    <3>2. f[k] = step[<< k - 1, f[k - 1] >>] /\ f[k - 1] \in CallList
      BY <1>4, <3>1
    <3>3. g[k - 1] = f[k - 1] /\ g[k] = f[k]
      BY <3>1
    <3> HIDE DEF n, g
    <3>. QED BY <2>2, <3>1, <3>2, <3>3
  <2>. QED BY <2>1, <2>2
<1>6. g = [k \in 0 .. n |-> value(g, k)]
  <2> HIDE DEF value
  <2>. QED BY <1>5
<1>7. \E h : h = [k \in 0 .. n |-> value(h, k)]
  BY <1>6
<1>8. PICK h : h = [k \in 0 .. n |-> value(h, k)] /\ CallsIn(events, p) = h[n]
  BY <1>7, Zenon DEF CallsIn
<1>9. h[0] = << >> /\ \A k \in 1 .. n : h[k] = value(h, k)
  <2>1. 0 \in 0 .. n /\ \A k \in 1 .. n : k \in 0 .. n
    BY <1>1
  <2> HIDE DEF n
  <2>. QED BY <1>8, <2>1
<1>10. ASSUME NEW k \in Nat, k + 1 <= n, h[k] = f[k] PROVE h[k + 1] = f[k + 1]
  <2>1. (k + 1) - 1 = k /\ k + 1 \in 1 .. n /\ k + 1 # 0 /\ k \in 0 .. n /\ k + 1 \in 0 .. n
    BY <1>1, <1>10
  <2>2. h[k + 1] = value(h, k + 1) /\ g[k + 1] = value(g, k + 1)
    BY <1>5, <1>9, <2>1
  <2>3. g[k] = f[k] /\ g[k + 1] = f[k + 1]
    BY <2>1
  <2> HIDE DEF n, g
  <2>. QED BY <1>10, <2>1, <2>2, <2>3
<1>11. \A k \in 0 .. n : h[k] = f[k]
  <2> DEFINE T == {k \in Nat : k <= n => h[k] = f[k]}
  <2>1. 0 \in T
    BY <1>4, <1>9
  <2>2. ASSUME NEW k \in Nat, k \in T PROVE k + 1 \in T
    <3>1. k + 1 <= n => k <= n
      BY <1>1
    <3> HIDE DEF n
    <3>. QED BY <1>10, <2>2, <3>1
  <2>3. Nat \subseteq T
    <3> HIDE DEF T
    <3>. QED BY <2>1, <2>2, CountingInduction
  <2>. QED BY <2>3
<1>12. h \in [0 .. n -> CallList]
  <2>1. \A k \in 0 .. n : h[k] \in CallList
    BY <1>11
  <2>2. h = [k \in 0 .. n |-> h[k]]
    BY <1>8
  <2> HIDE DEF n
  <2>. QED BY <2>1, <2>2
<1>13. Gathers(h, events, p)
  <2>1. \A k \in 1 .. n : k # 0
    BY <1>1
  <2>. QED BY <1>9, <1>12, <2>1 DEF Gathers
<1>. QED BY <1>8, <1>13

(* Logs that begin alike gather alike.                                     *)
LEMMA GatherAlike ==
  ASSUME NEW a \in Seq(Event), NEW b \in Seq(Event), NEW p, NEW g, NEW h,
         Gathers(g, a, p), Gathers(h, b, p),
         NEW n \in Nat, n <= Len(a), n <= Len(b), \A k \in 1 .. n : a[k] = b[k]
  PROVE  g[n] = h[n]
<1>1. Len(a) \in Nat /\ Len(b) \in Nat
  OBVIOUS
<1> DEFINE T == {k \in Nat : k <= n => g[k] = h[k]}
<1>2. 0 \in T
  BY DEF Gathers
<1>3. ASSUME NEW k \in Nat, k \in T PROVE k + 1 \in T
  <2> SUFFICES ASSUME k + 1 <= n PROVE g[k + 1] = h[k + 1]
    OBVIOUS
  <2>1. (k + 1) - 1 = k /\ k + 1 \in 1 .. n /\ k + 1 \in 1 .. Len(a) /\ k + 1 \in 1 .. Len(b)
        /\ k <= n
    BY <1>1
  <2>2. g[k] = h[k] /\ a[k + 1] = b[k + 1]
    BY <1>3, <2>1
  <2>. QED BY <2>1, <2>2 DEF Gathers
<1>4. Nat \subseteq T
  <2> HIDE DEF T
  <2>. QED BY <1>2, <1>3, CountingInduction
<1>. QED BY <1>4

(* One more event adds a call for its own position, and for no other.      *)
LEMMA CallAdded ==
  ASSUME NEW events \in Seq(Event), NEW e \in Event, NEW p
  PROVE  /\ CallsIn(events, p) \in CallList
         /\ CallsIn(Append(events, e), p) =
              IF e.path = p THEN Append(CallsIn(events, p), << e.cb, e.index >>)
              ELSE CallsIn(events, p)
<1> DEFINE more == Append(events, e)
           n == Len(events)
<1>1. /\ more \in Seq(Event) /\ n \in Nat /\ Len(more) = n + 1 /\ more[n + 1] = e
      /\ \A k \in 1 .. n : events[k] = more[k]
  BY PushTop
<1> HIDE DEF more
<1>2. PICK g : Gathers(g, events, p) /\ CallsIn(events, p) = g[n]
  BY CallsGathered
<1>3. PICK h : Gathers(h, more, p) /\ CallsIn(more, p) = h[n + 1]
  BY <1>1, CallsGathered
<1>4. g[n] = h[n]
  <2>1. n <= n /\ n <= n + 1
    BY <1>1
  <2>. QED BY <1>1, <1>2, <1>3, <2>1, GatherAlike
<1>5. n + 1 \in 1 .. Len(more) /\ (n + 1) - 1 = n
  BY <1>1
<1>6. h[n + 1] = IF e.path = p THEN Append(h[n], << e.cb, e.index >>) ELSE h[n]
  BY <1>1, <1>3, <1>5 DEF Gathers
<1>7. g[n] \in CallList
  <2>1. n \in 0 .. n
    BY <1>1
  <2>. QED BY <1>2, <2>1 DEF Gathers
<1>. QED BY <1>2, <1>3, <1>4, <1>6, <1>7 DEF more

LEMMA NoCalls ==
  ASSUME NEW events \in Seq(Event), NEW p, \A k \in 1 .. Len(events) : events[k].path # p
  PROVE  CallsIn(events, p) = << >>
<1>1. PICK g : Gathers(g, events, p) /\ CallsIn(events, p) = g[Len(events)]
  BY CallsGathered
<1> DEFINE T == {k \in Nat : k <= Len(events) => g[k] = << >>}
<1>2. 0 \in T
  BY <1>1 DEF Gathers
<1>3. ASSUME NEW k \in Nat, k \in T PROVE k + 1 \in T
  <2> SUFFICES ASSUME k + 1 <= Len(events) PROVE g[k + 1] = << >>
    OBVIOUS
  <2>1. (k + 1) - 1 = k /\ k + 1 \in 1 .. Len(events) /\ k <= Len(events)
    OBVIOUS
  <2>. QED BY <1>1, <1>3, <2>1 DEF Gathers
<1>4. Nat \subseteq T
  <2> HIDE DEF T
  <2>. QED BY <1>2, <1>3, CountingInduction
<1>5. Len(events) \in Nat
  OBVIOUS
<1>. QED BY <1>1, <1>4, <1>5


-----------------------------------------------------------------------------
(* The calls an activation has made by the time it has got where it is.    *)
CallsMade(f) ==
  LET before == Append(Due[f.i], << "beforeChild", f.i >>)
  IN  CASE f.pc = "loop" -> Due[f.i]
        [] f.pc = "in"   -> before
        [] OTHER         -> IF f.i = 0 THEN before ELSE Append(before, << "in", f.i >>)

(* The calls for the position of e are all of those that are due.          *)
Complete(events, e) ==
  IF isLeaf(e.node)
    THEN CallsIn(events, e.path) = << << "leaf", 0 >> >>
    ELSE \E d \in Nat : CallsIn(events, e.path) = Promised(d)

(* For the positions under way the calls made so far are those due so far, *)
(* for the others all of them have been made.  in is not for child 0.      *)
InOrder(events, s) ==
  /\ \A k \in 1 .. Len(s) : s[k].pc # "start" =>
       /\ ~ isLeaf(s[k].node) /\ CallsIn(events, s[k].path) = CallsMade(s[k])
       /\ s[k].pc = "in" => s[k].i > 0
  /\ \A n \in 1 .. Len(events) :
       Complete(events, events[n]) \/ \E k \in 1 .. Len(s) : events[n].path = s[k].path

(* The calls for the position of an activation are those it made itself.   *)
LEMMA OwnCalls ==
  ASSUME IInv, AllPast(log, stack), NEW k \in 1 .. Len(stack), NEW n \in 1 .. Len(log),
         log[n].path = stack[k].path
  PROVE  Made(log[n], stack[k])
<1>1. stack \in Seq(Frame) /\ Len(stack) \in Nat /\ log[n] \in Event
  BY ElementOfSeq DEF IInv, TypeOK
<1>2. Past(log[n], stack) /\ stack # << >> /\ log[n].path \in TreePath
  BY <1>1, EmptySeq DEF AllPast, Event
<1>3. \A m \in 1 .. Len(stack) : RecordsIndices(stack, m)
  BY DEF IInv, IsWalk
<1>4. ASSUME NEW m \in 1 .. Len(stack), Branches(log[n].path, stack, m),
             Over(log[n].path[m], stack, m)
      PROVE  FALSE
  <2>1. m \in 1 .. k - 1 /\ m # Len(stack)
    BY <1>1, <1>3, <1>4 DEF Branches, RecordsIndices
  <2>2. log[n].path[m] = stack[m].i /\ stack[m].i \in Nat
    BY <1>1, <1>3, <2>1, FrameAt DEF RecordsIndices
  <2>. QED BY <1>4, <2>1, <2>2 DEF Over
<1>5. PICK m \in 1 .. Len(stack) : log[n].path = stack[m].path /\ Made(log[n], stack[m])
  BY <1>2, <1>4 DEF Past
<1>6. Len(log[n].path) = k - 1 /\ Len(log[n].path) = m - 1
  BY <1>3, <1>5 DEF RecordsIndices
<1>7. k = m
  BY <1>6
<1>. QED BY <1>5, <1>7

LEMMA NoCallsYet ==
  ASSUME IInv, AllPast(log, stack), stack # << >>, Top.pc = "start"
  PROVE  /\ CallsIn(log, Top.path) = << >>
         /\ \A n \in 1 .. Len(log) : log[n].path # Top.path
         /\ Top.i = 0
<1>1. Len(stack) \in 1 .. Len(stack) /\ Top = stack[Len(stack)] /\ log \in Seq(Event)
      /\ IndexOK(Top, held)
  BY TopFrame DEF IInv, TypeOK, IsWalk
<1>2. \A n \in 1 .. Len(log) : log[n].path # Top.path
  BY <1>1, OwnCalls DEF Made
<1>. QED BY <1>1, <1>2, NoCalls DEF IndexOK

(* What a call adds.                                                       *)
LEMMA LogGrows ==
  ASSUME TypeOK, stack # << >>, NEW cb \in Callback, Call(cb)
  PROVE  /\ log' \in Seq(Event) /\ Len(log) \in Nat /\ Len(log') = Len(log) + 1
         /\ log'[Len(log) + 1] = Now(cb)
         /\ \A n \in 1 .. Len(log) : log'[n] = log[n]
         /\ \A p : CallsIn(log', p) = IF Top.path = p
                                        THEN Append(CallsIn(log, p), << cb, Top.i >>)
                                        ELSE CallsIn(log, p)
<1>1. Now(cb) \in Event /\ Now(cb).cb = cb /\ Now(cb).index = Top.i /\ Now(cb).path = Top.path
  BY TopFrame DEF Now, Event
<1>2. log \in Seq(Event) /\ log' = Append(log, Now(cb))
  BY DEF TypeOK, Call, Now
<1>3. ASSUME NEW p
      PROVE  CallsIn(log', p) = IF Top.path = p
                                  THEN Append(CallsIn(log, p), << cb, Top.i >>)
                                  ELSE CallsIn(log, p)
  <2>1. CallsIn(Append(log, Now(cb)), p) =
          IF Now(cb).path = p THEN Append(CallsIn(log, p), << Now(cb).cb, Now(cb).index >>)
          ELSE CallsIn(log, p)
    BY <1>1, <1>2, CallAdded
  <2>. QED BY <1>1, <1>2, <2>1
<1>. QED BY <1>1, <1>2, <1>3, PushTop

(* The activations below the innermost one are for other positions.        *)
LEMMA OtherPositions ==
  ASSUME IInv, stack # << >>
  PROVE  \A k \in 1 .. Len(stack) - 1 : stack[k].path # Top.path
<1>1. Len(stack) \in 1 .. Len(stack) /\ Len(stack) \in Nat /\ Top = stack[Len(stack)]
  BY TopFrame DEF IInv
<1>2. ASSUME NEW k \in 1 .. Len(stack) - 1 PROVE stack[k].path # Top.path
  <2>1. k \in 1 .. Len(stack) /\ k # Len(stack)
    BY <1>1
  <2>2. Len(stack[k].path) = k - 1 /\ Len(Top.path) = Len(stack) - 1
    BY <1>1, <2>1 DEF IInv, IsWalk, RecordsIndices
  <2>3. k - 1 # Len(stack) - 1
    BY <1>1, <2>1
  <2>. QED BY <2>2, <2>3
<1>. QED BY <1>2

(* An activation makes the call that is due and goes on.                   *)
LEMMA OrderOn ==
  ASSUME IInv, AllPast(log, stack), InOrder(log, stack), stack # << >>,
         NEW cb \in Callback, Call(cb), NEW f \in Frame,
         stack' = [stack EXCEPT ![Len(stack)] = f], f.node = Top.node, f.path = Top.path,
         ~ isLeaf(Top.node), f.pc = "in" => f.i > 0,
         CallsMade(f) = Append(CallsIn(log, Top.path), << cb, Top.i >>)
  PROVE  InOrder(log', stack')
<1>1. TypeOK /\ stack \in Seq(Frame) /\ Len(stack) \in 1 .. Len(stack)
      /\ Len(stack) \in Nat /\ Top = stack[Len(stack)]
  BY TopFrame DEF IInv, TypeOK
<1>2. /\ Len(stack') = Len(stack) /\ stack'[Len(stack)] = f
      /\ \A k \in 1 .. Len(stack) - 1 : stack'[k] = stack[k]
  BY <1>1, ReplaceTop
<1>3. ASSUME NEW k \in 1 .. Len(stack'), stack'[k].pc # "start"
      PROVE  /\ ~ isLeaf(stack'[k].node) /\ CallsIn(log', stack'[k].path) = CallsMade(stack'[k])
             /\ stack'[k].pc = "in" => stack'[k].i > 0
  <2>1. CASE k = Len(stack)
    BY <1>1, <1>2, <2>1, LogGrows
  <2>2. CASE k \in 1 .. Len(stack) - 1
    <3>1. stack'[k] = stack[k] /\ stack[k].path # Top.path /\ k \in 1 .. Len(stack)
      BY <1>1, <1>2, <2>2, OtherPositions
    <3>. QED BY <1>1, <1>3, <3>1, LogGrows DEF InOrder
  <2>. QED BY <1>1, <1>2, <2>1, <2>2
<1>4. ASSUME NEW n \in 1 .. Len(log')
      PROVE  \/ Complete(log', log'[n])
             \/ \E k \in 1 .. Len(stack') : log'[n].path = stack'[k].path
  <2>1. CASE log'[n].path = Top.path
    BY <1>1, <1>2, <2>1
  <2>2. CASE log'[n].path # Top.path
    <3>1. Now(cb).path = Top.path
      BY DEF Now
    <3>2. n \in 1 .. Len(log) /\ log'[n] = log[n]
      BY <1>1, <2>2, <3>1, LogGrows
    <3>3. CallsIn(log', log[n].path) = CallsIn(log, log[n].path)
      BY <1>1, <2>2, <3>2, LogGrows
    <3>4. CASE Complete(log, log[n])
      BY <3>2, <3>3, <3>4 DEF Complete
    <3>5. CASE \E k \in 1 .. Len(stack) : log[n].path = stack[k].path
      <4>1. PICK k \in 1 .. Len(stack) : log[n].path = stack[k].path
        BY <3>5
      <4>2. k \in 1 .. Len(stack) - 1
        BY <1>1, <2>2, <3>2, <4>1
      <4>. QED BY <1>2, <3>2, <4>1, <4>2
    <3>. QED BY <3>2, <3>4, <3>5 DEF InOrder
  <2>. QED BY <2>1, <2>2
<1>. QED BY <1>3, <1>4 DEF InOrder

(* An activation makes its last call and returns.                          *)
LEMMA OrderBack ==
  ASSUME IInv, AllPast(log, stack), InOrder(log, stack), stack # << >>,
         NEW cb \in Callback, Call(cb), Return, Complete(log', Now(cb))
  PROVE  InOrder(log', stack')
<1>1. TypeOK /\ stack \in Seq(Frame) /\ Len(stack) \in 1 .. Len(stack)
      /\ Len(stack) \in Nat /\ Top = stack[Len(stack)]
  BY TopFrame DEF IInv, TypeOK
<1>2. /\ Len(stack') = Len(stack) - 1
      /\ \A k \in 1 .. Len(stack) - 1 : stack'[k] = stack[k] /\ k \in 1 .. Len(stack)
  BY <1>1, PopTop DEF Return
<1>3. ASSUME NEW k \in 1 .. Len(stack'), stack'[k].pc # "start"
      PROVE  /\ ~ isLeaf(stack'[k].node) /\ CallsIn(log', stack'[k].path) = CallsMade(stack'[k])
             /\ stack'[k].pc = "in" => stack'[k].i > 0
  <2>1. stack'[k] = stack[k] /\ stack[k].path # Top.path /\ k \in 1 .. Len(stack)
    BY <1>2, OtherPositions
  <2>. QED BY <1>1, <1>3, <2>1, LogGrows DEF InOrder
<1>4. ASSUME NEW n \in 1 .. Len(log')
      PROVE  \/ Complete(log', log'[n])
             \/ \E k \in 1 .. Len(stack') : log'[n].path = stack'[k].path
  <2>1. Now(cb).path = Top.path /\ Now(cb).node = Top.node
    BY DEF Now
  <2>2. n \in 1 .. Len(log) \/ n = Len(log) + 1
    BY <1>1, LogGrows
  <2>3. CASE log'[n].path = Top.path
    <3>1. log'[n].node = Top.node
      <4>1. CASE n = Len(log) + 1
        BY <1>1, <2>1, <4>1, LogGrows
      <4>2. CASE n \in 1 .. Len(log)
        <5>1. log'[n] = log[n]
          BY <1>1, <4>2, LogGrows
        <5>2. Made(log[n], stack[Len(stack)])
          BY <1>1, <2>3, <4>2, <5>1, OwnCalls
        <5>. QED BY <1>1, <5>1, <5>2 DEF Made
      <4>. QED BY <2>2, <4>1, <4>2
    <3>. QED BY <2>1, <2>3, <3>1 DEF Complete
  <2>4. CASE log'[n].path # Top.path
    <3>1. n \in 1 .. Len(log) /\ log'[n] = log[n]
      BY <1>1, <2>1, <2>2, <2>4, LogGrows
    <3>2. CallsIn(log', log[n].path) = CallsIn(log, log[n].path)
      BY <1>1, <2>4, <3>1, LogGrows
    <3>3. CASE Complete(log, log[n])
      BY <3>1, <3>2, <3>3 DEF Complete
    <3>4. CASE \E k \in 1 .. Len(stack) : log[n].path = stack[k].path
      <4>1. PICK k \in 1 .. Len(stack) : log[n].path = stack[k].path
        BY <3>4
      <4>2. k \in 1 .. Len(stack) - 1
        BY <1>1, <2>4, <3>1, <4>1
      <4>. QED BY <1>2, <3>1, <4>1, <4>2
    <3>. QED BY <3>1, <3>3, <3>4 DEF InOrder
  <2>. QED BY <2>3, <2>4
<1>. QED BY <1>3, <1>4 DEF InOrder

(* One more element, and two.                                              *)
LEMMA AddOne ==
  ASSUME NEW S, NEW s \in Seq(S), NEW e \in S
  PROVE  s \o << e >> = Append(s, e) /\ Append(s, e) \in Seq(S)
OBVIOUS

LEMMA AddTwo ==
  ASSUME NEW S, NEW s \in Seq(S), NEW x \in S, NEW z \in S
  PROVE  s \o (<< x >> \o << z >>) = Append(Append(s, x), z)
<1> DEFINE a == << x >>
           c == << z >>
<1>1. a \in Seq(S) /\ c \in Seq(S)
  OBVIOUS
<1>2. s \o a = Append(s, x) /\ Append(s, x) \in Seq(S)
  BY AddOne
<1>3. Append(s, x) \o c = Append(Append(s, x), z)
  BY <1>2, AddOne
<1> HIDE DEF a, c
<1>4. (s \o a) \o c = s \o (a \o c)
  BY <1>1, ConcatAssociative
<1>5. s \o (a \o c) = Append(Append(s, x), z)
  BY <1>2, <1>3, <1>4
<1>. QED BY <1>5 DEF a, c

(* With afterChild all calls around child i have been made.                *)
LEMMA AroundDone ==
  ASSUME NEW i \in Nat
  PROVE  LET before == Append(Due[i], << "beforeChild", i >>)
         IN  Due[i + 1] = Append(IF i = 0 THEN before ELSE Append(before, << "in", i >>),
                                 << "afterChild", i >>)
<1> DEFINE C == Callback \X Nat
           x == << "beforeChild", i >>
           y == << "in", i >>
           z == << "afterChild", i >>
           s == Due[i]
<1>1. x \in C /\ y \in C /\ z \in C
  BY DEF Callback
<1>2. s \in Seq(C) /\ Due[i + 1] = s \o DueAround(i)
  BY DueUnfolds DEF CallList
<1>3. CASE i = 0
  <2>1. DueAround(i) = << x >> \o << >> \o << z >>
    BY <1>3 DEF DueAround
  <2> HIDE DEF C, x, y, z, s
  <2>2. << x >> \o << >> = << x >>
    <3>1. << x >> \in Seq(C)
      BY <1>1
    <3>. QED BY <3>1, ConcatEmptySeq
  <2>3. Due[i + 1] = s \o (<< x >> \o << z >>)
    BY <1>2, <2>1, <2>2
  <2>4. Due[i + 1] = Append(Append(s, x), z)
    BY <1>1, <1>2, <2>3, AddTwo
  <2>. QED BY <1>3, <2>4 DEF x, y, z, s
<1>4. CASE i # 0
  <2>1. DueAround(i) = << x >> \o << y >> \o << z >>
    BY <1>4 DEF DueAround
  <2> DEFINE a == << x >> \o << y >>
             c == << z >>
  <2> HIDE DEF C, x, y, z, s
  <2>2. a \in Seq(C) /\ c \in Seq(C)
    BY <1>1
  <2>3. s \o a = Append(Append(s, x), y)
    BY <1>1, <1>2, AddTwo
  <2>4. Append(Append(s, x), y) \in Seq(C)
    BY <1>1, <1>2
  <2>5. Append(Append(s, x), y) \o c = Append(Append(Append(s, x), y), z)
    BY <1>1, <2>4, AddOne
  <2>6. Due[i + 1] = s \o (a \o c)
    BY <1>2, <2>1
  <2> HIDE DEF a, c
  <2>7. (s \o a) \o c = s \o (a \o c)
    BY <1>2, <2>2, ConcatAssociative
  <2>8. Due[i + 1] = Append(Append(Append(s, x), y), z)
    BY <2>3, <2>5, <2>6, <2>7
  <2>. QED BY <1>4, <2>8 DEF x, y, z, s
<1>. QED BY <1>3, <1>4


LEMMA OrderKept ==
  ASSUME IInv, IInv', AllPast(log, stack), InOrder(log, stack), [Next]_vars
  PROVE  InOrder(log', stack')
<1>1. /\ TypeOK
      /\ stack # << >> => /\ Top.i \in Nat /\ Len(stack) \in 1 .. Len(stack)
                          /\ Top = stack[Len(stack)] /\ Len(stack) \in Nat
                          /\ stack \in Seq(Frame) /\ Top \in Frame
                          /\ (Top.pc = "in" => Top.i > 0)
  BY TopFrame DEF IInv, TypeOK, InOrder
<1>2. stack # << >> /\ Top.pc # "start" =>
        ~ isLeaf(Top.node) /\ CallsIn(log, Top.path) = CallsMade(Top)
  BY <1>1 DEF InOrder
<1>3. CASE Leaf
  <2>1. stack # << >> /\ Top.pc = "start" /\ isLeaf(Top.node) /\ Call("leaf") /\ Return
    BY <1>3 DEF Leaf, At
  <2>2. "leaf" \in Callback
    BY DEF Callback
  <2>3. CallsIn(log', Top.path) = Append(<< >>, << "leaf", 0 >>)
    BY <1>1, <2>1, <2>2, NoCallsYet, LogGrows
  <2>4. Complete(log', Now("leaf"))
    BY <2>1, <2>3 DEF Complete, Now
  <2>. QED BY <2>1, <2>2, <2>4, OrderBack
<1>4. CASE Pre
  <2>1. stack # << >> /\ Top.pc = "start" /\ ~ isLeaf(Top.node) /\ Call("pre")
    BY <1>4 DEF Pre, At
  <2>2. PICK f \in Frame : /\ stack' = [stack EXCEPT ![Len(stack)] = f]
                           /\ f.node = Top.node /\ f.path = Top.path
                           /\ f.i = Top.i /\ f.pc = "loop"
    BY <1>4, PreMoves DEF Advances
  <2>3. CallsMade(f) = Append(CallsIn(log, Top.path), << "pre", Top.i >>)
    <3>1. CallsMade(f) = Due[0] /\ CallsIn(log, Top.path) = << >> /\ Top.i = 0
      BY <2>1, <2>2, NoCallsYet DEF CallsMade
    <3>. QED BY <3>1, DueUnfolds
  <2>. QED BY <2>1, <2>2, <2>3, OrderOn DEF Callback
<1>5. CASE BeforeChild
  <2>1. stack # << >> /\ Top.pc = "loop" /\ Call("beforeChild")
    BY <1>5 DEF BeforeChild, At
  <2>2. PICK f \in Frame : /\ stack' = [stack EXCEPT ![Len(stack)] = f]
                           /\ f.node = Top.node /\ f.path = Top.path
                           /\ f.i = Top.i
                           /\ f.pc = IF Top.i > 0 THEN "in" ELSE "visitChild"
    BY <1>5, BeforeChildMoves DEF Advances
  <2>3. CallsMade(f) = Append(Due[Top.i], << "beforeChild", Top.i >>)
    BY <1>1, <2>1, <2>2 DEF CallsMade
  <2>4. CallsIn(log, Top.path) = Due[Top.i]
    BY <1>2, <2>1 DEF CallsMade
  <2>. QED BY <1>2, <2>1, <2>2, <2>3, <2>4, OrderOn DEF Callback
<1>6. CASE In
  <2>1. stack # << >> /\ Top.pc = "in" /\ Call("in") /\ Goto("visitChild")
    BY <1>6 DEF In, At
  <2>2. PICK f \in Frame : /\ stack' = [stack EXCEPT ![Len(stack)] = f]
                           /\ f.node = Top.node /\ f.path = Top.path
                           /\ f.i = Top.i /\ f.pc = "visitChild"
    BY <2>1, GotoMoves DEF Advances
  <2>3. Top.i # 0
    BY <1>1, <2>1
  <2>4. CallsMade(f) = Append(CallsMade(Top), << "in", Top.i >>)
    BY <2>1, <2>2, <2>3 DEF CallsMade
  <2>. QED BY <1>2, <2>1, <2>2, <2>4, OrderOn DEF Callback
<1>7. CASE VisitChild
  <2>1. stack # << >> /\ Top.pc = "visitChild" /\ log' = log
    BY <1>7 DEF VisitChild, At
  <2>2. PICK w \in Frame, f \in Frame :
          /\ stack' = Append([stack EXCEPT ![Len(stack)] = w], f)
          /\ w.node = Top.node /\ w.path = Top.path /\ w.i = Top.i /\ w.pc = "afterChild"
          /\ f.pc = "start"
    BY <1>7, VisitChildMoves DEF Calls
  <2>3. /\ Len(stack') = Len(stack) + 1 /\ stack'[Len(stack) + 1] = f
        /\ stack'[Len(stack)] = w
        /\ \A k \in 1 .. Len(stack) - 1 : stack'[k] = stack[k]
    <3> DEFINE t == [stack EXCEPT ![Len(stack)] = w]
    <3>1. /\ t \in Seq(Frame) /\ Len(t) = Len(stack) /\ t[Len(stack)] = w
          /\ \A k \in 1 .. Len(stack) - 1 : t[k] = stack[k]
      BY <1>1, <2>1, ReplaceTop
    <3> HIDE DEF t
    <3>2. stack' = Append(t, f)
      BY <2>2 DEF t
    <3>3. /\ Len(stack') = Len(t) + 1 /\ stack'[Len(t) + 1] = f
          /\ \A k \in 1 .. Len(t) : stack'[k] = t[k]
      BY <3>1, <3>2, PushTop
    <3>4. \A k \in 1 .. Len(stack) - 1 : k \in 1 .. Len(t)
      BY <1>1, <2>1, <3>1
    <3>. QED BY <1>1, <2>1, <3>1, <3>3, <3>4
  <2>4. CallsMade(w) = CallsMade(Top)
    BY <2>1, <2>2 DEF CallsMade
  <2>5. ASSUME NEW k \in 1 .. Len(stack'), stack'[k].pc # "start"
        PROVE  /\ ~ isLeaf(stack'[k].node)
               /\ CallsIn(log', stack'[k].path) = CallsMade(stack'[k])
               /\ stack'[k].pc = "in" => stack'[k].i > 0
    <3>1. CASE k = Len(stack)
      BY <1>2, <2>1, <2>2, <2>3, <2>4, <3>1
    <3>2. CASE k \in 1 .. Len(stack) - 1
      <4>1. stack'[k] = stack[k] /\ k \in 1 .. Len(stack)
        BY <1>1, <2>1, <2>3, <3>2
      <4>. QED BY <2>1, <2>5, <4>1 DEF InOrder
    <3>3. k # Len(stack) + 1
      BY <2>2, <2>3, <2>5
    <3>. QED BY <1>1, <2>1, <2>3, <3>1, <3>2, <3>3
  <2>6. ASSUME NEW k \in 1 .. Len(stack)
        PROVE  k \in 1 .. Len(stack') /\ stack'[k].path = stack[k].path
    <3>1. k = Len(stack) \/ k \in 1 .. Len(stack) - 1
      BY <1>1, <2>1
    <3>2. k \in 1 .. Len(stack')
      BY <1>1, <2>1, <2>3
    <3>. QED BY <1>1, <2>1, <2>2, <2>3, <3>1, <3>2
  <2>7. ASSUME NEW n \in 1 .. Len(log')
        PROVE  \/ Complete(log', log'[n])
               \/ \E k \in 1 .. Len(stack') : log'[n].path = stack'[k].path
    BY <2>1, <2>6 DEF InOrder
  <2>. QED BY <2>5, <2>7 DEF InOrder
<1>8. CASE SkipChild
  <2>1. stack # << >> /\ Top.pc = "visitChild" /\ log' = log /\ Goto("afterChild")
    BY <1>8 DEF SkipChild, At
  <2>2. PICK f \in Frame : /\ stack' = [stack EXCEPT ![Len(stack)] = f]
                           /\ f.node = Top.node /\ f.path = Top.path
                           /\ f.i = Top.i /\ f.pc = "afterChild"
    BY <2>1, GotoMoves DEF Advances
  <2>3. /\ Len(stack') = Len(stack) /\ stack'[Len(stack)] = f
        /\ \A k \in 1 .. Len(stack) - 1 : stack'[k] = stack[k]
    BY <1>1, <2>1, <2>2, ReplaceTop
  <2>4. CallsMade(f) = CallsMade(Top)
    BY <2>1, <2>2 DEF CallsMade
  <2>5. ASSUME NEW k \in 1 .. Len(stack)
        PROVE  /\ stack'[k].path = stack[k].path /\ stack'[k].node = stack[k].node
               /\ CallsMade(stack'[k]) = CallsMade(stack[k])
               /\ stack'[k].pc # "start" => stack[k].pc # "start"
               /\ stack'[k].pc = "in" => stack[k].pc = "in" /\ stack'[k].i = stack[k].i
    <3>1. k = Len(stack) \/ k \in 1 .. Len(stack) - 1
      BY <1>1, <2>1
    <3>. QED BY <1>1, <2>1, <2>2, <2>3, <2>4, <3>1
  <2>. QED BY <2>1, <2>3, <2>5 DEF InOrder
<1>9. CASE AfterChild
  <2>1. stack # << >> /\ Top.pc = "afterChild" /\ Call("afterChild")
    BY <1>9 DEF AfterChild, At
  <2>2. PICK f \in Frame : /\ stack' = [stack EXCEPT ![Len(stack)] = f]
                           /\ f.node = Top.node /\ f.path = Top.path
                           /\ f.i = Top.i + 1 /\ f.pc = "loop"
    BY <1>9, AfterChildMoves DEF Advances
  <2>3. CallsMade(f) = Append(CallsMade(Top), << "afterChild", Top.i >>)
    BY <1>1, <2>1, <2>2, AroundDone DEF CallsMade
  <2>. QED BY <1>2, <2>1, <2>2, <2>3, OrderOn DEF Callback
<1>10. CASE Post
  <2>1. stack # << >> /\ Top.pc = "loop" /\ Call("post") /\ Return
    BY <1>10 DEF Post, At
  <2>2. "post" \in Callback
    BY DEF Callback
  <2>3. CallsIn(log', Top.path) = Append(Due[Top.i], << "post", Top.i >>)
    BY <1>1, <1>2, <2>1, <2>2, LogGrows DEF CallsMade
  <2>4. Complete(log', Now("post"))
    BY <1>1, <1>2, <2>1, <2>3 DEF Complete, Now, Promised
  <2>. QED BY <2>1, <2>2, <2>4, OrderBack
<1>11. CASE UNCHANGED vars
  BY <1>11 DEF vars
<1>. QED
  BY <1>3, <1>4, <1>5, <1>6, <1>7, <1>8, <1>9, <1>10, <1>11 DEF Next

(* The calls made so far are the first ones of those that are due.         *)
LEMMA PrefixIs ==
  ASSUME NEW S, NEW s \in Seq(S), NEW t \in Seq(S),
         Len(s) <= Len(t), \A k \in 1 .. Len(s) : s[k] = t[k]
  PROVE  IsPrefix(s, t)
<1>1. Len(s) \in Nat /\ Len(t) \in Nat
  OBVIOUS
<1>2. /\ \A k \in 1 .. Len(s) : s[k] \in S
      /\ \A k \in 1 .. Len(s) : t[k] \in S
  BY <1>1, ElementOfSeq
<1>3. /\ SubSeq(s, 1, Len(s)) \in Seq(S) /\ SubSeq(t, 1, Len(s)) \in Seq(S)
      /\ Len(SubSeq(s, 1, Len(s))) = Len(s) /\ Len(SubSeq(t, 1, Len(s))) = Len(s)
      /\ \A k \in 1 .. Len(s) : SubSeq(s, 1, Len(s))[k] = s[k] /\ SubSeq(t, 1, Len(s))[k] = t[k]
  BY <1>1, <1>2, SMT
<1>4. SubSeq(s, 1, Len(s)) = SubSeq(t, 1, Len(s))
  BY <1>3, SeqEqual
<1>. QED BY <1>4 DEF IsPrefix

Begins(s, t) == Len(s) <= Len(t) /\ \A k \in 1 .. Len(s) : s[k] = t[k]

LEMMA BeginsAppend ==
  ASSUME NEW S, NEW s \in Seq(S), NEW e \in S
  PROVE  Begins(s, Append(s, e))
BY PushTop DEF Begins

LEMMA BeginsTrans ==
  ASSUME NEW S, NEW s \in Seq(S), NEW t \in Seq(S), NEW u \in Seq(S),
         Begins(s, t), Begins(t, u)
  PROVE  Begins(s, u)
<1>1. Len(s) \in Nat /\ Len(t) \in Nat /\ Len(u) \in Nat
  OBVIOUS
<1>2. \A k \in 1 .. Len(s) : k \in 1 .. Len(t)
  BY <1>1 DEF Begins
<1>. QED BY <1>1, <1>2 DEF Begins

LEMMA MadeIsDue ==
  ASSUME NEW i \in Nat
  PROVE  /\ Due[i] \in CallList
         /\ LET before == Append(Due[i], << "beforeChild", i >>)
                after == IF i = 0 THEN before ELSE Append(before, << "in", i >>)
            IN  /\ before \in CallList /\ after \in CallList
                /\ Begins(Due[i], before) /\ Begins(before, after) /\ Begins(after, Due[i + 1])
<1> DEFINE C == Callback \X Nat
           x == << "beforeChild", i >>
           y == << "in", i >>
           z == << "afterChild", i >>
           s == Due[i]
           before == Append(s, x)
           after == IF i = 0 THEN before ELSE Append(before, y)
<1>1. x \in C /\ y \in C /\ z \in C
  BY DEF Callback
<1>2. s \in Seq(C) /\ CallList = Seq(C)
  BY DueUnfolds DEF CallList
<1>3. Due[i + 1] = Append(after, z)
  BY AroundDone
<1> HIDE DEF C, x, y, z, s
<1>4. before \in Seq(C) /\ Begins(s, before)
  BY <1>1, <1>2, PushTop, BeginsAppend
<1> HIDE DEF before
<1>5. Begins(before, before)
  BY <1>4 DEF Begins
<1>6. after \in Seq(C) /\ Begins(before, after)
  BY <1>1, <1>4, <1>5, PushTop, BeginsAppend
<1> HIDE DEF after
<1>7. Begins(after, Append(after, z))
  BY <1>1, <1>6, BeginsAppend
<1>. QED BY <1>2, <1>3, <1>4, <1>6, <1>7 DEF before, after, x, y, z, s

LEMMA DueBegins ==
  ASSUME NEW i \in Nat, NEW d \in Nat, i <= d
  PROVE  Begins(Due[i], Due[d])
<1> DEFINE T == {n \in Nat : Begins(Due[i], Due[i + n])}
<1>1. 0 \in T
  <2>1. Due[i] \in CallList
    BY MadeIsDue
  <2>2. i + 0 = i
    OBVIOUS
  <2>. QED BY <2>1, <2>2 DEF Begins, CallList
<1>2. ASSUME NEW n \in Nat, n \in T PROVE n + 1 \in T
  <2>1. i + n \in Nat /\ i + (n + 1) = (i + n) + 1 /\ (i + n) + 1 \in Nat
    OBVIOUS
  <2> DEFINE m == i + n
             before == Append(Due[m], << "beforeChild", m >>)
             after == IF m = 0 THEN before ELSE Append(before, << "in", m >>)
  <2>2. /\ Due[m] \in CallList /\ before \in CallList /\ after \in CallList
        /\ Begins(Due[m], before) /\ Begins(before, after) /\ Begins(after, Due[m + 1])
    BY <2>1, MadeIsDue
  <2>3. Due[i] \in CallList /\ Due[m + 1] \in CallList /\ Begins(Due[i], Due[m])
    BY <1>2, <2>1, MadeIsDue
  <2> HIDE DEF before, after, m
  <2>4. Begins(Due[i], before)
    BY <2>2, <2>3, BeginsTrans DEF CallList
  <2>5. Begins(Due[i], after)
    BY <2>2, <2>3, <2>4, BeginsTrans DEF CallList
  <2>6. Begins(Due[i], Due[m + 1])
    BY <2>2, <2>3, <2>5, BeginsTrans DEF CallList
  <2>. QED BY <2>1, <2>6 DEF m
<1>3. Nat \subseteq T
  <2> HIDE DEF T
  <2>. QED BY <1>1, <1>2, CountingInduction
<1>4. d - i \in Nat /\ i + (d - i) = d
  OBVIOUS
<1>. QED BY <1>3, <1>4


LEMMA DueEnds ==
  ASSUME NEW i \in Nat
  PROVE  Last(Due[i])[1] # "post"
<1>1. CASE i = 0
  <2> DEFINE x == << "pre", 0 >>
  <2>1. Due[i] = << x >> /\ x[1] # "post"
    BY <1>1, DueUnfolds
  <2> HIDE DEF x
  <2>2. Last(<< x >>) = x
    BY DEF Last
  <2>. QED BY <2>1, <2>2
<1>2. CASE i # 0
  <2> DEFINE j == i - 1
             most == Append(Due[j], << "beforeChild", j >>)
             all == IF j = 0 THEN most ELSE Append(most, << "in", j >>)
             z == << "afterChild", j >>
  <2>1. j \in Nat /\ j + 1 = i
    BY <1>2
  <2> HIDE DEF j
  <2>2. Due[j + 1] = Append(all, z) /\ all \in CallList
    BY <2>1, AroundDone, MadeIsDue
  <2>3. z \in Callback \X Nat /\ z[1] # "post"
    BY <2>1 DEF Callback
  <2> HIDE DEF all, z
  <2>4. Last(Append(all, z)) = z
    BY <2>2, <2>3, PushTop DEF Last, CallList
  <2>. QED BY <2>1, <2>2, <2>3, <2>4
<1>. QED BY <1>1, <1>2

LEMMA MadeBegins ==
  ASSUME NEW f \in Frame, f.pc # "start", NEW d \in Nat,
         f.i <= d, InLoop(f) => f.i < d
  PROVE  /\ CallsMade(f) \in CallList /\ Begins(CallsMade(f), Due[d])
         /\ Last(CallsMade(f))[1] # "post"
<1> DEFINE i == f.i
           before == Append(Due[i], << "beforeChild", i >>)
           after == IF i = 0 THEN before ELSE Append(before, << "in", i >>)
<1>1. i \in Nat /\ i + 1 \in Nat /\ f.pc \in {"loop", "in", "visitChild", "afterChild"}
  BY DEF Frame, Point
<1>2. /\ Due[i] \in CallList /\ Due[d] \in CallList /\ Due[i + 1] \in CallList
      /\ before \in CallList /\ after \in CallList
      /\ Begins(Due[i], before) /\ Begins(before, after) /\ Begins(after, Due[i + 1])
  BY <1>1, MadeIsDue
<1>3. CASE f.pc = "loop"
  <2>1. CallsMade(f) = Due[i] /\ Begins(Due[i], Due[d])
    BY <1>1, <1>3, DueBegins DEF CallsMade
  <2>. QED BY <1>1, <1>2, <2>1, DueEnds
<1>4. CASE f.pc # "loop"
  <2>1. Begins(Due[i + 1], Due[d])
    <3>1. i + 1 <= d
      BY <1>1, <1>4 DEF InLoop
    <3>. QED BY <1>1, <3>1, DueBegins
  <2>2. CallsMade(f) = IF f.pc = "in" THEN before ELSE after
    BY <1>1, <1>4 DEF CallsMade
  <2>3. Last(before)[1] # "post" /\ Last(after)[1] # "post"
    <3> DEFINE x == << "beforeChild", i >>
               y == << "in", i >>
    <3>1. x \in Callback \X Nat /\ y \in Callback \X Nat
      BY <1>1 DEF Callback
    <3>2. x[1] # "post" /\ y[1] # "post"
      OBVIOUS
    <3>3. before = Append(Due[i], x) /\ (after = before \/ after = Append(before, y))
      OBVIOUS
    <3> HIDE DEF x, y, before, after
    <3>4. Last(Append(Due[i], x)) = x /\ Last(Append(before, y)) = y
      BY <1>2, <3>1, PushTop DEF Last, CallList
    <3>. QED BY <3>2, <3>3, <3>4
  <2> HIDE DEF before, after
  <2>4. Begins(before, Due[i + 1])
    BY <1>2, BeginsTrans DEF CallList
  <2>5. Begins(before, Due[d]) /\ Begins(after, Due[d])
    BY <1>2, <2>1, <2>4, BeginsTrans DEF CallList
  <2>. QED BY <1>2, <2>2, <2>3, <2>5
<1>. QED BY <1>3, <1>4

LEMMA PromisedEnds ==
  ASSUME NEW d \in Nat
  PROVE  /\ Promised(d) \in CallList /\ Begins(Due[d], Promised(d))
         /\ Last(Promised(d)) = << "post", d >>
<1> DEFINE z == << "post", d >>
<1>1. z \in Callback \X Nat /\ Promised(d) = Append(Due[d], z) /\ Due[d] \in CallList
  BY MadeIsDue DEF Callback, Promised
<1> HIDE DEF z
<1>2. Append(Due[d], z) \in CallList /\ Begins(Due[d], Append(Due[d], z))
      /\ Last(Append(Due[d], z)) = z
  BY <1>1, PushTop, BeginsAppend DEF CallList, Last
<1>. QED BY <1>1, <1>2 DEF z

LEMMA OrderIsProtocol ==
  IInv /\ AllPast(log, stack) /\ InOrder(log, stack) => CallbackProtocol
<1> SUFFICES ASSUME IInv, AllPast(log, stack), InOrder(log, stack), NEW e \in ToSet(log)
             PROVE  LET calls == CallsIn(log, e.path)
                    IN  IF isLeaf(e.node)
                          THEN calls = << << "leaf", 0 >> >>
                          ELSE IF Last(calls)[1] = "post"
                            THEN calls = Promised(Last(calls)[2])
                            ELSE IsPrefix(calls, Promised(Len(held[e.node])))
  BY DEF CallbackProtocol
<1> DEFINE calls == CallsIn(log, e.path)
<1>1. stack \in Seq(Frame) /\ log \in Seq(Event) /\ held \in Holdings
  BY DEF IInv, TypeOK, Holdings
<1>2. PICK n \in 1 .. Len(log) : log[n] = e
  BY <1>1 DEF ToSet
<1>3. CASE Complete(log, e)
  <2>1. CASE isLeaf(e.node)
    BY <1>3, <2>1 DEF Complete
  <2>2. CASE ~ isLeaf(e.node)
    <3>1. PICK d \in Nat : calls = Promised(d)
      BY <1>3, <2>2 DEF Complete
    <3>2. Last(Promised(d)) = << "post", d >>
      BY PromisedEnds
    <3> HIDE DEF calls
    <3>3. Last(calls)[1] = "post" /\ Last(calls)[2] = d
      BY <3>1, <3>2
    <3>4. IF isLeaf(e.node) THEN calls = << << "leaf", 0 >> >>
          ELSE IF Last(calls)[1] = "post" THEN calls = Promised(Last(calls)[2])
          ELSE IsPrefix(calls, Promised(Len(held[e.node])))
      BY <2>2, <3>1, <3>3
    <3>. QED BY <3>4 DEF calls
  <2>. QED BY <2>1, <2>2
<1>4. CASE \E k \in 1 .. Len(stack) : e.path = stack[k].path
  <2>1. PICK k \in 1 .. Len(stack) : e.path = stack[k].path
    BY <1>4
  <2> DEFINE f == stack[k]
             d == Len(held[f.node])
  <2>2. /\ Made(log[n], f) /\ f \in Frame /\ IndexOK(f, held) /\ f.node \in Node
    BY <1>1, <1>2, <2>1, OwnCalls, FrameAt DEF IInv, IsWalk
  <2>3. f.pc # "start" /\ e.node = f.node
    BY <1>2, <2>2 DEF Made
  <2>4. ~ isLeaf(e.node) /\ calls = CallsMade(f)
    BY <2>1, <2>3 DEF InOrder
  <2>5. d \in Nat
    BY <1>1, <2>2 DEF Holdings
  <2>6. f.i <= d /\ (InLoop(f) => f.i < d)
    BY <2>2, <2>3 DEF IndexOK
  <2> HIDE DEF f, d
  <2>7. /\ calls \in CallList /\ Begins(calls, Due[d]) /\ Last(calls)[1] # "post"
    BY <2>2, <2>3, <2>4, <2>5, <2>6, MadeBegins
  <2>8. /\ Promised(d) \in CallList /\ Begins(Due[d], Promised(d)) /\ Due[d] \in CallList
    BY <2>5, PromisedEnds, MadeIsDue
  <2> HIDE DEF calls
  <2>9. Begins(calls, Promised(d))
    BY <2>7, <2>8, BeginsTrans DEF CallList
  <2>10. IsPrefix(calls, Promised(d))
    BY <2>7, <2>8, <2>9, PrefixIs DEF CallList, Begins
  <2>11. Promised(d) = Promised(Len(held[e.node]))
    BY <2>3 DEF d
  <2>. QED BY <2>4, <2>7, <2>10, <2>11 DEF calls
<1>. QED BY <1>2, <1>3, <1>4 DEF InOrder


-----------------------------------------------------------------------------
(* applyToTree never leaves the world it was started in: its call stack    *)
(* holds nodes, paths and indices, and so does what the visitor is told.   *)
THEOREM TypeCorrect == Spec => []TypeOK
<1>1. IInv => TypeOK
  BY DEF IInv
<1>. QED BY <1>1, Invariance, PTL

(* The (node, treePath) pair of every callback is right: following the     *)
(* path from the root of the traversal ends at the node.  This holds for   *)
(* every tree and every visitor, also one that changes nodes that are not  *)
(* open; the proof shows why: the indices of the waiting activations are   *)
(* the path.                                                               *)
THEOREM CallbackPathsAreRight == Spec => []PathLeadsToNode
<1>1. IInv => PathLeadsToNode
  BY DEF IInv
<1>. QED BY <1>1, Invariance, PTL

(* Nodes that are not open may be changed at will, by pre and post also    *)
(* the node they are called for: the index ranges and child references     *)
(* that applyToTree keeps across callbacks stay those of the tree.         *)
THEOREM RememberedIsCurrent == Spec => []NothingStale
<1>1. ASSUME IInv PROVE NothingStale
  <2>1. ASSUME NEW k \in 1 .. Len(stack), stack[k].pc # "start"
        PROVE  /\ stack[k].size = Len(held[stack[k].node])
               /\ stack[k].pc # "loop" =>
                    stack[k].child = held[stack[k].node][stack[k].i + 1]
    <3>1. IndexOK(stack[k], held) /\ stack[k].pc \in Point
      BY <1>1, FrameAt DEF IInv, IsWalk, TypeOK
    <3>. QED BY <2>1, <3>1 DEF IndexOK, InLoop, Point
  <2>. QED BY <2>1 DEF NothingStale
<1>. QED BY <1>1, Invariance, PTL

(* Everything the three theorems above rest on, and that every position    *)
(* the visitor was told about is under way or left.                        *)
LEMMA VisitInvariance == Spec => [](IInv /\ AllPast(log, stack) /\ Visiting)
<1>1. Init => IInv /\ AllPast(log, stack) /\ Visiting
  BY InitIInv, InitVisiting
<1>2. IInv /\ AllPast(log, stack) /\ Visiting /\ [Next]_vars
        => (IInv /\ AllPast(log, stack) /\ Visiting)'
  <2> SUFFICES ASSUME IInv, AllPast(log, stack), Visiting, [Next]_vars
               PROVE  IInv' /\ AllPast(log', stack') /\ Visiting'
    BY DEF AllPast, Past, Made, Branches, Over, InLoop
  <2>1. IInv'
    BY NextIInv
  <2>2. AllPast(log', stack')
    BY <2>1, PastKept
  <2>. QED BY <2>1, <2>2, VisitingKept
<1>. QED BY <1>1, <1>2, PTL DEF Spec

LEMMA OrderInvariance == Spec => [](IInv /\ AllPast(log, stack) /\ InOrder(log, stack))
<1>1. Init => IInv /\ AllPast(log, stack) /\ InOrder(log, stack)
  <2> SUFFICES ASSUME Init PROVE IInv /\ AllPast(log, stack) /\ InOrder(log, stack)
    OBVIOUS
  <2>1. log = << >> /\ \A n : n \notin 1 .. Len(<< >>)
    BY EmptySeq DEF Init
  <2> DEFINE f == Activation(root, << >>)
  <2>2. stack = << f >> /\ f.pc = "start"
    BY DEF Init, Activation
  <2> HIDE DEF f
  <2>3. \A k \in 1 .. Len(stack) : stack[k].pc = "start"
    BY <2>2
  <2>4. AllPast(log, stack) /\ InOrder(log, stack)
    BY <2>1, <2>3 DEF AllPast, InOrder
  <2>. QED BY <2>4, InitIInv
<1>2. IInv /\ AllPast(log, stack) /\ InOrder(log, stack) /\ [Next]_vars
        => (IInv /\ AllPast(log, stack) /\ InOrder(log, stack))'
  <2> SUFFICES ASSUME IInv, AllPast(log, stack), InOrder(log, stack), [Next]_vars
               PROVE  IInv' /\ AllPast(log', stack') /\ InOrder(log', stack')
    BY DEF AllPast, Past, Made, Branches, Over, InLoop, InOrder, Complete, CallsMade
  <2>1. IInv'
    BY NextIInv
  <2>2. AllPast(log', stack')
    BY <2>1, PastKept
  <2>. QED BY <2>1, <2>2, OrderKept
<1>. QED BY <1>1, <1>2, PTL DEF Spec

(* beforeChild and in come before everything the visitor is told about the *)
(* child and what is below it, afterChild comes after all of it, for any   *)
(* two calls however far apart in the log.                                 *)
THEOREM CallsBracketChildren == Spec => []ChildCallsBracketVisit
BY LogInvariance, PTL

(* The traversal visits depth first: seen as the set of the positions that *)
(* were entered and the set of those that were left, every run of          *)
(* applyToTree is one of DepthFirst. A node is entered once, below a node  *)
(* that is under way and after the accepted children to its left, it is    *)
(* left after all of its accepted children, and a leaf is both at once.    *)
(* This is ImplementsDepthFirst without its fairness.                      *)
THEOREM VisitsDepthFirst == Spec => Abstract!Init /\ [][Abstract!Next]_(Abstract!vars)
<1>1. Init => Abstract!Init
  BY InitIsVisit
<1>2. IInv /\ AllPast(log, stack) /\ Visiting /\ [Next]_vars
        => [Abstract!Next]_(Abstract!vars)
  BY StepIsVisit
<1>. QED BY <1>1, <1>2, VisitInvariance, PTL DEF Spec

(* The callbacks for one position come in the order visitor.hh documents,  *)
(* none of them twice and none left out: pre, beforeChild and afterChild   *)
(* for every child, in between two of them, post; for a leaf, leaf alone.  *)
(* An activation under way has made the first ones of them.                *)
THEOREM CallbacksInDocumentedOrder == Spec => []CallbackProtocol
BY OrderInvariance, OrderIsProtocol, PTL

-----------------------------------------------------------------------------
(* What a reduction over the leafs makes of them: the functor's values,    *)
(* one per leaf met, in the order of the callbacks.                        *)
LeafMet == [node : Node, path : TreePath]

LeafOf(e) == [node |-> e.node, path |-> e.path]

LeafStep(events) ==
  [x \in (1 .. Len(events)) \X Seq(LeafMet) |->
     IF events[x[1]].cb = "leaf" THEN leaf(x[2], events[x[1]].node, events[x[1]].path) ELSE x[2]]

LEMMA LeafAppends ==
  ASSUME NEW value \in Seq(LeafMet), NEW e \in Event
  PROVE  /\ leaf(value, e.node, e.path) = Append(value, LeafOf(e))
         /\ Append(value, LeafOf(e)) \in Seq(LeafMet)
<1>1. LeafOf(e) \in LeafMet
  BY DEF LeafOf, LeafMet, Event
<1>2. leaf(value, e.node, e.path) = value \o << LeafOf(e) >>
  BY DEF leaf, reduction, functor, LeafOf
<1>3. \A x \in LeafMet : value \o << x >> = Append(value, x) /\ Append(value, x) \in Seq(LeafMet)
  OBVIOUS
<1>. QED BY <1>1, <1>2, <1>3

LEMMA LeafStepType ==
  ASSUME NEW events \in Seq(Event)
  PROVE  LeafStep(events) \in [(1 .. Len(events)) \X Seq(LeafMet) -> Seq(LeafMet)]
<1> DEFINE v(x) == IF events[x[1]].cb = "leaf"
                     THEN leaf(x[2], events[x[1]].node, events[x[1]].path) ELSE x[2]
           D == (1 .. Len(events)) \X Seq(LeafMet)
<1>1. ASSUME NEW x \in D PROVE v(x) \in Seq(LeafMet)
  <2>1. x[1] \in 1 .. Len(events) /\ x[2] \in Seq(LeafMet)
    OBVIOUS
  <2>2. events[x[1]] \in Event
    BY <2>1, ElementOfSeq
  <2>3. leaf(x[2], events[x[1]].node, events[x[1]].path) \in Seq(LeafMet)
    BY <2>1, <2>2, LeafAppends
  <2>. QED BY <2>1, <2>3
<1>2. LeafStep(events) = [x \in D |-> v(x)]
  BY DEF LeafStep
<1> HIDE DEF v, D
<1>3. LeafStep(events) \in [D -> Seq(LeafMet)]
  BY <1>1, <1>2
<1>. QED BY <1>3 DEF D

(* value_ goes through the events step by step.                            *)
LEMMA ValueSteps ==
  ASSUME NEW events \in Seq(Event)
  PROVE  \E g : /\ Steps(g, << >>, LeafStep(events), Len(events))
                /\ value_(events) = g[Len(events)]
                /\ \A k \in 0 .. Len(events) : g[k] \in Seq(LeafMet)
<1> DEFINE n == Len(events)
           v(g, k) == IF k = 0 THEN startValue
                      ELSE IF events[k].cb = "leaf"
                        THEN leaf(g[k - 1], events[k].node, events[k].path)
                        ELSE g[k - 1]
           step == LeafStep(events)
<1>1. n \in Nat /\ << >> \in Seq(LeafMet) /\ startValue = << >>
  BY DEF startValue
<1>2. step \in [(1 .. n) \X Seq(LeafMet) -> Seq(LeafMet)]
  BY LeafStepType
<1> HIDE DEF n, step
<1>3. PICK f \in [0 .. n -> Seq(LeafMet)] : Steps(f, << >>, step, n)
  BY <1>1, <1>2, StepsExist
<1>4. ASSUME NEW k \in 1 .. n, NEW g, g[k - 1] \in Seq(LeafMet)
      PROVE  step[<< k, g[k - 1] >>] = v(g, k)
  <2>1. k # 0 /\ << k, g[k - 1] >> \in (1 .. Len(events)) \X Seq(LeafMet)
    BY <1>1, <1>4 DEF n
  <2> DEFINE x == << k, g[k - 1] >>
  <2>2. x[1] = k /\ x[2] = g[k - 1]
    OBVIOUS
  <2>3. step[x] = IF events[x[1]].cb = "leaf"
                    THEN leaf(x[2], events[x[1]].node, events[x[1]].path) ELSE x[2]
    BY <2>1 DEF step, LeafStep
  <2> HIDE DEF x
  <2>4. step[x] = v(g, k)
    BY <2>1, <2>2, <2>3
  <2>. QED BY <2>4 DEF x
<1>5. ASSUME NEW k \in 0 .. n PROVE f[k] = v(f, k)
  <2>1. CASE k = 0
    BY <1>1, <1>3, <2>1 DEF Steps
  <2>2. CASE k # 0
    <3>1. k \in 1 .. n /\ k - 1 \in 0 .. n
      BY <1>1, <2>2
    <3>2. f[k] = step[<< k, f[k - 1] >>] /\ f[k - 1] \in Seq(LeafMet)
      BY <1>3, <3>1 DEF Steps
    <3> HIDE DEF v
    <3>. QED BY <1>4, <3>1, <3>2
  <2>. QED BY <2>1, <2>2
<1>6. f = [k \in 0 .. n |-> v(f, k)]
  <2> DEFINE u(k) == v(f, k)
  <2>1. f = [k \in 0 .. n |-> f[k]] /\ \A k \in 0 .. n : f[k] = u(k)
    BY <1>5
  <2> HIDE DEF u
  <2>2. f = [k \in 0 .. n |-> u(k)]
    BY <2>1
  <2>. QED BY <2>2 DEF u
<1>7. \E g : g = [k \in 0 .. n |-> v(g, k)]
  BY <1>6
<1>8. PICK h : h = [k \in 0 .. n |-> v(h, k)] /\ value_(events) = h[n]
  BY <1>7, Zenon DEF value_, n
<1>9. \A k \in 0 .. n : h[k] = v(h, k)
  <2> DEFINE u(k) == v(h, k)
  <2>1. h = [k \in 0 .. n |-> u(k)]
    BY <1>8
  <2> HIDE DEF u
  <2>2. \A k \in 0 .. n : h[k] = u(k)
    BY <2>1
  <2>. QED BY <2>2 DEF u
<1>10. \A k \in 0 .. n : h[k] = f[k]
  <2> DEFINE T == {k \in Nat : k \in 0 .. n => h[k] = f[k]}
  <2>1. 0 \in T
    <3>1. 0 \in 0 .. n
      BY <1>1
    <3>2. h[0] = startValue /\ f[0] = startValue
      BY <1>5, <1>9, <3>1
    <3>. QED BY <3>2
  <2>2. ASSUME NEW k \in Nat, k \in T PROVE k + 1 \in T
    <3> SUFFICES ASSUME k + 1 \in 0 .. n PROVE h[k + 1] = f[k + 1]
      OBVIOUS
    <3>1. k \in 0 .. n /\ (k + 1) - 1 = k /\ k + 1 # 0
      BY <1>1
    <3>2. h[k] = f[k] /\ h[k + 1] = v(h, k + 1) /\ f[k + 1] = v(f, k + 1)
      BY <1>5, <1>9, <2>2, <3>1
    <3>. QED BY <3>1, <3>2
  <2>3. Nat \subseteq T
    <3> HIDE DEF T
    <3>. QED BY <2>1, <2>2, CountingInduction
  <2>. QED BY <1>1, <2>3
<1>11. n \in 0 .. n
  BY <1>1
<1>12. value_(events) = f[n] /\ \A k \in 0 .. n : f[k] \in Seq(LeafMet)
  BY <1>3, <1>8, <1>10, <1>11
<1>. QED BY <1>3, <1>12 DEF n, step

(* One more callback is reduced if it is that for a leaf.                  *)
LEMMA ValueNext ==
  ASSUME NEW events \in Seq(Event), NEW e \in Event
  PROVE  /\ value_(events) \in Seq(LeafMet)
         /\ value_(Append(events, e)) =
              IF e.cb = "leaf" THEN Append(value_(events), LeafOf(e)) ELSE value_(events)
<1> DEFINE more == Append(events, e)
           n == Len(events)
<1>1. /\ more \in Seq(Event) /\ n \in Nat /\ Len(more) = n + 1 /\ more[n + 1] = e
      /\ \A k \in 1 .. n : more[k] = events[k]
  BY PushTop
<1> HIDE DEF more
<1>2. PICK g : /\ Steps(g, << >>, LeafStep(events), n) /\ value_(events) = g[n]
               /\ \A k \in 0 .. n : g[k] \in Seq(LeafMet)
  BY ValueSteps
<1> HIDE DEF n
<1>3. PICK h : /\ Steps(h, << >>, LeafStep(more), n + 1) /\ value_(more) = h[n + 1]
               /\ \A k \in 0 .. n + 1 : h[k] \in Seq(LeafMet)
  BY <1>1, ValueSteps
<1>4. Steps(h, << >>, LeafStep(events), n)
  <2>1. ASSUME NEW k \in 1 .. n PROVE h[k] = LeafStep(events)[<< k, h[k - 1] >>]
    <3>1. k \in 1 .. n + 1 /\ k - 1 \in 0 .. n + 1
      BY <1>1
    <3>2. h[k] = LeafStep(more)[<< k, h[k - 1] >>] /\ h[k - 1] \in Seq(LeafMet)
      BY <1>3, <3>1 DEF Steps
    <3> DEFINE x == << k, h[k - 1] >>
    <3>3. /\ x \in (1 .. Len(more)) \X Seq(LeafMet) /\ x \in (1 .. Len(events)) \X Seq(LeafMet)
          /\ x[1] = k
      BY <1>1, <3>1, <3>2 DEF n
    <3> HIDE DEF x
    <3>4. LeafStep(more)[x] = LeafStep(events)[x]
      BY <1>1, <3>3 DEF LeafStep
    <3>. QED BY <3>2, <3>4 DEF x
  <2>2. h[0] = << >>
    BY <1>3 DEF Steps
  <2>. QED BY <2>1, <2>2 DEF Steps
<1>5. h[n] = g[n]
  <2> DEFINE T == {k \in Nat : k \in 0 .. n => h[k] = g[k]}
  <2>1. 0 \in T
    BY <1>2, <1>4 DEF Steps
  <2>2. ASSUME NEW k \in Nat, k \in T PROVE k + 1 \in T
    <3> SUFFICES ASSUME k + 1 \in 0 .. n PROVE h[k + 1] = g[k + 1]
      OBVIOUS
    <3>1. k \in 0 .. n /\ k + 1 \in 1 .. n /\ (k + 1) - 1 = k
      BY <1>1
    <3>2. /\ g[k + 1] = LeafStep(events)[<< k + 1, g[k] >>]
          /\ h[k + 1] = LeafStep(events)[<< k + 1, h[k] >>]
      BY <1>2, <1>4, <3>1 DEF Steps
    <3>. QED BY <2>2, <3>1, <3>2
  <2>3. Nat \subseteq T
    <3> HIDE DEF T
    <3>. QED BY <2>1, <2>2, CountingInduction
  <2>. QED BY <1>1, <2>3
<1>6. h[n + 1] = IF e.cb = "leaf" THEN leaf(g[n], e.node, e.path) ELSE g[n]
  <2>1. n + 1 \in 1 .. n + 1 /\ (n + 1) - 1 = n /\ n \in 0 .. n
    BY <1>1
  <2>2. h[n + 1] = LeafStep(more)[<< n + 1, g[n] >>]
    BY <1>3, <1>5, <2>1 DEF Steps
  <2> DEFINE x == << n + 1, g[n] >>
  <2>3. x \in (1 .. Len(more)) \X Seq(LeafMet) /\ x[1] = n + 1 /\ x[2] = g[n]
    BY <1>1, <1>2, <2>1
  <2> HIDE DEF x
  <2>4. LeafStep(more)[x] = IF e.cb = "leaf" THEN leaf(g[n], e.node, e.path) ELSE g[n]
    BY <1>1, <2>3 DEF LeafStep
  <2>. QED BY <2>2, <2>4 DEF x
<1>7. value_(events) \in Seq(LeafMet)
  <2>1. n \in 0 .. n
    BY <1>1
  <2>. QED BY <1>2, <2>1
<1>8. leaf(g[n], e.node, e.path) = Append(g[n], LeafOf(e))
  BY <1>2, <1>7, LeafAppends
<1>. QED BY <1>2, <1>3, <1>6, <1>7, <1>8 DEF more

LEMMA NoValueYet == value_(<< >>) = << >>
<1>1. << >> \in Seq(Event) /\ Len(<< >>) = 0
  OBVIOUS
<1>2. PICK g : Steps(g, << >>, LeafStep(<< >>), 0) /\ value_(<< >>) = g[0]
  BY <1>1, ValueSteps
<1>. QED BY <1>2 DEF Steps

-----------------------------------------------------------------------------
(* How far the loop of an activation has come: a child that has been       *)
(* called for counts as done with. Seen this way the call stack is one of  *)
(* the depth-first visits of StackLemmas.                                  *)
ViewOf(f) ==
  [node |-> f.node, path |-> f.path,
   i |-> IF f.pc = "afterChild" THEN f.i + 1 ELSE f.i, started |-> f.pc # "start"]

View == [f \in Frame |-> ViewOf(f)]

PathsOf(value) == Seen([e \in LeafMet |-> e.path], value)

(* Nothing has changed the tree, every leaf in the value is where its path *)
(* says, and the paths are those of the leafs to the left of where the     *)
(* call stack stands.                                                      *)
Reduced(value, s, r, h) ==
  /\ h = Child
  /\ \A k \in 1 .. Len(value) : Leads(Child, r, value[k].path, value[k].node)
  /\ Reports(r, Seen(View, s), PathsOf(value))

LEMMA ViewOfFrame ==
  ASSUME NEW f \in Frame
  PROVE  ViewOf(f) \in LoopFrame
<1>1. f.node \in Node /\ f.path \in TreePath /\ f.i \in Nat
  BY DEF Frame
<1> DEFINE i == IF f.pc = "afterChild" THEN f.i + 1 ELSE f.i
           b == f.pc # "start"
<1>2. i \in Nat /\ b \in BOOLEAN
  BY <1>1
<1> HIDE DEF i, b
<1>3. [node |-> f.node, path |-> f.path, i |-> i, started |-> b] \in LoopFrame
  BY <1>1, <1>2 DEF LoopFrame
<1>. QED BY <1>3 DEF ViewOf, i, b

LEMMA Viewed ==
  ASSUME NEW s \in Seq(Frame)
  PROVE  /\ Seen(View, s) \in Seq(LoopFrame) /\ Len(Seen(View, s)) = Len(s)
         /\ \A f \in Frame : Seen(View, Append(s, f)) = Append(Seen(View, s), ViewOf(f))
         /\ s # << >> =>
              /\ Seen(View, s) # << >>
              /\ Seen(View, s)[Len(Seen(View, s))] = ViewOf(s[Len(s)])
              /\ Seen(View, Front(s)) = Front(Seen(View, s))
              /\ \A f \in Frame :
                   Seen(View, [s EXCEPT ![Len(s)] = f])
                     = [Seen(View, s) EXCEPT ![Len(Seen(View, s))] = ViewOf(f)]
<1>1. DOMAIN View = Frame /\ \A f \in Frame : View[f] = ViewOf(f)
  BY DEF View
<1>2. \A f \in Frame : View[f] \in LoopFrame
  BY <1>1, ViewOfFrame
<1> HIDE DEF View
<1>3. s \in Seq(DOMAIN View)
  BY <1>1
<1>4. /\ Seen(View, s) \in Seq({View[x] : x \in DOMAIN View})
      /\ Len(Seen(View, s)) = Len(s)
      /\ s # << >> => Seen(View, s) # << >>
  BY <1>3, SeenStack
<1> DEFINE T == {View[x] : x \in DOMAIN View}
<1>5. T \subseteq LoopFrame
  BY <1>1, <1>2
<1> HIDE DEF T
<1>6. Seen(View, s) \in Seq(LoopFrame)
  BY <1>4, <1>5, WiderStack DEF T
<1>7. ASSUME NEW f \in Frame
      PROVE  /\ Seen(View, Append(s, f)) = Append(Seen(View, s), ViewOf(f))
             /\ s # << >> => Seen(View, [s EXCEPT ![Len(s)] = f])
                               = [Seen(View, s) EXCEPT ![Len(Seen(View, s))] = ViewOf(f)]
  <2>1. f \in DOMAIN View /\ View[f] = ViewOf(f)
    BY <1>1
  <2>2. Seen(View, Append(s, f)) = Append(Seen(View, s), View[f])
    BY <1>3, <2>1, SeenPush
  <2>3. s # << >> => Seen(View, [s EXCEPT ![Len(s)] = f])
                       = [Seen(View, s) EXCEPT ![Len(Seen(View, s))] = View[f]]
    BY <1>3, <2>1, SeenReplace
  <2>. QED BY <2>1, <2>2, <2>3
<1>8. ASSUME s # << >>
      PROVE  /\ Seen(View, s)[Len(Seen(View, s))] = ViewOf(s[Len(s)])
             /\ Seen(View, Front(s)) = Front(Seen(View, s))
  <2>1. Last(Seen(View, s)) = View[Last(s)] /\ Seen(View, Front(s)) = Front(Seen(View, s))
    BY <1>3, <1>8, SeenTop, SeenPop
  <2>2. Len(s) \in 1 .. Len(s)
    BY <1>8, EmptySeq
  <2>3. s[Len(s)] \in Frame
    BY <2>2, ElementOfSeq
  <2>. QED BY <1>1, <2>1, <2>3 DEF Last
<1>. QED BY <1>4, <1>6, <1>7, <1>8

(* A callback adds to the value at a leaf only.                            *)
LEMMA ValueCalled ==
  ASSUME TypeOK, stack # << >>, NEW cb \in Callback, Call(cb)
  PROVE  /\ value_(log) \in Seq(LeafMet)
         /\ value_(log') = IF cb = "leaf"
                             THEN Append(value_(log), [node |-> Top.node, path |-> Top.path])
                             ELSE value_(log)
<1> DEFINE e == Now(cb)
<1>1. e \in Event /\ e.cb = cb /\ LeafOf(e) = [node |-> Top.node, path |-> Top.path]
  BY TopFrame DEF Now, Event, LeafOf
<1>2. log \in Seq(Event) /\ log' = Append(log, e)
  BY DEF TypeOK, Call, Now
<1> HIDE DEF e
<1>. QED BY <1>1, <1>2, ValueNext

LEMMA PathAdded ==
  ASSUME NEW value \in Seq(LeafMet), NEW m \in LeafMet
  PROVE  PathsOf(Append(value, m)) = Append(PathsOf(value), m.path)
<1> DEFINE F == [e \in LeafMet |-> e.path]
<1>1. DOMAIN F = LeafMet /\ F[m] = m.path
  OBVIOUS
<1> HIDE DEF F
<1>2. Seen(F, Append(value, m)) = Append(Seen(F, value), F[m])
  BY <1>1, SeenPush
<1>. QED BY <1>1, <1>2 DEF PathsOf, F

(* A visitor that does not touch the tree leaves it as it was.             *)
LEMMA TreeUntouched ==
  ASSUME TypeOK, NEW open, CallbackChanges(open), changes' = 0
  PROVE  held' = held /\ changes = 0
<1>1. changes \in Nat
  BY DEF TypeOK
<1>2. CASE UNCHANGED << held, changes >>
  BY <1>2
<1>3. CASE ~ UNCHANGED << held, changes >>
  <2>1. changes' = changes + 1
    BY <1>3 DEF CallbackChanges
  <2>. QED BY <1>1, <2>1
<1>. QED BY <1>2, <1>3

(* The innermost loop goes on without calling for another child.           *)
LEMMA ReducedOn ==
  ASSUME TypeOK, stack # << >>, Reduced(value_(log), stack, root, held),
         NEW pc \in Point, NEW i, Advances(pc, i),
         pc # "start",
         i + (IF pc = "afterChild" THEN 1 ELSE 0)
           = Top.i + (IF Top.pc = "afterChild" THEN 1 ELSE 0),
         held' = held
  PROVE  Reduced(value_(log), stack', root, held')
<1> DEFINE p == Seen(View, stack)
           met == PathsOf(value_(log))
<1>1. /\ stack \in Seq(Frame) /\ root \in Node
      /\ Top = stack[Len(stack)] /\ Top.i \in Nat /\ Top \in Frame
  BY TopFrame DEF TypeOK
<1>2. PICK f \in Frame : /\ stack' = [stack EXCEPT ![Len(stack)] = f]
                         /\ f.node = Top.node /\ f.path = Top.path
                         /\ f.i = i /\ f.pc = pc
  BY DEF Advances
<1>3. /\ p \in Seq(LoopFrame) /\ p # << >> /\ p[Len(p)] = ViewOf(Top)
      /\ Seen(View, stack') = [p EXCEPT ![Len(p)] = ViewOf(f)]
  BY <1>1, <1>2, Viewed
<1>4. Reports(root, p, met)
  BY DEF Reduced
<1>5. /\ ViewOf(f) \in LoopFrame /\ ViewOf(f).started = TRUE
      /\ ViewOf(f).node = ViewOf(Top).node /\ ViewOf(f).path = ViewOf(Top).path
      /\ ViewOf(f).i = ViewOf(Top).i
  <2>1. f.i \in Nat
    BY DEF Frame
  <2>2. ViewOf(f) \in LoopFrame
    BY ViewOfFrame
  <2>3. /\ ViewOf(f).started = (f.pc # "start") /\ ViewOf(f).node = f.node
        /\ ViewOf(f).path = f.path
        /\ ViewOf(f).i = IF f.pc = "afterChild" THEN f.i + 1 ELSE f.i
    BY DEF ViewOf
  <2>4. /\ ViewOf(Top).node = Top.node /\ ViewOf(Top).path = Top.path
        /\ ViewOf(Top).i = IF Top.pc = "afterChild" THEN Top.i + 1 ELSE Top.i
    BY DEF ViewOf
  <2>5. (f.pc # "start") = TRUE
    BY <1>2
  <2>6. ViewOf(f).i = ViewOf(Top).i
    <3>1. i \in Nat
      BY <1>2, <2>1
    <3>. QED BY <1>1, <1>2, <2>3, <2>4, <3>1
  <2>. QED BY <1>2, <2>2, <2>3, <2>4, <2>5, <2>6
<1> HIDE DEF p, met
<1>6. Reports(root, [p EXCEPT ![Len(p)] = ViewOf(f)], met)
  BY <1>1, <1>3, <1>4, <1>5, ReportsStarted
<1>7. Reports(root, Seen(View, stack'), met)
  BY <1>3, <1>6
<1>. QED BY <1>7 DEF Reduced, met

(* An activation that returns has met its leaf, or has come to the end of  *)
(* its children.                                                           *)
LEMMA ReducedLeaf ==
  ASSUME IInv, Leaf, held' = held, Reduced(value_(log), stack, root, held)
  PROVE  Reduced(value_(log'), stack', root, held')
<1> DEFINE p == Seen(View, stack)
           value == value_(log)
           m == [node |-> Top.node, path |-> Top.path]
           more == Append(value, m)
<1>1. /\ TypeOK /\ stack # << >> /\ Top.pc = "start" /\ isLeaf(Top.node) /\ Call("leaf")
      /\ stack' = Front(stack)
  BY DEF IInv, Leaf, At, Return
<1>2. /\ stack \in Seq(Frame) /\ root \in Node /\ Top = stack[Len(stack)]
      /\ Top.node \in Node /\ Top.path \in TreePath
  BY <1>1, TopFrame DEF TypeOK
<1>3. /\ p \in Seq(LoopFrame) /\ p # << >> /\ p[Len(p)] = ViewOf(Top)
      /\ Seen(View, stack') = Front(p)
  BY <1>1, <1>2, Viewed
<1>4. /\ p[Len(p)].started = FALSE /\ p[Len(p)].node = Top.node
      /\ p[Len(p)].path = Top.path
  <2>1. /\ ViewOf(Top).started = (Top.pc # "start") /\ ViewOf(Top).node = Top.node
        /\ ViewOf(Top).path = Top.path
    BY DEF ViewOf
  <2>2. (Top.pc # "start") = FALSE
    BY <1>1
  <2>. QED BY <1>3, <2>1, <2>2
<1>5. /\ Reports(root, p, PathsOf(value)) /\ held = Child
      /\ \A k \in 1 .. Len(value) : Leads(Child, root, value[k].path, value[k].node)
  BY DEF Reduced
<1>6. value \in Seq(LeafMet) /\ m \in LeafMet /\ m.path = Top.path /\ m.node = Top.node
  <2>1. "leaf" \in Callback
    BY DEF Callback
  <2>. QED BY <1>1, <1>2, <2>1, ValueCalled DEF LeafMet
<1>7. value_(log') = more
  <2>1. "leaf" \in Callback
    BY DEF Callback
  <2>. QED BY <1>1, <2>1, ValueCalled
<1> HIDE DEF p, value, m
<1>8. PathsOf(more) = Append(PathsOf(value), Top.path)
  BY <1>6, PathAdded
<1>9. Reports(root, Front(p), Append(PathsOf(value), p[Len(p)].path))
  <2>1. ~ p[Len(p)].started /\ isLeaf(p[Len(p)].node)
    BY <1>1, <1>4
  <2>. QED BY <1>2, <1>3, <1>5, <2>1, ReportsLeaf
<1>10. Reports(root, Seen(View, stack'), PathsOf(more))
  BY <1>3, <1>4, <1>8, <1>9
<1>11. Leads(Child, root, m.path, m.node)
  <2>1. Leads(held, root, Top.path, Top.node)
    BY <1>1, TopIsReached DEF IInv
  <2>. QED BY <1>5, <1>6, <2>1
<1>12. /\ Len(more) = Len(value) + 1 /\ more[Len(value) + 1] = m
       /\ \A k \in 1 .. Len(value) : more[k] = value[k]
  BY <1>6, PushTop
<1>13. Len(value) \in Nat
  BY <1>6
<1> HIDE DEF more
<1>14. ASSUME NEW k \in 1 .. Len(more) PROVE Leads(Child, root, more[k].path, more[k].node)
  <2>1. CASE k = Len(value) + 1
    BY <1>11, <1>12, <2>1
  <2>2. CASE k # Len(value) + 1
    <3>1. k \in 1 .. Len(value)
      BY <1>12, <1>13, <2>2
    <3>. QED BY <1>5, <1>12, <3>1
  <2>. QED BY <2>1, <2>2
<1>15. held' = Child
  BY <1>5
<1>. QED BY <1>7, <1>10, <1>14, <1>15 DEF Reduced

LEMMA ReducedPost ==
  ASSUME IInv, InOrder(log, stack), Post, held' = held,
         Reduced(value_(log), stack, root, held)
  PROVE  Reduced(value_(log'), stack', root, held')
<1> DEFINE p == Seen(View, stack)
           met == PathsOf(value_(log))
<1>1. /\ TypeOK /\ stack # << >> /\ Top.pc = "loop" /\ Top.i = Top.size /\ Call("post")
      /\ stack' = Front(stack)
  BY DEF IInv, Post, At, Return
<1>2. /\ stack \in Seq(Frame) /\ root \in Node /\ Top = stack[Len(stack)]
      /\ Top.i \in Nat /\ Len(stack) \in 1 .. Len(stack)
  BY <1>1, TopFrame DEF TypeOK
<1>3. /\ p \in Seq(LoopFrame) /\ p # << >> /\ p[Len(p)] = ViewOf(Top)
      /\ Seen(View, stack') = Front(p)
  BY <1>1, <1>2, Viewed
<1>4. p[Len(p)].node = Top.node /\ p[Len(p)].i = Top.i
  BY <1>1, <1>3 DEF ViewOf
<1>5. Reports(root, p, met) /\ held = Child
  BY DEF Reduced
<1>6. ~ isLeaf(Top.node) /\ Top.size = degree(Top.node)
  <2>1. IndexOK(Top, held)
    BY <1>2 DEF IInv, IsWalk
  <2>2. ~ isLeaf(Top.node)
    BY <1>1, <1>2 DEF InOrder
  <2>. QED BY <1>1, <1>5, <2>1, <2>2 DEF IndexOK, degree
<1>7. value_(log') = value_(log)
  <2>1. "post" \in Callback
    BY DEF Callback
  <2>. QED BY <1>1, <2>1, ValueCalled
<1> HIDE DEF p, met
<1>8. Reports(root, Front(p), met)
  <2>1. ~ isLeaf(p[Len(p)].node)
    BY <1>4, <1>6
  <2>2. p[Len(p)].i >= degree(p[Len(p)].node)
    BY <1>1, <1>2, <1>4, <1>6
  <2>. QED BY <1>2, <1>3, <1>5, <2>1, <2>2, ReportsDone
<1>9. Reports(root, Seen(View, stack'), met)
  BY <1>3, <1>8
<1>. QED BY <1>7, <1>9 DEF Reduced, met

LEMMA ReducedVisit ==
  ASSUME IInv, IInv', VisitChild, Reduced(value_(log), stack, root, held)
  PROVE  Reduced(value_(log'), stack', root, held')
<1> DEFINE p == Seen(View, stack)
           met == PathsOf(value_(log))
<1>1. TypeOK /\ stack # << >> /\ Top.pc = "visitChild" /\ log' = log /\ held' = held
  BY DEF IInv, VisitChild, At
<1>2. /\ stack \in Seq(Frame) /\ root \in Node /\ Top = stack[Len(stack)]
      /\ Top.i \in Nat /\ Len(stack) \in 1 .. Len(stack)
  BY <1>1, TopFrame DEF TypeOK
<1>3. PICK w \in Frame, f \in Frame :
        /\ stack' = Append([stack EXCEPT ![Len(stack)] = w], f)
        /\ w.node = Top.node /\ w.path = Top.path /\ w.i = Top.i /\ w.pc = "afterChild"
        /\ f.node = Top.child /\ f.path = push_back(Top.path, Top.i)
        /\ f.i = 0 /\ f.pc = "start"
  BY VisitChildMoves DEF Calls
<1> DEFINE t == [stack EXCEPT ![Len(stack)] = w]
           g == ViewOf(w)
           b == ViewOf(f)
<1>4. /\ p \in Seq(LoopFrame) /\ p # << >> /\ p[Len(p)] = ViewOf(Top)
      /\ Seen(View, t) = [p EXCEPT ![Len(p)] = g]
  BY <1>1, <1>2, Viewed
<1>5. Seen(View, stack') = Append([p EXCEPT ![Len(p)] = g], b)
  <2>1. t \in Seq(Frame)
    BY <1>1, <1>2, ReplaceTop
  <2> HIDE DEF t
  <2>2. Seen(View, Append(t, f)) = Append(Seen(View, t), b)
    BY <2>1, Viewed
  <2>3. stack' = Append(t, f)
    BY <1>3 DEF t
  <2>. QED BY <1>4, <2>2, <2>3
<1>6. Reports(root, p, met) /\ held = Child
  BY DEF Reduced
<1>7. Top.i < degree(Top.node) /\ Top.child = child(Top.node, Top.i)
  <2>1. IndexOK(Top, held)
    BY <1>2 DEF IInv, IsWalk
  <2>. QED BY <1>1, <1>6, <2>1 DEF IndexOK, InLoop, degree, child
<1> DEFINE c == p[Len(p)]
<1>8. c.node = Top.node /\ c.path = Top.path /\ c.i = Top.i
  BY <1>1, <1>4 DEF ViewOf
<1>9. /\ g \in LoopFrame /\ g.started = TRUE
      /\ g.node = c.node /\ g.path = c.path /\ g.i = c.i + 1
  <2>1. (w.pc # "start") = TRUE /\ w.pc = "afterChild"
    BY <1>3
  <2>2. g.started = (w.pc # "start") /\ g.node = w.node /\ g.path = w.path
        /\ g.i = IF w.pc = "afterChild" THEN w.i + 1 ELSE w.i
    BY DEF ViewOf
  <2>. QED BY <1>3, <1>8, <2>1, <2>2, ViewOfFrame
<1>10. /\ b \in LoopFrame /\ b.started = FALSE /\ b.i = 0
       /\ b.node = child(c.node, c.i) /\ b.path = push_back(c.path, c.i)
  <2>1. (f.pc # "start") = FALSE /\ f.pc # "afterChild"
    BY <1>3
  <2>2. b.started = (f.pc # "start") /\ b.node = f.node /\ b.path = f.path
        /\ b.i = IF f.pc = "afterChild" THEN f.i + 1 ELSE f.i
    BY DEF ViewOf
  <2>. QED BY <1>3, <1>7, <1>8, <2>1, <2>2, ViewOfFrame
<1>11. c.i < degree(c.node) /\ c = p[Len(p)]
  BY <1>7, <1>8
<1> HIDE DEF p, met, g, b, c
<1>12. Reports(root, Append([p EXCEPT ![Len(p)] = g], b), met)
  BY <1>2, <1>4, <1>6, <1>9, <1>10, <1>11, ReportsEnters
<1>13. Reports(root, Seen(View, stack'), met)
  BY <1>5, <1>12
<1>. QED BY <1>1, <1>13 DEF Reduced, met

LEMMA ReducedKept ==
  ASSUME IInv, IInv', InOrder(log, stack), [Next]_vars, changes' = 0,
         accepted = Type \X Type, Reduced(value_(log), stack, root, held)
  PROVE  Reduced(value_(log'), stack', root', held')
<1>1. /\ TypeOK
      /\ stack # << >> => Top.i \in Nat /\ Top.node \in Node /\ Top.child \in Node
  BY TopFrame DEF IInv
(* A callback that is not leaf, within the loop of an activation.          *)
<1>2. ASSUME stack # << >>, NEW cb \in Callback \ {"leaf"}, Call(cb),
             NEW open, CallbackChanges(open), root' = root,
             NEW pc \in Point \ {"start"}, NEW i, Advances(pc, i),
             i + (IF pc = "afterChild" THEN 1 ELSE 0)
               = Top.i + (IF Top.pc = "afterChild" THEN 1 ELSE 0)
      PROVE  Reduced(value_(log'), stack', root', held')
  <2>1. held' = held
    BY <1>1, <1>2, TreeUntouched
  <2>2. value_(log') = value_(log)
    BY <1>1, <1>2, ValueCalled
  <2>3. pc \in Point /\ pc # "start"
    BY <1>2
  <2>4. Reduced(value_(log), stack', root, held')
    BY <1>1, <1>2, <2>1, <2>3, ReducedOn
  <2>. QED BY <1>2, <2>2, <2>4
<1>3. CASE Leaf
  <2>1. root' = root /\ held' = held
    BY <1>1, <1>3, TreeUntouched DEF Leaf
  <2>. QED BY <1>3, <2>1, ReducedLeaf
<1>4. CASE Pre
  <2>1. /\ stack # << >> /\ Top.pc = "start" /\ Call("pre") /\ root' = root
        /\ CallbackChanges(NodesOf(Front(stack)))
    BY <1>4 DEF Pre, At
  <2>2. Advances("loop", Top.i)
    BY <1>4, PreMoves
  <2>. QED BY <1>2, <2>1, <2>2 DEF Callback, Point
<1>5. CASE BeforeChild
  <2>1. /\ stack # << >> /\ Top.pc = "loop" /\ Call("beforeChild") /\ root' = root
        /\ CallbackChanges(NodesOf(stack))
    BY <1>5 DEF BeforeChild, At
  <2> DEFINE pc == IF Top.i > 0 THEN "in" ELSE "visitChild"
  <2>2. Advances(pc, Top.i)
    BY <1>5, BeforeChildMoves
  <2>3. pc \in Point \ {"start"} /\ pc # "afterChild"
    BY DEF Point
  <2> HIDE DEF pc
  <2>. QED BY <1>2, <2>1, <2>2, <2>3 DEF Callback
<1>6. CASE In
  <2>1. /\ stack # << >> /\ Top.pc = "in" /\ Call("in") /\ Goto("visitChild") /\ root' = root
        /\ CallbackChanges(NodesOf(stack))
    BY <1>6 DEF In, At
  <2>2. Advances("visitChild", Top.i)
    BY <2>1, GotoMoves
  <2>. QED BY <1>2, <2>1, <2>2 DEF Callback, Point
<1>7. CASE VisitChild
  <2>1. root' = root
    BY <1>7 DEF VisitChild
  <2>. QED BY <1>7, <2>1, ReducedVisit
<1>8. CASE SkipChild
  <2>1. stack # << >> /\ ~ Accepts(Top.node, Top.child)
    BY <1>8 DEF SkipChild, At
  <2>2. Accepts(Top.node, Top.child)
    BY <1>1, <2>1, TreeAssumption DEF NodeAssumption, Accepts
  <2>. QED BY <2>1, <2>2
<1>9. CASE AfterChild
  <2>1. /\ stack # << >> /\ Top.pc = "afterChild" /\ Call("afterChild") /\ root' = root
        /\ CallbackChanges(NodesOf(stack))
    BY <1>9 DEF AfterChild, At
  <2>2. Advances("loop", Top.i + 1)
    BY <1>9, AfterChildMoves
  <2>3. Top.i + 1 + 0 = Top.i + 1
    BY <1>1, <2>1
  <2>. QED BY <1>2, <2>1, <2>2, <2>3 DEF Callback, Point
<1>10. CASE Post
  <2>1. root' = root /\ held' = held
    BY <1>1, <1>10, TreeUntouched DEF Post
  <2>. QED BY <1>10, <2>1, ReducedPost
<1>11. CASE UNCHANGED vars
  BY <1>11 DEF vars
<1>. QED
  BY <1>3, <1>4, <1>5, <1>6, <1>7, <1>8, <1>9, <1>10, <1>11 DEF Next

LEMMA InitReduced == Init => Reduced(value_(log), stack, root, held)
<1> SUFFICES ASSUME Init PROVE Reduced(value_(log), stack, root, held)
  OBVIOUS
<1> DEFINE f == Activation(root, << >>)
           g == ViewOf(f)
<1>1. root \in Node /\ held = Child /\ stack = << f >> /\ log = << >>
  BY DEF Init
<1>2. /\ f \in Frame /\ f.pc = "start" /\ f.node = root /\ f.path = << >> /\ f.i = 0
  BY <1>1 DEF Activation, Frame, TreePath, Point
<1> HIDE DEF f
<1>3. /\ g \in LoopFrame /\ g.node = root /\ g.path = << >> /\ g.i = 0 /\ g.started = FALSE
  <2>1. (f.pc # "start") = FALSE /\ f.pc # "afterChild"
    BY <1>2
  <2>2. g.started = (f.pc # "start") /\ g.node = f.node /\ g.path = f.path
        /\ g.i = IF f.pc = "afterChild" THEN f.i + 1 ELSE f.i
    BY DEF ViewOf
  <2>. QED BY <1>2, <2>1, <2>2, ViewOfFrame
<1>4. Seen(View, stack) = << g >>
  <2>1. View[f] = g
    BY <1>2 DEF View
  <2> HIDE DEF g
  <2>2. Seen(View, << f >>) = << View[f] >>
    BY DEF Seen
  <2>. QED BY <1>1, <2>1, <2>2
<1>5. value_(log) = << >>
  BY <1>1, NoValueYet
<1>6. PathsOf(<< >>) = << >>
  BY DEF PathsOf, Seen
<1> HIDE DEF g
<1>7. Reports(root, << g >>, << >>)
  BY <1>1, <1>3, ReportsStart
<1>8. \A k \in 1 .. Len(<< >>) : FALSE
  OBVIOUS
<1>. QED BY <1>1, <1>4, <1>5, <1>6, <1>7, <1>8 DEF Reduced

Reducing == IsReduction => Reduced(value_(log), stack, root, held)

LEMMA ReducingInvariance == Spec => [](IInv /\ Reducing)
<1>1. Init => Reducing
  BY InitReduced DEF Reducing
<1>2. IInv /\ IInv' /\ InOrder(log, stack) /\ Reducing /\ [Next]_vars => Reducing'
  <2> SUFFICES ASSUME IInv, IInv', InOrder(log, stack), Reducing, [Next]_vars,
                      accepted' = Type \X Type, changes' = 0
               PROVE  Reduced(value_(log'), stack', root', held')
    BY DEF Reducing, IsReduction, Reduced, Reports, Walks, Looping, Enumerates, PathsOf, Seen
  <2>1. accepted' = accepted
    BY DEF Next, vars, Leaf, Pre, BeforeChild, In, VisitChild, SkipChild, AfterChild, Post
  <2>2. changes = 0
    <3>1. changes \in Nat /\ changes' \in Nat
      BY DEF IInv, TypeOK
    <3>2. changes' = changes \/ changes' = changes + 1
      BY DEF Next, vars, Leaf, Pre, BeforeChild, In, VisitChild, SkipChild, AfterChild, Post,
             CallbackChanges
    <3>. QED BY <3>1, <3>2
  <2>3. Reduced(value_(log), stack, root, held)
    BY <2>1, <2>2 DEF Reducing, IsReduction
  <2>. QED BY <2>1, <2>3, ReducedKept
<1>. QED BY <1>1, <1>2, OrderInvariance, PTL DEF Spec

(* When reduceOverLeafs is over, the functor has been called once for each *)
(* path in leafTreePathTuple, with the node that child() finds there, and  *)
(* its values have been combined with the reduction in that order, each    *)
(* new one on the right: no leaf is left out, met twice or out of order.   *)
THEOREM ReducesLeafsInOrderAlways == Spec => []ReducesLeafsInOrder
<1>1. IInv /\ Reducing => ReducesLeafsInOrder
  <2> SUFFICES ASSUME IInv, Reduced(value_(log), stack, root, held), stack = << >>
               PROVE  LET result == value_(log)
                          paths == leafTreePathTuple[<< root, << >> >>]
                      IN  /\ Len(result) = Len(paths)
                          /\ \A k \in 1 .. Len(paths) :
                               /\ result[k].path = paths[k]
                               /\ {result[k].node} = childImpl[<< root, paths[k] >>]
    BY DEF Reducing, ReducesLeafsInOrder, Done
  <2> DEFINE result == value_(log)
             F == [e \in LeafMet |-> e.path]
  <2>1. root \in Node /\ log \in Seq(Event)
    BY DEF IInv, TypeOK
  <2>2. result \in Seq(LeafMet)
    <3>1. PICK g : /\ result = g[Len(log)]
                   /\ \A k \in 0 .. Len(log) : g[k] \in Seq(LeafMet)
      BY <2>1, ValueSteps
    <3>2. Len(log) \in 0 .. Len(log)
      BY <2>1
    <3>. QED BY <3>1, <3>2
  <2>3. Seen(View, << >>) = << >>
    BY DEF Seen
  <2>4. /\ PathsOf(result) = leafTreePathTuple[<< root, << >> >>]
        /\ \A k \in 1 .. Len(result) : Leads(Child, root, result[k].path, result[k].node)
    BY <2>3 DEF Reduced, Reports
  <2> HIDE DEF result
  <2>5. PathsOf(result) = [k \in 1 .. Len(result) |-> F[result[k]]]
    BY DEF PathsOf, Seen
  <2>6. Len(PathsOf(result)) = Len(result)
    <3>1. result \in Seq(DOMAIN F)
      BY <2>2
    <3> HIDE DEF F
    <3>2. Len(Seen(F, result)) = Len(result)
      BY <3>1, SeenStack
    <3>. QED BY <3>2 DEF PathsOf, F
  <2>7. ASSUME NEW k \in 1 .. Len(result)
        PROVE  /\ result[k].path = PathsOf(result)[k]
               /\ {result[k].node} = childImpl[<< root, PathsOf(result)[k] >>]
    <3>1. result[k] \in LeafMet
      BY <2>2, ElementOfSeq
    <3>2. PathsOf(result)[k] = result[k].path
      BY <2>5, <3>1
    <3>3. result[k].path \in TreePath /\ result[k].node \in Node
      BY <3>1 DEF LeafMet
    <3>4. childImpl[<< root, result[k].path >>] = {result[k].node}
      BY <2>1, <2>4, <3>3, ChildImplFollows
    <3>. QED BY <3>2, <3>4
  <2>. QED BY <2>4, <2>6, <2>7 DEF result
<1>. QED BY <1>1, ReducingInvariance, PTL

=============================================================================
