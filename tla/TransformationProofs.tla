------------------------- MODULE TransformationProofs -------------------------
(***************************************************************************)
(* Proofs about TransformTree (module Transformation), for every source    *)
(* tree, with whatever nodes in two slots, and every choice of recursive   *)
(* descriptors: the state is well typed, children are finished before      *)
(* their parents are made, the result is a tree, it mirrors the source     *)
(* tree, targets outlive the source where they should, and transforming is *)
(* a depth-first visit of the source tree.                                 *)
(*                                                                         *)
(* Targets wait in the children_storage of the activations until their     *)
(* parent is made. The invariant says that every target is in one place    *)
(* only: in one filled slot of one activation, or below one other target.  *)
(* Mirroring says of every target that its children are made of the        *)
(* children of its source node; that whole trees agree then follows by an  *)
(* induction over the tree. Visiting tells the visit from the call stack:  *)
(* an activation stands at the position its callers' loops lead to, and    *)
(* what is below its filled slots has been left.                           *)
(***************************************************************************)
EXTENDS Transformation, StackLemmas, SequenceTheorems, TLAPS

(* An activation f, when n targets have been made: the first k slots of    *)
(* its storage are filled.                                                 *)
FrameOK(f, n) ==
  /\ f.pc = "start" => f.k = 0
  /\ f.pc = "loop" => Len(f.children_storage) = degree(f.node)
  /\ f.k <= Len(f.children_storage)
  /\ \A j \in 1 .. f.k : f.children_storage[j] \in 1 .. n

(* All activations but the innermost one have a slot to fill.              *)
WaitsForChild(f) == f.pc = "loop" /\ f.k < Len(f.children_storage)

StackOK(s, n) ==
  /\ \A f \in 1 .. Len(s) : FrameOK(s[f], n)
  /\ \A f \in 1 .. Len(s) - 1 : WaitsForChild(s[f])

(* No target is in two slots of activations,                               *)
InOneSlot(s) ==
  \A f, g \in 1 .. Len(s) : \A i \in 1 .. s[f].k, j \in 1 .. s[g].k :
    s[f].children_storage[i] = s[g].children_storage[j] => f = g /\ i = j

(* nor in a slot and below another target.                                 *)
NoParentYet(s, ts) ==
  \A t \in 1 .. Len(ts), g \in 1 .. Len(s) :
    \A i \in 1 .. Len(ts[t].children), j \in 1 .. s[g].k :
      ts[t].children[i] # s[g].children_storage[j]

(* The inductive invariant.                                                *)
IInv ==
  /\ TypeOK
  /\ StackOK(stack, Len(targets))
  /\ InOneSlot(stack)
  /\ NoParentYet(stack, targets)
  /\ ChildrenFirst
  /\ NoSharedTargets

-----------------------------------------------------------------------------
(* The fields of an activation.                                            *)
LEMMA FrameAt ==
  ASSUME NEW s \in Seq(Frame), NEW f \in 1 .. Len(s)
  PROVE  /\ s[f] \in Frame
         /\ s[f].node \in Node /\ s[f].handed \in Handing
         /\ s[f].children_storage \in Seq(Nat) /\ Len(s[f].children_storage) \in Nat
         /\ s[f].k \in Nat /\ s[f].pc \in {"start", "loop"}
<1>1. s[f] \in Frame
  BY ElementOfSeq
<1> QED BY <1>1 DEF Frame

(* The fields of a target.                                                 *)
LEMMA TargetAt ==
  ASSUME NEW ts \in Seq(Target), NEW t \in 1 .. Len(ts)
  PROVE  ts[t] \in Target /\ ts[t].children \in Seq(Nat) /\ Len(ts[t].children) \in Nat
<1>1. ts[t] \in Target
  BY ElementOfSeq
<1> QED BY <1>1 DEF Target

(* A node's children are nodes.                                            *)
LEMMA ChildIsNode ==
  ASSUME NEW n \in Node
  PROVE  degree(n) \in Nat /\ \A k \in 0 .. degree(n) - 1 : child(n, k) \in Node
<1>1. Child[n] \in Seq(Node)
  BY TreeAssumption DEF NodeAssumption
<1>2. ASSUME NEW k \in 0 .. degree(n) - 1 PROVE child(n, k) \in Node
  <2>1. k + 1 \in 1 .. Len(Child[n])
    BY <1>1 DEF degree
  <2> QED BY <1>1, <2>1, ElementOfSeq DEF child
<1> QED BY <1>1, <1>2 DEF degree

(* An activation that has just begun.                                      *)
LEMMA NewActivation ==
  ASSUME NEW n \in Node, NEW h \in Handing, NEW m \in Nat
  PROVE  /\ Activation(n, h) \in Frame /\ FrameOK(Activation(n, h), m)
         /\ Activation(n, h).k = 0
<1>1. << >> \in Seq(Nat) /\ Len(<< >>) = 0
  BY EmptySeq
<1> QED BY <1>1 DEF Activation, Frame, FrameOK

-----------------------------------------------------------------------------
(* The invariant holds at the call of the public function.                 *)
LEMMA InitIInv == Init => IInv
<1> SUFFICES ASSUME Init PROVE IInv
  OBVIOUS
<1> DEFINE h == IF entry = "transform(const S&)" THEN "reference" ELSE "shared_ptr"
<1>1. source \in Node /\ h \in Handing /\ stack = << Activation(source, h) >>
  BY DEF Init, Handing
<1>2. Activation(source, h) \in Frame /\ FrameOK(Activation(source, h), 0)
      /\ Activation(source, h).k = 0
  BY <1>1, NewActivation
<1>3. stack \in Seq(Frame) /\ Len(stack) = 1 /\ stack[1] = Activation(source, h)
  <2> DEFINE a == Activation(source, h)
  <2>1. a \in Frame /\ stack = << a >>
    BY <1>1, <1>2
  <2> HIDE DEF a
  <2>2. stack \in Seq(Frame) /\ Len(stack) = 1 /\ stack[1] = a
    BY <2>1
  <2> QED BY <2>2 DEF a
<1>4. targets = << >> /\ Len(targets) = 0 /\ targets \in Seq(Target)
  BY EmptySeq DEF Init
<1> HIDE DEF h
<1>5. TypeOK
  <2>1. entry \in Entry /\ result = 0 /\ dropped \in BOOLEAN
    BY DEF Init
  <2>2. result \in 0 .. Len(targets)
    BY <1>4, <2>1
  <2> QED BY <1>1, <1>3, <1>4, <2>1, <2>2 DEF TypeOK
<1>6. StackOK(stack, Len(targets))
  BY <1>2, <1>3, <1>4 DEF StackOK
<1>7. InOneSlot(stack) /\ NoParentYet(stack, targets) /\ ChildrenFirst /\ NoSharedTargets
  BY <1>2, <1>3, <1>4 DEF InOneSlot, NoParentYet, ChildrenFirst, NoSharedTargets
<1> QED BY <1>5, <1>6, <1>7 DEF IInv

(* Going on at the top of the stack without filling a slot.                *)
LEMMA KeepTargets ==
  ASSUME IInv, NEW s \in Seq(Frame), stack' = s,
         UNCHANGED << source, entry, targets, result, dropped >>,
         StackOK(s, Len(targets)),
         \A f \in 1 .. Len(s) :
           \/ s[f].k = 0
           \/ f \in 1 .. Len(stack) /\ s[f] = stack[f]
  PROVE  IInv'
<1>1. TypeOK'
  BY DEF IInv, TypeOK
<1>2. StackOK(stack, Len(targets))'
  OBVIOUS
<1>3. \A f \in 1 .. Len(s) : \A i \in 1 .. s[f].k : f \in 1 .. Len(stack) /\ s[f] = stack[f]
  OBVIOUS
<1>4. InOneSlot(s)
  <2> SUFFICES ASSUME NEW f \in 1 .. Len(s), NEW g \in 1 .. Len(s),
                      NEW i \in 1 .. s[f].k, NEW j \in 1 .. s[g].k,
                      s[f].children_storage[i] = s[g].children_storage[j]
               PROVE  f = g /\ i = j
    BY DEF InOneSlot
  <2>1. /\ f \in 1 .. Len(stack) /\ s[f] = stack[f]
        /\ g \in 1 .. Len(stack) /\ s[g] = stack[g]
    BY <1>3
  <2>2. i \in 1 .. stack[f].k /\ j \in 1 .. stack[g].k
    BY <2>1
  <2>3. stack[f].children_storage[i] = stack[g].children_storage[j]
    BY <2>1
  <2> QED BY <2>1, <2>2, <2>3 DEF IInv, InOneSlot
<1>5. NoParentYet(s, targets)
  <2> SUFFICES ASSUME NEW t \in 1 .. Len(targets), NEW g \in 1 .. Len(s),
                      NEW i \in 1 .. Len(targets[t].children), NEW j \in 1 .. s[g].k
               PROVE  targets[t].children[i] # s[g].children_storage[j]
    BY DEF NoParentYet
  <2>1. g \in 1 .. Len(stack) /\ s[g] = stack[g] /\ j \in 1 .. stack[g].k
    BY <1>3
  <2> QED BY <2>1 DEF IInv, NoParentYet
<1>6. ChildrenFirst' /\ NoSharedTargets'
  BY DEF IInv, ChildrenFirst, NoSharedTargets
<1> QED BY <1>1, <1>2, <1>4, <1>5, <1>6 DEF IInv

(* Storage without filled slots is provided.                               *)
LEMMA ProvideStorageStep == IInv /\ ProvideStorage => IInv'
<1> SUFFICES ASSUME IInv, ProvideStorage PROVE IInv'
  OBVIOUS
<1> DEFINE top == stack[Len(stack)]
           storage == [k \in 1 .. degree(top.node) |-> 0]
           f0 == [top EXCEPT !.pc = "loop", !.children_storage = storage]
           s == [stack EXCEPT ![Len(stack)] = f0]
<1>1. stack \in Seq(Frame) /\ stack # << >> /\ top.pc = "start" /\ Len(stack) \in Nat \ {0}
  BY EmptySeq DEF IInv, TypeOK, ProvideStorage, At, Top, Last
<1>2. top \in Frame /\ top.node \in Node /\ top.k = 0 /\ FrameOK(top, Len(targets))
  BY <1>1, FrameAt DEF IInv, StackOK, FrameOK
<1>3. degree(top.node) \in Nat
  BY <1>2, ChildIsNode
<1>4. storage \in Seq(Nat) /\ Len(storage) = degree(top.node)
  BY <1>3
<1> HIDE DEF storage
<1>5. f0 \in Frame /\ f0.k = 0 /\ f0.pc = "loop" /\ f0.node = top.node
      /\ f0.children_storage = storage
  BY <1>2, <1>4 DEF Frame
<1>6. FrameOK(f0, Len(targets))
  BY <1>3, <1>4, <1>5 DEF FrameOK
<1>7. stack' = s
  BY <1>1 DEF ProvideStorage, Top, Last, storage
<1> HIDE DEF f0, top
<1>8. /\ s \in Seq(Frame) /\ Len(s) = Len(stack) /\ s[Len(stack)] = f0
      /\ \A k \in 1 .. Len(stack) - 1 : s[k] = stack[k]
  BY <1>1, <1>5, ReplaceTop
<1> HIDE DEF s
<1>9. StackOK(s, Len(targets))
  BY <1>1, <1>6, <1>8 DEF IInv, StackOK
<1>10. UNCHANGED << source, entry, targets, result, dropped >>
  BY DEF ProvideStorage
<1>11. \A f \in 1 .. Len(s) : s[f].k = 0 \/ (f \in 1 .. Len(stack) /\ s[f] = stack[f])
  BY <1>1, <1>5, <1>8
<1> QED BY <1>7, <1>8, <1>9, <1>10, <1>11, KeepTargets

(* A child's activation begins.                                            *)
LEMMA TransformChildStep == IInv /\ TransformChild => IInv'
<1> SUFFICES ASSUME IInv, TransformChild PROVE IInv'
  OBVIOUS
<1> DEFINE top == stack[Len(stack)]
           f0 == Activation(child(top.node, top.k), "shared_ptr")
           s == Append(stack, f0)
<1>1. /\ stack \in Seq(Frame) /\ stack # << >> /\ Len(stack) \in Nat \ {0}
      /\ top.pc = "loop" /\ top.k < degree(top.node) /\ Len(targets) \in Nat
  BY EmptySeq DEF IInv, TypeOK, TransformChild, At, Top, Last
<1>2. top.node \in Node /\ top.k \in Nat /\ FrameOK(top, Len(targets))
  BY <1>1, FrameAt DEF IInv, StackOK
<1>3. WaitsForChild(top)
  BY <1>1, <1>2 DEF FrameOK, WaitsForChild
<1>4. child(top.node, top.k) \in Node
  BY <1>1, <1>2, ChildIsNode
<1>5. f0 \in Frame /\ FrameOK(f0, Len(targets)) /\ f0.k = 0
  BY <1>1, <1>4, NewActivation DEF Handing
<1>6. stack' = s
  BY DEF TransformChild, Top, Last
<1> HIDE DEF f0
<1>7. /\ s \in Seq(Frame) /\ Len(s) = Len(stack) + 1 /\ s[Len(stack) + 1] = f0
      /\ \A k \in 1 .. Len(stack) : s[k] = stack[k]
  BY <1>1, <1>5, PushTop
<1> HIDE DEF s
<1>8. StackOK(s, Len(targets))
  <2>1. \A f \in 1 .. Len(s) : FrameOK(s[f], Len(targets))
    BY <1>1, <1>5, <1>7 DEF IInv, StackOK
  <2>2. \A f \in 1 .. Len(s) - 1 : WaitsForChild(s[f])
    BY <1>1, <1>3, <1>7 DEF IInv, StackOK
  <2> QED BY <2>1, <2>2 DEF StackOK
<1>9. UNCHANGED << source, entry, targets, result, dropped >>
  BY DEF TransformChild
<1>10. \A f \in 1 .. Len(s) : s[f].k = 0 \/ (f \in 1 .. Len(stack) /\ s[f] = stack[f])
  BY <1>1, <1>5, <1>7
<1> QED BY <1>6, <1>7, <1>8, <1>9, <1>10, KeepTargets

-----------------------------------------------------------------------------
(* What a descriptor may be given: nothing, or finished children that no   *)
(* waiting activation and no target has.                                   *)
Handover(c) ==
  /\ \A i \in 1 .. Len(c) : c[i] \in 1 .. Len(targets)
  /\ \A i, j \in 1 .. Len(c) : c[i] = c[j] => i = j
  /\ \A t \in 1 .. Len(targets) :
       \A i \in 1 .. Len(targets[t].children), j \in 1 .. Len(c) :
         targets[t].children[i] # c[j]
  /\ \A g \in 1 .. Len(stack) - 1 : \A i \in 1 .. Len(c), j \in 1 .. stack[g].k :
       c[i] # stack[g].children_storage[j]

(* The new target has its children to itself.                              *)
LEMMA NewTarget ==
  ASSUME IInv, NEW c \in Seq(Nat), Handover(c), NEW t \in Target, t.children = c,
         targets' = Append(targets, t)
  PROVE  /\ targets' \in Seq(Target) /\ Len(targets') = Len(targets) + 1
         /\ targets'[Len(targets) + 1] = t
         /\ \A u \in 1 .. Len(targets) : targets'[u] = targets[u]
         /\ ChildrenFirst' /\ NoSharedTargets'
<1> DEFINE n == Len(targets)
<1>1. /\ n \in Nat /\ targets' \in Seq(Target) /\ Len(targets') = n + 1
      /\ targets'[n + 1] = t /\ \A u \in 1 .. n : targets'[u] = targets[u]
  BY PushTop DEF IInv, TypeOK
<1> HIDE DEF n
<1>2. ChildrenFirst'
  <2> SUFFICES ASSUME NEW u \in 1 .. n + 1, NEW j \in 1 .. Len(targets'[u].children)
               PROVE  targets'[u].children[j] \in 1 .. u - 1
    BY <1>1 DEF ChildrenFirst
  <2>1. CASE u \in 1 .. n
    BY <1>1, <2>1 DEF IInv, ChildrenFirst, n
  <2>2. CASE u = n + 1
    <3>1. targets'[u].children = c
      BY <1>1, <2>2
    <3>2. c[j] \in 1 .. n
      BY <3>1 DEF Handover, n
    <3> QED BY <1>1, <2>2, <3>1, <3>2
  <2> QED BY <1>1, <2>1, <2>2
<1>3. NoSharedTargets'
  <2> SUFFICES ASSUME NEW u \in 1 .. n + 1, NEW v \in 1 .. n + 1,
                      NEW i \in 1 .. Len(targets'[u].children),
                      NEW j \in 1 .. Len(targets'[v].children),
                      targets'[u].children[i] = targets'[v].children[j]
               PROVE  u = v /\ i = j
    BY <1>1 DEF NoSharedTargets
  <2>1. CASE u \in 1 .. n /\ v \in 1 .. n
    <3>1. targets'[u] = targets[u] /\ targets'[v] = targets[v]
      BY <1>1, <2>1
    <3> QED BY <2>1, <3>1 DEF IInv, NoSharedTargets, n
  <2>2. CASE u \in 1 .. n /\ v = n + 1
    <3>1. targets'[u] = targets[u] /\ targets'[v].children = c
      BY <1>1, <2>2
    <3> QED BY <2>2, <3>1 DEF Handover, n
  <2>3. CASE u = n + 1 /\ v \in 1 .. n
    <3>1. targets'[v] = targets[v] /\ targets'[u].children = c
      BY <1>1, <2>3
    <3> QED BY <2>3, <3>1 DEF Handover, n
  <2>4. CASE u = n + 1 /\ v = n + 1
    <3>1. targets'[v].children = c /\ targets'[u].children = c
      BY <1>1, <2>4
    <3> QED BY <2>4, <3>1 DEF Handover
  <2> QED BY <1>1, <2>1, <2>2, <2>3, <2>4
<1> QED BY <1>1, <1>2, <1>3 DEF n

(* Storing a target fills the next slot.                                   *)
LEMMA StoreFills ==
  ASSUME NEW f \in Frame, WaitsForChild(f), NEW x \in Nat
  PROVE  /\ Store(f, x) \in Frame
         /\ Store(f, x).pc = "loop" /\ Store(f, x).node = f.node
         /\ Store(f, x).k = f.k + 1
         /\ Len(Store(f, x).children_storage) = Len(f.children_storage)
         /\ f.k + 1 <= Len(f.children_storage)
         /\ Store(f, x).children_storage[f.k + 1] = x
         /\ \A j \in 1 .. f.k : Store(f, x).children_storage[j] = f.children_storage[j]
<1> DEFINE cs == [f.children_storage EXCEPT ![f.k + 1] = x]
<1>1. f.k \in Nat /\ f.children_storage \in Seq(Nat) /\ Len(f.children_storage) \in Nat
  BY DEF Frame
<1>2. f.k + 1 \in 1 .. Len(f.children_storage)
  BY <1>1 DEF WaitsForChild
<1>3. /\ cs \in Seq(Nat) /\ Len(cs) = Len(f.children_storage)
      /\ cs[f.k + 1] = x
      /\ \A j \in 1 .. f.k : cs[j] = f.children_storage[j]
  BY <1>1, <1>2
<1>4. Store(f, x) = [f EXCEPT !.children_storage = cs, !.k = f.k + 1]
  BY DEF Store
<1> HIDE DEF cs
<1>5. /\ Store(f, x).children_storage = cs
      /\ Store(f, x).k = f.k + 1 /\ Store(f, x).node = f.node /\ Store(f, x).pc = f.pc
  BY <1>4 DEF Frame
<1>6. Store(f, x) \in Frame
  <2>1. f.k + 1 \in Nat
    BY <1>1
  <2> DEFINE k == f.k + 1
  <2> HIDE DEF k
  <2>2. [f EXCEPT !.children_storage = cs, !.k = k] \in Frame
    BY <1>3, <2>1 DEF Frame, k
  <2> QED BY <1>4, <2>2 DEF k
<1> QED BY <1>2, <1>3, <1>5, <1>6 DEF WaitsForChild

(* Returning to a waiting activation.                                      *)
LEMMA ReturnToCaller ==
  ASSUME NEW s \in Seq(Frame), NEW b \in Nat \ {0}, b = Len(s) - 1, NEW f \in Frame
  PROVE  /\ [Front(s) EXCEPT ![b] = f] \in Seq(Frame)
         /\ Len([Front(s) EXCEPT ![b] = f]) = b
         /\ [Front(s) EXCEPT ![b] = f][b] = f
         /\ \A g \in 1 .. b - 1 : [Front(s) EXCEPT ![b] = f][g] = s[g]
<1> DEFINE front == Front(s)
<1>1. s # << >> /\ Len(s) \in Nat
  BY EmptySeq
<1>2. /\ front \in Seq(Frame) /\ Len(front) = b
      /\ \A g \in 1 .. b : front[g] = s[g]
  BY <1>1, PopTop
<1> HIDE DEF front
<1>3. front # << >>
  BY <1>2, EmptySeq
<1> DEFINE top == [front EXCEPT ![Len(front)] = f]
<1>4. /\ top \in Seq(Frame) /\ Len(top) = Len(front) /\ top[Len(front)] = f
      /\ \A g \in 1 .. Len(front) - 1 : top[g] = front[g]
  BY <1>2, <1>3, ReplaceTop
<1>5. top = [Front(s) EXCEPT ![b] = f]
  BY <1>2 DEF front
<1> HIDE DEF top
<1>6. \A g \in 1 .. b - 1 : top[g] = s[g]
  BY <1>2, <1>4
<1> QED BY <1>2, <1>4, <1>5, <1>6

(* The caller of the innermost activation, and what becomes of it.         *)
Caller == Len(stack) - 1

Stored == Store(stack[Caller], Len(targets) + 1)

LEMMA BackToCaller ==
  ASSUME IInv, stack # << >>, Len(stack) # 1, NEW t, Return(t)
  PROVE  /\ Caller \in Nat \ {0} /\ Caller + 1 = Len(stack)
         /\ Caller \in 1 .. Len(stack) /\ Caller \in 1 .. Len(stack) - 1
         /\ stack[Caller] \in Frame /\ WaitsForChild(stack[Caller])
         /\ FrameOK(stack[Caller], Len(targets)) /\ stack[Caller].k \in Nat
         /\ Stored \in Frame /\ Stored.pc = "loop" /\ Stored.node = stack[Caller].node
         /\ Stored.k = stack[Caller].k + 1
         /\ Len(Stored.children_storage) = Len(stack[Caller].children_storage)
         /\ stack[Caller].k + 1 <= Len(stack[Caller].children_storage)
         /\ Stored.children_storage[stack[Caller].k + 1] = Len(targets) + 1
         /\ \A j \in 1 .. stack[Caller].k :
              Stored.children_storage[j] = stack[Caller].children_storage[j]
         /\ stack' \in Seq(Frame) /\ Len(stack') = Caller /\ stack'[Caller] = Stored
         /\ \A g \in 1 .. Caller - 1 : stack'[g] = stack[g]
         /\ result' = result
<1> DEFINE l == Len(stack)
<1>1. stack \in Seq(Frame) /\ l \in Nat \ {0} /\ l # 1 /\ Len(targets) \in Nat
  BY EmptySeq DEF IInv, TypeOK
<1>2. Caller = l - 1
  BY DEF Caller
<1>3. /\ stack' = [Front(stack) EXCEPT ![Caller] = Stored] /\ result' = result
  BY DEF Return, Caller, Stored
<1> HIDE DEF l
<1>4. /\ Caller \in Nat \ {0} /\ Caller + 1 = l
      /\ Caller \in 1 .. l /\ Caller \in 1 .. l - 1
  BY <1>1, <1>2
<1>5. /\ stack[Caller] \in Frame /\ WaitsForChild(stack[Caller])
      /\ FrameOK(stack[Caller], Len(targets)) /\ stack[Caller].k \in Nat
  BY <1>1, <1>4, FrameAt DEF IInv, StackOK, l
<1>6. /\ Stored \in Frame /\ Stored.pc = "loop" /\ Stored.node = stack[Caller].node
      /\ Stored.k = stack[Caller].k + 1
      /\ Len(Stored.children_storage) = Len(stack[Caller].children_storage)
      /\ stack[Caller].k + 1 <= Len(stack[Caller].children_storage)
      /\ Stored.children_storage[stack[Caller].k + 1] = Len(targets) + 1
      /\ \A j \in 1 .. stack[Caller].k :
           Stored.children_storage[j] = stack[Caller].children_storage[j]
  <2>1. Len(targets) + 1 \in Nat
    BY <1>1
  <2> QED BY <1>5, <2>1, StoreFills DEF Stored
<1>7. /\ [Front(stack) EXCEPT ![Caller] = Stored] \in Seq(Frame)
      /\ Len([Front(stack) EXCEPT ![Caller] = Stored]) = Caller
      /\ [Front(stack) EXCEPT ![Caller] = Stored][Caller] = Stored
      /\ \A g \in 1 .. Caller - 1 :
           [Front(stack) EXCEPT ![Caller] = Stored][g] = stack[g]
  BY <1>1, <1>2, <1>4, <1>6, ReturnToCaller DEF l
<1> QED BY <1>3, <1>4, <1>5, <1>6, <1>7 DEF l

(* An activation returns a target that has been handed its children.       *)
LEMMA ReturnStep ==
  ASSUME IInv, stack # << >>, NEW c \in Seq(Nat), Handover(c),
         NEW t \in Target, t.children = c, Return(t)
  PROVE  IInv'
<1> DEFINE n == Len(targets)
<1>1. /\ n \in Nat /\ targets' \in Seq(Target) /\ Len(targets') = n + 1
      /\ targets'[n + 1] = t /\ \A u \in 1 .. n : targets'[u] = targets[u]
      /\ ChildrenFirst' /\ NoSharedTargets'
  BY NewTarget DEF Return, IInv, TypeOK
<1>2. UNCHANGED << source, entry, dropped >>
  BY DEF Return
<1>3. stack \in Seq(Frame) /\ Len(stack) \in Nat \ {0}
  BY EmptySeq DEF IInv, TypeOK
<1>4. CASE Len(stack) = 1
  <2>1. stack' = << >> /\ result' = n + 1
    BY <1>4 DEF Return
  <2>2. Len(stack') = 0 /\ stack' \in Seq(Frame)
    BY <2>1, EmptySeq
  <2> HIDE DEF n
  <2>3. TypeOK'
    BY <1>1, <1>2, <2>1, <2>2 DEF IInv, TypeOK
  <2>4. StackOK(stack', Len(targets')) /\ InOneSlot(stack') /\ NoParentYet(stack', targets')
    BY <2>2 DEF StackOK, InOneSlot, NoParentYet
  <2> QED BY <1>1, <2>3, <2>4 DEF IInv
<1>5. CASE Len(stack) # 1
  <2> DEFINE s == stack'
  <2>1. result' = result /\ s \in Seq(Frame) /\ Len(s) = Caller
    BY <1>5, BackToCaller
  <2>2. /\ Caller \in 1 .. Len(stack) /\ Caller \in 1 .. Len(stack) - 1 /\ Caller \in Nat \ {0}
        /\ Caller + 1 = Len(stack)
    BY <1>5, BackToCaller
  <2>3. stack[Caller] \in Frame /\ WaitsForChild(stack[Caller]) /\ stack[Caller].k \in Nat
        /\ FrameOK(stack[Caller], n)
    BY <1>5, BackToCaller
  <2>4. /\ Stored \in Frame /\ Stored.pc = "loop" /\ Stored.node = stack[Caller].node
        /\ Stored.k = stack[Caller].k + 1
        /\ Len(Stored.children_storage) = Len(stack[Caller].children_storage)
        /\ stack[Caller].k + 1 <= Len(stack[Caller].children_storage)
        /\ Stored.children_storage[stack[Caller].k + 1] = n + 1
        /\ \A j \in 1 .. stack[Caller].k :
             Stored.children_storage[j] = stack[Caller].children_storage[j]
    BY <1>5, BackToCaller
  <2>5. /\ s \in Seq(Frame) /\ Len(s) = Caller /\ s[Caller] = Stored
        /\ \A g \in 1 .. Caller - 1 : s[g] = stack[g]
    BY <1>5, BackToCaller
  <2>fresh. \A x \in 1 .. n : x # n + 1
    BY <1>1
  <2> HIDE DEF n, s
  (* A slot of the new stack is the new target's, or was filled before.    *)
  <2>6. ASSUME NEW g \in 1 .. Caller, NEW j \in 1 .. s[g].k
        PROVE  \/ g = Caller /\ j = stack[Caller].k + 1 /\ s[g].children_storage[j] = n + 1
               \/ /\ j \in 1 .. stack[g].k
                  /\ s[g].children_storage[j] = stack[g].children_storage[j]
                  /\ stack[g].children_storage[j] \in 1 .. n
    <3>1. g \in 1 .. Len(stack) /\ FrameOK(stack[g], n)
      BY <1>3, <2>2 DEF IInv, StackOK, n
    <3>2. CASE g = Caller
      <4>1. j \in 1 .. stack[Caller].k + 1
        BY <2>4, <2>5, <3>2
      <4>2. CASE j = stack[Caller].k + 1
        BY <2>4, <2>5, <3>2, <4>2
      <4>3. CASE j \in 1 .. stack[Caller].k
        <5>1. s[g].children_storage[j] = stack[g].children_storage[j]
          BY <2>4, <2>5, <3>2, <4>3
        <5> QED BY <3>1, <3>2, <4>3, <5>1 DEF FrameOK
      <4> QED BY <2>3, <4>1, <4>2, <4>3
    <3>3. CASE g \in 1 .. Caller - 1
      <4>1. s[g] = stack[g]
        BY <2>5, <3>3
      <4> QED BY <3>1, <4>1 DEF FrameOK
    <3> QED BY <2>2, <3>2, <3>3
  <2>7. TypeOK'
    <3>1. result' \in 0 .. Len(targets')
      BY <1>1, <2>1 DEF IInv, TypeOK, n
    <3> QED BY <1>1, <1>2, <2>1, <2>5, <3>1 DEF IInv, TypeOK, s
  <2>8. StackOK(s, n + 1)
    <3>1. ASSUME NEW g \in 1 .. Caller PROVE FrameOK(s[g], n + 1)
      <4>1. FrameOK(stack[g], n) /\ stack[g].k \in Nat
        BY <1>3, <2>2, FrameAt DEF IInv, StackOK, n
      <4>2. \A j \in 1 .. s[g].k : s[g].children_storage[j] \in 1 .. n + 1
        BY <1>1, <2>6
      <4>3. CASE g = Caller
        BY <2>3, <2>4, <2>5, <4>1, <4>2, <4>3 DEF FrameOK, WaitsForChild
      <4>4. CASE g \in 1 .. Caller - 1
        <5>1. s[g] = stack[g]
          BY <2>5, <4>4
        <5> QED BY <4>1, <4>2, <5>1 DEF FrameOK
      <4> QED BY <2>2, <4>3, <4>4
    <3>2. ASSUME NEW g \in 1 .. Caller - 1 PROVE WaitsForChild(s[g])
      BY <1>3, <2>2, <2>5 DEF IInv, StackOK
    <3> QED BY <2>5, <3>1, <3>2 DEF StackOK
  <2>9. InOneSlot(s)
    <3> SUFFICES ASSUME NEW g \in 1 .. Caller, NEW h \in 1 .. Caller,
                        NEW i \in 1 .. s[g].k, NEW j \in 1 .. s[h].k,
                        s[g].children_storage[i] = s[h].children_storage[j]
                 PROVE  g = h /\ i = j
      BY <2>5 DEF InOneSlot
    <3>1. CASE s[g].children_storage[i] = n + 1
      <4>1. g = Caller /\ i = stack[Caller].k + 1
        BY <2>6, <2>fresh, <3>1
      <4>2. h = Caller /\ j = stack[Caller].k + 1
        <5>1. s[h].children_storage[j] = n + 1
          BY <3>1
        <5> QED BY <2>6, <2>fresh, <5>1
      <4> QED BY <4>1, <4>2
    <3>2. CASE s[g].children_storage[i] # n + 1
      <4>1. /\ i \in 1 .. stack[g].k /\ j \in 1 .. stack[h].k
            /\ stack[g].children_storage[i] = stack[h].children_storage[j]
        BY <2>6, <3>2
      <4>2. g \in 1 .. Len(stack) /\ h \in 1 .. Len(stack)
        BY <1>3, <2>2
      <4> QED BY <4>1, <4>2 DEF IInv, InOneSlot
    <3> QED BY <3>1, <3>2
  <2>10. NoParentYet(s, targets')
    <3> SUFFICES ASSUME NEW u \in 1 .. n + 1, NEW g \in 1 .. Caller,
                        NEW i \in 1 .. Len(targets'[u].children), NEW j \in 1 .. s[g].k
                 PROVE  targets'[u].children[i] # s[g].children_storage[j]
      BY <1>1, <2>5 DEF NoParentYet
    <3>1. targets'[u].children[i] \in 1 .. n
      <4>1. targets'[u].children[i] \in 1 .. u - 1
        BY <1>1 DEF ChildrenFirst
      <4> QED BY <1>1, <4>1
    <3>2. CASE s[g].children_storage[j] = n + 1
      BY <1>1, <3>1, <3>2
    <3>3. CASE s[g].children_storage[j] # n + 1
      <4>1. /\ j \in 1 .. stack[g].k /\ g \in 1 .. Len(stack) - 1 /\ g \in 1 .. Len(stack)
            /\ s[g].children_storage[j] = stack[g].children_storage[j]
        BY <1>3, <2>2, <2>6, <3>3
      <4>2. CASE u = n + 1
        <5>1. targets'[u].children = c
          BY <1>1, <4>2
        <5>2. i \in 1 .. Len(c)
          BY <5>1
        <5>3. c[i] # stack[g].children_storage[j]
          BY <4>1, <5>2 DEF Handover
        <5> QED BY <4>1, <5>1, <5>3
      <4>3. CASE u \in 1 .. n
        <5>1. targets'[u] = targets[u]
          BY <1>1, <4>3
        <5> QED BY <4>1, <4>3, <5>1 DEF IInv, NoParentYet, n
      <4> QED BY <1>1, <4>2, <4>3
    <3> QED BY <3>2, <3>3
  <2> QED BY <1>1, <2>1, <2>7, <2>8, <2>9, <2>10 DEF IInv, s, n
<1> QED BY <1>4, <1>5

(* A descriptor is called with the node alone.                             *)
LEMMA TransformWholeStep == IInv /\ TransformWhole => IInv'
<1> SUFFICES ASSUME IInv, TransformWhole PROVE IInv'
  OBVIOUS
<1> DEFINE t == Descriptor(<< >>)
<1>1. /\ stack # << >> /\ stack \in Seq(Frame) /\ Len(stack) \in 1 .. Len(stack)
      /\ Top = stack[Len(stack)] /\ Return(t)
  BY EmptySeq DEF TransformWhole, At, Top, Last, IInv, TypeOK
<1>2. << >> \in Seq(Nat) /\ Len(<< >>) = 0
  BY EmptySeq
<1>3. t \in Target /\ t.children = << >>
  BY <1>1, <1>2, FrameAt DEF Descriptor, Target
<1>4. Handover(<< >>)
  BY <1>2 DEF Handover
<1> HIDE DEF t
<1> QED BY <1>1, <1>2, <1>3, <1>4, ReturnStep

(* A descriptor is called with the finished children.                      *)
LEMMA TransformNodeStep == IInv /\ TransformNode => IInv'
<1> SUFFICES ASSUME IInv, TransformNode PROVE IInv'
  OBVIOUS
<1> DEFINE c == Top.children_storage
           t == Descriptor(c)
           l == Len(stack)
<1>1. /\ stack # << >> /\ stack \in Seq(Frame) /\ l \in Nat /\ l \in 1 .. l
      /\ Top = stack[l] /\ Return(t) /\ Top.pc = "loop" /\ Top.k = degree(Top.node)
  BY EmptySeq DEF TransformNode, At, Top, Last, IInv, TypeOK
<1>2. c \in Seq(Nat) /\ Top.node \in Node /\ Top.handed \in Handing
  BY <1>1, FrameAt
<1>3. FrameOK(Top, Len(targets))
  BY <1>1 DEF IInv, StackOK
<1>4. stack[l].k = Len(c) /\ stack[l].children_storage = c
  BY <1>1, <1>3 DEF FrameOK
<1>5. t \in Target /\ t.children = c
  BY <1>2 DEF Descriptor, Target
<1>6. Handover(c)
  <2>1. \A i \in 1 .. Len(c) : c[i] \in 1 .. Len(targets)
    BY <1>1, <1>3, <1>4 DEF FrameOK
  <2>2. \A i, j \in 1 .. Len(c) : c[i] = c[j] => i = j
    BY <1>1, <1>4 DEF IInv, InOneSlot
  <2>3. \A u \in 1 .. Len(targets) :
          \A i \in 1 .. Len(targets[u].children), j \in 1 .. Len(c) :
            targets[u].children[i] # c[j]
    BY <1>1, <1>4 DEF IInv, NoParentYet
  <2>4. ASSUME NEW g \in 1 .. l - 1, NEW i \in 1 .. Len(c), NEW j \in 1 .. stack[g].k
        PROVE  c[i] # stack[g].children_storage[j]
    <3>1. g \in 1 .. l /\ g # l
      BY <1>1
    <3> QED BY <1>1, <1>4, <3>1 DEF IInv, InOneSlot
  <2> QED BY <2>1, <2>2, <2>3, <2>4 DEF Handover
<1> HIDE DEF t, c
<1> QED BY <1>1, <1>2, <1>5, <1>6, ReturnStep

(* Every step keeps the invariant.                                         *)
LEMMA NextIInv == IInv /\ [Next]_vars => IInv'
<1> SUFFICES ASSUME IInv, [Next]_vars PROVE IInv'
  OBVIOUS
<1>1. CASE Transform
  BY <1>1, TransformWholeStep, ProvideStorageStep, TransformChildStep, TransformNodeStep
     DEF Transform
<1>2. CASE DropSource
  BY <1>2 DEF DropSource, IInv, TypeOK, ChildrenFirst, NoSharedTargets
<1>3. CASE UNCHANGED vars
  BY <1>3 DEF vars, IInv, TypeOK, ChildrenFirst, NoSharedTargets
<1> QED BY <1>1, <1>2, <1>3 DEF Next

LEMMA Invariance == Spec => []IInv
BY InitIInv, NextIInv, PTL DEF Spec

-----------------------------------------------------------------------------
(* MirrorsSource compares trees, by a definition that is recursive.  Node  *)
(* by node it says this: the children of a target are made of its source   *)
(* node's children, in their order, or there are none if the descriptor    *)
(* has not asked for them;                                                 *)
MirrorsNode(ts, t) ==
  /\ Len(ts[t].children) = IF TransformsChildren(ts[t].of) THEN degree(ts[t].of) ELSE 0
  /\ \A j \in 1 .. Len(ts[t].children) :
       ts[ts[t].children[j]].of = child(ts[t].of, j - 1)

(* and the target returned is made of the source tree's root.              *)
MirrorsNodewise ==
  /\ \A t \in 1 .. Len(targets) : MirrorsNode(targets, t)
  /\ result # 0 => targets[result].of = source

(* On the stack: filled slots have targets of the right children, and each *)
(* activation is at the child that its caller waits for.                   *)
SlotsMirror(f, ts) ==
  \A j \in 1 .. f.k : ts[f.children_storage[j]].of = child(f.node, j - 1)

StackMirrors(s, ts) ==
  /\ \A f \in 1 .. Len(s) :
       /\ SlotsMirror(s[f], ts)
       /\ s[f].pc = "loop" => TransformsChildren(s[f].node)
  /\ \A f \in 1 .. Len(s) - 1 : s[f + 1].node = child(s[f].node, s[f].k)
  /\ s # << >> => s[1].node = source

Mirroring == StackMirrors(stack, targets) /\ MirrorsNodewise

LEMMA InitMirroring == Init => Mirroring
<1> SUFFICES ASSUME Init PROVE Mirroring
  OBVIOUS
<1> DEFINE a == Activation(source, IF entry = "transform(const S&)"
                                     THEN "reference" ELSE "shared_ptr")
<1>1. stack = << a >> /\ a.node = source /\ a.k = 0 /\ a.pc = "start"
  BY DEF Init, Activation
<1>2. targets = << >> /\ result = 0
  BY DEF Init
<1> HIDE DEF a
<1>3. Len(stack) = 1 /\ stack[1] = a /\ Len(targets) = 0
  BY <1>1, <1>2
<1> QED BY <1>1, <1>2, <1>3 DEF Mirroring, StackMirrors, SlotsMirror, MirrorsNodewise

(* Going on at the top of the stack without filling a slot.                *)
LEMMA KeepMirroring ==
  ASSUME Mirroring, NEW s, stack' = s, UNCHANGED << source, targets, result >>,
         \A f \in 1 .. Len(s) :
           /\ s[f].k = 0 \/ (f \in 1 .. Len(stack) /\ s[f] = stack[f])
           /\ s[f].pc = "loop" => TransformsChildren(s[f].node),
         \A f \in 1 .. Len(s) - 1 : s[f + 1].node = child(s[f].node, s[f].k),
         s # << >> => s[1].node = source
  PROVE  Mirroring'
<1>1. ASSUME NEW f \in 1 .. Len(s) PROVE SlotsMirror(s[f], targets)
  <2>1. CASE s[f].k = 0
    BY <2>1 DEF SlotsMirror
  <2>2. CASE f \in 1 .. Len(stack) /\ s[f] = stack[f]
    BY <2>2 DEF Mirroring, StackMirrors
  <2> QED BY <2>1, <2>2
<1>2. StackMirrors(stack, targets)'
  BY <1>1 DEF StackMirrors
<1>3. MirrorsNodewise'
  BY DEF Mirroring, MirrorsNodewise, MirrorsNode
<1> QED BY <1>2, <1>3 DEF Mirroring

LEMMA ProvideStorageMirrors == IInv /\ Mirroring /\ ProvideStorage => Mirroring'
<1> SUFFICES ASSUME IInv, Mirroring, ProvideStorage PROVE Mirroring'
  OBVIOUS
<1> DEFINE top == stack[Len(stack)]
           storage == [k \in 1 .. degree(top.node) |-> 0]
           f0 == [top EXCEPT !.pc = "loop", !.children_storage = storage]
           s == [stack EXCEPT ![Len(stack)] = f0]
<1>1. /\ stack \in Seq(Frame) /\ stack # << >> /\ Len(stack) \in Nat \ {0}
      /\ top.pc = "start" /\ TransformsChildren(top.node)
  BY EmptySeq DEF IInv, TypeOK, ProvideStorage, At, Top, Last
<1>2. top \in Frame /\ top.k = 0
  BY <1>1, FrameAt DEF IInv, StackOK, FrameOK
<1>3. stack' = s /\ UNCHANGED << source, targets, result >>
  BY <1>1 DEF ProvideStorage, Top, Last
<1> HIDE DEF storage
<1>4. f0.k = 0 /\ f0.node = top.node
  BY <1>2 DEF Frame
<1> HIDE DEF f0
<1>5. /\ Len(s) = Len(stack) /\ s[Len(stack)] = f0
      /\ \A k \in 1 .. Len(stack) - 1 : s[k] = stack[k]
  BY <1>1
<1> HIDE DEF s
<1>6. \A f \in 1 .. Len(s) :
        /\ s[f].k = 0 \/ (f \in 1 .. Len(stack) /\ s[f] = stack[f])
        /\ s[f].pc = "loop" => TransformsChildren(s[f].node)
  BY <1>1, <1>4, <1>5 DEF Mirroring, StackMirrors
<1>7. \A f \in 1 .. Len(stack) : s[f].node = stack[f].node
  BY <1>1, <1>4, <1>5
<1> HIDE DEF top
<1>8. ASSUME NEW f \in 1 .. Len(s) - 1 PROVE s[f + 1].node = child(s[f].node, s[f].k)
  <2>1. f \in 1 .. Len(stack) - 1 /\ f + 1 \in 1 .. Len(stack)
    BY <1>1, <1>5
  <2>2. s[f] = stack[f] /\ s[f + 1].node = stack[f + 1].node
    BY <1>5, <1>7, <2>1
  <2>3. stack[f + 1].node = child(stack[f].node, stack[f].k)
    BY <2>1 DEF Mirroring, StackMirrors
  <2> QED BY <2>2, <2>3
<1>9. s[1].node = source
  BY <1>1, <1>7 DEF Mirroring, StackMirrors
<1> QED BY <1>3, <1>6, <1>8, <1>9, KeepMirroring

LEMMA TransformChildMirrors == IInv /\ Mirroring /\ TransformChild => Mirroring'
<1> SUFFICES ASSUME IInv, Mirroring, TransformChild PROVE Mirroring'
  OBVIOUS
<1> DEFINE l == Len(stack)
           top == stack[l]
           f0 == Activation(child(top.node, top.k), "shared_ptr")
           s == Append(stack, f0)
<1>1. stack \in Seq(Frame) /\ l \in Nat \ {0}
  BY EmptySeq DEF IInv, TypeOK, TransformChild, At
<1>2. stack' = s /\ UNCHANGED << source, targets, result >>
  BY DEF TransformChild, Top, Last
<1>3. f0.k = 0 /\ f0.pc = "start" /\ f0.node = child(top.node, top.k)
  BY DEF Activation
<1> HIDE DEF f0
<1>4. Len(s) = l + 1 /\ s[l + 1] = f0 /\ \A k \in 1 .. l : s[k] = stack[k]
  BY <1>1
<1> HIDE DEF s
<1>5. \A f \in 1 .. Len(s) :
        /\ s[f].k = 0 \/ (f \in 1 .. Len(stack) /\ s[f] = stack[f])
        /\ s[f].pc = "loop" => TransformsChildren(s[f].node)
  BY <1>1, <1>3, <1>4 DEF Mirroring, StackMirrors
<1>6. ASSUME NEW f \in 1 .. Len(s) - 1 PROVE s[f + 1].node = child(s[f].node, s[f].k)
  <2>1. CASE f = l
    BY <1>1, <1>3, <1>4, <2>1
  <2>2. CASE f \in 1 .. l - 1
    <3>1. s[f] = stack[f] /\ s[f + 1] = stack[f + 1]
      BY <1>1, <1>4, <2>2
    <3> QED BY <2>2, <3>1 DEF Mirroring, StackMirrors
  <2> QED BY <1>1, <1>4, <2>1, <2>2
<1>7. s[1].node = source
  <2>1. stack # << >> /\ s[1] = stack[1]
    BY <1>1, <1>4 DEF TransformChild, At
  <2> QED BY <2>1 DEF Mirroring, StackMirrors
<1> QED BY <1>2, <1>5, <1>6, <1>7, KeepMirroring

(* A descriptor that is handed the targets of its node's children.         *)
LEMMA ReturnMirrors ==
  ASSUME IInv, Mirroring, stack # << >>, NEW t \in Target, Return(t), t.of = Top.node,
         Len(t.children) = IF TransformsChildren(t.of) THEN degree(t.of) ELSE 0,
         \A j \in 1 .. Len(t.children) :
           /\ t.children[j] \in 1 .. Len(targets)
           /\ targets[t.children[j]].of = child(t.of, j - 1)
  PROVE  Mirroring'
<1> DEFINE n == Len(targets)
           l == Len(stack)
<1>1. /\ n \in Nat /\ Len(targets') = n + 1 /\ targets'[n + 1] = t
      /\ \A u \in 1 .. n : targets'[u] = targets[u]
  BY PushTop DEF Return, IInv, TypeOK
<1>2. stack \in Seq(Frame) /\ l \in Nat \ {0} /\ Top = stack[l] /\ source' = source
  BY EmptySeq DEF IInv, TypeOK, Return, Top, Last
<1> HIDE DEF n
<1>3. \A u \in 1 .. Len(targets') : MirrorsNode(targets', u)
  <2> SUFFICES ASSUME NEW u \in 1 .. n + 1 PROVE MirrorsNode(targets', u)
    BY <1>1
  <2>1. CASE u \in 1 .. n
    <3>1. MirrorsNode(targets, u) /\ targets'[u] = targets[u]
      BY <1>1, <2>1 DEF Mirroring, MirrorsNodewise, n
    <3>2. ASSUME NEW j \in 1 .. Len(targets[u].children)
          PROVE  targets'[targets[u].children[j]] = targets[targets[u].children[j]]
      <4>1. targets[u].children[j] \in 1 .. u - 1
        BY <2>1 DEF IInv, ChildrenFirst, n
      <4>2. targets[u].children[j] \in 1 .. n
        BY <1>1, <2>1, <4>1
      <4> QED BY <1>1, <4>2
    <3> QED BY <3>1, <3>2 DEF MirrorsNode
  <2>2. CASE u = n + 1
    <3>1. targets'[u] = t
      BY <1>1, <2>2
    <3>2. ASSUME NEW j \in 1 .. Len(t.children)
          PROVE  targets'[t.children[j]].of = child(t.of, j - 1)
      BY <1>1 DEF n
    <3> QED BY <3>1, <3>2 DEF MirrorsNode
  <2> QED BY <1>1, <2>1, <2>2
<1>4. CASE l = 1
  <2>1. stack' = << >> /\ result' = n + 1
    BY <1>4 DEF Return, n
  <2>2. targets'[n + 1].of = source
    BY <1>1, <1>2, <1>4 DEF Mirroring, StackMirrors
  <2>3. StackMirrors(stack, targets)'
    <3>1. Len(stack') = 0
      BY <2>1
    <3> QED BY <2>1, <3>1 DEF StackMirrors
  <2> QED BY <1>2, <1>3, <2>1, <2>2, <2>3 DEF Mirroring, MirrorsNodewise
<1>5. CASE l # 1
  <2> DEFINE s == stack'
  <2>1. /\ Caller \in Nat \ {0} /\ Caller + 1 = l
        /\ Caller \in 1 .. l /\ Caller \in 1 .. l - 1
        /\ Stored.pc = "loop" /\ Stored.node = stack[Caller].node
        /\ Stored.k = stack[Caller].k + 1
        /\ stack[Caller].k \in Nat
        /\ Stored.children_storage[stack[Caller].k + 1] = n + 1
        /\ \A j \in 1 .. stack[Caller].k :
             Stored.children_storage[j] = stack[Caller].children_storage[j]
        /\ Len(s) = Caller /\ s[Caller] = Stored
        /\ result' = result /\ WaitsForChild(stack[Caller])
    BY <1>5, BackToCaller DEF n
  <2>2. \A g \in 1 .. Caller - 1 : s[g] = stack[g]
    BY <1>5, BackToCaller
  <2> HIDE DEF s
  <2>3. ASSUME NEW g \in 1 .. Caller, NEW j \in 1 .. stack[g].k
        PROVE  /\ targets'[stack[g].children_storage[j]].of = child(stack[g].node, j - 1)
               /\ stack[g].children_storage[j] \in 1 .. n
    <3>1. g \in 1 .. l
      BY <2>1
    <3>2. FrameOK(stack[g], n) /\ SlotsMirror(stack[g], targets)
      BY <3>1 DEF IInv, StackOK, n, Mirroring, StackMirrors
    <3> QED BY <1>1, <3>2 DEF FrameOK, SlotsMirror
  <2>4. SlotsMirror(Stored, targets')
    <3> SUFFICES ASSUME NEW j \in 1 .. stack[Caller].k + 1
                 PROVE  targets'[Stored.children_storage[j]].of
                          = child(stack[Caller].node, j - 1)
      BY <2>1 DEF SlotsMirror
    <3>1. CASE j \in 1 .. stack[Caller].k
      <4>1. Stored.children_storage[j] = stack[Caller].children_storage[j]
        BY <2>1, <3>1
      <4>2. Caller \in 1 .. Caller
        BY <2>1
      <4> QED BY <2>3, <3>1, <4>1, <4>2
    <3>2. CASE j = stack[Caller].k + 1
      <4>1. t.of = child(stack[Caller].node, stack[Caller].k)
        BY <1>2, <2>1 DEF Mirroring, StackMirrors
      <4>2. j - 1 = stack[Caller].k
        BY <2>1, <3>2
      <4> QED BY <1>1, <2>1, <3>2, <4>1, <4>2
    <3> QED BY <2>1, <3>1, <3>2
  <2>5. ASSUME NEW g \in 1 .. Caller
        PROVE  SlotsMirror(s[g], targets')
               /\ (s[g].pc = "loop" => TransformsChildren(s[g].node))
               /\ s[g].node = stack[g].node
    <3>1. CASE g = Caller
      <4>1. TransformsChildren(stack[Caller].node)
        BY <2>1 DEF WaitsForChild, Mirroring, StackMirrors
      <4> QED BY <2>1, <2>4, <3>1, <4>1
    <3>2. CASE g \in 1 .. Caller - 1
      <4>1. s[g] = stack[g] /\ g \in 1 .. l
        BY <2>1, <2>2, <3>2
      <4>2. SlotsMirror(s[g], targets')
        BY <2>3, <4>1 DEF SlotsMirror
      <4> QED BY <4>1, <4>2 DEF Mirroring, StackMirrors
    <3> QED BY <2>1, <3>1, <3>2
  <2>6. ASSUME NEW g \in 1 .. Caller - 1 PROVE s[g + 1].node = child(s[g].node, s[g].k)
    <3>1. s[g] = stack[g] /\ g \in 1 .. l - 1 /\ g + 1 \in 1 .. Caller
      BY <2>1, <2>2
    <3>2. s[g + 1].node = stack[g + 1].node
      BY <2>5, <3>1
    <3>3. stack[g + 1].node = child(stack[g].node, stack[g].k)
      BY <3>1 DEF Mirroring, StackMirrors
    <3> QED BY <3>1, <3>2, <3>3
  <2>7. s[1].node = source
    <3>1. 1 \in 1 .. Caller
      BY <2>1
    <3> QED BY <2>5, <3>1 DEF Mirroring, StackMirrors
  <2>8. StackMirrors(stack, targets)'
    BY <1>2, <2>1, <2>5, <2>6, <2>7 DEF StackMirrors, s
  <2>9. result' # 0 => targets'[result'].of = source'
    <3>1. result \in 0 .. n
      BY DEF IInv, TypeOK, n
    <3>2. CASE result # 0
      BY <1>1, <1>2, <2>1, <3>1, <3>2 DEF Mirroring, MirrorsNodewise
    <3> QED BY <2>1, <3>2
  <2> QED BY <1>3, <2>8, <2>9 DEF Mirroring, MirrorsNodewise
<1> QED BY <1>4, <1>5

LEMMA NextMirroring == IInv /\ Mirroring /\ [Next]_vars => Mirroring'
<1> SUFFICES ASSUME IInv, Mirroring, [Next]_vars PROVE Mirroring'
  OBVIOUS
<1>1. CASE TransformWhole
  <2> DEFINE t == Descriptor(<< >>)
  <2>1. /\ stack # << >> /\ stack \in Seq(Frame) /\ Top = stack[Len(stack)]
        /\ Len(stack) \in 1 .. Len(stack) /\ ~ TransformsChildren(Top.node) /\ Return(t)
    BY <1>1, EmptySeq DEF TransformWhole, At, Top, Last, IInv, TypeOK
  <2>2. << >> \in Seq(Nat) /\ Len(<< >>) = 0
    BY EmptySeq
  <2>3. t \in Target /\ t.of = Top.node /\ t.children = << >>
    BY <2>1, <2>2, FrameAt DEF Descriptor, Target
  <2> HIDE DEF t
  <2> QED BY <2>1, <2>2, <2>3, ReturnMirrors
<1>2. CASE TransformNode
  <2> DEFINE c == Top.children_storage
             t == Descriptor(c)
  <2>1. /\ stack # << >> /\ stack \in Seq(Frame) /\ Top = stack[Len(stack)]
        /\ Len(stack) \in 1 .. Len(stack) /\ Return(t)
        /\ Top.pc = "loop" /\ Top.k = degree(Top.node)
    BY <1>2, EmptySeq DEF TransformNode, At, Top, Last, IInv, TypeOK
  <2>2. FrameOK(Top, Len(targets)) /\ SlotsMirror(Top, targets)
        /\ TransformsChildren(Top.node)
    BY <2>1 DEF IInv, StackOK, Mirroring, StackMirrors
  <2>3. t \in Target /\ t.of = Top.node /\ t.children = c
    BY <2>1, FrameAt DEF Descriptor, Target
  <2> HIDE DEF t
  <2>4. Len(c) = degree(Top.node) /\ Top.k = Len(c)
    BY <2>1, <2>2 DEF FrameOK
  <2>5. \A j \in 1 .. Len(c) :
          c[j] \in 1 .. Len(targets) /\ targets[c[j]].of = child(Top.node, j - 1)
    BY <2>2, <2>4 DEF FrameOK, SlotsMirror
  <2> HIDE DEF c
  <2> QED BY <2>1, <2>2, <2>3, <2>4, <2>5, ReturnMirrors
<1>3. CASE DropSource
  BY <1>3 DEF DropSource, Mirroring, StackMirrors, SlotsMirror, MirrorsNodewise, MirrorsNode
<1>4. CASE UNCHANGED vars
  BY <1>4 DEF vars, Mirroring, StackMirrors, SlotsMirror, MirrorsNodewise, MirrorsNode
<1> QED BY <1>1, <1>2, <1>3, <1>4, ProvideStorageMirrors, TransformChildMirrors
        DEF Next, Transform

-----------------------------------------------------------------------------
(* The recursive definitions can be unfolded: below a node there are nodes *)
(* of classes that nest less deep,                                         *)
LEMMA SourceTreeUnfolds ==
  SourceTree = [n \in Node |->
                 [of |-> n,
                  children |-> [j \in 1 .. Len(PrunedChild[n]) |-> SourceTree[PrunedChild[n][j]]]]]
<1> DEFINE label == [n \in Node |-> n]
<1>1. Child \in [Node -> Seq(Node)] /\ label \in [Node -> Node]
  BY TreeAssumption DEF NodeAssumption
<1>2. PrunedChild \in [Node -> Seq(Node)]
  <2>1. << >> \in Seq(Node)
    OBVIOUS
  <2> QED BY <1>1, <2>1 DEF PrunedChild
<1>3. ASSUME NEW n \in Node, NEW i \in 1 .. Len(PrunedChild[n])
      PROVE  LevelOf[PrunedChild[n][i]] < LevelOf[n]
  <2>1. CASE TransformsChildren(n)
    <3>1. PrunedChild[n] = Child[n]
      BY <2>1 DEF PrunedChild
    <3> QED BY <3>1, LevelDecreases
  <2>2. CASE ~ TransformsChildren(n)
    <3>1. PrunedChild[n] = << >> /\ Len(<< >>) = 0
      BY <2>2 DEF PrunedChild
    <3> QED BY <3>1
  <2> QED BY <2>1, <2>2
<1> HIDE DEF label
<1>4. Descends(Node, LevelOf, PrunedChild)
  BY <1>3 DEF Descends
<1>5. PICK V : \E f \in [Node -> V] : Trees(f, Node, label, V, PrunedChild)
  BY <1>1, <1>2, <1>4, LevelDecreases, TreeRecursion
<1>6. PICK f \in [Node -> V] : Trees(f, Node, label, V, PrunedChild)
  BY <1>5
<1>7. f = [n \in Node |->
            [of |-> n,
             children |-> [j \in 1 .. Len(PrunedChild[n]) |-> f[PrunedChild[n][j]]]]]
  <2>1. ASSUME NEW n \in Node
        PROVE  f[n] = [of |-> n,
                       children |-> [j \in 1 .. Len(PrunedChild[n]) |-> f[PrunedChild[n][j]]]]
    <3>1. PICK c \in Seq(V) :
            /\ Len(c) = Len(PrunedChild[n])
            /\ \A i \in 1 .. Len(PrunedChild[n]) : c[i] = f[PrunedChild[n][i]]
            /\ f[n] = [of |-> label[n], children |-> c]
      BY <1>6 DEF Trees, TreeOf, IsTree
    <3>2. c = [j \in 1 .. Len(PrunedChild[n]) |-> f[PrunedChild[n][j]]]
      BY <3>1
    <3> QED BY <3>1, <3>2 DEF label
  <2> QED BY <2>1
<1> QED BY <1>7, Zenon DEF SourceTree

(* and a target's number is greater than its children's.                   *)
LEMMA TargetTreeUnfolds ==
  ASSUME targets \in Seq(Target), ChildrenFirst
  PROVE  TargetTree = [t \in 1 .. Len(targets) |->
           [of |-> targets[t].of,
            children |-> [j \in 1 .. Len(targets[t].children) |->
                           TargetTree[targets[t].children[j]]]]]
<1> DEFINE D == 1 .. Len(targets)
           label == [t \in D |-> targets[t].of]
           below == [t \in D |-> targets[t].children]
           rank == [t \in D |-> t]
<1>1. Len(targets) \in Nat
  OBVIOUS
<1>2. ASSUME NEW t \in D
      PROVE  targets[t].of \in Node /\ targets[t].children \in Seq(D)
  <2>1. targets[t].of \in Node /\ targets[t].children \in Seq(Nat)
    <3>1. targets[t] \in Target
      BY ElementOfSeq
    <3> QED BY <3>1 DEF Target
  <2>2. \A j \in 1 .. Len(targets[t].children) : targets[t].children[j] \in D
    BY <1>1 DEF ChildrenFirst
  <2> DEFINE c == targets[t].children
  <2>3. Len(c) \in Nat /\ c = [j \in 1 .. Len(c) |-> c[j]]
    BY <2>1
  <2> HIDE DEF D
  <2>4. c \in Seq(D)
    BY <2>2, <2>3
  <2> QED BY <2>1, <2>4
<1>3. label \in [D -> Node] /\ below \in [D -> Seq(D)] /\ rank \in [D -> Nat]
  BY <1>1, <1>2
<1>4. \A t \in D : \A i \in 1 .. Len(below[t]) : rank[below[t][i]] < rank[t]
  <2> SUFFICES ASSUME NEW t \in D, NEW i \in 1 .. Len(targets[t].children)
               PROVE  rank[targets[t].children[i]] < t
    OBVIOUS
  <2>1. targets[t].children[i] \in 1 .. t - 1
    BY DEF ChildrenFirst
  <2>2. targets[t].children[i] \in D /\ targets[t].children[i] < t
    BY <1>1, <2>1
  <2> QED BY <2>2
<1>5. \A t \in D : below[t] = targets[t].children /\ label[t] = targets[t].of
  OBVIOUS
<1> HIDE DEF D, label, below, rank
<1>6. Descends(D, rank, below)
  BY <1>4 DEF Descends
<1>7. PICK V : \E f \in [D -> V] : Trees(f, D, label, V, below)
  BY <1>3, <1>6, TreeRecursion
<1>8. PICK f \in [D -> V] : Trees(f, D, label, V, below)
  BY <1>7
<1>9. f = [t \in 1 .. Len(targets) |->
            [of |-> targets[t].of,
             children |-> [j \in 1 .. Len(targets[t].children) |->
                            f[targets[t].children[j]]]]]
  <2>1. ASSUME NEW t \in D
        PROVE  f[t] = [of |-> targets[t].of,
                       children |-> [j \in 1 .. Len(targets[t].children) |->
                                      f[targets[t].children[j]]]]
    <3>1. PICK c \in Seq(V) :
            /\ Len(c) = Len(below[t])
            /\ \A i \in 1 .. Len(below[t]) : c[i] = f[below[t][i]]
            /\ f[t] = [of |-> label[t], children |-> c]
      BY <1>8 DEF Trees, TreeOf, IsTree
    <3>2. c = [j \in 1 .. Len(below[t]) |-> f[below[t][j]]]
      BY <3>1
    <3> QED BY <1>5, <3>1, <3>2
  <2> QED BY <2>1 DEF D
<1> QED BY <1>9, Zenon DEF TargetTree

(* Mirroring node by node is mirroring as a tree.                          *)
LEMMA NodewiseIsTreewise == IInv /\ Mirroring => MirrorsSource
<1> SUFFICES ASSUME IInv, Mirroring, result # 0
             PROVE  TargetTree[result] = SourceTree[source]
  BY DEF MirrorsSource
<1> DEFINE D == 1 .. Len(targets)
           rank == [t \in D |-> t]
           T == {t \in D : TargetTree[t] = SourceTree[targets[t].of]}
<1>1. targets \in Seq(Target) /\ ChildrenFirst /\ Len(targets) \in Nat /\ rank \in [D -> Nat]
  BY DEF IInv, TypeOK
<1>2. ASSUME NEW t \in D, \A u \in D : rank[u] < rank[t] => u \in T
      PROVE  TargetTree[t] = SourceTree[targets[t].of]
  <2> DEFINE c == targets[t].children
             n == targets[t].of
  <2>1. n \in Node /\ c \in Seq(Nat) /\ Len(c) \in Nat
    <3>1. targets[t] \in Target
      BY <1>1, ElementOfSeq
    <3> QED BY <3>1 DEF Target
  <2>2. /\ Len(c) = Len(PrunedChild[n])
        /\ \A j \in 1 .. Len(c) : targets[c[j]].of = PrunedChild[n][j]
    <3>1. /\ Len(c) = IF TransformsChildren(n) THEN Len(Child[n]) ELSE 0
          /\ \A j \in 1 .. Len(c) : targets[c[j]].of = Child[n][(j - 1) + 1]
      BY DEF Mirroring, MirrorsNodewise, MirrorsNode, degree, child
    <3>2. CASE TransformsChildren(n)
      <4>1. PrunedChild[n] = Child[n]
        BY <2>1, <3>2 DEF PrunedChild
      <4>2. \A j \in 1 .. Len(c) : (j - 1) + 1 = j
        BY <2>1
      <4> QED BY <3>1, <3>2, <4>1, <4>2
    <3>3. CASE ~ TransformsChildren(n)
      <4>1. PrunedChild[n] = << >> /\ Len(<< >>) = 0
        BY <2>1, <3>3 DEF PrunedChild
      <4> QED BY <3>1, <3>3, <4>1
    <3> QED BY <3>2, <3>3
  <2>3. ASSUME NEW j \in 1 .. Len(c) PROVE TargetTree[c[j]] = SourceTree[PrunedChild[n][j]]
    <3>1. c[j] \in 1 .. t - 1
      BY <1>1 DEF ChildrenFirst
    <3>2. c[j] \in D /\ c[j] < t
      BY <1>1, <3>1
    <3>3. c[j] \in T
      BY <1>2, <3>2
    <3> QED BY <2>2, <3>3
  <2>4. TargetTree[t] = [of |-> n, children |-> [j \in 1 .. Len(c) |-> TargetTree[c[j]]]]
    BY <1>1, TargetTreeUnfolds
  <2>5. SourceTree[n] = [of |-> n, children |-> [j \in 1 .. Len(PrunedChild[n]) |->
                                                  SourceTree[PrunedChild[n][j]]]]
    BY <2>1, SourceTreeUnfolds
  <2> HIDE DEF c, n
  <2>6. [j \in 1 .. Len(c) |-> TargetTree[c[j]]]
          = [j \in 1 .. Len(PrunedChild[n]) |-> SourceTree[PrunedChild[n][j]]]
    BY <2>2, <2>3
  <2>7. TargetTree[t] = SourceTree[n]
    BY <2>4, <2>5, <2>6
  <2> QED BY <2>7 DEF n
<1>3. D \subseteq T
  <2>1. \A t \in D : (\A u \in D : rank[u] < rank[t] => u \in T) => t \in T
    BY <1>2
  <2> HIDE DEF D, T, rank
  <2> QED BY <1>1, <2>1, RankInduction
<1>4. result \in D /\ targets[result].of = source
  BY <1>1 DEF IInv, TypeOK, Mirroring, MirrorsNodewise
<1> QED BY <1>3, <1>4

-----------------------------------------------------------------------------
(* Source nodes are kept alive by targets: all targets own their source    *)
(* node but the one that transform(const S&) returns.                      *)
LEMMA SubtreeUnfolds ==
  \A n \in Node :
    Subtree[n] = {n} \cup UNION {Subtree[child(n, i)] : i \in 0 .. degree(n) - 1}
<1> DEFINE V == SUBSET Node
           step == [x \in Node \X Seq(V) |-> {x[1]} \cup UNION {x[2][i] : i \in 1 .. Len(x[2])}]
<1>1. Child \in [Node -> Seq(Node)]
  BY TreeAssumption DEF NodeAssumption
<1>2. step \in [Node \X Seq(V) -> V]
  <2>1. ASSUME NEW x \in Node \X Seq(V)
        PROVE  {x[1]} \cup UNION {x[2][i] : i \in 1 .. Len(x[2])} \in V
    <3>1. x[1] \in Node /\ x[2] \in Seq(V)
      OBVIOUS
    <3>2. \A i \in 1 .. Len(x[2]) : x[2][i] \in V
      BY <3>1, ElementOfSeq
    <3> QED BY <3>1, <3>2
  <2> QED BY <2>1
<1>3. Descends(Node, LevelOf, Child)
  BY LevelDecreases DEF Descends
<1>4. PICK f \in [Node -> V] : Follows(f, Node, V, Child, step)
  <2> HIDE DEF V, step
  <2> QED BY <1>1, <1>2, <1>3, LevelDecreases, RankRecursion
<1>5. ASSUME NEW n \in Node
      PROVE  f[n] = {n} \cup UNION {f[child(n, i)] : i \in 0 .. degree(n) - 1}
  <2>1. PICK c \in Seq(V) : MadeFrom(f, n, c, Child, step)
    BY <1>4 DEF Follows
  <2>2. /\ Len(c) = Len(Child[n])
        /\ \A i \in 1 .. Len(Child[n]) : c[i] = f[Child[n][i]]
        /\ f[n] = step[<< n, c >>]
    BY <2>1 DEF MadeFrom
  <2>3. f[n] = {n} \cup UNION {c[i] : i \in 1 .. Len(c)}
    <3> DEFINE x == << n, c >>
    <3>1. x \in Node \X Seq(V) /\ x[1] = n /\ x[2] = c
      OBVIOUS
    <3> HIDE DEF x, V
    <3>2. step[x] = {x[1]} \cup UNION {x[2][i] : i \in 1 .. Len(x[2])}
      BY <3>1
    <3>3. step[x] = {n} \cup UNION {c[i] : i \in 1 .. Len(c)}
      BY <3>1, <3>2
    <3> QED BY <2>2, <3>3 DEF x
  <2>4. Len(Child[n]) \in Nat
    BY <1>1
  <2>5. UNION {c[i] : i \in 1 .. Len(c)} = UNION {f[child(n, i)] : i \in 0 .. degree(n) - 1}
    <3>1. ASSUME NEW i \in 1 .. Len(c)
          PROVE  i - 1 \in 0 .. degree(n) - 1 /\ c[i] = f[child(n, i - 1)]
      <4>1. i - 1 \in 0 .. degree(n) - 1 /\ (i - 1) + 1 = i /\ i \in 1 .. Len(Child[n])
        BY <2>2, <2>4 DEF degree
      <4> QED BY <2>2, <4>1 DEF child
    <3>2. ASSUME NEW i \in 0 .. degree(n) - 1
          PROVE  i + 1 \in 1 .. Len(c) /\ c[i + 1] = f[child(n, i)]
      <4>1. i + 1 \in 1 .. Len(Child[n])
        BY <2>2, <2>4 DEF degree
      <4> QED BY <2>2, <4>1 DEF child
    <3>3. {c[i] : i \in 1 .. Len(c)} = {f[child(n, i)] : i \in 0 .. degree(n) - 1}
      BY <3>1, <3>2
    <3> QED BY <3>3
  <2> QED BY <2>3, <2>5
<1>6. f = [n \in Node |-> {n} \cup UNION {f[child(n, i)] : i \in 0 .. degree(n) - 1}]
  BY <1>5
<1>7. Subtree = [n \in Node |-> {n} \cup UNION {Subtree[child(n, i)] : i \in 0 .. degree(n) - 1}]
  BY <1>6, Zenon DEF Subtree
<1> QED BY <1>7

(* Only the activation that the client's call has started may have been    *)
(* handed a reference, and only if the client has called                   *)
(* transform(const S&).                                                    *)
Owning ==
  /\ \A f \in 1 .. Len(stack) :
       stack[f].handed = "shared_ptr" \/ (f = 1 /\ entry = "transform(const S&)")
  /\ \A t \in 1 .. Len(targets) :
       \/ targets[t].handed = "shared_ptr"
       \/ stack = << >> /\ t = result /\ entry = "transform(const S&)"

LEMMA InitOwning == Init => Owning
<1> SUFFICES ASSUME Init PROVE Owning
  OBVIOUS
<1> DEFINE h == IF entry = "transform(const S&)" THEN "reference" ELSE "shared_ptr"
           a == Activation(source, h)
<1>1. stack = << a >> /\ targets = << >> /\ a.handed = h
  BY DEF Init, Activation
<1> HIDE DEF a
<1>2. Len(stack) = 1 /\ stack[1] = a /\ Len(targets) = 0
  BY <1>1
<1>3. a.handed = "shared_ptr" \/ entry = "transform(const S&)"
  BY <1>1
<1> HIDE DEF h
<1>4. \A f \in 1 .. Len(stack) : f = 1 /\ stack[f] = a
  BY <1>2
<1>5. \A t \in 1 .. Len(targets) : FALSE
  BY <1>2
<1> QED BY <1>3, <1>4, <1>5 DEF Owning

(* A descriptor that is given what its activation was handed.              *)
LEMMA ReturnOwning ==
  ASSUME IInv, Owning, stack # << >>, NEW t \in Target, Return(t), t.handed = Top.handed
  PROVE  Owning'
<1> DEFINE n == Len(targets)
           l == Len(stack)
<1>1. /\ n \in Nat /\ Len(targets') = n + 1 /\ targets'[n + 1] = t
      /\ \A u \in 1 .. n : targets'[u] = targets[u]
  BY PushTop DEF Return, IInv, TypeOK
<1>2. stack \in Seq(Frame) /\ l \in Nat \ {0} /\ Top = stack[l] /\ entry' = entry
  BY EmptySeq DEF IInv, TypeOK, Return, Top, Last
<1>3. ASSUME NEW u \in 1 .. n PROVE targets'[u].handed = "shared_ptr"
  BY <1>1 DEF Owning
<1>6. t.handed = "shared_ptr" \/ (l = 1 /\ entry = "transform(const S&)")
  <2>1. l \in 1 .. l
    BY <1>2
  <2> QED BY <1>2, <2>1 DEF Owning
<1>4. CASE l = 1
  <2>1. stack' = << >> /\ result' = n + 1 /\ Len(stack') = 0
    BY <1>4 DEF Return
  <2>2. t.handed = "shared_ptr" \/ entry = "transform(const S&)"
    BY <1>6
  <2> HIDE DEF n
  <2>3. \A u \in 1 .. n + 1 : u \in 1 .. n \/ u = n + 1
    BY <1>1
  <2>4. \A f \in 1 .. Len(stack') : FALSE
    BY <2>1
  <2>5. ASSUME NEW u \in 1 .. Len(targets')
        PROVE  \/ targets'[u].handed = "shared_ptr"
               \/ stack' = << >> /\ u = result' /\ entry' = "transform(const S&)"
    <3>1. CASE u \in 1 .. n
      BY <1>3, <3>1
    <3>2. CASE u = n + 1
      BY <1>1, <1>2, <2>1, <2>2, <3>2
    <3> QED BY <1>1, <2>3, <3>1, <3>2
  <2> QED BY <2>4, <2>5 DEF Owning
<1>5. CASE l # 1
  <2>1. t.handed = "shared_ptr"
    BY <1>5, <1>6
  <2>2. /\ Caller \in Nat \ {0} /\ Caller + 1 = l
        /\ Len(stack') = Caller /\ stack'[Caller] = Stored /\ stack[Caller] \in Frame
    BY <1>5, BackToCaller
  <2>3. \A g \in 1 .. Caller - 1 : stack'[g] = stack[g]
    BY <1>5, BackToCaller
  <2>4. Stored.handed = stack[Caller].handed
    BY <2>2 DEF Stored, Store, Frame
  <2>5. ASSUME NEW g \in 1 .. Caller
        PROVE  stack'[g].handed = stack[g].handed /\ g \in 1 .. l
    <3>1. g \in 1 .. Caller - 1 \/ g = Caller
      BY <2>2
    <3> QED BY <2>2, <2>3, <2>4, <3>1
  <2> HIDE DEF n
  <2>6. \A u \in 1 .. n + 1 : u \in 1 .. n \/ u = n + 1
    BY <1>1
  <2> QED BY <1>1, <1>2, <1>3, <2>1, <2>2, <2>5, <2>6 DEF Owning
<1> QED BY <1>4, <1>5

LEMMA NextOwning == IInv /\ Owning /\ [Next]_vars => Owning'
<1> SUFFICES ASSUME IInv, Owning, [Next]_vars PROVE Owning'
  OBVIOUS
<1> DEFINE l == Len(stack)
<1>1. CASE TransformWhole
  <2> DEFINE t == Descriptor(<< >>)
  <2>1. /\ stack # << >> /\ stack \in Seq(Frame) /\ Top = stack[Len(stack)]
        /\ Len(stack) \in 1 .. Len(stack) /\ Return(t)
    BY <1>1, EmptySeq DEF TransformWhole, At, Top, Last, IInv, TypeOK
  <2>2. t \in Target /\ t.handed = Top.handed
    BY <2>1, FrameAt, EmptySeq DEF Descriptor, Target
  <2> HIDE DEF t
  <2> QED BY <2>1, <2>2, ReturnOwning
<1>2. CASE TransformNode
  <2> DEFINE t == Descriptor(Top.children_storage)
  <2>1. /\ stack # << >> /\ stack \in Seq(Frame) /\ Top = stack[Len(stack)]
        /\ Len(stack) \in 1 .. Len(stack) /\ Return(t)
    BY <1>2, EmptySeq DEF TransformNode, At, Top, Last, IInv, TypeOK
  <2>2. t \in Target /\ t.handed = Top.handed
    BY <2>1, FrameAt DEF Descriptor, Target
  <2> HIDE DEF t
  <2> QED BY <2>1, <2>2, ReturnOwning
<1>3. CASE ProvideStorage
  <2> DEFINE top == stack[l]
             storage == [k \in 1 .. degree(top.node) |-> 0]
             f0 == [top EXCEPT !.pc = "loop", !.children_storage = storage]
  <2>1. stack \in Seq(Frame) /\ stack # << >> /\ l \in Nat \ {0}
    BY <1>3, EmptySeq DEF IInv, TypeOK, ProvideStorage, At
  <2>2. top \in Frame
    BY <2>1, FrameAt
  <2>3. stack' = [stack EXCEPT ![l] = f0] /\ UNCHANGED << entry, targets, result >>
    BY <1>3, <2>1 DEF ProvideStorage, Top, Last
  <2> HIDE DEF storage
  <2>4. f0.handed = top.handed
    BY <2>2 DEF Frame
  <2> HIDE DEF f0
  <2>5. Len(stack') = l /\ \A g \in 1 .. l : stack'[g].handed = stack[g].handed
    BY <2>1, <2>3, <2>4
  <2>6. stack' # << >>
    BY <2>1, <2>5
  <2> QED BY <2>1, <2>3, <2>5, <2>6 DEF Owning
<1>4. CASE TransformChild
  <2> DEFINE f0 == Activation(child(Top.node, Top.k), "shared_ptr")
  <2>1. stack \in Seq(Frame) /\ stack # << >> /\ l \in Nat \ {0}
    BY <1>4, EmptySeq DEF IInv, TypeOK, TransformChild, At
  <2>2. stack' = Append(stack, f0) /\ UNCHANGED << entry, targets, result >>
    BY <1>4 DEF TransformChild
  <2>3. f0.handed = "shared_ptr"
    BY DEF Activation
  <2> HIDE DEF f0
  <2>4. Len(stack') = l + 1 /\ stack'[l + 1] = f0 /\ \A g \in 1 .. l : stack'[g] = stack[g]
    BY <2>1, <2>2
  <2>5. \A g \in 1 .. l + 1 : g \in 1 .. l \/ g = l + 1
    BY <2>1
  <2> QED BY <2>1, <2>2, <2>3, <2>4, <2>5 DEF Owning
<1>5. CASE DropSource
  BY <1>5 DEF DropSource, Owning
<1>6. CASE UNCHANGED vars
  BY <1>6 DEF vars, Owning
<1> QED BY <1>1, <1>2, <1>3, <1>4, <1>5, <1>6 DEF Next, Transform

LEMMA OwningKeeps == IInv /\ Owning => SourcesKept
<1> SUFFICES ASSUME IInv, Owning, NEW t \in 1 .. Len(targets),
                    ~ (t = result /\ entry = "transform(const S&)")
             PROVE  targets[t].of \in AliveSources
  BY DEF SourcesKept
<1>1. targets[t] \in Target /\ targets[t] \in ToSet(targets)
  <2>1. targets \in Seq(Target)
    BY DEF IInv, TypeOK
  <2>2. t \in DOMAIN targets
    BY <2>1, LenProperties
  <2> QED BY <2>1, <2>2, ElementOfSeq DEF ToSet
<1>2. targets[t].handed = "shared_ptr"
  BY DEF Owning
<1>3. targets[t].of \in Subtree[targets[t].of]
  <2>1. targets[t].of \in Node
    BY <1>1 DEF Target
  <2> QED BY <2>1, SubtreeUnfolds
<1>4. targets[t].of \in {u.of : u \in {x \in ToSet(targets) : x.handed = "shared_ptr"}}
  BY <1>1, <1>2
<1> QED BY <1>3, <1>4 DEF AliveSources

-----------------------------------------------------------------------------
(* Transforming is a depth-first visit.  The positions below a target are  *)
(* its own and those below its children,                                   *)
PositionsMade(f, ts, t, path) ==
  f[<< t, path >>] = {[path |-> path, node |-> ts[t].of]}
                 \cup UNION {f[<< ts[t].children[j], push_back(path, j - 1) >>] :
                               j \in 1 .. Len(ts[t].children)}

ListsPositions(f, ts) ==
  \A t \in 1 .. Len(ts), path \in TreePath : PositionsMade(f, ts, t, path)

OlderChildren(ts) ==
  \A t \in 1 .. Len(ts) :
    \A j \in 1 .. Len(ts[t].children) : ts[t].children[j] \in 1 .. t - 1

Continues(us, ts) == \A t \in 1 .. Len(ts) : t \in 1 .. Len(us) /\ us[t] = ts[t]

SamePositions(g, f, m) ==
  \A t \in 1 .. m, path \in TreePath : g[<< t, path >>] = f[<< t, path >>]

LEMMA PositionsUnfold ==
  ASSUME targets \in Seq(Target), ChildrenFirst
  PROVE  ListsPositions(PositionsBelow, targets)
<1> DEFINE N == 1 .. Len(targets)
           D == N \X TreePath
           V == SUBSET [path : TreePath, node : Node]
           own == [x \in D |-> [path |-> x[2], node |-> targets[x[1]].of]]
           below == [x \in D |-> [j \in 1 .. Len(targets[x[1]].children) |->
                                    << targets[x[1]].children[j], push_back(x[2], j - 1) >>]]
           rank == [x \in D |-> x[1]]
           step == [y \in D \X Seq(V) |-> {own[y[1]]} \cup UNION {y[2][j] : j \in 1 .. Len(y[2])}]
<1>1. Len(targets) \in Nat
  OBVIOUS
<1>2. ASSUME NEW t \in N
      PROVE  /\ targets[t].of \in Node /\ Len(targets[t].children) \in Nat
             /\ \A j \in 1 .. Len(targets[t].children) :
                  targets[t].children[j] \in N /\ targets[t].children[j] < t
  <2>1. targets[t] \in Target
    BY ElementOfSeq
  <2>2. targets[t].of \in Node /\ Len(targets[t].children) \in Nat
    BY <2>1 DEF Target
  <2>3. \A j \in 1 .. Len(targets[t].children) : targets[t].children[j] \in 1 .. t - 1
    BY DEF ChildrenFirst
  <2>4. \A u \in 1 .. t - 1 : u \in N /\ u < t
    BY <1>1
  <2>. QED BY <2>2, <2>3, <2>4
<1>3. ASSUME NEW path \in TreePath, NEW j \in Nat \ {0}
      PROVE  push_back(path, j - 1) \in TreePath
  BY DEF push_back, TreePath
<1>4. \A x \in D : x[1] \in N /\ x[2] \in TreePath /\ x = << x[1], x[2] >> /\ x[1] \in Nat
  BY <1>1
<1>5. ASSUME NEW x \in D
      PROVE  /\ own[x] \in [path : TreePath, node : Node]
             /\ below[x] \in Seq(D) /\ Len(below[x]) = Len(targets[x[1]].children)
             /\ \A j \in 1 .. Len(targets[x[1]].children) :
                  /\ below[x][j] = << targets[x[1]].children[j], push_back(x[2], j - 1) >>
                  /\ below[x][j] \in D /\ rank[below[x][j]] < rank[x]
  <2> DEFINE l == Len(targets[x[1]].children)
  <2>1. x[1] \in N /\ x[2] \in TreePath /\ l \in Nat
    BY <1>2, <1>4
  <2>2. own[x] \in [path : TreePath, node : Node]
    BY <1>2, <2>1
  <2>3. below[x] = [j \in 1 .. l |-> << targets[x[1]].children[j], push_back(x[2], j - 1) >>]
    OBVIOUS
  <2>4. ASSUME NEW j \in 1 .. l
        PROVE  /\ << targets[x[1]].children[j], push_back(x[2], j - 1) >> \in D
               /\ targets[x[1]].children[j] < x[1]
    <3>1. targets[x[1]].children[j] \in N /\ targets[x[1]].children[j] < x[1]
      BY <1>2, <2>1
    <3>2. push_back(x[2], j - 1) \in TreePath
      BY <1>3, <2>1
    <3>. QED BY <3>1, <3>2
  <2>5. \A y \in D : rank[y] = y[1]
    OBVIOUS
  <2> HIDE DEF D, l, below, rank
  <2>6. \A j \in 1 .. l : below[x][j] = << targets[x[1]].children[j], push_back(x[2], j - 1) >>
    BY <2>3
  <2>7. below[x] \in Seq(D) /\ Len(below[x]) = l
    <3> DEFINE F(j) == << targets[x[1]].children[j], push_back(x[2], j - 1) >>
    <3>1. \A j \in 1 .. l : F(j) \in D
      BY <2>4
    <3>2. below[x] = [j \in 1 .. l |-> F(j)]
      BY <2>3
    <3> HIDE DEF F
    <3>. QED BY <2>1, <3>1, <3>2
  <2>8. ASSUME NEW j \in 1 .. l PROVE below[x][j] \in D /\ rank[below[x][j]] < rank[x]
    <3> DEFINE c == targets[x[1]].children[j]
               p == push_back(x[2], j - 1)
    <3>1. << c, p >> \in D /\ c < x[1]
      BY <2>4
    <3>2. below[x][j] = << c, p >>
      BY <2>6
    <3> HIDE DEF c, p
    <3>3. rank[<< c, p >>] = c /\ rank[x] = x[1]
      BY <2>5, <3>1
    <3>. QED BY <3>1, <3>2, <3>3
  <2>. QED BY <2>2, <2>6, <2>7, <2>8 DEF l
<1>6. below \in [D -> Seq(D)] /\ rank \in [D -> Nat]
  <2>1. below = [x \in D |-> below[x]] /\ rank = [x \in D |-> rank[x]]
    OBVIOUS
  <2>2. \A x \in D : rank[x] \in Nat
    BY <1>4
  <2> HIDE DEF below, rank, D
  <2>. QED BY <1>5, <2>1, <2>2
<1>7. step \in [D \X Seq(V) -> V]
  <2>1. ASSUME NEW y \in D \X Seq(V) PROVE {own[y[1]]} \cup UNION {y[2][j] : j \in 1 .. Len(y[2])} \in V
    <3>1. y[1] \in D /\ y[2] \in Seq(V)
      OBVIOUS
    <3>2. own[y[1]] \in [path : TreePath, node : Node]
      BY <1>5, <3>1
    <3> HIDE DEF own
    <3>3. \A j \in 1 .. Len(y[2]) : y[2][j] \in V
      BY <3>1, ElementOfSeq
    <3>. QED BY <3>2, <3>3
  <2> HIDE DEF D, V, own
  <2>. QED BY <2>1
<1>8. \A d \in D, c \in Seq(V) : step[<< d, c >>] = {own[d]} \cup UNION {c[j] : j \in 1 .. Len(c)}
  OBVIOUS
<1>9. Descends(D, rank, below)
  <2> HIDE DEF D, rank, below
  <2>. QED BY <1>5 DEF Descends
<1>10. PICK f \in [D -> V] : Follows(f, D, V, below, step)
  <2> HIDE DEF D, V, rank, below, step
  <2>. QED BY <1>6, <1>7, <1>9, RankRecursion
<1> DEFINE value(g, t, path) ==
      {[path |-> path, node |-> targets[t].of]}
        \cup UNION {g[<< targets[t].children[j], push_back(path, j - 1) >>] :
                      j \in 1 .. Len(targets[t].children)}
<1>11. ASSUME NEW t \in N, NEW path \in TreePath PROVE f[<< t, path >>] = value(f, t, path)
  <2> DEFINE d == << t, path >>
  <2>1. d \in D /\ d[1] = t /\ d[2] = path
    OBVIOUS
  <2>2. PICK c \in Seq(V) : MadeFrom(f, d, c, below, step)
    BY <1>10, <2>1 DEF Follows
  <2>3. own[d] = [path |-> path, node |-> targets[t].of]
    BY <2>1
  <2> HIDE DEF D, V, own, below, step
  <2>4. /\ Len(c) = Len(below[d]) /\ f[d] = {own[d]} \cup UNION {c[j] : j \in 1 .. Len(c)}
        /\ \A i \in 1 .. Len(below[d]) : c[i] = f[below[d][i]]
    BY <1>8, <2>1, <2>2 DEF MadeFrom
  <2>5. /\ Len(below[d]) = Len(targets[t].children)
        /\ \A j \in 1 .. Len(targets[t].children) :
             below[d][j] = << targets[t].children[j], push_back(path, j - 1) >>
    BY <1>5, <2>1
  <2>6. \A j \in 1 .. Len(targets[t].children) :
          c[j] = f[<< targets[t].children[j], push_back(path, j - 1) >>]
    BY <2>4, <2>5
  <2> DEFINE l == Len(targets[t].children)
             C == {c[j] : j \in 1 .. l}
             E == {f[<< targets[t].children[j], push_back(path, j - 1) >>] : j \in 1 .. l}
  <2>7. C = E
    BY <2>6
  <2>8. Len(c) = l
    BY <2>4, <2>5
  <2>9. f[d] = {own[d]} \cup UNION C
    BY <2>4, <2>8
  <2>10. f[d] = {[path |-> path, node |-> targets[t].of]} \cup UNION E
    BY <2>3, <2>7, <2>9
  <2>. QED BY <2>10
<1> DEFINE v(g, x) ==
      {[path |-> x[2], node |-> targets[x[1]].of]}
        \cup UNION {g[<< targets[x[1]].children[j], push_back(x[2], j - 1) >>] :
                      j \in 1 .. Len(targets[x[1]].children)}
<1>12. f = [x \in D |-> v(f, x)]
  <2>1. ASSUME NEW x \in D PROVE f[x] = v(f, x)
    <3>1. x[1] \in N /\ x[2] \in TreePath /\ x = << x[1], x[2] >>
      BY <1>4
    <3>2. f[<< x[1], x[2] >>] = value(f, x[1], x[2])
      BY <1>11, <3>1
    <3>. QED BY <3>1, <3>2
  <2> HIDE DEF v, D, V
  <2>. QED BY <2>1
<1>13. \E g : g = [x \in D |-> v(g, x)]
  BY <1>12
<1>14. PositionsBelow = [x \in D |-> v(PositionsBelow, x)]
  BY <1>13, Zenon DEF PositionsBelow
<1>15. ASSUME NEW t \in N, NEW path \in TreePath
       PROVE  PositionsBelow[<< t, path >>] = value(PositionsBelow, t, path)
  <2> DEFINE w(x) == v(PositionsBelow, x)
             P == PositionsBelow
             d == << t, path >>
  <2>1. P = [x \in D |-> w(x)]
    BY <1>14
  <2>2. d \in D /\ d[1] = t /\ d[2] = path
    OBVIOUS
  <2> HIDE DEF w, P, d, D
  <2>3. P[d] = w(d)
    BY <2>1, <2>2
  <2>4. w(d) = value(P, t, path)
    BY <2>2 DEF w, P
  <2>. QED BY <2>3, <2>4 DEF P, d
<1>. QED BY <1>15 DEF ListsPositions, PositionsMade

(* and they stay as they are when another target is made.                  *)
LEMMA PositionsStay ==
  ASSUME NEW ts \in Seq(Target), OlderChildren(ts), NEW us, NEW f, NEW g,
         Continues(us, ts), ListsPositions(f, ts), ListsPositions(g, us)
  PROVE  SamePositions(g, f, Len(ts))
<1> DEFINE T == {n \in Nat : n \in 1 .. Len(ts) =>
                   \A path \in TreePath : g[<< n, path >>] = f[<< n, path >>]}
<1>1. Len(ts) \in Nat
  OBVIOUS
<1>2. ASSUME NEW n \in Nat, \A m \in Nat : m < n => m \in T PROVE n \in T
  <2> SUFFICES ASSUME n \in 1 .. Len(ts), NEW path \in TreePath
               PROVE  g[<< n, path >>] = f[<< n, path >>]
    OBVIOUS
  <2> DEFINE c == ts[n].children
             F == {f[<< c[j], push_back(path, j - 1) >>] : j \in 1 .. Len(c)}
             G == {g[<< c[j], push_back(path, j - 1) >>] : j \in 1 .. Len(c)}
  <2>1. us[n] = ts[n] /\ n \in 1 .. Len(us) /\ Len(c) \in Nat
    BY TargetAt DEF Continues
  <2>2. ASSUME NEW j \in 1 .. Len(c)
        PROVE  g[<< c[j], push_back(path, j - 1) >>] = f[<< c[j], push_back(path, j - 1) >>]
    <3>1. c[j] \in 1 .. n - 1
      BY DEF OlderChildren
    <3>2. c[j] \in Nat /\ c[j] < n /\ c[j] \in 1 .. Len(ts)
      BY <1>1, <3>1
    <3>3. push_back(path, j - 1) \in TreePath
      BY <2>1 DEF push_back, TreePath
    <3>. QED BY <1>2, <3>2, <3>3
  <2>3. F = G
    BY <2>2
  <2>4. f[<< n, path >>] = {[path |-> path, node |-> ts[n].of]} \cup UNION F
    BY DEF ListsPositions, PositionsMade
  <2>5. g[<< n, path >>] = {[path |-> path, node |-> ts[n].of]} \cup UNION G
    <3>1. PositionsMade(g, us, n, path)
      BY <2>1 DEF ListsPositions
    <3>. QED BY <2>1, <3>1 DEF PositionsMade
  <2>. QED BY <2>3, <2>4, <2>5
<1>3. Nat \subseteq T
  <2> HIDE DEF T
  <2>. QED BY <1>2, InductionOnSets
<1>4. ASSUME NEW n \in 1 .. Len(ts), NEW path \in TreePath
      PROVE  g[<< n, path >>] = f[<< n, path >>]
  <2>1. n \in T
    <3>1. n \in Nat
      BY <1>1
    <3> HIDE DEF T
    <3>. QED BY <1>3, <3>1
  <2>. QED BY <2>1
<1>. QED BY <1>4 DEF SamePositions

(* The stack as a visit: an activation stands at the position its callers' *)
(* loops lead to, and has left what is below its filled slots.             *)
PathIn(s, f) == [g \in 1 .. f - 1 |-> s[g].k]

SpotIn(s, f) == [path |-> PathIn(s, f), node |-> s[f].node, i |-> s[f].k,
                 open |-> s[f].pc = "loop"]

SpotsIn(s) == [f \in 1 .. Len(s) |-> SpotIn(s, f)]

ClosedBy(s, f, F) ==
  UNION {F[<< s[f].children_storage[j], push_back(PathIn(s, f), j - 1) >>] : j \in 1 .. s[f].k}

ClosedIn(s, F) == UNION {ClosedBy(s, f, F) : f \in 1 .. Len(s)}

OpenIn(s) == {Place(SpotIn(s, f)) : f \in {g \in 1 .. Len(s) : s[g].pc = "loop"}}

LEMMA VisitedSoFar ==
  /\ opened = closed \cup OpenIn(stack)
  /\ result = 0 => closed = ClosedIn(stack, PositionsBelow)
  /\ result # 0 => closed = PositionsBelow[<< result, << >> >>]
<1>1. opened = closed \cup OpenIn(stack)
  BY DEF opened, OpenIn, Place, SpotIn, PathOf, PathIn
<1>2. result = 0 => closed = ClosedIn(stack, PositionsBelow)
  BY DEF closed, ClosedIn, ClosedBy, PathOf, PathIn
<1>3. result # 0 => closed = PositionsBelow[<< result, << >> >>]
  BY DEF closed
<1>. QED BY <1>1, <1>2, <1>3

LEMMA PathGrows ==
  ASSUME NEW s \in Seq(Frame), NEW f \in 1 .. Len(s)
  PROVE  /\ PathIn(s, f) \in TreePath /\ Len(PathIn(s, f)) = f - 1
         /\ PathIn(s, f + 1) = push_back(PathIn(s, f), s[f].k)
<1>1. Len(s) \in Nat /\ \A g \in 1 .. f : g \in 1 .. Len(s)
  OBVIOUS
<1>2. \A g \in 1 .. f : s[g].k \in Nat
  BY <1>1, FrameAt
<1>3. f - 1 \in Nat /\ \A g \in 1 .. f - 1 : g \in 1 .. f
  BY <1>1
<1> DEFINE p == PathIn(s, f)
           q == PathIn(s, f + 1)
           k == s[f].k
<1>4. p = [g \in 1 .. f - 1 |-> s[g].k] /\ q = [g \in 1 .. f |-> s[g].k]
  <2>1. f + 1 - 1 = f
    BY <1>1
  <2>. QED BY <2>1 DEF PathIn
<1>5. p \in Seq(Nat) /\ Len(p) = f - 1
  <2> DEFINE v(g) == s[g].k
             m == f - 1
  <2>1. p = [g \in 1 .. m |-> v(g)] /\ m \in Nat /\ \A g \in 1 .. m : v(g) \in Nat
    BY <1>2, <1>3, <1>4
  <2> HIDE DEF p, v, m
  <2>2. p \in Seq(Nat) /\ Len(p) = m
    BY <2>1
  <2>. QED BY <2>2 DEF m
<1>6. q \in Seq(Nat) /\ Len(q) = f
  <2> DEFINE v(g) == s[g].k
  <2>1. q = [g \in 1 .. f |-> v(g)] /\ f \in Nat /\ \A g \in 1 .. f : v(g) \in Nat
    BY <1>1, <1>2, <1>4
  <2> HIDE DEF q, v
  <2>. QED BY <2>1
<1>7. q = Append(p, k)
  <2> DEFINE a == Append(p, k)
  <2>1. k \in Nat
    BY <1>1, <1>2
  <2>2. a \in Seq(Nat) /\ Len(a) = f /\ a[f] = k /\ \A g \in 1 .. f - 1 : a[g] = p[g]
    <3> HIDE DEF p, k
    <3>1. /\ Append(p, k) \in Seq(Nat) /\ Len(Append(p, k)) = Len(p) + 1
          /\ Append(p, k)[Len(p) + 1] = k /\ \A g \in 1 .. Len(p) : Append(p, k)[g] = p[g]
      BY <1>5, <2>1, AppendProperties
    <3>2. Len(p) + 1 = f
      BY <1>1, <1>5
    <3>. QED BY <1>5, <3>1, <3>2
  <2>3. \A g \in 1 .. f : g = f \/ g \in 1 .. f - 1
    BY <1>1
  <2>4. \A g \in 1 .. f : q[g] = s[g].k
    BY <1>4
  <2>5. \A g \in 1 .. f - 1 : p[g] = s[g].k
    BY <1>4
  <2> HIDE DEF a, p, q
  <2>6. \A g \in 1 .. f : q[g] = a[g]
    BY <1>3, <2>2, <2>3, <2>4, <2>5
  <2>7. q = a
    BY <1>6, <2>2, <2>6, SeqEqual
  <2>. QED BY <2>7 DEF a
<1>. QED BY <1>5, <1>7 DEF TreePath, push_back

LEMMA SpotsOfStack ==
  ASSUME NEW s \in Seq(Frame)
  PROVE  /\ SpotsIn(s) \in Seq(Spot) /\ Len(SpotsIn(s)) = Len(s)
         /\ \A f \in 1 .. Len(s) : SpotsIn(s)[f] = SpotIn(s, f) /\ SpotIn(s, f) \in Spot
<1>1. Len(s) \in Nat /\ SpotsIn(s) = [f \in 1 .. Len(s) |-> SpotIn(s, f)]
  BY DEF SpotsIn
<1>2. ASSUME NEW f \in 1 .. Len(s) PROVE SpotIn(s, f) \in Spot
  <2>1. s[f].node \in Node /\ s[f].k \in Nat /\ PathIn(s, f) \in TreePath
    BY FrameAt, PathGrows
  <2>. QED BY <2>1 DEF SpotIn, Spot
<1> HIDE DEF SpotsIn
<1>3. SpotsIn(s) \in Seq(Spot)
  <2> DEFINE F(f) == SpotIn(s, f)
  <2>1. SpotsIn(s) = [f \in 1 .. Len(s) |-> F(f)] /\ \A f \in 1 .. Len(s) : F(f) \in Spot
    BY <1>1, <1>2
  <2> HIDE DEF F
  <2>. QED BY <1>1, <2>1
<1>4. Len(SpotsIn(s)) = Len(s)
  BY <1>1
<1>. QED BY <1>1, <1>2, <1>3, <1>4

(* A spot, and what has been left below it, depend on the activation and   *)
(* on the loops of its callers.                                            *)
LEMMA SpotKept ==
  ASSUME NEW s \in Seq(Frame), NEW u \in Seq(Frame),
         NEW f \in 1 .. Len(s), f \in 1 .. Len(u), \A g \in 1 .. f - 1 : u[g].k = s[g].k
  PROVE  /\ PathIn(u, f) = PathIn(s, f)
         /\ u[f] = s[f] => SpotIn(u, f) = SpotIn(s, f)
         /\ \A F : u[f] = s[f] => ClosedBy(u, f, F) = ClosedBy(s, f, F)
<1>1. PathIn(u, f) = PathIn(s, f)
  BY DEF PathIn
<1>2. u[f] = s[f] => SpotIn(u, f) = SpotIn(s, f)
  BY <1>1 DEF SpotIn
<1>3. \A F : u[f] = s[f] => ClosedBy(u, f, F) = ClosedBy(s, f, F)
  BY <1>1 DEF ClosedBy
<1>. QED BY <1>1, <1>2, <1>3

LEMMA ClosedKept ==
  ASSUME NEW s \in Seq(Frame), NEW u \in Seq(Frame), NEW F,
         \A f \in 1 .. Len(s) : f \in 1 .. Len(u) /\ u[f].k = s[f].k,
         \A f \in 1 .. Len(s) : u[f] = s[f] \/ s[f].k = 0,
         \A f \in 1 .. Len(u) : f \in 1 .. Len(s) \/ u[f].k = 0
  PROVE  ClosedIn(u, F) = ClosedIn(s, F)
<1>1. ASSUME NEW v \in Seq(Frame), NEW f, v[f].k = 0 PROVE ClosedBy(v, f, F) = {}
  <2>1. \A j : j \notin 1 .. v[f].k
    BY <1>1
  <2>. QED BY <2>1 DEF ClosedBy
<1>2. ASSUME NEW f \in 1 .. Len(s) PROVE ClosedBy(u, f, F) = ClosedBy(s, f, F)
  <2>1. CASE s[f].k = 0
    BY <1>1, <2>1
  <2>2. CASE u[f] = s[f]
    <3>1. \A g \in 1 .. f - 1 : g \in 1 .. Len(s)
      OBVIOUS
    <3>. QED BY <2>2, <3>1, SpotKept
  <2>. QED BY <2>1, <2>2
<1>3. ASSUME NEW f \in 1 .. Len(u), f \notin 1 .. Len(s) PROVE ClosedBy(u, f, F) = {}
  BY <1>1, <1>3
<1>. QED BY <1>2, <1>3 DEF ClosedIn

(* When an activation returns, its position is left.                       *)
PositionsMadeBy(G, x, s, n) ==
  G[<< x, PathIn(s, n) >>] = {Place(SpotIn(s, n))} \cup ClosedBy(s, n, G)

ReturnsTo(u, s, b, x) ==
  /\ Len(s) = b + 1 /\ Len(u) = b /\ \A g \in 1 .. b - 1 : u[g] = s[g]
  /\ u[b].k = s[b].k + 1 /\ u[b].children_storage[s[b].k + 1] = x
  /\ \A j \in 1 .. s[b].k : u[b].children_storage[j] = s[b].children_storage[j]

SlotsUpTo(s, m) ==
  \A f \in 1 .. Len(s) : \A j \in 1 .. s[f].k : s[f].children_storage[j] \in 1 .. m

LEMMA ClosedGrows ==
  ASSUME NEW s \in Seq(Frame), NEW u \in Seq(Frame), NEW b \in 1 .. Len(s),
         NEW x, NEW m, NEW F, NEW G, ReturnsTo(u, s, b, x), SlotsUpTo(s, m),
         SamePositions(G, F, m), PositionsMadeBy(G, x, s, Len(s))
  PROVE  ClosedIn(u, G) = ClosedIn(s, F) \cup {Place(SpotIn(s, Len(s)))}
<1>. USE DEF ReturnsTo
<1> DEFINE n == Len(s)
<1>1. n \in Nat /\ b \in Nat /\ b \in 1 .. b /\ n = b + 1 /\ n \in 1 .. n
  OBVIOUS
<1>2. ASSUME NEW f \in 1 .. n PROVE ClosedBy(s, f, G) = ClosedBy(s, f, F)
  <2>1. s[f].k \in Nat /\ PathIn(s, f) \in TreePath
    BY FrameAt, PathGrows
  <2>2. \A j \in 1 .. s[f].k : push_back(PathIn(s, f), j - 1) \in TreePath
    BY <2>1 DEF push_back, TreePath
  <2>3. ASSUME NEW j \in 1 .. s[f].k
        PROVE  G[<< s[f].children_storage[j], push_back(PathIn(s, f), j - 1) >>]
                 = F[<< s[f].children_storage[j], push_back(PathIn(s, f), j - 1) >>]
    <3>1. s[f].children_storage[j] \in 1 .. m /\ push_back(PathIn(s, f), j - 1) \in TreePath
      BY <2>2 DEF SlotsUpTo
    <3>. QED BY <3>1 DEF SamePositions
  <2> DEFINE E(j) == G[<< s[f].children_storage[j], push_back(PathIn(s, f), j - 1) >>]
             D(j) == F[<< s[f].children_storage[j], push_back(PathIn(s, f), j - 1) >>]
             k == s[f].k
  <2>4. \A j \in 1 .. k : E(j) = D(j)
    BY <2>3
  <2>5. ClosedBy(s, f, G) = UNION {E(j) : j \in 1 .. k} /\ ClosedBy(s, f, F) = UNION {D(j) : j \in 1 .. k}
    BY DEF ClosedBy
  <2> HIDE DEF E, D, k
  <2>. QED BY <2>4, <2>5
<1>3. ASSUME NEW f \in 1 .. b - 1 PROVE ClosedBy(u, f, G) = ClosedBy(s, f, G)
  <2>1. f \in 1 .. n /\ f \in 1 .. Len(u) /\ \A g \in 1 .. f - 1 : g \in 1 .. b - 1
    BY <1>1
  <2>. QED BY <2>1, SpotKept
<1>4. PathIn(u, b) = PathIn(s, b) /\ PathIn(s, n) = push_back(PathIn(s, b), s[b].k)
  <2>1. PathIn(s, b + 1) = push_back(PathIn(s, b), s[b].k)
    BY PathGrows
  <2>2. PathIn(u, b) = PathIn(s, b)
    BY DEF PathIn
  <2>. QED BY <1>1, <2>1, <2>2
<1>5. ClosedBy(u, b, G) = ClosedBy(s, b, G) \cup G[<< x, PathIn(s, n) >>]
  <2> DEFINE k == s[b].k
             p == PathIn(s, b)
             U(j) == G[<< u[b].children_storage[j], push_back(p, j - 1) >>]
             S(j) == G[<< s[b].children_storage[j], push_back(p, j - 1) >>]
  <2>1. k \in Nat
    BY FrameAt
  <2>2. \A j \in 1 .. k : U(j) = S(j)
    OBVIOUS
  <2>3. ASSUME NEW j, j = k + 1 PROVE U(j) = G[<< x, PathIn(s, n) >>]
    <3>1. j - 1 = k
      BY <2>1, <2>3
    <3>2. u[b].children_storage[j] = x
      BY <2>3
    <3>3. push_back(p, j - 1) = PathIn(s, n)
      BY <1>4, <3>1
    <3>. QED BY <3>2, <3>3
  <2>4. ClosedBy(u, b, G) = UNION {U(j) : j \in 1 .. k + 1}
    BY <1>4 DEF ClosedBy
  <2>5. ClosedBy(s, b, G) = UNION {S(j) : j \in 1 .. k}
    BY DEF ClosedBy
  <2> HIDE DEF k, U, S, ReturnsTo
  <2>6. 1 .. k + 1 = (1 .. k) \cup {k + 1}
    BY <2>1
  <2>. QED BY <2>2, <2>3, <2>4, <2>5, <2>6
<1>6. ClosedIn(u, G) = (UNION {ClosedBy(s, f, F) : f \in 1 .. b}) \cup G[<< x, PathIn(s, n) >>]
  <2>1. \A f \in 1 .. b : f \in 1 .. n /\ (f = b \/ f \in 1 .. b - 1)
    BY <1>1
  <2>2. \A f \in 1 .. b : f # b => ClosedBy(u, f, G) = ClosedBy(s, f, F)
    BY <1>2, <1>3, <2>1
  <2>3. ClosedBy(u, b, G) = ClosedBy(s, b, F) \cup G[<< x, PathIn(s, n) >>]
    BY <1>1, <1>2, <1>5, <2>1
  <2>4. ClosedIn(u, G) = UNION {ClosedBy(u, f, G) : f \in 1 .. b}
    BY DEF ClosedIn
  <2>. QED BY <1>1, <2>2, <2>3, <2>4
<1>7. 1 .. n = (1 .. b) \cup {n}
  BY <1>1
<1>8. ClosedIn(s, F) = (UNION {ClosedBy(s, f, F) : f \in 1 .. b}) \cup ClosedBy(s, n, F)
  BY <1>7 DEF ClosedIn
<1>9. ClosedBy(s, n, G) = ClosedBy(s, n, F)
  BY <1>1, <1>2
<1>. QED BY <1>6, <1>8, <1>9 DEF PositionsMadeBy

(* A recursive descriptor wants all children, another one none.            *)
Acc == Recursive \X Type

LEMMA WantedChildren ==
  ASSUME NEW n \in Node, NEW x, x.node = n
  PROVE  /\ ~ TransformsChildren(n) => WantedBy(PrunedChild, Acc, x) = {}
         /\ TransformsChildren(n) =>
              /\ WantedBy(PrunedChild, Acc, x) = 0 .. degree(n) - 1
              /\ \A i \in 0 .. degree(n) - 1 :
                   ChildPlace(PrunedChild, x, i) = [path |-> push_back(x.path, i), node |-> child(n, i)]
<1>1. degree(n) \in Nat /\ \A k \in 0 .. degree(n) - 1 : child(n, k) \in Node
  BY ChildIsNode
<1>2. \A m \in Node : TypeOf[m] \in Type
  BY TreeAssumption DEF NodeAssumption
<1>3. CASE ~ TransformsChildren(n)
  <2>1. PrunedChild[n] = << >>
    BY <1>3 DEF PrunedChild
  <2>2. Len(PrunedChild[x.node]) = 0
    BY <2>1
  <2>3. 0 .. Len(PrunedChild[x.node]) - 1 = {}
    BY <2>2
  <2>. QED BY <1>3, <2>3 DEF WantedBy
<1>4. CASE TransformsChildren(n)
  <2>1. PrunedChild[n] = Child[n] /\ TypeOf[n] \in Recursive
    BY <1>4 DEF PrunedChild, TransformsChildren
  <2>2. \A i \in 0 .. degree(n) - 1 : PrunedChild[x.node][i + 1] = child(n, i)
    BY <2>1 DEF child
  <2>3. Len(PrunedChild[x.node]) = degree(n)
    BY <2>1 DEF degree
  <2>4. WantedBy(PrunedChild, Acc, x) = 0 .. degree(n) - 1
    <3>1. \A i \in 0 .. degree(n) - 1 :
            << TypeOf[x.node], TypeOf[PrunedChild[x.node][i + 1]] >> \in Acc
      BY <1>1, <1>2, <2>1, <2>2 DEF Acc
    <3>. QED BY <2>3, <3>1 DEF WantedBy
  <2>. QED BY <1>4, <2>2, <2>4 DEF ChildPlace
<1>. QED BY <1>3, <1>4

Visiting ==
  /\ stack # << >> => result = 0
  /\ VisitsFrom(source, PrunedChild, Acc, SpotsIn(stack), opened, closed)

LEMMA InitVisiting == Init => Visiting /\ opened = {} /\ closed = {}
<1> SUFFICES ASSUME Init PROVE Visiting /\ opened = {} /\ closed = {}
  OBVIOUS
<1> DEFINE s == SpotsIn(stack)
           p == SpotIn(stack, 1)
           u == << p >>
<1>1. IInv /\ stack \in Seq(Frame) /\ source \in Node /\ result = 0
  BY InitIInv DEF Init, IInv, TypeOK
<1>2. Len(stack) = 1 /\ stack[1].node = source /\ stack[1].k = 0 /\ stack[1].pc = "start"
  <2> DEFINE a == Activation(source, IF entry = "transform(const S&)"
                                       THEN "reference" ELSE "shared_ptr")
  <2>1. a.node = source /\ a.k = 0 /\ a.pc = "start"
    BY DEF Activation
  <2>2. stack = << a >>
    BY DEF Init
  <2> HIDE DEF a
  <2>3. Len(stack) = 1 /\ stack[1] = a
    BY <2>2
  <2>. QED BY <2>1, <2>3
<1>3. 1 \in 1 .. Len(stack) /\ \A f \in 1 .. Len(stack) : f = 1
  BY <1>2
<1>4. p \in Spot /\ s \in Seq(Spot) /\ Len(s) = 1 /\ s[1] = p
  BY <1>1, <1>2, <1>3, SpotsOfStack
<1>5. p.node = source /\ p.i = 0 /\ p.open = FALSE /\ p.path = << >>
  <2>1. PathIn(stack, 1) \in Seq(Nat) /\ Len(PathIn(stack, 1)) = 1 - 1
    BY <1>1, <1>3, PathGrows DEF TreePath
  <2>2. PathIn(stack, 1) = << >>
    BY <2>1
  <2>. QED BY <1>2, <2>2 DEF SpotIn
<1> HIDE DEF p, s
<1>6. s = u
  <2>1. u \in Seq(Spot) /\ Len(u) = 1 /\ u[1] = p
    BY <1>4
  <2>2. \A k \in 1 .. 1 : k = 1
    OBVIOUS
  <2> HIDE DEF u
  <2>. QED BY <1>4, <2>1, <2>2, SeqEqual
<1>7. opened = {} /\ closed = {}
  <2>1. \A f \in 1 .. Len(stack) : ClosedBy(stack, f, PositionsBelow) = {}
    <3>1. \A j : j \notin 1 .. stack[1].k
      BY <1>2
    <3>. QED BY <1>3, <3>1 DEF ClosedBy
  <2>2. closed = {}
    BY <1>1, <2>1, VisitedSoFar DEF ClosedIn
  <2>3. OpenIn(stack) = {}
    BY <1>2, <1>3 DEF OpenIn
  <2>. QED BY <2>2, <2>3, VisitedSoFar
<1>8. VisitsFrom(source, PrunedChild, Acc, << p >>, {}, {})
  <2>1. Place(p) = [path |-> << >>, node |-> source]
    BY <1>5 DEF Place
  <2>2. p.i = 0 /\ ~ p.open
    BY <1>5
  <2>. QED BY <1>1, <1>4, <2>1, <2>2, VisitStarts
<1>9. Visiting
  BY <1>1, <1>6, <1>7, <1>8 DEF Visiting, s
<1>. QED BY <1>7, <1>9

LEMMA VisitedNext ==
  (/\ opened = closed \cup OpenIn(stack)
   /\ result = 0 => closed = ClosedIn(stack, PositionsBelow)
   /\ result # 0 => closed = PositionsBelow[<< result, << >> >>])'
BY VisitedSoFar, PTL

(* The innermost activation.                                               *)
TopPlace == Place(SpotIn(stack, Len(stack)))

LEMMA TopSpot ==
  ASSUME IInv, Visiting, stack # << >>
  PROVE  /\ stack \in Seq(Frame) /\ Len(stack) \in Nat \ {0} /\ Len(stack) \in 1 .. Len(stack)
         /\ Top = stack[Len(stack)] /\ Top \in Frame
         /\ Top.node \in Node /\ Top.k \in Nat /\ Top.pc \in {"start", "loop"}
         /\ SpotsIn(stack) \in Seq(Spot) /\ Len(SpotsIn(stack)) = Len(stack)
         /\ SpotsIn(stack) # << >> /\ result = 0
         /\ \A f \in 1 .. Len(stack) : SpotsIn(stack)[f] = SpotIn(stack, f)
         /\ Place(SpotsIn(stack)[Len(stack)]) = TopPlace
         /\ SpotsIn(stack)[Len(stack)].open = (Top.pc = "loop")
         /\ SpotsIn(stack)[Len(stack)].i = Top.k /\ SpotsIn(stack)[Len(stack)].node = Top.node
         /\ TopPlace.node = Top.node /\ TopPlace.path = PathIn(stack, Len(stack))
<1> DEFINE n == Len(stack)
<1>1. stack \in Seq(Frame) /\ n \in Nat \ {0} /\ Top = stack[n]
  BY EmptySeq DEF IInv, TypeOK, Top, Last
<1> HIDE DEF n
<1>2. n \in 1 .. n
  BY <1>1
<1>3. Top \in Frame /\ Top.node \in Node /\ Top.k \in Nat /\ Top.pc \in {"start", "loop"}
  BY <1>1, <1>2, FrameAt DEF n
<1>4. /\ SpotsIn(stack) \in Seq(Spot) /\ Len(SpotsIn(stack)) = n
      /\ \A f \in 1 .. n : SpotsIn(stack)[f] = SpotIn(stack, f)
  BY <1>1, SpotsOfStack DEF n
<1>5. SpotsIn(stack) # << >>
  <2> DEFINE s == SpotsIn(stack)
  <2>1. Len(s) # 0
    BY <1>1, <1>4
  <2> HIDE DEF s
  <2>2. s # << >>
    BY <2>1
  <2>. QED BY <2>2 DEF s
<1>6. SpotsIn(stack)[n] = SpotIn(stack, n)
  BY <1>2, <1>4
<1>7. /\ SpotIn(stack, n).open = (Top.pc = "loop") /\ SpotIn(stack, n).i = Top.k
      /\ SpotIn(stack, n).node = Top.node
  BY <1>1 DEF SpotIn
<1>8. TopPlace = Place(SpotIn(stack, n)) /\ TopPlace.node = Top.node
      /\ TopPlace.path = PathIn(stack, n)
  BY <1>1 DEF SpotIn, TopPlace, Place, n
<1>9. result = 0
  BY DEF Visiting
<1>. QED BY <1>1, <1>2, <1>3, <1>4, <1>5, <1>6, <1>7, <1>8, <1>9 DEF n

LEMMA ProvideStorageVisits ==
  ASSUME IInv, Visiting, ProvideStorage, IInv'
  PROVE  Visiting' /\ opened' = opened \cup {TopPlace} /\ closed' = closed
<1> DEFINE n == Len(stack)
           s == SpotsIn(stack)
           u == stack'
           p == SpotIn(u, n)
           t == [s EXCEPT ![Len(s)] = p]
<1>1. /\ stack # << >> /\ Top.pc = "start"
      /\ UNCHANGED << source, entry, targets, result, dropped >>
  BY DEF ProvideStorage, At
<1>2. /\ stack \in Seq(Frame) /\ n \in Nat \ {0} /\ n \in 1 .. n
      /\ Top = stack[n] /\ Top \in Frame
      /\ s \in Seq(Spot) /\ Len(s) = n /\ s # << >> /\ result = 0
      /\ \A f \in 1 .. n : s[f] = SpotIn(stack, f)
      /\ Place(s[n]) = TopPlace /\ s[n].open = (Top.pc = "loop")
      /\ s[n].i = Top.k /\ s[n].node = Top.node
  BY <1>1, TopSpot
<1>3. Top.k = 0
  BY <1>1, <1>2 DEF IInv, StackOK, FrameOK
<1>4. /\ Len(u) = n /\ \A f \in 1 .. n - 1 : u[f] = stack[f]
      /\ u[n].k = 0 /\ u[n].node = Top.node /\ u[n].pc = "loop"
  <2> DEFINE storage == [k \in 1 .. degree(Top.node) |-> 0]
             f0 == [Top EXCEPT !.pc = "loop", !.children_storage = storage]
  <2>1. u = [stack EXCEPT ![n] = f0]
    BY <1>2 DEF ProvideStorage
  <2> HIDE DEF storage
  <2>2. f0.k = 0 /\ f0.node = Top.node /\ f0.pc = "loop"
    BY <1>2, <1>3 DEF Frame
  <2> HIDE DEF f0, u
  <2>. QED BY <1>2, <2>1, <2>2
<1>5. u \in Seq(Frame)
  BY DEF IInv, TypeOK
<1> HIDE DEF u
<1>6. \A f \in 1 .. n : f = n \/ (f \in 1 .. n - 1 /\ f # n /\ \A g \in 1 .. f - 1 : g \in 1 .. n - 1)
  BY <1>2
<1>7. \A f \in 1 .. n : \A g \in 1 .. f - 1 : u[g].k = stack[g].k
  BY <1>4, <1>6
<1>8. PositionsBelow' = PositionsBelow
  BY <1>1 DEF PositionsBelow
<1>9. closed' = closed
  <2>1. ClosedIn(u, PositionsBelow) = ClosedIn(stack, PositionsBelow)
    <3>1. \A f \in 1 .. n : u[f] = stack[f] \/ stack[f].k = 0
      BY <1>2, <1>3, <1>4, <1>6
    <3>2. \A f \in 1 .. n : u[f].k = stack[f].k
      BY <1>2, <1>3, <1>4, <1>6
    <3>. QED BY <1>2, <1>4, <1>5, <3>1, <3>2, ClosedKept
  <2>2. result' = 0
    BY <1>1, <1>2
  <2>3. closed = ClosedIn(stack, PositionsBelow)
    BY <1>2, VisitedSoFar
  <2>4. closed' = ClosedIn(u, PositionsBelow)
    BY <1>8, <2>2, VisitedNext DEF u
  <2>. QED BY <2>1, <2>3, <2>4
<1>10. /\ \A f \in 1 .. n - 1 : SpotIn(u, f) = SpotIn(stack, f)
       /\ Place(p) = TopPlace
  <2>1. \A f \in 1 .. n - 1 : f \in 1 .. n
    BY <1>2
  <2>2. PathIn(u, n) = PathIn(stack, n)
    BY <1>2, <1>4, <1>5, <1>7, SpotKept
  <2>3. Place(p) = TopPlace
    BY <1>2, <1>4, <2>2 DEF Place, SpotIn, TopPlace
  <2>. QED BY <1>2, <1>4, <1>5, <1>7, <2>1, <2>3, SpotKept
<1>11. OpenIn(u) = OpenIn(stack) \cup {TopPlace}
  <2>1. \A f \in 1 .. n : stack[f].pc = "loop" => f # n
    BY <1>1, <1>2
  <2>2. \A f \in 1 .. n : u[f].pc = "loop" <=> (f = n \/ stack[f].pc = "loop")
    BY <1>4, <1>6
  <2>3. OpenIn(u) = {Place(SpotIn(u, f)) : f \in {g \in 1 .. n : u[g].pc = "loop"}}
    BY <1>4 DEF OpenIn
  <2>4. OpenIn(stack) = {Place(SpotIn(stack, f)) : f \in {g \in 1 .. n : stack[g].pc = "loop"}}
    BY DEF OpenIn
  <2> HIDE DEF n
  <2>5. \A f \in 1 .. n : f # n => SpotIn(u, f) = SpotIn(stack, f)
    BY <1>6, <1>10
  <2>6. Place(SpotIn(u, n)) = TopPlace /\ n \in 1 .. n
    BY <1>2, <1>10
  <2>. QED BY <2>1, <2>2, <2>3, <2>4, <2>5, <2>6
<1>12. opened' = opened \cup {TopPlace}
  <2>1. opened = closed \cup OpenIn(stack)
    BY VisitedSoFar
  <2>2. opened' = closed' \cup OpenIn(u)
    BY VisitedNext DEF u
  <2>. QED BY <1>9, <1>11, <2>1, <2>2
<1>13. p \in Spot /\ p.i = 0 /\ p.open = TRUE
  <2>1. p \in Spot
    BY <1>2, <1>4, <1>5, SpotsOfStack
  <2>. QED BY <1>4, <2>1 DEF SpotIn
<1>14. /\ SpotsIn(u) \in Seq(Spot) /\ Len(SpotsIn(u)) = n
       /\ \A f \in 1 .. n : SpotsIn(u)[f] = SpotIn(u, f)
  BY <1>4, <1>5, SpotsOfStack
<1> HIDE DEF p, s
<1>15. t \in Seq(Spot) /\ Len(t) = n /\ t[n] = p /\ \A f \in 1 .. n - 1 : t[f] = s[f]
  <2>1. /\ [s EXCEPT ![Len(s)] = p] \in Seq(Spot) /\ Len([s EXCEPT ![Len(s)] = p]) = Len(s)
        /\ [s EXCEPT ![Len(s)] = p][Len(s)] = p
        /\ \A k \in 1 .. Len(s) - 1 : [s EXCEPT ![Len(s)] = p][k] = s[k]
    BY <1>2, <1>13, ReplaceTop
  <2>. QED BY <1>2, <2>1
<1> HIDE DEF t
<1>16. SpotsIn(u) = t
  <2>1. ASSUME NEW f \in 1 .. n PROVE SpotsIn(u)[f] = t[f]
    <3>1. CASE f = n
      BY <1>14, <1>15, <3>1 DEF p
    <3>2. CASE f # n
      <4>1. f \in 1 .. n - 1
        BY <1>6, <3>2
      <4>2. t[f] = SpotIn(stack, f)
        BY <1>2, <1>15, <4>1
      <4>. QED BY <1>10, <1>14, <4>1, <4>2
    <3>. QED BY <3>1, <3>2
  <2>. QED BY <1>2, <1>14, <1>15, <2>1, SeqEqual
<1>17. VisitsFrom(source, PrunedChild, Acc, t, opened \cup {Place(p)}, closed)
  <2> DEFINE O == opened
             C == closed
  <2>1. VisitsFrom(source, PrunedChild, Acc, s, O, C)
    BY DEF Visiting, s
  <2> HIDE DEF O, C
  <2>2. ~ s[Len(s)].open /\ Place(p) = Place(s[Len(s)]) /\ p.open /\ p.i = 0
    BY <1>1, <1>2, <1>10, <1>13
  <2>3. VisitsFrom(source, PrunedChild, Acc, [s EXCEPT ![Len(s)] = p], O \cup {Place(p)}, C)
    BY <1>2, <1>13, <2>1, <2>2, VisitEnters
  <2>. QED BY <2>3 DEF t, O, C
<1>18. Visiting'
  <2>1. result' = 0 /\ source' = source
    BY <1>1, <1>2
  <2>. QED BY <1>9, <1>10, <1>12, <1>16, <1>17, <2>1 DEF Visiting, u
<1>. QED BY <1>9, <1>12, <1>18

LEMMA TransformChildVisits ==
  ASSUME IInv, Mirroring, Visiting, TransformChild, IInv'
  PROVE  Visiting' /\ opened' = opened /\ closed' = closed
<1> DEFINE n == Len(stack)
           s == SpotsIn(stack)
           u == stack'
           p == SpotIn(u, n + 1)
           t == Append(s, p)
<1>1. /\ stack # << >> /\ Top.pc = "loop" /\ Top.k < degree(Top.node)
      /\ UNCHANGED << source, entry, targets, result, dropped >>
  BY DEF TransformChild, At
<1>2. /\ stack \in Seq(Frame) /\ n \in Nat \ {0} /\ n \in 1 .. n
      /\ Top = stack[n] /\ Top.node \in Node /\ Top.k \in Nat
      /\ s \in Seq(Spot) /\ Len(s) = n /\ s # << >> /\ result = 0
      /\ \A f \in 1 .. n : s[f] = SpotIn(stack, f)
      /\ Place(s[n]) = TopPlace /\ s[n].open = (Top.pc = "loop")
      /\ s[n].i = Top.k /\ s[n].node = Top.node
  BY <1>1, TopSpot
<1>3. /\ Len(u) = n + 1 /\ \A f \in 1 .. n : u[f] = stack[f]
      /\ u[n + 1].k = 0 /\ u[n + 1].node = child(Top.node, Top.k) /\ u[n + 1].pc = "start"
  <2> DEFINE f0 == Activation(child(Top.node, Top.k), "shared_ptr")
  <2>1. u = Append(stack, f0)
    BY DEF TransformChild
  <2>2. f0.k = 0 /\ f0.node = child(Top.node, Top.k) /\ f0.pc = "start"
    BY DEF Activation
  <2> HIDE DEF f0, u
  <2>3. Len(u) = n + 1 /\ u[n + 1] = f0 /\ \A f \in 1 .. n : u[f] = stack[f]
    BY <1>2, <2>1
  <2>. QED BY <2>2, <2>3
<1>4. u \in Seq(Frame)
  BY DEF IInv, TypeOK
<1> HIDE DEF u
<1>5. /\ \A f \in 1 .. n + 1 : f = n + 1 \/ (f \in 1 .. n /\ f # n + 1)
      /\ \A f \in 1 .. n : f \in 1 .. n + 1 /\ \A g \in 1 .. f - 1 : g \in 1 .. n
      /\ n + 1 \in 1 .. n + 1
  BY <1>2
<1>6. PositionsBelow' = PositionsBelow
  BY <1>1 DEF PositionsBelow
<1>7. closed' = closed
  <2>1. ClosedIn(u, PositionsBelow) = ClosedIn(stack, PositionsBelow)
    <3>1. \A f \in 1 .. n + 1 : f \in 1 .. n \/ u[f].k = 0
      BY <1>3, <1>5
    <3>2. \A f \in 1 .. n : f \in 1 .. n + 1 /\ u[f].k = stack[f].k
      BY <1>3, <1>5
    <3>. QED BY <1>2, <1>3, <1>4, <3>1, <3>2, ClosedKept
  <2>2. result' = 0
    BY <1>1, <1>2
  <2>3. closed = ClosedIn(stack, PositionsBelow)
    BY <1>2, VisitedSoFar
  <2>4. closed' = ClosedIn(u, PositionsBelow)
    BY <1>6, <2>2, VisitedNext DEF u
  <2>. QED BY <2>1, <2>3, <2>4
<1>8. \A f \in 1 .. n : SpotIn(u, f) = SpotIn(stack, f)
  <2> SUFFICES ASSUME NEW f \in 1 .. n PROVE SpotIn(u, f) = SpotIn(stack, f)
    OBVIOUS
  <2>1. \A g \in 1 .. f - 1 : u[g].k = stack[g].k
    BY <1>3, <1>5
  <2>2. f \in 1 .. Len(u) /\ u[f] = stack[f]
    BY <1>3, <1>5
  <2>. QED BY <1>2, <1>4, <2>1, <2>2, SpotKept
<1>9. OpenIn(u) = OpenIn(stack)
  <2>1. {f \in 1 .. n + 1 : u[f].pc = "loop"} = {f \in 1 .. n : stack[f].pc = "loop"}
    <3>1. \A f \in 1 .. n + 1 : u[f].pc = "loop" => f \in 1 .. n
      BY <1>3, <1>5
    <3>. QED BY <1>3, <1>5, <3>1
  <2>2. OpenIn(u) = {Place(SpotIn(u, f)) : f \in {g \in 1 .. n + 1 : u[g].pc = "loop"}}
    BY <1>3 DEF OpenIn
  <2>3. OpenIn(stack) = {Place(SpotIn(stack, f)) : f \in {g \in 1 .. n : stack[g].pc = "loop"}}
    BY DEF OpenIn
  <2>. QED BY <1>8, <2>1, <2>2, <2>3
<1>10. opened' = opened
  <2>1. opened = closed \cup OpenIn(stack)
    BY VisitedSoFar
  <2>2. opened' = closed' \cup OpenIn(u)
    BY VisitedNext DEF u
  <2>. QED BY <1>7, <1>9, <2>1, <2>2
<1>11. p \in Spot /\ p.i = 0 /\ p.open = FALSE
  <2>1. p \in Spot
    BY <1>3, <1>4, <1>5, SpotsOfStack
  <2>. QED BY <1>3, <2>1 DEF SpotIn
<1>12. /\ SpotsIn(u) \in Seq(Spot) /\ Len(SpotsIn(u)) = n + 1
       /\ \A f \in 1 .. n + 1 : SpotsIn(u)[f] = SpotIn(u, f)
  BY <1>3, <1>4, SpotsOfStack
<1>13. TransformsChildren(Top.node) /\ Top.k \in 0 .. degree(Top.node) - 1
  <2>1. TransformsChildren(Top.node)
    BY <1>1, <1>2 DEF Mirroring, StackMirrors
  <2>2. degree(Top.node) \in Nat
    BY <1>2, ChildIsNode
  <2>. QED BY <1>1, <1>2, <2>1, <2>2
<1>14. Place(p) = ChildPlace(PrunedChild, s[n], s[n].i)
  <2>1. ChildPlace(PrunedChild, s[n], Top.k)
          = [path |-> push_back(s[n].path, Top.k), node |-> child(Top.node, Top.k)]
    BY <1>2, <1>13, WantedChildren
  <2>2. s[n].path = PathIn(stack, n)
    <3>1. s[n] = SpotIn(stack, n)
      BY <1>2
    <3> HIDE DEF s, n
    <3>. QED BY <3>1 DEF SpotIn
  <2>3. PathIn(u, n + 1) = push_back(PathIn(stack, n), Top.k)
    <3>1. PathIn(u, n + 1) = push_back(PathIn(u, n), u[n].k)
      BY <1>3, <1>4, <1>5, <1>2, PathGrows
    <3>2. u[n].k = Top.k /\ PathIn(u, n) = PathIn(stack, n)
      <4>1. SpotIn(u, n).path = SpotIn(stack, n).path
        BY <1>2, <1>8
      <4>. QED BY <1>2, <1>3, <4>1 DEF SpotIn
    <3>. QED BY <3>1, <3>2
  <2>. QED BY <1>2, <1>3, <2>1, <2>2, <2>3 DEF Place, SpotIn
<1> HIDE DEF p, s
<1>15. t \in Seq(Spot) /\ Len(t) = n + 1 /\ t[n + 1] = p /\ \A f \in 1 .. n : t[f] = s[f]
  BY <1>2, <1>11, PushTop
<1> HIDE DEF t
<1>16. SpotsIn(u) = t
  <2>1. ASSUME NEW f \in 1 .. n + 1 PROVE SpotsIn(u)[f] = t[f]
    <3>1. CASE f = n + 1
      BY <1>12, <1>15, <3>1 DEF p
    <3>2. CASE f \in 1 .. n
      <4>1. t[f] = SpotIn(stack, f)
        BY <1>2, <1>15, <3>2
      <4>. QED BY <1>8, <1>12, <3>2, <4>1
    <3>. QED BY <1>5, <3>1, <3>2
  <2>. QED BY <1>2, <1>12, <1>15, <2>1, SeqEqual
<1>17. VisitsFrom(source, PrunedChild, Acc, t, opened, closed)
  <2> DEFINE O == opened
             C == closed
  <2>1. VisitsFrom(source, PrunedChild, Acc, s, O, C)
    BY DEF Visiting, s
  <2> HIDE DEF O, C
  <2>2. s[n].i \in WantedBy(PrunedChild, Acc, s[n])
    BY <1>2, <1>13, WantedChildren
  <2>3. s[Len(s)].open /\ s[Len(s)].i \in WantedBy(PrunedChild, Acc, s[Len(s)])
        /\ Place(p) = ChildPlace(PrunedChild, s[Len(s)], s[Len(s)].i) /\ p.i = 0 /\ ~ p.open
    BY <1>1, <1>2, <1>11, <1>14, <2>2
  <2>4. VisitsFrom(source, PrunedChild, Acc, Append(s, p), O, C)
    BY <1>2, <1>11, <2>1, <2>3, VisitCalls
  <2>. QED BY <2>4 DEF t, O, C
<1>18. Visiting'
  <2>1. result' = 0 /\ source' = source
    BY <1>1, <1>2
  <2>. QED BY <1>7, <1>10, <1>16, <1>17, <2>1 DEF Visiting, u
<1>. QED BY <1>7, <1>10, <1>18

(* The positions of a target that has been handed its children.            *)
MadeBy(t, frame) ==
  /\ t.of = frame.node /\ Len(t.children) = frame.k
  /\ \A j \in 1 .. frame.k : t.children[j] = frame.children_storage[j]

LEMMA TargetPositions ==
  ASSUME NEW s \in Seq(Frame), NEW n \in 1 .. Len(s), NEW ts, NEW x \in 1 .. Len(ts), NEW G,
         ListsPositions(G, ts), MadeBy(ts[x], s[n])
  PROVE  PositionsMadeBy(G, x, s, n)
<1> DEFINE p == PathIn(s, n)
           k == s[n].k
           E(j) == G[<< ts[x].children[j], push_back(p, j - 1) >>]
           D(j) == G[<< s[n].children_storage[j], push_back(p, j - 1) >>]
<1>1. p \in TreePath
  BY PathGrows
<1>2. PositionsMade(G, ts, x, p)
  BY <1>1 DEF ListsPositions
<1>3. G[<< x, p >>] = {[path |-> p, node |-> s[n].node]} \cup UNION {E(j) : j \in 1 .. k}
  BY <1>2 DEF PositionsMade, MadeBy
<1>4. ClosedBy(s, n, G) = UNION {D(j) : j \in 1 .. k}
  BY DEF ClosedBy
<1>5. \A j \in 1 .. k : E(j) = D(j)
  <2> SUFFICES ASSUME NEW j \in 1 .. k PROVE E(j) = D(j)
    OBVIOUS
  <2>1. ts[x].children[j] = s[n].children_storage[j]
    BY DEF MadeBy
  <2>. QED BY <2>1
<1>6. Place(SpotIn(s, n)) = [path |-> p, node |-> s[n].node]
  BY DEF Place, SpotIn
<1> HIDE DEF E, D, p, k
<1>7. G[<< x, p >>] = {Place(SpotIn(s, n))} \cup ClosedBy(s, n, G)
  BY <1>3, <1>4, <1>5, <1>6
<1>. QED BY <1>7 DEF p, PositionsMadeBy

LEMMA PositionsList == IInv => ListsPositions(PositionsBelow, targets)
BY PositionsUnfold DEF IInv, TypeOK

LEMMA ReturnVisits ==
  ASSUME IInv, Visiting, stack # << >>, IInv', NEW t \in Target, Return(t), MadeBy(t, Top)
  PROVE  Visiting' /\ opened' = opened \cup {TopPlace} /\ closed' = closed \cup {TopPlace}
<1> DEFINE n == Len(stack)
           m == Len(targets)
           s == SpotsIn(stack)
           F == PositionsBelow
           G == PositionsBelow'
<1>1. /\ m \in Nat /\ targets \in Seq(Target) /\ Len(targets') = m + 1 /\ targets'[m + 1] = t
      /\ \A i \in 1 .. m : targets'[i] = targets[i]
  BY PushTop DEF Return, IInv, TypeOK
<1>2. /\ stack \in Seq(Frame) /\ n \in Nat \ {0} /\ n \in 1 .. n
      /\ Top = stack[n] /\ Top.k \in Nat /\ Top.pc \in {"start", "loop"}
      /\ s \in Seq(Spot) /\ Len(s) = n /\ s # << >> /\ result = 0
      /\ \A f \in 1 .. n : s[f] = SpotIn(stack, f)
      /\ Place(s[n]) = TopPlace
  BY TopSpot
<1>3. ListsPositions(F, targets)
  BY PositionsList
<1>4. ListsPositions(G, targets')
  <2>1. (IInv => ListsPositions(PositionsBelow, targets))'
    BY PositionsList, PTL
  <2>. QED BY <2>1
<1>5. OlderChildren(targets)
  BY DEF IInv, ChildrenFirst, OlderChildren
<1>6. m + 1 \in 1 .. m + 1 /\ \A i \in 1 .. m : i \in 1 .. m + 1
  BY <1>1
<1> HIDE DEF F, G
<1>7. SamePositions(G, F, m)
  <2> DEFINE us == targets'
  <2>1. targets \in Seq(Target) /\ ListsPositions(G, us)
    BY <1>1, <1>4
  <2>2. Continues(us, targets)
    BY <1>1, <1>6 DEF Continues
  <2> HIDE DEF us
  <2>. QED BY <1>3, <1>5, <2>1, <2>2, PositionsStay
<1>8. PositionsMadeBy(G, m + 1, stack, n)
  <2> DEFINE ts == targets'
             x == m + 1
  <2>1. MadeBy(ts[x], stack[n])
    BY <1>1, <1>2
  <2>2. x \in 1 .. Len(ts) /\ ListsPositions(G, ts)
    BY <1>1, <1>4, <1>6
  <2> HIDE DEF ts, x
  <2>3. PositionsMadeBy(G, x, stack, n)
    BY <1>2, <2>1, <2>2, TargetPositions
  <2>. QED BY <2>3 DEF x
<1>9. SlotsUpTo(stack, m)
  BY DEF SlotsUpTo, IInv, StackOK, FrameOK
<1>10. source' = source
  BY DEF Return
<1>11. opened = closed \cup OpenIn(stack) /\ closed = ClosedIn(stack, F)
  BY <1>2, VisitedSoFar DEF F
<1>12. CASE n = 1
  <2>1. stack' = << >> /\ result' = m + 1
    BY <1>12 DEF Return
  <2>2. closed' = G[<< m + 1, << >> >>]
    <3>1. result' # 0
      BY <1>1, <2>1
    <3>. QED BY <2>1, <3>1, VisitedNext DEF G
  <2>3. PathIn(stack, n) = << >>
    <3>1. PathIn(stack, n) \in Seq(Nat) /\ Len(PathIn(stack, n)) = n - 1
      BY <1>2, PathGrows DEF TreePath
    <3>. QED BY <1>12, <3>1
  <2>4. ClosedBy(stack, n, G) = ClosedIn(stack, F)
    <3>1. PathIn(stack, n) \in TreePath /\ \A j \in 1 .. stack[n].k : push_back(PathIn(stack, n), j - 1) \in TreePath
      <4>1. PathIn(stack, n) \in TreePath /\ stack[n].k \in Nat
        BY <1>2, PathGrows
      <4>. QED BY <4>1 DEF push_back, TreePath
    <3> DEFINE k == stack[n].k
               E(j) == G[<< stack[n].children_storage[j], push_back(PathIn(stack, n), j - 1) >>]
               D(j) == F[<< stack[n].children_storage[j], push_back(PathIn(stack, n), j - 1) >>]
    <3>2. \A j \in 1 .. k : E(j) = D(j)
      <4> SUFFICES ASSUME NEW j \in 1 .. k PROVE E(j) = D(j)
        OBVIOUS
      <4>1. stack[n].children_storage[j] \in 1 .. m /\ push_back(PathIn(stack, n), j - 1) \in TreePath
        BY <1>2, <1>9, <3>1 DEF SlotsUpTo
      <4>. QED BY <1>7, <4>1 DEF SamePositions
    <3>3. ClosedBy(stack, n, G) = UNION {E(j) : j \in 1 .. k}
          /\ ClosedBy(stack, n, F) = UNION {D(j) : j \in 1 .. k}
      BY DEF ClosedBy
    <3>4. ClosedIn(stack, F) = ClosedBy(stack, n, F)
      <4>1. \A f : f \in 1 .. n <=> f = n
        BY <1>12
      <4>2. ClosedIn(stack, F) = UNION {ClosedBy(stack, f, F) : f \in 1 .. n}
        BY DEF ClosedIn
      <4> HIDE DEF n
      <4>. QED BY <4>1, <4>2
    <3> HIDE DEF E, D, k
    <3>. QED BY <3>2, <3>3, <3>4
  <2>5. closed' = closed \cup {TopPlace}
    BY <1>8, <1>11, <2>2, <2>3, <2>4 DEF PositionsMadeBy, TopPlace
  <2>6. opened' = closed'
    <3>1. OpenIn(<< >>) = {}
      BY DEF OpenIn
    <3>2. opened' = closed' \cup OpenIn(<< >>)
      BY <2>1, VisitedNext
    <3>. QED BY <3>1, <3>2
  <2>7. OpenIn(stack) \subseteq {TopPlace}
    <3>1. \A f \in 1 .. n : f = n
      BY <1>12
    <3>. QED BY <3>1 DEF OpenIn, TopPlace
  <2>8. opened' = opened \cup {TopPlace}
    BY <1>11, <2>5, <2>6, <2>7
  <2>9. Visiting'
    <3>1. SpotsIn(<< >>) = << >>
      BY DEF SpotsIn
    <3>2. VisitsFrom(source, PrunedChild, Acc, << >>, opened', closed')
      BY VisitEnds
    <3>. QED BY <1>10, <2>1, <3>1, <3>2 DEF Visiting
  <2>. QED BY <2>5, <2>8, <2>9
<1>13. CASE n # 1
  <2> DEFINE b == Caller
             u == stack'
             p == SpotIn(u, b)
             w == [Front(s) EXCEPT ![b] = p]
  <2>1. /\ b \in Nat \ {0} /\ b + 1 = n /\ b \in 1 .. n /\ b \in 1 .. n - 1
        /\ stack[b].k \in Nat /\ WaitsForChild(stack[b])
        /\ Stored.pc = "loop" /\ Stored.node = stack[b].node
        /\ Stored.k = stack[b].k + 1
        /\ Stored.children_storage[stack[b].k + 1] = m + 1
        /\ \A j \in 1 .. stack[b].k :
             Stored.children_storage[j] = stack[b].children_storage[j]
        /\ u \in Seq(Frame) /\ Len(u) = b /\ u[b] = Stored
        /\ \A g \in 1 .. b - 1 : u[g] = stack[g]
        /\ result' = result
    BY <1>13, BackToCaller
  <2> HIDE DEF u, b
  <2>2. closed' = closed \cup {TopPlace}
    <3> DEFINE x == m + 1
               v == stack
    <3>1. v \in Seq(Frame) /\ b \in 1 .. Len(v) /\ u \in Seq(Frame)
      BY <1>2, <2>1
    <3>2. ReturnsTo(u, v, b, x)
      BY <1>2, <2>1 DEF ReturnsTo
    <3>3. SlotsUpTo(v, m)
      BY <1>9
    <3>4. PositionsMadeBy(G, x, v, Len(v))
      BY <1>8
    <3>5. TopPlace = Place(SpotIn(v, Len(v))) /\ ClosedIn(stack, F) = ClosedIn(v, F)
      BY DEF TopPlace
    <3> HIDE DEF v, x, m, n
    <3>6. ClosedIn(u, G) = ClosedIn(v, F) \cup {Place(SpotIn(v, Len(v)))}
      BY <1>7, <3>1, <3>2, <3>3, <3>4, ClosedGrows
    <3>7. closed' = ClosedIn(u, G)
      BY <1>2, <2>1, VisitedNext DEF u, G
    <3>. QED BY <1>11, <3>5, <3>6, <3>7
  <2>3. /\ \A f \in 1 .. b : PathIn(u, f) = PathIn(stack, f) /\ f \in 1 .. n
        /\ \A f \in 1 .. b : Place(SpotIn(u, f)) = Place(SpotIn(stack, f))
        /\ \A f \in 1 .. b - 1 : SpotIn(u, f) = SpotIn(stack, f)
    <3>1. \A f \in 1 .. b : f \in 1 .. n /\ \A g \in 1 .. f - 1 : g \in 1 .. b - 1
      BY <2>1
    <3>2. \A f \in 1 .. b : PathIn(u, f) = PathIn(stack, f)
      BY <2>1, <3>1 DEF PathIn
    <3>3. \A f \in 1 .. b : u[f].node = stack[f].node /\ (f # b => u[f] = stack[f])
      <4>1. \A f \in 1 .. b : f = b \/ f \in 1 .. b - 1
        BY <2>1
      <4>. QED BY <2>1, <4>1
    <3>4. \A f \in 1 .. b : Place(SpotIn(u, f)) = Place(SpotIn(stack, f))
      BY <3>2, <3>3 DEF Place, SpotIn
    <3>5. \A f \in 1 .. b - 1 : f \in 1 .. b /\ f # b
      BY <2>1
    <3>6. \A f \in 1 .. b - 1 : SpotIn(u, f) = SpotIn(stack, f)
      BY <3>2, <3>3, <3>5 DEF SpotIn
    <3>. QED BY <3>1, <3>2, <3>4, <3>6
  <2>4. opened' = opened \cup {TopPlace}
    <3>1. \A f \in 1 .. b : u[f].pc = "loop" /\ stack[f].pc = "loop"
      <4>1. \A f \in 1 .. b : f \in 1 .. n - 1 /\ (f = b \/ f \in 1 .. b - 1)
        BY <1>2, <2>1
      <4>2. \A f \in 1 .. b : stack[f].pc = "loop"
        BY <4>1 DEF IInv, StackOK, WaitsForChild
      <4>. QED BY <2>1, <4>1, <4>2
    <3>2. OpenIn(u) = {Place(SpotIn(stack, f)) : f \in 1 .. b}
      <4>1. {g \in 1 .. b : u[g].pc = "loop"} = 1 .. b
        BY <3>1
      <4>. QED BY <2>1, <2>3, <4>1 DEF OpenIn
    <3>3. OpenIn(u) \subseteq OpenIn(stack) /\ OpenIn(stack) \subseteq OpenIn(u) \cup {TopPlace}
      <4>1. \A f \in 1 .. n : f = n \/ f \in 1 .. b
        BY <1>2, <2>1
      <4>2. \A f \in 1 .. b : f \in 1 .. n
        BY <2>3
      <4>. QED BY <3>1, <3>2, <4>1, <4>2 DEF OpenIn, TopPlace
    <3>4. opened' = closed' \cup OpenIn(u)
      BY VisitedNext DEF u
    <3>. QED BY <1>11, <2>2, <3>3, <3>4
  <2>5. p \in Spot /\ p.open = TRUE /\ p.i = s[b].i + 1 /\ Place(p) = Place(s[b])
    <3>1. b \in 1 .. b
      BY <2>1
    <3>2. p \in Spot
      BY <2>1, <3>1, SpotsOfStack
    <3>3. s[b] = SpotIn(stack, b)
      BY <1>2, <2>1
    <3>4. Place(p) = Place(s[b])
      BY <2>3, <3>1, <3>3
    <3>5. p.open = TRUE /\ p.i = stack[b].k + 1 /\ SpotIn(stack, b).i = stack[b].k
      BY <2>1 DEF SpotIn
    <3>. QED BY <3>2, <3>3, <3>4, <3>5
  <2>6. /\ SpotsIn(u) \in Seq(Spot) /\ Len(SpotsIn(u)) = b
        /\ \A f \in 1 .. b : SpotsIn(u)[f] = SpotIn(u, f)
    BY <2>1, SpotsOfStack
  <2> HIDE DEF p, s
  <2>7. w \in Seq(Spot) /\ Len(w) = b /\ w[b] = p /\ \A f \in 1 .. b - 1 : w[f] = s[f]
    <3> DEFINE r == Front(s)
    <3>1. r \in Seq(Spot) /\ Len(r) = n - 1 /\ \A f \in 1 .. n - 1 : r[f] = s[f]
      BY <1>2, PopTop
    <3> HIDE DEF r
    <3>2. Len(r) = b /\ \A f \in 1 .. b : r[f] = s[f]
      BY <1>2, <2>1, <3>1
    <3>3. r # << >>
      BY <2>1, <3>2
    <3>4. /\ [r EXCEPT ![Len(r)] = p] \in Seq(Spot) /\ Len([r EXCEPT ![Len(r)] = p]) = Len(r)
          /\ [r EXCEPT ![Len(r)] = p][Len(r)] = p
          /\ \A k \in 1 .. Len(r) - 1 : [r EXCEPT ![Len(r)] = p][k] = r[k]
      BY <2>5, <3>1, <3>3, ReplaceTop
    <3>5. w = [r EXCEPT ![Len(r)] = p]
      BY <3>2 DEF r
    <3>6. \A f \in 1 .. b - 1 : f \in 1 .. b
      BY <2>1
    <3> HIDE DEF w
    <3>. QED BY <3>2, <3>4, <3>5, <3>6
  <2> HIDE DEF w
  <2>8. SpotsIn(u) = w
    <3>1. ASSUME NEW f \in 1 .. b PROVE SpotsIn(u)[f] = w[f]
      <4>1. CASE f = b
        BY <2>6, <2>7, <4>1 DEF p
      <4>2. CASE f # b
        <5>1. f \in 1 .. b - 1 /\ f \in 1 .. n
          BY <2>1, <2>3, <4>2
        <5>2. w[f] = SpotIn(stack, f)
          BY <1>2, <2>7, <5>1
        <5>. QED BY <2>3, <2>6, <5>1, <5>2
      <4>. QED BY <4>1, <4>2
    <3>. QED BY <2>1, <2>6, <2>7, <3>1, SeqEqual
  <2>9. VisitsFrom(source, PrunedChild, Acc, w, opened', closed')
    <3> DEFINE O == opened
               C == closed
    <3>1. VisitsFrom(source, PrunedChild, Acc, s, O, C)
      BY DEF Visiting, s
    <3> HIDE DEF O, C
    <3>2. b = Len(s) - 1 /\ Len(s) # 1
      BY <1>2, <1>13, <2>1
    <3>3. Place(p) = Place(s[Len(s) - 1]) /\ p.open /\ p.i = s[Len(s) - 1].i + 1
      BY <2>5, <3>2
    <3>4. VisitsFrom(source, PrunedChild, Acc, [Front(s) EXCEPT ![Len(s) - 1] = p],
                     O \cup {Place(s[Len(s)])}, C \cup {Place(s[Len(s)])})
      BY <1>2, <2>5, <3>1, <3>2, <3>3, VisitReturns
    <3>. QED BY <1>2, <2>2, <2>4, <3>2, <3>4 DEF w, O, C
  <2>10. Visiting'
    BY <1>2, <1>10, <2>1, <2>8, <2>9 DEF Visiting, u
  <2>. QED BY <2>2, <2>4, <2>10
<1>. QED BY <1>12, <1>13

LEMMA WholeIsMade ==
  ASSUME IInv, Visiting, TransformWhole
  PROVE  LET t == Descriptor(<< >>) IN t \in Target /\ Return(t) /\ MadeBy(t, Top)
<1> DEFINE t == Descriptor(<< >>)
<1>1. stack # << >> /\ Top.pc = "start" /\ Return(t)
  BY DEF TransformWhole, At
<1>2. stack \in Seq(Frame) /\ Len(stack) \in 1 .. Len(stack) /\ Top = stack[Len(stack)]
      /\ Top \in Frame
  BY <1>1, TopSpot
<1>3. Top.k = 0
  BY <1>1, <1>2 DEF IInv, StackOK, FrameOK
<1>4. << >> \in Seq(Nat) /\ Len(<< >>) = 0
  BY EmptySeq
<1>5. t.of = Top.node /\ t.children = << >> /\ t \in Target
  BY <1>2, <1>4, FrameAt DEF Descriptor, Target
<1>6. \A j : j \notin 1 .. Top.k
  BY <1>3
<1>7. MadeBy(t, Top)
  <2>1. Len(t.children) = Top.k
    BY <1>3, <1>4, <1>5
  <2>. QED BY <1>5, <1>6, <2>1 DEF MadeBy
<1>. QED BY <1>1, <1>5, <1>7

LEMMA NodeIsMade ==
  ASSUME IInv, Visiting, TransformNode
  PROVE  LET t == Descriptor(Top.children_storage)
         IN  t \in Target /\ Return(t) /\ MadeBy(t, Top)
<1> DEFINE c == Top.children_storage
           t == Descriptor(c)
<1>1. stack # << >> /\ Top.pc = "loop" /\ Top.k = degree(Top.node) /\ Return(t)
  BY DEF TransformNode, At
<1>2. stack \in Seq(Frame) /\ Len(stack) \in 1 .. Len(stack) /\ Top = stack[Len(stack)]
      /\ Top \in Frame
  BY <1>1, TopSpot
<1>3. c \in Seq(Nat) /\ Top.node \in Node /\ Top.handed \in Handing
  BY <1>2, FrameAt
<1>4. FrameOK(Top, Len(targets))
  BY <1>2 DEF IInv, StackOK
<1>5. Top.k = Len(c)
  BY <1>1, <1>4 DEF FrameOK
<1>6. t.of = Top.node /\ t.children = c /\ t \in Target
  BY <1>3 DEF Descriptor, Target
<1> HIDE DEF t
<1>7. MadeBy(t, Top)
  BY <1>5, <1>6 DEF MadeBy
<1>. QED BY <1>1, <1>6, <1>7 DEF t

(* Every step of transforming is a step of the visit, or none.             *)
LEMMA StepVisits ==
  ASSUME IInv, Mirroring, Visiting, [Next]_vars
  PROVE  Visiting' /\ [Abstract!Next]_(Abstract!vars)
<1> DEFINE s == SpotsIn(stack)
           n == Len(stack)
<1>1. IInv'
  BY NextIInv
<1>2. \A e : /\ Abstract!Wanted(e) = WantedBy(PrunedChild, Acc, e)
             /\ \A i : Abstract!Below(e, i) = ChildPlace(PrunedChild, e, i)
  BY DEF Abstract!Wanted, Abstract!Below, WantedBy, ChildPlace, Abstract!push_back, push_back, Acc
<1>3. \A m \in Node : Abstract!isLeaf(m) <=> ~ TransformsChildren(m)
  <2> SUFFICES ASSUME NEW m \in Node PROVE Abstract!isLeaf(m) <=> ~ TransformsChildren(m)
    OBVIOUS
  <2>1. TypeOf[m] \in Type
    BY TreeAssumption DEF NodeAssumption
  <2>. QED BY <2>1 DEF Abstract!isLeaf, Abstract!TagOf, TransformsChildren, isLeaf, TagOf
<1>4. ASSUME stack # << >>
      PROVE  /\ s # << >> /\ Len(s) = n /\ n \in Nat /\ n \in 1 .. n
             /\ Place(s[n]) = TopPlace /\ s[n].open = (Top.pc = "loop") /\ s[n].i = Top.k
             /\ s[n].node = Top.node /\ TopPlace.node = Top.node /\ Top.node \in Node
  BY <1>4, TopSpot
<1>5. VisitsFrom(source, PrunedChild, Acc, s, opened, closed)
  BY DEF Visiting
<1> HIDE DEF s, n
<1>6. ASSUME At("start")
      PROVE  /\ Abstract!Enterable(TopPlace) /\ TopPlace \notin opened
             /\ \/ TopPlace = Abstract!RootPosition
                \/ \E e \in opened : \E i \in Abstract!Wanted(e) : TopPlace = Abstract!Below(e, i)
  <2>1. /\ MayEnter(source, PrunedChild, Acc, TopPlace, opened, closed)
        /\ TopPlace \notin opened
        /\ \/ TopPlace = [path |-> << >>, node |-> source]
           \/ \E e \in opened : \E i \in WantedBy(PrunedChild, Acc, e) :
                TopPlace = ChildPlace(PrunedChild, e, i)
    <3>1. s # << >> /\ ~ s[Len(s)].open /\ Place(s[Len(s)]) = TopPlace
      BY <1>4, <1>6 DEF At
    <3> DEFINE O == opened
               C == closed
    <3>2. VisitsFrom(source, PrunedChild, Acc, s, O, C)
      BY <1>5
    <3> HIDE DEF O, C
    <3>3. /\ MayEnter(source, PrunedChild, Acc, Place(s[Len(s)]), O, C)
          /\ Place(s[Len(s)]) \notin O
          /\ Adjoins(source, PrunedChild, Acc, Place(s[Len(s)]), O)
      BY <3>1, <3>2, TopMayEnter
    <3>. QED BY <3>1, <3>3 DEF Adjoins, O, C
  <2>2. Abstract!RootPosition = [path |-> << >>, node |-> source]
    BY DEF Abstract!RootPosition
  <2>3. Abstract!Enterable(TopPlace)
    BY <1>2, <2>1, <2>2 DEF MayEnter, Abstract!Enterable
  <2>. QED BY <1>2, <2>1, <2>2, <2>3
<1>7. Abstract!OpenNodesKept
  BY DEF Abstract!OpenNodesKept
<1>8. CASE TransformWhole
  <2> DEFINE t == Descriptor(<< >>)
  <2>1. At("start") /\ stack # << >> /\ ~ TransformsChildren(Top.node) /\ source' = source
    BY <1>8 DEF TransformWhole, At, Return
  <2>2. t \in Target /\ Return(t) /\ MadeBy(t, Top)
    BY <1>8, WholeIsMade
  <2> HIDE DEF t
  <2>3. Visiting' /\ opened' = opened \cup {TopPlace} /\ closed' = closed \cup {TopPlace}
    BY <1>1, <2>1, <2>2, ReturnVisits
  <2>4. Abstract!VisitLeaf(TopPlace)
    BY <1>3, <1>4, <1>6, <1>7, <2>1, <2>3 DEF Abstract!VisitLeaf
  <2>5. Abstract!Visit
    BY <1>6, <2>1, <2>4 DEF Abstract!Visit
  <2>. QED BY <2>3, <2>5 DEF Abstract!Next
<1>9. CASE ProvideStorage
  <2>1. At("start") /\ stack # << >> /\ TransformsChildren(Top.node) /\ source' = source
    BY <1>9 DEF ProvideStorage, At
  <2>2. Visiting' /\ opened' = opened \cup {TopPlace} /\ closed' = closed
    BY <1>1, <1>9, ProvideStorageVisits
  <2>3. Abstract!Enter(TopPlace)
    BY <1>3, <1>4, <1>6, <1>7, <2>1, <2>2 DEF Abstract!Enter
  <2>4. Abstract!Visit
    BY <1>6, <2>1, <2>3 DEF Abstract!Visit
  <2>. QED BY <2>2, <2>4 DEF Abstract!Next
<1>10. CASE TransformChild
  <2>1. Visiting' /\ opened' = opened /\ closed' = closed
    BY <1>1, <1>10, TransformChildVisits
  <2>2. UNCHANGED Abstract!vars
    BY <1>10, <2>1 DEF TransformChild, Abstract!vars
  <2>. QED BY <2>1, <2>2
<1>11. CASE TransformNode
  <2> DEFINE t == Descriptor(Top.children_storage)
  <2>1. stack # << >> /\ Top.pc = "loop" /\ Top.k = degree(Top.node) /\ source' = source
    BY <1>11 DEF TransformNode, At, Return
  <2>2. t \in Target /\ Return(t) /\ MadeBy(t, Top)
    BY <1>11, NodeIsMade
  <2> HIDE DEF t
  <2>3. Visiting' /\ opened' = opened \cup {TopPlace} /\ closed' = closed \cup {TopPlace}
    BY <1>1, <2>1, <2>2, ReturnVisits
  <2>4. \A j \in WantedBy(PrunedChild, Acc, s[n]) : j < s[n].i
    <3>1. degree(Top.node) \in Nat
      BY <1>4, <2>1, ChildIsNode
    <3>2. \A j \in 0 .. degree(Top.node) - 1 : j < Top.k
      BY <2>1, <3>1
    <3>3. WantedBy(PrunedChild, Acc, s[n]) = 0 .. degree(Top.node) - 1
      <4>1. TransformsChildren(Top.node)
        BY <2>1, TopSpot DEF Mirroring, StackMirrors
      <4>. QED BY <1>4, <2>1, <4>1, WantedChildren
    <3>. QED BY <1>4, <2>1, <3>2, <3>3
  <2>5. /\ TopPlace \in opened \ closed
        /\ \A j \in WantedBy(PrunedChild, Acc, TopPlace) :
             ChildPlace(PrunedChild, TopPlace, j) \in closed
    <3>1. s # << >> /\ s[Len(s)].open /\ Place(s[Len(s)]) = TopPlace
      BY <1>4, <2>1
    <3>2. \A j \in WantedBy(PrunedChild, Acc, s[Len(s)]) : j < s[Len(s)].i
      BY <1>4, <2>1, <2>4
    <3> DEFINE O == opened
               C == closed
    <3>3. VisitsFrom(source, PrunedChild, Acc, s, O, C)
      BY <1>5
    <3> HIDE DEF O, C
    <3>4. /\ Place(s[Len(s)]) \in O \ C
          /\ \A j \in WantedBy(PrunedChild, Acc, Place(s[Len(s)])) :
               ChildPlace(PrunedChild, Place(s[Len(s)]), j) \in C
      BY <3>1, <3>2, <3>3, TopMayBeLeft
    <3>. QED BY <3>1, <3>4 DEF O, C
  <2>6. opened' = opened
    BY <2>3, <2>5
  <2>7. Abstract!Leave(TopPlace)
    BY <1>2, <1>7, <2>1, <2>3, <2>5, <2>6 DEF Abstract!Leave
  <2>8. Abstract!Visit
    BY <2>5, <2>7 DEF Abstract!Visit
  <2>. QED BY <2>3, <2>8 DEF Abstract!Next
<1>12. CASE DropSource \/ UNCHANGED vars
  <2>1. UNCHANGED << source, stack, targets, result >>
    BY <1>12 DEF DropSource, vars
  <2>2. PositionsBelow' = PositionsBelow
    BY <2>1 DEF PositionsBelow
  <2>3. closed' = closed
    BY <2>1, <2>2 DEF closed, PathOf
  <2>4. opened' = opened
    BY <2>1, <2>3 DEF opened, PathOf
  <2>. QED BY <2>1, <2>3, <2>4 DEF Visiting, Abstract!vars
<1>. QED BY <1>8, <1>9, <1>10, <1>11, <1>12 DEF Next, Transform

LEMMA InitVisits == Init => Abstract!Init
<1> SUFFICES ASSUME Init PROVE Abstract!Init
  OBVIOUS
<1>1. source \in Node
  BY DEF Init
<1>2. opened = {} /\ closed = {}
  BY InitVisiting
<1>3. Recursive \X Type \in SUBSET (Type \X Type)
  BY RecursiveAssumption
<1>. QED BY <1>1, <1>2, <1>3 DEF Abstract!Init

-----------------------------------------------------------------------------
(* TransformTree keeps to its types: activations at nodes of the source,   *)
(* storage that holds targets, one result.                                 *)
THEOREM TypeCorrect == Spec => []TypeOK
<1>1. IInv => TypeOK
  BY DEF IInv
<1> QED BY <1>1, Invariance, PTL

(* No descriptor is ever called with a null pointer or with a child that   *)
(* has not been transformed: the loops of transform() are complete.        *)
THEOREM DescriptorsGetFinishedChildren == Spec => []ChildrenFirst
<1>1. IInv => ChildrenFirst
  BY DEF IInv
<1> QED BY <1>1, Invariance, PTL

(* Whatever objects the source tree holds twice, the targets form a tree:  *)
(* each is the child of one target at most, in one slot.                   *)
THEOREM ResultIsTree == Spec => []NoSharedTargets
<1>1. IInv => NoSharedTargets
  BY DEF IInv
<1> QED BY <1>1, Invariance, PTL

(* The tree returned is the source tree, down to the nodes whose           *)
(* descriptors are not recursive: every target is made of the node at its  *)
(* place, none is left out, and children keep their order.                 *)
THEOREM ResultMirrorsSource == Spec => []MirrorsSource
BY NodewiseIsTreewise, Invariance, InitMirroring, NextMirroring, PTL DEF Spec

(* A target can be used as long as the client likes, also after the source *)
(* tree has been given up: its source node is alive.  The exception is the *)
(* root of a tree that was made from a reference.                          *)
THEOREM TargetsKeepSources == Spec => []SourcesKept
BY OwningKeeps, Invariance, InitOwning, NextOwning, PTL DEF Spec

(* transformTree visits the source tree depth first: a node's storage is   *)
(* made once, while its parent's is being filled and when everything below *)
(* its siblings to the left has been transformed; a descriptor that does   *)
(* not ask for the children is called at once, one that does when nothing  *)
(* below its node remains; and every child is transformed.  This is the    *)
(* safety part of ImplementsDepthFirst.                                    *)
THEOREM TransformsDepthFirst ==
  Spec => Abstract!Init /\ [][Abstract!Next]_(Abstract!vars)
<1>1. Init => IInv /\ Mirroring /\ Visiting /\ Abstract!Init
  BY InitIInv, InitMirroring, InitVisiting, InitVisits
<1>2. IInv /\ Mirroring /\ Visiting /\ [Next]_vars
        => IInv' /\ Mirroring' /\ Visiting' /\ [Abstract!Next]_(Abstract!vars)
  BY NextIInv, NextMirroring, StepVisits
<1>. QED BY <1>1, <1>2, PTL DEF Spec

=============================================================================
