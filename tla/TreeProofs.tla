------------------------------ MODULE TreeProofs ------------------------------
(***************************************************************************)
(* Proofs about forEachNode and forEachLeafNode (module ForEach), for      *)
(* every set of nodes that satisfies TreeAssumption: the recursion is well *)
(* typed, every function call gets a node together with the path to it,    *)
(* which child(tree, treePath) and childStorage(tree, treePath) follow     *)
(* back to the node, and the function calls visit the tree depth first.    *)
(*                                                                         *)
(* Visiting says where the visit is: it ties the positions entered and     *)
(* left, which the function calls tell, to the activations on the stack.   *)
(*                                                                         *)
(* Reporting ties the leafs met so far to the tuple leafTreePathTuple      *)
(* makes: they are those below the children that the activations on the    *)
(* stack are done with, from the root's activation to the top one.         *)
(*                                                                         *)
(* Accumulating does the same for what the compiler computes (StaticOps):  *)
(* folding the function calls made so far, one after the other, gives what *)
(* AccumulateValue has of the children the activations are done with, for  *)
(* every functor and every two reductions.  What a policy keeps or counts  *)
(* then follows from the calls.                                            *)
(*                                                                         *)
(* Proofs about tree containers (module TreeContainer), for the same trees *)
(* and every set of values: a container that has been made or resized for  *)
(* a tree has values at the paths of the tree's leafs and nowhere else,    *)
(* and the nested container implements the map from leaf paths to values   *)
(* of module LeafMap.                                                      *)
(*                                                                         *)
(* ContainerInv is the invariant: the container is one of the tree's       *)
(* class, and the paths at which it holds a value are those of the leafs   *)
(* of the tree it was made or resized for, a tree of that class too, or    *)
(* those that the class guarantees.                                        *)
(***************************************************************************)
EXTENDS
  ForEach, TreeContainer, StaticOps, StackLemmas,
  SequenceTheorems, FiniteSetTheorems, TLAPS

FunctionCall == [func : {"pre", "leaf", "post"}, node : Node, path : TreePath]

(* The activations, and the function calls, of a traversal of r whose node *)
(* is where their path leads.  A leaf node has no loop over children.      *)
Sound(r) ==
  {f \in Frame : Leads(Child, r, f.path, f.node) /\ (f.started => ~ isLeaf(f.node))}

Right(r) == {c \in FunctionCall : Leads(Child, r, c.path, c.node)}

(* The inductive invariant.                                                *)
IInv ==
  /\ root \in Node /\ client \in Client
  /\ stack \in Seq(Sound(root))
  /\ calls \in Seq(Right(root))

(* What forEachNode promises for all calls made so far.                    *)
EveryPathIsRight ==
  \A k \in 1 .. Len(calls) : Leads(Child, root, calls[k].path, calls[k].node)

-----------------------------------------------------------------------------
(* The innermost activation.                                               *)
LEMMA TopIsSound ==
  ASSUME IInv, stack # << >>
  PROVE  /\ Len(stack) \in 1 .. Len(stack) /\ Top = stack[Len(stack)]
         /\ Top \in Sound(root) /\ Top \in Frame
         /\ Top.node \in Node /\ Top.i \in Nat /\ Top.path \in TreePath
         /\ Top.started \in BOOLEAN
         /\ isLeaf(Top.node) => Top.started = FALSE
<1>1. Len(stack) \in 1 .. Len(stack) /\ Top = stack[Len(stack)]
  BY DEF IInv, Top, Last
<1>2. Top \in Sound(root)
  BY <1>1, ElementOfSeq DEF IInv
<1>. QED BY <1>1, <1>2 DEF Sound, Frame

(* It goes on as a sound activation.                                       *)
LEMMA TopChanges ==
  ASSUME IInv, stack # << >>, NEW f \in Sound(root),
         stack' = [stack EXCEPT ![Len(stack)] = f]
  PROVE  stack' \in Seq(Sound(root))
BY ReplaceTop DEF IInv

LEMMA CallIsRight ==
  ASSUME IInv, stack # << >>, NEW func \in {"pre", "leaf", "post"}, Call(func)
  PROVE  calls' \in Seq(Right(root))
<1> DEFINE c == [func |-> func, node |-> Top.node, path |-> Top.path]
<1>1. c \in Right(root)
  BY TopIsSound DEF Right, Sound, FunctionCall
<1>2. calls' = Append(calls, c)
  BY DEF Call
<1> HIDE DEF c
<1>. QED BY <1>1, <1>2, PushTop DEF IInv

LEMMA InitIInv == Init => IInv
<1> SUFFICES ASSUME Init PROVE IInv
  OBVIOUS
<1> DEFINE f == Activation(root, << >>)
<1>1. root \in Node /\ client \in Client /\ stack = << f >> /\ calls = << >>
  BY DEF Init
<1>2. f \in Frame /\ f.node = root /\ f.path = << >> /\ f.started = FALSE
  BY <1>1 DEF Activation, Frame, TreePath
<1> HIDE DEF f
<1>3. f \in Sound(root)
  <2>1. Leads(Child, root, f.path, f.node)
    BY <1>1, <1>2, LeadsToRoot
  <2>. QED BY <1>2, <2>1 DEF Sound
<1>. QED BY <1>1, <1>3 DEF IInv

LEMMA NextIInv == IInv /\ [Next]_vars => IInv'
<1> SUFFICES ASSUME IInv, [Next]_vars PROVE IInv'
  OBVIOUS
<1>1. CASE LeafFunc
  <2>1. stack # << >> /\ Call("leaf") /\ stack' = Front(stack) /\ UNCHANGED << root, client >>
    BY <1>1 DEF LeafFunc
  <2>2. stack' \in Seq(Sound(root)) /\ calls' \in Seq(Right(root))
    BY <2>1, CallIsRight, PopTop DEF IInv
  <2>. QED BY <2>1, <2>2 DEF IInv
<1>2. CASE PreFunc
  <2> DEFINE f == [Top EXCEPT !.started = TRUE]
  <2>1. /\ stack # << >> /\ Call("pre") /\ UNCHANGED << root, client >>
        /\ stack' = [stack EXCEPT ![Len(stack)].started = TRUE]
    BY <1>2 DEF PreFunc
  <2>2. f \in Sound(root)
    BY <1>2, <2>1, TopIsSound DEF PreFunc, Sound, Frame
  <2>3. stack' = [stack EXCEPT ![Len(stack)] = f]
    BY <2>1, TopIsSound DEF IInv
  <2> HIDE DEF f
  <2>4. stack' \in Seq(Sound(root))
    BY <2>2, <2>3, TopChanges, <1>2 DEF PreFunc
  <2>5. calls' \in Seq(Right(root))
    BY <2>1, CallIsRight
  <2>. QED BY <2>1, <2>4, <2>5 DEF IInv
<1>3. CASE Recurse
  <2> DEFINE w == [Top EXCEPT !.i = @ + 1]
             s == [stack EXCEPT ![Len(stack)] = w]
             f == Activation(child(Top.node, Top.i), push_back(Top.path, Top.i))
  <2>1. /\ stack # << >> /\ Top.i < degree(Top.node)
        /\ UNCHANGED << root, client, calls >>
        /\ stack' = Append([stack EXCEPT ![Len(stack)].i = @ + 1], f)
    BY <1>3 DEF Recurse
  <2>2. w \in Sound(root)
    BY <2>1, TopIsSound DEF Sound, Frame
  <2>3. f \in Sound(root)
    <3>1. Child \in [Node -> Seq(Node)] /\ Top.i < Len(Child[Top.node])
      BY <2>1, TreeAssumption DEF NodeAssumption, degree
    <3>2. Leads(Child, root, Top.path, Top.node)
      BY <2>1, TopIsSound DEF Sound
    <3>3. /\ child(Top.node, Top.i) \in Node
          /\ push_back(Top.path, Top.i) \in TreePath
          /\ Leads(Child, root, push_back(Top.path, Top.i), child(Top.node, Top.i))
      BY <2>1, <3>1, <3>2, TopIsSound, LeadsToChild DEF child
    <3>. QED BY <3>3 DEF Activation, Sound, Frame
  <2>4. stack' = Append(s, f)
    BY <2>1, TopIsSound DEF IInv
  <2> HIDE DEF f, w
  <2>5. s \in Seq(Sound(root))
    BY <2>1, <2>2, ReplaceTop DEF IInv
  <2> HIDE DEF s
  <2>6. stack' \in Seq(Sound(root))
    BY <2>3, <2>4, <2>5, PushTop
  <2>. QED BY <2>1, <2>6 DEF IInv
<1>4. CASE PostFunc
  <2>1. stack # << >> /\ Call("post") /\ stack' = Front(stack) /\ UNCHANGED << root, client >>
    BY <1>4 DEF PostFunc
  <2>2. stack' \in Seq(Sound(root)) /\ calls' \in Seq(Right(root))
    BY <2>1, CallIsRight, PopTop DEF IInv
  <2>. QED BY <2>1, <2>2 DEF IInv
<1>5. CASE UNCHANGED vars
  BY <1>5 DEF vars, IInv
<1>. QED BY <1>1, <1>2, <1>3, <1>4, <1>5 DEF Next

LEMMA Invariance == Spec => []IInv
BY InitIInv, NextIInv, PTL DEF Spec

-----------------------------------------------------------------------------
(* The recursion asks nodes for children they have only: its call stack    *)
(* and its function calls hold nodes throughout.                           *)
THEOREM TypeCorrect == Spec => []TypeOK
<1>1. ASSUME IInv PROVE TypeOK
  <2>1. stack \in Seq(Frame)
    BY <1>1, WiderStack DEF IInv, Sound
  <2>2. calls \in Seq(FunctionCall)
    BY <1>1, WiderStack DEF IInv, Right
  <2>. QED BY <1>1, <2>1, <2>2 DEF IInv, TypeOK, FunctionCall
<1>. QED BY <1>1, Invariance, PTL

(* The tree path handed to preFunc, leafFunc and postFunc leads from the   *)
(* tree to the node handed over with it, in every call.                    *)
THEOREM FunctionPathsAreRight == Spec => []EveryPathIsRight
<1>1. ASSUME IInv PROVE EveryPathIsRight
  BY <1>1, ElementOfSeq, SMTT(40) DEF IInv, EveryPathIsRight, Right
<1>. QED BY <1>1, Invariance, PTL

-----------------------------------------------------------------------------
(* The recursion is a depth-first visit.  An activation that waits has     *)
(* moved its index on already, to the child after the one it waits for.    *)
SpotOf(f, waits) ==
  [path |-> f.path, node |-> f.node, i |-> IF waits THEN f.i - 1 ELSE f.i, open |-> f.started]

SpotsOf(s) == [k \in 1 .. Len(s) |-> SpotOf(s[k], k # Len(s))]

Visiting ==
  /\ Looping(stack)
  /\ VisitsFrom(root, Child, Type \X Type, SpotsOf(stack), opened, closed)

LEMMA SpotsOfStack ==
  ASSUME NEW s \in Seq(Frame), Looping(s)
  PROVE  /\ SpotsOf(s) \in Seq(Spot) /\ Len(SpotsOf(s)) = Len(s)
         /\ s # << >> => SpotsOf(s) # << >>
         /\ \A k \in 1 .. Len(s) : SpotsOf(s)[k] = SpotOf(s[k], k # Len(s))
<1>1. Len(s) \in Nat /\ SpotsOf(s) = [k \in 1 .. Len(s) |-> SpotOf(s[k], k # Len(s))]
  BY DEF SpotsOf
<1>2. ASSUME NEW k \in 1 .. Len(s) PROVE SpotOf(s[k], k # Len(s)) \in Spot
  <2>1. s[k] \in Frame
    BY ElementOfSeq
  <2>2. s[k].i \in Nat /\ s[k].path \in TreePath /\ s[k].node \in Node /\ s[k].started \in BOOLEAN
    BY <2>1 DEF Frame
  <2>3. k # Len(s) => s[k].i - 1 \in Nat
    BY <2>2 DEF Looping
  <2>. QED BY <2>2, <2>3 DEF SpotOf, Spot
<1> HIDE DEF SpotsOf
<1>3. SpotsOf(s) \in Seq(Spot)
  <2> DEFINE F(k) == SpotOf(s[k], k # Len(s))
  <2>1. \A k \in 1 .. Len(s) : F(k) \in Spot
    BY <1>2
  <2>2. SpotsOf(s) = [k \in 1 .. Len(s) |-> F(k)]
    BY <1>1
  <2> HIDE DEF F
  <2>. QED BY <1>1, <2>1, <2>2
<1>4. Len(SpotsOf(s)) = Len(s)
  BY <1>1
<1>5. s # << >> => SpotsOf(s) # << >>
  <2>1. s # << >> => Len(s) # 0
    BY EmptySeq
  <2>2. SpotsOf(s) = << >> => Len(SpotsOf(s)) = 0
    OBVIOUS
  <2>. QED BY <1>4, <2>1, <2>2
<1>. QED BY <1>1, <1>3, <1>4, <1>5

(* The positions in the sequence of calls.                                 *)
LEMMA PositionsCalled ==
  ASSUME TypeOK, stack # << >>, NEW func \in {"pre", "leaf", "post"}, Call(func)
  PROVE  /\ opened' = opened \cup (IF func \in {"pre", "leaf"} THEN {Place(Top)} ELSE {})
         /\ closed' = closed \cup (IF func \in {"post", "leaf"} THEN {Place(Top)} ELSE {})
<1> DEFINE e == [func |-> func, node |-> Top.node, path |-> Top.path]
<1>1. e.func = func /\ [path |-> e.path, node |-> e.node] = Place(Top)
  BY DEF Place
<1>2. calls \in Seq(FunctionCall) /\ calls' = Append(calls, e) /\ Len(calls) \in Nat /\ e \in FunctionCall
  <2>1. stack \in Seq(Frame) /\ Len(stack) \in 1 .. Len(stack)
    BY EmptySeq DEF TypeOK
  <2>2. Top \in Frame
    BY <2>1, ElementOfSeq DEF Top, Last
  <2>. QED BY <2>2 DEF TypeOK, Call, FunctionCall, Frame
<1> HIDE DEF e
<1>3. /\ Len(calls') = Len(calls) + 1 /\ calls'[Len(calls) + 1] = e
      /\ \A n \in 1 .. Len(calls) : calls'[n] = calls[n]
  BY <1>2, PushTop
<1>4. DOMAIN calls = 1 .. Len(calls) /\ DOMAIN calls' = 1 .. Len(calls) + 1
  BY <1>2, <1>3, LenProperties
<1>5. ToSet(calls') = ToSet(calls) \cup {e}
  <2>1. \A n \in 1 .. Len(calls) + 1 : n \in 1 .. Len(calls) \/ n = Len(calls) + 1
    BY <1>2
  <2>2. 1 .. Len(calls) \subseteq 1 .. Len(calls) + 1 /\ Len(calls) + 1 \in 1 .. Len(calls) + 1
    BY <1>2
  <2>. QED BY <1>3, <1>4, <2>1, <2>2 DEF ToSet
<1>6. opened' = {[path |-> x.path, node |-> x.node] :
                   x \in {y \in ToSet(calls) \cup {e} : y.func \in {"pre", "leaf"}}}
  BY <1>5 DEF opened
<1>7. closed' = {[path |-> x.path, node |-> x.node] :
                   x \in {y \in ToSet(calls) \cup {e} : y.func \in {"post", "leaf"}}}
  BY <1>5 DEF closed
<1>8. opened' = opened \cup (IF func \in {"pre", "leaf"} THEN {Place(Top)} ELSE {})
  BY <1>1, <1>6 DEF opened
<1>9. closed' = closed \cup (IF func \in {"post", "leaf"} THEN {Place(Top)} ELSE {})
  BY <1>1, <1>7 DEF closed
<1>. QED BY <1>8, <1>9

LEMMA InitVisiting == Init => Visiting
<1> SUFFICES ASSUME Init PROVE Visiting
  OBVIOUS
<1> DEFINE f == Activation(root, << >>)
           p == SpotOf(f, FALSE)
<1>1. stack = << f >> /\ calls = << >> /\ root \in Node
  BY DEF Init
<1>2. f.node = root /\ f.path = << >> /\ f.i = 0 /\ f.started = FALSE
  BY DEF Activation
<1> HIDE DEF f
<1>3. p \in Spot /\ Place(p) = [path |-> << >>, node |-> root] /\ p.i = 0 /\ p.open = FALSE
  <2>1. p = [path |-> << >>, node |-> root, i |-> 0, open |-> FALSE]
    BY <1>2 DEF SpotOf
  <2> HIDE DEF p
  <2>2. << >> \in TreePath /\ 0 \in Nat /\ FALSE \in BOOLEAN
    BY DEF TreePath
  <2>3. p \in Spot
    BY <1>1, <2>1, <2>2 DEF Spot
  <2>. QED BY <2>1, <2>3 DEF Place
<1>4. Len(stack) = 1 /\ stack[1] = f /\ \A k \in 1 .. 1 : k = 1
  BY <1>1
<1>7. Looping(stack)
  BY <1>2, <1>4 DEF Looping
<1>5. SpotsOf(stack) = << p >>
  <2> DEFINE s == SpotsOf(stack)
             u == << p >>
  <2>1. stack \in Seq(Frame)
    BY InitIInv, WiderStack DEF IInv, Sound
  <2>2. s \in Seq(Spot) /\ Len(s) = 1 /\ s[1] = p
    <3>1. /\ s \in Seq(Spot) /\ Len(s) = Len(stack)
          /\ \A k \in 1 .. Len(stack) : s[k] = SpotOf(stack[k], k # Len(stack))
      BY <1>7, <2>1, SpotsOfStack
    <3> HIDE DEF s
    <3>2. 1 \in 1 .. Len(stack)
      BY <1>4
    <3>3. s[1] = SpotOf(f, 1 # 1)
      BY <1>4, <3>1, <3>2
    <3>4. (1 # 1) = FALSE
      OBVIOUS
    <3>5. s[1] = p
      BY <3>3, <3>4
    <3>. QED BY <1>4, <3>1, <3>5
  <2> HIDE DEF s, p
  <2>3. u \in Seq(Spot) /\ Len(u) = 1 /\ u[1] = p
    BY <1>3
  <2> HIDE DEF u
  <2>4. \A k \in 1 .. Len(s) : s[k] = u[k]
    BY <1>4, <2>2, <2>3
  <2>5. s = u
    BY <2>2, <2>3, <2>4, SeqEqual
  <2>. QED BY <2>5 DEF s, u
<1>6. opened = {} /\ closed = {}
  BY <1>1 DEF opened, closed, ToSet
<1> HIDE DEF p
<1>. QED BY <1>1, <1>3, <1>5, <1>6, <1>7, VisitStarts DEF Visiting

(* The innermost activation and its spot.                                  *)
LEMMA TopSpot ==
  ASSUME IInv, Visiting, stack # << >>
  PROVE  /\ stack \in Seq(Frame) /\ Len(stack) \in Nat /\ Len(stack) \in 1 .. Len(stack)
         /\ SpotsOf(stack) \in Seq(Spot) /\ Len(SpotsOf(stack)) = Len(stack)
         /\ SpotsOf(stack) # << >>
         /\ \A k \in 1 .. Len(stack) : SpotsOf(stack)[k] = SpotOf(stack[k], k # Len(stack))
         /\ SpotsOf(stack)[Len(stack)] = SpotOf(Top, FALSE)
         /\ Place(SpotOf(Top, FALSE)) = Place(Top)
         /\ SpotOf(Top, FALSE).open = Top.started
         /\ SpotOf(Top, FALSE).i = Top.i
<1>1. stack \in Seq(Frame) /\ Len(stack) \in 1 .. Len(stack) /\ Top = stack[Len(stack)]
  BY TopIsSound, WiderStack DEF IInv, Sound
<1>2. /\ SpotsOf(stack) \in Seq(Spot) /\ Len(SpotsOf(stack)) = Len(stack)
      /\ SpotsOf(stack) # << >>
      /\ \A k \in 1 .. Len(stack) : SpotsOf(stack)[k] = SpotOf(stack[k], k # Len(stack))
  BY <1>1, SpotsOfStack DEF Visiting
<1>3. Len(stack) \in Nat
  BY <1>1
<1>4. SpotsOf(stack)[Len(stack)] = SpotOf(Top, FALSE)
  BY <1>1, <1>2
<1>5. /\ Place(SpotOf(Top, FALSE)) = Place(Top) /\ SpotOf(Top, FALSE).i = Top.i
      /\ SpotOf(Top, FALSE).open = Top.started
  BY DEF SpotOf, Place
<1>. QED BY <1>1, <1>2, <1>3, <1>4, <1>5

(* The innermost activation returns: its position has been entered and     *)
(* left.                                                                   *)
LEMMA VisitingReturns ==
  ASSUME IInv, Visiting, stack # << >>, stack' = Front(stack), root' = root,
         opened' = opened \cup {Place(Top)}, closed' = closed \cup {Place(Top)}
  PROVE  Visiting'
<1> DEFINE s == SpotsOf(stack)
           n == Len(stack)
           t == Front(stack)
<1>1. /\ stack \in Seq(Frame) /\ n \in Nat /\ n \in 1 .. n
      /\ s \in Seq(Spot) /\ Len(s) = n /\ s # << >> /\ Place(s[n]) = Place(Top)
      /\ \A k \in 1 .. n : s[k] = SpotOf(stack[k], k # n)
  BY TopSpot
<1>2. t \in Seq(Frame) /\ Len(t) = n - 1 /\ \A k \in 1 .. n - 1 : t[k] = stack[k]
  BY <1>1, PopTop
<1>3. Looping(t)
  <2>1. \A k \in 1 .. n - 1 : k \in 1 .. n
    BY <1>1
  <2>. QED BY <1>2, <2>1 DEF Looping, Visiting
<1>4. /\ SpotsOf(t) \in Seq(Spot) /\ Len(SpotsOf(t)) = Len(t)
      /\ \A k \in 1 .. Len(t) : SpotsOf(t)[k] = SpotOf(t[k], k # Len(t))
  BY <1>2, <1>3, SpotsOfStack
<1>5. CASE n = 1
  <2>1. SpotsOf(t) = << >>
    BY <1>2, <1>4, <1>5
  <2>. QED BY <1>3, <2>1, VisitEnds DEF Visiting
<1>6. CASE n # 1
  <2> DEFINE m == n - 1
             p == SpotsOf(t)[m]
  <2>1. m \in 1 .. m /\ m \in 1 .. n /\ m # n /\ m \in Nat
    <3> HIDE DEF n
    <3>1. \A j \in Nat : j \in 1 .. j /\ j # 1 =>
            j - 1 \in 1 .. j - 1 /\ j - 1 \in 1 .. j /\ j - 1 # j /\ j - 1 \in Nat
      OBVIOUS
    <3>. QED BY <1>1, <1>6, <3>1
  <2>2. p = SpotOf(stack[m], FALSE) /\ s[m] = SpotOf(stack[m], TRUE) /\ p \in Spot
    <3>1. p = SpotOf(t[m], FALSE) /\ t[m] = stack[m]
      BY <1>2, <1>4, <2>1
    <3>2. p \in Spot
      BY <1>2, <1>4, <2>1, SpotAt
    <3>. QED BY <1>1, <2>1, <3>1, <3>2
  <2>3. Place(p) = Place(s[m]) /\ p.open = stack[m].started /\ p.i = stack[m].i
        /\ s[m].i = stack[m].i - 1
    BY <2>2 DEF SpotOf, Place
  <2>4. stack[m].started /\ stack[m].i \in Nat
    <3>1. stack[m] \in Frame
      BY <1>1, <2>1, ElementOfSeq
    <3>. QED BY <2>1, <3>1 DEF Looping, Visiting, Frame
  <2>5. p.i = s[m].i + 1 /\ p.open
    BY <2>3, <2>4
  <2>6. SpotsOf(t) = [Front(s) EXCEPT ![m] = p]
    <3> DEFINE u == [Front(s) EXCEPT ![m] = p]
    <3>1. Front(s) \in Seq(Spot) /\ Len(Front(s)) = m /\ \A k \in 1 .. m : Front(s)[k] = s[k]
      BY <1>1, PopTop
    <3> HIDE DEF p, s
    <3>2. u \in Seq(Spot) /\ Len(u) = m /\ u[m] = p /\ \A k \in 1 .. m - 1 : u[k] = s[k]
      <4>1. Front(s) # << >>
        BY <2>1, <3>1
      <4>2. \A k \in 1 .. m - 1 : k \in 1 .. m
        BY <2>1
      <4> DEFINE w == Front(s)
      <4> HIDE DEF w, m
      <4>3. u = [w EXCEPT ![Len(w)] = p]
        BY <3>1 DEF w
      <4>4. w \in Seq(Spot) /\ w # << >> /\ Len(w) = m /\ \A k \in 1 .. m : w[k] = s[k]
        BY <3>1, <4>1 DEF w
      <4>6. /\ [w EXCEPT ![Len(w)] = p] \in Seq(Spot) /\ Len([w EXCEPT ![Len(w)] = p]) = Len(w)
            /\ [w EXCEPT ![Len(w)] = p][Len(w)] = p
            /\ \A k \in 1 .. Len(w) - 1 : [w EXCEPT ![Len(w)] = p][k] = w[k]
        <5>1. p \in Spot /\ w \in Seq(Spot) /\ w # << >>
          BY <2>2, <4>4
        <5>. QED BY <5>1, ReplaceTop
      <4> HIDE DEF u
      <4>5. u \in Seq(Spot) /\ Len(u) = Len(w) /\ u[Len(w)] = p /\ \A k \in 1 .. Len(w) - 1 : u[k] = w[k]
        BY <4>3, <4>6
      <4>. QED BY <4>2, <4>4, <4>5
    <3> HIDE DEF u
    <3>3. \A k \in 1 .. m : SpotsOf(t)[k] = u[k]
      <4> SUFFICES ASSUME NEW k \in 1 .. m PROVE SpotsOf(t)[k] = u[k]
        OBVIOUS
      <4>1. CASE k = m
        BY <3>2, <4>1 DEF p
      <4>2. CASE k # m
        <5>1. k \in 1 .. m - 1 /\ k \in 1 .. n /\ k # n
          BY <1>1, <4>2
        <5>2. SpotsOf(t)[k] = SpotOf(stack[k], TRUE)
          BY <1>2, <1>4, <4>2
        <5>3. s[k] = SpotOf(stack[k], TRUE)
          BY <1>1, <5>1 DEF s
        <5>. QED BY <3>2, <5>1, <5>2, <5>3
      <4>. QED BY <4>1, <4>2
    <3>4. SpotsOf(t) = u
      BY <1>2, <1>4, <2>1, <3>2, <3>3, SeqEqual
    <3>. QED BY <3>4 DEF u
  <2> HIDE DEF p, t
  <2>7. Len(s) # 1 /\ m = Len(s) - 1 /\ Place(s[Len(s)]) = Place(Top)
    BY <1>1, <1>6
  <2> DEFINE O == opened
             C == closed
  <2>8. VisitsFrom(root, Child, Type \X Type, s, O, C)
    BY DEF Visiting
  <2> HIDE DEF s, O, C
  <2> HIDE DEF m, n
  <2>10. Place(p) = Place(s[Len(s) - 1]) /\ p.i = s[Len(s) - 1].i + 1
    BY <2>3, <2>5, <2>7
  <2>9. VisitsFrom(root, Child, Type \X Type, [Front(s) EXCEPT ![Len(s) - 1] = p],
                   O \cup {Place(s[Len(s)])}, C \cup {Place(s[Len(s)])})
    BY <1>1, <2>2, <2>5, <2>7, <2>8, <2>10, VisitReturns
  <2>. QED BY <1>3, <2>6, <2>7, <2>9 DEF Visiting, t, O, C
<1>. QED BY <1>5, <1>6

(* It starts its loop.                                                     *)
LEMMA VisitingEnters ==
  ASSUME IInv, Visiting, stack # << >>, ~ Top.started, NEW f \in Frame,
         f.path = Top.path, f.node = Top.node, f.i = Top.i, f.started = TRUE,
         stack' = [stack EXCEPT ![Len(stack)] = f], root' = root,
         opened' = opened \cup {Place(Top)}, closed' = closed
  PROVE  Visiting'
<1> DEFINE s == SpotsOf(stack)
           n == Len(stack)
           t == [stack EXCEPT ![Len(stack)] = f]
           p == SpotOf(f, FALSE)
           u == [s EXCEPT ![Len(s)] = p]
<1>1. /\ stack \in Seq(Frame) /\ n \in Nat /\ n \in 1 .. n /\ Top = stack[n]
      /\ s \in Seq(Spot) /\ Len(s) = n /\ s # << >> /\ Place(s[n]) = Place(Top)
      /\ s[n].open = Top.started /\ s[n].i = Top.i
      /\ \A k \in 1 .. n : s[k] = SpotOf(stack[k], k # n)
  BY TopSpot, TopIsSound
<1>2. /\ t \in Seq(Frame) /\ Len(t) = n /\ t # << >> /\ t[n] = f
      /\ \A k \in 1 .. n - 1 : t[k] = stack[k]
  BY <1>1, ReplaceTop
<1>3. \A k \in 1 .. n : k = n \/ (k \in 1 .. n - 1 /\ k # n)
  BY <1>1
<1> HIDE DEF t
<1>4. Looping(t)
  BY <1>2, <1>3 DEF Looping, Visiting
<1>5. p.path = f.path /\ p.node = f.node /\ p.i = f.i /\ p.open = TRUE
  BY DEF SpotOf
<1>6. p \in Spot
  <2>1. p = [path |-> f.path, node |-> f.node, i |-> f.i, open |-> TRUE]
    BY DEF SpotOf
  <2>2. f.path \in TreePath /\ f.node \in Node /\ f.i \in Nat
    BY DEF Frame
  <2> HIDE DEF p
  <2>. QED BY <2>1, <2>2 DEF Spot
<1>7. Place(p) = Place(Top) /\ p.i = 0
  <2>1. Top.i = 0
    BY <1>1 DEF Looping, Visiting
  <2>. QED BY <1>5, <2>1 DEF Place
<1> HIDE DEF p, s
<1>8. u \in Seq(Spot) /\ Len(u) = n /\ u[n] = p /\ \A k \in 1 .. n - 1 : u[k] = s[k]
  <2>1. /\ [s EXCEPT ![Len(s)] = p] \in Seq(Spot) /\ Len([s EXCEPT ![Len(s)] = p]) = Len(s)
        /\ [s EXCEPT ![Len(s)] = p][Len(s)] = p
        /\ \A k \in 1 .. Len(s) - 1 : [s EXCEPT ![Len(s)] = p][k] = s[k]
    BY <1>1, <1>6, ReplaceTop
  <2>. QED BY <1>1, <2>1
<1>9. /\ SpotsOf(t) \in Seq(Spot) /\ Len(SpotsOf(t)) = n
      /\ \A k \in 1 .. n : SpotsOf(t)[k] = SpotOf(t[k], k # n)
  BY <1>2, <1>4, SpotsOfStack
<1> HIDE DEF u
<1>10. SpotsOf(t) = u
  <2>1. ASSUME NEW k \in 1 .. n PROVE SpotsOf(t)[k] = u[k]
    <3>1. CASE k = n
      <4>1. SpotsOf(t)[n] = SpotOf(t[n], FALSE)
        BY <1>1, <1>9
      <4>. QED BY <1>2, <1>8, <3>1, <4>1 DEF p
    <3>2. CASE k # n
      <4>1. k \in 1 .. n - 1
        BY <1>3, <3>2
      <4>2. SpotsOf(t)[k] = SpotOf(stack[k], k # n)
        BY <1>2, <1>9, <4>1
      <4>. QED BY <1>1, <1>8, <4>1, <4>2
    <3>. QED BY <3>1, <3>2
  <2>. QED BY <1>1, <1>8, <1>9, <2>1, SeqEqual
<1>11. VisitsFrom(root, Child, Type \X Type, u, opened \cup {Place(p)}, closed)
  <2>1. VisitsFrom(root, Child, Type \X Type, s, opened, closed)
    BY DEF Visiting, s
  <2>2. ~ s[Len(s)].open /\ Place(p) = Place(s[Len(s)]) /\ p.open
    BY <1>1, <1>5, <1>7
  <2>. QED BY <1>1, <1>6, <1>7, <2>1, <2>2, VisitEnters DEF u
<1>. QED BY <1>4, <1>7, <1>10, <1>11 DEF Visiting, t

(* Every child is wanted.                                                  *)
LEMMA EveryChildWanted ==
  ASSUME NEW n \in Node, NEW x, x.node = n
  PROVE  WantedBy(Child, Type \X Type, x) = 0 .. degree(n) - 1
<1>1. ASSUME NEW i \in 0 .. Len(Child[n]) - 1 PROVE Child[n][i + 1] \in Node
  <2>1. Child[n] \in Seq(Node)
    BY TreeAssumption DEF NodeAssumption
  <2>2. i + 1 \in 1 .. Len(Child[n])
    <3> DEFINE l == Len(Child[n])
    <3>1. l \in Nat
      BY <2>1
    <3> HIDE DEF l
    <3>2. \A j \in 0 .. l - 1 : j + 1 \in 1 .. l
      BY <3>1
    <3>. QED BY <3>2 DEF l
  <2>. QED BY <2>1, <2>2, ElementOfSeq
<1>2. \A m \in Node : TypeOf[m] \in Type
  BY TreeAssumption DEF NodeAssumption
<1>. QED BY <1>1, <1>2 DEF WantedBy, degree

(* It calls forEachNode for its next child, and waits.                     *)
LEMMA VisitingCalls ==
  ASSUME IInv, Visiting, IInv', Recurse
  PROVE  Visiting'
<1> DEFINE s == SpotsOf(stack)
           n == Len(stack)
           w == [Top EXCEPT !.i = @ + 1]
           t == [stack EXCEPT ![n] = w]
           f == Activation(child(Top.node, Top.i), push_back(Top.path, Top.i))
           z == Append(t, f)
           p == SpotOf(f, FALSE)
           u == Append(s, p)
<1>1. /\ stack # << >> /\ Top.started /\ Top.i < degree(Top.node)
      /\ UNCHANGED << root, client, calls >>
      /\ stack' = Append([stack EXCEPT ![Len(stack)].i = @ + 1], f)
  BY DEF Recurse
<1>2. /\ stack \in Seq(Frame) /\ n \in Nat /\ n \in 1 .. n /\ Top = stack[n]
      /\ s \in Seq(Spot) /\ Len(s) = n /\ s # << >> /\ Place(s[n]) = Place(Top)
      /\ s[n] = SpotOf(Top, FALSE) /\ s[n].open = Top.started /\ s[n].i = Top.i
      /\ \A k \in 1 .. n : s[k] = SpotOf(stack[k], k # n)
  BY <1>1, TopSpot, TopIsSound
<1>3. Top \in Frame /\ Top.node \in Node /\ Top.i \in Nat /\ Top.path \in TreePath
  BY <1>1, TopIsSound
<1>4. /\ w.path = Top.path /\ w.node = Top.node /\ w.i = Top.i + 1 /\ w.started = Top.started
      /\ w \in Frame
  BY <1>3 DEF Frame
<1>5. stack' = z
  BY <1>1, <1>2
<1>6. f.path = push_back(Top.path, Top.i) /\ f.node = Child[Top.node][Top.i + 1]
      /\ f.i = 0 /\ f.started = FALSE
  BY DEF Activation, child
<1> HIDE DEF w, f
<1>7. z \in Seq(Frame) /\ Len(z) = n + 1 /\ z[n + 1] = f /\ z[n] = w
      /\ \A k \in 1 .. n - 1 : z[k] = stack[k]
  <2>1. t \in Seq(Frame) /\ Len(t) = n /\ t[n] = w /\ \A k \in 1 .. n - 1 : t[k] = stack[k]
    BY <1>1, <1>2, <1>4, ReplaceTop
  <2>2. stack' \in Seq(Frame)
    BY WiderStack DEF IInv, Sound
  <2> HIDE DEF t
  <2>3. Len(z) = Len(t) + 1 /\ z[Len(t) + 1] = f /\ \A k \in 1 .. Len(t) : z[k] = t[k]
    BY <2>1, AppendProperties
  <2>4. \A k \in 1 .. n - 1 : k \in 1 .. n
    BY <1>2
  <2>. QED BY <1>2, <1>5, <2>1, <2>2, <2>3, <2>4
<1> HIDE DEF z
<1>8. \A k \in 1 .. n + 1 : k = n + 1 \/ (k = n /\ k # n + 1)
                             \/ (k \in 1 .. n - 1 /\ k # n /\ k # n + 1 /\ k \in 1 .. n)
  BY <1>2
<1>9. n \in 1 .. n + 1 /\ n # n + 1 /\ n + 1 \in 1 .. n + 1
  BY <1>2
<1>10. Looping(z)
  <2> SUFFICES ASSUME NEW k \in 1 .. n + 1
               PROVE  /\ k # n + 1 => z[k].started /\ z[k].i > 0
                      /\ ~ z[k].started => z[k].i = 0
    BY <1>7 DEF Looping
  <2>1. CASE k = n + 1
    BY <1>6, <1>7, <2>1
  <2>2. CASE k = n
    <3>1. z[k] = w /\ w.started = Top.started /\ w.i = Top.i + 1
      BY <1>4, <1>7, <2>2
    <3>2. z[k].started
      BY <1>1, <3>1
    <3>3. z[k].i > 0
      BY <1>3, <3>1
    <3>. QED BY <3>2, <3>3
  <2>3. CASE k \in 1 .. n - 1 /\ k # n /\ k \in 1 .. n
    BY <1>7, <2>3 DEF Visiting, Looping
  <2>. QED BY <1>8, <2>1, <2>2, <2>3
<1>11. /\ SpotsOf(z) \in Seq(Spot) /\ Len(SpotsOf(z)) = n + 1
       /\ \A k \in 1 .. n + 1 : SpotsOf(z)[k] = SpotOf(z[k], k # n + 1)
  BY <1>7, <1>10, SpotsOfStack
<1>12. p = SpotsOf(z)[n + 1]
  BY <1>2, <1>7, <1>9, <1>11
<1>13. p \in Spot
  BY <1>9, <1>11, <1>12, ElementOfSeq
<1>14. p.path = f.path /\ p.node = f.node /\ p.i = f.i /\ p.open = f.started
  BY DEF SpotOf
<1>15. SpotOf(w, TRUE) = SpotOf(Top, FALSE)
  <2>1. w.i - 1 = Top.i
    BY <1>3, <1>4
  <2>. QED BY <1>4, <2>1 DEF SpotOf
<1> HIDE DEF p, s
<1>16. u \in Seq(Spot) /\ Len(u) = n + 1 /\ u[n + 1] = p /\ \A k \in 1 .. n : u[k] = s[k]
  BY <1>2, <1>13, PushTop
<1> HIDE DEF u
<1>17. SpotsOf(z) = u
  <2>1. ASSUME NEW k \in 1 .. n + 1 PROVE SpotsOf(z)[k] = u[k]
    <3>1. CASE k = n + 1
      BY <1>12, <1>16, <3>1
    <3>2. CASE k = n
      <4>1. SpotsOf(z)[n] = SpotOf(w, TRUE)
        BY <1>7, <1>9, <1>11
      <4>. QED BY <1>2, <1>15, <1>16, <3>2, <4>1
    <3>3. CASE k \in 1 .. n - 1 /\ k # n /\ k # n + 1 /\ k \in 1 .. n
      <4>1. SpotsOf(z)[k] = SpotOf(stack[k], TRUE) /\ s[k] = SpotOf(stack[k], TRUE)
        BY <1>2, <1>7, <1>11, <3>3
      <4>. QED BY <1>16, <3>3, <4>1
    <3>. QED BY <1>8, <3>1, <3>2, <3>3
  <2>. QED BY <1>2, <1>11, <1>16, <2>1, SeqEqual
<1>18. VisitsFrom(root, Child, Type \X Type, u, opened, closed)
  <2>1. VisitsFrom(root, Child, Type \X Type, s, opened, closed)
    BY DEF Visiting, s
  <2>2. s[n].node = Top.node
    BY <1>2 DEF SpotOf
  <2>3. s[n].path = Top.path
    BY <1>2 DEF SpotOf
  <2>4. Top.i \in 0 .. degree(Top.node) - 1
    <3>1. degree(Top.node) \in Nat
      <4>1. Child[Top.node] \in Seq(Node)
        BY <1>3, TreeAssumption DEF NodeAssumption
      <4>. QED BY <4>1 DEF degree
    <3>. QED BY <1>1, <1>3, <3>1
  <2>5. s[n].i \in WantedBy(Child, Type \X Type, s[n])
    BY <1>2, <1>3, <2>2, <2>4, EveryChildWanted
  <2>6. Place(p) = ChildPlace(Child, s[n], s[n].i)
    BY <1>2, <1>6, <1>14, <2>2, <2>3 DEF Place, ChildPlace
  <2>7. p.i = 0 /\ ~ p.open /\ s[n].open
    BY <1>1, <1>2, <1>6, <1>14
  <2>. QED BY <1>2, <1>13, <2>1, <2>5, <2>6, <2>7, VisitCalls DEF u
<1>19. opened' = opened /\ closed' = closed
  BY <1>1 DEF opened, closed
<1>. QED BY <1>1, <1>5, <1>10, <1>17, <1>18, <1>19 DEF Visiting

(* A step and its place in the abstract visit: a leaf is entered and left  *)
(* at once, preFunc enters an inner node, postFunc leaves it, and of a     *)
(* recursive call the abstract visit sees nothing.                         *)
LEMMA StepVisits ==
  ASSUME IInv, Visiting, [Next]_vars
  PROVE  Visiting' /\ [Abstract!Next]_(Abstract!vars)
<1> DEFINE s == SpotsOf(stack)
           n == Len(stack)
           acc == Type \X Type
<1>1. IInv'
  BY NextIInv
<1>2. \A e : /\ Abstract!Wanted(e) = WantedBy(Child, acc, e)
             /\ \A i : Abstract!Below(e, i) = ChildPlace(Child, e, i)
  BY DEF Abstract!Wanted, Abstract!Below, WantedBy, ChildPlace, Abstract!push_back, push_back
<1>3. TypeOK
  <2>1. stack \in Seq(Frame)
    BY WiderStack DEF IInv, Sound
  <2>2. calls \in Seq(FunctionCall)
    BY WiderStack DEF IInv, Right
  <2>. QED BY <2>1, <2>2 DEF IInv, TypeOK, FunctionCall
<1>4. ASSUME stack # << >>
      PROVE  /\ s # << >> /\ Len(s) = n /\ n \in Nat /\ n \in 1 .. n
             /\ Place(s[n]) = Place(Top) /\ s[n].open = Top.started /\ s[n].i = Top.i
             /\ Top \in Frame /\ Top.node \in Node /\ Top.i \in Nat
             /\ s[n].node = Top.node /\ Place(Top).node = Top.node
             /\ WantedBy(Child, acc, s[n]) = 0 .. degree(Top.node) - 1
  <2>1. /\ s # << >> /\ Len(s) = n /\ n \in Nat /\ n \in 1 .. n
        /\ Place(s[n]) = Place(Top) /\ s[n].open = Top.started /\ s[n].i = Top.i
    BY <1>4, TopSpot
  <2>2. Top \in Frame /\ Top.node \in Node /\ Top.i \in Nat
    BY <1>4, TopIsSound
  <2>3. s[n].node = Place(s[n]).node /\ Place(Top).node = Top.node
    BY DEF Place
  <2> HIDE DEF s, n
  <2>4. s[n].node = Top.node
    BY <2>1, <2>3
  <2>. QED BY <2>1, <2>2, <2>3, <2>4, EveryChildWanted
<1>5. VisitsFrom(root, Child, acc, s, opened, closed)
  BY DEF Visiting
<1> HIDE DEF s, n
(* What is entered by the innermost activation.                            *)
<1>6. ASSUME stack # << >>, ~ Top.started
      PROVE  /\ Abstract!Enterable(Place(Top)) /\ Place(Top) \notin opened
             /\ \/ Place(Top) = Abstract!RootPosition
                \/ \E e \in opened : \E i \in Abstract!Wanted(e) : Place(Top) = Abstract!Below(e, i)
  <2>1. /\ MayEnter(root, Child, acc, Place(Top), opened, closed)
        /\ Place(Top) \notin opened
        /\ \/ Place(Top) = [path |-> << >>, node |-> root]
           \/ \E e \in opened : \E i \in WantedBy(Child, acc, e) :
                Place(Top) = ChildPlace(Child, e, i)
    <3>1. s # << >> /\ ~ s[Len(s)].open /\ Place(s[Len(s)]) = Place(Top)
      BY <1>4, <1>6
    <3> HIDE DEF acc
    <3> DEFINE O == opened
               C == closed
    <3>2. VisitsFrom(root, Child, acc, s, O, C)
      BY <1>5
    <3> HIDE DEF O, C
    <3>3. /\ MayEnter(root, Child, acc, Place(s[Len(s)]), O, C)
          /\ Place(s[Len(s)]) \notin O
          /\ Adjoins(root, Child, acc, Place(s[Len(s)]), O)
      BY <3>1, <3>2, TopMayEnter
    <3>. QED BY <3>1, <3>3 DEF Adjoins, O, C
  <2>2. Abstract!RootPosition = [path |-> << >>, node |-> root]
    BY DEF Abstract!RootPosition
  <2>3. Abstract!Enterable(Place(Top))
    BY <1>2, <2>1, <2>2 DEF MayEnter, Abstract!Enterable
  <2>. QED BY <1>2, <2>1, <2>2, <2>3
<1>12. Abstract!OpenNodesKept
  BY DEF Abstract!OpenNodesKept
<1>7. CASE LeafFunc
  <2>1. /\ stack # << >> /\ isLeaf(Top.node) /\ Call("leaf") /\ stack' = Front(stack)
        /\ root' = root
    BY <1>7 DEF LeafFunc
  <2>2. opened' = opened \cup {Place(Top)} /\ closed' = closed \cup {Place(Top)}
    BY <1>3, <2>1, PositionsCalled
  <2>3. Visiting'
    BY <2>1, <2>2, VisitingReturns
  <2>4. ~ Top.started
    BY <2>1, TopIsSound
  <2>5. Abstract!VisitLeaf(Place(Top))
    <3>1. Abstract!isLeaf(Place(Top).node)
      BY <1>4, <2>1 DEF Abstract!isLeaf, isLeaf, Abstract!TagOf, TagOf
    <3>. QED BY <1>6, <1>12, <2>1, <2>2, <2>4, <3>1 DEF Abstract!VisitLeaf
  <2>6. Abstract!Visit
    BY <1>6, <2>1, <2>4, <2>5 DEF Abstract!Visit
  <2>. QED BY <2>3, <2>6 DEF Abstract!Next
<1>8. CASE PreFunc
  <2> DEFINE f == [Top EXCEPT !.started = TRUE]
  <2>1. /\ stack # << >> /\ ~ isLeaf(Top.node) /\ ~ Top.started /\ Call("pre") /\ root' = root
        /\ stack' = [stack EXCEPT ![Len(stack)].started = TRUE]
    BY <1>8 DEF PreFunc
  <2>2. opened' = opened \cup {Place(Top)} /\ closed' = closed
    BY <1>3, <2>1, PositionsCalled
  <2>3. stack' = [stack EXCEPT ![Len(stack)] = f]
    BY <2>1, TopIsSound DEF IInv
  <2>4. f \in Frame /\ f.path = Top.path /\ f.node = Top.node /\ f.i = Top.i /\ f.started = TRUE
    BY <1>4, <2>1 DEF Frame
  <2> HIDE DEF f
  <2>5. Visiting'
    BY <2>1, <2>2, <2>3, <2>4, VisitingEnters
  <2>6. Abstract!Enter(Place(Top))
    <3>1. ~ Abstract!isLeaf(Place(Top).node)
      BY <1>4, <2>1 DEF Abstract!isLeaf, isLeaf, Abstract!TagOf, TagOf
    <3>. QED BY <1>6, <1>12, <2>1, <2>2, <3>1 DEF Abstract!Enter
  <2>7. Abstract!Visit
    BY <1>6, <2>1, <2>6 DEF Abstract!Visit
  <2>. QED BY <2>5, <2>7 DEF Abstract!Next
<1>9. CASE Recurse
  <2>1. Visiting'
    BY <1>1, <1>9, VisitingCalls
  <2>2. UNCHANGED Abstract!vars
    BY <1>9 DEF Recurse, Abstract!vars, opened, closed
  <2>. QED BY <2>1, <2>2
<1>10. CASE PostFunc
  <2>1. /\ stack # << >> /\ Top.started /\ Top.i >= degree(Top.node) /\ Call("post")
        /\ stack' = Front(stack) /\ root' = root
    BY <1>10 DEF PostFunc
  <2>2. opened' = opened /\ closed' = closed \cup {Place(Top)}
    BY <1>3, <2>1, PositionsCalled
  <2>3. degree(Top.node) \in Nat
    <3>1. Child[Top.node] \in Seq(Node)
      BY <1>4, <2>1, TreeAssumption DEF NodeAssumption
    <3>. QED BY <3>1 DEF degree
  <2>4. \A j \in WantedBy(Child, acc, s[n]) : j < s[n].i
    <3>1. \A j \in 0 .. degree(Top.node) - 1 : j < Top.i
      BY <1>4, <2>1, <2>3
    <3>. QED BY <1>4, <2>1, <3>1
  <2>5. /\ Place(Top) \in opened \ closed
        /\ \A j \in WantedBy(Child, acc, Place(Top)) : ChildPlace(Child, Place(Top), j) \in closed
    <3>1. s # << >> /\ s[Len(s)].open /\ Place(s[Len(s)]) = Place(Top)
      BY <1>4, <2>1
    <3>2. \A j \in WantedBy(Child, acc, s[Len(s)]) : j < s[Len(s)].i
      BY <1>4, <2>1, <2>4
    <3> HIDE DEF acc
    <3> DEFINE O == opened
               C == closed
    <3>3. VisitsFrom(root, Child, acc, s, O, C)
      BY <1>5
    <3> HIDE DEF O, C
    <3>4. /\ Place(s[Len(s)]) \in O \ C
          /\ \A j \in WantedBy(Child, acc, Place(s[Len(s)])) :
               ChildPlace(Child, Place(s[Len(s)]), j) \in C
      BY <3>1, <3>2, <3>3, TopMayBeLeft
    <3>. QED BY <3>1, <3>4 DEF O, C
  <2>6. Visiting'
    <3>1. opened' = opened \cup {Place(Top)}
      BY <2>2, <2>5
    <3>. QED BY <2>1, <2>2, <3>1, VisitingReturns
  <2>7. Abstract!Leave(Place(Top))
    BY <1>2, <1>12, <2>1, <2>2, <2>5 DEF Abstract!Leave
  <2>8. Abstract!Visit
    BY <2>5, <2>7 DEF Abstract!Visit
  <2>. QED BY <2>6, <2>8 DEF Abstract!Next
<1>11. CASE UNCHANGED vars
  <2>1. stack' = stack /\ root' = root /\ opened' = opened /\ closed' = closed
    BY <1>11 DEF vars, opened, closed
  <2>. QED BY <2>1 DEF Visiting, Abstract!vars
<1>. QED BY <1>7, <1>8, <1>9, <1>10, <1>11 DEF Next

LEMMA InitVisits == Init => Abstract!Init
<1> SUFFICES ASSUME Init PROVE Abstract!Init
  OBVIOUS
<1>1. root \in Node /\ calls = << >>
  BY DEF Init
<1>2. opened = {} /\ closed = {}
  BY <1>1 DEF opened, closed, ToSet
<1>. QED BY <1>1, <1>2 DEF Abstract!Init

(* forEachNode and forEachLeafNode visit the tree depth first: preFunc is  *)
(* called on a node once, while its parent is between preFunc and          *)
(* postFunc and when its siblings to the left are through with everything  *)
(* below them; leafFunc likewise; postFunc is called when nothing below    *)
(* its node remains; and every child is visited.  This is the safety part  *)
(* of ImplementsDepthFirst.                                                *)
THEOREM VisitsDepthFirst ==
  Spec => Abstract!Init /\ [][Abstract!Next]_(Abstract!vars)
<1>1. Init => Visiting
  BY InitVisiting
<1>2. IInv /\ Visiting /\ [Next]_vars => Visiting' /\ [Abstract!Next]_(Abstract!vars)
  BY StepVisits
<1>. QED BY <1>1, <1>2, InitIInv, NextIInv, InitVisits, PTL DEF Spec

-----------------------------------------------------------------------------
LEMMA TailOfAppend ==
  ASSUME NEW q \in TreePath, NEW i \in Nat, q # << >>
  PROVE  Head(Append(q, i)) = Head(q) /\ Tail(Append(q, i)) = Append(Tail(q), i)
<1> DEFINE a == Append(q, i)
           t == Tail(q)
           b == Append(t, i)
           c == Tail(a)
           n == Len(q)
<1>1. /\ a \in TreePath /\ a # << >> /\ Len(a) = n + 1 /\ a[n + 1] = i
      /\ \A k \in 1 .. n : a[k] = q[k]
  BY DEF TreePath
<1>2. /\ t \in TreePath /\ n \in Nat \ {0} /\ Len(t) = n - 1 /\ Head(q) = q[1]
      /\ \A k \in 1 .. n - 1 : t[k] = q[k + 1]
  BY PathTail
<1> HIDE DEF a, t, n
<1>3. /\ c \in TreePath /\ Len(c) = Len(a) - 1 /\ Head(a) = a[1]
      /\ \A k \in 1 .. Len(a) - 1 : c[k] = a[k + 1]
  BY <1>1, PathTail
<1>4. /\ b \in TreePath /\ Len(b) = Len(t) + 1 /\ b[Len(t) + 1] = i
      /\ \A k \in 1 .. Len(t) : b[k] = t[k]
  BY <1>2 DEF TreePath
<1> HIDE DEF b, c
<1>5. Len(a) - 1 = n /\ Len(t) + 1 = n /\ 1 \in 1 .. n
  BY <1>1, <1>2
<1>6. ASSUME NEW k \in 1 .. n PROVE b[k] = c[k]
  <2>1. c[k] = a[k + 1]
    BY <1>3, <1>5
  <2>2. CASE k = n
    BY <1>1, <1>4, <1>5, <2>1, <2>2
  <2>3. CASE k # n
    <3>1. k \in 1 .. n - 1 /\ k + 1 \in 1 .. n
      BY <1>2, <2>3
    <3>. QED BY <1>1, <1>2, <1>4, <2>1, <3>1
  <2>. QED BY <2>2, <2>3
<1>7. b = c
  BY <1>3, <1>4, <1>5, <1>6, SeqEqual DEF TreePath
<1>8. Head(a) = Head(q)
  BY <1>1, <1>2, <1>3, <1>5
<1>. QED BY <1>7, <1>8 DEF a, b, c, t

LEMMA ChildStorageImplUnfolds ==
  ASSUME NEW p \in NodePtr, NEW path \in TreePath
  PROVE  childStorageImpl[<< p, path >>] =
           IF path = << >> THEN {p}
           ELSE IF checkChildIndex(p.to, Head(path))
                  THEN childStorageImpl[<< [slot |-> << p.to, Head(path) >>,
                                            to |-> child(p.to, Head(path))], Tail(path) >>]
                  ELSE {}
<1> DEFINE D == NodePtr \X TreePath
           down(q, i) == [slot |-> << q.to, i >>, to |-> child(q.to, i)]
           last == [q \in NodePtr |-> {q}]
           Ok == {x \in NodePtr \X Nat : checkChildIndex(x[1].to, x[2])}
           next == [x \in Ok |-> down(x[1], x[2])]
           v(g, at) == IF at[2] = << >> THEN {at[1]}
                       ELSE IF checkChildIndex(at[1].to, Head(at[2]))
                              THEN g[<< down(at[1], Head(at[2])), Tail(at[2]) >>] ELSE {}
<1>1. last \in [NodePtr -> SUBSET NodePtr] /\ {} \in SUBSET NodePtr
  OBVIOUS
<1>2. \A x \in Ok : down(x[1], x[2]) \in NodePtr
  <2> SUFFICES ASSUME NEW x \in Ok PROVE down(x[1], x[2]) \in NodePtr
    OBVIOUS
  <2>1. x[1].to \in Node /\ x[2] \in Nat /\ checkChildIndex(x[1].to, x[2])
    BY DEF NodePtr
  <2>2. child(x[1].to, x[2]) \in Node
    BY <2>1, TreeAssumption DEF NodeAssumption, checkChildIndex, degree, child
  <2>. QED BY <2>1, <2>2 DEF NodePtr
<1>3. next \in [Ok -> NodePtr]
  <2> HIDE DEF Ok, down
  <2>. QED BY <1>2
<1>4. \E f \in [NodePtr \X TreePath -> SUBSET NodePtr] : FollowsPath(f, NodePtr, last, {}, Ok, next)
  <2>1. Ok \in SUBSET (NodePtr \X Nat)
    OBVIOUS
  <2> HIDE DEF last, Ok, next
  <2>. QED BY <1>1, <1>3, <2>1, WalkRecursion
<1>5. PICK f \in [NodePtr \X TreePath -> SUBSET NodePtr] :
        FollowsPath(f, NodePtr, last, {}, Ok, next)
  BY <1>4
<1>6. ASSUME NEW m \in NodePtr, NEW q \in TreePath
      PROVE  f[<< m, q >>] = IF q = << >> THEN {m}
                             ELSE IF checkChildIndex(m.to, Head(q))
                                    THEN f[<< down(m, Head(q)), Tail(q) >>] ELSE {}
  <2>1. f[<< m, q >>] = IF q = << >> THEN last[m]
                        ELSE IF << m, Head(q) >> \in Ok
                               THEN f[<< next[<< m, Head(q) >>], Tail(q) >>] ELSE {}
    BY <1>5 DEF FollowsPath
  <2>2. last[m] = {m}
    OBVIOUS
  <2>3. ASSUME q # << >>
        PROVE  /\ << m, Head(q) >> \in Ok <=> checkChildIndex(m.to, Head(q))
               /\ << m, Head(q) >> \in Ok => next[<< m, Head(q) >>] = down(m, Head(q))
    <3>1. Head(q) \in Nat
      BY <2>3, PathTail
    <3> HIDE DEF down
    <3>. QED BY <3>1
  <2> HIDE DEF last, Ok, next, down
  <2>. QED BY <2>1, <2>2, <2>3
<1>7. f = [at \in D |-> v(f, at)]
  <2>1. ASSUME NEW at \in D PROVE f[at] = v(f, at)
    <3>1. at[1] \in NodePtr /\ at[2] \in TreePath /\ at = << at[1], at[2] >>
      OBVIOUS
    <3> DEFINE m == at[1]
               q == at[2]
    <3>2. f[<< m, q >>] = v(f, at)
      BY <1>6, <3>1
    <3>. QED BY <3>1, <3>2
  <2> HIDE DEF v
  <2>. QED BY <2>1
<1>8. \E g : g = [at \in D |-> v(g, at)]
  BY <1>7
<1>9. childStorageImpl = [at \in D |-> v(childStorageImpl, at)]
  BY <1>8, Zenon DEF childStorageImpl
<1>. QED
  <2> DEFINE at == << p, path >>
             w(x) == v(childStorageImpl, x)
  <2>1. childStorageImpl = [x \in D |-> w(x)]
    BY <1>9
  <2>2. at \in D /\ at[1] = p /\ at[2] = path
    OBVIOUS
  <2> HIDE DEF w, D, at
  <2>3. childStorageImpl[at] = w(at)
    BY <2>1, <2>2
  <2>. QED BY <2>2, <2>3 DEF w, at

LEMMA PathFront ==
  ASSUME NEW path \in TreePath, path # << >>
  PROVE  /\ Front(path) \in TreePath /\ Last(path) \in Nat
         /\ path = Append(Front(path), Last(path))
         /\ Len(path) \in Nat \ {0} /\ Last(path) = path[Len(path)]
         /\ Len(Front(path)) = Len(path) - 1
         /\ \A k \in 1 .. Len(path) - 1 : Front(path)[k] = path[k]
<1> DEFINE n == Len(path)
           f == Front(path)
           a == Append(f, Last(path))
<1>1. path \in Seq(Nat) /\ n \in Nat \ {0} /\ Last(path) = path[n] /\ n \in 1 .. n
  BY EmptySeq DEF TreePath, Last
<1>2. Last(path) \in Nat
  BY <1>1, ElementOfSeq
<1>3. f \in Seq(Nat) /\ Len(f) = n - 1 /\ \A k \in 1 .. n - 1 : f[k] = path[k]
  BY <1>1, PopTop
<1> HIDE DEF f, n
<1>4. a \in Seq(Nat) /\ Len(a) = n /\ a[n] = path[n] /\ \A k \in 1 .. n - 1 : a[k] = path[k]
  <2>1. /\ Append(f, Last(path)) \in Seq(Nat) /\ Len(Append(f, Last(path))) = Len(f) + 1
        /\ Append(f, Last(path))[Len(f) + 1] = Last(path)
        /\ \A k \in 1 .. Len(f) : Append(f, Last(path))[k] = f[k]
    BY <1>2, <1>3, AppendProperties
  <2>2. Len(f) + 1 = n
    BY <1>1, <1>3
  <2>. QED BY <1>1, <1>3, <2>1, <2>2
<1> HIDE DEF a
<1>5. \A k \in 1 .. n : k = n \/ k \in 1 .. n - 1
  BY <1>1
<1>6. \A k \in 1 .. n : a[k] = path[k]
  BY <1>4, <1>5
<1>7. Len(path) = n
  BY DEF n
<1>8. a = path
  BY <1>1, <1>4, <1>6, <1>7, SeqEqual
<1>. QED BY <1>1, <1>2, <1>3, <1>7, <1>8 DEF a, f, TreePath

LEMMA LeadsToParent ==
  ASSUME NEW r \in Node, NEW path \in TreePath, NEW n \in Node, Leads(Child, r, path, n),
         path # << >>
  PROVE  \E m \in Node : /\ Leads(Child, r, Front(path), m)
                         /\ checkChildIndex(m, Last(path)) /\ child(m, Last(path)) = n
<1> DEFINE l == Len(path)
           f == Front(path)
<1>1. PICK walk \in [1 .. Len(path) + 1 -> Node] :
        /\ walk[1] = r /\ walk[Len(path) + 1] = n
        /\ \A k \in 1 .. Len(path) :
             /\ path[k] \in 0 .. Len(Child[walk[k]]) - 1
             /\ walk[k + 1] = Child[walk[k]][path[k] + 1]
  BY DEF Leads
<1> DEFINE m == walk[l]
           rest == [k \in 1 .. l |-> walk[k]]
<1>2. /\ l \in Nat \ {0} /\ Last(path) = path[l] /\ Len(f) = l - 1
      /\ \A k \in 1 .. l - 1 : f[k] = path[k]
  BY PathFront
<1> HIDE DEF f
<1>3. l \in 1 .. l /\ 1 \in 1 .. l /\ \A k \in 1 .. l : k \in 1 .. l + 1
  BY <1>2
<1>4. m \in Node /\ checkChildIndex(m, Last(path)) /\ child(m, Last(path)) = n
  <2>1. m \in Node
    BY <1>1, <1>3
  <2>2. path[l] \in 0 .. Len(Child[m]) - 1 /\ n = Child[m][path[l] + 1]
    BY <1>1, <1>3
  <2>3. Len(Child[m]) \in Nat
    BY <2>1, TreeAssumption DEF NodeAssumption
  <2> HIDE DEF m
  <2>4. path[l] < Len(Child[m])
    BY <2>2, <2>3
  <2>. QED BY <1>2, <2>1, <2>2, <2>4 DEF checkChildIndex, degree, child
<1>5. rest \in [1 .. Len(f) + 1 -> Node] /\ rest[1] = r /\ rest[Len(f) + 1] = m
  <2>1. Len(f) + 1 = l
    BY <1>2
  <2>2. rest \in [1 .. l -> Node] /\ rest[1] = walk[1] /\ rest[l] = walk[l]
    BY <1>3
  <2>. QED BY <1>1, <2>1, <2>2
<1>6. ASSUME NEW k \in 1 .. Len(f)
      PROVE  f[k] \in 0 .. Len(Child[rest[k]]) - 1 /\ rest[k + 1] = Child[rest[k]][f[k] + 1]
  <2>1. k \in 1 .. l - 1 /\ k \in 1 .. l /\ k + 1 \in 1 .. l
    BY <1>2
  <2>2. f[k] = path[k] /\ rest[k] = walk[k] /\ rest[k + 1] = walk[k + 1]
    BY <1>2, <2>1
  <2>. QED BY <1>1, <2>1, <2>2
<1> HIDE DEF rest, m
<1>7. Leads(Child, r, f, m)
  BY <1>5, <1>6 DEF Leads
<1>. QED BY <1>4, <1>7 DEF f

(* From p, path ends at the slot of m for child i.                         *)
EndsAtSlot(p, path, m, i) ==
  childStorageImpl[<< p, path >>] = {[slot |-> << m, i >>, to |-> child(m, i)]}

(* childStorage(tree, treePath) ends at the slot in which the last node    *)
(* but one keeps its child.                                                *)
LEMMA ChildStorageImplFollows ==
  ASSUME NEW p \in NodePtr, NEW path \in TreePath, NEW m \in Node, NEW i \in Nat,
         Leads(Child, p.to, path, m), checkChildIndex(m, i)
  PROVE  EndsAtSlot(p, Append(path, i), m, i)
<1> DEFINE Found(x, q) ==
             Leads(Child, x.to, q, m) =>
               childStorageImpl[<< x, Append(q, i) >>] = {[slot |-> << m, i >>, to |-> child(m, i)]}
           T == {l \in Nat : \A x \in NodePtr, q \in TreePath : Len(q) = l => Found(x, q)}
<1>1. ASSUME NEW x \in NodePtr, NEW j \in Nat, checkChildIndex(x.to, j)
      PROVE  x.to \in Node /\ [slot |-> << x.to, j >>, to |-> child(x.to, j)] \in NodePtr
  <2>1. x.to \in Node
    BY DEF NodePtr
  <2>2. child(x.to, j) \in Node
    BY <1>1, <2>1, TreeAssumption DEF NodeAssumption, checkChildIndex, degree, child
  <2>. QED BY <2>1, <2>2 DEF NodePtr
<1>2. ASSUME NEW l \in Nat, \A k \in Nat : k < l => k \in T PROVE l \in T
  <2> SUFFICES ASSUME NEW x \in NodePtr, NEW q \in TreePath, Len(q) = l,
                      Leads(Child, x.to, q, m)
               PROVE  childStorageImpl[<< x, Append(q, i) >>]
                        = {[slot |-> << m, i >>, to |-> child(m, i)]}
    OBVIOUS
  <2> DEFINE a == Append(q, i)
  <2>0. x.to \in Node
    BY DEF NodePtr
  <2>1. a \in TreePath /\ a # << >> /\ Len(q) \in Nat
    BY PushTop DEF TreePath
  <2>2. CASE q = << >>
    <3>1. x.to = m
      BY <2>0, <2>2, LeadsFromChild
    <3>2. Head(a) = i /\ Tail(a) = << >>
      BY <2>2
    <3> DEFINE y == [slot |-> << m, i >>, to |-> child(m, i)]
    <3>3. y \in NodePtr
      BY <1>1, <3>1
    <3> HIDE DEF a
    <3>4. childStorageImpl[<< x, a >>] = childStorageImpl[<< y, << >> >>]
      BY <2>1, <3>1, <3>2, ChildStorageImplUnfolds
    <3>5. << >> \in TreePath
      BY DEF TreePath
    <3> HIDE DEF y
    <3>6. childStorageImpl[<< y, << >> >>] = {y}
      BY <3>3, <3>5, ChildStorageImplUnfolds
    <3>. QED BY <3>4, <3>6 DEF y, a
  <2>3. CASE q # << >>
    <3> DEFINE j == Head(q)
               t == Tail(q)
               y == [slot |-> << x.to, j >>, to |-> child(x.to, j)]
    <3>1. checkChildIndex(x.to, j) /\ Leads(Child, child(x.to, j), t, m)
      BY <2>0, <2>3, LeadsFromChild
    <3>2. t \in TreePath /\ Len(t) \in Nat /\ Len(t) < l /\ j \in Nat
      <4>1. t \in TreePath /\ Len(q) \in Nat \ {0} /\ Len(t) = Len(q) - 1 /\ j \in Nat
        BY <2>3, PathTail
      <4> HIDE DEF t, j
      <4>. QED BY <4>1
    <3>3. Head(a) = j /\ Tail(a) = Append(t, i)
      BY <2>3, TailOfAppend
    <3>4. y \in NodePtr /\ y.to = child(x.to, j)
      BY <1>1, <3>1, <3>2
    <3> HIDE DEF a
    <3>5. childStorageImpl[<< x, a >>] = childStorageImpl[<< y, Append(t, i) >>]
      BY <2>1, <3>1, <3>3, ChildStorageImplUnfolds
    <3> HIDE DEF y, t, j
    <3>6. Len(t) \in T
      BY <1>2, <3>2
    <3>7. Found(y, t)
      BY <3>2, <3>4, <3>6
    <3>. QED BY <3>1, <3>4, <3>5, <3>7 DEF a
  <2>. QED BY <2>2, <2>3
<1>3. Nat \subseteq T
  <2> HIDE DEF T
  <2>. QED BY <1>2, InductionOnSets
<1>4. Len(path) \in T
  <2>1. Len(path) \in Nat
    BY DEF TreePath
  <2> HIDE DEF T
  <2>. QED BY <1>3, <2>1
<1>5. Found(p, path)
  <2> HIDE DEF Found
  <2>. QED BY <1>4
<1>. QED BY <1>5 DEF EndsAtSlot

(* A path handed out with a node leads child(tree, treePath) to the node,  *)
(* without an assertion failing on the way, and childStorage(tree,         *)
(* treePath) to the pointer its parent keeps to it, in every tree.         *)
THEOREM PathsAreGoodForAccess == Spec => []PathsRetrieveNodes
<1>1. ASSUME IInv PROVE PathsRetrieveNodes
  <2> SUFFICES ASSUME NEW k \in 1 .. Len(calls)
               PROVE  LET node == calls[k].node
                          path == calls[k].path
                      IN  /\ childImpl[<< root, path >>] = {node}
                          /\ path # << >> =>
                               \E parent \in Node :
                                 /\ childImpl[<< root, Front(path) >>] = {parent}
                                 /\ childStorage(root, path) =
                                      {[slot |-> << parent, Last(path) >>, to |-> node]}
    BY DEF PathsRetrieveNodes
  <2> DEFINE node == calls[k].node
             path == calls[k].path
  <2>1. root \in Node /\ node \in Node /\ path \in TreePath /\ Leads(Child, root, path, node)
    <3>1. calls[k] \in Right(root)
      BY <1>1, ElementOfSeq DEF IInv
    <3>. QED BY <1>1, <3>1 DEF IInv, Right, FunctionCall
  <2> HIDE DEF node, path
  <2>2. childImpl[<< root, path >>] = {node}
    BY <2>1, ChildImplFollows
  <2>3. ASSUME path # << >>
        PROVE  \E parent \in Node :
                 /\ childImpl[<< root, Front(path) >>] = {parent}
                 /\ childStorage(root, path) = {[slot |-> << parent, Last(path) >>, to |-> node]}
    <3>1. PICK m \in Node : /\ Leads(Child, root, Front(path), m)
                            /\ checkChildIndex(m, Last(path)) /\ child(m, Last(path)) = node
      BY <2>1, <2>3, LeadsToParent
    <3> DEFINE f == Front(path)
               i == Last(path)
               p == [slot |-> << >>, to |-> root]
    <3>2. f \in TreePath /\ i \in Nat /\ path = Append(f, i)
      BY <2>1, <2>3, PathFront
    <3>3. childImpl[<< root, f >>] = {m}
      BY <2>1, <3>1, <3>2, ChildImplFollows
    <3>4. p \in NodePtr /\ p.to = root
      BY <2>1 DEF NodePtr
    <3>5. childStorage(root, path) = childStorageImpl[<< p, path >>]
      BY DEF childStorage
    <3> HIDE DEF f, i, p
    <3>6. Leads(Child, p.to, f, m) /\ checkChildIndex(m, i) /\ child(m, i) = node
      BY <3>1, <3>4 DEF f, i
    <3>7. EndsAtSlot(p, Append(f, i), m, i)
      <4>1. m \in Node /\ f \in TreePath /\ i \in Nat /\ p \in NodePtr
        BY <3>1, <3>2, <3>4
      <4>2. Leads(Child, p.to, f, m)
        BY <3>6
      <4>3. checkChildIndex(m, i)
        BY <3>6
      <4>. QED BY <4>1, <4>2, <4>3, ChildStorageImplFollows
    <3>. QED BY <3>2, <3>3, <3>5, <3>6, <3>7 DEF f, i, EndsAtSlot
  <2>. QED BY <2>2, <2>3 DEF node, path
<1>. QED BY <1>1, InitIInv, NextIInv, PTL DEF Spec

-----------------------------------------------------------------------------
(* A path and its first index.                                             *)
LEMMA PathCons ==
  ASSUME NEW t \in TreePath, NEW i \in Nat
  PROVE  /\ << i >> \o t \in TreePath /\ << i >> \o t # << >>
         /\ Head(<< i >> \o t) = i /\ Tail(<< i >> \o t) = t
<1> DEFINE q == << i >> \o t
<1>1. /\ q \in Seq(Nat) /\ Len(t) \in Nat /\ Len(q) = Len(t) + 1 /\ q[1] = i
      /\ \A k \in 1 .. Len(t) : q[k + 1] = t[k]
  BY DEF TreePath
<1>2. t = [k \in 1 .. Len(t) |-> t[k]]
  BY DEF TreePath
<1> HIDE DEF q
<1>3. q # << >> /\ Head(q) = i
  BY <1>1
<1>4. q \in TreePath /\ t \in TreePath
  BY <1>1 DEF TreePath
<1>5. /\ Tail(q) \in TreePath /\ Len(Tail(q)) = Len(q) - 1
      /\ \A k \in 1 .. Len(q) - 1 : Tail(q)[k] = q[k + 1]
  BY <1>3, <1>4, PathTail
<1> DEFINE u == Tail(q)
<1> HIDE DEF u
<1>6. u \in Seq(Nat) /\ t \in Seq(Nat)
  BY <1>4, <1>5 DEF TreePath, u
<1>7. Len(u) = Len(t) /\ \A k \in 1 .. Len(t) : u[k] = t[k]
  BY <1>1, <1>5 DEF u
<1>8. u = t
  BY <1>6, <1>7, SeqEqual
<1>. QED BY <1>3, <1>4, <1>8 DEF q, u

LEMMA PathSplits ==
  ASSUME NEW q \in TreePath, q # << >>
  PROVE  q = << Head(q) >> \o Tail(q)
<1>1. /\ Head(q) \in Nat /\ Tail(q) \in Seq(Nat) /\ Head(q) = q[1]
      /\ Len(q) \in Nat \ {0} /\ Len(Tail(q)) = Len(q) - 1
      /\ \A k \in 1 .. Len(q) - 1 : Tail(q)[k] = q[k + 1]
  BY PathTail DEF TreePath
<1> DEFINE h == Head(q)
           t == Tail(q)
           r == << h >> \o t
<1> HIDE DEF h, t
<1>2. /\ r \in Seq(Nat) /\ Len(r) = Len(t) + 1 /\ r[1] = h
      /\ \A k \in 1 .. Len(t) : r[k + 1] = t[k]
  BY <1>1 DEF h, t
<1> HIDE DEF r
<1>3. Len(r) = Len(q)
  BY <1>1, <1>2 DEF t
<1>4. ASSUME NEW k \in 1 .. Len(q) PROVE r[k] = q[k]
  <2>1. CASE k = 1
    BY <1>1, <1>2, <2>1 DEF h
  <2>2. CASE k # 1
    <3>1. k - 1 \in 1 .. Len(q) - 1 /\ (k - 1) + 1 = k
      BY <1>1, <2>2
    <3>. QED BY <1>1, <1>2, <3>1 DEF t
  <2>. QED BY <2>1, <2>2
<1>5. q \in Seq(Nat)
  BY DEF TreePath
<1>6. r = q
  BY <1>2, <1>3, <1>4, <1>5, SeqEqual
<1>. QED BY <1>6 DEF r, h, t

(* Extending the prefix or the rest of the path is the same.               *)
LEMMA PathGrows ==
  ASSUME NEW p \in TreePath, NEW i \in Nat, NEW t \in TreePath
  PROVE  push_back(p, i) \o t = p \o (<< i >> \o t)
<1> DEFINE a == Append(p, i)
           b == << i >> \o t
<1>1. /\ p \in Seq(Nat) /\ t \in Seq(Nat) /\ Len(p) \in Nat /\ Len(t) \in Nat
  BY DEF TreePath
<1>2. /\ a \in Seq(Nat) /\ Len(a) = Len(p) + 1 /\ a[Len(p) + 1] = i
      /\ \A k \in 1 .. Len(p) : a[k] = p[k]
  BY <1>1
<1>3. /\ b \in Seq(Nat) /\ Len(b) = Len(t) + 1 /\ b[1] = i
      /\ \A k \in 1 .. Len(t) : b[k + 1] = t[k]
  BY <1>1
<1> HIDE DEF a, b
<1>10. \A x, y \in Seq(Nat) :
         /\ x \o y \in Seq(Nat) /\ Len(x \o y) = Len(x) + Len(y)
         /\ \A k \in 1 .. Len(x) : (x \o y)[k] = x[k]
         /\ \A k \in 1 .. Len(y) : (x \o y)[Len(x) + k] = y[k]
  OBVIOUS
<1> DEFINE l == a \o t
           r == p \o b
<1>4. /\ l \in Seq(Nat) /\ Len(l) = Len(a) + Len(t)
      /\ \A k \in 1 .. Len(a) : l[k] = a[k]
      /\ \A k \in 1 .. Len(t) : l[Len(a) + k] = t[k]
  BY <1>1, <1>2, <1>10
<1>5. /\ r \in Seq(Nat) /\ Len(r) = Len(p) + Len(b)
      /\ \A k \in 1 .. Len(p) : r[k] = p[k]
      /\ \A k \in 1 .. Len(b) : r[Len(p) + k] = b[k]
  BY <1>1, <1>3, <1>10
<1> HIDE DEF l, r
<1>6. Len(l) = Len(r)
  BY <1>1, <1>2, <1>3, <1>4, <1>5
<1>7. ASSUME NEW k \in 1 .. Len(l) PROVE l[k] = r[k]
  <2>1. CASE k \in 1 .. Len(p)
    <3>1. k \in 1 .. Len(a)
      BY <1>1, <1>2, <2>1
    <3>. QED BY <1>2, <1>4, <1>5, <2>1, <3>1
  <2>2. CASE k = Len(p) + 1
    <3>1. k \in 1 .. Len(a) /\ 1 \in 1 .. Len(b)
      BY <1>1, <1>2, <1>3, <2>2
    <3>. QED BY <1>2, <1>3, <1>4, <1>5, <2>2, <3>1
  <2>3. CASE k \notin 1 .. Len(p) /\ k # Len(p) + 1
    <3> DEFINE j == k - (Len(p) + 1)
    <3>1. k <= Len(a) + Len(t) /\ k \in Nat
      BY <1>4
    <3>2. j \in 1 .. Len(t) /\ k = Len(a) + j /\ j + 1 \in 1 .. Len(b) /\ k = Len(p) + (j + 1)
      BY <1>1, <1>2, <1>3, <2>3, <3>1
    <3> HIDE DEF j
    <3>3. l[k] = t[j] /\ r[k] = b[j + 1]
      BY <1>4, <1>5, <3>2
    <3>. QED BY <1>3, <3>2, <3>3
  <2>. QED BY <2>1, <2>2, <2>3
<1>8. l = r
  BY <1>4, <1>5, <1>6, <1>7, SeqEqual
<1>. QED BY <1>8 DEF l, r, a, b, push_back

-----------------------------------------------------------------------------
(* The path leads to a leaf, which child() finds.                          *)
AtLeaf(n, q) == \E m \in Node : isLeaf(m) /\ childImpl[<< n, q >>] = {m}

LEMMA LeafHasNoChild ==
  ASSUME NEW n \in Node, isLeaf(n)
  PROVE  degree(n) = 0 /\ \A i \in Nat : ~ checkChildIndex(n, i)
<1>1. degree(n) = 0
  BY TreeAssumption DEF NestingAssumption, degree
<1>. QED BY <1>1 DEF checkChildIndex

(* An index that passes the check of child(i) belongs to a child.          *)
LEMMA StepDown ==
  ASSUME NEW n \in Node, NEW i \in Nat, checkChildIndex(n, i)
  PROVE  /\ child(n, i) \in Node /\ ~ isLeaf(n) /\ i + 1 \in 1 .. degree(n)
         /\ Level[TypeOf[child(n, i)]] < Level[TypeOf[n]]
         /\ child(n, i) = Child[n][i + 1]
         /\ LevelOf[child(n, i)] < LevelOf[n]
<1>1. degree(n) \in Nat
  BY TreeAssumption DEF NodeAssumption, degree
<1>2. i + 1 \in 1 .. degree(n) /\ (i + 1) - 1 = i
  BY <1>1 DEF checkChildIndex
<1>3. ~ isLeaf(n)
  BY LeafHasNoChild
<1>4. /\ child(n, i) \in Node /\ Level[TypeOf[child(n, i)]] < Level[TypeOf[n]]
      /\ child(n, i) = Child[n][i + 1]
  BY <1>2, ChildOf
<1>. QED BY <1>2, <1>3, <1>4 DEF LevelOf

(* A path leads to a leaf if its rest does from the child its head names.  *)
LEMMA AtLeafUnfolds ==
  ASSUME NEW n \in Node, NEW q \in TreePath
  PROVE  /\ q = << >> => (AtLeaf(n, q) <=> isLeaf(n))
         /\ q # << >> => (AtLeaf(n, q) <=> /\ checkChildIndex(n, Head(q))
                                           /\ AtLeaf(child(n, Head(q)), Tail(q)))
  BY ChildImplUnfolds DEF AtLeaf

(* The tuple has the paths that lead to a leaf, behind the prefix.         *)
InTuple(p, at) == p \in ToSet(leafTreePathTuple[at])

LeadsBehind(p, at) == \E q \in TreePath : AtLeaf(at[1], q) /\ p = at[2] \o q

LEMMA TupleHasLeafs ==
  ASSUME NEW at \in Node \X TreePath, NEW p
  PROVE  InTuple(p, at) <=> LeadsBehind(p, at)
<1> DEFINE D == Node \X TreePath
           T == {x \in D : \A y : InTuple(y, x) <=> LeadsBehind(y, x)}
<1>1. ASSUME NEW d \in D, \A e \in D : PlaceLevel[e] < PlaceLevel[d] => e \in T PROVE d \in T
  <2> SUFFICES ASSUME NEW y PROVE InTuple(y, d) <=> LeadsBehind(y, d)
    OBVIOUS
  <2>1. d[1] \in Node /\ d[2] \in TreePath /\ d = << d[1], d[2] >>
    OBVIOUS
  <2>2. leafTreePathTuple[d] = LeafTupleStep(leafTreePathTuple, d)
    BY LeafTupleUnfolds
  <2> DEFINE n == d[1]
             prefix == d[2]
             below(k) == << child(n, k - 1), push_back(prefix, k - 1) >>
  <2>3. CASE isLeaf(n)
    <3>1. leafTreePathTuple[d] = << prefix >>
      BY <2>2, <2>3 DEF LeafTupleStep
    <3>2. ToSet(<< prefix >>) = {prefix}
      BY DEF ToSet
    <3>9. << >> \in TreePath
      BY DEF TreePath
    <3>3. << >> \in TreePath /\ AtLeaf(n, << >>)
      BY <2>1, <2>3, <3>9, AtLeafUnfolds
    <3>4. \A q \in TreePath : AtLeaf(n, q) => q = << >>
      BY <2>1, <2>3, AtLeafUnfolds, LeafHasNoChild, PathTail
    <3>5. prefix \o << >> = prefix
      BY <2>1 DEF TreePath
    <3>. QED BY <3>1, <3>2, <3>3, <3>4, <3>5 DEF InTuple, LeadsBehind
  <2>4. CASE ~ isLeaf(n)
    <3> DEFINE ss == TuplesBelow(leafTreePathTuple, d)
    <3>1. leafTreePathTuple[d] = FlattenSeq(ss)
      BY <2>2, <2>4 DEF LeafTupleStep
    <3>2. \A k \in 1 .. degree(d[1]) : leafTreePathTuple[below(k)] \in Seq(TreePath)
      BY PlaceBelow, LeafTupleUnfolds
    <3>3. ss \in Seq(Seq(TreePath)) /\ Len(ss) = degree(n)
      BY <3>2, TuplesBelowType
    <3>4. \A k \in 1 .. degree(n) : ss[k] = leafTreePathTuple[below(k)]
      BY DEF TuplesBelow
    <3> HIDE DEF ss
    <3>5. InTuple(y, d) <=> \E k \in 1 .. degree(n) : InTuple(y, below(k))
      <4>1. y \in ToSet(FlattenSeq(ss)) <=> \E k \in 1 .. Len(ss) : y \in ToSet(ss[k])
        BY <3>3, FlattenHas
      <4> HIDE DEF below
      <4>2. InTuple(y, d) <=> y \in ToSet(FlattenSeq(ss))
        BY <3>1 DEF InTuple
      <4>3. \A k \in 1 .. degree(n) : y \in ToSet(ss[k]) <=> InTuple(y, below(k))
        BY <3>4 DEF InTuple
      <4> HIDE DEF n
      <4>4. (\E k \in 1 .. Len(ss) : y \in ToSet(ss[k])) <=> \E k \in 1 .. degree(n) : y \in ToSet(ss[k])
        BY <3>3
      <4>. QED BY <4>1, <4>2, <4>3, <4>4
    <3>6. ASSUME NEW k \in 1 .. degree(n)
          PROVE  /\ below(k) \in D /\ k - 1 \in Nat /\ checkChildIndex(n, k - 1)
                 /\ child(n, k - 1) \in Node
                 /\ InTuple(y, below(k)) <=> LeadsBehind(y, below(k))
      <4>1. k - 1 \in Nat /\ degree(n) \in Nat /\ child(n, k - 1) \in Node
        BY <2>1, ChildOf
      <4>2. checkChildIndex(n, k - 1)
        BY <4>1 DEF checkChildIndex
      <4>3. below(k) \in D /\ PlaceLevel[below(k)] < PlaceLevel[d]
        BY PlaceBelow
      <4> HIDE DEF below, D
      <4>4. below(k) \in T
        BY <1>1, <4>3
      <4>. QED BY <4>1, <4>2, <4>3, <4>4
    <3>7. ASSUME NEW k \in 1 .. degree(n), LeadsBehind(y, below(k)) PROVE LeadsBehind(y, d)
      <4>1. PICK q \in TreePath : AtLeaf(child(n, k - 1), q) /\ y = push_back(prefix, k - 1) \o q
        BY <3>7 DEF LeadsBehind
      <4> DEFINE r == << k - 1 >> \o q
      <4>2. r \in TreePath /\ r # << >> /\ Head(r) = k - 1 /\ Tail(r) = q
        BY <3>6, PathCons
      <4>3. y = prefix \o r
        BY <2>1, <3>6, <4>1, PathGrows
      <4> HIDE DEF r
      <4>4. AtLeaf(n, r)
        BY <2>1, <3>6, <4>1, <4>2, AtLeafUnfolds
      <4>. QED BY <4>2, <4>3, <4>4 DEF LeadsBehind
    <3>8. ASSUME LeadsBehind(y, d) PROVE \E k \in 1 .. degree(n) : LeadsBehind(y, below(k))
      <4>1. PICK q \in TreePath : AtLeaf(n, q) /\ y = prefix \o q
        BY <3>8 DEF LeadsBehind
      <4>2. q # << >>
        BY <2>1, <2>4, <4>1, AtLeafUnfolds
      <4>3. checkChildIndex(n, Head(q)) /\ AtLeaf(child(n, Head(q)), Tail(q))
        BY <2>1, <4>1, <4>2, AtLeafUnfolds
      <4>4. Head(q) \in Nat /\ Tail(q) \in TreePath /\ q = << Head(q) >> \o Tail(q)
        BY <4>2, PathTail, PathSplits
      <4> DEFINE i == Head(q)
      <4>5. i + 1 \in 1 .. degree(n) /\ (i + 1) - 1 = i
        BY <2>1, <4>3, <4>4, StepDown
      <4>8. push_back(prefix, i) \o Tail(q) = prefix \o (<< i >> \o Tail(q))
        <5> HIDE DEF i, prefix
        <5>1. prefix \in TreePath /\ i \in Nat /\ Tail(q) \in TreePath
          BY <2>1, <4>4 DEF prefix, i
        <5>. QED BY <5>1, PathGrows
      <4>6. y = push_back(prefix, i) \o Tail(q)
        BY <4>1, <4>4, <4>8
      <4>7. LeadsBehind(y, below(i + 1))
        BY <4>3, <4>4, <4>5, <4>6 DEF LeadsBehind
      <4>. QED BY <4>5, <4>7
    <3> HIDE DEF below
    <3>. QED BY <3>5, <3>6, <3>7, <3>8
  <2>. QED BY <2>3, <2>4
<1>2. D \subseteq T
  <2> HIDE DEF T
  <2>1. PlaceLevel \in [D -> Nat]
    BY PlaceLevelType
  <2> HIDE DEF D
  <2>. QED BY <1>1, <2>1, RankInduction
<1>. QED BY <1>2

(* LeafPaths are the paths of the leafs.                                   *)
LEMMA LeafPathsAre ==
  ASSUME NEW n \in Node
  PROVE  LeafPaths(n) = {q \in TreePath : AtLeaf(n, q)}
<1> DEFINE at == << n, << >> >>
<1>5. << >> \in TreePath
  BY DEF TreePath
<1>1. at \in Node \X TreePath /\ at[1] = n /\ at[2] = << >>
  BY <1>5
<1>2. \A q \in TreePath : << >> \o q = q
  BY DEF TreePath
<1> HIDE DEF at
<1>3. \A p : p \in LeafPaths(n) <=> LeadsBehind(p, at)
  BY <1>1, TupleHasLeafs DEF LeafPaths, InTuple, at
<1>4. \A p : LeadsBehind(p, at) <=> p \in TreePath /\ AtLeaf(n, p)
  BY <1>1, <1>2 DEF LeadsBehind
<1>. QED BY <1>3, <1>4

-----------------------------------------------------------------------------
(* The node at the end of a path, and the paths the class guarantees, from *)
(* a node and from its children.                                           *)
LEMMA NodeAtUnfolds ==
  ASSUME NEW n \in Node, NEW q \in TreePath
  PROVE  /\ q = << >> => NodeAt(n, q) = n
         /\ q # << >> /\ checkChildIndex(n, Head(q)) =>
              NodeAt(n, q) = NodeAt(child(n, Head(q)), Tail(q))
<1>1. ASSUME q = << >> PROVE NodeAt(n, q) = n
  <2>1. childImpl[<< n, q >>] = {n}
    BY <1>1, ChildImplUnfolds
  <2>. QED BY <2>1 DEF NodeAt
<1>2. ASSUME q # << >>, checkChildIndex(n, Head(q))
      PROVE  NodeAt(n, q) = NodeAt(child(n, Head(q)), Tail(q))
  <2>1. childImpl[<< n, q >>] = childImpl[<< child(n, Head(q)), Tail(q) >>]
    BY <1>2, ChildImplUnfolds
  <2>. QED BY <2>1 DEF NodeAt
<1>. QED BY <1>1, <1>2

(* A prefix of a path starts with its head and goes on with a prefix of    *)
(* its tail.                                                               *)
LEMMA PathPrefix ==
  ASSUME NEW q \in TreePath, NEW k \in 0 .. Len(q)
  PROVE  /\ SubSeq(q, 1, k) \in TreePath /\ Len(SubSeq(q, 1, k)) = k
         /\ \A i \in 1 .. k : SubSeq(q, 1, k)[i] = q[i]
         /\ k = 0 => SubSeq(q, 1, k) = << >>
         /\ k # 0 => /\ SubSeq(q, 1, k) # << >> /\ Head(SubSeq(q, 1, k)) = Head(q)
                     /\ k - 1 \in 0 .. Len(Tail(q))
                     /\ Tail(SubSeq(q, 1, k)) = SubSeq(Tail(q), 1, k - 1)
<1> DEFINE r == SubSeq(q, 1, k)
<1>1. q \in Seq(Nat) /\ Len(q) \in Nat /\ k \in Nat /\ k <= Len(q)
  BY DEF TreePath
<1>2. \A i \in 1 .. k : q[i] \in Nat
  BY <1>1, ElementOfSeq
<1>3. r \in Seq(Nat) /\ Len(r) = k /\ \A i \in 1 .. k : r[i] = q[i]
  BY <1>1, <1>2, SubSeqProperties
<1> HIDE DEF r
<1>4. ASSUME k = 0 PROVE r = << >>
  BY <1>3, <1>4, EmptySeq
<1>5. ASSUME k # 0
      PROVE  /\ r # << >> /\ Head(r) = Head(q) /\ k - 1 \in 0 .. Len(Tail(q))
             /\ Tail(r) = SubSeq(Tail(q), 1, k - 1)
  <2>1. r # << >> /\ q # << >> /\ r \in TreePath
    BY <1>1, <1>3, <1>5 DEF TreePath
  <2>2. /\ Tail(r) \in Seq(Nat) /\ Len(Tail(r)) = k - 1 /\ Head(r) = r[1]
        /\ \A i \in 1 .. k - 1 : Tail(r)[i] = r[i + 1]
    BY <1>3, <2>1, PathTail DEF TreePath
  <2>3. /\ Tail(q) \in Seq(Nat) /\ Len(Tail(q)) = Len(q) - 1 /\ Head(q) = q[1]
        /\ \A i \in 1 .. Len(q) - 1 : Tail(q)[i] = q[i + 1]
    BY <2>1, PathTail DEF TreePath
  <2>4. Head(r) = Head(q) /\ k - 1 \in 0 .. Len(Tail(q))
    BY <1>1, <1>3, <1>5, <2>2, <2>3
  <2> DEFINE t == Tail(q)
             s == SubSeq(t, 1, k - 1)
             u == Tail(r)
  <2> HIDE DEF t
  <2>5. k - 1 \in Nat /\ k - 1 <= Len(t) /\ \A i \in 1 .. k - 1 : t[i] \in Nat
    BY <1>1, <1>5, <2>3 DEF t
  <2>6. s \in Seq(Nat) /\ Len(s) = k - 1 /\ \A i \in 1 .. k - 1 : s[i] = t[i]
    BY <2>3, <2>5, SubSeqProperties DEF t
  <2> HIDE DEF s, u
  <2>7. ASSUME NEW i \in 1 .. k - 1 PROVE u[i] = s[i]
    <3>1. i + 1 \in 1 .. k /\ i \in 1 .. Len(q) - 1
      BY <1>1
    <3>. QED BY <1>3, <2>2, <2>3, <2>6, <3>1 DEF u, t
  <2>8. u \in Seq(Nat) /\ Len(u) = k - 1
    BY <2>2 DEF u
  <2>9. u = s
    BY <2>6, <2>7, <2>8, SeqEqual
  <2>. QED BY <2>1, <2>4, <2>9 DEF s, t, u
<1>. QED BY <1>3, <1>4, <1>5 DEF r, TreePath

LEMMA StaticUnfolds ==
  ASSUME NEW n \in Node, NEW q \in TreePath
  PROVE  /\ q = << >> => (q \in StaticPaths(n) <=> isLeaf(n))
         /\ q # << >> => (q \in StaticPaths(n) <=>
                            /\ checkChildIndex(n, Head(q))
                            /\ TagOf(n) # "DynamicPowerNodeTag"
                            /\ Tail(q) \in StaticPaths(child(n, Head(q))))
<1> DEFINE Fixed(m, p) == \A k \in 0 .. Len(p) - 1 :
                            TagOf(NodeAt(m, SubSeq(p, 1, k))) # "DynamicPowerNodeTag"
<1>1. ASSUME NEW m \in Node, NEW p \in TreePath
      PROVE  p \in StaticPaths(m) <=> AtLeaf(m, p) /\ Fixed(m, p)
  <2>1. p \in LeafPaths(m) <=> AtLeaf(m, p)
    BY LeafPathsAre
  <2>. QED BY <2>1 DEF StaticPaths
<1>2. ASSUME q = << >> PROVE q \in StaticPaths(n) <=> isLeaf(n)
  <2>1. 0 .. Len(q) - 1 = {}
    BY <1>2
  <2>2. AtLeaf(n, q) <=> isLeaf(n)
    BY <1>2, AtLeafUnfolds
  <2>. QED BY <1>1, <2>1, <2>2
<1>3. ASSUME q # << >>
      PROVE  q \in StaticPaths(n) <=> /\ checkChildIndex(n, Head(q))
                                      /\ TagOf(n) # "DynamicPowerNodeTag"
                                      /\ Tail(q) \in StaticPaths(child(n, Head(q)))
  <2> DEFINE i == Head(q)
             t == Tail(q)
             m == child(n, i)
  <2>1. i \in Nat /\ t \in TreePath /\ Len(q) \in Nat \ {0} /\ Len(t) = Len(q) - 1
    BY <1>3, PathTail
  <2>2. AtLeaf(n, q) <=> checkChildIndex(n, i) /\ AtLeaf(m, t)
    BY <1>3, AtLeafUnfolds
  <2>3. ASSUME checkChildIndex(n, i)
        PROVE  m \in Node /\ (Fixed(n, q) <=> TagOf(n) # "DynamicPowerNodeTag" /\ Fixed(m, t))
    <3>1. m \in Node
      BY <2>1, <2>3, StepDown
    <3>2. 0 \in 0 .. Len(q) /\ 0 \in 0 .. Len(q) - 1 /\ << >> \in TreePath
      BY <2>1 DEF TreePath
    <3>3. SubSeq(q, 1, 0) = << >>
      BY <3>2, PathPrefix
    <3>4. NodeAt(n, SubSeq(q, 1, 0)) = n
      BY <3>2, <3>3, NodeAtUnfolds
    <3>5. ASSUME NEW k \in 1 .. Len(q) - 1
          PROVE  NodeAt(n, SubSeq(q, 1, k)) = NodeAt(m, SubSeq(t, 1, k - 1))
      <4>1. k \in 0 .. Len(q) /\ k # 0
        BY <2>1
      <4>2. /\ SubSeq(q, 1, k) \in TreePath /\ SubSeq(q, 1, k) # << >>
            /\ Head(SubSeq(q, 1, k)) = i /\ Tail(SubSeq(q, 1, k)) = SubSeq(t, 1, k - 1)
        BY <4>1, PathPrefix
      <4> DEFINE r == SubSeq(q, 1, k)
      <4> HIDE DEF r, i, t, m
      <4>3. NodeAt(n, r) = NodeAt(child(n, i), Tail(r))
        BY <2>3, <4>2, NodeAtUnfolds DEF r
      <4>. QED BY <4>2, <4>3 DEF r, m
    <3> HIDE DEF i, t, m
    <3>6. ASSUME Fixed(n, q) PROVE Fixed(m, t)
      <4> SUFFICES ASSUME NEW k \in 0 .. Len(t) - 1
                   PROVE  TagOf(NodeAt(m, SubSeq(t, 1, k))) # "DynamicPowerNodeTag"
        OBVIOUS
      <4>1. k + 1 \in 1 .. Len(q) - 1 /\ k + 1 \in 0 .. Len(q) - 1 /\ (k + 1) - 1 = k
        BY <2>1
      <4>2. NodeAt(n, SubSeq(q, 1, k + 1)) = NodeAt(m, SubSeq(t, 1, k))
        BY <3>5, <4>1
      <4>. QED BY <3>6, <4>1, <4>2
    <3>7. ASSUME TagOf(n) # "DynamicPowerNodeTag", Fixed(m, t) PROVE Fixed(n, q)
      <4> SUFFICES ASSUME NEW k \in 0 .. Len(q) - 1
                   PROVE  TagOf(NodeAt(n, SubSeq(q, 1, k))) # "DynamicPowerNodeTag"
        OBVIOUS
      <4>1. CASE k = 0
        BY <3>4, <3>7, <4>1
      <4>2. CASE k # 0
        <5>1. k \in 1 .. Len(q) - 1 /\ k - 1 \in 0 .. Len(t) - 1
          BY <2>1, <4>2
        <5>. QED BY <3>5, <3>7, <5>1
      <4>. QED BY <4>1, <4>2
    <3>8. Fixed(n, q) => TagOf(n) # "DynamicPowerNodeTag"
      BY <3>2, <3>4
    <3> HIDE DEF Fixed
    <3>. QED BY <3>1, <3>6, <3>7, <3>8 DEF m
  <2>4. q \in StaticPaths(n) <=> AtLeaf(n, q) /\ Fixed(n, q)
    BY <1>1
  <2>5. m \in Node => (t \in StaticPaths(m) <=> AtLeaf(m, t) /\ Fixed(m, t))
    BY <1>1, <2>1
  <2> HIDE DEF Fixed, i, t, m
  <2>. QED BY <2>2, <2>3, <2>4, <2>5 DEF i, t, m
<1>. QED BY <1>2, <1>3

-----------------------------------------------------------------------------
(* NestedValue values are trees, labelled with what is held.                    *)
LEMMA NestedValuesAre == ByHeight(NestedValues, SUBSET Value)
<1>1. PICK W : ByHeight(W, SUBSET Value)
  BY TreeStages
<1> DEFINE v(g, depth) == IF depth = 0 THEN {} 
                          ELSE [of : SUBSET Value, children : Seq(g[depth - 1])]
<1>2. W = [depth \in Nat |-> v(W, depth)]
  BY <1>1 DEF ByHeight, TreesOver
<1>3. \E g : g = [depth \in Nat |-> v(g, depth)]
  BY <1>2
<1>4. NestedValues = [depth \in Nat |-> v(NestedValues, depth)]
  BY <1>3, Zenon DEF NestedValues
<1>. QED BY <1>4 DEF ByHeight, TreesOver

(* There is none at depth 0, and what is one level deeper holds a sequence *)
(* of those.                                                               *)
LEMMA NestedDeeper ==
  ASSUME NEW k \in Nat
  PROVE  NestedValues[0] = {} /\ NestedValues[k + 1] = TreesOver(SUBSET Value, NestedValues[k])
  BY NestedValuesAre, NextStage

NestedValue == UNION {NestedValues[k] : k \in Nat}

LEMMA NestedHas ==
  /\ \A S \in SUBSET Value, s \in Seq(NestedValue) : [of |-> S, children |-> s] \in NestedValue
  /\ \A c \in NestedValue : /\ c.of \in SUBSET Value /\ c.children \in Seq(NestedValue)
                            /\ c = [of |-> c.of, children |-> c.children]
<1>1. [of : SUBSET Value, children : Seq(NestedValue)] \subseteq NestedValue
  BY NestedValuesAre, StagesClosed DEF NestedValue
<1>2. ASSUME NEW S \in SUBSET Value, NEW s \in Seq(NestedValue)
      PROVE  [of |-> S, children |-> s] \in NestedValue
  BY <1>1
<1>3. ASSUME NEW c \in NestedValue
      PROVE  /\ c.of \in SUBSET Value /\ c.children \in Seq(NestedValue)
             /\ c = [of |-> c.of, children |-> c.children]
  <2>1. PICK k \in Nat : c \in NestedValues[k]
    BY DEF NestedValue
  <2>2. k # 0
    BY <2>1, NestedDeeper
  <2>3. k - 1 \in Nat /\ (k - 1) + 1 = k
    BY <2>2
  <2>4. NestedValues[k] = TreesOver(SUBSET Value, NestedValues[k - 1])
    BY <2>3, NestedDeeper
  <2> DEFINE V == NestedValues[k - 1]
  <2> HIDE DEF V
  <2>5. c \in [of : SUBSET Value, children : Seq(V)]
    BY <2>1, <2>4 DEF TreesOver, V
  <2>6. V \subseteq NestedValue
    BY <2>3 DEF V, NestedValue
  <2>7. c.of \in SUBSET Value /\ c.children \in Seq(V) /\ c = [of |-> c.of, children |-> c.children]
    BY <2>5
  <2>. QED BY <2>6, <2>7, WiderStack
<1>. QED BY <1>2, <1>3

-----------------------------------------------------------------------------
(* Containers are defined by recursion on the nesting of classes.  All     *)
(* that follows is about nodes that collapse nowhere.                      *)
PartsFit(g, n, c) ==
  \A m \in Node : \A k \in 1 .. Len(c.children) :
    TypeOf[m] = TypeOf[n] /\ k <= degree(m) => c.children[k] \in g[child(m, k - 1)]

Fits(g, n, c) ==
  IF isLeaf(n)
    THEN \E v \in Value : c = Leaf(v)
    ELSE /\ c.of = {}
         /\ TagOf(n) # "DynamicPowerNodeTag" => Len(c.children) = degree(n)
         /\ PartsFit(g, n, c)

ContainerStep(g, n) == {c \in NestedValues[Level[TypeOf[n]] + 1] : Fits(g, n, c)}

LEMMA ContainerUnfolds ==
  ASSUME Nests
  PROVE  \A n \in Node : Container[n] = ContainerStep(Container, n)
<1> DEFINE V == SUBSET NestedValue
           step == [x \in Node \X [Node -> V] |-> ContainerStep(x[2], x[1])]
<1>1. ASSUME NEW n \in Node
      PROVE  Level[TypeOf[n]] + 1 \in Nat /\ NestedValues[Level[TypeOf[n]] + 1] \subseteq NestedValue
  <2>1. Level[TypeOf[n]] + 1 \in Nat
    BY TreeAssumption DEF NodeAssumption
  <2>. QED BY <2>1 DEF NestedValue
<1>2. step \in [Node \X [Node -> V] -> V]
  <2>1. \A x \in Node \X [Node -> V] : ContainerStep(x[2], x[1]) \in V
    BY <1>1 DEF ContainerStep
  <2>. QED BY <2>1
<1>3. LooksBelow(step, Node, V, LevelOf)
  <2> SUFFICES ASSUME NEW d \in Node, NEW g \in [Node -> V], NEW h \in [Node -> V],
                      \A e \in Node : LevelOf[e] < LevelOf[d] => g[e] = h[e]
               PROVE  step[<< d, g >>] = step[<< d, h >>]
    BY DEF LooksBelow
  <2>1. step[<< d, g >>] = ContainerStep(g, d) /\ step[<< d, h >>] = ContainerStep(h, d)
    OBVIOUS
  <2>2. ASSUME NEW m \in Node, TypeOf[m] = TypeOf[d], NEW k \in Nat \ {0}, k <= degree(m)
        PROVE  g[child(m, k - 1)] = h[child(m, k - 1)]
    <3>1. degree(m) \in Nat
      BY TreeAssumption DEF NodeAssumption, degree
    <3>2. k \in 1 .. degree(m)
      BY <2>2, <3>1
    <3>3. child(m, k - 1) \in Node /\ Level[TypeOf[child(m, k - 1)]] < Level[TypeOf[m]]
      BY <3>2, ChildOf
    <3>4. LevelOf[child(m, k - 1)] < LevelOf[d]
      BY <2>2, <3>3 DEF LevelOf
    <3>. QED BY <3>3, <3>4
  <2>3. ASSUME NEW c PROVE PartsFit(g, d, c) <=> PartsFit(h, d, c)
    <3>1. \A k \in 1 .. Len(c.children) : k \in Nat \ {0} \/ 1 .. Len(c.children) = {}
      OBVIOUS
    <3>2. \A m \in Node : \A k \in 1 .. Len(c.children) :
            TypeOf[m] = TypeOf[d] /\ k <= degree(m) => g[child(m, k - 1)] = h[child(m, k - 1)]
      BY <2>2, <3>1
    <3>. QED BY <3>2 DEF PartsFit
  <2>4. \A c : Fits(g, d, c) <=> Fits(h, d, c)
    BY <2>3 DEF Fits
  <2>5. ContainerStep(g, d) = ContainerStep(h, d)
    BY <2>4 DEF ContainerStep
  <2>. QED BY <2>1, <2>5
<1>4. PICK f \in [Node -> V] : Obeys(f, Node, step)
  <2>1. {} \in V
    OBVIOUS
  <2> HIDE DEF V, step
  <2>. QED BY <1>2, <1>3, <2>1, LevelDecreases, RecursionFromBelow
<1> DEFINE v(g, n) ==
             IF Collapses(n)
               THEN g[child(n, 0)]
               ELSE {c \in NestedValues[Level[TypeOf[n]] + 1] :
                       IF isLeaf(n)
                         THEN \E w \in Value : c = Leaf(w)
                         ELSE /\ c.of = {}
                              /\ TagOf(n) # "DynamicPowerNodeTag" => Len(c.children) = degree(n)
                              /\ \A m \in Node : \A k \in 1 .. Len(c.children) :
                                   TypeOf[m] = TypeOf[n] /\ k <= degree(m) =>
                                     c.children[k] \in g[child(m, k - 1)]}
<1>5. ASSUME NEW g, NEW n \in Node PROVE v(g, n) = ContainerStep(g, n)
  BY DEF Nests, ContainerStep, Fits, PartsFit
<1>6. f = [n \in Node |-> v(f, n)]
  <2>1. \A n \in Node : f[n] = v(f, n)
    <3> SUFFICES ASSUME NEW n \in Node PROVE f[n] = v(f, n)
      OBVIOUS
    <3>1. f[n] = step[<< n, f >>]
      BY <1>4 DEF Obeys
    <3>2. step[<< n, f >>] = ContainerStep(f, n)
      OBVIOUS
    <3> HIDE DEF step, v
    <3>. QED BY <1>5, <3>1, <3>2
  <2> HIDE DEF v
  <2>. QED BY <2>1
<1>7. \E g : g = [n \in Node |-> v(g, n)]
  BY <1>6
<1>8. Container = [n \in Node |-> v(Container, n)]
  BY <1>7, Zenon DEF Container
<1> DEFINE w(n) == v(Container, n)
<1>9. Container = [n \in Node |-> w(n)]
  BY <1>8
<1>10. \A n \in Node : w(n) = ContainerStep(Container, n)
  BY <1>5
<1> HIDE DEF w
<1>. QED BY <1>9, <1>10

LEMMA ContainerHas ==
  ASSUME Nests, NEW n \in Node, NEW c
  PROVE  c \in Container[n] <=>
           c \in NestedValues[Level[TypeOf[n]] + 1] /\ Fits(Container, n, c)
  BY ContainerUnfolds DEF ContainerStep

(* Nodes of one class have the same containers.                            *)
LEMMA ContainerOfClass ==
  ASSUME Nests, NEW n \in Node, NEW m \in Node, TypeOf[m] = TypeOf[n]
  PROVE  Container[m] = Container[n]
<1>1. isLeaf(m) <=> isLeaf(n)
  BY DEF isLeaf, TagOf
<1>2. TagOf(n) = TagOf(m)
  BY DEF TagOf
<1>3. TagOf(n) # "DynamicPowerNodeTag" => degree(m) = degree(n)
  BY TreeAssumption DEF ClassAssumption, degree
<1>4. \A c : PartsFit(Container, m, c) <=> PartsFit(Container, n, c)
  BY DEF PartsFit
<1>5. \A c : Fits(Container, m, c) <=> Fits(Container, n, c)
  BY <1>1, <1>2, <1>3, <1>4 DEF Fits
<1>6. ContainerStep(Container, m) = ContainerStep(Container, n)
  BY <1>5 DEF ContainerStep
<1>. QED BY <1>6, ContainerUnfolds

(* What a container consists of.                                           *)
LEMMA LeafContainer ==
  ASSUME Nests, NEW n \in Node, isLeaf(n)
  PROVE  /\ \A v \in Value : Leaf(v) \in Container[n]
         /\ \A c \in Container[n] : \E v \in Value : c = Leaf(v)
<1>1. ASSUME NEW v \in Value PROVE Leaf(v) \in Container[n]
  <2>1. Level[TypeOf[n]] \in Nat
    BY TreeAssumption DEF NodeAssumption
  <2>2. NestedValues[Level[TypeOf[n]] + 1] = TreesOver(SUBSET Value, NestedValues[Level[TypeOf[n]]])
    BY <2>1, NestedDeeper
  <2>3. Leaf(v) \in NestedValues[Level[TypeOf[n]] + 1]
    BY <2>2 DEF TreesOver, Leaf
  <2>. QED BY <2>3, ContainerHas DEF Fits
<1>2. \A c \in Container[n] : \E v \in Value : c = Leaf(v)
  BY ContainerHas DEF Fits
<1>. QED BY <1>1, <1>2

(* A container of an inner node holds containers of the children.          *)
LEMMA InnerContainer ==
  ASSUME Nests, NEW n \in Node, ~ isLeaf(n), NEW c \in Container[n]
  PROVE  /\ c.of = {} /\ c.children \in Seq(NestedValue) /\ c = Inner(c.children)
         /\ c \in NestedValue
         /\ TagOf(n) # "DynamicPowerNodeTag" => Len(c.children) = degree(n)
         /\ \A k \in 1 .. Len(c.children) : \A m \in Node :
              TypeOf[m] = TypeOf[n] /\ k <= degree(m) => c.children[k] \in Container[child(m, k - 1)]
<1>1. c \in NestedValues[Level[TypeOf[n]] + 1] /\ Fits(Container, n, c)
  BY ContainerHas
<1>2. Level[TypeOf[n]] + 1 \in Nat
  BY TreeAssumption DEF NodeAssumption
<1>3. c \in NestedValue
  BY <1>1, <1>2 DEF NestedValue
<1>4. c.children \in Seq(NestedValue) /\ c = [of |-> c.of, children |-> c.children]
  BY <1>3, NestedHas
<1>. QED BY <1>1, <1>3, <1>4 DEF Fits, PartsFit, Inner

LEMMA ContainerNested ==
  ASSUME Nests, NEW n \in Node, NEW c \in Container[n]
  PROVE  c \in NestedValue
<1>1. c \in NestedValues[Level[TypeOf[n]] + 1]
  BY ContainerHas
<1>2. Level[TypeOf[n]] + 1 \in Nat
  BY TreeAssumption DEF NodeAssumption
<1>. QED BY <1>1, <1>2 DEF NestedValue

(* Built of parts that fit a node's children, one fits the node.           *)
LEMMA InnerFits ==
  ASSUME Nests, NEW n \in Node, ~ isLeaf(n), NEW s,
         s = [k \in 1 .. degree(n) |-> s[k]],
         \A k \in 1 .. degree(n) : s[k] \in Container[child(n, k - 1)]
  PROVE  Inner(s) \in Container[n]
<1> DEFINE l == Level[TypeOf[n]]
           d == degree(n)
<1>1. l \in Nat /\ d \in Nat
  BY TreeAssumption DEF NodeAssumption, degree
<1>2. ASSUME NEW k \in 1 .. d PROVE s[k] \in NestedValues[l]
  <2>1. /\ child(n, k - 1) \in Node /\ Level[TypeOf[child(n, k - 1)]] \in Nat
        /\ Level[TypeOf[child(n, k - 1)]] < l
    BY ChildOf
  <2>2. s[k] \in NestedValues[Level[TypeOf[child(n, k - 1)]] + 1]
    BY <2>1, ContainerHas
  <2> DEFINE j == Level[TypeOf[child(n, k - 1)]] + 1
  <2>3. j \in Nat /\ j <= l
    BY <1>1, <2>1
  <2> HIDE DEF j, l
  <2>4. NestedValues[j] \subseteq NestedValues[l]
    BY <1>1, <2>3, NestedValuesAre, StagesGrow
  <2>. QED BY <2>2, <2>4 DEF j
<1>3. s \in Seq(NestedValues[l]) /\ Len(s) = d
  <2> HIDE DEF d, l
  <2>1. s = [k \in 1 .. d |-> s[k]]
    BY DEF d
  <2> DEFINE V == NestedValues[l]
  <2>2. \A k \in 1 .. d : s[k] \in V
    BY <1>2
  <2> HIDE DEF V
  <2>3. PICK w : w = s
    OBVIOUS
  <2>4. /\ w = [k \in 1 .. d |-> w[k]] /\ d \in Nat
        /\ \A k \in 1 .. d : w[k] \in V
    BY <1>1, <2>1, <2>2, <2>3
  <2>5. w \in Seq(V) /\ Len(w) = d
    BY <2>4
  <2>. QED BY <2>3, <2>5 DEF V
<1>4. NestedValues[l + 1] = TreesOver(SUBSET Value, NestedValues[l])
  BY <1>1, NestedDeeper
<1>5. Inner(s) \in NestedValues[l + 1]
  BY <1>3, <1>4 DEF TreesOver, Inner
<1>6. Inner(s).of = {} /\ Inner(s).children = s
  BY DEF Inner
<1>7. ASSUME NEW m \in Node, NEW k \in 1 .. d, TypeOf[m] = TypeOf[n], k <= degree(m)
      PROVE  s[k] \in Container[child(m, k - 1)]
  <2>1. degree(m) \in Nat
    BY TreeAssumption DEF NodeAssumption, degree
  <2>2. k \in 1 .. degree(m)
    BY <1>7, <2>1
  <2>3. child(m, k - 1) \in Node /\ child(m, k - 1) = Child[m][k]
    BY <2>2, ChildOf
  <2>4. child(n, k - 1) \in Node /\ child(n, k - 1) = Child[n][k]
    BY ChildOf
  <2>5. TagOf(n) \in {"PowerNodeTag", "DynamicPowerNodeTag", "CompositeNodeTag"}
    BY TreeAssumption DEF NodeAssumption, TagOf, isLeaf, NodeTags
  <2>6. TypeOf[Child[m][k]] = TypeOf[Child[n][k]]
    BY <1>7, <2>2, <2>5, TreeAssumption DEF ClassAssumption, degree
  <2>7. Container[child(m, k - 1)] = Container[child(n, k - 1)]
    BY <2>3, <2>4, <2>6, ContainerOfClass
  <2>. QED BY <2>7
<1>8. PartsFit(Container, n, Inner(s))
  BY <1>3, <1>6, <1>7 DEF PartsFit
<1>9. Fits(Container, n, Inner(s))
  BY <1>3, <1>6, <1>8 DEF Fits
<1>. QED BY <1>5, <1>9, ContainerHas

-----------------------------------------------------------------------------
(* Default-constructed containers.                                         *)
DefaultStep(g, n) ==
  CASE isLeaf(n) -> Leaf(DefaultValue)
    [] TagOf(n) = "DynamicPowerNodeTag" -> Inner(<< >>)
    [] OTHER -> Inner([k \in 1 .. degree(n) |-> g[child(n, k - 1)]])

LEMMA LeafNested ==
  ASSUME NEW v \in Value
  PROVE  Leaf(v) \in NestedValue
<1>1. {v} \in SUBSET Value /\ << >> \in Seq(NestedValue)
  OBVIOUS
<1>. QED BY <1>1, NestedHas DEF Leaf

LEMMA InnerNested ==
  ASSUME NEW n \in Node, NEW s, s = [k \in 1 .. degree(n) |-> s[k]],
         \A k \in 1 .. degree(n) : s[k] \in NestedValue
  PROVE  Inner(s) \in NestedValue /\ s \in Seq(NestedValue) /\ Len(s) = degree(n)
<1>1. degree(n) \in Nat
  BY TreeAssumption DEF NodeAssumption, degree
<1>2. s \in Seq(NestedValue) /\ Len(s) = degree(n)
  BY <1>1
<1>. QED BY <1>2, NestedHas DEF Inner

(* DefaultContainer is defined by its own right-hand side.                 *)
LEMMA DefaultUnfolds ==
  ASSUME Nests
  PROVE  \A n \in Node : DefaultContainer[n] = DefaultStep(DefaultContainer, n)
<1> DEFINE step == [x \in Node \X [Node -> NestedValue] |-> DefaultStep(x[2], x[1])]
<1>1. step \in [Node \X [Node -> NestedValue] -> NestedValue]
  <2> SUFFICES ASSUME NEW x \in Node \X [Node -> NestedValue] PROVE DefaultStep(x[2], x[1]) \in NestedValue
    OBVIOUS
  <2>1. x[1] \in Node /\ x[2] \in [Node -> NestedValue]
    OBVIOUS
  <2> DEFINE s == [k \in 1 .. degree(x[1]) |-> x[2][child(x[1], k - 1)]]
  <2>2. \A k \in 1 .. degree(x[1]) : s[k] \in NestedValue
    BY <2>1, ChildOf
  <2>3. s = [k \in 1 .. degree(x[1]) |-> s[k]]
    OBVIOUS
  <2>4. Inner(s) \in NestedValue
    <3> HIDE DEF s
    <3>. QED BY <2>1, <2>2, <2>3, InnerNested
  <2>5. << >> \in Seq(NestedValue) /\ {} \in SUBSET Value
    OBVIOUS
  <2>6. Inner(<< >>) \in NestedValue
    BY <2>5, NestedHas DEF Inner
  <2>7. Leaf(DefaultValue) \in NestedValue
    BY LeafNested, ValueAssumption
  <2>8. DefaultStep(x[2], x[1]) \in {Leaf(DefaultValue), Inner(<< >>), Inner(s)}
    BY DEF DefaultStep
  <2> HIDE DEF s
  <2>. QED BY <2>4, <2>6, <2>7, <2>8
<1>2. LooksBelow(step, Node, NestedValue, LevelOf)
  <2> SUFFICES ASSUME NEW d \in Node, NEW g \in [Node -> NestedValue], NEW h \in [Node -> NestedValue],
                      \A e \in Node : LevelOf[e] < LevelOf[d] => g[e] = h[e]
               PROVE  step[<< d, g >>] = step[<< d, h >>]
    BY DEF LooksBelow
  <2>1. step[<< d, g >>] = DefaultStep(g, d) /\ step[<< d, h >>] = DefaultStep(h, d)
    OBVIOUS
  <2>2. ASSUME NEW k \in 1 .. degree(d) PROVE g[child(d, k - 1)] = h[child(d, k - 1)]
    <3>1. child(d, k - 1) \in Node /\ Level[TypeOf[child(d, k - 1)]] < Level[TypeOf[d]]
      BY ChildOf
    <3>. QED BY <3>1 DEF LevelOf
  <2>3. [k \in 1 .. degree(d) |-> g[child(d, k - 1)]] = [k \in 1 .. degree(d) |-> h[child(d, k - 1)]]
    BY <2>2
  <2>. QED BY <2>1, <2>3 DEF DefaultStep
<1>3. PICK f \in [Node -> NestedValue] : Obeys(f, Node, step)
  <2>1. Leaf(DefaultValue) \in NestedValue
    BY LeafNested, ValueAssumption
  <2> HIDE DEF step
  <2>. QED BY <1>1, <1>2, <2>1, LevelDecreases, RecursionFromBelow
<1> DEFINE v(g, n) ==
             CASE isLeaf(n) -> Leaf(DefaultValue)
               [] TagOf(n) = "DynamicPowerNodeTag" -> Inner(<< >>)
               [] Collapses(n) -> g[child(n, 0)]
               [] OTHER -> Inner([k \in 1 .. degree(n) |-> g[child(n, k - 1)]])
<1>4. ASSUME NEW g, NEW n \in Node PROVE v(g, n) = DefaultStep(g, n)
  BY DEF Nests, DefaultStep
<1>5. f = [n \in Node |-> v(f, n)]
  <2>1. \A n \in Node : f[n] = v(f, n)
    <3> SUFFICES ASSUME NEW n \in Node PROVE f[n] = v(f, n)
      OBVIOUS
    <3>1. f[n] = step[<< n, f >>]
      BY <1>3 DEF Obeys
    <3>2. step[<< n, f >>] = DefaultStep(f, n)
      OBVIOUS
    <3> HIDE DEF step, v
    <3>. QED BY <1>4, <3>1, <3>2
  <2> HIDE DEF v
  <2>. QED BY <2>1
<1>6. \E g : g = [n \in Node |-> v(g, n)]
  BY <1>5
<1>7. DefaultContainer = [n \in Node |-> v(DefaultContainer, n)]
  BY <1>6, Zenon DEF DefaultContainer
<1> DEFINE w(n) == v(DefaultContainer, n)
<1>8. DefaultContainer = [n \in Node |-> w(n)]
  BY <1>7
<1>9. \A n \in Node : w(n) = DefaultStep(DefaultContainer, n)
  BY <1>4
<1> HIDE DEF w
<1>. QED BY <1>8, <1>9

(* Containers made by makeTreeContainer.                                   *)
MakeStep(f, g, n) ==
  IF isLeaf(n) THEN Leaf(f[n]) ELSE Inner([k \in 1 .. degree(n) |-> g[child(n, k - 1)]])

(* So is what the factory makes.                                           *)
LEMMA FactoryUnfolds ==
  ASSUME Nests, NEW f \in [Node -> Value]
  PROVE  \A n \in Node :
           ContainerFactory(f, n) = 
             IF isLeaf(n) THEN Leaf(f[n])
             ELSE Inner([k \in 1 .. degree(n) |-> ContainerFactory(f, child(n, k - 1))])
<1> DEFINE step == [x \in Node \X [Node -> NestedValue] |-> MakeStep(f, x[2], x[1])]
<1>1. step \in [Node \X [Node -> NestedValue] -> NestedValue]
  <2> SUFFICES ASSUME NEW x \in Node \X [Node -> NestedValue] PROVE MakeStep(f, x[2], x[1]) \in NestedValue
    OBVIOUS
  <2>1. x[1] \in Node /\ x[2] \in [Node -> NestedValue]
    OBVIOUS
  <2> DEFINE s == [k \in 1 .. degree(x[1]) |-> x[2][child(x[1], k - 1)]]
  <2>2. \A k \in 1 .. degree(x[1]) : s[k] \in NestedValue
    BY <2>1, ChildOf
  <2>3. s = [k \in 1 .. degree(x[1]) |-> s[k]]
    OBVIOUS
  <2>4. Inner(s) \in NestedValue
    <3> HIDE DEF s
    <3>. QED BY <2>1, <2>2, <2>3, InnerNested
  <2>5. Leaf(f[x[1]]) \in NestedValue
    BY <2>1, LeafNested
  <2>6. MakeStep(f, x[2], x[1]) \in {Leaf(f[x[1]]), Inner(s)}
    BY DEF MakeStep
  <2> HIDE DEF s
  <2>. QED BY <2>4, <2>5, <2>6
<1>2. LooksBelow(step, Node, NestedValue, LevelOf)
  <2> SUFFICES ASSUME NEW d \in Node, NEW g \in [Node -> NestedValue], NEW h \in [Node -> NestedValue],
                      \A e \in Node : LevelOf[e] < LevelOf[d] => g[e] = h[e]
               PROVE  step[<< d, g >>] = step[<< d, h >>]
    BY DEF LooksBelow
  <2>1. step[<< d, g >>] = MakeStep(f, g, d) /\ step[<< d, h >>] = MakeStep(f, h, d)
    OBVIOUS
  <2>2. ASSUME NEW k \in 1 .. degree(d) PROVE g[child(d, k - 1)] = h[child(d, k - 1)]
    <3>1. child(d, k - 1) \in Node /\ Level[TypeOf[child(d, k - 1)]] < Level[TypeOf[d]]
      BY ChildOf
    <3>. QED BY <3>1 DEF LevelOf
  <2>3. [k \in 1 .. degree(d) |-> g[child(d, k - 1)]] = [k \in 1 .. degree(d) |-> h[child(d, k - 1)]]
    BY <2>2
  <2>. QED BY <2>1, <2>3 DEF MakeStep
<1>3. PICK m \in [Node -> NestedValue] : Obeys(m, Node, step)
  <2>1. Leaf(DefaultValue) \in NestedValue
    BY LeafNested, ValueAssumption
  <2> HIDE DEF step
  <2>. QED BY <1>1, <1>2, <2>1, LevelDecreases, RecursionFromBelow
<1> DEFINE v(g, n) ==
             CASE isLeaf(n)    -> Leaf(f[n])
               [] Collapses(n) -> g[child(n, 0)]
               [] OTHER        -> Inner([k \in 1 .. degree(n) |-> g[child(n, k - 1)]])
           make == CHOOSE g : g = [n \in Node |-> v(g, n)]
<1>4. ASSUME NEW g, NEW n \in Node PROVE v(g, n) = MakeStep(f, g, n)
  BY DEF Nests, MakeStep
<1>5. m = [n \in Node |-> v(m, n)]
  <2>1. \A n \in Node : m[n] = v(m, n)
    <3> SUFFICES ASSUME NEW n \in Node PROVE m[n] = v(m, n)
      OBVIOUS
    <3>1. m[n] = step[<< n, m >>]
      BY <1>3 DEF Obeys
    <3>2. step[<< n, m >>] = MakeStep(f, m, n)
      OBVIOUS
    <3> HIDE DEF step, v
    <3>. QED BY <1>4, <3>1, <3>2
  <2> HIDE DEF v
  <2>. QED BY <2>1
<1>6. make = [n \in Node |-> v(make, n)]
  <2>1. \E g : g = [n \in Node |-> v(g, n)]
    BY <1>5
  <2> HIDE DEF v
  <2>. QED BY <2>1
<1>7. \A n : ContainerFactory(f, n) = make[n]
  BY DEF ContainerFactory
<1> HIDE DEF make
<1> DEFINE w(n) == v(make, n)
<1>8. make = [n \in Node |-> w(n)]
  BY <1>6
<1>9. ASSUME NEW n \in Node PROVE make[n] = MakeStep(f, make, n)
  <2>1. w(n) = MakeStep(f, make, n)
    BY <1>4
  <2> HIDE DEF w
  <2>. QED BY <1>8, <2>1
<1>. QED BY <1>7, <1>9 DEF MakeStep

(* A default-constructed or a made container is one of the class.          *)
LEMMA DefaultFits ==
  ASSUME Nests
  PROVE  \A n \in Node : DefaultContainer[n] \in Container[n]
<1> DEFINE T == {n \in Node : DefaultContainer[n] \in Container[n]}
<1>1. ASSUME NEW n \in Node, \A e \in Node : LevelOf[e] < LevelOf[n] => e \in T PROVE n \in T
  <2>1. DefaultContainer[n] = DefaultStep(DefaultContainer, n)
    BY DefaultUnfolds
  <2>2. CASE isLeaf(n)
    <3>1. DefaultContainer[n] = Leaf(DefaultValue)
      BY <2>1, <2>2 DEF DefaultStep, isLeaf
    <3>. QED BY <2>2, <3>1, LeafContainer, ValueAssumption
  <2>3. CASE ~ isLeaf(n) /\ TagOf(n) = "DynamicPowerNodeTag"
    <3>1. DefaultContainer[n] = Inner(<< >>)
      BY <2>1, <2>3 DEF DefaultStep
    <3>2. Level[TypeOf[n]] \in Nat
      BY TreeAssumption DEF NodeAssumption
    <3>3. NestedValues[Level[TypeOf[n]] + 1]
            = TreesOver(SUBSET Value, NestedValues[Level[TypeOf[n]]])
      BY <3>2, NestedDeeper
    <3>4. Inner(<< >>) \in NestedValues[Level[TypeOf[n]] + 1]
      BY <3>3 DEF TreesOver, Inner
    <3>5. Inner(<< >>).of = {} /\ Inner(<< >>).children = << >> /\ 1 .. Len(<< >>) = {}
      BY DEF Inner
    <3>6. Fits(Container, n, Inner(<< >>))
      BY <2>3, <3>5 DEF Fits, PartsFit
    <3>. QED BY <3>1, <3>4, <3>6, ContainerHas
  <2>4. CASE ~ isLeaf(n) /\ TagOf(n) # "DynamicPowerNodeTag"
    <3> DEFINE s == [k \in 1 .. degree(n) |-> DefaultContainer[child(n, k - 1)]]
    <3>1. DefaultContainer[n] = Inner(s)
      BY <2>1, <2>4 DEF DefaultStep
    <3>2. \A k \in 1 .. degree(n) : s[k] \in Container[child(n, k - 1)]
      <4> SUFFICES ASSUME NEW k \in 1 .. degree(n)
                   PROVE  DefaultContainer[child(n, k - 1)] \in Container[child(n, k - 1)]
        OBVIOUS
      <4>1. child(n, k - 1) \in Node /\ LevelOf[child(n, k - 1)] < LevelOf[n]
        BY ChildOf DEF LevelOf
      <4>. QED BY <1>1, <4>1
    <3>3. s = [k \in 1 .. degree(n) |-> s[k]]
      OBVIOUS
    <3> HIDE DEF s
    <3>. QED BY <2>4, <3>1, <3>2, <3>3, InnerFits
  <2>. QED BY <2>2, <2>3, <2>4
<1>2. Node \subseteq T
  <2> HIDE DEF T
  <2>. QED BY <1>1, LevelDecreases, RankInduction
<1>. QED BY <1>2

LEMMA FactoryFits ==
  ASSUME Nests, NEW f \in [Node -> Value]
  PROVE  \A n \in Node : ContainerFactory(f, n) \in Container[n]
<1> DEFINE T == {n \in Node : ContainerFactory(f, n) \in Container[n]}
<1>1. ASSUME NEW n \in Node, \A e \in Node : LevelOf[e] < LevelOf[n] => e \in T PROVE n \in T
  <2> DEFINE s == [k \in 1 .. degree(n) |-> ContainerFactory(f, child(n, k - 1))]
  <2>1. ContainerFactory(f, n) = IF isLeaf(n) THEN Leaf(f[n]) ELSE Inner(s)
    BY FactoryUnfolds
  <2>2. CASE isLeaf(n)
    BY <2>1, <2>2, LeafContainer
  <2>3. CASE ~ isLeaf(n)
    <3>1. \A k \in 1 .. degree(n) : s[k] \in Container[child(n, k - 1)]
      <4> SUFFICES ASSUME NEW k \in 1 .. degree(n)
                   PROVE  ContainerFactory(f, child(n, k - 1)) \in Container[child(n, k - 1)]
        OBVIOUS
      <4>1. child(n, k - 1) \in Node /\ LevelOf[child(n, k - 1)] < LevelOf[n]
        BY ChildOf DEF LevelOf
      <4>. QED BY <1>1, <4>1
    <3>2. s = [k \in 1 .. degree(n) |-> s[k]]
      OBVIOUS
    <3> HIDE DEF s
    <3>3. Inner(s) \in Container[n]
      BY <2>3, <3>1, <3>2, InnerFits
    <3>. QED BY <2>1, <2>3, <3>3
  <2>. QED BY <2>2, <2>3
<1>2. Node \subseteq T
  <2> HIDE DEF T
  <2>. QED BY <1>1, LevelDecreases, RankInduction
<1>. QED BY <1>2

(* Resizing: the elements kept and appended,                               *)
Elements(n, c) ==
  IF TagOf(n) = "DynamicPowerNodeTag" THEN resize(c.children, n) ELSE c.children

(* After vector::resize there is one element for each child, and it fits.  *)
LEMMA ElementsFit ==
  ASSUME Nests, NEW n \in Node, ~ isLeaf(n), NEW c \in Container[n], NEW k \in 1 .. degree(n)
  PROVE  /\ Elements(n, c)[k] = IF k <= Len(c.children) THEN c.children[k]
                                ELSE DefaultContainer[child(n, k - 1)]
         /\ Elements(n, c)[k] \in Container[child(n, k - 1)]
         /\ Len(c.children) \in Nat
<1>1. /\ c.children \in Seq(NestedValue) /\ Len(c.children) \in Nat
      /\ TagOf(n) # "DynamicPowerNodeTag" => Len(c.children) = degree(n)
      /\ \A j \in 1 .. Len(c.children) : j <= degree(n) => c.children[j] \in Container[child(n, j - 1)]
  BY InnerContainer
<1>2. degree(n) \in Nat /\ child(n, k - 1) \in Node
  BY ChildOf
<1>3. Elements(n, c)[k] = IF k <= Len(c.children) THEN c.children[k]
                          ELSE DefaultContainer[child(n, k - 1)]
  <2>1. CASE TagOf(n) = "DynamicPowerNodeTag"
    BY <2>1 DEF Elements, resize
  <2>2. CASE TagOf(n) # "DynamicPowerNodeTag"
    BY <1>1, <1>2, <2>2 DEF Elements
  <2>. QED BY <2>1, <2>2
<1>4. CASE k <= Len(c.children)
  <2>1. k \in 1 .. Len(c.children) /\ k <= degree(n)
    BY <1>1, <1>2, <1>4
  <2>. QED BY <1>1, <1>3, <1>4, <2>1
<1>5. CASE ~ (k <= Len(c.children))
  BY <1>1, <1>2, <1>3, <1>5, DefaultFits
<1>. QED BY <1>4, <1>5

(* each of them resized for the child.                                     *)
Resized(g, n, c) ==
  IF isLeaf(n) THEN c
  ELSE Inner([k \in 1 .. degree(n) |-> g[child(n, k - 1)][Elements(n, c)[k]]])

ResizesFit(g, n) == \A c \in Container[n] : g[n][c] \in Container[n]

LEMMA ResizedFits ==
  ASSUME Nests, NEW n \in Node, NEW c \in Container[n], NEW g,
         \A m \in Node : LevelOf[m] < LevelOf[n] => ResizesFit(g, m)
  PROVE  Resized(g, n, c) \in Container[n]
<1>1. CASE isLeaf(n)
  BY <1>1 DEF Resized
<1>2. CASE ~ isLeaf(n)
  <2> DEFINE s == [k \in 1 .. degree(n) |-> g[child(n, k - 1)][Elements(n, c)[k]]]
  <2>1. \A k \in 1 .. degree(n) : s[k] \in Container[child(n, k - 1)]
    <3> SUFFICES ASSUME NEW k \in 1 .. degree(n)
                 PROVE  g[child(n, k - 1)][Elements(n, c)[k]] \in Container[child(n, k - 1)]
      OBVIOUS
    <3>1. child(n, k - 1) \in Node /\ LevelOf[child(n, k - 1)] < LevelOf[n]
      BY ChildOf DEF LevelOf
    <3>2. Elements(n, c)[k] \in Container[child(n, k - 1)]
      BY <1>2, ElementsFit
    <3>. QED BY <3>1, <3>2 DEF ResizesFit
  <2>2. s = [k \in 1 .. degree(n) |-> s[k]]
    OBVIOUS
  <2>3. Resized(g, n, c) = Inner(s)
    BY <1>2 DEF Resized
  <2> HIDE DEF s
  <2>. QED BY <1>2, <2>1, <2>2, <2>3, InnerFits
<1>. QED BY <1>1, <1>2

(* resizeImpl resizes the elements, and resizes what is in them.           *)
LEMMA ResizeUnfolds ==
  ASSUME Nests
  PROVE  \A n \in Node : \A c \in Container[n] :
           /\ resizeImpl(c, n) \in Container[n]
           /\ isLeaf(n) => resizeImpl(c, n) = c
           /\ ~ isLeaf(n) => resizeImpl(c, n) =
                Inner([k \in 1 .. degree(n) |-> resizeImpl(Elements(n, c)[k], child(n, k - 1))])
<1> DEFINE V == UNION {[S -> NestedValue] : S \in SUBSET NestedValue}
           guarded(g, n) == [c \in Container[n] |->
                               IF Resized(g, n, c) \in NestedValue THEN Resized(g, n, c) ELSE Leaf(DefaultValue)]
           step == [x \in Node \X [Node -> V] |-> guarded(x[2], x[1])]
           v(g, n) ==
             [c \in Container[n] |->
                IF isLeaf(n)
                  THEN c
                  ELSE LET elements == IF TagOf(n) = "DynamicPowerNodeTag"
                                         THEN resize(c.children, n)
                                         ELSE c.children
                       IN  Inner([k \in 1 .. degree(n) |->
                                    g[child(n, k - 1)][elements[k]]])]
           sized == CHOOSE g : g = [n \in Node |-> v(g, n)]
<1>1. ASSUME NEW n \in Node PROVE Container[n] \subseteq NestedValue
  BY ContainerNested
<1>2. step \in [Node \X [Node -> V] -> V]
  <2> SUFFICES ASSUME NEW x \in Node \X [Node -> V] PROVE guarded(x[2], x[1]) \in V
    OBVIOUS
  <2>1. Leaf(DefaultValue) \in NestedValue
    BY LeafNested, ValueAssumption
  <2>2. guarded(x[2], x[1]) \in [Container[x[1]] -> NestedValue]
    BY <2>1
  <2>3. Container[x[1]] \in SUBSET NestedValue
    BY <1>1
  <2> HIDE DEF guarded
  <2>. QED BY <2>2, <2>3
<1>3. LooksBelow(step, Node, V, LevelOf)
  <2> SUFFICES ASSUME NEW d \in Node, NEW g \in [Node -> V], NEW h \in [Node -> V],
                      \A e \in Node : LevelOf[e] < LevelOf[d] => g[e] = h[e]
               PROVE  step[<< d, g >>] = step[<< d, h >>]
    BY DEF LooksBelow
  <2>1. step[<< d, g >>] = guarded(g, d) /\ step[<< d, h >>] = guarded(h, d)
    OBVIOUS
  <2>2. ASSUME NEW k \in 1 .. degree(d) PROVE g[child(d, k - 1)] = h[child(d, k - 1)]
    <3>1. child(d, k - 1) \in Node /\ Level[TypeOf[child(d, k - 1)]] < Level[TypeOf[d]]
      BY ChildOf
    <3>. QED BY <3>1 DEF LevelOf
  <2>3. \A c : Resized(g, d, c) = Resized(h, d, c)
    <3> TAKE c
    <3>1. [k \in 1 .. degree(d) |-> g[child(d, k - 1)][Elements(d, c)[k]]]
            = [k \in 1 .. degree(d) |-> h[child(d, k - 1)][Elements(d, c)[k]]]
      BY <2>2
    <3>. QED BY <3>1 DEF Resized
  <2>4. guarded(g, d) = guarded(h, d)
    BY <2>3
  <2>. QED BY <2>1, <2>4
<1>4. PICK f \in [Node -> V] : Obeys(f, Node, step)
  <2>1. [c \in {} |-> c] \in V
    <3>1. [c \in {} |-> c] \in [{} -> NestedValue] /\ {} \in SUBSET NestedValue
      OBVIOUS
    <3>. QED BY <3>1
  <2> DEFINE e == [c \in {} |-> c]
  <2>2. e \in V
    BY <2>1
  <2> HIDE DEF V, step, e
  <2>. QED BY <1>2, <1>3, <2>2, LevelDecreases, RecursionFromBelow
<1>5. \A n \in Node : f[n] = guarded(f, n)
  <2> SUFFICES ASSUME NEW n \in Node PROVE f[n] = guarded(f, n)
    OBVIOUS
  <2>1. f[n] = step[<< n, f >>]
    BY <1>4 DEF Obeys
  <2>2. step[<< n, f >>] = guarded(f, n)
    OBVIOUS
  <2> HIDE DEF step, guarded
  <2>. QED BY <2>1, <2>2
<1> HIDE DEF step, V
<1>6. \A n \in Node : ResizesFit(f, n) /\ f[n] = [c \in Container[n] |-> Resized(f, n, c)]
  <2> DEFINE Good(n) == ResizesFit(f, n) /\ f[n] = [c \in Container[n] |-> Resized(f, n, c)]
             T == {n \in Node : Good(n)}
  <2>1. ASSUME NEW n \in Node, \A e \in Node : LevelOf[e] < LevelOf[n] => e \in T PROVE n \in T
    <3>1. \A m \in Node : LevelOf[m] < LevelOf[n] => ResizesFit(f, m)
      BY <2>1
    <3>2. \A c \in Container[n] : Resized(f, n, c) \in Container[n]
      BY <3>1, ResizedFits
    <3>3. \A c \in Container[n] : Resized(f, n, c) \in NestedValue
      BY <1>1, <3>2
    <3>4. f[n] = [c \in Container[n] |-> Resized(f, n, c)]
      BY <1>5, <3>3
    <3>5. ResizesFit(f, n)
      BY <3>2, <3>4 DEF ResizesFit
    <3>. QED BY <3>4, <3>5
  <2>2. Node \subseteq T
    <3> HIDE DEF T
    <3>. QED BY <2>1, LevelDecreases, RankInduction
  <2>. QED BY <2>2
<1> HIDE DEF guarded
<1>7. ASSUME NEW g, NEW n PROVE v(g, n) = [c \in Container[n] |-> Resized(g, n, c)]
  BY DEF Resized, Elements
<1>8. f = [n \in Node |-> v(f, n)]
  <2>1. \A n \in Node : f[n] = v(f, n)
    <3> SUFFICES ASSUME NEW n \in Node PROVE f[n] = v(f, n)
      OBVIOUS
    <3>1. f[n] = [c \in Container[n] |-> Resized(f, n, c)]
      BY <1>6
    <3>2. v(f, n) = [c \in Container[n] |-> Resized(f, n, c)]
      BY <1>7, ZenonT(60)
    <3> HIDE DEF v
    <3>. QED BY <3>1, <3>2
  <2> HIDE DEF v
  <2>. QED BY <1>4, <2>1
<1>9. sized = [n \in Node |-> v(sized, n)]
  <2>1. \E g : g = [n \in Node |-> v(g, n)]
    BY <1>8
  <2> HIDE DEF v
  <2>. QED BY <2>1
<1>10. \A c, n : resizeImpl(c, n) = sized[n][c]
  BY DEF resizeImpl
<1> HIDE DEF sized
<1>11. ASSUME NEW n \in Node PROVE sized[n] = [c \in Container[n] |-> Resized(sized, n, c)]
  <2> DEFINE w(m) == v(sized, m)
  <2>1. sized = [m \in Node |-> w(m)]
    BY <1>9
  <2>2. w(n) = [c \in Container[n] |-> Resized(sized, n, c)]
    BY <1>7
  <2> HIDE DEF w
  <2>. QED BY <2>1, <2>2
<1> HIDE DEF v
<1>12. \A n \in Node : ResizesFit(sized, n)
  <2> DEFINE T == {n \in Node : ResizesFit(sized, n)}
  <2>1. ASSUME NEW n \in Node, \A e \in Node : LevelOf[e] < LevelOf[n] => e \in T PROVE n \in T
    <3>1. \A m \in Node : LevelOf[m] < LevelOf[n] => ResizesFit(sized, m)
      BY <2>1
    <3>2. \A c \in Container[n] : Resized(sized, n, c) \in Container[n]
      BY <3>1, ResizedFits
    <3>. QED BY <1>11, <3>2 DEF ResizesFit
  <2>2. Node \subseteq T
    <3> HIDE DEF T
    <3>. QED BY <2>1, LevelDecreases, RankInduction
  <2>. QED BY <2>2
<1> SUFFICES ASSUME NEW n \in Node, NEW c \in Container[n]
             PROVE  /\ resizeImpl(c, n) \in Container[n]
                    /\ isLeaf(n) => resizeImpl(c, n) = c
                    /\ ~ isLeaf(n) => resizeImpl(c, n) =
                         Inner([k \in 1 .. degree(n) |->
                                  resizeImpl(Elements(n, c)[k], child(n, k - 1))])
  OBVIOUS
<1>13. resizeImpl(c, n) = Resized(sized, n, c)
  BY <1>10, <1>11
<1>14. resizeImpl(c, n) \in Container[n]
  BY <1>10, <1>12 DEF ResizesFit
<1>15. [k \in 1 .. degree(n) |-> sized[child(n, k - 1)][Elements(n, c)[k]]]
         = [k \in 1 .. degree(n) |-> resizeImpl(Elements(n, c)[k], child(n, k - 1))]
  BY <1>10
<1>. QED BY <1>13, <1>14, <1>15 DEF Resized

-----------------------------------------------------------------------------
(* What is found along a path, and then one index further.                 *)
InnerOf(X, i) == {x.children[i + 1] : x \in {y \in X : i < Len(y.children)}}

Finds(g, c, path) ==
  /\ g[0] = {c}
  /\ \A k \in 1 .. Len(path) : g[k] = InnerOf(g[k - 1], path[k])
  /\ accessByTreePath(c, path) = g[Len(path)]

LEMMA AccessIterates ==
  ASSUME NEW c, NEW path \in TreePath
  PROVE  \E g : Finds(g, c, path)
<1> DEFINE v(g, k) == IF k = 0 THEN {c}
                      ELSE {x.children[path[k] + 1] :
                              x \in {y \in g[k - 1] : path[k] < Len(y.children)}}
           Up(g, n) == g = [k \in 0 .. n |-> v(g, k)]
           T == {n \in Nat : \E g : Up(g, n)}
           l == Len(path)
<1>1. 0 \in T
  <2>1. Up([k \in 0 .. 0 |-> {c}], 0)
    OBVIOUS
  <2>. QED BY <2>1
<1>2. ASSUME NEW n \in Nat, n \in T PROVE n + 1 \in T
  <2>1. PICK g : Up(g, n)
    BY <1>2
  <2> DEFINE h == [k \in 0 .. n + 1 |-> v(g, k)]
  <2>2. ASSUME NEW k \in 0 .. n PROVE g[k] = v(g, k) /\ h[k] = g[k]
    <3>1. g[k] = v(g, k)
      <4> DEFINE w(j) == v(g, j)
      <4>1. g = [j \in 0 .. n |-> w(j)]
        BY <2>1
      <4> HIDE DEF w
      <4>2. g[k] = w(k)
        BY <4>1
      <4>. QED BY <4>2 DEF w
    <3>2. k \in 0 .. n + 1
      OBVIOUS
    <3> HIDE DEF v
    <3>. QED BY <3>1, <3>2
  <2>3. ASSUME NEW k \in 0 .. n + 1 PROVE v(h, k) = v(g, k)
    <3>1. CASE k = 0
      BY <3>1
    <3>2. CASE k # 0
      <4>1. k - 1 \in 0 .. n
        BY <3>2
      <4>2. h[k - 1] = g[k - 1]
        BY <2>2, <4>1
      <4> HIDE DEF h
      <4>. QED BY <3>2, <4>2
    <3>. QED BY <3>1, <3>2
  <2>4. Up(h, n + 1)
    <3> DEFINE w(k) == v(h, k)
               u(k) == v(g, k)
    <3>1. \A k \in 0 .. n + 1 : w(k) = u(k)
      BY <2>3
    <3>2. h = [k \in 0 .. n + 1 |-> u(k)]
      OBVIOUS
    <3> HIDE DEF w, u, h
    <3>3. h = [k \in 0 .. n + 1 |-> w(k)]
      BY <3>1, <3>2
    <3>. QED BY <3>3 DEF w
  <2> HIDE DEF h, Up
  <2>. QED BY <2>4
<1>3. Nat \subseteq T
  <2> HIDE DEF T
  <2>. QED BY <1>1, <1>2, CountingInduction
<1>4. l \in Nat
  BY DEF TreePath
<1>5. \E g : Up(g, l)
  BY <1>3, <1>4
<1> DEFINE found == CHOOSE g : Up(g, l)
<1>6. Up(found, l)
  <2> HIDE DEF Up
  <2>. QED BY <1>5
<1>7. accessByTreePath(c, path) = found[Len(path)]
  BY DEF accessByTreePath
<1> HIDE DEF found
<1> DEFINE w(k) == v(found, k)
<1>8. found = [k \in 0 .. l |-> w(k)]
  BY <1>6
<1>9. \A k \in 0 .. l : found[k] = w(k)
  <2> HIDE DEF w
  <2>. QED BY <1>8
<1>10. found[0] = {c}
  <2>1. 0 \in 0 .. l
    BY <1>4
  <2>. QED BY <1>9, <2>1
<1>11. \A k \in 1 .. l : found[k] = InnerOf(found[k - 1], path[k])
  <2>1. \A k \in 1 .. l : k \in 0 .. l /\ k # 0
    BY <1>4
  <2>. QED BY <1>9, <2>1 DEF InnerOf
<1>. QED BY <1>7, <1>10, <1>11 DEF Finds

(* What is at a path is found by the rest of it from the element its head  *)
(* names.                                                                  *)
LEMMA AccessUnfolds ==
  ASSUME NEW c, NEW path \in TreePath
  PROVE  /\ path = << >> => accessByTreePath(c, path) = {c}
         /\ path # << >> =>
              accessByTreePath(c, path) =
                IF Head(path) < Len(c.children)
                  THEN accessByTreePath(c.children[Head(path) + 1], Tail(path)) ELSE {}
<1>1. PICK g : Finds(g, c, path)
  BY AccessIterates
<1>2. ASSUME path = << >> PROVE accessByTreePath(c, path) = {c}
  <2>1. Len(path) = 0
    BY <1>2
  <2>. QED BY <1>1, <2>1 DEF Finds
<1>3. ASSUME path # << >>
      PROVE  accessByTreePath(c, path) =
                IF Head(path) < Len(c.children)
                  THEN accessByTreePath(c.children[Head(path) + 1], Tail(path)) ELSE {}
  <2> DEFINE i == Head(path)
             t == Tail(path)
             d == c.children[i + 1]
             l == Len(path)
  <2>1. /\ i \in Nat /\ t \in TreePath /\ i = path[1] /\ l \in Nat \ {0} /\ Len(t) = l - 1
        /\ \A k \in 1 .. l - 1 : t[k] = path[k + 1]
    BY <1>3, PathTail
  <2>2. g[1] = InnerOf({c}, i)
    <3>1. 1 \in 1 .. l /\ 1 - 1 = 0
      BY <2>1
    <3>. QED BY <1>1, <2>1, <3>1 DEF Finds
  <2> HIDE DEF t, l, i, d
  <2>3. CASE i < Len(c.children)
    <3>1. g[1] = {d}
      BY <2>2, <2>3 DEF InnerOf, d
    <3>2. PICK h : Finds(h, d, t)
      BY <2>1, AccessIterates
    <3> DEFINE T == {k \in Nat : k + 1 <= l => h[k] = g[k + 1]}
    <3>3. 0 \in T
      <4>1. h[0] = {d} /\ 0 + 1 = 1
        BY <3>2 DEF Finds
      <4>. QED BY <3>1, <4>1
    <3>4. ASSUME NEW k \in Nat, k \in T PROVE k + 1 \in T
      <4> SUFFICES ASSUME (k + 1) + 1 <= l PROVE h[k + 1] = g[(k + 1) + 1]
        OBVIOUS
      <4>1. /\ k + 1 \in 1 .. Len(t) /\ (k + 1) - 1 = k /\ (k + 1) + 1 \in 1 .. l
            /\ ((k + 1) + 1) - 1 = k + 1 /\ k + 1 \in 1 .. l - 1 /\ k + 1 <= l
        BY <2>1
      <4>2. h[k + 1] = InnerOf(h[k], t[k + 1])
        BY <3>2, <4>1 DEF Finds
      <4>3. g[(k + 1) + 1] = InnerOf(g[k + 1], path[(k + 1) + 1])
        BY <1>1, <4>1 DEF Finds, l
      <4>4. h[k] = g[k + 1]
        BY <3>4, <4>1
      <4>. QED BY <2>1, <4>1, <4>2, <4>3, <4>4
    <3>5. Nat \subseteq T
      <4> HIDE DEF T
      <4>. QED BY <3>3, <3>4, CountingInduction
    <3>6. Len(t) \in Nat /\ Len(t) + 1 = l /\ Len(t) + 1 <= l
      BY <2>1
    <3>7. h[Len(t)] = g[l]
      BY <3>5, <3>6
    <3>8. accessByTreePath(d, t) = h[Len(t)] /\ accessByTreePath(c, path) = g[l]
      BY <1>1, <3>2 DEF Finds, l
    <3>. QED BY <2>3, <3>7, <3>8 DEF d, t, i
  <2>4. CASE ~ (i < Len(c.children))
    <3>1. g[1] = {}
      BY <2>2, <2>4 DEF InnerOf
    <3> DEFINE T == {k \in Nat : k + 1 <= l => g[k + 1] = {}}
    <3>2. 0 \in T
      BY <3>1
    <3>3. ASSUME NEW k \in Nat, k \in T PROVE k + 1 \in T
      <4> SUFFICES ASSUME (k + 1) + 1 <= l PROVE g[(k + 1) + 1] = {}
        OBVIOUS
      <4>1. (k + 1) + 1 \in 1 .. l /\ ((k + 1) + 1) - 1 = k + 1 /\ k + 1 <= l
        BY <2>1
      <4>2. g[(k + 1) + 1] = InnerOf(g[k + 1], path[(k + 1) + 1])
        BY <1>1, <4>1 DEF Finds, l
      <4>3. g[k + 1] = {}
        BY <3>3, <4>1
      <4>. QED BY <4>2, <4>3 DEF InnerOf
    <3>4. Nat \subseteq T
      <4> HIDE DEF T
      <4>. QED BY <3>2, <3>3, CountingInduction
    <3>5. l - 1 \in Nat /\ (l - 1) + 1 = l /\ l <= l
      BY <2>1
    <3>6. g[l] = {}
      BY <3>4, <3>5
    <3>7. accessByTreePath(c, path) = g[l]
      BY <1>1 DEF Finds, l
    <3>. QED BY <2>4, <3>6, <3>7 DEF i
  <2>. QED BY <2>3, <2>4
<1>. QED BY <1>2, <1>3

(* Assignment: what has been found along the path, innermost first.        *)
Part(c, path, k) == CHOOSE x \in accessByTreePath(c, SubSeq(path, 1, k)) : TRUE

Rebuilt(p, i, y) == Inner([p.children EXCEPT ![i + 1] = y])

Builds(g, c, path, v) ==
  /\ g[0] = Leaf(v)
  /\ \A up \in 1 .. Len(path) :
       g[up] = Rebuilt(Part(c, path, Len(path) - up), path[Len(path) - up + 1], g[up - 1])
  /\ Assigned(c, path, v) = g[Len(path)]

LEMMA AssignedIterates ==
  ASSUME NEW c, NEW path \in TreePath, NEW v
  PROVE  \E g : Builds(g, c, path, v)
<1> DEFINE l == Len(path)
           part(k) == CHOOSE x \in accessByTreePath(c, SubSeq(path, 1, k)) : TRUE
           a(g, up) == LET k == Len(path) - up
                       IN  IF up = 0
                             THEN Leaf(v)
                             ELSE Inner([part(k).children EXCEPT ![path[k + 1] + 1] = g[up - 1]])
           Up(g, n) == g = [up \in 0 .. n |-> a(g, up)]
           T == {n \in Nat : \E g : Up(g, n)}
<1> HIDE DEF part
<1>1. 0 \in T
  <2>1. Up([k \in 0 .. 0 |-> Leaf(v)], 0)
    OBVIOUS
  <2>. QED BY <2>1
<1>2. ASSUME NEW n \in Nat, n \in T PROVE n + 1 \in T
  <2>1. PICK g : Up(g, n)
    BY <1>2
  <2> DEFINE h == [k \in 0 .. n + 1 |-> a(g, k)]
  <2>2. ASSUME NEW k \in 0 .. n PROVE h[k] = g[k]
    <3>1. g[k] = a(g, k)
      <4> DEFINE w(j) == a(g, j)
      <4>1. g = [j \in 0 .. n |-> w(j)]
        BY <2>1
      <4> HIDE DEF w
      <4>2. g[k] = w(k)
        BY <4>1
      <4>. QED BY <4>2 DEF w
    <3>2. k \in 0 .. n + 1
      OBVIOUS
    <3> HIDE DEF a
    <3>. QED BY <3>1, <3>2
  <2>3. ASSUME NEW k \in 0 .. n + 1 PROVE a(h, k) = a(g, k)
    <3>1. CASE k = 0
      BY <3>1
    <3>2. CASE k # 0
      <4>1. k - 1 \in 0 .. n
        BY <3>2
      <4>2. h[k - 1] = g[k - 1]
        BY <2>2, <4>1
      <4> HIDE DEF h
      <4>. QED BY <3>2, <4>2
    <3>. QED BY <3>1, <3>2
  <2>4. Up(h, n + 1)
    <3> DEFINE w(k) == a(h, k)
               u(k) == a(g, k)
    <3>1. \A k \in 0 .. n + 1 : w(k) = u(k)
      BY <2>3
    <3>2. h = [k \in 0 .. n + 1 |-> u(k)]
      OBVIOUS
    <3> HIDE DEF w, u, h
    <3>3. h = [k \in 0 .. n + 1 |-> w(k)]
      BY <3>1, <3>2
    <3>. QED BY <3>3 DEF w
  <2> HIDE DEF h, Up
  <2>. QED BY <2>4
<1>3. Nat \subseteq T
  <2> HIDE DEF T
  <2>. QED BY <1>1, <1>2, CountingInduction
<1>4. l \in Nat
  BY DEF TreePath
<1>5. \E g : Up(g, l)
  BY <1>3, <1>4
<1> DEFINE assigned == CHOOSE g : Up(g, l)
<1>6. Up(assigned, l)
  <2> HIDE DEF Up
  <2>. QED BY <1>5
<1>7. Assigned(c, path, v) = assigned[Len(path)]
  BY DEF Assigned, part
<1> HIDE DEF assigned
<1> DEFINE w(k) == a(assigned, k)
<1>8. assigned = [k \in 0 .. l |-> w(k)]
  BY <1>6
<1>9. \A k \in 0 .. l : assigned[k] = w(k)
  <2> HIDE DEF w
  <2>. QED BY <1>8
<1>10. assigned[0] = Leaf(v)
  <2>1. 0 \in 0 .. l
    BY <1>4
  <2>. QED BY <1>9, <2>1
<1>11. \A k \in 1 .. l : assigned[k] =
                           Rebuilt(Part(c, path, l - k), path[l - k + 1], assigned[k - 1])
  <2>1. \A k \in 1 .. l : k \in 0 .. l /\ k # 0
    BY <1>4
  <2>2. \A k : part(k) = Part(c, path, k)
    BY DEF part, Part
  <2>. QED BY <1>9, <2>1, <2>2 DEF Rebuilt
<1>. QED BY <1>7, <1>10, <1>11 DEF Builds

(* Assigning at a path assigns at the rest of it in the element its head   *)
(* names.                                                                  *)
LEMMA AssignedUnfolds ==
  ASSUME NEW c, NEW path \in TreePath, NEW v
  PROVE  /\ path = << >> => Assigned(c, path, v) = Leaf(v)
         /\ path # << >> /\ Head(path) < Len(c.children) =>
              Assigned(c, path, v) =
                Rebuilt(c, Head(path), Assigned(c.children[Head(path) + 1], Tail(path), v))
<1>1. PICK g : Builds(g, c, path, v)
  BY AssignedIterates
<1>2. ASSUME path = << >> PROVE Assigned(c, path, v) = Leaf(v)
  <2>1. Len(path) = 0
    BY <1>2
  <2>. QED BY <1>1, <2>1 DEF Builds
<1>3. ASSUME path # << >>, Head(path) < Len(c.children)
      PROVE  Assigned(c, path, v) =
               Rebuilt(c, Head(path), Assigned(c.children[Head(path) + 1], Tail(path), v))
  <2> DEFINE i == Head(path)
             t == Tail(path)
             d == c.children[i + 1]
             l == Len(path)
  <2>1. /\ i \in Nat /\ t \in TreePath /\ i = path[1] /\ l \in Nat \ {0} /\ Len(t) = l - 1
        /\ \A k \in 1 .. l - 1 : t[k] = path[k + 1]
    BY <1>3, PathTail
  <2>2. ASSUME NEW k \in 1 .. l PROVE Part(c, path, k) = Part(d, t, k - 1)
    <3>1. k \in 0 .. Len(path) /\ k # 0
      BY <2>1
    <3>2. /\ SubSeq(path, 1, k) \in TreePath /\ SubSeq(path, 1, k) # << >>
          /\ Head(SubSeq(path, 1, k)) = i /\ Tail(SubSeq(path, 1, k)) = SubSeq(t, 1, k - 1)
      BY <3>1, PathPrefix
    <3> DEFINE r == SubSeq(path, 1, k)
    <3> HIDE DEF r, i, t, d
    <3>3. accessByTreePath(c, r) = accessByTreePath(c.children[i + 1], Tail(r))
      BY <1>3, <3>2, AccessUnfolds DEF r, i
    <3>4. accessByTreePath(c, SubSeq(path, 1, k)) = accessByTreePath(d, SubSeq(t, 1, k - 1))
      BY <3>2, <3>3 DEF r, d
    <3>. QED BY <3>4 DEF Part
  <2>3. Part(c, path, 0) = c
    <3>1. 0 \in 0 .. Len(path) /\ << >> \in TreePath
      BY <2>1 DEF TreePath
    <3>2. SubSeq(path, 1, 0) = << >>
      BY <3>1, PathPrefix
    <3>3. accessByTreePath(c, << >>) = {c}
      BY <3>1, AccessUnfolds
    <3>4. (CHOOSE x \in {c} : TRUE) = c
      OBVIOUS
    <3>. QED BY <3>2, <3>3, <3>4 DEF Part
  <2>4. PICK h : Builds(h, d, t, v)
    BY <2>1, AssignedIterates
  <2> HIDE DEF t, l, i, d
  <2> DEFINE T == {k \in Nat : k <= l - 1 => g[k] = h[k]}
  <2>5. 0 \in T
    BY <1>1, <2>4 DEF Builds
  <2>6. ASSUME NEW k \in Nat, k \in T PROVE k + 1 \in T
    <3> SUFFICES ASSUME k + 1 <= l - 1 PROVE g[k + 1] = h[k + 1]
      OBVIOUS
    <3>1. /\ k + 1 \in 1 .. l /\ k + 1 \in 1 .. Len(t) /\ (k + 1) - 1 = k /\ k <= l - 1
          /\ l - (k + 1) \in 1 .. l /\ (l - (k + 1)) - 1 = Len(t) - (k + 1)
          /\ Len(t) - (k + 1) + 1 \in 1 .. l - 1
          /\ (Len(t) - (k + 1) + 1) + 1 = l - (k + 1) + 1
      BY <2>1
    <3>2. g[k + 1] = Rebuilt(Part(c, path, l - (k + 1)), path[l - (k + 1) + 1], g[k])
      BY <1>1, <3>1 DEF Builds, l
    <3>3. h[k + 1] = Rebuilt(Part(d, t, Len(t) - (k + 1)), t[Len(t) - (k + 1) + 1], h[k])
      BY <2>4, <3>1 DEF Builds
    <3>4. g[k] = h[k]
      BY <2>6, <3>1
    <3>5. Part(c, path, l - (k + 1)) = Part(d, t, Len(t) - (k + 1))
      BY <2>2, <3>1
    <3>6. t[Len(t) - (k + 1) + 1] = path[l - (k + 1) + 1]
      BY <2>1, <3>1
    <3>. QED BY <3>2, <3>3, <3>4, <3>5, <3>6
  <2>7. Nat \subseteq T
    <3> HIDE DEF T
    <3>. QED BY <2>5, <2>6, CountingInduction
  <2>8. l - 1 \in Nat /\ l - 1 <= l - 1 /\ l \in 1 .. l /\ l - l = 0 /\ l - l + 1 = 1
    BY <2>1
  <2>9. g[l - 1] = h[l - 1]
    BY <2>7, <2>8
  <2>10. g[l] = Rebuilt(Part(c, path, 0), path[1], g[l - 1])
    BY <1>1, <2>8 DEF Builds, l
  <2>11. Assigned(c, path, v) = g[l] /\ Assigned(d, t, v) = h[l - 1]
    BY <1>1, <2>1, <2>4 DEF Builds, l
  <2>12. Assigned(c, path, v) = Rebuilt(c, i, Assigned(d, t, v))
    BY <2>1, <2>3, <2>9, <2>10, <2>11
  <2>. QED BY <2>12 DEF d, t, i
<1>. QED BY <1>2, <1>3

-----------------------------------------------------------------------------
(* What a container holds at a path.                                       *)
Held(c, path) == UNION {x.of : x \in accessByTreePath(c, path)}

LEMMA HeldUnfolds ==
  ASSUME NEW c, NEW path \in TreePath
  PROVE  /\ path = << >> => Held(c, path) = c.of
         /\ path # << >> =>
              Held(c, path) = IF Head(path) < Len(c.children)
                                THEN Held(c.children[Head(path) + 1], Tail(path)) ELSE {}
<1>1. ASSUME path = << >> PROVE Held(c, path) = c.of
  <2>1. accessByTreePath(c, path) = {c}
    BY <1>1, AccessUnfolds
  <2>. QED BY <2>1 DEF Held
<1>2. ASSUME path # << >>
      PROVE  Held(c, path) = IF Head(path) < Len(c.children)
                               THEN Held(c.children[Head(path) + 1], Tail(path)) ELSE {}
  <2>1. accessByTreePath(c, path) =
          IF Head(path) < Len(c.children)
            THEN accessByTreePath(c.children[Head(path) + 1], Tail(path)) ELSE {}
    BY <1>2, AccessUnfolds
  <2>2. CASE Head(path) < Len(c.children)
    BY <2>1, <2>2 DEF Held
  <2>3. CASE ~ (Head(path) < Len(c.children))
    BY <2>1, <2>3 DEF Held
  <2>. QED BY <2>2, <2>3
<1>. QED BY <1>1, <1>2

LEMMA LeafHolds ==
  ASSUME NEW v, NEW path \in TreePath
  PROVE  Held(Leaf(v), path) = IF path = << >> THEN {v} ELSE {}
<1>1. Leaf(v).of = {v} /\ Leaf(v).children = << >> /\ Len(<< >>) = 0
  BY DEF Leaf
<1>2. path # << >> => Head(path) \in Nat /\ ~ (Head(path) < 0)
  BY PathTail
<1>. QED BY <1>1, <1>2, HeldUnfolds

LEMMA InnerHolds ==
  ASSUME NEW s, NEW path \in TreePath
  PROVE  Held(Inner(s), path) = IF path # << >> /\ Head(path) < Len(s)
                                  THEN Held(s[Head(path) + 1], Tail(path)) ELSE {}
<1>1. Inner(s).of = {} /\ Inner(s).children = s
  BY DEF Inner
<1>. QED BY <1>1, HeldUnfolds

(* The leaf paths of a leaf, and of an inner node.                         *)
LEMMA LeafPathsUnfold ==
  ASSUME NEW n \in Node, NEW q \in TreePath
  PROVE  /\ q = << >> => (q \in LeafPaths(n) <=> isLeaf(n))
         /\ q # << >> => (q \in LeafPaths(n) <=> 
                            /\ checkChildIndex(n, Head(q))
                            /\ Tail(q) \in LeafPaths(child(n, Head(q))))
<1>1. q \in LeafPaths(n) <=> AtLeaf(n, q)
  BY LeafPathsAre
<1>2. ASSUME q # << >>, checkChildIndex(n, Head(q))
      PROVE  Tail(q) \in LeafPaths(child(n, Head(q))) <=> AtLeaf(child(n, Head(q)), Tail(q))
  <2>1. Head(q) \in Nat /\ Tail(q) \in TreePath
    BY <1>2, PathTail
  <2>2. child(n, Head(q)) \in Node
    BY <1>2, <2>1, StepDown
  <2>. QED BY <2>1, <2>2, LeafPathsAre
<1>. QED BY <1>1, <1>2, AtLeafUnfolds

(* A made container holds, for every leaf, what the predicate says of it.  *)
LEMMA FactoryHolds ==
  ASSUME Nests, NEW f \in [Node -> Value]
  PROVE  \A n \in Node, p \in TreePath :
           Held(ContainerFactory(f, n), p) =
             IF p \in LeafPaths(n) THEN {f[NodeAt(n, p)]} ELSE {}
<1> DEFINE Good(n) == \A p \in TreePath :
                        Held(ContainerFactory(f, n), p) =
                          IF p \in LeafPaths(n) THEN {f[NodeAt(n, p)]} ELSE {}
           T == {n \in Node : Good(n)}
<1>1. ASSUME NEW n \in Node, \A e \in Node : LevelOf[e] < LevelOf[n] => e \in T PROVE n \in T
  <2> SUFFICES ASSUME NEW p \in TreePath
               PROVE  Held(ContainerFactory(f, n), p) =
                        IF p \in LeafPaths(n) THEN {f[NodeAt(n, p)]} ELSE {}
    OBVIOUS
  <2> DEFINE s == [k \in 1 .. degree(n) |-> ContainerFactory(f, child(n, k - 1))]
  <2>1. ContainerFactory(f, n) = IF isLeaf(n) THEN Leaf(f[n]) ELSE Inner(s)
    BY FactoryUnfolds
  <2>2. CASE isLeaf(n)
    <3>1. Held(ContainerFactory(f, n), p) = IF p = << >> THEN {f[n]} ELSE {}
      BY <2>1, <2>2, LeafHolds
    <3>2. p # << >> => Head(p) \in Nat
      BY PathTail
    <3>3. p \in LeafPaths(n) <=> p = << >>
      BY <2>2, <3>2, LeafPathsUnfold, LeafHasNoChild
    <3>. QED BY <3>1, <3>3, NodeAtUnfolds
  <2>3. CASE ~ isLeaf(n)
    <3>1. Len(s) = degree(n) /\ \A k \in 1 .. degree(n) : s[k] = ContainerFactory(f, child(n, k - 1))
      <4>1. degree(n) \in Nat
        BY TreeAssumption DEF NodeAssumption, degree
      <4>. QED BY <4>1
    <3> HIDE DEF s
    <3>2. Held(ContainerFactory(f, n), p) = IF p # << >> /\ Head(p) < degree(n)
                                              THEN Held(s[Head(p) + 1], Tail(p)) ELSE {}
      BY <2>1, <2>3, <3>1, InnerHolds
    <3>3. CASE p = << >>
      BY <2>3, <3>2, <3>3, LeafPathsUnfold
    <3>4. CASE p # << >> /\ ~ checkChildIndex(n, Head(p))
      BY <3>2, <3>4, LeafPathsUnfold DEF checkChildIndex
    <3>5. CASE p # << >> /\ checkChildIndex(n, Head(p))
      <4> DEFINE m == child(n, Head(p))
                 t == Tail(p)
      <4>1. Head(p) \in Nat /\ t \in TreePath
        BY <3>5, PathTail
      <4>2. /\ m \in Node /\ LevelOf[m] < LevelOf[n] /\ Head(p) + 1 \in 1 .. degree(n)
            /\ (Head(p) + 1) - 1 = Head(p)
        BY <3>5, <4>1, StepDown
      <4>3. s[Head(p) + 1] = ContainerFactory(f, m)
        BY <3>1, <4>2
      <4>4. Held(ContainerFactory(f, n), p) = Held(ContainerFactory(f, m), t)
        BY <3>2, <3>5, <4>3 DEF checkChildIndex
      <4>5. p \in LeafPaths(n) <=> t \in LeafPaths(m)
        BY <3>5, LeafPathsUnfold
      <4>6. NodeAt(n, p) = NodeAt(m, t)
        BY <3>5, NodeAtUnfolds
      <4> HIDE DEF m, t
      <4>7. Good(m)
        BY <1>1, <4>2
      <4>. QED BY <4>1, <4>4, <4>5, <4>6, <4>7
    <3>. QED BY <3>3, <3>4, <3>5
  <2>. QED BY <2>2, <2>3
<1>2. Node \subseteq T
  <2> HIDE DEF T
  <2>. QED BY <1>1, LevelDecreases, RankInduction
<1>. QED BY <1>2

(* A default-constructed one holds the default value where the class says  *)
(* that there is a leaf.                                                   *)
LEMMA DefaultHolds ==
  ASSUME Nests
  PROVE  \A n \in Node, p \in TreePath :
           Held(DefaultContainer[n], p) = IF p \in StaticPaths(n) THEN {DefaultValue} ELSE {}
<1> DEFINE Good(n) == \A p \in TreePath :
                        Held(DefaultContainer[n], p) =
                          IF p \in StaticPaths(n) THEN {DefaultValue} ELSE {}
           T == {n \in Node : Good(n)}
<1>1. ASSUME NEW n \in Node, \A e \in Node : LevelOf[e] < LevelOf[n] => e \in T PROVE n \in T
  <2> SUFFICES ASSUME NEW p \in TreePath
               PROVE  Held(DefaultContainer[n], p) =
                        IF p \in StaticPaths(n) THEN {DefaultValue} ELSE {}
    OBVIOUS
  <2>1. DefaultContainer[n] = DefaultStep(DefaultContainer, n)
    BY DefaultUnfolds
  <2>2. CASE isLeaf(n)
    <3>4. DefaultContainer[n] = Leaf(DefaultValue)
      BY <2>1, <2>2 DEF DefaultStep, isLeaf
    <3>1. Held(DefaultContainer[n], p) = IF p = << >> THEN {DefaultValue} ELSE {}
      BY <3>4, LeafHolds
    <3>2. p # << >> => Head(p) \in Nat
      BY PathTail
    <3>3. p \in StaticPaths(n) <=> p = << >>
      BY <2>2, <3>2, StaticUnfolds, LeafHasNoChild
    <3>. QED BY <3>1, <3>3
  <2>3. CASE ~ isLeaf(n) /\ TagOf(n) = "DynamicPowerNodeTag"
    <3>1. DefaultContainer[n] = Inner(<< >>)
      BY <2>1, <2>3 DEF DefaultStep
    <3>2. p # << >> => Head(p) \in Nat /\ ~ (Head(p) < 0)
      BY PathTail
    <3>3. Held(DefaultContainer[n], p) = {}
      BY <3>1, <3>2, InnerHolds
    <3>4. p \notin StaticPaths(n)
      BY <2>3, StaticUnfolds
    <3>. QED BY <3>3, <3>4
  <2>4. CASE ~ isLeaf(n) /\ TagOf(n) # "DynamicPowerNodeTag"
    <3> DEFINE s == [k \in 1 .. degree(n) |-> DefaultContainer[child(n, k - 1)]]
    <3>1. Len(s) = degree(n) /\ \A k \in 1 .. degree(n) : s[k] = DefaultContainer[child(n, k - 1)]
      <4>1. degree(n) \in Nat
        BY TreeAssumption DEF NodeAssumption, degree
      <4>. QED BY <4>1
    <3>2. DefaultContainer[n] = Inner(s)
      BY <2>1, <2>4 DEF DefaultStep
    <3> HIDE DEF s
    <3>3. Held(DefaultContainer[n], p) = IF p # << >> /\ Head(p) < degree(n)
                                           THEN Held(s[Head(p) + 1], Tail(p)) ELSE {}
      BY <3>1, <3>2, InnerHolds
    <3>4. CASE p = << >>
      BY <2>4, <3>3, <3>4, StaticUnfolds
    <3>5. CASE p # << >> /\ ~ checkChildIndex(n, Head(p))
      BY <3>3, <3>5, StaticUnfolds DEF checkChildIndex
    <3>6. CASE p # << >> /\ checkChildIndex(n, Head(p))
      <4> DEFINE m == child(n, Head(p))
                 t == Tail(p)
      <4>1. Head(p) \in Nat /\ t \in TreePath
        BY <3>6, PathTail
      <4>2. /\ m \in Node /\ LevelOf[m] < LevelOf[n] /\ Head(p) + 1 \in 1 .. degree(n)
            /\ (Head(p) + 1) - 1 = Head(p)
        BY <3>6, <4>1, StepDown
      <4>3. s[Head(p) + 1] = DefaultContainer[m]
        BY <3>1, <4>2
      <4>4. Held(DefaultContainer[n], p) = Held(DefaultContainer[m], t)
        BY <3>3, <3>6, <4>3 DEF checkChildIndex
      <4>5. p \in StaticPaths(n) <=> t \in StaticPaths(m)
        BY <2>4, <3>6, StaticUnfolds
      <4> HIDE DEF m, t
      <4>6. Good(m)
        BY <1>1, <4>2
      <4>. QED BY <4>1, <4>4, <4>5, <4>6
    <3>. QED BY <3>4, <3>5, <3>6
  <2>. QED BY <2>2, <2>3, <2>4
<1>2. Node \subseteq T
  <2> HIDE DEF T
  <2>. QED BY <1>1, LevelDecreases, RankInduction
<1>. QED BY <1>2

(* A resized one holds what it held, and the default value at new leafs.   *)
LEMMA ResizeHolds ==
  ASSUME Nests
  PROVE  \A n \in Node : \A c \in Container[n], p \in TreePath :
           Held(resizeImpl(c, n), p) =
             IF p \in LeafPaths(n)
               THEN IF Held(c, p) # {} THEN Held(c, p) ELSE {DefaultValue}
               ELSE {}
<1> DEFINE Good(n) == \A c \in Container[n], p \in TreePath :
                        Held(resizeImpl(c, n), p) =
                          IF p \in LeafPaths(n)
                            THEN IF Held(c, p) # {} THEN Held(c, p) ELSE {DefaultValue}
                            ELSE {}
           T == {n \in Node : Good(n)}
<1>1. ASSUME NEW n \in Node, \A e \in Node : LevelOf[e] < LevelOf[n] => e \in T PROVE n \in T
  <2> SUFFICES ASSUME NEW c \in Container[n], NEW p \in TreePath
               PROVE  Held(resizeImpl(c, n), p) =
                          IF p \in LeafPaths(n)
                            THEN IF Held(c, p) # {} THEN Held(c, p) ELSE {DefaultValue}
                            ELSE {}
    OBVIOUS
  <2> DEFINE s == [k \in 1 .. degree(n) |-> resizeImpl(Elements(n, c)[k], child(n, k - 1))]
  <2>1. /\ isLeaf(n) => resizeImpl(c, n) = c
        /\ ~ isLeaf(n) => resizeImpl(c, n) = Inner(s)
    BY ResizeUnfolds
  <2>2. CASE isLeaf(n)
    <3>1. PICK v \in Value : c = Leaf(v)
      BY <2>2, LeafContainer
    <3>2. Held(c, p) = IF p = << >> THEN {v} ELSE {}
      BY <3>1, LeafHolds
    <3>3. p # << >> => Head(p) \in Nat
      BY PathTail
    <3>4. p \in LeafPaths(n) <=> p = << >>
      BY <2>2, <3>3, LeafPathsUnfold, LeafHasNoChild
    <3>. QED BY <2>1, <2>2, <3>2, <3>4
  <2>3. CASE ~ isLeaf(n)
    <3>1. /\ Len(s) = degree(n)
          /\ \A k \in 1 .. degree(n) : s[k] = resizeImpl(Elements(n, c)[k], child(n, k - 1))
      <4>1. degree(n) \in Nat
        BY TreeAssumption DEF NodeAssumption, degree
      <4>. QED BY <4>1
    <3> HIDE DEF s
    <3>2. Held(resizeImpl(c, n), p) = IF p # << >> /\ Head(p) < degree(n)
                                        THEN Held(s[Head(p) + 1], Tail(p)) ELSE {}
      BY <2>1, <2>3, <3>1, InnerHolds
    <3>3. CASE p = << >>
      BY <2>3, <3>2, <3>3, LeafPathsUnfold
    <3>4. CASE p # << >> /\ ~ checkChildIndex(n, Head(p))
      BY <3>2, <3>4, LeafPathsUnfold DEF checkChildIndex
    <3>5. CASE p # << >> /\ checkChildIndex(n, Head(p))
      <4> DEFINE i == Head(p)
                 m == child(n, i)
                 t == Tail(p)
                 e == Elements(n, c)[i + 1]
      <4>1. i \in Nat /\ t \in TreePath
        BY <3>5, PathTail
      <4>2. m \in Node /\ LevelOf[m] < LevelOf[n] /\ i + 1 \in 1 .. degree(n) /\ (i + 1) - 1 = i
        BY <3>5, <4>1, StepDown
      <4>3. s[i + 1] = resizeImpl(e, m)
        BY <3>1, <4>2
      <4>4. Held(resizeImpl(c, n), p) = Held(resizeImpl(e, m), t)
        BY <3>2, <3>5, <4>3 DEF checkChildIndex
      <4>5. p \in LeafPaths(n) <=> t \in LeafPaths(m)
        BY <3>5, LeafPathsUnfold
      <4>6. /\ e = IF i + 1 <= Len(c.children) THEN c.children[i + 1] ELSE DefaultContainer[m]
            /\ e \in Container[m] /\ Len(c.children) \in Nat
        BY <2>3, <4>2, ElementsFit
      <4>7. Held(c, p) = IF i < Len(c.children) THEN Held(c.children[i + 1], t) ELSE {}
        BY <3>5, HeldUnfolds
      <4>8. Held(DefaultContainer[m], t) \in {{}, {DefaultValue}}
        BY <4>1, <4>2, DefaultHolds
      <4> HIDE DEF i, m, t, e
      <4>9. Good(m)
        BY <1>1, <4>2
      <4>10. Held(resizeImpl(e, m), t) =
               IF t \in LeafPaths(m)
                 THEN IF Held(e, t) # {} THEN Held(e, t) ELSE {DefaultValue}
                 ELSE {}
        BY <4>1, <4>6, <4>9
      <4>11. CASE i < Len(c.children)
        <5>1. i + 1 <= Len(c.children)
          BY <4>1, <4>6, <4>11
        <5>2. Held(c, p) = Held(e, t)
          BY <4>6, <4>7, <4>11, <5>1
        <5>. QED BY <4>4, <4>5, <4>10, <5>2
      <4>12. CASE ~ (i < Len(c.children))
        <5>1. ~ (i + 1 <= Len(c.children))
          BY <4>1, <4>6, <4>12
        <5>2. Held(c, p) = {} /\ e = DefaultContainer[m]
          BY <4>6, <4>7, <4>12, <5>1
        <5>. QED BY <4>4, <4>5, <4>8, <4>10, <5>2
      <4>. QED BY <4>11, <4>12
    <3>. QED BY <3>3, <3>4, <3>5
  <2>. QED BY <2>2, <2>3
<1>2. Node \subseteq T
  <2> HIDE DEF T
  <2>. QED BY <1>1, LevelDecreases, RankInduction
<1>. QED BY <1>2

(* At a leaf, a container holds one value or does not reach it.            *)
LEMMA ContainerHolds ==
  ASSUME Nests
  PROVE  \A n \in Node : \A c \in Container[n], p \in TreePath :
           p \in LeafPaths(n) =>
             \/ accessByTreePath(c, p) = {} /\ Held(c, p) = {}
             \/ \E v \in Value : Held(c, p) = {v}
<1> DEFINE Good(n) == \A c \in Container[n], p \in TreePath :
                        p \in LeafPaths(n) =>
                          \/ accessByTreePath(c, p) = {} /\ Held(c, p) = {}
                          \/ \E v \in Value : Held(c, p) = {v}
           T == {n \in Node : Good(n)}
<1>1. ASSUME NEW n \in Node, \A e \in Node : LevelOf[e] < LevelOf[n] => e \in T PROVE n \in T
  <2> SUFFICES ASSUME NEW c \in Container[n], NEW p \in TreePath, p \in LeafPaths(n)
               PROVE  \/ accessByTreePath(c, p) = {} /\ Held(c, p) = {}
                      \/ \E v \in Value : Held(c, p) = {v}
    OBVIOUS
  <2>1. CASE p = << >>
    <3>1. isLeaf(n)
      BY <2>1, LeafPathsUnfold
    <3>2. PICK v \in Value : c = Leaf(v)
      BY <3>1, LeafContainer
    <3>. QED BY <2>1, <3>2, LeafHolds
  <2>2. CASE p # << >>
    <3> DEFINE i == Head(p)
               m == child(n, i)
               t == Tail(p)
    <3>1. i \in Nat /\ t \in TreePath /\ checkChildIndex(n, i) /\ t \in LeafPaths(m)
      BY <2>2, PathTail, LeafPathsUnfold
    <3>2. /\ m \in Node /\ LevelOf[m] < LevelOf[n] /\ ~ isLeaf(n) /\ i + 1 \in 1 .. degree(n)
          /\ (i + 1) - 1 = i
      BY <3>1, StepDown
    <3>3. accessByTreePath(c, p) =
            IF i < Len(c.children) THEN accessByTreePath(c.children[i + 1], t) ELSE {}
      BY <2>2, AccessUnfolds
    <3>4. Held(c, p) = IF i < Len(c.children) THEN Held(c.children[i + 1], t) ELSE {}
      BY <2>2, HeldUnfolds
    <3>5. CASE i < Len(c.children)
      <4>1. c.children \in Seq(NestedValue) /\ degree(n) \in Nat
        BY <3>2, InnerContainer, TreeAssumption DEF NodeAssumption, degree
      <4>2. i + 1 \in 1 .. Len(c.children) /\ i + 1 <= degree(n)
        BY <3>1, <3>2, <3>5, <4>1
      <4>3. c.children[i + 1] \in Container[m]
        BY <3>2, <4>2, InnerContainer
      <4> HIDE DEF i, m, t
      <4>4. Good(m)
        BY <1>1, <3>2
      <4>. QED BY <3>1, <3>3, <3>4, <3>5, <4>3, <4>4
    <3>6. CASE ~ (i < Len(c.children))
      BY <3>3, <3>4, <3>6
    <3>. QED BY <3>5, <3>6
  <2>. QED BY <2>1, <2>2
<1>2. Node \subseteq T
  <2> HIDE DEF T
  <2>. QED BY <1>1, LevelDecreases, RankInduction
<1>. QED BY <1>2

(* A part replaced by one that fits the same child.                        *)
LEMMA SameClassOfChild ==
  ASSUME Nests, NEW n \in Node, NEW m \in Node, TypeOf[m] = TypeOf[n],
         NEW k \in 1 .. degree(n), k <= degree(m)
  PROVE  Container[child(m, k - 1)] = Container[child(n, k - 1)]
<1>1. degree(m) \in Nat /\ degree(n) \in Nat
  BY TreeAssumption DEF NodeAssumption, degree
<1>2. k \in 1 .. degree(m)
  BY <1>1
<1>3. child(m, k - 1) \in Node /\ child(m, k - 1) = Child[m][k]
  BY <1>2, ChildOf
<1>4. child(n, k - 1) \in Node /\ child(n, k - 1) = Child[n][k]
  BY ChildOf
<1>5. ~ isLeaf(n)
  <2>1. k - 1 \in Nat /\ checkChildIndex(n, k - 1)
    BY <1>1 DEF checkChildIndex
  <2>. QED BY <2>1, LeafHasNoChild
<1>6. TagOf(n) \in {"PowerNodeTag", "DynamicPowerNodeTag", "CompositeNodeTag"}
  BY <1>5, TreeAssumption DEF NodeAssumption, TagOf, isLeaf, NodeTags
<1>7. TypeOf[Child[m][k]] = TypeOf[Child[n][k]]
  BY <1>2, <1>6, TreeAssumption DEF ClassAssumption, degree
<1>. QED BY <1>3, <1>4, <1>7, ContainerOfClass

(* A container of a child is less deep than one of its parent.             *)
LEMMA PartNested ==
  ASSUME Nests, NEW n \in Node, NEW k \in 1 .. degree(n), NEW x \in Container[child(n, k - 1)]
  PROVE  x \in NestedValues[Level[TypeOf[n]]]
<1> DEFINE l == Level[TypeOf[n]]
           j == Level[TypeOf[child(n, k - 1)]] + 1
<1>1. /\ child(n, k - 1) \in Node /\ Level[TypeOf[child(n, k - 1)]] \in Nat
      /\ Level[TypeOf[child(n, k - 1)]] < l /\ l \in Nat
  BY ChildOf
<1>2. x \in NestedValues[j]
  BY <1>1, ContainerHas
<1>3. j \in Nat /\ j <= l
  BY <1>1
<1> HIDE DEF j, l
<1>4. NestedValues[j] \subseteq NestedValues[l]
  BY <1>1, <1>3, NestedValuesAre, StagesGrow
<1>. QED BY <1>2, <1>4 DEF l

(* Replacing one element by one that fits gives a container that fits.     *)
LEMMA RebuiltFits ==
  ASSUME Nests, NEW n \in Node, ~ isLeaf(n), NEW c \in Container[n], NEW i \in Nat,
         i < Len(c.children), checkChildIndex(n, i), NEW x \in Container[child(n, i)]
  PROVE  /\ Rebuilt(c, i, x) \in Container[n]
         /\ Rebuilt(c, i, x) = Inner(Rebuilt(c, i, x).children)
         /\ Len(Rebuilt(c, i, x).children) = Len(c.children)
         /\ \A k \in 1 .. Len(c.children) :
              Rebuilt(c, i, x).children[k] = IF k = i + 1 THEN x ELSE c.children[k]
<1> DEFINE l == Level[TypeOf[n]]
           s == c.children
           r == [s EXCEPT ![i + 1] = x]
<1>1. /\ c.of = {} /\ s \in Seq(NestedValue) /\ c = Inner(s)
      /\ TagOf(n) # "DynamicPowerNodeTag" => Len(s) = degree(n)
      /\ \A k \in 1 .. Len(s) : \A m \in Node :
           TypeOf[m] = TypeOf[n] /\ k <= degree(m) => s[k] \in Container[child(m, k - 1)]
  BY InnerContainer
<1>2. l \in Nat
  BY TreeAssumption DEF NodeAssumption
<1>3. NestedValues[l + 1] = TreesOver(SUBSET Value, NestedValues[l])
  <2> HIDE DEF l
  <2>. QED BY <1>2, NestedDeeper
<1>4. s \in Seq(NestedValues[l])
  <2>1. c \in NestedValues[l + 1]
    BY ContainerHas
  <2>. QED BY <1>3, <2>1 DEF TreesOver
<1>5. i + 1 \in 1 .. degree(n) /\ (i + 1) - 1 = i
  BY StepDown
<1>6. x \in NestedValues[l]
  BY <1>5, PartNested
<1>7. Rebuilt(c, i, x) = Inner(r)
  BY DEF Rebuilt
<1>8. Inner(r).of = {} /\ Inner(r).children = r
  BY DEF Inner
<1> HIDE DEF l
<1>9. /\ r \in Seq(NestedValues[l]) /\ Len(r) = Len(s) /\ Len(s) \in Nat
      /\ \A k \in 1 .. Len(s) : r[k] = IF k = i + 1 THEN x ELSE s[k]
  <2> HIDE DEF s
  <2>. QED BY <1>4, <1>6 DEF s
<1> HIDE DEF r
<1>10. Inner(r) \in NestedValues[l + 1]
  BY <1>3, <1>9 DEF TreesOver, Inner
<1>11. PartsFit(Container, n, Inner(r))
  <2> SUFFICES ASSUME NEW m \in Node, NEW k \in 1 .. Len(r), TypeOf[m] = TypeOf[n], k <= degree(m)
               PROVE  r[k] \in Container[child(m, k - 1)]
    BY <1>8 DEF PartsFit
  <2>1. CASE k = i + 1
    <3>1. Container[child(m, k - 1)] = Container[child(n, k - 1)]
      BY <1>5, <2>1, SameClassOfChild
    <3>2. child(n, k - 1) = child(n, i)
      BY <1>5, <2>1
    <3>. QED BY <1>9, <2>1, <3>1, <3>2
  <2>2. CASE k # i + 1
    BY <1>1, <1>9, <2>2
  <2>. QED BY <2>1, <2>2
<1>12. Fits(Container, n, Inner(r))
  BY <1>1, <1>8, <1>9, <1>11 DEF Fits
<1>13. Inner(r) \in Container[n]
  BY <1>10, <1>12, ContainerHas DEF l
<1>. QED BY <1>7, <1>8, <1>9, <1>13

(* After an assignment the container holds the new value at its path, and  *)
(* elsewhere what it held.                                                 *)
LEMMA AssignedHolds ==
  ASSUME Nests, NEW v \in Value
  PROVE  \A n \in Node : \A c \in Container[n], p \in TreePath :
           p \in LeafPaths(n) /\ accessByTreePath(c, p) # {} =>
             /\ Assigned(c, p, v) \in Container[n]
             /\ \A q \in TreePath :
                  Held(Assigned(c, p, v), q) = IF q = p THEN {v} ELSE Held(c, q)
<1> DEFINE RightOf(n, c, p) ==
             /\ Assigned(c, p, v) \in Container[n]
             /\ \A q \in TreePath :
                  Held(Assigned(c, p, v), q) = IF q = p THEN {v} ELSE Held(c, q)
           Good(n) == \A c \in Container[n], p \in TreePath :
                        p \in LeafPaths(n) /\ accessByTreePath(c, p) # {} => RightOf(n, c, p)
           T == {n \in Node : Good(n)}
<1>1. ASSUME NEW n \in Node, \A e \in Node : LevelOf[e] < LevelOf[n] => e \in T PROVE n \in T
  <2> SUFFICES ASSUME NEW c \in Container[n], NEW p \in TreePath, p \in LeafPaths(n),
                      accessByTreePath(c, p) # {}
               PROVE  RightOf(n, c, p)
    OBVIOUS
  <2>1. CASE p = << >>
    <3>1. isLeaf(n)
      BY <2>1, LeafPathsUnfold
    <3>2. PICK u \in Value : c = Leaf(u)
      BY <3>1, LeafContainer
    <3>3. Assigned(c, p, v) = Leaf(v)
      BY <2>1, AssignedUnfolds
    <3>4. Leaf(v) \in Container[n]
      BY <3>1, LeafContainer
    <3>5. \A q \in TreePath : /\ Held(Leaf(v), q) = IF q = << >> THEN {v} ELSE {}
                              /\ Held(Leaf(u), q) = IF q = << >> THEN {u} ELSE {}
      BY LeafHolds
    <3>. QED BY <2>1, <3>2, <3>3, <3>4, <3>5
  <2>2. CASE p # << >>
    <3> DEFINE i == Head(p)
               m == child(n, i)
               t == Tail(p)
               d == c.children[i + 1]
               x == Assigned(d, t, v)
               r == Rebuilt(c, i, x)
    <3>1. i \in Nat /\ t \in TreePath /\ checkChildIndex(n, i) /\ t \in LeafPaths(m)
      BY <2>2, PathTail, LeafPathsUnfold
    <3>2. /\ m \in Node /\ LevelOf[m] < LevelOf[n] /\ ~ isLeaf(n) /\ i + 1 \in 1 .. degree(n)
          /\ (i + 1) - 1 = i
      BY <3>1, StepDown
    <3>3. i < Len(c.children) /\ accessByTreePath(d, t) # {}
      <4>1. accessByTreePath(c, p) = IF i < Len(c.children) THEN accessByTreePath(d, t) ELSE {}
        BY <2>2, AccessUnfolds
      <4>. QED BY <4>1
    <3>4. c.children \in Seq(NestedValue) /\ degree(n) \in Nat /\ c.of = {} /\ c = Inner(c.children)
      BY <3>2, InnerContainer, TreeAssumption DEF NodeAssumption, degree
    <3>5. i + 1 \in 1 .. Len(c.children) /\ i + 1 <= degree(n)
      BY <3>1, <3>2, <3>3, <3>4
    <3>6. d \in Container[m]
      BY <3>2, <3>5, InnerContainer
    <3>7. Assigned(c, p, v) = r
      BY <2>2, <3>3, AssignedUnfolds
    <3> HIDE DEF m, d, x, t, i
    <3>8. Good(m)
      BY <1>1, <3>2
    <3>9. x \in Container[m] /\ \A q \in TreePath : Held(x, q) = IF q = t THEN {v} ELSE Held(d, q)
      BY <3>1, <3>3, <3>6, <3>8 DEF x
    <3>10. /\ r \in Container[n] /\ r = Inner(r.children) /\ Len(r.children) = Len(c.children)
           /\ \A k \in 1 .. Len(c.children) : r.children[k] = IF k = i + 1 THEN x ELSE c.children[k]
      <4>1. x \in Container[child(n, i)]
        BY <3>9 DEF m
      <4>. QED BY <3>1, <3>2, <3>3, <4>1, RebuiltFits
    <3> HIDE DEF r
    <3>11. ASSUME NEW q \in TreePath PROVE Held(r, q) = IF q = p THEN {v} ELSE Held(c, q)
      <4>1. /\ Held(r, q) = IF q # << >> /\ Head(q) < Len(c.children)
                              THEN Held(r.children[Head(q) + 1], Tail(q)) ELSE {}
            /\ Held(c, q) = IF q # << >> /\ Head(q) < Len(c.children)
                              THEN Held(c.children[Head(q) + 1], Tail(q)) ELSE {}
        BY <3>4, <3>10, InnerHolds
      <4>2. CASE q = << >>
        BY <2>2, <4>1, <4>2
      <4>3. CASE q # << >>
        <5> DEFINE j == Head(q)
                   u == Tail(q)
        <5>1. j \in Nat /\ u \in TreePath
          BY <4>3, PathTail
        <5>2. q = p <=> j = i /\ u = t
          <6>1. q = << j >> \o u /\ p = << i >> \o t
            BY <2>2, <4>3, PathSplits DEF i, t
          <6>2. q = p => j = i /\ u = t
            BY DEF i, t
          <6> HIDE DEF j, u
          <6>. QED BY <6>1, <6>2
        <5> HIDE DEF j, u
        <5>3. /\ Held(r, q) = IF j < Len(c.children) THEN Held(r.children[j + 1], u) ELSE {}
              /\ Held(c, q) = IF j < Len(c.children) THEN Held(c.children[j + 1], u) ELSE {}
          BY <4>1, <4>3 DEF j, u
        <5>4. CASE j = i
          <6>1. r.children[j + 1] = x /\ c.children[j + 1] = d
            BY <3>5, <3>10, <5>4 DEF d
          <6>2. Held(r, q) = Held(x, u) /\ Held(c, q) = Held(d, u)
            BY <3>3, <5>3, <5>4, <6>1
          <6>. QED BY <3>9, <5>1, <5>2, <5>4, <6>2
        <5>5. CASE j # i /\ j < Len(c.children)
          <6>1. Len(c.children) \in Nat
            BY <3>4
          <6>2. j + 1 \in 1 .. Len(c.children) /\ j + 1 # i + 1
            BY <3>1, <5>1, <5>5, <6>1
          <6>3. r.children[j + 1] = c.children[j + 1]
            BY <3>10, <6>2
          <6>. QED BY <5>2, <5>3, <5>5, <6>3
        <5>6. CASE j # i /\ ~ (j < Len(c.children))
          BY <5>2, <5>3, <5>6
        <5>. QED BY <5>4, <5>5, <5>6
      <4>. QED BY <4>2, <4>3
    <3>. QED BY <3>7, <3>10, <3>11
  <2>. QED BY <2>1, <2>2
<1>2. Node \subseteq T
  <2> HIDE DEF T
  <2>. QED BY <1>1, LevelDecreases, RankInduction
<1>3. \A n \in Node : Good(n)
  BY <1>2
<1>. QED BY <1>3

-----------------------------------------------------------------------------
(* The container fits the class of the tree, and the leafs it has values   *)
(* for are those of the tree it was made or resized for, or those any tree *)
(* of its class has.                                                       *)
HoldsAt(c, P) == \A p \in TreePath : Held(c, p) # {} <=> p \in P

ContainerInv ==
  /\ Nests
  /\ tree \in Node
  /\ container \in Container[tree]
  /\ \E m \in Node :
       /\ TypeOf[m] = TypeOf[tree]
       /\ \/ sizedFor = {m} /\ HoldsAt(container, LeafPaths(m))
          \/ sizedFor = {} /\ HoldsAt(container, StaticPaths(m))

LEMMA FactoryHoldsAt ==
  ASSUME Nests, NEW f \in [Node -> Value], NEW n \in Node
  PROVE  HoldsAt(ContainerFactory(f, n), LeafPaths(n))
  BY FactoryHolds DEF HoldsAt

LEMMA DefaultHoldsAt ==
  ASSUME Nests, NEW n \in Node
  PROVE  HoldsAt(DefaultContainer[n], StaticPaths(n))
  BY DefaultHolds DEF HoldsAt

LEMMA ResizeHoldsAt ==
  ASSUME Nests, NEW n \in Node, NEW c \in Container[n]
  PROVE  HoldsAt(resizeImpl(c, n), LeafPaths(n))
<1> SUFFICES ASSUME NEW p \in TreePath
             PROVE  Held(resizeImpl(c, n), p) # {} <=> p \in LeafPaths(n)
  BY DEF HoldsAt
<1>1. Held(resizeImpl(c, n), p) =
        IF p \in LeafPaths(n)
          THEN IF Held(c, p) # {} THEN Held(c, p) ELSE {DefaultValue}
          ELSE {}
  BY ResizeHolds
<1>. QED BY <1>1

LEMMA AssignedHoldsAt ==
  ASSUME Nests, NEW n \in Node, NEW c \in Container[n], NEW p \in TreePath, p \in LeafPaths(n),
         accessByTreePath(c, p) # {}, NEW v \in Value
  PROVE  /\ Held(c, p) # {}
         /\ \A q \in TreePath : Held(Assigned(c, p, v), q) # {} <=> Held(c, q) # {}
<1>1. Held(c, p) # {}
  BY ContainerHolds
<1>2. \A q \in TreePath : Held(Assigned(c, p, v), q) = IF q = p THEN {v} ELSE Held(c, q)
  BY AssignedHolds
<1>. QED BY <1>1, <1>2

LEMMA InitContainerInv == ContainerInit => ContainerInv
<1> SUFFICES ASSUME ContainerInit PROVE ContainerInv
  OBVIOUS
<1>1. Nests /\ tree \in Node /\ container = DefaultContainer[tree] /\ sizedFor = {}
  BY DEF ContainerInit, StoreInit
<1>. QED BY <1>1, DefaultFits, DefaultHoldsAt DEF ContainerInv

(* Every operation preserves the invariant.                                *)
LEMMA NextContainerInv == ContainerInv /\ [ContainerNext]_containerVars => ContainerInv'
<1> SUFFICES ASSUME ContainerInv, [ContainerNext]_containerVars PROVE ContainerInv'
  OBVIOUS
<1>1. Nests /\ tree \in Node /\ container \in Container[tree]
  BY DEF ContainerInv
<1>2. PICK m \in Node :
        /\ TypeOf[m] = TypeOf[tree]
        /\ \/ sizedFor = {m} /\ HoldsAt(container, LeafPaths(m))
           \/ sizedFor = {} /\ HoldsAt(container, StaticPaths(m))
  BY DEF ContainerInv
<1>3. CASE makeTreeContainer
  <2>1. PICK f \in LeafToValue : container' = ContainerFactory(f, tree)
    BY <1>3 DEF makeTreeContainer
  <2>2. f \in [Node -> Value]
    BY ValueAssumption
  <2>3. container' \in Container[tree] /\ HoldsAt(container', LeafPaths(tree))
    BY <1>1, <2>1, <2>2, FactoryFits, FactoryHoldsAt
  <2>4. tree' = tree /\ sizedFor' = {tree}
    BY <1>3 DEF makeTreeContainer
  <2>. QED BY <1>1, <2>3, <2>4 DEF ContainerInv
<1>4. CASE DefaultConstruct
  <2>1. container' = DefaultContainer[tree] /\ tree' = tree /\ sizedFor' = {}
    BY <1>4 DEF DefaultConstruct
  <2>2. container' \in Container[tree] /\ HoldsAt(container', StaticPaths(tree))
    BY <1>1, <2>1, DefaultFits, DefaultHoldsAt
  <2>. QED BY <1>1, <2>1, <2>2 DEF ContainerInv
<1>5. CASE ConstructFromTree
  <2>1. /\ container' = resizeImpl(DefaultContainer[tree], tree)
        /\ tree' = tree /\ sizedFor' = {tree}
    BY <1>5 DEF ConstructFromTree
  <2>2. DefaultContainer[tree] \in Container[tree]
    BY <1>1, DefaultFits
  <2>3. container' \in Container[tree] /\ HoldsAt(container', LeafPaths(tree))
    BY <1>1, <2>1, <2>2, ResizeUnfolds, ResizeHoldsAt
  <2>. QED BY <1>1, <2>1, <2>3 DEF ContainerInv
<1>6. CASE Resize
  <2>1. container' = resizeImpl(container, tree) /\ tree' = tree /\ sizedFor' = {tree}
    BY <1>6 DEF Resize
  <2>2. container' \in Container[tree] /\ HoldsAt(container', LeafPaths(tree))
    BY <1>1, <2>1, ResizeUnfolds, ResizeHoldsAt
  <2>. QED BY <1>1, <2>1, <2>2 DEF ContainerInv
<1>7. CASE Assign
  <2>1. PICK path \in LeafPaths(tree), v \in Value :
          /\ accessByTreePath(container, path) # {}
          /\ container' = Assigned(container, path, v)
    BY <1>7 DEF Assign
  <2>2. path \in TreePath
    BY <1>1, LeafPathsAre
  <2>3. container' \in Container[tree]
    BY <1>1, <2>1, <2>2, AssignedHolds
  <2>4. \A q \in TreePath : Held(container', q) # {} <=> Held(container, q) # {}
    BY <1>1, <2>1, <2>2, AssignedHoldsAt
  <2>5. \A P : HoldsAt(container, P) => HoldsAt(container', P)
    BY <2>4 DEF HoldsAt
  <2>6. tree' = tree /\ sizedFor' = sizedFor
    BY <1>7 DEF Assign
  <2>7. \/ sizedFor = {m} /\ HoldsAt(container', LeafPaths(m))
        \/ sizedFor = {} /\ HoldsAt(container', StaticPaths(m))
    BY <1>2, <2>5
  <2>. QED BY <1>1, <1>2, <2>3, <2>6, <2>7 DEF ContainerInv
<1>8. CASE ReplaceTree
  <2>1. tree' \in Node /\ TypeOf[tree'] = TypeOf[tree] /\ container' = container /\ sizedFor' = sizedFor
    BY <1>8 DEF ReplaceTree
  <2>2. Container[tree'] = Container[tree]
    BY <1>1, <2>1, ContainerOfClass
  <2>. QED BY <1>1, <1>2, <2>1, <2>2 DEF ContainerInv
<1>9. CASE UNCHANGED containerVars
  <2>1. tree' = tree /\ container' = container /\ sizedFor' = sizedFor
    BY <1>9 DEF containerVars
  <2>. QED BY <1>1, <1>2, <2>1 DEF ContainerInv
<1>. QED BY <1>3, <1>4, <1>5, <1>6, <1>7, <1>8, <1>9 DEF ContainerNext

LEMMA ContainerInvariance == ContainerSpec => []ContainerInv
<1>. QED BY InitContainerInv, NextContainerInv, PTL DEF ContainerSpec

(* Once the container has been made or resized for the tree, every leaf    *)
(* path of the tree, and no other leaf path, leads to a value in it,       *)
(* whatever is assigned and whatever the tree becomes in between: for all  *)
(* trees without a PowerNode of degree 1 over a PowerNode (Nests), the     *)
(* ones whose containers can be accessed by path at all.                   *)
THEOREM SizedIsAccessibleAlways == ContainerSpec => []SizedIsAccessible
<1>1. ContainerInv => SizedIsAccessible
  <2> SUFFICES ASSUME ContainerInv, NEW t \in sizedFor, NEW n \in Node, NEW path \in LeafPaths(n)
               PROVE  (\E x \in accessByTreePath(container, path) : x.of # {})
                        <=> path \in LeafPaths(t)
    BY DEF SizedIsAccessible
  <2>1. HoldsAt(container, LeafPaths(t))
    BY DEF ContainerInv
  <2>2. path \in TreePath
    BY LeafPathsAre
  <2>3. Held(container, path) # {} <=> path \in LeafPaths(t)
    BY <2>1, <2>2 DEF HoldsAt
  <2>. QED BY <2>3 DEF Held
<1>. QED BY <1>1, ContainerInvariance, PTL

-----------------------------------------------------------------------------
(* The container as a map: the paths it has values for, of those a tree of *)
(* its class may have, and the values.                                     *)
Stored(t, c) ==
  {p \in UNION {LeafPaths(n) : n \in {m \in Node : TypeOf[m] = TypeOf[t]}} :
     \E x \in accessByTreePath(c, p) : x.of # {}}

ValueAt(c, p) == CHOOSE v \in Held(c, p) : TRUE

MapOf(t, c) == [p \in Stored(t, c) |-> ValueAt(c, p)]

(* The map has the paths at which the container holds a value, and the     *)
(* values.                                                                 *)
LEMMA StoredAre ==
  ASSUME NEW t \in Node, NEW c, NEW m \in Node, TypeOf[m] = TypeOf[t],
         NEW P, P \subseteq LeafPaths(m), HoldsAt(c, P)
  PROVE  Stored(t, c) = P
<1>1. \A n \in Node : LeafPaths(n) \subseteq TreePath
  BY LeafPathsAre
<1>2. \A p \in TreePath : (\E x \in accessByTreePath(c, p) : x.of # {}) <=> p \in P
  BY DEF HoldsAt, Held
<1>3. \A p \in P : p \in UNION {LeafPaths(n) : n \in {k \in Node : TypeOf[k] = TypeOf[t]}}
  OBVIOUS
<1>. QED BY <1>1, <1>2, <1>3 DEF Stored

LEMMA StoredHold ==
  ASSUME NEW t \in Node, NEW c, NEW p \in Stored(t, c)
  PROVE  p \in TreePath /\ Held(c, p) # {}
<1>1. \A n \in Node : LeafPaths(n) \subseteq TreePath
  BY LeafPathsAre
<1>. QED BY <1>1 DEF Stored, Held

LEMMA StaticAreLeafs ==
  ASSUME NEW n
  PROVE  StaticPaths(n) \subseteq LeafPaths(n)
  BY DEF StaticPaths

(* What each operation does to the map.                                    *)
LEMMA MapOfFactory ==
  ASSUME Nests, NEW f \in [Node -> Value], NEW t \in Node
  PROVE  MapOf(t, ContainerFactory(f, t)) = [p \in LeafPaths(t) |-> f[NodeAt(t, p)]]
<1> DEFINE c == ContainerFactory(f, t)
<1>1. Stored(t, c) = LeafPaths(t)
  BY FactoryHoldsAt, StoredAre
<1>2. \A p \in LeafPaths(t) : ValueAt(c, p) = f[NodeAt(t, p)]
  <2> TAKE p \in LeafPaths(t)
  <2>1. Held(c, p) = {f[NodeAt(t, p)]}
    BY FactoryHolds, LeafPathsAre
  <2>. QED BY <2>1 DEF ValueAt
<1>. QED BY <1>1, <1>2 DEF MapOf

LEMMA MapOfDefault ==
  ASSUME Nests, NEW t \in Node
  PROVE  MapOf(t, DefaultContainer[t]) = [p \in StaticPaths(t) |-> DefaultValue]
<1> DEFINE c == DefaultContainer[t]
<1>1. Stored(t, c) = StaticPaths(t)
  BY DefaultHoldsAt, StoredAre, StaticAreLeafs
<1>2. \A p \in StaticPaths(t) : ValueAt(c, p) = DefaultValue
  <2> TAKE p \in StaticPaths(t)
  <2>1. p \in TreePath
    BY StaticAreLeafs, LeafPathsAre
  <2>2. Held(c, p) = {DefaultValue}
    BY <2>1, DefaultHolds
  <2>. QED BY <2>2 DEF ValueAt
<1>. QED BY <1>1, <1>2 DEF MapOf

LEMMA MapOfResized ==
  ASSUME Nests, NEW t \in Node, NEW c \in Container[t], NEW m \in Node, TypeOf[m] = TypeOf[t],
         NEW P, P \subseteq LeafPaths(m), HoldsAt(c, P)
  PROVE  MapOf(t, resizeImpl(c, t)) =
           [p \in LeafPaths(t) |-> IF p \in DOMAIN MapOf(t, c) THEN MapOf(t, c)[p] ELSE DefaultValue]
<1> DEFINE d == resizeImpl(c, t)
<1>1. Stored(t, c) = P
  BY StoredAre
<1>2. Stored(t, d) = LeafPaths(t)
  BY ResizeHoldsAt, StoredAre
<1>3. ASSUME NEW p \in LeafPaths(t)
      PROVE  ValueAt(d, p) = IF p \in P THEN ValueAt(c, p) ELSE DefaultValue
  <2>1. p \in TreePath
    BY LeafPathsAre
  <2>2. Held(d, p) = IF Held(c, p) # {} THEN Held(c, p) ELSE {DefaultValue}
    BY <2>1, ResizeHolds
  <2>3. Held(c, p) # {} <=> p \in P
    BY <2>1 DEF HoldsAt
  <2>. QED BY <2>2, <2>3 DEF ValueAt
<1>4. DOMAIN MapOf(t, c) = P /\ \A p \in P : MapOf(t, c)[p] = ValueAt(c, p)
  BY <1>1 DEF MapOf
<1>. QED BY <1>2, <1>3, <1>4 DEF MapOf

LEMMA MapOfAssigned ==
  ASSUME Nests, NEW t \in Node, NEW c \in Container[t], NEW path \in LeafPaths(t),
         accessByTreePath(c, path) # {}, NEW v \in Value
  PROVE  /\ path \in DOMAIN MapOf(t, c)
         /\ MapOf(t, Assigned(c, path, v)) = [MapOf(t, c) EXCEPT ![path] = v]
<1> DEFINE d == Assigned(c, path, v)
<1>1. path \in TreePath /\ \A n \in Node : LeafPaths(n) \subseteq TreePath
  BY LeafPathsAre
<1>2. \A q \in TreePath : Held(d, q) = IF q = path THEN {v} ELSE Held(c, q)
  BY <1>1, AssignedHolds
<1>3. Held(c, path) # {}
  BY <1>1, AssignedHoldsAt
<1> HIDE DEF d
<1>4. path \in Stored(t, c)
  BY <1>3 DEF Stored, Held
<1>5. \A q \in TreePath : (\E x \in accessByTreePath(d, q) : x.of # {})
                            <=> (\E x \in accessByTreePath(c, q) : x.of # {})
  <2>1. \A q \in TreePath : Held(d, q) # {} <=> Held(c, q) # {}
    BY <1>2, <1>3
  <2>. QED BY <2>1 DEF Held
<1>6. Stored(t, d) = Stored(t, c)
  BY <1>1, <1>5 DEF Stored
<1>7. \A q \in Stored(t, c) : ValueAt(d, q) = IF q = path THEN v ELSE ValueAt(c, q)
  <2> TAKE q \in Stored(t, c)
  <2>1. Held(d, q) = IF q = path THEN {v} ELSE Held(c, q)
    BY <1>2, StoredHold
  <2>. QED BY <2>1 DEF ValueAt
<1>8. MapOf(t, d) = [MapOf(t, c) EXCEPT ![path] = v]
  BY <1>6, <1>7 DEF MapOf
<1>. QED BY <1>4, <1>8 DEF MapOf, d

LEMMA MapOfOtherTree ==
  ASSUME NEW t, NEW u, TypeOf[u] = TypeOf[t], NEW c
  PROVE  MapOf(u, c) = MapOf(t, c)
  BY DEF MapOf, Stored

LEMMA InitMap == ContainerInit => MapOfLeafs!Init
<1> SUFFICES ASSUME ContainerInit PROVE MapOfLeafs!Init
  OBVIOUS
<1>1. Nests /\ tree \in Node /\ container = DefaultContainer[tree]
  BY DEF ContainerInit, StoreInit
<1>2. [p \in StoredPaths |-> CHOOSE v \in UNION {x.of : x \in accessByTreePath(container, p)} : TRUE]
        = MapOf(tree, container)
  BY DEF StoredPaths, MapOf, Stored, ValueAt, Held
<1>3. MapOf(tree, container) = [p \in StaticPaths(tree) |-> DefaultValue]
  BY <1>1, MapOfDefault
<1>. QED BY <1>1, <1>2, <1>3 DEF MapOfLeafs!Init

(* Every step is a step of the map, or leaves it alone.                    *)
LEMMA StepsMap ==
  ContainerInv /\ [ContainerNext]_containerVars =>
    [MapOfLeafs!Next]_<< tree, [p \in StoredPaths |->
                                  CHOOSE v \in UNION {x.of : x \in accessByTreePath(container, p)} : TRUE] >>
<1> SUFFICES ASSUME ContainerInv, [ContainerNext]_containerVars
             PROVE  [MapOfLeafs!Next]_<< tree, [p \in StoredPaths |->
                      CHOOSE v \in UNION {x.of : x \in accessByTreePath(container, p)} : TRUE] >>
  OBVIOUS
<1> DEFINE map == [p \in StoredPaths |->
                     CHOOSE v \in UNION {x.of : x \in accessByTreePath(container, p)} : TRUE]
<1>1. Nests /\ tree \in Node /\ container \in Container[tree]
  BY DEF ContainerInv
<1>2. PICK m \in Node : 
        /\ TypeOf[m] = TypeOf[tree]
        /\ \E P : P \subseteq LeafPaths(m) /\ HoldsAt(container, P)
  BY StaticAreLeafs DEF ContainerInv
<1>3. map = MapOf(tree, container) /\ map' = MapOf(tree', container')
  BY DEF StoredPaths, MapOf, Stored, ValueAt, Held
<1> HIDE DEF map
<1>4. CASE makeTreeContainer
  <2>1. PICK f \in LeafToValue : container' = ContainerFactory(f, tree)
    BY <1>4 DEF makeTreeContainer
  <2>2. tree' = tree /\ f \in [Node -> Value]
    BY <1>4, ValueAssumption DEF makeTreeContainer
  <2>3. map' = [p \in LeafPaths(tree) |-> f[NodeAt(tree, p)]]
    BY <1>1, <1>3, <2>1, <2>2, MapOfFactory
  <2>. QED BY <2>2, <2>3 DEF MapOfLeafs!Next, MapOfLeafs!Made, map
<1>5. CASE DefaultConstruct
  <2>1. container' = DefaultContainer[tree] /\ tree' = tree
    BY <1>5 DEF DefaultConstruct
  <2>2. map' = [p \in StaticPaths(tree) |-> DefaultValue]
    BY <1>1, <1>3, <2>1, MapOfDefault
  <2>. QED BY <2>1, <2>2 DEF MapOfLeafs!Next, MapOfLeafs!Cleared, map
<1>6. CASE ConstructFromTree
  <2>1. container' = resizeImpl(DefaultContainer[tree], tree) /\ tree' = tree
    BY <1>6 DEF ConstructFromTree
  <2> DEFINE c == DefaultContainer[tree]
  <2>2. c \in Container[tree] /\ HoldsAt(c, StaticPaths(tree))
    BY <1>1, DefaultFits, DefaultHoldsAt
  <2>3. MapOf(tree, c) = [p \in StaticPaths(tree) |-> DefaultValue]
    BY <1>1, MapOfDefault
  <2> HIDE DEF c
  <2>4. MapOf(tree, resizeImpl(c, tree)) =
          [p \in LeafPaths(tree) |->
             IF p \in DOMAIN MapOf(tree, c) THEN MapOf(tree, c)[p] ELSE DefaultValue]
    BY <1>1, <2>2, StaticAreLeafs, MapOfResized
  <2>5. MapOf(tree, resizeImpl(c, tree)) = [p \in LeafPaths(tree) |-> DefaultValue]
    BY <2>3, <2>4
  <2>6. map' = [p \in LeafPaths(tree) |-> DefaultValue]
    BY <1>3, <2>1, <2>5 DEF c
  <2>. QED BY <2>1, <2>6 DEF MapOfLeafs!Next, MapOfLeafs!Cleared, map
<1>7. CASE Resize
  <2>1. container' = resizeImpl(container, tree) /\ tree' = tree
    BY <1>7 DEF Resize
  <2>2. MapOf(tree, resizeImpl(container, tree)) =
          [p \in LeafPaths(tree) |->
             IF p \in DOMAIN MapOf(tree, container) THEN MapOf(tree, container)[p] ELSE DefaultValue]
    BY <1>1, <1>2, MapOfResized
  <2>3. map' = [p \in LeafPaths(tree) |-> IF p \in DOMAIN map THEN map[p] ELSE DefaultValue]
    BY <1>3, <2>1, <2>2
  <2>. QED BY <2>1, <2>3 DEF MapOfLeafs!Next, MapOfLeafs!Resized, map
<1>8. CASE Assign
  <2>1. PICK path \in LeafPaths(tree), v \in Value :
          /\ accessByTreePath(container, path) # {}
          /\ container' = Assigned(container, path, v)
    BY <1>8 DEF Assign
  <2>2. tree' = tree
    BY <1>8 DEF Assign
  <2>3. /\ path \in DOMAIN MapOf(tree, container)
        /\ MapOf(tree, Assigned(container, path, v)) = [MapOf(tree, container) EXCEPT ![path] = v]
    BY <1>1, <2>1, MapOfAssigned
  <2>4. path \in DOMAIN map /\ map' = [map EXCEPT ![path] = v]
    BY <1>3, <2>1, <2>2, <2>3
  <2>. QED BY <2>1, <2>2, <2>4 DEF MapOfLeafs!Next, MapOfLeafs!Written, map
<1>9. CASE ReplaceTree
  <2>1. tree' \in {n \in Node : TypeOf[n] = TypeOf[tree]} /\ container' = container
    BY <1>9 DEF ReplaceTree
  <2>2. map' = map
    BY <1>3, <2>1, MapOfOtherTree
  <2>. QED BY <2>1, <2>2 DEF MapOfLeafs!Next, map
<1>10. CASE UNCHANGED containerVars
  <2>1. tree' = tree /\ container' = container
    BY <1>10 DEF containerVars
  <2>2. map' = map
    BY <1>3, <2>1
  <2>. QED BY <2>1, <2>2 DEF map
<1>. QED BY <1>4, <1>5, <1>6, <1>7, <1>8, <1>9, <1>10 DEF ContainerNext

(* The nested container implements the map from leaf paths to values: an   *)
(* assignment changes the value at one path, also where one node object    *)
(* sits at several leaf positions, and a resize keeps every value whose    *)
(* leaf is still there and gives the new leafs the default value.  This,   *)
(* too, is for trees without a PowerNode of degree 1 over a PowerNode.     *)
THEOREM ContainerIsLeafMap == ContainerSpec => ImplementsLeafMap
<1>. QED BY InitMap, StepsMap, ContainerInvariance, PTL
         DEF ContainerSpec, ImplementsLeafMap, MapOfLeafs!Spec

-----------------------------------------------------------------------------
(* What Received computes, call by call.                                   *)
Receives(g, functions, made) ==
  /\ g[0] = << >>
  /\ \A k \in 1 .. Len(made) :
       g[k] = IF made[k].func \in functions THEN Append(g[k - 1], made[k]) ELSE g[k - 1]
  /\ \A k \in 0 .. Len(made) : g[k] \in Seq(FunctionCall)
  /\ Received(functions, made) = g[Len(made)]

LEMMA ReceivedIterates ==
  ASSUME NEW functions, NEW made \in Seq(FunctionCall)
  PROVE  \E g : Receives(g, functions, made)
<1> DEFINE l == Len(made)
           V == Seq(FunctionCall)
           v(g, k) == IF k = 0 THEN << >>
                      ELSE IF made[k].func \in functions THEN Append(g[k - 1], made[k])
                      ELSE g[k - 1]
           step == [x \in Nat \X V |->
                      IF x[1] + 1 \in 1 .. l /\ made[x[1] + 1].func \in functions
                        THEN Append(x[2], made[x[1] + 1])
                        ELSE x[2]]
<1>1. l \in Nat /\ \A k \in 1 .. l : made[k] \in FunctionCall
  BY ElementOfSeq
<1>2. step \in [Nat \X V -> V]
  <2> SUFFICES ASSUME NEW x \in Nat \X V
               PROVE  (IF x[1] + 1 \in 1 .. l /\ made[x[1] + 1].func \in functions
                        THEN Append(x[2], made[x[1] + 1])
                        ELSE x[2]) \in V
    OBVIOUS
  <2>1. x[1] \in Nat /\ x[2] \in V
    OBVIOUS
  <2>2. x[1] + 1 \in 1 .. l => Append(x[2], made[x[1] + 1]) \in V
    <3> HIDE DEF l
    <3>. QED BY <1>1, <2>1, PushTop
  <2> HIDE DEF V
  <2>. QED BY <2>1, <2>2
<1>3. PICK f \in [Nat -> V] : Counts(f, << >>, step)
  <2> HIDE DEF step
  <2>1. << >> \in V
    OBVIOUS
  <2> HIDE DEF V
  <2>. QED BY <1>2, <2>1, CountingRecursion
<1> DEFINE h == [k \in 0 .. l |-> f[k]]
<1>4. ASSUME NEW k \in 0 .. l PROVE h[k] = v(h, k) /\ h[k] \in V
  <2>1. h[k] = f[k] /\ k \in Nat
    BY <1>1
  <2>2. h[k] \in V
    <3> HIDE DEF V, h
    <3>. QED BY <1>3, <2>1
  <2>3. CASE k = 0
    BY <1>3, <2>1, <2>2, <2>3 DEF Counts
  <2>4. CASE k # 0
    <3>1. PICK n \in Nat : k = n + 1
      <4>1. k - 1 \in Nat /\ k = (k - 1) + 1
        BY <2>1, <2>4
      <4>. QED BY <4>1
    <3>2. n \in 0 .. l /\ n + 1 \in 1 .. l /\ k - 1 = n
      BY <1>1, <3>1
    <3>3. f[n + 1] = step[<< n, f[n] >>] /\ f[n] \in V
      BY <1>3 DEF Counts
    <3>4. step[<< n, f[n] >>] = IF made[n + 1].func \in functions THEN Append(f[n], made[n + 1])
                                ELSE f[n]
      BY <3>2, <3>3
    <3>5. h[n] = f[n]
      BY <3>2
    <3> HIDE DEF h, step, V
    <3>. QED BY <2>1, <2>2, <2>4, <3>1, <3>2, <3>3, <3>4, <3>5
  <2>. QED BY <2>3, <2>4
<1> HIDE DEF step
<1>5. h = [k \in 0 .. l |-> v(h, k)]
  <2> DEFINE w(k) == v(h, k)
  <2>1. h = [k \in 0 .. l |-> h[k]]
    OBVIOUS
  <2>2. \A k \in 0 .. l : h[k] = w(k)
    BY <1>4
  <2> HIDE DEF h, w
  <2>3. h = [k \in 0 .. l |-> w(k)]
    BY <2>1, <2>2
  <2>. QED BY <2>3 DEF w
<1> HIDE DEF h
<1> DEFINE g == CHOOSE g : g = [k \in 0 .. l |-> v(g, k)]
<1>6. g = [k \in 0 .. l |-> v(g, k)]
  <2> HIDE DEF v
  <2>. QED BY <1>5
<1>7. Received(functions, made) = g[l]
  BY DEF Received
<1> HIDE DEF g
<1>8. \A k \in 0 .. l : g[k] = v(g, k)
  <2> DEFINE w(k) == v(g, k)
  <2>1. g = [k \in 0 .. l |-> w(k)]
    BY <1>6
  <2> HIDE DEF w
  <2>2. \A k \in 0 .. l : g[k] = w(k)
    BY <2>1
  <2>. QED BY <2>2 DEF w
<1>9. g[0] = << >> /\ \A k \in 1 .. l : g[k] = v(g, k)
  <2>1. 0 \in 0 .. l /\ \A k \in 1 .. l : k \in 0 .. l
    BY <1>1
  <2>. QED BY <1>8, <2>1
<1>10. \A k \in 0 .. l : g[k] \in V
  <2> DEFINE T == {k \in Nat : k \in 0 .. l => g[k] \in V}
  <2>1. 0 \in T
    <3>1. g[0] \in V
      <4>1. << >> \in V
        OBVIOUS
      <4>. QED BY <1>9, <4>1
    <3> HIDE DEF V
    <3>. QED BY <3>1
  <2>2. ASSUME NEW k \in Nat, k \in T PROVE k + 1 \in T
    <3> SUFFICES ASSUME k + 1 \in 0 .. l PROVE g[k + 1] \in V
      OBVIOUS
    <3>1. k \in 0 .. l /\ k + 1 \in 1 .. l /\ (k + 1) - 1 = k
      BY <1>1
    <3>2. g[k] \in V /\ made[k + 1] \in FunctionCall
      BY <1>1, <2>2, <3>1
    <3>3. Append(g[k], made[k + 1]) \in V
      BY <3>2, PushTop
    <3>4. g[k + 1] = v(g, k + 1)
      BY <1>9, <3>1
    <3>5. k + 1 # 0
      OBVIOUS
    <3> HIDE DEF V, l
    <3>. QED BY <3>1, <3>2, <3>3, <3>4, <3>5
  <2>3. Nat \subseteq T
    <3> HIDE DEF T
    <3>. QED BY <2>1, <2>2, CountingInduction
  <2>. QED BY <1>1, <2>3
<1>11. \A k \in 1 .. l :
          g[k] = IF made[k].func \in functions THEN Append(g[k - 1], made[k]) ELSE g[k - 1]
  <2> SUFFICES ASSUME NEW k \in 1 .. l
               PROVE  g[k] = IF made[k].func \in functions THEN Append(g[k - 1], made[k])
                             ELSE g[k - 1]
    OBVIOUS
  <2>1. k # 0 /\ g[k] = v(g, k)
    BY <1>1, <1>9, SMTT(40)
  <2>. QED BY <2>1
<1>12. g[0] = << >>
  BY <1>9
<1> HIDE DEF v
<1>. QED BY <1>7, <1>10, <1>11, <1>12 DEF Receives

(* One more call is received if it is one of the functions.                *)
LEMMA ReceivedNext ==
  ASSUME NEW functions, NEW made \in Seq(FunctionCall), NEW call \in FunctionCall
  PROVE  /\ Received(functions, made) \in Seq(FunctionCall)
         /\ Received(functions, << >>) = << >>
         /\ Received(functions, Append(made, call)) =
              IF call.func \in functions THEN Append(Received(functions, made), call)
              ELSE Received(functions, made)
<1> DEFINE more == Append(made, call)
           l == Len(made)
<1>1. /\ more \in Seq(FunctionCall) /\ Len(more) = l + 1 /\ more[l + 1] = call /\ l \in Nat
      /\ \A k \in 1 .. l : more[k] = made[k]
  BY PushTop
<1>2. PICK g : Receives(g, functions, made)
  BY ReceivedIterates
<1> HIDE DEF more, l
<1>3. PICK h : Receives(h, functions, more)
  BY <1>1, ReceivedIterates
<1>4. \A k \in 0 .. l : h[k] = g[k]
  <2> DEFINE T == {k \in Nat : k \in 0 .. l => h[k] = g[k]}
  <2>1. 0 \in T
    BY <1>2, <1>3 DEF Receives
  <2>2. ASSUME NEW k \in Nat, k \in T PROVE k + 1 \in T
    <3> SUFFICES ASSUME k + 1 \in 0 .. l PROVE h[k + 1] = g[k + 1]
      OBVIOUS
    <3>1. k \in 0 .. l /\ k + 1 \in 1 .. l /\ (k + 1) - 1 = k /\ k + 1 \in 1 .. l + 1
      BY <1>1
    <3>2. g[k + 1] = IF made[k + 1].func \in functions THEN Append(g[k], made[k + 1]) ELSE g[k]
      BY <1>2, <3>1 DEF Receives, l
    <3>3. h[k + 1] = IF more[k + 1].func \in functions THEN Append(h[k], more[k + 1]) ELSE h[k]
      BY <1>1, <1>3, <3>1 DEF Receives
    <3>. QED BY <1>1, <2>2, <3>1, <3>2, <3>3
  <2>3. Nat \subseteq T
    <3> HIDE DEF T
    <3>. QED BY <2>1, <2>2, CountingInduction
  <2>. QED BY <1>1, <2>3
<1>5. l \in 0 .. l /\ l + 1 \in 1 .. l + 1 /\ (l + 1) - 1 = l
  BY <1>1
<1>6. h[l + 1] = IF call.func \in functions THEN Append(g[l], call) ELSE g[l]
  BY <1>1, <1>3, <1>4, <1>5 DEF Receives
<1>7. Received(functions, made) = g[l] /\ g[l] \in Seq(FunctionCall)
  BY <1>2, <1>5 DEF Receives, l
<1>8. Received(functions, more) = h[l + 1]
  BY <1>1, <1>3 DEF Receives
<1>9. Received(functions, << >>) = << >>
  <2>1. << >> \in Seq(FunctionCall) /\ Len(<< >>) = 0
    OBVIOUS
  <2>2. PICK f : Receives(f, functions, << >>)
    BY <2>1, ReceivedIterates
  <2>. QED BY <2>1, <2>2 DEF Receives
<1>. QED BY <1>6, <1>7, <1>8, <1>9 DEF more

(* The paths of the leafs met so far.                                      *)
LeafsMet(made) ==
  LET leafs == Received({"leaf"}, made)
  IN  [k \in 1 .. Len(leafs) |-> leafs[k].path]

LEMMA LeafsMetNext ==
  ASSUME NEW made \in Seq(FunctionCall), NEW call \in FunctionCall
  PROVE  /\ LeafsMet(made) \in Seq(TreePath)
         /\ LeafsMet(<< >>) = << >>
         /\ LeafsMet(Append(made, call)) =
              IF call.func = "leaf" THEN Append(LeafsMet(made), call.path) ELSE LeafsMet(made)
<1> DEFINE paths(r) == [k \in 1 .. Len(r) |-> r[k].path]
           r == Received({"leaf"}, made)
           q == Received({"leaf"}, Append(made, call))
<1>1. /\ r \in Seq(FunctionCall) /\ Received({"leaf"}, << >>) = << >>
      /\ q = IF call.func = "leaf" THEN Append(r, call) ELSE r
  BY ReceivedNext
<1>2. ASSUME NEW s \in Seq(FunctionCall)
      PROVE  paths(s) \in Seq(TreePath) /\ Len(paths(s)) = Len(s)
  <2>2. \A k \in 1 .. Len(s) : s[k] \in FunctionCall
    BY ElementOfSeq
  <2>1. \A k \in 1 .. Len(s) : s[k].path \in TreePath
    BY <2>2 DEF FunctionCall
  <2>. QED BY <2>1
<1>3. LeafsMet(made) = paths(r) /\ LeafsMet(Append(made, call)) = paths(q) /\ LeafsMet(<< >>) = << >>
  BY <1>1 DEF LeafsMet
<1> HIDE DEF r, q
<1>4. paths(Append(r, call)) = Append(paths(r), call.path)
  <2> DEFINE a == Append(r, call)
             b == Append(paths(r), call.path)
             l == Len(r)
  <2>1. /\ a \in Seq(FunctionCall) /\ Len(a) = l + 1 /\ a[l + 1] = call /\ l \in Nat
        /\ \A k \in 1 .. l : a[k] = r[k]
    BY <1>1, PushTop
  <2>2. paths(r) \in Seq(TreePath) /\ Len(paths(r)) = l /\ call.path \in TreePath
    BY <1>1, <1>2 DEF FunctionCall
  <2>3. \A k \in 1 .. l : paths(r)[k] = r[k].path
    OBVIOUS
  <2> DEFINE p == paths(r)
  <2> HIDE DEF p, paths
  <2>4. /\ b \in Seq(TreePath) /\ Len(b) = l + 1 /\ b[l + 1] = call.path
        /\ \A k \in 1 .. l : b[k] = paths(r)[k]
    BY <2>2, PushTop
  <2> HIDE DEF a, b, l
  <2>5. paths(a) \in Seq(TreePath) /\ Len(paths(a)) = l + 1
    BY <1>2, <2>1
  <2>6. \A k \in 1 .. l + 1 : paths(a)[k] = a[k].path
    BY <2>1 DEF paths
  <2>7. \A k \in 1 .. l + 1 : paths(a)[k] = b[k]
    <3> SUFFICES ASSUME NEW k \in 1 .. l + 1 PROVE paths(a)[k] = b[k]
      OBVIOUS
    <3>1. CASE k = l + 1
      BY <2>1, <2>4, <2>6, <3>1
    <3>2. CASE k # l + 1
      <4>1. k \in 1 .. l
        BY <2>1, <3>2
      <4>. QED BY <2>1, <2>3, <2>4, <2>6, <4>1
    <3>. QED BY <3>1, <3>2
  <2>8. paths(a) = b
    BY <2>4, <2>5, <2>7, SeqEqual
  <2>. QED BY <2>8 DEF a, b
<1>5. paths(r) \in Seq(TreePath)
  BY <1>1, <1>2
<1> HIDE DEF paths
<1>. QED BY <1>1, <1>3, <1>4, <1>5

-----------------------------------------------------------------------------
Reporting == Reports(root, stack, LeafsMet(calls))

LEMMA FramesLoop == Frame = LoopFrame
BY DEF Frame, LoopFrame

LEMMA InitReporting == Init => Reporting
<1> SUFFICES ASSUME Init PROVE Reporting
  OBVIOUS
<1> DEFINE f == Activation(root, << >>)
<1>1. stack = << f >> /\ calls = << >> /\ root \in Node
  BY DEF Init
<1>2. f.node = root /\ f.path = << >> /\ f.i = 0 /\ f.started = FALSE /\ f \in LoopFrame
  BY <1>1 DEF Activation, LoopFrame, TreePath
<1> HIDE DEF f
<1>3. LeafsMet(calls) = << >>
  <2>1. << >> \in Seq(FunctionCall) /\ << >> \in TreePath
    BY DEF TreePath
  <2> DEFINE c == [func |-> "pre", node |-> root, path |-> << >>]
  <2>2. c \in FunctionCall
    BY <1>1, <2>1 DEF FunctionCall
  <2> HIDE DEF c
  <2>. QED BY <1>1, <2>1, <2>2, LeafsMetNext
<1>. QED BY <1>1, <1>2, <1>3, ReportsStart DEF Reporting

(* What each step does to the leafs met and to the stack.                  *)
LEMMA LeafsMetCall ==
  ASSUME IInv, stack # << >>, NEW func \in {"pre", "leaf", "post"}, Call(func)
  PROVE  LeafsMet(calls') = IF func = "leaf" THEN Append(LeafsMet(calls), Top.path)
                            ELSE LeafsMet(calls)
<1> DEFINE c == [func |-> func, node |-> Top.node, path |-> Top.path]
<1>1. c \in FunctionCall /\ c.func = func /\ c.path = Top.path
  BY TopIsSound DEF FunctionCall
<1>2. calls' = Append(calls, c)
  BY DEF Call
<1>3. calls \in Seq(FunctionCall)
  BY WiderStack DEF IInv, Right
<1> HIDE DEF c
<1>. QED BY <1>1, <1>2, <1>3, LeafsMetNext

LEMMA NextReporting == IInv /\ Reporting /\ [Next]_vars => Reporting'
<1> SUFFICES ASSUME IInv, Reporting, [Next]_vars PROVE Reporting'
  OBVIOUS
<1> DEFINE l == Len(stack)
           met == LeafsMet(calls)
<1>1. stack \in Seq(LoopFrame) /\ root \in Node /\ Reports(root, stack, met)
  <2>1. stack \in Seq(Frame)
    BY WiderStack DEF IInv, Sound
  <2>. QED BY <2>1, FramesLoop DEF IInv, Reporting
<1>2. ASSUME stack # << >>
      PROVE  /\ Top = stack[l] /\ Top \in LoopFrame
             /\ Top.node \in Node /\ Top.path \in TreePath /\ Top.i \in Nat
  BY <1>2, TopIsSound, FramesLoop
<1> HIDE DEF met
<1>3. CASE LeafFunc
  <2>1. /\ stack # << >> /\ isLeaf(Top.node) /\ Call("leaf") /\ stack' = Front(stack)
        /\ root' = root
    BY <1>3 DEF LeafFunc
  <2>2. LeafsMet(calls') = Append(met, Top.path)
    BY <2>1, LeafsMetCall DEF met
  <2>3. ~ Top.started
    BY <2>1, TopIsSound
  <2>4. Reports(root, Front(stack), Append(met, Top.path))
    BY <1>1, <1>2, <2>1, <2>3, ReportsLeaf
  <2>. QED BY <2>1, <2>2, <2>4 DEF Reporting
<1>4. CASE PreFunc
  <2> DEFINE f == [Top EXCEPT !.started = TRUE]
  <2>1. /\ stack # << >> /\ Call("pre") /\ root' = root
        /\ stack' = [stack EXCEPT ![Len(stack)].started = TRUE]
    BY <1>4 DEF PreFunc
  <2>2. /\ f \in LoopFrame /\ f.i = Top.i /\ f.node = Top.node /\ f.path = Top.path
        /\ f.started = TRUE
    BY <1>2, <2>1 DEF LoopFrame
  <2>3. stack' = [stack EXCEPT ![l] = f]
    BY <2>1, TopIsSound DEF IInv
  <2> HIDE DEF f
  <2>4. LeafsMet(calls') = met
    BY <2>1, LeafsMetCall DEF met
  <2>5. Reports(root, [stack EXCEPT ![l] = f], met)
    BY <1>1, <1>2, <2>1, <2>2, ReportsStarted
  <2>. QED BY <2>1, <2>3, <2>4, <2>5 DEF Reporting
<1>5. CASE Recurse
  <2> DEFINE g == [Top EXCEPT !.i = @ + 1]
             f == Activation(child(Top.node, Top.i), push_back(Top.path, Top.i))
  <2>1. /\ stack # << >> /\ Top.i < degree(Top.node) /\ Top.started
        /\ UNCHANGED << root, client, calls >>
        /\ stack' = Append([stack EXCEPT ![Len(stack)].i = @ + 1], f)
    BY <1>5 DEF Recurse
  <2>2. /\ g \in LoopFrame /\ g.i = Top.i + 1 /\ g.node = Top.node /\ g.path = Top.path
        /\ g.started = TRUE
    <3>1. Top.started = TRUE
      BY <2>1, TopIsSound
    <3>. QED BY <1>2, <2>1, <3>1 DEF LoopFrame
  <2>3. stack' = Append([stack EXCEPT ![l] = g], f)
    BY <2>1, TopIsSound DEF IInv
  <2>4. child(Top.node, Top.i) \in Node /\ push_back(Top.path, Top.i) \in TreePath
    <3>1. degree(Top.node) \in Nat
      BY <1>2, <2>1, TreeAssumption DEF NodeAssumption, degree
    <3>2. Top.i + 1 \in 1 .. degree(Top.node) /\ (Top.i + 1) - 1 = Top.i
      BY <1>2, <2>1, <3>1
    <3>3. child(Top.node, Top.i) \in Node
      BY <1>2, <2>1, <3>2, ChildOf
    <3>. QED BY <1>2, <2>1, <3>3 DEF push_back, TreePath
  <2>5. /\ f \in LoopFrame /\ f.i = 0 /\ f.started = FALSE
        /\ f.node = child(Top.node, Top.i) /\ f.path = push_back(Top.path, Top.i)
    BY <2>4 DEF Activation, LoopFrame
  <2> HIDE DEF f, g
  <2>6. Reports(root, Append([stack EXCEPT ![l] = g], f), met)
    BY <1>1, <1>2, <2>1, <2>2, <2>5, ReportsEnters
  <2>. QED BY <2>1, <2>3, <2>6 DEF Reporting, met
<1>6. CASE PostFunc
  <2>1. /\ stack # << >> /\ Top.started /\ Top.i >= degree(Top.node) /\ Call("post")
        /\ stack' = Front(stack) /\ root' = root
    BY <1>6 DEF PostFunc
  <2>2. LeafsMet(calls') = met
    BY <2>1, LeafsMetCall DEF met
  <2>3. ~ isLeaf(Top.node)
    BY <2>1, TopIsSound
  <2>4. Reports(root, Front(stack), met)
    BY <1>1, <1>2, <2>1, <2>3, ReportsDone
  <2>. QED BY <2>1, <2>2, <2>4 DEF Reporting
<1>7. CASE UNCHANGED vars
  BY <1>7 DEF vars, Reporting
<1>. QED BY <1>3, <1>4, <1>5, <1>6, <1>7 DEF Next

LEMMA ReportsInvariance == Spec => []Reporting
BY InitReporting, NextReporting, Invariance, PTL DEF Spec

(* forEachLeafNode hands over exactly the paths of leafTreePathTuple, each *)
(* once and in the same order, whatever the tree: the loops at run time    *)
(* and the recursion of the compiler enumerate the leafs alike.            *)
THEOREM LeafsComeAsInTuple == Spec => []LeafsAgreeWithTuple
<1>1. ASSUME Reporting PROVE LeafsAgreeWithTuple
  <2> SUFFICES ASSUME Done, client = "forEachLeafNode"
               PROVE  PathsSeen = leafTreePathTuple[<< root, << >> >>]
    BY DEF LeafsAgreeWithTuple
  <2>1. Active(client) = {"leaf"}
    BY DEF Active
  <2>2. PathsSeen = LeafsMet(calls)
    BY <2>1 DEF PathsSeen, seen, LeafsMet
  <2>3. LeafsMet(calls) = leafTreePathTuple[<< root, << >> >>]
    BY <1>1 DEF Done, Reporting, Reports
  <2>. QED BY <2>2, <2>3
<1>. QED BY <1>1, ReportsInvariance, PTL

-----------------------------------------------------------------------------
(* Accumulations.  Where the reductions of a policy stay.                  *)
Sensible(policy) ==
  /\ policy.start \in policy.result_type
  /\ \A op \in {policy.Reduction, policy.ParentChildReduction},
        value \in policy.result_type, path \in TreePath :
       reduce(op, value, visit(policy, path)) \in policy.result_type

Situation(policy) == Node \X TreePath \X policy.result_type

SituationLevel(policy) == [at \in Situation(policy) |-> Level[TypeOf[at[1]]]]

(* How the child k of a node is entered when the children before it have   *)
(* led to value,                                                           *)
Entered(policy, n, path, k, value) ==
  << child(n, k - 1), push_back(path, k - 1),
     propagate_type_down_tree(policy, value, push_back(path, k - 1)) >>

(* and the results of the children, one after the other.                   *)
Chain(f, policy, at, g) ==
  /\ g[0] = at[3]
  /\ \A k \in 0 .. degree(at[1]) : g[k] \in policy.result_type
  /\ \A k \in 1 .. degree(at[1]) : g[k] = f[Entered(policy, at[1], at[2], k, g[k - 1])]

OverChildren(f, policy, at) ==
  LET n == at[1]
      path == at[2]
      over_children[k \in 0 .. degree(n)] ==
        IF k = 0
          THEN at[3]
          ELSE f[<< child(n, k - 1), push_back(path, k - 1),
                    propagate_type_down_tree(
                      policy, over_children[k - 1], push_back(path, k - 1)) >>]
  IN  over_children[degree(n)]

AccumulateStep(f, policy, at) ==
  IF isLeaf(at[1])
    THEN node_helper(policy, at[1], at[2], policy.Reduction, at[3])
    ELSE node_helper(policy, at[1], at[2], policy.ParentChildReduction,
                     OverChildren(f, policy, at))

StaysBelow(f, policy, at) ==
  \A k \in 1 .. degree(at[1]), value \in policy.result_type :
    f[Entered(policy, at[1], at[2], k, value)] \in policy.result_type

LEMMA HelperStays ==
  ASSUME NEW policy, Sensible(policy), NEW n, NEW path \in TreePath,
         NEW op \in {policy.Reduction, policy.ParentChildReduction},
         NEW value \in policy.result_type
  PROVE  node_helper(policy, n, path, op, value) \in policy.result_type
BY DEF node_helper, Sensible

(* A child is entered further down in the nesting of classes.              *)
LEMMA EnteredBelow ==
  ASSUME NEW policy, Sensible(policy), NEW at \in Situation(policy),
         NEW k \in 1 .. degree(at[1]), NEW value \in policy.result_type
  PROVE  /\ Entered(policy, at[1], at[2], k, value) \in Situation(policy)
         /\ SituationLevel(policy)[Entered(policy, at[1], at[2], k, value)]
              < SituationLevel(policy)[at]
<1> DEFINE n == at[1]
           path == at[2]
           p == push_back(path, k - 1)
           c == child(n, k - 1)
           v == propagate_type_down_tree(policy, value, p)
           e == Entered(policy, n, path, k, value)
<1>1. n \in Node /\ path \in TreePath
  BY DEF Situation
<1>2. c \in Node /\ k - 1 \in Nat /\ Level[TypeOf[c]] < Level[TypeOf[n]]
  BY <1>1, ChildOf
<1>3. p \in TreePath
  BY <1>1, <1>2 DEF push_back, TreePath
<1>4. v \in policy.result_type
  BY DEF propagate_type_down_tree, Sensible
<1>5. e = << c, p, v >>
  BY DEF Entered
<1> HIDE DEF c, p, v, e, n, path
<1>6. e \in Situation(policy) /\ e[1] = c
  BY <1>2, <1>3, <1>4, <1>5 DEF Situation
<1>7. /\ SituationLevel(policy)[e] = Level[TypeOf[e[1]]]
      /\ SituationLevel(policy)[at] = Level[TypeOf[at[1]]]
  BY <1>6 DEF SituationLevel
<1>. QED BY <1>2, <1>6, <1>7 DEF e, n, path

LEMMA OverChildrenAre ==
  ASSUME NEW policy, Sensible(policy), NEW at \in Situation(policy), NEW f,
         StaysBelow(f, policy, at)
  PROVE  \E g : /\ Chain(f, policy, at, g)
                /\ OverChildren(f, policy, at) = g[degree(at[1])]
<1> DEFINE n == at[1]
           path == at[2]
           d == degree(n)
           V == policy.result_type
           v(g, k) == IF k = 0
                        THEN at[3]
                        ELSE f[<< child(n, k - 1), push_back(path, k - 1),
                                  propagate_type_down_tree(
                                    policy, g[k - 1], push_back(path, k - 1)) >>]
           step == [x \in (1 .. d) \X V |-> f[Entered(policy, n, path, x[1], x[2])]]
<1>1. n \in Node /\ path \in TreePath /\ at[3] \in V
  BY DEF Situation
<1>2. d \in Nat
  BY <1>1, TreeAssumption DEF NodeAssumption, degree
<1>3. \A k \in 1 .. d, value \in V : f[Entered(policy, n, path, k, value)] \in V
  BY DEF StaysBelow
<1>4. ASSUME NEW g, NEW k \in 1 .. d
      PROVE  v(g, k) = f[Entered(policy, n, path, k, g[k - 1])]
  <2>1. k # 0
    BY <1>2
  <2>. QED BY <2>1 DEF Entered
<1>5. \A g : v(g, 0) = at[3]
  OBVIOUS
<1>6. OverChildren(f, policy, at) = (CHOOSE g : g = [k \in 0 .. d |-> v(g, k)])[d]
  BY DEF OverChildren
<1> HIDE DEF v, d, V
<1>7. step \in [(1 .. d) \X V -> V]
  <2>1. \A x \in (1 .. d) \X V : f[Entered(policy, n, path, x[1], x[2])] \in V
    BY <1>3
  <2>. QED BY <2>1
<1>8. PICK h \in [0 .. d -> V] : Steps(h, at[3], step, d)
  <2> HIDE DEF step
  <2>. QED BY <1>1, <1>2, <1>7, StepsExist
<1>9. \A k \in 0 .. d : k = 0 \/ (k \in 1 .. d /\ k - 1 \in 0 .. d)
  BY <1>2
<1>10. h = [k \in 0 .. d |-> v(h, k)]
  <2> DEFINE w(k) == v(h, k)
  <2>1. \A k \in 0 .. d : h[k] = w(k)
    <3> SUFFICES ASSUME NEW k \in 0 .. d PROVE h[k] = v(h, k)
      OBVIOUS
    <3>1. CASE k = 0
      BY <1>5, <1>8, <3>1 DEF Steps
    <3>2. CASE k # 0
      <4>1. k \in 1 .. d /\ k - 1 \in 0 .. d
        BY <1>9, <3>2
      <4>2. h[k] = step[<< k, h[k - 1] >>] /\ h[k - 1] \in V
        BY <1>8, <4>1 DEF Steps
      <4>3. step[<< k, h[k - 1] >>] = f[Entered(policy, n, path, k, h[k - 1])]
        BY <4>1, <4>2
      <4>. QED BY <1>4, <4>1, <4>2, <4>3
    <3>. QED BY <3>1, <3>2
  <2> HIDE DEF w
  <2>2. h = [k \in 0 .. d |-> w(k)]
    BY <2>1
  <2>. QED BY <2>2 DEF w
<1> DEFINE g == CHOOSE g : g = [k \in 0 .. d |-> v(g, k)]
<1>11. g = [k \in 0 .. d |-> v(g, k)]
  BY <1>10
<1> HIDE DEF g
<1>12. \A k \in 0 .. d : g[k] = v(g, k)
  <2> DEFINE w(k) == v(g, k)
  <2>1. g = [k \in 0 .. d |-> w(k)]
    BY <1>11
  <2> HIDE DEF w
  <2>2. \A k \in 0 .. d : g[k] = w(k)
    BY <2>1
  <2>. QED BY <2>2 DEF w
<1>13. g[0] = at[3] /\ \A k \in 1 .. d : g[k] = f[Entered(policy, n, path, k, g[k - 1])]
  <2>1. 0 \in 0 .. d /\ \A k \in 1 .. d : k \in 0 .. d
    BY <1>2
  <2>. QED BY <1>4, <1>5, <1>12, <2>1
<1>14. \A k \in 0 .. d : g[k] \in V
  <2> DEFINE T == {k \in Nat : k \in 0 .. d => g[k] \in V}
  <2>1. 0 \in T
    BY <1>1, <1>13
  <2>2. ASSUME NEW k \in Nat, k \in T PROVE k + 1 \in T
    <3> SUFFICES ASSUME k + 1 \in 0 .. d PROVE g[k + 1] \in V
      OBVIOUS
    <3>1. k \in 0 .. d /\ k + 1 \in 1 .. d /\ (k + 1) - 1 = k
      BY <1>2
    <3>2. g[k] \in V
      BY <2>2, <3>1
    <3>3. g[k + 1] = f[Entered(policy, n, path, k + 1, g[k])]
      BY <1>13, <3>1
    <3>. QED BY <1>3, <3>1, <3>2, <3>3
  <2>3. Nat \subseteq T
    <3> HIDE DEF T
    <3>. QED BY <2>1, <2>2, CountingInduction
  <2>. QED BY <1>2, <2>3
<1>15. Chain(f, policy, at, g)
  BY <1>13, <1>14 DEF Chain, d, V
<1>16. OverChildren(f, policy, at) = g[d]
  BY <1>6 DEF g
<1>. QED BY <1>15, <1>16 DEF d

LEMMA ChainsAgree ==
  ASSUME NEW policy, NEW at \in Situation(policy), NEW e, NEW f,
         \A k \in 1 .. degree(at[1]), value \in policy.result_type :
           e[Entered(policy, at[1], at[2], k, value)] = f[Entered(policy, at[1], at[2], k, value)],
         NEW g, Chain(e, policy, at, g), NEW h, Chain(f, policy, at, h)
  PROVE  g[degree(at[1])] = h[degree(at[1])]
<1> DEFINE d == degree(at[1])
           T == {k \in Nat : k \in 0 .. d => g[k] = h[k]}
<1>1. d \in Nat
  BY TreeAssumption DEF Situation, NodeAssumption, degree
<1>2. 0 \in T
  BY DEF Chain
<1>3. ASSUME NEW k \in Nat, k \in T PROVE k + 1 \in T
  <2> SUFFICES ASSUME k + 1 \in 0 .. d PROVE g[k + 1] = h[k + 1]
    OBVIOUS
  <2> HIDE DEF d
  <2>1. k \in 0 .. d /\ k + 1 \in 1 .. d /\ (k + 1) - 1 = k
    BY <1>1
  <2>2. g[k] = h[k] /\ g[k] \in policy.result_type
    BY <1>3, <2>1 DEF Chain, d
  <2>3. /\ g[k + 1] = e[Entered(policy, at[1], at[2], k + 1, g[k])]
        /\ h[k + 1] = f[Entered(policy, at[1], at[2], k + 1, h[k])]
    BY <2>1 DEF Chain, d
  <2>. QED BY <2>1, <2>2, <2>3 DEF d
<1>4. Nat \subseteq T
  <2> HIDE DEF T, d
  <2>. QED BY <1>2, <1>3, CountingInduction
<1>. QED BY <1>1, <1>4

(* Accumulation is defined by its own right-hand side.                     *)
LEMMA AccumulateStepStays ==
  ASSUME NEW policy, Sensible(policy), NEW at \in Situation(policy), NEW f,
         StaysBelow(f, policy, at)
  PROVE  AccumulateStep(f, policy, at) \in policy.result_type
<1> DEFINE d == degree(at[1])
<1>1. at[2] \in TreePath /\ at[3] \in policy.result_type /\ at[1] \in Node
  BY DEF Situation
<1>2. d \in Nat
  BY <1>1, TreeAssumption DEF NodeAssumption, degree
<1>3. PICK g : Chain(f, policy, at, g) /\ OverChildren(f, policy, at) = g[degree(at[1])]
  BY OverChildrenAre
<1>4. d \in 0 .. d
  BY <1>2
<1>5. OverChildren(f, policy, at) \in policy.result_type
  BY <1>3, <1>4 DEF Chain
<1>6. node_helper(policy, at[1], at[2], policy.Reduction, at[3]) \in policy.result_type
  BY <1>1, HelperStays
<1>7. node_helper(policy, at[1], at[2], policy.ParentChildReduction,
                  OverChildren(f, policy, at)) \in policy.result_type
  BY <1>1, <1>5, HelperStays
<1>. QED BY <1>6, <1>7 DEF AccumulateStep

LEMMA AccumulationUnfolds ==
  ASSUME NEW policy, Sensible(policy)
  PROVE  \A at \in Situation(policy) :
           /\ Accumulation(policy)[at] \in policy.result_type
           /\ StaysBelow(Accumulation(policy), policy, at)
           /\ Accumulation(policy)[at] = AccumulateStep(Accumulation(policy), policy, at)
<1> DEFINE D == Situation(policy)
           V == policy.result_type
           rank == SituationLevel(policy)
           step == [x \in D \X [D -> V] |-> AccumulateStep(x[2], policy, x[1])]
<1>1. rank \in [D -> Nat]
  <2>1. \A at \in D : Level[TypeOf[at[1]]] \in Nat
    BY TreeAssumption DEF NodeAssumption, Situation
  <2>. QED BY <2>1 DEF SituationLevel
<1>2. ASSUME NEW f \in [D -> V], NEW at \in D PROVE StaysBelow(f, policy, at)
  <2> SUFFICES ASSUME NEW k \in 1 .. degree(at[1]), NEW value \in V
               PROVE  f[Entered(policy, at[1], at[2], k, value)] \in V
    BY DEF StaysBelow
  <2>1. Entered(policy, at[1], at[2], k, value) \in D
    BY EnteredBelow
  <2> HIDE DEF D, V
  <2>. QED BY <2>1
<1>3. step \in [D \X [D -> V] -> V]
  <2>1. \A x \in D \X [D -> V] : AccumulateStep(x[2], policy, x[1]) \in V
    <3> SUFFICES ASSUME NEW x \in D \X [D -> V] PROVE AccumulateStep(x[2], policy, x[1]) \in V
      OBVIOUS
    <3>1. x[1] \in D /\ x[2] \in [D -> V]
      OBVIOUS
    <3>2. StaysBelow(x[2], policy, x[1])
      BY <1>2, <3>1
    <3>. QED BY <3>1, <3>2, AccumulateStepStays
  <2>. QED BY <2>1
<1>4. LooksBelow(step, D, V, rank)
  <2> SUFFICES ASSUME NEW d \in D, NEW g \in [D -> V], NEW h \in [D -> V],
                      \A e \in D : rank[e] < rank[d] => g[e] = h[e]
               PROVE  step[<< d, g >>] = step[<< d, h >>]
    BY DEF LooksBelow
  <2>1. step[<< d, g >>] = AccumulateStep(g, policy, d) /\ step[<< d, h >>] = AccumulateStep(h, policy, d)
    OBVIOUS
  <2>2. ASSUME NEW k \in 1 .. degree(d[1]), NEW value \in V
        PROVE  g[Entered(policy, d[1], d[2], k, value)] = h[Entered(policy, d[1], d[2], k, value)]
    <3> DEFINE e == Entered(policy, d[1], d[2], k, value)
    <3>1. e \in D /\ rank[e] < rank[d]
      BY EnteredBelow
    <3> HIDE DEF e, D, rank
    <3>2. g[e] = h[e]
      BY <3>1
    <3>. QED BY <3>2 DEF e
  <2>3. PICK c : Chain(g, policy, d, c) /\ OverChildren(g, policy, d) = c[degree(d[1])]
    BY <1>2, OverChildrenAre
  <2>4. PICK b : Chain(h, policy, d, b) /\ OverChildren(h, policy, d) = b[degree(d[1])]
    BY <1>2, OverChildrenAre
  <2>5. OverChildren(g, policy, d) = OverChildren(h, policy, d)
    BY <2>2, <2>3, <2>4, ChainsAgree
  <2> HIDE DEF step
  <2>. QED BY <2>1, <2>5 DEF AccumulateStep
<1>5. PICK f \in [D -> V] : Obeys(f, D, step)
  <2>1. policy.start \in V
    BY DEF Sensible
  <2> HIDE DEF D, V, step, rank
  <2>. QED BY <1>1, <1>3, <1>4, <2>1, RecursionFromBelow
<1> DEFINE v(g, at) ==
             LET n == at[1]
                 path == at[2]
                 over_children[k \in 0 .. degree(n)] ==
                   IF k = 0
                     THEN at[3]
                     ELSE g[<< child(n, k - 1), push_back(path, k - 1),
                               propagate_type_down_tree(
                                 policy, over_children[k - 1], push_back(path, k - 1)) >>]
             IN  IF isLeaf(n)
                   THEN node_helper(policy, n, path, policy.Reduction, at[3])
                   ELSE node_helper(policy, n, path, policy.ParentChildReduction,
                                    over_children[degree(n)])
<1>6. ASSUME NEW g, NEW at PROVE v(g, at) = AccumulateStep(g, policy, at)
  BY DEF AccumulateStep, OverChildren
<1>7. f = [at \in D |-> v(f, at)]
  <2> DEFINE w(at) == v(f, at)
  <2>1. \A at \in D : f[at] = w(at)
    <3> SUFFICES ASSUME NEW at \in D PROVE f[at] = v(f, at)
      OBVIOUS
    <3>1. f[at] = step[<< at, f >>]
      BY <1>5 DEF Obeys
    <3>2. step[<< at, f >>] = AccumulateStep(f, policy, at)
      OBVIOUS
    <3> HIDE DEF step, v
    <3>. QED BY <1>6, <3>1, <3>2
  <2> HIDE DEF w
  <2>2. f = [at \in D |-> w(at)]
    BY <2>1
  <2>. QED BY <2>2 DEF w
<1>8. \E g : g = [at \in D |-> v(g, at)]
  BY <1>7
<1> DEFINE a == Accumulation(policy)
<1>9. a = CHOOSE g : g = [at \in D |-> v(g, at)]
  BY DEF Accumulation, Situation
<1>10. a = [at \in D |-> v(a, at)]
  <2> HIDE DEF v, a
  <2>. QED BY <1>8, <1>9, Zenon
<1> HIDE DEF a
<1>11. \A at \in D : a[at] = AccumulateStep(a, policy, at)
  <2> DEFINE w(at) == v(a, at)
  <2>1. a = [at \in D |-> w(at)]
    BY <1>10
  <2>2. \A at \in D : w(at) = AccumulateStep(a, policy, at)
    BY <1>6
  <2> HIDE DEF w
  <2>. QED BY <2>1, <2>2, SMTT(40)
<1> DEFINE T == {at \in D : a[at] \in V}
<1>12. ASSUME NEW d \in D, \A e \in D : rank[e] < rank[d] => e \in T
       PROVE  d \in T /\ StaysBelow(a, policy, d)
  <2>1. StaysBelow(a, policy, d)
    <3> SUFFICES ASSUME NEW k \in 1 .. degree(d[1]), NEW value \in V
                 PROVE  a[Entered(policy, d[1], d[2], k, value)] \in V
      BY DEF StaysBelow
    <3> DEFINE e == Entered(policy, d[1], d[2], k, value)
    <3>1. e \in D /\ rank[e] < rank[d]
      BY EnteredBelow
    <3> HIDE DEF e, D, rank
    <3>2. e \in T
      BY <1>12, <3>1
    <3>. QED BY <3>2 DEF e
  <2>2. a[d] \in V
    BY <1>11, <2>1, AccumulateStepStays
  <2>. QED BY <2>1, <2>2
<1>13. D \subseteq T
  <2> HIDE DEF T, D, rank
  <2>. QED BY <1>1, <1>12, RankInduction
<1>14. \A at \in D : StaysBelow(a, policy, at) /\ a[at] \in V
  BY <1>12, <1>13
<1>. QED BY <1>11, <1>14 DEF a

(* The result of a node that is entered with value, and what its first i   *)
(* children make of value.                                                 *)
ResultOf(policy, n, path, value) == Accumulation(policy)[<< n, path, value >>]

Through(policy, n, path, value, i) ==
  (CHOOSE g : Chain(Accumulation(policy), policy, << n, path, value >>, g))[i]

LEMMA ThroughChildren ==
  ASSUME NEW policy, Sensible(policy), NEW n \in Node, NEW path \in TreePath,
         NEW value \in policy.result_type
  PROVE  /\ Through(policy, n, path, value, 0) = value
         /\ \A i \in 0 .. degree(n) : Through(policy, n, path, value, i) \in policy.result_type
         /\ \A i \in 1 .. degree(n) :
              Through(policy, n, path, value, i)
                = Accumulation(policy)[
                    Entered(policy, n, path, i, Through(policy, n, path, value, i - 1))]
         /\ ResultOf(policy, n, path, value) \in policy.result_type
         /\ isLeaf(n) =>
              ResultOf(policy, n, path, value) = node_helper(policy, n, path, policy.Reduction, value)
         /\ ~ isLeaf(n) =>
              ResultOf(policy, n, path, value)
                = node_helper(policy, n, path, policy.ParentChildReduction,
                              Through(policy, n, path, value, degree(n)))
<1> DEFINE at == << n, path, value >>
           a == Accumulation(policy)
           c == CHOOSE g : Chain(a, policy, at, g)
<1>1. at \in Situation(policy) /\ at[1] = n /\ at[2] = path /\ at[3] = value
  BY DEF Situation
<1>2. \A i : Through(policy, n, path, value, i) = c[i]
  BY DEF Through
<1>3. ResultOf(policy, n, path, value) = a[at]
  BY DEF ResultOf
<1> HIDE DEF at
<1>4. StaysBelow(a, policy, at) /\ a[at] = AccumulateStep(a, policy, at) /\ a[at] \in policy.result_type
  BY <1>1, AccumulationUnfolds
<1>5. PICK g : Chain(a, policy, at, g) /\ OverChildren(a, policy, at) = g[degree(at[1])]
  <2> HIDE DEF a
  <2>. QED BY <1>1, <1>4, OverChildrenAre
<1>6. Chain(a, policy, at, c)
  BY <1>5
<1> HIDE DEF c, a
<1>7. g[degree(at[1])] = c[degree(at[1])]
  <2>1. \A k \in 1 .. degree(at[1]), v \in policy.result_type :
          a[Entered(policy, at[1], at[2], k, v)] = a[Entered(policy, at[1], at[2], k, v)]
    OBVIOUS
  <2>2. Chain(a, policy, at, g)
    BY <1>5
  <2>. QED BY <1>1, <1>6, <2>1, <2>2, ChainsAgree
<1>8. \A i \in 1 .. degree(n) : c[i] = a[Entered(policy, n, path, i, c[i - 1])]
  BY <1>1, <1>6 DEF Chain
<1>9. c[0] = value /\ \A i \in 0 .. degree(n) : c[i] \in policy.result_type
  BY <1>1, <1>6 DEF Chain
<1>10. isLeaf(n) => a[at] = node_helper(policy, n, path, policy.Reduction, value)
  BY <1>1, <1>4 DEF AccumulateStep
<1>11. ~ isLeaf(n) => a[at] = node_helper(policy, n, path, policy.ParentChildReduction, c[degree(n)])
  BY <1>1, <1>4, <1>5, <1>7 DEF AccumulateStep
<1>. QED BY <1>2, <1>3, <1>4, <1>8, <1>9, <1>10, <1>11 DEF a

-----------------------------------------------------------------------------
(* What a policy makes of the calls of forEachNode: nothing of preFunc's,  *)
(* and of the others what node_helper makes of a node.                     *)
FoldStep(policy, value, call) ==
  IF call.func = "pre"
    THEN value
    ELSE node_helper(policy, call.node, call.path,
                     IF call.func = "leaf" THEN policy.Reduction ELSE policy.ParentChildReduction,
                     value)

FoldSteps(policy, made, g) ==
  /\ g[0] = policy.start
  /\ \A k \in 0 .. Len(made) : g[k] \in policy.result_type
  /\ \A k \in 1 .. Len(made) : g[k] = FoldStep(policy, g[k - 1], made[k])

Folded(policy, made) == (CHOOSE g : FoldSteps(policy, made, g))[Len(made)]

LEMMA FoldStepStays ==
  ASSUME NEW policy, Sensible(policy), NEW value \in policy.result_type,
         NEW call \in FunctionCall
  PROVE  FoldStep(policy, value, call) \in policy.result_type
<1>1. call.path \in TreePath
  BY DEF FunctionCall
<1>2. \A op \in {policy.Reduction, policy.ParentChildReduction} :
        node_helper(policy, call.node, call.path, op, value) \in policy.result_type
  BY <1>1, HelperStays
<1>. QED BY <1>2 DEF FoldStep

LEMMA FoldStepsExist ==
  ASSUME NEW policy, Sensible(policy), NEW made \in Seq(FunctionCall)
  PROVE  \E g : FoldSteps(policy, made, g)
<1> DEFINE l == Len(made)
           V == policy.result_type
           step == [x \in (1 .. l) \X V |-> FoldStep(policy, x[2], made[x[1]])]
<1>1. l \in Nat /\ \A k \in 1 .. l : made[k] \in FunctionCall
  BY ElementOfSeq
<1>2. policy.start \in V
  BY DEF Sensible
<1> HIDE DEF l
<1>3. step \in [(1 .. l) \X V -> V]
  <2>1. \A x \in (1 .. l) \X V : FoldStep(policy, x[2], made[x[1]]) \in V
    BY <1>1, FoldStepStays
  <2> HIDE DEF V
  <2>. QED BY <2>1
<1>4. PICK g \in [0 .. l -> V] : Steps(g, policy.start, step, l)
  <2> HIDE DEF V, step
  <2>. QED BY <1>1, <1>2, <1>3, StepsExist
<1> HIDE DEF V
<1>5. \A k \in 1 .. l : g[k] = FoldStep(policy, g[k - 1], made[k])
  <2> SUFFICES ASSUME NEW k \in 1 .. l PROVE g[k] = FoldStep(policy, g[k - 1], made[k])
    OBVIOUS
  <2>1. k - 1 \in 0 .. l
    BY <1>1
  <2>2. << k, g[k - 1] >> \in (1 .. l) \X V
    BY <1>4, <2>1
  <2>. QED BY <1>4, <2>2 DEF Steps
<1>6. g[0] = policy.start
  BY <1>4 DEF Steps
<1>7. FoldSteps(policy, made, g)
  BY <1>4, <1>5, <1>6 DEF FoldSteps, l, V
<1>. QED BY <1>7

LEMMA FoldStepsAgree ==
  ASSUME NEW policy, NEW made \in Seq(FunctionCall),
         NEW g, FoldSteps(policy, made, g), NEW h, FoldSteps(policy, made, h)
  PROVE  g[Len(made)] = h[Len(made)]
<1> DEFINE l == Len(made)
           T == {k \in Nat : k \in 0 .. l => g[k] = h[k]}
<1>1. l \in Nat
  OBVIOUS
<1>2. 0 \in T
  BY DEF FoldSteps
<1>3. ASSUME NEW k \in Nat, k \in T PROVE k + 1 \in T
  <2> SUFFICES ASSUME k + 1 \in 0 .. l PROVE g[k + 1] = h[k + 1]
    OBVIOUS
  <2> HIDE DEF l
  <2>1. k \in 0 .. l /\ k + 1 \in 1 .. l /\ (k + 1) - 1 = k
    BY <1>1
  <2>2. g[k + 1] = FoldStep(policy, g[k], made[k + 1]) /\ h[k + 1] = FoldStep(policy, h[k], made[k + 1])
    BY <2>1 DEF FoldSteps, l
  <2>. QED BY <1>3, <2>1, <2>2 DEF l
<1>4. Nat \subseteq T
  <2> HIDE DEF T, l
  <2>. QED BY <1>2, <1>3, CountingInduction
<1>. QED BY <1>1, <1>4

LEMMA FoldedNext ==
  ASSUME NEW policy, Sensible(policy), NEW made \in Seq(FunctionCall), NEW call \in FunctionCall
  PROVE  /\ Folded(policy, made) \in policy.result_type
         /\ Folded(policy, << >>) = policy.start
         /\ Folded(policy, Append(made, call)) = FoldStep(policy, Folded(policy, made), call)
<1> DEFINE more == Append(made, call)
           l == Len(made)
           g == CHOOSE g : FoldSteps(policy, made, g)
           h == CHOOSE h : FoldSteps(policy, more, h)
<1>1. /\ more \in Seq(FunctionCall) /\ Len(more) = l + 1 /\ more[l + 1] = call /\ l \in Nat
      /\ \A k \in 1 .. l : more[k] = made[k]
  BY PushTop
<1>2. FoldSteps(policy, made, g)
  BY FoldStepsExist
<1> HIDE DEF more
<1>3. FoldSteps(policy, more, h)
  BY <1>1, FoldStepsExist
<1>4. Folded(policy, made) = g[l] /\ Folded(policy, more) = h[Len(more)]
  BY DEF Folded
<1> HIDE DEF g, h
<1>5. FoldSteps(policy, made, h)
  <2>1. \A k \in 0 .. l : k \in 0 .. l + 1
    BY <1>1
  <2>2. \A k \in 1 .. l : k \in 1 .. l + 1
    BY <1>1
  <2>. QED BY <1>1, <1>3, <2>1, <2>2 DEF FoldSteps
<1>6. h[l] = g[l]
  BY <1>2, <1>5, FoldStepsAgree
<1>7. l \in 0 .. l /\ l + 1 \in 1 .. l + 1 /\ (l + 1) - 1 = l
  BY <1>1
<1> HIDE DEF l
<1>8. h[l + 1] = FoldStep(policy, h[l], call)
  BY <1>1, <1>3, <1>7 DEF FoldSteps
<1>9. g[l] \in policy.result_type
  BY <1>2, <1>7 DEF FoldSteps, l
<1>10. Folded(policy, << >>) = policy.start
  <2>1. << >> \in Seq(FunctionCall) /\ Len(<< >>) = 0
    OBVIOUS
  <2>2. \E e : FoldSteps(policy, << >>, e)
    BY <2>1, FoldStepsExist
  <2>. QED BY <2>1, <2>2 DEF Folded, FoldSteps
<1>. QED BY <1>1, <1>4, <1>6, <1>8, <1>9, <1>10 DEF more

-----------------------------------------------------------------------------
(* The policies whose result goes on from sibling to sibling and from      *)
(* parent to child.                                                        *)
Continues(policy) == Sensible(policy) /\ policy.algorithm # "flattened_reduction"

(* The activation k was made when the calls had led to w[k]; now they have *)
(* led to what the children the top one is done with make of its w.        *)
Threads(policy, w, s, value) ==
  /\ w[1] = policy.start
  /\ \A k \in 1 .. Len(s) : w[k] \in policy.result_type
  /\ \A k \in 1 .. Len(s) - 1 :
       w[k + 1] = Through(policy, s[k].node, s[k].path, w[k], s[k].i - 1)
  /\ value = Through(policy, s[Len(s)].node, s[Len(s)].path, w[Len(s)], s[Len(s)].i)

Arrives(policy, r, s, value) ==
  /\ s = << >> => value = Accumulated(policy, r)
  /\ s # << >> => \E w : Threads(policy, w, s, value)

Accumulating ==
  \A policy : Continues(policy) => Arrives(policy, root, stack, Folded(policy, calls))

(* An activation returns when the calls have led to its node's result.     *)
LEMMA ArrivesReturn ==
  ASSUME NEW policy, Continues(policy),
         NEW r \in Node, NEW s \in Seq(Frame), s # << >>, Walks(r, s),
         NEW w, NEW v0, Threads(policy, w, s, v0), NEW value,
         value = ResultOf(policy, s[Len(s)].node, s[Len(s)].path, w[Len(s)])
  PROVE  Arrives(policy, r, Front(s), value)
<1> DEFINE l == Len(s)
           t == Front(s)
<1>1. /\ t \in Seq(Frame) /\ Len(t) = l - 1 /\ l \in Nat \ {0}
      /\ \A k \in 1 .. l - 1 : t[k] = s[k]
  BY PopTop, EmptySeq
<1>2. \A k \in 1 .. l : s[k] \in Frame
  BY ElementOfSeq
<1> HIDE DEF l, t
<1>3. \A k \in 1 .. l - 1 : k \in 1 .. l /\ k # l
  BY <1>1
<1>4. \A k \in 1 .. (l - 1) - 1 : k \in 1 .. l - 1 /\ k + 1 \in 1 .. l - 1
  BY <1>1
<1>5. t # << >> => l - 1 \in 1 .. l - 1 /\ 1 \in 1 .. l - 1
  <2>1. t # << >> => Len(t) # 0
    BY <1>1, EmptySeq
  <2>. QED BY <1>1, <2>1
<1>6. ASSUME t = << >> PROVE value = Accumulated(policy, r)
  <2>1. l = 1
    BY <1>1, <1>6
  <2>2. s[l].node = r /\ s[l].path = << >> /\ w[l] = policy.start
    BY <2>1 DEF Walks, Threads
  <2>. QED BY <2>2 DEF l, Accumulated, ResultOf
<1>7. ASSUME t # << >> PROVE Threads(policy, w, t, value)
  <2> DEFINE f == s[l - 1]
  <2>1. /\ l - 1 \in 1 .. l - 1 /\ l - 1 \in 1 .. l /\ l - 1 # l /\ (l - 1) + 1 = l
        /\ l \in 1 .. l
    BY <1>1, <1>5, <1>7
  <2>2. /\ f.node \in Node /\ f.path \in TreePath /\ f.i \in Nat /\ f.i > 0
        /\ f.i <= degree(f.node)
        /\ s[l].node = child(f.node, f.i - 1) /\ s[l].path = push_back(f.path, f.i - 1)
    <3>1. s[l - 1].i > 0 /\ s[l - 1].i <= degree(s[l - 1].node)
      BY <2>1, ZenonT(60) DEF Walks, Looping, l
    <3>2. /\ s[(l - 1) + 1].node = child(s[l - 1].node, s[l - 1].i - 1)
          /\ s[(l - 1) + 1].path = push_back(s[l - 1].path, s[l - 1].i - 1)
      BY <2>1 DEF Walks, l
    <3>3. s[l - 1] \in Frame
      BY <1>2, <2>1, SMTT(40)
    <3>. QED BY <2>1, <3>1, <3>2, <3>3, SMTT(40) DEF Frame
  <2>3. /\ w[l] = Through(policy, f.node, f.path, w[l - 1], f.i - 1)
        /\ w[l - 1] \in policy.result_type
    BY <2>1 DEF Threads, l
  <2>4. value = ResultOf(policy, child(f.node, f.i - 1), push_back(f.path, f.i - 1), w[l])
    BY <2>2 DEF l
  <2> HIDE DEF f
  <2>5. f.i \in 1 .. degree(f.node)
    <3>1. degree(f.node) \in Nat
      BY <2>2, TreeAssumption DEF NodeAssumption, degree
    <3>. QED BY <2>2, <3>1
  <2>6. Entered(policy, f.node, f.path, f.i, w[l])
          = << child(f.node, f.i - 1), push_back(f.path, f.i - 1), w[l] >>
    BY DEF Entered, propagate_type_down_tree, Continues
  <2>7. Through(policy, f.node, f.path, w[l - 1], f.i)
          = Accumulation(policy)[Entered(policy, f.node, f.path, f.i, w[l])]
    <3>1. w[l - 1] \in policy.result_type /\ Sensible(policy)
      BY <2>3 DEF Continues
    <3>2. PICK x : x = w[l - 1]
      OBVIOUS
    <3>3. x \in policy.result_type /\ f.node \in Node /\ f.path \in TreePath
      BY <2>2, <3>1, <3>2
    <3>4. Through(policy, f.node, f.path, x, f.i)
            = Accumulation(policy)[
                Entered(policy, f.node, f.path, f.i, Through(policy, f.node, f.path, x, f.i - 1))]
      BY <2>5, <3>1, <3>3, ThroughChildren
    <3>5. w[l] = Through(policy, f.node, f.path, x, f.i - 1)
      BY <2>3, <3>2
    <3>. QED BY <3>2, <3>4, <3>5
  <2>8. value = Through(policy, f.node, f.path, w[l - 1], f.i)
    BY <2>4, <2>6, <2>7 DEF ResultOf
  <2>9. w[1] = policy.start /\ \A k \in 1 .. l - 1 : w[k] \in policy.result_type
    BY <1>3 DEF Threads, l
  <2>10. \A k \in 1 .. (l - 1) - 1 :
           w[k + 1] = Through(policy, t[k].node, t[k].path, w[k], t[k].i - 1)
    BY <1>1, <1>4 DEF Threads, l
  <2>11. t[l - 1] = f
    BY <1>1, <2>1 DEF f
  <2>12. value = Through(policy, t[Len(t)].node, t[Len(t)].path, w[Len(t)], t[Len(t)].i)
    BY <1>1, <2>8, <2>11
  <2>. QED BY <1>1, <2>9, <2>10, <2>12 DEF Threads
<1>. QED BY <1>6, <1>7 DEF Arrives, t

LEMMA InitAccumulating == Init => Accumulating
<1> SUFFICES ASSUME Init, NEW policy, Continues(policy)
             PROVE  Arrives(policy, root, stack, Folded(policy, calls))
  BY DEF Accumulating
<1> DEFINE f == Activation(root, << >>)
           w == [k \in {1} |-> policy.start]
<1>1. stack = << f >> /\ calls = << >> /\ root \in Node
  BY DEF Init
<1>2. f.node = root /\ f.path = << >> /\ f.i = 0
  BY DEF Activation
<1> HIDE DEF f
<1>3. Len(stack) = 1 /\ stack[1] = f /\ stack # << >> /\ 1 .. 1 = {1} /\ 1 .. 1 - 1 = {}
  BY <1>1
<1>4. << >> \in TreePath
  BY DEF TreePath
<1>5. policy.start \in policy.result_type /\ Sensible(policy)
  BY DEF Continues, Sensible
<1>6. Folded(policy, calls) = policy.start
  <2>1. << >> \in Seq(FunctionCall)
    OBVIOUS
  <2> DEFINE c == [func |-> "pre", node |-> root, path |-> << >>]
  <2>2. c \in FunctionCall
    BY <1>1, <1>4 DEF FunctionCall
  <2> HIDE DEF c
  <2>. QED BY <1>1, <1>5, <2>1, <2>2, FoldedNext
<1>7. Through(policy, f.node, f.path, policy.start, f.i) = policy.start
  BY <1>1, <1>2, <1>4, <1>5, ThroughChildren
<1>8. w[1] = policy.start
  OBVIOUS
<1> HIDE DEF w
<1>9. Threads(policy, w, stack, Folded(policy, calls))
  BY <1>3, <1>5, <1>6, <1>7, <1>8 DEF Threads
<1>. QED BY <1>3, <1>9 DEF Arrives

LEMMA FoldedCall ==
  ASSUME IInv, stack # << >>, NEW func \in {"pre", "leaf", "post"}, Call(func),
         NEW policy, Sensible(policy)
  PROVE  /\ Folded(policy, calls) \in policy.result_type
         /\ Folded(policy, calls') =
              IF func = "pre"
                THEN Folded(policy, calls)
                ELSE node_helper(policy, Top.node, Top.path,
                       IF func = "leaf" THEN policy.Reduction ELSE policy.ParentChildReduction,
                       Folded(policy, calls))
<1> DEFINE c == [func |-> func, node |-> Top.node, path |-> Top.path]
<1>1. c \in FunctionCall /\ c.func = func /\ c.path = Top.path /\ c.node = Top.node
  BY TopIsSound DEF FunctionCall
<1>2. calls' = Append(calls, c)
  BY DEF Call
<1>3. calls \in Seq(FunctionCall)
  BY WiderStack DEF IInv, Right
<1> HIDE DEF c
<1>4. /\ Folded(policy, calls) \in policy.result_type
      /\ Folded(policy, calls') = FoldStep(policy, Folded(policy, calls), c)
  BY <1>1, <1>2, <1>3, FoldedNext
<1>. QED BY <1>1, <1>4 DEF FoldStep

LEMMA NextAccumulating ==
  IInv /\ Reporting /\ Accumulating /\ [Next]_vars => Accumulating'
<1> SUFFICES ASSUME IInv, Reporting, Accumulating, [Next]_vars, NEW policy, Continues(policy)
             PROVE  Arrives(policy, root', stack', Folded(policy, calls'))
  BY DEF Accumulating
<1> DEFINE l == Len(stack)
           value == Folded(policy, calls)
<1>1. /\ stack \in Seq(Frame) /\ root \in Node /\ Walks(root, stack) /\ Sensible(policy)
      /\ Arrives(policy, root, stack, value)
  <2>1. stack \in Seq(Frame)
    BY WiderStack DEF IInv, Sound
  <2>. QED BY <2>1 DEF IInv, Reporting, Reports, Continues, Accumulating
<1>2. ASSUME stack # << >>
      PROVE  /\ \E w : Threads(policy, w, stack, value)
             /\ l \in Nat /\ l \in 1 .. l /\ Top = stack[l]
             /\ Top.node \in Node /\ Top.path \in TreePath /\ Top.i \in 0 .. degree(Top.node)
             /\ degree(Top.node) \in Nat
             /\ ~ Top.started => Top.i = 0
  <2>1. /\ l \in 1 .. l /\ Top = stack[l] /\ Top.node \in Node /\ Top.path \in TreePath
        /\ Top.i \in Nat
    BY <1>2, TopIsSound
  <2>2. degree(Top.node) \in Nat
    BY <2>1, TreeAssumption DEF NodeAssumption, degree
  <2>3. \E w : Threads(policy, w, stack, value)
    BY <1>1, <1>2 DEF Arrives
  <2>4. Top.i <= degree(Top.node) /\ (~ Top.started => Top.i = 0)
    BY <1>1, <2>1 DEF Walks, Looping
  <2>5. l \in Nat
    BY <1>1
  <2>. QED BY <2>1, <2>2, <2>3, <2>4, <2>5
<1> HIDE DEF value
<1>3. ASSUME stack # << >>, NEW w, Threads(policy, w, stack, value)
      PROVE  /\ w[l] \in policy.result_type
             /\ value = Through(policy, Top.node, Top.path, w[l], Top.i)
             /\ value \in policy.result_type
             /\ Top.i = 0 => value = w[l]
  <2>1. /\ w[l] \in policy.result_type
        /\ value = Through(policy, Top.node, Top.path, w[l], Top.i)
    BY <1>2, <1>3 DEF Threads
  <2>2. Top.node \in Node /\ Top.path \in TreePath /\ Top.i \in 0 .. degree(Top.node)
    BY <1>2, <1>3
  <2>3. PICK x : x = w[l]
    OBVIOUS
  <2>4. /\ Through(policy, Top.node, Top.path, x, Top.i) \in policy.result_type
        /\ Through(policy, Top.node, Top.path, x, 0) = x
    BY <1>1, <2>1, <2>2, <2>3, ThroughChildren
  <2>. QED BY <2>1, <2>3, <2>4
<1>4. CASE LeafFunc
  <2>1. /\ stack # << >> /\ isLeaf(Top.node) /\ Call("leaf") /\ stack' = Front(stack)
        /\ root' = root
    BY <1>4 DEF LeafFunc
  <2>2. PICK w : Threads(policy, w, stack, value)
    BY <1>2, <2>1
  <2>3. Folded(policy, calls') = node_helper(policy, Top.node, Top.path, policy.Reduction, value)
    BY <1>1, <2>1, FoldedCall DEF value
  <2>4. Top.i = 0
    BY <1>2, <2>1, TopIsSound
  <2>5. value = w[l] /\ w[l] \in policy.result_type
    BY <1>3, <2>1, <2>2, <2>4
  <2>6. ResultOf(policy, Top.node, Top.path, value)
          = node_helper(policy, Top.node, Top.path, policy.Reduction, value)
    <3>1. Top.node \in Node /\ Top.path \in TreePath /\ value \in policy.result_type
      BY <1>2, <2>1, <2>5
    <3>. QED BY <1>1, <2>1, <3>1, ThroughChildren
  <2>7. Folded(policy, calls') = ResultOf(policy, stack[l].node, stack[l].path, w[l])
    BY <1>2, <2>1, <2>3, <2>5, <2>6
  <2>8. Arrives(policy, root, Front(stack), Folded(policy, calls'))
    BY <1>1, <2>1, <2>2, <2>7, ArrivesReturn
  <2>. QED BY <2>1, <2>8
<1>5. CASE PostFunc
  <2>1. /\ stack # << >> /\ Top.started /\ Top.i >= degree(Top.node) /\ Call("post")
        /\ stack' = Front(stack) /\ root' = root
    BY <1>5 DEF PostFunc
  <2>2. PICK w : Threads(policy, w, stack, value)
    BY <1>2, <2>1
  <2>3. Folded(policy, calls')
          = node_helper(policy, Top.node, Top.path, policy.ParentChildReduction, value)
    BY <1>1, <2>1, FoldedCall DEF value
  <2>4. Top.i = degree(Top.node)
    BY <1>2, <2>1
  <2>5. ~ isLeaf(Top.node)
    BY <2>1, TopIsSound
  <2>6. value = Through(policy, Top.node, Top.path, w[l], Top.i) /\ w[l] \in policy.result_type
    BY <1>3, <2>1, <2>2
  <2>7. ResultOf(policy, Top.node, Top.path, w[l])
          = node_helper(policy, Top.node, Top.path, policy.ParentChildReduction, value)
    <3>1. PICK x : x = w[l]
      OBVIOUS
    <3>2. Top.node \in Node /\ Top.path \in TreePath /\ x \in policy.result_type
      BY <1>2, <2>1, <2>6, <3>1
    <3>3. ResultOf(policy, Top.node, Top.path, x)
            = node_helper(policy, Top.node, Top.path, policy.ParentChildReduction,
                          Through(policy, Top.node, Top.path, x, degree(Top.node)))
      BY <1>1, <2>5, <3>2, ThroughChildren
    <3>. QED BY <2>4, <2>6, <3>1, <3>3
  <2>8. Folded(policy, calls') = ResultOf(policy, stack[l].node, stack[l].path, w[l])
    BY <1>2, <2>1, <2>3, <2>7
  <2>9. Arrives(policy, root, Front(stack), Folded(policy, calls'))
    BY <1>1, <2>1, <2>2, <2>8, ArrivesReturn
  <2>. QED BY <2>1, <2>9
<1>6. CASE PreFunc
  <2> DEFINE f == [Top EXCEPT !.started = TRUE]
             t == [stack EXCEPT ![l] = f]
  <2>1. /\ stack # << >> /\ Call("pre") /\ root' = root
        /\ stack' = [stack EXCEPT ![Len(stack)].started = TRUE]
    BY <1>6 DEF PreFunc
  <2>2. f \in Frame /\ f.i = Top.i /\ f.node = Top.node /\ f.path = Top.path
    BY <2>1, TopIsSound DEF Frame
  <2>3. stack' = t
    BY <2>1, TopIsSound DEF IInv
  <2> HIDE DEF f
  <2>4. /\ Len(t) = l /\ t # << >> /\ t[l] = f
        /\ \A k \in 1 .. l - 1 : t[k] = stack[k]
    BY <1>1, <2>1, <2>2, ReplaceTop
  <2>5. Folded(policy, calls') = value
    BY <1>1, <2>1, FoldedCall DEF value
  <2>6. PICK w : Threads(policy, w, stack, value)
    BY <1>2, <2>1
  <2> HIDE DEF t
  <2>7. /\ \A k \in 1 .. l - 1 : w[k + 1] = Through(policy, t[k].node, t[k].path, w[k], t[k].i - 1)
        /\ value = Through(policy, t[l].node, t[l].path, w[l], t[l].i)
    <3>1. value = Through(policy, Top.node, Top.path, w[l], Top.i)
      BY <1>3, <2>1, <2>6
    <3>2. \A k \in 1 .. l - 1 :
            w[k + 1] = Through(policy, stack[k].node, stack[k].path, w[k], stack[k].i - 1)
      BY <2>6 DEF Threads
    <3> HIDE DEF l
    <3>. QED BY <2>2, <2>4, <3>1, <3>2
  <2>8. Threads(policy, w, t, value)
    BY <2>4, <2>6, <2>7 DEF Threads
  <2>. QED BY <2>1, <2>3, <2>4, <2>5, <2>8 DEF Arrives
<1>7. CASE Recurse
  <2> DEFINE g == [Top EXCEPT !.i = @ + 1]
             s == [stack EXCEPT ![l] = g]
             f == Activation(child(Top.node, Top.i), push_back(Top.path, Top.i))
             t == Append(s, f)
  <2>1. /\ stack # << >> /\ Top.i < degree(Top.node)
        /\ UNCHANGED << root, client, calls >>
        /\ stack' = Append([stack EXCEPT ![Len(stack)].i = @ + 1], f)
    BY <1>7 DEF Recurse
  <2>2. g \in Frame /\ g.i = Top.i + 1 /\ g.node = Top.node /\ g.path = Top.path
    BY <2>1, TopIsSound DEF Frame
  <2>3. stack' = t
    BY <2>1, TopIsSound DEF IInv
  <2>4. Top.i + 1 \in 1 .. degree(Top.node) /\ (Top.i + 1) - 1 = Top.i
    <3>1. Top.i \in 0 .. degree(Top.node) /\ degree(Top.node) \in Nat
      BY <1>2, <2>1
    <3>2. PICK i, d : i = Top.i /\ d = degree(Top.node)
      OBVIOUS
    <3>3. i \in 0 .. d /\ d \in Nat /\ i < d
      BY <2>1, <3>1, <3>2
    <3>4. i + 1 \in 1 .. d /\ (i + 1) - 1 = i
      BY <3>3
    <3>. QED BY <3>2, <3>4
  <2>5. child(Top.node, Top.i) \in Node /\ push_back(Top.path, Top.i) \in TreePath
    <3>1. child(Top.node, Top.i) \in Node
      BY <1>2, <2>1, <2>4, ChildOf
    <3>. QED BY <1>2, <2>1, <3>1 DEF push_back, TreePath
  <2>6. f \in Frame /\ f.i = 0 /\ f.node \in Node /\ f.path \in TreePath
    BY <2>5 DEF Activation, Frame
  <2> HIDE DEF f, g
  <2>7. /\ s \in Seq(Frame) /\ Len(s) = l /\ s[l] = g
        /\ \A k \in 1 .. l - 1 : s[k] = stack[k]
    BY <1>1, <2>1, <2>2, ReplaceTop
  <2> HIDE DEF s
  <2>8. /\ t # << >> /\ Len(t) = l + 1 /\ t[l + 1] = f
        /\ \A k \in 1 .. l : t[k] = s[k]
    BY <2>6, <2>7, PushTop
  <2> HIDE DEF t
  <2>9. PICK w : Threads(policy, w, stack, value)
    BY <1>2, <2>1
  <2>10. /\ w[l] \in policy.result_type /\ value \in policy.result_type
         /\ value = Through(policy, Top.node, Top.path, w[l], Top.i)
    BY <1>3, <2>1, <2>9
  <2>11. /\ w[1] = policy.start /\ \A k \in 1 .. l : w[k] \in policy.result_type
         /\ \A k \in 1 .. l - 1 :
              w[k + 1] = Through(policy, stack[k].node, stack[k].path, w[k], stack[k].i - 1)
    BY <2>9 DEF Threads
  <2>12. l \in Nat /\ l \in 1 .. l
    BY <1>2, <2>1
  <2> DEFINE u == [k \in 1 .. l + 1 |-> IF k \in 1 .. l THEN w[k] ELSE value]
  <2> HIDE DEF l
  <2>13. l + 1 \in 1 .. l + 1 /\ l + 1 \notin 1 .. l /\ 1 \in 1 .. l /\ 1 .. l \subseteq 1 .. l + 1
    BY <2>12
  <2>14. u[l + 1] = value /\ \A k \in 1 .. l : u[k] = w[k]
    BY <2>13
  <2> HIDE DEF u
  <2>15. \A k \in 1 .. l - 1 : t[k] = stack[k] /\ k \in 1 .. l /\ k + 1 \in 1 .. l
    <3>1. \A k \in 1 .. l - 1 : k \in 1 .. l /\ k + 1 \in 1 .. l
      BY <2>12
    <3>. QED BY <2>7, <2>8, <3>1
  <2>16. t[l] = g
    BY <2>7, <2>8, <2>12
  <2>17. u[1] = policy.start /\ \A k \in 1 .. l + 1 : u[k] \in policy.result_type
    <3>1. \A k \in 1 .. l + 1 : k \in 1 .. l \/ k = l + 1
      BY <2>12
    <3>. QED BY <2>10, <2>11, <2>13, <2>14, <3>1
  <2>18. \A k \in 1 .. l : u[k + 1] = Through(policy, t[k].node, t[k].path, u[k], t[k].i - 1)
    <3> SUFFICES ASSUME NEW k \in 1 .. l
                 PROVE  u[k + 1] = Through(policy, t[k].node, t[k].path, u[k], t[k].i - 1)
      OBVIOUS
    <3>1. CASE k = l
      BY <2>2, <2>4, <2>10, <2>12, <2>14, <2>16, <3>1
    <3>2. CASE k # l
      <4>1. k \in 1 .. l - 1
        BY <2>12, <3>2
      <4>. QED BY <2>11, <2>14, <2>15, <4>1
    <3>. QED BY <3>1, <3>2
  <2>19. value = Through(policy, t[l + 1].node, t[l + 1].path, u[l + 1], t[l + 1].i)
    <3>1. Through(policy, f.node, f.path, value, 0) = value
      BY <1>1, <2>6, <2>10, ThroughChildren
    <3>. QED BY <2>6, <2>8, <2>14, <3>1
  <2>20. (l + 1) - 1 = l
    BY <2>12
  <2>21. Threads(policy, u, t, value)
    BY <2>8, <2>17, <2>18, <2>19, <2>20 DEF Threads
  <2>22. Folded(policy, calls') = value
    BY <2>1 DEF value
  <2>. QED BY <2>3, <2>8, <2>21, <2>22 DEF Arrives
<1>8. CASE UNCHANGED vars
  BY <1>1, <1>8 DEF vars, value
<1>. QED BY <1>4, <1>5, <1>6, <1>7, <1>8 DEF Next

LEMMA AccumulatingInvariance == Spec => []Accumulating
BY InitReporting, NextReporting, InitAccumulating, NextAccumulating, Invariance, PTL DEF Spec

(* The compiler's accumulation over the types and forEachNode's walk over  *)
(* the objects agree whatever is computed: when the walk is done, the      *)
(* result for its tree is what the policy makes of the calls, one after    *)
(* the other, leafs by Reduction and inner nodes by ParentChildReduction.  *)
AccumulatesCalls ==
  Done => \A policy : Continues(policy) => Accumulated(policy, root) = Folded(policy, calls)

THEOREM AccumulationFollowsCalls == Spec => []AccumulatesCalls
<1>1. Accumulating => AccumulatesCalls
  BY DEF Accumulating, AccumulatesCalls, Arrives, Done
<1>. QED BY <1>1, AccumulatingInvariance, PTL

-----------------------------------------------------------------------------
(* The policies that keep every visit.                                     *)
Kept == [path : TreePath, by : {"Reduction", "ParentChildReduction"}]

LEMMA ReduceKeeps ==
  ASSUME NEW op \in {"Reduction", "ParentChildReduction"}, NEW value, NEW path
  PROVE  reduce(op, value, path) = Append(value, [path |-> path, by |-> op])
<1>1. op \notin {"or_", "and_", "plus", "minus", "multiply", "min", "max"}
  OBVIOUS
<1>. QED BY <1>1 DEF reduce

LEMMA KeepingContinues ==
  ASSUME NEW algorithm \in {"AccumulateValue", "bottom_up_reduction"}, NEW classes
  PROVE  Continues(Keeping(algorithm, classes))
<1> DEFINE p == Keeping(algorithm, classes)
<1>1. /\ p.algorithm # "flattened_reduction" /\ p.start = << >> /\ p.result_type = Seq(Kept)
      /\ p.Reduction = "Reduction" /\ p.ParentChildReduction = "ParentChildReduction"
      /\ p.visit = "path"
  BY DEF Keeping, Kept
<1> HIDE DEF p
<1>2. ASSUME NEW op \in {"Reduction", "ParentChildReduction"}, NEW value \in Seq(Kept),
             NEW path \in TreePath
      PROVE  reduce(op, value, visit(p, path)) \in Seq(Kept)
  <2>1. visit(p, path) = path
    BY <1>1 DEF visit
  <2>2. [path |-> path, by |-> op] \in Kept
    BY DEF Kept
  <2>3. Append(value, [path |-> path, by |-> op]) \in Seq(Kept)
    BY <2>2, PushTop
  <2>. QED BY <2>1, <2>3, ReduceKeeps
<1>3. << >> \in Seq(Kept)
  OBVIOUS
<1>4. Sensible(p)
  BY <1>1, <1>2, <1>3 DEF Sensible
<1>. QED BY <1>1, <1>4 DEF Continues, p

(* Left is what these policies make of the calls.                          *)
LEMMA LeftIsFolded ==
  ASSUME IInv, NEW algorithm \in {"AccumulateValue", "bottom_up_reduction"}, NEW classes
  PROVE  Left(classes) = Folded(Keeping(algorithm, classes), calls)
<1> DEFINE p == Keeping(algorithm, classes)
           V == p.result_type
           l == Len(calls)
           v(g, k) ==
             IF k = 0
               THEN << >>
               ELSE IF calls[k].func # "pre" /\ TypeOf[calls[k].node] \in classes
                      THEN Append(g[k - 1],
                             [path |-> calls[k].path,
                              by |-> IF calls[k].func = "leaf" THEN "Reduction"
                                     ELSE "ParentChildReduction"])
                      ELSE g[k - 1]
<1>1. /\ p.start = << >> /\ p.doVisit = classes
      /\ p.Reduction = "Reduction" /\ p.ParentChildReduction = "ParentChildReduction"
      /\ p.visit = "path"
  BY DEF Keeping
<1>2. Sensible(p)
  BY KeepingContinues DEF Continues
<1>3. calls \in Seq(FunctionCall)
  BY WiderStack DEF IInv, Right
<1>4. l \in Nat /\ \A k \in 1 .. l : calls[k] \in FunctionCall
  BY <1>3, ElementOfSeq
<1>5. Left(classes) = (CHOOSE g : g = [k \in 0 .. l |-> v(g, k)])[l]
  BY DEF Left
<1> HIDE DEF p
<1>6. ASSUME NEW g, NEW k \in 1 .. l PROVE v(g, k) = FoldStep(p, g[k - 1], calls[k])
  <2> DEFINE c == calls[k]
             op == IF c.func = "leaf" THEN "Reduction" ELSE "ParentChildReduction"
             x == g[k - 1]
  <2>1. k # 0
    BY <1>4
  <2>2. v(g, k) = IF c.func # "pre" /\ TypeOf[c.node] \in classes
                    THEN Append(x, [path |-> c.path, by |-> op]) ELSE x
    BY <2>1
  <2>3. op \in {"Reduction", "ParentChildReduction"}
    OBVIOUS
  <2>4. op = IF c.func = "leaf" THEN p.Reduction ELSE p.ParentChildReduction
    BY <1>1
  <2> HIDE DEF v, c, x, op
  <2>5. reduce(op, x, visit(p, c.path)) = Append(x, [path |-> c.path, by |-> op])
    <3>1. visit(p, c.path) = c.path
      BY <1>1 DEF visit
    <3>. QED BY <2>3, <3>1, ReduceKeeps
  <2>6. FoldStep(p, x, c) = IF c.func = "pre" THEN x
                            ELSE node_helper(p, c.node, c.path, op, x)
    BY <2>4 DEF FoldStep
  <2>7. node_helper(p, c.node, c.path, op, x)
          = IF TypeOf[c.node] \in classes THEN Append(x, [path |-> c.path, by |-> op]) ELSE x
    BY <1>1, <2>5 DEF node_helper
  <2>8. v(g, k) = FoldStep(p, x, c)
    BY <2>2, <2>6, <2>7
  <2>. QED BY <2>8 DEF x, c
<1>7. \A g : v(g, 0) = << >>
  OBVIOUS
<1> HIDE DEF v, l
<1>8. PICK h : FoldSteps(p, calls, h)
  BY <1>2, <1>3, FoldStepsExist
<1> DEFINE e == [k \in 0 .. l |-> h[k]]
<1>9. e = [k \in 0 .. l |-> v(e, k)]
  <2> DEFINE w(k) == v(e, k)
  <2>1. \A k \in 0 .. l : e[k] = w(k)
    <3> SUFFICES ASSUME NEW k \in 0 .. l PROVE e[k] = v(e, k)
      OBVIOUS
    <3>1. CASE k = 0
      <4>1. 0 \in 0 .. l
        BY <1>4
      <4>. QED BY <1>1, <1>7, <1>8, <3>1, <4>1 DEF FoldSteps
    <3>2. CASE k # 0
      <4>1. k \in 1 .. l /\ k - 1 \in 0 .. l
        BY <1>4, <3>2
      <4>2. h[k] = FoldStep(p, h[k - 1], calls[k])
        BY <1>8, <4>1 DEF FoldSteps, l
      <4>3. e[k] = h[k] /\ e[k - 1] = h[k - 1]
        BY <4>1
      <4>. QED BY <1>6, <4>1, <4>2, <4>3
    <3>. QED BY <3>1, <3>2
  <2> HIDE DEF w
  <2>2. e = [k \in 0 .. l |-> w(k)]
    BY <2>1
  <2>. QED BY <2>2 DEF w
<1> HIDE DEF e
<1> DEFINE g == CHOOSE g : g = [k \in 0 .. l |-> v(g, k)]
<1>10. g = [k \in 0 .. l |-> v(g, k)]
  BY <1>9
<1> HIDE DEF g
<1>11. \A k \in 0 .. l : g[k] = v(g, k)
  <2> DEFINE w(k) == v(g, k)
  <2>1. g = [k \in 0 .. l |-> w(k)]
    BY <1>10
  <2> HIDE DEF w
  <2>2. \A k \in 0 .. l : g[k] = w(k)
    BY <2>1
  <2>. QED BY <2>2 DEF w
<1>12. g[0] = p.start /\ \A k \in 1 .. l : g[k] = FoldStep(p, g[k - 1], calls[k])
  <2>1. 0 \in 0 .. l /\ \A k \in 1 .. l : k \in 0 .. l
    BY <1>4
  <2>. QED BY <1>1, <1>6, <1>7, <1>11, <2>1
<1>13. \A k \in 0 .. l : g[k] \in V
  <2> DEFINE T == {k \in Nat : k \in 0 .. l => g[k] \in V}
  <2>1. 0 \in T
    BY <1>2, <1>12 DEF Sensible
  <2>2. ASSUME NEW k \in Nat, k \in T PROVE k + 1 \in T
    <3> SUFFICES ASSUME k + 1 \in 0 .. l PROVE g[k + 1] \in V
      OBVIOUS
    <3>1. k \in 0 .. l /\ k + 1 \in 1 .. l /\ (k + 1) - 1 = k
      BY <1>4
    <3>2. g[k] \in V
      BY <2>2, <3>1
    <3>3. FoldStep(p, g[k], calls[k + 1]) \in V
      BY <1>2, <1>4, <3>1, <3>2, FoldStepStays
    <3>. QED BY <1>12, <3>1, <3>3
  <2>3. Nat \subseteq T
    <3> HIDE DEF T
    <3>. QED BY <2>1, <2>2, CountingInduction
  <2>. QED BY <1>4, <2>3
<1>14. FoldSteps(p, calls, g)
  BY <1>12, <1>13 DEF FoldSteps, l
<1>15. g[l] = h[l]
  BY <1>3, <1>8, <1>14, FoldStepsAgree DEF l
<1>16. Folded(p, calls) = h[l]
  <2>1. FoldSteps(p, calls, CHOOSE f : FoldSteps(p, calls, f))
    BY <1>8
  <2>. QED BY <1>3, <1>8, <2>1, FoldStepsAgree DEF Folded, l
<1>. QED BY <1>5, <1>15, <1>16 DEF g, p

(* AccumulateValue, and AccumulateType with bottom_up_reduction, reduce    *)
(* every selected node once, in the order in which forEachNode leaves the  *)
(* nodes, for every tree and every choice of classes.                      *)
THEOREM ReducesInPostorderAlways == Spec => []ReducesInPostorder
<1>1. IInv /\ Accumulating => ReducesInPostorder
  <2> SUFFICES ASSUME IInv, Accumulating, Done,
                      NEW algorithm \in {"AccumulateValue", "bottom_up_reduction"},
                      NEW classes \in SUBSET Type
               PROVE  Accumulated(Keeping(algorithm, classes), root) = Left(classes)
    BY DEF ReducesInPostorder
  <2>1. stack = << >>
    BY DEF Done
  <2>2. Continues(Keeping(algorithm, classes))
    BY KeepingContinues
  <2>3. Folded(Keeping(algorithm, classes), calls)
          = Accumulated(Keeping(algorithm, classes), root)
    BY <2>1, <2>2 DEF Accumulating, Arrives
  <2>. QED BY <2>3, LeftIsFolded
<1>. QED BY <1>1, Invariance, AccumulatingInvariance, PTL

-----------------------------------------------------------------------------
(* The policies that count.                                                *)
LeafClasses == {t \in Type : Tag[t] = "LeafNodeTag"}

Nodes == Counting("one", "plus", Type)
Leafs == Counting("one", "plus", LeafClasses)
Levels == Counting("level", "max", Type)

LEMMA CountingContinues ==
  /\ Continues(Nodes) /\ Continues(Leafs) /\ Continues(Levels)
  /\ Nodes.result_type = Nat /\ Leafs.result_type = Nat /\ Levels.result_type = Nat
  /\ Nodes.start = 0 /\ Leafs.start = 0 /\ Levels.start = 0
  /\ Nodes.Reduction = "plus" /\ Nodes.ParentChildReduction = "plus"
  /\ Leafs.Reduction = "plus" /\ Leafs.ParentChildReduction = "plus"
  /\ Levels.Reduction = "max" /\ Levels.ParentChildReduction = "max"
<1>1. \A i, j \in Nat : reduce("plus", i, j) \in Nat /\ reduce("max", i, j) \in Nat
  BY DEF reduce
<1>2. \A p, path : p.visit = "one" => visit(p, path) = 1
  BY DEF visit
<1>3. \A p, path : p.visit = "level" => visit(p, path) = Len(path) + 1
  BY DEF visit
<1>4. \A path \in TreePath : Len(path) + 1 \in Nat
  BY DEF TreePath
<1>5. Nodes.visit = "one" /\ Leafs.visit = "one" /\ Levels.visit = "level"
  BY DEF Nodes, Leafs, Levels, Counting
<1>6. /\ Nodes.result_type = Nat /\ Leafs.result_type = Nat /\ Levels.result_type = Nat
      /\ Nodes.start = 0 /\ Leafs.start = 0 /\ Levels.start = 0
      /\ Nodes.Reduction = "plus" /\ Nodes.ParentChildReduction = "plus"
      /\ Leafs.Reduction = "plus" /\ Leafs.ParentChildReduction = "plus"
      /\ Levels.Reduction = "max" /\ Levels.ParentChildReduction = "max"
      /\ Nodes.algorithm = "AccumulateValue" /\ Leafs.algorithm = "AccumulateValue"
      /\ Levels.algorithm = "AccumulateValue"
  BY DEF Nodes, Leafs, Levels, Counting
<1>7. Sensible(Nodes) /\ Sensible(Leafs)
  BY <1>1, <1>2, <1>5, <1>6 DEF Sensible
<1>8. Sensible(Levels)
  BY <1>1, <1>3, <1>4, <1>5, <1>6 DEF Sensible
<1>. QED BY <1>6, <1>7, <1>8 DEF Continues

LEMMA CountingHelps ==
  ASSUME NEW n \in Node, NEW path \in TreePath, NEW value \in Nat
  PROVE  /\ node_helper(Nodes, n, path, "plus", value) = value + 1
         /\ node_helper(Leafs, n, path, "plus", value) = IF isLeaf(n) THEN value + 1 ELSE value
         /\ node_helper(Levels, n, path, "max", value) = Larger(value, Len(path) + 1)
<1>1. Nodes.visit = "one" /\ Leafs.visit = "one" /\ Levels.visit = "level"
  BY DEF Nodes, Leafs, Levels, Counting
<1>2. Nodes.doVisit = Type /\ Leafs.doVisit = LeafClasses /\ Levels.doVisit = Type
  BY DEF Nodes, Leafs, Levels, Counting
<1>3. TypeOf[n] \in Type /\ (TypeOf[n] \in LeafClasses <=> isLeaf(n))
  BY TreeAssumption DEF NodeAssumption, LeafClasses, isLeaf, TagOf
<1>4. visit(Nodes, path) = 1 /\ visit(Leafs, path) = 1 /\ visit(Levels, path) = Len(path) + 1
  BY <1>1 DEF visit
<1>5. Len(path) + 1 \in Nat
  BY DEF TreePath
<1>6. /\ reduce("plus", value, 1) = value + 1
      /\ reduce("max", value, Len(path) + 1) = Larger(value, Len(path) + 1)
  BY <1>5 DEF reduce, Larger
<1>. QED BY <1>2, <1>3, <1>4, <1>6 DEF node_helper

(* What the first i children make of a value, child by child.              *)
LEMMA ThroughChild ==
  ASSUME NEW policy, Continues(policy), NEW n \in Node, NEW path \in TreePath,
         NEW value \in policy.result_type, NEW i \in 1 .. degree(n)
  PROVE  Through(policy, n, path, value, i)
           = ResultOf(policy, child(n, i - 1), push_back(path, i - 1),
                      Through(policy, n, path, value, i - 1))
<1>1. PICK v : v = Through(policy, n, path, value, i - 1)
  OBVIOUS
<1>2. Through(policy, n, path, value, i) = Accumulation(policy)[Entered(policy, n, path, i, v)]
  BY <1>1, ThroughChildren DEF Continues
<1>3. Entered(policy, n, path, i, v) = << child(n, i - 1), push_back(path, i - 1), v >>
  BY DEF Entered, propagate_type_down_tree, Continues
<1>. QED BY <1>1, <1>2, <1>3 DEF ResultOf

Counts3(n, path, value) ==
  /\ ResultOf(Nodes, n, path, value) = value + Summed[n].nodeCount
  /\ ResultOf(Leafs, n, path, value) = value + Summed[n].leafCount
  /\ ResultOf(Levels, n, path, value) = Larger(value, Len(path) + Summed[n].depth)

LEMMA LargerIs ==
  ASSUME NEW u \in Nat, NEW l \in Nat, NEW c \in Nat, NEW r \in Nat
  PROVE  /\ Larger(Larger(u, l + c), l + r) = Larger(u, l + Larger(c, r))
         /\ Larger(Larger(u, l + r), l) = Larger(u, l + r)
         /\ Larger(Larger(u, l + 0), l) = Larger(u, l + 0)
         /\ Larger(u, l) \in Nat
BY DEF Larger

(* A child's results are as Summed says, and so are those of a sequence    *)
(* of children.                                                            *)
LEMMA CountsThrough ==
  ASSUME NEW n \in Node, NEW path \in TreePath, NEW value \in Nat,
         \A k \in 0 .. degree(n) - 1, p \in TreePath, v \in Nat : Counts3(child(n, k), p, v),
         NEW g, InfoChain(Summed, n, g)
  PROVE  /\ Through(Nodes, n, path, value, degree(n)) = value + g[0].nodeCount
         /\ Through(Leafs, n, path, value, degree(n)) = value + g[0].leafCount
         /\ Larger(Through(Levels, n, path, value, degree(n)), Len(path) + 1)
              = Larger(value, (Len(path) + 1) + g[0].depth)
         /\ Through(Levels, n, path, value, degree(n)) \in Nat
<1> DEFINE d == degree(n)
           N(i) == Through(Nodes, n, path, value, i)
           L(i) == Through(Leafs, n, path, value, i)
           M(i) == Through(Levels, n, path, value, i)
           l == Len(path) + 1
<1>1. d \in Nat /\ l \in Nat
  BY TreeAssumption DEF NodeAssumption, degree, TreePath
<1>2. \A i \in 0 .. d : N(i) \in Nat /\ L(i) \in Nat /\ M(i) \in Nat
  BY CountingContinues, ThroughChildren DEF Continues
<1>3. N(0) = value /\ L(0) = value /\ M(0) = value
  BY CountingContinues, ThroughChildren DEF Continues
<1>4. ASSUME NEW i \in 1 .. d
      PROVE  /\ N(i) = N(i - 1) + Summed[child(n, i - 1)].nodeCount
             /\ L(i) = L(i - 1) + Summed[child(n, i - 1)].leafCount
             /\ M(i) = Larger(M(i - 1), l + Summed[child(n, i - 1)].depth)
  <2> DEFINE c == child(n, i - 1)
             p == push_back(path, i - 1)
  <2>1. i - 1 \in 0 .. d - 1 /\ i - 1 \in 0 .. d /\ i - 1 \in Nat
    BY <1>1
  <2>2. p \in TreePath /\ Len(p) = l
    <3>1. p \in Seq(Nat) /\ Len(p) = Len(path) + 1
      BY <2>1, PushTop DEF push_back, TreePath
    <3>. QED BY <3>1 DEF TreePath
  <2>3. /\ N(i) = ResultOf(Nodes, c, p, N(i - 1))
        /\ L(i) = ResultOf(Leafs, c, p, L(i - 1))
        /\ M(i) = ResultOf(Levels, c, p, M(i - 1))
    BY CountingContinues, ThroughChild
  <2>4. N(i - 1) \in Nat /\ L(i - 1) \in Nat /\ M(i - 1) \in Nat
    BY <1>2, <2>1
  <2> HIDE DEF N, L, M, l, p
  <2>5. \A v \in Nat : Counts3(c, p, v)
    BY <2>1, <2>2
  <2>. QED BY <2>2, <2>3, <2>4, <2>5 DEF Counts3
<1>5. g[d] = NoInfo /\ \A k \in 0 .. d : g[k] \in Info
  BY DEF InfoChain, Joins
<1>6. ASSUME NEW i \in 1 .. d
      PROVE  /\ g[i - 1].nodeCount = Summed[child(n, i - 1)].nodeCount + g[i].nodeCount
             /\ g[i - 1].leafCount = Summed[child(n, i - 1)].leafCount + g[i].leafCount
             /\ g[i - 1].depth = Larger(Summed[child(n, i - 1)].depth, g[i].depth)
             /\ Summed[child(n, i - 1)] \in Info
  <2>1. i - 1 \in 0 .. d - 1 /\ (i - 1) + 1 = i /\ i \in 0 .. d
    BY <1>1
  <2>2. g[i - 1] = Joined(Summed[child(n, i - 1)], g[i])
    BY <2>1 DEF InfoChain, Joins, OfChildren
  <2>3. Summed[child(n, i - 1)] \in Info
    BY <2>1, SummedUnfolds DEF InfoBelow
  <2>. QED BY <1>5, <2>1, <2>2, <2>3, JoinedIs
<1> HIDE DEF d, N, L, M, l
<1> DEFINE T == {i \in Nat : i \in 0 .. d =>
                   /\ N(i) + g[i].nodeCount = value + g[0].nodeCount
                   /\ L(i) + g[i].leafCount = value + g[0].leafCount
                   /\ Larger(M(i), l + g[i].depth) = Larger(value, l + g[0].depth)}
<1>7. 0 \in T
  BY <1>3
<1>8. ASSUME NEW i \in Nat, i \in T PROVE i + 1 \in T
  <2> SUFFICES ASSUME i + 1 \in 0 .. d
               PROVE  /\ N(i + 1) + g[i + 1].nodeCount = value + g[0].nodeCount
                      /\ L(i + 1) + g[i + 1].leafCount = value + g[0].leafCount
                      /\ Larger(M(i + 1), l + g[i + 1].depth) = Larger(value, l + g[0].depth)
    OBVIOUS
  <2>1. i \in 0 .. d /\ i + 1 \in 1 .. d /\ (i + 1) - 1 = i
    BY <1>1
  <2>2. PICK c : c = Summed[child(n, i)]
    OBVIOUS
  <2>3. c \in Info /\ g[i + 1] \in Info /\ g[i] \in Info /\ g[0] \in Info
    <3>1. 0 \in 0 .. d
      BY <1>1
    <3>. QED BY <1>5, <1>6, <2>1, <2>2, <3>1
  <2>4. /\ g[i].nodeCount = c.nodeCount + g[i + 1].nodeCount
        /\ g[i].leafCount = c.leafCount + g[i + 1].leafCount
        /\ g[i].depth = Larger(c.depth, g[i + 1].depth)
    BY <1>6, <2>1, <2>2
  <2>5. N(i + 1) = N(i) + c.nodeCount /\ L(i + 1) = L(i) + c.leafCount
        /\ M(i + 1) = Larger(M(i), l + c.depth)
    BY <1>4, <2>1, <2>2
  <2>6. /\ N(i) + g[i].nodeCount = value + g[0].nodeCount
        /\ L(i) + g[i].leafCount = value + g[0].leafCount
        /\ Larger(M(i), l + g[i].depth) = Larger(value, l + g[0].depth)
    BY <1>8, <2>1
  <2>7. N(i) \in Nat /\ L(i) \in Nat /\ M(i) \in Nat
    BY <1>2, <2>1
  <2>8. /\ c.nodeCount \in Nat /\ c.leafCount \in Nat /\ c.depth \in Nat
        /\ g[i + 1].nodeCount \in Nat /\ g[i + 1].leafCount \in Nat /\ g[i + 1].depth \in Nat
    BY <2>3 DEF Info
  <2>9. (N(i) + c.nodeCount) + g[i + 1].nodeCount = N(i) + (c.nodeCount + g[i + 1].nodeCount)
    BY <2>7, <2>8
  <2>10. (L(i) + c.leafCount) + g[i + 1].leafCount = L(i) + (c.leafCount + g[i + 1].leafCount)
    BY <2>7, <2>8
  <2>11. Larger(Larger(M(i), l + c.depth), l + g[i + 1].depth)
           = Larger(M(i), l + Larger(c.depth, g[i + 1].depth))
    <3>1. PICK u : u = M(i)
      OBVIOUS
    <3>2. PICK a : a = c.depth
      OBVIOUS
    <3>3. PICK r : r = g[i + 1].depth
      OBVIOUS
    <3>4. u \in Nat /\ a \in Nat /\ r \in Nat /\ l \in Nat
      BY <1>1, <2>7, <2>8, <3>1, <3>2, <3>3
    <3>5. Larger(Larger(u, l + a), l + r) = Larger(u, l + Larger(a, r))
      BY <3>4, LargerIs
    <3>. QED BY <3>1, <3>2, <3>3, <3>5
  <2>12. N(i + 1) + g[i + 1].nodeCount = value + g[0].nodeCount
    BY <2>4, <2>5, <2>6, <2>9
  <2>13. L(i + 1) + g[i + 1].leafCount = value + g[0].leafCount
    BY <2>4, <2>5, <2>6, <2>10
  <2>14. Larger(M(i + 1), l + g[i + 1].depth) = Larger(value, l + g[0].depth)
    BY <2>4, <2>5, <2>6, <2>11
  <2>. QED BY <2>12, <2>13, <2>14
<1>9. Nat \subseteq T
  <2> HIDE DEF T
  <2>. QED BY <1>7, <1>8, CountingInduction
<1>10. d \in 0 .. d /\ g[d].nodeCount = 0 /\ g[d].leafCount = 0 /\ g[d].depth = 0
  BY <1>1, <1>5 DEF NoInfo
<1>11. /\ N(d) + 0 = value + g[0].nodeCount /\ L(d) + 0 = value + g[0].leafCount
       /\ Larger(M(d), l + 0) = Larger(value, l + g[0].depth)
  BY <1>1, <1>9, <1>10
<1>12. N(d) \in Nat /\ L(d) \in Nat /\ M(d) \in Nat
  BY <1>2, <1>10
<1>13. N(d) + 0 = N(d) /\ L(d) + 0 = L(d) /\ l + 0 = l
  BY <1>1, <1>12
<1>. QED BY <1>11, <1>12, <1>13 DEF N, L, M, l, d

(* The three accumulations are Summed's numbers.                           *)
LEMMA CountsOf ==
  \A n \in Node, path \in TreePath, value \in Nat : Counts3(n, path, value)
<1> DEFINE T == {n \in Node : \A path \in TreePath, value \in Nat : Counts3(n, path, value)}
<1>1. ASSUME NEW n \in Node, \A e \in Node : LevelOf[e] < LevelOf[n] => e \in T
      PROVE  n \in T
  <2> SUFFICES ASSUME NEW path \in TreePath, NEW value \in Nat
               PROVE  Counts3(n, path, value)
    OBVIOUS
  <2>1. \A k \in 0 .. degree(n) - 1, p \in TreePath, v \in Nat : Counts3(child(n, k), p, v)
    BY <1>1, NodeBelow
  <2> HIDE DEF T
  <2>2. SumsUp(Summed, n) /\ InfoBelow(Summed, n)
    BY SummedUnfolds
  <2>3. Len(path) \in Nat
    BY DEF TreePath
  <2>4. CASE isLeaf(n)
    <3>1. /\ Summed[n].depth = 1 /\ Summed[n].nodeCount = 1 /\ Summed[n].leafCount = 1
      BY <2>2, <2>4 DEF SumsUp, LeafInfo
    <3>2. /\ ResultOf(Nodes, n, path, value) = node_helper(Nodes, n, path, "plus", value)
          /\ ResultOf(Leafs, n, path, value) = node_helper(Leafs, n, path, "plus", value)
          /\ ResultOf(Levels, n, path, value) = node_helper(Levels, n, path, "max", value)
      BY <2>4, CountingContinues, ThroughChildren DEF Continues
    <3>. QED BY <2>4, <3>1, <3>2, CountingHelps DEF Counts3
  <2>5. CASE ~ isLeaf(n)
    <3>1. PICK g : InfoChain(Summed, n, g) /\ Summed[n] = Above(g[0])
      BY <2>2, <2>5 DEF SumsUp
    <3>2. /\ Summed[n].depth = 1 + g[0].depth /\ Summed[n].nodeCount = 1 + g[0].nodeCount
          /\ Summed[n].leafCount = g[0].leafCount
      BY <3>1 DEF Above
    <3>3. g[0].depth \in Nat /\ g[0].nodeCount \in Nat /\ g[0].leafCount \in Nat
      <4>1. 0 \in 0 .. degree(n)
        BY TreeAssumption DEF NodeAssumption, degree
      <4>2. g[0] \in Info
        BY <3>1, <4>1 DEF InfoChain, Joins
      <4>. QED BY <4>2 DEF Info
    <3>4. /\ Through(Nodes, n, path, value, degree(n)) = value + g[0].nodeCount
          /\ Through(Leafs, n, path, value, degree(n)) = value + g[0].leafCount
          /\ Larger(Through(Levels, n, path, value, degree(n)), Len(path) + 1)
               = Larger(value, (Len(path) + 1) + g[0].depth)
          /\ Through(Levels, n, path, value, degree(n)) \in Nat
      BY <2>1, <3>1, CountsThrough
    <3>5. PICK u : u = Through(Nodes, n, path, value, degree(n))
      OBVIOUS
    <3>6. PICK v : v = Through(Leafs, n, path, value, degree(n))
      OBVIOUS
    <3>7. PICK w : w = Through(Levels, n, path, value, degree(n))
      OBVIOUS
    <3>8. u \in Nat /\ v \in Nat /\ w \in Nat
      BY <3>3, <3>4, <3>5, <3>6, <3>7
    <3>9. /\ ResultOf(Nodes, n, path, value) = node_helper(Nodes, n, path, "plus", u)
          /\ ResultOf(Leafs, n, path, value) = node_helper(Leafs, n, path, "plus", v)
          /\ ResultOf(Levels, n, path, value) = node_helper(Levels, n, path, "max", w)
      BY <2>5, <3>5, <3>6, <3>7, CountingContinues, ThroughChildren DEF Continues
    <3>10. /\ node_helper(Nodes, n, path, "plus", u) = u + 1
           /\ node_helper(Leafs, n, path, "plus", v) = v
           /\ node_helper(Levels, n, path, "max", w) = Larger(w, Len(path) + 1)
      BY <2>5, <3>8, CountingHelps
    <3>11. u + 1 = value + (1 + g[0].nodeCount)
      BY <3>3, <3>4, <3>5
    <3>12. (Len(path) + 1) + g[0].depth = Len(path) + (1 + g[0].depth)
      BY <2>3, <3>3
    <3>. QED BY <3>2, <3>4, <3>6, <3>7, <3>9, <3>10, <3>11, <3>12 DEF Counts3
  <2>. QED BY <2>4, <2>5
<1>2. Node \subseteq T
  <2> HIDE DEF T
  <2>. QED BY <1>1, LevelDecreases, RankInduction
<1>. QED BY <1>2

(* Counting the calls and folding them with the counting policies come to  *)
(* the same.                                                               *)
CallsOf(func) == Len(Received({func}, calls))

Counted ==
  /\ Folded(Nodes, calls) = CallsOf("leaf") + CallsOf("post")
  /\ Folded(Leafs, calls) = CallsOf("leaf")
  /\ CallsOf("leaf") \in Nat /\ CallsOf("post") \in Nat

LEMMA CallsOfCall ==
  ASSUME IInv, stack # << >>, NEW func \in {"pre", "leaf", "post"}, Call(func)
  PROVE  \A f \in {"leaf", "post"} :
           CallsOf(f)' = IF f = func THEN CallsOf(f) + 1 ELSE CallsOf(f)
<1> DEFINE c == [func |-> func, node |-> Top.node, path |-> Top.path]
<1>1. c \in FunctionCall /\ c.func = func
  BY TopIsSound DEF FunctionCall
<1>2. calls' = Append(calls, c)
  BY DEF Call
<1>3. calls \in Seq(FunctionCall)
  BY WiderStack DEF IInv, Right
<1> HIDE DEF c
<1> SUFFICES ASSUME NEW f \in {"leaf", "post"}
             PROVE  CallsOf(f)' = IF f = func THEN CallsOf(f) + 1 ELSE CallsOf(f)
  OBVIOUS
<1>4. PICK r : r = Received({f}, calls)
  OBVIOUS
<1>5. r \in Seq(FunctionCall)
  BY <1>1, <1>3, <1>4, ReceivedNext
<1>6. Received({f}, calls') = IF c.func \in {f} THEN Append(r, c) ELSE r
  BY <1>1, <1>2, <1>3, <1>4, ReceivedNext
<1>7. Len(Append(r, c)) = Len(r) + 1
  BY <1>1, <1>5
<1>. QED BY <1>1, <1>4, <1>6, <1>7 DEF CallsOf

LEMMA InitCounted == Init => Counted
<1> SUFFICES ASSUME Init PROVE Counted
  OBVIOUS
<1>1. calls = << >> /\ root \in Node
  BY DEF Init
<1>2. << >> \in TreePath
  BY DEF TreePath
<1>3. PICK c : c \in FunctionCall
  <2>1. [func |-> "pre", node |-> root, path |-> << >>] \in FunctionCall
    BY <1>1, <1>2 DEF FunctionCall
  <2>. QED BY <2>1
<1>4. << >> \in Seq(FunctionCall)
  OBVIOUS
<1>5. \A f \in {"leaf", "post"} : Received({f}, << >>) = << >>
  BY <1>3, <1>4, ReceivedNext
<1>6. \A f \in {"leaf", "post"} : CallsOf(f) = 0
  <2> SUFFICES ASSUME NEW f \in {"leaf", "post"} PROVE CallsOf(f) = 0
    OBVIOUS
  <2>1. Received({f}, calls) = << >>
    BY <1>1, <1>5
  <2>2. Len(<< >>) = 0
    OBVIOUS
  <2>. QED BY <2>1, <2>2 DEF CallsOf
<1>7. Folded(Nodes, << >>) = 0 /\ Folded(Leafs, << >>) = 0
  BY <1>3, <1>4, CountingContinues, FoldedNext DEF Continues
<1>. QED BY <1>1, <1>6, <1>7 DEF Counted

LEMMA NextCounted == IInv /\ Counted /\ [Next]_vars => Counted'
<1> SUFFICES ASSUME IInv, Counted, [Next]_vars PROVE Counted'
  OBVIOUS
<1>1. PICK u : u = Folded(Nodes, calls)
  OBVIOUS
<1>2. PICK v : v = Folded(Leafs, calls)
  OBVIOUS
<1>3. /\ u = CallsOf("leaf") + CallsOf("post") /\ v = CallsOf("leaf")
      /\ CallsOf("leaf") \in Nat /\ CallsOf("post") \in Nat /\ u \in Nat /\ v \in Nat
  BY <1>1, <1>2 DEF Counted
<1>4. ASSUME stack # << >> PROVE Top.node \in Node /\ Top.path \in TreePath
  BY <1>4, TopIsSound
<1>5. ASSUME stack # << >>, NEW func \in {"pre", "leaf", "post"}, Call(func)
      PROVE  /\ Folded(Nodes, calls') =
                  IF func = "pre" THEN u ELSE node_helper(Nodes, Top.node, Top.path, "plus", u)
             /\ Folded(Leafs, calls') =
                  IF func = "pre" THEN v ELSE node_helper(Leafs, Top.node, Top.path, "plus", v)
  BY <1>1, <1>2, <1>5, CountingContinues, FoldedCall DEF Continues
<1>6. CASE LeafFunc
  <2>1. stack # << >> /\ isLeaf(Top.node) /\ Call("leaf")
    BY <1>6 DEF LeafFunc
  <2>2. Folded(Nodes, calls') = u + 1 /\ Folded(Leafs, calls') = v + 1
    BY <1>3, <1>4, <1>5, <2>1, CountingHelps
  <2>3. CallsOf("leaf")' = CallsOf("leaf") + 1 /\ CallsOf("post")' = CallsOf("post")
    BY <2>1, CallsOfCall
  <2>. QED BY <1>3, <2>2, <2>3 DEF Counted
<1>7. CASE PreFunc
  <2>1. stack # << >> /\ Call("pre")
    BY <1>7 DEF PreFunc
  <2>2. Folded(Nodes, calls') = u /\ Folded(Leafs, calls') = v
    BY <1>5, <2>1
  <2>3. CallsOf("leaf")' = CallsOf("leaf") /\ CallsOf("post")' = CallsOf("post")
    BY <2>1, CallsOfCall
  <2>. QED BY <1>3, <2>2, <2>3 DEF Counted
<1>8. CASE PostFunc
  <2>1. stack # << >> /\ Top.started /\ Call("post")
    BY <1>8 DEF PostFunc
  <2>2. ~ isLeaf(Top.node)
    BY <2>1, TopIsSound
  <2>3. Folded(Nodes, calls') = u + 1 /\ Folded(Leafs, calls') = v
    BY <1>3, <1>4, <1>5, <2>1, <2>2, CountingHelps
  <2>4. CallsOf("leaf")' = CallsOf("leaf") /\ CallsOf("post")' = CallsOf("post") + 1
    BY <2>1, CallsOfCall
  <2>. QED BY <1>3, <2>3, <2>4 DEF Counted
<1>9. CASE Recurse \/ UNCHANGED vars
  <2>1. calls' = calls
    BY <1>9 DEF Recurse, vars
  <2>. QED BY <2>1 DEF Counted, CallsOf
<1>. QED BY <1>6, <1>7, <1>8, <1>9 DEF Next

LEMMA CountedInvariance == Spec => []Counted
BY InitCounted, NextCounted, Invariance, PTL DEF Spec

(* TreeInfo, AccumulateValue with plus and max, and the functions of the   *)
(* client come to the same numbers of nodes, leafs and levels, for every   *)
(* static tree; of levels TreeInfo has more where an inner node without    *)
(* children is among the deepest.                                          *)
THEOREM CountsAgreeAlways == Spec => []CountsAgree
<1>1. IInv /\ Accumulating /\ Counted => CountsAgree
  <2> SUFFICES ASSUME IInv, Accumulating, Counted, Done, isStatic[root]
               PROVE  /\ Accumulated(Leafs, root) = TreeInfo[TypeOf[root]].leafCount
                      /\ Accumulated(Nodes, root) = TreeInfo[TypeOf[root]].nodeCount
                      /\ Accumulated(Levels, root) <= TreeInfo[TypeOf[root]].depth
                      /\ isFilled[root] =>
                           Accumulated(Levels, root) = TreeInfo[TypeOf[root]].depth
                      /\ CallsOf("leaf") = TreeInfo[TypeOf[root]].leafCount
                      /\ CallsOf("leaf") + CallsOf("post") = TreeInfo[TypeOf[root]].nodeCount
    BY DEF CountsAgree, CallsOf, Nodes, Leafs, Levels, LeafClasses
  <2>1. stack = << >> /\ root \in Node
    BY DEF Done, IInv
  <2>2. Folded(Nodes, calls) = Accumulated(Nodes, root)
        /\ Folded(Leafs, calls) = Accumulated(Leafs, root)
    BY <2>1, CountingContinues DEF Accumulating, Arrives
  <2>3. << >> \in TreePath /\ Len(<< >>) = 0 /\ 0 \in Nat
    BY DEF TreePath
  <2>4. Counts3(root, << >>, 0)
    BY <2>1, <2>3, CountsOf
  <2>5. /\ Accumulated(Nodes, root) = ResultOf(Nodes, root, << >>, 0)
        /\ Accumulated(Leafs, root) = ResultOf(Leafs, root, << >>, 0)
        /\ Accumulated(Levels, root) = ResultOf(Levels, root, << >>, 0)
    BY CountingContinues DEF Accumulated, ResultOf
  <2>6. Summed[root].nodeCount \in Nat /\ Summed[root].leafCount \in Nat
        /\ Summed[root].depth \in Nat
    <3>1. Summed[root] \in Info
      BY <2>1, SummedUnfolds
    <3>. QED BY <3>1 DEF Info
  <2>7. /\ 0 + Summed[root].nodeCount = Summed[root].nodeCount
        /\ 0 + Summed[root].leafCount = Summed[root].leafCount
        /\ Larger(0, 0 + Summed[root].depth) = Summed[root].depth
    BY <2>6 DEF Larger
  <2>8. /\ Accumulated(Leafs, root) = Summed[root].leafCount
        /\ Accumulated(Nodes, root) = Summed[root].nodeCount
        /\ Accumulated(Levels, root) = Summed[root].depth
    BY <2>3, <2>4, <2>5, <2>7 DEF Counts3
  <2>9. /\ Folded(Nodes, calls) = CallsOf("leaf") + CallsOf("post")
        /\ Folded(Leafs, calls) = CallsOf("leaf")
    BY DEF Counted
  <2>10. Covers(TreeInfo[TypeOf[root]], Summed[root], isFilled[root])
    BY <2>1, InfoIsSum
  <2>. QED BY <2>2, <2>8, <2>9, <2>10 DEF Covers
<1>. QED BY <1>1, Invariance, AccumulatingInvariance, CountedInvariance, PTL

-----------------------------------------------------------------------------
(* Paths as the templates for static tree paths take them apart.           *)
LEMMA SeqTail ==
  ASSUME NEW V, NEW p \in Seq(V), p # << >>
  PROVE  /\ Head(p) \in V /\ Head(p) = p[1] /\ Tail(p) \in Seq(V)
         /\ Len(p) \in Nat \ {0} /\ Len(Tail(p)) = Len(p) - 1
         /\ \A k \in 1 .. Len(p) - 1 : Tail(p)[k] = p[k + 1]
<1>1. Len(p) \in Nat \ {0} /\ Head(p) = p[1] /\ Head(p) \in V
  BY EmptySeq
<1>2. /\ Tail(p) \in Seq(V) /\ Len(Tail(p)) = Len(p) - 1
      /\ \A k \in 1 .. Len(p) - 1 : Tail(p)[k] = p[k + 1]
  BY <1>1
<1>. QED BY <1>1, <1>2

LEMMA SameSeq ==
  ASSUME NEW V, NEW p \in Seq(V), NEW q \in Seq(V), Len(p) = Len(q),
         \A k \in 1 .. Len(p) : p[k] = q[k]
  PROVE  p = q
<1>1. p = [k \in 1 .. Len(p) |-> p[k]] /\ q = [k \in 1 .. Len(q) |-> q[k]]
  OBVIOUS
<1>. QED BY <1>1

LEMMA LastEntry ==
  ASSUME NEW p \in Paths!NonEmpty
  PROVE  /\ Len(p) \in Nat \ {0} /\ p \in Paths!MultiIndex /\ p # << >>
         /\ Len(p) # 1 => Tail(p) \in Paths!NonEmpty
         /\ Len(p) # 1 => Tail(p)[Len(Tail(p))] = p[Len(p)]
         /\ Head(p) = p[1]
<1>1. p \in Seq(Paths!Entry) /\ p # << >>
  BY DEF Paths!NonEmpty, Paths!MultiIndex
<1>2. /\ Head(p) = p[1] /\ Tail(p) \in Seq(Paths!Entry)
      /\ Len(p) \in Nat \ {0} /\ Len(Tail(p)) = Len(p) - 1
      /\ \A k \in 1 .. Len(p) - 1 : Tail(p)[k] = p[k + 1]
  BY <1>1, SeqTail
<1>3. ASSUME Len(p) # 1 PROVE Tail(p) # << >> /\ Tail(p)[Len(Tail(p))] = p[Len(p)]
  <2>1. Len(p) - 1 \in 1 .. Len(p) - 1 /\ (Len(p) - 1) + 1 = Len(p) /\ Len(Tail(p)) # 0
    BY <1>2, <1>3
  <2>2. Tail(p) # << >>
    BY <1>2, <2>1, EmptySeq
  <2>. QED BY <1>2, <2>1, <2>2
<1>. QED BY <1>1, <1>2, <1>3 DEF Paths!NonEmpty, Paths!MultiIndex

(* TreePathBack is the last entry's value.                                 *)
LEMMA TreePathBackIs ==
  \A p \in Paths!NonEmpty : Paths!TreePathBack[p] = p[Len(p)].value
<1> DEFINE D == Paths!NonEmpty
           v(g, p) == IF Len(p) = 1 THEN Head(p).value ELSE g[Tail(p)]
           f == [p \in D |-> p[Len(p)].value]
<1>1. ASSUME NEW p \in D PROVE f[p] = v(f, p)
  <2>1. Len(p) \in Nat \ {0} /\ Head(p) = p[1]
    BY <1>1, LastEntry
  <2>2. CASE Len(p) = 1
    BY <2>1, <2>2
  <2>3. CASE Len(p) # 1
    <3>1. Tail(p) \in D /\ Tail(p)[Len(Tail(p))] = p[Len(p)]
      BY <2>3, LastEntry
    <3> HIDE DEF D
    <3>. QED BY <2>3, <3>1
  <2>. QED BY <2>2, <2>3
<1>2. f = [p \in D |-> v(f, p)]
  <2> DEFINE w(p) == v(f, p)
  <2>1. \A p \in D : f[p] = w(p)
    BY <1>1
  <2>2. f = [p \in D |-> f[p]]
    OBVIOUS
  <2> HIDE DEF f, D, w
  <2>3. f = [p \in D |-> w(p)]
    BY <2>1, <2>2
  <2>. QED BY <2>3 DEF w
<1>3. \E g : g = [p \in D |-> v(g, p)]
  <2> HIDE DEF v
  <2>. QED BY <1>2
<1> DEFINE b == Paths!TreePathBack
<1>4. b = [p \in D |-> v(b, p)]
  BY <1>3, Zenon DEF Paths!TreePathBack
<1> HIDE DEF b
<1>5. \A p \in D : b[p] = v(b, p)
  <2> DEFINE w(p) == v(b, p)
  <2>1. b = [p \in D |-> w(p)]
    BY <1>4
  <2> HIDE DEF w, D
  <2>2. \A p \in D : b[p] = w(p)
    BY <2>1
  <2>. QED BY <2>2 DEF w
<1> DEFINE T == {l \in Nat : \A p \in D : Len(p) = l + 1 => b[p] = p[Len(p)].value}
<1>6. 0 \in T
  <2> SUFFICES ASSUME NEW p \in D, Len(p) = 0 + 1 PROVE b[p] = p[Len(p)].value
    OBVIOUS
  <2>1. Head(p) = p[1]
    BY LastEntry
  <2>. QED BY <1>5, <2>1
<1>7. ASSUME NEW l \in Nat, l \in T PROVE l + 1 \in T
  <2> SUFFICES ASSUME NEW p \in D, Len(p) = (l + 1) + 1 PROVE b[p] = p[Len(p)].value
    OBVIOUS
  <2>1. Len(p) # 1
    OBVIOUS
  <2>2. Tail(p) \in D /\ Tail(p)[Len(Tail(p))] = p[Len(p)]
    BY <2>1, LastEntry
  <2>3. Len(Tail(p)) = l + 1
    <3>1. p \in Seq(Paths!Entry) /\ p # << >>
      BY DEF Paths!NonEmpty, Paths!MultiIndex
    <3>2. Len(Tail(p)) = Len(p) - 1
      BY <3>1, SeqTail
    <3>. QED BY <3>2
  <2>4. b[p] = b[Tail(p)]
    BY <1>5, <2>1
  <2>. QED BY <1>7, <2>2, <2>3, <2>4
<1>8. Nat \subseteq T
  <2> HIDE DEF T
  <2>. QED BY <1>6, <1>7, CountingInduction
<1>9. ASSUME NEW p \in D PROVE b[p] = p[Len(p)].value
  <2>1. Len(p) \in Nat \ {0}
    BY LastEntry
  <2>2. Len(p) - 1 \in Nat /\ Len(p) = (Len(p) - 1) + 1
    BY <2>1
  <2>3. Len(p) - 1 \in T
    BY <1>8, <2>2
  <2>. QED BY <2>2, <2>3
<1>. QED BY <1>9 DEF b

(* TreePathPopBack keeps all entries but the last.                         *)
Shorter(p) == [k \in 1 .. Len(p) - 1 |-> p[k]]

LEMMA ShorterIs ==
  ASSUME NEW p \in Paths!NonEmpty
  PROVE  /\ Shorter(p) \in Paths!MultiIndex /\ Len(Shorter(p)) = Len(p) - 1
         /\ \A k \in 1 .. Len(p) - 1 : Shorter(p)[k] = p[k]
<1>1. p \in Seq(Paths!Entry) /\ Len(p) \in Nat \ {0} 
  BY LastEntry DEF Paths!MultiIndex
<1>2. \A k \in 1 .. Len(p) - 1 : p[k] \in Paths!Entry
  BY <1>1
<1>. QED BY <1>1, <1>2 DEF Shorter, Paths!MultiIndex

LEMMA Collected ==
  ASSUME NEW p \in Paths!NonEmpty, NEW i \in Paths!MultiIndex
  PROVE  /\ Append(i, Head(p)) \in Paths!MultiIndex
         /\ Len(p) = 1 => i \o Shorter(p) = i
         /\ Len(p) # 1 => Append(i, Head(p)) \o Shorter(Tail(p)) = i \o Shorter(p)
<1> DEFINE E == Paths!Entry
<1>1. p \in Seq(E) /\ p # << >> /\ i \in Seq(E) /\ Head(p) \in E /\ Head(p) = p[1]
      /\ Len(p) \in Nat \ {0} /\ Len(i) \in Nat
  <2>1. p \in Seq(E) /\ p # << >> /\ i \in Seq(E)
    BY DEF Paths!NonEmpty, Paths!MultiIndex
  <2>. QED BY <2>1, SeqTail
<1>2. /\ Append(i, Head(p)) \in Seq(E) /\ Len(Append(i, Head(p))) = Len(i) + 1
      /\ Append(i, Head(p))[Len(i) + 1] = p[1]
      /\ \A k \in 1 .. Len(i) : Append(i, Head(p))[k] = i[k]
  BY <1>1, PushTop
<1>3. /\ Shorter(p) \in Seq(E) /\ Len(Shorter(p)) = Len(p) - 1
      /\ \A k \in 1 .. Len(p) - 1 : Shorter(p)[k] = p[k]
  BY ShorterIs DEF Paths!MultiIndex
<1>4. ASSUME Len(p) = 1 PROVE i \o Shorter(p) = i
  <2>1. Shorter(p) = << >>
    BY <1>1, <1>3, <1>4, EmptySeq
  <2>. QED BY <1>1, <2>1
<1>5. ASSUME Len(p) # 1
      PROVE  Append(i, Head(p)) \o Shorter(Tail(p)) = i \o Shorter(p)
  <2> DEFINE t == Shorter(Tail(p))
             a == Append(i, Head(p))
             s == Shorter(p)
  <2>1. /\ Tail(p) \in Seq(E) /\ Len(Tail(p)) = Len(p) - 1
        /\ \A k \in 1 .. Len(p) - 1 : Tail(p)[k] = p[k + 1]
    BY <1>1, SeqTail
  <2>2. Tail(p) \in Paths!NonEmpty
    BY <1>5, LastEntry
  <2>3. /\ t \in Seq(E) /\ Len(t) = Len(p) - 2
        /\ \A k \in 1 .. Len(p) - 2 : t[k] = p[k + 1]
    <3>1. /\ t \in Seq(E) /\ Len(t) = Len(Tail(p)) - 1
          /\ \A k \in 1 .. Len(Tail(p)) - 1 : t[k] = Tail(p)[k]
      BY <2>2, ShorterIs DEF Paths!MultiIndex
    <3> HIDE DEF t
    <3>2. \A k \in 1 .. Len(p) - 2 : k \in 1 .. Len(p) - 1 /\ k \in 1 .. Len(Tail(p)) - 1
      BY <1>1, <2>1
    <3>3. Len(Tail(p)) - 1 = Len(p) - 2
      BY <1>1, <2>1
    <3>. QED BY <2>1, <3>1, <3>2, <3>3
  <2> HIDE DEF t, a, s, E
  <2>4. /\ a \in Seq(E) /\ Len(a) = Len(i) + 1 /\ a[Len(i) + 1] = p[1]
        /\ \A k \in 1 .. Len(i) : a[k] = i[k]
    BY <1>2 DEF a
  <2>5. s \in Seq(E) /\ Len(s) = Len(p) - 1 /\ \A k \in 1 .. Len(p) - 1 : s[k] = p[k]
    BY <1>3 DEF s
  <2>6. /\ a \o t \in Seq(E) /\ Len(a \o t) = (Len(i) + 1) + (Len(p) - 2)
        /\ \A k \in 1 .. Len(i) + 1 : (a \o t)[k] = a[k]
        /\ \A k \in (Len(i) + 1) + 1 .. (Len(i) + 1) + (Len(p) - 2) :
             (a \o t)[k] = t[k - (Len(i) + 1)]
    <3>1. PICK x : x = Len(i)
      OBVIOUS
    <3>2. PICK y : y = Len(p)
      OBVIOUS
    <3>3. x \in Nat /\ y \in Nat \ {0} /\ y # 1
      BY <1>1, <1>5, <3>1, <3>2
    <3>4. x + 1 \in Nat /\ y - 2 \in Nat
      BY <3>3
    <3>5. PICK u : u = x + 1
      OBVIOUS
    <3>6. PICK v : v = y - 2
      OBVIOUS
    <3>7. /\ Len(a) = u /\ Len(t) = v /\ a \in Seq(E) /\ t \in Seq(E)
          /\ u \in Nat /\ v \in Nat
      BY <2>3, <2>4, <3>1, <3>2, <3>4, <3>5, <3>6
    <3>8. /\ a \o t \in Seq(E) /\ Len(a \o t) = u + v
          /\ \A k \in 1 .. u : (a \o t)[k] = a[k]
          /\ \A k \in u + 1 .. u + v : (a \o t)[k] = t[k - u]
      BY <3>7
    <3>. QED BY <3>1, <3>2, <3>5, <3>6, <3>8
  <2>7. /\ i \o s \in Seq(E) /\ Len(i \o s) = Len(i) + (Len(p) - 1)
        /\ \A k \in 1 .. Len(i) : (i \o s)[k] = i[k]
        /\ \A k \in Len(i) + 1 .. Len(i) + (Len(p) - 1) : (i \o s)[k] = s[k - Len(i)]
    BY <1>1, <2>5
  <2>8. Len(a \o t) = Len(i \o s)
    BY <1>1, <2>6, <2>7
  <2>9. ASSUME NEW k \in 1 .. Len(a \o t) PROVE (a \o t)[k] = (i \o s)[k]
    <3>0. k \in Nat \ {0} /\ k <= Len(i) + (Len(p) - 1)
      BY <1>1, <2>6
    <3>1. CASE k <= Len(i)
      <4>1. k \in 1 .. Len(i) /\ k \in 1 .. Len(i) + 1
        BY <1>1, <3>0, <3>1
      <4>. QED BY <2>4, <2>6, <2>7, <4>1
    <3>2. CASE k = Len(i) + 1
      <4>1. k \in 1 .. Len(i) + 1 /\ k \in Len(i) + 1 .. Len(i) + (Len(p) - 1)
            /\ k - Len(i) = 1 /\ 1 \in 1 .. Len(p) - 1
        BY <1>1, <1>5, <3>0, <3>2
      <4>2. (a \o t)[k] = p[1]
        BY <2>4, <2>6, <3>2, <4>1
      <4>3. (i \o s)[k] = p[1]
        BY <2>5, <2>7, <4>1
      <4>. QED BY <4>2, <4>3
    <3>3. CASE k > Len(i) + 1
      <4> DEFINE j == k - (Len(i) + 1)
      <4>1. /\ k \in (Len(i) + 1) + 1 .. (Len(i) + 1) + (Len(p) - 2)
            /\ k \in Len(i) + 1 .. Len(i) + (Len(p) - 1)
            /\ j \in 1 .. Len(p) - 2 /\ k - Len(i) = j + 1 /\ j + 1 \in 1 .. Len(p) - 1
        BY <1>1, <3>0, <3>3
      <4>2. (a \o t)[k] = t[j]
        BY <2>6, <4>1
      <4>3. (i \o s)[k] = s[j + 1]
        BY <2>7, <4>1
      <4> HIDE DEF j
      <4>. QED BY <2>3, <2>5, <4>1, <4>2, <4>3
    <3>4. k <= Len(i) \/ k = Len(i) + 1 \/ k > Len(i) + 1
      BY <1>1, <3>0
    <3>. QED BY <3>1, <3>2, <3>3, <3>4
  <2>10. a \o t = i \o s
    BY <2>6, <2>7, <2>8, <2>9, SameSeq
  <2>. QED BY <2>10 DEF a, t, s
<1>. QED BY <1>2, <1>4, <1>5 DEF Paths!MultiIndex

LEMMA TreePathPopBackIs ==
  \A p \in Paths!NonEmpty : Paths!TreePathPopBack(p) = Shorter(p)
<1> DEFINE D == Paths!NonEmpty \X Paths!MultiIndex
           v(g, peeled) ==
             LET rest == peeled[1]
                 i    == peeled[2]
             IN  IF Len(rest) = 1 THEN i
                   ELSE g[<< Tail(rest), Append(i, Head(rest)) >>]
           f == [x \in D |-> x[2] \o Shorter(x[1])]
<1>1. ASSUME NEW p \in Paths!NonEmpty, NEW i \in Paths!MultiIndex
      PROVE  f[<< p, i >>] = v(f, << p, i >>)
  <2>1. /\ Append(i, Head(p)) \in Paths!MultiIndex
        /\ Len(p) = 1 => i \o Shorter(p) = i
        /\ Len(p) # 1 => Append(i, Head(p)) \o Shorter(Tail(p)) = i \o Shorter(p)
    BY Collected
  <2>2. Len(p) # 1 => Tail(p) \in Paths!NonEmpty
    BY LastEntry
  <2>3. f[<< p, i >>] = i \o Shorter(p)
    OBVIOUS
  <2>4. CASE Len(p) = 1
    BY <2>1, <2>3, <2>4
  <2>5. CASE Len(p) # 1
    <3> DEFINE q == Tail(p)
               j == Append(i, Head(p))
    <3>1. q \in Paths!NonEmpty /\ j \in Paths!MultiIndex /\ j \o Shorter(q) = i \o Shorter(p)
      BY <2>1, <2>2, <2>5
    <3> HIDE DEF q, j
    <3>2. f[<< q, j >>] = j \o Shorter(q)
      BY <3>1
    <3> HIDE DEF f
    <3>3. v(f, << p, i >>) = f[<< q, j >>]
      BY <2>5 DEF q, j
    <3> HIDE DEF v
    <3>. QED BY <2>3, <3>1, <3>2, <3>3
  <2>. QED BY <2>4, <2>5
<1>2. f = [x \in D |-> v(f, x)]
  <2> DEFINE w(x) == v(f, x)
  <2>1. ASSUME NEW x \in D PROVE f[x] = w(x)
    <3>1. PICK p \in Paths!NonEmpty, i \in Paths!MultiIndex : x = << p, i >>
      OBVIOUS
    <3>2. f[<< p, i >>] = v(f, << p, i >>)
      BY <1>1
    <3> HIDE DEF f, v
    <3>. QED BY <3>1, <3>2 DEF w
  <2>2. f = [x \in D |-> f[x]]
    OBVIOUS
  <2> HIDE DEF f, D, w
  <2>3. f = [x \in D |-> w(x)]
    BY <2>1, <2>2
  <2>. QED BY <2>3 DEF w
<1>3. \E g : g = [x \in D |-> v(g, x)]
  <2> HIDE DEF v
  <2>. QED BY <1>2
<1> DEFINE c == CHOOSE g : g = [x \in D |-> v(g, x)]
<1>4. c = [x \in D |-> v(c, x)]
  <2> HIDE DEF v, D
  <2>. QED BY <1>3, Zenon
<1>5. \A p : Paths!TreePathPopBack(p) = c[<< p, << >> >>]
  BY DEF Paths!TreePathPopBack
<1> HIDE DEF c
<1>6. \A x \in D : c[x] = v(c, x)
  <2> DEFINE w(x) == v(c, x)
  <2>1. c = [x \in D |-> w(x)]
    BY <1>4
  <2> HIDE DEF w, D
  <2>2. \A x \in D : c[x] = w(x)
    BY <2>1
  <2>. QED BY <2>2 DEF w
<1> DEFINE Right3(p, i) == c[<< p, i >>] = i \o Shorter(p)
           T == {l \in Nat : \A p \in Paths!NonEmpty, i \in Paths!MultiIndex :
                   Len(p) = l + 1 => Right3(p, i)}
<1>7. ASSUME NEW p \in Paths!NonEmpty, NEW i \in Paths!MultiIndex
      PROVE  /\ Len(p) = 1 => Right3(p, i)
             /\ Len(p) # 1 => /\ Tail(p) \in Paths!NonEmpty
                              /\ Append(i, Head(p)) \in Paths!MultiIndex
                              /\ Right3(Tail(p), Append(i, Head(p))) => Right3(p, i)
  <2>1. /\ Append(i, Head(p)) \in Paths!MultiIndex
        /\ Len(p) = 1 => i \o Shorter(p) = i
        /\ Len(p) # 1 => Append(i, Head(p)) \o Shorter(Tail(p)) = i \o Shorter(p)
    BY Collected
  <2>2. Len(p) # 1 => Tail(p) \in Paths!NonEmpty
    BY LastEntry
  <2>3. c[<< p, i >>] = v(c, << p, i >>)
    BY <1>6
  <2>4. v(c, << p, i >>) = IF Len(p) = 1 THEN i ELSE c[<< Tail(p), Append(i, Head(p)) >>]
    OBVIOUS
  <2> HIDE DEF v
  <2>. QED BY <2>1, <2>2, <2>3, <2>4
<1> HIDE DEF Right3
<1>8. 0 \in T
  BY <1>7
<1>9. ASSUME NEW l \in Nat, l \in T PROVE l + 1 \in T
  <2> SUFFICES ASSUME NEW p \in Paths!NonEmpty, NEW i \in Paths!MultiIndex, Len(p) = (l + 1) + 1
               PROVE  Right3(p, i)
    OBVIOUS
  <2>1. Len(p) # 1
    OBVIOUS
  <2>2. Len(Tail(p)) = l + 1
    <3>1. p \in Seq(Paths!Entry) /\ p # << >>
      BY DEF Paths!NonEmpty, Paths!MultiIndex
    <3>2. Len(Tail(p)) = Len(p) - 1
      BY <3>1, SeqTail
    <3>. QED BY <3>2
  <2>. QED BY <1>7, <1>9, <2>1, <2>2
<1>10. Nat \subseteq T
  <2> HIDE DEF T
  <2>. QED BY <1>8, <1>9, CountingInduction
<1>11. ASSUME NEW p \in Paths!NonEmpty PROVE Paths!TreePathPopBack(p) = Shorter(p)
  <2>1. Len(p) \in Nat \ {0}
    BY LastEntry
  <2>2. Len(p) - 1 \in Nat /\ Len(p) = (Len(p) - 1) + 1
    BY <2>1
  <2>3. Len(p) - 1 \in T
    BY <1>10, <2>2
  <2>4. << >> \in Paths!MultiIndex
    BY DEF Paths!MultiIndex
  <2>5. Right3(p, << >>)
    BY <2>2, <2>3, <2>4
  <2>6. << >> \o Shorter(p) = Shorter(p)
    <3>1. Shorter(p) \in Seq(Paths!Entry)
      BY ShorterIs DEF Paths!MultiIndex
    <3>. QED BY <3>1
  <2>. QED BY <1>5, <2>5, <2>6 DEF Right3
<1>. QED BY <1>11

(* A static tree path of indices that are size_t.                          *)
LEMMA StaticIs ==
  ASSUME NEW path \in TreePath, \A k \in 1 .. Len(path) : path[k] < Size
  PROVE  /\ Paths!StaticTreePath(path) \in Paths!MultiIndex
         /\ Len(Paths!StaticTreePath(path)) = Len(path) /\ Len(path) \in Nat
         /\ \A k \in 1 .. Len(path) :
              /\ Paths!StaticTreePath(path)[k] = Paths!index_constant(path[k])
              /\ Paths!index_constant(path[k]) \in Paths!Entry
              /\ Paths!StaticTreePath(path)[k].value = path[k]
<1>1. path \in Seq(Nat) /\ Len(path) \in Nat
  BY DEF TreePath
<1>2. ASSUME NEW k \in 1 .. Len(path)
      PROVE  Paths!index_constant(path[k]) \in Paths!Entry
  <2>1. path[k] \in Nat /\ path[k] < Size
    BY <1>1
  <2>2. path[k] \in 0 .. Size - 1
    BY <2>1, SizeAssumption
  <2>. QED BY <2>2 DEF Paths!index_constant, Paths!Entry, Paths!size_t
<1>3. \A k \in 1 .. Len(path) : Paths!index_constant(path[k]).value = path[k]
  BY DEF Paths!index_constant
<1>4. Paths!StaticTreePath(path) = [k \in 1 .. Len(path) |-> Paths!index_constant(path[k])]
  BY DEF Paths!StaticTreePath
<1>. QED BY <1>1, <1>2, <1>3, <1>4 DEF Paths!MultiIndex

LEMMA OneMore ==
  ASSUME NEW V, NEW p \in Seq(V), NEW e \in V,
         NEW l \in Nat, Len(p) = l
  PROVE  /\ p \o << e >> \in Seq(V) /\ Len(p \o << e >>) = l + 1
         /\ \A k \in 1 .. l : (p \o << e >>)[k] = p[k]
         /\ (p \o << e >>)[l + 1] = e
OBVIOUS

LEMMA OneBefore ==
  ASSUME NEW V, NEW p \in Seq(V), NEW e \in V,
         NEW l \in Nat, Len(p) = l
  PROVE  /\ << e >> \o p \in Seq(V) /\ Len(<< e >> \o p) = l + 1
         /\ (<< e >> \o p)[1] = e
         /\ \A k \in 1 .. l : (<< e >> \o p)[k + 1] = p[k]
OBVIOUS

(* What the templates make of the path of a node.                          *)
LEMMA TemplatesTakeApart ==
  ASSUME NEW path \in TreePath, path # << >>, \A k \in 1 .. Len(path) : path[k] < Size,
         NEW s, s = Paths!StaticTreePath(path),
         NEW parent, parent = Paths!TreePathPopBack(s),
         NEW index, index = Paths!TreePathBack[s]
  PROVE  /\ Len(parent) = Len(s) - 1 /\ Paths!values(parent) = Front(path)
         /\ index = Last(path)
         /\ parent = Paths!pop_back(s) /\ index = Paths!back(s).value
         /\ Paths!TreePathPushBack(parent, index) = s
         /\ Paths!TreePathPushFront(Paths!TreePathPopFront(s), Paths!TreePathFront(s)) = s
         /\ Paths!TreePathConcat(parent, Paths!StaticTreePath(<< index >>)) = s
<1>1. PICK l : l = Len(path)
  OBVIOUS
<1>2. /\ s \in Seq(Paths!Entry) /\ Len(s) = l /\ l \in Nat \ {0}
      /\ \A k \in 1 .. l : /\ s[k] = Paths!index_constant(path[k])
                           /\ s[k] \in Paths!Entry /\ s[k].value = path[k]
  <2>1. l \in Nat \ {0}
    BY <1>1, PathFront
  <2>. QED BY <1>1, <2>1, StaticIs DEF Paths!MultiIndex
<1>3. s # << >> /\ s \in Paths!NonEmpty
  <2>1. Len(s) # 0
    BY <1>2
  <2>2. s # << >>
    BY <1>2, <2>1, EmptySeq
  <2>. QED BY <1>2, <2>2 DEF Paths!NonEmpty, Paths!MultiIndex
<1>4. l \in 1 .. l
  BY <1>2
<1>5. parent = Shorter(s) /\ index = s[l].value
  BY <1>2, <1>3, TreePathPopBackIs, TreePathBackIs
<1>6. /\ parent \in Seq(Paths!Entry) /\ Len(parent) = l - 1 /\ l - 1 \in Nat
      /\ \A k \in 1 .. l - 1 : parent[k] = s[k]
  <2>1. l - 1 \in Nat
    BY <1>2
  <2>. QED BY <1>2, <1>3, <1>5, <2>1, ShorterIs, ZenonT(60) DEF Paths!MultiIndex
<1>7. index = Last(path)
  BY <1>1, <1>2, <1>4, <1>5, PathFront
<1>8. Paths!values(parent) = Front(path)
  <2>1. Paths!values(parent) = [k \in 1 .. l - 1 |-> parent[k].value]
    BY <1>6 DEF Paths!values
  <2>2. /\ Front(path) \in Seq(Nat) /\ Len(Front(path)) = l - 1
        /\ \A k \in 1 .. l - 1 : Front(path)[k] = path[k]
    BY <1>1, PathFront DEF TreePath
  <2>3. \A k \in 1 .. l - 1 : k \in 1 .. l
    BY <1>2
  <2>4. \A k \in 1 .. l - 1 : parent[k].value = Front(path)[k]
    BY <1>2, <1>6, <2>2, <2>3
  <2>5. Front(path) = [k \in 1 .. l - 1 |-> Front(path)[k]]
    BY <2>2
  <2>. QED BY <2>1, <2>4, <2>5
<1>9. parent = Paths!pop_back(s)
  BY <1>5 DEF Shorter, Paths!pop_back
<1>10. index = Paths!back(s).value
  <2>1. (Len(s) - 1) + 1 = l
    BY <1>2
  <2>. QED BY <1>5, <2>1 DEF Paths!back, Paths!treePathEntry
<1>11. Paths!index_constant(index) = s[l] /\ s[l] \in Paths!Entry
  BY <1>2, <1>4, <1>5
<1>12. parent \o << s[l] >> = s
  <2> DEFINE p == parent \o << s[l] >>
  <2>1. PICK u : u = l - 1
    OBVIOUS
  <2>2. u \in Nat /\ l = u + 1 /\ Len(parent) = u
    BY <1>2, <1>6, <2>1
  <2>3. /\ p \in Seq(Paths!Entry) /\ Len(p) = u + 1 /\ p[u + 1] = s[l]
        /\ \A k \in 1 .. u : p[k] = parent[k]
    BY <1>6, <1>11, <2>2, OneMore, SMTT(40)
  <2> HIDE DEF p
  <2>4. \A k \in 1 .. l : k \in 1 .. u \/ k = u + 1
    BY <2>2
  <2>5. \A k \in 1 .. l : p[k] = s[k]
    BY <1>6, <2>1, <2>2, <2>3, <2>4
  <2>6. p = s
    BY <1>2, <2>2, <2>3, <2>5, SameSeq
  <2>. QED BY <2>6 DEF p
<1>13. Paths!TreePathPushBack(parent, index) = s
  BY <1>11, <1>12 DEF Paths!TreePathPushBack
<1>14. Paths!StaticTreePath(<< index >>) = << s[l] >>
  <2>1. Paths!StaticTreePath(<< index >>) = [j \in 1 .. Len(<< index >>) |-> Paths!index_constant(<< index >>[j])]
    BY DEF Paths!StaticTreePath
  <2>2. Len(<< index >>) = 1 /\ << index >>[1] = index
    OBVIOUS
  <2>3. [j \in 1 .. 1 |-> Paths!index_constant(<< index >>[j])] = << Paths!index_constant(index) >>
    <3> DEFINE q == [j \in 1 .. 1 |-> Paths!index_constant(<< index >>[j])]
    <3>1. q \in Seq(Paths!Entry) /\ Len(q) = 1 /\ q[1] = s[l]
      <4>1. \A j \in 1 .. 1 : Paths!index_constant(<< index >>[j]) = s[l]
        BY <1>11, <2>2
      <4>. QED BY <1>11, <4>1
    <3>2. << s[l] >> \in Seq(Paths!Entry) /\ Len(<< s[l] >>) = 1 /\ << s[l] >>[1] = s[l]
      BY <1>11
    <3> HIDE DEF q
    <3>3. q = << s[l] >>
      <4>1. \A k \in 1 .. 1 : q[k] = << s[l] >>[k]
        BY <3>1, <3>2
      <4>. QED BY <3>1, <3>2, <4>1, SameSeq
    <3>. QED BY <1>11, <3>3 DEF q
  <2>. QED BY <1>11, <2>1, <2>2, <2>3
<1>15. Paths!TreePathConcat(parent, Paths!StaticTreePath(<< index >>)) = s
  BY <1>12, <1>14 DEF Paths!TreePathConcat
<1>16. Paths!TreePathPushFront(Paths!TreePathPopFront(s), Paths!TreePathFront(s)) = s
  <2> DEFINE t == Tail(s)
             p == << s[1] >> \o t
  <2>1. /\ t \in Seq(Paths!Entry) /\ Len(t) = l - 1 /\ Head(s) = s[1]
        /\ \A k \in 1 .. l - 1 : t[k] = s[k + 1]
    BY <1>2, <1>3, SeqTail
  <2>2. 1 \in 1 .. l
    BY <1>2
  <2>3. Paths!index_constant(Paths!TreePathFront(s)) = s[1] /\ s[1] \in Paths!Entry
    BY <1>2, <2>1, <2>2 DEF Paths!TreePathFront
  <2> HIDE DEF t
  <2>4. PICK u : u = l - 1
    OBVIOUS
  <2>5. u \in Nat /\ l = u + 1 /\ Len(t) = u
    BY <1>2, <2>1, <2>4
  <2>6. /\ p \in Seq(Paths!Entry) /\ Len(p) = u + 1 /\ p[1] = s[1]
        /\ \A k \in 1 .. u : p[k + 1] = t[k]
    BY <2>1, <2>3, <2>5, OneBefore
  <2> HIDE DEF p
  <2>7. \A k \in 1 .. l : k = 1 \/ (k - 1 \in 1 .. u /\ (k - 1) + 1 = k)
    BY <2>5
  <2>8. \A k \in 1 .. u : p[k + 1] = s[k + 1]
    BY <2>1, <2>4, <2>6
  <2>9. \A k \in 1 .. l : p[k] = s[k]
    BY <2>6, <2>7, <2>8
  <2>10. p = s
    BY <1>2, <2>5, <2>6, <2>9, SameSeq
  <2>. QED BY <2>3, <2>10 DEF p, t, Paths!TreePathPushFront, Paths!TreePathPopFront
<1>. QED BY <1>2, <1>6, <1>7, <1>8, <1>9, <1>10, <1>13, <1>15, <1>16

(* What is received was called.                                            *)
LEMMA ReceivedIn ==
  ASSUME NEW S, S \subseteq FunctionCall, NEW functions, NEW made \in Seq(S)
  PROVE  Received(functions, made) \in Seq(S)
<1> DEFINE l == Len(made)
<1>1. made \in Seq(FunctionCall) /\ l \in Nat
  BY WiderStack
<1>2. PICK g : Receives(g, functions, made)
  BY <1>1, ReceivedIterates
<1>3. \A k \in 1 .. l : made[k] \in S
  BY ElementOfSeq
<1>4. /\ g[0] = << >> /\ Received(functions, made) = g[l]
      /\ \A k \in 1 .. l :
           g[k] = IF made[k].func \in functions THEN Append(g[k - 1], made[k]) ELSE g[k - 1]
  BY <1>2 DEF Receives
<1> HIDE DEF l
<1> DEFINE T == {k \in Nat : k \in 0 .. l => g[k] \in Seq(S)}
<1>5. 0 \in T
  <2>1. << >> \in Seq(S)
    OBVIOUS
  <2>. QED BY <1>4, <2>1
<1>6. ASSUME NEW k \in Nat, k \in T PROVE k + 1 \in T
  <2> SUFFICES ASSUME k + 1 \in 0 .. l PROVE g[k + 1] \in Seq(S)
    OBVIOUS
  <2>1. k \in 0 .. l /\ k + 1 \in 1 .. l /\ (k + 1) - 1 = k
    BY <1>1
  <2>2. PICK c : c = made[k + 1]
    OBVIOUS
  <2>3. PICK r : r = g[k]
    OBVIOUS
  <2>4. c \in S /\ r \in Seq(S)
    BY <1>3, <1>6, <2>1, <2>2, <2>3
  <2>5. g[k + 1] = IF c.func \in functions THEN Append(r, c) ELSE r
    BY <1>4, <2>1, <2>2, <2>3
  <2>6. Append(r, c) \in Seq(S)
    BY <2>4, PushTop
  <2>. QED BY <2>4, <2>5, <2>6
<1>7. Nat \subseteq T
  <2> HIDE DEF T
  <2>. QED BY <1>5, <1>6, CountingInduction
<1>8. l \in T /\ l \in 0 .. l
  BY <1>1, <1>7
<1>. QED BY <1>4, <1>8

(* The indices on the path of a node are size_t.                           *)
LEMMA IndicesFit ==
  ASSUME NEW r \in Node, NEW path \in TreePath, NEW n, Leads(Child, r, path, n)
  PROVE  \A k \in 1 .. Len(path) : path[k] < Size
<1>1. PICK walk \in [1 .. Len(path) + 1 -> Node] :
        \A k \in 1 .. Len(path) : path[k] \in 0 .. Len(Child[walk[k]]) - 1
  BY DEF Leads
<1>2. SUFFICES ASSUME NEW k \in 1 .. Len(path) PROVE path[k] < Size
  OBVIOUS
<1>3. PICK m : m = walk[k]
  OBVIOUS
<1>4. m \in Node
  <2>1. k \in 1 .. Len(path) + 1
    BY DEF TreePath
  <2>. QED BY <1>3, <2>1
<1>5. path[k] < Len(Child[m]) /\ Len(Child[m]) \in Nat /\ path[k] \in Nat
  <2>1. Len(Child[m]) \in Nat
    BY <1>4, TreeAssumption DEF NodeAssumption
  <2>. QED BY <1>1, <1>3, <2>1
<1>6. Len(Child[m]) < Size
  BY <1>4, SizeAssumption DEF degree
<1>. QED BY <1>5, <1>6, SizeAssumption

(* For every path handed out on a static tree, the templates yield the     *)
(* path of the parent and the index of the node in it, agree with the      *)
(* functions that replace them, and put the path together again.           *)
THEOREM TemplatesFindParentAlways == Spec => []TemplatesFindParent
<1>1. IInv => TemplatesFindParent
  <2> SUFFICES ASSUME IInv, NEW call \in ToSet(seen), call.path # << >>,
                      NEW path, path = Paths!StaticTreePath(call.path),
                      NEW parent, parent = Paths!TreePathPopBack(path),
                      NEW index, index = Paths!TreePathBack[path]
               PROVE  /\ Paths!TreePathSize(parent) = Len(path) - 1
                      /\ \E m \in childImpl[<< root, Paths!values(parent) >>] :
                           child(m, index) = call.node
                      /\ parent = Paths!pop_back(path) /\ index = Paths!back(path).value
                      /\ Paths!TreePathPushBack(parent, index) = path
                      /\ Paths!TreePathPushFront(Paths!TreePathPopFront(path),
                                                 Paths!TreePathFront(path)) = path
                      /\ Paths!TreePathConcat(parent, Paths!StaticTreePath(<< index >>)) = path
    BY DEF TemplatesFindParent
  <2>1. call \in Right(root) /\ root \in Node
    <3>1. calls \in Seq(Right(root)) /\ root \in Node
      BY DEF IInv
    <3>2. Right(root) \subseteq FunctionCall
      BY DEF Right
    <3>3. seen \in Seq(Right(root))
      BY <3>1, <3>2, ReceivedIn DEF seen
    <3>4. PICK k \in 1 .. Len(seen) : call = seen[k]
      BY <3>3 DEF ToSet
    <3>. QED BY <3>1, <3>3, <3>4, ElementOfSeq
  <2>2. call.path \in TreePath /\ call.node \in Node /\ Leads(Child, root, call.path, call.node)
    BY <2>1 DEF Right, FunctionCall
  <2>3. \A k \in 1 .. Len(call.path) : call.path[k] < Size
    BY <2>1, <2>2, IndicesFit
  <2>4. /\ Len(parent) = Len(path) - 1 /\ Paths!values(parent) = Front(call.path)
        /\ index = Last(call.path)
        /\ parent = Paths!pop_back(path) /\ index = Paths!back(path).value
        /\ Paths!TreePathPushBack(parent, index) = path
        /\ Paths!TreePathPushFront(Paths!TreePathPopFront(path), Paths!TreePathFront(path)) = path
        /\ Paths!TreePathConcat(parent, Paths!StaticTreePath(<< index >>)) = path
    BY <2>2, <2>3, TemplatesTakeApart
  <2>5. PICK m \in Node : /\ Leads(Child, root, Front(call.path), m)
                          /\ child(m, Last(call.path)) = call.node
    BY <2>1, <2>2, LeadsToParent
  <2>6. childImpl[<< root, Front(call.path) >>] = {m}
    <3>1. Front(call.path) \in TreePath
      BY <2>2, PathFront
    <3>. QED BY <2>1, <2>5, <3>1, ChildImplFollows
  <2>. QED BY <2>4, <2>5, <2>6 DEF Paths!TreePathSize
<1>. QED BY <1>1, Invariance, PTL

=============================================================================
