------------------------------ MODULE NodeStorage ------------------------------
(***************************************************************************)
(* Who owns whom: the life of node objects under the constructors, the     *)
(* setChild and childStorage methods of PowerNode, DynamicPowerNode and    *)
(* CompositeNode, and under copying, moving and destroying nodes.          *)
(*                                                                         *)
(* Every slot of a node's storage is a std::shared_ptr.  A slot filled     *)
(* from an lvalue gets stackobject_to_shared_ptr(t), a pointer that does   *)
(* not own its target; a slot filled from a const lvalue or an rvalue gets *)
(* a new object, copied or moved, that it owns; a slot filled from a       *)
(* shared_ptr shares whatever that pointer does.  Copying a node copies    *)
(* its pointers, so the copy shares its children with the original.        *)
(*                                                                         *)
(* A constructor converts its arguments one by one, and each conversion    *)
(* that makes an object may throw; ctor is the constructor call in         *)
(* progress.  Destroying a node releases its pointers, which may destroy   *)
(* further nodes: one Reclaim step each.                                   *)
(*                                                                         *)
(* The client may look after some objects: it lends them only while their  *)
(* lives are its own to end, and ends these only when nothing points there *)
(* any more.  What it does with the others is up to it.                    *)
(*                                                                         *)
(* Budget and Handle are bounds: the sets of objects a behaviour may make, *)
(* one of them each, and the client's shared_ptr variables.                *)
(***************************************************************************)
EXTENDS Integers, Sequences

CONSTANTS
  Obj,       \* node objects
  Class,     \* node classes
  ClassOf,   \* [Obj -> Class]
  Shapes,    \* [Class -> SUBSET Seq(Class)]: the child classes of an object,
             \*   one sequence unless the class is a DynamicPowerNode
  Tag,       \* [Class -> NodeTags]: the kind of node a class is
  Level,     \* [Class -> Nat]: nesting depth of the template arguments
  Handle,    \* shared_ptr variables of the client
  Careful,   \* the objects the client looks after
  Budget     \* sets of objects: a behaviour makes no objects outside one of them

NodeTags == {"LeafNodeTag", "PowerNodeTag", "DynamicPowerNodeTag",
             "CompositeNodeTag"}

ASSUME StorageAssumption ==
  /\ ClassOf \in [Obj -> Class]
  /\ Tag \in [Class -> NodeTags]
  /\ Level \in [Class -> Nat]
  /\ DOMAIN Shapes = Class
  /\ Careful \subseteq Obj
  /\ Budget \subseteq SUBSET Obj
  /\ \A c \in Class : \A shape \in Shapes[c] :
       /\ shape \in Seq(Class)
       /\ \A i \in 1 .. Len(shape) : Level[shape[i]] < Level[c]

VARIABLES
  life,    \* [Obj -> Life]
  slots,   \* [Obj -> Seq(Slot)]: the storage of each object
  handle,  \* [Handle -> Slot]
  ctor     \* {} or {the constructor call in progress}

vars == << life, slots, handle, ctor >>

(* automatic: the client ends the object's life; heap: made by make_shared *)
(* and destroyed with its last owner.                                      *)
Life == {"unborn", "constructing", "automatic", "heap", "dead"}

(* A std::shared_ptr is null or holds one pointer.                         *)
Pointer == [to : Obj, owning : BOOLEAN]

Slot == {{}} \cup {{p} : p \in Pointer}

own(o) == {[to |-> o, owning |-> TRUE]}

stackobject_to_shared_ptr(o) == {[to |-> o, owning |-> FALSE]}

Living == {o \in Obj : life[o] \in {"automatic", "heap"}}

(* o has an owner: a slot of some storage (objects not born or dead have   *)
(* an empty one), a handle, or a shared_ptr argument of the constructor    *)
(* call in progress.                                                       *)
OwnedBy(x, o) == \E i \in 1 .. Len(slots[x]) : slots[x][i] = own(o)

HeldByClient(o) == \E h \in Handle : handle[h] = own(o)

IsArgument(o) ==
  \E c \in ctor : \E i \in 1 .. Len(c.plan) :
    c.plan[i].how = "shared" /\ c.plan[i].slot = own(o)

Owned(o) == HeldByClient(o) \/ IsArgument(o) \/ \E x \in Obj : OwnedBy(x, o)

(* Destruction is synchronous: nothing else happens until all of it is     *)
(* done.                                                                   *)
Doomed(o) == life[o] = "heap" /\ ~ Owned(o)

Quiet == \A o \in Obj : ~ Doomed(o)

Idle == Quiet /\ ctor = {}

(* Arguments.  "lvalue", "const" and "rvalue" name an object, "shared" a   *)
(* shared_ptr the client holds or gets from childStorage().                *)
Arg == [how : {"lvalue", "const", "rvalue"}, obj : Obj]
         \cup [how : {"shared"}, slot : Slot]

MakesObject(arg) == arg.how \in {"const", "rvalue"}

(* What the client lends: of the objects it looks after, only those whose  *)
(* lives it ends itself.                                                   *)
Lendable(c) == {x \in Living : ClassOf[x] = c /\ (x \in Careful => life[x] = "automatic")}

ObjectArgs_LendsHeap(c) ==
  [how : {"const", "rvalue", "lvalue"}, obj : {x \in Living : ClassOf[x] = c}]

ObjectArgs(c) ==
  [how : {"const", "rvalue"}, obj : {x \in Living : ClassOf[x] = c}]
    \cup [how : {"lvalue"}, obj : Lendable(c)]

SlotsOf(x) == {slots[x][i] : i \in 1 .. Len(slots[x])}

SharedArgs(c) ==
  [how : {"shared"},
   slot : {s \in {handle[h] : h \in Handle} \cup UNION {SlotsOf(x) : x \in Living} :
             \A p \in s : ClassOf[p.to] = c}]

(* Moving from a node moves its storage: a std::vector is left empty, the  *)
(* shared_ptrs of a std::array or std::tuple are left null.                *)
MovedFrom(o) ==
  IF Tag[ClassOf[o]] = "DynamicPowerNodeTag" THEN << >> ELSE [i \in 1 .. Len(slots[o]) |-> {}]

convert_arg_OwnsLvalue(arg) ==
  CASE MakesObject(arg) ->
         {own(y) : y \in {x \in Obj : life[x] = "unborn" /\ ClassOf[x] = ClassOf[arg.obj]}}
    [] arg.how = "lvalue" -> {own(arg.obj)}
    [] arg.how = "shared" -> {arg.slot}

(* What convert_arg, or a shared_ptr overload, turns arg into: a pointer to *)
(* the copy that make_shared makes of it (any object not made yet), a       *)
(* pointer that owns nothing, or the shared_ptr itself.                    *)
convert_arg(arg) ==
  CASE MakesObject(arg) ->
         {own(y) : y \in {x \in Obj : life[x] = "unborn" /\ ClassOf[x] = ClassOf[arg.obj]}}
    [] arg.how = "lvalue" -> {stackobject_to_shared_ptr(arg.obj)}
    [] arg.how = "shared" -> {arg.slot}

(* All storages and lives once arg has been converted to s.                *)
StorageAfter(arg, s) ==
  [x \in Obj |-> CASE MakesObject(arg) /\ s = own(x)        -> slots[arg.obj]
                   [] arg.how = "rvalue" /\ x = arg.obj     -> MovedFrom(x)
                   [] OTHER                                 -> slots[x]]

LifeAfter(arg, s) ==
  [x \in Obj |-> IF MakesObject(arg) /\ s = own(x) THEN "heap" ELSE life[x]]

(* Nothing has been made yet; what the budget excludes never will be.      *)
Init ==
  /\ \E made \in Budget : life = [o \in Obj |-> IF o \in made THEN "unborn" ELSE "dead"]
  /\ slots = [o \in Obj |-> << >>]
  /\ handle = [h \in Handle |-> {}]
  /\ ctor = {}

-----------------------------------------------------------------------------
(* Constructor calls.  The new object is a variable of the client, or made *)
(* by a make_shared whose result goes to a handle: into is {} or {handle}. *)
(* plan holds the arguments, todo the positions still to be converted.     *)
Begin(o, storages, plan) ==
  /\ \E into \in {{}} \cup {{h} : h \in Handle} :
       ctor' = {[node |-> o, plan |-> plan, todo |-> 1 .. Len(plan), into |-> into]}
  /\ life' = [life EXCEPT ![o] = "constructing"]
  /\ slots' = storages
  /\ UNCHANGED handle

Nulls(shape) == [i \in 1 .. Len(shape) |-> {}]

(* A leaf, PowerNode(), CompositeNode() and DynamicPowerNode(size): every  *)
(* slot is null until setChild.                                            *)
ConstructEmpty(o) ==
  \E shape \in Shapes[ClassOf[o]] :
    Begin(o, [slots EXCEPT ![o] = Nulls(shape)], << >>)

(* The constructors from a NodeStorage, and copying or moving a node: the  *)
(* pointers are copied or moved, null ones included.                       *)
ConstructFromStorage(o) ==
  \E m \in Living : \E how \in {"const", "rvalue"} :
    /\ ClassOf[m] = ClassOf[o]
    /\ Begin(o, [slots EXCEPT ![o] = slots[m],
                              ![m] = IF how = "rvalue" THEN MovedFrom(m) ELSE @],
             << >>)

(* The variadic constructors: one argument per child, all of them objects  *)
(* or all of them shared_ptrs.  A single lvalue does not get here if the   *)
(* node is a PowerNode: PowerNode(T&, bool) is the better match.           *)
ObjectPlans(shape) ==
  {plan \in [1 .. Len(shape) -> UNION {ObjectArgs(shape[i]) : i \in 1 .. Len(shape)}] :
     \A i \in 1 .. Len(shape) : plan[i] \in ObjectArgs(shape[i])}

SharedPlans(shape) ==
  {plan \in [1 .. Len(shape) -> UNION {SharedArgs(shape[i]) : i \in 1 .. Len(shape)}] :
     \A i \in 1 .. Len(shape) : plan[i] \in SharedArgs(shape[i])}

ConstructFromArgs(o) ==
  \E shape \in Shapes[ClassOf[o]] \ {<< >>} :
  \E plan \in ObjectPlans(shape) \cup SharedPlans(shape) :
    /\ ~ /\ Tag[ClassOf[o]] = "PowerNodeTag"
         /\ Len(plan) = 1 /\ plan[1].how = "lvalue"
    /\ Begin(o, [slots EXCEPT ![o] = Nulls(shape)], plan)

(* PowerNode(T& t, bool distinct_objects): a copy of t in every slot, or   *)
(* one non-owning pointer to t in all of them.                             *)
ConstructFromOne(o) ==
  \E shape \in Shapes[ClassOf[o]] : \E how \in {"const", "lvalue"} :
    /\ Tag[ClassOf[o]] = "PowerNodeTag"
    /\ shape # << >>
    /\ \E arg \in ObjectArgs(shape[1]) :
         /\ arg.how = how
         /\ Begin(o, [slots EXCEPT ![o] = Nulls(shape)],
                  [i \in 1 .. Len(shape) |-> arg])

(* The conversions happen in the order of the braces of NodeStorage{...};  *)
(* CompositeNode initialises its std::tuple in parentheses, which leaves   *)
(* the order to the compiler.                                              *)
NextArgument(c) ==
  IF Tag[ClassOf[c.node]] = "CompositeNodeTag"
    THEN c.todo
    ELSE {i \in c.todo : \A j \in c.todo : i <= j}

ConvertNext ==
  \E c \in ctor : \E i \in NextArgument(c) :
    /\ \E s \in convert_arg(c.plan[i]) :
         /\ slots' = [StorageAfter(c.plan[i], s) EXCEPT ![c.node][i] = s]
         /\ life' = LifeAfter(c.plan[i], s)
    /\ ctor' = {[c EXCEPT !.todo = @ \ {i}]}
    /\ UNCHANGED handle

ConstructorThrows_KeepsNode ==
  \E c \in ctor :
    /\ \E i \in NextArgument(c) : MakesObject(c.plan[i])
    /\ ctor' = {}
    /\ UNCHANGED << life, slots, handle >>

(* make_shared throws, or the copy constructor it calls: the pointers      *)
(* stored so far are released, the node never comes to life.               *)
ConstructorThrows ==
  \E c \in ctor :
    /\ \E i \in NextArgument(c) : MakesObject(c.plan[i])
    /\ life' = [life EXCEPT ![c.node] = "dead"]
    /\ slots' = [slots EXCEPT ![c.node] = << >>]
    /\ ctor' = {}
    /\ UNCHANGED handle

Constructed_NeverReturns ==
  \E c \in ctor :
    /\ c.todo = {}
    /\ life' = [life EXCEPT ![c.node] = IF c.into = {} THEN "automatic" ELSE "heap"]
    /\ handle' = [h \in Handle |-> IF h \in c.into THEN own(c.node) ELSE handle[h]]
    /\ UNCHANGED << slots, ctor >>

Constructed ==
  \E c \in ctor :
    /\ c.todo = {}
    /\ life' = [life EXCEPT ![c.node] = IF c.into = {} THEN "automatic" ELSE "heap"]
    /\ handle' = [h \in Handle |-> IF h \in c.into THEN own(c.node) ELSE handle[h]]
    /\ ctor' = {}
    /\ UNCHANGED slots

-----------------------------------------------------------------------------
(* setChild(i, T&), setChild(i, T&&) and setChild(i, shared_ptr<T>): the   *)
(* argument is converted first, then the old pointer is replaced.  If the  *)
(* conversion throws, nothing has happened.                                *)
setChild(n, i) ==
  /\ n \in Living
  /\ i \in 1 .. Len(slots[n])
  /\ \E shape \in {s \in Shapes[ClassOf[n]] : Len(s) = Len(slots[n])} :
     \E arg \in ObjectArgs(shape[i]) \cup SharedArgs(shape[i]) :
       /\ arg.how # "const"
       /\ \E s \in convert_arg(arg) :
            /\ slots' = [StorageAfter(arg, s) EXCEPT ![n][i] = s]
            /\ life' = LifeAfter(arg, s)
  /\ UNCHANGED << handle, ctor >>

(* Assigning one node to another assigns the storage, so that the degree   *)
(* of a DynamicPowerNode may change; move assignment empties the source.   *)
Assign(n, m, how) ==
  /\ n \in Living /\ m \in Living \ {n}
  /\ ClassOf[n] = ClassOf[m]
  /\ slots' = [slots EXCEPT ![n] = slots[m],
                           ![m] = IF how = "rvalue" THEN MovedFrom(m) ELSE @]
  /\ UNCHANGED << life, handle, ctor >>

(* The client keeps the result of childStorage(i), or lets go of it.       *)
childStorage(h, n, i) ==
  /\ n \in Living
  /\ i \in 1 .. Len(slots[n])
  /\ handle' = [handle EXCEPT ![h] = slots[n][i]]
  /\ UNCHANGED << life, slots, ctor >>

Reset(h) ==
  /\ handle' = [handle EXCEPT ![h] = {}]
  /\ UNCHANGED << life, slots, ctor >>

(* The client ends the life of a node it manages; of one it looks after,   *)
(* only when nothing points there any more.                                *)
Lent(o) ==
  \/ \E x \in Living : \E i \in 1 .. Len(slots[x]) : \E p \in slots[x][i] : p.to = o
  \/ \E h \in Handle : \E p \in handle[h] : p.to = o

EndLife(o) ==
  /\ life[o] = "automatic"
  /\ o \in Careful => ~ Lent(o)
  /\ life' = [life EXCEPT ![o] = "dead"]
  /\ slots' = [slots EXCEPT ![o] = << >>]
  /\ UNCHANGED << handle, ctor >>

(* The last owner of a heap object is gone.                                *)
Reclaim(o) ==
  /\ Doomed(o)
  /\ life' = [life EXCEPT ![o] = "dead"]
  /\ slots' = [slots EXCEPT ![o] = << >>]
  /\ UNCHANGED << handle, ctor >>

Construct(o) ==
  /\ life[o] = "unborn"
  /\ \/ ConstructEmpty(o) \/ ConstructFromStorage(o)
     \/ ConstructFromArgs(o) \/ ConstructFromOne(o)

(* What the client does on its own account, one call after the other.      *)
ClientStep ==
  /\ Idle
  /\ \/ \E o \in Obj : Construct(o) \/ EndLife(o)
     \/ \E n \in Obj : \E i \in 1 .. Len(slots[n]) :
          setChild(n, i) \/ \E h \in Handle : childStorage(h, n, i)
     \/ \E n, m \in Obj : \E how \in {"const", "rvalue"} : Assign(n, m, how)
     \/ \E h \in Handle : Reset(h)

Next ==
  \/ ClientStep
  \/ ConvertNext \/ ConstructorThrows \/ Constructed
  \/ \E o \in Obj : Reclaim(o)

Spec == Init /\ [][Next]_vars

-----------------------------------------------------------------------------
(* The types of the state; ctor is the one object under construction.      *)
TypeOK ==
  /\ life \in [Obj -> Life]
  /\ slots \in [Obj -> Seq(Slot)]
  /\ handle \in [Handle -> Slot]
  /\ \A c \in ctor : /\ ctor = {c}
                     /\ c.node \in Obj
                     /\ life[c.node] = "constructing"
                     /\ c.plan \in Seq(Arg)
                     /\ c.todo \subseteq 1 .. Len(c.plan)
                     /\ c.into \subseteq Handle

(* An owning pointer never outlives its target, and never owns an object   *)
(* whose life somebody else ends: what is reached through owning pointers  *)
(* is a heap object that has not been destroyed, whatever was moved,       *)
(* copied, replaced or thrown before.                                      *)
OwnedIsAlive ==
  \A o \in Obj : Owned(o) => life[o] = "heap"

(* Nothing leaks.  Between two calls of the client there is no group of    *)
(* heap objects that own each other and are owned by nobody else: replaced *)
(* and moved-from children and what a constructor made before it threw are *)
(* all gone, and since a class cannot contain itself, no ownership cycle   *)
(* can be built.                                                           *)
NoLeak ==
  Idle =>
    \A group \in SUBSET {o \in Obj : life[o] = "heap"} :
      group # {} => \E o \in group :
                      HeldByClient(o) \/ \E x \in Living \ group : OwnedBy(x, o)

(* No pointer to an object the client looks after dangles, in the slots of *)
(* a living node or in a handle: lending such an object only while it is   *)
(* the client's own and ending its life only when nothing points there is  *)
(* enough, whatever is copied, moved, replaced or thrown in between and    *)
(* whatever the client does with other objects.                            *)
NoDangling ==
  /\ \A x \in Living : \A s \in SlotsOf(x) : \A p \in s :
       p.to \in Careful => p.to \in Living
  /\ \A h \in Handle : \A p \in handle[h] : p.to \in Careful => p.to \in Living

=============================================================================
