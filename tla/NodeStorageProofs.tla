---------------------------- MODULE NodeStorageProofs ----------------------------
(***************************************************************************)
(* For every set of objects, classes, handles and every client: the state  *)
(* of NodeStorage is typed, an owning pointer never outlives its target,   *)
(* nothing leaks, and no pointer to an object the client looks after       *)
(* dangles.                                                                *)
(*                                                                         *)
(* IInv is inductive; TypeOK is needed in it because the steps index into  *)
(* the storages.  LInv, which is inductive together with IInv, says where  *)
(* pointers may lead: an ownership cycle would have to climb the nesting   *)
(* of the classes, and what a pointer does not own is the client's.        *)
(***************************************************************************)
EXTENDS NodeStorage, SequenceTheorems, WellFoundedInduction, TLAPS

IInv == TypeOK /\ OwnedIsAlive

-----------------------------------------------------------------------------
(* Pointers.                                                               *)

LEMMA PointerFacts ==
  ASSUME NEW o \in Obj
  PROVE  /\ own(o) \in Slot /\ stackobject_to_shared_ptr(o) \in Slot
         /\ own(o) # {}
         /\ \A y : own(o) = own(y) => o = y
         /\ \A y : own(o) # stackobject_to_shared_ptr(y)
<1>1. [to |-> o, owning |-> TRUE] \in Pointer /\ [to |-> o, owning |-> FALSE] \in Pointer
  BY DEF Pointer
<1>2. own(o) \in Slot /\ stackobject_to_shared_ptr(o) \in Slot
  BY <1>1 DEF Slot, own, stackobject_to_shared_ptr
<1>3. own(o) # {}
  BY DEF own
<1>4. ASSUME NEW y, own(o) = own(y) PROVE o = y
  <2>1. [to |-> o, owning |-> TRUE] = [to |-> y, owning |-> TRUE]
    BY <1>4 DEF own
  <2> QED  BY <2>1
<1>5. ASSUME NEW y, own(o) = stackobject_to_shared_ptr(y) PROVE FALSE
  <2>1. [to |-> o, owning |-> TRUE] = [to |-> y, owning |-> FALSE]
    BY <1>5 DEF own, stackobject_to_shared_ptr
  <2> QED  BY <2>1
<1> QED  BY <1>2, <1>3, <1>4, <1>5

LEMMA NullIsSlot == {} \in Slot
BY DEF Slot

(* What a step has to do to keep owners and lives in agreement: it hands   *)
(* out ownership only of what was owned before or lives on the heap, and   *)
(* whatever was owned on the heap stays there.                             *)
LEMMA OwnedStep ==
  ASSUME OwnedIsAlive,
         \A o \in Obj : Owned(o)' => Owned(o) \/ life'[o] = "heap",
         \A o \in Obj : Owned(o) /\ life[o] = "heap" => life'[o] = "heap"
  PROVE  OwnedIsAlive'
BY DEF OwnedIsAlive

-----------------------------------------------------------------------------
(* Storages.                                                               *)

LEMMA SetSlot ==
  ASSUME NEW storage \in Seq(Slot), NEW i, NEW s \in Slot
  PROVE  /\ [storage EXCEPT ![i] = s] \in Seq(Slot)
         /\ \A j \in 1 .. Len([storage EXCEPT ![i] = s]) :
              /\ j \in 1 .. Len(storage)
              /\ [storage EXCEPT ![i] = s][j] \in {s, storage[j]}
<1>1. storage \in [1 .. Len(storage) -> Slot] /\ Len(storage) \in Nat
  BY LenProperties
<1>2. CASE i \in 1 .. Len(storage)
  BY <1>2, ExceptSeq, Z3
<1>3. CASE i \notin 1 .. Len(storage)
  <2>1. [storage EXCEPT ![i] = s] = storage
    BY <1>1, <1>3
  <2> QED  BY <2>1
<1> QED  BY <1>2, <1>3

LEMMA NullsAreSlots ==
  ASSUME NEW n \in Nat
  PROVE  /\ [i \in 1 .. n |-> {}] \in Seq(Slot)
         /\ Len([i \in 1 .. n |-> {}]) = n
         /\ \A j \in 1 .. n : [i \in 1 .. n |-> {}][j] = {}
<1>1. [i \in 1 .. n |-> {}] \in Seq(Slot)
  BY NullIsSlot, IsASeq
<1>2. DOMAIN [i \in 1 .. n |-> {}] = 1 .. Len([i \in 1 .. n |-> {}])
  BY <1>1, LenProperties
<1>3. Len([i \in 1 .. n |-> {}]) = n
  BY <1>1, <1>2, LenProperties
<1> QED  BY <1>1, <1>3

LEMMA MovedFromIsNull ==
  ASSUME TypeOK, NEW o \in Obj
  PROVE  /\ MovedFrom(o) \in Seq(Slot)
         /\ \A j \in 1 .. Len(MovedFrom(o)) : MovedFrom(o)[j] = {}
<1>1. Len(slots[o]) \in Nat
  BY LenProperties DEF TypeOK
<1>2. << >> \in Seq(Slot) /\ Len(<< >>) = 0
  BY EmptySeq
<1>3. CASE Tag[ClassOf[o]] = "DynamicPowerNodeTag"
  BY <1>2, <1>3 DEF MovedFrom
<1>4. CASE Tag[ClassOf[o]] # "DynamicPowerNodeTag"
  BY <1>1, <1>4, NullsAreSlots DEF MovedFrom
<1> QED  BY <1>3, <1>4

(* Who owns something owns it through a pointer that is there.             *)
LEMMA SlotTypes ==
  ASSUME TypeOK, NEW x \in Obj, NEW i \in 1 .. Len(slots[x])
  PROVE  slots[x][i] \in Slot
BY ElementOfSeq DEF TypeOK

-----------------------------------------------------------------------------
(* Arguments and their conversion.                                         *)

LEMMA ArgTypes ==
  ASSUME TypeOK, NEW c
  PROVE  /\ ObjectArgs(c) \subseteq Arg
         /\ \A arg \in ObjectArgs(c) : arg.how # "shared"
<1>1. {x \in Living : ClassOf[x] = c} \subseteq Obj /\ Lendable(c) \subseteq Obj
  BY DEF Living, Lendable
<1> QED  BY <1>1 DEF ObjectArgs, Arg

LEMMA SharedArgTypes ==
  ASSUME TypeOK, NEW c, NEW arg \in SharedArgs(c)
  PROVE  /\ arg \in Arg
         /\ \A o \in Obj : arg.slot = own(o) => Owned(o)
<1>1. arg.slot \in {handle[h] : h \in Handle} \cup UNION {SlotsOf(x) : x \in Living}
  BY DEF SharedArgs
<1>2. arg = [how |-> "shared", slot |-> arg.slot]
  BY DEF SharedArgs
<1>3. CASE arg.slot \in {handle[h] : h \in Handle}
  <2>1. PICK h \in Handle : arg.slot = handle[h]
    BY <1>3
  <2>2. arg.slot \in Slot
    BY <2>1 DEF TypeOK
  <2> QED  BY <1>2, <2>1, <2>2 DEF Arg, Owned, HeldByClient
<1>4. CASE arg.slot \in UNION {SlotsOf(x) : x \in Living}
  <2>1. PICK x \in Living : arg.slot \in SlotsOf(x)
    BY <1>4
  <2>2. PICK i \in 1 .. Len(slots[x]) : arg.slot = slots[x][i]
    BY <2>1 DEF SlotsOf
  <2>3. x \in Obj
    BY DEF Living
  <2>4. arg.slot \in Slot
    BY <2>2, <2>3, SlotTypes
  <2> QED  BY <1>2, <2>2, <2>3, <2>4 DEF Arg, Owned, OwnedBy
<1> QED  BY <1>1, <1>3, <1>4

(* What a conversion does: the pointer it yields is typed; it owns, if     *)
(* anything, what the argument owned or a heap object; lives only change   *)
(* from unborn to heap.                                                    *)
LEMMA ConvertedPointer ==
  ASSUME TypeOK, NEW arg \in Arg, NEW s \in convert_arg(arg)
  PROVE  /\ s \in Slot
         /\ \A o \in Obj : s = own(o) =>
              \/ arg.how = "shared" /\ arg.slot = own(o)
              \/ LifeAfter(arg, s)[o] = "heap"
         /\ LifeAfter(arg, s) \in [Obj -> Life]
         /\ \A o \in Obj : life[o] # "unborn" => LifeAfter(arg, s)[o] = life[o]
<1>1. CASE MakesObject(arg)
  <2>1. PICK y \in Obj : s = own(y) /\ life[y] = "unborn"
    <3>1. convert_arg(arg) =
            {own(y) : y \in {x \in Obj : life[x] = "unborn" /\ ClassOf[x] = ClassOf[arg.obj]}}
      BY <1>1 DEF convert_arg, MakesObject
    <3> QED  BY <3>1
  <2>2. \A x \in Obj : s = own(x) <=> x = y
    BY <2>1, PointerFacts
  <2>3. LifeAfter(arg, s) = [x \in Obj |-> IF x = y THEN "heap" ELSE life[x]]
    BY <1>1, <2>2 DEF LifeAfter
  <2>4. s \in Slot
    BY <2>1, PointerFacts
  <2> QED  BY <2>1, <2>2, <2>3, <2>4 DEF TypeOK, Life
<1>2. CASE ~ MakesObject(arg)
  <2>1. LifeAfter(arg, s) = [x \in Obj |-> life[x]]
    BY <1>2 DEF LifeAfter
  <2>2. CASE arg.how = "lvalue"
    <3>1. arg.obj \in Obj /\ s = stackobject_to_shared_ptr(arg.obj)
      BY <1>2, <2>2 DEF Arg, convert_arg
    <3> QED  BY <2>1, <3>1, PointerFacts DEF TypeOK
  <2>3. CASE arg.how = "shared"
    <3>1. arg.slot \in Slot /\ s = arg.slot
      BY <1>2, <2>3 DEF Arg, convert_arg
    <3> QED  BY <2>1, <2>3, <3>1 DEF TypeOK
  <2>4. arg.how \in {"lvalue", "shared"}
    BY <1>2 DEF Arg, MakesObject
  <2> QED  BY <2>2, <2>3, <2>4
<1> QED  BY <1>1, <1>2

(* The storages then are typed, and no pointer in them owns what was not   *)
(* owned by some storage before.                                           *)
LEMMA ConvertedStorage ==
  ASSUME TypeOK, NEW arg \in Arg, NEW s
  PROVE  /\ StorageAfter(arg, s) \in [Obj -> Seq(Slot)]
         /\ \A x, o \in Obj : \A i \in 1 .. Len(StorageAfter(arg, s)[x]) :
              StorageAfter(arg, s)[x][i] = own(o) => \E z \in Obj : OwnedBy(z, o)
<1> DEFINE A == StorageAfter(arg, s)
<1>1. ASSUME NEW x \in Obj
      PROVE  \/ MakesObject(arg) /\ A[x] = slots[arg.obj]
             \/ A[x] = MovedFrom(x)
             \/ A[x] = slots[x]
  BY DEF StorageAfter
<1>2. MakesObject(arg) => arg.obj \in Obj
  BY DEF MakesObject, Arg
<1>3. ASSUME NEW x \in Obj PROVE A[x] \in Seq(Slot)
  BY <1>1, <1>2, MovedFromIsNull DEF TypeOK
<1>4. A \in [Obj -> Seq(Slot)]
  BY <1>3 DEF StorageAfter
<1>5. ASSUME NEW x \in Obj, NEW o \in Obj, NEW i \in 1 .. Len(A[x]), A[x][i] = own(o)
      PROVE  \E z \in Obj : OwnedBy(z, o)
  <2>1. A[x] # MovedFrom(x)
    BY <1>5, MovedFromIsNull, PointerFacts
  <2> HIDE DEF A
  <2> QED  BY <1>1, <1>2, <1>5, <2>1 DEF OwnedBy
<1> QED  BY <1>4, <1>5

-----------------------------------------------------------------------------
(* The steps, one lemma per action: each preserves IInv.                   *)

LEMMA BeginStep ==
  ASSUME IInv, NEW o \in Obj, life[o] = "unborn",
         NEW storages \in [Obj -> Seq(Slot)],
         \A x, y \in Obj : \A i \in 1 .. Len(storages[x]) :
           storages[x][i] = own(y) => Owned(y),
         NEW plan \in Seq(Arg),
         \A y \in Obj : \A i \in 1 .. Len(plan) :
           plan[i].how = "shared" /\ plan[i].slot = own(y) => Owned(y),
         Begin(o, storages, plan)
  PROVE  IInv'
<1>1. PICK into \in {{}} \cup {{h} : h \in Handle} :
        ctor' = {[node |-> o, plan |-> plan, todo |-> 1 .. Len(plan), into |-> into]}
  BY DEF Begin
<1>2. /\ life' = [life EXCEPT ![o] = "constructing"]
      /\ slots' = storages
      /\ handle' = handle
  BY DEF Begin
<1>3. TypeOK'
  BY <1>1, <1>2 DEF IInv, TypeOK, Life
<1>4. ASSUME NEW y \in Obj, Owned(y)' PROVE Owned(y)
  <2>1. HeldByClient(y)' => HeldByClient(y)
    BY <1>2 DEF HeldByClient
  <2>2. IsArgument(y)' => Owned(y)
    BY <1>1 DEF IsArgument
  <2>3. ASSUME NEW x \in Obj, OwnedBy(x, y)' PROVE Owned(y)
    BY <1>2, <2>3 DEF OwnedBy
  <2> QED  BY <1>4, <2>1, <2>2, <2>3 DEF Owned
<1>5. \A y \in Obj : life[y] = "heap" => life'[y] = "heap"
  BY <1>2 DEF IInv, TypeOK
<1> QED  BY <1>3, <1>4, <1>5, OwnedStep DEF IInv

LEMMA ShapeLengths ==
  ASSUME NEW o \in Obj, NEW shape \in Shapes[ClassOf[o]]
  PROVE  Len(shape) \in Nat
BY StorageAssumption, LenProperties

NullStorage(o, shape) == [slots EXCEPT ![o] = Nulls(shape)]

(* Slots that are null or were in the same storage before give no new      *)
(* owners.                                                                 *)
LEMMA NullsOwnNothing ==
  ASSUME IInv, NEW o \in Obj, NEW shape \in Shapes[ClassOf[o]],
         NEW storages, storages = NullStorage(o, shape)
  PROVE  /\ storages \in [Obj -> Seq(Slot)]
         /\ \A x, y \in Obj : \A i \in 1 .. Len(storages[x]) :
              storages[x][i] = own(y) => Owned(y)
<1>1. slots \in [Obj -> Seq(Slot)]
  BY DEF IInv, TypeOK
<1>2. storages \in [Obj -> Seq(Slot)]
  BY <1>1, ShapeLengths, NullsAreSlots DEF Nulls, NullStorage
<1>3. ASSUME NEW x \in Obj, NEW y \in Obj, NEW i \in 1 .. Len(storages[x]),
             storages[x][i] = own(y)
      PROVE  Owned(y)
  <2>1. CASE x = o
    <3>1. storages[x] = Nulls(shape)
      BY <1>1, <2>1 DEF NullStorage
    <3>2. storages[x][i] = {}
      BY <3>1, ShapeLengths, NullsAreSlots DEF Nulls
    <3> QED  BY <1>3, <3>2, PointerFacts
  <2>2. CASE x # o
    <3>1. storages[x] = slots[x]
      BY <1>1, <2>2 DEF NullStorage
    <3> QED  BY <1>3, <3>1 DEF Owned, OwnedBy
  <2> QED  BY <2>1, <2>2
<1> QED  BY <1>2, <1>3

LEMMA EmptyPlan ==
  /\ << >> \in Seq(Arg)
  /\ \A i : i \notin 1 .. Len(<< >>)
<1>1. << >> \in Seq(Arg) /\ Len(<< >>) = 0
  BY EmptySeq
<1> QED  BY <1>1

LEMMA ConstructEmptyStep ==
  ASSUME IInv, NEW o \in Obj, life[o] = "unborn", ConstructEmpty(o)
  PROVE  IInv'
<1>1. PICK shape \in Shapes[ClassOf[o]] : Begin(o, [slots EXCEPT ![o] = Nulls(shape)], << >>)
  BY DEF ConstructEmpty
<1>2. PICK storages : /\ storages = NullStorage(o, shape)
                      /\ Begin(o, storages, << >>)
  BY <1>1 DEF Begin, NullStorage
<1>3. /\ storages \in [Obj -> Seq(Slot)]
      /\ \A x, y \in Obj : \A i \in 1 .. Len(storages[x]) :
           storages[x][i] = own(y) => Owned(y)
  BY <1>2, NullsOwnNothing
<1> QED  BY <1>2, <1>3, EmptyPlan, BeginStep

LEMMA ConstructFromStorageStep ==
  ASSUME IInv, NEW o \in Obj, life[o] = "unborn", ConstructFromStorage(o)
  PROVE  IInv'
<1>1. PICK m \in Living, how \in {"const", "rvalue"} :
        Begin(o, [slots EXCEPT ![o] = slots[m],
                               ![m] = IF how = "rvalue" THEN MovedFrom(m) ELSE @],
              << >>)
  BY DEF ConstructFromStorage
<1>2. m \in Obj /\ slots \in [Obj -> Seq(Slot)] /\ TypeOK
  BY DEF Living, IInv, TypeOK
<1>3. PICK storages :
        /\ storages = [slots EXCEPT ![o] = slots[m],
                                    ![m] = IF how = "rvalue" THEN MovedFrom(m) ELSE @]
        /\ Begin(o, storages, << >>)
  BY <1>1 DEF Begin
<1>4. /\ storages \in [Obj -> Seq(Slot)]
      /\ \A x \in Obj : storages[x] \in {slots[x], slots[m], MovedFrom(m)}
  BY <1>2, <1>3, MovedFromIsNull
<1>5. ASSUME NEW x \in Obj, NEW y \in Obj, NEW i \in 1 .. Len(storages[x]),
             storages[x][i] = own(y)
      PROVE  Owned(y)
  <2>1. storages[x] # MovedFrom(m)
    BY <1>2, <1>5, MovedFromIsNull, PointerFacts
  <2> QED  BY <1>2, <1>4, <1>5, <2>1 DEF Owned, OwnedBy
<1> QED  BY <1>3, <1>4, <1>5, EmptyPlan, BeginStep

LEMMA PlanIsSeq ==
  ASSUME NEW n \in Nat, NEW T, NEW plan \in [1 .. n -> T],
         \A i \in 1 .. n : plan[i] \in Arg
  PROVE  plan \in Seq(Arg) /\ Len(plan) = n
<1>1. plan \in [1 .. n -> Arg]
  OBVIOUS
<1>2. plan \in Seq(Arg)
  BY <1>1, SeqDef
<1>3. DOMAIN plan = 1 .. n /\ Len(plan) \in Nat /\ DOMAIN plan = 1 .. Len(plan)
  BY <1>1, <1>2, LenProperties
<1> QED  BY <1>2, <1>3

LEMMA ConstructFromArgsStep ==
  ASSUME IInv, NEW o \in Obj, life[o] = "unborn", ConstructFromArgs(o)
  PROVE  IInv'
<1> USE DEF IInv
<1>1. PICK shape \in Shapes[ClassOf[o]] :
        \E plan \in ObjectPlans(shape) \cup SharedPlans(shape) :
          Begin(o, [slots EXCEPT ![o] = Nulls(shape)], plan)
  BY DEF ConstructFromArgs
<1>2. PICK storages, plan : /\ plan \in ObjectPlans(shape) \cup SharedPlans(shape)
                            /\ storages = NullStorage(o, shape)
                            /\ Begin(o, storages, plan)
  BY <1>1 DEF Begin, NullStorage
<1>3. /\ storages \in [Obj -> Seq(Slot)]
      /\ \A x, y \in Obj : \A i \in 1 .. Len(storages[x]) :
           storages[x][i] = own(y) => Owned(y)
  BY <1>2, NullsOwnNothing
<1>4. Len(shape) \in Nat
  BY ShapeLengths
<1>5. CASE plan \in ObjectPlans(shape)
  <2>1. \A i \in 1 .. Len(shape) : plan[i] \in ObjectArgs(shape[i])
    BY <1>5 DEF ObjectPlans
  <2>2. \A i \in 1 .. Len(shape) : plan[i] \in Arg /\ plan[i].how # "shared"
    BY <2>1, ArgTypes
  <2>3. plan \in Seq(Arg) /\ Len(plan) = Len(shape)
    BY <1>4, <1>5, <2>2, PlanIsSeq DEF ObjectPlans
  <2> QED  BY <1>2, <1>3, <2>2, <2>3, BeginStep
<1>6. CASE plan \in SharedPlans(shape)
  <2>1. \A i \in 1 .. Len(shape) : plan[i] \in SharedArgs(shape[i])
    BY <1>6 DEF SharedPlans
  <2>2. \A i \in 1 .. Len(shape) :
          plan[i] \in Arg /\ \A y \in Obj : plan[i].slot = own(y) => Owned(y)
    BY <2>1, SharedArgTypes
  <2>3. plan \in Seq(Arg) /\ Len(plan) = Len(shape)
    BY <1>4, <1>6, <2>2, PlanIsSeq DEF SharedPlans
  <2> QED  BY <1>2, <1>3, <2>2, <2>3, BeginStep
<1> QED  BY <1>2, <1>5, <1>6

LEMMA ConstructFromOneStep ==
  ASSUME IInv, NEW o \in Obj, life[o] = "unborn", ConstructFromOne(o)
  PROVE  IInv'
<1> USE DEF IInv
<1>1. PICK shape \in Shapes[ClassOf[o]] : \E arg \in ObjectArgs(shape[1]) :
        Begin(o, [slots EXCEPT ![o] = Nulls(shape)], [i \in 1 .. Len(shape) |-> arg])
  BY DEF ConstructFromOne
<1>2. PICK arg, storages, plan :
        /\ arg \in ObjectArgs(shape[1])
        /\ storages = NullStorage(o, shape)
        /\ plan = [i \in 1 .. Len(shape) |-> arg]
        /\ Begin(o, storages, plan)
  BY <1>1 DEF Begin, NullStorage
<1>3. /\ storages \in [Obj -> Seq(Slot)]
      /\ \A x, y \in Obj : \A i \in 1 .. Len(storages[x]) :
           storages[x][i] = own(y) => Owned(y)
  BY <1>2, NullsOwnNothing
<1>4. Len(shape) \in Nat /\ arg \in Arg /\ arg.how # "shared"
  BY <1>2, ShapeLengths, ArgTypes
<1>5. plan \in [1 .. Len(shape) -> {arg}] /\ \A i \in 1 .. Len(shape) : plan[i] = arg
  BY <1>2
<1>6. plan \in Seq(Arg) /\ Len(plan) = Len(shape)
  BY <1>4, <1>5, PlanIsSeq
<1> QED  BY <1>2, <1>3, <1>4, <1>5, <1>6, BeginStep

(* Converting an argument into a slot, in a constructor or in setChild.    *)
LEMMA ConversionStep ==
  ASSUME IInv, NEW arg \in Arg, NEW s \in convert_arg(arg),
         \A y \in Obj : arg.how = "shared" /\ arg.slot = own(y) => Owned(y),
         NEW n \in Obj, NEW i,
         slots' = [StorageAfter(arg, s) EXCEPT ![n][i] = s],
         life' = LifeAfter(arg, s),
         handle' = handle,
         \A y \in Obj : IsArgument(y)' => IsArgument(y)
  PROVE  /\ life' \in [Obj -> Life]
         /\ slots' \in [Obj -> Seq(Slot)]
         /\ \A y \in Obj : life[y] # "unborn" => life'[y] = life[y]
         /\ OwnedIsAlive'
<1> USE DEF IInv
<1>1. /\ s \in Slot
      /\ \A y \in Obj : s = own(y) => Owned(y) \/ life'[y] = "heap"
      /\ life' \in [Obj -> Life]
      /\ \A y \in Obj : life[y] # "unborn" => life'[y] = life[y]
  BY ConvertedPointer
<1>2. PICK after : after = StorageAfter(arg, s)
  OBVIOUS
<1>3. /\ after \in [Obj -> Seq(Slot)]
      /\ \A x, y \in Obj : \A j \in 1 .. Len(after[x]) :
           after[x][j] = own(y) => \E z \in Obj : OwnedBy(z, y)
  BY <1>2, ConvertedStorage
<1>4. slots' = [after EXCEPT ![n] = [after[n] EXCEPT ![i] = s]]
  BY <1>2
<1>5. /\ [after[n] EXCEPT ![i] = s] \in Seq(Slot)
      /\ \A j \in 1 .. Len([after[n] EXCEPT ![i] = s]) :
           /\ j \in 1 .. Len(after[n])
           /\ [after[n] EXCEPT ![i] = s][j] \in {s, after[n][j]}
  BY <1>1, <1>3, SetSlot
<1>6. slots' \in [Obj -> Seq(Slot)]
  BY <1>3, <1>4, <1>5
<1>7. ASSUME NEW x \in Obj, NEW y \in Obj, OwnedBy(x, y)'
      PROVE  Owned(y) \/ life'[y] = "heap"
  <2>1. PICK j \in 1 .. Len(slots'[x]) : slots'[x][j] = own(y)
    BY <1>7 DEF OwnedBy
  <2>2. CASE x = n
    <3>1. slots'[x] = [after[n] EXCEPT ![i] = s]
      BY <1>3, <1>4, <2>2
    <3>2. j \in 1 .. Len(after[n]) /\ own(y) \in {s, after[n][j]}
      BY <1>5, <2>1, <3>1
    <3> QED  BY <1>1, <1>3, <3>2 DEF Owned
  <2>3. CASE x # n
    <3>1. slots'[x] = after[x]
      BY <1>3, <1>4, <2>3
    <3> QED  BY <1>3, <2>1, <3>1 DEF Owned
  <2> QED  BY <2>2, <2>3
<1>8. ASSUME NEW y \in Obj, Owned(y)' PROVE Owned(y) \/ life'[y] = "heap"
  <2>1. HeldByClient(y)' => HeldByClient(y)
    BY DEF HeldByClient
  <2> QED  BY <1>7, <1>8, <2>1 DEF Owned
<1>9. OwnedIsAlive'
  BY <1>1, <1>8, OwnedStep
<1> QED  BY <1>1, <1>6, <1>9

LEMMA ConvertNextStep ==
  ASSUME IInv, ConvertNext
  PROVE  IInv'
<1> USE DEF IInv
<1>1. PICK c \in ctor, i \in UNION {NextArgument(d) : d \in ctor} :
        /\ i \in NextArgument(c)
        /\ \E s \in convert_arg(c.plan[i]) :
             /\ slots' = [StorageAfter(c.plan[i], s) EXCEPT ![c.node][i] = s]
             /\ life' = LifeAfter(c.plan[i], s)
        /\ ctor' = {[c EXCEPT !.todo = @ \ {i}]}
        /\ UNCHANGED handle
  BY DEF ConvertNext
<1>2. PICK arg, s :
        /\ arg = c.plan[i] /\ s \in convert_arg(arg)
        /\ slots' = [StorageAfter(arg, s) EXCEPT ![c.node][i] = s]
        /\ life' = LifeAfter(arg, s)
        /\ ctor' = {[c EXCEPT !.todo = @ \ {i}]}
        /\ handle' = handle
  BY <1>1
<1>3. /\ ctor = {c} /\ c.node \in Obj /\ life[c.node] = "constructing"
      /\ c.plan \in Seq(Arg) /\ c.todo \subseteq 1 .. Len(c.plan) /\ c.into \subseteq Handle
  BY DEF TypeOK
<1>4. i \in 1 .. Len(c.plan)
  BY <1>1, <1>3 DEF NextArgument
<1>5. arg \in Arg
  BY <1>2, <1>3, <1>4, ElementOfSeq
<1>6. \A y \in Obj : arg.how = "shared" /\ arg.slot = own(y) => Owned(y)
  BY <1>2, <1>4 DEF Owned, IsArgument
<1>7. PICK d : d = [c EXCEPT !.todo = @ \ {i}]
  OBVIOUS
<1>8. d.plan = c.plan /\ d.node = c.node /\ d.into = c.into /\ d.todo \subseteq 1 .. Len(d.plan)
  BY <1>3, <1>7
<1>9. ctor' = {d}
  BY <1>2, <1>7
<1>10. \A y \in Obj : IsArgument(y)' => IsArgument(y)
  BY <1>8, <1>9 DEF IsArgument
<1>11. /\ life' \in [Obj -> Life] /\ slots' \in [Obj -> Seq(Slot)] /\ OwnedIsAlive'
       /\ \A y \in Obj : life[y] # "unborn" => life'[y] = life[y]
  BY <1>2, <1>3, <1>5, <1>6, <1>10, ConversionStep
<1>12. TypeOK'
  BY <1>2, <1>3, <1>8, <1>9, <1>11 DEF TypeOK
<1> QED  BY <1>11, <1>12

LEMMA ConstructorThrowsStep ==
  ASSUME IInv, ConstructorThrows
  PROVE  IInv'
<1> USE DEF IInv
<1>1. PICK c \in ctor : /\ life' = [life EXCEPT ![c.node] = "dead"]
                        /\ slots' = [slots EXCEPT ![c.node] = << >>]
                        /\ ctor' = {} /\ handle' = handle
  BY DEF ConstructorThrows
<1>2. c.node \in Obj /\ life[c.node] = "constructing"
  BY DEF TypeOK
<1>3. << >> \in Seq(Slot) /\ Len(<< >>) = 0
  BY EmptySeq
<1>4. TypeOK'
  BY <1>1, <1>2, <1>3 DEF TypeOK, Life
<1>5. ASSUME NEW x \in Obj, NEW y \in Obj, OwnedBy(x, y)' PROVE OwnedBy(x, y)
  <2>1. slots'[x] \in {slots[x], << >>}
    BY <1>1 DEF TypeOK
  <2> QED  BY <1>3, <1>5, <2>1 DEF OwnedBy
<1>6. \A y \in Obj : Owned(y)' => Owned(y)
  BY <1>1, <1>5 DEF Owned, HeldByClient, IsArgument
<1>7. \A y \in Obj : life[y] = "heap" => life'[y] = "heap"
  BY <1>1, <1>2 DEF TypeOK
<1> QED  BY <1>4, <1>6, <1>7, OwnedStep

LEMMA ConstructedStep ==
  ASSUME IInv, Constructed
  PROVE  IInv'
<1> USE DEF IInv
<1>1. PICK c \in ctor :
        /\ life' = [life EXCEPT ![c.node] = IF c.into = {} THEN "automatic" ELSE "heap"]
        /\ handle' = [h \in Handle |-> IF h \in c.into THEN own(c.node) ELSE handle[h]]
        /\ ctor' = {} /\ slots' = slots
  BY DEF Constructed
<1>2. c.node \in Obj /\ life[c.node] = "constructing" /\ c.into \subseteq Handle
  BY DEF TypeOK
<1>3. handle' \in [Handle -> Slot]
  BY <1>1, <1>2, PointerFacts DEF TypeOK
<1>4. TypeOK'
  BY <1>1, <1>2, <1>3 DEF TypeOK, Life
<1>5. ASSUME NEW y \in Obj, HeldByClient(y)' PROVE HeldByClient(y) \/ life'[y] = "heap"
  <2>1. PICK h \in Handle : handle'[h] = own(y)
    BY <1>5 DEF HeldByClient
  <2>2. CASE h \in c.into
    <3>1. y = c.node
      BY <1>1, <1>2, <2>1, <2>2, PointerFacts
    <3> QED  BY <1>1, <1>2, <2>2, <3>1 DEF TypeOK
  <2>3. CASE h \notin c.into
    BY <1>1, <2>1, <2>3 DEF HeldByClient
  <2> QED  BY <2>2, <2>3
<1>6. \A y \in Obj : Owned(y)' => Owned(y) \/ life'[y] = "heap"
  BY <1>1, <1>5 DEF Owned, OwnedBy, IsArgument
<1>7. \A y \in Obj : life[y] = "heap" => life'[y] = "heap"
  BY <1>1, <1>2 DEF TypeOK
<1> QED  BY <1>4, <1>6, <1>7, OwnedStep

LEMMA SetChildStep ==
  ASSUME IInv, ctor = {}, NEW n \in Obj, NEW i \in 1 .. Len(slots[n]), setChild(n, i)
  PROVE  IInv'
<1> USE DEF IInv
<1>1. PICK shape \in {s \in Shapes[ClassOf[n]] : Len(s) = Len(slots[n])} :
        \E arg \in ObjectArgs(shape[i]) \cup SharedArgs(shape[i]) :
        \E s \in convert_arg(arg) :
          /\ slots' = [StorageAfter(arg, s) EXCEPT ![n][i] = s]
          /\ life' = LifeAfter(arg, s)
  BY DEF setChild
<1>2. PICK arg, s :
        /\ arg \in ObjectArgs(shape[i]) \cup SharedArgs(shape[i])
        /\ s \in convert_arg(arg)
        /\ slots' = [StorageAfter(arg, s) EXCEPT ![n][i] = s]
        /\ life' = LifeAfter(arg, s)
  BY <1>1
<1>3. handle' = handle /\ ctor' = ctor
  BY DEF setChild
<1>4. arg \in Arg /\ \A y \in Obj : arg.how = "shared" /\ arg.slot = own(y) => Owned(y)
  BY <1>2, ArgTypes, SharedArgTypes
<1>5. \A y \in Obj : IsArgument(y)' => IsArgument(y)
  BY <1>3 DEF IsArgument
<1>6. life' \in [Obj -> Life] /\ slots' \in [Obj -> Seq(Slot)] /\ OwnedIsAlive'
  BY <1>2, <1>3, <1>4, <1>5, ConversionStep
<1> QED  BY <1>3, <1>6 DEF TypeOK

LEMMA AssignStep ==
  ASSUME IInv, ctor = {}, NEW n \in Obj, NEW m \in Obj, NEW how, Assign(n, m, how)
  PROVE  IInv'
<1> USE DEF IInv
<1>1. /\ m # n
      /\ slots' = [slots EXCEPT ![n] = slots[m],
                               ![m] = IF how = "rvalue" THEN MovedFrom(m) ELSE @]
      /\ life' = life /\ handle' = handle /\ ctor' = ctor
  BY DEF Assign
<1>2. \A x \in Obj : slots'[x] \in {slots[x], slots[m], MovedFrom(m)}
  BY <1>1 DEF TypeOK
<1>3. slots' \in [Obj -> Seq(Slot)]
  BY <1>1, MovedFromIsNull DEF TypeOK
<1>4. TypeOK'
  BY <1>1, <1>3 DEF TypeOK
<1>5. ASSUME NEW x \in Obj, NEW y \in Obj, OwnedBy(x, y)'
      PROVE  \E z \in Obj : OwnedBy(z, y)
  <2>1. slots'[x] # MovedFrom(m)
    BY <1>5, MovedFromIsNull, PointerFacts DEF OwnedBy
  <2> QED  BY <1>2, <1>5, <2>1 DEF OwnedBy
<1>6. \A y \in Obj : Owned(y)' => Owned(y)
  BY <1>1, <1>5 DEF Owned, HeldByClient, IsArgument
<1> QED  BY <1>1, <1>4, <1>6, OwnedStep

LEMMA ChildStorageStep ==
  ASSUME IInv, NEW h \in Handle, NEW n \in Obj, NEW i \in 1 .. Len(slots[n]),
         childStorage(h, n, i)
  PROVE  IInv'
<1> USE DEF IInv
<1>1. /\ handle' = [handle EXCEPT ![h] = slots[n][i]]
      /\ life' = life /\ slots' = slots /\ ctor' = ctor
  BY DEF childStorage
<1>2. slots[n][i] \in Slot
  BY SlotTypes
<1>3. TypeOK'
  BY <1>1, <1>2 DEF TypeOK
<1>4. ASSUME NEW y \in Obj, HeldByClient(y)' PROVE Owned(y)
  <2>1. PICK g \in Handle : handle'[g] = own(y)
    BY <1>4 DEF HeldByClient
  <2>2. handle'[g] \in {handle[g], slots[n][i]}
    BY <1>1 DEF TypeOK
  <2> QED  BY <2>1, <2>2 DEF Owned, HeldByClient, OwnedBy
<1>5. \A y \in Obj : Owned(y)' => Owned(y)
  BY <1>1, <1>4 DEF Owned, OwnedBy, IsArgument
<1> QED  BY <1>1, <1>3, <1>5, OwnedStep

LEMMA ResetStep ==
  ASSUME IInv, NEW h \in Handle, Reset(h)
  PROVE  IInv'
<1> USE DEF IInv
<1>1. /\ handle' = [handle EXCEPT ![h] = {}]
      /\ life' = life /\ slots' = slots /\ ctor' = ctor
  BY DEF Reset
<1>2. TypeOK'
  BY <1>1, NullIsSlot DEF TypeOK
<1>3. ASSUME NEW y \in Obj, HeldByClient(y)' PROVE HeldByClient(y)
  <2>1. PICK g \in Handle : handle'[g] = own(y)
    BY <1>3 DEF HeldByClient
  <2>2. handle'[g] \in {handle[g], {}}
    BY <1>1 DEF TypeOK
  <2> QED  BY <2>1, <2>2, PointerFacts DEF HeldByClient
<1>4. \A y \in Obj : Owned(y)' => Owned(y)
  BY <1>1, <1>3 DEF Owned, OwnedBy, IsArgument
<1> QED  BY <1>1, <1>2, <1>4, OwnedStep

(* An object dies: its storage is emptied, all other storages stay.        *)
LEMMA DeathStep ==
  ASSUME IInv, NEW o \in Obj, ~ Owned(o) \/ life[o] # "heap",
         \A c \in ctor : c.node # o,
         life' = [life EXCEPT ![o] = "dead"],
         slots' = [slots EXCEPT ![o] = << >>],
         handle' = handle, ctor' = ctor
  PROVE  IInv'
<1> USE DEF IInv
<1>1. << >> \in Seq(Slot) /\ Len(<< >>) = 0
  BY EmptySeq
<1>2. TypeOK'
  BY <1>1 DEF TypeOK, Life
<1>3. ASSUME NEW x \in Obj, NEW y \in Obj, OwnedBy(x, y)' PROVE OwnedBy(x, y)
  <2>1. slots'[x] \in {slots[x], << >>}
    BY DEF TypeOK
  <2> QED  BY <1>1, <1>3, <2>1 DEF OwnedBy
<1>4. \A y \in Obj : Owned(y)' => Owned(y)
  BY <1>3 DEF Owned, HeldByClient, IsArgument
<1>5. \A y \in Obj : Owned(y) /\ life[y] = "heap" => life'[y] = "heap"
  BY DEF TypeOK
<1> QED  BY <1>2, <1>4, <1>5, OwnedStep

LEMMA EndLifeStep ==
  ASSUME IInv, ctor = {}, NEW o \in Obj, EndLife(o)
  PROVE  IInv'
BY DeathStep DEF EndLife

LEMMA ReclaimStep ==
  ASSUME IInv, NEW o \in Obj, Reclaim(o)
  PROVE  IInv'
<1>1. \A c \in ctor : c.node # o
  BY DEF Reclaim, Doomed, IInv, TypeOK
<1> QED  BY <1>1, DeathStep DEF Reclaim, Doomed

-----------------------------------------------------------------------------
LEMMA InitIInv == Init => IInv
<1> SUFFICES ASSUME Init PROVE IInv
  OBVIOUS
<1>1. << >> \in Seq(Slot) /\ Len(<< >>) = 0
  BY EmptySeq
<1>2. TypeOK
  <2>1. life \in [Obj -> Life]
    BY DEF Init, Life
  <2> QED  BY <1>1, <2>1, NullIsSlot DEF Init, TypeOK
<1>3. ASSUME NEW o \in Obj PROVE ~ Owned(o)
  <2>1. ~ HeldByClient(o)
    BY PointerFacts DEF Init, HeldByClient
  <2>2. ~ IsArgument(o)
    BY DEF Init, IsArgument
  <2>3. ASSUME NEW x \in Obj PROVE ~ OwnedBy(x, o)
    BY <1>1 DEF Init, OwnedBy
  <2> QED  BY <2>1, <2>2, <2>3 DEF Owned
<1> QED  BY <1>2, <1>3 DEF IInv, OwnedIsAlive

LEMMA ClientIInv ==
  ASSUME IInv, ClientStep
  PROVE  IInv'
<1>1. ctor = {}
  BY DEF ClientStep, Idle
<1>2. CASE \E o \in Obj : Construct(o)
  BY <1>2, ConstructEmptyStep, ConstructFromStorageStep, ConstructFromArgsStep,
     ConstructFromOneStep DEF Construct
<1>3. CASE \E o \in Obj : EndLife(o)
  BY <1>1, <1>3, EndLifeStep
<1>4. CASE \E n \in Obj : \E i \in 1 .. Len(slots[n]) : setChild(n, i)
  BY <1>1, <1>4, SetChildStep
<1>5. CASE \E n \in Obj : \E i \in 1 .. Len(slots[n]) : \E h \in Handle : childStorage(h, n, i)
  BY <1>5, ChildStorageStep
<1>6. CASE \E n, m \in Obj : \E how \in {"const", "rvalue"} : Assign(n, m, how)
  BY <1>1, <1>6, AssignStep
<1>7. CASE \E h \in Handle : Reset(h)
  BY <1>7, ResetStep
<1> QED  BY <1>2, <1>3, <1>4, <1>5, <1>6, <1>7 DEF ClientStep

LEMMA NextIInv == IInv /\ [Next]_vars => IInv'
<1> SUFFICES ASSUME IInv, [Next]_vars PROVE IInv'
  OBVIOUS
<1>1. CASE ClientStep
  BY <1>1, ClientIInv
<1>2. CASE ConvertNext
  BY <1>2, ConvertNextStep
<1>3. CASE ConstructorThrows
  BY <1>3, ConstructorThrowsStep
<1>4. CASE Constructed
  BY <1>4, ConstructedStep
<1>5. CASE \E o \in Obj : Reclaim(o)
  BY <1>5, ReclaimStep
<1>6. CASE UNCHANGED vars
  BY <1>6 DEF vars, IInv, TypeOK, OwnedIsAlive, Owned, HeldByClient, IsArgument, OwnedBy
<1> QED  BY <1>1, <1>2, <1>3, <1>4, <1>5, <1>6 DEF Next

(* The state keeps its types, for all sets of objects and all clients.     *)
THEOREM StorageTypeCorrect == Spec => []TypeOK
<1>1. IInv => TypeOK
  BY DEF IInv
<1> QED  BY <1>1, InitIInv, NextIInv, PTL DEF Spec

(* An owning pointer, in a storage, in the client's hands or on its way    *)
(* into a constructor, points to a heap object that has not been           *)
(* destroyed.                                                              *)
THEOREM OwnersKeepAlive == Spec => []OwnedIsAlive
<1>1. IInv => OwnedIsAlive
  BY DEF IInv
<1> QED  BY <1>1, InitIInv, NextIInv, PTL DEF Spec

-----------------------------------------------------------------------------
(* Where pointers may lead.  A class only names classes nested less deeply *)
(* than itself, so every pointer leads to a smaller Level; the pointers    *)
(* that own nothing lead to objects whose lives the client ends, as far as *)
(* it looks after them.  lives is the lives of the objects, so that a      *)
(* lemma can speak of them before and after a step.                        *)
Lawful(s, lives) ==
  \A p \in s : p.to \in Careful => p.owning \/ lives[p.to] = "automatic"

Storable(s, class, lives) ==
  /\ \A p \in s : Level[ClassOf[p.to]] < Level[class]
  /\ Lawful(s, lives)

Acceptable(arg, class, lives) ==
  IF arg.how = "shared"
    THEN Storable(arg.slot, class, lives)
    ELSE /\ Level[ClassOf[arg.obj]] < Level[class]
         /\ arg.obj \in Careful /\ arg.how = "lvalue" => lives[arg.obj] = "automatic"

StoragesLawful(storages, lives) ==
  \A x \in Obj : \A i \in 1 .. Len(storages[x]) :
    Storable(storages[x][i], ClassOf[x], lives)

HandlesLawful(handles, lives) == \A h \in Handle : Lawful(handles[h], lives)

CallsLawful(calls, lives) ==
  \A c \in calls : \A i \in 1 .. Len(c.plan) :
    Acceptable(c.plan[i], ClassOf[c.node], lives)

(* Only living objects and the one under construction store anything.      *)
EmptyUnlessAlive(storages, lives) ==
  \A x \in Obj : lives[x] \in {"unborn", "dead"} => storages[x] = << >>

UnderConstruction(calls, lives) ==
  \A x \in Obj : lives[x] = "constructing" => \E c \in calls : c.node = x

(* Finitely many objects exist, so their levels have a bound.              *)
LevelsBounded(lives) ==
  \E b \in Nat : \A x \in Obj : lives[x] \notin {"unborn", "dead"} => Level[ClassOf[x]] <= b

LInv ==
  /\ StoragesLawful(slots, life)
  /\ HandlesLawful(handle, life)
  /\ CallsLawful(ctor, life)
  /\ EmptyUnlessAlive(slots, life)
  /\ UnderConstruction(ctor, life)
  /\ LevelsBounded(life)

LEMMA Levels ==
  ASSUME NEW x \in Obj
  PROVE  ClassOf[x] \in Class /\ Level[ClassOf[x]] \in Nat
BY StorageAssumption

LEMMA SlotPointers ==
  ASSUME NEW s \in Slot, NEW p \in s
  PROVE  p \in Pointer /\ p.to \in Obj /\ p.owning \in BOOLEAN /\ s = {p}
BY DEF Slot, Pointer

(* What is lawful stays so as long as no automatic object dies.            *)
Keeps(lives, later) ==
  \A x \in Obj : lives[x] = "automatic" => later[x] = "automatic"

LEMMA StillLawful ==
  ASSUME NEW s \in Slot, NEW lives, NEW later, Keeps(lives, later), Lawful(s, lives)
  PROVE  Lawful(s, later)
BY SlotPointers DEF Keeps, Lawful

LEMMA StillStorable ==
  ASSUME NEW s \in Slot, NEW class, NEW lives, NEW later, Keeps(lives, later),
         Storable(s, class, lives)
  PROVE  Storable(s, class, later)
BY StillLawful DEF Storable

LEMMA StillAcceptable ==
  ASSUME NEW arg \in Arg, NEW class, NEW lives, NEW later, Keeps(lives, later),
         Acceptable(arg, class, lives)
  PROVE  Acceptable(arg, class, later)
<1>1. CASE arg.how = "shared"
  <2>1. arg.slot \in Slot
    BY <1>1 DEF Arg
  <2> QED  BY <1>1, <2>1, StillStorable DEF Acceptable
<1>2. CASE arg.how # "shared"
  <2>1. arg.obj \in Obj
    BY <1>2 DEF Arg
  <2> QED  BY <1>2, <2>1 DEF Acceptable, Keeps
<1> QED  BY <1>1, <1>2

LEMMA StoragesStayLawful ==
  ASSUME NEW storages \in [Obj -> Seq(Slot)], NEW lives, NEW later, Keeps(lives, later),
         StoragesLawful(storages, lives)
  PROVE  StoragesLawful(storages, later)
<1>1. ASSUME NEW x \in Obj, NEW i \in 1 .. Len(storages[x])
      PROVE  Storable(storages[x][i], ClassOf[x], later)
  <2>1. storages[x][i] \in Slot
    BY ElementOfSeq
  <2>2. Storable(storages[x][i], ClassOf[x], lives)
    BY DEF StoragesLawful
  <2> QED  BY <2>1, <2>2, StillStorable
<1> QED  BY <1>1 DEF StoragesLawful

LEMMA HandlesStayLawful ==
  ASSUME NEW handles \in [Handle -> Slot], NEW lives, NEW later, Keeps(lives, later),
         HandlesLawful(handles, lives)
  PROVE  HandlesLawful(handles, later)
BY StillLawful DEF HandlesLawful

LEMMA CallsStayLawful ==
  ASSUME NEW calls, \A c \in calls : c.plan \in Seq(Arg),
         NEW lives, NEW later, Keeps(lives, later), CallsLawful(calls, lives)
  PROVE  CallsLawful(calls, later)
<1>1. ASSUME NEW c \in calls, NEW i \in 1 .. Len(c.plan)
      PROVE  Acceptable(c.plan[i], ClassOf[c.node], later)
  <2>1. c.plan[i] \in Arg
    BY ElementOfSeq
  <2>2. Acceptable(c.plan[i], ClassOf[c.node], lives)
    BY DEF CallsLawful
  <2> QED  BY <2>1, <2>2, StillAcceptable
<1> QED  BY <1>1 DEF CallsLawful

(* A step brings at most one object into the world.                        *)
LEMMA LevelsStayBounded ==
  ASSUME NEW lives, NEW later, NEW z \in Obj, LevelsBounded(lives),
         \A x \in Obj : x # z /\ lives[x] \in {"unborn", "dead"}
                       => later[x] \in {"unborn", "dead"}
  PROVE  LevelsBounded(later)
<1>1. PICK b \in Nat : \A x \in Obj : lives[x] \notin {"unborn", "dead"} => Level[ClassOf[x]] <= b
  BY DEF LevelsBounded
<1>2. PICK m \in Nat : m = Level[ClassOf[z]]
  BY Levels
<1>3. \A x \in Obj : later[x] \notin {"unborn", "dead"} => Level[ClassOf[x]] <= b + m
  BY <1>1, <1>2, Levels
<1> QED  BY <1>3 DEF LevelsBounded

LEMMA NullIsStorable ==
  ASSUME NEW class, NEW lives
  PROVE  Storable({}, class, lives)
BY DEF Storable, Lawful

(* Any client may pass the arguments the code takes to a constructor or to *)
(* setChild.                                                               *)
LEMMA ArgumentsAcceptable ==
  ASSUME IInv, LInv, NEW o \in Obj, NEW shape \in Shapes[ClassOf[o]],
         NEW i \in 1 .. Len(shape), NEW arg \in ObjectArgs(shape[i]) \cup SharedArgs(shape[i])
  PROVE  Acceptable(arg, ClassOf[o], life)
<1>1. Level[shape[i]] < Level[ClassOf[o]]
  BY StorageAssumption, Levels
<1>2. CASE arg \in ObjectArgs(shape[i])
  <2>1. arg.how # "shared" /\ ClassOf[arg.obj] = shape[i]
    BY <1>2 DEF ObjectArgs, Lendable
  <2>2. arg.obj \in Careful /\ arg.how = "lvalue" => life[arg.obj] = "automatic"
    BY <1>2 DEF ObjectArgs, Lendable
  <2> QED  BY <1>1, <2>1, <2>2 DEF Acceptable
<1>3. CASE arg \in SharedArgs(shape[i])
  <2>1. arg.how = "shared"
    BY <1>3 DEF SharedArgs
  <2>2. \A p \in arg.slot : ClassOf[p.to] = shape[i]
    BY <1>3 DEF SharedArgs
  <2>3. arg.slot \in {handle[h] : h \in Handle} \cup UNION {SlotsOf(x) : x \in Living}
    BY <1>3 DEF SharedArgs
  <2>4. Lawful(arg.slot, life)
    <3>1. CASE arg.slot \in {handle[h] : h \in Handle}
      BY <3>1 DEF LInv, HandlesLawful
    <3>2. CASE arg.slot \in UNION {SlotsOf(x) : x \in Living}
      <4>1. PICK x \in Living : arg.slot \in SlotsOf(x)
        BY <3>2
      <4>2. PICK j \in 1 .. Len(slots[x]) : arg.slot = slots[x][j]
        BY <4>1 DEF SlotsOf
      <4> QED  BY <4>2 DEF LInv, StoragesLawful, Storable, Living
    <3> QED  BY <2>3, <3>1, <3>2
  <2> QED  BY <1>1, <2>1, <2>2, <2>4 DEF Acceptable, Storable
<1> QED  BY <1>2, <1>3

-----------------------------------------------------------------------------
(* The steps keep LInv.                                                    *)

LEMMA BeginLawful ==
  ASSUME IInv, LInv, ctor = {}, NEW o \in Obj, life[o] = "unborn",
         NEW storages \in [Obj -> Seq(Slot)], StoragesLawful(storages, life),
         \A x \in Obj \ {o} : life[x] \in {"unborn", "dead"} => storages[x] = << >>,
         NEW plan \in Seq(Arg),
         \A i \in 1 .. Len(plan) : Acceptable(plan[i], ClassOf[o], life),
         Begin(o, storages, plan)
  PROVE  LInv'
<1>1. PICK into \in {{}} \cup {{h} : h \in Handle} :
        ctor' = {[node |-> o, plan |-> plan, todo |-> 1 .. Len(plan), into |-> into]}
  BY DEF Begin
<1>2. /\ life' = [life EXCEPT ![o] = "constructing"]
      /\ slots' = storages
      /\ handle' = handle
  BY DEF Begin
<1>3. life \in [Obj -> Life] /\ handle \in [Handle -> Slot]
  BY DEF IInv, TypeOK
<1>4. /\ Keeps(life, life')
      /\ life'[o] = "constructing"
      /\ \A x \in Obj \ {o} : life'[x] = life[x]
  BY <1>2, <1>3 DEF Keeps
<1>5. StoragesLawful(slots', life')
  BY <1>2, <1>4, StoragesStayLawful
<1>6. HandlesLawful(handle', life')
  BY <1>2, <1>3, <1>4, HandlesStayLawful DEF LInv
<1>7. CallsLawful(ctor', life')
  <2>1. \A i \in 1 .. Len(plan) : Acceptable(plan[i], ClassOf[o], life')
    BY <1>4, ElementOfSeq, StillAcceptable
  <2> QED  BY <1>1, <2>1 DEF CallsLawful
<1>8. EmptyUnlessAlive(slots', life')
  BY <1>2, <1>4 DEF EmptyUnlessAlive
<1>9. UnderConstruction(ctor', life')
  <2>1. \A x \in Obj : life[x] # "constructing"
    BY DEF LInv, UnderConstruction
  <2> QED  BY <1>1, <1>4, <2>1 DEF UnderConstruction
<1>10. LevelsBounded(life')
  <2>1. \A x \in Obj : x # o /\ life[x] \in {"unborn", "dead"}
                       => life'[x] \in {"unborn", "dead"}
    BY <1>4
  <2> QED  BY <2>1, LevelsStayBounded DEF LInv
<1> QED  BY <1>5, <1>6, <1>7, <1>8, <1>9, <1>10 DEF LInv

LEMMA NullsLawful ==
  ASSUME IInv, LInv, NEW o \in Obj, life[o] = "unborn",
         NEW shape \in Shapes[ClassOf[o]],
         NEW storages, storages = NullStorage(o, shape)
  PROVE  /\ StoragesLawful(storages, life)
         /\ \A x \in Obj \ {o} : life[x] \in {"unborn", "dead"} => storages[x] = << >>
<1>1. slots \in [Obj -> Seq(Slot)]
  BY DEF IInv, TypeOK
<1>2. \A x \in Obj \ {o} : storages[x] = slots[x]
  BY <1>1 DEF NullStorage
<1>3. storages[o] = Nulls(shape)
  BY <1>1 DEF NullStorage
<1>4. \A i \in 1 .. Len(storages[o]) : storages[o][i] = {}
  BY <1>3, ShapeLengths, NullsAreSlots DEF Nulls
<1>5. StoragesLawful(storages, life)
  <2>1. ASSUME NEW x \in Obj, NEW i \in 1 .. Len(storages[x])
        PROVE  Storable(storages[x][i], ClassOf[x], life)
    <3>1. CASE x = o
      <4>1. storages[x][i] = {}
        BY <1>4, <3>1
      <4> QED  BY <4>1, NullIsStorable
    <3>2. CASE x # o
      BY <1>2, <3>2 DEF LInv, StoragesLawful
    <3> QED  BY <3>1, <3>2
  <2> QED  BY <2>1 DEF StoragesLawful
<1> QED  BY <1>2, <1>5 DEF LInv, EmptyUnlessAlive

LEMMA ConstructEmptyLawful ==
  ASSUME IInv, LInv, ctor = {}, NEW o \in Obj, life[o] = "unborn", ConstructEmpty(o)
  PROVE  LInv'
<1>0. PICK shape \in Shapes[ClassOf[o]] : Begin(o, NullStorage(o, shape), << >>)
  BY DEF ConstructEmpty, Begin, NullStorage
<1>1. PICK storages : storages = NullStorage(o, shape) /\ Begin(o, storages, << >>)
  BY <1>0
<1>2. storages \in [Obj -> Seq(Slot)]
  BY <1>1, NullsOwnNothing
<1> QED  BY <1>1, <1>2, NullsLawful, EmptyPlan, BeginLawful

(* An object of the same class may store the same pointers, or those that  *)
(* are left after a move.                                                  *)
LEMMA MovedLawful ==
  ASSUME IInv, LInv, NEW n \in Obj, NEW m \in Obj, ClassOf[m] = ClassOf[n],
         NEW storages, \A x \in Obj \ {n, m} : storages[x] = slots[x],
         storages[n] \in {slots[m], slots[n], MovedFrom(n)},
         storages[m] \in {slots[m], MovedFrom(m)}
  PROVE  StoragesLawful(storages, life)
<1>1. TypeOK
  BY DEF IInv
<1>2. ASSUME NEW x \in Obj, NEW i \in 1 .. Len(MovedFrom(x))
      PROVE  Storable(MovedFrom(x)[i], ClassOf[x], life)
  <2>1. MovedFrom(x)[i] = {}
    BY <1>1, MovedFromIsNull
  <2> QED  BY <2>1, NullIsStorable
<1>3. ASSUME NEW x \in Obj, NEW i \in 1 .. Len(slots[x])
      PROVE  Storable(slots[x][i], ClassOf[x], life)
  BY DEF LInv, StoragesLawful
<1>4. ASSUME NEW x \in Obj, NEW i \in 1 .. Len(storages[x])
      PROVE  Storable(storages[x][i], ClassOf[x], life)
  <2>1. CASE storages[x] = slots[x]
    BY <1>3, <2>1
  <2>2. CASE storages[x] = MovedFrom(x)
    BY <1>2, <2>2
  <2>3. CASE x = n /\ storages[x] = slots[m]
    <3>1. i \in 1 .. Len(slots[m]) /\ storages[x][i] = slots[m][i]
      BY <2>3
    <3>2. Storable(slots[m][i], ClassOf[m], life)
      BY <1>3, <3>1
    <3> QED  BY <2>3, <3>1, <3>2
  <2> QED  BY <2>1, <2>2, <2>3
<1> QED  BY <1>4 DEF StoragesLawful

LEMMA ConstructFromStorageLawful ==
  ASSUME IInv, LInv, ctor = {}, NEW o \in Obj, life[o] = "unborn", ConstructFromStorage(o)
  PROVE  LInv'
<1>1. PICK m \in Living, how \in {"const", "rvalue"} :
        /\ ClassOf[m] = ClassOf[o]
        /\ Begin(o, [slots EXCEPT ![o] = slots[m],
                                  ![m] = IF how = "rvalue" THEN MovedFrom(m) ELSE @],
                 << >>)
  BY DEF ConstructFromStorage
<1>2. /\ m \in Obj /\ m # o /\ life[m] \notin {"unborn", "dead"}
      /\ slots \in [Obj -> Seq(Slot)] /\ TypeOK
  BY DEF Living, IInv, TypeOK
<1>3. PICK storages :
        /\ storages = [slots EXCEPT ![o] = slots[m],
                                    ![m] = IF how = "rvalue" THEN MovedFrom(m) ELSE @]
        /\ Begin(o, storages, << >>)
  BY <1>1 DEF Begin
<1>4. /\ storages \in [Obj -> Seq(Slot)]
      /\ \A x \in Obj \ {o, m} : storages[x] = slots[x]
      /\ storages[o] = slots[m]
      /\ storages[m] \in {slots[m], MovedFrom(m)}
  BY <1>2, <1>3, MovedFromIsNull
<1>5. StoragesLawful(storages, life)
  BY <1>1, <1>2, <1>4, MovedLawful
<1>6. \A x \in Obj \ {o} : life[x] \in {"unborn", "dead"} => storages[x] = << >>
  BY <1>2, <1>4 DEF LInv, EmptyUnlessAlive
<1> QED  BY <1>3, <1>4, <1>5, <1>6, EmptyPlan, BeginLawful

LEMMA ConstructFromArgsLawful ==
  ASSUME IInv, LInv, ctor = {}, NEW o \in Obj, life[o] = "unborn", ConstructFromArgs(o)
  PROVE  LInv'
<1>0. PICK shape \in Shapes[ClassOf[o]] :
        \E plan \in ObjectPlans(shape) \cup SharedPlans(shape) : Begin(o, NullStorage(o, shape), plan)
  BY DEF ConstructFromArgs, Begin, NullStorage
<1>1. PICK plan, storages :
        /\ plan \in ObjectPlans(shape) \cup SharedPlans(shape)
        /\ storages = NullStorage(o, shape)
        /\ Begin(o, storages, plan)
  BY <1>0
<1>2. storages \in [Obj -> Seq(Slot)]
  BY <1>1, NullsOwnNothing
<1>3. Len(shape) \in Nat /\ TypeOK
  BY ShapeLengths DEF IInv
<1>4. \A i \in 1 .. Len(shape) : plan[i] \in ObjectArgs(shape[i]) \cup SharedArgs(shape[i])
  BY <1>1 DEF ObjectPlans, SharedPlans
<1>5. \A i \in 1 .. Len(shape) : plan[i] \in Arg
  BY <1>3, <1>4, ArgTypes, SharedArgTypes
<1>6. PICK T : plan \in [1 .. Len(shape) -> T]
  BY <1>1 DEF ObjectPlans, SharedPlans
<1>7. plan \in Seq(Arg) /\ Len(plan) = Len(shape)
  BY <1>3, <1>5, <1>6, PlanIsSeq
<1>8. \A i \in 1 .. Len(plan) : Acceptable(plan[i], ClassOf[o], life)
  BY <1>4, <1>7, ArgumentsAcceptable
<1> QED  BY <1>1, <1>2, <1>7, <1>8, NullsLawful, BeginLawful

LEMMA ConstructFromOneLawful ==
  ASSUME IInv, LInv, ctor = {}, NEW o \in Obj, life[o] = "unborn", ConstructFromOne(o)
  PROVE  LInv'
<1>0. PICK shape \in Shapes[ClassOf[o]] :
        /\ shape # << >>
        /\ \E arg \in ObjectArgs(shape[1]) :
             Begin(o, [slots EXCEPT ![o] = Nulls(shape)], [i \in 1 .. Len(shape) |-> arg])
  BY DEF ConstructFromOne
<1>1. PICK arg, storages, plan :
        /\ shape # << >>
        /\ arg \in ObjectArgs(shape[1])
        /\ storages = NullStorage(o, shape)
        /\ plan = [i \in 1 .. Len(shape) |-> arg]
        /\ Begin(o, storages, plan)
  BY <1>0 DEF Begin, NullStorage
<1>2. storages \in [Obj -> Seq(Slot)]
  BY <1>1, NullsOwnNothing
<1>3. Len(shape) \in Nat /\ TypeOK
  BY ShapeLengths DEF IInv
<1>4. 1 \in 1 .. Len(shape)
  BY <1>1, EmptySeq, StorageAssumption
<1>5. arg \in Arg
  BY <1>1, <1>3, ArgTypes
<1>6. plan \in [1 .. Len(shape) -> {arg}] /\ \A i \in 1 .. Len(shape) : plan[i] = arg
  BY <1>1
<1>7. plan \in Seq(Arg) /\ Len(plan) = Len(shape)
  BY <1>3, <1>5, <1>6, PlanIsSeq
<1>8. Acceptable(arg, ClassOf[o], life)
  BY <1>1, <1>4, ArgumentsAcceptable
<1>9. \A i \in 1 .. Len(plan) : Acceptable(plan[i], ClassOf[o], life)
  BY <1>6, <1>7, <1>8
<1> QED  BY <1>1, <1>2, <1>7, <1>9, NullsLawful, BeginLawful

(* The pointer an acceptable argument is converted to may be stored, and   *)
(* what the conversion does to the storages is lawful.                     *)
LEMMA ConvertedLawful ==
  ASSUME IInv, LInv, NEW arg \in Arg, NEW s \in convert_arg(arg),
         NEW class, Acceptable(arg, class, life)
  PROVE  /\ Keeps(life, LifeAfter(arg, s))
         /\ Storable(s, class, LifeAfter(arg, s))
         /\ LevelsBounded(LifeAfter(arg, s))
         /\ StoragesLawful(StorageAfter(arg, s), life)
         /\ EmptyUnlessAlive(StorageAfter(arg, s), LifeAfter(arg, s))
<1> DEFINE L == LifeAfter(arg, s)
           A == StorageAfter(arg, s)
<1>0. TypeOK
  BY DEF IInv
<1>1. /\ s \in Slot
      /\ L \in [Obj -> Life]
      /\ \A o \in Obj : life[o] # "unborn" => L[o] = life[o]
  BY <1>0, ConvertedPointer
<1>2. Keeps(life, L)
  BY <1>1 DEF Keeps
<1>3. CASE MakesObject(arg)
  <2>0. arg.obj \in Obj /\ arg.how \in {"const", "rvalue"}
    BY <1>3 DEF MakesObject, Arg
  <2>1. PICK y \in Obj : s = own(y) /\ life[y] = "unborn" /\ ClassOf[y] = ClassOf[arg.obj]
    <3>1. convert_arg(arg) =
            {own(x) : x \in {z \in Obj : life[z] = "unborn" /\ ClassOf[z] = ClassOf[arg.obj]}}
      BY <1>3 DEF convert_arg, MakesObject
    <3> QED  BY <3>1
  <2>2. \A x \in Obj : s = own(x) <=> x = y
    BY <2>1, PointerFacts
  <2>3. L = [x \in Obj |-> IF x = y THEN "heap" ELSE life[x]]
    BY <1>3, <2>2 DEF LifeAfter
  <2>4. A = [x \in Obj |-> CASE x = y -> slots[arg.obj]
                             [] arg.how = "rvalue" /\ x = arg.obj -> MovedFrom(x)
                             [] OTHER -> slots[x]]
    BY <1>3, <2>2 DEF StorageAfter
  <2>5. Storable(s, class, L)
    <3>1. Level[ClassOf[arg.obj]] < Level[class]
      BY <2>0 DEF Acceptable
    <3> QED  BY <2>1, <3>1 DEF Storable, Lawful, own
  <2>6. LevelsBounded(L)
    <3>1. \A x \in Obj : x # y /\ life[x] \in {"unborn", "dead"}
                       => L[x] \in {"unborn", "dead"}
      BY <2>3
    <3> HIDE DEF L
    <3> QED  BY <3>1, LevelsStayBounded DEF LInv
  <2>7. /\ \A x \in Obj \ {y, arg.obj} : A[x] = slots[x]
        /\ A[arg.obj] \in {slots[arg.obj], MovedFrom(arg.obj)}
        /\ A[y] \in {slots[arg.obj], MovedFrom(y)}
    BY <2>0, <2>4
  <2>8. StoragesLawful(A, life)
    <3> HIDE DEF A
    <3>1. A[y] \in {slots[arg.obj], slots[y], MovedFrom(y)}
      BY <2>7
    <3> QED  BY <2>0, <2>1, <2>7, <3>1, MovedLawful
  <2>9. ASSUME NEW x \in Obj, L[x] \in {"unborn", "dead"} PROVE A[x] = << >>
    <3>1. x # y /\ life[x] \in {"unborn", "dead"}
      BY <2>3, <2>9
    <3>2. slots[x] = << >>
      BY <3>1 DEF LInv, EmptyUnlessAlive
    <3>3. A[x] \in {slots[x], MovedFrom(x)}
      BY <2>4, <3>1
    <3>4. MovedFrom(x) = << >>
      BY <3>2, EmptySeq DEF MovedFrom
    <3> QED  BY <3>2, <3>3, <3>4
  <2> QED  BY <1>2, <2>5, <2>6, <2>8, <2>9 DEF EmptyUnlessAlive
<1>4. CASE ~ MakesObject(arg)
  <2>0. arg.how \in {"lvalue", "shared"}
    BY <1>4 DEF Arg, MakesObject
  <2>1. L = life
    BY <1>0, <1>4 DEF LifeAfter, TypeOK
  <2>2. A = slots
    <3>1. A = [x \in Obj |-> slots[x]]
      BY <1>4, <2>0 DEF StorageAfter
    <3> QED  BY <1>0, <3>1 DEF TypeOK
  <2>3. CASE arg.how = "lvalue"
    <3>1. arg.obj \in Obj /\ s = stackobject_to_shared_ptr(arg.obj)
      BY <1>4, <2>3 DEF Arg, convert_arg
    <3>2. /\ Level[ClassOf[arg.obj]] < Level[class]
          /\ arg.obj \in Careful => life[arg.obj] = "automatic"
      BY <2>3 DEF Acceptable
    <3>3. Storable(s, class, life)
      BY <3>1, <3>2 DEF Storable, Lawful, stackobject_to_shared_ptr
    <3> QED  BY <1>2, <2>1, <2>2, <3>3 DEF LInv
  <2>4. CASE arg.how = "shared"
    <3>1. s = arg.slot
      BY <1>4, <2>4 DEF convert_arg
    <3>2. Storable(s, class, life)
      BY <2>4, <3>1 DEF Acceptable
    <3> QED  BY <1>2, <2>1, <2>2, <3>2 DEF LInv
  <2> QED  BY <2>0, <2>3, <2>4
<1> QED  BY <1>3, <1>4

LEMMA ConversionLawful ==
  ASSUME IInv, LInv, NEW arg \in Arg, NEW s \in convert_arg(arg),
         NEW n \in Obj, life[n] \notin {"unborn", "dead"}, NEW i,
         Acceptable(arg, ClassOf[n], life),
         slots' = [StorageAfter(arg, s) EXCEPT ![n][i] = s],
         life' = LifeAfter(arg, s)
  PROVE  /\ Keeps(life, life')
         /\ LevelsBounded(life')
         /\ StoragesLawful(slots', life')
         /\ EmptyUnlessAlive(slots', life')
         /\ \A x \in Obj : life'[x] = "constructing" => life[x] = "constructing"
<1>0. TypeOK
  BY DEF IInv
<1>1. /\ s \in Slot
      /\ life' \in [Obj -> Life]
      /\ \A o \in Obj : life[o] # "unborn" => life'[o] = life[o]
  BY <1>0, ConvertedPointer
<1>2. PICK after : after = StorageAfter(arg, s)
  OBVIOUS
<1>3. after \in [Obj -> Seq(Slot)]
  BY <1>0, <1>2, ConvertedStorage
<1>4. /\ Keeps(life, life')
      /\ Storable(s, ClassOf[n], life')
      /\ LevelsBounded(life')
      /\ StoragesLawful(after, life)
      /\ EmptyUnlessAlive(after, life')
  BY <1>2, ConvertedLawful
<1>5. StoragesLawful(after, life')
  BY <1>3, <1>4, StoragesStayLawful
<1>6. slots' = [after EXCEPT ![n] = [after[n] EXCEPT ![i] = s]]
  BY <1>2
<1>7. \A j \in 1 .. Len([after[n] EXCEPT ![i] = s]) :
        /\ j \in 1 .. Len(after[n])
        /\ [after[n] EXCEPT ![i] = s][j] \in {s, after[n][j]}
  BY <1>1, <1>3, SetSlot
<1>8. \A x \in Obj \ {n} : slots'[x] = after[x]
  BY <1>3, <1>6
<1>9. ASSUME NEW x \in Obj, NEW j \in 1 .. Len(slots'[x])
      PROVE  Storable(slots'[x][j], ClassOf[x], life')
  <2>1. CASE x = n
    <3>1. slots'[x] = [after[n] EXCEPT ![i] = s]
      BY <1>3, <1>6, <2>1
    <3>2. j \in 1 .. Len(after[n]) /\ slots'[x][j] \in {s, after[n][j]}
      BY <1>7, <3>1
    <3>3. Storable(after[n][j], ClassOf[n], life')
      BY <1>5, <3>2 DEF StoragesLawful
    <3> QED  BY <1>4, <2>1, <3>2, <3>3
  <2>2. CASE x # n
    BY <1>5, <1>8, <2>2 DEF StoragesLawful
  <2> QED  BY <2>1, <2>2
<1>10. EmptyUnlessAlive(slots', life')
  BY <1>1, <1>4, <1>8 DEF EmptyUnlessAlive
<1>11. \A x \in Obj : life'[x] = "constructing" => life[x] = "constructing"
  <2>1. \A x \in Obj : life'[x] \in {life[x], "heap"}
    BY <1>0 DEF LifeAfter, TypeOK
  <2> QED  BY <2>1
<1> QED  BY <1>4, <1>9, <1>10, <1>11 DEF StoragesLawful

LEMMA ConvertNextLawful ==
  ASSUME IInv, LInv, ConvertNext
  PROVE  LInv'
<1>1. PICK c \in ctor, i \in UNION {NextArgument(d) : d \in ctor} :
        /\ i \in NextArgument(c)
        /\ \E s \in convert_arg(c.plan[i]) :
             /\ slots' = [StorageAfter(c.plan[i], s) EXCEPT ![c.node][i] = s]
             /\ life' = LifeAfter(c.plan[i], s)
        /\ ctor' = {[c EXCEPT !.todo = @ \ {i}]}
        /\ UNCHANGED handle
  BY DEF ConvertNext
<1>2. PICK arg, s :
        /\ arg = c.plan[i] /\ s \in convert_arg(arg)
        /\ slots' = [StorageAfter(arg, s) EXCEPT ![c.node][i] = s]
        /\ life' = LifeAfter(arg, s)
        /\ ctor' = {[c EXCEPT !.todo = @ \ {i}]}
        /\ handle' = handle
  BY <1>1
<1>3. /\ ctor = {c} /\ c.node \in Obj /\ life[c.node] = "constructing"
      /\ c.plan \in Seq(Arg) /\ c.todo \subseteq 1 .. Len(c.plan)
      /\ handle \in [Handle -> Slot]
  BY DEF IInv, TypeOK
<1>4. i \in 1 .. Len(c.plan)
  BY <1>1, <1>3 DEF NextArgument
<1>5. arg \in Arg /\ Acceptable(arg, ClassOf[c.node], life)
  BY <1>2, <1>3, <1>4, ElementOfSeq DEF LInv, CallsLawful
<1>6. /\ Keeps(life, life')
      /\ LevelsBounded(life')
      /\ StoragesLawful(slots', life')
      /\ EmptyUnlessAlive(slots', life')
      /\ \A x \in Obj : life'[x] = "constructing" => life[x] = "constructing"
  BY <1>2, <1>3, <1>5, ConversionLawful
<1>7. PICK d : d = [c EXCEPT !.todo = @ \ {i}]
  OBVIOUS
<1>8. d.plan = c.plan /\ d.node = c.node
  <2>1. c \in ctor
    OBVIOUS
  <2> QED  BY <1>7
<1>9. CallsLawful({d}, life')
  <2>1. CallsLawful(ctor, life')
    BY <1>3, <1>6, CallsStayLawful DEF LInv
  <2> QED  BY <1>3, <1>8, <2>1 DEF CallsLawful
<1>10. UnderConstruction({d}, life')
  BY <1>3, <1>6, <1>8 DEF LInv, UnderConstruction
<1>11. HandlesLawful(handle', life')
  BY <1>2, <1>3, <1>6, HandlesStayLawful DEF LInv
<1>12. ctor' = {d}
  BY <1>2, <1>7
<1> QED  BY <1>6, <1>9, <1>10, <1>11, <1>12 DEF LInv

(* A storage is emptied, for its object dies, and the call in progress, if *)
(* the object is the one it makes, is over.                                *)
LEMMA DeathLawful ==
  ASSUME IInv, LInv, NEW o \in Obj, life[o] # "automatic",
         life' = [life EXCEPT ![o] = "dead"],
         slots' = [slots EXCEPT ![o] = << >>],
         handle' = handle,
         ctor' \in {ctor, {}},
         \A x \in Obj \ {o} : life[x] = "constructing" => ctor' = ctor
  PROVE  LInv'
<1>1. /\ life \in [Obj -> Life] /\ slots \in [Obj -> Seq(Slot)] /\ handle \in [Handle -> Slot]
      /\ \A c \in ctor : c.plan \in Seq(Arg)
  BY DEF IInv, TypeOK
<1>2. /\ Keeps(life, life')
      /\ \A x \in Obj \ {o} : life'[x] = life[x] /\ slots'[x] = slots[x]
      /\ life'[o] = "dead" /\ slots'[o] = << >>
  BY <1>1 DEF Keeps
<1>3. StoragesLawful(slots, life')
  BY <1>1, <1>2, StoragesStayLawful DEF LInv
<1>4. \A i : i \notin 1 .. Len(<< >>)
  BY EmptySeq
<1>5. StoragesLawful(slots', life')
  <2>1. ASSUME NEW x \in Obj, NEW i \in 1 .. Len(slots'[x])
        PROVE  Storable(slots'[x][i], ClassOf[x], life')
    BY <1>2, <1>3, <1>4 DEF StoragesLawful
  <2> QED  BY <2>1 DEF StoragesLawful
<1>6. HandlesLawful(handle', life')
  BY <1>1, <1>2, HandlesStayLawful DEF LInv
<1>7. CallsLawful(ctor', life')
  <2>1. CallsLawful(ctor, life')
    BY <1>1, <1>2, CallsStayLawful DEF LInv
  <2> QED  BY <2>1 DEF CallsLawful
<1>8. EmptyUnlessAlive(slots', life')
  BY <1>2 DEF LInv, EmptyUnlessAlive
<1>9. UnderConstruction(ctor', life')
  BY <1>2 DEF LInv, UnderConstruction
<1>10. LevelsBounded(life')
  <2>1. \A x \in Obj : x # o /\ life[x] \in {"unborn", "dead"}
                       => life'[x] \in {"unborn", "dead"}
    BY <1>2
  <2> QED  BY <2>1, LevelsStayBounded DEF LInv
<1> QED  BY <1>5, <1>6, <1>7, <1>8, <1>9, <1>10 DEF LInv

LEMMA ConstructorThrowsLawful ==
  ASSUME IInv, LInv, ConstructorThrows
  PROVE  LInv'
<1>1. PICK c \in ctor : /\ life' = [life EXCEPT ![c.node] = "dead"]
                        /\ slots' = [slots EXCEPT ![c.node] = << >>]
                        /\ ctor' = {} /\ handle' = handle
  BY DEF ConstructorThrows
<1>2. c.node \in Obj /\ life[c.node] = "constructing" /\ ctor = {c}
  BY DEF IInv, TypeOK
<1>3. \A x \in Obj \ {c.node} : life[x] # "constructing"
  BY <1>2 DEF LInv, UnderConstruction
<1> QED  BY <1>1, <1>2, <1>3, DeathLawful

LEMMA ReclaimLawful ==
  ASSUME IInv, LInv, NEW o \in Obj, Reclaim(o)
  PROVE  LInv'
<1>1. /\ life[o] = "heap"
      /\ life' = [life EXCEPT ![o] = "dead"]
      /\ slots' = [slots EXCEPT ![o] = << >>]
      /\ handle' = handle /\ ctor' = ctor
  BY DEF Reclaim, Doomed
<1> QED  BY <1>1, DeathLawful

LEMMA ConstructedLawful ==
  ASSUME IInv, LInv, Constructed
  PROVE  LInv'
<1>1. PICK c \in ctor :
        /\ life' = [life EXCEPT ![c.node] = IF c.into = {} THEN "automatic" ELSE "heap"]
        /\ handle' = [h \in Handle |-> IF h \in c.into THEN own(c.node) ELSE handle[h]]
        /\ ctor' = {} /\ slots' = slots
  BY DEF Constructed
<1>2. /\ c.node \in Obj /\ life[c.node] = "constructing" /\ ctor = {c}
      /\ life \in [Obj -> Life] /\ slots \in [Obj -> Seq(Slot)] /\ handle \in [Handle -> Slot]
  BY DEF IInv, TypeOK
<1>3. /\ Keeps(life, life')
      /\ \A x \in Obj \ {c.node} : life'[x] = life[x]
      /\ life'[c.node] \in {"automatic", "heap"}
  BY <1>1, <1>2 DEF Keeps
<1>4. StoragesLawful(slots', life')
  BY <1>1, <1>2, <1>3, StoragesStayLawful DEF LInv
<1>5. HandlesLawful(handle', life')
  <2>1. HandlesLawful(handle, life')
    BY <1>2, <1>3, HandlesStayLawful DEF LInv
  <2>2. Lawful(own(c.node), life')
    BY DEF own, Lawful
  <2>3. \A h \in Handle : handle'[h] \in {own(c.node), handle[h]}
    BY <1>1
  <2> QED  BY <2>1, <2>2, <2>3 DEF HandlesLawful
<1>6. CallsLawful(ctor', life')
  BY <1>1 DEF CallsLawful
<1>7. EmptyUnlessAlive(slots', life')
  BY <1>1, <1>3 DEF LInv, EmptyUnlessAlive
<1>8. UnderConstruction(ctor', life')
  BY <1>2, <1>3 DEF LInv, UnderConstruction
<1>9. LevelsBounded(life')
  <2>1. \A x \in Obj : x # c.node /\ life[x] \in {"unborn", "dead"}
                       => life'[x] \in {"unborn", "dead"}
    BY <1>3
  <2> QED  BY <1>2, <2>1, LevelsStayBounded DEF LInv
<1> QED  BY <1>4, <1>5, <1>6, <1>7, <1>8, <1>9 DEF LInv

LEMMA SetChildLawful ==
  ASSUME IInv, LInv, ctor = {}, NEW n \in Obj, NEW i \in 1 .. Len(slots[n]), setChild(n, i)
  PROVE  LInv'
<1>1. PICK shape \in {s \in Shapes[ClassOf[n]] : Len(s) = Len(slots[n])} :
        \E arg \in ObjectArgs(shape[i]) \cup SharedArgs(shape[i]) :
        \E s \in convert_arg(arg) :
          /\ slots' = [StorageAfter(arg, s) EXCEPT ![n][i] = s]
          /\ life' = LifeAfter(arg, s)
  BY DEF setChild
<1>2. PICK arg, s :
        /\ arg \in ObjectArgs(shape[i]) \cup SharedArgs(shape[i])
        /\ s \in convert_arg(arg)
        /\ slots' = [StorageAfter(arg, s) EXCEPT ![n][i] = s]
        /\ life' = LifeAfter(arg, s)
  BY <1>1
<1>3. /\ handle' = handle /\ ctor' = ctor
      /\ life[n] \notin {"unborn", "dead"} /\ handle \in [Handle -> Slot] /\ TypeOK
  BY DEF setChild, Living, IInv, TypeOK
<1>4. arg \in Arg
  BY <1>2, <1>3, ArgTypes, SharedArgTypes
<1>5. Acceptable(arg, ClassOf[n], life)
  <2>1. i \in 1 .. Len(shape) /\ shape \in Shapes[ClassOf[n]]
    BY <1>1
  <2> QED  BY <1>2, <2>1, ArgumentsAcceptable
<1>6. /\ Keeps(life, life')
      /\ LevelsBounded(life')
      /\ StoragesLawful(slots', life')
      /\ EmptyUnlessAlive(slots', life')
      /\ \A x \in Obj : life'[x] = "constructing" => life[x] = "constructing"
  BY <1>2, <1>3, <1>4, <1>5, ConversionLawful
<1>7. HandlesLawful(handle', life')
  BY <1>3, <1>6, HandlesStayLawful DEF LInv
<1>8. CallsLawful(ctor', life') /\ UnderConstruction(ctor', life')
  BY <1>3, <1>6 DEF LInv, CallsLawful, UnderConstruction
<1> QED  BY <1>6, <1>7, <1>8 DEF LInv

LEMMA AssignLawful ==
  ASSUME IInv, LInv, NEW n \in Obj, NEW m \in Obj, NEW how, Assign(n, m, how)
  PROVE  LInv'
<1>1. /\ m # n /\ ClassOf[m] = ClassOf[n]
      /\ life[n] \notin {"unborn", "dead"} /\ life[m] \notin {"unborn", "dead"}
      /\ slots' = [slots EXCEPT ![n] = slots[m],
                               ![m] = IF how = "rvalue" THEN MovedFrom(m) ELSE @]
      /\ life' = life /\ handle' = handle /\ ctor' = ctor
  BY DEF Assign, Living
<1>2. slots \in [Obj -> Seq(Slot)]
  BY DEF IInv, TypeOK
<1>3. PICK storages : storages = slots'
  OBVIOUS
<1>4. /\ \A x \in Obj \ {n, m} : storages[x] = slots[x]
      /\ storages[n] = slots[m]
      /\ storages[m] \in {slots[m], MovedFrom(m)}
  BY <1>1, <1>2, <1>3
<1>5. StoragesLawful(storages, life)
  BY <1>1, <1>4, MovedLawful
<1>6. EmptyUnlessAlive(storages, life)
  BY <1>1, <1>4 DEF LInv, EmptyUnlessAlive
<1> QED  BY <1>1, <1>3, <1>5, <1>6 DEF LInv

LEMMA HandleLawful ==
  ASSUME LInv, handle \in [Handle -> Slot], NEW h \in Handle, NEW s, Lawful(s, life),
         handle' = [handle EXCEPT ![h] = s], UNCHANGED << life, slots, ctor >>
  PROVE  LInv'
<1>1. \A g \in Handle : handle'[g] \in {handle[g], s}
  OBVIOUS
<1>2. HandlesLawful(handle', life')
  BY <1>1 DEF LInv, HandlesLawful
<1> QED  BY <1>2 DEF LInv

LEMMA ChildStorageLawful ==
  ASSUME IInv, LInv, NEW h \in Handle, NEW n \in Obj, NEW i \in 1 .. Len(slots[n]),
         childStorage(h, n, i)
  PROVE  LInv'
<1>1. handle' = [handle EXCEPT ![h] = slots[n][i]] /\ UNCHANGED << life, slots, ctor >>
  BY DEF childStorage
<1>2. Lawful(slots[n][i], life)
  BY DEF LInv, StoragesLawful, Storable
<1> QED  BY <1>1, <1>2, HandleLawful DEF IInv, TypeOK

LEMMA ResetLawful ==
  ASSUME IInv, LInv, NEW h \in Handle, Reset(h)
  PROVE  LInv'
<1>1. handle' = [handle EXCEPT ![h] = {}] /\ UNCHANGED << life, slots, ctor >>
  BY DEF Reset
<1>2. Lawful({}, life)
  BY DEF Lawful
<1> QED  BY <1>1, <1>2, HandleLawful DEF IInv, TypeOK

(* Of an object it looks after the client knows that nothing points there. *)
LEMMA EndLifeLawful ==
  ASSUME IInv, LInv, ctor = {}, NEW o \in Obj, EndLife(o)
  PROVE  LInv'
<1>1. /\ o \in Careful => ~ Lent(o)
      /\ life' = [life EXCEPT ![o] = "dead"]
      /\ slots' = [slots EXCEPT ![o] = << >>]
      /\ handle' = handle /\ ctor' = ctor
  BY DEF EndLife
<1>2. /\ life \in [Obj -> Life] /\ slots \in [Obj -> Seq(Slot)] /\ handle \in [Handle -> Slot]
  BY DEF IInv, TypeOK
<1>3. /\ \A x \in Obj \ {o} : life'[x] = life[x] /\ slots'[x] = slots[x]
      /\ life'[o] = "dead" /\ slots'[o] = << >>
  BY <1>1, <1>2
<1>4. \A i : i \notin 1 .. Len(<< >>)
  BY EmptySeq
<1>5. ASSUME NEW s \in Slot, Lawful(s, life), o \in Careful => \A p \in s : p.to # o
      PROVE  Lawful(s, life')
  BY <1>3, <1>5, SlotPointers DEF Lawful
<1>6. ASSUME NEW x \in Obj, NEW i \in 1 .. Len(slots[x])
      PROVE  x \in Living
  <2>1. life[x] # "constructing"
    BY DEF LInv, UnderConstruction
  <2>2. life[x] \notin {"unborn", "dead"}
    BY <1>4 DEF LInv, EmptyUnlessAlive
  <2>3. life[x] \in Life
    BY <1>2
  <2> QED  BY <2>1, <2>2, <2>3 DEF Living, Life
<1>7. ASSUME NEW x \in Obj \ {o}, NEW i \in 1 .. Len(slots[x])
      PROVE  Storable(slots[x][i], ClassOf[x], life')
  <2>1. slots[x][i] \in Slot
    BY <1>2, ElementOfSeq
  <2>2. Storable(slots[x][i], ClassOf[x], life)
    BY DEF LInv, StoragesLawful
  <2>3. o \in Careful => \A p \in slots[x][i] : p.to # o
    BY <1>1, <1>6 DEF Lent
  <2> QED  BY <1>5, <2>1, <2>2, <2>3 DEF Storable
<1>8. StoragesLawful(slots', life')
  BY <1>3, <1>4, <1>7 DEF StoragesLawful
<1>9. HandlesLawful(handle', life')
  <2>1. ASSUME NEW h \in Handle PROVE Lawful(handle[h], life')
    <3>1. o \in Careful => \A p \in handle[h] : p.to # o
      BY <1>1 DEF Lent
    <3> QED  BY <1>2, <1>5, <3>1 DEF LInv, HandlesLawful
  <2> QED  BY <1>1, <2>1 DEF HandlesLawful
<1>10. CallsLawful(ctor', life')
  BY <1>1 DEF CallsLawful
<1>11. EmptyUnlessAlive(slots', life')
  BY <1>3 DEF LInv, EmptyUnlessAlive
<1>12. UnderConstruction(ctor', life')
  BY <1>1, <1>3 DEF LInv, UnderConstruction
<1>13. LevelsBounded(life')
  <2>1. \A x \in Obj : x # o /\ life[x] \in {"unborn", "dead"}
                       => life'[x] \in {"unborn", "dead"}
    BY <1>3
  <2> QED  BY <2>1, LevelsStayBounded DEF LInv
<1> QED  BY <1>8, <1>9, <1>10, <1>11, <1>12, <1>13 DEF LInv

LEMMA InitLInv == Init => LInv
<1> SUFFICES ASSUME Init PROVE LInv
  OBVIOUS
<1>1. \A i : i \notin 1 .. Len(<< >>)
  BY EmptySeq
<1>2. StoragesLawful(slots, life) /\ EmptyUnlessAlive(slots, life)
  BY <1>1 DEF Init, StoragesLawful, EmptyUnlessAlive
<1>3. HandlesLawful(handle, life)
  BY DEF Init, HandlesLawful, Lawful
<1>4. CallsLawful(ctor, life) /\ UnderConstruction(ctor, life)
  BY DEF Init, CallsLawful, UnderConstruction
<1>5. LevelsBounded(life)
  <2>1. \A x \in Obj : life[x] \in {"unborn", "dead"}
    BY DEF Init
  <2> QED  BY <2>1 DEF LevelsBounded
<1> QED  BY <1>2, <1>3, <1>4, <1>5 DEF LInv

LEMMA ClientLawful ==
  ASSUME IInv, LInv, ClientStep
  PROVE  LInv'
<1>1. ctor = {}
  BY DEF ClientStep, Idle
<1>2. CASE \E o \in Obj : Construct(o)
  BY <1>1, <1>2, ConstructEmptyLawful, ConstructFromStorageLawful, ConstructFromArgsLawful,
     ConstructFromOneLawful DEF Construct
<1>3. CASE \E o \in Obj : EndLife(o)
  BY <1>1, <1>3, EndLifeLawful
<1>4. CASE \E n \in Obj : \E i \in 1 .. Len(slots[n]) : setChild(n, i)
  BY <1>1, <1>4, SetChildLawful
<1>5. CASE \E n \in Obj : \E i \in 1 .. Len(slots[n]) : \E h \in Handle : childStorage(h, n, i)
  BY <1>5, ChildStorageLawful
<1>6. CASE \E n, m \in Obj : \E how \in {"const", "rvalue"} : Assign(n, m, how)
  BY <1>6, AssignLawful
<1>7. CASE \E h \in Handle : Reset(h)
  BY <1>7, ResetLawful
<1> QED  BY <1>2, <1>3, <1>4, <1>5, <1>6, <1>7 DEF ClientStep

LEMMA NextLInv == IInv /\ LInv /\ [Next]_vars => LInv'
<1> SUFFICES ASSUME IInv, LInv, [Next]_vars PROVE LInv'
  OBVIOUS
<1>1. CASE ClientStep
  BY <1>1, ClientLawful
<1>2. CASE ConvertNext
  BY <1>2, ConvertNextLawful
<1>3. CASE ConstructorThrows
  BY <1>3, ConstructorThrowsLawful
<1>4. CASE Constructed
  BY <1>4, ConstructedLawful
<1>5. CASE \E o \in Obj : Reclaim(o)
  BY <1>5, ReclaimLawful
<1>6. CASE UNCHANGED vars
  BY <1>6 DEF vars, LInv
<1> QED  BY <1>1, <1>2, <1>3, <1>4, <1>5, <1>6 DEF Next

LEMMA Inductive == Spec => [](IInv /\ LInv)
<1>1. Init => IInv /\ LInv
  BY InitIInv, InitLInv
<1>2. (IInv /\ LInv) /\ [Next]_vars => (IInv /\ LInv)'
  BY NextIInv, NextLInv
<1> QED  BY <1>1, <1>2, PTL DEF Spec

-----------------------------------------------------------------------------
(* Among objects whose levels have a bound one has the highest.            *)
LEMMA HighestLevel ==
  ASSUME NEW group \in SUBSET Obj, group # {}, NEW b \in Nat,
         \A x \in group : Level[ClassOf[x]] <= b
  PROVE  \E o \in group : \A x \in group : Level[ClassOf[x]] <= Level[ClassOf[o]]
<1> DEFINE R == OpToRel(<, Nat)
           depth(x) == b - Level[ClassOf[x]]
           D == {d \in Nat : \E x \in group : d = depth(x)}
<1>1. IsWellFoundedOn(R, Nat)
  BY NatLessThanWellFounded
<1>2. ASSUME NEW x \in group PROVE depth(x) \in Nat
  <2>1. Level[ClassOf[x]] \in Nat /\ Level[ClassOf[x]] <= b
    BY Levels
  <2> QED  BY <2>1
<1>3. D # {} /\ D \subseteq Nat
  <2> HIDE DEF depth
  <2> QED  BY <1>2
<1> HIDE DEF R, D
<1>4. PICK d \in D : \A e \in D : ~ (<< e, d >> \in R)
  BY <1>1, <1>3, WFMin
<1>5. \A e \in D : ~ (e < d)
  BY <1>3, <1>4 DEF R, OpToRel
<1>6. PICK o \in group : d = depth(o)
  BY DEF D
<1>7. ASSUME NEW x \in group PROVE Level[ClassOf[x]] <= Level[ClassOf[o]]
  <2>1. ~ (depth(x) < depth(o))
    <3> HIDE DEF depth
    <3> QED  BY <1>2, <1>5, <1>6 DEF D
  <2>2. Level[ClassOf[x]] \in Nat /\ Level[ClassOf[o]] \in Nat
    BY Levels
  <2> QED  BY <2>1, <2>2
<1> QED  BY <1>7

(* Nothing leaks: in a group of heap objects the one whose class nests     *)
(* most deeply cannot be owned from within the group, and since nothing is *)
(* being destroyed it has an owner.                                        *)
LEMMA GroupsAreOwned == IInv /\ LInv => NoLeak
<1> SUFFICES ASSUME IInv, LInv, Idle,
                    NEW group \in SUBSET {o \in Obj : life[o] = "heap"}, group # {}
             PROVE  \E o \in group :
                      HeldByClient(o) \/ \E x \in Living \ group : OwnedBy(x, o)
  BY DEF NoLeak
<1>1. group \in SUBSET Obj /\ \A o \in group : life[o] = "heap"
  OBVIOUS
<1>2. PICK b \in Nat : \A x \in Obj : life[x] \notin {"unborn", "dead"} => Level[ClassOf[x]] <= b
  BY DEF LInv, LevelsBounded
<1>3. \A x \in group : Level[ClassOf[x]] <= b
  BY <1>1, <1>2
<1>4. PICK o \in group : \A x \in group : Level[ClassOf[x]] <= Level[ClassOf[o]]
  BY <1>1, <1>3, HighestLevel
<1>5. o \in Obj /\ Owned(o) /\ ~ IsArgument(o)
  BY <1>1 DEF Idle, Quiet, Doomed, IsArgument
<1>6. CASE HeldByClient(o)
  BY <1>6
<1>7. CASE \E x \in Obj : OwnedBy(x, o)
  <2>1. PICK x \in Obj : OwnedBy(x, o)
    BY <1>7
  <2>2. PICK i \in 1 .. Len(slots[x]) : slots[x][i] = own(o)
    BY <2>1 DEF OwnedBy
  <2>3. Storable(own(o), ClassOf[x], life)
    BY <2>2 DEF LInv, StoragesLawful
  <2>4. Level[ClassOf[o]] < Level[ClassOf[x]]
    BY <2>3 DEF Storable, own
  <2>5. x \notin group
    <3>1. Level[ClassOf[x]] \in Nat /\ Level[ClassOf[o]] \in Nat
      BY <1>5, Levels
    <3>2. ~ (Level[ClassOf[x]] <= Level[ClassOf[o]])
      BY <2>4, <3>1
    <3> QED  BY <1>4, <3>2
  <2>6. x \in Living
    <3>1. life[x] # "constructing"
      BY DEF Idle, LInv, UnderConstruction
    <3>2. life[x] \notin {"unborn", "dead"}
      BY <2>2, EmptySeq DEF LInv, EmptyUnlessAlive
    <3>3. life[x] \in Life
      BY DEF IInv, TypeOK
    <3> QED  BY <3>1, <3>2, <3>3 DEF Living, Life
  <2> QED  BY <2>1, <2>5, <2>6
<1> QED  BY <1>5, <1>6, <1>7 DEF Owned

(* Nothing dangles: a pointer that owns leads to a heap object, one that   *)
(* does not and leads to an object the client looks after finds it alive.  *)
LEMMA PointersLeadToLiving ==
  ASSUME IInv, NEW s \in Slot, Lawful(s, life),
         \A o \in Obj : s = own(o) => Owned(o), NEW p \in s, p.to \in Careful
  PROVE  p.to \in Living
<1>1. p = [to |-> p.to, owning |-> p.owning] /\ p.to \in Obj /\ s = {p} /\ p.owning \in BOOLEAN
  BY SlotPointers DEF Pointer
<1>2. CASE p.owning
  <2>1. s = own(p.to)
    <3>1. p.owning = TRUE
      BY <1>1, <1>2
    <3> QED  BY <1>1, <3>1 DEF own
  <2>2. life[p.to] = "heap"
    BY <1>1, <2>1 DEF IInv, OwnedIsAlive
  <2> QED  BY <1>1, <2>2 DEF Living
<1>3. CASE ~ p.owning
  BY <1>1, <1>3 DEF Lawful, Living
<1> QED  BY <1>2, <1>3

LEMMA NothingDangles == IInv /\ LInv => NoDangling
<1> SUFFICES ASSUME IInv, LInv PROVE NoDangling
  OBVIOUS
<1>1. ASSUME NEW x \in Living, NEW s \in SlotsOf(x), NEW p \in s, p.to \in Careful
      PROVE  p.to \in Living
  <2>1. PICK i \in 1 .. Len(slots[x]) : s = slots[x][i]
    BY DEF SlotsOf
  <2>2. x \in Obj
    BY DEF Living
  <2>3. s \in Slot
    BY <2>1, <2>2, SlotTypes DEF IInv
  <2>4. Lawful(s, life)
    BY <2>1, <2>2 DEF LInv, StoragesLawful, Storable
  <2>5. \A o \in Obj : s = own(o) => Owned(o)
    BY <2>1, <2>2 DEF Owned, OwnedBy
  <2> QED  BY <1>1, <2>3, <2>4, <2>5, PointersLeadToLiving
<1>2. ASSUME NEW h \in Handle, NEW p \in handle[h], p.to \in Careful
      PROVE  p.to \in Living
  <2>1. handle[h] \in Slot
    BY DEF IInv, TypeOK
  <2>2. Lawful(handle[h], life)
    BY DEF LInv, HandlesLawful
  <2>3. \A o \in Obj : handle[h] = own(o) => Owned(o)
    BY DEF Owned, HeldByClient
  <2> QED  BY <1>2, <2>1, <2>2, <2>3, PointersLeadToLiving
<1> QED  BY <1>1, <1>2 DEF NoDangling

(* Whatever the client does, and whatever throws: between two calls no     *)
(* group of heap objects is left that only its own members own.            *)
THEOREM NothingLeaks == Spec => []NoLeak
BY Inductive, GroupsAreOwned, PTL

(* Objects that the client lends only while it manages them itself, and    *)
(* whose life it ends only when nothing points there any more, are never   *)
(* the dead target of a pointer, whatever it does with the others.         *)
THEOREM CarefulNeverDangles == Spec => []NoDangling
BY Inductive, NothingDangles, PTL

=============================================================================
