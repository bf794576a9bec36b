SPECIFICATION Spec
CONSTANTS
  l1 = l1
  l2 = l2
  p1 = p1
  p2 = p2
  d1 = d1
  k1 = k1
  k2 = k2
  c1 = c1
  c2 = c2
  e1 = e1
  Obj <- MC_Obj
  ClassOf <- MC_ClassOf
  Class <- MC_Class
  Shapes <- MC_Shapes
  Tag <- MC_Tag
  Level <- MC_Level
  Handle = {h1}
  Careful <- MC_Careful
  Budget <- MC_Budget
SYMMETRY MC_Symmetry
INVARIANTS
  TypeOK
  OwnedIsAlive
  NoLeak
  NoDangling
CHECK_DEADLOCK FALSE
