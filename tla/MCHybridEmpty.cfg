SPECIFICATION Spec
CONSTANTS
  Node <- MC_Node
  Type <- MC_Type
  TypeOf <- MC_TypeOf
  Tag <- MC_Tag
  Child <- MC_Child
  Level <- MC_Level
  ChildType <- MC_ChildType
  Visitor <- MC_Visitor
INVARIANTS
  NoAssertionFails
CHECK_DEADLOCK FALSE
