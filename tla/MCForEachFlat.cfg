SPECIFICATION Spec
CONSTANTS
  Node <- MCF_Node
  Type <- MCF_Type
  TypeOf <- MCF_TypeOf
  Tag <- MCF_Tag
  Child <- MCF_Child
  Level <- MCF_Level
  ChildType <- MCF_ChildType
  Size = 256
INVARIANTS
  FlattenedIsFlat
CHECK_DEADLOCK FALSE
