SPECIFICATION Spec
CONSTANTS
  Node <- MC_Node
  Type <- MC_Type
  TypeOf <- MC_TypeOf
  Tag <- MC_Tag
  Child <- MC_Child
  Level <- MC_Level
  Recursive <- MC_Recursive
INVARIANTS
  TypeOK
  ChildrenFirst
  NoSharedTargets
  MirrorsSource
  SourcesKept
PROPERTIES
  ImplementsDepthFirst
  Terminates
CHECK_DEADLOCK FALSE
