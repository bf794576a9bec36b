SPECIFICATION Spec
CONSTANTS
  Node <- MC_Node
  Type <- MC_Type
  TypeOf <- MC_TypeOf
  Tag <- MC_Tag
  Child <- MC_Child
  Level <- MC_Level
  Visitor <- MC_Visitor
  MaxChanges = 2
INVARIANTS
  TypeOK
  PathLeadsToNode
  NothingStale
  ReducesLeafsInOrder
  CallbackProtocol
  ChildCallsBracketVisit
PROPERTIES
  ImplementsDepthFirst
  Terminates
CHECK_DEADLOCK FALSE
