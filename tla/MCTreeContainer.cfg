SPECIFICATION ContainerSpec
CONSTANTS
  Node <- MC_Node
  Type <- MC_Type
  TypeOf <- MC_TypeOf
  Tag <- MC_Tag
  Child <- MC_Child
  Level <- MC_Level
  Value <- MC_Value
  DefaultValue = 0
  LeafToValue <- MC_LeafToValue
INVARIANTS
  SizedIsAccessible
PROPERTIES
  ImplementsLeafMap
