SPECIFICATION FactorySpec
CONSTANTS
  Node <- Single_Node
  Type <- Single_Type
  TypeOf <- Single_TypeOf
  Tag <- Single_Tag
  Child <- Single_Child
  Level <- Single_Level
  Value <- MC_Value
  DefaultValue = 0
  LeafToValue <- Single_LeafToValue
INVARIANTS
  SameStructure
