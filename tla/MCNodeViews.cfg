SPECIFICATION Spec
CONSTANTS
  Class = {"A", "B"}
  Object <- MC_Object
  Classes <- MC_Classes
  Filter <- MC_Filter
  MaxViews = 2
INVARIANTS
  ChildrenFitTypes
  SimpleFilterSelects
  OwnersStayUsable
PROPERTIES
  SetChildIsSeen
CHECK_DEADLOCK FALSE
