\* Every hit anywhere in a body of one or two members.
SPECIFICATION Spec
CONSTANTS
  Fields <- Names
  Bodies <- AllBodies
  Reports <- AnyHit
  Placeholders <- Replacing
  None = None
CHECK_DEADLOCK FALSE
INVARIANTS
  RangesAreValues
  ProtectedUntouched
  StillJSON
  RepliesRestored
