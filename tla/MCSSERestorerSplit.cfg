\* The claim that a placeholder split across chunks is still restored.
SPECIFICATION Spec
CONSTANTS
  Bytes = {"[", "]", "x", "L", "c", "a", "b"}
  Width <- Widths
  k1 = k1
  k2 = k2
  Keys = {k1}
  Mapping <- PlainMapping
  Events <- NoLate
  MaxRune = 2
  MaxEvents = 5
INVARIANT SplitsRestored
