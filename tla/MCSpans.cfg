\* Three spans over four bytes, or two and two protected ranges: every way to
\* nest, touch, overlap and repeat.
SPECIFICATION Spec
CONSTANTS
  TextLen = 4
  Labels = {email, secret}
  MaxSpans = 3
  MaxWithTwo = 2
  Inputs <- MCInputs
SYMMETRY Symmetry
INVARIANTS
  SlicesLegal
  EveryStartCovered
  LongestFirst
  ProtectedKept
  UnprotectedMasked
