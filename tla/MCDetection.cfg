\* Numbers next to each other, and assignments of every kind.
SPECIFICATION Spec
CONSTANTS
  Texts <- AllTexts
  RuleFiles = {"rules", "broken"}
  Fallbacks = {TRUE, FALSE}
CHECK_DEADLOCK FALSE
INVARIANTS
  NumbersMasked
  ExplicitSecretsMasked
  TyposRejected
