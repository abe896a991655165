\* The hits of one rule that takes the closing quote along.
SPECIFICATION Spec
CONSTANTS
  Fields <- Names
  Bodies <- AllBodies
  Reports <- KeyWordToQuote
  Placeholders <- Replacing
  None = None
CHECK_DEADLOCK FALSE
INVARIANT SentIsJSON
