\* A conversation the upstream remembers is restored with the latest mapping.
SPECIFICATION Spec
CONSTANTS
  v1 = v1
  v2 = v2
  s1 = s1
  s2 = s2
  None = None
  Values = {v1, v2}
  Sessions = {s1, s2}
  Requests = {r1, r2}
  Offers <- ConversationOffers
  MaxSeen = 1
  LogLevel = "info"
  DebugBody = TRUE
  MaxTime = 0
CHECK_DEADLOCK FALSE
INVARIANT
  TransparentInConversation
