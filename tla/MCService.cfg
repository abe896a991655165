\* Two redactions and a restore, through either API of either program, with
\* lifetimes that end in between and a signal at any moment.
SPECIFICATION FairSpec
CONSTANTS
  Requests = {r1, r2, r3}
  r1 = r1
  r2 = r2
  r3 = r3
  a = a
  b = b
  Texts = {a, b}
  Ids = {i1, i2, f}
  i1 = i1
  Foreign = f
  NoId = NoId
  DefaultTTL = 2
  Settings = {0, 1}
  Unset = Unset
  MaxTime = 1
  Processes = {"server", "http", "grpc"}
  Offers <- Roles
  Nothing = Nothing
CHECK_DEADLOCK FALSE
INVARIANTS
  RestoresOwnText
  SessionsAnswer
  NothingPastItsTime
  NothingCutOff
PROPERTY SignalEnds
