\* Two streams: every way to cut the text, with other events in between.
SPECIFICATION FairSpec
CONSTANTS
  Bytes = {"[", "]", "x", "L", "c", "a", "b"}
  Width <- Widths
  k1 = k1
  k2 = k2
  Keys = {k1, k2}
  Mapping <- PlainMapping
  Events <- Mixed
  MaxRune = 2
  MaxEvents = 4
INVARIANTS
  StreamMatchesWhole
  CharactersWhole
  PendingBounded
  NothingOvertaken
  CleanEndComplete
PROPERTY GoroutineEnds
