\* One id: every step of the store concerns a single one, and goroutines can
\* only get in each other's way under the same.
SPECIFICATION FairSpec
CONSTANTS
  Threads = {t1, t2}
  Ids = {i1}
  Contents = {a, b}
  TTLs = {0, 1}
  MaxTime = 2
  Nothing = Nothing
INVARIANTS
  NoMapRace
  LoadsWhatWasSaved
  GoneForGood
  KeptWhileAlive
PROPERTIES
  ImplementsAtomicStore
  EveryCallReturns
