SPECIFICATION FairSpec
CONSTANTS
  Handlers = {1, 2, 3, 4}
  Address <- SharedAddress
  Relays = {4}
  Initial <- AllButTwo
  Lasting = {1}
  Matches <- SomeOfFour
  Threads = {t1, t2}
  MaxChanges = 2
INVARIANT TypeOK
INVARIANT NeverRunsUninstalled
INVARIANT StayedAreServed
PROPERTY ResumesInOrder
PROPERTY UninstallReturns
PROPERTY DispatchReturns
