SPECIFICATION Spec
CONSTANTS
  Handlers = {1, 2, 3}
  Address <- OwnAddress
  Relays = {1}
  Initial <- AllThree
  Lasting = {}
  Matches <- AnySet
  Threads = {t1}
  MaxChanges = 2
INVARIANT StayedAreServed
