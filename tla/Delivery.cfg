SPECIFICATION Spec
CONSTANTS
  Events = {e1}
  Channels = {c1, c2}
  Mail = {c2}
  Requests = {r1}
  MaxAttempts = 2
INVARIANTS DeliveryInv EveryChannelIsTried LoopsMeetAnOpenPool
PROPERTIES KeepsThePromise DeliveriesEnd ShutdownEnds
CHECK_DEADLOCK FALSE
