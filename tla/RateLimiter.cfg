SPECIFICATION Spec
CONSTANTS
  Keys = {k1, k2}
  Proxy = proxy
  Loopback = k2
  NoPeer = nopeer
  Junk = junk
  Attempts = {a1, a2}
  MaxAttempts = 2
  OverflowMax = 2
  MaxEntries = 1
  Window = 2
  MaxTime = 3
CONSTRAINT FewLate
SYMMETRY Symmetry
INVARIANTS LimiterInv GuessesAreBounded ChargedToTheClient
PROPERTIES LiveCountersStay
CHECK_DEADLOCK FALSE
