CONSTANTS
  Keys = {k1, k2}
  Applications = {k1}
  MAX_RETRIES = 3
  MaxFaults = 2
SPECIFICATION Spec
INVARIANTS TypeOK LogHonest
PROPERTIES KeepsPromise EventuallySettled
CHECK_DEADLOCK FALSE
