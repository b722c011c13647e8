SPECIFICATION Spec
CONSTANTS
  Requests = {r1, r2, r3}
  Plans = {basic, pro}
  Period <- MCPeriod
  MaxTime = 1
  MaxExtension = 1
CHECK_DEADLOCK FALSE
SYMMETRY Symmetry
INVARIANTS TypeOK RecordsAgree
PROPERTIES RevivedOnlyByStaleRead ExtendsForward
