SPECIFICATION Spec
CONSTANTS
  Requests = {r1, r2}
  Documents = {d1}
  MaxHistory = 3
INVARIANTS TypeOK RecordKept DecisionsTold
PROPERTY EditedOnlyByStaleRead
CHECK_DEADLOCK FALSE
