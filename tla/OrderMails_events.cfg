CONSTANTS
  o1 = o1
  r1 = r1
  Orders = {o1}
  Returns = {r1}
  OrderOf <- MCOrderOf
  Occasions <- MCOccasions
  Suffixes = {"end"}
  OrderStages = {"PENDING", "DELIVERED"}
  ReturnStages = {"APPROVED"}
  Requests = {q1, q2}
  MaxHandled = 4
  MaxSending = 2
  MaxFailures = 1
SPECIFICATION MailsSpec
SYMMETRY MCSymmetry
INVARIANTS NoticesSound
PROPERTIES PlanRespected
CHECK_DEADLOCK FALSE
