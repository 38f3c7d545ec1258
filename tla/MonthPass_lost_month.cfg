\* The learner buys again while an order may still be paid; nothing fails.
SPECIFICATION FairSpec
CONSTANTS
  o1 = o1  o2 = o2
  Orders = {o1, o2}
  Types = {"payment.captured"}
  Env = {"hasty"}
  Month = 2
  Horizon = 0
  None = None
PROPERTIES
  PaidMonthGranted
CHECK_DEADLOCK FALSE
