\* Two orders with one event each; the browser may close before it verifies,
\* Razorpay may not answer, queries fail, also those on events, the backend restarts, and Razorpay
\* delivers an event again while it is being handled.
\* With every order used and time at its bound nothing happens any more.
SPECIFICATION FairSpec
CONSTANTS
  o1 = o1  o2 = o2
  Orders = {o1, o2}
  Types = {"payment.captured"}
  Env = {"leave", "unreachable", "db", "blind", "crash", "impatient"}
  Month = 2
  Horizon = 2
  None = None
INVARIANTS
  Inv
  MonthsApart
PROPERTIES
  KeepsLedger
  PaidMonthGranted
CHECK_DEADLOCK FALSE
