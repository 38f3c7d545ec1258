\* Two tabs, a Kubernetes lab and a board; starts do not overlap.
\* Once every tab is gone and the labs are ended nothing happens any more.
SPECIFICATION FairSpec
CONSTANTS
  t1 = t1  t2 = t2  k1 = k1  k2 = k2  w1 = w1
  Tabs = {t1, t2}
  Labs = {k1, w1}
  Boards = {w1}
  Budget = 1
  Env = {"restart", "fail", "db"}
  None = None
INVARIANTS
  Inv
  OneLab
  ShellsOfHolder
  ShellsFollowSession
PROPERTIES
  AbandonedLabEnds
CHECK_DEADLOCK FALSE
