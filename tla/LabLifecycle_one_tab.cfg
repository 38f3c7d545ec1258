\* One tab opens labs; ends and resets wait for its answers.
SPECIFICATION FairSpec
CONSTANTS
  a = a  b = b  a1 = a1  a2 = a2  b1 = b1  b2 = b2  r1 = r1  r2 = r2
  Labs = {a, b}
  Sids = {a1, a2, b1, b2}
  LabOf <- MCLabOf
  Requests = {r1, r2}
  Openers = {r1}
  Ops = {"start", "end", "reset"}
  Env = {"lag", "snapshot", "restore"}
  None = None
INVARIANTS
  TypeOK
  SnapshotsOwn
PROPERTIES
  KeepsPromise
  EveryRequestAnswered
