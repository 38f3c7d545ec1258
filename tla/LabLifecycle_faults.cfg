\* Two tabs at any moment; everything outside the process may fail, and the process too.
SPECIFICATION Spec
CONSTANTS
  a = a  b = b  a1 = a1  a2 = a2  b1 = b1  b2 = b2  r1 = r1  r2 = r2
  Labs = {a, b}
  Sids = {a1, b1}
  LabOf <- MCLabOf
  Requests = {r1, r2}
  Openers = {r1, r2}
  Ops = {"start", "end", "reset"}
  Env = {"refuse", "snapshot", "wipe", "restore", "setup", "db", "crash"}
  None = None
SYMMETRY HandlersAlike
INVARIANTS
  OneLabAtATime
  OneTurnEach
