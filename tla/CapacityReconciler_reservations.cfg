\* Two labs, one with a slot of its own; the manifest is re-applied, reconciles
\* fail, the backend restarts.
SPECIFICATION FairSpec
CONSTANTS
  k1 = k1  k2 = k2
  Labs = {k1, k2}
  Reserve <- OneSlot
  Large = {k1}
  Env = {"reapply", "restart", "fail"}
INVARIANTS
  Inv
PROPERTIES
  HoldsCounted
  HoldEnds
  Settles
