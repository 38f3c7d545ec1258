------------------------------ MODULE MCTabLease ------------------------------
(* Small instances of TabLease: two tabs, two Kubernetes labs and a board.     *)
EXTENDS TabLease, TLC

CONSTANTS t1, t2, k1, k2, w1

TabsAlike == Permutations({t1, t2})
TabsAndLabsAlike == TabsAlike \cup Permutations({k1, k2})
=============================================================================
