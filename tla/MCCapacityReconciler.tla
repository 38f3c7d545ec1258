------------------------ MODULE MCCapacityReconciler ------------------------
(* Small instances of CapacityReconciler: the labs of two learners.            *)
EXTENDS CapacityReconciler

CONSTANTS k1, k2

\* The challenge of k1 reserves one slot, that of k2 none (reservePods 0).
OneSlot == [k \in Labs |-> IF k = k1 THEN 1 ELSE 0]
=============================================================================
