--------------------------- MODULE MCLabLifecycle ---------------------------
(* Small instances of LabLifecycle: two labs with up to two session ids each, *)
(* so that two overlapping opens of a lab can each create a session.          *)
EXTENDS LabLifecycle, TLC

CONSTANTS a, b, a1, a2, b1, b2, r1, r2

MCLabOf == (a1 :> a) @@ (a2 :> a) @@ (b1 :> b) @@ (b2 :> b)
IdsAlike == Permutations({a1, a2}) \cup Permutations({b1, b2})
HandlersAlike == Permutations({r1, r2}) \cup IdsAlike
=============================================================================
