------------------------------- MODULE KeptWork -------------------------------
(***************************************************************************)
(* What a learner is promised of the labs of one namespace, whatever the   *)
(* sessions, snapshots and queued tasks behind it (the promises are        *)
(* written in k8sLifecycle.ts:39-44 and 303-305, k8sCluster.ts:1389-1392   *)
(* and 1435-1440).  At most one lab is open.  A lab that is opened again   *)
(* shows the work done in it; a reset gives that work up, and so may a     *)
(* clearing away of this lab that stops in the middle.                     *)
(*                                                                         *)
(* LabLifecycle implements this specification while the learner waits for  *)
(* each open to be answered and the process goes on (runs one_tab and      *)
(* clean_slate).                                                           *)
(***************************************************************************)
CONSTANTS
  Labs,
  Resets,   \* whether the learner may ask for a reset
  Tears,    \* whether clearing a lab away may stop in the middle
  None

VARIABLES
  here,   \* the lab in the namespace, or None
  view,   \* what is there of it: "none", "partial", "ready" or "work"
  kept,   \* labs whose work is still somewhere
  torn    \* labs not cleared away as a whole, and nothing made in them since

vars == <<here, view, kept, torn>>

Init == here = None /\ view = "none" /\ kept = {} /\ torn = {}

\* What a lab shows when it is opened: the work that was kept, what a torn lab
\* had left, or what its setup makes.
Shows(l) ==
  CASE l \in kept -> {"work"}
    [] l \in torn -> {"partial", "ready", "work"}
    [] OTHER -> {"ready"}

Open(l) ==
  /\ here = None
  /\ here' = l
  /\ view' \in Shows(l)
  /\ UNCHANGED <<kept, torn>>

\* An open that fails may leave some of the lab's objects, never a fresh lab in
\* the place of the work that was kept.
OpenInPart(l) ==
  /\ here = None
  /\ here' = l
  /\ view' \in {"partial"} \cup Shows(l)
  /\ UNCHANGED <<kept, torn>>

Make ==
  /\ here # None
  /\ view' = "work"
  /\ kept' = kept \cup {here}
  /\ torn' = torn \ {here}
  /\ UNCHANGED here

\* The lab leaves the namespace; its work does not get lost.
Close ==
  /\ here # None
  /\ here' = None
  /\ view' = "none"
  /\ UNCHANGED <<kept, torn>>

\* Clearing it away stops in the middle: this lab's work, and no other's, may be lost.
Tear ==
  /\ Tears
  /\ here # None
  /\ \/ here' = here /\ view' \in {view, "partial"}
     \/ here' = None /\ view' = "none"
  /\ kept' = kept \ {here}
  /\ torn' = torn \cup {here}

\* A reset gives up what was kept, before or as the lab is cleared.
Discard ==
  /\ Resets
  /\ here # None
  /\ kept' = kept \ {here}
  /\ torn' = torn \ {here}
  /\ UNCHANGED <<here, view>>

Clear ==
  /\ Resets
  /\ here # None
  /\ here' = None
  /\ view' = "none"
  /\ kept' = kept \ {here}
  /\ torn' = torn \ {here}

Next ==
  \/ \E l \in Labs : Open(l) \/ OpenInPart(l)
  \/ Make \/ Close \/ Tear \/ Discard \/ Clear

Spec == Init /\ [][Next]_vars
=============================================================================
