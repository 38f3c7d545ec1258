----------------------------- MODULE MonthLedger -----------------------------
(***************************************************************************)
(* What selling one-month passes promises (routes/billing.ts:240,          *)
(* billing/store.ts:141-145): each paid order buys one month, once, and a  *)
(* month starts where the learner's access ends, or now.                   *)
(***************************************************************************)
EXTENDS Naturals

CONSTANTS Orders, Month

VARIABLES now, end, bought, granted
vars == <<now, end, bought, granted>>

Init == now = 0 /\ end = 0 /\ bought = {} /\ granted = {}

Buy(o) ==
  /\ o \notin bought
  /\ bought' = bought \cup {o}
  /\ UNCHANGED <<now, end, granted>>

Grant(o) ==
  /\ o \in bought \ granted
  /\ granted' = granted \cup {o}
  /\ end' = (IF end > now THEN end ELSE now) + Month
  /\ UNCHANGED <<now, bought>>

Tick == now' = now + 1 /\ UNCHANGED <<end, bought, granted>>

Next == Tick \/ \E o \in Orders : Buy(o) \/ Grant(o)
Spec == Init /\ [][Next]_vars
=============================================================================
