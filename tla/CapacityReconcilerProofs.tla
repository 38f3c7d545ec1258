------------------------ MODULE CapacityReconcilerProofs ------------------------
(* Whoever waits for a reconcile is counted by it, for any labs and hazards.  *)
EXTENDS CapacityReconciler, TLAPS

\* A step that leaves the reconcile alone and brings nobody to the wait.
LEMMA Elsewhere ==
  ASSUME Inv, TypeOK', UNCHANGED <<tick, again>>,
         \A k \in Labs : phase'[k] = "await" => phase[k] = "await",
         \A k \in active' : phase'[k] \in {"await", "poll", "setup"}
                            => k \in active /\ phase[k] \in {"await", "poll", "setup"}
                               /\ (phase'[k] # "await" => phase[k] # "await")
  PROVE  Inv'
BY DEF Inv, TypeOK, Awaited, Tick

LEMMA BeginsType ==
  ASSUME NEW open \in SUBSET Labs, Begins(open)
  PROVE  tick' \in Tick /\ tick'.pc = "list" /\ tick'.labs = open
BY DEF Begins, NoTick, Tick

\* Asking for a reconcile of the labs that are active afterwards.
LEMMA NudgeSees ==
  ASSUME Inv, NEW open \in SUBSET Labs, Nudge(open), active' = open, open \subseteq active,
         resets' \subseteq Labs, blocked' \subseteq Labs, UNCHANGED <<notes, fresh>>,
         phase' \in [Labs -> Phase],
         \A k \in open : phase'[k] \in {"poll", "setup"} => phase[k] \in {"poll", "setup"}
  PROVE  Inv'
<1>1. CASE tick.pc # "none"
  <2>1. again' = TRUE /\ tick' = tick
    BY <1>1 DEF Nudge
  <2> QED
    BY <1>1, <2>1 DEF Inv, TypeOK, Awaited
<1>2. CASE tick.pc = "none"
  <2>1. Begins(open) /\ again' = again
    BY <1>2 DEF Nudge
  <2> QED
    BY <2>1, BeginsType DEF Inv, TypeOK, Awaited
<1> QED
  BY <1>1, <1>2

\* The end of one run of the reconcile.
LEMMA LoopSees ==
  ASSUME Inv, Loop, UNCHANGED <<active, resets, blocked>>, notes' \subseteq Labs, fresh' \in BOOLEAN
  PROVE  Inv'
<1>1. CASE again /\ again' = FALSE /\ Begins(active) /\ UNCHANGED phase
  <2>1. active \in SUBSET Labs
    BY DEF Inv, TypeOK
  <2> QED
    BY <1>1, <2>1, BeginsType DEF Inv, TypeOK, Awaited
<1>2. CASE /\ ~again /\ tick' = NoTick /\ UNCHANGED again
           /\ phase' = [k \in Labs |-> IF phase[k] = "await" THEN "poll" ELSE phase[k]]
  BY <1>2 DEF Inv, TypeOK, Awaited, NoTick, Tick, Phase
<1> QED
  BY <1>1, <1>2 DEF Loop

\* A step within one run: it goes on to another call.
LEMMA RunsOn ==
  ASSUME Inv, tick.pc # "none", NEW pc \in {"get", "scale"}, NEW w \in SUBSET Labs,
         tick' = [tick EXCEPT !.pc = pc, !.waits = w],
         UNCHANGED <<active, phase, resets, blocked, again, notes>>, fresh' \in BOOLEAN
  PROVE  Inv'
BY DEF Inv, TypeOK, Awaited, Tick

LEMMA ScaledSees ==
  ASSUME Inv, tick.pc # "none", NEW w \in SUBSET Labs, NEW count, NEW n,
         Scaled(count, n, [tick EXCEPT !.waits = w]),
         UNCHANGED <<active, resets, blocked>>, fresh' \in BOOLEAN
  PROVE  Inv'
<1> DEFINE t == [tick EXCEPT !.waits = w]
<1>1. t.waits = w /\ [t EXCEPT !.pc = "scale"] = [tick EXCEPT !.pc = "scale", !.waits = w]
  BY DEF Inv, TypeOK, Tick
<1>2. CASE notes' = t.waits /\ Loop
  BY <1>1, <1>2, LoopSees
<1>3. CASE tick' = [t EXCEPT !.pc = "scale"] /\ UNCHANGED <<phase, again, notes>>
  BY <1>1, <1>3, RunsOn
<1> QED
  BY <1>2, <1>3 DEF Scaled

LEMMA InitSees == Init => Inv
BY DEF Init, Inv, TypeOK, Awaited, NoTick, Tick, Phase

LEMMA NextSees == Inv /\ [Next]_vars => Inv'
<1> SUFFICES ASSUME Inv, [Next]_vars PROVE Inv'
  OBVIOUS
<1> USE DEF vars, labs, pods, cluster, cache, manager
<1>1. CASE Timer
  <2>1. active \in SUBSET Labs
    BY DEF Inv, TypeOK
  <2> QED
    BY <1>1, <2>1, NudgeSees DEF Timer, Inv, TypeOK
<1>2. CASE TickListed
  <2> DEFINE w == tick.labs \cap blocked
             t == [tick EXCEPT !.waits = w]
  <2>1. w \in SUBSET Labs /\ fresh' \in BOOLEAN /\ tick.pc # "none"
    BY <1>2 DEF TickListed, Inv, TypeOK, Tick
  <2>2. CASE Scaled(known.n, Desired(tick.labs), t)
    BY <1>2, <2>1, <2>2, ScaledSees DEF TickListed
  <2>3. CASE tick' = [t EXCEPT !.pc = "get"] /\ UNCHANGED <<phase, again, notes>>
    <3>1. tick' = [tick EXCEPT !.pc = "get", !.waits = w]
      BY <2>3 DEF Inv, TypeOK, Tick
    <3> QED
      BY <1>2, <2>1, <2>3, <3>1, RunsOn DEF TickListed
  <2> QED
    BY <1>2, <2>2, <2>3 DEF TickListed
<1>3. CASE TickRead
  <2>1. tick.waits \in SUBSET Labs /\ tick = [tick EXCEPT !.waits = tick.waits]
    BY DEF Inv, TypeOK, Tick
  <2> QED
    BY <1>3, <2>1, ScaledSees DEF TickRead
<1>4. CASE TickScaled
  BY <1>4, LoopSees DEF TickScaled, Inv, TypeOK, Tick
<1>5. CASE TickFails
  BY <1>5, LoopSees DEF TickFails, Inv, TypeOK
<1>6. CASE Lapse
  BY <1>6, Elsewhere DEF Lapse, Inv, TypeOK
<1>7. ASSUME NEW k \in Labs, Wait(k) \/ Lab(k)
      PROVE  Inv'
  <2>1. CASE Open(k)
    BY <2>1, Elsewhere DEF Open, Become, Inv, TypeOK, Phase
  <2>2. CASE Reset(k)
    BY <2>2, Elsewhere DEF Reset, Become, Inv, TypeOK, Phase
  <2>3. CASE Fails(k)
    BY <2>3, Elsewhere DEF Fails, Become, Inv, TypeOK, Phase
  <2>4. CASE WaitForReservation(k)
    <3>1. active \in SUBSET Labs
      BY DEF Inv, TypeOK
    <3> QED
      BY <2>4, <3>1, NudgeSees DEF WaitForReservation, Become, Inv, TypeOK, Phase
  <2>5. CASE Reserved(k)
    BY <2>5, Elsewhere DEF Reserved, Become, Inv, TypeOK, Phase
  <2>6. CASE Provisioned(k)
    <3>1. active \in SUBSET Labs
      BY DEF Inv, TypeOK
    <3> QED
      BY <2>6, <3>1, NudgeSees DEF Provisioned, Become, Inv, TypeOK, Phase
  <2>7. CASE Answered(k)
    BY <2>7, Elsewhere DEF Answered, Become, Inv, TypeOK, Phase
  <2>8. CASE End(k)
    <3>1. active' \in SUBSET Labs /\ active' \subseteq active
      BY <2>8 DEF End, Inv, TypeOK
    <3> QED
      BY <2>8, <3>1, NudgeSees DEF End, Inv, TypeOK
  <2>9. CASE Pods(k)
    BY <2>9, Elsewhere DEF Pods, Inv, TypeOK
  <2> QED
    BY <1>7, <2>1, <2>2, <2>3, <2>4, <2>5, <2>6, <2>7, <2>8, <2>9
    DEF Wait, Lab, Refused, TimedOut, SetupFails
<1>8. CASE Balloons
  BY <1>8, Elsewhere DEF Balloons, Inv, TypeOK
<1>9. CASE Restart
  <2>1. active' \in SUBSET Labs
    BY <1>9 DEF Restart, Inv, TypeOK
  <2>2. tick' \in Tick
    BY <1>9, <2>1, BeginsType DEF Restart
  <2> QED
    BY <1>9, <2>1, <2>2 DEF Restart, Inv, TypeOK, Awaited, Phase
<1>10. CASE UNCHANGED vars
  BY <1>10, Elsewhere DEF Inv, TypeOK
<1> QED
  BY <1>1, <1>2, <1>3, <1>4, <1>5, <1>6, <1>7, <1>8, <1>9, <1>10 DEF Next, Reconcile

\* A reconcile that ends well has counted every open lab it lets go on.
LEMMA EndSees ==
  ASSUME Inv, Ends, NEW k \in active', phase'[k] \in {"poll", "setup"}
  PROVE  k \in tick.labs
<1>1. tick.pc # "none" /\ active' = active /\ k \in Labs
  BY DEF Ends, Reconcile, TickListed, TickRead, TickScaled, Inv, TypeOK
<1>2. Loop
  BY DEF Ends, Reconcile, TickListed, TickRead, TickScaled, Scaled, Inv, TypeOK, Tick
<1>3. CASE again /\ UNCHANGED phase
  BY <1>1, <1>3 DEF Inv, Awaited
<1>4. CASE ~again /\ phase' = [j \in Labs |-> IF phase[j] = "await" THEN "poll" ELSE phase[j]]
  BY <1>1, <1>4 DEF Inv, TypeOK, Awaited
<1> QED
  BY <1>2, <1>3, <1>4 DEF Loop

\* Whoever waits is seen by the reconcile in flight or by the one after it: nudge
\* (k8sCapacity.ts:209-233) coalesces without losing a lab.
THEOREM InvHolds == Spec => []Inv
BY InitSees, NextSees, PTL DEF Spec

\* Setup starts after a reconcile that counted the lab (k8sLifecycle.ts:232-233).
THEOREM HoldsCountedHolds == Spec => HoldsCounted
<1>1. Inv /\ [Next]_vars
      => [Ends => \A k \in active' : phase'[k] \in {"poll", "setup"} => k \in tick.labs]_vars
  BY EndSees
<1> QED
  BY InitSees, NextSees, <1>1, PTL DEF Spec, HoldsCounted
=============================================================================
