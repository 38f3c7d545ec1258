-------------------------- MODULE CapacityReconciler --------------------------
(***************************************************************************)
(* Slots reserved for open labs: src/backend/workspace/k8sCapacity.ts and  *)
(* the opens, resets and ends of k8sLifecycle.ts that call it.             *)
(*                                                                         *)
(* The one backend that manages a cluster scales a deployment of           *)
(* placeholder pods ("balloons") to the slots its open labs have reserved  *)
(* and do not use.  One reconcile runs at a time; whoever asks meanwhile   *)
(* (a timer, an open, an end) makes it run once more and shares its        *)
(* promise.  An open waits for that promise, and then until the balloons   *)
(* are on nodes.                                                           *)
(*                                                                         *)
(* One lab per learner, hence per namespace.  What an open does in the     *)
(* namespace is LabLifecycle's business.  Left out: the notices about      *)
(* waiting, and the check that the node pool is not asleep.                *)
(***************************************************************************)
EXTENDS Naturals, FiniteSetsExt

CONSTANTS
  Labs,
  Reserve,   \* reservePods * slotsPerPod of each lab
  Large,     \* labs that may grow beyond their reservation
  Env        \* what may go wrong: subset of Hazards

Hazards ==
  { "slow",      \* a reconcile outlasts TICK_MS, the timer's period
    "fail",      \* the cluster does not answer a reconcile
    "reapply",   \* someone re-applies balloons.yaml, which has 0 replicas
    "restart" }  \* the backend stops and is started again

ASSUME CapacityAssumption ==
  /\ Reserve \in [Labs -> Nat]
  /\ Large \subseteq Labs
  /\ Env \subseteq Hazards

VARIABLES
  active,    \* labs whose session is active
  phase,     \* how far the provision of each lab is
  resets,    \* the labs whose provision is that of a reset
  used,      \* slots in use in each lab's namespace
  blocked,   \* labs with a pod the scheduler has no room for (after the grace)
  replicas,  \* replicas of dl-balloon-reserved
  placed,    \* ... that have a node, or are made up for by running warm balloons
  known,     \* reservedReplicas, NotRead at first
  fresh,     \* whether it was read within REPLICAS_REFRESH_MS
  tick,      \* the reconcile in flight
  desired,   \* the replicas it has worked out
  again,     \* whether it was asked for once more
  notes      \* labs with a pod on record as waiting

vars == <<active, phase, resets, used, blocked, replicas, placed, known, fresh,
          tick, desired, again, notes>>
labs == <<active, phase, resets>>
pods == <<used, blocked>>
cluster == <<replicas, placed>>
cache == <<known, fresh>>
manager == <<cache, tick, desired, again, notes>>

\* idle     no provision of the lab is under way
\* queued   it has not got to the wait for the reservation
\* await    waitForReservation awaits the reconcile
\* poll     ... looks at the balloons, every 2 s until its deadline
\* setup    the wait is over; a restore or setup.sh runs
\* nodes    waitForPodsScheduled
Phase == {"idle", "queued", "await", "poll", "setup", "nodes"}

NotRead == [read |-> FALSE, n |-> 0]
Read(n) == [read |-> TRUE, n |-> n]

\* pc: the call a reconcile awaits; labs, waits: what it has seen.
Tick == [pc : {"none", "list", "get", "scale"}, labs : SUBSET Labs, waits : SUBSET Labs]
NoTick == [pc |-> "none", labs |-> {}, waits |-> {}]

\* The types of what decides who is counted; the counts themselves are sums.
TypeOK ==
  /\ active \subseteq Labs
  /\ phase \in [Labs -> Phase]
  /\ resets \subseteq Labs
  /\ blocked \subseteq Labs /\ notes \subseteq Labs
  /\ tick \in Tick
  /\ fresh \in BOOLEAN /\ again \in BOOLEAN

\* start: the timer, and a reconcile at once.
Init ==
  /\ active = {}
  /\ phase = [k \in Labs |-> "idle"]
  /\ resets = {}
  /\ used = [k \in Labs |-> 0]
  /\ blocked = {}
  /\ replicas = 0
  /\ placed = 0
  /\ known = NotRead
  /\ fresh = FALSE
  /\ tick = [NoTick EXCEPT !.pc = "list"]
  /\ desired = 0
  /\ again = FALSE
  /\ notes = {}

-----------------------------------------------------------------------------
(* Asking for a reconcile.  It looks at the open labs as it begins.         *)

Begins(open) == tick' = [NoTick EXCEPT !.pc = "list", !.labs = open]

\* Mutant of Nudge: whoever asks shares the reconcile that runs already.
NudgeShared(open) ==
  \/ /\ tick.pc # "none"
     /\ UNCHANGED <<tick, again>>
  \/ /\ tick.pc = "none"
     /\ Begins(open)
     /\ UNCHANGED again

\* nudge.
Nudge(open) ==
  \/ /\ tick.pc # "none"
     /\ again' = TRUE
     /\ UNCHANGED tick
  \/ /\ tick.pc = "none"
     /\ Begins(open)
     /\ UNCHANGED again

\* The interval.  Reconciles are shorter than it, unless "slow".
Timer ==
  /\ tick.pc = "none" \/ "slow" \in Env
  /\ Nudge(active)
  /\ UNCHANGED <<labs, pods, cluster, cache, desired, notes>>

-----------------------------------------------------------------------------
(* A reconcile.                                                             *)

\* Asked for once more, it begins again; otherwise those who wait go on.
Loop ==
  \/ /\ again
     /\ again' = FALSE
     /\ Begins(active)
     /\ UNCHANGED phase
  \/ /\ ~again
     /\ tick' = NoTick
     /\ phase' = [k \in Labs |-> IF phase[k] = "await" THEN "poll" ELSE phase[k]]
     /\ UNCHANGED again

\* The slots that open labs have reserved and do not use.
Unused(k) == IF used[k] < Reserve[k] THEN Reserve[k] - used[k] ELSE 0
Desired(open) == MapThenSumSet(Unused, open)

\* scaleReserved, once it has a count it trusts, and trackWaiting.
Scaled(count, n, t) ==
  \/ /\ n = count
     /\ desired' = 0
     /\ notes' = t.waits
     /\ Loop
  \/ /\ n # count
     /\ desired' = n
     /\ tick' = [t EXCEPT !.pc = "scale"]
     /\ UNCHANGED <<phase, again, notes>>

\* Mutant of Trusted: the count is read once.
TrustedForGood == known.read
Trusted == known.read /\ fresh

\* Quotas and pending pods are listed, and the slots added up.
TickListed ==
  /\ tick.pc = "list"
  /\ LET n == Desired(tick.labs)
         t == [tick EXCEPT !.waits = tick.labs \cap blocked] IN
       \/ Trusted /\ Scaled(known.n, n, t)
       \/ /\ ~Trusted
          /\ desired' = n
          /\ tick' = [t EXCEPT !.pc = "get"]
          /\ UNCHANGED <<phase, again, notes>>
  /\ UNCHANGED <<active, resets, pods, cluster, cache>>

TickRead ==
  /\ tick.pc = "get"
  /\ known' = Read(replicas)
  /\ fresh' = TRUE
  /\ Scaled(replicas, desired, tick)
  /\ UNCHANGED <<active, resets, pods, cluster>>

\* Scaling down takes balloons away, those without a node first.
Deployed(n) ==
  /\ replicas' = n
  /\ placed' = IF placed > n THEN n ELSE placed

TickScaled ==
  /\ tick.pc = "scale"
  /\ Deployed(desired)
  /\ known' = Read(desired)
  /\ desired' = 0
  /\ notes' = tick.waits
  /\ Loop
  /\ UNCHANGED <<active, resets, pods, fresh>>

\* The error is logged; the reconcile counts as done.
TickFails ==
  /\ "fail" \in Env
  /\ tick.pc # "none"
  /\ tick.pc = "list" => tick.labs # {}
  /\ \/ UNCHANGED cluster
     \/ tick.pc = "scale" /\ Deployed(desired)
  /\ desired' = 0
  /\ Loop
  /\ UNCHANGED <<active, resets, pods, cache, notes>>

Lapse ==
  /\ fresh
  /\ fresh' = FALSE
  /\ UNCHANGED <<labs, pods, cluster, known, tick, desired, again, notes>>

-----------------------------------------------------------------------------
(* Opens, resets and ends.                                                  *)

Become(k, p) == phase' = [phase EXCEPT ![k] = p]

\* A session becomes active.  (Bound: not while an open of the lab is under
\* way that its learner has ended.)
Open(k) ==
  /\ k \notin active
  /\ phase[k] = "idle"
  /\ active' = active \cup {k}
  /\ Become(k, "queued")
  /\ UNCHANGED <<resets, pods, cluster, manager>>

\* The same provision, of a session that exists.  (Bound: of a lab that is open.)
Reset(k) ==
  /\ k \in active
  /\ phase[k] = "idle"
  /\ Become(k, "queued")
  /\ resets' = resets \cup {k}
  /\ UNCHANGED <<active, pods, cluster, manager>>

\* A failed open ends its session, a failed reset does not.
Fails(k) ==
  /\ Become(k, "idle")
  /\ active' = IF k \in resets THEN active ELSE active \ {k}
  /\ resets' = resets \ {k}
  /\ UNCHANGED <<pods, cluster, manager>>

\* No node pool, or no clean namespace.
Refused(k) == phase[k] = "queued" /\ Fails(k)

\* waitForReservation.  The namespace is empty by now.
WaitForReservation(k) ==
  /\ phase[k] = "queued"
  /\ Become(k, "await")
  /\ used' = [used EXCEPT ![k] = 0]
  /\ blocked' = blocked \ {k}
  /\ Nudge(active)
  /\ UNCHANGED <<active, resets, cluster, cache, desired, notes>>

\* pollReservation: the balloons all exist, and each has a node or a warm stand-in.
Reserved(k) ==
  /\ phase[k] = "poll"
  /\ placed >= known.n
  /\ Become(k, "setup")
  /\ UNCHANGED <<active, resets, pods, cluster, manager>>

\* Mutant of TimedOut: the loop looks at the balloons only.
TimedOutNever(k) == phase[k] = "poll" /\ placed > known.n /\ Fails(k)

\* ... or its deadline passes.
TimedOut(k) == phase[k] = "poll" /\ Fails(k)

SetupFails(k) == phase[k] = "setup" /\ Fails(k)

\* waitForPodsScheduled nudges and waits.
Provisioned(k) ==
  /\ phase[k] = "setup"
  /\ Become(k, "nodes")
  /\ Nudge(active)
  /\ UNCHANGED <<active, resets, pods, cluster, cache, desired, notes>>

\* A reset makes its session active, whatever happened to it meanwhile.
Answered(k) ==
  /\ phase[k] = "nodes"
  /\ Become(k, "idle")
  /\ active' = IF k \in resets THEN active \cup {k} ELSE active
  /\ resets' = resets \ {k}
  /\ UNCHANGED <<pods, cluster, manager>>

\* endK8sSession, at any time; it does not stop a provision.
End(k) ==
  /\ k \in active
  /\ active' = active \ {k}
  /\ Nudge(active')
  /\ UNCHANGED <<phase, resets, pods, cluster, cache, desired, notes>>

-----------------------------------------------------------------------------
(* The cluster.                                                             *)

\* Pods of an open lab come and go.  (Bounds: as many as it has reserved; when
\* these are all there, another one of a large lab may wait for room.)
Pods(k) ==
  /\ k \in active
  /\ phase[k] \in {"idle", "setup", "nodes"}
  /\ \/ /\ \E n \in 0 .. Reserve[k] : n # used[k] /\ used' = [used EXCEPT ![k] = n]
        /\ k \notin blocked
        /\ UNCHANGED blocked
     \/ /\ k \in Large /\ used[k] = Reserve[k]
        /\ blocked' = IF k \in blocked THEN blocked \ {k} ELSE blocked \cup {k}
        /\ UNCHANGED used
  /\ UNCHANGED <<labs, cluster, manager>>

Place == placed < replicas /\ placed' = placed + 1 /\ UNCHANGED replicas
Preempt == placed > 0 /\ placed' = placed - 1 /\ UNCHANGED replicas
Reapply == "reapply" \in Env /\ replicas # 0 /\ Deployed(0)

Balloons ==
  /\ Place \/ Preempt \/ Reapply
  /\ UNCHANGED <<labs, pods, manager>>

\* Sessions whose row is active are restored.  The row of an open that was cut
\* short is active if the session was new.
Restart ==
  /\ "restart" \in Env
  /\ \E new \in SUBSET {k \in active \ resets : phase[k] # "idle"} :
       active' = {k \in active : phase[k] = "idle" \/ k \in resets \cup new}
  /\ phase' = [k \in Labs |-> "idle"]
  /\ resets' = {}
  /\ known' = NotRead
  /\ fresh' = FALSE
  /\ Begins(active')
  /\ desired' = 0
  /\ again' = FALSE
  /\ notes' = {}
  /\ UNCHANGED <<pods, cluster>>

-----------------------------------------------------------------------------
Wait(k) == Reserved(k) \/ TimedOut(k)
Lab(k) ==
  \/ Open(k) \/ Reset(k) \/ Refused(k) \/ WaitForReservation(k)
  \/ SetupFails(k) \/ Provisioned(k) \/ Answered(k) \/ End(k)
  \/ Pods(k)
Reconcile == TickListed \/ TickRead \/ TickScaled

Next ==
  \/ Timer
  \/ Reconcile \/ TickFails
  \/ Lapse
  \/ \E k \in Labs : Wait(k) \/ Lab(k)
  \/ Balloons
  \/ Restart

Spec == Init /\ [][Next]_vars

\* The timer fires, the cluster answers in the end, deadlines and caches expire.
FairSpec ==
  /\ Spec
  /\ WF_vars(Timer)
  /\ WF_vars(Lapse)
  /\ SF_vars(TickListed) /\ SF_vars(TickRead) /\ SF_vars(TickScaled)
  /\ \A k \in Labs : WF_vars(Wait(k))
-----------------------------------------------------------------------------
(* Properties.                                                              *)

\* "On lab open, setup waits until every reserved balloon has a node"
\* (deploy/eks/README.md:145-146), its own among them: a reconcile that ends well
\* has counted every open lab that is past its await or whose await ends with it.
Ends == Reconcile /\ tick'.pc \in {"none", "list"}
HoldsCounted ==
  [][Ends => \A k \in active' : phase'[k] \in {"poll", "setup"} => k \in tick.labs]_vars

\* What makes it so: whoever waits is seen by the reconcile in flight or by the
\* one that follows it.
Awaited ==
  /\ \A k \in Labs : phase[k] = "await" => tick.pc # "none"
  /\ \A k \in active :
       /\ phase[k] = "await" => again \/ k \in tick.labs
       /\ phase[k] \in {"poll", "setup"} /\ tick.pc # "none" => k \in tick.labs

\* The inductive invariant of nudge (k8sCapacity.ts:209-233).
Inv == TypeOK /\ Awaited

\* A wait for the reservation ends, by success or by its deadline
\* (k8sCapacity.ts:254-258, "90 s cap each" in deploy/eks/README.md:147-148),
\* once no more labs are ended, each asking for one more reconcile.
EndsCease == <>[][\A k \in Labs : ~End(k)]_vars
Held(k) == phase[k] \in {"await", "poll"}
HoldEnds == EndsCease => \A k \in Labs : Held(k) ~> ~Held(k)

\* When labs and their pods stop changing and nobody re-applies the manifest,
\* the deployment settles at the slots that are reserved and not used, and what
\* is on record as waiting is what waits.
Calm == <>[][UNCHANGED <<active, pods>> /\ ~(Reapply \/ Restart)]_vars
Settles == Calm => <>[](replicas = Desired(active) /\ notes = blocked \cap active)
=============================================================================
