---------------------------- MODULE TabLeaseProofs ----------------------------
(* One open lab per learner, and the terminals on it, for any tabs, labs and  *)
(* boards.                                                                    *)
EXTENDS TabLease, TLAPS

\* The sessions whose end the request of a tab in state r awaits.
EndsOf(r) == (IF r.pc = "quitting" THEN {r.lab} ELSE {}) \cup ({r.cur} \ {None})

WellFormed(r) ==
  /\ r.pc # "away" => r.lab \in Labs
  /\ r.pc # "ending" => r.todo = {}
  /\ r.cur # None <=> r.pc = "ending"

\* What a tab in state r, that was allowed to start, has still to end.
Claims(r) == {r.lab} \cup r.todo

Typed == TypeOK /\ Formed

-----------------------------------------------------------------------------
(* Types.                                                                    *)

LEMMA AwayType ==
  /\ Away \in Tab
  /\ WellFormed(Away)
  /\ Away.pc = "away" /\ Away.lab = None /\ Away.todo = {} /\ Away.cur = None
  /\ Away.dial = FALSE
BY DEF Away, Tab, WellFormed

\* A start that may go on, and one that awaits the end of s.
Goes(l) == [Away EXCEPT !.pc = "open", !.lab = l]
Awaits(l, s, left) == [Away EXCEPT !.pc = "ending", !.lab = l, !.cur = s, !.todo = left]

LEMMA StartType ==
  ASSUME NEW l \in Labs, NEW s \in Labs, NEW left \in SUBSET Labs
  PROVE  /\ Goes(l) \in Tab /\ WellFormed(Goes(l))
         /\ Goes(l).pc = "open" /\ Goes(l).lab = l /\ ~Goes(l).dial
         /\ EndsOf(Goes(l)) = {} /\ Claims(Goes(l)) = {l}
         /\ Awaits(l, s, left) \in Tab /\ WellFormed(Awaits(l, s, left))
         /\ Awaits(l, s, left).pc = "ending" /\ Awaits(l, s, left).lab = l
         /\ ~Awaits(l, s, left).dial
         /\ EndsOf(Awaits(l, s, left)) = {s} /\ Claims(Awaits(l, s, left)) = {l} \cup left
<1>1. s # None
  BY TabsAssumption
<1> QED
  BY <1>1 DEF Goes, Awaits, Away, Tab, WellFormed, EndsOf, Claims

LEMMA ClaimType ==
  ASSUME TypeOK, NEW l, NEW t \in Tabs, Claim(l, t)
  PROVE  lease' \in [Labs -> Lease] /\ shells' \subseteq shells
BY DEF TypeOK, Claim, Lease

LEMMA NoLeaseType == NoLease \in Lease /\ NoLease.tab = None /\ ~NoLease.fresh
BY DEF NoLease, Lease

LEMMA WithoutLeaseType ==
  ASSUME TypeOK, NEW ended
  PROVE  WithoutLease(ended) \in [Labs -> Lease]
BY NoLeaseType DEF TypeOK, WithoutLease

\* A start goes on, or awaits the end of s and then has left to end.
GoesOn(t, l, todo) ==
  /\ todo \cap (active \ Ending) = {}
  /\ lease' = WithoutLease(todo)
  /\ tab' = [tab EXCEPT ![t] = Goes(l)]
  /\ active' = active /\ idle' = idle
EndsFirst(t, l, todo, s, left) ==
  /\ s \in todo \cap (active \ Ending)
  /\ left \subseteq todo \ {s}
  /\ todo \cap (active \ Ending) \subseteq left \cup {s}
  /\ lease' = WithoutLease(todo \ left)
  /\ active' = active \ {s} /\ idle' = idle \ {s}
  /\ tab' = [tab EXCEPT ![t] = Awaits(l, s, left)]

LEMMA EndOthersForm ==
  ASSUME NEW t \in Tabs, NEW l \in Labs, NEW todo \in SUBSET Labs, EndOthers(t, l, todo)
  PROVE  \/ GoesOn(t, l, todo)
         \/ \E s \in Labs, left \in SUBSET Labs : EndsFirst(t, l, todo, s, left)
<1> DEFINE toEnd == todo \cap (active \ Ending)
<1>1. CASE toEnd = {} /\ lease' = WithoutLease(todo)
           /\ tab' = [tab EXCEPT ![t] = Goes(l)] /\ UNCHANGED <<active, idle>>
  BY <1>1 DEF GoesOn
<1>2. ASSUME NEW s \in toEnd, NEW passed \in SUBSET (todo \ toEnd),
             lease' = WithoutLease(passed \cup {s}), active' = active \ {s}, idle' = idle \ {s},
             tab' = [tab EXCEPT ![t] = Awaits(l, s, todo \ (passed \cup {s}))]
      PROVE  \E left \in SUBSET Labs : s \in Labs /\ EndsFirst(t, l, todo, s, left)
  <2> DEFINE left == todo \ (passed \cup {s})
  <2>1. todo \ left = passed \cup {s}
    OBVIOUS
  <2>2. /\ left \in SUBSET Labs /\ left \subseteq todo \ {s} /\ s \in Labs
        /\ toEnd \subseteq left \cup {s}
    OBVIOUS
  <2>3. lease' = WithoutLease(todo \ left) /\ tab' = [tab EXCEPT ![t] = Awaits(l, s, left)]
    BY <1>2, <2>1
  <2> HIDE DEF left
  <2>4. EndsFirst(t, l, todo, s, left)
    BY <1>2, <2>2, <2>3 DEF EndsFirst
  <2> QED
    BY <2>2, <2>4
<1> QED
  BY <1>1, <1>2 DEF EndOthers, Goes, Awaits

LEMMA EndOthersType ==
  ASSUME Typed, NEW t \in Tabs, NEW l \in Labs, NEW todo \in SUBSET Labs,
         EndOthers(t, l, todo)
  PROVE  /\ active' \subseteq active /\ idle' \subseteq idle
         /\ lease' \in [Labs -> Lease]
         /\ \E r \in Tab : WellFormed(r) /\ tab' = [tab EXCEPT ![t] = r]
<1>1. TypeOK
  BY DEF Typed
<1>2. CASE GoesOn(t, l, todo)
  BY <1>1, <1>2, StartType, WithoutLeaseType DEF GoesOn
<1>3. ASSUME NEW s \in Labs, NEW left \in SUBSET Labs, EndsFirst(t, l, todo, s, left)
      PROVE  /\ active' \subseteq active /\ idle' \subseteq idle
             /\ lease' \in [Labs -> Lease]
             /\ \E r \in Tab : WellFormed(r) /\ tab' = [tab EXCEPT ![t] = r]
  BY <1>1, <1>3, StartType, WithoutLeaseType DEF EndsFirst
<1> QED
  BY <1>2, <1>3, EndOthersForm

\* The labs a start may have to end.
LEMMA ToEndType ==
  ASSUME TypeOK, NEW l \in Labs, NEW force \in BOOLEAN
  PROVE  ToEnd(l, force) \in SUBSET Labs
BY DEF ToEnd, Others, TypeOK

\* A tab's request, or the tab, is somewhere else.
LEMMA TabMoves ==
  ASSUME Typed, NEW t \in Tabs, NEW r \in Tab, WellFormed(r), tab' = [tab EXCEPT ![t] = r]
  PROVE  tab' \in [Tabs -> Tab] /\ Formed'
BY DEF Typed, TypeOK, Formed, WellFormed

LEMMA TabAt ==
  ASSUME Typed, NEW t \in Tabs, tab[t].pc # "away"
  PROVE  /\ tab[t] \in Tab /\ WellFormed(tab[t]) /\ tab[t].lab \in Labs
         /\ tab[t].todo \in SUBSET Labs
BY DEF Typed, TypeOK, Formed, Tab, WellFormed

\* A tab on screen stays on screen.
Screen(r, pc, dial) == [r EXCEPT !.pc = pc, !.dial = dial]

LEMMA ScreenMoves ==
  ASSUME Typed, NEW t \in Tabs, NEW pc \in OnScreen, NEW dial \in BOOLEAN,
         tab[t].pc \in OnScreen,
         \/ tab' = [tab EXCEPT ![t].pc = pc, ![t].dial = dial]
         \/ dial = tab[t].dial /\ tab' = [tab EXCEPT ![t].pc = pc]
         \/ pc = tab[t].pc /\ tab' = [tab EXCEPT ![t].dial = dial]
  PROVE  LET r == Screen(tab[t], pc, dial)
         IN  /\ r \in Tab /\ WellFormed(r) /\ r.pc = pc /\ r.dial = dial
             /\ r.lab = tab[t].lab
             /\ tab' = [tab EXCEPT ![t] = r]
             /\ tab' \in [Tabs -> Tab] /\ Formed'
<1> DEFINE r == Screen(tab[t], pc, dial)
<1>1. tab[t] \in Tab /\ WellFormed(tab[t]) /\ tab \in [Tabs -> Tab]
  BY TabAt DEF OnScreen, Typed, TypeOK
<1>2. r \in Tab /\ WellFormed(r) /\ r.pc = pc /\ r.dial = dial /\ r.lab = tab[t].lab
  BY <1>1 DEF Tab, WellFormed, OnScreen, Screen
<1>3. tab' = [tab EXCEPT ![t] = r]
  <2>1. CASE tab' = [tab EXCEPT ![t].pc = pc, ![t].dial = dial]
    BY <1>1, <2>1 DEF Tab, Screen
  <2>2. CASE dial = tab[t].dial /\ tab' = [tab EXCEPT ![t].pc = pc]
    BY <1>1, <2>2 DEF Tab, Screen
  <2>3. CASE pc = tab[t].pc /\ tab' = [tab EXCEPT ![t].dial = dial]
    BY <1>1, <2>3 DEF Tab, Screen
  <2> QED
    BY <2>1, <2>2, <2>3
<1> HIDE DEF r
<1>4. tab' \in [Tabs -> Tab] /\ Formed'
  BY <1>2, <1>3, TabMoves
<1> QED
  BY <1>2, <1>3, <1>4 DEF r

\* /end fails: the tab is away, or shows its board again.
LEMMA EndFailsForm ==
  ASSUME Typed, NEW t \in Tabs, tab[t].pc = "quitting", EndFails(t)
  PROVE  \E r \in Tab : /\ WellFormed(r) /\ tab' = [tab EXCEPT ![t] = r]
                        /\ \/ r = Away
                           \/ /\ r.pc = "here" /\ r.lab = tab[t].lab /\ r.lab \in Boards
                              /\ r.dial = tab[t].dial
<1> DEFINE shown == [tab[t] EXCEPT !.pc = "here"]
<1>1. tab[t] \in Tab /\ WellFormed(tab[t])
  BY TabAt
<1>2. /\ shown \in Tab /\ WellFormed(shown)
      /\ shown.pc = "here" /\ shown.lab = tab[t].lab /\ shown.dial = tab[t].dial
  BY <1>1 DEF Tab, WellFormed
<1>3. tab' = [tab EXCEPT ![t] = IF tab[t].lab \in Boards /\ t \notin gone THEN shown ELSE Away]
  BY DEF EndFails, Typed, TypeOK
<1> HIDE DEF shown
<1> QED
  BY <1>2, <1>3, AwayType

\* A reset leaves a tab as it is, or has it dial its lab again.
LEMMA ResetForm ==
  ASSUME Typed, NEW t \in Tabs, NEW l, ResetDone(t, l)
  PROVE  \/ tab' = tab
         \/ /\ tab[t].pc \in OnScreen /\ tab[t].lab = l /\ t \notin gone
            /\ "hasty" \in Env \/ (l \in active \ revived => lease[l].tab = t)
            /\ tab' \in [Tabs -> Tab] /\ Formed'
            /\ \E r \in Tab : /\ WellFormed(r) /\ tab' = [tab EXCEPT ![t] = r]
                              /\ r.pc = tab[t].pc /\ r.lab = l
<1>1. CASE /\ tab[t].pc \in OnScreen /\ tab[t].lab = l /\ t \notin gone
           /\ "hasty" \in Env \/ (l \in active \ revived => lease[l].tab = t)
           /\ tab' = [tab EXCEPT ![t].dial = TRUE]
  <2> DEFINE pc == tab[t].pc
             r == Screen(tab[t], pc, TRUE)
  <2>1. pc \in OnScreen /\ tab[t].pc \in OnScreen /\ pc = tab[t].pc
    BY <1>1
  <2> HIDE DEF pc
  <2>2. /\ r \in Tab /\ WellFormed(r) /\ r.pc = tab[t].pc /\ r.lab = tab[t].lab
        /\ tab' = [tab EXCEPT ![t] = r] /\ tab' \in [Tabs -> Tab] /\ Formed'
    BY <1>1, <2>1, ScreenMoves
  <2> HIDE DEF r
  <2>3. \E x \in Tab : /\ WellFormed(x) /\ tab' = [tab EXCEPT ![t] = x]
                       /\ x.pc = tab[t].pc /\ x.lab = l
    <3>1. r.lab = l
      BY <1>1, <2>2
    <3> QED
      BY <2>2, <3>1
  <2> QED
    BY <1>1, <2>2, <2>3
<1> QED
  BY <1>1 DEF ResetDone, Shows

\* Terminals that are closed or marked.
LEMMA MarkedType ==
  ASSUME TypeOK, NEW l
  PROVE  /\ SessionEnd(l) \subseteq Shell /\ LeftOpen(l) \subseteq Shell
         /\ {Noted(s, l) : s \in shells} \subseteq Shell
BY DEF TypeOK, SessionEnd, LeftOpen, Noted, Shell

LEMMA SetActiveType ==
  ASSUME TypeOK, NEW l \in Labs, SetActive(l)
  PROVE  active' \subseteq Labs /\ shells' \subseteq Shell
BY MarkedType DEF SetActive, TypeOK

LEMMA MayBeIdleType ==
  ASSUME TypeOK, NEW l \in Labs, MayBeIdle(l)
  PROVE  idle' \subseteq Labs
BY DEF MayBeIdle, TypeOK

LEMMA RowType ==
  ASSUME AgainOK, NEW l \in Labs, RowWritten(l) \/ RowFails(l)
  PROVE  unsaved' \subseteq Labs /\ spent' \in Nat
BY DEF AgainOK, RowWritten, RowFails, Spend

\* A row is written or not, a request is done with, a session is in memory, and
\* what was noted of a session no longer counts.
LEMMA AgainStep ==
  ASSUME AgainOK, NEW l \in Labs,
         RowWritten(l) \/ RowFails(l) \/ UNCHANGED <<unsaved, spent>>,
         writes' \subseteq writes, stored' \subseteq stored \cup {l},
         revived' \subseteq revived \cup {l}
  PROVE  AgainOK'
<1>1. unsaved' \subseteq Labs /\ spent' \in Nat
  BY RowType DEF AgainOK
<1> QED
  BY <1>1 DEF AgainOK

LEMMA ServerAgain ==
  ASSUME Typed, NEW t \in Tabs, Server(t) \/ OpenFails(t)
  PROVE  AgainOK'
<1>1. AgainOK /\ tab[t] \in Tab
  BY DEF Typed, TypeOK
<1>2. tab[t].pc # "away" => tab[t].lab \in Labs
  BY DEF Typed, Formed
<1>3. CASE EndedOther(t)
  <2>1. tab[t].cur \in Labs
    BY <1>1, <1>3 DEF EndedOther, Tab, Typed, Formed
  <2> QED
    BY <1>1, <1>3, <2>1, AgainStep DEF EndedOther, EndSaved
<1>4. CASE Activate(t) \/ Reactivate(t)
  BY <1>1, <1>2, <1>4, AgainStep DEF Activate, Reactivate, Activated
<1>5. CASE Opened(t)
  BY <1>1, <1>2, <1>5, AgainStep DEF Opened
<1>6. CASE OpenFails(t)
  BY <1>1, <1>2, <1>6, AgainStep DEF OpenFails, RowTried
<1>7. CASE EndDone(t)
  BY <1>1, <1>2, <1>7, AgainStep DEF EndDone
<1>8. ASSUME NEW l \in Labs, SaveBoard(t, l) \/ ResetDone(t, l)
      PROVE  AgainOK'
  BY <1>1, <1>8, AgainStep DEF SaveBoard, ResetDone, SetActive, RowTried
<1> QED
  BY <1>3, <1>4, <1>5, <1>6, <1>7, <1>8 DEF Server

LEMMA NextAgain ==
  ASSUME Typed, [Next]_vars
  PROVE  AgainOK'
<1>1. AgainOK
  BY DEF Typed, TypeOK
<1>2. CASE UNCHANGED again
  BY <1>1, <1>2 DEF again, AgainOK
<1>3. ASSUME NEW t \in Tabs, NEW l \in Labs, AsksWrite(t, l),
             UNCHANGED <<stored, unsaved, revived>>
      PROVE  AgainOK'
  BY <1>1, <1>3 DEF AgainOK, AsksWrite, Spend
<1>4. ASSUME NEW t \in Tabs, Browser(t)
      PROVE  AgainOK'
  <2>1. CASE Edit(t) \/ Reset(t)
    <3>1. tab[t].lab \in Labs
      BY <2>1, TabAt DEF Edit, Reset, Shows
    <3> QED
      BY <1>3, <2>1, <3>1 DEF Edit, Reset
  <2> QED
    BY <1>2, <1>4, <2>1 DEF Browser, Start, Heartbeat, UseHere, Leave, Touch, End, Close, Connect
<1>5. CASE Watcher
  <2>1. CASE SweepEnded
    <3>1. sweep.cur \in Labs
      BY <2>1 DEF SweepEnded, Typed, TypeOK
    <3> QED
      BY <1>1, <2>1, <3>1, AgainStep DEF SweepEnded, EndSaved
  <2> QED
    BY <1>2, <1>5, <2>1 DEF Watcher, SweepOnce
<1>6. CASE Restart
  <2>1. active' \subseteq Labs
    BY <1>1, <1>6 DEF Restart, AgainOK, Quitting, Ending, Typed, TypeOK, Formed, Tab
  <2> QED
    BY <1>1, <1>6, <2>1 DEF Restart, AgainOK
<1> QED
  BY <1>2, <1>4, <1>5, <1>6, ServerAgain
  DEF Next, Terminal, Attach, Disconnect, Lapse, GoIdle, vars

\* What a step of a tab does to its own state, and the types of the rest.
LEMMA ServerTyped ==
  ASSUME Typed, AgainOK', NEW t \in Tabs, Server(t) \/ OpenFails(t)
  PROVE  Typed'
<1> USE DEF Typed
<1>1. CASE EndedOther(t)
  <2>1. tab[t].lab \in Labs /\ tab[t].todo \in SUBSET Labs
    BY <1>1, TabAt DEF EndedOther
  <2>2. /\ EndOthers(t, tab[t].lab, tab[t].todo)
        /\ shells' \subseteq Shell /\ UNCHANGED <<gone, sweep>>
    BY <1>1, MarkedType DEF EndedOther, EndSaved
  <2> QED
    BY <2>1, <2>2, EndOthersType, TabMoves DEF TypeOK
<1>2. CASE Activate(t) \/ Reactivate(t)
  <2>1. PICK pc \in {"resuming", "opening"} : tab' = [tab EXCEPT ![t].pc = pc]
    BY <1>2 DEF Activate, Reactivate
  <2>2. /\ tab[t].pc \in {"open", "resuming"}
        /\ active' = active \cup {tab[t].lab} /\ MayBeIdle(tab[t].lab)
        /\ UNCHANGED <<lease, gone, shells, sweep>>
    BY <1>2 DEF Activate, Reactivate, Activated
  <2> DEFINE r == [tab[t] EXCEPT !.pc = pc]
  <2>3. tab[t] \in Tab /\ WellFormed(tab[t]) /\ tab[t].lab \in Labs
    BY <2>2, TabAt
  <2>4. r \in Tab /\ WellFormed(r)
    BY <2>2, <2>3 DEF Tab, WellFormed
  <2>5. tab' = [tab EXCEPT ![t] = r]
    BY <2>1 DEF TypeOK
  <2> HIDE DEF r
  <2>6. idle' \subseteq Labs
    BY <2>2, <2>3, MayBeIdleType
  <2> QED
    BY <2>2, <2>3, <2>4, <2>5, <2>6, TabMoves DEF TypeOK
<1>3. CASE Opened(t)
  <2> DEFINE shown == [tab[t] EXCEPT !.pc = "here", !.dial = tab[t].lab \notin Boards]
             r == IF t \in gone THEN Away ELSE shown
  <2>1. /\ tab[t].pc \in {"opening", "resuming"}
        /\ Claim(tab[t].lab, t)
        /\ idle' \subseteq idle
        /\ tab' = [tab EXCEPT ![t] = r]
        /\ UNCHANGED <<active, gone, sweep>>
    BY <1>3 DEF Opened
  <2>2. tab[t] \in Tab /\ WellFormed(tab[t])
    BY <2>1, TabAt
  <2>3. shown \in Tab /\ WellFormed(shown)
    BY <2>1, <2>2 DEF Tab, WellFormed
  <2> HIDE DEF shown
  <2>4. r \in Tab /\ WellFormed(r)
    BY <2>3, AwayType
  <2> HIDE DEF r
  <2> QED
    BY <2>1, <2>4, TabMoves, ClaimType DEF TypeOK
<1>4. CASE OpenFails(t)
  BY <1>4, AwayType, TabMoves DEF OpenFails, TypeOK
<1>5. CASE EndDone(t)
  <2>1. CASE FinishEnd(t)
    BY <1>5, <2>1, AwayType, TabMoves, NoLeaseType DEF EndDone, FinishEnd, SessionEnd, TypeOK
  <2>2. CASE EndFails(t)
    <3>1. PICK r \in Tab : WellFormed(r) /\ tab' = [tab EXCEPT ![t] = r]
      BY <1>5, <2>2, EndFailsForm DEF EndDone
    <3> QED
      BY <1>5, <2>2, <3>1, MarkedType, TabMoves DEF EndDone, EndFails, TypeOK
  <2> QED
    BY <1>5, <2>1, <2>2 DEF EndDone
<1>6. ASSUME NEW l \in Labs, SaveBoard(t, l)
      PROVE  Typed'
  <2>1. active' \subseteq Labs /\ shells' \subseteq Shell /\ idle' \subseteq Labs
    BY <1>6, SetActiveType, MayBeIdleType DEF SaveBoard, TypeOK
  <2> QED
    BY <1>6, <2>1 DEF SaveBoard, TypeOK, Formed
<1>7. ASSUME NEW l \in Labs, ResetDone(t, l)
      PROVE  Typed'
  <2>1. active' \subseteq Labs /\ shells' \subseteq Shell /\ idle' \subseteq Labs
    BY <1>7, SetActiveType, MayBeIdleType DEF ResetDone, TypeOK
  <2>2. tab' \in [Tabs -> Tab] /\ Formed'
    BY <1>7, ResetForm DEF TypeOK, Formed
  <2> QED
    BY <1>7, <2>1, <2>2 DEF ResetDone, TypeOK
<1> QED
  BY <1>1, <1>2, <1>3, <1>4, <1>5, <1>6, <1>7 DEF Server

LEMMA BrowserTyped ==
  ASSUME Typed, AgainOK', NEW t \in Tabs, Browser(t)
  PROVE  Typed'
<1> USE DEF Typed
<1>1. ASSUME NEW pc \in OnScreen, NEW dial \in BOOLEAN, tab[t].pc \in OnScreen,
             \/ tab' = [tab EXCEPT ![t].pc = pc, ![t].dial = dial]
             \/ dial = tab[t].dial /\ tab' = [tab EXCEPT ![t].pc = pc]
             \/ pc = tab[t].pc /\ tab' = [tab EXCEPT ![t].dial = dial]
      PROVE  tab' \in [Tabs -> Tab] /\ Formed'
  BY <1>1, ScreenMoves
<1>2. ASSUME tab' = [tab EXCEPT ![t] = Away]
      PROVE  tab' \in [Tabs -> Tab] /\ Formed'
  BY <1>2, AwayType, TabMoves
<1>3. ASSUME UNCHANGED tab
      PROVE  tab' \in [Tabs -> Tab] /\ Formed'
  BY <1>3 DEF TypeOK, Formed
<1>4. tab[t].dial \in BOOLEAN
  BY DEF TypeOK, Tab
<1>5. ASSUME NEW l \in Labs, NEW force \in BOOLEAN, Start(t, l, force)
      PROVE  Typed'
  <2>1. /\ EndOthers(t, l, ToEnd(l, force)) /\ UNCHANGED <<gone, shells, sweep>>
        /\ ToEnd(l, force) \in SUBSET Labs
    BY <1>5, ToEndType DEF Start
  <2> QED
    BY <2>1, EndOthersType, TabMoves DEF TypeOK
<1>6. CASE Heartbeat(t)
  <2>1. tab[t].pc = "here" /\ UNCHANGED <<active, idle, gone, sweep>>
    BY <1>6 DEF Heartbeat, Shows
  <2>2. CASE Claim(tab[t].lab, t) /\ UNCHANGED tab
    BY <1>3, <2>1, <2>2, ClaimType DEF TypeOK
  <2>3. ASSUME NEW pc \in {"ended", "taken"}, tab' = [tab EXCEPT ![t].pc = pc],
               UNCHANGED <<lease, shells>>
        PROVE  Typed'
    BY <1>1, <1>4, <2>1, <2>3 DEF TypeOK, OnScreen
  <2> QED
    BY <1>6, <2>2, <2>3 DEF Heartbeat
<1>7. CASE UseHere(t)
  <2>1. tab[t].pc = "taken" /\ UNCHANGED <<active, idle, gone, sweep>>
    BY <1>7 DEF UseHere, Shows
  <2>2. CASE /\ Claim(tab[t].lab, t)
             /\ tab' = [tab EXCEPT ![t].pc = "here", ![t].dial = tab[t].lab \notin Boards]
    BY <1>1, <2>1, <2>2, ClaimType DEF TypeOK, OnScreen
  <2>3. CASE tab' = [tab EXCEPT ![t].pc = "ended"] /\ UNCHANGED <<lease, shells>>
    BY <1>1, <1>4, <2>1, <2>3 DEF TypeOK, OnScreen
  <2> QED
    BY <1>7, <2>2, <2>3 DEF UseHere
<1>8. CASE Edit(t) \/ Reset(t)
  BY <1>3, <1>8 DEF Edit, Reset, TypeOK
<1>9. CASE Connect(t)
  <2>1. /\ tab[t].pc \in OnScreen /\ tab' = [tab EXCEPT ![t].dial = FALSE]
        /\ UNCHANGED <<active, idle, lease, gone, sweep>>
    BY <1>9 DEF Connect, Shows
  <2>2. tab[t].lab \in Labs
    BY <2>1, TabAt DEF OnScreen
  <2>3. shells' \subseteq Shell
    BY <1>9, <2>2 DEF Connect, TypeOK, Shell
  <2>4. tab' \in [Tabs -> Tab] /\ Formed'
    BY <1>1, <2>1
  <2> QED
    BY <2>1, <2>3, <2>4 DEF TypeOK
<1>10. CASE Leave(t)
  BY <1>2, <1>10 DEF Leave, TypeOK
<1>11. CASE Touch(t)
  BY <1>3, <1>11 DEF Touch, TypeOK
<1>12. CASE End(t)
  <2>1. tab[t].pc = "here" /\ idle' \subseteq idle /\ UNCHANGED <<gone, sweep>>
    BY <1>12 DEF End, Shows
  <2>2. CASE /\ active' = active \ {tab[t].lab}
             /\ tab' = [tab EXCEPT ![t].pc = "quitting"]
             /\ UNCHANGED <<lease, shells>>
    <3> DEFINE r == [tab[t] EXCEPT !.pc = "quitting"]
    <3>1. tab[t] \in Tab /\ WellFormed(tab[t])
      BY <2>1, TabAt
    <3>2. r \in Tab /\ WellFormed(r)
      BY <2>1, <3>1 DEF Tab, WellFormed
    <3>3. tab' = [tab EXCEPT ![t] = r]
      BY <2>2 DEF TypeOK
    <3> HIDE DEF r
    <3> QED
      BY <2>1, <2>2, <3>2, <3>3, TabMoves DEF TypeOK
  <2>3. CASE FinishEnd(t) /\ UNCHANGED active
    BY <1>2, <2>1, <2>3, NoLeaseType DEF FinishEnd, SessionEnd, TypeOK
  <2> QED
    BY <1>12, <2>2, <2>3 DEF End
<1>13. CASE Close(t)
  <2>1. \/ tab' = [tab EXCEPT ![t] = Away]
        \/ tab' = tab
    BY <1>13 DEF Close, TypeOK
  <2>2. lease' \in [Labs -> Lease] /\ gone' \subseteq Tabs
    BY <1>13, NoLeaseType DEF Close, TypeOK
  <2>3. UNCHANGED <<active, idle, shells, sweep>>
    BY <1>13 DEF Close
  <2> QED
    BY <1>2, <1>3, <2>1, <2>2, <2>3 DEF TypeOK
<1> QED
  BY <1>5, <1>6, <1>7, <1>8, <1>9, <1>10, <1>11, <1>12, <1>13 DEF Browser

\* The sweep ends what is active or leaves it.
LEMMA WatcherForm ==
  ASSUME Typed, Watcher
  PROVE  /\ UNCHANGED <<lease, tab, gone>> /\ idle' \subseteq idle
         /\ sweep' \in [todo : SUBSET Labs, cur : Labs \cup {None}]
         /\ active' \subseteq active
         /\ \A s \in active \ active' : s = sweep'.cur
         /\ \A s : s = sweep'.cur /\ s # None => s \in active \ active'
         /\ \/ sweep.cur = None /\ shells' = shells /\ revived' = revived
            \/ sweep.cur # None /\ EndSaved(sweep.cur)
<1>1. sweep \in [todo : SUBSET Labs, cur : Labs \cup {None}] /\ idle \subseteq Labs
  BY DEF Typed, TypeOK
<1>2. CASE SweepEnded
  BY <1>1, <1>2 DEF SweepEnded
<1>3. ASSUME NEW todo \in SUBSET Labs, EndIdle(todo)
      PROVE  /\ sweep' \in [todo : SUBSET Labs, cur : Labs \cup {None}]
             /\ active' \subseteq active /\ idle' \subseteq idle
             /\ \A s \in active \ active' : s = sweep'.cur
             /\ \A s : s = sweep'.cur /\ s # None => s \in active \ active'
  BY <1>3 DEF EndIdle
<1>4. CASE SweepOnce
  <2>1. idle \in SUBSET Labs /\ sweep.todo \in SUBSET Labs
    BY <1>1
  <2> QED
    BY <1>3, <1>4, <2>1 DEF SweepOnce, again
<1> QED
  BY <1>2, <1>4 DEF Watcher

\* A restart brings back sessions that were active or ending, and forgets the
\* requests that were starting or ending one.
LEMMA RestartForm ==
  ASSUME Typed, Restart
  PROVE  /\ active' \subseteq active \cup Pending \cup unsaved
         /\ active' \ revived' \subseteq (active \cup Pending) \ revived
         /\ idle' = {} /\ shells' = {} /\ UNCHANGED gone
         /\ lease' = [l \in Labs |-> NoLease]
         /\ sweep' = [todo |-> {}, cur |-> None]
         /\ tab' \in [Tabs -> Tab]
         /\ \A t \in Tabs : /\ tab'[t].pc \in {"away"} \cup OnScreen
                            /\ WellFormed(tab'[t]) /\ ~tab'[t].dial
<1>1. tab' = [t \in Tabs |-> IF tab[t].pc \in OnScreen
                             THEN [tab[t] EXCEPT !.dial = FALSE] ELSE Away]
  BY DEF Restart
<1>2. ASSUME NEW t \in Tabs
      PROVE  /\ tab'[t] \in Tab
             /\ tab'[t].pc \in {"away"} \cup OnScreen
             /\ WellFormed(tab'[t]) /\ ~tab'[t].dial
  <2>1. CASE tab[t].pc \in OnScreen
    <3>1. tab[t] \in Tab /\ WellFormed(tab[t])
      BY <2>1, TabAt DEF OnScreen
    <3> QED
      BY <1>1, <2>1, <3>1 DEF Tab, WellFormed, OnScreen
  <2>2. CASE tab[t].pc \notin OnScreen
    BY <1>1, <2>2, AwayType
  <2> QED
    BY <2>1, <2>2
<1>3. tab' \in [Tabs -> Tab]
  BY <1>1, <1>2
<1>4. /\ active' \subseteq active \cup Pending \cup unsaved
      /\ active' \ revived' \subseteq (active \cup Pending) \ revived
  BY DEF Restart, Pending
<1> QED
  BY <1>2, <1>3, <1>4 DEF Restart

LEMMA RestTyped ==
  ASSUME Typed, AgainOK',
                \/ Terminal \/ Watcher \/ Restart
                \/ \E l \in Labs : Lapse(l) \/ GoIdle(l)
                \/ UNCHANGED vars
  PROVE  Typed'
<1> USE DEF Typed
<1>1. CASE Terminal
  <2>1. PICK s \in shells : Attach(s) \/ Disconnect(s)
    BY <1>1 DEF Terminal
  <2>2. /\ UNCHANGED <<active, lease, tab, gone, sweep>> /\ idle' \subseteq idle
    BY <2>1 DEF Attach, Disconnect
  <2>3. s \in Shell
    BY DEF TypeOK
  <2>4. \A x \in shells' : \/ x \in shells
                           \/ x = [s EXCEPT !.st = "orphan"]
                           \/ \E p \in {"plain", "revived"} : x = [s EXCEPT !.st = "up", !.past = p]
    BY <2>1 DEF Attach, Disconnect
  <2>5. /\ [s EXCEPT !.st = "orphan"] \in Shell
        /\ \A p \in {"plain", "revived"} : [s EXCEPT !.st = "up", !.past = p] \in Shell
    BY <2>3 DEF Shell
  <2>6. \A x \in shells' : x \in Shell
    BY <2>4, <2>5 DEF TypeOK
  <2> QED
    BY <2>2, <2>6 DEF TypeOK, Formed
<1>2. CASE Watcher
  <2>1. shells' \subseteq Shell
    BY <1>2, WatcherForm, MarkedType DEF EndSaved, TypeOK
  <2> QED
    BY <1>2, <2>1, WatcherForm DEF TypeOK, Formed
<1>3. CASE Restart
  <2>1. Formed'
    BY <1>3, RestartForm DEF Formed, WellFormed
  <2>2. Pending \subseteq Labs
    BY DEF Pending, Quitting, Ending, TypeOK, Tab, Formed
  <2>3. active' \subseteq Labs /\ lease' \in [Labs -> Lease]
        /\ sweep' \in [todo : SUBSET Labs, cur : Labs \cup {None}]
    BY <1>3, <2>2, RestartForm, NoLeaseType DEF TypeOK, AgainOK
  <2> QED
    BY <1>3, <2>1, <2>3, RestartForm DEF TypeOK
<1>4. ASSUME NEW l \in Labs, Lapse(l) \/ GoIdle(l)
      PROVE  Typed'
  <2>1. lease' \in [Labs -> Lease] /\ idle' \subseteq Labs
    <3>1. lease \in [Labs -> Lease] /\ idle \subseteq Labs /\ active \subseteq Labs
      BY DEF TypeOK
    <3>2. CASE Lapse(l)
      BY <3>1, <3>2, NoLeaseType DEF Lapse, Lease
    <3>3. CASE GoIdle(l)
      BY <3>1, <3>3 DEF GoIdle
    <3> QED
      BY <1>4, <3>2, <3>3
  <2>2. UNCHANGED <<active, tab, gone, shells, sweep>>
    BY <1>4 DEF Lapse, GoIdle
  <2> QED
    BY <2>1, <2>2 DEF TypeOK, Formed
<1>5. CASE UNCHANGED vars
  BY <1>5 DEF vars, TypeOK, Formed
<1> QED
  BY <1>1, <1>2, <1>3, <1>4, <1>5

LEMMA NextTyped ==
  ASSUME Typed, [Next]_vars
  PROVE  Typed'
BY NextAgain, ServerTyped, BrowserTyped, RestTyped DEF Next

LEMMA InitTyped == Init => Typed
<1> SUFFICES ASSUME Init PROVE Typed
  OBVIOUS
<1>1. TypeOK
  BY AwayType, NoLeaseType DEF Init, TypeOK, AgainOK
<1>2. Formed
  BY AwayType DEF Init, Formed, WellFormed
<1> QED
  BY <1>1, <1>2 DEF Typed

\* Whatever goes wrong, states are well typed, and a tab names a lab, waits for an
\* end and has labs left to end exactly while its request says so.
THEOREM TypedHolds == Spec => []Typed
<1>1. Typed /\ [Next]_vars => Typed'
  BY NextTyped
<1> QED
  BY <1>1, InitTyped, PTL DEF Spec

-----------------------------------------------------------------------------
(* The slot.                                                                 *)

LEMMA PendingIs ==
  ASSUME NEW l
  PROVE  l \in Pending <=> \/ \E t \in Tabs : l \in EndsOf(tab[t])
                           \/ l = sweep.cur /\ l # None
BY DEF Pending, Quitting, Ending, EndsOf

LEMMA PendingIsNext ==
  ASSUME NEW l
  PROVE  l \in Pending' <=> \/ \E t \in Tabs : l \in EndsOf(tab'[t])
                            \/ l = sweep'.cur /\ l # None
BY DEF Pending, Quitting, Ending, EndsOf

LEMMA MovedTab ==
  ASSUME Typed, NEW t \in Tabs, NEW r, tab' = [tab EXCEPT ![t] = r]
  PROVE  tab'[t] = r /\ \A u \in Tabs : u # t => tab'[u] = tab[u]
BY DEF Typed, TypeOK

\* A session that was set active again after its end is still known as such while
\* it is active or being ended, and no other session becomes active.
Remembers ==
  /\ revived \cap (active' \cup Pending') \subseteq revived'
  /\ active' \subseteq active \cup revived'

\* Such a step of one tab keeps the slot, when the ends it awaits are those of the
\* session that was active or was ending already.
LEMMA TabStep ==
  ASSUME Typed, Slot, NEW t \in Tabs, NEW r \in Tab, Remembers,
         tab' = [tab EXCEPT ![t] = r], sweep' = sweep,
         EndsOf(r) \cap active' = {},
         EndsOf(r) \subseteq active \cup Pending,
         r.pc \in Starting => /\ active' \ revived' \subseteq Claims(r)
                              /\ \A u \in Tabs \ {t} : tab[u].pc \notin Starting
  PROVE  Slot'
<1>1. /\ tab'[t] = r
      /\ \A u \in Tabs : u # t => tab'[u] = tab[u]
  BY MovedTab
<1>2. /\ \A x \in Pending' : x \in EndsOf(r) \/ x \in Pending
      /\ Pending' \subseteq active \cup Pending
  BY <1>1, PendingIs, PendingIsNext
<1>3. active' \cap Pending' \subseteq revived'
  BY <1>2 DEF Slot, Remembers
<1>4. \A j, k \in (active' \cup Pending') \ revived' : j = k
  BY <1>2 DEF Slot, Remembers
<1>5. active' \ revived' \subseteq active \ revived
  BY DEF Remembers
<1>6. \A u \in Tabs : tab'[u].pc \in Starting =>
        active' \ revived' \subseteq {tab'[u].lab} \cup tab'[u].todo
  BY <1>1, <1>5 DEF Slot, Claims
<1>7. \A u, v \in Tabs : tab'[u].pc \in Starting /\ tab'[v].pc \in Starting => u = v
  BY <1>1 DEF Slot
<1> QED
  BY <1>3, <1>4, <1>6, <1>7 DEF Slot

\* The same when the tab neither starts nor ends anything from here on.
LEMMA TabRests ==
  ASSUME Typed, Slot, NEW t \in Tabs, NEW r \in Tab, Remembers,
         tab' = [tab EXCEPT ![t] = r], sweep' = sweep,
         WellFormed(r), r.pc \in {"away"} \cup OnScreen
  PROVE  Slot'
<1>1. EndsOf(r) = {} /\ r.pc \notin Starting
  BY DEF EndsOf, WellFormed, OnScreen, Starting
<1> QED
  BY <1>1, TabStep

\* The same when no tab moves.
LEMMA NoTabMoves ==
  ASSUME Typed, Slot, Remembers, tab' = tab, sweep' = sweep
  PROVE  Slot'
<1>1. Pending' = Pending
  BY DEF Pending, Quitting, Ending
<1>2. active' \cap Pending' \subseteq revived'
  BY <1>1 DEF Slot, Remembers
<1>3. \A j, k \in (active' \cup Pending') \ revived' : j = k
  BY <1>1 DEF Slot, Remembers
<1>4. active' \ revived' \subseteq active \ revived
  BY DEF Remembers
<1> QED
  BY <1>2, <1>3, <1>4 DEF Slot

\* Claiming the slot: the next of the labs to end, or on to the open.
LEMMA EndOthersStep ==
  ASSUME Typed, Slot, NEW t \in Tabs, NEW l \in Labs, NEW todo \in SUBSET Labs,
         EndOthers(t, l, todo), sweep' = sweep,
         revived \cap (active' \cup Pending') \subseteq revived',
         active \ revived \subseteq {l} \cup todo,
         \A u \in Tabs \ {t} : tab[u].pc \notin Starting
  PROVE  Slot'
<1>1. todo \cap (active \ revived) \subseteq todo \cap (active \ Ending)
  BY DEF Slot, Pending
<1>2. CASE GoesOn(t, l, todo)
  <2>1. active' \subseteq active /\ tab' = [tab EXCEPT ![t] = Goes(l)]
        /\ active' \ revived \subseteq {l}
    BY <1>1, <1>2 DEF GoesOn
  <2>2. Goes(l) \in Tab /\ EndsOf(Goes(l)) = {} /\ Claims(Goes(l)) = {l}
    BY StartType
  <2>3. Remembers /\ active' \ revived' \subseteq Claims(Goes(l))
    BY <2>1, <2>2 DEF Remembers
  <2> QED
    BY <2>1, <2>2, <2>3, TabStep
<1>3. ASSUME NEW s \in Labs, NEW left \in SUBSET Labs, EndsFirst(t, l, todo, s, left)
      PROVE  Slot'
  <2> DEFINE r == Awaits(l, s, left)
  <2>1. /\ s \in active /\ active' = active \ {s} /\ tab' = [tab EXCEPT ![t] = r]
        /\ active' \ revived \subseteq {l} \cup left
    BY <1>1, <1>3 DEF EndsFirst
  <2>2. r \in Tab /\ EndsOf(r) = {s} /\ Claims(r) = {l} \cup left
    BY StartType
  <2> HIDE DEF r
  <2>3. Remembers /\ active' \ revived' \subseteq Claims(r)
    BY <2>1, <2>2 DEF Remembers
  <2> QED
    BY <2>1, <2>2, <2>3, TabStep
<1> QED
  BY <1>2, <1>3, EndOthersForm

\* The session of the starting tab becomes active, once every end is through.
LEMMA ActiveStep ==
  ASSUME Typed, Slot, NEW t \in Tabs, NEW pc \in {"resuming", "opening"},
         "lag" \notin Env, Settled(tab[t].lab), tab[t].pc \in {"open", "resuming"},
         Activated(tab[t].lab), tab' = [tab EXCEPT ![t].pc = pc],
         sweep' = sweep
  PROVE  Slot'
<1>1. Pending = {}
  BY DEF Settled, Pending
<1>2. tab[t].pc \in Starting /\ tab[t].todo = {} /\ tab[t].cur = None
  BY DEF Typed, Formed, Starting
<1>3. active' \ revived' \subseteq {tab[t].lab}
  BY <1>2 DEF Slot, Activated
<1>4. /\ tab'[t].pc = pc /\ tab'[t].lab = tab[t].lab
      /\ tab'[t].todo = tab[t].todo /\ tab'[t].cur = tab[t].cur
      /\ \A u \in Tabs : u # t => tab'[u] = tab[u]
  BY DEF Typed, TypeOK, Tab
<1>5. Pending' = {}
  BY <1>1, <1>2, <1>4, PendingIs, PendingIsNext DEF EndsOf
<1>6. \A u, v \in Tabs : tab'[u].pc \in Starting /\ tab'[v].pc \in Starting => u = v
  BY <1>2, <1>4 DEF Slot
<1>7. \A u \in Tabs : tab'[u].pc \in Starting =>
        active' \ revived' \subseteq {tab'[u].lab} \cup tab'[u].todo
  BY <1>2, <1>3, <1>4 DEF Slot
<1> QED
  BY <1>3, <1>5, <1>6, <1>7 DEF Slot

-----------------------------------------------------------------------------
(* The actions keep the slot.                                                *)

\* A save or a reset makes its session active again, and that is noted.
LEMMA WriteSlot ==
  ASSUME Typed, Slot, NEW t \in Tabs, NEW l \in Labs, SaveBoard(t, l) \/ ResetDone(t, l)
  PROVE  Slot'
<1>1. Remembers /\ sweep' = sweep
  BY DEF SaveBoard, ResetDone, SetActive, Remembers
<1>2. CASE tab' = tab
  BY <1>1, <1>2, NoTabMoves
<1>3. ASSUME NEW r \in Tab, WellFormed(r), tab' = [tab EXCEPT ![t] = r], r.pc \in OnScreen
      PROVE  Slot'
  BY <1>1, <1>3, TabRests
<1>4. CASE ResetDone(t, l)
  <2>1. \/ tab' = tab
        \/ \E r \in Tab : WellFormed(r) /\ tab' = [tab EXCEPT ![t] = r] /\ r.pc \in OnScreen
    BY <1>4, ResetForm
  <2> QED
    BY <1>2, <1>3, <2>1
<1> QED
  BY <1>2, <1>4 DEF SaveBoard

LEMMA ServerSlot ==
  ASSUME Typed, Slot, "lag" \notin Env, NEW t \in Tabs, Server(t) \/ OpenFails(t)
  PROVE  Slot'
<1>1. CASE EndedOther(t)
  <2>1. /\ tab[t].pc = "ending" /\ EndOthers(t, tab[t].lab, tab[t].todo) /\ sweep' = sweep
        /\ revived' = revived \cap (active' \cup Pending')
    BY <1>1 DEF EndedOther, EndSaved
  <2>2. tab[t].lab \in Labs /\ tab[t].todo \in SUBSET Labs /\ tab[t].pc \in Starting
    BY <2>1, TabAt DEF Starting
  <2>3. /\ active \ revived \subseteq {tab[t].lab} \cup tab[t].todo
        /\ \A u \in Tabs \ {t} : tab[u].pc \notin Starting
    BY <2>2 DEF Slot
  <2> QED
    BY <2>1, <2>2, <2>3, EndOthersStep
<1>2. CASE Activate(t) \/ Reactivate(t)
  <2>1. PICK pc \in {"resuming", "opening"} : tab' = [tab EXCEPT ![t].pc = pc]
    BY <1>2 DEF Activate, Reactivate
  <2> QED
    BY <1>2, <2>1, ActiveStep DEF Activate, Reactivate
<1>3. CASE Opened(t)
  <2> DEFINE shown == [tab[t] EXCEPT !.pc = "here", !.dial = tab[t].lab \notin Boards]
             r == IF t \in gone THEN Away ELSE shown
  <2>1. /\ tab[t].pc \in {"opening", "resuming"}
        /\ tab' = [tab EXCEPT ![t] = r]
        /\ UNCHANGED <<active, sweep, revived>>
    BY <1>3 DEF Opened
  <2>2. tab[t] \in Tab /\ WellFormed(tab[t])
    BY <2>1, TabAt
  <2>3. shown \in Tab /\ WellFormed(shown) /\ shown.pc = "here"
    BY <2>1, <2>2 DEF Tab, WellFormed
  <2> HIDE DEF shown
  <2>4. r \in Tab /\ WellFormed(r) /\ r.pc \in {"away"} \cup OnScreen
    BY <2>3, AwayType DEF OnScreen
  <2> HIDE DEF r
  <2> QED
    BY <2>1, <2>4, TabRests DEF Remembers
<1>4. CASE OpenFails(t)
  <2>1. Remembers /\ tab' = [tab EXCEPT ![t] = Away] /\ sweep' = sweep
    BY <1>4 DEF OpenFails, Remembers
  <2> QED
    BY <2>1, AwayType, TabRests
<1>5. CASE EndDone(t)
  <2>1. Remembers /\ tab[t].pc = "quitting" /\ sweep' = sweep
    BY <1>5 DEF EndDone, Remembers
  <2>2. PICK r \in Tab : /\ WellFormed(r) /\ tab' = [tab EXCEPT ![t] = r]
                         /\ r.pc \in {"away"} \cup OnScreen
    BY <1>5, <2>1, AwayType, EndFailsForm DEF EndDone, FinishEnd, OnScreen
  <2> QED
    BY <2>1, <2>2, TabRests
<1> QED
  BY <1>1, <1>2, <1>3, <1>4, <1>5, WriteSlot DEF Server

LEMMA BrowserSlot ==
  ASSUME Typed, Slot, "overlap" \notin Env, NEW t \in Tabs, Browser(t)
  PROVE  Slot'
<1>1. CASE tab' = [tab EXCEPT ![t] = Away] /\ UNCHANGED <<active, sweep, revived>>
  BY <1>1, AwayType, TabRests DEF Remembers
<1>2. CASE UNCHANGED <<active, tab, sweep, revived>>
  BY <1>2, NoTabMoves DEF Remembers
<1>3. ASSUME NEW pc \in OnScreen, NEW dial \in BOOLEAN, tab[t].pc \in OnScreen,
             UNCHANGED <<active, sweep, revived>>,
             \/ tab' = [tab EXCEPT ![t].pc = pc, ![t].dial = dial]
             \/ dial = tab[t].dial /\ tab' = [tab EXCEPT ![t].pc = pc]
             \/ pc = tab[t].pc /\ tab' = [tab EXCEPT ![t].dial = dial]
      PROVE  Slot'
  <2>1. PICK r \in Tab : WellFormed(r) /\ r.pc = pc /\ tab' = [tab EXCEPT ![t] = r]
    BY <1>3, ScreenMoves
  <2> QED
    BY <1>3, <2>1, TabRests DEF Remembers
<1>4. tab[t].dial \in BOOLEAN
  BY DEF Typed, TypeOK, Tab
<1>5. ASSUME NEW l \in Labs, NEW force \in BOOLEAN, Start(t, l, force)
      PROVE  Slot'
  <2>1. /\ EndOthers(t, l, ToEnd(l, force)) /\ sweep' = sweep /\ revived' = revived
        /\ \A u \in Tabs \ {t} : tab[u].pc \notin Starting
    BY <1>5 DEF Start, again
  <2>2. active \subseteq {l} \cup ToEnd(l, force)
    BY <1>5 DEF Start, MayStart, ToEnd, Others
  <2>3. ToEnd(l, force) \in SUBSET Labs
    BY ToEndType DEF Typed
  <2> QED
    BY <2>1, <2>2, <2>3, EndOthersStep
<1>6. CASE Heartbeat(t)
  BY <1>2, <1>3, <1>4, <1>6 DEF Heartbeat, Shows, OnScreen, again
<1>7. CASE UseHere(t) \/ Connect(t)
  BY <1>3, <1>4, <1>7 DEF UseHere, Connect, Shows, OnScreen, again
<1>8. CASE Leave(t) \/ Touch(t) \/ Edit(t) \/ Reset(t)
  BY <1>1, <1>2, <1>8 DEF Leave, Touch, Edit, Reset, again
<1>9. CASE End(t)
  <2>1. CASE /\ tab[t].lab \in active
             /\ active' = active \ {tab[t].lab}
             /\ tab' = [tab EXCEPT ![t].pc = "quitting"]
    <3> DEFINE r == [tab[t] EXCEPT !.pc = "quitting"]
    <3>1. tab[t].pc = "here" /\ sweep' = sweep /\ revived' = revived
      BY <1>9 DEF End, Shows, again
    <3>2. tab[t] \in Tab /\ WellFormed(tab[t])
      BY <3>1, TabAt
    <3>3. r \in Tab /\ r.pc \notin Starting /\ EndsOf(r) = {tab[t].lab}
      BY <3>1, <3>2 DEF Tab, WellFormed, EndsOf, Starting
    <3>4. tab' = [tab EXCEPT ![t] = r]
      BY <2>1 DEF Typed, TypeOK
    <3> HIDE DEF r
    <3>5. /\ Remembers
          /\ EndsOf(r) \cap active' = {} /\ EndsOf(r) \subseteq active \cup Pending
      BY <2>1, <3>1, <3>3 DEF Remembers
    <3> QED
      BY <3>1, <3>3, <3>4, <3>5, TabStep
  <2> QED
    BY <1>1, <1>9, <2>1 DEF End, FinishEnd, again
<1>10. CASE Close(t)
  <2>1. \/ tab' = [tab EXCEPT ![t] = Away]
        \/ tab' = tab
    BY <1>10 DEF Close, Typed, TypeOK
  <2> QED
    BY <1>1, <1>2, <1>10, <2>1 DEF Close, again
<1> QED
  BY <1>5, <1>6, <1>7, <1>8, <1>9, <1>10 DEF Browser

LEMMA WatcherSlot ==
  ASSUME Typed, Slot, Watcher
  PROVE  Slot'
<1>1. \A s \in Pending' : s \in Pending \/ s \in active \ active'
  BY WatcherForm, PendingIs, PendingIsNext
<1>2. /\ revived \cap (active' \cup Pending') \subseteq revived'
      /\ active' \subseteq active /\ tab' = tab
  BY WatcherForm DEF EndSaved
<1>3. /\ \A j, k \in (active' \cup Pending') \ revived' : j = k
      /\ active' \cap Pending' \subseteq revived'
      /\ active' \ revived' \subseteq active \ revived
  BY <1>1, <1>2 DEF Slot
<1> QED
  BY <1>2, <1>3 DEF Slot

LEMMA RestartSlot ==
  ASSUME Typed, Slot, Restart
  PROVE  Slot'
<1>1. Pending' = {}
  BY RestartForm, PendingIsNext DEF EndsOf, WellFormed, OnScreen
<1> QED
  BY <1>1, RestartForm DEF Slot, OnScreen, Starting

LEMMA NextSlot ==
  ASSUME Typed, Slot, "overlap" \notin Env, "lag" \notin Env, [Next]_vars
  PROVE  Slot'
<1>1. CASE UNCHANGED <<active, tab, sweep, revived>>
  <2>1. Remembers /\ tab' = tab /\ sweep' = sweep
    BY <1>1 DEF Remembers
  <2> QED
    BY <2>1, NoTabMoves
<1>2. CASE Terminal \/ (\E l \in Labs : Lapse(l) \/ GoIdle(l)) \/ UNCHANGED vars
  BY <1>1, <1>2 DEF Terminal, Attach, Disconnect, Lapse, GoIdle, vars, again
<1> QED
  BY <1>2, ServerSlot, BrowserSlot, WatcherSlot, RestartSlot DEF Next

LEMMA InitInv == Init => Inv
<1> SUFFICES ASSUME Init PROVE Inv
  OBVIOUS
<1>1. \A t \in Tabs : EndsOf(tab[t]) = {} /\ tab[t].pc \notin Starting
  BY AwayType DEF Init, EndsOf, Starting
<1>2. active = {} /\ Pending = {}
  BY <1>1, PendingIs DEF Init
<1>3. Slot
  BY <1>1, <1>2 DEF Slot
<1> QED
  BY <1>3, InitTyped DEF Inv, Typed

\* While starts do not overlap and session rows are written promptly, every
\* reachable state is well typed, a session is active or ending for at most one
\* lab, and a start in flight finds active only its own lab or one it is about
\* to end (sessionExclusivity.ts:64-112, sessionIdle.ts:37-70): all of this but
\* for sessions set active again after their end, by a late save of the board, a
\* late reset or a restart that finds the end's row unwritten (session.ts:666).
THEOREM InvHolds ==
  ASSUME "overlap" \notin Env, "lag" \notin Env
  PROVE  Spec => []Inv
<1>1. Inv /\ [Next]_vars => Inv'
  BY NextTyped, NextSlot DEF Inv, Typed
<1> QED
  BY <1>1, InitInv, PTL DEF Spec

\* A learner never has two active sessions, for any number of tabs, labs and
\* boards, with failed opens and ends, restarts and slow terminals, as long as
\* starts do not overlap and rows are written promptly (sessionExclusivity.ts:4-8),
\* but for sessions that were set active again after their end.
THEOREM OneLabHolds ==
  ASSUME "overlap" \notin Env, "lag" \notin Env
  PROVE  Spec => []OneLab
<1>1. Inv => OneLab
  BY DEF Inv, Slot, OneLab
<1> QED
  BY <1>1, InvHolds, PTL

-----------------------------------------------------------------------------
(* Terminals follow the session.                                             *)

\* A step of a tab drops, of the ends that are awaited, only its own.
LEMMA EndsLost ==
  ASSUME Typed, NEW t \in Tabs, NEW r, tab' = [tab EXCEPT ![t] = r], sweep' = sweep,
         NEW l \in Pending
  PROVE  l \in Pending' \/ l \in EndsOf(tab[t])
BY MovedTab, PendingIs, PendingIsNext

LEMMA EndsGained ==
  ASSUME Typed, NEW t \in Tabs, NEW r, tab' = [tab EXCEPT ![t] = r], NEW l \in EndsOf(r)
  PROVE  l \in Pending'
BY MovedTab, PendingIsNext

\* Terminals that are closed when their session's end is through, or left open.
LEMMA EndedShells ==
  ASSUME Typed, NEW l, shells' = SessionEnd(l) \/ shells' = LeftOpen(l)
  PROVE  \A s \in shells' : s.st # "starting" /\ s.past # "left" =>
            s \in shells /\ s.lab # l
<1>1. \A s \in shells : [s EXCEPT !.past = "left"].past = "left"
  BY DEF Typed, TypeOK, Shell
<1>2. CASE shells' = LeftOpen(l)
  BY <1>1, <1>2 DEF LeftOpen
<1> QED
  BY <1>2 DEF SessionEnd

\* Terminals of a session that is set active.
LEMMA ActiveShells ==
  ASSUME Typed, NEW l, SetActive(l)
  PROVE  \A s \in shells' : s \in shells \/ s.lab \in active'
<1>1. \A s \in shells : Noted(s, l) = s \/ Noted(s, l).lab = l
  BY DEF Typed, TypeOK, Shell, Noted
<1> QED
  BY <1>1 DEF SetActive

\* The sessions in E end for good in the step; no terminal is left on them but
\* by a failed end, and the others stay active or go on ending.
LEMMA FollowStep ==
  ASSUME ShellsFollowSession, NEW E,
         \A s \in shells' : s.st # "starting" /\ s.past # "left" =>
            \/ s \in shells /\ s.lab \notin E
            \/ s.lab \in active',
         \A l \in active \cup Pending : l \in active' \cup Pending' \cup E
  PROVE  ShellsFollowSession'
BY DEF ShellsFollowSession, Pending

LEMMA EndOthersFollow ==
  ASSUME Typed, NEW t \in Tabs, NEW l \in Labs, NEW todo \in SUBSET Labs,
         EndOthers(t, l, todo), sweep' = sweep,
         NEW k \in active \cup Pending
  PROVE  k \in active' \cup Pending' \cup EndsOf(tab[t])
<1>1. CASE GoesOn(t, l, todo)
  BY <1>1, EndsLost DEF GoesOn
<1>2. ASSUME NEW s \in Labs, NEW left \in SUBSET Labs, EndsFirst(t, l, todo, s, left)
      PROVE  k \in active' \cup Pending' \cup EndsOf(tab[t])
  <2> DEFINE r == Awaits(l, s, left)
  <2>1. active' = active \ {s} /\ tab' = [tab EXCEPT ![t] = r]
    BY <1>2 DEF EndsFirst
  <2>2. EndsOf(r) = {s}
    BY StartType
  <2> HIDE DEF r
  <2>3. s \in Pending'
    BY <2>1, <2>2, EndsGained
  <2> QED
    BY <2>1, <2>3, EndsLost
<1> QED
  BY <1>1, <1>2, EndOthersForm

\* A tab whose request ends nothing moves, and no session but those in E ends.
LEMMA MoveFollow ==
  ASSUME Typed, ShellsFollowSession, NEW t \in Tabs, NEW r, NEW E,
         tab' = tab \/ (tab' = [tab EXCEPT ![t] = r] /\ EndsOf(tab[t]) \subseteq E),
         sweep' = sweep, active \subseteq active' \cup E,
         \A s \in shells' : s.st # "starting" /\ s.past # "left" =>
            \/ s \in shells /\ s.lab \notin E
            \/ s.lab \in active'
  PROVE  ShellsFollowSession'
<1>1. \A l \in Pending : l \in Pending' \/ l \in E
  <2>1. CASE tab' = tab
    BY <2>1 DEF Pending, Quitting, Ending
  <2> QED
    BY <2>1, EndsLost
<1> QED
  BY <1>1, FollowStep

LEMMA ServerFollow ==
  ASSUME Typed, ShellsFollowSession, "crowd" \notin Env, NEW t \in Tabs,
         Server(t) \/ OpenFails(t)
  PROVE  ShellsFollowSession'
<1>1. CASE EndedOther(t)
  <2>1. /\ EndOthers(t, tab[t].lab, tab[t].todo) /\ sweep' = sweep
        /\ shells' = SessionEnd(tab[t].cur) \/ shells' = LeftOpen(tab[t].cur)
        /\ tab[t].pc = "ending"
    BY <1>1 DEF EndedOther, EndSaved
  <2>2. tab[t].lab \in Labs /\ tab[t].todo \in SUBSET Labs
    BY <2>1, TabAt
  <2>3. EndsOf(tab[t]) \subseteq {tab[t].cur}
    BY <2>1 DEF EndsOf
  <2>4. \A k \in active \cup Pending : k \in active' \cup Pending' \cup EndsOf(tab[t])
    BY <2>1, <2>2, EndOthersFollow
  <2>5. \A s \in shells' : s.st # "starting" /\ s.past # "left" =>
           s \in shells /\ s.lab # tab[t].cur
    BY <2>1, EndedShells
  <2> QED
    BY <2>3, <2>4, <2>5, FollowStep
<1>2. CASE Activate(t) \/ Reactivate(t)
  <2>1. PICK pc : tab' = [tab EXCEPT ![t].pc = pc]
    BY <1>2 DEF Activate, Reactivate
  <2>2. tab' = [tab EXCEPT ![t] = [tab[t] EXCEPT !.pc = pc]]
    BY <2>1
  <2>3. tab[t].pc \in {"open", "resuming"} /\ active \subseteq active'
        /\ UNCHANGED <<shells, sweep>>
    BY <1>2 DEF Activate, Reactivate, Activated
  <2>4. EndsOf(tab[t]) = {}
    BY <2>3, TabAt DEF EndsOf, WellFormed
  <2> QED
    BY <2>2, <2>3, <2>4, MoveFollow
<1>3. CASE Opened(t)
  <2>1. /\ tab[t].pc \in {"opening", "resuming"}
        /\ Claim(tab[t].lab, t) /\ UNCHANGED <<active, sweep>>
    BY <1>3 DEF Opened
  <2>2. EndsOf(tab[t]) = {} /\ shells' \subseteq shells
    BY <2>1, TabAt, ClaimType DEF EndsOf, WellFormed, Typed
  <2>3. \E r : tab' = [tab EXCEPT ![t] = r]
    BY <1>3 DEF Opened
  <2> QED
    BY <2>1, <2>2, <2>3, MoveFollow
<1>4. CASE OpenFails(t)
  <2>1. /\ tab[t].pc = "opening" /\ active \subseteq active' \cup {tab[t].lab}
        /\ \A s \in shells : s.lab # tab[t].lab
        /\ tab' = [tab EXCEPT ![t] = Away] /\ UNCHANGED <<shells, sweep>>
    BY <1>4 DEF OpenFails
  <2>2. EndsOf(tab[t]) \subseteq {tab[t].lab}
    BY <2>1, TabAt DEF EndsOf, WellFormed
  <2>3. \A s \in shells' : s \in shells /\ s.lab \notin {tab[t].lab}
    BY <2>1
  <2> QED
    BY <2>1, <2>2, <2>3, MoveFollow
<1>5. CASE EndDone(t)
  <2>1. /\ tab[t].pc = "quitting" /\ UNCHANGED <<active, sweep>>
        /\ shells' = SessionEnd(tab[t].lab) \/ shells' = LeftOpen(tab[t].lab)
    BY <1>5 DEF EndDone, FinishEnd, EndFails
  <2>2. PICK r : tab' = [tab EXCEPT ![t] = r]
    BY <1>5, <2>1, EndFailsForm DEF EndDone, FinishEnd
  <2>3. EndsOf(tab[t]) \subseteq {tab[t].lab}
    BY <2>1, TabAt DEF EndsOf, WellFormed
  <2>4. \A s \in shells' : s.st # "starting" /\ s.past # "left" =>
           s \in shells /\ s.lab \notin {tab[t].lab}
    BY <2>1, EndedShells
  <2> QED
    BY <2>1, <2>2, <2>3, <2>4, MoveFollow
<1>6. ASSUME NEW l \in Labs, SaveBoard(t, l) \/ ResetDone(t, l)
      PROVE  ShellsFollowSession'
  <2>1. /\ active \subseteq active' /\ sweep' = sweep
        /\ \A s \in shells' : s \in shells \/ s.lab \in active'
    BY <1>6, ActiveShells DEF SaveBoard, ResetDone, SetActive
  <2>2. \/ tab' = tab
        \/ tab[t].pc \in OnScreen /\ \E r : tab' = [tab EXCEPT ![t] = r]
    BY <1>6, ResetForm DEF SaveBoard
  <2> DEFINE E == {}
  <2>3. tab[t].pc \in OnScreen => EndsOf(tab[t]) \subseteq E
    BY TabAt DEF EndsOf, WellFormed, OnScreen
  <2>4. active \subseteq active' \cup E
        /\ \A s \in shells' : (s \in shells /\ s.lab \notin E) \/ s.lab \in active'
    BY <2>1
  <2> HIDE DEF E
  <2> QED
    BY <2>1, <2>2, <2>3, <2>4, MoveFollow
<1> QED
  BY <1>1, <1>2, <1>3, <1>4, <1>5, <1>6 DEF Server

LEMMA BrowserFollow ==
  ASSUME Typed, ShellsFollowSession, NEW t \in Tabs, Browser(t)
  PROVE  ShellsFollowSession'
<1>1. ASSUME NEW l \in Labs, NEW force \in BOOLEAN, Start(t, l, force)
      PROVE  ShellsFollowSession'
  <2>1. /\ EndOthers(t, l, ToEnd(l, force)) /\ UNCHANGED <<shells, sweep>>
        /\ tab[t].pc = "away"
    BY <1>1 DEF Start
  <2>2. EndsOf(tab[t]) = {} /\ ToEnd(l, force) \in SUBSET Labs
    BY <2>1, ToEndType DEF Typed, Formed, EndsOf
  <2>3. \A k \in active \cup Pending : k \in active' \cup Pending'
    BY <2>1, <2>2, EndOthersFollow
  <2> QED
    BY <2>1, <2>3, FollowStep
<1>2. ASSUME tab[t].pc \in OnScreen, UNCHANGED <<active, sweep>>,
             tab' = tab \/ \E r : tab' = [tab EXCEPT ![t] = r],
             \A s \in shells' : s.st # "starting" => s \in shells
      PROVE  ShellsFollowSession'
  <2>1. EndsOf(tab[t]) = {}
    BY <1>2, TabAt DEF EndsOf, WellFormed, OnScreen
  <2> QED
    BY <1>2, <2>1, MoveFollow
<1>3. CASE Heartbeat(t) \/ UseHere(t)
  <2>1. tab[t].pc \in OnScreen /\ UNCHANGED <<active, sweep>>
    BY <1>3 DEF Heartbeat, UseHere, Shows, OnScreen
  <2>2. tab' = tab \/ \E r : tab' = [tab EXCEPT ![t] = r]
    BY <1>3 DEF Heartbeat, UseHere
  <2>3. shells' \subseteq shells
    BY <1>3, ClaimType DEF Heartbeat, UseHere, Typed
  <2> QED
    BY <1>2, <2>1, <2>2, <2>3
<1>4. CASE Edit(t) \/ Reset(t) \/ Leave(t) \/ Touch(t)
  <2>1. tab[t].pc \in OnScreen /\ UNCHANGED <<active, sweep, shells>>
    BY <1>4 DEF Edit, Reset, Leave, Touch, Shows, OnScreen
  <2>2. tab' = tab \/ \E r : tab' = [tab EXCEPT ![t] = r]
    BY <1>4 DEF Edit, Reset, Leave, Touch
  <2> QED
    BY <1>2, <2>1, <2>2
<1>5. CASE Connect(t)
  <2>1. tab[t].pc \in OnScreen /\ UNCHANGED <<active, sweep>>
        /\ tab' = [tab EXCEPT ![t].dial = FALSE]
    BY <1>5 DEF Connect, Shows
  <2>2. \A s \in shells' : s.st # "starting" => s \in shells
    BY <1>5 DEF Connect
  <2> QED
    BY <1>2, <2>1, <2>2
<1>6. CASE End(t)
  <2>1. tab[t].pc = "here" /\ sweep' = sweep
    BY <1>6 DEF End, Shows
  <2>2. EndsOf(tab[t]) = {}
    BY <2>1, TabAt DEF EndsOf, WellFormed
  <2>3. CASE /\ active' = active \ {tab[t].lab}
             /\ tab' = [tab EXCEPT ![t].pc = "quitting"] /\ UNCHANGED shells
    <3> DEFINE r == [tab[t] EXCEPT !.pc = "quitting"]
    <3>1. tab[t].lab \in EndsOf(r) /\ tab' = [tab EXCEPT ![t] = r]
      BY <2>1, <2>3, TabAt DEF EndsOf, Tab
    <3> HIDE DEF r
    <3>2. tab[t].lab \in Pending'
      BY <3>1, EndsGained
    <3>3. \A k \in active \cup Pending : k \in active' \cup Pending'
      BY <2>1, <2>2, <2>3, <3>1, <3>2, EndsLost
    <3> QED
      BY <2>3, <3>3, FollowStep
  <2>4. CASE FinishEnd(t) /\ UNCHANGED active
    <3>1. \A s \in shells' : s \in shells
      BY <2>4 DEF FinishEnd, SessionEnd
    <3>2. tab' = [tab EXCEPT ![t] = Away]
      BY <2>4 DEF FinishEnd
    <3> QED
      BY <2>1, <2>2, <2>4, <3>1, <3>2, MoveFollow
  <2> QED
    BY <1>6, <2>3, <2>4 DEF End
<1>7. CASE Close(t)
  <2>1. UNCHANGED <<active, shells, sweep>>
    BY <1>7 DEF Close
  <2>2. CASE tab[t].pc \in OnScreen /\ tab' = [tab EXCEPT ![t] = Away]
    BY <1>2, <2>1, <2>2
  <2>3. CASE tab' = tab
    BY <2>1, <2>3 DEF ShellsFollowSession, Quitting, Ending
  <2> QED
    BY <1>7, <2>2, <2>3 DEF Close, Typed, TypeOK
<1> QED
  BY <1>1, <1>3, <1>4, <1>5, <1>6, <1>7 DEF Browser

LEMMA NextFollow ==
  ASSUME Typed, ShellsFollowSession, "crowd" \notin Env, [Next]_vars
  PROVE  ShellsFollowSession'
<1>1. CASE Terminal
  <2>1. PICK s \in shells : Attach(s) \/ Disconnect(s)
    BY <1>1 DEF Terminal
  <2>2. UNCHANGED <<active, tab, sweep>>
    BY <2>1 DEF Attach, Disconnect
  <2>3. \A x \in shells' : x.st # "starting" => x \in shells \/ x.lab \in active'
    <3>1. s \in Shell
      BY DEF Typed, TypeOK
    <3>2. CASE Attach(s)
      <4>1. ASSUME NEW n, n = [s EXCEPT !.st = "orphan"]
                          \/ \E p : n = [s EXCEPT !.st = "up", !.past = p]
            PROVE  n.lab = s.lab
        BY <3>1, <4>1 DEF Shell
      <4>2. \A x \in shells' : x \in shells \/ (Admitted(s) /\ x.lab = s.lab)
        BY <3>2, <4>1 DEF Attach
      <4> QED
        BY <2>2, <4>2 DEF Admitted
    <3> QED
      BY <2>1, <3>2 DEF Disconnect
  <2> QED
    BY <2>2, <2>3 DEF ShellsFollowSession, Quitting, Ending
<1>2. CASE Watcher
  <2>1. \A l \in active : l \in active' \cup Pending'
    <3> SUFFICES ASSUME NEW l \in active \ active' PROVE l \in Pending'
      OBVIOUS
    <3>1. l = sweep'.cur
      BY <1>2, WatcherForm
    <3>2. l # None
      BY TabsAssumption DEF Typed, TypeOK
    <3> QED
      BY <3>1, <3>2, PendingIsNext
  <2>2. \A l \in Pending : l \in Pending' \/ (l = sweep.cur /\ l # None)
    <3> SUFFICES ASSUME NEW l \in Pending PROVE l \in Pending' \/ (l = sweep.cur /\ l # None)
      OBVIOUS
    <3>1. tab' = tab
      BY <1>2, WatcherForm
    <3>2. (\E t \in Tabs : l \in EndsOf(tab[t])) \/ (l = sweep.cur /\ l # None)
      BY PendingIs
    <3>3. (\E t \in Tabs : l \in EndsOf(tab'[t])) \/ (l = sweep.cur /\ l # None)
      BY <3>1, <3>2
    <3>4. CASE \E t \in Tabs : l \in EndsOf(tab'[t])
      <4>1. l \in Pending'
        BY <3>4, PendingIsNext
      <4> QED
        BY <4>1
    <3> QED
      BY <3>3, <3>4
  <2>3. \A s \in shells' : s.st # "starting" /\ s.past # "left" =>
           s \in shells /\ s.lab \notin {sweep.cur} \ {None}
    BY <1>2, WatcherForm, EndedShells DEF EndSaved
  <2> QED
    BY <2>1, <2>2, <2>3, FollowStep
<1>3. CASE Restart
  BY <1>3, RestartForm DEF ShellsFollowSession
<1>4. CASE (\E l \in Labs : Lapse(l) \/ GoIdle(l)) \/ UNCHANGED vars
  BY <1>4 DEF Lapse, GoIdle, vars, ShellsFollowSession, Quitting, Ending
<1> QED
  BY <1>1, <1>2, <1>3, <1>4, ServerFollow, BrowserFollow DEF Next

\* Once an end is through no terminal is open on the ended session, whatever else
\* goes wrong and however starts, ends and shells that come up late interleave
\* (k8sTerminalService.ts:41-49, 457-465), but for those that were open when an
\* end of their session failed at its row and told nobody (sessionIdle.ts:59-67),
\* and unless an open fails on a lab that another tab shows: a failed open sends
\* no session_end (k8sLifecycle.ts:361).
THEOREM ShellsFollowSessionHolds ==
  ASSUME "crowd" \notin Env
  PROVE  Spec => []ShellsFollowSession
<1>1. Init => ShellsFollowSession
  BY DEF Init, ShellsFollowSession
<1>2. Typed /\ ShellsFollowSession /\ [Next]_vars => ShellsFollowSession'
  BY NextFollow
<1> QED
  BY <1>1, <1>2, TypedHolds, PTL DEF Spec

-----------------------------------------------------------------------------
(* Terminals belong to the tab that holds the lease.                         *)

\* An open of the lab is under way and may take the lease.
Opening(t) == tab[t].pc \in {"resuming", "opening"}

\* While an active lab has no fresh lease only the tab that had it last dials or
\* starts a terminal; an open terminal's tab has the lease, unless the lab ends
\* and the lease is given up.  Boards have no terminals, and those of a lab that
\* became active again after its end are known as such.
LastDials(l) ==
  /\ \A s \in shells : s.lab = l /\ s.st = "starting" => s.tab \in {lease[l].tab} \cup gone
  /\ \A t \in Tabs : tab[t].lab = l /\ tab[t].dial => t \in {lease[l].tab} \cup gone
GivenUp(l) ==
  /\ lease[l].tab = None
  /\ l \notin active
  /\ \A t \in Tabs : Opening(t) => tab[t].lab # l
HolderInv ==
  /\ \A l \in Labs : lease[l].fresh => lease[l].tab # None
  /\ \A s \in shells : /\ s.lab \notin Boards
                       /\ s.st = "up" /\ s.lab \in revived => s.past # "plain"
  /\ \A l \in active \ (revived \cup Boards) : ~lease[l].fresh => LastDials(l)
  /\ \A s \in shells : s.st = "up" /\ s.past = "plain" /\ Watched(s) =>
       lease[s.lab].tab = s.tab \/ GivenUp(s.lab)

\* A tab that dials, shows a lab or opens one did so before; a board may be shown
\* again.
Kept(old, new) ==
  /\ new.dial => old.dial /\ new.lab = old.lab
  /\ new.pc \in OnScreen => /\ new.lab = old.lab
                            /\ old.pc \in OnScreen \/ new.lab \in Boards
  /\ new.pc \in {"resuming", "opening"} =>
       old.pc \in {"resuming", "opening"} /\ new.lab = old.lab

LEMMA ShellAt ==
  ASSUME Typed, NEW s \in shells
  PROVE  s \in Shell /\ s.tab \in Tabs /\ s.lab \in Labs /\ s.tab # None
BY TabsAssumption DEF Typed, TypeOK, Shell

\* A terminal stays as it is or is marked.
StaysOrMarked(s) ==
  \/ s \in shells
  \/ s.past # "plain" /\ s.st # "starting" /\ \E o \in shells : o.lab = s.lab

LEMMA EndedMarked ==
  ASSUME Typed, NEW l, shells' = SessionEnd(l) \/ shells' = LeftOpen(l)
  PROVE  \A s \in shells' : StaysOrMarked(s)
<1>1. ASSUME NEW s \in shells, s.st # "starting"
      PROVE  StaysOrMarked([s EXCEPT !.past = "left"])
  <2> DEFINE n == [s EXCEPT !.past = "left"]
  <2>1. n.past = "left" /\ n.st = s.st /\ n.lab = s.lab
    BY DEF Typed, TypeOK, Shell
  <2> HIDE DEF n
  <2>2. StaysOrMarked(n)
    BY <1>1, <2>1 DEF StaysOrMarked
  <2> QED
    BY <2>2 DEF n
<1>2. \A s \in shells : StaysOrMarked(s)
  BY DEF StaysOrMarked
<1>3. CASE shells' = LeftOpen(l)
  BY <1>1, <1>2, <1>3 DEF LeftOpen
<1> QED
  BY <1>2, <1>3 DEF SessionEnd

\* Nothing becomes active, and terminals are at most closed or marked.
Fewer ==
  /\ active' \subseteq active
  /\ revived' \subseteq revived /\ revived \cap active' \subseteq revived'
  /\ gone \subseteq gone'
  /\ \A s \in shells' : StaysOrMarked(s)

LEMMA FewerSame ==
  ASSUME UNCHANGED <<active, revived>>, shells' \subseteq shells, gone \subseteq gone'
  PROVE  Fewer
BY DEF Fewer, StaysOrMarked

\* A step in which nothing is started, and leases are at most given up, of labs
\* that are not active and have no open terminal or are not being opened.
LEMMA EaseStep ==
  ASSUME Typed, Typed', HolderInv, Fewer, NEW C,
         lease' = WithoutLease(C),
         \A t \in Tabs : Kept(tab[t], tab'[t]),
         C \cap active' \subseteq revived,
         \A s \in shells' : s.st = "up" /\ s.past = "plain" /\ s.lab \in C =>
            \A t \in Tabs : Opening(t)' => tab'[t].lab # s.lab
  PROVE  HolderInv'
<1>1. \A l \in Labs : lease'[l] = IF l \in C THEN NoLease ELSE lease[l]
  BY DEF WithoutLease
<1>2. \A l \in Labs : lease'[l].fresh => lease'[l].tab # None
  BY <1>1, NoLeaseType DEF HolderInv
<1>3. ASSUME NEW l \in active' \ (revived' \cup Boards), ~lease'[l].fresh
      PROVE  LastDials(l)'
  <2>1. l \in active \ (revived \cup Boards) /\ l \in Labs /\ lease'[l] = lease[l]
    BY <1>1 DEF Typed, TypeOK, Fewer
  <2>2. LastDials(l)
    BY <1>3, <2>1 DEF HolderInv
  <2> QED
    BY <2>1, <2>2 DEF LastDials, Kept, Fewer, StaysOrMarked
<1>4. \A s \in shells' : /\ s.lab \notin Boards
                         /\ s.st = "up" /\ s.lab \in revived' => s.past # "plain"
  BY DEF HolderInv, Fewer, StaysOrMarked
<1>5. ASSUME NEW s \in shells', s.st = "up", s.past = "plain", Watched(s)'
      PROVE  lease'[s.lab].tab = s.tab \/ GivenUp(s.lab)'
  <2>1. s \in shells /\ s.tab \in Tabs /\ s.lab \in Labs
    BY <1>5, ShellAt DEF Fewer, StaysOrMarked
  <2>2. Watched(s)
    BY <1>4, <1>5, <2>1 DEF Watched, Shows, Kept, Fewer
  <2>3. CASE s.lab \in C
    <3>1. s.lab \notin revived
      BY <1>5, <2>1 DEF HolderInv
    <3>2. s.lab \notin active'
      BY <2>3, <3>1
    <3>3. \A t \in Tabs : Opening(t)' => tab'[t].lab # s.lab
      BY <1>5, <2>3
    <3> QED
      BY <1>1, <2>1, <2>3, <3>2, <3>3, NoLeaseType DEF GivenUp
  <2>4. CASE s.lab \notin C
    <3>1. lease'[s.lab] = lease[s.lab]
      BY <1>1, <2>1, <2>4
    <3>2. GivenUp(s.lab) => GivenUp(s.lab)'
      BY <3>1 DEF GivenUp, Opening, Kept, Fewer
    <3> QED
      BY <1>5, <2>1, <2>2, <3>1, <3>2 DEF HolderInv
  <2> QED
    BY <2>3, <2>4
<1> QED
  BY <1>2, <1>3, <1>4, <1>5 DEF HolderInv

\* The same when no lease changes.
LEMMA StillStep ==
  ASSUME Typed, Typed', HolderInv, Fewer, lease' = lease,
         \A t \in Tabs : Kept(tab[t], tab'[t])
  PROVE  HolderInv'
<1>1. lease' = WithoutLease({})
  BY DEF WithoutLease, Typed, TypeOK
<1> QED
  BY <1>1, EaseStep

LEMMA KeptByTab ==
  ASSUME Typed, NEW t \in Tabs, NEW r, Kept(tab[t], r),
         tab' = [tab EXCEPT ![t] = r] \/ tab' = tab
  PROVE  \A u \in Tabs : Kept(tab[u], tab'[u])
BY MovedTab DEF Kept

LEMMA KeptAway == ASSUME NEW r PROVE Kept(r, Away)
BY AwayType DEF Kept, OnScreen

\* Nobody but t opens anything while t claims the slot.
LEMMA EndOthersHolder ==
  ASSUME Typed, Typed', Slot, HolderInv, NEW t \in Tabs, NEW l \in Labs,
         NEW todo \in SUBSET Labs, EndOthers(t, l, todo),
         \A u \in Tabs \ {t} : tab[u].pc \notin Starting,
         Fewer
  PROVE  HolderInv'
<1>1. todo \cap (active \ revived) \subseteq todo \cap (active \ Ending)
  BY DEF Slot, Pending
<1>2. ASSUME NEW r, tab' = [tab EXCEPT ![t] = r], r.pc \in {"open", "ending"}, ~r.dial,
             NEW C, C \cap active' \subseteq revived, lease' = WithoutLease(C)
      PROVE  HolderInv'
  <2>1. Kept(tab[t], r)
    BY <1>2 DEF Kept, OnScreen
  <2>2. \A u \in Tabs : Kept(tab[u], tab'[u])
    BY <1>2, <2>1, KeptByTab
  <2>3. \A u \in Tabs : ~Opening(u)'
    <3>1. tab'[t] = r /\ \A u \in Tabs : u # t => tab'[u] = tab[u]
      BY <1>2, MovedTab
    <3> QED
      BY <1>2, <3>1 DEF Opening, Starting
  <2> QED
    BY <1>2, <2>2, <2>3, EaseStep
<1>3. CASE GoesOn(t, l, todo)
  <2>1. todo \cap active' \subseteq revived /\ lease' = WithoutLease(todo)
        /\ tab' = [tab EXCEPT ![t] = Goes(l)]
    BY <1>1, <1>3 DEF GoesOn
  <2>2. Goes(l).pc = "open" /\ ~Goes(l).dial
    BY StartType
  <2> QED
    BY <1>2, <2>1, <2>2
<1>4. ASSUME NEW s \in Labs, NEW left \in SUBSET Labs, EndsFirst(t, l, todo, s, left)
      PROVE  HolderInv'
  <2> DEFINE C == todo \ left
             r == Awaits(l, s, left)
  <2>1. C \cap active' \subseteq revived /\ lease' = WithoutLease(C)
        /\ tab' = [tab EXCEPT ![t] = r]
    BY <1>1, <1>4 DEF EndsFirst
  <2>2. r.pc = "ending" /\ ~r.dial
    BY StartType
  <2> HIDE DEF C, r
  <2> QED
    BY <1>2, <2>1, <2>2
<1> QED
  BY <1>3, <1>4, EndOthersForm

\* Tab t takes the lease of l.  If nothing but t's shells was recorded with it,
\* no other tab's terminal is open: l is active, or is being opened by t.
LEMMA ClaimStep ==
  ASSUME Typed, Typed', HolderInv, NEW t \in Tabs, NEW l \in Labs, Claim(l, t),
         l \in active \/ (Opening(t) /\ tab[t].lab = l),
         UNCHANGED <<active, revived, gone>>,
         \A u \in Tabs \ {t} : tab'[u] = tab[u],
         tab'[t].dial => tab'[t].lab = l \/ tab'[t] = tab[t],
         tab'[t].pc \in OnScreen => tab'[t].lab = l,
         ~Opening(t)'
  PROVE  HolderInv'
<1>1. /\ lease'[l] = [tab |-> t, fresh |-> TRUE]
      /\ \A k \in Labs \ {l} : lease'[k] = lease[k]
  BY DEF Claim, Typed, TypeOK
<1>2. shells' \subseteq shells
  BY ClaimType DEF Typed
<1>3. \A k \in Labs : lease'[k].fresh => lease'[k].tab # None
  BY <1>1, TabsAssumption DEF HolderInv
<1>4. ASSUME NEW k \in active' \ (revived' \cup Boards), ~lease'[k].fresh
      PROVE  LastDials(k)'
  <2>1. k \in Labs /\ k # l /\ lease'[k] = lease[k] /\ k \in active \ (revived \cup Boards)
    BY <1>1, <1>4 DEF Typed, TypeOK
  <2>2. LastDials(k)
    BY <1>4, <2>1 DEF HolderInv
  <2> QED
    BY <1>2, <2>1, <2>2 DEF LastDials
<1>5. ASSUME NEW s \in shells', s.st = "up", s.past = "plain", Watched(s)'
      PROVE  lease'[s.lab].tab = s.tab \/ GivenUp(s.lab)'
  <2>1. s \in shells /\ s.tab \in Tabs /\ s.lab \in Labs
    BY <1>2, ShellAt
  <2>2. CASE s.tab = t
    <3>1. s.lab = l
      BY <1>5, <2>2 DEF Watched, Shows
    <3> QED
      BY <1>1, <2>2, <3>1
  <2>3. CASE s.tab # t
    <3>1. Watched(s)
      BY <1>5, <2>1, <2>3 DEF Watched, Shows
    <3>2. lease[s.lab].tab = s.tab \/ GivenUp(s.lab)
      BY <1>5, <2>1, <3>1 DEF HolderInv
    <3>3. CASE s.lab = l
      <4>1. ~GivenUp(l)
        BY DEF GivenUp
      <4>2. lease[l].tab = s.tab /\ s.tab \notin {None, t}
        BY <2>1, <2>3, <3>2, <3>3, <4>1, ShellAt
      <4>3. s.st = "starting"
        BY <3>3, <4>2, <2>3 DEF Claim
      <4> QED
        BY <1>5, <4>3
    <3>4. CASE s.lab # l
      <4>1. lease'[s.lab] = lease[s.lab]
        BY <1>1, <2>1, <3>4
      <4>2. GivenUp(s.lab) => GivenUp(s.lab)'
        BY <4>1 DEF GivenUp, Opening
      <4> QED
        BY <3>2, <4>1, <4>2
    <3> QED
      BY <3>3, <3>4
  <2> QED
    BY <2>2, <2>3
<1>6. \A s \in shells' : /\ s.lab \notin Boards
                         /\ s.st = "up" /\ s.lab \in revived' => s.past # "plain"
  BY <1>2 DEF HolderInv
<1> QED
  BY <1>3, <1>4, <1>5, <1>6 DEF HolderInv

\* The session becomes active once ends are through, and so are the terminals
\* that were left from before, but for those a failed end has left open.
LEMMA ActivateHolder ==
  ASSUME Typed, Typed', ShellsFollowSession, HolderInv, "lag" \notin Env, "slow" \notin Env,
         NEW t \in Tabs, Activate(t) \/ Reactivate(t)
  PROVE  HolderInv'
<1> DEFINE l == tab[t].lab
<1>1. PICK pc \in {"resuming", "opening"} : tab' = [tab EXCEPT ![t].pc = pc]
  BY DEF Activate, Reactivate
<1>2. /\ tab[t].pc \in {"open", "resuming"} /\ Settled(l)
      /\ active' = active \cup {l} /\ revived' = revived \ {l}
      /\ UNCHANGED <<lease, gone, shells, sweep>>
  BY DEF Activate, Reactivate, Activated
<1>3. /\ tab'[t].pc = pc /\ tab'[t].lab = l /\ tab'[t].dial = tab[t].dial
      /\ \A u \in Tabs \ {t} : tab'[u] = tab[u]
  BY <1>1 DEF Typed, TypeOK, Tab
<1>4. /\ Quitting \cup Ending = {}
      /\ \A s \in shells : s.lab = l => s.st # "starting"
      /\ \A u \in Tabs : tab[u].lab = l => ~tab[u].dial
  <2>1. OnlyDials(l, None) /\ Quitting \cup Ending = {}
    BY <1>2 DEF Settled
  <2> HIDE DEF l
  <2> QED
    BY <2>1, TabsAssumption, ShellAt DEF OnlyDials
<1> HIDE DEF l
<1>5. ASSUME NEW k \in active' \ (revived' \cup Boards), ~lease'[k].fresh
      PROVE  LastDials(k)'
  <2>1. CASE k = l
    BY <1>2, <1>3, <1>4, <2>1 DEF LastDials, l
  <2>2. CASE k # l
    <3>1. LastDials(k)
      BY <1>2, <1>5, <2>2 DEF HolderInv
    <3> QED
      BY <1>2, <1>3, <3>1 DEF LastDials, l
  <2> QED
    BY <2>1, <2>2
<1>6. ASSUME NEW s \in shells', s.st = "up", s.past = "plain", Watched(s)'
      PROVE  lease'[s.lab].tab = s.tab
  <2>1. s \in shells /\ s.tab \in Tabs
    BY <1>2, ShellAt
  <2>2. Watched(s) /\ s.tab # t
    BY <1>1, <1>2, <1>3, <1>6, <2>1 DEF Watched, Shows, OnScreen
  <2>3. s.lab \in active
    BY <1>4, <1>6, <2>1 DEF ShellsFollowSession
  <2> QED
    BY <1>2, <1>6, <2>1, <2>2, <2>3 DEF HolderInv, GivenUp
<1> QED
  BY <1>2, <1>5, <1>6 DEF HolderInv

\* A session is set active with no look at what it was.
LEMMA SetActiveHolder ==
  ASSUME Typed, Typed', HolderInv, NEW t \in Tabs, NEW l \in Labs, SetActive(l),
         UNCHANGED <<lease, gone>>,
         \A u \in Tabs : tab'[u].pc = tab[u].pc /\ tab'[u].lab = tab[u].lab,
         \A u \in Tabs \ {t} : tab'[u] = tab[u],
         tab'[t].dial => \/ tab[t].dial
                         \/ /\ tab[t].lab = l
                            /\ l \in active \ revived => lease[l].tab = t
  PROVE  HolderInv'
<1>1. \A s \in shells' : \/ s \in shells /\ (s.lab # l \/ s.st # "up" \/ l \in active)
                         \/ /\ l \notin active /\ s.past # "plain" /\ s.st = "up"
                            /\ s.lab = l /\ \E o \in shells : o.lab = s.lab
  <2>1. ASSUME NEW s \in shells
        PROVE  \/ Noted(s, l) = s /\ (s.lab # l \/ s.st # "up" \/ s.past # "plain")
               \/ /\ Noted(s, l).past # "plain" /\ Noted(s, l).st = "up"
                  /\ Noted(s, l).lab = l /\ s.lab = l
    BY DEF Typed, TypeOK, Shell, Noted
  <2> QED
    BY <2>1 DEF SetActive
<1>2. \A k : l # k /\ GivenUp(k) => GivenUp(k)'
  BY DEF GivenUp, Opening, SetActive
<1>3. \A s \in shells : Watched(s)' => Watched(s)
  BY ShellAt DEF Watched, Shows
<1>4. ASSUME NEW k \in active' \ (revived' \cup Boards), ~lease'[k].fresh
      PROVE  LastDials(k)'
  <2>1. k \in active \ (revived \cup Boards)
    BY DEF SetActive
  <2>2. LastDials(k)
    BY <1>4, <2>1 DEF HolderInv
  <2>3. \A s \in shells' : s.st = "starting" => s \in shells
    BY <1>1
  <2> QED
    BY <2>1, <2>2, <2>3 DEF LastDials
<1>5. ASSUME NEW s \in shells'
      PROVE  /\ s.lab \notin Boards
             /\ s.st = "up" /\ s.lab \in revived' => s.past # "plain"
  BY <1>1 DEF HolderInv, SetActive
<1>6. ASSUME NEW s \in shells', s.st = "up", s.past = "plain", Watched(s)'
      PROVE  lease'[s.lab].tab = s.tab \/ GivenUp(s.lab)'
  <2>1. s \in shells /\ (s.lab # l \/ l \in active)
    BY <1>1, <1>6
  <2>2. lease[s.lab].tab = s.tab \/ GivenUp(s.lab)
    BY <1>3, <1>6, <2>1 DEF HolderInv
  <2> QED
    BY <1>2, <2>1, <2>2 DEF GivenUp
<1> QED
  BY <1>4, <1>5, <1>6 DEF HolderInv

\* A save or a reset is carried out, or not.
LEMMA WriteHolder ==
  ASSUME Typed, Typed', HolderInv, "hasty" \notin Env, NEW t \in Tabs, NEW l \in Labs,
         SaveBoard(t, l) \/ ResetDone(t, l)
  PROVE  HolderInv'
<1>1. UNCHANGED <<lease, gone>>
  BY DEF SaveBoard, ResetDone
<1>2. CASE tab' = tab
  <2>1. CASE SetActive(l)
    BY <1>1, <1>2, <2>1, SetActiveHolder
  <2>2. CASE UNCHANGED <<active, revived, shells>>
    BY <1>1, <1>2, <2>2, FewerSame, StillStep DEF Kept
  <2> QED
    BY <2>1, <2>2 DEF SaveBoard, ResetDone
<1>3. ASSUME tab' # tab
      PROVE  HolderInv'
  <2>1. ResetDone(t, l) /\ SetActive(l)
    BY <1>3 DEF SaveBoard, ResetDone
  <2>2. /\ tab[t].lab = l /\ (l \in active \ revived => lease[l].tab = t)
        /\ \E r \in Tab : tab' = [tab EXCEPT ![t] = r] /\ r.pc = tab[t].pc /\ r.lab = l
    BY <1>3, <2>1, ResetForm
  <2>3. PICK r \in Tab : tab' = [tab EXCEPT ![t] = r] /\ r.pc = tab[t].pc /\ r.lab = l
    BY <2>2
  <2>4. tab'[t] = r /\ \A u \in Tabs \ {t} : tab'[u] = tab[u]
    BY <2>3, MovedTab
  <2>5. \A u \in Tabs : tab'[u].pc = tab[u].pc /\ tab'[u].lab = tab[u].lab
    BY <2>2, <2>3, <2>4
  <2> QED
    BY <1>1, <2>1, <2>2, <2>4, <2>5, SetActiveHolder
<1> QED
  BY <1>2, <1>3

LEMMA ServerHolder ==
  ASSUME Typed, Typed', Slot, ShellsFollowSession, HolderInv, "hasty" \notin Env,
         "lag" \notin Env, "slow" \notin Env, NEW t \in Tabs, Server(t) \/ OpenFails(t)
  PROVE  HolderInv'
<1>1. CASE EndedOther(t)
  <2>1. /\ tab[t].pc = "ending" /\ EndOthers(t, tab[t].lab, tab[t].todo)
        /\ gone' = gone /\ revived' = revived \cap (active' \cup Pending')
        /\ shells' = SessionEnd(tab[t].cur) \/ shells' = LeftOpen(tab[t].cur)
    BY <1>1 DEF EndedOther, EndSaved
  <2>2. tab[t].lab \in Labs /\ tab[t].todo \in SUBSET Labs /\ tab[t].pc \in Starting
    BY <2>1, TabAt DEF Starting
  <2>3. \A u \in Tabs \ {t} : tab[u].pc \notin Starting
    BY <2>2 DEF Slot
  <2>4. active' \subseteq active
    BY <2>1, <2>2, EndOthersType
  <2>5. Fewer
    BY <2>1, <2>4, EndedMarked DEF Fewer
  <2> QED
    BY <2>1, <2>2, <2>3, <2>5, EndOthersHolder
<1>2. CASE Activate(t) \/ Reactivate(t)
  BY <1>2, ActivateHolder
<1>3. CASE Opened(t)
  <2> DEFINE l == tab[t].lab
             shown == [tab[t] EXCEPT !.pc = "here", !.dial = tab[t].lab \notin Boards]
             r == IF t \in gone THEN Away ELSE shown
  <2>1. /\ Opening(t) /\ Claim(l, t) /\ UNCHANGED <<active, gone, revived>>
        /\ tab' = [tab EXCEPT ![t] = r]
    BY <1>3 DEF Opened, Opening
  <2>2. tab[t] \in Tab /\ l \in Labs
    BY <2>1, TabAt DEF Opening
  <2>3. shown.pc = "here" /\ shown.lab = l
    BY <2>2 DEF Tab
  <2> HIDE DEF shown
  <2>4. /\ r.dial => r.lab = l
        /\ r.pc \in OnScreen => r.lab = l
        /\ r.pc \notin {"resuming", "opening"}
    BY <2>3, AwayType DEF OnScreen
  <2> HIDE DEF r
  <2>5. tab'[t] = r /\ \A u \in Tabs \ {t} : tab'[u] = tab[u]
    BY <2>1, MovedTab
  <2>6. ~Opening(t)'
    BY <2>4, <2>5 DEF Opening
  <2> QED
    BY <2>1, <2>2, <2>4, <2>5, <2>6, ClaimStep
<1>4. CASE OpenFails(t)
  <2>1. /\ active' \subseteq active /\ tab' = [tab EXCEPT ![t] = Away]
        /\ UNCHANGED <<lease, shells, gone, revived>>
    BY <1>4 DEF OpenFails
  <2>2. Fewer
    BY <2>1 DEF Fewer, StaysOrMarked
  <2>3. \A u \in Tabs : Kept(tab[u], tab'[u])
    BY <2>1, KeptByTab, KeptAway
  <2> QED
    BY <2>1, <2>2, <2>3, StillStep
<1>5. CASE EndDone(t)
  <2>1. /\ tab[t].pc = "quitting" /\ UNCHANGED <<active, gone>>
        /\ revived' = revived \cap (active' \cup Pending')
        /\ shells' = SessionEnd(tab[t].lab) \/ shells' = LeftOpen(tab[t].lab)
    BY <1>5 DEF EndDone, FinishEnd, EndFails
  <2>2. Fewer
    BY <2>1, EndedMarked DEF Fewer
  <2>3. tab[t].lab \in active => tab[t].lab \in revived
    <3>1. tab[t].lab \in Pending
      BY <2>1, PendingIs DEF EndsOf
    <3> QED
      BY <3>1 DEF Slot
  <2>4. CASE FinishEnd(t)
    <3> DEFINE C == {tab[t].lab}
    <3>1. lease' = WithoutLease(C)
      BY <2>4 DEF FinishEnd, WithoutLease, Typed, TypeOK
    <3>2. C \cap active' \subseteq revived
      BY <2>1, <2>3
    <3>3. \A s \in shells' : s.st = "up" => s.lab \notin C
      BY <2>4 DEF FinishEnd, SessionEnd
    <3>4. \A u \in Tabs : Kept(tab[u], tab'[u])
      BY <2>4, KeptByTab, KeptAway DEF FinishEnd
    <3> HIDE DEF C
    <3> QED
      BY <2>2, <3>1, <3>2, <3>3, <3>4, EaseStep
  <2>5. CASE EndFails(t)
    <3>1. PICK r \in Tab : /\ tab' = [tab EXCEPT ![t] = r]
                           /\ \/ r = Away
                              \/ /\ r.pc = "here" /\ r.lab = tab[t].lab /\ r.lab \in Boards
                                 /\ r.dial = tab[t].dial
      BY <2>1, <2>5, EndFailsForm
    <3>2. Kept(tab[t], r)
      BY <3>1, KeptAway DEF Kept
    <3>3. \A u \in Tabs : Kept(tab[u], tab'[u])
      BY <3>1, <3>2, KeptByTab
    <3> QED
      BY <2>2, <2>5, <3>3, StillStep DEF EndFails
  <2> QED
    BY <1>5, <2>4, <2>5 DEF EndDone
<1>6. ASSUME NEW l \in Labs, SaveBoard(t, l) \/ ResetDone(t, l)
      PROVE  HolderInv'
  BY <1>6, WriteHolder
<1> QED
  BY <1>1, <1>2, <1>3, <1>4, <1>5, <1>6 DEF Server

LEMMA BrowserHolder ==
  ASSUME Typed, Typed', Slot, HolderInv, "overlap" \notin Env, "slow" \notin Env,
         NEW t \in Tabs, Browser(t)
  PROVE  HolderInv'
<1>1. ASSUME NEW l \in Labs, NEW force \in BOOLEAN, Start(t, l, force)
      PROVE  HolderInv'
  <2>1. /\ EndOthers(t, l, ToEnd(l, force)) /\ UNCHANGED <<gone, shells, revived>>
        /\ \A u \in Tabs \ {t} : tab[u].pc \notin Starting
    BY <1>1 DEF Start, again
  <2>2. ToEnd(l, force) \in SUBSET Labs
    BY ToEndType DEF Typed
  <2>3. Fewer
    BY <2>1, <2>2, EndOthersType DEF Fewer, StaysOrMarked
  <2> QED
    BY <2>1, <2>2, <2>3, EndOthersHolder
<1>2. ASSUME NEW pc \in OnScreen, tab[t].pc \in OnScreen, tab' = [tab EXCEPT ![t].pc = pc]
      PROVE  \A u \in Tabs : Kept(tab[u], tab'[u])
  <2> DEFINE r == [tab[t] EXCEPT !.pc = pc]
  <2>1. tab[t] \in Tab
    BY <1>2, TabAt DEF OnScreen
  <2>2. Kept(tab[t], r)
    BY <1>2, <2>1 DEF Kept, Tab, OnScreen
  <2>3. tab' = [tab EXCEPT ![t] = r]
    BY <1>2
  <2> HIDE DEF r
  <2> QED
    BY <2>2, <2>3, KeptByTab
<1>3. \A u \in Tabs : Kept(tab[u], tab[u])
  BY DEF Kept
<1>4. CASE Heartbeat(t)
  <2>1. tab[t].pc = "here" /\ UNCHANGED <<active, gone, revived>>
    BY <1>4 DEF Heartbeat, Shows, again
  <2>2. CASE tab[t].lab \in active /\ Claim(tab[t].lab, t) /\ tab' = tab
    <3>1. tab[t].lab \in Labs /\ ~Opening(t)
      BY <2>1, TabAt DEF Opening
    <3>2. ~Opening(t)'
      BY <2>2, <3>1 DEF Opening
    <3> QED
      BY <2>1, <2>2, <3>1, <3>2, ClaimStep
  <2>3. ASSUME NEW pc \in {"ended", "taken"}, tab' = [tab EXCEPT ![t].pc = pc],
               UNCHANGED <<lease, shells>>
        PROVE  HolderInv'
    BY <1>2, <2>1, <2>3, FewerSame, StillStep DEF OnScreen
  <2> QED
    BY <1>4, <2>2, <2>3 DEF Heartbeat
<1>5. CASE UseHere(t)
  <2>1. tab[t].pc = "taken" /\ UNCHANGED <<active, gone, revived>>
    BY <1>5 DEF UseHere, Shows, again
  <2> DEFINE dials == tab[t].lab \notin Boards
  <2>2. CASE /\ tab[t].lab \in active /\ Claim(tab[t].lab, t)
             /\ tab' = [tab EXCEPT ![t].pc = "here", ![t].dial = dials]
    <3> HIDE DEF dials
    <3>1. tab[t] \in Tab
      BY <2>1, TabAt
    <3>2. /\ tab'[t] = [tab[t] EXCEPT !.pc = "here", !.dial = dials]
          /\ \A u \in Tabs \ {t} : tab'[u] = tab[u]
      BY <2>2, <3>1 DEF Typed, TypeOK, Tab
    <3>3. tab'[t].pc = "here" /\ tab'[t].lab = tab[t].lab
      BY <3>1, <3>2 DEF Tab
    <3>4. ~Opening(t)'
      BY <3>3 DEF Opening
    <3>5. tab[t].lab \in Labs
      BY <2>1, TabAt
    <3> QED
      BY <2>1, <2>2, <3>2, <3>3, <3>4, <3>5, ClaimStep
  <2>3. CASE tab' = [tab EXCEPT ![t].pc = "ended"] /\ UNCHANGED <<lease, shells>>
    BY <1>2, <2>1, <2>3, FewerSame, StillStep DEF OnScreen
  <2> QED
    BY <1>5, <2>2, <2>3 DEF UseHere
<1>7. CASE Leave(t)
  BY <1>7, KeptByTab, KeptAway, FewerSame, StillStep DEF Leave, again
<1>8. CASE Touch(t) \/ Edit(t) \/ Reset(t)
  BY <1>3, <1>8, FewerSame, StillStep DEF Touch, Edit, Reset, again
<1>9. CASE End(t)
  <2>1. tab[t].pc = "here" /\ UNCHANGED <<gone, revived>> /\ tab[t] \in Tab
    BY <1>9, TabAt DEF End, Shows, again
  <2>2. CASE /\ active' = active \ {tab[t].lab} /\ UNCHANGED <<lease, shells>>
             /\ tab' = [tab EXCEPT ![t].pc = "quitting"]
    <3> DEFINE r == [tab[t] EXCEPT !.pc = "quitting"]
    <3>1. Kept(tab[t], r) /\ tab' = [tab EXCEPT ![t] = r]
      BY <2>1, <2>2 DEF Kept, Tab, OnScreen
    <3> HIDE DEF r
    <3>2. Fewer
      BY <2>1, <2>2 DEF Fewer, StaysOrMarked
    <3> QED
      BY <2>1, <2>2, <3>1, <3>2, KeptByTab, StillStep
  <2>3. CASE tab[t].lab \notin active /\ FinishEnd(t) /\ UNCHANGED active
    <3> DEFINE C == {tab[t].lab}
    <3>1. lease' = WithoutLease(C)
      BY <2>3 DEF FinishEnd, WithoutLease, Typed, TypeOK
    <3>2. shells' \subseteq shells /\ \A s \in shells' : s.st = "up" => s.lab \notin C
      BY <2>3 DEF FinishEnd, SessionEnd
    <3>3. \A u \in Tabs : Kept(tab[u], tab'[u])
      BY <2>3, KeptByTab, KeptAway DEF FinishEnd
    <3>4. C \cap active' \subseteq revived
      BY <2>3
    <3> HIDE DEF C
    <3>5. Fewer
      BY <2>1, <2>3, <3>2, FewerSame
    <3> QED
      BY <3>1, <3>2, <3>3, <3>4, <3>5, EaseStep
  <2> QED
    BY <1>9, <2>2, <2>3 DEF End
<1>10. CASE Close(t)
  <2>1. /\ tab' = [tab EXCEPT ![t] = Away] \/ tab' = tab
        /\ gone' = gone \cup {t} /\ UNCHANGED <<active, shells, revived>>
    BY <1>10 DEF Close, Typed, TypeOK, again
  <2>2. \A u \in Tabs : Kept(tab[u], tab'[u])
    BY <2>1, KeptByTab, KeptAway
  <2>3. CASE UNCHANGED lease
    BY <2>1, <2>2, <2>3, FewerSame, StillStep
  <2> DEFINE l == tab[t].lab
  <2>4. CASE /\ tab[t].pc = "here" /\ lease[l].tab = t /\ OnlyDials(l, t)
             /\ lease' = [lease EXCEPT ![l] = NoLease]
    <3>1. l \in Labs
      BY <2>4, TabAt
    <3> HIDE DEF l
    <3>2. lease'[l] = NoLease /\ \A k \in Labs \ {l} : lease'[k] = lease[k]
      BY <2>4, <3>1 DEF Typed, TypeOK
    <3>3. \A k \in Labs : lease'[k].fresh => lease'[k].tab # None
      BY <3>2, NoLeaseType DEF HolderInv
    <3>4. ASSUME NEW k \in active' \ (revived' \cup Boards), ~lease'[k].fresh
          PROVE  LastDials(k)'
      <4>1. CASE k = l
        <5>1. /\ \A s \in shells' : s.lab = k /\ s.st = "starting" => s.tab \in gone'
              /\ \A u \in Tabs : tab[u].lab = k /\ tab[u].dial => u \in gone'
          BY <2>1, <2>4, <4>1 DEF OnlyDials
        <5> QED
          BY <2>2, <5>1 DEF LastDials, Kept
      <4>2. CASE k # l
        <5>1. k \in active \ (revived \cup Boards) /\ lease'[k] = lease[k]
          BY <2>1, <3>2, <4>2 DEF Typed, TypeOK
        <5>2. LastDials(k)
          BY <3>4, <5>1 DEF HolderInv
        <5> QED
          BY <2>1, <2>2, <5>1, <5>2 DEF LastDials, Kept
      <4> QED
        BY <4>1, <4>2
    <3>5. ASSUME NEW s \in shells', s.st = "up", s.past = "plain", Watched(s)'
          PROVE  lease'[s.lab].tab = s.tab \/ GivenUp(s.lab)'
      <4>1. s \in shells /\ s.tab \in Tabs /\ s.lab \in Labs /\ s.tab # t
        BY <2>1, <3>5, ShellAt DEF Watched, Shows
      <4>2. Watched(s)
        BY <2>1, <2>2, <3>5, <4>1 DEF Watched, Shows, Kept, HolderInv
      <4>3. lease[s.lab].tab = s.tab \/ GivenUp(s.lab)
        BY <3>5, <4>1, <4>2 DEF HolderInv
      <4>4. s.lab # l
        BY <2>4, <4>1, <4>3, TabsAssumption DEF GivenUp
      <4>5. GivenUp(s.lab) => GivenUp(s.lab)'
        BY <2>1, <2>2, <3>2, <4>1, <4>4 DEF GivenUp, Opening, Kept
      <4> QED
        BY <3>2, <4>1, <4>3, <4>4, <4>5
    <3> QED
      BY <2>1, <3>3, <3>4, <3>5 DEF HolderInv
  <2> QED
    BY <1>10, <2>3, <2>4 DEF Close
<1>11. CASE Connect(t)
  <2> DEFINE l == tab[t].lab
  <2>1. /\ t \notin gone /\ tab[t].dial /\ tab[t].pc \in OnScreen
        /\ tab' = [tab EXCEPT ![t].dial = FALSE]
        /\ UNCHANGED <<active, lease, gone, revived>>
    BY <1>11 DEF Connect, Shows, again
  <2>2. l \in Labs
    BY <2>1, TabAt DEF OnScreen
  <2>3. \A u \in Tabs : Kept(tab[u], tab'[u])
    <3>1. Kept(tab[t], [tab[t] EXCEPT !.dial = FALSE])
      BY <2>1, TabAt DEF Kept, Tab, OnScreen
    <3> QED
      BY <2>1, <3>1, KeptByTab
  <2>4. \A s \in shells' : \/ s \in shells
                           \/ /\ s.st = "starting" /\ s.lab = l /\ s.tab = t
                              /\ l \in active \ Boards /\ ~HeldByOther(l, t)
    BY <1>11 DEF Connect
  <2> HIDE DEF l
  <2>5. ASSUME NEW k \in active' \ (revived' \cup Boards), ~lease'[k].fresh
        PROVE  LastDials(k)'
    <3>1. LastDials(k) /\ k \in active
      BY <2>1, <2>5 DEF HolderInv
    <3>2. k = l => t = lease[l].tab
      BY <2>1, <3>1 DEF LastDials, l
    <3> QED
      BY <2>1, <2>3, <2>4, <3>1, <3>2 DEF LastDials, Kept
  <2>6. ASSUME NEW s \in shells', s.st = "up", s.past = "plain", Watched(s)'
        PROVE  lease'[s.lab].tab = s.tab \/ GivenUp(s.lab)'
    <3>1. s \in shells
      BY <2>4, <2>6
    <3>2. Watched(s)
      BY <2>1, <2>3, <2>6, <3>1, ShellAt DEF Watched, Shows, Kept, HolderInv
    <3>3. GivenUp(s.lab) => GivenUp(s.lab)'
      BY <2>1, <2>3 DEF GivenUp, Opening, Kept
    <3> QED
      BY <2>1, <2>6, <3>1, <3>2, <3>3 DEF HolderInv
  <2>7. \A s \in shells' : /\ s.lab \notin Boards
                           /\ s.st = "up" /\ s.lab \in revived' => s.past # "plain"
    BY <2>1, <2>4 DEF HolderInv
  <2> QED
    BY <2>1, <2>5, <2>6, <2>7 DEF HolderInv
<1> QED
  BY <1>1, <1>4, <1>5, <1>7, <1>8, <1>9, <1>10, <1>11 DEF Browser

\* A terminal comes up only for the tab that has, or had last, the lease.
LEMMA TerminalHolder ==
  ASSUME Typed, Typed', HolderInv, Terminal
  PROVE  HolderInv'
<1>1. PICK s \in shells : Attach(s) \/ Disconnect(s)
  BY DEF Terminal
<1>2. UNCHANGED <<active, lease, tab, gone, revived>>
  BY <1>1 DEF Attach, Disconnect, again
<1>3. \A t \in Tabs : Kept(tab[t], tab'[t])
  BY <1>2 DEF Kept
<1>4. s \in Shell /\ s.tab \in Tabs /\ s.lab \in Labs
  BY ShellAt
<1>5. CASE shells' \subseteq shells
  BY <1>2, <1>3, <1>5, FewerSame, StillStep
<1>6. ASSUME NEW n, s.st = "starting", Admitted(s), n.st # "starting",
             n.tab = s.tab, n.lab = s.lab,
             n.st = "up" => Watched(s) /\ (n.past = "plain" => s.lab \notin revived),
             shells' = (shells \ {s}) \cup {n}
      PROVE  HolderInv'
  <2>2. \A x \in shells' : x \in shells \/ x = n
    BY <1>6
  <2>3. \A k \in active : LastDials(k) => LastDials(k)'
    BY <1>2, <1>6, <2>2 DEF LastDials
  <2>4. ASSUME n.st = "up", n.past = "plain"
        PROVE  lease[s.lab].tab = s.tab
    <3>1. s.lab \in active \ (revived \cup Boards) /\ s.tab \notin gone
      BY <1>6, <2>4 DEF Admitted, Watched, Shows, HolderInv
    <3>2. CASE lease[s.lab].fresh
      BY <1>4, <1>6, <3>2 DEF Admitted, HeldByOther, HolderInv
    <3>3. CASE ~lease[s.lab].fresh
      BY <1>6, <3>1, <3>3 DEF HolderInv, LastDials
    <3> QED
      BY <3>2, <3>3
  <2>5. \A k : GivenUp(k) => GivenUp(k)'
    BY <1>2 DEF GivenUp, Opening
  <2>6. \A x : Watched(x)' => Watched(x)
    BY <1>2 DEF Watched, Shows
  <2>7. ASSUME NEW x \in shells', x.st = "up", x.past = "plain", Watched(x)'
        PROVE  lease'[x.lab].tab = x.tab \/ GivenUp(x.lab)'
    BY <1>2, <1>6, <2>2, <2>4, <2>5, <2>6, <2>7 DEF HolderInv
  <2>8. \A x \in shells' : /\ x.lab \notin Boards
                           /\ x.st = "up" /\ x.lab \in revived' => x.past # "plain"
    BY <1>2, <1>6, <2>2 DEF HolderInv
  <2> QED
    BY <1>2, <2>3, <2>7, <2>8 DEF HolderInv
<1>7. ASSUME Admitted(s), s.st = "starting", ~Watched(s),
             shells' = (shells \ {s}) \cup {[s EXCEPT !.st = "orphan"]}
      PROVE  HolderInv'
  <2> DEFINE n == [s EXCEPT !.st = "orphan"]
  <2>1. n.st = "orphan" /\ n.tab = s.tab /\ n.lab = s.lab
    BY <1>4 DEF Shell
  <2> HIDE DEF n
  <2>2. shells' = (shells \ {s}) \cup {n}
    BY <1>7 DEF n
  <2> QED
    BY <1>6, <1>7, <2>1, <2>2
<1>8. ASSUME NEW p, p = "plain" => s.lab \notin revived,
             Admitted(s), s.st = "starting", Watched(s),
             shells' = (shells \ {s}) \cup {[s EXCEPT !.st = "up", !.past = p]}
      PROVE  HolderInv'
  <2> DEFINE n == [s EXCEPT !.st = "up", !.past = p]
  <2>1. n.st = "up" /\ n.past = p /\ n.tab = s.tab /\ n.lab = s.lab
    BY <1>4 DEF Shell
  <2> HIDE DEF n
  <2>2. shells' = (shells \ {s}) \cup {n}
    BY <1>8 DEF n
  <2> QED
    BY <1>6, <1>8, <2>1, <2>2
<1>9. CASE Attach(s)
  <2> DEFINE p == IF s.lab \in revived THEN "revived" ELSE "plain"
  <2>1. p = "plain" => s.lab \notin revived
    OBVIOUS
  <2>2. \/ shells' \subseteq shells
        \/ /\ Admitted(s) /\ s.st = "starting"
           /\ \/ ~Watched(s) /\ shells' = (shells \ {s}) \cup {[s EXCEPT !.st = "orphan"]}
              \/ Watched(s) /\ shells' = (shells \ {s}) \cup {[s EXCEPT !.st = "up", !.past = p]}
    BY <1>9 DEF Attach
  <2> HIDE DEF p
  <2> QED
    BY <1>5, <1>7, <1>8, <2>1, <2>2
<1> QED
  BY <1>1, <1>5, <1>9 DEF Disconnect

LEMMA NextHolder ==
  ASSUME Inv, Inv', ShellsFollowSession, HolderInv, [Next]_vars,
         Env \cap {"overlap", "lag", "slow", "hasty"} = {}
  PROVE  HolderInv'
<1>1. Typed /\ Slot /\ Typed'
  BY DEF Inv, Typed
<1>2. CASE Watcher
  <2>1. /\ UNCHANGED <<lease, tab, gone>> /\ active' \subseteq active
        /\ \/ shells' = shells /\ revived' = revived
           \/ EndSaved(sweep.cur)
    BY <1>1, <1>2, WatcherForm
  <2>2. \A s \in shells' : StaysOrMarked(s)
    BY <1>1, <2>1, EndedMarked DEF EndSaved, StaysOrMarked
  <2>3. Fewer
    BY <2>1, <2>2 DEF Fewer, EndSaved
  <2> QED
    BY <1>1, <2>1, <2>3, StillStep DEF Kept
<1>3. ASSUME NEW l \in Labs, Lapse(l)
      PROVE  HolderInv'
  <2>1. /\ lease' = [lease EXCEPT ![l] = IF l \in Boards THEN NoLease
                                        ELSE [@ EXCEPT !.fresh = FALSE]]
        /\ OnlyDials(l, lease[l].tab)
        /\ UNCHANGED <<active, tab, gone, shells, revived>>
    BY <1>3 DEF Lapse, again
  <2>2. /\ ~lease'[l].fresh /\ \A k \in Labs \ Boards : lease'[k].tab = lease[k].tab
        /\ \A k \in Labs \ {l} : lease'[k] = lease[k]
    BY <1>1, <2>1, NoLeaseType DEF Typed, TypeOK, Lease
  <2>3. \A k \in active' \ (revived' \cup Boards) : ~lease'[k].fresh => LastDials(k)'
    <3> SUFFICES ASSUME NEW k \in active' \ (revived' \cup Boards), ~lease'[k].fresh
                 PROVE  LastDials(k)'
      OBVIOUS
    <3>1. k \in active \ (revived \cup Boards) /\ k \in Labs
      BY <1>1, <2>1 DEF Typed, TypeOK
    <3>2. LastDials(k)
      <4>1. CASE k = l
        BY <2>1, <4>1 DEF OnlyDials, LastDials
      <4>2. CASE k # l
        BY <2>2, <3>1, <4>2 DEF HolderInv
      <4> QED
        BY <4>1, <4>2
    <3> QED
      BY <2>1, <2>2, <3>1, <3>2 DEF LastDials
  <2>4. \A s \in shells' : s.st = "up" /\ s.past = "plain" /\ Watched(s)' =>
           lease'[s.lab].tab = s.tab \/ GivenUp(s.lab)'
    BY <1>1, <2>1, <2>2, ShellAt DEF HolderInv, Watched, Shows, GivenUp, Opening
  <2>5. \A k \in Labs : lease'[k].fresh => lease'[k].tab # None
    BY <1>1, <2>2 DEF HolderInv
  <2> QED
    BY <2>1, <2>3, <2>4, <2>5 DEF HolderInv
<1>4. CASE (\E l \in Labs : GoIdle(l)) \/ UNCHANGED vars
  BY <1>1, <1>4, FewerSame, StillStep DEF GoIdle, vars, again, Kept
<1>5. CASE Restart
  <2>1. \A l \in Labs : lease'[l] = NoLease
    BY <1>1, <1>5, RestartForm
  <2> QED
    BY <1>1, <1>5, <2>1, RestartForm, NoLeaseType DEF HolderInv, LastDials
<1>6. ASSUME NEW t \in Tabs, Server(t) \/ OpenFails(t) \/ Browser(t)
      PROVE  HolderInv'
  BY <1>1, <1>6, ServerHolder, BrowserHolder
<1> QED
  BY <1>1, <1>2, <1>3, <1>4, <1>5, <1>6, TerminalHolder DEF Next

\* No open terminal belongs to a tab another tab holds the lab against
\* (sessionExclusivity.ts:114-138, k8sTerminalService.ts:51, 457-465), for any
\* tabs and labs, through takeovers, lapsed and released leases, late resets and
\* restarts, as long as starts do not overlap, rows are written promptly, no reset
\* is asked for or done for a tab that has no lease, no open fails on a lab that
\* another tab shows, and a terminal is up before the lease that refused it is
\* gone; but for terminals a failed end has left open, or of a lab that became
\* active after its end.
THEOREM ShellsOfHolderHolds ==
  ASSUME Env \cap {"overlap", "lag", "slow", "hasty", "crowd"} = {}
  PROVE  Spec => []ShellsOfHolder
<1>1. Init => HolderInv
  BY NoLeaseType DEF Init, HolderInv
<1>2. Inv /\ Inv' /\ ShellsFollowSession /\ HolderInv /\ [Next]_vars => HolderInv'
  BY NextHolder
<1>3. Inv /\ HolderInv => ShellsOfHolder
  <2> SUFFICES ASSUME Inv, HolderInv, NEW s \in shells, s.st = "up", s.past = "plain",
                      Watched(s)
               PROVE  ~HeldByOther(s.lab, s.tab)
    BY DEF ShellsOfHolder
  <2> QED
    BY DEF HolderInv, HeldByOther, GivenUp
<1>4. Spec => []Inv
  BY InvHolds
<1>5. Spec => []ShellsFollowSession
  BY ShellsFollowSessionHolds
<1> QED
  BY <1>1, <1>2, <1>3, <1>4, <1>5, PTL DEF Spec
=============================================================================
