------------------------------- MODULE TabLease -------------------------------
(***************************************************************************)
(* One open lab per learner, open in one browser tab: the tab leases of    *)
(* src/backend/workspace/sessionExclusivity.ts with the session routes     *)
(* that use them, the idle watcher (sessionIdle.ts), the terminals of      *)
(* k8sTerminalService.ts and the browser's side (labTabLease.ts, App.tsx). *)
(*                                                                         *)
(* One learner, several tabs.  A lab has one session, named by the lab; a  *)
(* lab is a Kubernetes lab or a board.  What an open and an end do in the  *)
(* cluster is LabLifecycle's business: here they only take time.  Between  *)
(* two awaits a handler is atomic.                                         *)
(***************************************************************************)
EXTENDS Naturals, FiniteSets

CONSTANTS
  Tabs,     \* page loads: a reload is another tab, with a client id of its own
  Labs,
  Boards,   \* the labs that are whiteboards
  Budget,   \* bound: how many saves of boards, resets and failed row writes there are
  Env,      \* what may go wrong: subset of Hazards
  None

Hazards ==
  { "overlap",   \* the learner starts labs in two tabs at the same time
    "lag",       \* writing an ended session's row outlasts the next open
    "slow",      \* dialling and starting a shell outlasts an end and the next open, or
                 \* the lease that another tab has taken since
    "fail",      \* an open fails
    "crowd",     \* ... also while another tab shows the lab or has its terminal
    "hasty",     \* a reset is asked for, or done, while its tab has no lease (after a
                 \* restart, or when another tab has taken the lab)
    "db",        \* a write of a session's row fails
    "restart" }  \* the backend stops and is started again

ASSUME TabsAssumption ==
  /\ Boards \subseteq Labs
  /\ Env \subseteq Hazards
  /\ None \notin Labs \cup Tabs

VARIABLES
  active,   \* labs whose session is active
  idle,     \* active labs whose lastActivityAt is IDLE_MS ago or more
  lease,    \* the lease of each session
  tab,      \* each tab and the start or end request it has in flight
  gone,     \* tabs that were closed or reloaded
  shells,   \* terminals, at the server
  sweep,    \* the idle watcher's pass
  writes,   \* requests that set their session active once more when they are
            \* carried out: saves of a board (its timer or the request), resets
  spent,    \* of the bound: how many of them there were, and failed row writes
  stored,   \* labs whose session the backend has in memory
  unsaved,  \* labs whose session row may say otherwise: its last write failed
  revived   \* history: labs active, or being ended, that were set active again after
            \* an end, since they were last opened

again == <<writes, spent, stored, unsaved, revived>>
vars == <<active, idle, lease, tab, gone, shells, sweep, again>>

\* pc: what the tab shows, or the await its request is at.
\*   away      no lab on screen
\*   ending    a start ends other labs, one after the other, and awaits cur's end
\*   open      a start may go on: startK8sSession, startBoardSession
\*   resuming  it found the session active and takes its turn on the lock
\*   opening   it made the session active and provisions the lab
\*   here      the lab is on screen; the tab heartbeats
\*   taken     ... under the notice that another tab took it ("use it here")
\*   ended     ... under the notice that the session has ended
\*   quitting  /end awaits the session row
Tab == [pc : {"away", "ending", "open", "resuming", "opening",
              "here", "taken", "ended", "quitting"},
        lab : Labs \cup {None}, todo : SUBSET Labs, cur : Labs \cup {None},
        dial : BOOLEAN]
Away == [pc |-> "away", lab |-> None, todo |-> {}, cur |-> None, dial |-> FALSE]
OnScreen == {"here", "taken", "ended"}
Starting == {"ending", "open", "resuming", "opening"}

Lease == [tab : Tabs \cup {None}, fresh : BOOLEAN]
NoLease == [tab |-> None, fresh |-> FALSE]

\* orphan: attached after its socket had closed, so that no close event comes.
\* past (history): left when its session's end, which failed at the row, told
\* nobody; or revived when its lab became active again after an end.
Shell == [tab : Tabs, lab : Labs, st : {"starting", "up", "orphan"},
          past : {"plain", "revived", "left"}]

AgainOK ==
  /\ writes \subseteq Tabs \X Labs /\ spent \in Nat
  /\ stored \subseteq Labs /\ unsaved \subseteq Labs /\ revived \subseteq Labs
TypeOK ==
  /\ active \subseteq Labs
  /\ idle \subseteq Labs
  /\ lease \in [Labs -> Lease]
  /\ tab \in [Tabs -> Tab]
  /\ gone \subseteq Tabs
  /\ shells \subseteq Shell
  /\ sweep \in [todo : SUBSET Labs, cur : Labs \cup {None}]
  /\ AgainOK

Init ==
  /\ active = {}
  /\ idle = {}
  /\ lease = [l \in Labs |-> NoLease]
  /\ tab = [t \in Tabs |-> Away]
  /\ gone = {}
  /\ shells = {}
  /\ sweep = [todo |-> {}, cur |-> None]
  /\ writes = {} /\ spent = 0 /\ stored = {} /\ unsaved = {} /\ revived = {}

-----------------------------------------------------------------------------
(* Leases.                                                                  *)

HeldByOther(l, t) == lease[l].fresh /\ lease[l].tab \notin {None, t}

\* Mutant of Claim: terminals of the tab that lost the lease stay open.
ClaimQuietly(l, t) ==
  /\ lease' = [lease EXCEPT ![l] = [tab |-> t, fresh |-> TRUE]]
  /\ UNCHANGED shells

\* heartbeat that succeeds.  When the lease moves, the terminals other tabs
\* have open on the lab are closed; one that is starting is not listed yet.
Claim(l, t) ==
  /\ lease' = [lease EXCEPT ![l] = [tab |-> t, fresh |-> TRUE]]
  /\ shells' = IF lease[l].tab \in {None, t} THEN shells
               ELSE {s \in shells : s.lab = l /\ s.tab # t => s.st = "starting"}

\* Whatever terminal another tab than t was opening on the lab is open by now.
OnlyDials(l, t) ==
  \/ "slow" \in Env
  \/ /\ \A s \in shells : s.lab = l /\ s.st = "starting" => s.tab = t
     /\ \A u \in Tabs : tab[u].lab = l /\ tab[u].dial => u = t

\* LEASE_TTL_MS without a heartbeat: the tab is gone or shows something else, or
\* it is in the background, where browsers hold timers back.  A board has no
\* terminals to close when its lapsed lease moves.
Lapse(l) ==
  /\ lease[l].fresh
  /\ OnlyDials(l, lease[l].tab)
  /\ lease' = [lease EXCEPT ![l] = IF l \in Boards THEN NoLease ELSE [@ EXCEPT !.fresh = FALSE]]
  /\ UNCHANGED <<active, idle, tab, gone, shells, sweep, again>>

-----------------------------------------------------------------------------
(* Ends.                                                                    *)

\* Sessions whose end awaits the session row, with the owner of the wait.
Quitting == {tab[t].lab : t \in {u \in Tabs : tab[u].pc = "quitting"}}
Ending == ({tab[t].cur : t \in Tabs} \cup {sweep.cur}) \ {None}
Pending == Quitting \cup Ending

\* What an earlier session of the lab left under way is through.
Settled(l) ==
  /\ "lag" \in Env \/ Quitting \cup Ending = {}
  /\ OnlyDials(l, None)

\* terminalEventBus session_end: the lab's open terminals are closed.
SessionEnd(l) == {s \in shells : s.lab = l => s.st = "starting"}

LeftOpen(l) ==
  {IF s.lab = l /\ s.st # "starting" THEN [s EXCEPT !.past = "left"] ELSE s : s \in shells}

Spend == spent < Budget /\ spent' = spent + 1

\* persistRow; the row then says what the session in memory says.
RowWritten(l) == unsaved' = unsaved \ {l} /\ UNCHANGED spent
RowFails(l) == "db" \in Env /\ Spend /\ unsaved' = unsaved \cup {l}
RowTried(l) == RowWritten(l) \/ RowFails(l)

\* endSessionById after the session has become "ended": session_end follows the
\* write of the row; when that throws, a line is logged and nobody is told.
EndSaved(l) ==
  /\ \/ RowWritten(l) /\ shells' = SessionEnd(l)
     \/ RowFails(l) /\ shells' = LeftOpen(l)
  /\ revived' = revived \cap (active' \cup Pending')
  /\ UNCHANGED <<writes, stored>>

WithoutLease(ended) == [l \in Labs |-> IF l \in ended THEN NoLease ELSE lease[l]]

\* assertCanStart's loop over the labs to end, up to its next await: labs that
\* are no longer active, or being ended by the watcher, are passed over.
EndOthers(t, l, todo) ==
  LET toEnd == todo \cap (active \ Ending) IN
  \/ /\ toEnd = {}
     /\ lease' = WithoutLease(todo)
     /\ tab' = [tab EXCEPT ![t] = [Away EXCEPT !.pc = "open", !.lab = l]]
     /\ UNCHANGED <<active, idle>>
  \/ \E s \in toEnd, passed \in SUBSET (todo \ toEnd) :
       /\ lease' = WithoutLease(passed \cup {s})
       /\ active' = active \ {s} /\ idle' = idle \ {s}
       /\ tab' = [tab EXCEPT ![t] = [Away EXCEPT !.pc = "ending", !.lab = l, !.cur = s,
                                               !.todo = todo \ (passed \cup {s})]]

\* Mutant of ToEnd: boards are left open.
ToEndNoBoards(l, force) == IF force THEN (active \ Boards) \ {l} ELSE {}

\* The labs a start of l ends first: boards quietly, others when forced.
Others(l) == (active \ Boards) \ {l}
ToEnd(l, force) == ((active \cap Boards) \ {l}) \cup (IF force THEN Others(l) ELSE {})

\* Mutant of MayStart: the other labs are not looked at.
MayStartAnyway(t, l, force) == l \in active /\ HeldByOther(l, t) => force

\* Otherwise 409 ACTIVE_LAB_ELSEWHERE or LAB_OPEN_IN_OTHER_TAB.
MayStart(t, l, force) ==
  /\ Others(l) = {} \/ force
  /\ l \in active /\ HeldByOther(l, t) => force

Start(t, l, force) ==
  /\ t \notin gone
  /\ tab[t].pc = "away"
  /\ "overlap" \in Env \/ \A u \in Tabs : tab[u].pc \notin Starting
  /\ MayStart(t, l, force)
  /\ EndOthers(t, l, ToEnd(l, force))
  /\ UNCHANGED <<gone, shells, sweep, again>>

EndedOther(t) ==
  /\ tab[t].pc = "ending"
  /\ EndOthers(t, tab[t].lab, tab[t].todo)
  /\ UNCHANGED <<gone, sweep>>
  /\ EndSaved(tab[t].cur)

\* The session's last activity was before its end, IDLE_MS ago or more or not.
MayBeIdle(l) ==
  \/ UNCHANGED idle
  \/ l \in stored \ active /\ idle' = idle \cup {l}

Activated(l) ==
  /\ active' = active \cup {l}
  /\ stored' = stored \cup {l}
  /\ MayBeIdle(l)
  /\ revived' = revived \ {l}
  /\ UNCHANGED <<writes, spent, unsaved>>

\* The session becomes active: at once when it is in memory, else after a query
\* of the sessions table (always a step of its own here).
Activate(t) ==
  /\ tab[t].pc = "open"
  /\ Settled(tab[t].lab)
  /\ Activated(tab[t].lab)
  /\ tab' = [tab EXCEPT ![t].pc =
               IF tab[t].lab \in active \ Boards THEN "resuming" ELSE "opening"]
  /\ UNCHANGED <<lease, gone, shells, sweep>>

\* Its turn on the lock shows that the session was ended meanwhile.
Reactivate(t) ==
  /\ tab[t].pc = "resuming"
  /\ tab[t].lab \notin active
  /\ Settled(tab[t].lab)
  /\ Activated(tab[t].lab)
  /\ tab' = [tab EXCEPT ![t].pc = "opening"]
  /\ UNCHANGED <<lease, gone, shells, sweep>>

\* The start succeeds, its row written unless it resumed a session as it was:
\* the tab takes the lease, whoever holds it by now.
Opened(t) ==
  /\ \/ tab[t].pc = "opening" /\ RowWritten(tab[t].lab)
     \/ tab[t].pc = "resuming" /\ tab[t].lab \in active /\ UNCHANGED <<unsaved, spent>>
  /\ Claim(tab[t].lab, t)
  /\ idle' = idle \ {tab[t].lab}
  /\ tab' = [tab EXCEPT ![t] = IF t \in gone THEN Away
                                ELSE [@ EXCEPT !.pc = "here", !.dial = tab[t].lab \notin Boards]]
  /\ UNCHANGED <<active, gone, sweep, writes, stored, revived>>

\* A failed open of a lab ends its session without a session_end; if the lab was
\* opened and only the row could not be written, its session stays active.
OpenFails(t) ==
  /\ tab[t].pc = "opening"
  /\ \/ "crowd" \in Env
     \/ /\ \A u \in Tabs \ {t} : tab[u].lab # tab[t].lab
        /\ \A s \in shells : s.lab # tab[t].lab
  /\ \/ /\ "fail" \in Env /\ tab[t].lab \notin Boards
        /\ active' = active \ {tab[t].lab} /\ idle' = idle \ {tab[t].lab}
        /\ RowTried(tab[t].lab)
     \/ RowFails(tab[t].lab) /\ UNCHANGED <<active, idle>>
  /\ tab' = [tab EXCEPT ![t] = Away]
  /\ UNCHANGED <<lease, gone, shells, sweep, writes, stored, revived>>

-----------------------------------------------------------------------------
(* The tab that shows a lab.                                                *)

Shows(t, pcs) == t \notin gone /\ tab[t].pc \in pcs

Heartbeat(t) ==
  /\ Shows(t, {"here"})
  /\ LET l == tab[t].lab IN
       \/ /\ l \in active /\ ~HeldByOther(l, t)
          /\ Claim(l, t)
          /\ UNCHANGED tab
       \/ /\ l \notin active
          /\ tab' = [tab EXCEPT ![t].pc = "ended"]
          /\ UNCHANGED <<lease, shells>>
       \/ /\ l \in active /\ HeldByOther(l, t)
          /\ tab' = [tab EXCEPT ![t].pc = "taken"]
          /\ UNCHANGED <<lease, shells>>
  /\ UNCHANGED <<active, idle, gone, sweep, again>>

\* "Use it here": a forced heartbeat, then the terminal is dialled again.
UseHere(t) ==
  /\ Shows(t, {"taken"})
  /\ \/ /\ tab[t].lab \in active
        /\ Claim(tab[t].lab, t)
        /\ tab' = [tab EXCEPT ![t].pc = "here",
                                  ![t].dial = tab[t].lab \notin Boards]
     \/ /\ tab[t].lab \notin active
        /\ tab' = [tab EXCEPT ![t].pc = "ended"]
        /\ UNCHANGED <<lease, shells>>
  /\ UNCHANGED <<active, idle, gone, sweep, again>>

Leave(t) ==
  /\ Shows(t, {"taken", "ended"})
  /\ tab' = [tab EXCEPT ![t] = Away]
  /\ UNCHANGED <<active, idle, lease, gone, shells, sweep, again>>

\* Any request but heartbeats and /end counts as activity; reads pass the gate.
Touch(t) ==
  /\ Shows(t, OnScreen)
  /\ tab[t].lab \in idle
  /\ idle' = idle \ {tab[t].lab}
  /\ UNCHANGED <<active, lease, tab, gone, shells, sweep, again>>

-----------------------------------------------------------------------------
(* Requests that set their session active, whatever became of it meanwhile.  *)

AsksWrite(t, l) ==
  /\ Spend
  /\ writes' = writes \cup {<<t, l>>}

Noted(s, l) ==
  IF s.lab = l /\ s.past = "plain" /\ s.st = "up" THEN [s EXCEPT !.past = "revived"] ELSE s

\* status = 'active', with no look at what it was.
SetActive(l) ==
  /\ active' = active \cup {l}
  /\ revived' = revived \cup ({l} \ active)
  /\ shells' = IF l \in active THEN shells ELSE {Noted(s, l) : s \in shells}

\* The learner changes the board: it is saved 400 ms later, also when the page
\* shows something else by then (checks, claims and submits go out at once).
Edit(t) ==
  /\ Shows(t, {"here"})
  /\ tab[t].lab \in Boards
  /\ AsksWrite(t, tab[t].lab)
  /\ UNCHANGED <<active, idle, lease, tab, gone, shells, sweep, stored, unsaved, revived>>

\* A board route asks the gate and for a session in memory, active or not.
SaveBoard(t, l) ==
  /\ <<t, l>> \in writes /\ l \in Boards
  /\ writes' = writes \ {<<t, l>>}
  /\ \/ /\ l \in stored /\ ~HeldByOther(l, t)
        /\ SetActive(l) /\ RowTried(l)
        /\ IF l \in active THEN idle' = idle \ {l} ELSE MayBeIdle(l)
     \/ /\ l \notin stored \/ HeldByOther(l, t) \/ t \in gone
        /\ UNCHANGED <<active, idle, revived, unsaved, spent, shells>>
  /\ UNCHANGED <<lease, tab, gone, sweep, stored>>

\* A reset passes the gate and is put on the lab's lock.
Reset(t) ==
  /\ Shows(t, {"here"})
  /\ LET l == tab[t].lab IN
       /\ l \in active \ Boards
       /\ ~HeldByOther(l, t)
       /\ "hasty" \in Env \/ lease[l].tab = t
       /\ idle' = idle \ {l}
       /\ AsksWrite(t, l)
  /\ UNCHANGED <<active, lease, tab, gone, shells, sweep, stored, unsaved, revived>>

\* It is provisioned again; the page then dials its terminal again.  Or it fails,
\* before the session is set active or at its row.
ResetDone(t, l) ==
  /\ <<t, l>> \in writes /\ l \notin Boards
  /\ writes' = writes \ {<<t, l>>}
  /\ LET shown == Shows(t, OnScreen) /\ tab[t].lab = l IN
     \/ /\ "hasty" \in Env \/ (shown /\ l \in active \ revived => lease[l].tab = t)
        /\ SetActive(l) /\ RowTried(l) /\ MayBeIdle(l)
        /\ tab' = IF shown /\ l \notin unsaved' THEN [tab EXCEPT ![t].dial = TRUE] ELSE tab
     \/ "fail" \in Env /\ UNCHANGED <<active, idle, revived, unsaved, spent, tab, shells>>
  /\ UNCHANGED <<lease, gone, sweep, stored>>

-----------------------------------------------------------------------------
(* /end and closing the page.                                               *)

\* What /end does once the session has ended.
FinishEnd(t) ==
  /\ shells' = SessionEnd(tab[t].lab)
  /\ lease' = [lease EXCEPT ![tab[t].lab] = NoLease]
  /\ tab' = [tab EXCEPT ![t] = Away]

\* /end passes the gate only from a tab no other tab holds the lab against; of
\* a session that has ended already nothing is left to write.
End(t) ==
  /\ Shows(t, {"here"})
  /\ ~HeldByOther(tab[t].lab, t)
  /\ \/ /\ tab[t].lab \in active
        /\ active' = active \ {tab[t].lab} /\ idle' = idle \ {tab[t].lab}
        /\ tab' = [tab EXCEPT ![t].pc = "quitting"]
        /\ UNCHANGED <<lease, shells>>
     \/ /\ tab[t].lab \notin active
        /\ FinishEnd(t)
        /\ UNCHANGED <<active, idle>>
  /\ UNCHANGED <<gone, sweep, again>>

\* When the row cannot be written /end answers with the error, the lease is kept
\* and no terminal closed; a lab's page closes all the same, a board's stays.
EndFails(t) ==
  /\ shells' = LeftOpen(tab[t].lab)
  /\ tab' = [tab EXCEPT ![t] = IF @.lab \in Boards /\ t \notin gone
                              THEN [@ EXCEPT !.pc = "here"] ELSE Away]
  /\ UNCHANGED lease

EndDone(t) ==
  /\ tab[t].pc = "quitting"
  /\ \/ RowWritten(tab[t].lab) /\ FinishEnd(t)
     \/ RowFails(tab[t].lab) /\ EndFails(t)
  /\ UNCHANGED <<active, idle, gone, sweep, writes, stored>>
  /\ revived' = revived \cap (active' \cup Pending')

\* The page goes away: its beacon releases the lease, unless it gets lost.
Close(t) ==
  /\ t \notin gone
  /\ gone' = gone \cup {t}
  /\ \/ UNCHANGED lease
     \/ /\ tab[t].pc = "here"
        /\ lease[tab[t].lab].tab = t
        /\ OnlyDials(tab[t].lab, t)
        /\ lease' = [lease EXCEPT ![tab[t].lab] = NoLease]
  /\ tab' = [tab EXCEPT ![t] = IF tab[t].pc \in OnScreen THEN Away ELSE tab[t]]
  /\ UNCHANGED <<active, idle, shells, sweep, again>>

-----------------------------------------------------------------------------
(* Terminals.                                                               *)

\* The tab dials, giving up its old terminal; handleConnection admits it or
\* not, and starts a shell.  (Bound: one shell of a tab starts at a time.)
Connect(t) ==
  /\ Shows(t, OnScreen)
  /\ tab[t].dial
  /\ LET l == tab[t].lab
         kept == {s \in shells : s.tab = t /\ s.lab = l => s.st # "up"}
     IN /\ \A s \in shells : s.tab = t /\ s.lab = l => s.st # "starting"
        /\ shells' = IF l \in active \ Boards /\ ~HeldByOther(l, t)
                     THEN kept \cup {[tab |-> t, lab |-> l, st |-> "starting", past |-> "plain"]}
                     ELSE kept
  /\ tab' = [tab EXCEPT ![t].dial = FALSE]
  /\ UNCHANGED <<active, idle, lease, gone, sweep, again>>

\* Its page is there and still shows the lab.
Watched(s) == Shows(s.tab, OnScreen) /\ tab[s.tab].lab = s.lab

\* Mutant of Admitted: the lab's state is not read again.
AdmittedAsBefore(s) == TRUE

\* What attachShell looks at again once the shell has started.
Admitted(s) == s.lab \in active /\ ~HeldByOther(s.lab, s.tab)

Attach(s) ==
  /\ s.st = "starting"
  /\ idle' = idle \ {s.lab}
  /\ \/ ~Admitted(s) /\ shells' = shells \ {s}
     \/ /\ Admitted(s)
        /\ shells' = (shells \ {s}) \cup
                       {IF ~Watched(s) THEN [s EXCEPT !.st = "orphan"]
                        ELSE [s EXCEPT !.st = "up",
                                       !.past = IF s.lab \in revived THEN "revived" ELSE "plain"]}
     \/ ~Watched(s) /\ shells' = shells \ {s}
  /\ UNCHANGED <<active, lease, tab, gone, sweep, again>>

Disconnect(s) ==
  /\ s.st = "up"
  /\ ~Watched(s)
  /\ shells' = shells \ {s}
  /\ UNCHANGED <<active, idle, lease, tab, gone, sweep, again>>

-----------------------------------------------------------------------------
(* The idle watcher.                                                        *)

\* Mutant of GoIdle: an open terminal counts as activity.
GoIdleOffline(l) ==
  /\ l \in active \ idle
  /\ \A t \in Tabs : tab[t].lab = l => tab[t].pc \notin Starting
  /\ \A s \in shells : s.lab # l
  /\ idle' = idle \cup {l}
  /\ UNCHANGED <<active, lease, tab, gone, shells, sweep, again>>

\* IDLE_MS without activity.  No open takes that long.
GoIdle(l) ==
  /\ l \in active \ idle
  /\ \A t \in Tabs : tab[t].lab = l => tab[t].pc \notin Starting
  /\ idle' = idle \cup {l}
  /\ UNCHANGED <<active, lease, tab, gone, shells, sweep, again>>

\* endSessionById of one lab of the list, up to its await.
EndIdle(todo) ==
  \E s \in todo :
    /\ active' = active \ ({s} \ Ending) /\ idle' = idle \ ({s} \ Ending)
    /\ sweep' = [todo |-> todo \ {s}, cur |-> IF s \in active \ Ending THEN s ELSE None]

SweepOnce ==
  /\ sweep.cur = None
  /\ IF sweep.todo = {} THEN EndIdle(idle) ELSE EndIdle(sweep.todo)
  /\ UNCHANGED <<lease, tab, gone, shells, again>>

\* The lease stays; it lapses.
SweepEnded ==
  /\ sweep.cur # None
  /\ sweep' = [sweep EXCEPT !.cur = None]
  /\ UNCHANGED <<active, idle, lease, tab, gone>>
  /\ EndSaved(sweep.cur)

-----------------------------------------------------------------------------
\* The sessions whose row is active are restored, with a fresh idle window; the
\* row of a session that was being opened or ended may say either, and so may one
\* whose last write failed.  A request in flight fails; tabs keep what they show.
\* (Bound: while a tab is open.)
Restart ==
  /\ "restart" \in Env
  /\ gone # Tabs
  /\ \E lost \in SUBSET ({tab[t].lab : t \in {u \in Tabs : tab[u].pc = "opening"}} \cup unsaved),
        back \in SUBSET (Quitting \cup Ending \cup (unsaved \ active)) :
       /\ active' = (active \ lost) \cup back
       /\ revived' = (revived \cap active') \cup (back \cap unsaved)
  /\ stored' = active'
  /\ unsaved' = {} /\ writes' = {} /\ UNCHANGED spent
  /\ idle' = {}
  /\ lease' = [l \in Labs |-> NoLease]
  /\ tab' = [t \in Tabs |-> IF tab[t].pc \in OnScreen
                            THEN [tab[t] EXCEPT !.dial = FALSE] ELSE Away]
  /\ shells' = {}
  /\ sweep' = [todo |-> {}, cur |-> None]
  /\ UNCHANGED gone

Server(t) ==
  \/ EndedOther(t)
  \/ Activate(t) \/ Reactivate(t) \/ Opened(t)
  \/ EndDone(t)
  \/ \E l \in Labs : SaveBoard(t, l) \/ ResetDone(t, l)

Browser(t) ==
  \/ \E l \in Labs, force \in BOOLEAN : Start(t, l, force)
  \/ Heartbeat(t) \/ UseHere(t) \/ Leave(t) \/ Touch(t) \/ Edit(t) \/ Reset(t)
  \/ End(t) \/ Close(t) \/ Connect(t)

Terminal == \E s \in shells : Attach(s) \/ Disconnect(s)
Watcher == SweepOnce \/ SweepEnded

Next ==
  \/ \E t \in Tabs : Server(t) \/ OpenFails(t) \/ Browser(t)
  \/ Terminal
  \/ Watcher
  \/ \E l \in Labs : Lapse(l) \/ GoIdle(l)
  \/ Restart

Spec == Init /\ [][Next]_vars

\* Handlers go on, timers fire and time passes; learners do as they like.  (That
\* one of them goes on is enough here: with no tab left, each goes on only so long.)
Progress ==
  \/ \E t \in Tabs : Server(t)
  \/ Terminal \/ Watcher
  \/ \E l \in Labs : GoIdle(l)
FairSpec == Spec /\ WF_vars(Progress)
-----------------------------------------------------------------------------
(* Properties.                                                              *)

\* "One open lab per user", and a start ends the whiteboards silently
\* (sessionExclusivity.ts:4-8): of the sessions a learner has active, all but one
\* were ended since they were last opened, and only a save of a board that came
\* after its end, a reset that was done after its lab's end or a restart that
\* found the end's row unwritten made them active again.
OneLab == \A j, k \in active \ revived : j = k

\* What makes it so: an invariant of every step while starts do not overlap and
\* rows are written promptly.  The session a start may find active is the one
\* it asked for or one it is about to end, and no session becomes active while
\* another one's end is pending.  Nothing is said of revived ones.
Formed ==
  \A t \in Tabs :
    /\ tab[t].pc # "away" => tab[t].lab \in Labs
    /\ tab[t].pc # "ending" => tab[t].todo = {}
    /\ tab[t].cur # None <=> tab[t].pc = "ending"
Slot ==
  /\ \A j, k \in (active \cup Pending) \ revived : j = k
  /\ active \cap Pending \subseteq revived
  /\ \A t \in Tabs : tab[t].pc \in Starting =>
       active \ revived \subseteq {tab[t].lab} \cup tab[t].todo
  /\ \A t, u \in Tabs : tab[t].pc \in Starting /\ tab[u].pc \in Starting => t = u
Inv == TypeOK /\ Formed /\ Slot

\* "Only the tab holding the lease may drive the lab" (k8sTerminalService.ts:51):
\* no open terminal belongs to a tab another tab holds the lab against, but for
\* one that an end which failed at the row has left open, or of a lab that has
\* become active after its end with the terminal.
ShellsOfHolder ==
  \A s \in shells : s.st = "up" /\ s.past = "plain" /\ Watched(s) => ~HeldByOther(s.lab, s.tab)

\* "a shell left open must not keep writing into it" (k8sTerminalService.ts:41):
\* once an end is through, no terminal is open on the ended session, unless this
\* end's row could not be written.
ShellsFollowSession ==
  \A s \in shells : s.st # "starting" /\ s.past # "left" =>
    s.lab \in active \cup Quitting \cup Ending

\* When every tab is gone, whatever was in flight, the labs are ended and their
\* terminals closed in the end, but for those a failed end has left open.
AbandonedLabEnds == gone = Tabs ~> active = {} /\ \A s \in shells : s.past = "left"
=============================================================================
