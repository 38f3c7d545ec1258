----------------------------- MODULE LabLifecycle -----------------------------
(***************************************************************************)
(* The lifecycle of Kubernetes labs in one learner's namespace, from       *)
(* src/backend/workspace/k8sLifecycle.ts and the parts of k8sCluster.ts,   *)
(* sessionExclusivity.ts, sessionIdle.ts and sessionStore.ts it calls.     *)
(*                                                                         *)
(* HTTP requests (and the idle watcher) start, end and reset lab sessions. *)
(* Whatever they do to the namespace runs as a task on a FIFO chain of     *)
(* promises, one task at a time.  Between two awaits a handler is atomic:  *)
(* each action below is one such stretch.                                  *)
(*                                                                         *)
(* Left to other modules: which browser tab holds a session (tab leases),  *)
(* how the node pools are scaled, and box labs, which own no namespace     *)
(* objects.                                                                *)
(***************************************************************************)
EXTENDS Naturals, Sequences, FiniteSets

CONSTANTS
  Labs,      \* the challenges that run in this learner's namespace
  Sids,      \* session ids (uuids); a finite pool bounds the model
  LabOf,     \* the challenge each session id belongs to
  Requests,  \* handlers that may be in flight at once
  Openers,   \* those that may start a lab (several: opens may overlap)
  Ops,       \* the operations used: subset of {"start", "end", "reset"}
  Env,       \* what may go wrong: subset of Hazards
  None       \* "no lab", "no request", "no session"

Hazards ==
  { "refuse",    \* node pool asleep, no capacity, or the namespace unreadable
    "snapshot",  \* the cluster cannot be read while a lab is parked
    "wipe",      \* a kubectl delete fails, or a call after the deletes does
    "restore",   \* re-applying a snapshot fails midway
    "setup",     \* setup.sh fails or is killed at its time limit
    "lag",       \* a query of the sessions table outlasts cluster calls
    "db",        \* a write of the session row fails
    "crash",     \* the backend stops and is started again
    "early",     \* a session is ended or reset during its open or reset
    "stray" }    \* the learner creates objects where the lab has none

ASSUME ConstantsAssumption ==
  /\ \A s \in Sids : LabOf[s] \in Labs
  /\ Openers \subseteq Requests
  /\ Ops \subseteq {"start", "end", "reset"}
  /\ Env \subseteq Hazards
  /\ None \notin Labs \cup Sids \cup Requests

VARIABLES
  sess,      \* status of the session object the store holds (or held last)
  store,     \* ids in the in-memory session store
  row,       \* status in the sessions table
  req,       \* the state of each handler
  queue,     \* the namespace's promise chain; its head is running
  step,      \* where the running task is
  live,      \* the objects in the namespace, by the lab they belong to
  snap,      \* snapshot file of each lab: what the namespace held
  unparked,  \* the lab whose park failed (the unparked map)
  progress   \* history, by lab: "made" when the learner worked in it, "none" when
             \* it is new or reset, "torn" when clearing it away failed meanwhile

vars == <<sess, store, row, req, queue, step, live, snap, unparked, progress>>
memory == <<sess, store, req, queue>>
cluster == <<live, snap, unparked, progress>>

-----------------------------------------------------------------------------
(* What a namespace or a snapshot holds.                                    *)

Content == {"none", "partial", "ready", "work"}
Contents == [Labs -> Content]
Empty == [l \in Labs |-> "none"]
NoSnapshot == [l \in Labs |-> "absent"]

Holds(c, l) == c[l] # "none"

\* Deleting or applying part of c: any lab of c may be left whole, in part, or gone.
PartOf(c) ==
  { d \in Contents : \A l \in Labs : \/ d[l] = c[l]
                                     \/ Holds(c, l) /\ d[l] \in {"none", "partial"} }

\* kubectl apply adds objects and leaves those already there.
Applied(base, add) == [l \in Labs |-> IF Holds(base, l) THEN base[l] ELSE add[l]]

-----------------------------------------------------------------------------
Status == {"active", "ended"}
Kinds == {"open", "reset", "park", "slot"}
Task == [kind : Kinds, lab : Labs, by : Requests \cup {None}]

\* pc: the await a handler is at.  own: "shared" while the handler's session
\* object is the one in the store, else the status of the object it kept.
Request ==
  [ pc    : {"idle", "lookup", "endwrite", "create", "slot", "queued",
             "persist", "fail", "delete"},
    op    : {"none", "start", "new", "end", "reset"},
    lab   : Labs \cup {None},
    sid   : Sids \cup {None},
    own   : {"shared"} \cup Status,
    todo  : SUBSET Sids,
    write : {"none"} \cup Status ]

Idle == [pc |-> "idle", op |-> "none", lab |-> None, sid |-> None,
         own |-> "shared", todo |-> {}, write |-> "none"]

Histories == {"none", "made", "torn"}

TypeOK ==
  /\ sess \in [Sids -> Status]
  /\ store \subseteq Sids
  /\ row \in [Sids -> {"none"} \cup Status]
  /\ req \in [Requests -> Request]
  /\ queue \in Seq(Task)
  /\ step \in {"begin", "retry", "wipe", "reset", "verify", "fill"}
  /\ live \in Contents
  /\ snap \in [Labs -> Contents \cup {NoSnapshot}]
  /\ unparked \in Labs \cup {None}
  /\ progress \in [Labs -> Histories]

Init ==
  /\ sess = [s \in Sids |-> "ended"]
  /\ store = {}
  /\ row = [s \in Sids |-> "none"]
  /\ req = [r \in Requests |-> Idle]
  /\ queue = <<>>
  /\ step = "begin"
  /\ live = Empty
  /\ snap = [l \in Labs |-> NoSnapshot]
  /\ unparked = None
  /\ progress = [l \in Labs |-> "none"]

-----------------------------------------------------------------------------
(* Session objects.                                                         *)

IsActive(s) == s \in store /\ sess[s] = "active"

\* Mutant of Seen: the handler's own copy even while it holds the stored object.
SeenCopyOnly(r) == req[r].own

\* The status r reads from the session object it holds.
Seen(r) == IF req[r].own = "shared" THEN sess[req[r].sid] ELSE req[r].own

\* A handler that waits on the chain still holds its session object.
Holding(r) == req[r].pc \in {"slot", "queued"}

\* sessionStore.set of another object under id s: handlers that held the
\* previous object keep it, out of the store.
Detach(s, r) ==
  [q \in Requests |-> IF q # r /\ Holding(q) /\ req[q].sid = s /\ req[q].own = "shared"
                      THEN [req[q] EXCEPT !.own = sess[s]] ELSE req[q]]

Waits(r, kind, l) == [kind |-> kind, lab |-> l, by |-> r]
Park(l) == [kind |-> "park", lab |-> l, by |-> None]

\* An ended session is opened again: active at once, then provisioned in turn.
Reactivate(r, s, fresh, q) ==
  /\ sess' = [sess EXCEPT ![s] = "active"]
  /\ store' = store \cup {s}
  /\ queue' = Append(q, Waits(r, "open", LabOf[s]))
  /\ req' = [(IF fresh THEN Detach(s, r) ELSE req) EXCEPT
               ![r] = [Idle EXCEPT !.pc = "queued", !.op = "start",
                                   !.lab = LabOf[s], !.sid = s]]

\* An active session is resumed as it is, after one turn on the chain.
Resume(r, s, fresh, q) ==
  /\ sess' = [sess EXCEPT ![s] = "active"]
  /\ store' = store \cup {s}
  /\ queue' = Append(q, Waits(r, "slot", LabOf[s]))
  /\ req' = [(IF fresh THEN Detach(s, r) ELSE req) EXCEPT
               ![r] = [Idle EXCEPT !.pc = "slot", !.op = "start",
                                   !.lab = LabOf[s], !.sid = s]]

OpenExisting(r, s, status, fresh, q) ==
  \/ status = "active" /\ Resume(r, s, fresh, q)
  \/ status # "active" /\ Reactivate(r, s, fresh, q)

\* The store answers at once; otherwise the sessions table is queried.
FindExisting(r, l, q) ==
  LET known == {s \in store : LabOf[s] = l} IN
  \/ \E s \in known : OpenExisting(r, s, sess[s], FALSE, q)
  \/ /\ known = {}
     /\ req' = [req EXCEPT ![r] = [Idle EXCEPT !.pc = "lookup", !.op = "start", !.lab = l]]
     /\ queue' = q
     /\ UNCHANGED <<sess, store>>

-----------------------------------------------------------------------------
(* Ending a session, by /end, the idle watcher or a forced start.           *)

BeginEnd(r, s, rec) ==
  /\ sess' = [sess EXCEPT ![s] = "ended"]
  /\ req' = [req EXCEPT ![r] = [rec EXCEPT !.pc = "endwrite", !.sid = s, !.write = "ended"]]
  /\ UNCHANGED store

\* A start first ends the learner's other active labs, one after the other.
ClaimSlot(r, l, others, q) ==
  \/ others = {} /\ FindExisting(r, l, q)
  \/ \E s \in others :
       /\ BeginEnd(r, s, [Idle EXCEPT !.op = "start", !.lab = l, !.todo = others \ {s}])
       /\ queue' = q

\* Without "early" the learner waits for an open or a reset to be answered
\* before the session is ended or reset.
InHand(s) == \E r \in Requests : req[r].sid = s /\ req[r].pc # "endwrite"
MayDisturb(s) == "early" \in Env \/ ~InHand(s)

StartRequest(r, l) ==
  /\ "start" \in Ops
  /\ r \in Openers
  /\ req[r].pc = "idle"
  /\ LET others == {s \in Sids : IsActive(s) /\ LabOf[s] # l} IN
       /\ \A s \in others : MayDisturb(s)
       /\ ClaimSlot(r, l, others, queue)
  /\ UNCHANGED <<row, step, cluster>>

\* No client knows the id of a session whose first write is pending, and the
\* idle watcher counts from its start.
Known(s) ==
  /\ IsActive(s)
  /\ \A r \in Requests : ~(req[r].pc = "create" /\ req[r].sid = s)
  /\ MayDisturb(s)

EndRequest(r, s) ==
  /\ "end" \in Ops
  /\ req[r].pc = "idle"
  /\ Known(s)
  /\ BeginEnd(r, s, [Idle EXCEPT !.op = "end"])
  /\ UNCHANGED <<row, queue, step, cluster>>

Answer(r) == req' = [req EXCEPT ![r] = Idle]

\* What follows endK8sSession in the handler that called it.
AfterEnd(r, q) ==
  \/ /\ req[r].op = "end"
     /\ Answer(r)
     /\ queue' = q
     /\ UNCHANGED <<sess, store>>
  \/ /\ req[r].op = "start"
     /\ ClaimSlot(r, req[r].lab, {s \in req[r].todo : IsActive(s)}, q)

\* Mutant of EndWritten: the park is never put on the chain.
EndWrittenNoPark(r) ==
  /\ req[r].pc = "endwrite"
  /\ row' = [row EXCEPT ![req[r].sid] = req[r].write]
  /\ AfterEnd(r, queue)
  /\ UNCHANGED <<step, cluster>>

\* The row is written; only then is the park put on the chain.
EndWritten(r) ==
  /\ req[r].pc = "endwrite"
  /\ row' = [row EXCEPT ![req[r].sid] = req[r].write]
  /\ AfterEnd(r, Append(queue, Park(LabOf[req[r].sid])))
  /\ UNCHANGED <<step, cluster>>

EndWriteFails(r) ==
  /\ "db" \in Env
  /\ req[r].pc = "endwrite"
  /\ AfterEnd(r, queue)
  /\ UNCHANGED <<row, step, cluster>>

-----------------------------------------------------------------------------
(* Starting a session: the part before and after the chain.                 *)

\* The query's answer is used without another look at the store.
FoundInTable(r, s) ==
  /\ req[r].pc = "lookup"
  /\ LabOf[s] = req[r].lab
  /\ row[s] # "none"
  /\ OpenExisting(r, s, row[s], TRUE, queue)
  /\ UNCHANGED <<row, step, cluster>>

Fresh(s) == s \notin store /\ row[s] = "none" /\ \A r \in Requests : req[r].sid # s

NewSession(r, s) ==
  /\ req[r].pc = "lookup"
  /\ LabOf[s] = req[r].lab
  /\ \A t \in Sids : LabOf[t] = req[r].lab => row[t] = "none"
  /\ Fresh(s)
  /\ sess' = [sess EXCEPT ![s] = "active"]
  /\ store' = store \cup {s}
  /\ req' = [req EXCEPT ![r] = [@ EXCEPT !.pc = "create", !.op = "new", !.sid = s,
                                          !.write = "active"]]
  /\ UNCHANGED <<row, queue, step, cluster>>

Created(r) ==
  /\ req[r].pc = "create"
  /\ row' = [row EXCEPT ![req[r].sid] = req[r].write]
  /\ queue' = Append(queue, Waits(r, "open", req[r].lab))
  /\ req' = [req EXCEPT ![r].pc = "queued", ![r].write = "none"]
  /\ UNCHANGED <<sess, store, step, cluster>>

\* persistRow throws before the try block: the session stays active in the store.
CreateFails(r) ==
  /\ "db" \in Env
  /\ req[r].pc = "create"
  /\ Answer(r)
  /\ UNCHANGED <<sess, store, row, queue, step, cluster>>

\* After a successful open or reset, the status captured then is written.
Persisted(r) ==
  /\ req[r].pc = "persist"
  /\ row' = [row EXCEPT ![req[r].sid] = req[r].write]
  /\ Answer(r)
  /\ UNCHANGED <<sess, store, queue, step, cluster>>

PersistFails(r) ==
  /\ "db" \in Env
  /\ req[r].pc = "persist"
  /\ Answer(r)
  /\ UNCHANGED <<sess, store, row, queue, step, cluster>>

\* A failed open writes 'ended' (an error of this write is ignored) ...
FailureWritten(r) ==
  /\ req[r].pc = "fail"
  /\ \/ row' = [row EXCEPT ![req[r].sid] = req[r].write]
     \/ "db" \in Env /\ row' = row
  /\ \/ req[r].op = "start" /\ Answer(r) /\ UNCHANGED store
     \/ /\ req[r].op = "new"
        /\ store' = store \ {req[r].sid}
        /\ req' = [req EXCEPT ![r].pc = "delete", ![r].write = "none"]
  /\ UNCHANGED <<sess, queue, step, cluster>>

\* ... and a session created for it is dropped from the table as well.
Deleted(r) ==
  /\ req[r].pc = "delete"
  /\ \/ row' = [row EXCEPT ![req[r].sid] = "none"]
     \/ "db" \in Env /\ row' = row
  /\ Answer(r)
  /\ UNCHANGED <<sess, store, queue, step, cluster>>

ResetRequest(r, s) ==
  /\ "reset" \in Ops
  /\ req[r].pc = "idle"
  /\ Known(s)
  /\ req' = [req EXCEPT ![r] = [Idle EXCEPT !.pc = "queued", !.op = "reset",
                                            !.lab = LabOf[s], !.sid = s]]
  /\ queue' = Append(queue, Waits(r, "reset", LabOf[s]))
  /\ UNCHANGED <<sess, store, row, step, cluster>>

-----------------------------------------------------------------------------
(* The running task.  The handler waiting for a task goes on before the     *)
(* next task begins, so the end of a task and the handler's next stretch    *)
(* are one action.                                                          *)

\* Cluster calls take seconds, queries milliseconds: without "lag" no step of
\* a task completes while a handler awaits a query.
Prompt == "lag" \in Env \/ \A r \in Requests : req[r].pc \in {"idle", "slot", "queued"}

Running(kinds) == Prompt /\ queue # <<>> /\ Head(queue).kind \in kinds
Provisioning == {"open", "reset"}

\* Mutant of NextTask: a finished task is not taken off the chain.
ChainStalls == queue' = queue /\ step' = "begin"

NextTask == queue' = Tail(queue) /\ step' = "begin"

SetSeen(r, status) ==
  IF req[r].own = "shared" THEN sess' = [sess EXCEPT ![req[r].sid] = status]
  ELSE sess' = sess

\* The open or reset of handler r is done.
TaskDone(r) ==
  /\ NextTask
  /\ UNCHANGED <<store, row>>
  /\ \/ req[r].op = "start"
        /\ req' = [req EXCEPT ![r] = [@ EXCEPT !.pc = "persist", !.own = "shared",
                                                !.write = Seen(r)]]
        /\ UNCHANGED sess
     \/ req[r].op = "new" /\ Answer(r) /\ UNCHANGED sess
     \/ /\ req[r].op = "reset"
        /\ SetSeen(r, "active")
        /\ req' = [req EXCEPT ![r] = [@ EXCEPT !.pc = "persist", !.own = "shared",
                                                !.write = "active"]]

\* Mutant of TaskFails: a failed open ends its session the usual way, by a park.
TaskFailsAndParks(r) ==
  /\ queue' = Append(Tail(queue), Park(req[r].lab))
  /\ step' = "begin"
  /\ sess' = IF req[r].sid = None THEN sess ELSE [sess EXCEPT ![req[r].sid] = "ended"]
  /\ req' = [req EXCEPT ![r] = [@ EXCEPT !.pc = "fail", !.own = "shared", !.write = "ended"]]
  /\ UNCHANGED <<store, row>>

\* It threw: a failed open ends its session, a failed reset changes nothing.
TaskFails(r) ==
  /\ NextTask
  /\ UNCHANGED <<store, row>>
  /\ \/ /\ req[r].op \in {"start", "new"}
        /\ SetSeen(r, "ended")
        /\ req' = [req EXCEPT ![r] = [@ EXCEPT !.pc = "fail", !.own = "shared",
                                                !.write = "ended"]]
     \/ req[r].op = "reset" /\ Answer(r) /\ UNCHANGED sess

\* A start that found the session active has had its turn.
SlotTaken ==
  /\ queue # <<>> /\ Head(queue).kind = "slot"
  /\ LET r == Head(queue).by
         s == req[r].sid
     IN \/ Seen(r) = "active" /\ Answer(r) /\ queue' = Tail(queue) /\ UNCHANGED <<sess, store>>
        \/ Seen(r) # "active" /\ Reactivate(r, s, req[r].own # "shared", Tail(queue))
  /\ step' = "begin"
  /\ UNCHANGED <<row, cluster>>

\* Past the retry of an earlier park: a reset drops the snapshot, then wipes.
\* (snap and progress change here; every caller leaves them alone otherwise.)
ToCleanUp(t, saved) ==
  \/ /\ t.kind = "reset"
     /\ step' = "reset"
     /\ snap' = [saved EXCEPT ![t.lab] = NoSnapshot]
     /\ progress' = [progress EXCEPT ![t.lab] = "none"]
  \/ /\ t.kind = "open"
     /\ step' = "verify"
     /\ snap' = saved
     /\ UNCHANGED progress

Begin ==
  /\ Running(Provisioning)
  /\ step = "begin"
  /\ \/ unparked # None /\ step' = "retry" /\ UNCHANGED <<snap, progress>>
     \/ unparked = None /\ ToCleanUp(Head(queue), snap)
  /\ UNCHANGED <<memory, row, live, unparked>>

\* requirePool, ensureLearnerNamespace, the listing or the reservation fails.
Refused ==
  /\ "refuse" \in Env
  /\ Running(Provisioning)
  /\ step \in {"begin", "verify"}
  /\ TaskFails(Head(queue).by)
  /\ UNCHANGED cluster

\* Mutant of Parked: a retry parks under the name of the lab being opened.
ParkedForOpened == Head(queue).lab

\* The lab being parked: the ended session's, or the one whose park failed.
Parked == IF Head(queue).kind = "park" THEN Head(queue).lab ELSE unparked

Snapshotting == \/ Running({"park"}) /\ step = "begin"
                \/ Running(Provisioning) /\ step = "retry"

Snapshot ==
  /\ Snapshotting
  /\ snap' = [snap EXCEPT ![Parked] = live]
  /\ step' = "wipe"
  /\ UNCHANGED <<memory, row, live, unparked, progress>>

\* Mutant of ParkFails: the failure is not noted.
ParkFailureForgotten ==
  /\ UNCHANGED unparked
  /\ \/ Running({"park"}) /\ NextTask /\ UNCHANGED <<sess, store, row, req>>
     \/ Running(Provisioning) /\ TaskFails(Head(queue).by)

\* park throws: the lab is noted, and an open or reset that retried it fails.
ParkFails ==
  /\ unparked' = Parked
  /\ \/ Running({"park"}) /\ NextTask /\ UNCHANGED <<sess, store, row, req>>
     \/ Running(Provisioning) /\ TaskFails(Head(queue).by)

\* Mutant of SnapshotFails: the wipe goes ahead.
SnapshotFailureIgnored ==
  /\ "snapshot" \in Env
  /\ Snapshotting
  /\ step' = "wipe"
  /\ UNCHANGED <<memory, row, cluster>>

SnapshotFails ==
  /\ "snapshot" \in Env
  /\ Snapshotting
  /\ ParkFails
  /\ UNCHANGED <<live, snap, progress>>

\* The deletes, the listing after them, the setup mark and the learner's access:
\* all is done, and the park with it.
Wipe ==
  /\ Running(Provisioning \cup {"park"})
  /\ step = "wipe"
  /\ live' = Empty
  /\ unparked' = IF unparked = Parked THEN None ELSE unparked
  /\ \/ Running({"park"}) /\ NextTask /\ UNCHANGED <<sess, store, req, snap, progress>>
     \/ Running(Provisioning) /\ ToCleanUp(Head(queue), snap) /\ UNCHANGED memory
  /\ UNCHANGED row

\* One of these calls fails: the namespace keeps something, all of it if no delete
\* took place, or nothing if only a later call failed.
WipeFails ==
  /\ "wipe" \in Env
  /\ Running(Provisioning \cup {"park"})
  /\ step = "wipe"
  /\ live' \in PartOf(live)
  /\ progress' = [progress EXCEPT ![Parked] = "torn"]
  /\ ParkFails
  /\ UNCHANGED snap

ResetWipe ==
  /\ Running({"reset"})
  /\ step = "reset"
  /\ live' = Empty
  /\ step' = "verify"
  /\ progress' = [progress EXCEPT ![Head(queue).lab] = "none"]
  /\ UNCHANGED <<memory, row, snap, unparked>>

ResetWipeFails ==
  /\ "wipe" \in Env
  /\ Running({"reset"})
  /\ step = "reset"
  /\ live' \in PartOf(live)
  /\ progress' = [progress EXCEPT ![Head(queue).lab] = "torn"]
  /\ TaskFails(Head(queue).by)
  /\ UNCHANGED <<snap, unparked>>

\* Mutant of Clean: only the lab's own objects are looked for.
CleanOfOwn == ~Holds(live, Head(queue).lab)

\* Nothing may be left in the namespace when a lab starts in it.
Clean == live = Empty

Verify ==
  /\ Running(Provisioning)
  /\ step = "verify"
  /\ \/ Clean /\ step' = "fill" /\ UNCHANGED <<memory, row>>
     \/ ~Clean /\ TaskFails(Head(queue).by)
  /\ UNCHANGED cluster

\* Mutant of Restores: setup.sh always runs.
RestoresNever(t) == FALSE

\* A snapshot with objects is re-applied; otherwise setup.sh runs.
Restores(t) == t.kind = "open" /\ snap[t.lab] \notin {NoSnapshot, Empty}
Target(t) == IF Restores(t) THEN snap[t.lab] ELSE [Empty EXCEPT ![t.lab] = "ready"]

Fill ==
  /\ Running(Provisioning)
  /\ step = "fill"
  /\ live' = Applied(live, Target(Head(queue)))
  /\ TaskDone(Head(queue).by)
  /\ UNCHANGED <<snap, unparked, progress>>

\* It fails after applying all, some or none of the objects.
FillFails ==
  /\ Running(Provisioning)
  /\ step = "fill"
  /\ IF Restores(Head(queue)) THEN "restore" \in Env ELSE "setup" \in Env
  /\ \E part \in PartOf(Target(Head(queue))) : live' = Applied(live, part)
  /\ TaskFails(Head(queue).by)
  /\ UNCHANGED <<snap, unparked, progress>>

-----------------------------------------------------------------------------
(* The learner and the process.                                             *)

\* A client opens its terminal after its start has been answered.
Opening(s) == \E r \in Requests : /\ req[r].sid = s
                                  /\ req[r].op \in {"start", "new"}
                                  /\ req[r].pc \in {"create", "slot", "queued"}

Work(s) ==
  /\ IsActive(s)
  /\ ~Opening(s)
  /\ Holds(live, LabOf[s]) \/ "stray" \in Env
  /\ live' = [live EXCEPT ![LabOf[s]] = "work"]
  /\ progress' = [progress EXCEPT ![LabOf[s]] = "made"]
  /\ UNCHANGED <<memory, row, step, snap, unparked>>

\* What a kubectl or setup.sh that was cut short leaves in the namespace.
Interrupted ==
  CASE queue # <<>> /\ step \in {"wipe", "reset"} -> PartOf(live)
    [] queue # <<>> /\ step = "fill" ->
         { Applied(live, part) : part \in PartOf(Target(Head(queue))) }
    [] OTHER -> {live}

\* Mutant of ForgetTasks: the chain outlives the process.
ForgetHandlersOnly == req' = [r \in Requests |-> Idle] /\ UNCHANGED <<queue, step>>

ForgetTasks == req' = [r \in Requests |-> Idle] /\ queue' = <<>> /\ step' = "begin"

\* The process stops; restoreFromDB loads the rows that are still active.
Crash ==
  /\ "crash" \in Env
  /\ ForgetTasks
  /\ unparked' = None
  /\ store' = {s \in Sids : row[s] = "active"}
  /\ sess' = [s \in Sids |-> IF row[s] = "none" THEN "ended" ELSE row[s]]
  /\ live' \in Interrupted
  /\ UNCHANGED <<row, snap, progress>>

-----------------------------------------------------------------------------
Arrive(r) ==
  \/ \E l \in Labs : StartRequest(r, l)
  \/ \E s \in Sids : EndRequest(r, s) \/ ResetRequest(r, s)

Handler(r) ==
  \/ EndWritten(r) \/ EndWriteFails(r)
  \/ \E s \in Sids : FoundInTable(r, s) \/ NewSession(r, s)
  \/ Created(r) \/ CreateFails(r)
  \/ Persisted(r) \/ PersistFails(r)
  \/ FailureWritten(r) \/ Deleted(r)

Chain ==
  \/ SlotTaken
  \/ Begin \/ Refused
  \/ Snapshot \/ SnapshotFails
  \/ Wipe \/ WipeFails
  \/ ResetWipe \/ ResetWipeFails
  \/ Verify
  \/ Fill \/ FillFails

Next ==
  \/ \E r \in Requests : Arrive(r) \/ Handler(r)
  \/ Chain
  \/ \E s \in Sids : Work(s)
  \/ Crash

Spec == Init /\ [][Next]_vars
FairSpec == Spec /\ WF_vars(Chain) /\ \A r \in Requests : WF_vars(Handler(r))
-----------------------------------------------------------------------------
(* Properties.                                                              *)

\* The namespace never holds objects of two labs: a provision, a reset or a
\* park never interleaves with another lab's (k8sLifecycle.ts:39-44).
OneLabAtATime ==
  \A j, k \in Labs : Holds(live, j) /\ Holds(live, k) => j = k

\* Every handler that waits on the promise chain has exactly one turn left on
\* it, and no turn is left for a handler that has been answered: nobody is
\* forgotten by the chain, and no task runs for a caller that went away.
OneTurnEach ==
  \A r \in Requests :
    Cardinality({i \in DOMAIN queue : queue[i].by = r}) = IF Holding(r) THEN 1 ELSE 0

\* The same, task by task, and what every handler must know to go on: an
\* invariant of every step.
Served(q, rq) ==
  /\ \A i \in DOMAIN q :
       \/ q[i].kind = "park" /\ q[i].by = None
       \/ /\ q[i].kind # "park" /\ q[i].by \in Requests
          /\ rq[q[i].by].pc = IF q[i].kind = "slot" THEN "slot" ELSE "queued"
  /\ \A i, j \in DOMAIN q : q[i].by = q[j].by /\ q[i].by # None => i = j
  /\ \A r \in Requests : rq[r].pc \in {"slot", "queued"} => \E i \in DOMAIN q : q[i].by = r
Named(rq) ==
  \A r \in Requests : /\ rq[r].pc \notin {"idle", "lookup"} => rq[r].sid \in Sids
                      /\ rq[r].pc = "create" => rq[r].lab \in Labs
Inv == TypeOK /\ Named(req) /\ Served(queue, req)

\* When nothing is in flight, objects in the namespace belong to an active
\* session or to the lab whose park failed (k8sLifecycle.ts:190-192).
Quiet == queue = <<>> /\ \A r \in Requests : req[r].pc = "idle"
LeftoversExplained ==
  Quiet /\ live # Empty =>
    \/ unparked # None
    \/ \E s \in Sids : IsActive(s) /\ Holds(live, LabOf[s])

\* A lab's snapshot holds no other lab's objects: "parking now would snapshot
\* whatever blocked the open" (k8sLifecycle.ts:326).
SnapshotsOwn ==
  \A l, k \in Labs : snap[l] # NoSnapshot /\ Holds(snap[l], k) => k = l

Saved(l) == live[l] = "work" \/ (snap[l] # NoSnapshot /\ snap[l][l] = "work")

\* What the learner made in a lab and did not discard by a reset is in the
\* namespace or in that lab's snapshot (k8sCluster.ts:1390-1391), unless this very
\* lab was being parked when its deletion failed: its retry snapshots whatever is
\* left.  No failure puts another lab's work at risk.
ProgressKept ==
  \A l \in Labs : progress[l] = "made" => Saved(l)

\* Work leaves the namespace only when some snapshot holds exactly what the
\* namespace held, or when a reset was asked for.
WipeKeepsWork ==
  [][\A l \in Labs : live[l] = "work" /\ live'[l] # "work" =>
       step = "reset" \/ \E k \in Labs : snap[k] = live]_vars

\* The labs as KeptWork sees them.
Occupant == IF live = Empty THEN None ELSE CHOOSE l \in Labs : Holds(live, l)
Promise == INSTANCE KeptWork WITH
  here <- Occupant,
  view <- IF live = Empty THEN "none" ELSE live[Occupant],
  kept <- {l \in Labs : progress[l] = "made"},
  torn <- {l \in Labs : progress[l] = "torn"},
  Tears <- "wipe" \in Env,
  Resets <- "reset" \in Ops
KeepsPromise == Promise!Spec

\* Every request is answered: the chain never leaves a caller waiting.
EveryRequestAnswered ==
  \A r \in Requests : req[r].pc # "idle" ~> req[r].pc = "idle"

\* A lab whose session ended leaves the namespace, unless its park failed (and
\* is noted) or the session is opened again.
EndedLabIsParked ==
  \A s \in Sids :
    s \in store /\ sess[s] = "ended" /\ Holds(live, LabOf[s]) ~>
      \/ ~Holds(live, LabOf[s])
      \/ unparked # None
      \/ sess[s] = "active"
=============================================================================
