---------------------------- MODULE WorkspaceSync ----------------------------
(***************************************************************************)
(* The files of one Spark workspace, from the editor to the object store:  *)
(* frontend/src/hooks/useWorkspaceSync.ts, the editor and the page that    *)
(* drive it (SparkProjectEditor.tsx, SparkPlatformWorkspace.tsx), the      *)
(* workspace routes of backend/routes/session.ts,                          *)
(* backend/workspace/workspaceStore.ts and sparkLifecycle.ts.              *)
(*                                                                         *)
(* Content edits are saved after a pause, each by a request of its own;    *)
(* created, deleted and renamed files go through a queue, one at a time.   *)
(* Requests overtake each other, and so do their steps at the object store *)
(* and at the index of it in the database.  A content is the number of the *)
(* edit that made it; 0 is no file, 1 the starter.                         *)
(***************************************************************************)
EXTENDS Naturals, Sequences, FiniteSets

CONSTANTS Paths, Starters, \* all files; those of the challenge's starter
          MaxEdits,    \* bound: contents ever typed or created
          MaxRequests, \* bound: requests under way at a time
          MaxOps,      \* bound: files created, deleted, renamed; resets; undos
          MaxUpsets    \* bound: failed requests, pages opened anew

ASSUME WorkspaceSyncAssumption ==
  /\ Starters \subseteq Paths /\ IsFiniteSet(Paths)
  /\ MaxEdits \in Nat /\ MaxRequests \in Nat /\ MaxOps \in Nat /\ MaxUpsets \in Nat

VARIABLES
  latest, \* latestContentRef: the files as the editor shows them
  saved,  \* lastSavedRef
  timer,  \* timersRef: the content a timer is going to save, or 0
  queue,  \* structuralQueue
  net,    \* the requests under way
  store,  \* the objects of the workspace
  index,  \* the paths in session_workspace_files
  launch, \* the Run in the making
  doubt,  \* paths two requests met at, or whose structural request failed (history)
  partial, \* paths whose last save failed after its object was put (history)
  edits, ops, upsets

vars == <<latest, saved, timer, queue, net, store, index, launch, doubt, partial, edits, ops,
          upsets>>

Slots    == 1..MaxRequests
Contents == 0..MaxEdits + 1
Files    == [Paths -> Contents]
Fresh    == edits + 2
Nothing  == [p \in Paths |-> 0]
Starter  == [p \in Paths |-> IF p \in Starters THEN 1 ELSE 0]

Shown == {p \in Paths : latest[p] # 0}
Free  == [op |-> "none"]
\* A request on p, to `to` if it renames; `here` while its page is open.
Request(op, p, to, c, pc) ==
  [op |-> op, path |-> p, to |-> to, content |-> c, pc |-> pc, here |-> TRUE]
SaveOf(p, c) == Request("save", p, p, c, "object")
NoRun == [pc |-> "none", shown |-> Nothing, waits |-> {}]

Structural == {"create", "delete", "rename"}
Underway == {s \in Slots : net[s] # Free}

\* The states of the model.
TypeOK ==
  /\ latest \in Files /\ saved \in Files /\ timer \in Files /\ store \in Files
  /\ index \subseteq Paths /\ doubt \subseteq Paths /\ partial \subseteq Paths
  /\ \A q \in {net[s] : s \in Underway} \cup {queue[i] : i \in 1..Len(queue)} :
       q \in [op: Structural \cup {"save", "copy", "reset"}, path: Paths, to: Paths, content: Contents,
              pc: {"get", "object", "row", "remove", "unlist", "wipe", "seed"}, here: BOOLEAN]
  /\ Cardinality({s \in Underway : net[s].here /\ net[s].op \in Structural}) <= 1
  /\ launch \in [pc: {"none", "copy", "flush", "post"}, shown: Files, waits: SUBSET Slots]
  /\ edits \in 0..MaxEdits /\ ops \in 0..MaxOps /\ upsets \in 0..MaxUpsets

Init ==
  /\ latest = Starter /\ saved = Starter /\ store = Starter
  /\ timer = Nothing
  /\ index = Starters
  /\ queue = <<>>
  /\ net = [s \in Slots |-> Free]
  /\ launch = NoRun
  /\ doubt = {} /\ partial = {}
  /\ edits = 0 /\ ops = 0 /\ upsets = 0
-----------------------------------------------------------------------------
(* The hook.                                                               *)

First(s) == s \in Slots \ Underway /\ \A t \in 1..(s - 1) : t \in Underway

\* A request that meets another at a file, or a file in doubt, puts all files
\* of both in doubt; a rename carries doubt along.
FilesOf(q) == IF q.op = "reset" THEN Paths ELSE {q.path, q.to}
Meets(q, others) ==
  LET met == {o \in others : FilesOf(o) \cap FilesOf(q) # {}} IN
  IF met = {} /\ FilesOf(q) \cap doubt = {} THEN {}
  ELSE UNION {FilesOf(o) : o \in met \cup {q}}
Sent   == {net[s] : s \in Underway}
Queued == {queue[i] : i \in 1..Len(queue)}

\* A file the learner changed is no longer claimed for the Run in the making.
Unclaim(P) == launch' = [launch EXCEPT !.shown = [p \in Paths |-> IF p \in P THEN 0 ELSE @[p]]]

Op == ops < MaxOps /\ ops' = ops + 1
hidden == <<net, store, index, partial, upsets>>

\* An operation is queued; a file with a request under way is in doubt, and one
\* whose last save was put but failed.
Queue(q) ==
  /\ queue' = Append(queue, q)
  /\ Unclaim({q.path, q.to})
  /\ doubt' = doubt \cup Meets(q, Sent)
                    \cup (IF FilesOf(q) \cap partial = {} THEN {} ELSE FilesOf(q))

\* trackContentChange: a content other than the one saved; the timer is started
\* anew.
Type(p) ==
  /\ edits < MaxEdits /\ p \in Shown
  /\ edits' = edits + 1
  /\ latest' = [latest EXCEPT ![p] = Fresh]
  /\ timer' = [timer EXCEPT ![p] = Fresh]
  /\ Unclaim({p})
  /\ UNCHANGED <<saved, queue, doubt, ops, hidden>>

\* trackContentChange, back to the content saved: a timer that is set stays set.
Undo(p) ==
  /\ Op
  /\ p \in Shown /\ saved[p] # 0 /\ latest[p] # saved[p]
  /\ latest' = [latest EXCEPT ![p] = saved[p]]
  /\ Unclaim({p})
  /\ UNCHANGED <<saved, timer, queue, doubt, edits, hidden>>

\* The pause is over: saveContent.
Save(p, s) ==
  /\ timer[p] # 0 /\ First(s)
  /\ timer' = [timer EXCEPT ![p] = 0]
  /\ net' = [net EXCEPT ![s] = SaveOf(p, timer[p])]
  /\ doubt' = doubt \cup Meets(SaveOf(p, timer[p]), Sent \cup Queued)
  /\ UNCHANGED <<latest, saved, queue, store, index, launch, partial, edits, ops, upsets>>

\* notifyCreated: the file is taken as saved at once.
Create(p) ==
  /\ Op
  /\ edits < MaxEdits /\ p \notin Shown
  /\ edits' = edits + 1
  /\ latest' = [latest EXCEPT ![p] = Fresh]
  /\ saved' = [saved EXCEPT ![p] = Fresh]
  /\ Queue(Request("create", p, p, Fresh, "object"))
  /\ UNCHANGED <<timer, hidden>>

\* notifyDeleted.
Delete(p) ==
  /\ Op
  /\ p \in Shown
  /\ latest' = [latest EXCEPT ![p] = 0]
  /\ saved' = [saved EXCEPT ![p] = 0]
  /\ timer' = [timer EXCEPT ![p] = 0]
  /\ Queue(Request("delete", p, p, 0, "remove"))
  /\ UNCHANGED <<edits, hidden>>

\* notifyRenamed: what is saved moves along; a timer stays with the old name.
Rename(p, to) ==
  /\ Op
  /\ p \in Shown /\ to \notin Shown
  /\ latest' = [latest EXCEPT ![to] = latest[p], ![p] = 0]
  /\ saved' = IF saved[p] = 0 THEN saved ELSE [saved EXCEPT ![to] = saved[p], ![p] = 0]
  /\ Queue(Request("rename", p, to, 0, "get"))
  /\ UNCHANGED <<timer, edits, hidden>>

\* Mutants of Dequeue: it does not wait; a failure is not caught.
DequeueAtOnce(s) ==
  /\ queue # <<>> /\ First(s)
  /\ net' = [net EXCEPT ![s] = Head(queue)]
  /\ queue' = Tail(queue)
  /\ doubt' = doubt \cup Meets(Head(queue), Sent)
  /\ UNCHANGED <<latest, saved, timer, store, index, launch, partial, edits, ops, upsets>>

DequeueUncaught(s) == upsets = 0 /\ DequeueAtOnce(s)

\* The next structural request leaves when the one before is answered.
Dequeue(s) ==
  /\ queue # <<>> /\ First(s)
  /\ \A t \in Underway : ~(net[t].here /\ net[t].op \in Structural)
  /\ net' = [net EXCEPT ![s] = Head(queue)]
  /\ queue' = Tail(queue)
  /\ doubt' = doubt \cup Meets(Head(queue), Sent)
  /\ UNCHANGED <<latest, saved, timer, store, index, launch, partial, edits, ops, upsets>>

\* handleResetToStarter: cancelPending, then POST /workspace/reset.
Reset(s) ==
  /\ Op
  /\ First(s) /\ \A t \in Underway : net[t].op # "reset"
  /\ timer' = Nothing
  /\ \E p \in Paths : net' = [net EXCEPT ![s] = Request("reset", p, p, 0, "wipe")]
  /\ doubt' = IF Sent \cup Queued = {} THEN doubt ELSE Paths
  /\ launch' = [launch EXCEPT !.shown = Nothing]
  /\ UNCHANGED <<latest, saved, queue, store, index, partial, edits, upsets>>
-----------------------------------------------------------------------------
(* Run or Submit: launchJob.                                               *)

\* A submission that is looked at is run: its file is created (`versions/`), and
\* put by a request of its own, too, which the Run waits for, done or failed.
Copy(p, s) ==
  LET create == Request("create", p, p, Fresh, "object")
      copy   == Request("copy", p, p, Fresh, "object") IN
  /\ Op
  /\ launch.pc = "none" /\ edits < MaxEdits /\ First(s)
  /\ edits' = edits + 1
  /\ latest' = [latest EXCEPT ![p] = Fresh]
  /\ saved' = [saved EXCEPT ![p] = Fresh]
  /\ queue' = Append(queue, create)
  /\ net' = [net EXCEPT ![s] = copy]
  /\ launch' = [pc |-> "copy", shown |-> Nothing, waits |-> {s}]
  /\ doubt' = doubt \cup Meets(copy, Sent \cup Queued \cup {create})
  /\ UNCHANGED <<timer, store, index, partial, upsets>>

\* The Run comes to flush.
Flushes == launch.pc = "none" \/ (launch.pc = "copy" /\ launch.waits = {})

Unsaved == {p \in Shown : latest[p] # saved[p]}

\* Mutant of Launch: only what a timer waits for is flushed.
LaunchTimed ==
  LET late == {p \in Shown : timer[p] # 0}
      to   == CHOOSE f \in [late -> Slots \ Underway] : \A p, q \in late : p # q => f[p] # f[q] IN
  /\ Flushes /\ Cardinality(late) <= Cardinality(Slots \ Underway)
  /\ timer' = Nothing
  /\ net' = [s \in Slots |-> IF \E p \in late : to[p] = s
                             THEN LET p == CHOOSE p \in late : to[p] = s
                                  IN SaveOf(p, latest[p])
                             ELSE net[s]]
  /\ launch' = [pc |-> "flush", waits |-> {to[p] : p \in late},
                shown |-> IF Underway = {} /\ queue = <<>> THEN latest ELSE Nothing]
  /\ doubt' = doubt \cup UNION {Meets(SaveOf(p, latest[p]), Sent \cup Queued) : p \in late}
  /\ UNCHANGED <<latest, saved, queue, store, index, partial, edits, ops, upsets>>

\* flush: the timers stop, and every file not known to be saved is sent.  The
\* files shown are claimed for the run if nothing was on its way before.
Launch ==
  LET to == CHOOSE f \in [Unsaved -> Slots \ Underway] :
              \A p, q \in Unsaved : p # q => f[p] # f[q] IN
  /\ Flushes /\ Cardinality(Unsaved) <= Cardinality(Slots \ Underway)
  /\ timer' = Nothing
  /\ net' = [s \in Slots |-> IF \E p \in Unsaved : to[p] = s
                             THEN LET p == CHOOSE p \in Unsaved : to[p] = s
                                  IN SaveOf(p, latest[p])
                             ELSE net[s]]
  /\ launch' = [pc |-> "flush", waits |-> {to[p] : p \in Unsaved},
                shown |-> IF Underway = {} /\ queue = <<>> THEN latest ELSE Nothing]
  /\ doubt' = doubt \cup UNION {Meets(SaveOf(p, latest[p]), Sent \cup Queued) : p \in Unsaved}
  /\ UNCHANGED <<latest, saved, queue, store, index, partial, edits, ops, upsets>>

\* All saves of the flush are answered, or one failed: the job is posted.
Flushed ==
  /\ launch.pc = "flush" /\ launch.waits = {}
  /\ launch' = [launch EXCEPT !.pc = "post"]
  /\ UNCHANGED <<latest, saved, timer, queue, net, store, index, doubt, partial, edits, ops,
                 upsets>>

\* snapshotProject copies the objects of the workspace as they are by now.
Snapshot ==
  /\ launch.pc = "post"
  /\ launch' = NoRun
  /\ UNCHANGED <<latest, saved, timer, queue, net, store, index, doubt, partial, edits, ops,
                 upsets>>
-----------------------------------------------------------------------------
(* workspaceStore.ts: the steps of a request, and its answer.              *)

pageAnd == <<timer, queue, edits, ops, upsets>>
Step(s, pc) == net' = [net EXCEPT ![s].pc = pc]

Done(s) ==
  /\ net' = [net EXCEPT ![s] = Free]
  /\ launch' = [launch EXCEPT !.waits = @ \ {s}]

\* renameFile reads the old file; 404 if there is none.
Get(s) ==
  /\ net[s] # Free /\ net[s].pc = "get" /\ store[net[s].path] # 0
  /\ net' = [net EXCEPT ![s].pc = "object", ![s].content = store[net[s].path]]
  /\ UNCHANGED <<latest, saved, store, index, launch, doubt, partial, pageAnd>>

\* putObject of putFile.
PutObject(s) ==
  /\ net[s] # Free /\ net[s].pc = "object"
  /\ store' = [store EXCEPT ![net[s].to] = net[s].content]
  /\ Step(s, "row")
  /\ UNCHANGED <<latest, saved, index, launch, doubt, partial, pageAnd>>

\* The page hears that a save of its own is done.
Heard(s) ==
  partial' = IF net[s].op = "save" /\ net[s].here THEN partial \ {net[s].path} ELSE partial

\* Mutant of PutRow: what is shown by now is taken for saved.
PutRowLatest(s) ==
  /\ net[s] # Free /\ net[s].pc = "row"
  /\ index' = index \cup {net[s].to}
  /\ IF net[s].op = "rename" THEN Step(s, "remove") /\ UNCHANGED <<saved, launch>>
     ELSE Done(s) /\ saved' = [saved EXCEPT ![net[s].path] = latest[net[s].path]]
  /\ Heard(s)
  /\ UNCHANGED <<latest, store, doubt, pageAnd>>

\* upsertFileRow; an answered content save is the content last saved.
PutRow(s) ==
  /\ net[s] # Free /\ net[s].pc = "row"
  /\ index' = index \cup {net[s].to}
  /\ IF net[s].op = "rename" THEN Step(s, "remove") /\ UNCHANGED <<saved, launch>>
     ELSE /\ Done(s)
          /\ saved' = IF net[s].op = "save" /\ net[s].here
                      THEN [saved EXCEPT ![net[s].path] = net[s].content] ELSE saved
  /\ Heard(s)
  /\ UNCHANGED <<latest, store, doubt, pageAnd>>

\* deleteObject of deleteFile.
Remove(s) ==
  /\ net[s] # Free /\ net[s].pc = "remove"
  /\ store' = [store EXCEPT ![net[s].path] = 0]
  /\ Step(s, "unlist")
  /\ UNCHANGED <<latest, saved, index, launch, doubt, partial, pageAnd>>

Unlist(s) ==
  /\ net[s] # Free /\ net[s].pc = "unlist"
  /\ index' = index \ {net[s].path}
  /\ Done(s)
  /\ UNCHANGED <<latest, saved, store, doubt, partial, pageAnd>>

\* replaceAllFiles: files of the index that are no starters go, starters come.
Wipe(s) ==
  /\ net[s] # Free /\ net[s].pc = "wipe"
  /\ LET known == IF \E p \in index : store[p] # 0 THEN index ELSE Paths
         gone  == {p \in known \ Starters : store[p] # 0} IN
     /\ store' = [p \in Paths |-> IF p \in gone THEN 0 ELSE store[p]]
     /\ index' = (IF known = index THEN index ELSE {p \in Paths : store[p] # 0}) \ gone
  /\ Step(s, "seed")
  /\ UNCHANGED <<latest, saved, launch, doubt, partial, pageAnd>>

\* seedFiles; the page takes the starter as shown and saved.
Seed(s) ==
  /\ net[s] # Free /\ net[s].pc = "seed"
  /\ store' = [p \in Paths |-> IF p \in Starters THEN 1 ELSE store[p]]
  /\ index' = index \cup Starters
  /\ Done(s)
  /\ IF net[s].here THEN latest' = Starter /\ saved' = Starter ELSE UNCHANGED <<latest, saved>>
  /\ UNCHANGED <<doubt, partial, pageAnd>>

Upset == upsets < MaxUpsets /\ upsets' = upsets + 1

\* A request fails where it is, or its answer is lost: a save leaves the file
\* unsaved, stored or not, and a failed flush does not stop the Run; after a
\* structural request the queue goes on.
Fail(s) ==
  /\ net[s] # Free
  /\ \/ Upset
     \/ net[s].pc = "get" /\ store[net[s].path] = 0 /\ UNCHANGED upsets
  /\ net' = [net EXCEPT ![s] = Free]
  /\ launch' = IF s \in launch.waits THEN [launch EXCEPT !.waits = {}, !.shown = Nothing]
               ELSE launch
  /\ doubt' = IF net[s].op = "save" THEN doubt ELSE doubt \cup FilesOf(net[s])
  /\ partial' = IF net[s].op = "save" /\ net[s].pc = "row" THEN partial \cup {net[s].path}
                ELSE partial
  /\ UNCHANGED <<latest, saved, timer, queue, store, index, edits, ops>>

\* The page is opened anew: its timers and queue are gone, startSparkSession
\* seeds the starters that are missing, and loadAllFiles reads what the index
\* lists.
Open ==
  LET seeded == [p \in Paths |-> IF store[p] = 0 THEN Starter[p] ELSE store[p]]
      listed == index \cup {p \in Starters : store[p] = 0}
      known  == IF \E p \in listed : seeded[p] # 0 THEN listed
                ELSE {p \in Paths : seeded[p] # 0}
      found  == [p \in Paths |-> IF p \in known THEN seeded[p] ELSE 0] IN
  /\ Upset
  /\ store' = seeded /\ index' = known
  /\ latest' = found /\ saved' = found
  /\ timer' = Nothing /\ queue' = <<>>
  /\ net' = [s \in Slots |-> IF net[s] = Free THEN Free ELSE [net[s] EXCEPT !.here = FALSE]]
  /\ doubt' = doubt \cup UNION {FilesOf(q) : q \in Sent}
  /\ launch' = NoRun
  /\ UNCHANGED <<partial, edits, ops>>
-----------------------------------------------------------------------------
Serve(s) == Get(s) \/ PutObject(s) \/ PutRow(s) \/ Remove(s) \/ Unlist(s) \/ Wipe(s) \/ Seed(s)

Next ==
  \/ \E p \in Paths : \/ Type(p) \/ Undo(p) \/ Create(p) \/ Delete(p)
                      \/ \E to \in Paths : Rename(p, to)
  \/ Launch \/ Flushed \/ Snapshot
  \/ \E s \in Slots : \/ Serve(s) \/ Fail(s) \/ Dequeue(s) \/ Reset(s)
                      \/ \E p \in Paths : Save(p, s)
                      \/ \E p \in Paths \ Starters : Copy(p, s)
  \/ Open

\* Timers fire, the queue moves on, requests are served or fail.
Fairness ==
  /\ \A p \in Paths : WF_vars(\E s \in Slots : Save(p, s))
  /\ WF_vars(\E s \in Slots : Dequeue(s))
  /\ \A s \in Slots : WF_vars(Serve(s) \/ Fail(s))
  /\ WF_vars(Flushed) /\ WF_vars(Snapshot)

Spec == Init /\ [][Next]_vars /\ Fairness
-----------------------------------------------------------------------------
(* Properties.                                                             *)

AtRest == Underway = {} /\ queue = <<>>

Known == Paths \ (doubt \cup partial)

\* Once nothing is on its way, the contents the page takes for saved
\* (lastSavedRef) are the ones stored, and the index lists the files that are
\* stored, saves that failed and were repeated included: but for files two
\* requests met at, a structural request failed on, or whose last save failed
\* when its object was put.  What is shown may still differ from both.
SavedIsStored ==
  AtRest => \A p \in Known : saved[p] = store[p] /\ (p \in index <=> store[p] # 0)

\* A job runs the files as they were shown when Run was pressed, if nothing was
\* on its way then and no save of the flush failed: flush saves all that a
\* timer, an earlier failed save or a rename left unsaved, and waits for it.  The
\* files excepted are those of SavedIsStored.
RunTakesShown ==
  [][(launch.pc = "post" /\ launch'.pc = "none" /\ upsets' = upsets) =>
       \A p \in Known : launch.shown[p] # 0 => store[p] = launch.shown[p]]_vars

\* Whatever fails, every timer, queued operation and request comes to an end:
\* a failed operation does not stop the ones behind it.
ComesToRest == <>[](AtRest /\ timer = Nothing)
=============================================================================
