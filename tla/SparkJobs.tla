------------------------------ MODULE SparkJobs ------------------------------
(***************************************************************************)
(* Runs and Submits of one scored Spark lab of one learner:                *)
(* backend/workspace/sparkJobs.ts, the job routes of                       *)
(* backend/routes/session.ts, and the page that polls and kills them,      *)
(* SparkPlatformWorkspace.tsx.                                             *)
(*                                                                         *)
(* A request is a record with a program counter: every await of its        *)
(* handler is a step, so a poll, a kill and a start interleave at the rows *)
(* of `submissions`, at the object store and at the Spark Platform.        *)
(***************************************************************************)
EXTENDS Naturals, FiniteSets

CONSTANTS MaxJobs,     \* bound: jobs ever started
          MaxRequests, \* bound: requests the server works on at a time
          KeepRun,     \* KEEP_RUN: newest Runs whose files are kept
          KeepSubmit,  \* KEEP_SUBMIT: newest Submits whose files are kept
          Expected,    \* modes the challenge has an expected output for (results_path)
          MaxUpsets    \* bound: kills, reloads, crashes, lost answers, lost apps,
                       \* failed gradings

ASSUME SparkJobsAssumption ==
  /\ MaxJobs \in Nat /\ KeepRun \in Nat /\ KeepSubmit \in Nat /\ MaxUpsets \in Nat
  /\ MaxRequests \in Nat /\ Expected \subseteq {"run", "submit"}

Requests == 1..MaxRequests
Jobs     == 1..MaxJobs                   \* in the order of submitted_at
Modes    == {"run", "submit"}
Settled  == {"succeeded", "failed"}
Verdicts == {"passed", "failed"}
Active   == {"submitted", "running"}     \* "queued" is taken as "submitted"

VARIABLES
  row,      \* the row of `submissions`, status "none" before its INSERT
  app,      \* the SparkApplication at the platform
  out,      \* what the application wrote, if it succeeded (history)
  code,     \* jobs whose jobs/<id> is in the object store
  output,   \* jobs whose results/<id> is in the object store
  tab,      \* what the open page shows of a job, and whether it polls it
  req,      \* the requests in progress
  excused,  \* jobs that were killed, whose POST was not answered, that the
            \* platform did not know when a poll asked for them, or whose
            \* grading threw (history)
  upsets    \* upsets so far

vars == <<row, app, out, code, output, tab, req, excused, upsets>>
platformVars == <<app, out>>
storeVars == <<code, output>>

Idle == [op |-> "none", job |-> 0, pc |-> "idle", on |-> FALSE, got |-> "none", extra |-> {},
         late |-> FALSE]
NoRow == [mode |-> "none", status |-> "none", grade |-> "none"]
Unseen == [seen |-> "none", polled |-> FALSE]

Pcs == {"idle", "drop", "post", "stamp", "ask", "note", "look", "mark", "check",
        "write", "fail", "reply", "delete", "settle"}

\* What a request carries from a query or an answer to its next step.
Answers == Active \cup Settled \cup Verdicts \cup {"none", "open", "settled"}

TypeOK ==
  /\ row \in [Jobs -> [mode: Modes \cup {"none"},
                       status: Active \cup Settled \cup {"none"},
                       grade: Verdicts \cup {"none", "pending", "grading"}]]
  /\ app \in [Jobs -> Active \cup Settled \cup {"none", "gone"}]
  /\ out \in [Jobs -> {"none", "right", "wrong"}]
  /\ tab \in [Jobs -> [seen: {"none", "live", "open", "done"}, polled: BOOLEAN]]
  /\ req \in [Requests -> [op: {"none", "start", "poll", "kill"}, job: Jobs \cup {0}, pc: Pcs,
                           on: BOOLEAN, got: Answers, extra: SUBSET Jobs, late: BOOLEAN]]
  /\ {code, output, excused} \subseteq SUBSET Jobs
  /\ upsets \in 0..MaxUpsets

Init ==
  /\ row = [j \in Jobs |-> NoRow]
  /\ app = [j \in Jobs |-> "none"]
  /\ out = [j \in Jobs |-> "none"]
  /\ tab = [j \in Jobs |-> Unseen]
  /\ req = [r \in Requests |-> Idle]
  /\ code = {} /\ output = {}
  /\ excused = {}
  /\ upsets = 0
-----------------------------------------------------------------------------
Inserted == {j \in Jobs : row[j].status # "none"}
Of(m) == {j \in Inserted : row[j].mode = m}
Busy(j) == {r \in Requests : req[r].job = j}
Keep(m) == IF m = "run" THEN KeepRun ELSE KeepSubmit

\* The newest n jobs of a set of jobs, ORDER BY submitted_at DESC.
Newest(n, S) == {j \in S : Cardinality({i \in S : i > j}) < n}

\* Mutant of Prunable: one too few is kept.
PrunableByOne == UNION {Of(m) \ Newest(Keep(m) - 1, Of(m)) : m \in Modes}

\* pruneWorkspaceJobArtifacts: rows.slice(keep), of both modes.
Prunable == UNION {Of(m) \ Newest(Keep(m), Of(m)) : m \in Modes}

\* isJobSettled and isTerminalStatus: what the page makes of a row.
View(j) == IF row[j].status \notin Settled THEN "live"
           ELSE IF row[j].grade \in {"pending", "grading"} THEN "open" ELSE "done"

\* The next step of request r: its counter and what it carries.
Goto(r, pc) == req' = [req EXCEPT ![r].pc = pc, ![r].got = "none"]
Carry(r, pc, v) == req' = [req EXCEPT ![r].pc = pc, ![r].got = v]

At(r, pc) == req[r].pc = pc

\* A request of the open page arrives, at the first free place; a poll keeps
\* whether the row it read was settled, a start which jobs its SELECT found.
\* `late` (history): the job had its verdict, and nobody else worked on it.
Arrive(r, op, j, pc, v, old) ==
  /\ req[r] = Idle /\ \A q \in 1..(r - 1) : req[q] # Idle
  /\ req' = [req EXCEPT ![r] =
               [op |-> op, job |-> j, pc |-> pc, on |-> TRUE, got |-> v, extra |-> old,
                late |-> row[j].grade \in Verdicts /\ \A q \in Busy(j) : req[q].late]]

Upset == upsets < MaxUpsets /\ upsets' = upsets + 1
-----------------------------------------------------------------------------
(* POST /spark/jobs: startSparkJob.                                        *)

\* launchJob, disabled while a job of the page is in flight; snapshotProject,
\* stageTestcaseInputs and writeManifest under the fresh id; INSERT; the SELECT
\* of the prune.
Start(r, m) ==
  LET j == Cardinality(Inserted) + 1 IN
  /\ j \in Jobs
  /\ \A i \in Jobs : tab[i].seen # "live"
  /\ \A q \in Requests : ~(req[q].op = "start" /\ req[q].on)
  /\ row' = [row EXCEPT ![j] = [mode |-> m, status |-> "submitted", grade |-> "pending"]]
  /\ Arrive(r, "start", j, "drop", "none", Prunable')
  /\ code' = code \cup {j}
  /\ UNCHANGED <<platformVars, output, tab, excused, upsets>>

\* The deletions of the prune: the rows its SELECT found too old.
DropOld(r) ==
  /\ At(r, "drop")
  /\ code' = code \ req[r].extra
  /\ output' = output \ req[r].extra
  /\ req' = [req EXCEPT ![r].pc = "post", ![r].extra = {}]
  /\ UNCHANGED <<row, platformVars, tab, excused, upsets>>

\* POST /api/jobs: accepted, refused, or done and not answered.
Post(r) ==
  LET j == req[r].job IN
  /\ At(r, "post")
  /\ \/ /\ app' = [app EXCEPT ![j] = "submitted"]
        /\ Carry(r, "stamp", "submitted")
        /\ UNCHANGED <<excused, upsets>>
     \/ /\ Upset
        /\ Carry(r, "stamp", "failed")
        /\ \/ UNCHANGED <<app, excused>>
           \/ /\ app' = [app EXCEPT ![j] = "submitted"]
              /\ excused' = excused \cup {j}
  /\ UNCHANGED <<row, out, storeVars, tab>>

\* Mutant of Stamp: the platform's own word for a status.
StampRaw(r) ==
  /\ At(r, "stamp")
  /\ row' = [row EXCEPT ![req[r].job].status = "SUBMITTED"]
  /\ Goto(r, "reply")
  /\ UNCHANGED <<platformVars, storeVars, tab, excused, upsets>>

\* UPDATE with the platform's status, or status='failed' and a 502 that leaves
\* the page without the job.
Stamp(r) ==
  /\ At(r, "stamp")
  /\ row' = [row EXCEPT ![req[r].job].status = req[r].got]
  /\ IF req[r].got = "failed" THEN req' = [req EXCEPT ![r] = Idle] ELSE Goto(r, "reply")
  /\ UNCHANGED <<platformVars, storeVars, tab, excused, upsets>>
-----------------------------------------------------------------------------
(* GET /spark/jobs/:jobId: refreshJobFromPlatform.                         *)

\* A tick of pollJob: one at a time for each job.
Poll(r, j) ==
  /\ tab[j].polled
  /\ \A q \in Busy(j) : ~(req[q].op = "poll" /\ req[q].on)
  /\ Arrive(r, "poll", j, "ask", IF row[j].status \in Settled THEN "settled" ELSE "open", {})
  /\ UNCHANGED <<row, platformVars, storeVars, tab, excused, upsets>>

\* Mutant of Ask: a 404 is ignored like an unreachable platform.
AskIgnoring(r) ==
  /\ At(r, "ask")
  /\ IF app[req[r].job] \in {"none", "gone"} THEN Goto(r, "look")
     ELSE Carry(r, "note", app[req[r].job])
  /\ UNCHANGED <<row, platformVars, storeVars, tab, excused, upsets>>

\* The platform's answer: a status, 404, or none. A 404 fails the row unless
\* the row read before was settled.
Ask(r) ==
  LET j == req[r].job IN
  /\ At(r, "ask")
  /\ \/ /\ app[j] \notin {"none", "gone"}
        /\ Carry(r, "note", app[j])
        /\ UNCHANGED <<excused, upsets>>
     \/ /\ app[j] \in {"none", "gone"}
        /\ Carry(r, IF req[r].got = "open" THEN "note" ELSE "look", "failed")
        /\ excused' = IF req[r].got = "open" THEN excused \cup {j} ELSE excused
        /\ UNCHANGED upsets
     \/ Upset /\ Goto(r, "look") /\ UNCHANGED excused
  /\ UNCHANGED <<row, platformVars, storeVars, tab>>

\* UPDATE ... SET status: whatever the row says by now.
Note(r) ==
  /\ At(r, "note")
  /\ row' = [row EXCEPT ![req[r].job].status = req[r].got]
  /\ Goto(r, "look")
  /\ UNCHANGED <<platformVars, storeVars, tab, excused, upsets>>
-----------------------------------------------------------------------------
(* maybeGradeJob, at the end of a poll and of a kill.                      *)

\* Mutants of Look: a job is graded before it ended; a verdict is given anew.
LookEarly(r) ==
  LET this == row[req[r].job] IN
  /\ At(r, "look")
  /\ Goto(r, IF this.grade \notin Verdicts THEN "mark" ELSE "reply")
  /\ UNCHANGED <<row, platformVars, storeVars, tab, excused, upsets>>

LookAgain(r) ==
  LET this == row[req[r].job] IN
  /\ At(r, "look")
  /\ Goto(r, CASE this.status = "succeeded" -> "mark"
               [] this.status = "failed" /\ this.grade = "pending" -> "fail"
               [] OTHER -> "reply")
  /\ UNCHANGED <<row, platformVars, storeVars, tab, excused, upsets>>

\* The row it reads decides: grade it, fail it, or nothing to do. Without an
\* expected output it fails whatever it wrote.
Look(r) ==
  LET this == row[req[r].job]
      open == this.status = "succeeded" /\ this.grade \notin Verdicts
  IN
  /\ At(r, "look")
  /\ Goto(r, CASE open /\ this.mode \in Expected                  -> "mark"
               [] open /\ this.mode \notin Expected               -> "fail"
               [] this.status = "failed" /\ this.grade = "pending" -> "fail"
               [] OTHER                                             -> "reply")
  /\ UNCHANGED <<row, platformVars, storeVars, tab, excused, upsets>>

\* A job Spark failed, or one without results_path: the verdict is failed.
Fail(r) ==
  /\ At(r, "fail")
  /\ row' = [row EXCEPT ![req[r].job].grade = "failed"]
  /\ Goto(r, "reply")
  /\ UNCHANGED <<platformVars, storeVars, tab, excused, upsets>>

\* UPDATE ... SET grade_status='grading'.
Mark(r) ==
  /\ At(r, "mark")
  /\ row' = [row EXCEPT ![req[r].job].grade = "grading"]
  /\ Goto(r, "check")
  /\ UNCHANGED <<platformVars, storeVars, tab, excused, upsets>>

\* Mutant of GradesOf: all jobs of the workspace write to one results path.
GradesOfShared(j) == IF \A k \in output : out[k] # "right" THEN {"failed"} ELSE {"passed"}

\* gradeOutputAgainstSolution: no output fails; without the manifest the cases
\* are guessed from the directories, which can fail a right output.
GradesOf(j) ==
  IF j \notin output \/ out[j] # "right" THEN {"failed"}
  ELSE {"passed"} \cup IF j \in code THEN {} ELSE {"failed"}

\* The grading, or what it threw (the store, mkdtemp, the UPDATE of its
\* verdict): the catch fails the job for good. A manifest that alone cannot be
\* read leaves the cases to be guessed.
Check(r) ==
  /\ At(r, "check")
  /\ \/ /\ \E g \in GradesOf(req[r].job) : Carry(r, "write", g)
        /\ UNCHANGED <<excused, upsets>>
     \/ /\ Upset
        /\ excused' = excused \cup {req[r].job}
        /\ \E g \in GradesOf(req[r].job) \cup {"failed"} : Carry(r, "write", g)
  /\ UNCHANGED <<row, platformVars, storeVars, tab>>

\* The verdict, over whatever the row says by now.
Write(r) ==
  /\ At(r, "write")
  /\ row' = [row EXCEPT ![req[r].job].grade = req[r].got]
  /\ Goto(r, "reply")
  /\ UNCHANGED <<platformVars, storeVars, tab, excused, upsets>>
\* The page that asked takes the row; a kill's answer stops the polling.
Reply(r) ==
  LET j == req[r].job IN
  /\ At(r, "reply")
  /\ tab' = IF ~req[r].on THEN tab
            ELSE [tab EXCEPT ![j] = [seen   |-> View(j),
                                     polled |-> req[r].op # "kill" /\ View(j) # "done"]]
  /\ req' = [req EXCEPT ![r] = Idle]
  /\ UNCHANGED <<row, platformVars, storeVars, excused, upsets>>
-----------------------------------------------------------------------------
(* DELETE /spark/jobs/:jobId: killSparkJob.                                *)

\* handleKillJob, of the job the page shows in flight; a settled row is only
\* read.
Kill(r, j) ==
  /\ tab[j].seen = "live"
  /\ \A q \in Requests : ~(req[q].op = "kill" /\ req[q].on)
  /\ Arrive(r, "kill", j, IF row[j].status \in Settled THEN "reply" ELSE "delete", "none", {})
  /\ Upset
  /\ UNCHANGED <<row, platformVars, storeVars, tab, excused>>

\* DELETE /api/jobs: "Platform down - still settle the row".
Delete(r) ==
  LET j == req[r].job IN
  /\ At(r, "delete")
  /\ excused' = excused \cup {j}
  /\ Goto(r, "settle")
  /\ \/ /\ app' = [app EXCEPT ![j] = IF @ = "none" THEN "none" ELSE "gone"]
     \/ UNCHANGED app
  /\ UNCHANGED <<row, out, storeVars, tab, upsets>>

\* UPDATE ... SET status='failed', whatever a poll wrote meanwhile.
SettleKilled(r) ==
  /\ At(r, "settle")
  /\ row' = [row EXCEPT ![req[r].job].status = "failed"]
  /\ Goto(r, "look")
  /\ UNCHANGED <<platformVars, storeVars, tab, excused, upsets>>
-----------------------------------------------------------------------------
(* The Spark Platform, the page and the server around them.                *)

\* The driver reads jobs/<id>/app when it starts and writes results/<id>.
Run(j) ==
  /\ \/ /\ app[j] = "submitted"
        /\ app' = [app EXCEPT ![j] = IF j \in code THEN "running" ELSE "failed"]
        /\ UNCHANGED <<out, output>>
     \/ /\ app[j] = "running"
        /\ app' = [app EXCEPT ![j] = "failed"]
        /\ UNCHANGED <<out, output>>
     \/ /\ app[j] = "running"
        /\ app' = [app EXCEPT ![j] = "succeeded"]
        /\ \E o \in {"right", "wrong"} : out' = [out EXCEPT ![j] = o]
        /\ output' = output \cup {j}
  /\ UNCHANGED <<row, code, tab, req, excused, upsets>>

\* The platform no longer knows the application (its hard time limit).
Forget(j) ==
  /\ app[j] \in Active \cup {"succeeded"}
  /\ Upset
  /\ app' = [app EXCEPT ![j] = "gone"]
  /\ UNCHANGED <<row, out, storeVars, tab, req, excused>>

\* The page is opened anew: it lists the jobs and polls those not settled;
\* nobody hears the answers to its earlier requests.
Reload ==
  /\ Upset
  /\ tab' = [j \in Jobs |-> IF j \notin Inserted THEN Unseen
                            ELSE [seen |-> View(j), polled |-> View(j) # "done"]]
  /\ req' = [r \in Requests |-> [req[r] EXCEPT !.on = FALSE]]
  /\ UNCHANGED <<row, platformVars, storeVars, excused>>

\* The server restarts. A poll that fails is tried again; a kill that fails
\* shows the job as failed and stops its polling.
Crash ==
  /\ \E r \in Requests : req[r] # Idle
  /\ Upset
  /\ req' = [r \in Requests |-> Idle]
  /\ tab' = [j \in Jobs |->
               IF \E r \in Busy(j) : req[r].op = "kill" /\ req[r].on
               THEN [seen |-> "open", polled |-> FALSE] ELSE tab[j]]
  /\ UNCHANGED <<row, platformVars, storeVars, excused>>
-----------------------------------------------------------------------------
Serve(r) ==
  \/ DropOld(r) \/ Post(r) \/ Stamp(r)
  \/ Ask(r) \/ Note(r)
  \/ Delete(r) \/ SettleKilled(r)
  \/ Look(r) \/ Fail(r) \/ Mark(r) \/ Check(r) \/ Write(r)
  \/ Reply(r)

Next ==
  \/ \E r \in Requests : \/ Serve(r)
                         \/ \E m \in Modes : Start(r, m)
                         \/ \E j \in Jobs : Poll(r, j) \/ Kill(r, j)
  \/ \E j \in Jobs : Run(j) \/ Forget(j)
  \/ Reload \/ Crash

\* The server answers every request it works on, the page keeps polling and
\* an application ends. Nobody has to start or kill a job, and no fault has to
\* happen.
Fairness ==
  /\ \A r \in Requests : WF_vars(Serve(r))
  /\ \A j \in Jobs : /\ SF_vars(\E r \in Requests : Poll(r, j))
                     /\ WF_vars(Run(j))

Spec == Init /\ [][Next]_vars /\ Fairness
-----------------------------------------------------------------------------
(* A pass is earned: a job with verdict passed ran to its end at the       *)
(* platform and its own output was right, however polls, kills, restarts   *)
(* and lost answers fell.                                                  *)
PassIsEarned == \A j \in Jobs : row[j].grade = "passed" => out[j] = "right"

(* The files of the newest Runs and Submits are there to be graded and     *)
(* shown, also while several starts prune at a time.                       *)
NewestKept ==
  \A m \in Modes : Newest(Keep(m), Of(m)) \subseteq code

(* A right output gets the verdict failed only where the job was killed,   *)
(* its files were pruned for a newer one, the platform did not answer its  *)
(* POST or did not know it when asked, the store failed while it was       *)
(* graded, or the challenge expects nothing of its mode: never because a   *)
(* poll came twice or beside a kill, a start or a restart.                 *)
RightFailedExplained ==
  \A j \in Jobs : row[j].grade = "failed" /\ out[j] = "right" =>
    \/ j \in excused
    \/ j \notin code
    \/ row[j].mode \notin Expected

(* Once a job has its verdict and no request works on it, no later poll,   *)
(* kill or start changes the verdict.                                      *)
VerdictStands ==
  [][\A j \in Jobs : row[j].grade \in Verdicts /\ row'[j].grade # row[j].grade =>
       \E r \in Busy(j) : ~req[r].late /\ req'[r] # req[r]]_vars

(* The page does not poll a job for ever: it comes to show its verdict, or *)
(* the answer to a kill, whatever crash, loss or 404 comes between.        *)
PollingEnds ==
  \A j \in Jobs : tab[j].polled ~> ~tab[j].polled
=============================================================================
