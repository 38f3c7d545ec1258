# Verification of Devlabs: labs and tabs, passes, capacity, Spark jobs, boards, workspace files

Devlabs runs hands-on labs for learners: a TypeScript backend (Express, Postgres, Redis, a Kubernetes
cluster and a Spark platform) and a React front end. This directory holds TLA+ models of the parts of it in
which concurrent requests, timers, crashes and failing services meet shared state, TLC configurations that
check them on small instances, and TLAPS proofs of their main safety properties for all parameters.

Every definition is translated from the code; `PROJECT.json` maps each to its file and lines, lists the
hazards of the code with the properties that cover them, and gives a mutant for every property: a plausible
bug in one mapped definition that the property's run detects.

    tlc -workers 2 -config LabLifecycle_one_tab.cfg MCLabLifecycle   # check one run
    tlapm LabLifecycleProofs.tla                                     # check one proof module

Contents: 1 the system, 2 the modules and the code, 3 the runs, 4 fairness, 5 the proofs, 6 where code and
comments disagree, 7 not modelled, 8 the plan.


## 1. The system

Status: M modelled, P in part, - not modelled (section 7 says why). Paths are under `src/backend` unless
they start with `frontend`.

| Component | Code | State | Operations | |
|---|---|---|---|---|
| Kubernetes lab lifecycle | `workspace/k8sLifecycle.ts`, `k8sCluster.ts`, `db/sessionStore.ts` | session objects in memory, rows of `sessions`, a promise chain per namespace, the `unparked` map, namespace, snapshot files | start (find, resume, reopen, create), reset, end, park, retry of a park, restore at start-up | P |
| Tab leases, exclusivity, idle end | `workspace/sessionExclusivity.ts`, `sessionIdle.ts`, `frontend/src/services/labTabLease.ts` | leases in memory, `lastActivityAt` | `assertCanStart`, `heartbeat`, takeover, `release`, `sweepOnce` | M |
| Session routes | `routes/session.ts` | - | HTTP handlers over the two above | P |
| Lab terminals | `observability/k8sTerminalService.ts` | open terminals by session and tab | connect, admission, closing | P |
| One-month passes | `routes/billing.ts`, `billing/store.ts`, `razorpay.ts` | tables `subscriptions`, `payments`, `billing_events`; Razorpay | order, verify, webhook, abandonment | P |
| Lab access by plan | `billing/labAccess.ts`, `plans.ts` | none | entitlement to a lab | - |
| Capacity reconciler | `workspace/k8sCapacity.ts` | the promise in flight and `again`, a cached replica count, waiting and held labs; the balloon deployment | timer, nudge, tick (list, read, scale, track), wait for a reservation, wait for nodes | P |
| Spark jobs | `workspace/sparkJobs.ts`, `frontend/src/components/SparkPlatformWorkspace.tsx` | rows of `submissions`, objects of the workspace and of outputs, applications of the platform, the page's polling | start, refresh, kill, grade, prune, poll | P |
| Spark sessions | `workspace/sparkLifecycle.ts` | session rows, seeded files | find, start, reset, end | P |
| Spark grading | `workspace/sparkGrade.ts` | none | JSON, Parquet and script graders | P |
| Architecture boards | `workspace/boardLifecycle.ts`, `boardGrade.ts` | game and board in the session, its row, submissions | start, save, check a step, claims, final question, submit, end | P |
| Box labs | `workspace/linuxBox.ts` | one pod per lab | create, delete | - |
| Compose sandbox, ports | `sandbox/*.ts` | port maps in memory and Redis, containers | allocate, up, down | - |
| Workspace sync | `frontend/src/hooks/useWorkspaceSync.ts`, `workspace/workspaceStore.ts` | timers, an operation queue, what was shown and saved; objects and rows of files | debounced save, create, rename, delete, flush, reset | M |
| Sign-in, catalogue, quizzes, leaderboard, profile, administration, mail, observability, server start-up | see `PROJECT.json` | mostly one row per request | single statements, reads, streams | - |

### How the parts interact

A browser tab has a client id of its own (`labTabLease.ts`), sent with each request. A start goes through
`assertCanStart`, which ends the learner's other labs (whiteboards always, other labs when forced), then
through `startK8sSession` or `startBoardSession`, and at last claims the tab's lease by a forced heartbeat.
Everything that touches a learner's namespace is put on a promise chain per namespace (`withNamespaceLock`),
so that opens, resets and parks run one at a time. Ending a lab marks its session ended, writes the row,
answers, and parks the lab behind that: the namespace's objects are snapshotted to a file and wiped. An open
retries an earlier park that failed, checks that the namespace is empty, and then re-applies the snapshot or
runs `setup.sh`. Terminals are admitted by lease and session status; lease moves and the `session_end`
event close them. The idle watcher ends sessions that had no activity for `IDLE_MS`. Sessions whose row is
active are restored into memory at start-up; leases, chain and `unparked` are not.

A Spark session is a workspace of files, no namespace: the page keeps them, `useWorkspaceSync` stores them, and Run and
Submit flush them, copy the objects and hand the copy to the Spark platform. The page polls each of its jobs; a poll asks
the platform, notes what it says, and grades a job that has succeeded. A board is a drawing in the session itself: every
request reads it from memory, may record a submission, puts it back and writes the row.

Billing is separate from labs except for access. A pass is granted by whichever comes first of the browser's
`/orders/verify` and Razorpay's webhook, and Razorpay delivers an event until it is acknowledged.

### What is hard

- *Awaits.* Node handlers interleave at every `await`. Nearly every hazard in `PROJECT.json` is a value
  read before an await and used after it: the session object a start keeps while it waits for the chain, the
  active labs `assertCanStart` sees, the idle list of a sweep, the lease a starting shell was admitted by.
- *Partial failure.* Park, open and reset are several cluster calls each; each may fail or be killed
  half-way, and what they leave is what the next open finds.
- *Crashes.* The chain, the leases and `unparked` exist in memory only.
- *Delivery.* Webhook events are delayed, repeated, and recorded before they are handled.
- *Abandonment.* Tabs close in the middle of anything; their beacon may get lost.
- *Shared promises.* One reconcile of the cluster's capacity runs at a time, and opens, ends and a timer wait for it or
  prolong it; what it saw may be older than the request that waits.

### What makes each part correct

- *Lab lifecycle*: the namespace never holds two labs; a learner's work is in the namespace or in its lab's
  snapshot until a reset, or until clearing away this very lab fails; a snapshot holds only its own lab; what is left over in the
  namespace has a noted cause; every request is answered and every ended lab is parked in the end.
- *Tab leases*: one active session per learner, but for those a late request sets active again; a live terminal belongs to
  the tab that holds the lab and to a session that is not over; abandoned labs end.
- *Passes*: a granted month is backed by a captured payment, granted once, and overlaps no other; a captured
  payment is granted in the end.
- *Capacity*: an open lab starts its setup after its slots were counted; the wait for them ends; reserved slots settle at
  what open labs have reserved and do not use.
- *Spark jobs*: a pass is earned by the output of its own job; a right output is failed only for a reason one can name; a
  verdict once given stands; the newest jobs keep their files; polling a job ends.
- *Boards*: the game is what was played, each copy of it agrees with its drawing, passes and stars are deserved, and a
  restart brings back what is in memory, but for a card that stands in two blocks.
- *Workspace files*: the contents the page takes for saved are stored and listed; a Run takes the files as shown; everything comes to rest.
- *Spark grading*: exactly the outputs pass that equal the reference up to order and tolerance.
- *Planned*: no two live sandboxes share a port.


## 2. The modules and the code

One action is one stretch of a handler between two awaits, with every call it makes in that stretch. A
program counter (`pc`) names the await a request is at. What may go wrong is a set `Env` of hazards, a
constant of each module: a run says which are on, a theorem which must be off. Sets of labs, tabs, sessions
and orders are constants too.

### LabLifecycle (with KeptWork, MCLabLifecycle, LabLifecycleProofs)

The labs of one learner in one namespace.

| Variable | Code |
|---|---|
| `sess`, `store` | session objects and `sessionStore`'s in-memory map |
| `row` | table `sessions` |
| `req` | HTTP handlers and the idle watcher's end in flight; `own` is the status of a session object the handler kept after another object replaced it in the store |
| `queue`, `step` | the promise chain of `withNamespaceLock` (k8sLifecycle.ts:45-57) and where its running task is |
| `live`, `snap` | the namespace's objects by lab ("none", "partial", "ready", "work") and the snapshot files |
| `unparked` | the map of the lab whose park failed (59) |
| `progress` | history, by lab: nothing made in it or reset ("none"), worked in ("made"), or not cleared away as a whole since ("torn") |

| Actions | Code |
|---|---|
| `StartRequest`, `FoundInTable`, `NewSession`, `Created`, `CreateFails` | `startK8sSession` up to the chain, `findExistingK8sSession`, `persistRow` |
| `SlotTaken`, `Reactivate` | a start that found the session active takes its turn and looks again (303-324) |
| `EndRequest`, `EndWritten`, `EndWriteFails` | `endK8sSession`: status, row, then the park on the chain |
| `ResetRequest`, `ResetWipe`, `ResetWipeFails` | `resetK8sSession` |
| `Begin`, `Refused`, `Verify`, `Fill`, `FillFails` | provisioning: pool and namespace, retry of a park, the listing of leftovers, restore or `setup.sh` |
| `Snapshot`, `SnapshotFails` | the snapshot of `parkChallengeNamespace`, from an end or as a retry |
| `Wipe`, `WipeFails` | the deletes, the second listing, `clearChallengeSetup` and `revokeLearnerAccess`; a failure leaves everything, a part or nothing in the namespace, and the park is retried |
| `Persisted`, `PersistFails`, `FailureWritten`, `Deleted` | what a handler does after its task |
| `Work` | the learner's own kubectl calls in the terminal (external: no source lines) |
| `Crash` | restart and `restoreFromDB` |

The content of a namespace is abstracted to four values per lab, which is what the properties tell apart;
an interrupted delete or apply leaves any mixture that the command can leave (`PartOf`, `Applied`). A session
id stands for the uuid; a lab may have several.

`KeptWork` is the abstract promise: one lab is open at a time, a lab that is opened again shows the work done
in it, and work is given up by a reset (`Discard`, `Clear`) or lost when clearing away this very lab stops in the middle
(`Tear`). `LabLifecycle!Promise` is the refinement mapping: the open lab is the occupant of the namespace, `kept` the labs
whose history is "made", `torn` those whose history is "torn".

### TabLease (with MCTabLease, TabLeaseProofs)

One learner with several tabs (page loads). A lab has one session, so sessions are named by labs; `Boards`
are the labs that are whiteboards. `tab[t]` is what a tab shows or the await its start or end is at;
`lease[l]` is the lease with `fresh` for "within `LEASE_TTL_MS`"; `shells` are the terminals at the server,
starting, up, or attached after their socket had closed; `sweep` is the idle watcher's pass. `writes` are the requests that
will set their session active with no look at its status: a board's save (its 400 ms timer, or the request) and a reset that is being
provisioned. `stored` are the sessions in memory, `unsaved` those whose last row write failed. History tells apart what such late or failed
writes did: `revived` are the sessions set active again after an end, and a shell's `past` says whether a failed end left it open or its
lab was revived. `spent` counts late requests and failed rows against the bound `Budget`.

| Actions | Code |
|---|---|
| `Start`, `EndedOther` | `assertCanStart` (sessionExclusivity.ts:64-112) and its loop of ends |
| `Activate`, `Reactivate`, `Opened`, `OpenFails` | the start routes around `startK8sSession` and `startBoardSession`, up to the forced heartbeat |
| `Heartbeat`, `UseHere`, `Lapse` | `heartbeat`, the takeover notice of App.tsx, the lease's time to live |
| `End`, `EndDone`, `Close` | `/end`, whose row may fail; the release by a closing page's beacon, which may be lost |
| `Reset`, `ResetDone` | `/reset`: the gate, then the provision on the lock, then `status = 'active'` and the row |
| `Edit`, `SaveBoard` | a change on a board and the request that saves it later (`PUT /board`, and checks, claims and submits as saves at once) |
| `Touch`, `Leave` | requests that count as activity, and leaving a notice |
| `Connect`, `Attach`, `Disconnect` | `handleConnection`, `attachShell`, closing sockets |
| `GoIdle`, `SweepOnce`, `SweepEnded` | `sessionIdle.ts` |
| `Restart` | sessions restored, leases and terminals gone |

TabLease and LabLifecycle share the session: what an open or end does in the cluster only takes time in
TabLease, and which tab asks does not matter in LabLifecycle. `overlap` of TabLease is what lets two
openers of LabLifecycle exist.

### MonthPass (with MonthLedger, MCMonthPass, MonthPassProofs)

One learner buys passes of one plan. An order id names the order at Razorpay, its row in `subscriptions` and
the payment that succeeds on it.

| Actions | Code |
|---|---|
| `BuyRequest`, `CheckReusable`, `CreateOrder`, `BuyFails` | `POST /orders`: the latest reusable row is looked up at Razorpay (`stillReusable`) and retired or reused, else an order is created |
| `AttemptFails`, `Dismiss`, `Pay` | Razorpay Checkout in the browser (external) |
| `VerifyRecord`, `VerifyReads`, `VerifyWrites`, `VerifyFindsNone`, `VerifyFails` | `/orders/verify` and `fulfilOrder`: capture, record, grant |
| `HookReceive`, `HookBlind`, `HookRecord`, `HookReads`, `HookWrites`, `HookFindsNone`, `HookFails` | the webhook: `recordEvent`, `fulfilOrder`, `forgetEvent` |
| `Crash`, `Tick` | restart; time |

`markOneTimePaid` is one SQL statement, an update over a select. It is two steps here, what it reads
(`Target`) and what it writes (`Writes`), because Postgres's READ COMMITTED lets two such statements for
different rows read before either writes; without `overlap` a second statement waits. `lost` is a history
variable: events that a fault has cut off from ever being handled.

`MonthLedger` is the abstract promise: each bought order is granted at most once, a month long, from the end
of the learner's access or now, whichever is later.

### CapacityReconciler (with MCCapacityReconciler, CapacityReconcilerProofs)

The backend that manages a cluster (`K8S_CAPACITY_MANAGER=1`) and the labs of several learners, one each.

| Variable | Code |
|---|---|
| `active` | sessions that `openLabs` counts |
| `phase`, `resets` | where the provision of a lab is, and whether a reset asked for it |
| `tick`, `desired`, `again` | the promise `inflight` and the run of `tick()` it is at (with the labs and waiting pods that run has seen and the sum it worked out); the flag `again` |
| `known`, `fresh` | `reservedReplicas`; `reservedReadAt` within `REPLICAS_REFRESH_MS` |
| `notes` | the map `waiting`, by namespace |
| `replicas`, `placed`, `used`, `blocked` | the cluster: the balloon deployment, its pods with a node (or a warm stand-in), slots used by learners, labs with a pod that finds no room |

| Actions | Code |
|---|---|
| `Timer`, `Nudge`, `Loop` | the interval and `nudge` with its do-while (209-243) |
| `TickListed`, `TickRead`, `TickScaled`, `TickFails` | `tick` between its awaits: `openLabs`, quotas and pods, `scaleReserved`, `trackWaiting` |
| `Lapse` | the cached count grows old |
| `Open`, `Refused`, `WaitForReservation`, `Reserved`, `TimedOut`, `SetupFails`, `Provisioned`, `Answered` | `provision` and what its callers do with a failure |
| `Reset`, `End` | `resetK8sSession`, `endK8sSession` |
| `Pods`, `Balloons` (place, preempt, re-apply) | the cluster (external) |
| `Restart` | `restoreFromDB` and `start` |

The reconciler shares the session with LabLifecycle, which has no capacity: its `Refused` stands for a wait that
times out. Here an open only takes its time, and its namespace holds pods or not.


### SparkJobs (with MCSparkJobs, SparkJobsProofs)

The jobs of one workspace, one page, and the Spark platform.

| Variable | Code |
|---|---|
| `row` | rows of `submissions`: mode, status, verdict |
| `req` | the requests in progress, each at an await of its handler, with what it read there |
| `code`, `output` | the jobs whose snapshot and whose results are in the object store |
| `app`, `out` | the platform's applications and what each wrote (right or wrong) |
| `tab` | what the page knows of each job, and whether it polls it |
| `excused` | history: jobs that were killed, whose POST was not answered, that the platform did not know, or whose grading threw |

| Actions | Code |
|---|---|
| `Start`, `DropOld`, `Post`, `Stamp` | `startSparkJob`: insert, snapshot, prune (`pruneMode`), POST to the platform, stamp its name |
| `Poll`, `Ask`, `Note`, `Reply` | `pollJob` and `refreshJobFromPlatform` |
| `Look`, `Fail`, `Mark`, `Check`, `Write` | `maybeGradeJob`, which any refresh of a finished ungraded job runs |
| `Kill`, `Delete`, `SettleKilled` | `handleKillJob`, `killSparkJob` |
| `Reload`, `Crash` | a page that is loaded anew, a backend that restarts |
| `Run`, `Forget` | the platform (external) |

Grading throws where a read of the store, a directory or a write fails, and a mode for which the challenge has nothing to compare with (`Expected` are
those that have) grades to failed; both verdicts are final, as in `maybeGradeJob`'s catch and its early returns. Output is "right", "wrong" or none: what the graders do with it is SparkGrade. `queued` of the platform is `submitted` here.

### SparkGrade (with MCSparkGrade, SparkGradeProofs)

The three graders as functions of a job: rows of a JSON reference and output, Parquet files of configured test cases, or a
grade script's exit. Numbers are integers: a rounding step of 1e-6 is `Grid` of them and a whole number `Whole`, so that values fall on both
sides of every rounding; `Rounded`,
`Truncated` and `Text` are the conversions of `coerce` and `normalizeGradeValue`. Maps by row key are functions.
What they are held to does not use the code's maps: rows paired off by a bijection (`PairedOff`), or covered both ways (`Covers`).

| Actions | Code |
|---|---|
| `GradeJson` | `gradeOutputAgainstSolution`, `coerce`, `valuesEqual` |
| `GradeParquet` | `gradeParquetAgainstExpected`, `rowsByKeyFromFiles`, `downloadTestcaseExpectedFiles` |
| `GradeScript` | `gradeWithScript`, `pushScriptChecks` |

### BoardGame (with MCBoardGame, BoardGameProofs)

One session of a board. `spec` is the board's kind, `mem` the game and drawing in memory, `disk` those in its row, `req` the
requests at their awaits with the copy they put back or write. A drawing is the set of its right blocks, with block 0 for the optional
ones, and `guest`, the required card that stands in the optional block. A card may stand in two blocks, its own and the optional one: `Coerced` is what
`coerceBoardState` makes of that when a handler reads the session, `Reloaded` what is left of it in a row, whose keys JSONB
gives back in its own order (o1 before s1; up to nine optional blocks). `robbed` is history: steps whose card a restart took from their block. `tally` is history, too: lives lost,
steps opened, answers and resets as they were decided; `crossed` and `torn` say whether a request overwrote another's effects, or two
writes of the row overlapped. Any drawing may be sent at any time: the page delays its saves and keeps its view when a request fails.

| Actions | Code |
|---|---|
| `Save`, `Reset` | `savePlaced` (`PUT /:id/board`), `resetBoard` of the page |
| `Check`, `Claims`, `FinaleAnswer`, `Submit` | `checkStep`, `judgeClaims`, `answerFinale`, `submitBoard` with `gradeBoard` |
| `Recorded`, `Store`, `Fail` | what follows the insert of a submission and the write of the row (`persistGame`), or their failure |
| `Crash` | restart from the row, through `Reloaded` |

Three kinds of board: step by step (`unlock`), as a whole (`classic`), and with claims (`debate`), each with or without a final question.

### WorkspaceSync (with MCWorkspaceSync, WorkspaceSyncProofs)

One page and its files. `latest`, `saved` and `timer` are `latestContentRef`, `lastSavedRef` and `timersRef`, `queue` is the chain of
structural operations, `net` the requests under way, `store` and `index` the object store and the table of files, `launch` a
Run between its first request and its snapshot. `doubt` is history: the paths at which two requests met or a structural request (a create, delete,
rename, copy or reset) failed. So is `partial`: the paths whose last save failed after its object was put, until a later save of
the path is answered. A save that fails before that leaves the file unsaved as it was, and nothing is excepted.

| Actions | Code |
|---|---|
| `Type`, `Undo`, `Save` | `trackContentChange` and its timer, `saveContent` |
| `Create`, `Delete`, `Rename`, `Dequeue` | `notifyCreated`, `notifyDeleted`, `notifyRenamed`, `enqueueStructural` |
| `Copy` | `launchJob` of a submission that is looked at: `notifyCreated`, and a put of its own outside the queue |
| `Launch`, `Flushed`, `Snapshot` | `flush`, `launchJob`, `snapshotProject` |
| `Reset`, `Open` | reset to the starter files, opening the page with `seedMissingFiles` |
| `PutObject`, `PutRow`, `Remove`, `Unlist`, `Get`, `Wipe`, `Seed`, `Done` | `workspaceStore.ts`, one step for each call to the object store or the table |
| `Fail` | a call that throws, in the middle of the others |


## 3. The runs

| Run | Instance | Shows |
|---|---|---|
| `one_tab` (LabLifecycle) | 2 labs with 2 session ids, 2 handlers of which one opens; all operations; lagging queries, failing snapshots and restores (6 thousand states) | `TypeOK`, `SnapshotsOwn`, `EveryRequestAnswered`; the lifecycle implements `KeptWork` (`KeepsPromise`) |
| `clean_slate` | the same without resets; opens refused, snapshots fail, parks fail before, between or after their deletes (28 thousand states) | `ProgressKept`, `LeftoversExplained`, `KeepsPromise`, `WipeKeepsWork`, `EndedLabIsParked` |
| `faults` | 2 labs, 2 overlapping openers, all failures and crashes (5.3 million states) | `OneLabAtATime`, `OneTurnEach` |
| `two_tabs` (TabLease) | 2 tabs, a Kubernetes lab and a board; failing opens, restarts, and one late save, late reset or failed row (1.2 million states) | `OneLab`, `ShellsOfHolder`, `ShellsFollowSession`, `AbandonedLabEnds`, `Inv` |
| `passes` (MonthPass) | 2 orders, one event type, closed browsers, failing queries, restarts, repeated deliveries; months of 2 units, 2 units of time | `MonthsApart`, `KeepsLedger`, `PaidMonthGranted`, `Inv` |
| `reservations` (CapacityReconciler) | 2 labs, one with a slot reserved and one with none; the manifest re-applied, failing reconciles, restarts | `HoldsCounted`, `HoldEnds`, `Settles`, `Inv` |
| `spark_jobs` (SparkJobs) | 2 jobs, 2 requests at a time, 1 Run and 1 Submit kept, one kill, reload, restart, lost or refused POST, forgotten application or grading that throws; an output is expected of Submits only (560 thousand states) | `PassIsEarned`, `NewestKept`, `RightFailedExplained`, `VerdictStands`, `PollingEnds`, `TypeOK` |
| `board_game` (BoardGame) | 4 boards: step by step with 2 steps, one life and a final question, and with 1 step and 2 lives; a whole board with a final question and a debate, of one block and 2 lives each; 2 requests at a time, one reset, one restart or failure (3.3 million states) | `GameIsPlayed`, `PassDeserved`, `RowIsMemory`, `Inv` |
| `workspace_sync` (WorkspaceSync) | 2 files, one of them a starter; 2 edits, 2 structural operations (undos, resets and copied submissions count), 2 requests at a time, one failure or reopened page (1.3 million states) | `SavedIsStored`, `RunTakesShown`, `ComesToRest`, `TypeOK` |
| `spark_grade` (SparkGrade) | all tables of up to 2 rows with 2 keys and null ones, values around each rounding boundary, 2 test cases, files missing or unreadable, every end of a script | `JsonGradeExact`, `ParquetGradeExact` |
| `lost_month`, `crashed_script` | one hazard each | a statement of the code's own words that it does not keep (section 6) |

### The bounds, and why they suffice

- *Two labs, two sessions each.* Every lab property relates one lab to one other: the one in the namespace
  and the one being opened. A second session of a lab arises only from two overlapping opens.
- *Two handlers.* The chain serializes whatever needs the namespace; two handlers and the parks they leave
  behind give queues in which each kind of task waits behind each other kind. `faults` makes handlers and
  session ids symmetric; it checks no liveness, so this is sound. The proofs cover any number.
- *Two tabs.* One that loses a lab and one that takes it; a closed or reloaded tab does not come back, its
  successor is the other one. A lab and a board differ in how a start treats them, in having terminals, and in which of their requests come late.
- *`Budget` = 1.* One late save or reset, or one failed row, in a behaviour: it already meets every end, start, takeover, sweep and restart.
  The theorems have no such bound.
- *Two orders, one event type.* An overlap, or a double grant, needs two orders or one order and two
  granters. With two event types safety is unchanged (the proofs cover any set) and liveness is out of reach
  of a short run.
- *`Month` = `Horizon` = 2.* The second order can be bought in the first month, at its end, and after an idle
  unit that makes the earlier order no longer reusable.
- *Two learners' labs, one slot.* A lab waits for a reconcile that looked before it opened, while another lab opens, ends
  or restarts the run. One slot tells apart every count from the next one; a lab that reserves none keeps the state space small.
  A lab that is ended while it opens is not opened again before that open is over, and only an open lab is reset: two
  bounds written as guards.
- *One shell of a tab starts at a time*, and a restart happens only while some tab is open: the two bounds
  written as guards in TabLease. The first leaves out two dials of the same tab overtaking each other; the
  second a crash after everyone left, after which only the watcher acts.
- *`Expected` = {"submit"}.* Both cases of a challenge's expected output occur, one for each mode.
- *Two jobs.* One Run is kept as in the code, and one Submit instead of five: the second job of a mode makes the first one's files old, while the
  first is polled, graded or killed. Two requests at a time are the poll and the kill, two polls, or a start and a poll of one job.
- *Two steps, two lives.* A step that is not the last, and the last; a wrong answer that leaves a life, and the one that ends the game: on different
  boards, since steps, lives and the final question multiply. The theorems hold for any boards.
  One reset is enough for the cap on stars, and one crash or failure for a row that differs from memory.
- *Two files, two edits.* A file that is renamed onto, or deleted and created under, the other's name; a second edit while the first is
  being saved or after its save has failed. One failure in a behaviour is a save, a structural request or a copy that fails at any of its steps, or a
  page that is opened anew; the theorems allow any number.
- *Tables of up to two rows.* A row too many, one missing, one twice, two swapped; with two test cases an overlap of their keys. The
  theorems cover tables of any length.
- *`refuse`, `setup`, `wipe` and resets are not in one run*: with resets these break what the runs check (section 6); `faults` has all of them.
- *Without `early`* a session is ended or reset only when its open has been answered; *without `lag`* a
  cluster call outlasts a query. Both are the normal case by orders of magnitude; what happens otherwise is in
  section 6.

`CHECK_DEADLOCK FALSE` stands where the system may rightly stop: with every tab closed and every lab ended, every order used up and
time at its bound, every job, edit or life spent, or a grade given. In LabLifecycle and
CapacityReconciler a learner can always ask for something, so deadlock is checked.


## 4. Fairness

- *LabLifecycle*: weak fairness of the running task and of each handler. Every cluster call has a time
  limit and every query ends or throws, so an await is always followed by its continuation. Learners' requests,
  their work, failures and crashes have none.
- *TabLease*: one weak fairness, of `Progress`: of the continuations of requests, terminals coming up or closing, the watcher's
  timer and time passing (`GoIdle`), some one goes on as long as one can. That is less than the code gives, where each goes on, and enough because
  with no tab left each of them goes on only so long. Nothing is assumed of learners, and heartbeats need not arrive.
- *MonthPass*: weak fairness of delivery (Razorpay repeats an event until it is acknowledged) and of
  statements under way; strong fairness of the steps of handling an event, since a delivery that fails is
  forgotten and repeated: queries that are tried again and again succeed at some time. None of the browser:
  it may close. `PaidMonthGranted` does not ask for a grant when a fault has cut off all events of an
  order (`lost`): nothing in the code recovers those.
- *CapacityReconciler*: weak fairness of the timer, of the age of the cached count and of the polling loop; strong
  fairness of the three calls of a reconcile, since a run that fails is tried again by the timer: calls that are made
  again and again succeed at some time. `HoldEnds` supposes that labs are not ended for ever (`EndsCease`), `Settles` that labs and pods
  come to rest (`Calm`). Setups need not end.
- *SparkJobs*: weak fairness of each request and of each application's run, since both have an end or a limit; strong fairness of the page's
  poll of each job, which its interval repeats (a poll finds the server's places taken from time to time). `PollingEnds` needs it of
  nothing else: not of learners, and the faults that occur are bounded in number.
- *WorkspaceSync*: timers fire, the chain moves on, a request is served or fails, a Run goes on. Learners' edits have none.
- *BoardGame, SparkGrade*: no liveness is claimed.


## 5. The proofs

TLAPS checks all of it with SMT, Zenon and, for the temporal steps, LS4.

| Theorem | Says, for all constants |
|---|---|
| `LabLifecycleProofs!InvHolds` | the strengthening: every state is well typed, a waiting handler knows its session, the chain and the waiting handlers match one to one |
| `LabLifecycleProofs!TypeCorrect` | `TypeOK` |
| `LabLifecycleProofs!OneTurnEachHolds` | a waiting handler has exactly one turn on the chain and an answered one has none |
| `LabLifecycleProofs!OneLabAtATimeHolds` | without `stray` the namespace never holds objects of two labs, under every failure, crash and overlap of the model |
| `LabLifecycleProofs!InOrderHolds` | with one tab: sessions, owed parks, namespace and running task fit together (`Orderly`, `Space`), and the namespace holds one lab |
| `LabLifecycleProofs!OneTabOneLabHolds` | with one tab the namespace never holds objects of two labs, also if the learner creates objects while none is open (`stray`) |
| `LabLifecycleProofs!SnapshotsOwnHolds` | with one tab no snapshot holds objects of another lab |
| `LabLifecycleProofs!WipeKeepsWorkHolds` | with one tab work leaves the namespace only when a snapshot holds all of it, or on a reset |
| `LabLifecycleProofs!ProgressKeptHolds` | with one tab work is in the namespace or in its lab's snapshot until a reset, or until clearing away this very lab fails |
| `LabLifecycleProofs!OpenedAsLeftHolds` | with one tab a lab that was worked in, and neither reset nor torn since, is never there as its setup makes it |
| `LabLifecycleProofs!LeftoversExplainedHolds` | with one tab and without `restore` and `setup`, a quiet namespace holds only what an active session or a noted failed park explains |
| `LabLifecycleProofs!KeepsPromiseHolds` | with one tab (and without `stray`, if labs are reset) the lifecycle implements `KeptWork`, with a failed park as its `Tear` |
| `TabLeaseProofs!TypedHolds` | under every hazard states are well typed and each request in flight knows its lab |
| `TabLeaseProofs!InvHolds`, `OneLabHolds` | without `overlap` and `lag`, with any late saves, late resets and failed rows: of the sessions not set active again after an end, at most one is active or ending |
| `TabLeaseProofs!ShellsFollowSessionHolds` | without `crowd` no terminal stays open on an ended session but those that were open when an end failed at its row, overlapping starts included |
| `TabLeaseProofs!ShellsOfHolderHolds` | without `overlap`, `lag`, `slow`, `hasty` and `crowd` an open terminal of a lab that was not set active again after its end is its holder's |
| `MonthPassProofs!InvHolds` | a granted month is backed by a captured and recorded payment; no order is paid twice; a lone granting statement still has its target when it writes |
| `MonthPassProofs!MonthsApartHolds` | without `overlap` no two paid months overlap |
| `MonthPassProofs!KeepsLedgerHolds` | without `overlap` the pass store implements `MonthLedger` |
| `CapacityReconcilerProofs!InvHolds` | states are well typed, and an open lab that waits for a reconcile is seen by the one in flight or by one that must follow it |
| `CapacityReconcilerProofs!HoldsCountedHolds` | a reconcile that ends well has counted every open lab past its wait, or whose wait it ends |
| `BoardGameProofs!InvHolds` | for any boards: lives and steps keep their bounds, and every copy of a step-by-step board is right up to its own step and no further, but for the steps a restart robbed of their card |
| `BoardGameProofs!GameIsPlayedHolds` | unless effects of a request were lost, the game in memory is the one that was played |
| `BoardGameProofs!PassDeservedHolds` | a recorded pass has lives left and the board right and, unless effects were lost, its final answer and its stars |
| `BoardGameProofs!RowIsMemoryHolds` | once nothing is under way a restart brings back what is in memory, unless two writes of the row overlapped, one failed, or a card stands in two blocks |
| `SparkJobsProofs!TypeCorrect` | `TypeOK` |
| `SparkJobsProofs!PassIsEarnedHolds` | a job with the verdict passed ran to its end and its own output was right |
| `SparkJobsProofs!RightFailedExplainedHolds` | a right output fails only where the job was killed or pruned, the platform did not answer its POST or did not know it, its grading threw, or nothing is expected of its mode |
| `SparkJobsProofs!NewestKeptHolds` | prunes of several starts at a time leave the files of the newest Runs and Submits |
| `SparkJobsProofs!VerdictStandsHolds` | a request that came after the verdict, when nobody was at work on it, does not change it |
| `WorkspaceSyncProofs!TypeOKHolds` | states are well typed, and one structural request of the page is under way at a time |
| `WorkspaceSyncProofs!SavedIsStoredHolds` | at rest each file is stored as the page takes it for saved, and listed, failed saves included; but for files that two requests met at, that a structural request failed on, or whose last save failed after its object was put |
| `WorkspaceSyncProofs!RunTakesShownHolds` | a Run takes each file as it was shown when it was pressed, unless the file was changed since, a request failed while the Run waited, or the file is one of those |
| `SparkGradeProofs!JsonGrade` | for any tables: an output passes if its rows can be paired off with those of a reference that has each key once, within the tolerance, and only if they can be within the tolerance and one rounding step |
| `SparkGradeProofs!ParquetGrade` | for any tables and cases: an output passes if it has exactly the rows of the cases, each key once, and only if it has them up to one rounding step |

Assumptions: the named `ASSUME`s of the modules (session ids belong to labs, `None` is none of the others,
a month is positive), which TLC evaluates in the runs, and those in the theorems just listed. "One tab" is `OneTab`: at most one
handler opens labs, `early`, `crash` and `db` are off, and so are `refuse`, `setup` and `wipe` if labs are reset. It is what
the runs `one_tab` and `clean_slate` instantiate; the handlers that end and reset, lagging queries, failing snapshots and restores, without resets also refused opens,
failing setups and parks that fail anywhere, and a learner who creates objects at any moment, stay. With resets, a failure between the reset's wipe and its
fill leaves an active session with an empty namespace, and what follows from that (an end that snapshots emptiness, a resume of nothing) is not in order.

**The chain.** `OneTurnEach` counts turns and is not inductive: it does not say that the turn is of the kind the
handler waits for. `Served` does (a turn belongs to nobody, or to a handler at the await its kind serves; no two
turns of one handler; a turn for each waiting handler), and `Named` says that a handler past its lookup has a
session, which the continuation reads. Queues change only by appending a turn or a park and by taking off the head,
so the lemmas `AppendTurn`, `AppendPark`, `TailServed` and `SameServed` carry every action. `OneTurnEach` follows
by counting a set with one element, or none.

**One lab at a time.** The namespace alone does not say what a restore will apply to it. `Apart` adds that no
snapshot mixes labs, and that the namespace is empty while a task fills it: `Verify` found it so, and only the
running task changes it until then, because no object of a lab can be made where there is none. Learners who
create objects where the lab has none (`stray`) break exactly that step when several tabs open labs. With one tab they do not
(`NextOneLab`): the only session in use is then that of the lab a reset is filling in, so what is made is of that lab.

**One tab.** What a park or a start does to the namespace was decided when it was put on the chain. `Orderly` says what still holds
when its turn comes: one active session, one session per lab, one park owed at most, each turn that of its handler's own request. `Space` ties
this to the namespace: a lab in use, or one whose park is owed, is there, unless a reset is about to fill it again; if a park failed, its lab is
what the namespace holds; and the running task finds what its step counts on (a wipe, that the snapshot is what it deletes; a fill, an empty
namespace, or what its own learner just made there while a reset fills it again). TLC checked this with `stray` and with resets before it was proved. `SnapshotsOwn` is part of it, and `WipeKeepsWork` follows for each step. Kept work needs more: `Keeps` says of each lab
whose work is to be kept that, in use or to be parked, it is whole, so that the snapshot made of it is no poorer than the one it replaces. A park that fails at or after its
deletes leaves a lab to be parked that is not whole, or an empty namespace that the retry snapshots over the full snapshot: that lab is torn, and `Keeps` says
that no other lab is concerned, whichever lab's open retries the park.
`OpenedAsLeft`, which no run checks, adds what the learner sees: with `KeptShown`, a lab whose work is kept is never there fresh. `Explained` says whose the objects in the namespace are; a
fill that fails leaves objects of a lab that nothing will park, which is why `restore` and `setup` are excluded from it. The refinement maps `Fill` to `Open`, `FillFails` to `OpenInPart` or
a stutter, `Work` to `Make`, `Wipe` to `Close`, `WipeFails` to `Tear`, the step of a reset that drops the snapshot to `Discard`, its wipe to `Clear`, and every other step to a stutter. An object made while a reset's
fill has yet to come would be an `Open` and a `Make` in one step, which `KeptWork` does not have: there `stray` is excluded. `OneTab` cannot be dropped:
section 6 lists what breaks with a second opener, with `early`, and with resets under `refuse` or `wipe`; after a crash a session may be active and its lab not provisioned.

**One open lab.** That a start ends the others is not inductive: between the check and the activation are awaits. `Slot` says
that at most one lab is active or being ended, that a start in flight finds active only its own lab or those it
is to end, and that there is one start in flight; nothing of this is said of `revived` sessions, which a late save, a late reset or a restart set active
again after their end. That only these steps revive, and that a start of the lab makes it an ordinary one again, is in the actions; that no other session
ever stands beside the active one is what is proved. `overlap` breaks the last part, `lag` the first. `Formed` gives the
fields a request at an await relies on.

**Terminals.** `ShellsFollowSession` is inductive over `Typed`: the step that puts an end's row away closes its terminals or, when the row fails, marks the ones
it leaves open, and a shell that comes up later is admitted by the session's status. An open that fails is the exception, as it ends the session without closing them; it can only hurt if another tab shows the
lab (`crowd`). `ShellsOfHolder` needs `HolderInv`: it must say who could still dial when nobody holds the lab. While an active lab's lease has lapsed only the tab
that had it last dials or starts a shell, and an open terminal's tab has the lease, unless the lab is ending and the lease was given up. A lab that is revived
marks the terminals it comes back with: their tab may have lost the lease while the lab was over, and nothing closed them then. Each
of the five hazards that are excluded breaks a part of this or what it rests on (section 6).

**Months.** `MonthsApart` follows from what is true of a statement about to write: its row is created and its start is
not before the end of any other row (`Targeted`). `OneWriter` keeps this while the statement waits, because no other
writes meanwhile. `Backed` links rows, requests, events and payments and needs no assumption on `Env`.
The refinement adds `LedgerInv`: the month a request is about to write is the ledger's next month for its order, from the end of the learner's access or now.
This holds when it has read the rows and stays so while no other request writes; a write is then the ledger's grant, and every step else leaves paid
rows and their ends alone (`SameGrants`).

**Counted labs.** `HoldsCounted` compares a lab that goes on with what the run that lets it go saw when it began.
`Awaited` is what links the two across the awaits: a waiting lab is in the run's view or `again` is set, and a lab past
its wait is in the view of every later run. A run that begins sees all active labs, asking during a run sets `again`,
and a session becomes active before its provision asks. `TypeOK` has only the types that decide who is counted: that a sum of slots is a natural number is
induction over a set and out of the prover's reach.

**The game that was played.** A request that records a submission holds the newest game in its copy, so `GameIsPlayed` needs to know where the
newest game is: `Played` says that, while nothing was crossed, at most one request records, that its copy follows the tally, and that
memory does when none records. An arriving request that finds nobody recording does to the game what it does to the tally (`Arrival`), so what it
carries is deserved when it is carried (`Deserved`). `Written` is the same for the row: a write that is under way alone carries what is in
memory, and when none is the row is what is in memory, or what is in memory is what a restart read from it. `Inv` is inductive with it: a save
leaves the required blocks, a reading (`Coerced`) keeps a repeated card in its own block, and only a restart (`Reloaded`) takes it from there, which `robbed` notes.

**Jobs.** A verdict is written awaits after what it rests on was read, so `Told` says what each row and each waiting request may claim: `failed`
that the job is `Lost` (killed, pruned, failed at the platform, or never posted and not about to be), `succeeded` that its output is written, a
verdict on its way that the output is right, or wrong or `Lost`, or that grading threw or had nothing to compare with. `Platform` says that a job is posted once and writes once, after that; from it follows
`Stays`: no step takes back that a job is `Lost`, or its output. `Stored` says of a prune about to delete that none of its jobs is among the
newest, which stays so because a job that joins makes the others older. `Graded` says that who came when the verdict was there finds nothing to do,
and that then nobody else is giving one. All four rest on `Typed`, which ties requests and page to jobs in the table.

**Files.** `SavedIsStored` speaks of the moment when all is answered; before that, what is stored may be several operations behind the page. The invariant `Stored` says what the
store is on its way to. There is a sequence `W` such that `W[0]` is the store when the requests under way are done, `W[i]` when the first `i` queued operations are done too (`Course`,
`Comes`), a file no later operation is about stays as it is (`Still`), and what the page takes for saved is the last of them (`Foreseen`), except at a file that is being saved: its
content must stay to the end (`SavesLast`). Until such a save has put its object the file is stored as it was last saved (`Before`): when it fails there nothing has
changed; when it fails later the file is `partial` until a save of it is answered. `Indexed` is the same for the index. A failed structural request
or two that crossed make the store uncertain at its files, and operations behind it in the queue carry that on: renaming an uncertain file
makes the other name uncertain. `Spread` is any such growth of the doubt along the queue; the claims hold off it. That this is what `doubt` becomes when
the queue has been worked off is why no claim is made too many. `Apart`, `Left`, `ResetAlone`, `Ahead` and `InTurn` say when requests meet: of two at one file both are in doubt, so
that a request not in doubt is alone at its files and has done to them what its stage says (`Reached`). A Run's claim on a
file (`Claimed`) is that nothing is on its way to the file but a save of the content shown, for which the Run waits.
TLC checked this strengthening, with `W` computed along the queue, on two files before it was proved.

**Graders.** The verdict is a function of the job (`VerdictOfJob`, the invariant), so the theorems are about operators. The map of the last
row by key is a bijection between rows if the lengths agree and each key of the reference occurs: the images of an injection
between finite sets of the same size are all of it. Rounding is monotone and moves a value by less than a step, which is where
the two bounds come from.

Model-checked only: the liveness properties `EveryRequestAnswered`, `EndedLabIsParked`, `AbandonedLabEnds`, `PaidMonthGranted`, `HoldEnds`,
`Settles`, `PollingEnds` and `ComesToRest`, because the prover does not treat fairness. Every invariant, action property and refinement that a passing run checks is also stated by a theorem.


## 6. Where the code and its comments disagree

Two violation runs refute what the code says of itself; each is a finding in `PROJECT.json` with the words it quotes.

1. `lost_month`: a learner who asks for another month between paying and the confirmation has the paid order
   retired; its payment is recorded and its month never granted.
2. `crashed_script`: a grade script that dies of an exception or a signal has an empty output, which is read as an object without
   checks (sparkGrade.ts:479); the job passes with "grade script accepted the output".

The models show more when the hazards that the runs leave out are switched on, or at their guards:

- *LabLifecycle*. A second start of a lab whose session was just made active takes its turn before the provision is queued
  (k8sLifecycle.ts:354-358) and is answered as resumed, with an empty namespace. A failed `setup.sh`
  leaves objects that are neither parked nor noted; later opens find them, have nothing to retry and are refused (`LeftoversExplained` with
  `setup`), and one that reaches its limit loses its shell only (k8sCluster.ts:1576-1579). A park deletes everything and then lists again (k8sCluster.ts:1477), clears the setup mark (1484) and revokes
  access (1492-1497). When one of these fails, or a delete before them, the next open retries the park and snapshots what is left, an empty namespace in the
  worst case, over the complete snapshot (k8sLifecycle.ts:206-207, k8sCluster.ts:1230-1244): the learner's work is gone, against "so progress is
  never lost" (k8sCluster.ts:1389-1392). `ProgressKept` and `KeptWork` except this lab (`torn`), and show that no other lab is touched. With `early` and `snapshot`, an end during an open whose retry of
  another lab's park fails parks the other lab's objects under the ended lab's name (`SnapshotsOwn`). With `early`, an end and a reset of one session
  race, and the reset makes the ended session active again. A reset that is refused after its wipe leaves the session active
  with an empty namespace, which the next start resumes; so does a reset whose wipe fails at its last calls. `EndedLabIsParked` fails with `setup`
  and with `early`. When `persistRow` throws in `endK8sSession` no park is queued; when it throws before the provision of a new
  session, the session stays active without a lab. A restart restores sessions that were made active and not yet
  provisioned. `sessions` has no constraint on learner and challenge, so overlapping starts leave two rows.
- *TabLease*. The board routes (session.ts:666-667, 683-684, 721-722) and a reset that was being provisioned (k8sLifecycle.ts:381-384) set their session
  active with no look at its status, after another lab's start or the idle watcher ended it: two sessions are then active, against sessionExclusivity.ts:4-8
  ("One open lab per user"); `OneLab` excepts the one set active again. An end whose row cannot be written has ended the session in memory and never sends
  `session_end` (sessionIdle.ts:59-67, session.ts:1070-1084): terminals stay open on an ended lab, against "a shell left open must not keep writing into it"
  (k8sTerminalService.ts:41), and no later end looks at them; `ShellsFollowSession` and `AbandonedLabEnds` except those. Two starts at once both pass `assertCanStart`; two labs are open (`OneLab` with `overlap`). A start without force takes the lease,
  by force, from a tab that got the lab while it was being opened
  (against sessionExclusivity.ts:8-9). After a restart nobody holds a lease, and a tab that dials before its heartbeat
  keeps its terminal when another tab takes the lab (`hasty`).
  With three tabs, a tab that is
  closed gives up the lease it got while the tab that lost it is still dialling: that dial finds the lab in nobody's hand, is admitted, and keeps its terminal when a third tab takes the lab (`slow`). A failed open ends its session without `session_end`
  (`fail` with `crowd`). `/end` releases the lease even when another tab got it meanwhile (`lag`). A shell that takes longer to
  start than a lease lasts leaves a terminal with the tab that lost the lab (`slow`). A pass of the idle watcher ends the
  sessions of its list even if they were touched since it was made.
- *MonthPass*. Two granting statements at the same moment start both months at the same time (`overlap`). An event is cut
  off when the backend stops while handling it, or when recording or forgetting it fails (`crash`, `blind`). Two purchases at the same time
  both see no earlier payment and get the launch offer, which the model leaves out.
- *SparkJobs*. Whatever grading throws is caught and written as a failed verdict (sparkJobs.ts:1359-1380), which no later poll grades again: a store that does
  not answer once fails a right output for good. So does a challenge without `results_path` for the mode (1261-1282). A page opened between the insert of a job and its POST polls a name the platform does not know and fails the job, which is
  then posted and runs. A poll answered before a kill puts the killed job back to running until a later poll. A kill whose DELETE fails is
  reported as done. Each poll of a failed verdict with bands writes it again (`scoreNeedsBackfill`).
- *SparkGrade*. When a script's result has no sections its own `passed: false` is not looked at. A configured test case whose `expected/` has no
  file is not graded and not failed. Parquet numbers are compared as text, so -1e-9 is "-0" and differs from 0, and a sum computed in another
  order may fail by a rounding step. In an int column 3.9 is cut to 3. `spawnSync` stops the whole backend for up to a minute. Of the
  score, "Inclusive upper bound" (sparkScore.ts:17) is a strict comparison (:102).
- *BoardGame*. "Required steps only change through checkStep; only optional blocks are free" (boardLifecycle.ts:180) is not so after a restart. A card that is
  put on an optional block and moved to its step within the save's 400 ms is checked at once (BoardWorkspace.tsx:240-257 does not stop the timer), and the
  save then stores it in the optional block, too. In memory the card's own block is read first; the row is JSONB, whose keys come back with o1 before s1, and
  `parseFills` keeps the first (boardGrade.ts:249): after a restart the step's block is empty while the step counts as done, nothing can fill it again, and the board can
  be passed only after a reset, which caps it at one star. The Reset button stays enabled while an answer is awaited (BoardWorkspace.tsx:644): a reset during the recording of the last step or
  of the final answer is undone by it, and "A reset caps this board at one star" (:666) with it. Writes of the row may arrive in either
  order. A right last step whose recording fails is forgotten. `submitBoard` does not ask a debate for its claims.
- *WorkspaceSync*. Typing back to the saved content within the pause leaves the timer of the edit, which is stored while the page shows the older
  content. A save whose object was put and whose request failed, undone by the learner, is not sent again by a flush: the job runs the undone content. Of two
  saves of a file under way the older may arrive last. Each leaves a file that is not as shown, and `SavedIsStored` claims only what it says: what the page takes for saved. A rename within the pause leaves the timer under the old name, which comes back as a file. `notifyCreated` marks the content as saved before
  it is stored, so that a flush does not pick up a failed create or copy of a submission, against "flush may still pick it up" (SparkPlatformWorkspace.tsx:885), nor does
  the Run wait for the create, which is queued. "Saved" is shown while a
  timer is pending, a closed page drops its timers, and a deleted starter file returns when the page is opened anew.
- *CapacityReconciler*. A lab that is ended during its open or reset is not active and reserves nothing when its setup runs, against
  the comment at k8sLifecycle.ts:232. After a reconcile that failed, an open may pass its wait uncounted. Neither is
  within `HoldsCounted`. While each reconcile takes longer than the timer's 3 s it is asked for once more while it runs; the
  shared promise never resolves, and a wait for a reservation has no deadline before that (`HoldEnds` with `slow`), although deploy/eks/README.md:145
  gives it 90 s.


## 7. Not modelled

- *Box labs* in LabLifecycle: boxes own no namespace objects.
- *Capacity*: the notices about waiting, the cached check that a node pool exists, and backends that only watch.
- *Subscriptions* (renewal, cancellation, grace), prices and the launch offer, and signatures.
- *Streams*: terminal bytes, resizing, metrics, browsing proxies. Pure I/O.
- *Stateless computation*: the score of a Spark job, plans and access, tokens and roles. The arithmetic of floats in SparkGrade is that
  of integers: it says nothing of their representation.
- *Spark*: metrics, logs, rescoring of old rows, jobs of the playground, a poll that gives up after `JOB_POLL_MAX`, and failures of pruning.
- *Boards*: clues, the tray, the last report, boards without lives, `unlockAfter`, and two starts of one board at the same time.
- *Single-statement requests*: catalogue, quizzes, profile, administration, mail.
- *The file routes of a lab*: one file operation per request, no state between them.


## 8. The plan

In the order of what matters most to the system; 1-8 are in place.

| | Module | Composed with | Abstract specification | Run and bounds | Theorems |
|---|---|---|---|---|---|
| 1 | `LabLifecycle` | - | `KeptWork` | three passing runs, 2 labs | chain, one lab at a time; all its safety with one tab; next what a second opener and a restart leave intact |
| 2 | `TabLease` | session of 1 | - | `two_tabs` | all its safety |
| 3 | `MonthPass` | - | `MonthLedger` | `passes`, 2 orders | all its safety, the refinement |
| 4 | `CapacityReconciler` | session of 1 | next: an allocator of slots | `reservations`, 2 labs | counted labs; next the poll of nodes |
| 5 | `SparkJobs` | graders of 6, snapshots of 8 | next: a job settles once | `spark_jobs`, 2 jobs | all its safety |
| 6 | `SparkGrade` | - | rows paired off | `spark_grade`, tables of 2 rows | both graders |
| 7 | `BoardGame` | boards of 2 | - | `board_game`, 2 requests | all four properties |
| 8 | `WorkspaceSync` | file routes | next: stored files follow the page | `workspace_sync`, 2 files | all its safety |
| 9 | `SandboxPorts` | sandbox start and end | an allocator: no port twice | 2 sessions, 2 ports, Redis present or gone | no port twice without overlapping starts |
| 10 | subscriptions in `MonthPass` | - | entitlement by status | 1 subscription, 4 events in any order | - |
| 11 | box labs in `LabLifecycle` | - | `KeptWork` without kept work | as `one_tab` | as 1 |

Hazards that no property covers for now (a resume beside another open, a late subscription event, and so on) carry a note in
`PROJECT.json`, and so do those whose properties except what the code does produce.
