-------------------------- MODULE SparkJobsProofs --------------------------
(***************************************************************************)
(* Types, earned passes and kept files of SparkJobs, for any bounds.       *)
(***************************************************************************)
EXTENDS SparkJobs, FiniteSetTheorems, TLAPS

RowType == [mode: Modes \cup {"none"}, status: Active \cup Settled \cup {"none"},
            grade: Verdicts \cup {"none", "pending", "grading"}]
ReqType == [op: {"none", "start", "poll", "kill"}, job: Jobs \cup {0}, pc: Pcs,
            on: BOOLEAN, got: Answers, extra: SUBSET Jobs, late: BOOLEAN]

\* What a request carries at an await of its handler.
Carries(q) ==
  /\ q.pc # "idle" \/ q.job \in Jobs => q.job \in Inserted
  /\ q.pc = "stamp" => q.got \in {"submitted", "failed"}
  /\ q.pc = "note" => q.got \in Active \cup Settled
  /\ q.pc = "write" => q.got \in Verdicts

\* TypeOK, with what ties requests, page and platform to the rows inserted.
Around ==
  /\ app \in [Jobs -> Active \cup Settled \cup {"none", "gone"}]
  /\ out \in [Jobs -> {"none", "right", "wrong"}]
  /\ tab \in [Jobs -> [seen: {"none", "live", "open", "done"}, polled: BOOLEAN]]
  /\ code \subseteq Jobs /\ output \subseteq Jobs /\ excused \subseteq Jobs
  /\ upsets \in 0..MaxUpsets
  /\ \A j \in Jobs : tab[j].polled \/ tab[j].seen # "none" => j \in Inserted
  /\ \A j \in Jobs \ Inserted : app[j] = "none"

Typed ==
  /\ row \in [Jobs -> RowType] /\ req \in [Requests -> ReqType]
  /\ \A r \in Requests : Carries(req[r])
  /\ Around
  /\ \E n \in Nat : Inserted = 1..n

LEMMA TypedIsTypeOK == Typed => TypeOK
BY DEF Typed, Around, TypeOK, RowType, ReqType

\* The step of a request that leaves its job alone.
LEMMA Moved ==
  ASSUME Typed, NEW r \in Requests, NEW pc \in Pcs, NEW v \in Answers, Carry(r, pc, v)
  PROVE  /\ req' \in [Requests -> ReqType]
         /\ req'[r].pc = pc /\ req'[r].got = v /\ req'[r].job = req[r].job
         /\ req'[r].op = req[r].op /\ req'[r].extra = req[r].extra
         /\ \A q \in Requests \ {r} : req'[q] = req[q]
<1> DEFINE w == [req[r] EXCEPT !.pc = pc, !.got = v]
<1>1. req[r] \in ReqType /\ req \in [Requests -> ReqType]
  BY DEF Typed, ReqType
<1>2. /\ w \in ReqType /\ w.pc = pc /\ w.got = v /\ w.job = req[r].job
      /\ w.op = req[r].op /\ w.extra = req[r].extra
  BY <1>1 DEF ReqType
<1>3. req' = [req EXCEPT ![r] = w]
  BY <1>1 DEF Carry
<1> HIDE DEF w
<1> QED BY <1>1, <1>2, <1>3

LEMMA WentIdle ==
  ASSUME Typed, NEW r \in Requests, req' = [req EXCEPT ![r] = Idle]
  PROVE  /\ req' \in [Requests -> ReqType]
         /\ req'[r].pc = "idle" /\ req'[r].got = "none" /\ req'[r].job = 0
         /\ req'[r].extra = {}
         /\ \A q \in Requests \ {r} : req'[q] = req[q]
<1>1. Idle \in ReqType
  <2>1. "none" \in Answers /\ "idle" \in Pcs
    BY DEF Pcs, Answers
  <2> QED BY <2>1 DEF ReqType, Idle
<1>2. Idle.pc = "idle" /\ Idle.got = "none" /\ Idle.job = 0 /\ Idle.extra = {}
  BY DEF Idle
<1> QED BY <1>1, <1>2 DEF Typed, ReqType

LEMMA StatusSet ==
  ASSUME Typed, NEW j \in Inserted, NEW v \in Active \cup Settled,
         row' = [row EXCEPT ![j].status = v]
  PROVE  /\ row' \in [Jobs -> RowType] /\ Inserted' = Inserted
         /\ \A i \in Jobs : row'[i].mode = row[i].mode /\ row'[i].grade = row[i].grade
         /\ row'[j].status = v
<1> DEFINE w == [row[j] EXCEPT !.status = v]
<1>1. row \in [Jobs -> RowType] /\ row[j] \in RowType /\ j \in Jobs
  BY DEF Typed, RowType, Inserted
<1>2. w \in RowType /\ w.mode = row[j].mode /\ w.grade = row[j].grade /\ w.status = v
  BY <1>1 DEF RowType
<1>3. row' = [row EXCEPT ![j] = w]
  OBVIOUS
<1>4. v # "none" /\ row[j].status # "none"
  BY DEF Active, Settled, Inserted
<1> HIDE DEF w
<1>5. /\ row' \in [Jobs -> RowType] /\ row'[j] = w
      /\ \A i \in Jobs \ {j} : row'[i] = row[i]
  BY <1>1, <1>2, <1>3
<1> QED BY <1>1, <1>2, <1>4, <1>5 DEF Inserted

LEMMA GradeSet ==
  ASSUME Typed, NEW j \in Inserted, NEW v \in Verdicts \cup {"grading"},
         row' = [row EXCEPT ![j].grade = v]
  PROVE  /\ row' \in [Jobs -> RowType] /\ Inserted' = Inserted
         /\ \A i \in Jobs : row'[i].mode = row[i].mode
         /\ row'[j].grade = v /\ \A i \in Jobs \ {j} : row'[i].grade = row[i].grade
         /\ row'[j].status = row[j].status
<1> DEFINE w == [row[j] EXCEPT !.grade = v]
<1>1. row \in [Jobs -> RowType] /\ row[j] \in RowType /\ j \in Jobs
  BY DEF Typed, RowType, Inserted
<1>2. w \in RowType /\ w.mode = row[j].mode /\ w.grade = v /\ w.status = row[j].status
  BY <1>1 DEF RowType
<1>3. row' = [row EXCEPT ![j] = w]
  OBVIOUS
<1> HIDE DEF w
<1>4. /\ row' \in [Jobs -> RowType] /\ row'[j] = w
      /\ \A i \in Jobs \ {j} : row'[i] = row[i]
  BY <1>1, <1>2, <1>3
<1> QED BY <1>1, <1>2, <1>4 DEF Inserted

\* The next job is the first that is not inserted.
LEMMA NextJob ==
  ASSUME Typed, NEW j \in Jobs, j = Cardinality(Inserted) + 1
  PROVE  /\ j \notin Inserted
         /\ \A n \in Nat : Inserted = 1..n => Inserted \cup {j} = 1..(n + 1)
<1>1. PICK n \in Nat : Inserted = 1..n
  BY DEF Typed
<1>2. Cardinality(1..n) = n
  BY FS_Interval, n \in Int, 1 \in Int
<1>3. j = n + 1
  BY <1>1, <1>2
<1>4. ASSUME NEW k \in Nat, Inserted = 1..k PROVE k = n
  BY <1>1, <1>4, FS_Interval, k = Cardinality(1..k), <1>2
<1> QED BY <1>1, <1>3, <1>4

\* What request r may carry to counter pc.
Fits(pc, v) ==
  /\ pc \in Pcs \ {"idle"} /\ v \in Answers
  /\ pc = "stamp" => v \in {"submitted", "failed"}
  /\ pc = "note" => v \in Active \cup Settled
  /\ pc = "write" => v \in Verdicts

Moves(r) == \E pc \in Pcs, v \in Answers : Fits(pc, v) /\ Carry(r, pc, v)
Leaves(r) == req' = [req EXCEPT ![r] = Idle]

\* A step of the server on a job that is in the table.
LEMMA Served ==
  ASSUME Typed, NEW r \in Requests, req[r].pc # "idle", Moves(r) \/ Leaves(r),
         row' \in [Jobs -> RowType], Inserted' = Inserted, Around'
  PROVE  Typed'
<1>1. ASSUME NEW q \in Requests, q # r, req'[q] = req[q] PROVE Carries(req[q])'
  BY <1>1 DEF Typed, Carries
<1>2. CASE Moves(r)
  <2>1. PICK pc \in Pcs, v \in Answers : Fits(pc, v) /\ Carry(r, pc, v)
    BY <1>2 DEF Moves
  <2>2. /\ req' \in [Requests -> ReqType]
        /\ req'[r].pc = pc /\ req'[r].got = v /\ req'[r].job = req[r].job
        /\ \A q \in Requests \ {r} : req'[q] = req[q]
    BY <2>1, Moved
  <2>3. Carries(req[r])'
    BY <2>1, <2>2 DEF Typed, Carries, Fits
  <2> QED BY <1>1, <2>2, <2>3 DEF Typed
<1>3. CASE Leaves(r)
  <2>1. /\ req' \in [Requests -> ReqType] /\ req'[r].pc = "idle" /\ req'[r].job = 0
        /\ \A q \in Requests \ {r} : req'[q] = req[q]
    BY <1>3, WentIdle DEF Leaves
  <2>2. Carries(req[r])'
    <3>1. 0 \notin Jobs
      BY DEF Jobs
    <3> QED BY <2>1, <3>1 DEF Carries
  <2> QED BY <1>1, <2>1, <2>2 DEF Typed
<1> QED BY <1>2, <1>3

\* A request of the page about a job in the table.
Asks(r, op, j, pc, v, old) ==
  /\ req'[r].op = op /\ req'[r].job = j /\ req'[r].pc = pc /\ req'[r].got = v
  /\ req'[r].extra = old
  /\ req'[r].late = (row[j].grade \in Verdicts /\ \A q \in Busy(j) : req[q].late)
  /\ \A q \in Requests \ {r} : req'[q] = req[q]

LEMMA Asked ==
  ASSUME Typed, NEW r \in Requests, NEW op \in {"start", "poll", "kill"}, NEW j \in Inserted',
         NEW pc, NEW v, Fits(pc, v), NEW old \in SUBSET Jobs, Arrive(r, op, j, pc, v, old)
  PROVE  /\ req' \in [Requests -> ReqType] /\ Asks(r, op, j, pc, v, old)
         /\ Inserted \subseteq Inserted' => \A q \in Requests : Carries(req[q])'
<1> DEFINE late == row[j].grade \in Verdicts /\ \A q \in Busy(j) : req[q].late
           w == [op |-> op, job |-> j, pc |-> pc, on |-> TRUE, got |-> v, extra |-> old,
                 late |-> late]
<1>1. j \in Jobs /\ pc \in Pcs /\ v \in Answers /\ late \in BOOLEAN
  BY DEF Inserted, Fits
<1>2. req' = [req EXCEPT ![r] = w]
  BY DEF Arrive
<1>3. Asks(r, op, j, pc, v, old) <=>
        /\ req'[r].op = op /\ req'[r].job = j /\ req'[r].pc = pc /\ req'[r].got = v
        /\ req'[r].extra = old /\ req'[r].late = late
        /\ \A q \in Requests \ {r} : req'[q] = req[q]
  BY DEF Asks
<1> HIDE DEF late
<1>4. /\ w \in ReqType /\ w.pc = pc /\ w.got = v /\ w.job = j /\ w.op = op
      /\ w.extra = old /\ w.late = late
  BY <1>1 DEF ReqType
<1> HIDE DEF w
<1>5. req' \in [Requests -> ReqType] /\ Asks(r, op, j, pc, v, old)
  BY <1>2, <1>3, <1>4 DEF Typed
<1>6. ASSUME Inserted \subseteq Inserted', NEW q \in Requests PROVE Carries(req[q])'
  <2>1. CASE q = r
    BY <1>5, <2>1 DEF Asks, Carries, Fits
  <2>2. CASE q # r
    BY <1>5, <1>6, <2>2 DEF Asks, Typed, Carries
  <2> QED BY <2>1, <2>2
<1> QED BY <1>5, <1>6

LEMMA Working ==
  ASSUME Typed, NEW r \in Requests, req[r].pc # "idle"
  PROVE  req[r].job \in Inserted /\ req[r].job \in Jobs
BY DEF Typed, Carries, Inserted

\* A step that changes no row.
LEMMA SameRows ==
  ASSUME Typed, row' = row
  PROVE  row' \in [Jobs -> RowType] /\ Inserted' = Inserted
BY DEF Typed, Inserted

\* Counters that carry nothing.
Plain == {"drop", "post", "look", "mark", "check", "fail", "reply", "delete", "settle"}

LEMMA PlainMoves ==
  ASSUME NEW r \in Requests, NEW pc \in Plain, Goto(r, pc)
  PROVE  Moves(r)
<1>1. Fits(pc, "none") /\ pc \in Pcs /\ "none" \in Answers
  BY DEF Fits, Plain, Pcs, Answers
<1>2. Carry(r, pc, "none")
  BY DEF Goto, Carry
<1> QED BY <1>1, <1>2 DEF Moves

LEMMA FitMoves ==
  ASSUME NEW r \in Requests, NEW pc, NEW v, Fits(pc, v), Carry(r, pc, v)
  PROVE  Moves(r)
BY DEF Moves, Fits

LEMMA TypedStart ==
  ASSUME Typed, NEW r \in Requests, NEW m \in Modes, Start(r, m)
  PROVE  Typed'
<1> DEFINE j == Cardinality(Inserted) + 1
           w == [mode |-> m, status |-> "submitted", grade |-> "pending"]
<1>1. j \in Jobs /\ row' = [row EXCEPT ![j] = w] /\ code' = code \cup {j}
      /\ Arrive(r, "start", j, "drop", "none", Prunable')
      /\ UNCHANGED <<platformVars, output, tab, excused, upsets>>
  BY DEF Start
<1>2. j \notin Inserted /\ \A n \in Nat : Inserted = 1..n => Inserted \cup {j} = 1..(n + 1)
  BY <1>1, NextJob
<1> HIDE DEF j
<1>3. w \in RowType /\ w.status # "none"
  BY DEF RowType, Active
<1>4. row' \in [Jobs -> RowType] /\ Inserted' = Inserted \cup {j}
  BY <1>1, <1>3 DEF Typed, Inserted
<1>5. \E n \in Nat : Inserted' = 1..n
  <2>1. PICK n \in Nat : Inserted = 1..n
    BY DEF Typed
  <2> QED BY <1>2, <1>4, <2>1
<1>6. Prunable' \subseteq Jobs
  BY DEF Prunable, Of, Inserted
<1>7. Around'
  BY <1>1, <1>4 DEF Typed, Around, platformVars
<1>8. /\ req' \in [Requests -> ReqType]
      /\ Inserted \subseteq Inserted' => \A q \in Requests : Carries(req[q])'
  <2>1. Fits("drop", "none") /\ j \in Inserted'
    BY <1>4 DEF Fits, Pcs, Answers
  <2> QED BY <1>1, <1>6, <2>1, Asked
<1> QED BY <1>4, <1>5, <1>7, <1>8 DEF Typed

\* What surrounds the rows, if no job is inserted.
LEMMA AroundKept ==
  ASSUME Typed, Inserted' = Inserted,
         UNCHANGED <<app, out, tab, code, output, excused>>, upsets' \in 0..MaxUpsets
  PROVE  Around'
BY DEF Typed, Around

LEMMA TypedServe ==
  ASSUME Typed, NEW r \in Requests, Serve(r)
  PROVE  Typed'
<1> DEFINE j == req[r].job
<1>0. Upset \/ upsets' = upsets => upsets' \in 0..MaxUpsets
  BY SparkJobsAssumption DEF Typed, Around, Upset
<1>1. CASE DropOld(r)
  <2> DEFINE w == [req[r] EXCEPT !.pc = "post", !.extra = {}]
  <2>1. row' = row /\ req[r].pc = "drop"
    BY <1>1 DEF DropOld, At
  <2>2. req[r] \in ReqType /\ req \in [Requests -> ReqType] /\ Carries(req[r]) /\ "post" \in Pcs
    BY DEF Typed, Pcs
  <2>3. req' = [req EXCEPT ![r] = w]
    BY <1>1, <2>2 DEF DropOld
  <2>4. w \in ReqType /\ w.pc = "post" /\ w.job = req[r].job
    BY <2>2 DEF ReqType
  <2> HIDE DEF w
  <2>5. req' \in [Requests -> ReqType] /\ \A q \in Requests : Carries(req[q])'
    <3>1. req' \in [Requests -> ReqType] /\ req'[r] = w /\ \A q \in Requests \ {r} : req'[q] = req[q]
      BY <2>2, <2>3, <2>4
    <3>2. Inserted' = Inserted
      BY <2>1, SameRows
    <3>3. Carries(req[r])'
      BY <2>1, <2>2, <2>4, <3>1, <3>2 DEF Carries
    <3>4. ASSUME NEW q \in Requests \ {r} PROVE Carries(req[q])'
      BY <3>1, <3>2 DEF Typed, Carries
    <3> QED BY <3>1, <3>3, <3>4
  <2>6. Around'
    BY <1>1, <2>1, SameRows DEF DropOld, platformVars, Typed, Around
  <2> QED BY <2>1, <2>5, <2>6, SameRows DEF Typed
<1>2. CASE Post(r)
  <2>1. row' = row /\ req[r].pc = "post" /\ j \in Inserted /\ j \in Jobs
    BY <1>2, Working DEF Post, At
  <2>2. Moves(r)
    <3>1. Fits("stamp", "submitted") /\ Fits("stamp", "failed")
      BY DEF Fits, Pcs, Answers, Active, Settled
    <3>2. Carry(r, "stamp", "submitted") \/ Carry(r, "stamp", "failed")
      BY <1>2 DEF Post
    <3> QED BY <3>1, <3>2, FitMoves
  <2>3. Around'
    <3>1. app' = app \/ app' = [app EXCEPT ![j] = "submitted"]
      BY <1>2 DEF Post
    <3>2. /\ app' \in [Jobs -> Active \cup Settled \cup {"none", "gone"}]
          /\ \A i \in Jobs \ Inserted : app'[i] = "none"
      BY <2>1, <3>1 DEF Typed, Around, Active
    <3>3. excused' \subseteq Jobs /\ upsets' \in 0..MaxUpsets
      BY <1>0, <1>2, <2>1 DEF Post, Typed, Around
    <3>4. UNCHANGED <<out, tab, code, output>> /\ Inserted' = Inserted
      BY <1>2, <2>1, SameRows DEF Post, storeVars
    <3> QED BY <3>2, <3>3, <3>4 DEF Typed, Around
  <2> QED BY <2>1, <2>2, <2>3, SameRows, Served
<1>3. CASE Stamp(r)
  <2>1. /\ req[r].pc = "stamp" /\ j \in Inserted /\ req[r].got \in Active \cup Settled
        /\ row' = [row EXCEPT ![j].status = req[r].got]
    BY <1>3, Working DEF Stamp, At, Typed, Carries, Active, Settled
  <2>2. Moves(r) \/ Leaves(r)
    BY <1>3, PlainMoves DEF Stamp, Leaves, Plain
  <2>3. row' \in [Jobs -> RowType] /\ Inserted' = Inserted
    BY <2>1, StatusSet
  <2>4. Around'
    BY <1>0, <1>3, <2>3, AroundKept DEF Stamp, platformVars, storeVars
  <2> QED BY <2>1, <2>2, <2>3, <2>4, Served
<1>4. CASE Ask(r)
  <2>1. row' = row /\ req[r].pc = "ask" /\ j \in Inserted /\ j \in Jobs
    BY <1>4, Working DEF Ask, At
  <2>2. Moves(r)
    <3>1. CASE app[j] \notin {"none", "gone"} /\ Carry(r, "note", app[j])
      <4>1. app[j] \in Active \cup Settled
        BY <2>1, <3>1 DEF Typed, Around
      <4>2. Fits("note", app[j])
        BY <4>1 DEF Fits, Pcs, Answers
      <4> QED BY <3>1, <4>2, FitMoves
    <3>2. CASE Carry(r, IF req[r].got = "open" THEN "note" ELSE "look", "failed")
      <4>1. Fits("note", "failed") /\ Fits("look", "failed")
        BY DEF Fits, Pcs, Answers, Settled
      <4>2. Carry(r, "note", "failed") \/ Carry(r, "look", "failed")
        BY <3>2
      <4> QED BY <4>1, <4>2, FitMoves
    <3>3. CASE Goto(r, "look")
      BY <3>3, PlainMoves DEF Plain
    <3> QED BY <1>4, <3>1, <3>2, <3>3 DEF Ask
  <2>3. Around'
    <3>1. excused' \subseteq Jobs /\ upsets' \in 0..MaxUpsets
      BY <1>0, <1>4, <2>1 DEF Ask, Typed, Around
    <3>2. UNCHANGED <<app, out, tab, code, output>> /\ Inserted' = Inserted
      BY <1>4, <2>1, SameRows DEF Ask, platformVars, storeVars
    <3> QED BY <3>1, <3>2 DEF Typed, Around
  <2> QED BY <2>1, <2>2, <2>3, SameRows, Served
<1>5. CASE Note(r)
  <2>1. /\ req[r].pc = "note" /\ j \in Inserted /\ req[r].got \in Active \cup Settled
        /\ row' = [row EXCEPT ![j].status = req[r].got]
    BY <1>5, Working DEF Note, At, Typed, Carries
  <2>2. Moves(r)
    BY <1>5, PlainMoves DEF Note, Plain
  <2>3. row' \in [Jobs -> RowType] /\ Inserted' = Inserted
    BY <2>1, StatusSet
  <2>4. Around'
    BY <1>0, <1>5, <2>3, AroundKept DEF Note, platformVars, storeVars
  <2> QED BY <2>1, <2>2, <2>3, <2>4, Served
<1>6. CASE Delete(r)
  <2>1. row' = row /\ req[r].pc = "delete" /\ j \in Inserted /\ j \in Jobs
    BY <1>6, Working DEF Delete, At
  <2>2. Moves(r)
    BY <1>6, PlainMoves DEF Delete, Plain
  <2>3. Around'
    <3>1. app' = app \/ app' = [app EXCEPT ![j] = IF @ = "none" THEN "none" ELSE "gone"]
      BY <1>6 DEF Delete
    <3>2. /\ app' \in [Jobs -> Active \cup Settled \cup {"none", "gone"}]
          /\ \A i \in Jobs \ Inserted : app'[i] = "none"
      BY <2>1, <3>1 DEF Typed, Around
    <3>3. excused' \subseteq Jobs /\ upsets' \in 0..MaxUpsets
      BY <1>0, <1>6, <2>1 DEF Delete, Typed, Around
    <3>4. UNCHANGED <<out, tab, code, output>> /\ Inserted' = Inserted
      BY <1>6, <2>1, SameRows DEF Delete, storeVars
    <3> QED BY <3>2, <3>3, <3>4 DEF Typed, Around
  <2> QED BY <2>1, <2>2, <2>3, SameRows, Served
<1>7. CASE SettleKilled(r)
  <2>1. /\ req[r].pc = "settle" /\ j \in Inserted /\ "failed" \in Active \cup Settled
        /\ row' = [row EXCEPT ![j].status = "failed"]
    BY <1>7, Working DEF SettleKilled, At, Settled
  <2>2. Moves(r)
    BY <1>7, PlainMoves DEF SettleKilled, Plain
  <2>3. row' \in [Jobs -> RowType] /\ Inserted' = Inserted
    BY <2>1, StatusSet
  <2>4. Around'
    BY <1>0, <1>7, <2>3, AroundKept DEF SettleKilled, platformVars, storeVars
  <2> QED BY <2>1, <2>2, <2>3, <2>4, Served
<1>8. CASE Look(r)
  <2>1. row' = row /\ req[r].pc = "look"
    BY <1>8 DEF Look, At
  <2>2. Goto(r, "mark") \/ Goto(r, "fail") \/ Goto(r, "reply")
    BY <1>8 DEF Look
  <2>3. Moves(r)
    BY <2>2, PlainMoves DEF Plain
  <2>4. Around'
    BY <1>0, <1>8, <2>1, SameRows, AroundKept DEF Look, platformVars, storeVars
  <2> QED BY <2>1, <2>3, <2>4, SameRows, Served
<1>9. CASE Fail(r) \/ Mark(r) \/ Write(r)
  <2>1. /\ req[r].pc # "idle" /\ j \in Inserted
        /\ \E v \in Verdicts \cup {"grading"} : row' = [row EXCEPT ![j].grade = v]
    <3>1. CASE Fail(r)
      BY <3>1, Working DEF Fail, At, Verdicts
    <3>2. CASE Mark(r)
      BY <3>2, Working DEF Mark, At
    <3>3. CASE Write(r)
      BY <3>3, Working DEF Write, At, Typed, Carries
    <3> QED BY <1>9, <3>1, <3>2, <3>3
  <2>2. Goto(r, "reply") \/ Goto(r, "check")
    BY <1>9 DEF Fail, Mark, Write
  <2>3. Moves(r)
    BY <2>2, PlainMoves DEF Plain
  <2>4. row' \in [Jobs -> RowType] /\ Inserted' = Inserted
    BY <2>1, GradeSet
  <2>5. Around'
    BY <1>0, <1>9, <2>4, AroundKept DEF Fail, Mark, Write, platformVars, storeVars
  <2> QED BY <2>1, <2>3, <2>4, <2>5, Served
<1>10. CASE Check(r)
  <2>1. row' = row /\ req[r].pc = "check"
    BY <1>10 DEF Check, At
  <2>2. \E g \in Verdicts : Carry(r, "write", g)
    BY <1>10 DEF Check, GradesOf, Verdicts
  <2>3. \A g \in Verdicts : Fits("write", g)
    BY DEF Fits, Pcs, Answers
  <2>4. Moves(r)
    BY <2>2, <2>3, FitMoves
  <2>5. Around'
    <3>1. excused' \subseteq Jobs /\ upsets' \in 0..MaxUpsets
      BY <1>0, <1>10, Working DEF Check, At, Typed, Around
    <3>2. UNCHANGED <<app, out, tab, code, output>> /\ Inserted' = Inserted
      BY <1>10, <2>1, SameRows DEF Check, platformVars, storeVars
    <3> QED BY <3>1, <3>2 DEF Typed, Around
  <2> QED BY <2>1, <2>4, <2>5, SameRows, Served
<1>11. CASE Reply(r)
  <2>1. row' = row /\ req[r].pc = "reply" /\ j \in Inserted /\ j \in Jobs /\ Leaves(r)
    BY <1>11, Working DEF Reply, At, Leaves
  <2>2. Around'
    <3>1. /\ UNCHANGED <<app, out, code, output, excused, upsets>> /\ Inserted' = Inserted
      BY <1>11, <2>1, SameRows DEF Reply, platformVars, storeVars
    <3> DEFINE t == [seen |-> View(j), polled |-> req[r].op # "kill" /\ View(j) # "done"]
    <3>2. t \in [seen: {"none", "live", "open", "done"}, polled: BOOLEAN]
      BY DEF View
    <3>3. tab' = tab \/ tab' = [tab EXCEPT ![j] = t]
      BY <1>11 DEF Reply
    <3> HIDE DEF t
    <3>4. /\ tab' \in [Jobs -> [seen: {"none", "live", "open", "done"}, polled: BOOLEAN]]
          /\ \A i \in Jobs : tab'[i].polled \/ tab'[i].seen # "none" => i \in Inserted
      BY <2>1, <3>2, <3>3 DEF Typed, Around
    <3> QED BY <3>1, <3>4 DEF Typed, Around
  <2> QED BY <2>1, <2>2, SameRows, Served
<1> QED
  BY <1>1, <1>2, <1>3, <1>4, <1>5, <1>6, <1>7, <1>8, <1>9, <1>10, <1>11 DEF Serve

LEMMA TypedStep == Typed /\ [Next]_vars => Typed'
<1> SUFFICES ASSUME Typed, [Next]_vars PROVE Typed'
  OBVIOUS
<1>0. Upset \/ upsets' = upsets => upsets' \in 0..MaxUpsets
  BY SparkJobsAssumption DEF Typed, Around, Upset
<1>1. ASSUME NEW r \in Requests, NEW j \in Jobs, Poll(r, j) \/ Kill(r, j) PROVE Typed'
  <2>1. j \in Inserted
    BY <1>1 DEF Poll, Kill, Typed, Around
  <2>2. row' = row /\ UNCHANGED <<app, out, tab, code, output, excused>> /\ upsets' \in 0..MaxUpsets
    BY <1>0, <1>1 DEF Poll, Kill, platformVars, storeVars
  <2>3. Around' /\ Inserted' = Inserted
    BY <2>2, SameRows, AroundKept
  <2>4. \E op \in {"poll", "kill"}, pc \in Pcs, v \in Answers :
          Fits(pc, v) /\ Arrive(r, op, j, pc, v, {})
    <3>1. CASE Poll(r, j)
      <4>1. PICK v \in {"settled", "open"} : Arrive(r, "poll", j, "ask", v, {})
        BY <3>1 DEF Poll
      <4>2. Fits("ask", v) /\ "ask" \in Pcs /\ v \in Answers
        BY DEF Fits, Pcs, Answers
      <4> QED BY <4>1, <4>2
    <3>2. CASE Kill(r, j)
      <4>1. PICK pc \in {"reply", "delete"} : Arrive(r, "kill", j, pc, "none", {})
        BY <3>2 DEF Kill
      <4>2. Fits(pc, "none") /\ pc \in Pcs /\ "none" \in Answers
        BY DEF Fits, Pcs, Answers
      <4> QED BY <4>1, <4>2
    <3> QED BY <1>1, <3>1, <3>2
  <2>5. req' \in [Requests -> ReqType] /\ \A q \in Requests : Carries(req[q])'
    <3>1. PICK op \in {"poll", "kill"}, pc \in Pcs, v \in Answers :
            Fits(pc, v) /\ Arrive(r, op, j, pc, v, {})
      BY <2>4
    <3>2. j \in Inserted' /\ op \in {"start", "poll", "kill"} /\ {} \in SUBSET Jobs
      BY <2>1, <2>3
    <3> QED BY <2>3, <3>1, <3>2, Asked
  <2> QED BY <2>2, <2>3, <2>5, SameRows DEF Typed
<1>2. ASSUME NEW j \in Jobs, Run(j) \/ Forget(j) PROVE Typed'
  <2>1. UNCHANGED <<row, req, tab, code, excused>> /\ upsets' \in 0..MaxUpsets /\ Inserted' = Inserted
    BY <1>0, <1>2, SameRows DEF Run, Forget, storeVars
  <2>2. j \in Inserted /\ \E v \in Active \cup Settled \cup {"gone"} : app' = [app EXCEPT ![j] = v]
    <3>1. j \in Inserted
      BY <1>2 DEF Run, Forget, Active, Typed, Around
    <3>2. CASE Run(j)
      BY <3>1, <3>2 DEF Run, Active, Settled
    <3>3. CASE Forget(j)
      BY <3>1, <3>3 DEF Forget
    <3> QED BY <1>2, <3>1, <3>2, <3>3
  <2>3. /\ app' \in [Jobs -> Active \cup Settled \cup {"none", "gone"}]
        /\ \A i \in Jobs \ Inserted : app'[i] = "none"
    BY <2>2 DEF Typed, Around
  <2>4. out' \in [Jobs -> {"none", "right", "wrong"}] /\ output' \subseteq Jobs
    <3>1. out \in [Jobs -> {"none", "right", "wrong"}] /\ output \subseteq Jobs
      BY DEF Typed, Around
    <3>2. CASE Run(j)
      BY <3>1, <3>2 DEF Run
    <3>3. CASE Forget(j)
      BY <3>1, <3>3 DEF Forget, storeVars
    <3> QED BY <1>2, <3>2, <3>3
  <2>5. Around'
    BY <2>1, <2>3, <2>4 DEF Typed, Around
  <2> QED BY <2>1, <2>5 DEF Typed, Carries
<1>3. ASSUME Reload PROVE Typed'
  <2>1. UNCHANGED <<row, app, out, code, output, excused>> /\ upsets' \in 0..MaxUpsets /\ Inserted' = Inserted
    BY <1>0, <1>3, SameRows DEF Reload, platformVars, storeVars
  <2>2. /\ tab' \in [Jobs -> [seen: {"none", "live", "open", "done"}, polled: BOOLEAN]]
        /\ \A i \in Jobs : tab'[i].polled \/ tab'[i].seen # "none" => i \in Inserted
    BY <1>3 DEF Reload, View, Unseen
  <2>3. req' \in [Requests -> ReqType] /\ \A q \in Requests : Carries(req[q])'
    <3>1. ASSUME NEW q \in Requests
          PROVE  /\ [req[q] EXCEPT !.on = FALSE] \in ReqType /\ req'[q] = [req[q] EXCEPT !.on = FALSE]
                 /\ req'[q].pc = req[q].pc /\ req'[q].job = req[q].job /\ req'[q].got = req[q].got
      BY <1>3 DEF Reload, Typed, ReqType
    <3>2. req' = [r \in Requests |-> [req[r] EXCEPT !.on = FALSE]]
      BY <1>3 DEF Reload
    <3> QED BY <2>1, <3>1, <3>2 DEF Typed, Carries
  <2> QED BY <2>1, <2>2, <2>3 DEF Typed, Around
<1>4. ASSUME Crash PROVE Typed'
  <2>1. UNCHANGED <<row, app, out, code, output, excused>> /\ upsets' \in 0..MaxUpsets /\ Inserted' = Inserted
    BY <1>0, <1>4, SameRows DEF Crash, platformVars, storeVars
  <2>2. ASSUME NEW i \in Jobs
        PROVE  /\ tab'[i] \in [seen: {"none", "live", "open", "done"}, polled: BOOLEAN]
               /\ tab'[i].polled \/ tab'[i].seen # "none" => i \in Inserted
    <3>1. (\E r \in Busy(i) : TRUE) => i \in Inserted
      BY DEF Busy, Typed, Carries
    <3> QED BY <1>4, <3>1 DEF Crash, Typed, Around
  <2>3. tab' \in [Jobs -> [seen: {"none", "live", "open", "done"}, polled: BOOLEAN]]
    <3>1. tab' = [i \in Jobs |-> tab'[i]]
      BY <1>4 DEF Crash
    <3> QED BY <2>2, <3>1
  <2>4. req' \in [Requests -> ReqType] /\ \A q \in Requests : Carries(req[q])'
    <3>1. Idle \in ReqType /\ Idle.pc = "idle" /\ Idle.job = 0
      BY DEF ReqType, Idle, Pcs, Answers
    <3>2. req' = [r \in Requests |-> Idle]
      BY <1>4 DEF Crash
    <3>3. \A q \in Requests : req'[q].pc = "idle" /\ req'[q].job = 0
      BY <3>1, <3>2
    <3> QED BY <3>1, <3>2, <3>3 DEF Carries, Jobs
  <2> QED BY <2>1, <2>2, <2>3, <2>4 DEF Typed, Around
<1>5. ASSUME UNCHANGED vars PROVE Typed'
  BY <1>5 DEF vars, Typed, Around, Carries, Inserted
<1> QED
  BY <1>1, <1>2, <1>3, <1>4, <1>5, TypedStart, TypedServe DEF Next

LEMMA TypedInit == Init => Typed
<1> SUFFICES ASSUME Init PROVE Typed
  OBVIOUS
<1>1. NoRow \in RowType /\ NoRow.status = "none"
  BY DEF NoRow, RowType
<1>2. Idle \in ReqType /\ Idle.pc = "idle" /\ Idle.job = 0
  BY DEF ReqType, Idle, Pcs, Answers
<1>3. Unseen \in [seen: {"none", "live", "open", "done"}, polled: BOOLEAN]
      /\ ~Unseen.polled /\ Unseen.seen = "none"
  BY DEF Unseen
<1>4. row \in [Jobs -> RowType] /\ Inserted = {}
  BY <1>1 DEF Init, Inserted
<1>5. req \in [Requests -> ReqType] /\ \A r \in Requests : Carries(req[r])
  BY <1>2 DEF Init, Carries, Jobs
<1>6. tab \in [Jobs -> [seen: {"none", "live", "open", "done"}, polled: BOOLEAN]]
      /\ \A j \in Jobs : ~(tab[j].polled \/ tab[j].seen # "none")
  BY <1>3 DEF Init
<1>7. Around
  BY <1>4, <1>6, SparkJobsAssumption DEF Init, Around
<1>8. {} = 1..0
  OBVIOUS
<1> QED BY <1>4, <1>5, <1>7, <1>8 DEF Typed

LEMMA TypedAlways == Spec => []Typed
BY TypedInit, TypedStep, PTL DEF Spec

\* Every reachable state has its type, for any bounds.
THEOREM TypeCorrect == Spec => []TypeOK
BY TypedAlways, TypedIsTypeOK, PTL
-----------------------------------------------------------------------------
(* What the server's step does to the requests and to the table.           *)

Turn(r, pc, v) ==
  /\ req'[r].pc = pc /\ req'[r].got = v /\ req'[r].job = req[r].job
  /\ req'[r].late = req[r].late
  /\ \A q \in Requests \ {r} : req'[q] = req[q]

Gone(r) == /\ req'[r].pc = "idle" /\ req'[r].job = 0 /\ req'[r].late = FALSE
           /\ \A q \in Requests \ {r} : req'[q] = req[q]

LEMMA CarryTurns ==
  ASSUME Typed, NEW r \in Requests, NEW pc \in Pcs, NEW v \in Answers, Carry(r, pc, v)
  PROVE  Turn(r, pc, v)
<1> DEFINE w == [req[r] EXCEPT !.pc = pc, !.got = v]
<1>1. req[r] \in ReqType /\ req \in [Requests -> ReqType]
  BY DEF Typed, ReqType
<1>2. w.pc = pc /\ w.got = v /\ w.job = req[r].job /\ w.late = req[r].late
  BY <1>1 DEF ReqType
<1>3. req' = [req EXCEPT ![r] = w]
  BY <1>1 DEF Carry
<1> HIDE DEF w
<1> QED BY <1>1, <1>2, <1>3 DEF Turn

LEMMA GotoTurns ==
  ASSUME Typed, NEW r \in Requests, NEW pc \in Pcs, Goto(r, pc)
  PROVE  Turn(r, pc, "none")
<1>1. Carry(r, pc, "none") /\ "none" \in Answers
  BY DEF Goto, Carry, Answers
<1> QED BY <1>1, CarryTurns

LEMMA LeavesGone ==
  ASSUME Typed, NEW r \in Requests, Leaves(r)
  PROVE  Gone(r)
<1>1. Idle.pc = "idle" /\ Idle.job = 0 /\ Idle.late = FALSE
  BY DEF Idle
<1> QED BY <1>1 DEF Typed, Leaves, Gone

LEMMA DropTurns ==
  ASSUME Typed, NEW r \in Requests, DropOld(r)
  PROVE  Turn(r, "post", req[r].got)
<1> DEFINE w == [req[r] EXCEPT !.pc = "post", !.extra = {}]
<1>1. req[r] \in ReqType /\ req \in [Requests -> ReqType]
  BY DEF Typed, ReqType
<1>2. w.pc = "post" /\ w.got = req[r].got /\ w.job = req[r].job /\ w.late = req[r].late
  BY <1>1 DEF ReqType
<1>3. req' = [req EXCEPT ![r] = w]
  BY <1>1 DEF DropOld
<1> HIDE DEF w
<1> QED BY <1>1, <1>2, <1>3 DEF Turn

\* The turns that each await can take.
LEMMA ServeTurns ==
  ASSUME Typed, NEW r \in Requests, Serve(r)
  PROVE  \/ DropOld(r) /\ Turn(r, "post", req[r].got)
         \/ Post(r) /\ \E v \in {"submitted", "failed"} : Turn(r, "stamp", v)
         \/ Stamp(r) /\ (Gone(r) \/ Turn(r, "reply", "none"))
         \/ Ask(r) /\ \E pc \in {"note", "look"}, v \in Answers : Turn(r, pc, v)
         \/ Note(r) /\ Turn(r, "look", "none")
         \/ Delete(r) /\ Turn(r, "settle", "none")
         \/ SettleKilled(r) /\ Turn(r, "look", "none")
         \/ Look(r) /\ \E pc \in {"mark", "fail", "reply"} : Turn(r, pc, "none")
         \/ Fail(r) /\ Turn(r, "reply", "none")
         \/ Mark(r) /\ Turn(r, "check", "none")
         \/ Check(r) /\ \E g \in Verdicts : Turn(r, "write", g)
         \/ Write(r) /\ Turn(r, "reply", "none")
         \/ Reply(r) /\ Gone(r)
<1> DEFINE j == req[r].job
<1>0. /\ {"post", "stamp", "reply", "note", "look", "settle", "mark", "fail", "check", "write"} \subseteq Pcs
      /\ {"submitted", "failed", "none"} \cup Verdicts \subseteq Answers
  BY DEF Pcs, Answers, Active, Settled, Verdicts
<1>1. ASSUME Post(r) PROVE \E v \in {"submitted", "failed"} : Turn(r, "stamp", v)
  BY <1>0, <1>1, CarryTurns DEF Post
<1>2. ASSUME Stamp(r) PROVE Gone(r) \/ Turn(r, "reply", "none")
  BY <1>0, <1>2, GotoTurns, LeavesGone DEF Stamp, Leaves
<1>3. ASSUME Ask(r) PROVE \E pc \in {"note", "look"}, v \in Answers : Turn(r, pc, v)
  <2>1. CASE app[j] \notin {"none", "gone"} /\ Carry(r, "note", app[j])
    <3>1. app[j] \in Answers
      BY <1>3, <2>1, Working DEF Ask, At, Typed, Around, Answers
    <3> QED BY <1>0, <2>1, <3>1, CarryTurns
  <2>2. CASE Carry(r, IF req[r].got = "open" THEN "note" ELSE "look", "failed")
    <3>1. Carry(r, "note", "failed") \/ Carry(r, "look", "failed")
      BY <2>2
    <3> QED BY <1>0, <3>1, CarryTurns
  <2>3. CASE Goto(r, "look")
    BY <1>0, <2>3, GotoTurns
  <2> QED BY <1>3, <2>1, <2>2, <2>3 DEF Ask
<1>4. ASSUME Note(r) \/ SettleKilled(r) PROVE Turn(r, "look", "none")
  BY <1>0, <1>4, GotoTurns DEF Note, SettleKilled
<1>5. ASSUME Delete(r) PROVE Turn(r, "settle", "none")
  BY <1>0, <1>5, GotoTurns DEF Delete
<1>6. ASSUME Look(r) PROVE \E pc \in {"mark", "fail", "reply"} : Turn(r, pc, "none")
  <2>1. Goto(r, "mark") \/ Goto(r, "fail") \/ Goto(r, "reply")
    BY <1>6 DEF Look
  <2> QED BY <1>0, <2>1, GotoTurns
<1>7. ASSUME Fail(r) \/ Write(r) PROVE Turn(r, "reply", "none")
  BY <1>0, <1>7, GotoTurns DEF Fail, Write
<1>8. ASSUME Mark(r) PROVE Turn(r, "check", "none")
  BY <1>0, <1>8, GotoTurns DEF Mark
<1>9. ASSUME Check(r) PROVE \E g \in Verdicts : Turn(r, "write", g)
  <2>1. \E g \in Verdicts : Carry(r, "write", g)
    BY <1>9 DEF Check, GradesOf, Verdicts
  <2> QED BY <1>0, <2>1, CarryTurns
<1>10. ASSUME Reply(r) PROVE Gone(r)
  BY <1>10, LeavesGone DEF Reply, Leaves
<1> QED
  BY <1>1, <1>2, <1>3, <1>4, <1>5, <1>6, <1>7, <1>8, <1>9, <1>10, DropTurns DEF Serve

\* What the server's step does to the table: at most its own job's row.
LEMMA ServeRows ==
  ASSUME Typed, NEW r \in Requests, Serve(r)
  PROVE  /\ req[r].pc # "idle" /\ req[r].job \in Inserted /\ Inserted' = Inserted
         /\ \A i \in Jobs : /\ row'[i].mode = row[i].mode
                            /\ i # req[r].job => row'[i] = row[i]
<1> DEFINE j == req[r].job
<1>1. req[r].pc # "idle" /\ j \in Inserted
  BY Working DEF Serve, DropOld, Post, Stamp, Ask, Note, Delete, SettleKilled, Look, Fail, Mark,
                 Check, Write, Reply, At
<1>2. \/ row' = row
      \/ \E v \in Active \cup Settled : row' = [row EXCEPT ![j].status = v]
      \/ \E v \in Verdicts \cup {"grading"} : row' = [row EXCEPT ![j].grade = v]
  <2>1. CASE Stamp(r) \/ Note(r) \/ SettleKilled(r)
    <3>1. (Stamp(r) \/ Note(r)) => req[r].got \in Active \cup Settled
      BY DEF Stamp, Note, At, Typed, Carries, Active, Settled
    <3> QED BY <2>1, <3>1 DEF Stamp, Note, SettleKilled, Settled
  <2>2. CASE Fail(r) \/ Mark(r) \/ Write(r)
    <3>1. Write(r) => req[r].got \in Verdicts
      BY DEF Write, At, Typed, Carries
    <3> QED BY <2>2, <3>1 DEF Fail, Mark, Write, Verdicts
  <2>3. CASE DropOld(r) \/ Post(r) \/ Ask(r) \/ Delete(r) \/ Look(r) \/ Check(r) \/ Reply(r)
    <3>1. (DropOld(r) => row' = row) /\ (Post(r) => row' = row) /\ (Ask(r) => row' = row)
      BY DEF DropOld, Post, Ask
    <3>2. (Delete(r) => row' = row) /\ (Look(r) => row' = row) /\ (Check(r) => row' = row)
      BY DEF Delete, Look, Check
    <3> QED BY <2>3, <3>1, <3>2 DEF Reply
  <2> QED BY <2>1, <2>2, <2>3 DEF Serve
<1>3. row \in [Jobs -> RowType]
  BY DEF Typed
<1>4. \A i \in Jobs : i # j => row'[i] = row[i]
  BY <1>1, <1>2, <1>3
<1>5. Inserted' = Inserted /\ \A i \in Jobs : row'[i].mode = row[i].mode
  BY <1>1, <1>2, SameRows, StatusSet, GradeSet
<1> QED BY <1>1, <1>4, <1>5

\* What the other steps do to the requests.
LEMMA RestTurns ==
  ASSUME Typed,
         (\E j \in Jobs : Run(j) \/ Forget(j)) \/ Reload \/ Crash \/ UNCHANGED vars
  PROVE  /\ UNCHANGED <<row, code, excused>> /\ Inserted' = Inserted
         /\ \A q \in Requests :
              \/ /\ req'[q].pc = req[q].pc /\ req'[q].job = req[q].job /\ req'[q].got = req[q].got
                 /\ req'[q].late = req[q].late /\ req'[q].extra = req[q].extra
              \/ req'[q].pc = "idle" /\ req'[q].job = 0 /\ req'[q].late = FALSE
<1>1. UNCHANGED <<row, code, excused>>
  BY DEF Run, Forget, Reload, Crash, vars, storeVars
<1>2. CASE req' = req
  BY <1>1, <1>2, SameRows
<1>3. CASE Reload
  <2>1. ASSUME NEW q \in Requests
        PROVE  /\ req'[q].pc = req[q].pc /\ req'[q].job = req[q].job /\ req'[q].got = req[q].got
               /\ req'[q].late = req[q].late /\ req'[q].extra = req[q].extra
    <3>1. req[q] \in ReqType /\ req'[q] = [req[q] EXCEPT !.on = FALSE]
      BY <1>3 DEF Reload, Typed
    <3> QED BY <3>1 DEF ReqType
  <2> QED BY <1>1, <2>1, SameRows
<1>4. CASE Crash
  <2>1. Idle.pc = "idle" /\ Idle.job = 0 /\ Idle.late = FALSE
    BY DEF Idle
  <2>2. \A q \in Requests : req'[q] = Idle
    BY <1>4 DEF Crash
  <2> QED BY <1>1, <2>1, <2>2, SameRows
<1> QED BY <1>2, <1>3, <1>4 DEF Run, Forget, vars

\* A poll or a kill that arrives.
LEMMA PageTurns ==
  ASSUME Typed, NEW r \in Requests, NEW j \in Jobs, Poll(r, j) \/ Kill(r, j)
  PROVE  /\ UNCHANGED <<row, app, out, code, output, excused>> /\ Inserted' = Inserted
         /\ j \in Inserted
         /\ \E op \in {"poll", "kill"}, pc \in {"ask", "reply", "delete"}, v \in Answers :
              Asks(r, op, j, pc, v, {})
<1>1. j \in Inserted
  BY DEF Poll, Kill, Typed, Around
<1>2. UNCHANGED <<row, app, out, code, output, excused>> /\ Inserted' = Inserted
  BY SameRows DEF Poll, Kill, platformVars, storeVars
<1>3. \E op \in {"poll", "kill"}, pc \in {"ask", "reply", "delete"},
         v \in {"settled", "open", "none"} : Arrive(r, op, j, pc, v, {})
  <2>1. CASE Poll(r, j)
    BY <2>1 DEF Poll
  <2>2. CASE Kill(r, j)
    BY <2>2 DEF Kill
  <2> QED BY <2>1, <2>2
<1>4. PICK op \in {"poll", "kill"}, pc \in {"ask", "reply", "delete"},
           v \in {"settled", "open", "none"} : Arrive(r, op, j, pc, v, {})
  BY <1>3
<1>5. Fits(pc, v) /\ v \in Answers /\ op \in {"start", "poll", "kill"} /\ {} \in SUBSET Jobs
  BY DEF Fits, Pcs, Answers
<1>6. Asks(r, op, j, pc, v, {})
  BY <1>1, <1>2, <1>4, <1>5, Asked
<1> QED BY <1>1, <1>2, <1>5, <1>6

\* A start that arrives with the next job.
LEMMA StartTurns ==
  ASSUME Typed, NEW r \in Requests, NEW m \in Modes, Start(r, m)
  PROVE  \E j \in Jobs \ Inserted :
           /\ Asks(r, "start", j, "drop", "none", Prunable')
           /\ Inserted' = Inserted \cup {j}
           /\ row'[j].mode = m /\ row'[j].status = "submitted" /\ row'[j].grade = "pending"
           /\ \A i \in Jobs \ {j} : row'[i] = row[i]
           /\ code' = code \cup {j}
           /\ UNCHANGED <<app, out, output, excused>>
<1> DEFINE j == Cardinality(Inserted) + 1
           w == [mode |-> m, status |-> "submitted", grade |-> "pending"]
<1>1. /\ j \in Jobs /\ row' = [row EXCEPT ![j] = w] /\ code' = code \cup {j}
      /\ Arrive(r, "start", j, "drop", "none", Prunable')
      /\ UNCHANGED <<app, out, output, excused>>
  BY DEF Start, platformVars
<1>2. j \notin Inserted
  BY <1>1, NextJob
<1> HIDE DEF j
<1>3. w \in RowType /\ w.status = "submitted" /\ w.mode = m /\ w.grade = "pending"
  BY DEF RowType, Active
<1> HIDE DEF w
<1>4. /\ row' \in [Jobs -> RowType] /\ Inserted' = Inserted \cup {j} /\ row'[j] = w
      /\ \A i \in Jobs \ {j} : row'[i] = row[i]
  BY <1>1, <1>3 DEF Typed, Inserted
<1>5. Prunable' \subseteq Jobs /\ Fits("drop", "none") /\ j \in Inserted'
  BY <1>4 DEF Prunable, Of, Inserted, Fits, Pcs, Answers
<1>6. Asks(r, "start", j, "drop", "none", Prunable')
  BY <1>1, <1>5, Asked
<1> QED BY <1>1, <1>2, <1>3, <1>4, <1>6
-----------------------------------------------------------------------------
(* The files of the newest jobs. What a prune is about to delete is none of*)
(* theirs, and stays so: a job that joins can only make others older.      *)

Stored ==
  /\ NewestKept
  /\ \A r \in Requests : req[r].pc = "drop" =>
       /\ req[r].extra \subseteq Inserted
       /\ \A m \in Modes : req[r].extra \cap Newest(Keep(m), Of(m)) = {}

LEMMA NewestGrows ==
  ASSUME NEW S \in SUBSET Jobs, NEW j \in Jobs, NEW n \in Nat
  PROVE  Newest(n, S \cup {j}) \subseteq Newest(n, S) \cup {j}
<1> SUFFICES ASSUME NEW k \in Newest(n, S \cup {j}), k # j
             PROVE  k \in Newest(n, S)
  OBVIOUS
<1> DEFINE A == {i \in S : i > k}
           B == {i \in S \cup {j} : i > k}
<1>1. IsFiniteSet(Jobs)
  <2>1. 1 \in Int /\ MaxJobs \in Int
    BY SparkJobsAssumption
  <2> QED BY <2>1, FS_Interval DEF Jobs
<1>2. A \subseteq B /\ B \subseteq Jobs
  OBVIOUS
<1>3. IsFiniteSet(B)
  BY <1>1, <1>2, FS_Subset
<1>4. IsFiniteSet(A) /\ Cardinality(A) <= Cardinality(B)
  BY <1>2, <1>3, FS_Subset
<1>5. Cardinality(A) \in Nat /\ Cardinality(B) \in Nat
  BY <1>3, <1>4, FS_CardinalityType
<1>6. k \in S /\ Cardinality(B) < n
  BY DEF Newest
<1>7. Cardinality(A) < n
  BY <1>4, <1>5, <1>6
<1> QED BY <1>6, <1>7 DEF Newest

LEMMA KeepType == \A m \in Modes : Keep(m) \in Nat
BY SparkJobsAssumption DEF Keep

LEMMA StoredStep == Typed /\ Typed' /\ Stored /\ [Next]_vars => Stored'
<1> SUFFICES ASSUME Typed, Typed', Stored, [Next]_vars PROVE Stored'
  OBVIOUS
<1>0. ASSUME Inserted' = Inserted, \A i \in Jobs : row'[i].mode = row[i].mode
      PROVE  \A m \in Modes : Of(m)' = Of(m) /\ Newest(Keep(m), Of(m))' = Newest(Keep(m), Of(m))
  <2>1. \A m \in Modes : Of(m)' = Of(m)
    BY <1>0 DEF Of, Inserted
  <2> QED BY <2>1 DEF Newest, Keep
<1>1. ASSUME NEW r \in Requests, Serve(r) PROVE Stored'
  <2>1. Inserted' = Inserted /\ \A m \in Modes : Newest(Keep(m), Of(m))' = Newest(Keep(m), Of(m))
    BY <1>0, <1>1, ServeRows
  <2>2. req'[r].pc # "drop" /\ \A q \in Requests \ {r} : req'[q] = req[q]
    BY <1>1, ServeTurns DEF Turn, Gone
  <2>3. code' = code \/ (req[r].pc = "drop" /\ code' = code \ req[r].extra)
    BY <1>1 DEF Serve, DropOld, Post, Stamp, Ask, Note, Delete, SettleKilled, Look, Fail, Mark,
                Check, Write, Reply, At, storeVars
  <2>4. NewestKept'
    BY <2>1, <2>3 DEF Stored, NewestKept
  <2> QED BY <2>1, <2>2, <2>4 DEF Stored
<1>2. ASSUME NEW r \in Requests, NEW j \in Jobs, Poll(r, j) \/ Kill(r, j) PROVE Stored'
  <2>1. code' = code /\ Inserted' = Inserted /\ \A m \in Modes : Newest(Keep(m), Of(m))' = Newest(Keep(m), Of(m))
    BY <1>0, <1>2, PageTurns
  <2>2. req'[r].pc # "drop" /\ \A q \in Requests \ {r} : req'[q] = req[q]
    BY <1>2, PageTurns DEF Asks
  <2> QED BY <2>1, <2>2 DEF Stored, NewestKept
<1>3. ASSUME NEW r \in Requests, NEW m \in Modes, Start(r, m) PROVE Stored'
  <2>1. PICK j \in Jobs \ Inserted :
           /\ Asks(r, "start", j, "drop", "none", Prunable')
           /\ Inserted' = Inserted \cup {j}
           /\ row'[j].mode = m
           /\ \A i \in Jobs \ {j} : row'[i] = row[i]
           /\ code' = code \cup {j}
    BY <1>3, StartTurns
  <2>2. ASSUME NEW k \in Modes
        PROVE  /\ Of(k)' = Of(k) \/ Of(k)' = Of(k) \cup {j}
               /\ Newest(Keep(k), Of(k))' \subseteq Newest(Keep(k), Of(k)) \cup {j}
    <3>1. Of(k)' = Of(k) \/ Of(k)' = Of(k) \cup {j}
      BY <2>1 DEF Of, Inserted
    <3>2. Newest(Keep(k), Of(k))' = Newest(Keep(k), Of(k)')
      BY DEF Newest, Keep
    <3>3. Of(k) \in SUBSET Jobs /\ Keep(k) \in Nat
      BY KeepType DEF Of, Inserted
    <3>4. Newest(Keep(k), Of(k) \cup {j}) \subseteq Newest(Keep(k), Of(k)) \cup {j}
      BY <2>1, <3>3, NewestGrows
    <3> QED BY <3>1, <3>2, <3>4
  <2>3. NewestKept'
    BY <2>1, <2>2 DEF Stored, NewestKept
  <2>4. \A q \in Requests \ {r} : req'[q] = req[q]
    BY <2>1 DEF Asks
  <2>5. req'[r].extra = Prunable'
    BY <2>1 DEF Asks
  <2>6. Prunable' \subseteq Inserted' /\ \A k \in Modes : Prunable' \cap Newest(Keep(k), Of(k))' = {}
    <3>1. Prunable' \subseteq Inserted'
      BY DEF Prunable, Of
    <3>2. ASSUME NEW k \in Modes, NEW i \in Prunable', i \in Newest(Keep(k), Of(k))'
          PROVE  FALSE
      <4>1. PICK n \in Modes : i \in Of(n)' /\ i \notin Newest(Keep(n), Of(n))'
        BY DEF Prunable
      <4>2. i \in Of(k)'
        BY <3>2 DEF Newest
      <4>3. n = k
        BY <4>1, <4>2 DEF Of
      <4> QED BY <3>2, <4>1, <4>3
    <3> QED BY <3>1, <3>2
  <2>7. ASSUME NEW q \in Requests, q # r, req'[q].pc = "drop"
        PROVE  /\ req'[q].extra \subseteq Inserted'
               /\ \A k \in Modes : req'[q].extra \cap Newest(Keep(k), Of(k))' = {}
    BY <2>1, <2>2, <2>4, <2>7 DEF Stored
  <2> QED BY <2>3, <2>5, <2>6, <2>7 DEF Stored
<1>4. ASSUME (\E j \in Jobs : Run(j) \/ Forget(j)) \/ Reload \/ Crash \/ UNCHANGED vars
      PROVE  Stored'
  <2>1. /\ UNCHANGED <<row, code>> /\ Inserted' = Inserted
        /\ \A q \in Requests : req'[q].pc = "drop" =>
             req[q].pc = "drop" /\ req'[q].extra = req[q].extra
    BY <1>4, RestTurns
  <2>2. \A m \in Modes : Newest(Keep(m), Of(m))' = Newest(Keep(m), Of(m))
    BY <1>0, <2>1
  <2> QED BY <2>1, <2>2 DEF Stored, NewestKept
<1> QED BY <1>1, <1>2, <1>3, <1>4 DEF Next

\* The files of the newest Runs and Submits stay, for any bounds.
THEOREM NewestKeptHolds == Spec => []NewestKept
<1>1. Init => Stored
  <2> SUFFICES ASSUME Init PROVE Stored
    OBVIOUS
  <2>1. Inserted = {} /\ \A r \in Requests : req[r].pc = "idle"
    BY DEF Init, Inserted, NoRow, Idle
  <2> QED BY <2>1 DEF Stored, NewestKept, Newest, Of
<1>2. Stored => NewestKept
  BY DEF Stored
<1> QED BY <1>1, <1>2, StoredStep, TypedAlways, PTL DEF Spec
-----------------------------------------------------------------------------
(* Verdicts. Who comes when the verdict is there, and nobody is at work on *)
(* it, finds nothing to do, and so does who comes after.                   *)

Giving == {"fail", "mark", "check", "write"}

Latecomer(r) ==
  LET j == req[r].job IN
  /\ j \in Jobs /\ row[j].grade \in Verdicts
  /\ req[r].pc \notin Giving
  /\ \A q \in Requests : req[q].job = j => req[q].late

Graded ==
  /\ \A j \in Jobs \ Inserted : row[j].grade = "none"
  /\ \A r \in Requests : req[r].late => Latecomer(r)

\* Only an await of maybeGradeJob changes a verdict.
LEMMA GradeKept ==
  ASSUME Typed, NEW r \in Requests, Serve(r), req[r].pc \notin {"fail", "mark", "write"}
  PROVE  \A i \in Jobs : row'[i].grade = row[i].grade
<1> DEFINE j == req[r].job
<1>1. row' = row \/ \E v \in Active \cup Settled : row' = [row EXCEPT ![j].status = v]
  <2>1. CASE Stamp(r) \/ Note(r) \/ SettleKilled(r)
    <3>1. (Stamp(r) \/ Note(r)) => req[r].got \in Active \cup Settled
      BY DEF Stamp, Note, At, Typed, Carries, Active, Settled
    <3> QED BY <2>1, <3>1 DEF Stamp, Note, SettleKilled, Settled
  <2>2. CASE DropOld(r) \/ Post(r) \/ Ask(r) \/ Delete(r) \/ Look(r) \/ Check(r) \/ Reply(r)
    BY <2>2 DEF DropOld, Post, Ask, Delete, Look, Check, Reply
  <2> QED BY <2>1, <2>2 DEF Serve, Fail, Mark, Write, At
<1> QED BY <1>1, ServeRows, StatusSet

LEMMA LateServe ==
  ASSUME Typed, Graded, NEW r \in Requests, Serve(r)
  PROVE  Graded'
<1> DEFINE j == req[r].job
<1>1. /\ j \in Jobs /\ Inserted' = Inserted /\ j \in Inserted
      /\ \A i \in Jobs : i # j => row'[i] = row[i]
  BY ServeRows DEF Inserted
<1>2. /\ \A q \in Requests \ {r} : req'[q] = req[q]
      /\ (req'[r].job = j /\ req'[r].late = req[r].late) \/ (req'[r].job = 0 /\ req'[r].late = FALSE)
  BY ServeTurns DEF Turn, Gone
<1>3. ASSUME req[r].late PROVE req'[r].pc \notin Giving
  <2>1. Latecomer(r)
    BY <1>3 DEF Graded
  <2>2. ~Mark(r) /\ ~Check(r) /\ ~Fail(r) /\ ~Write(r)
    BY <2>1 DEF Latecomer, Giving, Mark, Check, Fail, Write, At
  <2>3. CASE Look(r)
    <3>1. Goto(r, "reply")
      BY <2>1, <2>3 DEF Look, Latecomer, Verdicts
    <3>2. "reply" \in Pcs
      BY DEF Pcs
    <3> QED BY <3>1, <3>2, GotoTurns DEF Turn, Giving
  <2>4. CASE ~Look(r)
    BY <2>2, <2>4, ServeTurns DEF Turn, Gone, Giving
  <2> QED BY <2>3, <2>4
<1>4. ASSUME NEW q \in Requests, req'[q].late PROVE Latecomer(q)'
  <2>1. req[q].late /\ req'[q].job = req[q].job
    BY <1>2, <1>4
  <2>2. Latecomer(q)
    BY <2>1 DEF Graded
  <2>3. req'[q].pc \notin Giving
    BY <1>2, <1>3, <2>1, <2>2 DEF Latecomer
  <2>4. row'[req[q].job].grade = row[req[q].job].grade
    <3>1. CASE req[q].job = j
      <4>1. req[r].late
        BY <2>2, <3>1 DEF Latecomer
      <4>2. req[r].pc \notin Giving
        BY <4>1 DEF Graded, Latecomer
      <4> QED BY <1>1, <3>1, <4>2, GradeKept DEF Giving
    <3>2. CASE req[q].job # j
      BY <1>1, <2>2, <3>2 DEF Latecomer
    <3> QED BY <3>1, <3>2
  <2>5. ASSUME NEW p \in Requests, req'[p].job = req[q].job PROVE req'[p].late
    <3>1. req[p].job = req[q].job /\ req'[p].late = req[p].late
      <4>1. req[q].job # 0
        BY <2>2 DEF Latecomer, Jobs
      <4> QED BY <1>2, <2>5, <4>1
    <3> QED BY <2>2, <3>1 DEF Latecomer
  <2> QED BY <2>1, <2>2, <2>3, <2>4, <2>5 DEF Latecomer
<1>5. \A i \in Jobs \ Inserted' : row'[i].grade = "none"
  BY <1>1 DEF Graded
<1> QED BY <1>4, <1>5 DEF Graded

\* A request that arrives for a job in the table, or for a new one.
LEMMA LateArrives ==
  ASSUME Typed, Graded, NEW r \in Requests, NEW op, NEW j \in Jobs, NEW pc, pc \notin Giving,
         NEW v, NEW old, Asks(r, op, j, pc, v, old),
         \A i \in Jobs : i \in Inserted => row'[i] = row[i],
         \A i \in Jobs \ Inserted' : row'[i].grade = "none"
  PROVE  Graded'
<1>1. ASSUME NEW q \in Requests, req'[q].late PROVE Latecomer(q)'
  <2>1. CASE q = r
    <3>1. /\ req'[q].job = j /\ req'[q].pc = pc
          /\ row[j].grade \in Verdicts /\ \A p \in Busy(j) : req[p].late
          /\ \A p \in Requests \ {r} : req'[p] = req[p]
      BY <1>1, <2>1 DEF Asks
    <3>2. j \in Inserted
      BY <3>1 DEF Graded, Verdicts
    <3> QED BY <1>1, <2>1, <3>1, <3>2 DEF Latecomer, Busy
  <2>2. CASE q # r
    <3>1. req'[q] = req[q] /\ \A p \in Requests \ {r} : req'[p] = req[p]
      BY <2>2 DEF Asks
    <3>2. Latecomer(q)
      BY <1>1, <3>1 DEF Graded
    <3>3. req[q].job \in Inserted
      BY <3>2 DEF Graded, Latecomer, Verdicts
    <3>4. req'[r].job = req[q].job => req'[r].late
      BY <3>2 DEF Asks, Latecomer, Busy
    <3> QED BY <3>1, <3>2, <3>3, <3>4 DEF Latecomer
  <2> QED BY <2>1, <2>2
<1> QED BY <1>1 DEF Graded

LEMMA GradedStep == Typed /\ Graded /\ [Next]_vars => Graded'
<1> SUFFICES ASSUME Typed, Graded, [Next]_vars PROVE Graded'
  OBVIOUS
<1>1. ASSUME NEW r \in Requests, NEW j \in Jobs, Poll(r, j) \/ Kill(r, j) PROVE Graded'
  <2>1. row' = row /\ Inserted' = Inserted
    BY <1>1, PageTurns
  <2>2. PICK op \in {"poll", "kill"}, pc \in {"ask", "reply", "delete"}, v \in Answers :
          Asks(r, op, j, pc, v, {})
    BY <1>1, PageTurns
  <2>3. pc \notin Giving
    BY DEF Giving
  <2>4. \A i \in Jobs \ Inserted' : row'[i].grade = "none"
    BY <2>1 DEF Graded
  <2> QED BY <2>1, <2>2, <2>3, <2>4, LateArrives
<1>2. ASSUME NEW r \in Requests, NEW m \in Modes, Start(r, m) PROVE Graded'
  <2>1. PICK j \in Jobs \ Inserted :
           /\ Asks(r, "start", j, "drop", "none", Prunable')
           /\ Inserted' = Inserted \cup {j}
           /\ \A i \in Jobs \ {j} : row'[i] = row[i]
    BY <1>2, StartTurns
  <2>2. "drop" \notin Giving /\ \A i \in Jobs \ Inserted' : row'[i].grade = "none"
    BY <2>1 DEF Graded, Giving
  <2>3. \A i \in Jobs : i \in Inserted => row'[i] = row[i]
    BY <2>1
  <2> QED BY <2>1, <2>2, <2>3, LateArrives
<1>3. ASSUME (\E j \in Jobs : Run(j) \/ Forget(j)) \/ Reload \/ Crash \/ UNCHANGED vars
      PROVE  Graded'
  <2>1. row' = row /\ Inserted' = Inserted
    BY <1>3, RestTurns
  <2>2. \A q \in Requests :
              \/ /\ req'[q].pc = req[q].pc /\ req'[q].job = req[q].job
                 /\ req'[q].late = req[q].late
              \/ req'[q].pc = "idle" /\ req'[q].job = 0 /\ req'[q].late = FALSE
    BY <1>3, RestTurns
  <2>3. ASSUME NEW q \in Requests, req'[q].late PROVE Latecomer(q)'
    <3>1. /\ Latecomer(q) /\ req'[q].pc = req[q].pc /\ req'[q].job = req[q].job
          /\ req[q].job # 0
      BY <2>2, <2>3 DEF Graded, Latecomer, Jobs
    <3>2. ASSUME NEW p \in Requests, req'[p].job = req[q].job PROVE req'[p].late
      BY <2>2, <3>1, <3>2 DEF Latecomer
    <3> QED BY <2>1, <3>1, <3>2 DEF Latecomer
  <2> QED BY <2>1, <2>3 DEF Graded
<1> QED BY <1>1, <1>2, <1>3, LateServe DEF Next

LEMMA GradedAlways == Spec => []Graded
<1>1. Init => Graded
  BY DEF Init, Graded, NoRow, Idle
<1> QED BY <1>1, GradedStep, TypedAlways, PTL DEF Spec

Stands == \A j \in Jobs : row[j].grade \in Verdicts /\ row'[j].grade # row[j].grade =>
            \E r \in Busy(j) : ~req[r].late /\ req'[r] # req[r]

LEMMA StandsStep == Typed /\ Graded /\ [Next]_vars => Stands
<1> SUFFICES ASSUME Typed, Graded, [Next]_vars, NEW j \in Jobs, row[j].grade \in Verdicts,
                    row'[j].grade # row[j].grade
             PROVE  \E r \in Busy(j) : ~req[r].late /\ req'[r] # req[r]
  BY DEF Stands
<1>1. ASSUME NEW r \in Requests, Serve(r)
      PROVE  r \in Busy(j) /\ ~req[r].late /\ req'[r] # req[r]
  <2>1. req[r].pc \in {"fail", "mark", "write"} /\ req[r].job = j
    BY <1>1, GradeKept, ServeRows
  <2>2. ~req[r].late
    BY <2>1 DEF Graded, Latecomer, Giving
  <2>3. req'[r].pc \in {"reply", "check"}
    <3>1. Fail(r) \/ Mark(r) \/ Write(r)
      BY <1>1, <2>1 DEF Serve, DropOld, Post, Stamp, Ask, Note, Delete, SettleKilled, Look, Check,
                        Reply, At
    <3>2. Goto(r, "reply") \/ Goto(r, "check")
      BY <3>1 DEF Fail, Mark, Write
    <3>3. {"reply", "check"} \subseteq Pcs
      BY DEF Pcs
    <3> QED BY <3>2, <3>3, GotoTurns DEF Turn
  <2> QED BY <2>1, <2>2, <2>3 DEF Busy
<1>2. ASSUME NEW r \in Requests, NEW m \in Modes, Start(r, m) PROVE FALSE
  <2>1. j \notin Inserted
    BY <1>2, StartTurns
  <2> QED BY <2>1 DEF Graded, Verdicts
<1>3. ASSUME NEW r \in Requests, NEW i \in Jobs, Poll(r, i) \/ Kill(r, i) PROVE FALSE
  BY <1>3, PageTurns
<1>4. ASSUME (\E i \in Jobs : Run(i) \/ Forget(i)) \/ Reload \/ Crash \/ UNCHANGED vars
      PROVE  FALSE
  BY <1>4, RestTurns
<1> QED BY <1>1, <1>2, <1>3, <1>4 DEF Next

\* A verdict that nobody works on stands, for any bounds.
THEOREM VerdictStandsHolds == Spec => VerdictStands
<1>1. Typed /\ Graded /\ [Next]_vars => [Stands]_vars
  BY StandsStep
<1>2. Spec => [][Stands]_vars
  BY <1>1, TypedAlways, GradedAlways, PTL DEF Spec
<1> QED BY <1>2 DEF VerdictStands, Stands
-----------------------------------------------------------------------------
(* Where output comes from. A job is posted once, and writes once, after   *)
(* that. Lost names what keeps a right output from its pass.               *)

Posting(r) == req[r].pc \in {"drop", "post"}
Lost(j) ==
  \/ j \in excused \/ j \notin code \/ app[j] = "failed" \/ row[j].mode \notin Expected
  \/ app[j] = "none" /\ \A r \in Requests : Posting(r) => req[r].job # j

Yields ==
  \A j \in Jobs : /\ app[j] \in Active \cup {"none", "failed"} => out[j] = "none"
                  /\ app[j] = "succeeded" => out[j] # "none"

Platform ==
  /\ Yields
  /\ \A r \in Requests : Posting(r) => app[req[r].job] = "none"
  /\ \A q, r \in Requests : Posting(q) /\ Posting(r) /\ req[q].job = req[r].job => q = r
  /\ \A j \in Jobs : out[j] = "right" => j \in output \/ j \notin code

\* What a step may not take back of a job in the table.
Stays ==
  \A j \in Inserted : /\ out[j] # "none" => out'[j] = out[j]
                      /\ Lost(j) => Lost(j)'

\* A job keeps its mode.
ModesStay == \A j \in Inserted : row'[j].mode = row[j].mode

LEMMA ModeKept == Typed /\ [Next]_vars => ModesStay
<1> SUFFICES ASSUME Typed, [Next]_vars, NEW i \in Inserted PROVE row'[i].mode = row[i].mode
  BY DEF ModesStay
<1>0. i \in Jobs
  BY DEF Inserted
<1>1. ASSUME NEW r \in Requests, Serve(r) PROVE row'[i].mode = row[i].mode
  BY <1>0, <1>1, ServeRows
<1>2. ASSUME NEW r \in Requests, NEW m \in Modes, Start(r, m) PROVE row'[i].mode = row[i].mode
  BY <1>0, <1>2, StartTurns
<1>3. ASSUME NEW r \in Requests, NEW j \in Jobs, Poll(r, j) \/ Kill(r, j)
      PROVE  row'[i].mode = row[i].mode
  BY <1>3, PageTurns
<1>4. CASE (\E j \in Jobs : Run(j) \/ Forget(j)) \/ Reload \/ Crash \/ UNCHANGED vars
  BY <1>4, RestTurns
<1> QED BY <1>1, <1>2, <1>3, <1>4 DEF Next

\* A step that posts nothing and leaves platform and output alone.
LEMMA PlatformSame ==
  ASSUME Typed, Platform, ModesStay, UNCHANGED <<app, out>>, excused \subseteq excused',
         \/ UNCHANGED <<code, output>>
         \/ \E X \in SUBSET Jobs : code' = code \ X /\ output' = output \ X,
         \A q \in Requests : Posting(q)' => Posting(q) /\ req'[q].job = req[q].job
  PROVE  Platform' /\ Stays
<1>1. \A j \in Jobs : out[j] = "right" => j \in output' \/ j \notin code'
  BY DEF Platform
<1>2. code' \subseteq code
  OBVIOUS
<1>3. Platform'
  BY <1>1 DEF Platform, Yields
<1>4. Stays
  BY <1>2 DEF Stays, Lost, ModesStay
<1> QED BY <1>3, <1>4

LEMMA PlatformServe ==
  ASSUME Typed, Platform, ModesStay, NEW r \in Requests, Serve(r)
  PROVE  Platform' /\ Stays
<1> DEFINE j == req[r].job
<1>0. j \in Jobs /\ j \in Inserted /\ app \in [Jobs -> Active \cup Settled \cup {"none", "gone"}]
  BY ServeRows DEF Inserted, Typed, Around
<1>1. \A q \in Requests : Posting(q)' => Posting(q) /\ req'[q].job = req[q].job
  <2>1. \A q \in Requests \ {r} : req'[q] = req[q]
    BY ServeTurns DEF Turn, Gone
  <2>2. Posting(r)' => Posting(r) /\ req'[r].job = req[r].job
    BY ServeTurns DEF Turn, Gone, Posting, DropOld, At
  <2> QED BY <2>1, <2>2 DEF Posting
<1>2. CASE Post(r)
  <2>1. Posting(r) /\ app[j] = "none" /\ \A q \in Requests : Posting(q) /\ req[q].job = j => q = r
    BY <1>2 DEF Post, At, Posting, Platform
  <2>2. ~Posting(r)'
    BY <1>2, <2>1, ServeTurns DEF Turn, Gone, Posting, Post, DropOld, At
  <2>3. /\ app' = app \/ app' = [app EXCEPT ![j] = "submitted"]
        /\ UNCHANGED <<out, code, output>> /\ excused \subseteq excused'
    BY <1>2 DEF Post, storeVars
  <2>4. \A i \in Jobs : app'[i] = app[i] \/ (i = j /\ app'[i] = "submitted")
    BY <1>0, <2>3
  <2>5. Platform'
    <3>1. Yields'
      BY <2>1, <2>3, <2>4 DEF Platform, Yields
    <3>2. ASSUME NEW q \in Requests, Posting(q)' PROVE app'[req'[q].job] = "none"
      <4>1. q # r /\ Posting(q) /\ req'[q].job = req[q].job /\ req[q].job # j
        BY <1>1, <2>1, <2>2, <3>2
      <4>2. req[q].job \in Jobs /\ app[req[q].job] = "none"
        BY <4>1, Working DEF Posting, Platform
      <4> QED BY <2>4, <4>1, <4>2
    <3>3. \A p, q \in Requests : Posting(p)' /\ Posting(q)' /\ req'[p].job = req'[q].job => p = q
      BY <1>1 DEF Platform
    <3> QED BY <2>3, <3>1, <3>2, <3>3 DEF Platform
  <2>6. Stays
    <3>1. ASSUME NEW i \in Inserted, Lost(i) PROVE Lost(i)'
      <4>1. i \in Jobs
        BY DEF Inserted
      <4>2. CASE i = j
        <5>1. i \in excused \/ i \notin code \/ row[i].mode \notin Expected
          BY <2>1, <3>1, <4>2 DEF Lost
        <5> QED BY <2>3, <5>1 DEF Lost, ModesStay
      <4>3. CASE i # j
        BY <1>1, <2>3, <2>4, <3>1, <4>1, <4>3 DEF Lost, ModesStay
      <4> QED BY <4>2, <4>3
    <3> QED BY <2>3, <3>1 DEF Stays
  <2> QED BY <2>5, <2>6
<1>3. CASE Delete(r)
  <2>1. /\ app' = app \/ app' = [app EXCEPT ![j] = IF @ = "none" THEN "none" ELSE "gone"]
        /\ UNCHANGED <<out, code, output>> /\ excused' = excused \cup {j}
    BY <1>3 DEF Delete, storeVars
  <2>2. \A i \in Jobs : app'[i] = app[i] \/ (i = j /\ app[i] # "none" /\ app'[i] = "gone")
    BY <1>0, <2>1
  <2>3. Platform'
    <3>1. Yields'
      BY <2>1, <2>2 DEF Platform, Yields, Active
    <3>2. ASSUME NEW q \in Requests, Posting(q)' PROVE app'[req'[q].job] = "none"
      <4>1. Posting(q) /\ req'[q].job = req[q].job
        BY <1>1, <3>2
      <4>2. req[q].job \in Jobs /\ app[req[q].job] = "none"
        BY <4>1, Working DEF Posting, Platform
      <4> QED BY <2>2, <4>1, <4>2
    <3>3. \A p, q \in Requests : Posting(p)' /\ Posting(q)' /\ req'[p].job = req'[q].job => p = q
      BY <1>1 DEF Platform
    <3> QED BY <2>1, <3>1, <3>2, <3>3 DEF Platform
  <2>4. Stays
    <3>1. ASSUME NEW i \in Inserted, Lost(i) PROVE Lost(i)'
      <4>1. i \in Jobs
        BY DEF Inserted
      <4>2. CASE i = j
        BY <2>1, <4>2 DEF Lost
      <4>3. CASE i # j
        BY <1>1, <2>1, <2>2, <3>1, <4>1, <4>3 DEF Lost, ModesStay
      <4> QED BY <4>2, <4>3
    <3> QED BY <2>1, <3>1 DEF Stays
  <2> QED BY <2>3, <2>4
<1>4. CASE DropOld(r)
  <2>1. UNCHANGED <<app, out, excused>> /\ code' = code \ req[r].extra /\ output' = output \ req[r].extra
    BY <1>4 DEF DropOld, platformVars
  <2>2. req[r].extra \in SUBSET Jobs
    BY DEF Typed, ReqType
  <2> QED BY <1>1, <2>1, <2>2, PlatformSame
<1>5. CASE ~Post(r) /\ ~Delete(r) /\ ~DropOld(r)
  <2>1. CASE Stamp(r) \/ Note(r) \/ SettleKilled(r) \/ Fail(r) \/ Mark(r) \/ Write(r)
    <3>1. UNCHANGED <<app, out, code, output, excused>>
      BY <2>1 DEF Stamp, Note, SettleKilled, Fail, Mark, Write, platformVars, storeVars
    <3> QED BY <1>1, <3>1, PlatformSame
  <2>2. CASE Look(r) \/ Reply(r)
    <3>1. UNCHANGED <<app, out, code, output, excused>>
      BY <2>2 DEF Look, Reply, platformVars, storeVars
    <3> QED BY <1>1, <3>1, PlatformSame
  <2>3. CASE Ask(r) \/ Check(r)
    <3>1. UNCHANGED <<app, out, code, output>> /\ excused \subseteq excused'
      BY <2>3 DEF Ask, Check, platformVars, storeVars
    <3> QED BY <1>1, <3>1, PlatformSame
  <2> QED BY <1>5, <2>1, <2>2, <2>3 DEF Serve
<1> QED BY <1>2, <1>3, <1>4, <1>5

LEMMA PlatformStep == Typed /\ Platform /\ [Next]_vars => Platform' /\ Stays
<1> SUFFICES ASSUME Typed, Platform, [Next]_vars PROVE Platform' /\ Stays
  OBVIOUS
<1> ModesStay
  BY ModeKept
<1> app \in [Jobs -> Active \cup Settled \cup {"none", "gone"}] /\ out \in [Jobs -> {"none", "right", "wrong"}]
  BY DEF Typed, Around
<1>1. ASSUME NEW r \in Requests, NEW j \in Jobs, Poll(r, j) \/ Kill(r, j) PROVE Platform' /\ Stays
  <2>1. UNCHANGED <<app, out, code, output, excused>>
    BY <1>1, PageTurns
  <2>2. \A q \in Requests : Posting(q)' => Posting(q) /\ req'[q].job = req[q].job
    BY <1>1, PageTurns DEF Asks, Posting
  <2> QED BY <2>1, <2>2, PlatformSame
<1>2. ASSUME NEW r \in Requests, NEW m \in Modes, Start(r, m) PROVE Platform' /\ Stays
  <2>1. PICK j \in Jobs \ Inserted :
           /\ Asks(r, "start", j, "drop", "none", Prunable')
           /\ Inserted' = Inserted \cup {j}
           /\ code' = code \cup {j}
           /\ UNCHANGED <<app, out, output, excused>>
    BY <1>2, StartTurns
  <2>2. app[j] = "none" /\ out[j] = "none"
    BY <2>1 DEF Typed, Around, Platform, Yields
  <2>3. /\ req'[r].job = j
        /\ \A q \in Requests \ {r} : req'[q] = req[q]
    BY <2>1 DEF Asks
  <2>4. ASSUME NEW q \in Requests, q # r, Posting(q)'
        PROVE  Posting(q) /\ req'[q].job = req[q].job /\ req[q].job \in Inserted
    BY <2>3, <2>4, Working DEF Posting
  <2>5. Platform'
    <3>1. \A q \in Requests : Posting(q)' => app'[req'[q].job] = "none"
      BY <2>1, <2>2, <2>3, <2>4 DEF Platform
    <3>2. \A p, q \in Requests : Posting(p)' /\ Posting(q)' /\ req'[p].job = req'[q].job => p = q
      BY <2>1, <2>3, <2>4 DEF Platform
    <3>3. \A i \in Jobs : out[i] = "right" => i \in output \/ i \notin code'
      BY <2>1, <2>2 DEF Platform
    <3>4. Yields'
      BY <2>1 DEF Platform, Yields
    <3> QED BY <2>1, <3>1, <3>2, <3>3, <3>4 DEF Platform
  <2>6. Stays
    <3>1. ASSUME NEW i \in Inserted, Lost(i) PROVE Lost(i)'
      <4>1. i # j
        BY <2>1
      <4>2. (\A q \in Requests : Posting(q) => req[q].job # i) =>
              \A q \in Requests : Posting(q)' => req'[q].job # i
        BY <2>3, <2>4, <4>1
      <4> QED BY <2>1, <3>1, <4>1, <4>2 DEF Lost, ModesStay
    <3> QED BY <2>1, <3>1 DEF Stays
  <2> QED BY <2>5, <2>6
<1>3. ASSUME Reload \/ Crash \/ UNCHANGED vars PROVE Platform' /\ Stays
  <2>1. UNCHANGED <<app, out, code, output, excused>>
    BY <1>3 DEF Reload, Crash, vars, platformVars, storeVars
  <2>2. \A q \in Requests : Posting(q)' => Posting(q) /\ req'[q].job = req[q].job
    BY <1>3, RestTurns DEF Posting
  <2> QED BY <2>1, <2>2, PlatformSame
<1>4. ASSUME NEW j \in Jobs, Run(j) \/ Forget(j) PROVE Platform' /\ Stays
  <2>1. req' = req /\ code' = code /\ excused' = excused /\ output \subseteq output'
    BY <1>4 DEF Run, Forget, storeVars
  <2>2. /\ app[j] # "none" /\ app[j] # "failed" /\ app'[j] # "none"
        /\ \A i \in Jobs \ {j} : app'[i] = app[i] /\ out'[i] = out[i]
    BY <1>4 DEF Run, Forget, Active
  <2>3. /\ out[j] # "none" => out'[j] = out[j]
        /\ app'[j] \in Active \cup {"failed"} => out'[j] = "none"
        /\ app'[j] = "succeeded" => out'[j] # "none"
        /\ out'[j] = "right" => j \in output' \/ j \notin code
    <3>1. (app[j] \in Active => out[j] = "none") /\ (out[j] = "right" => j \in output \/ j \notin code)
      BY DEF Platform, Yields
    <3>2. CASE Forget(j)
      <4>1. app'[j] = "gone" /\ out' = out /\ output' = output
        BY <3>2 DEF Forget, storeVars
      <4> QED BY <3>1, <4>1 DEF Active
    <3>3. CASE Run(j)
      <4>1. out[j] = "none"
        BY <3>1, <3>3 DEF Run, Active
      <4>2. \/ out' = out /\ app'[j] # "succeeded"
            \/ app'[j] = "succeeded" /\ out'[j] # "none" /\ j \in output'
        BY <3>3 DEF Run
      <4> QED BY <4>1, <4>2 DEF Active
    <3> QED BY <1>4, <3>2, <3>3
  <2>4. Platform'
    <3>1. Yields'
      BY <2>2, <2>3 DEF Platform, Yields
    <3>2. ASSUME NEW q \in Requests, Posting(q)' PROVE app'[req'[q].job] = "none"
      <4>1. req[q].job \in Jobs /\ app[req[q].job] = "none"
        BY <2>1, <3>2, Working DEF Posting, Platform
      <4> QED BY <2>1, <2>2, <4>1
    <3>3. \A p, q \in Requests : Posting(p)' /\ Posting(q)' /\ req'[p].job = req'[q].job => p = q
      BY <2>1 DEF Platform, Posting
    <3>4. \A i \in Jobs : out'[i] = "right" => i \in output' \/ i \notin code'
      BY <2>1, <2>2, <2>3 DEF Platform
    <3> QED BY <3>1, <3>2, <3>3, <3>4 DEF Platform
  <2>5. ASSUME NEW i \in Inserted
        PROVE  (out[i] # "none" => out'[i] = out[i]) /\ (Lost(i) => Lost(i)')
    <3>1. i \in Jobs
      BY DEF Inserted
    <3>2. CASE i = j
      BY <2>1, <2>2, <2>3, <3>2 DEF Lost, ModesStay
    <3>3. CASE i # j
      BY <2>1, <2>2, <3>1, <3>3 DEF Lost, Posting, ModesStay
    <3> QED BY <3>2, <3>3
  <2> QED BY <2>4, <2>5 DEF Stays
<1> QED BY <1>1, <1>2, <1>3, <1>4, PlatformServe DEF Next
-----------------------------------------------------------------------------
(* What rows and requests say of a job is so: of its end, and of its       *)
(* verdict.                                                                *)

RowTold(j) ==
  /\ row[j].status = "failed" => Lost(j)
  /\ row[j].status = "succeeded" => out[j] # "none"
  /\ row[j].grade = "passed" => out[j] = "right"
  /\ row[j].grade = "failed" => Lost(j) \/ out[j] = "wrong"

ReqTold(q) ==
  LET j == req[q].job IN
  /\ req[q].pc \in {"stamp", "note"} /\ req[q].got = "failed" => Lost(j)
  /\ req[q].pc = "note" /\ req[q].got = "succeeded" => out[j] # "none"
  /\ req[q].pc \in {"settle", "fail"} => Lost(j)
  /\ req[q].pc \in {"mark", "check"} => out[j] # "none"
  /\ req[q].pc = "write" /\ req[q].got = "passed" => out[j] = "right"
  /\ req[q].pc = "write" /\ req[q].got = "failed" => Lost(j) \/ out[j] = "wrong"

Told == (\A j \in Inserted : RowTold(j)) /\ \A q \in Requests : ReqTold(q)

LEMMA RowStays ==
  ASSUME Stays, NEW i \in Inserted, RowTold(i),
         row'[i].status = row[i].status, row'[i].grade = row[i].grade
  PROVE  RowTold(i)'
<1>1. (out[i] # "none" => out'[i] = out[i]) /\ (Lost(i) => Lost(i)')
  BY DEF Stays
<1> QED BY <1>1 DEF RowTold

LEMMA ReqStays ==
  ASSUME Typed, Stays, NEW q \in Requests, ReqTold(q),
         \/ /\ req'[q].pc = req[q].pc /\ req'[q].got = req[q].got /\ req'[q].job = req[q].job
         \/ req'[q].pc = "idle"
  PROVE  ReqTold(q)'
<1> DEFINE j == req[q].job
<1>1. CASE req'[q].pc = "idle"
  BY <1>1 DEF ReqTold
<1>2. CASE req'[q].pc # "idle"
  <2>1. /\ req'[q].pc = req[q].pc /\ req'[q].got = req[q].got /\ req'[q].job = j
        /\ j \in Inserted
    BY <1>2, Working
  <2>2. (out[j] # "none" => out'[j] = out[j]) /\ (Lost(j) => Lost(j)')
    BY <2>1 DEF Stays
  <2>3. Lost(req[q].job)' <=> Lost(j)'
    OBVIOUS
  <2> QED BY <2>1, <2>2 DEF ReqTold, Lost
<1> QED BY <1>1, <1>2

\* The server's step on its own job's row and request is what matters.
LEMMA ToldServed ==
  ASSUME Typed, Told, Stays, NEW r \in Requests, Serve(r), NEW j \in Jobs, req[r].job = j,
         RowTold(j)', ReqTold(r)'
  PROVE  Told'
<1>1. ASSUME NEW i \in Inserted, i # j PROVE RowTold(i)'
  <2>1. i \in Jobs /\ row'[i] = row[i] /\ RowTold(i)
    BY <1>1, ServeRows DEF Inserted, Told
  <2> QED BY <2>1, RowStays
<1>2. ASSUME NEW q \in Requests, q # r PROVE ReqTold(q)'
  <2>1. req'[q] = req[q] /\ ReqTold(q)
    BY <1>2, ServeTurns DEF Turn, Gone, Told
  <2> QED BY <2>1, ReqStays
<1>3. Inserted' = Inserted
  BY ServeRows
<1> QED BY <1>1, <1>2, <1>3 DEF Told

LEMMA ToldServe ==
  ASSUME Typed, Platform, Platform', Told, Stays, NEW r \in Requests, Serve(r)
  PROVE  Told'
<1>0. PICK j \in Jobs : req[r].job = j /\ j \in Inserted
  BY ServeRows DEF Inserted
<1>1. /\ RowTold(j) /\ ReqTold(r)
      /\ (out[j] # "none" => out'[j] = out[j]) /\ (Lost(j) => Lost(j)')
  BY <1>0 DEF Told, Stays
<1>2. out[j] \in {"none", "right", "wrong"} /\ app[j] \in Active \cup Settled \cup {"none", "gone"}
  BY DEF Typed, Around
<1>3. CASE DropOld(r)
  <2>1. row' = row /\ Turn(r, "post", req[r].got)
    BY <1>3, DropTurns DEF DropOld
  <2>2. ReqTold(r)'
    BY <2>1 DEF Turn, ReqTold
  <2> QED BY <1>0, <1>1, <2>1, <2>2, RowStays, ToldServed
<1>4. CASE Post(r)
  <2>1. row' = row /\ req[r].pc = "post"
    BY <1>4 DEF Post, At
  <2>2. ReqTold(r)'
    <3>1. {"submitted", "failed"} \subseteq Answers /\ "stamp" \in Pcs
      BY DEF Answers, Active, Settled, Pcs
    <3>2. CASE Carry(r, "stamp", "submitted")
      <4>1. Turn(r, "stamp", "submitted")
        BY <3>1, <3>2, CarryTurns
      <4> QED BY <4>1 DEF Turn, ReqTold
    <3>3. CASE Carry(r, "stamp", "failed") /\ (app' = app \/ excused' = excused \cup {j})
      <4>1. Turn(r, "stamp", "failed")
        BY <3>1, <3>3, CarryTurns
      <4>2. Lost(j)'
        <5>1. CASE app' = app
          <6>1. app'[j] = "none"
            BY <1>0, <2>1, <5>1 DEF Platform, Posting
          <6>2. ASSUME NEW q \in Requests, Posting(q)', req'[q].job = j PROVE FALSE
            <7>1. q # r
              BY <4>1, <6>2 DEF Turn, Posting
            <7>2. Posting(q) /\ req[q].job = j /\ Posting(r)
              BY <2>1, <4>1, <6>2, <7>1 DEF Turn, Posting
            <7> QED BY <1>0, <7>1, <7>2 DEF Platform
          <6> QED BY <6>1, <6>2 DEF Lost
        <5>2. CASE excused' = excused \cup {j}
          BY <5>2 DEF Lost
        <5> QED BY <3>3, <5>1, <5>2
      <4> QED BY <1>0, <4>1, <4>2 DEF Turn, ReqTold
    <3> QED BY <1>0, <1>4, <3>2, <3>3 DEF Post
  <2> QED BY <1>0, <1>1, <2>1, <2>2, RowStays, ToldServed
<1>5. CASE Stamp(r) \/ Note(r) \/ SettleKilled(r)
  <2>1. PICK v \in Active \cup Settled : row' = [row EXCEPT ![j].status = v] /\
          \/ req[r].pc = "stamp" /\ v = req[r].got /\ v \in {"submitted", "failed"}
          \/ req[r].pc = "note" /\ v = req[r].got
          \/ req[r].pc = "settle" /\ v = "failed"
    BY <1>0, <1>5 DEF Stamp, Note, SettleKilled, At, Typed, Carries, Active, Settled
  <2>2. row'[j].status = v /\ row'[j].grade = row[j].grade
    BY <1>0, <2>1, StatusSet
  <2>3. (v = "failed" => Lost(j)) /\ (v = "succeeded" => out[j] # "none")
    BY <1>0, <1>1, <2>1 DEF ReqTold
  <2>4. RowTold(j)'
    BY <1>1, <2>2, <2>3 DEF RowTold
  <2>5. Gone(r) \/ \E pc \in {"reply", "look"} : Turn(r, pc, "none")
    BY <1>5, <2>1, ServeTurns DEF DropOld, Post, Ask, Delete, Look, Fail, Mark, Check, Write, Reply, At
  <2>6. ReqTold(r)'
    BY <2>5 DEF Gone, Turn, ReqTold
  <2> QED BY <1>0, <2>4, <2>6, ToldServed
<1>6. CASE Ask(r)
  <2>1. row' = row /\ {"note", "look"} \subseteq Pcs /\ {"failed", "none"} \subseteq Answers
    BY <1>6 DEF Ask, Pcs, Answers, Settled
  <2>2. ReqTold(r)'
    <3>1. CASE app[j] \notin {"none", "gone"} /\ Carry(r, "note", app[j])
      <4>1. app[j] \in Answers
        BY <1>2, <3>1 DEF Answers
      <4>2. Turn(r, "note", app[j])
        BY <2>1, <3>1, <4>1, CarryTurns
      <4>3. (app[j] = "failed" => Lost(j)) /\ (app[j] = "succeeded" => out[j] # "none")
        BY DEF Platform, Yields, Lost
      <4> QED BY <1>0, <1>1, <4>2, <4>3 DEF Turn, ReqTold
    <3>2. CASE /\ Carry(r, IF req[r].got = "open" THEN "note" ELSE "look", "failed")
               /\ excused' = IF req[r].got = "open" THEN excused \cup {j} ELSE excused
      <4>1. CASE req[r].got = "open"
        <5>1. Turn(r, "note", "failed") /\ Lost(j)'
          BY <2>1, <3>2, <4>1, CarryTurns DEF Lost
        <5> QED BY <1>0, <5>1 DEF Turn, ReqTold
      <4>2. CASE req[r].got # "open"
        <5>1. Turn(r, "look", "failed")
          BY <2>1, <3>2, <4>2, CarryTurns
        <5> QED BY <5>1 DEF Turn, ReqTold
      <4> QED BY <4>1, <4>2
    <3>3. CASE Goto(r, "look")
      <4>1. Turn(r, "look", "none")
        BY <2>1, <3>3, GotoTurns
      <4> QED BY <4>1 DEF Turn, ReqTold
    <3> QED BY <1>0, <1>6, <3>1, <3>2, <3>3 DEF Ask
  <2> QED BY <1>0, <1>1, <2>1, <2>2, RowStays, ToldServed
<1>7. CASE Delete(r)
  <2>1. row' = row /\ Lost(j)' /\ "settle" \in Pcs /\ Goto(r, "settle")
    BY <1>0, <1>7 DEF Delete, Lost, Pcs
  <2>2. Turn(r, "settle", "none")
    BY <2>1, GotoTurns
  <2>3. ReqTold(r)'
    BY <1>0, <2>1, <2>2 DEF Turn, ReqTold
  <2> QED BY <1>0, <1>1, <2>1, <2>3, RowStays, ToldServed
<1>8. CASE Look(r)
  <2>1. row' = row /\ {"mark", "fail", "reply"} \subseteq Pcs
    BY <1>8 DEF Look, Pcs
  <2>2. \/ Goto(r, "mark") /\ row[j].status = "succeeded"
        \/ Goto(r, "fail") /\ (row[j].status = "failed" \/ row[j].mode \notin Expected)
        \/ Goto(r, "reply")
    BY <1>0, <1>8 DEF Look
  <2>3. \/ Turn(r, "mark", "none") /\ row[j].status = "succeeded"
        \/ Turn(r, "fail", "none") /\ (row[j].status = "failed" \/ row[j].mode \notin Expected)
        \/ Turn(r, "reply", "none")
    BY <2>1, <2>2, GotoTurns
  <2>4. ReqTold(r)'
    BY <1>0, <1>1, <2>1, <2>3 DEF Turn, ReqTold, RowTold, Lost
  <2> QED BY <1>0, <1>1, <2>1, <2>4, RowStays, ToldServed
<1>9. CASE Fail(r) \/ Mark(r) \/ Write(r)
  <2>1. PICK v \in Verdicts \cup {"grading"} : row' = [row EXCEPT ![j].grade = v] /\
          \/ req[r].pc = "fail" /\ v = "failed" /\ Goto(r, "reply")
          \/ req[r].pc = "mark" /\ v = "grading" /\ Goto(r, "check")
          \/ req[r].pc = "write" /\ v = req[r].got /\ Goto(r, "reply")
    BY <1>0, <1>9 DEF Fail, Mark, Write, At, Typed, Carries, Verdicts
  <2>2. row'[j].grade = v /\ row'[j].status = row[j].status
    BY <1>0, <2>1, GradeSet
  <2>3. (v = "passed" => out[j] = "right") /\ (v = "failed" => Lost(j) \/ out[j] = "wrong")
    BY <1>0, <1>1, <2>1 DEF ReqTold
  <2>4. RowTold(j)'
    BY <1>1, <2>2, <2>3 DEF RowTold
  <2>5. {"reply", "check"} \subseteq Pcs
    BY DEF Pcs
  <2>6. Turn(r, "reply", "none") \/ (Turn(r, "check", "none") /\ req[r].pc = "mark")
    BY <2>1, <2>5, GotoTurns
  <2>7. ReqTold(r)'
    BY <1>0, <1>1, <2>6 DEF Turn, ReqTold
  <2> QED BY <1>0, <2>4, <2>7, ToldServed
<1>10. CASE Check(r)
  <2>1. row' = row /\ req[r].pc = "check" /\ "write" \in Pcs
    BY <1>10 DEF Check, At, Pcs
  <2>2. PICK g \in GradesOf(j) \cup {"failed"} : /\ Carry(r, "write", g)
                                                 /\ g \in GradesOf(j) \/ excused' = excused \cup {j}
    BY <1>0, <1>10 DEF Check
  <2>3. out[j] # "none"
    BY <1>0, <1>1, <2>1 DEF ReqTold
  <2>4. g \in Verdicts /\ (g = "passed" => out'[j] = "right")
        /\ (g = "failed" => Lost(j)' \/ out'[j] = "wrong")
    <3>1. /\ g \in Verdicts /\ (g = "passed" => out[j] = "right")
          /\ g = "failed" => Lost(j) \/ out[j] = "wrong" \/ excused' = excused \cup {j}
      BY <1>2, <2>2, <2>3 DEF GradesOf, Verdicts, Lost, Platform
    <3>2. out'[j] = out[j] /\ (Lost(j) => Lost(j)')
      BY <1>0, <2>3 DEF Stays
    <3>3. excused' = excused \cup {j} => Lost(j)'
      BY DEF Lost
    <3> QED BY <3>1, <3>2, <3>3
  <2>5. Turn(r, "write", g)
    <3>1. g \in Answers
      BY <2>4 DEF Answers
    <3> QED BY <2>1, <2>2, <3>1, CarryTurns
  <2>6. ReqTold(r)'
    BY <1>0, <1>1, <2>4, <2>5 DEF Turn, ReqTold
  <2> QED BY <1>0, <1>1, <2>1, <2>6, RowStays, ToldServed
<1>11. CASE Reply(r)
  <2>1. row' = row /\ Gone(r)
    BY <1>11, LeavesGone DEF Reply, Leaves
  <2>2. ReqTold(r)'
    BY <2>1 DEF Gone, ReqTold
  <2> QED BY <1>0, <1>1, <2>1, <2>2, RowStays, ToldServed
<1> QED BY <1>3, <1>4, <1>5, <1>6, <1>7, <1>8, <1>9, <1>10, <1>11 DEF Serve

LEMMA ToldStep == Typed /\ Platform /\ Platform' /\ Stays /\ Told /\ [Next]_vars => Told'
<1> SUFFICES ASSUME Typed, Platform, Platform', Stays, Told, [Next]_vars PROVE Told'
  OBVIOUS
<1>1. ASSUME NEW r \in Requests, NEW j \in Jobs, Poll(r, j) \/ Kill(r, j) PROVE Told'
  <2>1. row' = row /\ Inserted' = Inserted
    BY <1>1, PageTurns
  <2>2. /\ req'[r].pc \in {"ask", "reply", "delete"}
        /\ \A q \in Requests \ {r} : req'[q] = req[q]
    BY <1>1, PageTurns DEF Asks
  <2>3. ReqTold(r)'
    BY <2>2 DEF ReqTold
  <2>4. \A q \in Requests \ {r} : ReqTold(q)'
    BY <2>2, ReqStays DEF Told
  <2>5. \A i \in Inserted : RowTold(i)'
    BY <2>1, RowStays DEF Told
  <2> QED BY <2>1, <2>3, <2>4, <2>5 DEF Told
<1>2. ASSUME NEW r \in Requests, NEW m \in Modes, Start(r, m) PROVE Told'
  <2>1. PICK j \in Jobs \ Inserted :
           /\ Asks(r, "start", j, "drop", "none", Prunable')
           /\ Inserted' = Inserted \cup {j}
           /\ row'[j].status = "submitted" /\ row'[j].grade = "pending"
           /\ \A i \in Jobs \ {j} : row'[i] = row[i]
    BY <1>2, StartTurns
  <2>2. req'[r].pc = "drop" /\ \A q \in Requests \ {r} : req'[q] = req[q]
    BY <2>1 DEF Asks
  <2>3. ReqTold(r)'
    BY <2>2 DEF ReqTold
  <2>4. \A q \in Requests \ {r} : ReqTold(q)'
    BY <2>2, ReqStays DEF Told
  <2>5. RowTold(j)'
    BY <2>1 DEF RowTold
  <2>6. ASSUME NEW i \in Inserted PROVE RowTold(i)'
    <3>1. row'[i] = row[i] /\ RowTold(i)
      BY <2>1 DEF Inserted, Told
    <3> QED BY <3>1, RowStays
  <2> QED BY <2>1, <2>3, <2>4, <2>5, <2>6 DEF Told
<1>3. ASSUME (\E j \in Jobs : Run(j) \/ Forget(j)) \/ Reload \/ Crash \/ UNCHANGED vars
      PROVE  Told'
  <2>1. row' = row /\ Inserted' = Inserted
    BY <1>3, RestTurns
  <2>2. \A q \in Requests :
          \/ /\ req'[q].pc = req[q].pc /\ req'[q].got = req[q].got /\ req'[q].job = req[q].job
          \/ req'[q].pc = "idle"
    BY <1>3, RestTurns
  <2>3. \A q \in Requests : ReqTold(q)'
    BY <2>2, ReqStays DEF Told
  <2>4. \A i \in Inserted : RowTold(i)'
    BY <2>1, RowStays DEF Told
  <2> QED BY <2>1, <2>3, <2>4 DEF Told
<1> QED BY <1>1, <1>2, <1>3, ToldServe DEF Next

LEMMA ToldAlways == Spec => [](Typed /\ Platform /\ Told)
<1>1. Init => Platform /\ Told
  <2> SUFFICES ASSUME Init PROVE Platform /\ Told
    OBVIOUS
  <2>1. Inserted = {} /\ \A r \in Requests : req[r].pc = "idle"
    BY DEF Init, Inserted, NoRow, Idle
  <2>2. Told
    BY <2>1 DEF Told, ReqTold
  <2>3. Platform
    BY <2>1 DEF Init, Platform, Yields, Posting
  <2> QED BY <2>2, <2>3
<1> QED BY <1>1, TypedAlways, PlatformStep, ToldStep, PTL DEF Spec

\* A verdict is one of a job in the table.
LEMMA VerdictTold ==
  ASSUME Graded, Told, NEW j \in Jobs, row[j].grade \in Verdicts
  PROVE  RowTold(j)
<1>1. j \in Inserted
  BY DEF Graded, Verdicts
<1> QED BY <1>1 DEF Told

\* A job with the verdict passed ran to its end and its output was right, for
\* any bounds.
THEOREM PassIsEarnedHolds == Spec => []PassIsEarned
<1>1. Graded /\ Told => PassIsEarned
  <2> SUFFICES ASSUME Graded, Told, NEW j \in Jobs, row[j].grade = "passed"
               PROVE  out[j] = "right"
    BY DEF PassIsEarned
  <2> QED BY VerdictTold DEF RowTold, Verdicts
<1> QED BY <1>1, GradedAlways, ToldAlways, PTL

\* A right output fails only where the job was killed, pruned, not known to the
\* platform, its grading threw or nothing is expected of its mode, for any bounds.
THEOREM RightFailedExplainedHolds == Spec => []RightFailedExplained
<1>1. Graded /\ Platform /\ Told => RightFailedExplained
  <2> SUFFICES ASSUME Graded, Platform, Told, NEW j \in Jobs, row[j].grade = "failed",
                      out[j] = "right"
               PROVE  j \in excused \/ j \notin code \/ row[j].mode \notin Expected
    BY DEF RightFailedExplained
  <2>1. Lost(j)
    BY VerdictTold DEF RowTold, Verdicts
  <2> QED BY <2>1 DEF Lost, Platform, Yields
<1> QED BY <1>1, GradedAlways, ToldAlways, PTL
=============================================================================
