------------------------------ MODULE SparkGrade ------------------------------
(***************************************************************************)
(* How the output of a Spark job is graded: backend/workspace/sparkGrade.ts. *)
(* One state is a job with its output and its reference, the next one has  *)
(* the verdict.                                                            *)
(*                                                                         *)
(* A table is a sequence of rows in the order in which they are read, which *)
(* for Parquet is that of the part files.  The key columns of a row are one *)
(* atom, its other columns one number, in a unit fine enough that Grid, the *)
(* 1e-6 that numbers are rounded to, and Whole, the number 1, are multiples *)
(* of it; Null is a column without a value.                                *)
(***************************************************************************)
EXTENDS Integers, Sequences, FiniteSets, Functions

CONSTANTS Keys,          \* values of the key columns
          JsonTables,    \* tables a solution.json may hold
          ParquetTables, \* tables a Parquet directory may hold
          Cases,         \* test cases of a Parquet reference
          Null,          \* no value
          Missing,       \* no file
          Unreadable,    \* a file that is not Parquet
          Grid, Whole,   \* 1e-6, and 1
          Steps          \* tolerance of a float column, in steps of Grid

Rows == [key: Keys \cup {Null}, val: Int \cup {Null}]

ASSUME SparkGradeAssumption ==
  /\ Null \notin Int \cup Keys
  /\ \A t \in JsonTables \cup ParquetTables : t \in Seq(Rows)
  /\ {Missing, Unreadable} \cap (JsonTables \cup ParquetTables) = {}
  /\ Missing # Unreadable
  /\ Grid \in Nat \ {0} /\ Whole \in Nat \ {0} /\ Steps \in Nat

VARIABLES job, verdict

vars == <<job, verdict>>

\* What a grade script leaves: how it ended, and what its stdout holds.
Scripts ==
  [end: {"error", "usage", "exit"}, said: {"garbage", "nothing", "checks", "sections"},
   passed: BOOLEAN, checks: SUBSET {"passed", "failed", "skipped"}]

Jobs ==
  [by: {"json"}, type: {"float", "int"}, expected: JsonTables,
   output: JsonTables \cup {Missing}]
  \cup
  [by: {"parquet"}, expected: [Cases -> ParquetTables \cup {Missing, Unreadable}],
   output: ParquetTables \cup {Missing, Unreadable}]
  \cup
  [by: {"script"}, script: Scripts, written: BOOLEAN]

TypeOK == job \in Jobs /\ verdict \in {"none", "passed", "failed"}

Init == job \in Jobs /\ verdict = "none"
-----------------------------------------------------------------------------
(* Numbers.                                                                *)

\* Math.round(n * 1e6) / 1e6.
Rounded(n) == ((2 * n + Grid) \div (2 * Grid)) * Grid

\* Number.parseInt.
Truncated(n) == IF n >= 0 THEN (n \div Whole) * Whole ELSE -(((-n) \div Whole) * Whole)

\* coerce.
Coerced(n, type) == IF type = "float" THEN Rounded(n) ELSE Truncated(n)

\* normalizeGradeValue: whole numbers as they are, others by toFixed(6), which
\* keeps the sign: a small negative number is "-0".
Text(v) ==
  IF v = Null THEN <<FALSE, Null>>
  ELSE IF v >= 0 THEN <<FALSE, Rounded(v)>> ELSE <<TRUE, Rounded(-v)>>

\* 1e-4 unless the author says otherwise; taken to be a multiple of Grid.
Atol == Steps * Grid

Distance(a, b) == IF a > b THEN a - b ELSE b - a
-----------------------------------------------------------------------------
(* solution.json: gradeOutputAgainstSolution.                              *)

KeysOf(t) == {t[i].key : i \in DOMAIN t}

\* normalizeRows: "null not allowed".
Readable(t) == \A i \in DOMAIN t : t[i].key # Null /\ t[i].val # Null

\* new Map(rows...): of the rows of a key, the last one; sorting keeps their order.
Kept(t, k) ==
  t[CHOOSE i \in DOMAIN t : t[i].key = k /\ \A j \in DOMAIN t : t[j].key = k => j <= i].val

\* valuesEqual.
ValuesEqual(s, c, type) ==
  Distance(Coerced(s, type), Coerced(c, type)) <= (IF type = "float" THEN Atol ELSE 0)

\* Mutant of JsonPasses: rows are not counted.
JsonPassesByKey(g) ==
  /\ g.output # Missing
  /\ Readable(g.expected) /\ Readable(g.output)
  /\ KeysOf(g.output) = KeysOf(g.expected)
  /\ \A k \in KeysOf(g.expected) :
       ValuesEqual(Kept(g.expected, k), Kept(g.output, k), g.type)

JsonPasses(g) ==
  /\ g.output # Missing
  /\ Readable(g.expected) /\ Readable(g.output)
  /\ Len(g.output) = Len(g.expected)
  /\ KeysOf(g.output) = KeysOf(g.expected)
  /\ \A k \in KeysOf(g.expected) :
       ValuesEqual(Kept(g.expected, k), Kept(g.output, k), g.type)
-----------------------------------------------------------------------------
(* Test cases of Parquet files: gradeParquetAgainstExpected.               *)

IsOnce(t) == \A i, j \in DOMAIN t : t[i].key = t[j].key => i = j

\* rowsByKeyFromFiles: every row has a key, and no two the same.
Loads(t) == t # Unreadable /\ (\A i \in DOMAIN t : t[i].key # Null) /\ IsOnce(t)

\* A configured case without files is not among expectedByCase.
Found(g) == {c \in Cases : g.expected[c] # Missing}

\* A case: no row of it is missing or differs (rowsEqual).
CasePasses(t, out) ==
  /\ Loads(t)
  /\ \A i \in DOMAIN t : \E j \in DOMAIN out :
       out[j].key = t[i].key /\ Text(out[j].val) = Text(t[i].val)

\* Mutant of ParquetPasses: rows of no case are let through.
ParquetPassesExtra(g) ==
  /\ Found(g) # {} /\ g.output # Missing
  /\ Loads(g.output)
  /\ \A c \in Found(g) : CasePasses(g.expected[c], g.output)

\* All cases pass, and no row of the output is of none of them.
ParquetPasses(g) ==
  /\ Found(g) # {} /\ g.output # Missing
  /\ Loads(g.output)
  /\ \A c \in Found(g) : CasePasses(g.expected[c], g.output)
  /\ KeysOf(g.output) \subseteq UNION {KeysOf(g.expected[c]) : c \in Found(g)}
-----------------------------------------------------------------------------
(* A script of the challenge: gradeWithScript, pushScriptChecks.           *)

\* An empty stdout is read as {}: no checks, and nothing passed.
Said(s) == IF s.said = "nothing" THEN {} ELSE s.checks

\* With sections only functional.passed counts, otherwise only the checks do.
ScriptPasses(g) ==
  /\ g.written
  /\ g.script.end = "exit" /\ g.script.said # "garbage"
  /\ IF g.script.said = "sections" THEN g.script.passed
     ELSE "failed" \notin Said(g.script)
-----------------------------------------------------------------------------
Verdict(passes) == verdict' = IF passes THEN "passed" ELSE "failed"

GradeJson == job.by = "json" /\ Verdict(JsonPasses(job))
GradeParquet == job.by = "parquet" /\ Verdict(ParquetPasses(job))
GradeScript == job.by = "script" /\ Verdict(ScriptPasses(job))

Next ==
  /\ verdict = "none"
  /\ GradeJson \/ GradeParquet \/ GradeScript
  /\ UNCHANGED job

Spec == Init /\ [][Next]_vars
-----------------------------------------------------------------------------
(* Properties.                                                             *)

\* What a float or int column lets pass at most, and what it lets pass at least.
Near(type, a, b) ==
  Distance(a, b) < (IF type = "float" THEN Atol + Grid ELSE 2 * Whole)
Close(type, a, b) == Distance(a, b) <= (IF type = "float" THEN Atol ELSE 0)

\* The rows of reference and output can be paired off: same key, related values.
PairedOff(g, R(_, _, _)) ==
  \E f \in Bijection(DOMAIN g.expected, DOMAIN g.output) :
    \A i \in DOMAIN g.expected :
      /\ g.expected[i].key = g.output[f[i]].key
      /\ R(g.type, g.expected[i].val, g.output[f[i]].val)

Graded == verdict # "none"

\* If the reference has each key once, an output passes when its rows and those
\* of the reference can be paired off with values no further apart than the
\* tolerance (equal ones in an int column), in whatever order Spark wrote them;
\* and when it passes they can be, with values nearer than the tolerance and one
\* rounding step (in an int column, two whole ones).
JsonGradeExact ==
  Graded /\ job.by = "json" /\ IsOnce(job.expected) /\ Readable(job.expected) =>
    /\ job.output # Missing /\ Readable(job.output) /\ PairedOff(job, Close)
         => verdict = "passed"
    /\ verdict = "passed" => job.output # Missing /\ PairedOff(job, Near)

\* Parquet files have no tolerance, only the rounding of toFixed.
SameValue(a, b) == a = b
NearValue(a, b) == a = b \/ (a # Null /\ b # Null /\ Distance(a, b) < Grid)

\* Every row of a case is in the output, with a related value, and every row of
\* the output in a case.
Covers(g, R(_, _)) ==
  /\ \A c \in Found(g) : \A i \in DOMAIN g.expected[c] : \E j \in DOMAIN g.output :
       g.output[j].key = g.expected[c][i].key /\ R(g.expected[c][i].val, g.output[j].val)
  /\ \A j \in DOMAIN g.output : \E c \in Found(g) : \E i \in DOMAIN g.expected[c] :
       g.output[j].key = g.expected[c][i].key /\ R(g.expected[c][i].val, g.output[j].val)

\* Files are there, can be read, and have each key once.
Sound(g) ==
  /\ Found(g) # {} /\ \A c \in Found(g) : Loads(g.expected[c])
  /\ g.output # Missing /\ Loads(g.output)

\* An output passes when its rows are those of the cases together, and when it
\* passes they are, up to values nearer than one rounding step: a row that is
\* written twice, is of no case, or is missing in one of two cases does not pass.
ParquetGradeExact ==
  Graded /\ job.by = "parquet" =>
    /\ Sound(job) /\ Covers(job, SameValue) => verdict = "passed"
    /\ verdict = "passed" => Sound(job) /\ Covers(job, NearValue)

\* "Passed -- grade script accepted the output": the script said something.
PassIsAccepted ==
  Graded /\ job.by = "script" /\ verdict = "passed" => job.script.said # "nothing"
=============================================================================
