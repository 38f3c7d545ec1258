---- MODULE MCSparkGrade ----
(* Model checking instance of SparkGrade: tables of up to two rows. *)
EXTENDS SparkGrade, SequencesExt

Row(k, v) == [key |-> k, val |-> v]
Tables(keys, vals) == BoundedSeq({Row(k, v) : k \in keys, v \in vals}, 2)

\* Numbers in halves of a rounding step, a tolerance of two steps.
MCJsonTables == Tables(Keys \cup {Null}, {-1, 0, 3, 5, Null})
MCParquetTables == Tables(Keys, {-1, 0, Null}) \cup {<<Row(Null, 0)>>}
====
