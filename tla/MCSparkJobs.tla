---- MODULE MCSparkJobs ----
(* Model checking instance of SparkJobs: its bounds are numbers. *)
EXTENDS SparkJobs
====
