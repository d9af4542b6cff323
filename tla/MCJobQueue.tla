----------------------------- MODULE MCJobQueue -----------------------------
(* Small instances of JobQueue for TLC. *)
EXTENDS JobQueue

\* Two classes with a worker each (docker-compose.yml); the jobs compete for the
\* first worker.
TwoWorkers == {"lingbot_1", "slam_1"}
JobClasses == [j \in Jobs |-> "lingbot"]
WorkerClasses == [w \in TwoWorkers |-> IF w = "slam_1" THEN "slam" ELSE "lingbot"]

\* Two worker processes of one class.
SameClass == [w \in TwoWorkers |-> "lingbot"]
=============================================================================
