------------------------------ MODULE JobQueue ------------------------------
(***************************************************************************)
(* Worker processes (worker/app/worker_main.py) that share one job table:  *)
(* the claim loop, the heartbeat, the release at the end of a run and the  *)
(* stale-claim sweeps, against an API that inserts, finishes and deletes   *)
(* rows at any moment.  Every store call is its SELECT and its UPDATE, so  *)
(* all interleavings of processes between the two are behaviours.          *)
(*                                                                         *)
(* What the processor and the runner do inside a run is one action here    *)
(* (Report); module JobLifecycle opens it up.                              *)
(***************************************************************************)
EXTENDS JobStore

CONSTANTS
  Sweepers,    \* the sweep loops: one in the API, one in every worker
  MaxSilence,  \* intervals a live run may go without a heartbeat
  MaxFaults,   \* bound on crashes and failed store calls
  NoJob

ASSUME QueueAssumption ==
  /\ MaxSilence \in Nat
  /\ MaxFaults \in Nat
  /\ NoJob \notin Jobs

VARIABLES
  pc,      \* where each worker process is in _run_forever
  job,     \* the job its last claim SELECT returned
  swept,   \* per sweeper: the rows its SELECT returned, not yet written
  faults   \* crashes and failed calls so far

vars == <<rows, pc, job, swept, faults>>
workerVars == <<pc, job>>

Deployed == {"running", "settled", "releasing"}
PC == {"down", "idle", "selected"} \cup Deployed

TypeOK ==
  /\ rows \in [Jobs -> Row]
  /\ pc \in [Workers -> PC]
  /\ job \in [Workers -> Jobs \cup {NoJob}]
  /\ swept \in [Sweepers -> SUBSET Jobs]
  /\ faults \in 0 .. MaxFaults

Init ==
  /\ rows = [j \in Jobs |-> NewRow("unborn")]
  /\ pc = [w \in Workers |-> "idle"]
  /\ job = [w \in Workers |-> NoJob]
  /\ swept = [s \in Sweepers |-> {}]
  /\ faults = 0

\* Worker w is inside run_job for j, or on its way out of it.
Runs(w, j) == pc[w] \in Deployed /\ job[w] = j

Fault == faults < MaxFaults /\ faults' = faults + 1

Goto(w, p) == pc' = [pc EXCEPT ![w] = p]

\* Back to the top of the claim loop.
Forget(w) == Goto(w, "idle") /\ job' = [job EXCEPT ![w] = NoJob]

-----------------------------------------------------------------------------
(* The claim loop *)

\* Mutant: the lost claim is not handled and the worker waits on the row.
ClaimLostIgnored(w) ==
  /\ pc[w] = "selected"
  /\ ~Exists(job[w])
  /\ UNCHANGED vars

\* claim_next_job, SELECT: the oldest offered row of the worker's class.
ClaimSelect(w) ==
  /\ pc[w] = "idle"
  /\ \E j \in Jobs :
       /\ IsOldest(j, Offered(workerClass[w]))
       /\ job' = [job EXCEPT ![w] = j]
  /\ Goto(w, "selected")
  /\ UNCHANGED <<rows, swept, faults>>

\* claim_next_job, UPDATE ... WHERE id = j: no other condition.
ClaimUpdate(w) ==
  /\ pc[w] = "selected"
  /\ Exists(job[w])
  /\ WriteClaim(w, job[w])
  /\ Goto(w, "running")
  /\ UNCHANGED <<job, swept, faults>>

\* The row was deleted in between: the UPDATE matches no row, the ORM raises,
\* _run_forever logs it and polls again.
ClaimLost(w) ==
  /\ pc[w] = "selected"
  /\ ~Exists(job[w])
  /\ Forget(w)
  /\ UNCHANGED <<rows, swept, faults>>

(* Inside run_job *)

Heartbeat(w) ==
  /\ pc[w] = "running"
  /\ Beat(w, job[w])
  /\ UNCHANGED <<workerVars, swept, faults>>

\* A processor reports a stage: the status it writes replaces any other.
Report(w) ==
  /\ pc[w] = "running"
  /\ WriteStatus(job[w], "working")
  /\ UNCHANGED <<workerVars, swept, faults>>

\* The run ends and its terminal status is written.
Settle(w) ==
  /\ pc[w] = "running"
  /\ \E s \in Terminal : WriteStatus(job[w], s)
  /\ Goto(w, "settled")
  /\ UNCHANGED <<job, swept, faults>>

\* The run ends because a store call inside an exception handler raised: the
\* `finally` block still runs, the status stays as it was.
Abort(w) ==
  /\ pc[w] = "running"
  /\ Fault
  /\ Goto(w, "settled")
  /\ UNCHANGED <<rows, job, swept>>

\* release_job, SELECT and its two early returns.  A row nobody claims is
\* written too, but its claim columns do not change.
ReleaseSelect(w) ==
  /\ pc[w] = "settled"
  /\ IF rows[job[w]].claimed_by = w
       THEN Goto(w, "releasing") /\ UNCHANGED job
       ELSE Forget(w)
  /\ UNCHANGED <<rows, swept, faults>>

\* release_job, UPDATE by id; it raises, and the runner swallows it, when the
\* row was deleted in between.
ReleaseUpdate(w) ==
  /\ pc[w] = "releasing"
  /\ IF Exists(job[w]) THEN ClearClaim(job[w]) ELSE UNCHANGED rows
  /\ Forget(w)
  /\ UNCHANGED <<swept, faults>>

\* release fails (a locked database): swallowed, the claim stays on the row.
ReleaseFails(w) ==
  /\ pc[w] \in {"settled", "releasing"}
  /\ Fault
  /\ Forget(w)
  /\ UNCHANGED <<rows, swept>>

(* Processes come and go.  worker_identity() is hostname:pid, so a restarted
   container has the identity of the one that died. *)

Crash(w) ==
  /\ pc[w] # "down"
  /\ Fault
  /\ Goto(w, "down")
  /\ job' = [job EXCEPT ![w] = NoJob]
  /\ UNCHANGED <<rows, swept>>

Restart(w) ==
  /\ pc[w] = "down"
  /\ Goto(w, "idle")
  /\ UNCHANGED <<rows, job, swept, faults>>

-----------------------------------------------------------------------------
(* Sweeps *)

SweepSelect(s) ==
  /\ swept[s] = {}
  /\ StaleClaims # {}
  /\ swept' = [swept EXCEPT ![s] = StaleClaims]
  /\ UNCHANGED <<rows, workerVars, faults>>

\* All selected rows or, when one of them was deleted in between, none.
SweepUpdate(s) ==
  /\ swept[s] # {}
  /\ IF \A j \in swept[s] : Exists(j) THEN Reap(swept[s]) ELSE UNCHANGED rows
  /\ swept' = [swept EXCEPT ![s] = {}]
  /\ UNCHANGED <<workerVars, faults>>

SweepDies(s) ==
  /\ swept[s] # {}
  /\ Fault
  /\ swept' = [swept EXCEPT ![s] = {}]
  /\ UNCHANGED <<rows, workerVars>>

-----------------------------------------------------------------------------
(* The API's writes to the table, each at the moment its statement runs *)

\* new_job_id() never returns an id twice.
ApiInsert(j) ==
  /\ rows[j].status = "unborn"
  /\ Insert(j)
  /\ UNCHANGED <<workerVars, swept, faults>>

\* stop_job(force), delete_job's audit write, a failed remote dispatch: the
\* handler saw a running status earlier; the UPDATE checks nothing.
ApiFinish(j) ==
  /\ Exists(j)
  /\ \E s \in {"failed", "cancelled"} : WriteStatus(j, s)
  /\ UNCHANGED <<workerVars, swept, faults>>

ApiDelete(j) ==
  /\ Exists(j)
  /\ Delete(j)
  /\ UNCHANGED <<workerVars, swept, faults>>

-----------------------------------------------------------------------------
\* An interval passes.  MaxSilence is the timing assumption: the heartbeat task
\* of a live run gets its turn, and its UPDATE goes through, at least once in
\* MaxSilence intervals.
Tick ==
  /\ \A w \in Workers, j \in Jobs :
       Runs(w, j) /\ rows[j].claimed_by = w => rows[j].age < MaxSilence
  /\ \E j \in Jobs : rows[j].claimed_by # Nobody /\ rows[j].age < MaxAge
  /\ Age
  /\ UNCHANGED <<workerVars, swept, faults>>

RunStep(w) ==
  \/ ClaimSelect(w) \/ ClaimUpdate(w) \/ ClaimLost(w)
  \/ Settle(w) \/ ReleaseSelect(w) \/ ReleaseUpdate(w)

WorkerStep(w) ==
  \/ RunStep(w)
  \/ Heartbeat(w) \/ Report(w) \/ Abort(w) \/ ReleaseFails(w)
  \/ Crash(w) \/ Restart(w)

SweepStep(s) == SweepSelect(s) \/ SweepUpdate(s)

ApiStep(j) == ApiInsert(j) \/ ApiFinish(j) \/ ApiDelete(j)

Next ==
  \/ \E w \in Workers : WorkerStep(w)
  \/ \E s \in Sweepers : SweepStep(s) \/ SweepDies(s)
  \/ \E j \in Jobs : ApiStep(j)
  \/ Tick

Spec == Init /\ [][Next]_vars

\* An asyncio loop runs its tasks, a process that is up keeps polling, a run
\* ends, time passes.  Nothing obliges a user to act, a worker to crash or an
\* operator to restart one.
Fairness ==
  /\ \A w \in Workers : WF_vars(RunStep(w)) /\ WF_vars(Heartbeat(w))
  /\ \A s \in Sweepers : WF_vars(SweepStep(s))
  /\ WF_vars(Tick)

FairSpec == Spec /\ Fairness

-----------------------------------------------------------------------------
(* Properties *)

\* docker-compose.yml starts one worker container per class.
OneWorkerPerClass ==
  \A v, w \in Workers : workerClass[v] = workerClass[w] => v = w

\* A live run beats often enough for the stale threshold.
BeatsInTime == MaxSilence <= StaleAfter

\* claim_next_job "atomically" claims: no two worker processes are ever inside
\* run_job for the same job.
RunExclusive ==
  \A v, w \in Workers, j \in Jobs : Runs(v, j) /\ Runs(w, j) => v = w

\* heartbeat and the two-statement sweep: for as long as a worker runs a job
\* whose row is still there, that row is claimed by it, whatever the API, other
\* workers' releases and every sweep have written meanwhile.
RunKeepsClaim ==
  \A w \in Workers, j \in Jobs :
    Runs(w, j) /\ Exists(j) => rows[j].claimed_by = w

\* sweep_stale_claims: what a sweep has selected, however long ago, is not a
\* job some live worker is running or about to claim.
SweptIsDead ==
  \A s \in Sweepers, w \in Workers : job[w] \notin swept[s]

\* claim_next_job and release_job: a claim passes from one worker to another
\* only through NULL.
ClaimNeverStolen ==
  [][\A j \in Jobs :
       rows[j].claimed_by # Nobody
         => rows'[j].claimed_by \in {rows[j].claimed_by, Nobody}]_vars

\* sweep_stale_claims: a row left running by a worker that died, at whatever
\* point of claim, run or release, is reaped (or finished or deleted by a user).
Orphan(j) ==
  /\ rows[j].claimed_by # Nobody
  /\ rows[j].status \in RunningStatuses
  /\ \A w \in Workers : ~Runs(w, j)

OrphanReaped == \A j \in Jobs : Orphan(j) ~> ~Orphan(j)

\* The claim loop starves nobody: an offered job is claimed or withdrawn, or no
\* worker of its class stays up.
OfferedServed ==
  \A w \in Workers, j \in Jobs :
    j \in Offered(workerClass[w]) ~> j \notin Offered(workerClass[w]) \/ pc[w] = "down"
=============================================================================
