---------------------------- MODULE JobLifecycle ----------------------------
(***************************************************************************)
(* One job from its insertion to its deletion: the worker's run_job        *)
(* (worker/app/jobs/runner.py) await by await, against the API's stop and  *)
(* delete handlers (worker/app/main.py) await by await.                    *)
(*                                                                         *)
(* The queue between several workers and jobs is module JobQueue; here one *)
(* worker process serves one job, and a stale claim is reaped only when no *)
(* run is under way (JobQueueProofs proves that of the sweep).             *)
(***************************************************************************)
EXTENDS Naturals

CONSTANTS
  AllowForce,   \* users pass ?force=true to stop and delete
  AllowDelete,  \* users delete the job
  MaxCrashes,   \* bound on worker crashes
  MaxFailures   \* bound on store or file calls that raise

ASSUME LifecycleAssumption ==
  /\ AllowForce \in BOOLEAN
  /\ AllowDelete \in BOOLEAN
  /\ MaxCrashes \in Nat
  /\ MaxFailures \in Nat

VARIABLES
  row,      \* the job's row in the jobs table
  dir,      \* the job's directory exists
  done,     \* the sentinel events.done exists in it
  run,      \* where the worker is in run_job
  token,    \* CancelToken.cancelled of this run
  stop,     \* where the API is in stop_job
  force,    \* the ?force= of the stop under way
  del,      \* where the API is in delete_job
  crashes,
  failures

vars == <<row, dir, done, run, token, stop, force, del, crashes, failures>>
stopVars == <<stop, force>>
apiVars == <<stopVars, del>>
faultVars == <<crashes, failures>>
diskVars == <<dir, done>>

Terminal == {"ready", "failed", "cancelled"}
RunningStatuses == {"queued", "working"}
Errors == {"none", "cancelled", "failed", "forced", "reaped", "orphan"}

\* The runner's own try block, its handlers, and its finally block.
Body == {"claimed", "running", "produced", "recorded", "readied"}
Handler == {"cancelling", "cancel_noted", "failing", "fail_noted", "handled"}
Finally == {"finally", "releasing", "closing"}
Live == Body \cup Handler \cup Finally

StopAt == {"idle", "checked", "flagged", "written", "published"}
DelAt == {"idle", "looking", "auditing", "dropping", "emptying"}

Row == [status : Terminal \cup RunningStatuses \cup {"gone"},
        claimed : BOOLEAN, cancel : BOOLEAN, error : Errors, artifacts : BOOLEAN]

TypeOK ==
  /\ row \in Row
  /\ dir \in BOOLEAN /\ done \in BOOLEAN /\ token \in BOOLEAN
  /\ run \in {"idle", "selected", "down"} \cup Live
  /\ stop \in StopAt /\ force \in BOOLEAN
  /\ del \in DelAt
  /\ crashes \in 0 .. MaxCrashes
  /\ failures \in 0 .. MaxFailures

\* POST /api/jobs has made the directory, inserted the row and published the
\* first event.
Init ==
  /\ row = [status |-> "queued", claimed |-> FALSE, cancel |-> FALSE,
            error |-> "none", artifacts |-> FALSE]
  /\ dir = TRUE /\ done = FALSE /\ token = FALSE
  /\ run = "idle"
  /\ stop = "idle" /\ force = FALSE
  /\ del = "idle"
  /\ crashes = 0 /\ failures = 0

Exists == row.status # "gone"
Running == row.status \in RunningStatuses

\* update_job: a missing row is left missing, anything else is overwritten.
Update(r) == row' = IF Exists THEN r ELSE row

\* A status and an error text written from outside the run, and the claim c.
Ended(s, e, c) ==
  [status |-> s, claimed |-> c, cancel |-> row.cancel, error |-> e, artifacts |-> row.artifacts]

\* bus.publish and bus.close make the job's directory when it is not there.
Publish == dir' = TRUE /\ UNCHANGED done
CloseEvents == dir' = TRUE /\ done' = TRUE

Fail == failures < MaxFailures /\ failures' = failures + 1 /\ UNCHANGED crashes

-----------------------------------------------------------------------------
(* The worker *)

ClaimSelect ==
  /\ run = "idle"
  /\ row.status = "queued" /\ ~row.claimed
  /\ run' = "selected"
  /\ UNCHANGED <<row, diskVars, token, apiVars, faultVars>>

\* The UPDATE by id; when the row is gone it raises and the loop polls again.
ClaimUpdate ==
  /\ run = "selected"
  /\ Update([row EXCEPT !.claimed = TRUE])
  /\ run' = IF Exists THEN "claimed" ELSE "idle"
  /\ UNCHANGED <<diskVars, token, apiVars, faultVars>>

\* The head of run_job: artifacts_dir() makes the directory, the token is reset.
Start ==
  /\ run = "claimed"
  /\ run' = "running"
  /\ dir' = TRUE
  /\ token' = FALSE
  /\ UNCHANGED <<row, done, apiVars, faultVars>>

\* ctx.set_status(stage) and ctx.publish from inside the processor.
ReportStage ==
  /\ run = "running"
  /\ Update([row EXCEPT !.status = "working"])
  /\ UNCHANGED <<diskVars, run, token, apiVars, faultVars>>

ReportEvent ==
  /\ run = "running"
  /\ Publish
  /\ UNCHANGED <<row, run, token, apiVars, faultVars>>

\* Mutant: the watcher polls the token only, never the row.
WatchNothing == FALSE /\ UNCHANGED vars

\* _cancel_watch_loop: runs until `finally` cancels it.
Watch ==
  /\ run \in (Body \ {"claimed"}) \cup Handler \cup {"finally"}
  /\ Exists /\ row.cancel /\ ~token
  /\ token' = TRUE
  /\ UNCHANGED <<row, diskVars, run, apiVars, faultVars>>

\* Mutant: a checkpoint raises whether or not the token is set.
CheckpointAlways ==
  /\ run = "running"
  /\ run' = "cancelling"
  /\ UNCHANGED <<row, diskVars, token, apiVars, faultVars>>

\* A checkpoint of the processor sees the token and raises JobCancelled.
Checkpoint ==
  /\ run = "running"
  /\ token
  /\ run' = "cancelling"
  /\ UNCHANGED <<row, diskVars, token, apiVars, faultVars>>

ProcessorFails ==
  /\ run = "running"
  /\ run' = "failing"
  /\ UNCHANGED <<row, diskVars, token, apiVars, faultVars>>

ProcessorReturns ==
  /\ run = "running"
  /\ run' = "produced"
  /\ UNCHANGED <<row, diskVars, token, apiVars, faultVars>>

\* One awaited store write of the runner: from one point of run_job to the next.
Write(from, r, to) ==
  /\ run = from
  /\ Update(r)
  /\ run' = to
  /\ UNCHANGED <<diskVars, token, apiVars, faultVars>>

\* Mutant: no artifacts are recorded before the status.
RecordNothing == Write("produced", row, "recorded")

RecordArtifacts == Write("produced", [row EXCEPT !.artifacts = TRUE], "recorded")
SetReady == Write("recorded", [row EXCEPT !.status = "ready"], "readied")
NoteCancel == Write("cancelling", [row EXCEPT !.error = "cancelled"], "cancel_noted")
SetCancelled == Write("cancel_noted", [row EXCEPT !.status = "cancelled"], "handled")
NoteFailure == Write("failing", [row EXCEPT !.error = "failed"], "fail_noted")
SetFailed == Write("fail_noted", [row EXCEPT !.status = "failed"], "handled")

\* The last event of the run.
PublishOutcome ==
  /\ run \in {"readied", "handled"}
  /\ Publish
  /\ run' = "finally"
  /\ UNCHANGED <<row, token, apiVars, faultVars>>

\* A call of the try block raises: the generic handler takes over.
BodyFails ==
  /\ run \in {"produced", "recorded", "readied"}
  /\ Fail
  /\ run' = "failing"
  /\ UNCHANGED <<row, diskVars, token, apiVars>>

\* The head of run_job, outside any try block, raises: the claim is not released.
StartFails ==
  /\ run = "claimed"
  /\ Fail
  /\ run' = "idle"
  /\ UNCHANGED <<row, diskVars, token, apiVars>>

\* A call of a handler raises: nothing catches it before `finally`.
HandlerFails ==
  /\ run \in Handler
  /\ Fail
  /\ run' = "finally"
  /\ UNCHANGED <<row, diskVars, token, apiVars>>

\* `finally`: the helper tasks are cancelled, the token is dropped.
StopHelpers ==
  /\ run = "finally"
  /\ run' = "releasing"
  /\ token' = FALSE
  /\ UNCHANGED <<row, diskVars, apiVars, faultVars>>

Release == Write("releasing", [row EXCEPT !.claimed = FALSE], "closing")

\* Mutant: the runner forgets to close the stream.
CloseForgotten ==
  /\ run = "closing"
  /\ run' = "idle"
  /\ UNCHANGED <<row, diskVars, token, apiVars, faultVars>>

CloseStream ==
  /\ run = "closing"
  /\ CloseEvents
  /\ run' = "idle"
  /\ UNCHANGED <<row, token, apiVars, faultVars>>

\* A failed release is swallowed; a failed close ends the run.
FinallyFails ==
  /\ run \in {"releasing", "closing"}
  /\ Fail
  /\ run' = IF run = "releasing" THEN "closing" ELSE "idle"
  /\ UNCHANGED <<row, diskVars, token, apiVars>>

Crash ==
  /\ run # "down"
  /\ crashes < MaxCrashes
  /\ crashes' = crashes + 1
  /\ run' = "down"
  /\ token' = FALSE
  /\ UNCHANGED <<row, diskVars, apiVars, failures>>

Restart ==
  /\ run = "down"
  /\ run' = "idle"
  /\ UNCHANGED <<row, diskVars, token, apiVars, faultVars>>

\* Mutant: a stale claim is cleared, the status is left as it was.
ReapUnclaimsOnly ==
  /\ Running /\ row.claimed /\ run \notin Live
  /\ row' = [row EXCEPT !.claimed = FALSE]
  /\ UNCHANGED <<diskVars, run, token, apiVars, faultVars>>

\* sweep_stale_claims, from the API or from a worker, once the claim is stale:
\* the row is failed and unclaimed, the event stream is not touched.
Reap ==
  /\ Running /\ row.claimed /\ run \notin Live
  /\ row' = Ended("failed", "reaped", FALSE)
  /\ UNCHANGED <<diskVars, run, token, apiVars, faultVars>>

-----------------------------------------------------------------------------
(* stop_job *)

\* 404 and 409 are the states in which the request changes nothing.
StopCheck(f) ==
  /\ stop = "idle"
  /\ Running
  /\ f => AllowForce
  /\ stop' = "checked"
  /\ force' = f
  /\ UNCHANGED <<row, diskVars, run, token, del, faultVars>>

\* Mutant: the force path skips request_cancel.
StopFlagSkipped ==
  /\ stop = "checked"
  /\ stop' = IF force THEN "flagged" ELSE "written"
  /\ UNCHANGED <<row, diskVars, run, token, force, del, faultVars>>

StopFlag ==
  /\ stop = "checked"
  /\ Update([row EXCEPT !.cancel = TRUE])
  /\ stop' = IF force THEN "flagged" ELSE "written"
  /\ UNCHANGED <<diskVars, run, token, force, del, faultVars>>

StopForce ==
  /\ stop = "flagged"
  /\ Update(Ended("cancelled", "forced", row.claimed))
  /\ stop' = "written"
  /\ UNCHANGED <<diskVars, run, token, force, del, faultVars>>

StopPublish ==
  /\ stop = "written"
  /\ Publish
  /\ stop' = IF force THEN "published" ELSE "idle"
  /\ UNCHANGED <<row, run, token, force, del, faultVars>>

StopClose ==
  /\ stop = "published"
  /\ CloseEvents
  /\ stop' = "idle"
  /\ UNCHANGED <<row, run, token, force, del, faultVars>>

(* delete_job *)

DeleteCheck(f) ==
  /\ AllowDelete
  /\ del = "idle"
  /\ Exists
  /\ f => AllowForce
  /\ del' = IF Running /\ ~f THEN "looking" ELSE "dropping"
  /\ UNCHANGED <<row, diskVars, run, token, stopVars, faultVars>>

\* 409 when a worker holds the claim.
DeleteLook ==
  /\ del = "looking"
  /\ del' = IF Exists /\ row.claimed THEN "idle" ELSE "auditing"
  /\ UNCHANGED <<row, diskVars, run, token, stopVars, faultVars>>

DeleteAudit ==
  /\ del = "auditing"
  /\ Update(Ended("failed", "orphan", row.claimed))
  /\ del' = "dropping"
  /\ UNCHANGED <<diskVars, run, token, stopVars, faultVars>>

DeleteRow ==
  /\ del = "dropping"
  /\ row' = [status |-> "gone", claimed |-> FALSE, cancel |-> FALSE,
             error |-> "none", artifacts |-> FALSE]
  /\ del' = "emptying"
  /\ UNCHANGED <<diskVars, run, token, stopVars, faultVars>>

DeleteTree ==
  /\ del = "emptying"
  /\ dir' = FALSE /\ done' = FALSE
  /\ del' = "idle"
  /\ UNCHANGED <<row, run, token, stopVars, faultVars>>

-----------------------------------------------------------------------------
RunnerStep ==
  \/ Start
  \/ RecordArtifacts \/ SetReady
  \/ NoteCancel \/ SetCancelled
  \/ NoteFailure \/ SetFailed
  \/ PublishOutcome
  \/ StopHelpers \/ Release \/ CloseStream

ClaimStep == ClaimSelect \/ ClaimUpdate

ProcessorStep == ReportStage \/ ReportEvent \/ ProcessorFails \/ ProcessorReturns

FaultStep == StartFails \/ BodyFails \/ HandlerFails \/ FinallyFails \/ Crash \/ Restart

StopStep == StopFlag \/ StopForce \/ StopPublish \/ StopClose

DeleteStep == DeleteLook \/ DeleteAudit \/ DeleteRow \/ DeleteTree

Next ==
  \/ ClaimStep \/ RunnerStep \/ ProcessorStep \/ FaultStep
  \/ Watch \/ Checkpoint
  \/ Reap
  \/ StopStep \/ (\E f \in BOOLEAN : StopCheck(f))
  \/ DeleteStep \/ (\E f \in BOOLEAN : DeleteCheck(f))

Spec == Init /\ [][Next]_vars

\* The event loops run their tasks and the sweeps keep sweeping.  Nothing makes
\* a processor finish, a user act or a worker crash or come back; a processor
\* whose token is set does reach a checkpoint.
Fairness ==
  /\ WF_vars(RunnerStep)
  /\ WF_vars(ClaimStep)
  /\ WF_vars(Watch)
  /\ WF_vars(Checkpoint)
  /\ WF_vars(Reap)
  /\ WF_vars(StopStep)
  /\ WF_vars(DeleteStep)

FairSpec == Spec /\ Fairness

-----------------------------------------------------------------------------
(* Properties *)

\* run_job and stop_job: with graceful stops and calls that succeed, worker
\* crashes and sweeps included, a job keeps the promises of module JobPhases.
Phases == INSTANCE JobPhases
            WITH phase <- row.status, asked <- row.cancel, closed <- done,
                 clean <- row.artifacts /\ row.error = "none"

ImplementsPhases == Phases!Spec

\* run_job records the artifacts before it writes `ready`, and nobody else
\* writes `ready`: whatever users, crashes and failing calls do, a ready job has
\* its artifacts on the row.
ReadyHasArtifacts == row.status = "ready" => row.artifacts

\* cancel_requested, the token and the `cancelled` status: nothing is cancelled,
\* and no run unwinds as cancelled, unless the flag of that job was set.
CancelWasAsked ==
  Exists /\ (token \/ run \in {"cancelling", "cancel_noted"} \/ row.status = "cancelled")
    => row.cancel

\* The writes of a run that outlives its row, or of a stop that lost to a
\* delete, do not bring the row back.
GoneStaysGone == [][row.status = "gone" => row'.status = "gone"]_vars

\* A row past `queued` that no worker claims is invisible to the claim loop and
\* to the sweeps: as long as no call has raised, no order of forced stops,
\* deletes, crashes and sweeps produces one.
NoLimbo == failures = 0 /\ row.status = "working" => row.claimed

\* stop_job: once a stop is asked for a claimed job, the job ends and stays
\* ended, even if the processor would run for ever or the worker dies.
CancelSettles == row.cancel /\ row.claimed ~> ([]~Running \/ failures > 0)

\* events.py: the sentinel `events.done` marks a finished job's stream as closed.
\* Short of a worker that dies and a close that raises, every finished job gets
\* one, whichever of the run and a forced stop comes first.
StreamEndsWithRun == ~Running ~> done \/ ~Exists \/ crashes > 0 \/ failures > 0
=============================================================================
