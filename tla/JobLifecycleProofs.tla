------------------------- MODULE JobLifecycleProofs -------------------------
(***************************************************************************)
(* Theorems about JobLifecycle, for any number of crashes and failures.    *)
(* The invariants hold whatever users do and whatever fails; the           *)
(* refinement of JobPhases needs graceful stops, no deletion and store     *)
(* calls that do not raise.                                                *)
(***************************************************************************)
EXTENDS JobLifecycle, TLAPS

\* `ready` is written from one place only, where the artifacts are on the row.
RecordedBeforeReady == run = "recorded" /\ Exists => row.artifacts

\* A stop that is about to force has set the flag.
FlaggedBeforeForce == stop = "flagged" /\ Exists => row.cancel

Inv ==
  /\ TypeOK
  /\ ReadyHasArtifacts
  /\ CancelWasAsked
  /\ RecordedBeforeReady
  /\ FlaggedBeforeForce

\* Where the run is, and what the row says of it, as long as no call has failed.
RunHoldsClaim ==
  run \in Live \ {"closing"} /\ Exists => row.claimed

RunIsSettled ==
  run \in {"readied", "handled"} \cup Finally => ~Running

Tidy ==
  /\ failures = 0 => RunHoldsClaim /\ RunIsSettled
  /\ NoLimbo

\* With graceful stops and no deletion besides.
Unfinished ==
  run \in {"claimed", "running", "produced", "recorded", "cancelling",
           "cancel_noted", "failing", "fail_noted"} => Running

Unclaimed ==
  /\ run = "selected" => row.status = "queued" /\ ~row.claimed
  /\ run = "claimed" => row.status = "queued"
  /\ row.status = "queued" /\ ~row.claimed => row.error = "none"

NoErrorYet ==
  run \in {"claimed", "running", "produced", "recorded", "readied"} => row.error = "none"

ErrorNoted == run \in {"cancel_noted", "fail_noted"} => row.error # "none"

Graceful ==
  /\ Unfinished
  /\ Unclaimed
  /\ NoErrorYet
  /\ ErrorNoted
  /\ Exists
  /\ row.status = "ready" <=> ~Running /\ row.artifacts /\ row.error = "none"
  /\ done => ~Running
  /\ ~force
  /\ stop \in {"idle", "checked", "written"}
  /\ del = "idle"

-----------------------------------------------------------------------------
LEMMA InitInv == Init => Inv
<1> USE LifecycleAssumption
<1>1. Init => TypeOK
  <2>1. Init => row \in Row
    BY DEF Init, Row, Terminal, RunningStatuses, Errors
  <2>2. Init => stop \in StopAt /\ force \in BOOLEAN /\ del \in DelAt /\ run = "idle"
    BY DEF Init, StopAt, DelAt
  <2>3. Init => crashes \in 0 .. MaxCrashes /\ failures \in 0 .. MaxFailures
    BY DEF Init
  <2>4. Init => dir \in BOOLEAN /\ done \in BOOLEAN /\ token \in BOOLEAN
    BY DEF Init
  <2> QED BY <2>1, <2>2, <2>3, <2>4 DEF TypeOK
<1>2. Init => ReadyHasArtifacts /\ CancelWasAsked /\ RecordedBeforeReady /\ FlaggedBeforeForce
  BY DEF Init, ReadyHasArtifacts, CancelWasAsked, RecordedBeforeReady, FlaggedBeforeForce
<1> QED BY <1>1, <1>2 DEF Inv

\* The row keeps its columns and their types.
LEMMA RowTyped ==
  ASSUME TypeOK, [Next]_vars
  PROVE  row' \in Row
<1> USE LifecycleAssumption
    DEF TypeOK, Row, Errors, StopAt, DelAt, Terminal, RunningStatuses, Exists, Running, Body, Handler, Finally, Live,
        Update, Ended, Publish, CloseEvents, Fail, Write, diskVars, stopVars, apiVars, faultVars
<1>1. CASE ClaimStep
  <2>1. CASE ClaimSelect
    BY <2>1 DEF ClaimSelect
  <2>2. CASE ClaimUpdate
    BY <2>2 DEF ClaimUpdate
  <2> QED BY <1>1, <2>1, <2>2 DEF ClaimStep
<1>2. CASE RunnerStep
  <2>1. CASE Start \/ StopHelpers
    BY <2>1 DEF Start, StopHelpers
  <2>2. CASE PublishOutcome \/ CloseStream
    BY <2>2 DEF PublishOutcome, CloseStream
  <2>3. CASE RecordArtifacts \/ SetReady
    BY <2>3 DEF RecordArtifacts, SetReady
  <2>4. CASE NoteCancel \/ SetCancelled
    BY <2>4 DEF NoteCancel, SetCancelled
  <2>5. CASE NoteFailure \/ SetFailed \/ Release
    BY <2>5 DEF NoteFailure, SetFailed, Release
  <2> QED BY <1>2, <2>1, <2>2, <2>3, <2>4, <2>5 DEF RunnerStep
<1>3. CASE ProcessorStep
  <2>1. CASE ReportStage \/ ReportEvent
    BY <2>1 DEF ReportStage, ReportEvent
  <2>2. CASE ProcessorFails \/ ProcessorReturns
    BY <2>2 DEF ProcessorFails, ProcessorReturns
  <2> QED BY <1>3, <2>1, <2>2 DEF ProcessorStep
<1>4. CASE Watch
  BY <1>4 DEF Watch
<1>5. CASE Checkpoint
  BY <1>5 DEF Checkpoint
<1>6. CASE FaultStep
  <2>1. CASE StartFails \/ BodyFails
    BY <2>1 DEF StartFails, BodyFails
  <2>2. CASE HandlerFails
    BY <2>2 DEF HandlerFails
  <2>3. CASE FinallyFails
    BY <2>3 DEF FinallyFails
  <2>4. CASE Crash
    BY <2>4 DEF Crash
  <2>5. CASE Restart
    BY <2>5 DEF Restart
  <2> QED BY <1>6, <2>1, <2>2, <2>3, <2>4, <2>5 DEF FaultStep
<1>7. CASE Reap
  BY <1>7 DEF Reap
<1>8. CASE StopStep
  <2>1. CASE StopFlag
    BY <2>1 DEF StopFlag
  <2>2. CASE StopForce
    BY <2>2 DEF StopForce
  <2>3. CASE StopPublish
    BY <2>3 DEF StopPublish
  <2>4. CASE StopClose
    BY <2>4 DEF StopClose
  <2> QED BY <1>8, <2>1, <2>2, <2>3, <2>4 DEF StopStep
<1>9. CASE DeleteStep
  <2>1. CASE DeleteLook \/ DeleteTree
    BY <2>1 DEF DeleteLook, DeleteTree
  <2>2. CASE DeleteAudit
    BY <2>2 DEF DeleteAudit
  <2>3. CASE DeleteRow
    BY <2>3 DEF DeleteRow
  <2> QED BY <1>9, <2>1, <2>2, <2>3 DEF DeleteStep
<1>10. CASE \E f \in BOOLEAN : StopCheck(f) \/ DeleteCheck(f)
  BY <1>10 DEF StopCheck, DeleteCheck
<1>11. CASE UNCHANGED vars
  BY <1>11 DEF vars
<1> QED BY <1>1, <1>2, <1>3, <1>4, <1>5, <1>6, <1>7, <1>8, <1>9, <1>10, <1>11 DEF Next

\* So do the counters ...
LEMMA CountersTyped ==
  ASSUME TypeOK, [Next]_vars
  PROVE  crashes' \in 0 .. MaxCrashes /\ failures' \in 0 .. MaxFailures
<1> USE LifecycleAssumption
    DEF TypeOK, Row, Errors, StopAt, DelAt, Terminal, RunningStatuses, Exists, Running, Body, Handler, Finally, Live,
        Update, Ended, Publish, CloseEvents, Fail, Write, diskVars, stopVars, apiVars, faultVars
<1>1. CASE ClaimStep
  <2>1. CASE ClaimSelect
    BY <2>1 DEF ClaimSelect
  <2>2. CASE ClaimUpdate
    BY <2>2 DEF ClaimUpdate
  <2> QED BY <1>1, <2>1, <2>2 DEF ClaimStep
<1>2. CASE RunnerStep
  <2>1. CASE Start \/ StopHelpers
    BY <2>1 DEF Start, StopHelpers
  <2>2. CASE PublishOutcome \/ CloseStream
    BY <2>2 DEF PublishOutcome, CloseStream
  <2>3. CASE RecordArtifacts \/ SetReady
    BY <2>3 DEF RecordArtifacts, SetReady
  <2>4. CASE NoteCancel \/ SetCancelled
    BY <2>4 DEF NoteCancel, SetCancelled
  <2>5. CASE NoteFailure \/ SetFailed \/ Release
    BY <2>5 DEF NoteFailure, SetFailed, Release
  <2> QED BY <1>2, <2>1, <2>2, <2>3, <2>4, <2>5 DEF RunnerStep
<1>3. CASE ProcessorStep
  <2>1. CASE ReportStage \/ ReportEvent
    BY <2>1 DEF ReportStage, ReportEvent
  <2>2. CASE ProcessorFails \/ ProcessorReturns
    BY <2>2 DEF ProcessorFails, ProcessorReturns
  <2> QED BY <1>3, <2>1, <2>2 DEF ProcessorStep
<1>4. CASE Watch
  BY <1>4 DEF Watch
<1>5. CASE Checkpoint
  BY <1>5 DEF Checkpoint
<1>6. CASE FaultStep
  <2>1. CASE StartFails \/ BodyFails
    BY <2>1 DEF StartFails, BodyFails
  <2>2. CASE HandlerFails
    BY <2>2 DEF HandlerFails
  <2>3. CASE FinallyFails
    BY <2>3 DEF FinallyFails
  <2>4. CASE Crash
    BY <2>4 DEF Crash
  <2>5. CASE Restart
    BY <2>5 DEF Restart
  <2> QED BY <1>6, <2>1, <2>2, <2>3, <2>4, <2>5 DEF FaultStep
<1>7. CASE Reap
  BY <1>7 DEF Reap
<1>8. CASE StopStep
  <2>1. CASE StopFlag
    BY <2>1 DEF StopFlag
  <2>2. CASE StopForce
    BY <2>2 DEF StopForce
  <2>3. CASE StopPublish
    BY <2>3 DEF StopPublish
  <2>4. CASE StopClose
    BY <2>4 DEF StopClose
  <2> QED BY <1>8, <2>1, <2>2, <2>3, <2>4 DEF StopStep
<1>9. CASE DeleteStep
  <2>1. CASE DeleteLook \/ DeleteTree
    BY <2>1 DEF DeleteLook, DeleteTree
  <2>2. CASE DeleteAudit
    BY <2>2 DEF DeleteAudit
  <2>3. CASE DeleteRow
    BY <2>3 DEF DeleteRow
  <2> QED BY <1>9, <2>1, <2>2, <2>3 DEF DeleteStep
<1>10. CASE \E f \in BOOLEAN : StopCheck(f) \/ DeleteCheck(f)
  BY <1>10 DEF StopCheck, DeleteCheck
<1>11. CASE UNCHANGED vars
  BY <1>11 DEF vars
<1> QED BY <1>1, <1>2, <1>3, <1>4, <1>5, <1>6, <1>7, <1>8, <1>9, <1>10, <1>11 DEF Next

\* ... and everything else.
LEMMA PlacesTyped ==
  ASSUME TypeOK, [Next]_vars
  PROVE  (/\ dir \in BOOLEAN /\ done \in BOOLEAN /\ token \in BOOLEAN
          /\ run \in {"idle", "selected", "down"} \cup Live
          /\ stop \in StopAt /\ force \in BOOLEAN
          /\ del \in DelAt)'
<1> USE DEF TypeOK, Row, Errors, StopAt, DelAt, Terminal, RunningStatuses, Exists, Running, Body, Handler, Finally, Live,
        Update, Ended, Publish, CloseEvents, Fail, Write, diskVars, stopVars, apiVars, faultVars
<1>1. CASE ClaimStep
  <2>1. CASE ClaimSelect
    BY <2>1 DEF ClaimSelect
  <2>2. CASE ClaimUpdate
    BY <2>2 DEF ClaimUpdate
  <2> QED BY <1>1, <2>1, <2>2 DEF ClaimStep
<1>2. CASE RunnerStep
  <2>1. CASE Start \/ StopHelpers
    BY <2>1 DEF Start, StopHelpers
  <2>2. CASE PublishOutcome \/ CloseStream
    BY <2>2 DEF PublishOutcome, CloseStream
  <2>3. CASE RecordArtifacts \/ SetReady
    BY <2>3 DEF RecordArtifacts, SetReady
  <2>4. CASE NoteCancel \/ SetCancelled
    BY <2>4 DEF NoteCancel, SetCancelled
  <2>5. CASE NoteFailure \/ SetFailed \/ Release
    BY <2>5 DEF NoteFailure, SetFailed, Release
  <2> QED BY <1>2, <2>1, <2>2, <2>3, <2>4, <2>5 DEF RunnerStep
<1>3. CASE ProcessorStep
  <2>1. CASE ReportStage \/ ReportEvent
    BY <2>1 DEF ReportStage, ReportEvent
  <2>2. CASE ProcessorFails \/ ProcessorReturns
    BY <2>2 DEF ProcessorFails, ProcessorReturns
  <2> QED BY <1>3, <2>1, <2>2 DEF ProcessorStep
<1>4. CASE Watch
  BY <1>4 DEF Watch
<1>5. CASE Checkpoint
  BY <1>5 DEF Checkpoint
<1>6. CASE FaultStep
  <2>1. CASE StartFails \/ BodyFails
    BY <2>1 DEF StartFails, BodyFails
  <2>2. CASE HandlerFails
    BY <2>2 DEF HandlerFails
  <2>3. CASE FinallyFails
    BY <2>3 DEF FinallyFails
  <2>4. CASE Crash
    BY <2>4 DEF Crash
  <2>5. CASE Restart
    BY <2>5 DEF Restart
  <2> QED BY <1>6, <2>1, <2>2, <2>3, <2>4, <2>5 DEF FaultStep
<1>7. CASE Reap
  BY <1>7 DEF Reap
<1>8. CASE StopStep
  <2>1. CASE StopFlag
    BY <2>1 DEF StopFlag
  <2>2. CASE StopForce
    BY <2>2 DEF StopForce
  <2>3. CASE StopPublish
    BY <2>3 DEF StopPublish
  <2>4. CASE StopClose
    BY <2>4 DEF StopClose
  <2> QED BY <1>8, <2>1, <2>2, <2>3, <2>4 DEF StopStep
<1>9. CASE DeleteStep
  <2>1. CASE DeleteLook \/ DeleteTree
    BY <2>1 DEF DeleteLook, DeleteTree
  <2>2. CASE DeleteAudit
    BY <2>2 DEF DeleteAudit
  <2>3. CASE DeleteRow
    BY <2>3 DEF DeleteRow
  <2> QED BY <1>9, <2>1, <2>2, <2>3 DEF DeleteStep
<1>10. CASE \E f \in BOOLEAN : StopCheck(f) \/ DeleteCheck(f)
  BY <1>10 DEF StopCheck, DeleteCheck
<1>11. CASE UNCHANGED vars
  BY <1>11 DEF vars
<1> QED BY <1>1, <1>2, <1>3, <1>4, <1>5, <1>6, <1>7, <1>8, <1>9, <1>10, <1>11 DEF Next

\* What the row says of artifacts and of the cancel flag.
LEMMA ArtifactsStep ==
  ASSUME TypeOK, ReadyHasArtifacts, RecordedBeforeReady, [Next]_vars
  PROVE  (ReadyHasArtifacts /\ RecordedBeforeReady)'
<1> USE DEF TypeOK, Row, ReadyHasArtifacts, RecordedBeforeReady, Terminal, RunningStatuses, Exists, Running, Body, Handler, Finally, Live,
        Update, Ended, Publish, CloseEvents, Fail, Write, diskVars, stopVars, apiVars, faultVars
<1>1. CASE ClaimStep
  <2>1. CASE ClaimSelect
    BY <2>1 DEF ClaimSelect
  <2>2. CASE ClaimUpdate
    BY <2>2 DEF ClaimUpdate
  <2> QED BY <1>1, <2>1, <2>2 DEF ClaimStep
<1>2. CASE RunnerStep
  <2>1. CASE Start \/ StopHelpers
    BY <2>1 DEF Start, StopHelpers
  <2>2. CASE PublishOutcome \/ CloseStream
    BY <2>2 DEF PublishOutcome, CloseStream
  <2>3. CASE RecordArtifacts \/ SetReady
    BY <2>3 DEF RecordArtifacts, SetReady
  <2>4. CASE NoteCancel \/ SetCancelled
    BY <2>4 DEF NoteCancel, SetCancelled
  <2>5. CASE NoteFailure \/ SetFailed \/ Release
    BY <2>5 DEF NoteFailure, SetFailed, Release
  <2> QED BY <1>2, <2>1, <2>2, <2>3, <2>4, <2>5 DEF RunnerStep
<1>3. CASE ProcessorStep
  <2>1. CASE ReportStage \/ ReportEvent
    BY <2>1 DEF ReportStage, ReportEvent
  <2>2. CASE ProcessorFails \/ ProcessorReturns
    BY <2>2 DEF ProcessorFails, ProcessorReturns
  <2> QED BY <1>3, <2>1, <2>2 DEF ProcessorStep
<1>4. CASE Watch
  BY <1>4 DEF Watch
<1>5. CASE Checkpoint
  BY <1>5 DEF Checkpoint
<1>6. CASE FaultStep
  <2>1. CASE StartFails \/ BodyFails
    BY <2>1 DEF StartFails, BodyFails
  <2>2. CASE HandlerFails
    BY <2>2 DEF HandlerFails
  <2>3. CASE FinallyFails
    BY <2>3 DEF FinallyFails
  <2>4. CASE Crash
    BY <2>4 DEF Crash
  <2>5. CASE Restart
    BY <2>5 DEF Restart
  <2> QED BY <1>6, <2>1, <2>2, <2>3, <2>4, <2>5 DEF FaultStep
<1>7. CASE Reap
  BY <1>7 DEF Reap
<1>8. CASE StopStep
  <2>1. CASE StopFlag
    BY <2>1 DEF StopFlag
  <2>2. CASE StopForce
    BY <2>2 DEF StopForce
  <2>3. CASE StopPublish
    BY <2>3 DEF StopPublish
  <2>4. CASE StopClose
    BY <2>4 DEF StopClose
  <2> QED BY <1>8, <2>1, <2>2, <2>3, <2>4 DEF StopStep
<1>9. CASE DeleteStep
  <2>1. CASE DeleteLook \/ DeleteTree
    BY <2>1 DEF DeleteLook, DeleteTree
  <2>2. CASE DeleteAudit
    BY <2>2 DEF DeleteAudit
  <2>3. CASE DeleteRow
    BY <2>3 DEF DeleteRow
  <2> QED BY <1>9, <2>1, <2>2, <2>3 DEF DeleteStep
<1>10. CASE \E f \in BOOLEAN : StopCheck(f) \/ DeleteCheck(f)
  BY <1>10 DEF StopCheck, DeleteCheck
<1>11. CASE UNCHANGED vars
  BY <1>11 DEF vars
<1> QED BY <1>1, <1>2, <1>3, <1>4, <1>5, <1>6, <1>7, <1>8, <1>9, <1>10, <1>11 DEF Next

LEMMA CancelStep ==
  ASSUME TypeOK, CancelWasAsked, FlaggedBeforeForce, [Next]_vars
  PROVE  (CancelWasAsked /\ FlaggedBeforeForce)'
<1> USE DEF TypeOK, Row, StopAt, CancelWasAsked, FlaggedBeforeForce, Terminal, RunningStatuses, Exists, Running, Body, Handler, Finally, Live,
        Update, Ended, Publish, CloseEvents, Fail, Write, diskVars, stopVars, apiVars, faultVars
<1>1. CASE ClaimStep
  <2>1. CASE ClaimSelect
    BY <2>1 DEF ClaimSelect
  <2>2. CASE ClaimUpdate
    BY <2>2 DEF ClaimUpdate
  <2> QED BY <1>1, <2>1, <2>2 DEF ClaimStep
<1>2. CASE RunnerStep
  <2>1. CASE Start \/ StopHelpers
    BY <2>1 DEF Start, StopHelpers
  <2>2. CASE PublishOutcome \/ CloseStream
    BY <2>2 DEF PublishOutcome, CloseStream
  <2>3. CASE RecordArtifacts \/ SetReady
    BY <2>3 DEF RecordArtifacts, SetReady
  <2>4. CASE NoteCancel \/ SetCancelled
    BY <2>4 DEF NoteCancel, SetCancelled
  <2>5. CASE NoteFailure \/ SetFailed \/ Release
    BY <2>5 DEF NoteFailure, SetFailed, Release
  <2> QED BY <1>2, <2>1, <2>2, <2>3, <2>4, <2>5 DEF RunnerStep
<1>3. CASE ProcessorStep
  <2>1. CASE ReportStage \/ ReportEvent
    BY <2>1 DEF ReportStage, ReportEvent
  <2>2. CASE ProcessorFails \/ ProcessorReturns
    BY <2>2 DEF ProcessorFails, ProcessorReturns
  <2> QED BY <1>3, <2>1, <2>2 DEF ProcessorStep
<1>4. CASE Watch
  BY <1>4 DEF Watch
<1>5. CASE Checkpoint
  BY <1>5 DEF Checkpoint
<1>6. CASE FaultStep
  <2>1. CASE StartFails \/ BodyFails
    BY <2>1 DEF StartFails, BodyFails
  <2>2. CASE HandlerFails
    BY <2>2 DEF HandlerFails
  <2>3. CASE FinallyFails
    BY <2>3 DEF FinallyFails
  <2>4. CASE Crash
    BY <2>4 DEF Crash
  <2>5. CASE Restart
    BY <2>5 DEF Restart
  <2> QED BY <1>6, <2>1, <2>2, <2>3, <2>4, <2>5 DEF FaultStep
<1>7. CASE Reap
  BY <1>7 DEF Reap
<1>8. CASE StopStep
  <2>1. CASE StopFlag
    BY <2>1 DEF StopFlag
  <2>2. CASE StopForce
    BY <2>2 DEF StopForce
  <2>3. CASE StopPublish
    BY <2>3 DEF StopPublish
  <2>4. CASE StopClose
    BY <2>4 DEF StopClose
  <2> QED BY <1>8, <2>1, <2>2, <2>3, <2>4 DEF StopStep
<1>9. CASE DeleteStep
  <2>1. CASE DeleteLook \/ DeleteTree
    BY <2>1 DEF DeleteLook, DeleteTree
  <2>2. CASE DeleteAudit
    BY <2>2 DEF DeleteAudit
  <2>3. CASE DeleteRow
    BY <2>3 DEF DeleteRow
  <2> QED BY <1>9, <2>1, <2>2, <2>3 DEF DeleteStep
<1>10. CASE \E f \in BOOLEAN : StopCheck(f) \/ DeleteCheck(f)
  BY <1>10 DEF StopCheck, DeleteCheck
<1>11. CASE UNCHANGED vars
  BY <1>11 DEF vars
<1> QED BY <1>1, <1>2, <1>3, <1>4, <1>5, <1>6, <1>7, <1>8, <1>9, <1>10, <1>11 DEF Next

\* As long as no call has failed, a run ends with its row settled, and the claim is dropped after that.
LEMMA TidyStep ==
  ASSUME TypeOK, Tidy, [Next]_vars
  PROVE  Tidy'
<1> USE LifecycleAssumption DEF TypeOK, Row, Tidy, RunHoldsClaim, RunIsSettled, NoLimbo, Terminal, RunningStatuses, Exists, Running, Body, Handler, Finally, Live,
        Update, Ended, Publish, CloseEvents, Fail, Write, diskVars, stopVars, apiVars, faultVars
<1>1. CASE ClaimStep
  <2>1. CASE ClaimSelect
    BY <2>1 DEF ClaimSelect
  <2>2. CASE ClaimUpdate
    BY <2>2 DEF ClaimUpdate
  <2> QED BY <1>1, <2>1, <2>2 DEF ClaimStep
<1>2. CASE RunnerStep
  <2>1. CASE Start \/ StopHelpers
    BY <2>1 DEF Start, StopHelpers
  <2>2. CASE PublishOutcome \/ CloseStream
    BY <2>2 DEF PublishOutcome, CloseStream
  <2>3. CASE RecordArtifacts \/ SetReady
    BY <2>3 DEF RecordArtifacts, SetReady
  <2>4. CASE NoteCancel \/ SetCancelled
    BY <2>4 DEF NoteCancel, SetCancelled
  <2>5. CASE NoteFailure \/ SetFailed \/ Release
    BY <2>5 DEF NoteFailure, SetFailed, Release
  <2> QED BY <1>2, <2>1, <2>2, <2>3, <2>4, <2>5 DEF RunnerStep
<1>3. CASE ProcessorStep
  <2>1. CASE ReportStage \/ ReportEvent
    BY <2>1 DEF ReportStage, ReportEvent
  <2>2. CASE ProcessorFails \/ ProcessorReturns
    BY <2>2 DEF ProcessorFails, ProcessorReturns
  <2> QED BY <1>3, <2>1, <2>2 DEF ProcessorStep
<1>4. CASE Watch
  BY <1>4 DEF Watch
<1>5. CASE Checkpoint
  BY <1>5 DEF Checkpoint
<1>6. CASE FaultStep
  <2>1. CASE StartFails \/ BodyFails
    BY <2>1 DEF StartFails, BodyFails
  <2>2. CASE HandlerFails
    BY <2>2 DEF HandlerFails
  <2>3. CASE FinallyFails
    BY <2>3 DEF FinallyFails
  <2>4. CASE Crash
    BY <2>4 DEF Crash
  <2>5. CASE Restart
    BY <2>5 DEF Restart
  <2> QED BY <1>6, <2>1, <2>2, <2>3, <2>4, <2>5 DEF FaultStep
<1>7. CASE Reap
  BY <1>7 DEF Reap
<1>8. CASE StopStep
  <2>1. CASE StopFlag
    BY <2>1 DEF StopFlag
  <2>2. CASE StopForce
    BY <2>2 DEF StopForce
  <2>3. CASE StopPublish
    BY <2>3 DEF StopPublish
  <2>4. CASE StopClose
    BY <2>4 DEF StopClose
  <2> QED BY <1>8, <2>1, <2>2, <2>3, <2>4 DEF StopStep
<1>9. CASE DeleteStep
  <2>1. CASE DeleteLook \/ DeleteTree
    BY <2>1 DEF DeleteLook, DeleteTree
  <2>2. CASE DeleteAudit
    BY <2>2 DEF DeleteAudit
  <2>3. CASE DeleteRow
    BY <2>3 DEF DeleteRow
  <2> QED BY <1>9, <2>1, <2>2, <2>3 DEF DeleteStep
<1>10. CASE \E f \in BOOLEAN : StopCheck(f) \/ DeleteCheck(f)
  BY <1>10 DEF StopCheck, DeleteCheck
<1>11. CASE UNCHANGED vars
  BY <1>11 DEF vars
<1> QED BY <1>1, <1>2, <1>3, <1>4, <1>5, <1>6, <1>7, <1>8, <1>9, <1>10, <1>11 DEF Next

\* With graceful stops and no deletion, nothing but the run ends a job in a run.
LEMMA GracefulStep ==
  ASSUME MaxFailures = 0, ~AllowForce, ~AllowDelete, TypeOK, RecordedBeforeReady, Tidy, Graceful, [Next]_vars
  PROVE  Graceful'
<1> USE LifecycleAssumption
    DEF Graceful, Unfinished, Unclaimed, NoErrorYet, ErrorNoted, RecordedBeforeReady,
        StopAt, DelAt, TypeOK, Row, Tidy, RunHoldsClaim, RunIsSettled, NoLimbo, Terminal, RunningStatuses, Exists, Running, Body, Handler, Finally, Live,
        Update, Ended, Publish, CloseEvents, Fail, Write, diskVars, stopVars, apiVars, faultVars
<1>1. CASE ClaimStep
  <2>1. CASE ClaimSelect
    BY <2>1 DEF ClaimSelect
  <2>2. CASE ClaimUpdate
    BY <2>2 DEF ClaimUpdate
  <2> QED BY <1>1, <2>1, <2>2 DEF ClaimStep
<1>2. CASE RunnerStep
  <2>1. CASE Start \/ StopHelpers
    BY <2>1 DEF Start, StopHelpers
  <2>2. CASE PublishOutcome \/ CloseStream
    BY <2>2 DEF PublishOutcome, CloseStream
  <2>3. CASE RecordArtifacts \/ SetReady
    BY <2>3 DEF RecordArtifacts, SetReady
  <2>4. CASE NoteCancel \/ SetCancelled
    BY <2>4 DEF NoteCancel, SetCancelled
  <2>5. CASE NoteFailure \/ SetFailed \/ Release
    BY <2>5 DEF NoteFailure, SetFailed, Release
  <2> QED BY <1>2, <2>1, <2>2, <2>3, <2>4, <2>5 DEF RunnerStep
<1>3. CASE ProcessorStep
  <2>1. CASE ReportStage \/ ReportEvent
    BY <2>1 DEF ReportStage, ReportEvent
  <2>2. CASE ProcessorFails \/ ProcessorReturns
    BY <2>2 DEF ProcessorFails, ProcessorReturns
  <2> QED BY <1>3, <2>1, <2>2 DEF ProcessorStep
<1>4. CASE Watch
  BY <1>4 DEF Watch
<1>5. CASE Checkpoint
  BY <1>5 DEF Checkpoint
<1>6. CASE FaultStep
  <2>1. CASE StartFails \/ BodyFails
    BY <2>1 DEF StartFails, BodyFails
  <2>2. CASE HandlerFails
    BY <2>2 DEF HandlerFails
  <2>3. CASE FinallyFails
    BY <2>3 DEF FinallyFails
  <2>4. CASE Crash
    BY <2>4 DEF Crash
  <2>5. CASE Restart
    BY <2>5 DEF Restart
  <2> QED BY <1>6, <2>1, <2>2, <2>3, <2>4, <2>5 DEF FaultStep
<1>7. CASE Reap
  BY <1>7 DEF Reap
<1>8. CASE StopStep
  <2>1. CASE StopFlag
    BY <2>1 DEF StopFlag
  <2>2. CASE StopForce
    BY <2>2 DEF StopForce
  <2>3. CASE StopPublish
    BY <2>3 DEF StopPublish
  <2>4. CASE StopClose
    BY <2>4 DEF StopClose
  <2> QED BY <1>8, <2>1, <2>2, <2>3, <2>4 DEF StopStep
<1>9. CASE DeleteStep
  <2>1. CASE DeleteLook \/ DeleteTree
    BY <2>1 DEF DeleteLook, DeleteTree
  <2>2. CASE DeleteAudit
    BY <2>2 DEF DeleteAudit
  <2>3. CASE DeleteRow
    BY <2>3 DEF DeleteRow
  <2> QED BY <1>9, <2>1, <2>2, <2>3 DEF DeleteStep
<1>10. CASE \E f \in BOOLEAN : StopCheck(f) \/ DeleteCheck(f)
  BY <1>10 DEF StopCheck, DeleteCheck
<1>11. CASE UNCHANGED vars
  BY <1>11 DEF vars
<1> QED BY <1>1, <1>2, <1>3, <1>4, <1>5, <1>6, <1>7, <1>8, <1>9, <1>10, <1>11 DEF Next

\* No statement inserts a row.
LEMMA GoneStep ==
  ASSUME TypeOK, [Next]_vars
  PROVE  row.status = "gone" => row'.status = "gone"
<1> USE DEF TypeOK, Row, Terminal, RunningStatuses, Exists, Running, Body, Handler, Finally, Live,
        Update, Ended, Publish, CloseEvents, Fail, Write, diskVars, stopVars, apiVars, faultVars
<1>1. CASE ClaimStep
  <2>1. CASE ClaimSelect
    BY <2>1 DEF ClaimSelect
  <2>2. CASE ClaimUpdate
    BY <2>2 DEF ClaimUpdate
  <2> QED BY <1>1, <2>1, <2>2 DEF ClaimStep
<1>2. CASE RunnerStep
  <2>1. CASE Start \/ StopHelpers
    BY <2>1 DEF Start, StopHelpers
  <2>2. CASE PublishOutcome \/ CloseStream
    BY <2>2 DEF PublishOutcome, CloseStream
  <2>3. CASE RecordArtifacts \/ SetReady
    BY <2>3 DEF RecordArtifacts, SetReady
  <2>4. CASE NoteCancel \/ SetCancelled
    BY <2>4 DEF NoteCancel, SetCancelled
  <2>5. CASE NoteFailure \/ SetFailed \/ Release
    BY <2>5 DEF NoteFailure, SetFailed, Release
  <2> QED BY <1>2, <2>1, <2>2, <2>3, <2>4, <2>5 DEF RunnerStep
<1>3. CASE ProcessorStep
  <2>1. CASE ReportStage \/ ReportEvent
    BY <2>1 DEF ReportStage, ReportEvent
  <2>2. CASE ProcessorFails \/ ProcessorReturns
    BY <2>2 DEF ProcessorFails, ProcessorReturns
  <2> QED BY <1>3, <2>1, <2>2 DEF ProcessorStep
<1>4. CASE Watch
  BY <1>4 DEF Watch
<1>5. CASE Checkpoint
  BY <1>5 DEF Checkpoint
<1>6. CASE FaultStep
  <2>1. CASE StartFails \/ BodyFails
    BY <2>1 DEF StartFails, BodyFails
  <2>2. CASE HandlerFails
    BY <2>2 DEF HandlerFails
  <2>3. CASE FinallyFails
    BY <2>3 DEF FinallyFails
  <2>4. CASE Crash
    BY <2>4 DEF Crash
  <2>5. CASE Restart
    BY <2>5 DEF Restart
  <2> QED BY <1>6, <2>1, <2>2, <2>3, <2>4, <2>5 DEF FaultStep
<1>7. CASE Reap
  BY <1>7 DEF Reap
<1>8. CASE StopStep
  <2>1. CASE StopFlag
    BY <2>1 DEF StopFlag
  <2>2. CASE StopForce
    BY <2>2 DEF StopForce
  <2>3. CASE StopPublish
    BY <2>3 DEF StopPublish
  <2>4. CASE StopClose
    BY <2>4 DEF StopClose
  <2> QED BY <1>8, <2>1, <2>2, <2>3, <2>4 DEF StopStep
<1>9. CASE DeleteStep
  <2>1. CASE DeleteLook \/ DeleteTree
    BY <2>1 DEF DeleteLook, DeleteTree
  <2>2. CASE DeleteAudit
    BY <2>2 DEF DeleteAudit
  <2>3. CASE DeleteRow
    BY <2>3 DEF DeleteRow
  <2> QED BY <1>9, <2>1, <2>2, <2>3 DEF DeleteStep
<1>10. CASE \E f \in BOOLEAN : StopCheck(f) \/ DeleteCheck(f)
  BY <1>10 DEF StopCheck, DeleteCheck
<1>11. CASE UNCHANGED vars
  BY <1>11 DEF vars
<1> QED BY <1>1, <1>2, <1>3, <1>4, <1>5, <1>6, <1>7, <1>8, <1>9, <1>10, <1>11 DEF Next

\* Every step of a graceful life is a step of JobPhases or changes nothing it shows.
LEMMA PhaseStep ==
  ASSUME MaxFailures = 0, ~AllowForce, ~AllowDelete, TypeOK, CancelWasAsked, RecordedBeforeReady, Tidy, Graceful, [Next]_vars
  PROVE  [Phases!Next]_(Phases!vars)
<1> USE LifecycleAssumption
    DEF Graceful, Unfinished, Unclaimed, NoErrorYet, ErrorNoted, RecordedBeforeReady, CancelWasAsked,
        StopAt, DelAt, TypeOK, Row, Tidy, RunHoldsClaim, RunIsSettled, NoLimbo,
        Phases!Next, Phases!vars, Phases!Ask, Phases!Work, Phases!Note, Phases!End, Phases!Close,
        Terminal, RunningStatuses, Exists, Running, Body, Handler, Finally, Live,
        Update, Ended, Publish, CloseEvents, Fail, Write, diskVars, stopVars, apiVars, faultVars
<1>1. CASE ClaimStep
  <2>1. CASE ClaimSelect
    BY <2>1 DEF ClaimSelect
  <2>2. CASE ClaimUpdate
    BY <2>2 DEF ClaimUpdate
  <2> QED BY <1>1, <2>1, <2>2 DEF ClaimStep
<1>2. CASE RunnerStep
  <2>1. CASE Start \/ StopHelpers
    BY <2>1 DEF Start, StopHelpers
  <2>2. CASE PublishOutcome \/ CloseStream
    BY <2>2 DEF PublishOutcome, CloseStream
  <2>3. CASE RecordArtifacts \/ SetReady
    BY <2>3 DEF RecordArtifacts, SetReady
  <2>4. CASE NoteCancel \/ SetCancelled
    BY <2>4 DEF NoteCancel, SetCancelled
  <2>5. CASE NoteFailure \/ SetFailed \/ Release
    BY <2>5 DEF NoteFailure, SetFailed, Release
  <2> QED BY <1>2, <2>1, <2>2, <2>3, <2>4, <2>5 DEF RunnerStep
<1>3. CASE ProcessorStep
  <2>1. CASE ReportStage \/ ReportEvent
    BY <2>1 DEF ReportStage, ReportEvent
  <2>2. CASE ProcessorFails \/ ProcessorReturns
    BY <2>2 DEF ProcessorFails, ProcessorReturns
  <2> QED BY <1>3, <2>1, <2>2 DEF ProcessorStep
<1>4. CASE Watch
  BY <1>4 DEF Watch
<1>5. CASE Checkpoint
  BY <1>5 DEF Checkpoint
<1>6. CASE FaultStep
  <2>1. CASE StartFails \/ BodyFails
    BY <2>1 DEF StartFails, BodyFails
  <2>2. CASE HandlerFails
    BY <2>2 DEF HandlerFails
  <2>3. CASE FinallyFails
    BY <2>3 DEF FinallyFails
  <2>4. CASE Crash
    BY <2>4 DEF Crash
  <2>5. CASE Restart
    BY <2>5 DEF Restart
  <2> QED BY <1>6, <2>1, <2>2, <2>3, <2>4, <2>5 DEF FaultStep
<1>7. CASE Reap
  BY <1>7 DEF Reap
<1>8. CASE StopStep
  <2>1. CASE StopFlag
    BY <2>1 DEF StopFlag
  <2>2. CASE StopForce
    BY <2>2 DEF StopForce
  <2>3. CASE StopPublish
    BY <2>3 DEF StopPublish
  <2>4. CASE StopClose
    BY <2>4 DEF StopClose
  <2> QED BY <1>8, <2>1, <2>2, <2>3, <2>4 DEF StopStep
<1>9. CASE DeleteStep
  <2>1. CASE DeleteLook \/ DeleteTree
    BY <2>1 DEF DeleteLook, DeleteTree
  <2>2. CASE DeleteAudit
    BY <2>2 DEF DeleteAudit
  <2>3. CASE DeleteRow
    BY <2>3 DEF DeleteRow
  <2> QED BY <1>9, <2>1, <2>2, <2>3 DEF DeleteStep
<1>10. CASE \E f \in BOOLEAN : StopCheck(f) \/ DeleteCheck(f)
  BY <1>10 DEF StopCheck, DeleteCheck
<1>11. CASE UNCHANGED vars
  BY <1>11 DEF vars
<1> QED BY <1>1, <1>2, <1>3, <1>4, <1>5, <1>6, <1>7, <1>8, <1>9, <1>10, <1>11 DEF Next

-----------------------------------------------------------------------------
THEOREM Invariance == Spec => []Inv
<1>1. Inv /\ [Next]_vars => Inv'
  BY RowTyped, CountersTyped, PlacesTyped, ArtifactsStep, CancelStep DEF Inv, TypeOK
<1> QED BY InitInv, <1>1, PTL DEF Spec

\* run_job, stop_job, delete_job and the sweep: every variable keeps its type.
THEOREM TypeCorrect == Spec => []TypeOK
<1>1. Inv => TypeOK
  BY DEF Inv
<1> QED BY Invariance, <1>1, PTL

\* run_job: whatever users do and whatever fails, `ready` comes with artifacts.
THEOREM ReadyIsBacked == Spec => []ReadyHasArtifacts
<1>1. Inv => ReadyHasArtifacts
  BY DEF Inv
<1> QED BY Invariance, <1>1, PTL

\* stop_job and the watcher: nothing is cancelled that nobody asked to cancel.
THEOREM CancelIsAsked == Spec => []CancelWasAsked
<1>1. Inv => CancelWasAsked
  BY DEF Inv
<1> QED BY Invariance, <1>1, PTL

\* update_job and the ORM's updates by key never bring a deleted row back.
THEOREM RowStaysGone == Spec => GoneStaysGone
<1>1. TypeOK /\ [Next]_vars => (row.status = "gone" => row'.status = "gone")
  BY GoneStep
<1> QED BY TypeCorrect, <1>1, PTL DEF Spec, GoneStaysGone

\* run_job, the sweep and the API: as long as no store call has raised, no row
\* is left running and unclaimed, whatever is forced, deleted or crashes.
THEOREM NoRowInLimbo == Spec => []NoLimbo
<1>1. Init => Tidy
  BY DEF Init, Tidy, RunHoldsClaim, RunIsSettled, NoLimbo, Body, Handler, Finally, Live
<1>2. TypeOK /\ Tidy /\ [Next]_vars => Tidy'
  BY TidyStep
<1>3. Tidy => NoLimbo
  BY DEF Tidy
<1> QED BY TypeCorrect, <1>1, <1>2, <1>3, PTL DEF Spec

\* With graceful stops, no deletion and store calls that do not raise, run_job
\* interleaved with stops, crashes and sweeps implements JobPhases.
THEOREM Refinement ==
  ASSUME MaxFailures = 0, ~AllowForce, ~AllowDelete
  PROVE  Spec => ImplementsPhases
<1>1. Init => Tidy /\ Graceful /\ Phases!Init
  BY DEF Init, Tidy, RunHoldsClaim, RunIsSettled, NoLimbo, Graceful, Unfinished, Unclaimed, NoErrorYet,
         ErrorNoted, Exists, Running, RunningStatuses, Body, Handler, Finally, Live, Phases!Init
<1>2. Inv /\ Tidy /\ Graceful /\ [Next]_vars => (Tidy /\ Graceful)'
  BY TidyStep, GracefulStep DEF Inv
<1>3. Inv /\ Tidy /\ Graceful /\ [Next]_vars => [Phases!Next]_(Phases!vars)
  BY PhaseStep DEF Inv
<1> QED BY Invariance, <1>1, <1>2, <1>3, PTL DEF Spec, ImplementsPhases, Phases!Spec

=============================================================================
