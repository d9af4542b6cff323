---------------------------- MODULE RemoteWorker ----------------------------
(***************************************************************************)
(* The rented machine at work: worker_main's loop and run_job on the pod,  *)
(* through HttpJobSource (worker/app/cloud/http_source.py) and the broker  *)
(* endpoints of the API process (worker/app/cloud/broker.py), over a       *)
(* network that loses requests and answers and with a token that expires.  *)
(*                                                                         *)
(* One job is rented for.  An older queued job of the same worker class,   *)
(* and a local worker of that class, are in the store as well.  The run    *)
(* writes one artifact; the sync loop and the run itself both upload it.   *)
(*                                                                         *)
(* A file on the pod is known by its stat (size and mtime), a number that  *)
(* grows with every change: 0 before it exists, then, for each version,    *)
(* opened and empty, half written, whole.  A copy is the stat its bytes    *)
(* were read at.                                                           *)
(***************************************************************************)
EXTENDS CloudDispatch

CONSTANTS
  Followed,  \* bound: vendors whose machine is followed past its boot
  MaxStat,   \* bound on changes of the artifact
  Mixed      \* the bytes of a copy that two uploads wrote into

ASSUME RemoteAssumption ==
  /\ Followed \subseteq Vendors
  /\ MaxStat \in Nat
  /\ Mixed \notin Nat

VARIABLES
  older,    \* the older job of the class: waiting, held by the pod, taken, failed
  expired,  \* the token's exp has passed
  ask,      \* where the broker is in the pod's claim request
  pod,      \* where the pod's loop is
  outcome,  \* the status the run's handler writes
  token,    \* CancelToken.cancelled of the run on the pod
  file,     \* the stat of the artifact in the pod's scratch directory
  known,    \* the stat sync_artifacts last uploaded
  up,       \* the uploads in progress: of the sync loop, and of the run
  copy,     \* the artifact in the studio's directory, as a reader sees it
  object,   \* the object in the bucket, when storage is "minio"
  storage   \* settings.cloud_storage

syncVars == <<file, known, up, copy, object>>
podVars == <<pod, outcome, token>>
otherVars == <<older, expired, ask, storage>>
vars == <<dispatchVars, podVars, syncVars, otherVars>>

Body == {"running", "produced", "uploaded", "recorded", "readied"}
Handler == {"noting", "telling", "told"}
Run == Body \cup Handler \cup {"flushing"}  \* heartbeats are sent

Whole(stat) == stat > 0 /\ stat % 3 = 0
Uploads == {"sync", "run"}
\* No upload; else the stat its bytes are of, where it is, the stat of the copy
\* whose file it goes on writing to, and whether its file was truncated under it.
NoUpload == [stat |-> 0, at |-> "none", over |-> 0, torn |-> FALSE]

TypeOK ==
  /\ DispatchTypeOK
  /\ older \in {"waiting", "held", "taken", "failed"}
  /\ expired \in BOOLEAN /\ token \in BOOLEAN
  /\ ask \in {"none", "look", "claim", "release"}
  /\ pod \in {"off", "polling", "asking", "fetching", "closing"} \cup Run
  /\ outcome \in {"ready", "failed", "cancelled"}
  /\ file \in 0 .. MaxStat /\ known \in 0 .. MaxStat /\ object \in 0 .. MaxStat
  /\ copy \in 0 .. MaxStat \cup {Mixed}
  /\ up \in [Uploads -> [stat : 0 .. MaxStat, at : {"none", "open", "sent"},
                         over : 0 .. MaxStat, torn : BOOLEAN]]
  /\ storage \in {"broker", "minio"}

Init ==
  /\ DispatchInit
  /\ older = "waiting"
  /\ expired = FALSE /\ ask = "none"
  /\ pod = "off" /\ outcome = "ready" /\ token = FALSE
  /\ file = 0 /\ known = 0 /\ copy = 0 /\ object = 0
  /\ up = [u \in Uploads |-> NoUpload]
  /\ storage \in {"broker", "minio"}

\* A request whose effect on the studio is E: done and answered; or refused, the
\* token having expired; or lost, on the way there or on the way back.
Answered(E) == ~expired /\ E /\ UNCHANGED lost
Unanswered(E, none) ==
  \/ expired /\ none /\ UNCHANGED lost
  \/ ~expired /\ Lose /\ (E \/ none)

Offered == row.status = "queued" /\ row.claimed_by = "nobody"

\* The pod's loop goes round; the fake provider's pod makes one pass and exits.
GoRound ==
  IF adapter[vendor].exits THEN pod' = "off" /\ machine' = "gone"
  ELSE pod' = "polling" /\ UNCHANGED machine

-----------------------------------------------------------------------------
(* Boot, claim and download *)

\* The create call was accepted; the vendor boots the machine, or never does.
Boot ==
  /\ machine = "booting" /\ vendor \in Followed
  /\ \/ machine' = "up" /\ pod' = "polling"
     \/ machine' = "gone" /\ UNCHANGED pod
  /\ UNCHANGED <<row, launch, vendor, lost, crashes, outcome, token, syncVars, otherVars>>

\* POST /api/worker/claim leaves the pod ...
Ask4Job ==
  /\ pod = "polling" /\ ask = "none"
  /\ pod' = "asking"
  /\ \/ ~expired /\ ask' = "look" /\ UNCHANGED lost
     \/ expired /\ UNCHANGED <<ask, lost>>
     \/ ~expired /\ Lose /\ UNCHANGED ask
  /\ UNCHANGED <<row, launch, vendor, machine, crashes, outcome, token, syncVars,
                 older, expired, storage>>

\* ... and the pod's loop goes round when it has no answer, or the answer "nothing".
NoAnswer ==
  /\ pod = "asking" /\ ask = "none"
  /\ GoRound
  /\ UNCHANGED <<row, launch, vendor, lost, crashes, outcome, token, syncVars, otherVars>>

\* The handler reads the token's job ...
ClaimLook ==
  /\ ask = "look"
  /\ ask' = IF row.status = "queued" THEN "claim" ELSE "none"
  /\ UNCHANGED <<dispatchVars, podVars, syncVars, older, expired, storage>>

\* Mutant: whichever job claim_next_job returned is answered.
ClaimAnyone ==
  /\ ask = "claim" /\ ask' = "none"
  /\ IF older = "waiting"
       THEN older' = "held" /\ pod' = "fetching" /\ UNCHANGED row
       ELSE /\ UNCHANGED older
            /\ IF Offered
                 THEN row' = [row EXCEPT !.claimed_by = "pod", !.stale = FALSE] /\ pod' = "fetching"
                 ELSE UNCHANGED <<row, pod>>
  /\ UNCHANGED <<launch, vendor, machine, lost, crashes, outcome, token, syncVars, expired, storage>>

\* ... then claims the oldest offered job of the class; the claim of another job it
\* gives back.  An answer can be lost, or find the pod gone ...
ClaimNext ==
  /\ ask = "claim"
  /\ IF older = "waiting"
       THEN older' = "held" /\ ask' = "release" /\ UNCHANGED <<row, pod, lost>>
       ELSE /\ UNCHANGED older /\ ask' = "none"
            /\ IF Offered
                 THEN /\ row' = [row EXCEPT !.claimed_by = "pod", !.stale = FALSE]
                      /\ \/ pod = "asking" /\ pod' = "fetching" /\ UNCHANGED lost
                         \/ pod = "asking" /\ UNCHANGED pod /\ Lose
                         \/ pod # "asking" /\ UNCHANGED <<pod, lost>>
                 ELSE UNCHANGED <<row, pod, lost>>
  /\ UNCHANGED <<launch, vendor, machine, crashes, outcome, token, syncVars, expired, storage>>

\* Mutant: it keeps the claim it did not want.
ReleaseNothing ==
  /\ ask = "release"
  /\ ask' = "none"
  /\ UNCHANGED <<dispatchVars, podVars, syncVars, older, expired, storage>>

\* ... with release_job.
ClaimRelease ==
  /\ ask = "release"
  /\ ask' = "none"
  /\ older' = "waiting"
  /\ UNCHANGED <<dispatchVars, podVars, syncVars, expired, storage>>

\* GET /api/worker/uploads/{name} for every upload; a failure raises out of
\* claim_next and the claim stays on the row.
Fetch ==
  /\ pod = "fetching"
  /\ \/ ~expired /\ pod' = "running" /\ UNCHANGED <<machine, lost>>
     \/ expired /\ GoRound /\ UNCHANGED lost
     \/ ~expired /\ Lose /\ GoRound
  /\ UNCHANGED <<row, launch, vendor, crashes, outcome, token, syncVars, otherVars>>

-----------------------------------------------------------------------------
(* The run, in the order of run_job *)

RunUnchanged == UNCHANGED <<launch, vendor, machine, crashes, syncVars, otherVars>>

\* An exception reaches run_job's handlers with the outcome o.
Catch(o) == pod' = "noting" /\ outcome' = o /\ UNCHANGED token

\* The processor reports a stage; a report that is not answered raises inside it.
Report ==
  /\ pod = "running"
  /\ \/ Answered(Update([row EXCEPT !.status = "working"])) /\ UNCHANGED podVars
     \/ Unanswered(Update([row EXCEPT !.status = "working"]), UNCHANGED row) /\ Catch("failed")
  /\ RunUnchanged

\* The processor writes its artifact: opens it, writes, closes it, and again.
Write ==
  /\ pod = "running" /\ file < MaxStat
  /\ file' = file + 1
  /\ UNCHANGED <<dispatchVars, podVars, known, up, copy, object, otherVars>>

\* _cancel_watch_loop, polling GET /api/worker/cancel.
Watch ==
  /\ pod \in Run /\ ~expired /\ row.cancel /\ ~token
  /\ token' = TRUE
  /\ UNCHANGED <<dispatchVars, pod, outcome, syncVars, otherVars>>

\* The processor returns, raises, or notices the token at a checkpoint.
Return ==
  /\ pod = "running" /\ Whole(file)
  /\ pod' = "produced"
  /\ UNCHANGED <<dispatchVars, outcome, token, syncVars, otherVars>>
Raise ==
  /\ pod = "running"
  /\ Catch(IF token THEN "cancelled" ELSE "failed")
  /\ UNCHANGED <<row, lost>> /\ RunUnchanged

\* set_artifacts after its upload: the manifest.
SetManifest ==
  /\ pod = "uploaded"
  /\ LET manifest == Update([row EXCEPT !.manifest = TRUE])
     IN  \/ Answered(manifest) /\ pod' = "recorded" /\ UNCHANGED <<outcome, token>>
         \/ Unanswered(manifest, UNCHANGED row) /\ Catch("failed")
  /\ RunUnchanged

SetReady ==
  /\ pod = "recorded"
  /\ LET ready == Update([row EXCEPT !.status = "ready"])
     IN  \/ Answered(ready) /\ pod' = "readied" /\ UNCHANGED <<outcome, token>>
         \/ Unanswered(ready, UNCHANGED row) /\ Catch("failed")
  /\ RunUnchanged

\* The `job ready` event is still inside the try block.
PublishReady ==
  /\ pod = "readied"
  /\ \/ Answered(UNCHANGED row) /\ pod' = "told" /\ UNCHANGED <<outcome, token>>
     \/ Unanswered(UNCHANGED row, UNCHANGED row) /\ Catch("failed")
  /\ RunUnchanged

\* A handler: set_error, set_status, publish; a call that raises ends it.
SetError ==
  /\ pod = "noting"
  /\ \/ Answered(UNCHANGED row) /\ pod' = "telling"
     \/ Unanswered(UNCHANGED row, UNCHANGED row) /\ pod' = "told"
  /\ UNCHANGED <<outcome, token>> /\ RunUnchanged

SetOutcome ==
  /\ pod = "telling"
  /\ pod' = "told"
  /\ LET status == Update([row EXCEPT !.status = outcome])
     IN  Answered(status) \/ Unanswered(status, UNCHANGED row)
  /\ UNCHANGED <<outcome, token>> /\ RunUnchanged

\* finally: the sync loop is cancelled, its upload with it; then one more pass.
StopSync ==
  /\ pod = "told"
  /\ pod' = "flushing"
  /\ up' = [u \in Uploads |-> NoUpload]
  /\ UNCHANGED <<dispatchVars, outcome, token, file, known, copy, object, otherVars>>

\* Mutant: the final pass is left out.
CloseUnflushed ==
  /\ pod = "flushing"
  /\ pod' = "closing"
  /\ UNCHANGED <<dispatchVars, outcome, token, syncVars, otherVars>>

\* sync_artifacts passes over a file it has uploaded at this very stat, and over
\* one it sees for the first time while it is empty.
Synced == file = known \/ (known = 0 /\ file % 3 = 1)

\* The pass is over when the file was passed over, uploaded, or given up on.
Flush ==
  /\ pod = "flushing"
  /\ up["sync"].at = "none"
  /\ Synced \/ expired \/ lost > 0 \/ crashes > 0 \/ ~Exists
  /\ pod' = "closing"
  /\ UNCHANGED <<dispatchVars, outcome, token, syncVars, otherVars>>

\* release() writes nothing to the row: it drops the scratch directory.  Then
\* close_events, and the loop polls again.
Close ==
  /\ pod = "closing"
  /\ file' = 0 /\ outcome' = "ready" /\ token' = FALSE
  /\ Answered(UNCHANGED row) \/ Unanswered(UNCHANGED row, UNCHANGED row)
  /\ GoRound
  /\ UNCHANGED <<launch, vendor, crashes, known, up, copy, object, otherVars>>

-----------------------------------------------------------------------------
(* Uploads: PUT /artifacts/{name} or presign, PUT to the bucket; then commit *)

UploadUnchanged == UNCHANGED <<row, launch, vendor, machine, crashes, file, otherVars>>

Other(u) == IF u = "sync" THEN "run" ELSE "sync"

\* The sync loop runs beside the body and the handlers; the final pass after them.
MaySync == pod \in (Run \ {"told"}) /\ file # 0 /\ ~Synced

\* The request arrives, and put_artifact opens `{name}.part`, truncating what it holds.
Open(u) ==
  /\ up[u].at = "none" /\ ~expired
  /\ IF u = "sync" THEN MaySync ELSE pod = "produced"
  /\ up' = [v \in Uploads |->
              IF v = u THEN [stat |-> file, at |-> "open", over |-> 0, torn |-> FALSE]
              ELSE IF up[v].at = "open" /\ up[v].over = 0 THEN [up[v] EXCEPT !.torn = TRUE]
              ELSE up[v]]
  /\ UNCHANGED <<lost, podVars, known, copy, object>> /\ UploadUnchanged

\* Mutant: set_artifacts passes over an upload that failed.
SkipUpload(u) ==
  /\ up' = [up EXCEPT ![u] = NoUpload]
  /\ IF u = "run" THEN pod' = "uploaded" /\ UNCHANGED <<outcome, token>> ELSE UNCHANGED podVars

\* The upload u has failed: the sync loop tries again at its next tick, the run ends.
GiveUp(u) ==
  /\ up' = [up EXCEPT ![u] = NoUpload]
  /\ IF u = "run" THEN Catch("failed") ELSE UNCHANGED podVars

\* A request is refused or lost, or the file no longer has the length announced.
Fail(u) ==
  /\ \/ u = "run" /\ pod = "produced" /\ up[u].at = "none"
     \/ up[u].at # "none"
  /\ \/ expired /\ up[u].at # "open" /\ UNCHANGED lost
     \/ up[u].at = "open" /\ up[u].stat # file /\ UNCHANGED lost
     \/ ~expired /\ Lose
  /\ GiveUp(u)
  /\ UNCHANGED <<known, copy, object>> /\ UploadUnchanged

\* The bytes have arrived.  `.part` is renamed over the artifact: what a reader then
\* sees is whole unless two uploads wrote into that file.  The other one, still
\* writing, now writes into the artifact, and will find no `.part` to rename.
Publish(u) ==
  LET o == up[Other(u)]
      shared == o.at = "open" /\ o.over = 0
  IN  /\ storage = "broker" /\ up[u].at = "open" /\ up[u].over = 0
      /\ copy' \in IF up[u].torn THEN {Mixed, up[u].stat}
                   ELSE IF shared /\ o.stat # up[u].stat THEN {Mixed}
                   ELSE {up[u].stat}
      /\ up' = [v \in Uploads |->
                  IF v = u THEN [up[u] EXCEPT !.at = "sent"]
                  ELSE IF shared THEN [o EXCEPT !.over = up[u].stat] ELSE o]
      /\ UNCHANGED <<lost, podVars, known, object>> /\ UploadUnchanged
PublishLate(u) ==
  /\ storage = "broker" /\ up[u].at = "open" /\ up[u].over # 0
  /\ copy' = IF up[u].stat = up[u].over THEN up[u].stat ELSE Mixed
  /\ GiveUp(u)
  /\ UNCHANGED <<lost, known, object>> /\ UploadUnchanged

\* An object is replaced as a whole.
PutObject(u) ==
  /\ storage = "minio" /\ up[u].at = "open"
  /\ object' = up[u].stat
  /\ up' = [up EXCEPT ![u].at = "sent"]
  /\ UNCHANGED <<lost, podVars, known, copy>> /\ UploadUnchanged

\* commit: with a bucket, the object is fetched under the artifact's name and then
\* deleted, as well as may be.  The sync loop notes the stat it had before.
Commit(u) ==
  /\ up[u].at = "sent" /\ ~expired
  /\ IF storage = "broker" THEN UNCHANGED <<copy, object>>
     ELSE object # 0 /\ copy' = object /\ object' \in {0, object}
  /\ up' = [up EXCEPT ![u] = NoUpload]
  /\ IF u = "sync" THEN known' = up[u].stat /\ UNCHANGED podVars
     ELSE pod' = "uploaded" /\ UNCHANGED <<outcome, token, known>>
  /\ UNCHANGED lost /\ UploadUnchanged

\* The other upload's commit has taken the object: 500.
CommitFails(u) ==
  /\ up[u].at = "sent" /\ ~expired
  /\ storage = "minio" /\ object = 0
  /\ GiveUp(u)
  /\ UNCHANGED <<lost, known, copy, object>> /\ UploadUnchanged

-----------------------------------------------------------------------------
(* The claim's age, the sweep, and everyone else *)

BeatUnchanged == UNCHANGED <<launch, vendor, machine, crashes, podVars, syncVars, otherVars>>

Beat ==
  /\ pod \in Run /\ ~expired
  /\ row.claimed_by = "pod" /\ row.stale
  /\ row' = [row EXCEPT !.stale = FALSE]
  /\ UNCHANGED lost /\ BeatUnchanged

\* Sixty seconds in which no heartbeat is sent, or the broker refuses them ...
GoStale ==
  /\ row.claimed_by = "pod" /\ ~row.stale
  /\ pod \notin Run \/ expired
  /\ row' = [row EXCEPT !.stale = TRUE]
  /\ UNCHANGED lost /\ BeatUnchanged

\* ... or in which none of those sent gets through.
BeatsLost ==
  /\ row.claimed_by = "pod" /\ ~row.stale
  /\ pod \in Run /\ ~expired /\ Lose
  /\ row' = [row EXCEPT !.stale = TRUE]
  /\ BeatUnchanged

\* Mutant: the sweep looks only at jobs that have reported a stage.
SweepWorking ==
  /\ row.claimed_by = "pod" /\ row.stale /\ row.status = "working"
  /\ row' = [row EXCEPT !.status = "failed", !.claimed_by = "nobody", !.stale = FALSE]
  /\ UNCHANGED lost /\ BeatUnchanged

Sweep ==
  /\ row.claimed_by = "pod" /\ row.stale /\ row.status \in Running
  /\ row' = [row EXCEPT !.status = "failed", !.claimed_by = "nobody", !.stale = FALSE]
  /\ UNCHANGED lost /\ BeatUnchanged

\* The older job is claimed by a local worker; or its claim by the pod, which no
\* one keeps fresh and no one releases, is reaped.
TakeOlder ==
  /\ \/ older = "waiting" /\ older' = "taken"
     \/ older = "held" /\ ask # "release" /\ older' = "failed"
  /\ UNCHANGED <<dispatchVars, podVars, syncVars, expired, ask, storage>>

\* A local worker of the class: the claim's SELECT does not look at execution_target.
LocalUnchanged == UNCHANGED <<launch, vendor, machine, lost, crashes, podVars, syncVars, otherVars>>
LocalClaim ==
  /\ older # "waiting" /\ Offered
  /\ row' = [row EXCEPT !.claimed_by = "local"]
  /\ LocalUnchanged
LocalRun ==
  /\ row.claimed_by = "local"
  /\ \/ row' = [row EXCEPT !.status = "working"]
     \/ \E s \in Terminal : row' = [row EXCEPT !.status = s, !.claimed_by = "nobody"]
  /\ LocalUnchanged

Stop ==
  /\ row.status \in Running
  /\ row' = [row EXCEPT !.cancel = TRUE]
  /\ LocalUnchanged

\* Uploads in progress are cut off: the files they write to are gone, or the process.
CutUploads ==
  /\ up' = [u \in Uploads |-> NoUpload]
  /\ IF pod = "produced" /\ up["run"].at # "none" THEN Catch("failed") ELSE UNCHANGED podVars

\* A plain delete, of a job that has ended or that no worker holds.
Delete ==
  /\ row.status \in Terminal \/ (row.status \in Running /\ row.claimed_by = "nobody")
  /\ row' = [status |-> "deleted", claimed_by |-> "nobody", stale |-> FALSE,
             cancel |-> FALSE, manifest |-> FALSE, instance |-> FALSE]
  /\ copy' = 0
  /\ CutUploads
  /\ UNCHANGED <<launch, vendor, machine, lost, crashes, file, known, object, otherVars>>

\* The job outlasts settings.cloud_broker_token_ttl_s.
Expire ==
  /\ machine # "none" /\ ~expired
  /\ expired' = TRUE
  /\ UNCHANGED <<dispatchVars, podVars, syncVars, older, ask, storage>>

\* The API process restarts: the handlers it was in are over.
ApiCrash ==
  /\ lost + crashes < MaxFaults /\ crashes' = crashes + 1
  /\ launch' = IF launch.at = "new" THEN launch ELSE Idle("over")
  /\ ask' = "none"
  /\ CutUploads
  /\ UNCHANGED <<row, vendor, machine, lost, file, known, copy, object, older, expired, storage>>

\* The machine is gone: a spot machine taken back, or dispatcher.terminate.
Stopped ==
  /\ pod' = "off" /\ outcome' = "ready" /\ token' = FALSE
  /\ file' = 0 /\ known' = 0
  /\ up' = [u \in Uploads |-> NoUpload]
  /\ UNCHANGED <<copy, object, otherVars>>
Preempt ==
  /\ machine = "up" /\ machine' = "gone"
  /\ Stopped
  /\ UNCHANGED <<row, launch, vendor, lost, crashes>>
TearDown ==
  /\ machine \in {"booting", "up"}
  /\ \E metadata, home \in BOOLEAN : Teardown(metadata, home)
  /\ IF machine' = "gone" THEN Stopped ELSE UNCHANGED <<podVars, syncVars, otherVars>>

-----------------------------------------------------------------------------
Dispatch ==
  /\ Submit \/ Resolve \/ PreflightRefused \/ EnforceCaps \/ Ask \/ Create \/ Book \/ FailJob
  /\ UNCHANGED <<podVars, syncVars, otherVars>>

Claiming == ClaimLook \/ ClaimNext \/ ClaimRelease

PodStep ==
  \/ Ask4Job \/ NoAnswer \/ Fetch
  \/ SetManifest \/ SetReady \/ PublishReady
  \/ SetError \/ SetOutcome \/ StopSync \/ Flush \/ Close

Upload(u) ==
  Open(u) \/ Fail(u) \/ Publish(u) \/ PublishLate(u) \/ PutObject(u) \/ Commit(u) \/ CommitFails(u)

Next ==
  \/ Dispatch \/ Boot \/ Claiming \/ PodStep
  \/ Report \/ Write \/ Watch \/ Return \/ Raise
  \/ \E u \in Uploads : Upload(u)
  \/ Beat \/ GoStale \/ BeatsLost \/ Sweep
  \/ TakeOlder \/ LocalClaim \/ LocalRun
  \/ Stop \/ Delete \/ Expire \/ ApiCrash \/ Preempt \/ TearDown

Spec == Init /\ [][Next]_vars

\* The processes run: requests are answered or time out (httpx has a timeout), a
\* processor returns or raises, time passes, the API's sweep loop runs.  Nobody has
\* to stop, delete, submit or tear anything down.
FairSpec ==
  /\ Spec
  /\ WF_vars(Claiming) /\ WF_vars(PodStep) /\ WF_vars(Return \/ Raise)
  /\ \A u \in Uploads : WF_vars(Upload(u))
  /\ WF_vars(GoStale) /\ WF_vars(Sweep)

-----------------------------------------------------------------------------
(* Properties *)

\* A machine that was rented can be found from its job's row once the request is
\* over, unless the create call's answer was lost, the API restarted in between or
\* the job was deleted meanwhile.
RentedIsRecorded ==
  machine \in {"booting", "up"} /\ launch.at = "over" /\ lost = 0 /\ crashes = 0 =>
    row.instance \/ row.status = "deleted"

\* A job no machine was rented for does not wait in the queue for one: whatever
\* step of the dispatch failed, the row says so when the request is over.
UnrentedIsFailed ==
  launch.at = "over" /\ machine = "none" /\ crashes = 0 => row.status # "queued"

\* One runner at a time: the job the pod is at work on is not held by a local
\* worker, and is not still on offer to one.
OneRunner == pod \in Run => row.claimed_by # "local" /\ ~Offered

\* The claim request, which takes the oldest job of the class and gives back one
\* that is not the token's, harms that older job only if the API dies in between.
OlderUnharmed == older = "failed" => crashes > 0

\* A manifest names an artifact the studio has, at least in part, whatever uploads
\* failed on the way and whatever the sync loop did meanwhile.
ManifestBacked == row.manifest => copy # 0

\* When a run is over, however it ended, the studio has the last version of what it
\* wrote, though the sync loop only compares stats from before its uploads, and
\* each file is changed while it is uploaded; unless requests went unanswered.  A
\* file that was just opened again, and that no upload has completed for, is passed
\* over by the last pass as well.
FlushedAtEnd ==
  pod = "closing" /\ lost = 0 /\ crashes = 0 /\ ~expired /\ Exists =>
    copy \in {file, Mixed} \/ (known = 0 /\ file % 3 = 1)

\* A claim by a pod settles: the run ends it, or the sweep does, when the answer to
\* the claim is lost, an upload cannot be fetched, the token expires or the machine
\* is taken back.
Claimed == row.claimed_by = "pod" /\ row.status \in Running
ClaimSettles == Claimed ~> ~Claimed

\* What the dispatcher's doc says of the machine: once its one run is over it exits.
RentalEnds == pod = "closing" ~> machine = "gone"
=============================================================================
