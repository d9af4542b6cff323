# lingbot-map studio: models and proofs

TLA+ models of the studio's job machinery, rented workers, job files,
processors and live capture, the TLC
configurations that check them on small instances, and TLAPS proofs about them
for every value of their constants. Paths are relative to the repository;
`app/` stands for `src/worker/app/`, `web/` for `src/web/src/`.

1. [The system](#1-the-system): components, state, interactions, what is hard
2. [Modules](#2-modules): what each models and how it corresponds to the code
3. [Runs](#3-runs): what each checks, its bounds and why they are enough
4. [Fairness](#4-fairness)
5. [Proofs](#5-proofs)
6. [Findings](#6-findings), and what was seen besides
7. [Not modelled](#7-not-modelled): what is left out, and why

`tlc -config <run>.cfg <module>.tla` checks a run, `tlapm <module>Proofs.tla` the
proofs of a module.

## 1. The system

One **API** process (FastAPI) and one **worker** process per processor class
(lingbot, slam, gs) share a data directory and an SQLite database. Rented
machines can take a worker's place; they reach the database and the files only
through the API. The browser polls the API, tails a job's events over a
WebSocket, and, on the capture page, streams camera frames over another one.

| Component | State | Operations | Talks to |
| --- | --- | --- | --- |
| Job table (`app/jobs/store.py`) | one row per job: status, claim, heartbeat time, cancel flag, artifacts, error, provider bookkeeping | insert, update, claim, release, heartbeat, request cancel, sweep, delete | every process, through SQLite |
| Worker process (`app/worker_main.py`, `app/jobs/runner.py`) | the job in hand; three helper tasks | poll and claim, run, heartbeat, cancel watch, sweep, release | table, event stream, processor |
| Cancellation (`app/jobs/cancel.py`) | a token per run | reset, set, checkpoint, drop | watcher task and processor thread |
| Job API (`app/main.py`) | none of its own | create, stop, force stop, delete, restart, mesh edit, re-export, drafts | table, event stream, files |
| Event stream (`app/jobs/events.py`) | `events.jsonl`, `events.done`, and the next id cached in each process | publish, close, subscribe | workers and API write, the API tails |
| Job page stream (`web/lib/ws.ts`, `web/hooks/useJobStream.ts`, `useJobStatus.ts`) | a socket, the events shown | connect, receive, reconnect | API |
| Live capture session (`app/cloud/capture_session.py`) | frames on disk, a queue of four, a tracker thread, counters | push a frame, step the tracker, stop, promote to a job | API handlers, table |
| Capture page (`web/lib/captureSession.ts`, `web/app/capture/page.tsx`) | one store: socket, retry timer and counter, session id, a flag | start, stop, leave, reconnect | capture session |
| Remote worker protocol (`app/cloud/broker.py`, `http_source.py`, `tokens.py`, `storage.py`) | tokens, uploads under way, a manifest | claim, fetch, publish, upload, commit, heartbeat, close | table and files through HTTP |
| Cloud dispatcher and providers (`app/cloud/dispatcher.py`, `providers/`) | provider columns of the row, session credentials | cost caps, launch, terminate | vendor APIs |
| SLAM, splat and LingBot processors (`app/processors/`, `app/pipeline/`) | frames, keyframes, partial artifacts, side threads | ingest, gate, track, mesh, snapshot, train | runner's context |
| Mesh editing, drafts (`app/mesh/`, `app/jobs/drafts.py`) | revisions of a mesh; uploads before a job exists | edit; upload, take over, expire | files, the row's artifact list |

**What is hard here.** There is no lock between processes but SQLite's, and
pysqlite's default transaction control opens a transaction only at the first
write: every "read, check, write" function is two steps with other processes in
between. Handlers read, await and then write what the read justified. A worker can die
anywhere, and a sweep in another process decides from a timestamp that it has.
Cancellation goes from a column through a polling task to a token that a thread
checks. The event stream is a file with several writers, each with its own idea of
the next id. In the capture path a WebSocket handler, a background loop with a
thread that may never return, and concurrent stop requests share one session object;
in the page, events of old sockets arrive after the store has moved on. A rented
machine reaches all of this over a network that loses requests and answers, with a token that
expires, and two of its tasks upload the same file. Handlers that upload, restart, edit and delete
share directories without a lock, file operation by file operation. Beside one blocking inference or
training call run a watchdog, a snapshot thread and a reader thread that outlives the capture.

**What makes each component correct.**

- *Queue*: a live run keeps its claim and is never reaped; a dead worker's
  job is; an offered job is served.
- *Run*: one terminal status, written once; `ready` only with artifacts;
  `cancelled` only if asked; a stop settles; no row is left where neither a worker nor a
  sweep looks at it; the stream is closed when the job is over.
- *Event stream*: shown in order, once, and completely; tailing ends.
- *Capture session*: the job counts exactly the frames on disk; the counters add
  up; concurrent stops agree; a hung tracker does not hold up the job.
- *Capture page*: it reconnects to the session on screen, by one chain of retries.
- *Dispatcher*: a rented machine can be found again; a job that no
  machine was rented for does not wait for one.
- *Remote worker*: one runner at a time; another job of the class is not harmed; a claim ends,
  whatever is lost; the manifest names what the studio has, and at the end it has the last version.
- *Job files*: a row's uploads are all there, however the job was made; one draft, one job; a
  row's artifacts are on disk; a later edit is not written over one the row lists.
- *Processors*: a frame keeps its number from the clip to the tracker; previews and exports are the
  parameters they are labelled with; a partial cloud is whole; after a stop only the calls that lay
  before the run's next look are made; a reader thread ends.

`PROJECT.json` lists each hazard at its line with the properties that would catch it.

## 2. Modules

| Module | Models | Extends or instantiates |
| --- | --- | --- |
| `JobStore` | single SQL statements on the `jobs` table | |
| `JobQueue` | worker processes, sweeps and the API over that table | `JobStore` |
| `JobLifecycle` | `run_job` and the stop and delete handlers, await by await | `JobPhases` as what it implements |
| `JobPhases` | abstract: the promises of a job to whoever watches it | |
| `EventBus` | the event file, its writers, the tail, the page | |
| `CaptureSession` | one live session in the API | |
| `CaptureClient` | the page's store, sockets and timers | |
| `CloudProviders` | the vendor adapters as the dispatcher sees them, their prices | |
| `CloudDispatch` | a rented job's `POST /api/jobs`, launch and terminate | `CloudProviders` |
| `RemoteWorker` | the pod, the broker, the network, a local worker beside them | `CloudDispatch` |
| `JobUploads` | drafts, create, restart, delete | |
| `MeshEdits` | mesh edits, re-export, the run's export, delete | |
| `JobFiles` | the two before, side by side | `JobUploads`, `MeshEdits` |
| `JobContext` | the cancel token every processor runs under | |
| `ClipIngest` | videos to numbered frames, filters, scores | `JobContext` |
| `SlamRun` | a SLAM job over four backends | `ClipIngest` |
| `SplatRun` | a splat training and its source job | `JobContext` |
| `LingbotRun` | a LingBot reconstruction, its watchdog and snapshot thread | `ClipIngest` |
| `MonogsStream` | the live MonoGS session's queue and reader thread | |
| `Processors` | the four before, side by side | all four; `JobBody` as what they implement |
| `JobBody` | abstract: what `run_job` relies on while a processor runs | |
| `MCJobQueue`, `MCJobFiles`, `MCProcessors` | instances for TLC | `JobQueue`, `JobFiles`, `Processors` |
| `*Proofs` | theorems of the module of that name | that module and `TLAPS` |

`JobFiles` and `Processors` put components that share no state (or, for the processors, only the job's
context) into one specification. A variable `part` says which of them a behaviour is of and
never changes, so that the state space is the sum of the parts and not their product.

A type invariant stands in each module that has state. The theorems `TypeCorrect` prove them; they
are not among the runs' properties.

### JobStore and JobQueue

`rows` is the table. A row keeps status, `claimed_by` and the age of
`claimed_at` in heartbeat intervals; job ids are numbers, a smaller one is older
(`created_at`). The five statuses a processor reports are one value, `working`: every
reader of the column treats them alike. `unborn` and `deleted` are a missing row.

Every store function with a check is two actions, its SELECT and the UPDATE the ORM
flushes: `ClaimSelect`/`ClaimUpdate`, `ReleaseSelect`/`ReleaseUpdate`,
`SweepSelect`/`SweepUpdate`. The UPDATE names the row by its primary key and sets only
the columns that the code assigned, so `ClaimUpdate` does not look at the status
again. An ORM UPDATE that matches no row raises: `ClaimLost`, and the sweep that
writes none of its rows when one of them is gone. A heartbeat is one action, because
the only column it writes is not read while `claimed_by` is NULL.

`pc[w]` is where a worker is in `_run_forever`. What a run does besides is `Report`
(any stage) and `Settle` or `Abort` (its end, with or without a terminal status).
`ApiInsert`, `ApiFinish` and `ApiDelete` are the writes of the handlers, at any
moment. `Tick` is a heartbeat interval; its guard is the one timing assumption, that a
run the worker has under way beats at least once in `MaxSilence` intervals (the code
beats every 10 s and reaps after 60 s). A restarted worker has the identity of the one
that died (`hostname:pid` in a container).

### JobLifecycle and JobPhases

One job, one worker, and each `await` of `run_job` a point of `run`: `claimed`
(before the token is reset), `running` (inside the processor), `produced`, `recorded`,
`readied`, the handlers (`cancelling`, `cancel_noted`, `failing`, `fail_noted`, `handled`) and the
`finally` block (`finally`, `releasing`, `closing`). `BodyFails`, `HandlerFails` and `FinallyFails`
are a store or bus call that raises at those points, with where the code catches
it: a failure in the try block goes to the generic handler, a failure in a handler
only to `finally`, which releases the claim all the same.

`stop` and `del` are the points of `stop_job` and `delete_job`; both read the row
once at the start and then write in transactions of their own. `Watch` is
`_cancel_watch_loop`, `Checkpoint` the processor's `raise_if_cancelled`. `Reap` is
the sweep; its guard, that no run is under way, is what `JobQueueProofs` proves of the
sweep (`SweptIsDead`). `dir` and `done` are the job's directory and `events.done` in
it; publishing makes the directory with its parents.

### EventBus

`file` is the sequence of complete lines of `events.jsonl`, `torn` a last line
without its newline. `publish` is `Assign` (the id, from the process's counter or
from a scan of the file) and `AppendLine`. `ForceClose` and `CloseRun` are the two places
that call `bus.close`. `sub` is the generator of `subscribe`: `Read` takes all lines
after its offset, `Send` yields one, `Poll` is the check for the end or the sleep. The page
side, `Receive`, is the id filter of `useJobStream`; a dropped connection is followed
by one that replays the file from its start; close code 1000 stops the client for
good. A remote worker publishes through the API and so is no writer of its own.

The file is empty at first: `POST /api/jobs` commits the row (`main.py` 711) before it publishes `queued` (712),
and so do the restart, the re-export's job and the capture's promotion, so the worker may take the first id. `begun` says that it has
taken one, `spoke` that the API has taken one beside or after that, or has closed the stream: from then on two cached
counters disagree and ids may repeat. `useJobStream` keeps the last 2000 events; the model keeps all of them.

### CaptureSession

The WebSocket handler's `push_frame` is `Push` with its two halves `Persist` (counter,
file, counter back on failure) and `Enqueue` (`put_nowait` or drop). The loop `_run`
is `LoopHead`, `Take`, `TakeTimeout`, and a tracker step that returns, raises or never
does either. `StopPop`, `Join`/`JoinTimeout`, `InsertJob`, `WriteMarker` and `Announce`
are `manager.stop` and `_finalize_to_disk` await by await, for each request of
`Stoppers`. A cancelled step goes on in its thread and its result is dropped. The
messages the loop emits to the page are left out: nothing on the server reads them.

### CaptureClient

The zustand store's fields are variables of the same meaning (`ws`, `timer` and
`sessionId` with 0 for null, `userClose` for `userInitiatedClose`). A browser delivers a socket's
close event after the call that closed it has returned, so `CloseWs` only marks the
socket and `CloseEvent` runs the handler later, over whatever the store has become
by then. The handlers close over the *session* they were made for and write to the one store.
`OpenEvent` includes what `capture_stream` does in answer: it accepts first and then closes
a session it does not know. The page's `start`, `stop`, unmount and return are actions;
its request in flight is `busy`.

### CloudProviders, CloudDispatch and RemoteWorker

`adapter` gives for each of ten vendors what `launch` checks before it sends anything, which requests it
sends, where the instance id comes from, and what `terminate` needs to find the machine again.
`EstimateCost` is `estimate_cost` of each adapter with Python's rounding. `CloudDispatch` is
the handler of `POST /api/jobs` from there on: `Submit`, `Resolve`, `PreflightRefused`, `EnforceCaps`, `Ask`
(the vendor's search), `Create`, `Book`, and `FailJob` for every way it can raise. `row` is the job's row, `launch`
the request with its locals, `machine` what the vendor runs. `Lose` is a request that fails on the network,
before or after it had its effect; `lost` and `crashes` count those and the API's restarts.

`RemoteWorker` goes on from the machine. `pod` is where `_run_forever` and `run_job` are on it: polling, the
claim request with its two reads and its release in the broker (`ClaimLook`, `ClaimNext`, `ClaimRelease`), the
download (`Fetch`), the run's body and handlers, the last flush and the close. Each call through `HttpJobSource` is
`Answered` or `Unanswered`: refused because the token has expired, or lost on its way there or back. Of
the store there are this job, an older one of its class (`older`) and a local worker that may claim either.

A file on the pod is its *stat*, a number that grows with every change: 0 before it exists, then for each
version opened, half written and whole. A copy is the stat its bytes were read at, or
`Mixed` if two uploads wrote into one `.part` file. `up` holds the two uploads that can be under way, the sync loop's
and the run's own: `Open`, then `Publish` (the rename) through the broker or `PutObject` and `Commit`
through the bucket, with every way to fail. `known` is `_artifact_sync_state`. One artifact stands
for all of them: they are independent of each other in the code.

### JobUploads, MeshEdits and JobFiles

Every handler runs on the API's event loop, so what lies between two awaits is one step. In `JobUploads`,
`draft` is a draft's directory, with the age that `sweep_expired` goes by, and a job has its row, the uploads the row
names and the files in its directory. A video is written to the name that `safe_filename` makes of its own (`FileName`): of two
videos of one name the second is written over the first (`Written`), and `names`, a bag, has the name twice when they
were posted with the job and once when they were taken from a draft, whose directory is listed. Creating from a draft (`Stage`, `TakeDraft`) moves files
within one step; creating from files and restarting go file by file (`SaveJobVideo`, `CopyOld`), with the insert
after an await.

`MeshEdits` is finer, since `apply_op` and `reexport` run in threads: an edit is asked, made,
numbered, saved to its scratch file, loaded back, exported in two steps, summarised and recorded, and between
any two of these another edit, the re-export, the run's export, the deletion of the row or of the
folder may come. `meshes` says of each file whether it is there, half written, or whose mesh it holds; `seen` is the artifact
list an editor read at its start and writes back with one name more.

### JobContext and the processors

`asked` is the cancel token; `RaiseOr` is `ctx.check_cancel()`. A stage call is whatever the code awaits in a thread
or a subprocess, a download, one forward of the model, or the start of a snapshot thread; database writes and
events are not counted. `Begun` is the beginning of one, and `late` counts those since the token was set. A stop that comes between
the look of the forward's hook and the forward counts as one that comes after it has begun. `SlamLeft`, `SplatLeft` and
`LingbotLeft` say for each point how many calls lie before the next look. A model of a processor has the calls and
checks in the code's order and keeps of the data what its properties tell apart:

- `ClipIngest`, `SlamRun`: a frame is its place in the uploads; a pose is the frame it was computed from. A gate is a set of
  positions, and the paths it leaves are the clip's frames at those positions (`Picked`). Extraction,
  the filters in their order (`edition` counts the passes that rewrote the frames), the gate by score, stride and cap
  (`Selected`), the loop of `_track` with its update of keyframes and partial clouds for DPVO, DROID and
  MASt3R, the subprocess of MonoGS, and the rows of `pose_graph.json`. What a tracker decides inside is a choice.
  The ingest is one action per video's `ffmpeg` and one per filter pass, and has no look between them.
- `SplatRun`: a set of gaussians is its size and the step that made it. `cached` and `dirty` are the trainer's state
  cache; `source` is the finished job whose files the training reads and somebody may delete file by file.
  The preview and the three writes of `_finalise` (`WriteSplat`, `WriteCameras`, `WriteCompressed`) are calls of their own.
- `LingbotRun`: the processor's task with `ClipIngest` as its ingest, the inference thread (`BeginForward` is the hook with its look, `EndForward` the
  forward's end), the watchdog and the snapshot thread. The export's stages (`MaskSky`, `WriteGlb`, `WritePly`, `WriteCameraPath`) are calls with no look between them. A cloud is the sequence of frames whose points it holds, each beside the image that colours it.
- `MonogsStream`: `step` and `finalize` on one side, the dataset's `__getitem__` loop on the other, `queue.Queue` with its
  bound between them; what the upstream frontend does with a frame is external.

## 3. Runs

| Run | Expect | Module | What it shows |
| --- | --- | --- | --- |
| `job_queue` | pass | `MCJobQueue` | a live run keeps its claim, dead claims are reaped, offered jobs served |
| `double_claim` | violation | `MCJobQueue` | two processes of one class claim one row |
| `lifecycle` | pass | `JobLifecycle` | `JobPhases` implemented, with graceful stops and crashes |
| `lifecycle_faults` | pass | `JobLifecycle` | what still holds with forced stops, deletes and a failing call |
| `event_bus` | pass | `EventBus` | events in order, once, complete; tailing ends |
| `capture_session` | pass | `CaptureSession` | frames, counters, concurrent stops, a hung tracker |
| `capture_client` | pass | `CaptureClient` | one chain of retries, recovery, the Stop button |
| `remote` | pass | `RemoteWorker` | bookkeeping, one runner, uploads and manifest, a claim that ends |
| `rental_ends` | violation | `RemoteWorker` | a rented machine outlives its run |
| `job_files` | pass | `MCJobFiles` | uploads of every row, drafts, artifact lists, edits that keep what is listed |
| `processors` | pass | `MCProcessors` | frame numbers, caches, partial clouds, stops, the live reader; `JobBody` implemented |
| `wrong_photo` | violation | `MCProcessors` | with a stride a pose is exported under another frame's number |

Every run may stop (a job finished or deleted, a bound reached): `CHECK_DEADLOCK FALSE` throughout.

**`job_queue`** (`JobQueue.cfg`). Two workers of different classes, as
in `docker-compose.yml`; two jobs that compete for one of them; the other worker is
there to be offered what is not its own. Two sweepers, because two sweeps can hold
overlapping selections. `StaleAfter = MaxSilence = 2` is the tightest setting for which
the timing assumption suffices, two intervals are enough for a selection to grow
stale twice over, and two faults are enough for a crash during the sweep that follows a
failed release. `RunKeepsClaim` relates the workers' points, the rows and the sweeps' selections; `OrphanReaped` and `OfferedServed`
are its liveness. With one worker per class no two claims of one row can meet, so that two workers never run one job
is asked only where they can: **`double_claim`** has two processes of one class, and they do.

**`lifecycle`**, **`lifecycle_faults`**. One job and one worker: the
interaction of several is `JobQueue`'s. The first allows two crashes and no failing calls
and checks the refinement of `JobPhases`; two crashes, because the second one can hit the
worker that restarted while the first claim was still to be reaped. The second allows a forced
stop and a delete at any await, as often as they are repeated, one crash and one
failing call. A second failing call adds nothing that its properties tell apart: each
either holds for any number (and is proved to) or is conditional on none having
failed.

**`event_bus`**. Four lines are enough for the API's first event before or after the worker's first, one more of
either and a repeated id; one drop makes the page replay, one restart makes either process
lose its counter or tear a line. `IdsRiseInRun`, `StoppedSawAll` and `EventShown` speak of a
stream on which the API has not taken an id beside or after the worker's first, nor closed (`~spoke`), because from then on ids may repeat
(section 6); `LogInOrder` and `DoneStops` hold without that condition.

**`capture_session`**. The queue of the code, four, and six frames:
enough to fill the queue with a step in the tracker and drop one. Two stop requests and two faults, so
that a failed write can be followed by a failed insert. `MaxFrames` bounds only the frames, after
which the loop and the stops go on.

**`capture_client`**. Two captures (a stale event of the first meets the
second), three sockets and timers at a time, three drops for two retries, so that the retries can
be used up and a drop be left. `StopStaysShown` and `Recovers` speak of the first capture since the
page was loaded, because of `reset()` (section 6); `OneChain` of all of them.

**`remote`** (`RemoteWorker.cfg`). All ten vendors are dispatched, three of them registered; rates and caps
on both sides of the studio's cap, and 0, which a user can type. One or two GPUs, spot or not, enter the quote that the caps are compared with
and nothing else. Only vast's machine is followed past its
boot (`Followed`): vendors differ from there on in nothing but whether the pod exits and whether
`terminate` finds it. One lost request or API restart at every point, without a bound on expiry,
stops, deletes and preemption. `MaxStat = 4` is one version of the artifact, in which an upload can start when
it is opened, half written or whole and be overtaken by each later one, and the opening of the next. `ClaimSettles` is its liveness.
**`rental_ends`** follows the pods of fake and vast without faults.

**`job_files`**. Three videos, two of one name, so that a file is written over and a list has a name twice while another file stands
beside it; three job ids (a draft submitted twice and a
restart, or a restart of a restart), two editors and two revisions (a repeated number and the next one). Symmetric in
the two videos of one name and in the editors, which no action tells apart. `RowsHaveUploads` speaks of names: each name that was uploaded has
a file, and the row lists it. `ListedNotOverwritten` is about edits one after the other: if an edit is asked for when the row lists a
revision, it is not written to that file, whatever the list has lost since.

**`processors`**. Clips of no video, one of one frame and two of two and three, or for SLAM a capture's one or five frames (`Captures`), in a SLAM job with at most one unreadable frame, no filter or all of them, strides 1
and 2, every backend and gate; four training steps with densification, pruning and previews at
different intervals, seed clouds above and below `MaxPoints`; a scale batch of two and a snapshot due twice in LingBot's five frames; four
frames through a queue of two, so that it can be full when the capture stops. `ImplementsBody` is about all three
processors of queued jobs: whatever the order of stop requests, failing calls, the watchdog and deleted sources, a body ends once, ready only with its
artifacts, cancelled only when asked, and after that makes only the calls that were left before its next look (`late + Left` never grows). `StopsSoon` says
how many these are at most (`Allowed`): the whole ingest, one call for each video and each filter; two calls elsewhere in a SLAM
run; three at the end of a training; four in LingBot's export.
**`wrong_photo`** is the SLAM part alone.

## 4. Fairness

Weak fairness only, on what an event loop, a thread or a browser does by itself:
the steps of a worker that is up, the sweeps, passing time, the handlers of requests that
have been made, the delivery of events of sockets and timers. Never on a user, a
crash, a restart, a network failure, the end of a processor or a tracker step.
In particular:

- `JobQueue` assumes that a run ends (`Settle`), which is the question of
  `JobLifecycle`, where it is not assumed: there a processor may go on for ever and
  only has to reach a checkpoint once its token is set (the processors call
  `raise_if_cancelled` between frames and stages).
- a sweep that keeps failing is not a behaviour of `FairSpec` for longer than `MaxFaults`: the
  loops catch every exception and sweep again.
- in `CaptureSession` nothing makes `StepReturns` happen; `StopPromotes` has to come from
  `wait_for`'s timeout.
- in `EventBus` a reconnect is fair: `ws.ts` has no limit on its attempts.
- in `RemoteWorker`, the broker's handlers, the pod's next call (`httpx` has a timeout, so it returns or raises), each
  upload, the end of the processor, time and the API's sweep are fair. Nobody has to submit, stop, delete or tear
  down, and neither a boot nor an expiry has to come.
- in `MonogsStream` only the reader thread is: the tracking of a frame ends. The phone may stop sending, and
  nothing makes `finalize` be called.

## 5. Proofs

Every theorem is for all values of the constants, so for any number of
jobs, workers, sweeps, crashes, failing calls, frames, requests, sockets, retries, videos, edits, revisions,
training steps and intervals. The constants' assumptions are those of the modules (`*Assumption`); the only
ones that restrict the system are named below.

**`JobQueueProofs`**: `TypeCorrect`, `LiveRunKeepsClaim` (`RunKeepsClaim`) and `NoTheft`
(`ClaimNeverStolen`, a claim passes through NULL), from two facts of the deployment:
`OneWorkerPerClass` (`docker-compose.yml` starts one container per class; without it `double_claim`
is the counterexample) and `BeatsInTime` (`MaxSilence <= StaleAfter`). Neither is
inductive: that no claim is written over needs that the row a worker has selected
is still unclaimed (`SelectedUnclaimed`), which needs that a job goes only to workers of
its class (`Routed`) and that no sweep has a job that is offered in its selection
(`SweptNotOffered`); that a run keeps its claim needs that its claim is young (`RunIsFresh`) and that
no selection, however old, holds it (`SweptIsDead`). `IInv` is their conjunction.

**`JobLifecycleProofs`**: `TypeCorrect`, `ReadyIsBacked`, `CancelIsAsked`, `RowStaysGone` and `NoRowInLimbo`
without any assumption, forced stops, deletes and failures included. `Inv` adds what is
true of the row just before `ready` and just before a forced `cancelled` is written. `NoRowInLimbo`
needs `Tidy`: as long as nothing has failed, a run holds its claim until it is `closing`, and from
`readied` or `handled` on the row is terminal. `Refinement` shows `JobPhases` under `MaxFailures = 0`,
`~AllowForce` and `~AllowDelete`: with any of the three the refinement is false (section 6). Its `Graceful` ties the points of the run to the status, the error text and the
artifacts, which is what maps each await to a step or a stutter of `JobPhases`.

**`CaptureSessionProofs`**: `TypeCorrect`, `FramesCounted` (`JobSeesAll`), `Accounting` (`FramesAccounted`),
`LoopEndsFirst` (`QuietAfterJob`) and `StopsTellTheTruth` (`AnswersTrue`). The pop of the manager's
dictionary gives the session to one request (`StoppedByOne`); what it has done at each of
its points (`Progress`) gives the rest.

**`CaptureClientProofs`**: `TypeCorrect`, `ReconnectsOnce` (`OneChain`) and `StopIsNotWithdrawn` (`StopStaysShown`). The strengthening of
the first two, `KnownSessions`, says that a session the page has not opened yet has neither socket nor timer. The third needs
`ShownInv` (a retry that is pending has been counted, and nothing is shown while the session is still asked for) and, from the chain invariant,
that in a first capture a socket and a timer exclude each other (`FirstChain`). It needs a table with at least one delay
(`MaxRetries > 0`; `RECONNECT_DELAYS_MS` has five).

**`EventBusProofs`**: `TypeCorrect`, `ShownInOrder` (`LogInOrder`), `IdsRiseInTurn` (`IdsRiseInRun`) and
`CleanCloseIsComplete` (`StoppedSawAll`). None is inductive. `IdsBounded`: no id is beyond its line, and no process is ahead of the
file by more than the id it is about to append. `Shown`: the page has seen an id equal to that of every
line before one it shows, which is what makes a replay, or a repeated id, harmless to the order. `OneSpeaks`: until
the API has spoken into the run, one process at a time takes ids, the API and then the worker, each counts on from every id in the
file, and nothing comes after the close.
That a nonempty set of positions has a last one comes from the well-foundedness of inclusion
on finite sets, since induction itself is out of reach.

**`RemoteWorkerProofs`**: `TypeCorrect`, `RentedAlwaysRecorded`, `UnrentedAlwaysFailed`, `OneRunnerAtATime`,
`OlderNeverHarmed`, `ManifestAlwaysBacked` and `LastVersionFlushed` (`FlushedAtEnd`). `Inv` has a part for each thing that several processes write: `RowOK`, `LaunchOK` and
`MachineOK` (a machine exists from `Create` on, and the dispatch knows of it unless an answer was lost; the pod runs on a machine),
`PodOK`, `BusyAlone` (from the claim's answer on nobody else can have the job: `OneRunner` alone does not survive the
download between the answer and the run), `Backed` (an upload that has been answered left something in the studio) and
`HeldBriefly` (the older job is held only while the claim request is about to release it). Most
actions touch few of these, so the proof first shows, action by action, which of two summaries a step is (`RowChange`,
`MachineChange`), and preserves each part from the summary. `LastVersionFlushed` rests on `SyncInv`, which relates four stats: what the sync loop remembers, what each upload under way was opened at, what the studio has, and what the file
has become. The sync loop's upload is of a version it does not remember yet and none is ahead of the file (`StatsOK`); what is
remembered of the file as it is now has reached the studio, by whichever storage (`KnownIsThere`); nothing is left over from before the run
(`FreshUntilRun`). The last pass then finds either that, or a file it sends (`FlushedOrExcused`).

**`JobFilesProofs`**: `TypeCorrect`, `UploadsAreThere`, `OneJobPerDraft`, `ListedFilesExist` and `ListedStays` (`ListedNotOverwritten`). `UploadsInv` says what each half-done
request has already moved or copied (`StagedSoFar`) and that a draft which says it is complete is (`DraftWhole`); `WrittenNames`
and `OneMore` say what writing a video does to the names in a directory and in a list.
`EditsInv` needs `SeenOnDisk`: a list read before an await names files that are still there, because files go only
with the row. `AboveSeen`: as long as the row is there, the number an edit has taken is above every revision in the list it has read, because that
list was on disk when the number was taken (`NextIsAbove`).

**`ProcessorsProofs`**: `TypeCorrect`, `Refinement` (`ImplementsBody`), `FramesKeepTheirNumbers` (`TracksItsFrames`), `SplatStaysCurrent`, `PartialsAreWhole`, `StopIsSoon`
(`StopsSoon`) and `ThreadIsFed` (`NeverStarved`).

- `StopIsSoon`: at every point `Left` is within `Allowed` (`LeftIs`), which a stop does not change while the run goes on (`AllowedStays`), and every
  step that begins a call has one less left after it, so that once the token is set the sum of what began and what is left never grows.
- `Refinement` maps the cancel token, the calls begun and left and each processor's outcome to `JobBody`. `BodyInv` says that a body has an outcome exactly
  when it is at its end, and that a reconstruction has its files before it says so; each action `Pays` for the calls it begins (`IngestPays` for the ingest),
  and `StepIsWork` turns it into a step of the abstract body, one lemma per processor.
- `SplatStaysCurrent`: a cache that is not marked stale holds the current parameters (`SplatInv`); `ThinnedWithin` is the arithmetic of
  the preview's cap.
- `PartialsAreWhole`: the accumulators hold frames 1 to `done` in order, and so does every cloud frozen from them (`BotInv`).
- `FramesKeepTheirNumbers`: for clips of any length. A gate is a set of positions and what it picks are its members in increasing
  order (`NthIs`, `NthRises`, `PickedAll`), from the well-foundedness of inclusion; stride, cap and score each keep a rising list
  (`EveryNthRises`, `CappedRises`, `GateKeepsOne`); the extraction appends a video behind all earlier ones (`JoinedInOrder`). `TrackInv` carries
  them from the queue to the tracker.
- `ThreadIsFed` is the safety of `ReaderEnds`. `StreamInv`: as long as no frame was lost, the queue holds consecutive numbers from the
  one the reader waits for, with the sentinel last.

**Only model-checked**: everything that must eventually happen (`OrphanReaped`, `OfferedServed`,
`CancelSettles`, `StreamEndsWithRun`, `EventShown`, `DoneStops`, `StopPromotes`, `Recovers`, `ClaimSettles`, `ReaderEnds`), which is beyond the
prover. Every other property of a passing run is a theorem.

## 6. Findings

Each is a run that TLC violates, with the line it contradicts in `PROJECT.json`.

1. `double_claim`: `claim_next_job` says that a transaction keeps two workers from one job. The SELECT
   is outside it. One worker per class hides this.
2. `rental_ends`: the dispatcher's docstring says that the pod exits after one run and that a sweeper watches for pods that
   do not. The worker's loop polls on, and nothing calls `terminate`.
3. `wrong_photo`: `write_pose_graph` looks up `selected_indices[keyframe_indices[i]]`, but the DPVO and
   DROID sessions record source indices already, and hand over a pose per frame rather than per keyframe. With a stride
   the row names another frame, and the splat trainer pairs the pose with that frame's photo.

Seen while modelling, without a run of their own. Most of it is behaviour of the models, and
the properties are stated so as to hold in spite of it.

*Jobs, events and capture*

- After a worker's death the sweep fails the job and nobody creates `events.done`: pages tail the file for ever.
- A forced stop writes `cancelled`; the run it left behind overwrites it with its next stage or its outcome.
- A claim whose SELECT ran before a forced stop still succeeds after it, and the cancelled job is run.
- When a call of an exception handler in `run_job` raises, the claim is released with the status
  still running: neither a worker nor a sweep looks at that row again (`NoLimbo` is
  conditional on no call having failed for this reason).
- When the event after `set_status("ready")` cannot be written, the generic handler turns the ready
  job into a failed one.
- A plain delete looks at `claimed_by` before it deletes: a worker that claims in between loses its row,
  and its next event makes the directory again.
- The API's cached next event id is stale once the worker has published; the API's next event repeats an id and the
  page discards it. The same happens to the worker's events when it publishes before the API's first event, which follows
  the commit of the claimable row (`main.py` 711 and 712, 765 and 766, 912 and 913, `capture_session.py` 368 and 383).
- A line of `events.jsonl` longer than 64 KiB at the end of the file makes `_scan_last_id` start again at one.
- A page that has been closed with code 1000 does not see what is published after `events.done`
  (mesh edits, a stop that lost the race).
- A config that no longer parses makes `claim_next_job` raise for the oldest row each time: its class is blocked
  until that row goes.
- The row of a captured job exists before its `.captured` marker does, and a marker that cannot be written is
  ignored: a worker that looks in between finds no video and fails the job.
- A session that goes idle ends its loop, stays in the manager and goes on storing frames until it is stopped.
- The answer to a capture stop may be lost: the job exists and the second stop is a 404, after which the page
  stays as it is; it also stays open after the 500 of a session without frames.
- The page's `reset()` raises the flag, closes and lowers it again before the close event comes; the store reconnects to
  the session that was stopped or left.
- Each accepted socket resets the page's retry counter, and the server accepts before it looks up the session: the page
  retries a session that is gone every second for ever.
- The repository's README (line 137) says that events go through a `job_events` table; they go through
  the files modelled in `EventBus`.

*Rented workers*

- A local worker's claim does not look at `execution_target`: it may take a job that a machine is being rented for, and
  a failing dispatch then fails a job that is running.
- The broker's claim takes the head of the class's queue, although its comment says that it claims exactly the token's row.
- Two uploads of one artifact write the same `.part` file; the visible copy may mix them.
- `cost_cap_cents = 0` counts as no cap, although `schema.py` (133-135) describes it as a cap. What is compared with a cap is the quote for fifteen
  minutes, not what the run will cost.
- A lost answer to a published event makes the run fail, though the event is there and later ones may say so too.
- A pod whose heartbeats were lost is reaped and, still alive, goes on to write its outcome into the row.
- A row deleted during the launch, an API restart or a lost answer orphans the machine; GCP and Azure do not wait for the
  vendor's operation, so a machine that never starts is booked.
- `dispatcher.terminate` never passes a region: AWS machines outside the default one are not found.
- `HttpJobSource.release` does not touch the row, and its `_artifact_sync_state` outlives the job.
  The terminal endpoint has no caller. A second commit of a MinIO artifact answers 500.
- `http_source.py`'s docstring on the stability guard says that a file whose size changed is held back; only an empty file on first sight is.

*Files of a job*

- Two uploads of one sanitised name: the second is written over the first, without a word; the row of a job they were posted
  with lists the name twice (`main.py` 386-391, 700-706).
- Two edits at once take the same revision number and the same scratch file, and lose one another's entry of
  the artifact list; a re-export may lose an edit's and the other way round.
- A re-export after the folder was dropped makes the directory of a deleted job again.
- A restart of a captured job copies its uploads, of which it has none.
- A restart that stops midway leaves a directory without a row; so does `create_job` after a 404 or 409.
- Uploading one draft for longer than its time to live lets the sweep remove it.
- The viewer's latest mesh and the one the next edit starts from are not the same file. A manifest takes the last `.glb` of the
  directory by name (`main.py` 955-959), in which a re-export comes after the run's own export, any revision after that, and
  `rev_1000` before `rev_101`; the edit takes the highest revision (`mesh/io.py` 24-39).

*Processors*

- The splat trainer reads `t` and `q` from `camera_path.json`, LingBot writes `position` and `quaternion`: every
  camera is the default one. SLAM's automatic intrinsics are looked for in diagnostics that no tracker provides.
- LingBot lists only `*.png`: the frames of a captured job, which are `.jpg`, are none to it.
- A snapshot thread that is late writes its file and announces it after the clean-up, after the run's end, and after a
  delete. In windowed mode the accumulated clouds are not in frame order.
- A watchdog that trips after the last forward announces that the job is aborted, and the job becomes ready.
- A stop during the ingest is seen after the last filter, whatever the number of videos, and not at all while the MonoGS subprocess runs or between the
  stages of an export; `StopsSoon` counts these calls.
- MonoGS live: a frame that was dropped, skipped or drained makes the reader wait for ever, since it reads strictly by
  number; a reader that has caught up is ended by an `IndexError` and saves nothing; queued frames behind the sentinel are not
  tracked. The comments of `complete()` call both harmless.
- MonoGS batch: the trajectory's own frame numbers are dropped and its rows numbered from 0.
- `app.mesh.ops` has no `surface_recon`, so `run_poisson_mesh` never makes a mesh.
- Pruning may leave no gaussian, after which the next densification raises.
- The splat's cameras are read again from the source at the end; if it has been deleted meanwhile there are none.

## 7. Not modelled

- **Numerics**: what trackers, trainers, the inference and the mesh operations compute, the simulated tracker and trainer.
  The models have the choices they leave to the code around them.
- **Previews, probe, conversions** (`pipeline/preview.py`, `probe.py`, `gsplat/export.py`): pure functions of one request.
- **Session credentials**, **configuration**, **registry of processors** (`session_creds.py`, `config.py`, `processors/__init__.py`): values that are
  looked up, without steps that depend on one another.
- **Payloads of the vendors' requests**, and their `status` and `logs`, which nothing calls.
- **Read-only routes**, `latest_progress`, the status strip of the job page, **forms, viewer and rendering**: they keep no state that another
  part relies on.
- **The capture's preview messages** to the page, and LingBot's windowed mode.
- The API process is taken not to die inside `stop_job`, `delete_job` or the handlers of `JobFiles`; it does in
  `CaptureSession`, `CaptureClient`, `EventBus` and `RemoteWorker`.
- The parts meet in the row and the files: `JobQueue` gives a run its claim, which `JobLifecycle` takes as its guard
  (`Reap`); the rows that `JobUploads` inserts are those `JobLifecycle` starts from; the bodies of
  `Processors` are its `running` point. They are not composed into one state machine, because its
  state space is the product of theirs; each is instead checked under the weakest assumption on the others.
