--------------------------- MODULE CaptureSession ---------------------------
(***************************************************************************)
(* One live capture in the API process (worker/app/cloud/                  *)
(* capture_session.py): the WebSocket handler persists and queues frames,  *)
(* a background loop feeds them to a tracker in a thread, and a stop turns *)
(* the persisted frames into a queued job.  What the loop emits to the     *)
(* page is preview and left out.                                           *)
(***************************************************************************)
EXTENDS Naturals

CONSTANTS
  Stoppers,    \* requests POST /api/capture/{id}/stop
  QueueSize,   \* frame_queue's maxsize
  MaxFrames,   \* bound on the frames received
  MaxFaults    \* bound on calls that raise, the process's death among them

ASSUME CaptureAssumption ==
  /\ QueueSize \in Nat \ {0}
  /\ MaxFrames \in Nat
  /\ MaxFaults \in Nat

VARIABLES
  listed,     \* the session is in manager._sessions
  stopped,    \* _stopped
  persisted,  \* _frames_persisted: the whole files <counter>.jpg
  torn,       \* one more, cut off by a failed write
  queue,      \* length of frame_queue
  accepted, dropped, processed, lost,   \* frames pushed, and what became of them
  idle,       \* no frame for _IDLE_TIMEOUT_S
  loop,       \* where _run is
  stop,       \* where each stop request is
  reply,      \* what it answered
  job,        \* frames_total of the job's row; 0 is no row
  marker,     \* the file .captured
  up,         \* the API process is alive
  faults

diskVars == <<persisted, torn, marker>>
frameVars == <<queue, accepted, dropped, processed, lost, idle>>
stopVars == <<listed, stopped, stop, reply, job>>
vars == <<diskVars, frameVars, stopVars, loop, up, faults>>

TypeOK ==
  /\ listed \in BOOLEAN /\ stopped \in BOOLEAN /\ torn \in BOOLEAN /\ idle \in BOOLEAN
  /\ marker \in BOOLEAN /\ up \in BOOLEAN
  /\ queue \in 0 .. QueueSize
  /\ accepted \in 0 .. MaxFrames /\ persisted \in Nat
  /\ dropped \in Nat /\ processed \in Nat /\ lost \in Nat
  /\ loop \in {"head", "waiting", "stepping", "ended"}
  /\ stop \in [Stoppers -> {"idle", "joining", "inserting", "marking", "announcing", "answered"}]
  /\ reply \in [Stoppers -> {"none", "job", "nothing", "unknown", "error"}]
  /\ job \in Nat
  /\ faults \in 0 .. MaxFaults

\* manager.create has made the directories and spawned the loop.
Init ==
  /\ listed = TRUE /\ stopped = FALSE
  /\ persisted = 0 /\ torn = FALSE
  /\ queue = 0 /\ accepted = 0 /\ dropped = 0 /\ processed = 0 /\ lost = 0
  /\ idle = FALSE
  /\ loop = "head"
  /\ stop = [h \in Stoppers |-> "idle"]
  /\ reply = [h \in Stoppers |-> "none"]
  /\ job = 0 /\ marker = FALSE
  /\ up = TRUE /\ faults = 0

Fault == faults < MaxFaults /\ faults' = faults + 1

-----------------------------------------------------------------------------
(* push_frame *)

\* The file of the frame: written, or its write fails, perhaps half way.
Persist ==
  \/ persisted' = persisted + 1 /\ torn' = FALSE /\ UNCHANGED faults
  \/ persisted' = persisted /\ torn' \in {torn, TRUE} /\ Fault

\* Mutant: a full queue whose drops are not counted.
EnqueueSilently ==
  IF queue < QueueSize THEN queue' = queue + 1 /\ UNCHANGED dropped
                       ELSE UNCHANGED <<queue, dropped>>

\* put_nowait, or QueueFull.
Enqueue ==
  IF queue < QueueSize THEN queue' = queue + 1 /\ UNCHANGED dropped
                       ELSE dropped' = dropped + 1 /\ UNCHANGED queue

\* Mutant: frames are taken whether or not the session is stopped.
PushAlways ==
  /\ up /\ accepted < MaxFrames
  /\ accepted' = accepted + 1
  /\ idle' = FALSE
  /\ Persist
  /\ Enqueue
  /\ UNCHANGED <<marker, processed, lost, stopVars, loop, up>>

\* A socket that is open when the session stops goes on calling push_frame,
\* which returns at once.
Push ==
  /\ up /\ ~stopped /\ accepted < MaxFrames
  /\ accepted' = accepted + 1
  /\ idle' = FALSE
  /\ Persist
  /\ Enqueue
  /\ UNCHANGED <<marker, processed, lost, stopVars, loop, up>>

GoIdle ==
  /\ up /\ ~idle
  /\ idle' = TRUE
  /\ UNCHANGED <<diskVars, queue, accepted, dropped, processed, lost, stopVars, loop,
                 up, faults>>

-----------------------------------------------------------------------------
(* _run *)

LoopHead ==
  /\ up /\ loop = "head"
  /\ loop' = IF stopped THEN "ended" ELSE "waiting"
  /\ UNCHANGED <<diskVars, frameVars, stopVars, up, faults>>

\* The tracker starts with the first frame and steps, in a thread.
Take ==
  /\ up /\ loop = "waiting" /\ queue > 0
  /\ queue' = queue - 1
  /\ loop' = "stepping"
  /\ UNCHANGED <<diskVars, accepted, dropped, processed, lost, idle, stopVars, up, faults>>

\* 0.5 s without a frame: the loop ends if the session is idle.
TakeTimeout ==
  /\ up /\ loop = "waiting" /\ queue = 0
  /\ loop' = IF idle THEN "ended" ELSE "head"
  /\ UNCHANGED <<diskVars, frameVars, stopVars, up, faults>>

StepReturns ==
  /\ up /\ loop = "stepping"
  /\ processed' = processed + 1
  /\ loop' = "head"
  /\ UNCHANGED <<diskVars, queue, accepted, dropped, lost, idle, stopVars, up, faults>>

\* The tracker raises: the loop reports it and ends.
StepRaises ==
  /\ up /\ loop = "stepping"
  /\ lost' = lost + 1
  /\ loop' = "ended"
  /\ UNCHANGED <<diskVars, queue, accepted, dropped, processed, idle, stopVars, up, faults>>

-----------------------------------------------------------------------------
(* stop and _finalize_to_disk *)

Answer(h, r) ==
  /\ stop' = [stop EXCEPT ![h] = "answered"]
  /\ reply' = [reply EXCEPT ![h] = r]

\* Mutant: the registry is read, the session stays in it.
StopGet(h) ==
  /\ up /\ stop[h] = "idle"
  /\ stopped' = TRUE
  /\ stop' = [stop EXCEPT ![h] = "joining"]
  /\ UNCHANGED <<diskVars, frameVars, listed, reply, job, loop, up, faults>>

\* manager.stop pops the session: the first request stops it, the next is a 404.
StopPop(h) ==
  /\ up /\ stop[h] = "idle"
  /\ IF listed
       THEN /\ listed' = FALSE
            /\ stopped' = TRUE
            /\ stop' = [stop EXCEPT ![h] = "joining"]
            /\ UNCHANGED reply
       ELSE Answer(h, "unknown") /\ UNCHANGED <<listed, stopped>>
  /\ UNCHANGED <<diskVars, frameVars, job, loop, up, faults>>

\* After the loop: with no frame at all there is nothing to promote.
Joined(h) ==
  IF persisted = 0
    THEN Answer(h, "nothing")
    ELSE stop' = [stop EXCEPT ![h] = "inserting"] /\ UNCHANGED reply

Join(h) ==
  /\ up /\ stop[h] = "joining" /\ loop = "ended"
  /\ Joined(h)
  /\ UNCHANGED <<diskVars, frameVars, listed, stopped, job, loop, up, faults>>

\* Mutant: the wait for the loop has no timeout.
JoinForever(h) == h \in {} /\ UNCHANGED vars

\* 2 s on, wait_for cancels the task; a step under way goes on in its thread, and
\* its result is dropped.
JoinTimeout(h) ==
  /\ up /\ stop[h] = "joining" /\ loop # "ended"
  /\ loop' = "ended"
  /\ lost' = IF loop = "stepping" THEN lost + 1 ELSE lost
  /\ Joined(h)
  /\ UNCHANGED <<diskVars, queue, accepted, dropped, processed, idle, listed, stopped, job, up, faults>>

\* store.create_job; a second row of the same id is an IntegrityError.
InsertJob(h) ==
  /\ up /\ stop[h] = "inserting"
  /\ \/ /\ job = 0
        /\ job' = persisted
        /\ stop' = [stop EXCEPT ![h] = "marking"]
        /\ UNCHANGED <<reply, faults>>
     \/ job # 0 /\ Answer(h, "error") /\ UNCHANGED <<job, faults>>
     \/ Answer(h, "error") /\ Fault /\ UNCHANGED job
  /\ UNCHANGED <<diskVars, frameVars, listed, stopped, loop, up>>

\* The marker file, after the insert; a write that fails is ignored.
WriteMarker(h) ==
  /\ up /\ stop[h] = "marking"
  /\ \/ marker' = TRUE /\ UNCHANGED faults
     \/ marker' = FALSE /\ Fault
  /\ stop' = [stop EXCEPT ![h] = "announcing"]
  /\ UNCHANGED <<persisted, torn, frameVars, listed, stopped, reply, job, loop, up>>

\* bus.publish, and the answer.
Announce(h) ==
  /\ up /\ stop[h] = "announcing"
  /\ \/ Answer(h, "job") /\ UNCHANGED faults
     \/ Answer(h, "error") /\ Fault
  /\ UNCHANGED <<diskVars, frameVars, listed, stopped, job, loop, up>>

-----------------------------------------------------------------------------
(* The job's frames, and the death of the API process *)

\* The files that the worker's *.jpg pattern finds.
Files == persisted + (IF torn THEN 1 ELSE 0)

\* The session was memory only: its frames stay on disk without a row.
ApiDies ==
  /\ up /\ Fault
  /\ up' = FALSE
  /\ listed' = FALSE
  /\ loop' = "ended"
  /\ torn' \in IF stopped THEN {torn} ELSE {torn, TRUE}
  /\ UNCHANGED <<persisted, marker, frameVars, stopped, stop, reply, job>>

-----------------------------------------------------------------------------
LoopStep == LoopHead \/ Take \/ TakeTimeout

StopStep(h) == Join(h) \/ JoinTimeout(h) \/ InsertJob(h) \/ WriteMarker(h) \/ Announce(h)

Next ==
  \/ Push \/ GoIdle
  \/ LoopStep \/ StepReturns \/ StepRaises
  \/ \E h \in Stoppers : StopPop(h) \/ StopStep(h)
  \/ ApiDies

Spec == Init /\ [][Next]_vars

\* The API's event loop runs the capture loop and the stop handlers.  Nothing
\* makes a tracker step return.
FairSpec == Spec /\ WF_vars(LoopStep) /\ \A h \in Stoppers : WF_vars(StopStep(h))

-----------------------------------------------------------------------------
(* Properties *)

\* _finalize_to_disk: from its insert on, the row counts exactly the whole
\* frames on disk, and without a failed write no other file is beside them: no
\* frame of a socket that is still open lands after the count was taken.
JobSeesAll ==
  job # 0 => persisted = job /\ (faults = 0 => Files = job)

\* The stats event: every frame that was pushed is waiting, in the tracker,
\* processed, counted as dropped, or lost to a raise or a cancellation.
FramesAccounted ==
  up => accepted = queue + dropped + processed + lost + (IF loop = "stepping" THEN 1 ELSE 0)

\* stop: the loop is over before the job exists, so that nothing feeds the
\* tracker or emits to the page while a worker has the frames.
QuietAfterJob == job # 0 => loop = "ended"

\* capture_stop: concurrent stops agree: a job is promised only when its row
\* exists and its marker tells the worker where the frames are, "no frames" only
\* when no row ever will, and no request fails unless a call of its own failed.
AnswersTrue ==
  \A h \in Stoppers :
    /\ reply[h] = "job" => job # 0 /\ (marker \/ faults > 0)
    /\ reply[h] = "nothing" => job = 0 /\ persisted = 0
    /\ reply[h] = "error" => faults > 0

\* stop: a stopped session with frames becomes a job, even when the tracker
\* hangs in a step for ever, unless a call raises or the process dies.
StopPromotes == stopped /\ persisted > 0 ~> job # 0 \/ faults > 0
=============================================================================
