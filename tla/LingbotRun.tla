----------------------------- MODULE LingbotRun -----------------------------
(***************************************************************************)
(* One LingBot reconstruction: LingbotProcessor.run                        *)
(* (worker/app/processors/lingbot.py) on the event loop, the inference     *)
(* thread it waits for, the VRAM watchdog beside it and the thread that    *)
(* writes partial clouds (worker/app/pipeline/inference.py, watchdog.py).  *)
(* Streaming mode: the model's forward is called for the scale frames in   *)
(* one batch and then frame by frame.  A cloud is the sequence of frames   *)
(* its points are of, each beside the image that colours it.               *)
(***************************************************************************)
EXTENDS ClipIngest

CONSTANTS
  ScaleFrames,   \* num_scale_frames
  SnapshotEvery  \* partial_snapshot_every

ASSUME LingbotAssumption == SnapshotEvery \in Nat /\ ScaleFrames \in Nat \ {0}

VARIABLES
  bot,    \* the processor's task and the inference thread it waits for
  watch,  \* the watchdog: its task, whether it was told to stop, whether it tripped
  snap    \* the snapshot thread, the partial files and the one last shown

botVars == <<clip, bot, watch, snap, ctxVars>>

NoCloud == [label |-> 0, points |-> <<>>]

BotQueued ==
  /\ bot = [at |-> "queued", outcome |-> "none", total |-> 0, done |-> 0, last |-> 0,
            accum |-> <<>>, spoiled |-> FALSE, heads |-> {}, made |-> {}]
  /\ watch = [at |-> "off", stop |-> FALSE, tripped |-> FALSE]
  /\ snap = [active |-> FALSE, cloud |-> NoCloud, files |-> {}, shown |-> NoCloud]

\* A job with videos, all of whose frames decode: one that does not fails
\* LoadModel.
LingbotInit == ClipInit /\ ~clip.captured /\ clip.bad = {} /\ BotQueued /\ CtxInit

BotEnds(outcome) == bot' = [bot EXCEPT !.at = "ended", !.outcome = outcome, !.accum = <<>>]
BotUnless(s) == IF asked THEN BotEnds("cancelled") ELSE bot' = s

-----------------------------------------------------------------------------
(* LingbotProcessor.run, up to the inference *)

StartLingbot ==
  /\ bot.at = "queued"
  /\ RaiseOr(bot' = [bot EXCEPT !.at = "ingesting"], BotEnds("cancelled"))
  /\ UNCHANGED <<clip, watch, snap>>

\* concat_videos_to_frames, one subprocess or thread of it.
IngestVideos ==
  /\ bot.at = "ingesting"
  /\ \/ IngestStep /\ UNCHANGED bot
     \/ IngestFails /\ BotEnds("failed")
  /\ UNCHANGED <<watch, snap>>

\* The check that follows it.
LeaveVideos ==
  /\ bot.at = "ingesting" /\ Ingested
  /\ BotUnless([bot EXCEPT !.at = "fetching", !.total = Len(clip.frames)])
  /\ UNCHANGED <<clip, watch, snap, ctxVars>>

\* ensure_checkpoint: a download, unless the file is there.  A model it does not
\* know and a failed download raise.
FetchCheckpoint ==
  /\ bot.at = "fetching"
  /\ BotEnds("failed") \/ bot' = [bot EXCEPT !.at = "fetched"]
  /\ Begun \/ UNCHANGED ctxVars
  /\ UNCHANGED <<clip, watch, snap>>

\* The check after it; then the watchdog is started.
StartWatchdog ==
  /\ bot.at = "fetched"
  /\ BotUnless([bot EXCEPT !.at = "loading"])
  /\ watch' = IF asked THEN watch ELSE [watch EXCEPT !.at = "polling"]
  /\ UNCHANGED <<clip, snap, ctxVars>>

-----------------------------------------------------------------------------
(* The inference thread *)

\* What the thread raises or returns, to be passed on after the watchdog.
Unwind(outcome) == bot' = [bot EXCEPT !.at = "unwinding", !.outcome = outcome, !.accum = <<>>]

\* run_inference starts its thread.  No frames, a broken checkpoint or no memory
\* raise.
LoadModel ==
  /\ bot.at = "loading"
  /\ \/ Unwind("failed")
     \/ bot.total > 0 /\ bot' = [bot EXCEPT !.at = "streaming"]
  /\ Begun
  /\ UNCHANGED <<clip, watch, snap>>

\* The frames of the next forward: 1 .. ScaleFrames at first, then one by one.
NextBatch ==
  IF bot.done = 0 THEN IF ScaleFrames < bot.total THEN ScaleFrames ELSE bot.total ELSE 1

\* The accumulated points with the images that colour them, by position.
Coloured(accum) == [i \in DOMAIN accum |-> [frame |-> accum[i], image |-> i]]

\* Mutant: the hook looks only at the watchdog.
ForwardAnyway ==
  /\ bot.at = "streaming" /\ bot.done < bot.total
  /\ ~watch.tripped /\ bot' = [bot EXCEPT !.at = "forwarding"]
  /\ Begun
  /\ UNCHANGED <<clip, watch, snap>>

\* The head of _hooked_forward: the token, the watchdog, then the model's own
\* forward begins.
BeginForward ==
  /\ bot.at = "streaming" /\ bot.done < bot.total
  /\ RaiseOr(IF watch.tripped THEN Unwind("failed") ELSE bot' = [bot EXCEPT !.at = "forwarding"],
             Unwind("cancelled"))
  /\ UNCHANGED <<clip, watch, snap>>

\* The hook's end: a snapshot is due SnapshotEvery frames after the last one was
\* due, never at the last frame, and is skipped while one is being written.
SnapshotDue(done) == SnapshotEvery > 0 /\ done < bot.total /\ done - bot.last >= SnapshotEvery

Count(accum, done) ==
  /\ bot' = [bot EXCEPT !.at = "streaming", !.accum = accum, !.done = done,
                        !.last = IF SnapshotDue(done) THEN done ELSE @,
                        !.spoiled = @ \/ Len(accum) # done]
  /\ IF SnapshotDue(done) /\ ~snap.active
       THEN /\ snap' = [snap EXCEPT !.active = TRUE,
                          !.cloud = [label |-> done, points |-> Coloured(accum)]]
            /\ Begun
       ELSE UNCHANGED <<snap, ctxVars>>

\* orig_forward may raise (out of memory); the copy of its points to the CPU may
\* fail, which is swallowed.
EndForward ==
  /\ bot.at = "forwarding"
  /\ \/ Unwind("failed") /\ UNCHANGED <<snap, ctxVars>>
     \/ LET done == bot.done + NextBatch
            batch == [i \in 1 .. NextBatch |-> bot.done + i]
        IN Count(bot.accum \o batch, done) \/ Count(bot.accum, done)
  /\ UNCHANGED <<clip, watch>>

\* The predictions are taken apart, the accumulators cleared, the cache written.
\* Which kinds of geometry there are is up to the model.
InferenceReturns ==
  /\ bot.at = "streaming" /\ bot.done = bot.total
  /\ \/ Unwind("failed")
     \/ \E heads \in {{}, {"depth"}, {"world_points"}} :
          bot' = [bot EXCEPT !.at = "unwinding", !.outcome = "none", !.accum = <<>>, !.heads = heads]
  /\ UNCHANGED <<clip, watch, snap, ctxVars>>

-----------------------------------------------------------------------------
(* The thread that writes partial clouds *)

\* Mutant: the lists are not copied before the thread starts.
PublishLive ==
  /\ snap.active
  /\ snap' = [snap EXCEPT !.active = FALSE, !.files = @ \cup {snap.cloud.label},
                !.shown = [label |-> snap.cloud.label, points |-> Coloured(bot.accum)]]
  /\ UNCHANGED <<clip, bot, watch, ctxVars>>

\* It writes the file and announces it, whatever the job does meanwhile.
PublishPartial ==
  /\ snap.active
  /\ snap' = [snap EXCEPT !.active = FALSE, !.files = @ \cup {snap.cloud.label},
                !.shown = snap.cloud, !.cloud = NoCloud]
  /\ UNCHANGED <<clip, bot, watch, ctxVars>>

\* No point is confident enough, or the write fails.
NoPartial ==
  /\ snap.active
  /\ snap' = [snap EXCEPT !.active = FALSE, !.cloud = NoCloud]
  /\ UNCHANGED <<clip, bot, watch, ctxVars>>

-----------------------------------------------------------------------------
(* run_vram_watchdog *)

\* One reading: over the soft limit it trips, once.  Without a GPU there is none.
PollVram ==
  /\ watch.at = "polling"
  /\ IF watch.stop THEN watch' = [watch EXCEPT !.at = "gone"]
     ELSE \E over \in BOOLEAN :
            watch' = [watch EXCEPT !.at = "waiting", !.tripped = @ \/ over]
  /\ UNCHANGED <<clip, bot, snap, ctxVars>>

\* The interval is over, or the stop is seen and the loop ends.
WatchdogWakes ==
  /\ watch.at = "waiting"
  /\ watch' = [watch EXCEPT !.at = "polling"]
  /\ UNCHANGED <<clip, bot, snap, ctxVars>>

-----------------------------------------------------------------------------
(* LingbotProcessor.run, after the inference *)

\* The finally: stop the watchdog and wait for it, five seconds at most; a task
\* still busy (in a publish) is cancelled.  Then the thread's exception, or the
\* check.
StopWatchdog ==
  /\ bot.at = "unwinding" /\ ~watch.stop
  /\ watch' = [watch EXCEPT !.stop = TRUE]
  /\ UNCHANGED <<clip, bot, snap, ctxVars>>

LeaveInference ==
  /\ bot.at = "unwinding" /\ watch.stop
  /\ watch' = [watch EXCEPT !.at = "gone"]
  /\ IF bot.outcome # "none" THEN BotEnds(bot.outcome)
     ELSE BotUnless([bot EXCEPT !.at = "exporting"])
  /\ UNCHANGED <<clip, snap, ctxVars>>

\* _ensure_world_points_for_export: points are made of the depth if need be.
WithWorldPoints(heads) == IF "depth" \in heads THEN heads \cup {"world_points"} ELSE heads

\* _scene_from_predictions raises without them.
Exportable == "world_points" \in WithWorldPoints(bot.heads)

\* export_reconstruction runs each of its stages in a thread (_run_stage), none
\* behind a check: the sky is masked, if the job has mask_sky, ...
MaskSky ==
  /\ bot.at = "exporting"
  /\ \/ Begun /\ (BotEnds("failed") \/ bot' = [bot EXCEPT !.at = "exporting_glb"])
     \/ bot' = [bot EXCEPT !.at = "exporting_glb"] /\ UNCHANGED ctxVars
  /\ UNCHANGED <<clip, watch, snap>>

WriteGlb ==
  /\ bot.at = "exporting_glb"
  /\ \/ BotEnds("failed")
     \/ Exportable /\ bot' = [bot EXCEPT !.at = "exporting_ply", !.made = @ \cup {"glb"}]
  /\ Begun
  /\ UNCHANGED <<clip, watch, snap>>

WritePly ==
  /\ bot.at = "exporting_ply"
  /\ \/ BotEnds("failed")
     \/ bot' = [bot EXCEPT !.at = "exporting_path", !.made = @ \cup {"ply"}]
  /\ Begun
  /\ UNCHANGED <<clip, watch, snap>>

\* ... and camera_path.json, without which the export goes on.
WriteCameraPath ==
  /\ bot.at = "exporting_path"
  /\ \E path \in {{}, {"camera_path"}} :
       bot' = [bot EXCEPT !.at = "cleaning_up", !.made = @ \cup path]
  /\ Begun
  /\ UNCHANGED <<clip, watch, snap>>

\* The partial clouds that are there go, and the reconstruction is announced.
RemovePartials ==
  /\ bot.at = "cleaning_up"
  /\ BotEnds("ready") /\ snap' = [snap EXCEPT !.files = {}]
  /\ UNCHANGED <<clip, watch, ctxVars>>

\* The stage calls before the next look at the token, or before the end.
LingbotLeft ==
  CASE bot.at = "ingesting" -> IngestLeft
    [] bot.at \in {"fetching", "loading", "forwarding", "exporting_path"} -> 1
    [] bot.at = "exporting" -> 4
    [] bot.at = "exporting_glb" -> 3
    [] bot.at = "exporting_ply" -> 2
    [] OTHER -> 0

AskLingbotStop ==
  /\ bot.at # "ended" /\ Request
  /\ UNCHANGED <<clip, bot, watch, snap>>

LingbotNext ==
  \/ StartLingbot \/ IngestVideos \/ LeaveVideos \/ FetchCheckpoint \/ StartWatchdog
  \/ LoadModel \/ BeginForward \/ EndForward \/ InferenceReturns
  \/ PublishPartial \/ NoPartial \/ PollVram \/ WatchdogWakes
  \/ StopWatchdog \/ LeaveInference
  \/ MaskSky \/ WriteGlb \/ WritePly \/ WriteCameraPath \/ RemovePartials \/ AskLingbotStop

LingbotSpec == LingbotInit /\ [][LingbotNext]_botVars

-----------------------------------------------------------------------------
LingbotTypeOK ==
  /\ bot.at \in {"queued", "ingesting", "fetching", "fetched", "loading", "streaming",
                 "forwarding", "unwinding", "exporting", "exporting_glb", "exporting_ply",
                 "exporting_path", "cleaning_up", "ended"}
  /\ bot.outcome \in {"none", "failed", "cancelled", "ready"}
  /\ bot.done \in 0 .. bot.total
  /\ watch.at \in {"off", "polling", "waiting", "gone"}
  /\ CtxTypeOK

\* A partial cloud announced for frame d holds exactly the frames 1 .. d, each
\* with the colours of its own image, however far the inference thread got while
\* it was written (_spawn_snapshot freezes the lists): unless a copy to the CPU
\* failed, which shifts the colours of all later frames.
PartialIsWhole ==
  ~bot.spoiled =>
    /\ Len(snap.shown.points) = snap.shown.label
    /\ \A i \in DOMAIN snap.shown.points : snap.shown.points[i] = [frame |-> i, image |-> i]
=============================================================================
