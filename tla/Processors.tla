----------------------------- MODULE Processors -----------------------------
(***************************************************************************)
(* The bodies of the jobs: a SLAM run, a splat training, a LingBot         *)
(* reconstruction, and the live MonoGS session of a capture.  One process  *)
(* runs one of them at a time and they share nothing but the job's context *)
(* (JobContext), so a behaviour is one of the four: `part` says which.     *)
(***************************************************************************)
EXTENDS SlamRun, SplatRun, LingbotRun, MonogsStream

VARIABLE part

procVars == <<part, slamVars, splatVars, botVars, streamVars>>

NoClip == clip = CHOOSE c \in Clips : TRUE
NoSlam == plan = (CHOOSE p \in Plans : TRUE) /\ slam = QueuedSlam
NoSplat == source = (CHOOSE s \in Sources : TRUE) /\ splat = NewSplat(FALSE)

Init ==
  /\ StreamInit
  /\ \/ part = "slam" /\ SlamInit /\ NoSplat /\ BotQueued
     \/ part = "splat" /\ SplatInit /\ NoClip /\ NoSlam /\ BotQueued
     \/ part = "lingbot" /\ LingbotInit /\ NoSlam /\ NoSplat
     \/ part = "stream" /\ CtxInit /\ NoClip /\ NoSlam /\ NoSplat /\ BotQueued

Next ==
  \/ /\ part = "slam" /\ SlamNext
     /\ UNCHANGED <<part, source, splat, bot, watch, snap, streamVars>>
  \/ /\ part = "splat" /\ SplatNext
     /\ UNCHANGED <<part, clip, plan, slam, bot, watch, snap, streamVars>>
  \/ /\ part = "lingbot" /\ LingbotNext
     /\ UNCHANGED <<part, plan, slam, source, splat, streamVars>>
  \/ /\ part = "stream" /\ StreamNext
     /\ UNCHANGED <<part, slamVars, source, splat, bot, watch, snap>>

Spec == Init /\ [][Next]_procVars /\ StreamFairness

-----------------------------------------------------------------------------
(* Properties *)

\* "ready" only with what run_job is to record; a refused training was no job.
Ends(outcome, whole) == IF outcome = "ready" /\ ~whole THEN "incomplete" ELSE outcome

SlamWhole == {"pose_graph", "keyframes", "camera_path"} \subseteq slam.artifacts
SplatWhole == splat.final.it = Iterations
LingbotWhole == {"glb", "ply"} \subseteq bot.made

BodyOutcome ==
  CASE part = "slam" -> Ends(slam.outcome, SlamWhole)
    [] part = "splat" -> IF splat.outcome = "refused" THEN "none" ELSE Ends(splat.outcome, SplatWhole)
    [] part = "lingbot" -> IF bot.at = "ended" THEN Ends(bot.outcome, LingbotWhole) ELSE "none"
    [] part = "stream" -> "none"

\* The stage calls before the run's next look at its token.
Left ==
  CASE part = "slam" -> SlamLeft
    [] part = "splat" -> SplatLeft
    [] part = "lingbot" -> LingbotLeft
    [] part = "stream" -> 0

Body == INSTANCE JobBody WITH asked <- asked, begun <- late, left <- Left, outcome <- BodyOutcome

\* SlamProcessor.run, GsplatProcessor.run, LingbotProcessor.run: whichever processor
\* a job has, it is the one JobLifecycle takes it for, in whatever order stop
\* requests, failing calls, watchdogs and deleted sources come.  After a stop
\* request it makes no subprocess, thread, download, forward or export but those
\* it had still to make before its next ctx.check_cancel (or the look of the hook
\* in the model's forward): every stretch of calls ends in such a look.
ImplementsBody == Body!Spec

\* The most that can be: what a SLAM run or a LingBot reconstruction has to do for
\* all its videos and filters (concat_videos_to_frames never looks), two calls of a
\* SLAM run after that, three of a training's end, four of LingBot's export
\* (export_reconstruction).  A run that has ended may have been stopped in its
\* ingest.
Allowed ==
  CASE part = "slam" ->
         IF slam.at \in {"ingesting", "ended"} THEN Len(clip.videos) + Len(Passes) ELSE 2
    [] part = "splat" -> 3
    [] part = "lingbot" ->
         IF bot.at \in {"ingesting", "ended"} THEN Len(clip.videos) + Len(Passes) ELSE 4
    [] part = "stream" -> 0

\* A stop request is seen soon, wherever it finds the run: what began after it and
\* what may still begin before the run looks are within that bound.
StopsSoon == late + Left <= Allowed
=============================================================================
