------------------------------ MODULE SlamRun ------------------------------
(***************************************************************************)
(* One SLAM job inside run_job: SlamProcessor.run                          *)
(* (worker/app/processors/slam/base.py) from the ingest of the clip to the *)
(* pose graph it exports, with the tracking sessions it may drive.  MonoGS *)
(* (worker/app/processors/gsplat/monogs.py) tracks in one subprocess.      *)
(*                                                                         *)
(* A frame is its number in the ingested clip.  Images, poses and points   *)
(* are not modelled: a pose is the frame it was computed from.  What the   *)
(* trackers decide inside is external and a choice here.                   *)
(***************************************************************************)
EXTENDS ClipIngest

CONSTANT Strides \* values of the stride knob

ASSUME SlamAssumption == Strides \subseteq Nat \ {0}

VARIABLES
  plan,   \* the job's configuration
  slam    \* where the run is and what it has made

slamVars == <<clip, plan, slam, ctxVars>>

Backends == {"dpvo", "droid", "mast3r", "monogs"}

Plans == [backend : Backends, stride : Strides, max : {2, 99}, gated : BOOLEAN,
          quantile : {0, 50, 100}, every : {2}]

QueuedSlam ==
  [at |-> "queued", outcome |-> "none", selected |-> <<>>, paths |-> <<>>, next |-> 1,
   given |-> <<>>, poses |-> <<>>, keyframes |-> <<>>, shown |-> 0, rows |-> <<>>,
   artifacts |-> {}]

SlamInit ==
  /\ ClipInit /\ plan \in Plans
  /\ (plan.gated <=> plan.quantile > 0)
  /\ slam = QueuedSlam
  /\ CtxInit

End(outcome) == [slam EXCEPT !.at = "ended", !.outcome = outcome]

\* ctx.check_cancel, then s.
Unless(s) == slam' = IF asked THEN End("cancelled") ELSE s

-----------------------------------------------------------------------------
(* Which frames are tracked *)

\* `list[::stride][:max]`
EveryNth(s, stride) ==
  [i \in 1 .. (Len(s) + stride - 1) \div stride |-> s[(i - 1) * stride + 1]]
Capped(s, max) == SubSeq(s, 1, IF Len(s) < max THEN Len(s) ELSE max)

\* _score_all: an unreadable frame scores 0; the quality is the sharpness over
\* the clip's median, which orders the frames as the sharpness does.
Quality(f) == IF f \in clip.bad THEN 0 ELSE IF f \in clip.sharp THEN 2 ELSE 1

\* The value at int(quantile * (len - 1)) of the sorted qualities.
Cutoff ==
  LET n == Len(clip.frames)
      k == (plan.quantile * (n - 1)) \div 100
      Below(q) == Cardinality({f \in Frames(n) : Quality(f) < q})
  IN CHOOSE q \in 0 .. 2 : Below(q) <= k /\ k < Below(q + 1)

ScoreKeeps(f) == Quality(f) >= Cutoff

\* _gate_frames: by the scores, if the clip was scored at ingest.
Selected ==
  LET all == [i \in 1 .. Len(clip.frames) |-> i - 1]
      kept == IF plan.gated /\ clip.scored > 0 /\ all # <<>>
                THEN Picked(all, {i \in DOMAIN all : ScoreKeeps(all[i])}) ELSE all
  IN Capped(EveryNth(kept, plan.stride), plan.max)

\* Mutant: files that do not decode are left out when the paths are resolved.
ReadablePaths(indices) == Picked(indices, {i \in DOMAIN indices : indices[i] \notin clip.bad})

\* _resolve_frame_paths: the i-th image in name order is frame i.
ResolveFramePaths(indices) ==
  Picked(indices, {i \in DOMAIN indices : indices[i] \in Frames(Len(clip.frames))})

-----------------------------------------------------------------------------
(* SlamProcessor.run *)

StartSlam ==
  /\ slam.at = "queued"
  /\ RaiseOr(slam' = [slam EXCEPT !.at = "ingesting"], slam' = End("cancelled"))
  /\ UNCHANGED <<clip, plan>>

\* One subprocess or thread of the ingest; one that raises ends the run.
IngestClip ==
  /\ slam.at = "ingesting"
  /\ \/ IngestStep /\ UNCHANGED slam
     \/ IngestFails /\ slam' = End("failed")
  /\ UNCHANGED plan

\* Mutant: the check after the ingest is missing.
LeaveAnyway ==
  /\ slam.at = "ingesting" /\ Ingested
  /\ slam' = [slam EXCEPT !.at = "gating"]
  /\ UNCHANGED <<clip, plan, ctxVars>>

\* _ingest returns, at once if a capture left its frames: only now is there a
\* cancel check.
LeaveIngest ==
  /\ slam.at = "ingesting" /\ Ingested
  /\ Unless([slam EXCEPT !.at = "gating"])
  /\ UNCHANGED <<clip, plan, ctxVars>>

GateFrames ==
  /\ slam.at = "gating"
  /\ slam' = [slam EXCEPT !.at = "seeding", !.selected = Selected]
  /\ UNCHANGED <<clip, plan, ctxVars>>

\* The head of _track: no session, no frames or an unreadable first one raise.
\* session.start is a thread; MonoGS has no session.
SeedSession ==
  /\ slam.at = "seeding"
  /\ LET paths == ResolveFramePaths(slam.selected)
         seeded == paths # <<>> /\ Head(paths) \notin clip.bad
     IN \/ slam' = End("failed") /\ UNCHANGED ctxVars
        \/ /\ seeded /\ plan.backend = "monogs"
           /\ slam' = [slam EXCEPT !.paths = paths, !.at = "batch"]
           /\ UNCHANGED ctxVars
        \/ /\ seeded /\ plan.backend # "monogs"
           /\ slam' \in {End("failed"), [slam EXCEPT !.paths = paths, !.at = "tracking"]}
           /\ Begun
  /\ UNCHANGED <<clip, plan>>

\* DpvoCudaSession.step, DroidCudaSession.step: which frames count as keyframes
\* goes by the index the session is called with; MASt3R decides for itself.
KeyframeOf(idx) ==
  CASE plan.backend = "dpvo" -> {idx % 6 = 0}
    [] plan.backend = "droid" -> {idx % 4 = 0}
    [] plan.backend = "mast3r" -> BOOLEAN

\* One iteration over zip(indices, frame_paths): session.step(idx, image).
BeginStep ==
  /\ slam.at = "tracking" /\ slam.next <= Len(slam.paths)
  /\ RaiseOr(slam' = IF slam.paths[slam.next] \in clip.bad
                       THEN [slam EXCEPT !.next = @ + 1] ELSE [slam EXCEPT !.at = "stepping"],
             slam' = End("cancelled"))
  /\ UNCHANGED <<clip, plan>>

\* A partial cloud is due with every n-th keyframe.
Due(keyframes) == plan.every > 0 /\ keyframes % plan.every = 0

\* A step that raises inside the tracker is logged and gives an empty update.
\* Every keyframe_count % every, a thread writes all keyframes so far; the
\* sessions whose poses come only at the end (DPVO, DROID) count none.  MASt3R is
\* taken to give a pose with every frame it does not raise on.
EndStep ==
  /\ slam.at = "stepping"
  /\ LET idx == slam.selected[slam.next]
         image == slam.paths[slam.next]
         moved == [slam EXCEPT !.at = "tracking", !.next = @ + 1]
     IN \/ slam' = moved /\ UNCHANGED ctxVars
        \/ \E key \in KeyframeOf(idx) :
             LET kfs == IF key THEN Append(slam.keyframes, idx) ELSE slam.keyframes
                 shows == key /\ plan.backend = "mast3r" /\ Due(Len(kfs))
             IN /\ \/ slam' = [moved EXCEPT
                                 !.given = Append(@, <<idx, image>>),
                                 !.poses = Append(@, image),
                                 !.keyframes = kfs,
                                 !.shown = IF shows THEN Len(kfs) ELSE @]
                   \/ shows /\ slam' = End("failed")
                /\ IF shows THEN Begun ELSE UNCHANGED ctxVars
  /\ UNCHANGED <<clip, plan>>

\* The check after the last frame.
LeaveTracking ==
  /\ slam.at = "tracking" /\ slam.next > Len(slam.paths)
  /\ Unless([slam EXCEPT !.at = "finalising"])
  /\ UNCHANGED <<clip, plan, ctxVars>>

\* session.finalize: it may raise inside, which leaves what was recorded.  DPVO
\* and DROID hand over a trajectory of all tracked frames (or none), MASt3R its
\* own poses and keyframe indices, or those recorded step by step.
FinaliseSession ==
  /\ slam.at = "finalising"
  /\ \E made \in {[poses |-> slam.poses, keyframes |-> slam.keyframes]}
                 \cup (IF plan.backend \in {"dpvo", "droid"}
                         THEN {[poses |-> <<>>, keyframes |-> slam.keyframes]}
                         ELSE {[poses |-> slam.poses,
                                keyframes |-> [i \in DOMAIN slam.poses |-> i - 1]]}) :
       slam' = [slam EXCEPT !.at = "tracked", !.poses = made.poses,
                            !.keyframes = made.keyframes]
  /\ Begun
  /\ UNCHANGED <<clip, plan>>

\* _load_trajectory: the poses of some of the frames, in their order, or none.
Trajectories == {Picked(slam.paths, kept) : kept \in SUBSET DOMAIN slam.paths}

\* run_monogs_batch: a thread installs the frames, of which there must be five ...
EnoughFrames == Len(slam.paths) >= 5

InstallFrames ==
  /\ slam.at = "batch"
  /\ \/ slam' = End("failed")
     \/ EnoughFrames /\ slam' = [slam EXCEPT !.at = "launching"]
  /\ Begun
  /\ UNCHANGED <<clip, plan>>

\* ... and a subprocess that no stop request reaches leaves its splat, which must
\* be there.  The rows of a trajectory are numbered 0, 1, ... whatever frames
\* they are of; without one there is a single pose.
RunBatch ==
  /\ slam.at = "launching"
  /\ \/ slam' = End("failed")
     \/ \E trajectory \in Trajectories :
          LET poses == IF trajectory = <<>> THEN <<Head(slam.paths)>> ELSE trajectory
          IN slam' = [slam EXCEPT !.at = "tracked", !.poses = poses,
                        !.keyframes = [i \in DOMAIN poses |-> i - 1]]
  /\ Begun
  /\ UNCHANGED <<clip, plan>>

CheckTracked ==
  /\ slam.at = "tracked"
  /\ Unless([slam EXCEPT !.at = "exporting"])
  /\ UNCHANGED <<clip, plan, ctxVars>>

\* write_pose_graph and write_keyframes_jsonl: the row of every keyframe slot
\* that has a pose names a source frame.
SourceFrame(kf) ==
  IF kf < Len(slam.selected) THEN slam.selected[kf + 1] ELSE kf

PoseRows ==
  LET slots == IF Len(slam.keyframes) < Len(slam.poses) THEN Len(slam.keyframes) ELSE Len(slam.poses)
  IN [i \in 1 .. slots |-> [pose |-> slam.poses[i], source |-> SourceFrame(slam.keyframes[i])]]

\* write_all: what is written and listed.  Only MonoGS has a splat, and no cloud.
Artifacts(points) ==
  {"pose_graph", "keyframes", "camera_path"}
  \cup (IF points THEN {"cloud"} ELSE {})
  \cup (IF plan.backend = "monogs" THEN {"splat"} ELSE {})

\* _export, after the await of set_status("export"): one thread, which may raise.
\* run_poisson_mesh finds no surface_recon to import and makes nothing.
ExportSlam ==
  /\ slam.at = "exporting"
  /\ \/ slam' = End("failed")
     \/ \E points \in IF plan.backend = "monogs" THEN {FALSE} ELSE BOOLEAN :
          slam' = [End("ready") EXCEPT !.rows = PoseRows, !.artifacts = Artifacts(points)]
  /\ Begun
  /\ UNCHANGED <<clip, plan>>

\* The stage calls before the next ctx.check_cancel().
SlamLeft ==
  CASE slam.at = "ingesting" -> IngestLeft
    [] slam.at \in {"gating", "seeding"} -> IF plan.backend = "monogs" THEN 2 ELSE 1
    [] slam.at = "batch" -> 2
    [] slam.at \in {"launching", "finalising", "exporting"} -> 1
    [] slam.at = "stepping" -> IF plan.backend = "mast3r" THEN 1 ELSE 0
    [] OTHER -> 0

AskSlamStop == slam.at # "ended" /\ Request /\ UNCHANGED <<clip, plan, slam>>

SlamNext ==
  \/ StartSlam \/ IngestClip \/ LeaveIngest \/ GateFrames \/ SeedSession
  \/ BeginStep \/ EndStep \/ LeaveTracking \/ FinaliseSession \/ InstallFrames \/ RunBatch
  \/ CheckTracked \/ ExportSlam \/ AskSlamStop

SlamSpec == SlamInit /\ [][SlamNext]_slamVars

-----------------------------------------------------------------------------
SlamTypeOK ==
  /\ slam.at \in {"queued", "ingesting", "gating", "seeding", "tracking", "stepping",
                  "finalising", "batch", "launching", "tracked", "exporting", "ended"}
  /\ slam.outcome \in {"none", "ready", "failed", "cancelled"}
  /\ CtxTypeOK

\* The tracker is given every image under its own number, in clip order, so that
\* a keyframe's number finds its photo again; the numbers and the scores are of
\* the frames as they are tracked, and the gate leaves something to track in
\* every clip that has a frame.
TracksItsFrames ==
  /\ \A i \in DOMAIN slam.given : slam.given[i][1] = slam.given[i][2]
  /\ slam.at \in {"tracking", "stepping", "finalising", "batch", "launching", "tracked"} =>
       \A i, j \in DOMAIN slam.selected : i < j => slam.selected[i] < slam.selected[j]
  /\ slam.at \in {"gating", "seeding", "tracking", "batch"} => FramesReady
  /\ slam.at \in {"seeding", "tracking"} /\ clip.frames # <<>> => slam.selected # <<>>

\* write_pose_graph says of a row that it holds "the source frame index each
\* keyframe came from", beside that keyframe's pose.  Here of the sessions that
\* choose their keyframes in this repository.
RowsNameTheirFrames == plan.backend \in {"dpvo", "droid"} =>
  \A i \in DOMAIN slam.rows : slam.rows[i].source = slam.rows[i].pose
=============================================================================
