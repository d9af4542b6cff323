-------------------------- MODULE ProcessorsProofs --------------------------
(***************************************************************************)
(* Theorems about the processors, for every configuration, clip, source,   *)
(* interval and number of frames.                                          *)
(***************************************************************************)
EXTENDS Processors, FiniteSetTheorems, WellFoundedInduction, TLAPS

-----------------------------------------------------------------------------
(* The token and what is counted under it *)

\* What begins is counted from the stop request on.
ContextInv == asked \in BOOLEAN /\ late \in Nat /\ (~asked => late = 0)

LEMMA ContextInit == Init => ContextInv
<1> SUFFICES ASSUME Init PROVE ContextInv
  OBVIOUS
<1>1. asked = FALSE /\ late = 0
  BY DEF Init, LingbotInit, SlamInit, SplatInit, CtxInit
<1> QED BY <1>1 DEF ContextInv

CtxMoves == UNCHANGED ctxVars \/ Begun \/ Request

LEMMA IngestMoves ==
  ASSUME IngestStep \/ IngestFails
  PROVE  UNCHANGED ctxVars \/ Begun
<1>1. CASE IngestFails
  BY <1>1 DEF IngestFails
<1>2. CASE IngestStep
  <2>1. ASSUME NEW filter, NEW clips, NoFrames(filter) \/ OnFrames(clips)
        PROVE  UNCHANGED ctxVars \/ Begun
    BY <2>1 DEF NoFrames, OnFrames
  <2>2. CASE ExtractVideo
    BY <2>2 DEF ExtractVideo
  <2>3. CASE FindOverlay \/ InpaintOverlay \/ NormaliseColour
    BY <2>1, <2>3 DEF FindOverlay, InpaintOverlay, NormaliseColour
  <2>4. CASE EstimateShear \/ CorrectShear \/ Deblur
    BY <2>1, <2>4 DEF EstimateShear, CorrectShear, Deblur
  <2>5. CASE ScoreFrames
    BY <2>5 DEF ScoreFrames
  <2> QED BY <1>2, <2>2, <2>3, <2>4, <2>5 DEF IngestStep
<1> QED BY <1>1, <1>2

LEMMA SlamMoves == ASSUME SlamNext PROVE CtxMoves
<1>1. CASE StartSlam \/ LeaveIngest \/ GateFrames \/ BeginStep \/ LeaveTracking \/ CheckTracked
  BY <1>1 DEF StartSlam, LeaveIngest, GateFrames, BeginStep, LeaveTracking, CheckTracked, RaiseOr,
              CtxMoves
<1>2. CASE IngestClip
  BY <1>2, IngestMoves DEF IngestClip, CtxMoves
<1>3. CASE SeedSession
  BY <1>3 DEF SeedSession, CtxMoves
<1>4. CASE EndStep
  BY <1>4 DEF EndStep, CtxMoves
<1>5. CASE FinaliseSession \/ InstallFrames \/ RunBatch \/ ExportSlam \/ AskSlamStop
  BY <1>5 DEF FinaliseSession, InstallFrames, RunBatch, ExportSlam, AskSlamStop, CtxMoves
<1> QED BY <1>1, <1>2, <1>3, <1>4, <1>5 DEF SlamNext

LEMMA SplatMoves == ASSUME SplatNext PROVE CtxMoves
BY DEF SplatNext, AskSplat, ResolveAgain, TrainerUnavailable, Prepare, TrainStep, Preview,
       LeaveTraining, WriteSplat, WriteCameras, WriteCompressed, AskSplatStop, DropSourceRow,
       DropSourceFile, RaiseOr, CtxMoves

LEMMA LingbotMoves == ASSUME LingbotNext PROVE CtxMoves
<1>1. CASE IngestVideos
  BY <1>1, IngestMoves DEF IngestVideos, CtxMoves
<1>2. CASE StartLingbot \/ LeaveVideos \/ FetchCheckpoint \/ StartWatchdog \/ LoadModel \/ BeginForward
  BY <1>2 DEF StartLingbot, LeaveVideos, FetchCheckpoint, StartWatchdog, LoadModel, BeginForward,
              RaiseOr, CtxMoves
<1>3. CASE EndForward
  BY <1>3 DEF EndForward, Count, CtxMoves
<1>4. CASE \/ InferenceReturns \/ PublishPartial \/ NoPartial \/ PollVram \/ WatchdogWakes
           \/ StopWatchdog \/ LeaveInference \/ RemovePartials \/ AskLingbotStop
  BY <1>4 DEF InferenceReturns, PublishPartial, NoPartial, PollVram, WatchdogWakes, StopWatchdog,
              LeaveInference, RemovePartials, AskLingbotStop, CtxMoves
<1>5. CASE MaskSky \/ WriteGlb \/ WritePly \/ WriteCameraPath
  BY <1>5 DEF MaskSky, WriteGlb, WritePly, WriteCameraPath, CtxMoves
<1> QED BY <1>1, <1>2, <1>3, <1>4, <1>5 DEF LingbotNext

LEMMA ContextStep == ContextInv /\ [Next]_procVars => ContextInv'
<1> SUFFICES ASSUME ContextInv, [Next]_procVars PROVE ContextInv'
  OBVIOUS
<1>1. CtxMoves
  BY SlamMoves, SplatMoves, LingbotMoves
     DEF Next, CtxMoves, procVars, slamVars
<1>2. CASE UNCHANGED ctxVars
  BY <1>2 DEF ContextInv, ctxVars
<1>3. CASE Begun
  BY <1>3 DEF ContextInv, Begun
<1>4. CASE Request
  BY <1>4 DEF ContextInv, Request
<1> QED BY <1>1, <1>2, <1>3, <1>4 DEF CtxMoves

-----------------------------------------------------------------------------
(* The splat *)

SplatFields == DOMAIN splat = DOMAIN NewSplat(TRUE)

\* A training's parameters are as of its last step, and the cache, unless it is
\* marked stale, holds them.
SplatInv ==
  /\ SplatFields
  /\ "cloud" \in DOMAIN source /\ source.cloud \in Nat
  /\ splat.n \in Nat /\ splat.it \in Nat
  /\ splat.version = splat.it
  /\ splat.at \in {"asking", "queued", "resolved"} => splat.it = 0
  /\ splat.at \in {"writing_splat", "writing_cameras", "writing_compressed"} => splat.it = Iterations
  /\ splat.at \in {"writing_cameras", "writing_compressed"} =>
       splat.final = [it |-> Iterations, version |-> splat.version, n |-> splat.n]
  /\ ~splat.dirty => splat.cached = [version |-> splat.version, n |-> splat.n]
  /\ splat.dirty \in BOOLEAN
  /\ splat.shown.version = splat.shown.it
  /\ PreviewCap > 0 => splat.shown.n <= PreviewCap
  /\ splat.outcome = "ready" =>
       /\ splat.at = "ended"
       /\ splat.final = [it |-> Iterations, version |-> splat.version, n |-> splat.n]

\* Thinning to a cap leaves no more than the cap.
LEMMA ThinnedWithin ==
  ASSUME NEW n \in Nat, NEW cap \in Nat, cap > 0
  PROVE  Thinned(n, cap) \in Nat /\ Thinned(n, cap) <= cap
<1>1. CASE n <= cap
  BY <1>1 DEF Thinned
<1>2. CASE n > cap
  <2> DEFINE q == n \div cap
             step == q + 1
             most == (n + step - 1) \div step
  <2>1. q \in Nat /\ n < cap * q + cap
    OBVIOUS
  <2>2. most \in Nat /\ step * most <= n + step - 1
    BY <2>1
  <2>3. Thinned(n, cap) = most
    BY <1>2 DEF Thinned
  <2>4. n + step - 1 < cap * step + step
    <3>1. cap * step = cap * q + cap
      BY <2>1
    <3> QED BY <2>1, <3>1
  <2>5. step * most < step * (cap + 1)
    <3>1. step * (cap + 1) = cap * step + step
      BY <2>1
    <3>2. step * most \in Nat /\ cap * step \in Nat /\ step \in Nat
      BY <2>1, <2>2
    <3> HIDE DEF step, most
    <3> QED BY <2>2, <2>4, <3>1, <3>2
  <2>6. most <= cap
    <3>1. SUFFICES ASSUME most >= cap + 1 PROVE FALSE
      BY <2>2
    <3>2. PICK d \in Nat : most = cap + 1 + d
      <4>1. most - (cap + 1) \in Nat /\ most = cap + 1 + (most - (cap + 1))
        BY <2>2, <3>1
      <4> QED BY <4>1
    <3>3. step * most = step * (cap + 1) + step * d /\ step * d \in Nat
      BY <2>1, <3>2
    <3> QED BY <2>5, <3>3, <2>1
  <2> QED BY <2>2, <2>3, <2>6
<1> QED BY <1>1, <1>2

LEMMA SplatInitInv == Init => SplatInv
<1> SUFFICES ASSUME Init PROVE SplatInv
  OBVIOUS
<1>1. source \in Sources
  <2>1. [row |-> TRUE, photos |-> {}, files |-> {}, cloud |-> 0, cameras |-> <<>>] \in Sources
    BY DEF Sources
  <2> HIDE DEF Sources
  <2>2. Sources # {}
    BY <2>1
  <2> QED BY <2>2 DEF Init, SplatInit, NoSplat
<1>2. PICK random \in BOOLEAN : splat = NewSplat(random)
  BY DEF Init, SplatInit, NoSplat
<1>3. "cloud" \in DOMAIN source /\ source.cloud \in Nat
  BY <1>1 DEF Sources
<1>4. SplatFields
  BY <1>2 DEF SplatFields, NewSplat
<1>5. /\ splat.n = 0 /\ splat.it = 0 /\ splat.version = 0 /\ splat.dirty = TRUE
      /\ splat.shown = NothingShown /\ splat.outcome = "none"
  BY <1>2 DEF NewSplat
<1>6. /\ splat.shown.version = 0 /\ splat.shown.it = 0 /\ splat.shown.n = 0
  BY <1>5 DEF NothingShown
<1>7. splat.dirty \in BOOLEAN /\ splat.dirty
  BY <1>5
<1>8. PreviewCap \in Nat
  BY SplatAssumption
<1>9. /\ splat.outcome # "ready"
      /\ splat.at \notin {"writing_splat", "writing_cameras", "writing_compressed"}
  <2>1. splat.at = "asking"
    BY <1>2 DEF NewSplat
  <2> QED BY <1>5, <2>1
<1>10. splat.n \in Nat /\ splat.it = 0 /\ splat.version = 0
  BY <1>5
<1> QED BY ONLY <1>3, <1>4, <1>6, <1>7, <1>8, <1>9, <1>10 DEF SplatInv

\* Training sizes are numbers.
LEMMA SizesAreNat ==
  ASSUME NEW it \in Nat, NEW n \in Nat, NEW m \in SizesAfter(it, n)
  PROVE  m \in Nat
<1>1. Densified(n) \in Nat
  BY DEF Densified
<1>2. PICK grown \in Nat : m \in {0, grown \div 2, grown}
  BY <1>1 DEF SizesAfter
<1> QED BY <1>2

\* The end of a training, unless it is ready, leaves its parameters and what was
\* shown of them.
LEMMA EndKeepsSplat ==
  ASSUME SplatInv, NEW outcome \in {"refused", "failed", "cancelled"}, EndTraining(outcome),
         "cloud" \in DOMAIN source', source'.cloud \in Nat
  PROVE  SplatInv'
BY DEF SplatInv, SplatFields, EndTraining, NewSplat

\* What a preparation, and a step, that do not end the training do to it.
LEMMA Prepared ==
  ASSUME Prepare, ~EndTraining("failed")
  PROVE  \E n \in {3, SeedPoints} : \E paths, cameras :
           splat' = [splat EXCEPT !.at = "training", !.n = n, !.paths = paths,
                       !.cameras = cameras,
                       !.cached = [version |-> 0, n |-> n], !.dirty = FALSE]
BY DEF Prepare

LEMMA Trained ==
  ASSUME TrainStep, ~EndTraining("failed"), ~(EndTraining("cancelled") /\ asked)
  PROVE  /\ ~asked
         /\ \E cam \in DOMAIN splat.cameras :
              \E n \in SizesAfter(splat.it + 1, splat.n) :
                splat' = [Stepped(splat, n, splat.cameras[cam]) EXCEPT
                            !.at = IF (splat.it + 1) % PreviewEvery = 0 THEN "previewing" ELSE "training"]
BY DEF TrainStep, RaiseOr

\* Every step of the trainer keeps the invariant of its parameters.
LEMMA SplatStep ==
  ASSUME SplatInv, SplatNext
  PROVE  SplatInv'
<1> USE SplatAssumption
<1>1. CASE AskSplat
  <2>1. source' = source
    BY <1>1 DEF AskSplat
  <2>2. CASE splat' = [splat EXCEPT !.at = "queued"] /\ splat.at = "asking"
    BY <2>1, <2>2 DEF SplatInv, SplatFields, NewSplat
  <2>3. CASE EndTraining("refused")
    BY <2>1, <2>3, EndKeepsSplat DEF SplatInv
  <2> QED BY <1>1, <2>2, <2>3 DEF AskSplat
<1>2. CASE ResolveAgain
  <2>1. source' = source
    BY <1>2 DEF ResolveAgain
  <2>2. CASE splat' = [splat EXCEPT !.at = "resolved", !.inputs = source.files] /\ splat.at = "queued"
    BY <2>1, <2>2 DEF SplatInv, SplatFields, NewSplat
  <2>3. CASE EndTraining("failed") \/ EndTraining("cancelled")
    BY <2>1, <2>3, EndKeepsSplat DEF SplatInv
  <2> QED BY <1>2, <2>2, <2>3 DEF ResolveAgain, RaiseOr
<1>3. CASE TrainerUnavailable
  BY <1>3, EndKeepsSplat DEF TrainerUnavailable, SplatInv
<1>4. CASE Prepare
  <2>1. source' = source /\ splat.at = "resolved" /\ splat.it = 0 /\ splat.version = 0
    BY <1>4 DEF Prepare, SplatInv
  <2>2. SeedPoints \in Nat
    <3>1. CASE source.cloud <= MaxPoints
      BY <3>1 DEF SeedPoints, Thinned, SplatInv
    <3>2. CASE source.cloud > MaxPoints
      BY <3>2, ThinnedWithin DEF SeedPoints, SplatInv
    <3> QED BY <3>1, <3>2 DEF SplatInv
  <2>3. ASSUME NEW n \in Nat, NEW paths, NEW cameras,
               splat' = [splat EXCEPT !.at = "training", !.n = n, !.paths = paths,
                           !.cameras = cameras,
                           !.cached = [version |-> 0, n |-> n], !.dirty = FALSE]
        PROVE  SplatInv'
    <3>1. SplatFields'
      BY <2>3 DEF SplatInv, SplatFields, NewSplat
    <3>2. /\ splat'.n = n /\ splat'.it = splat.it /\ splat'.version = splat.version
          /\ splat'.cached = [version |-> 0, n |-> n] /\ splat'.dirty = FALSE
          /\ splat'.shown = splat.shown /\ splat'.outcome = splat.outcome /\ splat'.at = "training"
      BY <2>3 DEF SplatInv, SplatFields, NewSplat
    <3>3. splat.outcome # "ready"
      BY <2>1 DEF SplatInv
    <3> QED BY <3>1, <3>2, <3>3, <2>1 DEF SplatInv
  <2>4. CASE EndTraining("failed")
    BY <2>1, <2>4, EndKeepsSplat DEF SplatInv
  <2>5. CASE ~EndTraining("failed")
    <3>1. \E n \in {3, SeedPoints} : \E paths, cameras :
            splat' = [splat EXCEPT !.at = "training", !.n = n, !.paths = paths,
                        !.cameras = cameras,
                        !.cached = [version |-> 0, n |-> n], !.dirty = FALSE]
      BY <1>4, <2>5, Prepared
    <3> QED BY <3>1, <2>2, <2>3
  <2> QED BY <2>4, <2>5
<1>5. CASE TrainStep
  <2>1. source' = source /\ splat.at = "training"
    BY <1>5 DEF TrainStep
  <2>2. CASE EndTraining("failed") \/ EndTraining("cancelled")
    BY <2>1, <2>2, EndKeepsSplat DEF SplatInv
  <2>3. ASSUME NEW n \in SizesAfter(splat.it + 1, splat.n), NEW photo, NEW at \in {"previewing", "training"},
               splat' = [Stepped(splat, n, photo) EXCEPT !.at = at]
        PROVE  SplatInv'
    <3>1. n \in Nat /\ splat.it + 1 \in Nat
      BY SizesAreNat DEF SplatInv
    <3>2. SplatFields'
      BY <2>3 DEF SplatInv, SplatFields, NewSplat, Stepped
    <3>3. /\ splat'.n = n /\ splat'.it = splat.it + 1 /\ splat'.version = splat.it + 1
          /\ splat'.dirty = TRUE /\ splat'.shown = splat.shown /\ splat'.outcome = splat.outcome
          /\ splat'.at = at
      BY <2>3 DEF SplatInv, SplatFields, NewSplat, Stepped
    <3>4. splat.outcome # "ready"
      BY <2>1 DEF SplatInv
    <3>5. splat'.dirty /\ splat'.dirty \in BOOLEAN
      BY <3>3
    <3> QED BY <3>1, <3>2, <3>3, <3>4, <3>5, <2>1 DEF SplatInv
  <2>4. CASE ~(EndTraining("failed") \/ EndTraining("cancelled"))
    <3>1. \E cam \in DOMAIN splat.cameras :
            \E n \in SizesAfter(splat.it + 1, splat.n) :
              splat' = [Stepped(splat, n, splat.cameras[cam]) EXCEPT
                          !.at = IF (splat.it + 1) % PreviewEvery = 0 THEN "previewing" ELSE "training"]
      BY <1>5, <2>4, Trained
    <3> QED BY <3>1, <2>3
  <2> QED BY <2>2, <2>4
<1>6. ASSUME SplatInv PROVE State = [version |-> splat.version, n |-> splat.n]
  BY <1>6 DEF State, SplatInv
<1>7. CASE Preview
  <2>1. source' = source /\ splat.at = "previewing"
    BY <1>7 DEF Preview
  <2>2. CASE EndTraining("failed")
    BY <2>1, <2>2, EndKeepsSplat DEF SplatInv
  <2>3. CASE splat' = [splat EXCEPT !.at = "training", !.cached = State, !.dirty = FALSE,
                         !.shown = [it |-> splat.it, version |-> State.version,
                                    n |-> Thinned(State.n, PreviewCap)]]
    <3>1. SplatFields'
      BY <2>3 DEF SplatInv, SplatFields, NewSplat
    <3>2. /\ splat'.n = splat.n /\ splat'.it = splat.it /\ splat'.version = splat.version
          /\ splat'.dirty = FALSE /\ splat'.cached = [version |-> splat.version, n |-> splat.n]
          /\ splat'.outcome = splat.outcome /\ splat'.at = "training"
          /\ splat'.shown = [it |-> splat.it, version |-> splat.version, n |-> Thinned(splat.n, PreviewCap)]
      BY <1>6, <2>3 DEF SplatInv, SplatFields, NewSplat
    <3>3. PreviewCap > 0 => Thinned(splat.n, PreviewCap) <= PreviewCap
      BY ThinnedWithin DEF SplatInv
    <3>4. splat.outcome # "ready"
      BY <2>1 DEF SplatInv
    <3>5. splat'.dirty \in BOOLEAN
      BY <3>2
    <3> QED BY <2>1, <3>1, <3>2, <3>3, <3>4, <3>5 DEF SplatInv
  <2> QED BY <1>7, <2>2, <2>3 DEF Preview
<1>8. CASE LeaveTraining
  <2>1. source' = source /\ splat.at = "training" /\ splat.it = Iterations
    BY <1>8 DEF LeaveTraining
  <2>2. CASE EndTraining("cancelled")
    BY <2>1, <2>2, EndKeepsSplat DEF SplatInv
  <2>3. CASE splat' = [splat EXCEPT !.at = "writing_splat", !.cached = State, !.dirty = FALSE]
    <3>1. SplatFields'
      BY <2>3 DEF SplatInv, SplatFields, NewSplat
    <3>2. /\ splat'.n = splat.n /\ splat'.it = splat.it /\ splat'.version = splat.version
          /\ splat'.dirty = FALSE /\ splat'.cached = [version |-> splat.version, n |-> splat.n]
          /\ splat'.at = "writing_splat" /\ splat'.shown = splat.shown /\ splat'.outcome = splat.outcome
      BY <1>6, <2>3 DEF SplatInv, SplatFields, NewSplat
    <3>3. splat'.dirty \in BOOLEAN
      BY <3>2
    <3>4. splat.outcome # "ready"
      BY <2>1 DEF SplatInv
    <3> QED BY <3>1, <3>2, <3>3, <3>4, <2>1 DEF SplatInv
  <2> QED BY <1>8, <2>2, <2>3 DEF LeaveTraining, RaiseOr
<1>11. CASE WriteSplat
  <2>1. source' = source /\ splat.at = "writing_splat" /\ splat.it = Iterations
    BY <1>11 DEF WriteSplat, SplatInv
  <2>2. CASE EndTraining("failed")
    BY <2>1, <2>2, EndKeepsSplat DEF SplatInv
  <2>3. CASE splat' = [splat EXCEPT !.at = "writing_cameras",
                         !.final = [it |-> splat.it, version |-> State.version, n |-> State.n]]
    <3>1. SplatFields'
      BY <2>3 DEF SplatInv, SplatFields, NewSplat
    <3>2. /\ splat'.n = splat.n /\ splat'.it = splat.it /\ splat'.version = splat.version
          /\ splat'.dirty = splat.dirty /\ splat'.cached = splat.cached
          /\ splat'.at = "writing_cameras" /\ splat'.shown = splat.shown /\ splat'.outcome = splat.outcome
          /\ splat'.final = [it |-> splat.it, version |-> splat.version, n |-> splat.n]
      BY <1>6, <2>3 DEF SplatInv, SplatFields, NewSplat
    <3>3. splat.outcome # "ready"
      BY <2>1 DEF SplatInv
    <3> QED BY <3>1, <3>2, <3>3, <2>1 DEF SplatInv
  <2> QED BY <1>11, <2>2, <2>3 DEF WriteSplat
<1>12. CASE WriteCameras
  <2>1. source' = source /\ splat.at = "writing_cameras"
    BY <1>12 DEF WriteCameras
  <2>2. CASE EndTraining("failed")
    BY <2>1, <2>2, EndKeepsSplat DEF SplatInv
  <2>3. CASE splat' = [splat EXCEPT !.at = "writing_compressed"]
    BY <2>1, <2>3 DEF SplatInv, SplatFields, NewSplat
  <2> QED BY <1>12, <2>2, <2>3 DEF WriteCameras
<1>13. CASE WriteCompressed
  <2>1. source' = source /\ splat.at = "writing_compressed"
    BY <1>13 DEF WriteCompressed
  <2>2. CASE EndTraining("failed")
    BY <2>1, <2>2, EndKeepsSplat DEF SplatInv
  <2>3. CASE EndTraining("ready")
    BY <2>1, <2>3 DEF EndTraining, SplatInv, SplatFields, NewSplat
  <2> QED BY <1>13, <2>2, <2>3 DEF WriteCompressed
<1>9. CASE AskSplatStop
  BY <1>9 DEF AskSplatStop, SplatInv, SplatFields
<1>10. CASE DropSourceRow \/ DropSourceFile
  <2>1. "cloud" \in DOMAIN source' /\ source'.cloud = source.cloud /\ splat' = splat
    BY <1>10 DEF DropSourceRow, DropSourceFile, SplatInv
  <2> QED BY <2>1 DEF SplatInv, SplatFields
<1> QED BY <1>1, <1>2, <1>3, <1>4, <1>5, <1>7, <1>8, <1>9, <1>10, <1>11, <1>12, <1>13 DEF SplatNext

LEMMA SplatAlways == SplatInv /\ [Next]_procVars => SplatInv'
<1> SUFFICES ASSUME SplatInv, [Next]_procVars PROVE SplatInv'
  OBVIOUS
<1>1. CASE splat' = splat /\ source' = source
  BY <1>1 DEF SplatInv, SplatFields
<1>2. CASE SplatNext
  BY <1>2, SplatStep
<1> QED BY <1>1, <1>2 DEF Next, procVars, splatVars

\* What the page is shown of a training, and what the job exports, are the
\* parameters of the step they are labelled with, and a preview keeps its cap: for
\* every number of steps and every interval, whatever is pruned or deleted.
THEOREM SplatStaysCurrent == Spec => []SplatIsCurrent
<1>1. SplatInv => SplatIsCurrent
  BY DEF SplatInv, SplatIsCurrent
<1> QED BY SplatInitInv, SplatAlways, <1>1, PTL DEF Spec
-----------------------------------------------------------------------------
(* The ingest and the frames of a SLAM run *)

FrameSeq == Seq([video : Nat, at : Nat])

\* The frames made so far are those of the first videos, in order; the scores, once
\* there, are of the last edition, because scoring is the last of the filters.
ClipInv ==
  /\ DOMAIN clip = {"videos", "captured", "frames", "done", "bad", "sharp", "pending", "edition", "scored"}
  /\ clip.videos \in Seq(Nat) /\ clip.done \in 0 .. Len(clip.videos)
  /\ clip.frames \in FrameSeq
  /\ InOrder(clip.frames, clip.videos, clip.done)
  /\ clip.pending \subseteq DOMAIN Passes
  /\ clip.scored \in {0, clip.edition}
  /\ clip.scored # 0 => clip.pending = {}

PlanOK == plan.stride \in Nat \ {0} /\ plan.max \in Nat \ {0} /\ plan.quantile \in 0 .. 100

\* A choice of frames to track: in clip order, and of some of them.
Rising(s) == \A i, j \in DOMAIN s : i < j => s[i] < s[j]
Chosen(s, n) == s \in Seq(Frames(n)) /\ Rising(s) /\ (n > 0 => s # <<>>)

Tracked == {"tracking", "stepping", "finalising", "batch", "launching", "tracked"}
Gated == Tracked \cup {"seeding"}

SlamInv ==
  /\ DOMAIN slam = DOMAIN QueuedSlam
  /\ slam.given \in Seq(Nat \X Nat) /\ \A i \in DOMAIN slam.given : slam.given[i][1] = slam.given[i][2]
  /\ slam.at \in Gated \cup {"gating"} => Ingested
  /\ slam.at \in Gated => Chosen(slam.selected, Len(clip.frames))
  /\ slam.at \in Tracked => slam.paths = slam.selected
  /\ slam.next \in Nat \ {0}
  /\ slam.at = "stepping" => slam.next <= Len(slam.selected)

\* The run is one of the four; a clip is ingested in a SLAM run and in a LingBot
\* reconstruction.
ClipOK ==
  /\ part \in {"slam", "splat", "lingbot", "stream"}
  /\ part \in {"slam", "lingbot"} => ClipInv

TrackInv == IF part = "slam" THEN PlanOK /\ SlamInv ELSE slam = QueuedSlam

\* A nonempty set of numbers has a least: of the sets of smaller ones, which
\* inclusion orders, a least one is empty.
LEMMA Smallest ==
  ASSUME NEW n \in Nat, NEW S \in SUBSET (1 .. n), S # {}
  PROVE  \E m \in S : \A k \in S : m <= k
<1> DEFINE Below(i) == {j \in S : j < i}
           T == {Below(i) : i \in S}
<1>1. IsWellFoundedOn(StrictSubsetOrdering(S), SUBSET S)
  <2>1. IsFiniteSet(1 .. n)
    BY FS_Interval
  <2>2. IsFiniteSet(S)
    BY <2>1, FS_Subset
  <2> QED BY <2>2, FS_StrictSubsetOrderingWellFounded, FS_FiniteSubsetsOfFinite
<1>2. T \subseteq SUBSET S /\ T # {}
  OBVIOUS
<1>3. PICK t \in T : \A u \in T : ~ (<<u, t>> \in StrictSubsetOrdering(S))
  <2> HIDE DEF T
  <2> QED BY <1>1, <1>2, WFMin
<1>4. PICK m \in S : t = Below(m)
  BY <1>3
<1>5. ASSUME NEW k \in S, k < m PROVE FALSE
  <2>1. Below(k) \in T /\ k \in Below(m) /\ k \notin Below(k)
    BY <1>5
  <2>2. Below(k) \subseteq Below(m) /\ Below(m) \subseteq S
    <3>1. \A j \in S : j < k => j < m
      BY <1>5
    <3> QED BY <3>1
  <2>3. <<Below(k), Below(m)>> \in StrictSubsetOrdering(S)
    <3> HIDE DEF Below
    <3> QED BY <2>1, <2>2 DEF StrictSubsetOrdering
  <2> QED BY <2>1, <2>3, <1>3, <1>4
<1>6. \A k \in S : m <= k
  BY <1>5
<1> QED BY <1>6

UpTo(K, k) == {j \in K : j <= k}

LEMMA UpToGrows ==
  ASSUME NEW n \in Nat, NEW K \in SUBSET (1 .. n)
  PROVE  /\ UpTo(K, 0) = {} /\ UpTo(K, n) = K
         /\ \A k \in 1 .. n : UpTo(K, k) = UpTo(K, k - 1) \cup (K \cap {k}) /\ k \notin UpTo(K, k - 1)
         /\ \A k, l \in 1 .. n : k <= l => UpTo(K, k) \in SUBSET UpTo(K, l)
         /\ \A k \in 0 .. n : IsFiniteSet(UpTo(K, k)) /\ Cardinality(UpTo(K, k)) \in Nat
         /\ IsFiniteSet(K) /\ Cardinality(K) \in Nat
<1>1. \A j \in K : j \in 1 .. n
  OBVIOUS
<1>2. UpTo(K, 0) = {} /\ UpTo(K, n) = K
  <2>1. \A j \in K : ~(j <= 0) /\ j <= n
    BY <1>1
  <2> QED BY <2>1, Zenon DEF UpTo
<1>3. ASSUME NEW k \in 1 .. n
      PROVE  UpTo(K, k) = UpTo(K, k - 1) \cup (K \cap {k}) /\ k \notin UpTo(K, k - 1)
  <2>1. (\A j \in K : j <= k <=> j <= k - 1 \/ j = k) /\ ~(k <= k - 1)
    BY <1>1
  <2> QED BY <2>1, Zenon DEF UpTo
<1>4. ASSUME NEW k \in 1 .. n, NEW l \in 1 .. n, k <= l PROVE UpTo(K, k) \in SUBSET UpTo(K, l)
  <2>1. \A j \in K : j <= k => j <= l
    BY <1>1, <1>4
  <2> QED BY <2>1 DEF UpTo
<1>5. IsFiniteSet(K) /\ Cardinality(K) \in Nat
  <2>1. IsFiniteSet(1 .. n)
    BY FS_Interval
  <2>2. IsFiniteSet(K)
    BY <2>1, FS_Subset
  <2> QED BY <2>2, FS_CardinalityType
<1>6. ASSUME NEW k PROVE IsFiniteSet(UpTo(K, k)) /\ Cardinality(UpTo(K, k)) \in Nat
  <2>1. UpTo(K, k) \in SUBSET K
    BY DEF UpTo
  <2>2. IsFiniteSet(UpTo(K, k))
    BY <1>5, <2>1, FS_Subset
  <2> QED BY <2>2, FS_CardinalityType
<1> QED BY <1>2, <1>3, <1>4, <1>5, <1>6

\* The i-th smallest member of a finite set of numbers is one, and has i members up
\* to it.
LEMMA NthIs ==
  ASSUME NEW n \in Nat, NEW K \in SUBSET (1 .. n), NEW i \in 1 .. Cardinality(K)
  PROVE  Nth(K, i) \in K /\ Cardinality(UpTo(K, Nth(K, i))) = i
<1> DEFINE count(k) == Cardinality(UpTo(K, k))
           Enough == {k \in 1 .. n : count(k) >= i}
<1>0. /\ UpTo(K, 0) = {}
      /\ \A k \in 0 .. n : IsFiniteSet(UpTo(K, k))
  BY UpToGrows
<1>1. \A k \in 0 .. n : count(k) \in Nat
  BY UpToGrows
<1>2. n \in Enough
  <2>1. count(n) = Cardinality(K) /\ Cardinality(K) \in Nat
    BY UpToGrows
  <2>2. n # 0
    <3>1. UpTo(K, 0) = {} /\ UpTo(K, n) = K
      BY UpToGrows
    <3> QED BY <2>1, <3>1, FS_EmptySet
  <2> HIDE DEF count
  <2> QED BY <2>1, <2>2
<1>3. PICK k \in 1 .. n : count(k) >= i /\ \A m \in 1 .. n : count(m) >= i => k <= m
  <2> HIDE DEF count
  <2>1. Enough \in SUBSET (1 .. n) /\ Enough # {}
    BY <1>2
  <2>2. PICK k \in Enough : \A m \in Enough : k <= m
    <3> HIDE DEF Enough
    <3> QED BY <2>1, Smallest
  <2> QED BY <2>2
<1>4. count(k - 1) < i
  <2>1. CASE k = 1
    <3>1. count(0) = 0
      BY <1>0, FS_EmptySet
    <3>2. k - 1 = 0
      BY <2>1
    <3> HIDE DEF count
    <3> QED BY <3>1, <3>2
  <2>2. CASE k # 1
    <3> HIDE DEF count
    <3> QED BY <1>1, <1>3, <2>2
  <2> QED BY <2>1, <2>2
<1>5. UpTo(K, k) = UpTo(K, k - 1) \cup (K \cap {k}) /\ k \notin UpTo(K, k - 1)
  BY UpToGrows
<1>6. k \in K
  <2> SUFFICES ASSUME k \notin K PROVE FALSE
    OBVIOUS
  <2>1. UpTo(K, k) = UpTo(K, k - 1)
    BY <1>5
  <2>2. count(k) = count(k - 1)
    BY <2>1
  <2> HIDE DEF count
  <2> QED BY <1>1, <1>3, <1>4, <2>2
<1>7. count(k) = count(k - 1) + 1
  <2>1. UpTo(K, k) = UpTo(K, k - 1) \cup {k}
    BY <1>5, <1>6
  <2>2. IsFiniteSet(UpTo(K, k - 1))
    <3>1. k - 1 \in 0 .. n
      OBVIOUS
    <3> QED BY <1>0, <3>1
  <2> QED BY <1>5, <2>1, <2>2, FS_AddElement
<1>8. count(k) = i
  <2> HIDE DEF count
  <2> QED BY <1>1, <1>3, <1>4, <1>7
<1> QED BY <1>6, <1>8 DEF Nth, UpTo

LEMMA NthRises ==
  ASSUME NEW n \in Nat, NEW K \in SUBSET (1 .. n),
         NEW i \in 1 .. Cardinality(K), NEW j \in 1 .. Cardinality(K), i < j
  PROVE  Nth(K, i) < Nth(K, j)
<1>1. PICK a \in K : a = Nth(K, i) /\ Cardinality(UpTo(K, a)) = i
  BY NthIs
<1>2. PICK b \in K : b = Nth(K, j) /\ Cardinality(UpTo(K, b)) = j
  BY NthIs
<1>3. SUFFICES ASSUME b <= a PROVE FALSE
  BY <1>1, <1>2
<1>4. UpTo(K, b) \in SUBSET UpTo(K, a) /\ IsFiniteSet(UpTo(K, a))
  <2>1. /\ \A k, l \in 1 .. n : k <= l => UpTo(K, k) \in SUBSET UpTo(K, l)
        /\ \A k \in 0 .. n : IsFiniteSet(UpTo(K, k))
    BY UpToGrows
  <2>2. a \in 1 .. n /\ b \in 1 .. n /\ a \in 0 .. n
    OBVIOUS
  <2> QED BY <1>3, <2>1, <2>2
<1>5. Cardinality(UpTo(K, b)) <= Cardinality(UpTo(K, a))
  BY <1>4, FS_Subset
<1>6. i \in Int /\ j \in Int
  BY UpToGrows
<1> QED BY <1>1, <1>2, <1>5, <1>6

\* A list cut down to some of its positions keeps their order; to all, it is itself.
LEMMA PickedRises ==
  ASSUME NEW n \in Nat, NEW s \in Seq(Frames(n)), Rising(s), NEW K \in SUBSET (1 .. Len(s))
  PROVE  /\ Picked(s, K) \in Seq(Frames(n)) /\ Rising(Picked(s, K))
         /\ Len(Picked(s, K)) = Cardinality(K) /\ Cardinality(K) \in Nat
<1> DEFINE p == Picked(s, K)
           m == Cardinality(K)
<1>0. Len(s) \in Nat
  OBVIOUS
<1>1. m \in Nat
  BY <1>0, UpToGrows
<1>2. \A i \in 1 .. m : Nth(K, i) \in K
  BY <1>0, NthIs
<1>3. p = [i \in 1 .. m |-> s[Nth(K, i)]]
  BY DEF Picked
<1>4. \A i \in 1 .. m : s[Nth(K, i)] \in Frames(n)
  <2> HIDE DEF m
  <2>1. \A k \in K : s[k] \in Frames(n)
    OBVIOUS
  <2> QED BY <1>2, <2>1
<1>5. p \in Seq(Frames(n)) /\ Len(p) = m
  <2> HIDE DEF p, m
  <2>1. p \in [1 .. m -> Frames(n)]
    BY <1>3, <1>4
  <2> QED BY <1>1, <2>1
<1>6. Rising(p)
  <2> SUFFICES ASSUME NEW i \in 1 .. m, NEW j \in 1 .. m, i < j PROVE p[i] < p[j]
    BY <1>3 DEF Rising
  <2>0. Nth(K, i) < Nth(K, j)
    BY <1>0, NthRises
  <2>1. Nth(K, i) \in 1 .. Len(s) /\ Nth(K, j) \in 1 .. Len(s)
    BY <1>2
  <2>2. s[Nth(K, i)] < s[Nth(K, j)]
    BY <2>0, <2>1 DEF Rising
  <2> QED BY <1>3, <2>2
<1> QED BY <1>1, <1>5, <1>6

LEMMA PickedAll ==
  ASSUME NEW n \in Nat, NEW s \in Seq(Frames(n))
  PROVE  Picked(s, DOMAIN s) = s
<1> DEFINE l == Len(s)
<1>0. l \in Nat /\ DOMAIN s = 1 .. l
  OBVIOUS
<1>1. l \in Nat /\ DOMAIN s = 1 .. l /\ Cardinality(1 .. l) = l
  <2> HIDE DEF l
  <2> QED BY <1>0, FS_Interval
<1>2. ASSUME NEW i \in 1 .. l PROVE Nth(1 .. l, i) = i
  <2>1. PICK k \in 1 .. l : k = Nth(1 .. l, i) /\ Cardinality(UpTo(1 .. l, k)) = i
    BY <1>1, NthIs
  <2>2. UpTo(1 .. l, k) = 1 .. k
    BY <1>1 DEF UpTo
  <2>3. Cardinality(1 .. k) = k
    BY FS_Interval
  <2> QED BY <2>1, <2>2, <2>3
<1>3. Picked(s, DOMAIN s) = [i \in 1 .. l |-> s[i]]
  <2> HIDE DEF l
  <2> QED BY <1>1, <1>2 DEF Picked
<1> QED BY <1>1, <1>3

LEMMA EveryNthRises ==
  ASSUME NEW n \in Nat, NEW s, Chosen(s, n), NEW stride \in Nat \ {0}
  PROVE  Chosen(EveryNth(s, stride), n)
<1> DEFINE l == Len(s)
           q == (l + stride - 1) \div stride
           e == EveryNth(s, stride)
<1>1. s \in Seq(Frames(n)) /\ Rising(s) /\ l \in Nat /\ DOMAIN s = 1 .. l
  BY DEF Chosen
<1>2. q \in Nat /\ stride * q <= l + stride - 1 /\ (l > 0 => q > 0)
  <2> HIDE DEF l
  <2>1. q \in Nat /\ stride * q <= l + stride - 1 /\ l + stride - 1 < stride * q + stride
    BY <1>1
  <2>2. q = 0 => stride * q = 0
    BY <2>1
  <2> HIDE DEF q
  <2> QED BY <1>1, <2>1, <2>2
<1>3. e = [i \in 1 .. q |-> s[(i - 1) * stride + 1]]
  BY DEF EveryNth
<1> HIDE DEF l, q, e
<1>4. ASSUME NEW i \in 1 .. q PROVE (i - 1) * stride + 1 \in 1 .. l
  <2>1. PICK d \in Nat : q = i + d
    <3>1. q - i \in Nat /\ q = i + (q - i)
      BY <1>2
    <3> QED BY <3>1
  <2>2. stride * q = (i - 1) * stride + stride + stride * d /\ stride * d \in Nat /\ (i - 1) * stride \in Nat
    BY <2>1
  <2> QED BY <1>1, <1>2, <2>2
<1>5. ASSUME NEW i \in 1 .. q, NEW j \in 1 .. q, i < j
      PROVE  (i - 1) * stride + 1 < (j - 1) * stride + 1
  <2>1. PICK d \in Nat : j = i + 1 + d
    <3>1. j - i - 1 \in Nat /\ j = i + 1 + (j - i - 1)
      BY <1>5, <1>2
    <3> QED BY <3>1
  <2>2. (j - 1) * stride = (i - 1) * stride + stride + d * stride /\ d * stride \in Nat /\ (i - 1) * stride \in Nat
    BY <2>1
  <2> QED BY <2>2
<1>6. e \in Seq(Frames(n)) /\ Len(e) = q
  <2>1. e \in [1 .. q -> Frames(n)]
    <3>1. \A k \in 1 .. l : s[k] \in Frames(n)
      BY <1>1
    <3> QED BY <1>3, <1>4, <3>1
  <2> QED BY <1>2, <2>1
<1>7. Rising(e)
  <2> SUFFICES ASSUME NEW i \in 1 .. q, NEW j \in 1 .. q, i < j PROVE e[i] < e[j]
    BY <1>3 DEF Rising
  <2>1. s[(i - 1) * stride + 1] < s[(j - 1) * stride + 1]
    BY <1>1, <1>4, <1>5 DEF Rising
  <2> QED BY <1>3, <2>1
<1>8. n > 0 => e # <<>>
  <2>1. s # <<>> => l > 0
    BY <1>1 DEF l
  <2> QED BY <1>2, <1>6, <2>1 DEF Chosen
<1> QED BY <1>6, <1>7, <1>8 DEF Chosen, e

LEMMA CappedRises ==
  ASSUME NEW n \in Nat, NEW s, Chosen(s, n), NEW max \in Nat \ {0}
  PROVE  Chosen(Capped(s, max), n)
<1> DEFINE m == IF Len(s) < max THEN Len(s) ELSE max
           c == Capped(s, max)
<1>1. s \in Seq(Frames(n)) /\ Len(s) \in Nat /\ m \in 0 .. Len(s)
  BY DEF Chosen
<1>2. c = SubSeq(s, 1, m)
  BY DEF Capped
<1>3. c \in Seq(Frames(n)) /\ Len(c) = m /\ \A i \in 1 .. m : c[i] = s[i]
  <2> HIDE DEF m, c
  <2> QED BY <1>1, <1>2
<1>4. Rising(c)
  <2> HIDE DEF m, c
  <2> QED BY <1>1, <1>3 DEF Rising, Chosen
<1>5. n > 0 => c # <<>>
  <2>1. n > 0 => m > 0
    BY <1>1 DEF Chosen
  <2> HIDE DEF m, c
  <2> QED BY <1>1, <1>3, <2>1
<1> QED BY <1>3, <1>4, <1>5 DEF Chosen

LEMMA QuantileWithin ==
  ASSUME NEW n \in Nat, n > 0, NEW p \in 0 .. 100
  PROVE  (p * (n - 1)) \div 100 \in 0 .. n - 1
<1>1. PICK left \in Nat : p + left = 100
  <2>1. 100 - p \in Nat /\ p + (100 - p) = 100
    OBVIOUS
  <2> QED BY <2>1
<1>2. (p + left) * (n - 1) = p * (n - 1) + left * (n - 1) /\ p * (n - 1) \in Nat /\ left * (n - 1) \in Nat
  OBVIOUS
<1>3. PICK q \in Nat : q = p * (n - 1) /\ q <= 100 * (n - 1)
  BY <1>1, <1>2
<1>4. q \div 100 \in 0 .. n - 1
  BY <1>3
<1> QED BY <1>3, <1>4

LEMMA FramesFinite ==
  ASSUME NEW n \in Nat
  PROVE  IsFiniteSet(Frames(n)) /\ Cardinality(Frames(n)) = n
<1>1. 0 \in Int /\ n - 1 \in Int
  OBVIOUS
<1>2. IsFiniteSet(0 .. n - 1) /\ Cardinality(0 .. n - 1) = IF 0 > n - 1 THEN 0 ELSE n - 1 - 0 + 1
  BY <1>1, FS_Interval
<1>3. Cardinality(0 .. n - 1) = n
  BY <1>2
<1> QED BY <1>2, <1>3 DEF Frames

\* The gate's cutoff is the quality of some frame, which it lets through.
LEMMA GateKeepsOne ==
  ASSUME clip.frames \in FrameSeq, clip.frames # <<>>, PlanOK
  PROVE  \E f \in Frames(Len(clip.frames)) : ScoreKeeps(f)
<1> DEFINE n == Len(clip.frames)
           k == (plan.quantile * (n - 1)) \div 100
           Lower(q) == {f \in Frames(n) : Quality(f) < q}
           Below(q) == Cardinality(Lower(q))
           Splits(q) == Below(q) <= k /\ k < Below(q + 1)
<1>1. n \in Nat /\ n > 0
  BY DEF FrameSeq
<1>2. k \in 0 .. n - 1
  <2> HIDE DEF n
  <2> QED BY <1>1, QuantileWithin DEF PlanOK
<1>3. \A f : Quality(f) \in 0 .. 2
  BY DEF Quality
<1>4. Lower(0) = {} /\ Lower(3) = Frames(n)
  BY <1>3
<1>5. Below(0) = 0 /\ Below(3) = n
  <2>1. IsFiniteSet(Frames(n)) /\ Cardinality(Frames(n)) = n
    <3> HIDE DEF n
    <3> QED BY <1>1, FramesFinite
  <2> QED BY <1>4, <2>1, FS_EmptySet
<1>6. \A q : Below(q) \in Nat /\ IsFiniteSet(Lower(q))
  <2> TAKE q
  <2>1. IsFiniteSet(Frames(n))
    <3> HIDE DEF n
    <3> QED BY <1>1, FramesFinite
  <2>2. Lower(q) \in SUBSET Frames(n)
    OBVIOUS
  <2> HIDE DEF Lower
  <2>3. IsFiniteSet(Lower(q))
    BY <2>1, <2>2, FS_Subset
  <2> QED BY <2>3, FS_CardinalityType
<1>7. \E q \in 0 .. 2 : Splits(q)
  <2>1. Below(0) <= k /\ k < Below(2 + 1)
    <3> HIDE DEF Below, n, k
    <3> QED BY <1>1, <1>2, <1>5
  <2>2. /\ Splits(0) <=> Below(0) <= k /\ k < Below(1)
        /\ Splits(1) <=> Below(1) <= k /\ k < Below(2)
        /\ Splits(2) <=> Below(2) <= k /\ k < Below(3)
    <3> HIDE DEF Below, k, n
    <3>1. 0 + 1 = 1 /\ 1 + 1 = 2 /\ 2 + 1 = 3
      OBVIOUS
    <3> QED BY <3>1, Zenon
  <2>3. Below(1) \in Nat /\ Below(2) \in Nat /\ k \in Nat
    <3> HIDE DEF Below, Lower, k, n
    <3>1. Below(1) \in Nat /\ Below(2) \in Nat
      BY <1>6, Zenon
    <3> QED BY <1>1, <1>2, <3>1
  <2> HIDE DEF Below, k, n, Splits
  <2>4. CASE k < Below(1)
    <3>1. Splits(0)
      BY <2>1, <2>2, <2>4
    <3> QED BY <3>1
  <2>5. CASE ~(k < Below(1)) /\ k < Below(2)
    <3>1. Splits(1)
      BY <2>2, <2>3, <2>5
    <3> QED BY <3>1
  <2>6. CASE ~(k < Below(2))
    <3>1. Splits(2)
      BY <2>1, <2>2, <2>3, <2>6
    <3> QED BY <3>1
  <2> QED BY <2>4, <2>5, <2>6
<1>8. Cutoff \in 0 .. 2 /\ Below(Cutoff) <= k
  <2>1. Cutoff = CHOOSE q \in 0 .. 2 : Splits(q)
    BY DEF Cutoff
  <2> HIDE DEF Splits
  <2>2. Cutoff \in 0 .. 2 /\ Splits(Cutoff)
    BY <1>7, <2>1
  <2> QED BY <2>2 DEF Splits
<1>9. Lower(Cutoff) # Frames(n)
  <2> SUFFICES ASSUME Lower(Cutoff) = Lower(3) PROVE FALSE
    BY <1>4
  <2>1. Below(Cutoff) = n
    BY <1>5
  <2> HIDE DEF Below, n, k
  <2> QED BY <1>1, <1>2, <1>8, <2>1
<1>10. PICK f \in Frames(n) : ~(Quality(f) < Cutoff)
  BY <1>9
<1>11. Quality(f) >= Cutoff
  BY <1>3, <1>8, <1>10
<1> QED BY <1>11 DEF ScoreKeeps

\* What the gate selects: some of the clip's frames in their order, and at least
\* one when there is one.
LEMMA SelectedIsChosen ==
  ASSUME clip.frames \in FrameSeq, PlanOK
  PROVE  Chosen(Selected, Len(clip.frames))
<1> DEFINE n == Len(clip.frames)
           all == [i \in 1 .. n |-> i - 1]
           good == {i \in DOMAIN all : ScoreKeeps(all[i])}
           kept == IF plan.gated /\ clip.scored > 0 /\ all # <<>> THEN Picked(all, good) ELSE all
<1>1. n \in Nat
  BY DEF FrameSeq
<1>2. all \in Seq(Frames(n)) /\ Rising(all) /\ Len(all) = n /\ DOMAIN all = 1 .. n
  <2> HIDE DEF n
  <2>1. all \in [1 .. n -> Frames(n)] /\ Rising(all)
    BY <1>1 DEF Frames, Rising
  <2> QED BY <1>1, <2>1
<1>3. Chosen(all, n)
  <2> HIDE DEF n, all
  <2> QED BY <1>1, <1>2 DEF Chosen
<1>4. Picked(all, good) \in Seq(Frames(n)) /\ Rising(Picked(all, good)) /\ Len(Picked(all, good)) = Cardinality(good)
  <2>1. good \in SUBSET (1 .. Len(all))
    BY <1>2
  <2> HIDE DEF n, all, good
  <2> QED BY <1>1, <1>2, <2>1, PickedRises
<1>5. ASSUME n > 0 PROVE Picked(all, good) # <<>>
  <2>1. PICK f \in Frames(n) : ScoreKeeps(f)
    BY <1>5, GateKeepsOne
  <2>2. f + 1 \in 1 .. n /\ f + 1 \in DOMAIN all /\ all[f + 1] = f
    <3> HIDE DEF n
    <3> QED BY <1>1 DEF Frames
  <2>3. f + 1 \in good
    BY <2>1, <2>2
  <2>4. IsFiniteSet(good)
    <3>1. good \in SUBSET (1 .. n)
      BY <1>2
    <3> HIDE DEF n, good
    <3>2. IsFiniteSet(1 .. n)
      BY <1>1, FS_Interval
    <3> QED BY <3>1, <3>2, FS_Subset
  <2>5. Cardinality(good) # 0
    BY <2>3, <2>4, FS_EmptySet
  <2> HIDE DEF n, all, good
  <2> QED BY <1>4, <2>5
<1>6. Chosen(kept, n)
  <2> HIDE DEF n, good, all
  <2> QED BY <1>3, <1>4, <1>5 DEF Chosen
<1>7. Selected = Capped(EveryNth(kept, plan.stride), plan.max)
  BY DEF Selected
<1> HIDE DEF kept, n
<1> QED BY <1>1, <1>6, <1>7, EveryNthRises, CappedRises DEF PlanOK, n

LEMMA JoinedIs ==
  ASSUME NEW S, NEW s \in Seq(S), NEW t \in Seq(S), NEW both, both = s \o t,
         NEW n \in Nat, n = Len(t)
  PROVE  /\ both \in Seq(S) /\ Len(s) \in Nat /\ DOMAIN s = 1 .. Len(s) /\ DOMAIN both = 1 .. Len(s) + n
         /\ \A i \in 1 .. Len(s) : both[i] = s[i]
         /\ \A i \in Len(s) + 1 .. Len(s) + n : both[i] = t[i - Len(s)]
  OBVIOUS

\* The frames of the next video, put after those of the videos before it.
LEMMA JoinedInOrder ==
  ASSUME NEW videos \in Seq(Nat), NEW done \in Nat, done < Len(videos),
         NEW frames \in FrameSeq, InOrder(frames, videos, done)
  PROVE  /\ frames \o FramesOf(videos, done + 1) \in FrameSeq
         /\ InOrder(frames \o FramesOf(videos, done + 1), videos, done + 1)
<1> DEFINE new == FramesOf(videos, done + 1)
           n == videos[done + 1]
           l == Len(frames)
           both == frames \o new
<1>1. done + 1 \in 1 .. Len(videos) /\ n \in Nat
  OBVIOUS
<1>2. new = [k \in 1 .. n |-> [video |-> done + 1, at |-> k]]
  BY DEF FramesOf, Place
<1>3. new \in FrameSeq /\ Len(new) = n
  <2> HIDE DEF new, n
  <2>1. new \in [1 .. n -> [video : Nat, at : Nat]]
    BY <1>1, <1>2
  <2> QED BY <1>1, <1>2, <2>1 DEF FrameSeq
<1>4. /\ both \in FrameSeq /\ l \in Nat /\ DOMAIN frames = 1 .. l /\ DOMAIN both = 1 .. l + n
      /\ \A i \in 1 .. l : both[i] = frames[i]
      /\ \A i \in l + 1 .. l + n : both[i] = new[i - l]
  <2> HIDE DEF new, n, both
  <2> DEFINE F == [video : Nat, at : Nat]
  <2>1. both = frames \o new /\ n \in Nat /\ n = Len(new)
    BY <1>1, <1>3 DEF both
  <2>2. frames \in Seq(F) /\ new \in Seq(F) /\ FrameSeq = Seq(F)
    BY <1>3 DEF FrameSeq
  <2> HIDE DEF F
  <2>3. /\ both \in Seq(F) /\ Len(frames) \in Nat
        /\ DOMAIN frames = 1 .. Len(frames) /\ DOMAIN both = 1 .. Len(frames) + n
        /\ \A i \in 1 .. Len(frames) : both[i] = frames[i]
        /\ \A i \in Len(frames) + 1 .. Len(frames) + n : both[i] = new[i - Len(frames)]
    BY <2>1, <2>2, JoinedIs
  <2> QED BY <2>2, <2>3
<1> HIDE DEF both
<1>5. Range(both) = Range(frames) \cup Range(new)
  <2>1. \A i \in DOMAIN both : both[i] \in Range(frames) \cup Range(new)
    <3> SUFFICES ASSUME NEW i \in DOMAIN both PROVE both[i] \in Range(frames) \cup Range(new)
      OBVIOUS
    <3>1. CASE i \in 1 .. l
      BY <1>4, <3>1 DEF Range
    <3>2. CASE i \notin 1 .. l
      <4> HIDE DEF n, l, new
      <4>1. i \in l + 1 .. l + n /\ i - l \in 1 .. n
        BY <1>1, <1>4, <3>2
      <4>2. i - l \in DOMAIN new /\ both[i] = new[i - l]
        BY <1>2, <1>4, <4>1
      <4> QED BY <4>2 DEF Range
    <3> QED BY <3>1, <3>2
  <2>2. \A i \in DOMAIN frames : frames[i] \in Range(both)
    <3> HIDE DEF n, l, new
    <3> SUFFICES ASSUME NEW i \in DOMAIN frames PROVE frames[i] \in Range(both)
      OBVIOUS
    <3>1. i \in DOMAIN both /\ both[i] = frames[i]
      BY <1>1, <1>4
    <3> QED BY <3>1 DEF Range
  <2>3. \A i \in DOMAIN new : new[i] \in Range(both)
    <3> HIDE DEF n, l, new
    <3> SUFFICES ASSUME NEW i \in 1 .. n PROVE new[i] \in Range(both)
      BY <1>2
    <3>1. l + i \in l + 1 .. l + n /\ l + i \in DOMAIN both /\ (l + i) - l = i
      BY <1>1, <1>4
    <3>2. both[l + i] = new[i]
      BY <1>4, <3>1
    <3> QED BY <3>1, <3>2 DEF Range
  <2> HIDE DEF new, n, l
  <2> QED BY <2>1, <2>2, <2>3 DEF Range
<1>6. Places(videos, done + 1) = Places(videos, done) \cup Range(new)
  <2>1. \A v : v \in 1 .. done + 1 <=> v \in 1 .. done \/ v = done + 1
    OBVIOUS
  <2> HIDE DEF n, l
  <2> QED BY <2>1, Zenon DEF Places
<1>7. Range(both) = Places(videos, done + 1)
  BY <1>5, <1>6 DEF InOrder
<1>8. \A i \in 1 .. l : frames[i].video <= done /\ frames[i].video \in Nat
  <2> SUFFICES ASSUME NEW i \in 1 .. l PROVE frames[i].video <= done /\ frames[i].video \in Nat
    OBVIOUS
  <2>1. frames[i] \in Places(videos, done)
    BY <1>4 DEF InOrder, Range
  <2>2. PICK v \in 1 .. done : frames[i] \in Range(FramesOf(videos, v))
    BY <2>1 DEF Places
  <2>3. PICK k \in 1 .. videos[v] : frames[i] = [video |-> v, at |-> k]
    BY <2>2 DEF Range, FramesOf, Place
  <2> QED BY <2>3
<1>9. ASSUME NEW i \in DOMAIN both, NEW j \in DOMAIN both, i < j
      PROVE  Earlier(both[i], both[j])
  <2> HIDE DEF new, n, l
  <2>1. CASE j \in 1 .. l
    <3>1. i \in 1 .. l
      BY <1>1, <1>4, <1>9, <2>1
    <3> QED BY <1>4, <1>9, <2>1, <3>1 DEF InOrder
  <2>2. CASE j \notin 1 .. l
    <3>1. j \in l + 1 .. l + n /\ j - l \in 1 .. n
      BY <1>1, <1>4, <2>2
    <3>2. both[j] = [video |-> done + 1, at |-> j - l]
      BY <1>2, <1>4, <3>1
    <3>3. CASE i \in 1 .. l
      <4>1. both[i] = frames[i] /\ frames[i].video <= done /\ frames[i].video \in Nat
        BY <1>4, <1>8, <3>3
      <4> QED BY <3>2, <4>1 DEF Earlier
    <3>4. CASE i \notin 1 .. l
      <4>1. i \in l + 1 .. l + n /\ i - l \in 1 .. n /\ i - l < j - l
        BY <1>1, <1>4, <1>9, <3>1, <3>4
      <4>2. both[i] = [video |-> done + 1, at |-> i - l]
        BY <1>2, <1>4, <4>1
      <4> QED BY <3>2, <4>1, <4>2 DEF Earlier
    <3> QED BY <3>3, <3>4
  <2> QED BY <2>1, <2>2
<1> QED BY <1>4, <1>7, <1>9 DEF InOrder, both

LEMMA NothingInOrder ==
  ASSUME NEW videos PROVE InOrder(<<>>, videos, 0) /\ <<>> \in FrameSeq
<1>1. 1 .. 0 = {}
  OBVIOUS
<1>2. Places(videos, 0) = {}
  BY <1>1 DEF Places
<1> QED BY <1>2 DEF InOrder, Range, FrameSeq

LEMMA PassesAre ==
  /\ DOMAIN Passes = 1 .. 7 /\ DOMAIN FilterOf = 1 .. 7 /\ Len(Passes) = 7
  /\ \A i \in 1 .. 7 : Passes[i] = "score" => i = 7
  /\ \A i \in 1 .. 7 : Passes[i] = "mask" => FilterOf[i] = "osd"
  /\ \A i \in 1 .. 7 : Passes[i] = "normalise" => FilterOf[i] = "color_norm"
  /\ \A i \in 1 .. 7 : Passes[i] = "estimate" => FilterOf[i] = "rs_correction"
  /\ \A i \in 1 .. 7 : Passes[i] = "sharpen" => FilterOf[i] = "deblur"
BY DEF Passes, FilterOf

\* What a pass of a filter, one that is over with its filter or not, leaves.
PassOver ==
  /\ DOMAIN clip' = DOMAIN clip
  /\ clip'.videos = clip.videos /\ clip'.done = clip.done /\ clip'.frames = clip.frames
  /\ clip'.pending \subseteq clip.pending /\ clip'.pending # clip.pending
  /\ clip'.scored = 0 \/ (clip'.pending = {} /\ clip'.scored = clip'.edition)

LEMMA NotScored ==
  ASSUME ClipInv, NEW pass, Filtering(pass)
  PROVE  /\ clip.scored = 0
         /\ \E i \in clip.pending : Passes[i] = pass /\ i \in 1 .. 7 /\ \A j \in clip.pending : i <= j
         /\ Later \subseteq clip.pending /\ Later # clip.pending
<1>1. PICK i \in clip.pending : Passes[i] = pass /\ \A j \in clip.pending : i <= j
  BY DEF Filtering
<1>2. clip.scored = 0 /\ i \in 1 .. 7 /\ clip.pending \subseteq 1 .. 7
  BY PassesAre DEF ClipInv
<1>3. i \notin Later
  <2>1. \A j \in clip.pending : ~(j < i)
    BY <1>1, <1>2
  <2> QED BY <2>1 DEF Later
<1> QED BY <1>1, <1>2, <1>3 DEF Later

LEMMA PassIsOver ==
  ASSUME ClipInv, NEW pass, Filtering(pass),
         clip' = Skipped \/ clip' = Rewritten \/ clip' = [Rewritten EXCEPT !.sharp = Readable]
  PROVE  PassOver
<1>1. /\ DOMAIN clip' = DOMAIN clip
      /\ clip'.videos = clip.videos /\ clip'.done = clip.done /\ clip'.frames = clip.frames
      /\ clip'.pending = Later /\ clip'.scored = clip.scored
  BY DEF Skipped, Rewritten, ClipInv
<1> QED BY <1>1, NotScored DEF PassOver

LEMMA FilterIsOver ==
  ASSUME ClipInv, NEW pass, Filtering(pass), NEW filter, clip' = Without(filter),
         \A i \in 1 .. 7 : Passes[i] = pass => FilterOf[i] = filter
  PROVE  PassOver
<1>1. /\ DOMAIN clip' = DOMAIN clip
      /\ clip'.videos = clip.videos /\ clip'.done = clip.done /\ clip'.frames = clip.frames
      /\ clip'.pending = {i \in clip.pending : FilterOf[i] # filter} /\ clip'.scored = clip.scored
  BY DEF Without, ClipInv
<1>2. PICK i \in clip.pending : FilterOf[i] = filter
  BY NotScored
<1>3. clip'.pending \subseteq clip.pending /\ i \notin clip'.pending
  BY <1>1, <1>2
<1> QED BY <1>1, <1>2, <1>3, NotScored DEF PassOver

\* A step of the ingest is a video more, or a pass less.
LEMMA IngestGoes ==
  ASSUME ClipInv, IngestStep
  PROVE  ExtractVideo \/ PassOver
<1>1. CASE FindOverlay
  <2>1. Filtering("mask") /\ (clip' = Without("osd") \/ clip' = Skipped)
    BY <1>1 DEF FindOverlay, NoFrames, OnFrames
  <2> QED BY <2>1, PassIsOver, FilterIsOver, PassesAre
<1>2. CASE InpaintOverlay
  <2>1. Filtering("inpaint") /\ clip' = Rewritten
    BY <1>2 DEF InpaintOverlay, OnFrames
  <2> QED BY <2>1, PassIsOver
<1>3. CASE NormaliseColour
  <2>1. Filtering("normalise") /\ (clip' = Without("color_norm") \/ clip' = Rewritten)
    BY <1>3 DEF NormaliseColour, NoFrames, OnFrames
  <2> QED BY <2>1, PassIsOver, FilterIsOver, PassesAre
<1>4. CASE EstimateShear
  <2>1. Filtering("estimate") /\ (clip' = Without("rs_correction") \/ clip' = Skipped)
    BY <1>4 DEF EstimateShear, NoFrames, OnFrames
  <2> QED BY <2>1, PassIsOver, FilterIsOver, PassesAre
<1>5. CASE CorrectShear
  <2>1. Filtering("warp") /\ clip' = Rewritten
    BY <1>5 DEF CorrectShear, OnFrames
  <2> QED BY <2>1, PassIsOver
<1>6. CASE Deblur
  <2>1. /\ Filtering("sharpen")
        /\ \/ clip' = Without("deblur") \/ clip' = Skipped
           \/ clip' = [Rewritten EXCEPT !.sharp = Readable]
    BY <1>6 DEF Deblur, NoFrames, OnFrames
  <2> QED BY <2>1, PassIsOver, FilterIsOver, PassesAre
<1>7. CASE ScoreFrames
  <2>1. Filtering("score") /\ clip' = [Skipped EXCEPT !.scored = clip.edition]
    BY <1>7 DEF ScoreFrames
  <2>2. Later = {}
    <3>1. PICK i \in clip.pending : Passes[i] = "score" /\ i \in 1 .. 7 /\ \A j \in clip.pending : i <= j
      BY <2>1, NotScored
    <3>2. \A j \in clip.pending : j <= 7 /\ j >= 7 /\ j \in Nat
      BY <3>1, PassesAre DEF ClipInv
    <3>3. \A j, k \in clip.pending : ~(j < k)
      BY <3>2
    <3> QED BY <3>3 DEF Later
  <2>3. /\ DOMAIN clip' = DOMAIN clip
        /\ clip'.videos = clip.videos /\ clip'.done = clip.done /\ clip'.frames = clip.frames
        /\ clip'.pending = Later /\ clip'.scored = clip.edition /\ clip'.edition = clip.edition
    BY <2>1 DEF Skipped, ClipInv
  <2> QED BY <2>1, <2>2, <2>3, NotScored DEF PassOver
<1> QED BY <1>1, <1>2, <1>3, <1>4, <1>5, <1>6, <1>7 DEF IngestStep

LEMMA IngestKeepsClip ==
  ASSUME ClipInv, IngestStep
  PROVE  ClipInv'
<1>1. CASE ExtractVideo
  <2>1. /\ clip.done < Len(clip.videos) /\ DOMAIN clip' = DOMAIN clip
        /\ clip'.done = clip.done + 1
        /\ clip'.frames = clip.frames \o FramesOf(clip.videos, clip.done + 1)
        /\ clip'.videos = clip.videos /\ clip'.pending = clip.pending
        /\ clip'.scored = clip.scored /\ clip'.edition = clip.edition
    BY <1>1 DEF ExtractVideo, ClipInv
  <2>2. clip.done \in Nat /\ clip.videos \in Seq(Nat) /\ clip.frames \in FrameSeq
        /\ InOrder(clip.frames, clip.videos, clip.done)
    BY DEF ClipInv
  <2>3. /\ clip.frames \o FramesOf(clip.videos, clip.done + 1) \in FrameSeq
        /\ InOrder(clip.frames \o FramesOf(clip.videos, clip.done + 1), clip.videos, clip.done + 1)
    BY <2>1, <2>2, JoinedInOrder
  <2>4. clip'.frames \in FrameSeq /\ InOrder(clip'.frames, clip'.videos, clip'.done)
    BY <2>1, <2>3
  <2>5. clip'.done \in 0 .. Len(clip'.videos)
    BY <2>1, <2>2
  <2> QED BY <2>1, <2>4, <2>5 DEF ClipInv
<1>2. CASE PassOver
  <2>1. clip'.scored \in {0, clip'.edition} /\ (clip'.scored # 0 => clip'.pending = {})
    BY <1>2 DEF PassOver
  <2> QED BY <1>2, <2>1 DEF PassOver, ClipInv
<1> QED BY <1>1, <1>2, IngestGoes

LEMMA ClipStartsInOrder ==
  ASSUME ClipInit
  PROVE  ClipInv
<1>1. CASE \E videos \in Uploads : \E on \in Filters :
             /\ DOMAIN clip = {"videos", "captured", "frames", "done", "bad", "sharp", "pending", "edition", "scored"}
             /\ clip.videos = videos /\ clip.frames = <<>> /\ clip.done = 0
             /\ clip.pending = {i \in DOMAIN Passes : FilterOf[i] \in on} /\ clip.scored = 0
  <2>1. clip.videos \in Seq(Nat) /\ clip.frames = <<>> /\ clip.done = 0
    BY <1>1, IngestAssumption
  <2>2. clip.done \in 0 .. Len(clip.videos)
    BY <2>1
  <2>3. clip.frames \in FrameSeq /\ InOrder(clip.frames, clip.videos, clip.done)
    BY <2>1, NothingInOrder
  <2> QED BY <1>1, <2>1, <2>2, <2>3 DEF ClipInv
<1>2. CASE \E n \in Captures :
             /\ DOMAIN clip = {"videos", "captured", "frames", "done", "bad", "sharp", "pending", "edition", "scored"}
             /\ clip.videos = <<n>> /\ clip.frames = FramesOf(<<n>>, 1) /\ clip.done = 1
             /\ clip.pending = {} /\ clip.scored = 0
  <2>1. PICK n \in Nat : clip.videos = <<n>> /\ clip.frames = FramesOf(<<n>>, 1) /\ clip.done = 1
    BY <1>2, IngestAssumption
  <2>2. clip.videos \in Seq(Nat) /\ Len(clip.videos) = 1
    BY <2>1
  <2>3. \A videos \in Seq(Nat) : Len(videos) = 1 =>
           /\ <<>> \o FramesOf(videos, 1) \in FrameSeq
           /\ InOrder(<<>> \o FramesOf(videos, 1), videos, 1)
    <3> SUFFICES ASSUME NEW videos \in Seq(Nat), Len(videos) = 1
                 PROVE  /\ <<>> \o FramesOf(videos, 1) \in FrameSeq
                        /\ InOrder(<<>> \o FramesOf(videos, 1), videos, 1)
      OBVIOUS
    <3>1. 0 \in Nat /\ 0 < Len(videos) /\ 0 + 1 = 1
      OBVIOUS
    <3>2. <<>> \in FrameSeq /\ InOrder(<<>>, videos, 0)
      BY NothingInOrder
    <3>3. /\ <<>> \o FramesOf(videos, 0 + 1) \in FrameSeq
          /\ InOrder(<<>> \o FramesOf(videos, 0 + 1), videos, 0 + 1)
      BY <3>1, <3>2, JoinedInOrder
    <3> QED BY <3>1, <3>3
  <2>4. \A videos \in Seq(Nat) : Len(videos) = 1 => <<>> \o FramesOf(videos, 1) = FramesOf(videos, 1)
    BY DEF FramesOf
  <2>5. clip.frames = FramesOf(clip.videos, 1)
    BY <2>1
  <2>6. clip.frames \in FrameSeq /\ InOrder(clip.frames, clip.videos, clip.done)
    BY <2>1, <2>2, <2>3, <2>4, <2>5
  <2>7. clip.done \in 0 .. Len(clip.videos)
    BY <2>1, <2>2
  <2>8. /\ DOMAIN clip = {"videos", "captured", "frames", "done", "bad", "sharp", "pending", "edition", "scored"}
        /\ clip.pending = {} /\ clip.scored = 0
    BY <1>2
  <2>9. clip.pending \subseteq DOMAIN Passes /\ clip.scored \in {0, clip.edition}
    BY <2>8
  <2> QED BY <2>2, <2>6, <2>7, <2>8, <2>9, Zenon DEF ClipInv
<1>3. ASSUME NEW videos \in Uploads, NEW n, NEW bads, NEW sharps,
             clip \in [videos : {videos}, captured : {FALSE}, frames : {<<>>}, done : {0},
                       bad : bads, sharp : sharps,
                       pending : {{i \in DOMAIN Passes : FilterOf[i] \in on} : on \in Filters},
                       edition : {1}, scored : {0}]
      PROVE  ClipInv
  <2>1. PICK on \in Filters : clip.pending = {i \in DOMAIN Passes : FilterOf[i] \in on}
    BY <1>3
  <2> QED BY <1>1, <1>3, <2>1
<1>4. ASSUME NEW n \in Captures, NEW bads,
             clip \in [videos : {<<n>>}, captured : {TRUE}, frames : {FramesOf(<<n>>, 1)}, done : {1},
                       bad : bads, sharp : {{}}, pending : {{}}, edition : {1}, scored : {0}]
      PROVE  ClipInv
  <2>1. /\ DOMAIN clip = {"videos", "captured", "frames", "done", "bad", "sharp", "pending", "edition", "scored"}
        /\ clip.videos = <<n>> /\ clip.frames = FramesOf(<<n>>, 1) /\ clip.done = 1
        /\ clip.pending = {} /\ clip.scored = 0
    BY <1>4
  <2> QED BY <1>2, <2>1
<1> DEFINE
      Total(videos) == Cardinality(Places(videos, Len(videos)))
      Uploaded(videos) ==
        [videos : {videos}, captured : {FALSE}, frames : {<<>>}, done : {0},
         bad : {{}} \cup {{f} : f \in Frames(Total(videos))},
         sharp : {Frames(Total(videos)), {f \in Frames(Total(videos)) : f % 3 = 2}},
         pending : {{i \in DOMAIN Passes : FilterOf[i] \in on} : on \in Filters},
         edition : {1}, scored : {0}]
      Captured(n) ==
        [videos : {<<n>>}, captured : {TRUE}, frames : {FramesOf(<<n>>, 1)}, done : {1},
         bad : {{}} \cup {{f} : f \in Frames(n)}, sharp : {{}}, pending : {{}},
         edition : {1}, scored : {0}]
<1>5. clip \in (UNION {Uploaded(videos) : videos \in Uploads}) \cup (UNION {Captured(n) : n \in Captures})
  BY DEF ClipInit, Clips
<1>6. ASSUME NEW videos \in Uploads, clip \in Uploaded(videos) PROVE ClipInv
  BY <1>3, <1>6, ZenonT(40)
<1>7. ASSUME NEW n \in Captures, clip \in Captured(n) PROVE ClipInv
  BY <1>4, <1>7, Zenon
<1> HIDE DEF Uploaded, Captured
<1>8. (\E videos \in Uploads : clip \in Uploaded(videos)) \/ (\E n \in Captures : clip \in Captured(n))
  <2>1. CASE clip \in UNION {Uploaded(videos) : videos \in Uploads}
    BY <2>1, Zenon
  <2>2. CASE clip \in UNION {Captured(n) : n \in Captures}
    BY <2>2, Zenon
  <2> QED BY <1>5, <2>1, <2>2, Zenon
<1> QED BY <1>6, <1>7, <1>8, Zenon

LEMMA ClipStartsOK == Init => ClipOK
BY ClipStartsInOrder DEF Init, SlamInit, LingbotInit, ClipOK

\* A clip changes in its ingest only.
LEMMA ClipMoves ==
  ASSUME SlamNext \/ LingbotNext
  PROVE  IngestStep \/ UNCHANGED clip
<1>1. CASE SlamNext
  BY <1>1 DEF SlamNext, StartSlam, IngestClip, IngestFails, LeaveIngest, GateFrames, SeedSession,
              BeginStep, EndStep, LeaveTracking, FinaliseSession, InstallFrames, RunBatch,
              CheckTracked, ExportSlam, AskSlamStop
<1>2. CASE LingbotNext
  BY <1>2 DEF LingbotNext, StartLingbot, IngestVideos, IngestFails, LeaveVideos, FetchCheckpoint,
              StartWatchdog, LoadModel, BeginForward, EndForward, InferenceReturns, PublishPartial,
              NoPartial, PollVram, WatchdogWakes, StopWatchdog, LeaveInference, MaskSky, WriteGlb,
              WritePly, WriteCameraPath, RemovePartials, AskLingbotStop
<1> QED BY <1>1, <1>2

LEMMA ClipAlways == ClipOK /\ [Next]_procVars => ClipOK'
<1> SUFFICES ASSUME ClipOK, [Next]_procVars PROVE ClipOK'
  OBVIOUS
<1>1. part' = part
  BY DEF Next, procVars
<1>2. CASE UNCHANGED clip
  BY <1>1, <1>2 DEF ClipOK, ClipInv
<1>3. CASE part \in {"slam", "lingbot"} /\ IngestStep
  BY <1>1, <1>3, IngestKeepsClip DEF ClipOK
<1>4. CASE part = "slam" /\ SlamNext
  BY <1>2, <1>3, <1>4, ClipMoves
<1>5. CASE part = "lingbot" /\ LingbotNext
  BY <1>2, <1>3, <1>5, ClipMoves
<1>6. CASE part = "stream"
  BY <1>1, <1>6 DEF ClipOK
<1> QED BY <1>2, <1>4, <1>5, <1>6 DEF Next, procVars, slamVars

LEMMA AppendedPair ==
  ASSUME NEW s \in Seq(Nat \X Nat), NEW p \in Nat \X Nat, p[1] = p[2],
         \A i \in DOMAIN s : s[i][1] = s[i][2]
  PROVE  /\ Append(s, p) \in Seq(Nat \X Nat)
         /\ \A i \in DOMAIN Append(s, p) : Append(s, p)[i][1] = Append(s, p)[i][2]
OBVIOUS

\* An end leaves what the tracker was given.
LEMMA EndKeepsTrack ==
  ASSUME SlamInv, NEW outcome, slam' = End(outcome), UNCHANGED clip
  PROVE  SlamInv'
BY DEF SlamInv, End, QueuedSlam, Gated, Tracked

LEMMA TrackStep ==
  ASSUME ClipInv, PlanOK, SlamInv, SlamNext
  PROVE  (PlanOK /\ SlamInv)'
<1>0. UNCHANGED plan /\ PlanOK'
  BY DEF SlamNext, StartSlam, IngestClip, LeaveIngest, GateFrames, SeedSession, BeginStep, EndStep,
         LeaveTracking, FinaliseSession, InstallFrames, RunBatch, CheckTracked, ExportSlam, AskSlamStop,
         PlanOK
<1>2. ASSUME UNCHANGED clip, NEW at \in {"ingesting", "gating", "finalising", "launching", "tracked", "exporting"},
             slam.at \in Tracked \/ at \in {"ingesting", "gating", "exporting"},
             at = "gating" => Ingested,
             DOMAIN slam' = DOMAIN slam, slam'.at = at, slam'.given = slam.given,
             slam'.next = slam.next, slam'.selected = slam.selected, slam'.paths = slam.paths
      PROVE  SlamInv'
  BY <1>2 DEF SlamInv, Gated, Tracked, Ingested
<1>3. CASE StartSlam
  <2>1. UNCHANGED clip /\ (slam' = [slam EXCEPT !.at = "ingesting"] \/ slam' = End("cancelled"))
    BY <1>3 DEF StartSlam, RaiseOr
  <2>2. CASE slam' = End("cancelled")
    BY <1>0, <2>1, <2>2, EndKeepsTrack
  <2>3. CASE slam' = [slam EXCEPT !.at = "ingesting"]
    <3>1. /\ DOMAIN slam' = DOMAIN slam /\ slam'.at = "ingesting" /\ slam'.given = slam.given
          /\ slam'.next = slam.next /\ slam'.selected = slam.selected /\ slam'.paths = slam.paths
      BY <2>3 DEF SlamInv, QueuedSlam
    <3> QED BY <1>0, <1>2, <2>1, <3>1
  <2> QED BY <2>1, <2>2, <2>3
<1>4. CASE IngestClip
  <2>1. CASE IngestStep /\ UNCHANGED slam
    <3>1. slam.at = "ingesting"
      BY <1>4 DEF IngestClip
    <3>2. SlamInv'
      BY <2>1, <3>1 DEF SlamInv, Gated, Tracked
    <3> QED BY <1>0, <3>2
  <2>2. CASE slam' = End("failed") /\ UNCHANGED clip
    BY <1>0, <2>2, EndKeepsTrack
  <2> QED BY <1>4, <2>1, <2>2 DEF IngestClip, IngestFails
<1>5. CASE LeaveIngest
  <2>1. UNCHANGED clip /\ Ingested /\ (slam' = [slam EXCEPT !.at = "gating"] \/ slam' = End("cancelled"))
    BY <1>5 DEF LeaveIngest, Unless
  <2>2. CASE slam' = End("cancelled")
    BY <1>0, <2>1, <2>2, EndKeepsTrack
  <2>3. CASE slam' = [slam EXCEPT !.at = "gating"]
    <3>1. /\ DOMAIN slam' = DOMAIN slam /\ slam'.at = "gating" /\ slam'.given = slam.given
          /\ slam'.next = slam.next /\ slam'.selected = slam.selected /\ slam'.paths = slam.paths
      BY <2>3 DEF SlamInv, QueuedSlam
    <3> QED BY <1>0, <1>2, <2>1, <3>1
  <2> QED BY <2>1, <2>2, <2>3
<1>6. CASE GateFrames
  <2>1. UNCHANGED clip /\ slam.at = "gating" /\ slam' = [slam EXCEPT !.at = "seeding", !.selected = Selected]
    BY <1>6 DEF GateFrames
  <2>2. Chosen(Selected, Len(clip.frames))
    BY SelectedIsChosen DEF ClipInv
  <2>3. /\ DOMAIN slam' = DOMAIN slam /\ slam'.at = "seeding" /\ slam'.given = slam.given
        /\ slam'.next = slam.next /\ slam'.selected = Selected
    BY <2>1 DEF SlamInv, QueuedSlam
  <2>4. SlamInv'
    BY <2>1, <2>2, <2>3 DEF SlamInv, Gated, Tracked, Ingested
  <2> QED BY <1>0, <2>1, <2>4
<1>7. CASE SeedSession
  <2>1. UNCHANGED clip /\ slam.at = "seeding"
        /\ \/ slam' = End("failed")
           \/ \E at \in {"batch", "tracking"} :
                slam' = [slam EXCEPT !.paths = ResolveFramePaths(slam.selected), !.at = at]
    BY <1>7 DEF SeedSession
  <2>2. CASE slam' = End("failed")
    BY <1>0, <2>1, <2>2, EndKeepsTrack
  <2>3. ASSUME NEW at \in {"batch", "tracking"},
               slam' = [slam EXCEPT !.paths = ResolveFramePaths(slam.selected), !.at = at]
        PROVE  SlamInv'
    <3>1. Chosen(slam.selected, Len(clip.frames)) /\ Len(clip.frames) \in Nat
      BY <2>1 DEF SlamInv, Gated, ClipInv, FrameSeq
    <3>2. {i \in DOMAIN slam.selected : slam.selected[i] \in Frames(Len(clip.frames))} = DOMAIN slam.selected
      <4>1. slam.selected \in Seq(Frames(Len(clip.frames)))
        BY <3>1 DEF Chosen
      <4>2. \A i \in DOMAIN slam.selected : slam.selected[i] \in Frames(Len(clip.frames))
        BY <4>1
      <4> QED BY <4>2
    <3>3. ResolveFramePaths(slam.selected) = slam.selected
      BY <3>1, <3>2, PickedAll DEF ResolveFramePaths, Chosen
    <3>4. /\ DOMAIN slam' = DOMAIN slam /\ slam'.at = at /\ slam'.given = slam.given
          /\ slam'.next = slam.next /\ slam'.selected = slam.selected /\ slam'.paths = slam.selected
      BY <2>3, <3>3 DEF SlamInv, QueuedSlam
    <3> QED BY <2>1, <3>1, <3>4 DEF SlamInv, Gated, Tracked, Ingested
  <2> QED BY <1>0, <2>1, <2>2, <2>3
<1>8. CASE BeginStep
  <2>1. UNCHANGED clip /\ slam.at = "tracking" /\ slam.next <= Len(slam.paths)
        /\ \/ slam' = [slam EXCEPT !.next = @ + 1]
           \/ slam' = [slam EXCEPT !.at = "stepping"]
           \/ slam' = End("cancelled")
    BY <1>8 DEF BeginStep, RaiseOr
  <2>2. CASE slam' = End("cancelled")
    BY <1>0, <2>1, <2>2, EndKeepsTrack
  <2>3. CASE slam' = [slam EXCEPT !.next = @ + 1] \/ slam' = [slam EXCEPT !.at = "stepping"]
    <3>1. /\ DOMAIN slam' = DOMAIN slam /\ slam'.given = slam.given
          /\ slam'.selected = slam.selected /\ slam'.paths = slam.paths
          /\ \/ slam'.at = "tracking" /\ slam'.next = slam.next + 1
             \/ slam'.at = "stepping" /\ slam'.next = slam.next
      BY <2>1, <2>3 DEF SlamInv, QueuedSlam
    <3>2. slam.paths = slam.selected
      BY <2>1 DEF SlamInv, Tracked
    <3>3. SlamInv'
      BY <2>1, <3>1, <3>2 DEF SlamInv, Gated, Tracked, Ingested
    <3> QED BY <1>0, <2>1, <3>3
  <2> QED BY <2>1, <2>2, <2>3
<1>9. CASE EndStep
  <2> DEFINE idx == slam.selected[slam.next]
             image == slam.paths[slam.next]
  <2>1. UNCHANGED clip /\ slam.at = "stepping" /\ slam.paths = slam.selected
        /\ slam.next \in 1 .. Len(slam.selected) /\ Chosen(slam.selected, Len(clip.frames))
        /\ slam.given \in Seq(Nat \X Nat)
    <3>1. UNCHANGED clip /\ slam.at = "stepping"
      BY <1>9 DEF EndStep
    <3>2. /\ slam.paths = slam.selected /\ Chosen(slam.selected, Len(clip.frames))
          /\ slam.given \in Seq(Nat \X Nat)
          /\ slam.next \in Nat \ {0} /\ slam.next <= Len(slam.selected)
      BY <3>1 DEF SlamInv, Tracked, Gated
    <3>3. Len(slam.selected) \in Nat
      BY <3>2 DEF Chosen
    <3> QED BY <3>1, <3>2, <3>3
  <2>0. CASE slam' = End("failed")
    BY <1>0, <2>0, <2>1, EndKeepsTrack
  <2>2. CASE slam' # End("failed")
    <3>1. /\ DOMAIN slam' = DOMAIN slam /\ slam'.at = "tracking" /\ slam'.next = slam.next + 1
          /\ slam'.selected = slam.selected /\ slam'.paths = slam.paths
          /\ slam'.given \in {slam.given, Append(slam.given, <<idx, image>>)}
      BY <1>9, <2>2 DEF EndStep, SlamInv, QueuedSlam
    <3>2. image = idx /\ idx \in Nat
      <4>1. slam.selected \in Seq(Nat) /\ slam.next \in DOMAIN slam.selected
        BY <2>1 DEF Chosen, Frames
      <4> QED BY <2>1, <4>1
    <3> HIDE DEF idx, image
    <3>3. /\ slam'.given \in Seq(Nat \X Nat)
          /\ \A i \in DOMAIN slam'.given : slam'.given[i][1] = slam'.given[i][2]
      <4>1. CASE slam'.given = slam.given
        BY <2>1, <4>1 DEF SlamInv
      <4>2. CASE slam'.given = Append(slam.given, <<idx, image>>)
        <5>1. <<idx, image>> \in Nat \X Nat /\ <<idx, image>>[1] = <<idx, image>>[2]
          BY <3>2
        <5>2. \A i \in DOMAIN slam.given : slam.given[i][1] = slam.given[i][2]
          BY DEF SlamInv
        <5>3. slam.given \in Seq(Nat \X Nat)
          BY <2>1
        <5> QED BY ONLY <4>2, <5>1, <5>2, <5>3, AppendedPair
      <4> QED BY <3>1, <4>1, <4>2
    <3>4. SlamInv'
      BY <2>1, <3>1, <3>3 DEF SlamInv, Gated, Tracked, Ingested
    <3> QED BY <1>0, <3>4
  <2> QED BY <2>0, <2>2
<1>15. CASE LeaveTracking
  <2>1. UNCHANGED clip /\ slam.at = "tracking"
        /\ (slam' = [slam EXCEPT !.at = "finalising"] \/ slam' = End("cancelled"))
    BY <1>15 DEF LeaveTracking, Unless
  <2>2. CASE slam' = End("cancelled")
    BY <1>0, <2>1, <2>2, EndKeepsTrack
  <2>3. CASE slam' = [slam EXCEPT !.at = "finalising"]
    <3>1. /\ DOMAIN slam' = DOMAIN slam /\ slam'.at = "finalising" /\ slam'.given = slam.given
          /\ slam'.next = slam.next /\ slam'.selected = slam.selected /\ slam'.paths = slam.paths
      BY <2>3 DEF SlamInv, QueuedSlam
    <3> QED BY <1>0, <1>2, <2>1, <3>1 DEF Tracked
  <2> QED BY <2>1, <2>2, <2>3
<1>10. CASE FinaliseSession
  <2>1. UNCHANGED clip /\ slam.at = "finalising"
        /\ \E poses, keyframes :
             slam' = [slam EXCEPT !.at = "tracked", !.poses = poses, !.keyframes = keyframes]
    BY <1>10 DEF FinaliseSession
  <2>2. /\ DOMAIN slam' = DOMAIN slam /\ slam'.at = "tracked" /\ slam'.given = slam.given
        /\ slam'.next = slam.next /\ slam'.selected = slam.selected /\ slam'.paths = slam.paths
    BY <2>1 DEF SlamInv, QueuedSlam
  <2> QED BY <1>0, <1>2, <2>1, <2>2 DEF Tracked
<1>16. CASE InstallFrames
  <2>1. UNCHANGED clip /\ slam.at = "batch"
        /\ (slam' = [slam EXCEPT !.at = "launching"] \/ slam' = End("failed"))
    BY <1>16 DEF InstallFrames
  <2>2. CASE slam' = End("failed")
    BY <1>0, <2>1, <2>2, EndKeepsTrack
  <2>3. CASE slam' = [slam EXCEPT !.at = "launching"]
    <3>1. /\ DOMAIN slam' = DOMAIN slam /\ slam'.at = "launching" /\ slam'.given = slam.given
          /\ slam'.next = slam.next /\ slam'.selected = slam.selected /\ slam'.paths = slam.paths
      BY <2>3 DEF SlamInv, QueuedSlam
    <3> QED BY <1>0, <1>2, <2>1, <3>1 DEF Tracked
  <2> QED BY <2>1, <2>2, <2>3
<1>11. CASE RunBatch
  <2>1. UNCHANGED clip /\ slam.at = "launching"
        /\ \/ \E poses, keyframes :
                slam' = [slam EXCEPT !.at = "tracked", !.poses = poses, !.keyframes = keyframes]
           \/ slam' = End("failed")
    BY <1>11 DEF RunBatch
  <2>2. CASE slam' = End("failed")
    BY <1>0, <2>1, <2>2, EndKeepsTrack
  <2>3. CASE slam' # End("failed")
    <3>1. /\ DOMAIN slam' = DOMAIN slam /\ slam'.at = "tracked" /\ slam'.given = slam.given
          /\ slam'.next = slam.next /\ slam'.selected = slam.selected /\ slam'.paths = slam.paths
      BY <2>1, <2>3 DEF SlamInv, QueuedSlam
    <3> QED BY <1>0, <1>2, <2>1, <3>1 DEF Tracked
  <2> QED BY <2>2, <2>3
<1>12. CASE CheckTracked
  <2>1. UNCHANGED clip /\ (slam' = [slam EXCEPT !.at = "exporting"] \/ slam' = End("cancelled"))
    BY <1>12 DEF CheckTracked, Unless
  <2>2. CASE slam' = End("cancelled")
    BY <1>0, <2>1, <2>2, EndKeepsTrack
  <2>3. CASE slam' = [slam EXCEPT !.at = "exporting"]
    <3>1. /\ DOMAIN slam' = DOMAIN slam /\ slam'.at = "exporting" /\ slam'.given = slam.given
          /\ slam'.next = slam.next /\ slam'.selected = slam.selected /\ slam'.paths = slam.paths
      BY <2>3 DEF SlamInv, QueuedSlam
    <3> QED BY <1>0, <1>2, <2>1, <3>1
  <2> QED BY <2>1, <2>2, <2>3
<1>13. CASE ExportSlam
  <2>1. UNCHANGED clip
        /\ \/ slam' = End("failed")
           \/ \E rows, artifacts : slam' = [End("ready") EXCEPT !.rows = rows, !.artifacts = artifacts]
    BY <1>13 DEF ExportSlam
  <2>2. CASE slam' = End("failed")
    BY <1>0, <2>1, <2>2, EndKeepsTrack
  <2>3. CASE slam' # End("failed")
    BY <1>0, <2>1, <2>3 DEF SlamInv, End, QueuedSlam, Gated, Tracked
  <2> QED BY <2>2, <2>3
<1>14. CASE AskSlamStop
  <2>1. UNCHANGED clip /\ UNCHANGED slam
    BY <1>14 DEF AskSlamStop
  <2>2. SlamInv'
    BY <2>1 DEF SlamInv, Ingested
  <2> QED BY <1>0, <2>1, <2>2
<1> QED BY <1>3, <1>4, <1>5, <1>6, <1>7, <1>8, <1>9, <1>10, <1>11, <1>12, <1>13, <1>14, <1>15, <1>16
        DEF SlamNext

LEMMA TrackInit == Init => TrackInv
<1> SUFFICES ASSUME Init PROVE TrackInv
  OBVIOUS
<1>1. slam = QueuedSlam
  BY DEF Init, SlamInit, NoSlam
<1>2. CASE part = "slam"
  <2>1. plan \in Plans
    BY <1>2 DEF Init, SlamInit
  <2>2. PlanOK
    <3>1. plan.stride \in Strides /\ plan.max \in {2, 99} /\ plan.quantile \in {0, 50, 100}
      BY <2>1 DEF Plans
    <3>2. plan.stride \in Nat \ {0}
      BY <3>1, SlamAssumption
    <3>3. plan.max \in Nat \ {0}
      BY <3>1
    <3>4. plan.quantile \in 0 .. 100
      BY <3>1
    <3> QED BY <3>2, <3>3, <3>4 DEF PlanOK
  <2>3. SlamInv
    BY <1>1 DEF SlamInv, QueuedSlam, Gated, Tracked
  <2> QED BY <1>2, <2>2, <2>3 DEF TrackInv
<1> QED BY <1>1, <1>2 DEF TrackInv

LEMMA TrackAlways == ClipOK /\ TrackInv /\ [Next]_procVars => TrackInv'
<1> SUFFICES ASSUME ClipOK, TrackInv, [Next]_procVars PROVE TrackInv'
  OBVIOUS
<1>1. CASE part = "slam" /\ part' = part /\ SlamNext
  BY <1>1, TrackStep DEF ClipOK, TrackInv
<1>2. CASE UNCHANGED <<part, clip, plan, slam>>
  BY <1>2 DEF TrackInv, PlanOK, SlamInv, Ingested
<1>3. CASE part # "slam" /\ UNCHANGED <<part, slam>>
  BY <1>3 DEF TrackInv
<1> QED BY <1>1, <1>2, <1>3 DEF Next, procVars, slamVars

\* For every set of videos, filters, stride and gate: a tracker is given each
\* photo under its own number, the chosen frames rise, the clip's frames and scores
\* are those the gate went by, and a clip with a frame leaves one to track.
THEOREM FramesKeepTheirNumbers == Spec => []TracksItsFrames
<1>1. ClipOK /\ TrackInv => TracksItsFrames
  <2>1. CASE part = "slam"
    <3>1. ASSUME ClipOK, Ingested PROVE FramesReady
      BY <2>1, <3>1 DEF ClipOK, ClipInv, Ingested, FramesReady
    <3>2. ASSUME ClipOK, TrackInv, slam.at \in Gated, clip.frames # <<>> PROVE slam.selected # <<>>
      <4>1. clip.frames \in FrameSeq /\ Chosen(slam.selected, Len(clip.frames))
        BY <2>1, <3>2 DEF ClipOK, TrackInv, ClipInv, SlamInv
      <4>2. Len(clip.frames) > 0
        BY <3>2, <4>1 DEF FrameSeq
      <4> QED BY <4>1, <4>2 DEF Chosen
    <3>3. ASSUME TrackInv, slam.at \in Tracked PROVE Rising(slam.selected)
      BY <2>1, <3>3 DEF TrackInv, SlamInv, Gated, Chosen
    <3> QED BY <2>1, <3>1, <3>2, <3>3 DEF TrackInv, SlamInv, TracksItsFrames, Gated, Tracked, Rising
  <2>2. CASE part # "slam"
    BY <2>2 DEF TrackInv, TracksItsFrames, QueuedSlam
  <2> QED BY <2>1, <2>2
<1> QED BY ClipStartsOK, ClipAlways, TrackInit, TrackAlways, <1>1, PTL DEF Spec
-----------------------------------------------------------------------------
(* Partial clouds *)

BotFields ==
  /\ DOMAIN bot = {"at", "outcome", "total", "done", "last", "accum", "spoiled", "heads", "made"}
  /\ DOMAIN snap = {"active", "cloud", "files", "shown"}

Whole(cloud) ==
  /\ Len(cloud.points) = cloud.label
  /\ \A i \in DOMAIN cloud.points : cloud.points[i] = [frame |-> i, image |-> i]

\* s is the sequence 1, 2, ..., n.
Counts(s, n) == s \in Seq(Nat) /\ Len(s) = n /\ \A i \in 1 .. n : s[i] = i

Before == {"queued", "ingesting", "fetching", "fetched", "loading"}
Running == {"streaming", "forwarding"}

\* Unless a copy of points failed, the accumulators hold the points of all the
\* frames that went through the model, in order, and so does every cloud made of them.
BotInv ==
  /\ BotFields
  /\ bot.spoiled \in BOOLEAN /\ bot.total \in Nat /\ bot.done \in Nat
  /\ bot.at \in Before => bot.accum = <<>> /\ bot.done = 0
  /\ bot.at \in Running /\ ~bot.spoiled => Counts(bot.accum, bot.done)
  /\ bot.at = "forwarding" => bot.done < bot.total
  /\ ~bot.spoiled => Whole(snap.cloud) /\ Whole(snap.shown)

LEMMA BotInitInv == Init => BotInv
<1> SUFFICES ASSUME Init PROVE BotInv
  OBVIOUS
<1>1. /\ bot = [at |-> "queued", outcome |-> "none", total |-> 0, done |-> 0, last |-> 0,
                accum |-> <<>>, spoiled |-> FALSE, heads |-> {}, made |-> {}]
      /\ snap = [active |-> FALSE, cloud |-> NoCloud, files |-> {}, shown |-> NoCloud]
  BY DEF Init, LingbotInit, BotQueued
<1>2. BotFields
  BY <1>1 DEF BotFields
<1>3. Whole(snap.cloud) /\ Whole(snap.shown)
  BY <1>1 DEF Whole, NoCloud
<1>4. /\ bot.total = 0 /\ bot.done = 0 /\ bot.accum = <<>> /\ bot.at = "queued"
  BY <1>1
<1>5. bot.spoiled \in BOOLEAN
  BY <1>1
<1> QED BY <1>2, <1>3, <1>4, <1>5 DEF BotInv, Running

LEMMA Concatenated ==
  ASSUME NEW S, NEW s \in Seq(S), NEW t \in Seq(S), NEW i \in 1 .. Len(s) + Len(t)
  PROVE  (s \o t)[i] = IF i <= Len(s) THEN s[i] ELSE t[i - Len(s)]
OBVIOUS

\* The next forward takes the frames after those that went through.
LEMMA BatchCounts ==
  ASSUME NEW n \in Nat, NEW k \in Nat, NEW s, Counts(s, n)
  PROVE  Counts(s \o [i \in 1 .. k |-> n + i], n + k)
<1>1. [i \in 1 .. k |-> n + i] \in Seq(Nat) /\ Len([i \in 1 .. k |-> n + i]) = k
  OBVIOUS
<1>2. s \in Seq(Nat) /\ Len(s) = n
  BY DEF Counts
<1>3. /\ s \o [i \in 1 .. k |-> n + i] \in Seq(Nat)
      /\ Len(s \o [i \in 1 .. k |-> n + i]) = n + k
  BY ONLY <1>1, <1>2, n \in Nat, k \in Nat
<1>4. ASSUME NEW i \in 1 .. n + k PROVE (s \o [j \in 1 .. k |-> n + j])[i] = i
  <2>1. (s \o [j \in 1 .. k |-> n + j])[i] = IF i <= n THEN s[i] ELSE i
    BY <1>1, <1>2, Concatenated
  <2> QED BY <2>1 DEF Counts
<1> QED BY <1>3, <1>4 DEF Counts

\* A cloud made of whole accumulators is whole.
LEMMA ColouredWhole ==
  ASSUME NEW n \in Nat, NEW s, Counts(s, n)
  PROVE  Whole([label |-> n, points |-> Coloured(s)])
<1>1. s \in Seq(Nat) /\ Len(s) = n /\ DOMAIN s = 1 .. n
  BY DEF Counts
<1>2. Coloured(s) = [i \in 1 .. n |-> [frame |-> s[i], image |-> i]]
  BY <1>1 DEF Coloured
<1>3. Len(Coloured(s)) = n /\ DOMAIN Coloured(s) = 1 .. n
  BY <1>2
<1>4. \A i \in 1 .. n : Coloured(s)[i] = [frame |-> i, image |-> i]
  BY <1>2 DEF Counts
<1> HIDE DEF Coloured
<1> QED BY <1>3, <1>4 DEF Whole

\* A snapshot is counted from accumulators as whole as the run is unspoiled.
LEMMA CountKeepsWhole ==
  ASSUME BotInv, bot.at = "forwarding", NEW accum, NEW done \in Nat,
         ~bot.spoiled /\ Len(accum) = done => Counts(accum, done),
         Count(accum, done)
  PROVE  BotInv'
<1>1. /\ DOMAIN bot' = DOMAIN bot
      /\ bot'.accum = accum /\ bot'.done = done /\ bot'.at = "streaming" /\ bot'.total = bot.total
      /\ bot'.spoiled = (bot.spoiled \/ Len(accum) # done)
  BY DEF Count, BotInv, BotFields
<1>2. \/ snap' = snap
      \/ snap' = [snap EXCEPT !.active = TRUE,
                    !.cloud = [label |-> done, points |-> Coloured(accum)]]
  BY DEF Count
<1>3. BotFields'
  BY <1>1, <1>2 DEF BotInv, BotFields
<1>4. bot'.spoiled \in BOOLEAN
  BY <1>1
<1>5. ASSUME ~bot'.spoiled
      PROVE  Counts(accum, done) /\ Whole(snap'.cloud) /\ Whole(snap'.shown)
  <2>1. ~bot.spoiled /\ Len(accum) = done
    BY <1>1, <1>5
  <2>2. Counts(accum, done)
    BY <2>1
  <2>3. Whole(snap.cloud) /\ Whole(snap.shown)
    BY <2>1 DEF BotInv
  <2>4. Whole([label |-> done, points |-> Coloured(accum)])
    BY <2>2, ColouredWhole
  <2>5. CASE snap' = snap
    BY <2>2, <2>3, <2>5
  <2>6. CASE snap' = [snap EXCEPT !.active = TRUE,
                        !.cloud = [label |-> done, points |-> Coloured(accum)]]
    <3>1. /\ snap'.cloud = [label |-> done, points |-> Coloured(accum)]
          /\ snap'.shown = snap.shown
      BY <2>6 DEF BotInv, BotFields
    <3> QED BY <2>2, <2>3, <2>4, <3>1
  <2> QED BY <1>2, <2>5, <2>6
<1> QED BY <1>1, <1>3, <1>4, <1>5 DEF BotInv, Before

\* The steps that take nothing into the accumulators and no cloud out of them.
LEMMA OthersKeepWhole ==
  ASSUME BotInv, BotFields',
         bot'.spoiled = bot.spoiled, bot'.total \in Nat, bot'.done = bot.done,
         bot'.at \notin Running \/ (bot.at \in {"loading", "streaming"} /\ bot'.accum = bot.accum),
         bot'.at = "forwarding" => bot'.done < bot'.total,
         bot'.at \in Before =>
           /\ bot.at \in Before
           /\ bot'.accum = bot.accum,
         ~bot.spoiled => Whole(snap'.cloud) /\ Whole(snap'.shown)
  PROVE  BotInv'
<1>1. bot'.at \in Running /\ ~bot.spoiled => Counts(bot'.accum, bot'.done)
  <2>1. CASE bot.at = "streaming" /\ bot'.accum = bot.accum
    BY <2>1 DEF BotInv, Running
  <2>2. CASE bot.at = "loading" /\ bot'.accum = bot.accum
    <3>1. bot'.accum = <<>> /\ bot'.done = 0
      BY <2>2 DEF BotInv, Before
    <3>2. Counts(<<>>, 0)
      BY DEF Counts
    <3> QED BY <3>1, <3>2
  <2>3. CASE bot'.at \notin Running
    BY <2>3
  <2> QED BY <2>1, <2>2, <2>3
<1>2. bot'.at \in Before => bot'.accum = <<>> /\ bot'.done = 0
  BY DEF BotInv
<1>3. bot'.spoiled \in BOOLEAN /\ bot'.total \in Nat /\ bot'.done \in Nat
  BY DEF BotInv
<1> QED BY <1>1, <1>2, <1>3 DEF BotInv

LEMMA BotStep ==
  ASSUME ClipInv, BotInv, LingbotNext
  PROVE  BotInv'
<1> USE LingbotAssumption DEF Before, Running
<1>0. ASSUME snap' = snap PROVE ~bot.spoiled => Whole(snap'.cloud) /\ Whole(snap'.shown)
  BY <1>0 DEF BotInv
<1>1. ASSUME NEW outcome, BotEnds(outcome) \/ Unwind(outcome), snap' = snap PROVE BotInv'
  <2>1. /\ DOMAIN bot' = DOMAIN bot /\ bot'.at \in {"ended", "unwinding"}
        /\ bot'.spoiled = bot.spoiled /\ bot'.total = bot.total /\ bot'.done = bot.done
    BY <1>1 DEF BotEnds, Unwind, BotInv, BotFields
  <2>2. BotFields'
    BY <1>1, <2>1 DEF BotInv, BotFields
  <2> QED BY <1>0, <1>1, <2>1, <2>2, OthersKeepWhole DEF BotInv
<1>2. CASE StartLingbot
  <2>1. /\ snap' = snap
        /\ \/ BotEnds("cancelled")
           \/ (bot.at = "queued" /\ bot' = [bot EXCEPT !.at = "ingesting"])
    BY <1>2 DEF StartLingbot, RaiseOr
  <2>2. CASE bot.at = "queued" /\ bot' = [bot EXCEPT !.at = "ingesting"]
    BY <2>1, <2>2 DEF BotInv, BotFields
  <2> QED BY <1>1, <2>1, <2>2
<1>3. CASE IngestVideos
  <2>1. snap' = snap /\ (BotEnds("failed") \/ bot' = bot)
    BY <1>3 DEF IngestVideos
  <2>2. CASE bot' = bot
    BY <2>1, <2>2 DEF BotInv, BotFields
  <2> QED BY <1>1, <2>1, <2>2
<1>15. CASE LeaveVideos
  <2>1. /\ snap' = snap
        /\ \/ BotEnds("cancelled")
           \/ /\ bot.at = "ingesting"
              /\ bot' = [bot EXCEPT !.at = "fetching", !.total = Len(clip.frames)]
    BY <1>15 DEF LeaveVideos, BotUnless
  <2>2. ASSUME NEW n \in Nat, bot.at = "ingesting", bot' = [bot EXCEPT !.at = "fetching", !.total = n]
        PROVE  BotInv'
    BY <2>1, <2>2 DEF BotInv, BotFields
  <2>3. Len(clip.frames) \in Nat
    BY DEF ClipInv, FrameSeq
  <2> QED BY <1>1, <2>1, <2>2, <2>3
<1>4. CASE FetchCheckpoint
  <2>1. /\ snap' = snap
        /\ \/ BotEnds("failed")
           \/ (bot.at = "fetching" /\ bot' = [bot EXCEPT !.at = "fetched"])
    BY <1>4 DEF FetchCheckpoint
  <2>2. CASE bot.at = "fetching" /\ bot' = [bot EXCEPT !.at = "fetched"]
    BY <2>1, <2>2 DEF BotInv, BotFields
  <2> QED BY <1>1, <2>1, <2>2
<1>16. CASE StartWatchdog
  <2>1. /\ snap' = snap
        /\ \/ BotEnds("cancelled")
           \/ (bot.at = "fetched" /\ bot' = [bot EXCEPT !.at = "loading"])
    BY <1>16 DEF StartWatchdog, BotUnless
  <2>2. CASE bot.at = "fetched" /\ bot' = [bot EXCEPT !.at = "loading"]
    BY <2>1, <2>2 DEF BotInv, BotFields
  <2> QED BY <1>1, <2>1, <2>2
<1>5. CASE LoadModel
  <2>1. /\ snap' = snap
        /\ \/ Unwind("failed")
           \/ (bot.at = "loading" /\ bot' = [bot EXCEPT !.at = "streaming"])
    BY <1>5 DEF LoadModel
  <2>2. CASE bot.at = "loading" /\ bot' = [bot EXCEPT !.at = "streaming"]
    <3>1. /\ BotFields' /\ bot'.at = "streaming" /\ bot'.accum = bot.accum
          /\ bot'.spoiled = bot.spoiled /\ bot'.total = bot.total /\ bot'.done = bot.done
      BY <2>1, <2>2 DEF BotInv, BotFields
    <3> QED BY <1>0, <2>1, <2>2, <3>1, OthersKeepWhole DEF BotInv
  <2> QED BY <1>1, <2>1, <2>2
<1>17. CASE BeginForward
  <2>1. /\ snap' = snap /\ bot.at = "streaming" /\ bot.done < bot.total
        /\ \/ Unwind("failed") \/ Unwind("cancelled")
           \/ bot' = [bot EXCEPT !.at = "forwarding"]
    BY <1>17 DEF BeginForward, RaiseOr
  <2>2. CASE bot' = [bot EXCEPT !.at = "forwarding"]
    <3>1. /\ BotFields' /\ bot'.at = "forwarding" /\ bot'.accum = bot.accum
          /\ bot'.spoiled = bot.spoiled /\ bot'.total = bot.total /\ bot'.done = bot.done
      BY <2>1, <2>2 DEF BotInv, BotFields
    <3> QED BY <1>0, <2>1, <3>1, OthersKeepWhole DEF BotInv
  <2> QED BY <1>1, <2>1, <2>2
<1>6. CASE EndForward
  <2>1. bot.at = "forwarding" /\ bot.done < bot.total
    BY <1>6 DEF EndForward, BotInv
  <2>2. NextBatch \in Nat \ {0}
    BY <2>1 DEF NextBatch, BotInv
  <2>3. CASE Unwind("failed") /\ snap' = snap
    BY <1>1, <2>3
  <2>4. CASE Count(bot.accum \o [i \in 1 .. NextBatch |-> bot.done + i], bot.done + NextBatch)
    <3> DEFINE accum == bot.accum \o [i \in 1 .. NextBatch |-> bot.done + i]
    <3>1. ~bot.spoiled => Counts(accum, bot.done + NextBatch)
      BY <2>1, <2>2, BatchCounts DEF BotInv
    <3>2. bot.done + NextBatch \in Nat
      BY <2>2 DEF BotInv
    <3> HIDE DEF accum
    <3> QED BY <2>1, <2>4, <3>1, <3>2, CountKeepsWhole DEF accum
  <2>5. CASE Count(bot.accum, bot.done + NextBatch)
    <3>1. bot.done + NextBatch \in Nat
      BY <2>2 DEF BotInv
    <3>2. ~bot.spoiled => Len(bot.accum) # bot.done + NextBatch
      BY <2>1, <2>2 DEF BotInv, Counts
    <3> QED BY <2>1, <2>5, <3>1, <3>2, CountKeepsWhole
  <2> QED BY <1>6, <2>3, <2>4, <2>5 DEF EndForward
<1>7. CASE InferenceReturns
  <2>1. CASE Unwind("failed") /\ snap' = snap
    BY <1>1, <2>1
  <2>2. CASE ~Unwind("failed")
    <3>1. snap' = snap /\ \E heads \in {{}, {"depth"}, {"world_points"}} :
             bot' = [bot EXCEPT !.at = "unwinding", !.outcome = "none", !.accum = <<>>, !.heads = heads]
      BY <1>7, <2>2 DEF InferenceReturns
    <3>2. /\ BotFields' /\ bot'.at = "unwinding"
          /\ bot'.spoiled = bot.spoiled /\ bot'.total = bot.total /\ bot'.done = bot.done
      BY <3>1 DEF BotInv, BotFields
    <3> QED BY <1>0, <3>1, <3>2, OthersKeepWhole DEF BotInv
  <2> QED BY <1>7, <2>1, <2>2 DEF InferenceReturns
<1>8. CASE PublishPartial \/ NoPartial
  <2>1. bot' = bot
    BY <1>8 DEF PublishPartial, NoPartial
  <2>2. /\ DOMAIN snap' = DOMAIN snap /\ snap'.cloud = NoCloud
        /\ snap'.shown = snap.cloud \/ snap'.shown = snap.shown
    BY <1>8 DEF PublishPartial, NoPartial, BotInv, BotFields
  <2>3. Whole(NoCloud)
    BY DEF Whole, NoCloud
  <2>4. ~bot.spoiled => Whole(snap'.cloud) /\ Whole(snap'.shown)
    BY <2>2, <2>3 DEF BotInv
  <2> QED BY <2>1, <2>2, <2>4 DEF BotInv, BotFields
<1>9. CASE bot' = bot /\ snap' = snap
  BY <1>9 DEF BotInv, BotFields
<1>10. CASE PollVram \/ WatchdogWakes \/ StopWatchdog \/ AskLingbotStop
  <2>1. bot' = bot /\ snap' = snap
    BY <1>10 DEF PollVram, WatchdogWakes, StopWatchdog, AskLingbotStop
  <2> QED BY <1>9, <2>1
<1>11. ASSUME snap' = snap, NEW made, NEW at \in {"exporting", "exporting_glb", "exporting_ply", "exporting_path", "cleaning_up"},
              bot' = [bot EXCEPT !.at = at, !.made = made] \/ bot' = [bot EXCEPT !.at = at]
       PROVE  BotInv'
  <2>1. /\ BotFields' /\ bot'.at = at
        /\ bot'.spoiled = bot.spoiled /\ bot'.total = bot.total /\ bot'.done = bot.done
    <3>1. BotFields
      BY DEF BotInv
    <3>2. CASE bot' = [bot EXCEPT !.at = at, !.made = made]
      BY <1>11, <3>1, <3>2 DEF BotFields
    <3>3. CASE bot' = [bot EXCEPT !.at = at]
      BY <1>11, <3>1, <3>3 DEF BotFields
    <3> QED BY <1>11, <3>2, <3>3
  <2> QED BY <1>0, <1>11, <2>1, OthersKeepWhole DEF BotInv
<1>12. CASE LeaveInference
  <2>1. /\ snap' = snap
        /\ \/ \E outcome : BotEnds(outcome)
           \/ bot' = [bot EXCEPT !.at = "exporting"]
    BY <1>12 DEF LeaveInference, BotUnless
  <2> QED BY <1>1, <1>11, <2>1
<1>13. CASE MaskSky \/ WriteGlb \/ WritePly \/ WriteCameraPath
  <2>1. snap' = snap
    BY <1>13 DEF MaskSky, WriteGlb, WritePly, WriteCameraPath
  <2>2. \/ BotEnds("failed")
        \/ bot' = [bot EXCEPT !.at = "exporting_glb"]
        \/ \E made : bot' = [bot EXCEPT !.at = "exporting_ply", !.made = made]
        \/ \E made : bot' = [bot EXCEPT !.at = "exporting_path", !.made = made]
        \/ \E made : bot' = [bot EXCEPT !.at = "cleaning_up", !.made = made]
    BY <1>13 DEF MaskSky, WriteGlb, WritePly, WriteCameraPath
  <2> QED BY <1>1, <1>11, <2>1, <2>2
<1>14. CASE RemovePartials
  <2>1. /\ DOMAIN bot' = DOMAIN bot /\ bot'.at = "ended"
        /\ bot'.spoiled = bot.spoiled /\ bot'.total = bot.total /\ bot'.done = bot.done
        /\ DOMAIN snap' = DOMAIN snap /\ snap'.cloud = snap.cloud /\ snap'.shown = snap.shown
    BY <1>14 DEF RemovePartials, BotEnds, BotInv, BotFields
  <2>2. BotFields' /\ (~bot.spoiled => Whole(snap'.cloud) /\ Whole(snap'.shown))
    BY <2>1 DEF BotInv, BotFields
  <2> QED BY <2>1, <2>2, OthersKeepWhole DEF BotInv
<1> QED BY <1>2, <1>3, <1>4, <1>5, <1>6, <1>7, <1>8, <1>10, <1>12, <1>13, <1>14, <1>15, <1>16, <1>17
        DEF LingbotNext

LEMMA BotAlways == ClipOK /\ BotInv /\ [Next]_procVars => BotInv'
<1> SUFFICES ASSUME ClipOK, BotInv, [Next]_procVars PROVE BotInv'
  OBVIOUS
<1>1. CASE bot' = bot /\ snap' = snap
  BY <1>1 DEF BotInv, BotFields
<1>2. CASE part = "lingbot" /\ LingbotNext
  BY <1>2, BotStep DEF ClipOK
<1> QED BY <1>1, <1>2 DEF Next, procVars, botVars

\* A partial cloud announced for frame d holds the frames 1 .. d, each with its
\* own image's colours, for every number of frames, batch size and interval and
\* however long its file took to write.
THEOREM PartialsAreWhole == Spec => []PartialIsWhole
<1>1. BotInv => PartialIsWhole
  BY DEF BotInv, PartialIsWhole, Whole
<1> QED BY ClipStartsOK, ClipAlways, BotInitInv, BotAlways, <1>1, PTL DEF Spec
-----------------------------------------------------------------------------
(* The live MonoGS session *)

Closed == {"joining", "finalised"}

\* As long as no frame was lost, the dataset has the first m frames and the queue
\* the following ones in their order, the sentinel at most at its end.
InSequence(m) ==
  /\ reader.have = Frames(m)
  /\ \A i \in DOMAIN queue :
       queue[i] = m + i - 1 \/ (queue[i] = Stop /\ i = Len(queue) /\ feed.at \in Closed)
  /\ feed.at \notin Closed => feed.next = m + Len(queue)

\* Once the dataset is closed the reader does not begin to wait any more, and the
\* queue it was waiting for then is not emptied by anybody else.
StreamInv ==
  /\ DOMAIN feed = {"at", "next", "gap"}
  /\ DOMAIN reader = {"at", "cur", "have", "completed", "length"}
  /\ feed.gap \in BOOLEAN /\ feed.next \in Nat /\ reader.cur \in Nat
  /\ queue \in Seq(Int)
  /\ feed.at # "feeding" => reader.completed
  /\ ~feed.gap => \E m \in Nat : InSequence(m)
  /\ ~feed.gap /\ feed.at \in Closed \cup {"draining"} /\ reader.at = "waiting" => queue # <<>>

\* With no frame lost, the thread that finalize joins never waits for an empty
\* queue: what it waits for has been put there, or the sentinel has.
NeverStarved ==
  ~feed.gap /\ feed.at \in Closed /\ reader.at = "waiting" => queue # <<>>

LEMMA MaxOfFrames ==
  ASSUME NEW m \in Nat, reader.have = Frames(m)
  PROVE  MaxSeen = m - 1
<1>1. CASE m = 0
  <2>1. reader.have = {}
    BY <1>1 DEF Frames
  <2> QED BY <1>1, <2>1 DEF MaxSeen
<1>2. CASE m # 0
  <2>1. m - 1 \in reader.have /\ \A g \in reader.have : g <= m - 1
    BY <1>2 DEF Frames
  <2>2. ASSUME NEW f \in reader.have, \A g \in reader.have : g <= f PROVE f = m - 1
    <3>1. f \in 0 .. m - 1 /\ m - 1 <= f
      BY <2>1, <2>2 DEF Frames
    <3> QED BY <3>1
  <2>3. reader.have # {} /\ MaxSeen = CHOOSE f \in reader.have : \A g \in reader.have : g <= f
    BY <2>1 DEF MaxSeen
  <2> QED BY <2>1, <2>2, <2>3
<1> QED BY <1>1, <1>2

LEMMA StreamInitInv == StreamInit => StreamInv
<1> SUFFICES ASSUME StreamInit PROVE StreamInv
  OBVIOUS
<1>1. InSequence(0)
  BY DEF StreamInit, InSequence, Frames, Closed
<1> QED BY <1>1 DEF StreamInit, StreamInv, Closed

LEMMA StreamStep ==
  ASSUME StreamInv, StreamNext
  PROVE  StreamInv'
<1> USE DEF StreamInv, Closed
<1>0. Len(queue) \in Nat /\ QueueSize \in Nat \ {0}
  BY StreamAssumption
<1>1. CASE PushFrame
  <2>1. CASE queue' = Append(queue, feed.next) /\ feed' = [feed EXCEPT !.next = @ + 1]
    <3>1. /\ reader' = reader /\ feed.at = "feeding" /\ feed'.at = "feeding"
          /\ feed'.next = feed.next + 1 /\ feed'.gap = feed.gap /\ DOMAIN feed' = DOMAIN feed
      BY <1>1, <2>1 DEF PushFrame
    <3>2. ASSUME NEW m \in Nat, InSequence(m) PROVE InSequence(m)'
      <4>1. feed.next = m + Len(queue) /\ \A i \in DOMAIN queue : queue[i] = m + i - 1
        BY <3>1, <3>2 DEF InSequence
      <4>2. /\ Len(queue') = Len(queue) + 1 /\ DOMAIN queue' = 1 .. Len(queue) + 1
            /\ \A i \in 1 .. Len(queue) : queue'[i] = queue[i]
            /\ queue'[Len(queue) + 1] = feed.next
        BY <2>1
      <4>3. ASSUME NEW i \in DOMAIN queue' PROVE queue'[i] = m + i - 1
        <5>1. i \in 1 .. Len(queue) \/ i = Len(queue) + 1
          BY <1>0, <4>2
        <5>2. CASE i \in 1 .. Len(queue)
          BY <4>1, <4>2, <5>2
        <5>3. CASE i = Len(queue) + 1
          <6>1. queue'[i] = m + Len(queue)
            BY <4>1, <4>2, <5>3
          <6> QED BY <1>0, <5>3, <6>1
        <5> QED BY <5>1, <5>2, <5>3
      <4> QED BY <1>0, <3>1, <3>2, <4>1, <4>2, <4>3 DEF InSequence
    <3>3. queue' \in Seq(Int)
      BY <2>1
    <3> QED BY <3>1, <3>2, <3>3
  <2>2. CASE feed' = [feed EXCEPT !.next = @ + 1, !.gap = TRUE] /\ UNCHANGED queue
    BY <1>1, <2>2 DEF PushFrame
  <2> QED BY <1>1, <2>1, <2>2 DEF PushFrame
<1>2. CASE SkipFrame
  BY <1>2 DEF SkipFrame
<1>3. CASE CloseDataset
  <2>1. /\ queue' = queue /\ feed.at = "feeding" /\ feed'.at = "stopping"
        /\ feed'.next = feed.next /\ feed'.gap = feed.gap /\ DOMAIN feed' = DOMAIN feed
        /\ reader'.completed /\ reader'.at = reader.at /\ reader'.cur = reader.cur
        /\ reader'.have = reader.have /\ DOMAIN reader' = DOMAIN reader
    BY <1>3 DEF CloseDataset
  <2>2. ASSUME NEW m \in Nat, InSequence(m) PROVE InSequence(m)'
    BY <2>1, <2>2 DEF InSequence
  <2> QED BY <2>1, <2>2
<1>4. CASE PutStop
  <2>1. /\ reader' = reader /\ feed.at = "stopping"
        /\ feed'.next = feed.next /\ feed'.gap = feed.gap /\ DOMAIN feed' = DOMAIN feed
        /\ \/ queue' = Append(queue, Stop) /\ feed'.at = "joining"
           \/ ~(Len(queue) < QueueSize) /\ feed'.at = "draining" /\ queue' = queue
    BY <1>4 DEF PutStop
  <2>2. CASE queue' = Append(queue, Stop) /\ feed'.at = "joining"
    <3>1. /\ Len(queue') = Len(queue) + 1 /\ DOMAIN queue' = 1 .. Len(queue) + 1
          /\ \A i \in 1 .. Len(queue) : queue'[i] = queue[i]
          /\ queue'[Len(queue) + 1] = Stop /\ queue' \in Seq(Int) /\ queue' # <<>>
      BY <2>2 DEF Stop
    <3>2. ASSUME NEW m \in Nat, InSequence(m) PROVE InSequence(m)'
      BY <1>0, <2>1, <2>2, <3>1, <3>2 DEF InSequence
    <3> QED BY <2>1, <2>2, <3>1, <3>2
  <2>3. CASE ~(Len(queue) < QueueSize) /\ feed'.at = "draining" /\ queue' = queue
    <3>1. queue # <<>>
      BY <1>0, <2>3
    <3>2. ASSUME NEW m \in Nat, InSequence(m) PROVE InSequence(m)'
      BY <2>1, <2>3, <3>2 DEF InSequence
    <3> QED BY <2>1, <2>3, <3>1, <3>2
  <2> QED BY <2>1, <2>2, <2>3
<1>5. CASE DrainOne
  <2>1. reader' = reader /\ feed.at = "draining"
    BY <1>5 DEF DrainOne
  <2>2. CASE queue # <<>>
    <3>1. /\ queue' = Append(Tail(queue), Stop) /\ feed'.at = "joining" /\ feed'.gap
          /\ feed'.gap \in BOOLEAN /\ feed'.next = feed.next /\ DOMAIN feed' = DOMAIN feed
      BY <1>5, <2>2 DEF DrainOne
    <3>2. queue' \in Seq(Int)
      BY <2>2, <3>1 DEF Stop
    <3> QED BY <2>1, <3>1, <3>2
  <2>3. CASE queue = <<>>
    <3>1. /\ queue' = queue /\ feed'.at = "joining" /\ feed'.gap = feed.gap
          /\ feed'.next = feed.next /\ DOMAIN feed' = DOMAIN feed
      BY <1>5, <2>3 DEF DrainOne
    <3>2. ASSUME NEW m \in Nat, InSequence(m) PROVE InSequence(m)'
      BY <2>1, <3>1, <3>2 DEF InSequence
    <3> QED BY <2>1, <2>3, <3>1, <3>2
  <2> QED BY <2>2, <2>3
<1>6. CASE JoinEnds
  <2>1. /\ UNCHANGED <<queue, reader>> /\ feed.at = "joining" /\ feed'.at = "finalised"
        /\ feed'.gap = feed.gap /\ feed'.next = feed.next /\ DOMAIN feed' = DOMAIN feed
    BY <1>6 DEF JoinEnds
  <2>2. ASSUME NEW m \in Nat, InSequence(m) PROVE InSequence(m)'
    BY <2>1, <2>2 DEF InSequence
  <2> QED BY <2>1, <2>2
<1>7. ASSUME UNCHANGED <<feed, queue>>, DOMAIN reader' = DOMAIN reader, reader'.at # "waiting",
             reader'.have = reader.have, reader'.completed = reader.completed, reader'.cur \in Nat
      PROVE  StreamInv'
  <2>1. ASSUME NEW m \in Nat, InSequence(m) PROVE InSequence(m)'
    BY <1>7, <2>1 DEF InSequence
  <2> QED BY <1>7, <2>1
<1>8. CASE NextFrame
  BY <1>7, <1>8 DEF NextFrame
<1>9. CASE GetItem
  <2>1. UNCHANGED <<feed, queue>>
    BY <1>9 DEF GetItem
  <2>2. CASE reader' = [reader EXCEPT !.at = "tracking"] \/ reader' = [reader EXCEPT !.at = "dead"]
    BY <1>7, <2>1, <2>2
  <2>3. CASE /\ reader' = [reader EXCEPT !.at = "waiting"]
             /\ reader.cur \notin reader.have /\ ~(reader.completed /\ reader.cur > MaxSeen)
    <3>1. ASSUME NEW m \in Nat, InSequence(m) PROVE InSequence(m)' /\ ~reader.completed
      <4>1. reader.have = Frames(m) /\ MaxSeen = m - 1
        BY <3>1, MaxOfFrames DEF InSequence
      <4>2. reader.cur > MaxSeen
        BY <2>3, <4>1 DEF Frames
      <4> QED BY <2>1, <2>3, <3>1, <4>2 DEF InSequence
    <3> QED BY <2>1, <2>3, <3>1
  <2> QED BY <1>9, <2>2, <2>3 DEF GetItem
<1>10. CASE TakeItem
  <2>1. /\ reader.at = "waiting" /\ queue # <<>> /\ queue' = Tail(queue) /\ feed' = feed
        /\ DOMAIN reader' = DOMAIN reader /\ reader'.cur = reader.cur /\ reader'.at # "waiting"
        /\ reader.completed => reader'.completed
        /\ reader'.have = IF Head(queue) # Stop THEN reader.have \cup {Head(queue)} ELSE reader.have
    BY <1>10 DEF TakeItem
  <2>2. /\ queue' \in Seq(Int) /\ Len(queue') = Len(queue) - 1 /\ DOMAIN queue' = 1 .. Len(queue) - 1
        /\ \A i \in 1 .. Len(queue) - 1 : queue'[i] = queue[i + 1]
        /\ Head(queue) = queue[1] /\ 1 \in DOMAIN queue /\ DOMAIN queue = 1 .. Len(queue)
    BY <2>1
  <2>3. ASSUME NEW m \in Nat, InSequence(m) PROVE \E k \in Nat : InSequence(k)'
    <3>1. CASE queue[1] = Stop
      <4>1. Len(queue) = 1 /\ feed.at \in Closed
        <5>1. queue[1] = m + 1 - 1 \/ (1 = Len(queue) /\ feed.at \in Closed)
          BY <2>2, <2>3 DEF InSequence
        <5>2. queue[1] # m + 1 - 1
          BY <3>1 DEF Stop
        <5> QED BY <5>1, <5>2
      <4>2. reader'.have = Frames(m) /\ DOMAIN queue' = {}
        BY <2>1, <2>2, <2>3, <3>1, <4>1 DEF InSequence
      <4>3. InSequence(m)'
        BY <2>1, <4>1, <4>2 DEF InSequence
      <4> QED BY <4>3
    <3>2. CASE queue[1] # Stop
      <4>1. queue[1] = m
        BY <2>2, <2>3, <3>2 DEF InSequence
      <4>2. reader'.have = Frames(m + 1)
        <5>1. reader'.have = Frames(m) \cup {m}
          BY <2>1, <2>2, <2>3, <3>2, <4>1 DEF InSequence
        <5>2. Frames(m + 1) = Frames(m) \cup {m}
          BY DEF Frames
        <5> QED BY <5>1, <5>2
      <4>3. ASSUME NEW i \in DOMAIN queue'
            PROVE  queue'[i] = (m + 1) + i - 1 \/ (queue'[i] = Stop /\ i = Len(queue') /\ feed'.at \in Closed)
        <5>1. i \in 1 .. Len(queue) - 1 /\ i + 1 \in DOMAIN queue /\ queue'[i] = queue[i + 1]
          <6>1. i \in 1 .. Len(queue) - 1
            BY <2>2, <4>3
          <6>2. queue'[i] = queue[i + 1]
            BY <2>2, <6>1
          <6>3. Len(queue) \in Nat
            BY <1>0
          <6>4. i + 1 \in 1 .. Len(queue)
            BY <6>1, <6>3
          <6> QED BY <2>2, <6>1, <6>2, <6>4
        <5>2. queue[i + 1] = m + (i + 1) - 1 \/ (queue[i + 1] = Stop /\ i + 1 = Len(queue) /\ feed.at \in Closed)
          BY <2>3, <5>1 DEF InSequence
        <5>3. CASE queue[i + 1] = m + (i + 1) - 1
          <6>1. m + (i + 1) - 1 = (m + 1) + i - 1
            BY <1>0, <5>1
          <6> QED BY <5>1, <5>3, <6>1
        <5>4. CASE queue[i + 1] = Stop /\ i + 1 = Len(queue) /\ feed.at \in Closed
          <6>1. i = Len(queue')
            BY <1>0, <2>2, <5>1, <5>4
          <6> QED BY <2>1, <5>1, <5>4, <6>1
        <5> QED BY <5>2, <5>3, <5>4
      <4>4. feed'.at \notin Closed => feed'.next = (m + 1) + Len(queue')
        BY <1>0, <2>1, <2>2, <2>3 DEF InSequence
      <4>5. InSequence(m + 1)'
        BY <4>2, <4>3, <4>4 DEF InSequence
      <4> QED BY <4>5
    <3> QED BY <3>1, <3>2
  <2> QED BY <2>1, <2>2, <2>3
<1>11. CASE TrackFrame
  <2>1. /\ UNCHANGED <<feed, queue>> /\ DOMAIN reader' = DOMAIN reader /\ reader'.at # "waiting"
        /\ reader'.have = reader.have /\ reader'.completed = reader.completed
        /\ reader'.cur \in {reader.cur, reader.cur + 1}
    <3>1. CASE reader' = [reader EXCEPT !.at = "asking", !.cur = @ + 1]
      BY <1>11, <3>1 DEF TrackFrame
    <3>2. CASE reader' = [reader EXCEPT !.at = "dead"]
      BY <1>11, <3>2 DEF TrackFrame
    <3> QED BY <1>11, <3>1, <3>2 DEF TrackFrame
  <2>2. reader'.cur \in Nat
    BY <2>1
  <2> QED BY <1>7, <2>1, <2>2
<1> QED BY <1>1, <1>2, <1>3, <1>4, <1>5, <1>6, <1>8, <1>9, <1>10, <1>11 DEF StreamNext, ReadStep

LEMMA StreamAlways == StreamInv /\ [Next]_procVars => StreamInv'
<1> SUFFICES ASSUME StreamInv, [Next]_procVars PROVE StreamInv'
  OBVIOUS
<1>1. CASE UNCHANGED streamVars
  BY <1>1 DEF StreamInv, InSequence, streamVars
<1>2. StreamNext \/ UNCHANGED streamVars
  BY DEF Next, procVars
<1> QED BY <1>1, <1>2, StreamStep

\* For every number of frames and every queue: as long as the capture has lost no
\* frame, the SLAM thread that finalize joins has something to take, so that the
\* join is not in vain (the safety of ReaderEnds).
THEOREM ThreadIsFed == Spec => []NeverStarved
<1>1. Init => StreamInv
  BY StreamInitInv DEF Init
<1>2. StreamInv => NeverStarved
  BY DEF StreamInv, NeverStarved
<1> QED BY <1>1, <1>2, StreamAlways, PTL DEF Spec
-----------------------------------------------------------------------------
(* Every processor is the one run_job takes it for *)

\* The outcome is there with the end; the inference thread's is kept until the
\* watchdog has stopped, and no export is left out on the way.
BodyInv ==
  /\ DOMAIN slam = DOMAIN QueuedSlam /\ SplatFields /\ BotFields
  /\ slam.at = "ended" <=> slam.outcome # "none"
  /\ splat.at = "ended" <=> splat.outcome # "none"
  /\ bot.at \notin {"unwinding", "ended"} => bot.outcome = "none"
  /\ bot.at = "unwinding" => bot.outcome \in {"none", "failed", "cancelled"}
  /\ part = "lingbot" /\ bot.outcome = "cancelled" => asked
  /\ bot.at = "ended" => bot.outcome # "none"
  /\ bot.at = "exporting_ply" => "glb" \in bot.made
  /\ bot.at \in {"exporting_path", "cleaning_up"} => LingbotWhole
  /\ splat.at = "writing_splat" => splat.it = Iterations
  /\ splat.at \in {"writing_cameras", "writing_compressed"} => SplatWhole

\* The stage calls a run has still to make before it looks at its token, before and
\* after a step that begins one or none.
Pays(old, new) ==
  \/ UNCHANGED ctxVars /\ (asked => new <= old)
  \/ Begun /\ (asked => new < old)

\* What a step of a processor is to run_job, from `was` to `now`, with the outcomes
\* mapped as in BodyOutcome.
Steps(was, now) ==
  was = "none" /\ now \in {"none", "ready", "failed"} \cup (IF asked THEN {"cancelled"} ELSE {})

LEMMA StepIsWork ==
  ASSUME ContextInv, Left \in Nat, Left' \in Nat, Pays(Left, Left'), Steps(BodyOutcome, BodyOutcome')
  PROVE  Body!Work
<1> DEFINE l == Left
           m == Left'
<1>1. asked' = asked /\ (~asked => late' = late)
  BY DEF Pays, Begun, ctxVars
<1>2. asked => late' \in {late, late + 1} /\ late' + Left' <= late + Left
  <2> SUFFICES ASSUME asked PROVE late' \in {late, late + 1} /\ late' + m <= late + l
    OBVIOUS
  <2>1. late \in Nat /\ l \in Nat /\ m \in Nat
    BY DEF ContextInv
  <2>2. (late' = late /\ m <= l) \/ (late' = late + 1 /\ m < l)
    BY DEF Pays, Begun, ctxVars
  <2> HIDE DEF l, m
  <2> QED BY <2>1, <2>2
<1> QED BY <1>1, <1>2 DEF Steps, Body!Work, Body!Outcomes

LEMMA AskIsAsk ==
  ASSUME Request, BodyOutcome = "none", BodyOutcome' = BodyOutcome, Left' = Left
  PROVE  Body!Ask
BY DEF Request, Body!Ask

\* An ingest has a call to make for every video and every pass that is left.
LEMMA PendingCounts ==
  ASSUME NEW P \in SUBSET (1 .. 7)
  PROVE  /\ IsFiniteSet(P) /\ Cardinality(P) \in Nat /\ Cardinality(P) <= 7
         /\ Cardinality(P) = 0 <=> P = {}
<1>1. IsFiniteSet(1 .. 7) /\ Cardinality(1 .. 7) = 7
  <2>1. 1 \in Int /\ 7 \in Int /\ ~(1 > 7) /\ 7 - 1 + 1 = 7
    OBVIOUS
  <2>2. IsFiniteSet(1 .. 7) /\ Cardinality(1 .. 7) = IF 1 > 7 THEN 0 ELSE 7 - 1 + 1
    BY <2>1, FS_Interval
  <2> QED BY <2>1, <2>2
<1>2. IsFiniteSet(P) /\ Cardinality(P) <= 7
  BY <1>1, FS_Subset
<1> QED BY <1>2, FS_CardinalityType, FS_EmptySet

LEMMA IngestLeftIs ==
  ASSUME ClipInv
  PROVE  /\ IngestLeft \in Nat /\ IngestLeft <= Len(clip.videos) + 7
         /\ ~Ingested => IngestLeft > 0
<1> DEFINE n == Len(clip.videos)
           c == Cardinality(clip.pending)
           d == clip.done
<1>1. n \in Nat /\ d \in 0 .. n
  BY DEF ClipInv
<1>2. c \in Nat /\ c <= 7 /\ (c = 0 <=> clip.pending = {})
  BY PassesAre, PendingCounts DEF ClipInv
<1>3. IngestLeft = n - d + c /\ (Ingested <=> d = n /\ clip.pending = {})
  BY DEF IngestLeft, Ingested
<1> HIDE DEF n, c, d
<1>4. IngestLeft \in Nat /\ IngestLeft <= n + 7 /\ (~Ingested => IngestLeft > 0)
  BY <1>1, <1>2, <1>3
<1> QED BY <1>4 DEF n

\* Every step of the ingest leaves one call less.
LEMMA IngestPays ==
  ASSUME ClipInv, IngestStep
  PROVE  Pays(IngestLeft, IngestLeft')
<1> DEFINE n == Len(clip.videos)
           c == Cardinality(clip.pending)
           d == clip.done
<1>1. n \in Nat /\ d \in Nat
  BY DEF ClipInv
<1>2. c \in Nat
  BY PassesAre, PendingCounts DEF ClipInv
<1>3. IngestLeft = n - d + c /\ IngestLeft' = Len(clip'.videos) - clip'.done + Cardinality(clip'.pending)
  BY DEF IngestLeft
<1>4. IngestLeft' < IngestLeft
  <2>1. CASE ExtractVideo
    <3>1. clip'.videos = clip.videos /\ clip'.done = d + 1 /\ clip'.pending = clip.pending
      BY <2>1 DEF ExtractVideo, ClipInv
    <3>2. IngestLeft' = n - (d + 1) + c
      BY <1>3, <3>1
    <3> HIDE DEF n, c, d
    <3> QED BY <1>1, <1>2, <1>3, <3>2
  <2>2. CASE PassOver
    <3> DEFINE e == Cardinality(clip'.pending)
    <3>1. clip'.pending \in SUBSET clip.pending /\ clip'.pending # clip.pending
      BY <2>2 DEF PassOver
    <3>2. IsFiniteSet(clip.pending)
      BY PassesAre, PendingCounts DEF ClipInv
    <3>3. e <= c /\ e # c /\ IsFiniteSet(clip'.pending)
      BY <3>1, <3>2, FS_Subset
    <3>4. e \in Nat
      BY <3>3, FS_CardinalityType
    <3>5. IngestLeft' = n - d + e
      BY <1>3, <2>2 DEF PassOver
    <3> HIDE DEF n, c, d, e
    <3> QED BY <1>1, <1>2, <1>3, <3>3, <3>4, <3>5
  <2> QED BY <2>1, <2>2, IngestGoes
<1>5. IngestLeft \in Int /\ IngestLeft' \in Int
  <2>1. ClipInv'
    BY IngestKeepsClip
  <2>2. IngestLeft \in Nat
    BY IngestLeftIs
  <2>3. IngestLeft' \in Nat
    <3>1. clip'.done \in 0 .. Len(clip'.videos)
      BY <2>1 DEF ClipInv
    <3>2. Cardinality(clip'.pending) \in Nat
      BY <2>1, PassesAre, PendingCounts DEF ClipInv
    <3>3. Len(clip'.videos) \in Nat
      BY <2>1 DEF ClipInv
    <3> QED BY <1>3, <3>1, <3>2, <3>3
  <2> QED BY <2>2, <2>3
<1> QED BY <1>4, <1>5, IngestMoves DEF Pays

\* The calls that are left are counted, and there are never more than allowed.
LEMMA LeftIs == ClipOK => Left \in Nat /\ Allowed \in Nat /\ Left <= Allowed
<1> SUFFICES ASSUME ClipOK PROVE Left \in Nat /\ Allowed \in Nat /\ Left <= Allowed
  OBVIOUS
<1> DEFINE n == Len(clip.videos)
           ingest == IngestLeft
<1>1. part \in {"slam", "lingbot"} => n \in Nat /\ ingest \in Nat /\ ingest <= n + 7
  BY IngestLeftIs DEF ClipOK, ClipInv
<1>2. CASE part = "slam"
  <2>1. /\ slam.at = "ingesting" => Left = ingest
        /\ slam.at \in {"ingesting", "ended"} => Allowed = n + 7
    BY <1>2, PassesAre DEF Left, SlamLeft, Allowed
  <2>2. /\ slam.at # "ingesting" => Left \in {0, 1, 2}
        /\ slam.at \notin {"ingesting", "ended"} => Allowed = 2
    BY <1>2 DEF Left, SlamLeft, Allowed
  <2> HIDE DEF n, ingest
  <2> QED BY <1>1, <1>2, <2>1, <2>2
<1>3. CASE part = "splat"
  <2>1. SplatLeft \in {0, 1, 2, 3}
    BY DEF SplatLeft
  <2> QED BY <1>3, <2>1 DEF Left, Allowed
<1>4. CASE part = "lingbot"
  <2>1. /\ bot.at = "ingesting" => Left = ingest
        /\ bot.at \in {"ingesting", "ended"} => Allowed = n + 7
    BY <1>4, PassesAre DEF Left, LingbotLeft, Allowed
  <2>2. /\ bot.at # "ingesting" => Left \in {0, 1, 2, 3, 4}
        /\ bot.at \notin {"ingesting", "ended"} => Allowed = 4
    BY <1>4 DEF Left, LingbotLeft, Allowed
  <2> HIDE DEF n, ingest
  <2> QED BY <1>1, <1>4, <2>1, <2>2
<1>5. CASE part = "stream"
  BY <1>5 DEF Left, Allowed
<1> QED BY <1>2, <1>3, <1>4, <1>5 DEF ClipOK

\* What is counted and told of a run depends on its own variables only.
LEMMA LeftStays ==
  ASSUME UNCHANGED <<part, plan, slam, splat, bot>>,
         part \in {"slam", "splat", "lingbot", "stream"},
         part \in {"slam", "lingbot"} => UNCHANGED clip
  PROVE  Left' = Left /\ BodyOutcome' = BodyOutcome
<1>1. part \in {"slam", "lingbot"} => IngestLeft' = IngestLeft
  BY DEF IngestLeft
<1>2. Left' = Left
  <2>1. part = "slam" => SlamLeft' = SlamLeft
    BY <1>1 DEF SlamLeft
  <2>2. part = "lingbot" => LingbotLeft' = LingbotLeft
    BY <1>1 DEF LingbotLeft
  <2>3. SplatLeft' = SplatLeft
    BY DEF SplatLeft
  <2> QED BY <2>1, <2>2, <2>3 DEF Left
<1>3. BodyOutcome' = BodyOutcome
  BY DEF BodyOutcome, Ends, SlamWhole, SplatWhole, LingbotWhole
<1> QED BY <1>2, <1>3

LEMMA SlamIsBody ==
  ASSUME ClipInv, BodyInv, ContextInv, Left \in Nat, Left' \in Nat, part = "slam", SlamNext,
         UNCHANGED <<part, source, splat, bot, watch, snap, streamVars>>
  PROVE  BodyInv' /\ (Body!Work \/ Body!Ask)
<1>1. ASSUME slam.at # "ended", DOMAIN slam' = DOMAIN slam, Pays(SlamLeft, SlamLeft'),
             \/ slam'.at # "ended" /\ slam'.outcome = slam.outcome
             \/ /\ slam'.at = "ended"
                /\ \/ slam'.outcome = "failed"
                   \/ slam'.outcome = "cancelled" /\ asked
                   \/ slam'.outcome = "ready" /\ SlamWhole'
      PROVE  BodyInv' /\ Body!Work
  <2>1. BodyInv'
    BY <1>1 DEF BodyInv, SplatFields, BotFields, SplatWhole, LingbotWhole
  <2>2. BodyOutcome = Ends(slam.outcome, SlamWhole) /\ BodyOutcome' = Ends(slam'.outcome, SlamWhole')
    BY DEF BodyOutcome, Ends, SlamWhole
  <2>3. Steps(BodyOutcome, BodyOutcome')
    BY <1>1, <2>2 DEF Steps, Ends, BodyInv
  <2>4. Left = SlamLeft /\ Left' = SlamLeft'
    BY DEF Left
  <2> QED BY <1>1, <2>1, <2>3, <2>4, StepIsWork
<1>2. ASSUME NEW outcome, slam' = End(outcome)
      PROVE  /\ DOMAIN slam' = DOMAIN slam /\ slam'.at = "ended" /\ slam'.outcome = outcome
             /\ SlamLeft' = 0
  BY <1>2 DEF End, BodyInv, QueuedSlam, SlamLeft
<1>3. ASSUME NEW at, slam' = [slam EXCEPT !.at = at]
      PROVE  DOMAIN slam' = DOMAIN slam /\ slam'.at = at /\ slam'.outcome = slam.outcome
  BY <1>3 DEF BodyInv, QueuedSlam
<1>4. SlamLeft \in Nat
  BY DEF Left
<1>5. CASE StartSlam
  <2>1. /\ slam.at = "queued" /\ UNCHANGED ctxVars
        /\ \/ ~asked /\ slam' = [slam EXCEPT !.at = "ingesting"]
           \/ asked /\ slam' = End("cancelled")
    BY <1>5 DEF StartSlam, RaiseOr
  <2> QED BY <1>1, <1>2, <1>3, <1>4, <2>1 DEF Pays
<1>6. CASE IngestClip
  <2>0. slam.at = "ingesting" /\ SlamLeft = IngestLeft /\ UNCHANGED plan
    BY <1>6 DEF IngestClip, SlamLeft
  <2>1. CASE IngestStep /\ UNCHANGED slam
    <3>1. SlamLeft' = IngestLeft'
      BY <2>0, <2>1 DEF SlamLeft
    <3> QED BY <1>1, <2>0, <2>1, <3>1, IngestPays
  <2>2. CASE IngestFails /\ slam' = End("failed")
    <3>1. (~Ingested /\ Begun) \/ UNCHANGED ctxVars
      BY <2>2 DEF IngestFails
    <3>2. ~Ingested => SlamLeft > 0
      BY <2>0, IngestLeftIs
    <3>3. Pays(SlamLeft, 0)
      BY <1>4, <3>1, <3>2 DEF Pays
    <3> QED BY <1>1, <1>2, <2>0, <2>2, <3>3
  <2> QED BY <1>6, <2>1, <2>2 DEF IngestClip
<1>7. CASE LeaveIngest
  <2>1. /\ slam.at = "ingesting" /\ UNCHANGED ctxVars
        /\ \/ ~asked /\ slam' = [slam EXCEPT !.at = "gating"]
           \/ asked /\ slam' = End("cancelled")
    BY <1>7 DEF LeaveIngest, Unless
  <2> QED BY <1>1, <1>2, <1>3, <1>4, <2>1 DEF Pays
<1>8. CASE GateFrames
  <2>1. /\ slam.at = "gating" /\ UNCHANGED ctxVars /\ UNCHANGED plan
        /\ DOMAIN slam' = DOMAIN slam /\ slam'.at = "seeding" /\ slam'.outcome = slam.outcome
    BY <1>8 DEF GateFrames, BodyInv, QueuedSlam
  <2>2. SlamLeft' = SlamLeft
    BY <2>1 DEF SlamLeft
  <2>3. Pays(SlamLeft, SlamLeft')
    BY <1>4, <2>1, <2>2 DEF Pays
  <2> QED BY <1>1, <2>1, <2>3
<1>9. CASE SeedSession
  <2>1. slam.at = "seeding" /\ SlamLeft = IF plan.backend = "monogs" THEN 2 ELSE 1
    BY <1>9 DEF SeedSession, SlamLeft
  <2>2. CASE slam' = End("failed") /\ (UNCHANGED ctxVars \/ Begun)
    <3>1. Pays(SlamLeft, 0)
      BY <2>1, <2>2 DEF Pays
    <3> QED BY <1>1, <1>2, <2>1, <2>2, <3>1
  <2>3. CASE /\ plan.backend = "monogs" /\ UNCHANGED ctxVars
             /\ \E paths : slam' = [slam EXCEPT !.paths = paths, !.at = "batch"]
    <3>1. DOMAIN slam' = DOMAIN slam /\ slam'.at = "batch" /\ slam'.outcome = slam.outcome
      BY <2>3 DEF BodyInv, QueuedSlam
    <3>2. SlamLeft' = 2 /\ SlamLeft = 2
      BY <2>1, <2>3, <3>1 DEF SlamLeft
    <3>3. Pays(SlamLeft, SlamLeft')
      BY <2>3, <3>2 DEF Pays
    <3> QED BY <1>1, <2>1, <3>1, <3>3
  <2>4. CASE Begun /\ \E paths : slam' = [slam EXCEPT !.paths = paths, !.at = "tracking"]
    <3>1. DOMAIN slam' = DOMAIN slam /\ slam'.at = "tracking" /\ slam'.outcome = slam.outcome
      BY <2>4 DEF BodyInv, QueuedSlam
    <3>2. SlamLeft' = 0 /\ SlamLeft \in {1, 2}
      BY <2>1, <3>1 DEF SlamLeft
    <3>3. Pays(SlamLeft, SlamLeft')
      BY <2>4, <3>2 DEF Pays
    <3> QED BY <1>1, <2>1, <3>1, <3>3
  <2> QED BY <1>9, <2>2, <2>3, <2>4 DEF SeedSession
<1>10. CASE BeginStep
  <2>1. /\ slam.at = "tracking" /\ UNCHANGED ctxVars
        /\ \/ ~asked /\ slam' = [slam EXCEPT !.next = @ + 1]
           \/ ~asked /\ slam' = [slam EXCEPT !.at = "stepping"]
           \/ asked /\ slam' = End("cancelled")
    BY <1>10 DEF BeginStep, RaiseOr
  <2>2. CASE ~asked /\ slam' = [slam EXCEPT !.next = @ + 1]
    <3>1. DOMAIN slam' = DOMAIN slam /\ slam'.at = "tracking" /\ slam'.outcome = slam.outcome
      BY <2>1, <2>2 DEF BodyInv, QueuedSlam
    <3>2. Pays(SlamLeft, SlamLeft')
      BY <2>1, <2>2 DEF Pays
    <3> QED BY <1>1, <2>1, <3>1, <3>2
  <2>3. CASE slam' # [slam EXCEPT !.next = @ + 1]
    BY <1>1, <1>2, <1>3, <1>4, <2>1, <2>3 DEF Pays
  <2> QED BY <2>1, <2>2, <2>3, <1>1, <1>2, <1>4 DEF Pays
<1>11. CASE EndStep
  <2>1. /\ slam.at = "stepping" /\ UNCHANGED plan
        /\ SlamLeft = IF plan.backend = "mast3r" THEN 1 ELSE 0
    BY <1>11 DEF EndStep, SlamLeft
  <2>2. \/ UNCHANGED ctxVars
        \/ plan.backend = "mast3r" /\ Begun
    BY <1>11 DEF EndStep
  <2>3. Pays(SlamLeft, 0)
    BY <2>1, <2>2 DEF Pays
  <2>4. CASE slam' = End("failed")
    BY <1>1, <1>2, <2>1, <2>3, <2>4
  <2>5. CASE slam' # End("failed")
    <3>1. DOMAIN slam' = DOMAIN slam /\ slam'.at = "tracking" /\ slam'.outcome = slam.outcome
      BY <1>11, <2>5 DEF EndStep, BodyInv, QueuedSlam
    <3>2. SlamLeft' = 0
      BY <3>1 DEF SlamLeft
    <3> QED BY <1>1, <2>1, <2>3, <3>1, <3>2
  <2> QED BY <2>4, <2>5
<1>12. CASE LeaveTracking
  <2>1. /\ slam.at = "tracking" /\ UNCHANGED ctxVars
        /\ \/ ~asked /\ slam' = [slam EXCEPT !.at = "finalising"]
           \/ asked /\ slam' = End("cancelled")
    BY <1>12 DEF LeaveTracking, Unless
  <2> QED BY <1>1, <1>2, <1>3, <1>4, <2>1 DEF Pays
<1>13. ASSUME slam.at \in {"finalising", "launching"}, Begun, NEW poses, NEW keyframes,
              slam' = [slam EXCEPT !.at = "tracked", !.poses = poses, !.keyframes = keyframes]
       PROVE  BodyInv' /\ Body!Work
  <2>1. DOMAIN slam' = DOMAIN slam /\ slam'.at = "tracked" /\ slam'.outcome = slam.outcome
    BY <1>13 DEF BodyInv, QueuedSlam
  <2>2. SlamLeft' = 0 /\ SlamLeft = 1
    BY <1>13, <2>1 DEF SlamLeft
  <2>3. Pays(SlamLeft, SlamLeft')
    BY <1>13, <2>2 DEF Pays
  <2> QED BY <1>1, <1>13, <2>1, <2>3
<1>14. ASSUME slam.at \in {"batch", "launching", "exporting"}, Begun, slam' = End("failed")
       PROVE  BodyInv' /\ Body!Work
  <2>1. SlamLeft \in {1, 2}
    BY <1>14 DEF SlamLeft
  <2>2. Pays(SlamLeft, 0)
    BY <1>14, <2>1 DEF Pays
  <2> QED BY <1>1, <1>2, <1>14, <2>2
<1>15. CASE FinaliseSession
  <2>1. /\ slam.at = "finalising" /\ Begun
        /\ \E poses, keyframes :
             slam' = [slam EXCEPT !.at = "tracked", !.poses = poses, !.keyframes = keyframes]
    BY <1>15 DEF FinaliseSession
  <2> QED BY <1>13, <2>1
<1>16. CASE InstallFrames
  <2>1. /\ slam.at = "batch" /\ Begun
        /\ slam' = End("failed") \/ slam' = [slam EXCEPT !.at = "launching"]
    BY <1>16 DEF InstallFrames
  <2>2. CASE slam' = [slam EXCEPT !.at = "launching"]
    <3>1. SlamLeft' = 1 /\ SlamLeft = 2
      BY <1>3, <2>1, <2>2 DEF SlamLeft
    <3>2. Pays(SlamLeft, SlamLeft')
      BY <2>1, <3>1 DEF Pays
    <3> QED BY <1>1, <1>3, <2>1, <2>2, <3>2
  <2> QED BY <1>14, <2>1, <2>2
<1>17. CASE RunBatch
  <2>1. /\ slam.at = "launching" /\ Begun
        /\ \/ \E poses, keyframes :
                slam' = [slam EXCEPT !.at = "tracked", !.poses = poses, !.keyframes = keyframes]
           \/ slam' = End("failed")
    BY <1>17 DEF RunBatch
  <2> QED BY <1>13, <1>14, <2>1
<1>18. CASE CheckTracked
  <2>1. /\ slam.at = "tracked" /\ UNCHANGED ctxVars
        /\ \/ ~asked /\ slam' = [slam EXCEPT !.at = "exporting"]
           \/ asked /\ slam' = End("cancelled")
    BY <1>18 DEF CheckTracked, Unless
  <2> QED BY <1>1, <1>2, <1>3, <1>4, <2>1 DEF Pays
<1>19. CASE ExportSlam
  <2>1. slam.at = "exporting" /\ Begun
    BY <1>19 DEF ExportSlam
  <2>2. CASE slam' = End("failed")
    BY <1>14, <2>1, <2>2
  <2>3. CASE slam' # End("failed")
    <3>1. PICK points \in BOOLEAN : slam' = [End("ready") EXCEPT !.rows = PoseRows, !.artifacts = Artifacts(points)]
      BY <1>19, <2>3 DEF ExportSlam
    <3>2. /\ DOMAIN slam' = DOMAIN slam /\ slam'.at = "ended" /\ slam'.outcome = "ready"
          /\ slam'.artifacts = Artifacts(points)
      BY <3>1 DEF End, BodyInv, QueuedSlam
    <3>3. SlamWhole'
      BY <3>2 DEF SlamWhole, Artifacts
    <3>4. SlamLeft' = 0 /\ SlamLeft = 1
      BY <2>1, <3>2 DEF SlamLeft
    <3>5. Pays(SlamLeft, SlamLeft')
      BY <2>1, <3>4 DEF Pays
    <3> QED BY <1>1, <2>1, <3>2, <3>3, <3>5
  <2> QED BY <2>2, <2>3
<1>20. CASE AskSlamStop
  <2>1. slam.at # "ended" /\ Request /\ UNCHANGED <<clip, plan, slam>>
    BY <1>20 DEF AskSlamStop
  <2>2. BodyInv'
    BY <2>1 DEF BodyInv, SplatFields, BotFields, SplatWhole, LingbotWhole, Request
  <2>3. BodyOutcome = "none"
    BY <2>1 DEF BodyInv, BodyOutcome, Ends, SlamWhole
  <2>4. Left' = Left /\ BodyOutcome' = BodyOutcome
    BY <2>1, LeftStays
  <2> QED BY <2>1, <2>2, <2>3, <2>4, AskIsAsk
<1> QED BY <1>5, <1>6, <1>7, <1>8, <1>9, <1>10, <1>11, <1>12, <1>15, <1>16, <1>17, <1>18, <1>19, <1>20
        DEF SlamNext

LEMMA SplatIsBody ==
  ASSUME BodyInv, ContextInv, Left \in Nat, Left' \in Nat, part = "splat", SplatNext,
         UNCHANGED <<part, clip, plan, slam, bot, watch, snap, streamVars>>
  PROVE  BodyInv' /\ (Body!Work \/ Body!Ask \/ UNCHANGED Body!vars)
<1>1. ASSUME splat.at # "ended", DOMAIN splat' = DOMAIN splat, Pays(SplatLeft, SplatLeft'),
             splat'.at = "writing_splat" => splat'.it = Iterations,
             splat'.at \in {"writing_cameras", "writing_compressed"} => SplatWhole',
             \/ splat'.at # "ended" /\ splat'.outcome = splat.outcome
             \/ /\ splat'.at = "ended"
                /\ \/ splat'.outcome \in {"refused", "failed"}
                   \/ splat'.outcome = "cancelled" /\ asked
                   \/ splat'.outcome = "ready" /\ SplatWhole'
      PROVE  BodyInv' /\ Body!Work
  <2>1. BodyInv'
    BY <1>1 DEF BodyInv, SplatFields, BotFields, LingbotWhole
  <2>2. /\ BodyOutcome = IF splat.outcome = "refused" THEN "none" ELSE Ends(splat.outcome, SplatWhole)
        /\ BodyOutcome' = IF splat'.outcome = "refused" THEN "none" ELSE Ends(splat'.outcome, SplatWhole')
    BY DEF BodyOutcome, Ends, SplatWhole
  <2>3. Steps(BodyOutcome, BodyOutcome')
    BY <1>1, <2>2 DEF Steps, Ends, BodyInv
  <2>4. Left = SplatLeft /\ Left' = SplatLeft'
    BY DEF Left
  <2> QED BY <1>1, <2>1, <2>3, <2>4, StepIsWork
<1>2. ASSUME NEW outcome, EndTraining(outcome)
      PROVE  /\ DOMAIN splat' = DOMAIN splat /\ splat'.at = "ended" /\ splat'.outcome = outcome
             /\ splat'.final = splat.final /\ SplatLeft' = 0
  BY <1>2 DEF EndTraining, BodyInv, SplatFields, NewSplat, SplatLeft
<1>3. SplatLeft \in Nat
  BY DEF Left
\* A call that was left begins, and the training fails; or it was stopped.
<1>4. ASSUME splat.at # "ended", EndTraining("failed"), UNCHANGED ctxVars \/ (Begun /\ SplatLeft > 0)
      PROVE  BodyInv' /\ Body!Work
  <2>1. Pays(SplatLeft, 0)
    BY <1>3, <1>4 DEF Pays
  <2> QED BY <1>1, <1>2, <1>4, <2>1
<1>5. ASSUME splat.at # "ended", EndTraining("cancelled"), asked, UNCHANGED ctxVars
      PROVE  BodyInv' /\ Body!Work
  <2>1. Pays(SplatLeft, 0)
    BY <1>3, <1>5 DEF Pays
  <2> QED BY <1>1, <1>2, <1>5, <2>1
\* It goes on: with a call less to make, with as many, or with no stop asked for.
<1>6. ASSUME splat.at # "ended", DOMAIN splat' = DOMAIN splat, splat'.outcome = splat.outcome,
             splat'.at # "ended",
             splat'.at = "writing_splat" => splat'.it = Iterations,
             splat'.at \in {"writing_cameras", "writing_compressed"} => SplatWhole',
             \/ UNCHANGED ctxVars /\ (~asked \/ SplatLeft' <= SplatLeft)
             \/ Begun /\ SplatLeft' < SplatLeft
      PROVE  BodyInv' /\ Body!Work
  <2>1. Pays(SplatLeft, SplatLeft')
    BY <1>6 DEF Pays
  <2> QED BY <1>1, <1>6, <2>1
<1>7. CASE AskSplat
  <2>1. splat.at = "asking" /\ UNCHANGED ctxVars /\ SplatLeft = 0
    BY <1>7 DEF AskSplat, SplatLeft
  <2>2. CASE EndTraining("refused")
    <3>1. Pays(SplatLeft, 0)
      BY <2>1 DEF Pays
    <3> QED BY <1>1, <1>2, <2>1, <2>2, <3>1
  <2>3. CASE splat' = [splat EXCEPT !.at = "queued"]
    <3>1. /\ DOMAIN splat' = DOMAIN splat /\ splat'.at = "queued" /\ splat'.outcome = splat.outcome
          /\ SplatLeft' = 0
      BY <2>3 DEF BodyInv, SplatFields, NewSplat, SplatLeft
    <3> QED BY <1>6, <2>1, <3>1
  <2> QED BY <1>7, <2>2, <2>3 DEF AskSplat
<1>8. CASE ResolveAgain
  <2>1. /\ splat.at = "queued" /\ UNCHANGED ctxVars
        /\ \/ ~asked /\ splat' = [splat EXCEPT !.at = "resolved", !.inputs = source.files]
           \/ EndTraining("failed")
           \/ EndTraining("cancelled") /\ asked
    BY <1>8 DEF ResolveAgain, RaiseOr
  <2>2. CASE ~asked /\ splat' = [splat EXCEPT !.at = "resolved", !.inputs = source.files]
    <3>1. DOMAIN splat' = DOMAIN splat /\ splat'.at = "resolved" /\ splat'.outcome = splat.outcome
      BY <2>2 DEF BodyInv, SplatFields, NewSplat
    <3> QED BY <1>6, <2>1, <2>2, <3>1
  <2> QED BY <1>4, <1>5, <2>1, <2>2
<1>9. CASE TrainerUnavailable
  <2>1. splat.at = "resolved" /\ UNCHANGED ctxVars /\ EndTraining("failed")
    BY <1>9 DEF TrainerUnavailable
  <2> QED BY <1>4, <2>1
<1>10. CASE Prepare
  <2>1. splat.at = "resolved" /\ Begun /\ SplatLeft = 1
    BY <1>10 DEF Prepare, SplatLeft
  <2>2. CASE EndTraining("failed")
    BY <1>4, <2>1, <2>2
  <2>3. CASE ~EndTraining("failed")
    <3>1. \E n \in {3, SeedPoints} : \E paths, cameras :
            splat' = [splat EXCEPT !.at = "training", !.n = n, !.paths = paths,
                        !.cameras = cameras,
                        !.cached = [version |-> 0, n |-> n], !.dirty = FALSE]
      BY <1>10, <2>3, Prepared
    <3>2. DOMAIN splat' = DOMAIN splat /\ splat'.at = "training" /\ splat'.outcome = splat.outcome
      BY <3>1 DEF BodyInv, SplatFields, NewSplat
    <3>3. SplatLeft' = 0
      BY <3>2 DEF SplatLeft
    <3> QED BY <1>6, <2>1, <3>2, <3>3
  <2> QED BY <2>2, <2>3
<1>11. CASE TrainStep
  <2>1. splat.at = "training" /\ UNCHANGED ctxVars
    BY <1>11 DEF TrainStep, RaiseOr
  <2>2. CASE EndTraining("failed") \/ (EndTraining("cancelled") /\ asked)
    BY <1>4, <1>5, <2>1, <2>2
  <2>3. CASE ~(EndTraining("failed") \/ (EndTraining("cancelled") /\ asked))
    <3>1. /\ ~asked
          /\ \E cam \in DOMAIN splat.cameras :
               \E n \in SizesAfter(splat.it + 1, splat.n) :
                 splat' = [Stepped(splat, n, splat.cameras[cam]) EXCEPT
                             !.at = IF (splat.it + 1) % PreviewEvery = 0 THEN "previewing" ELSE "training"]
      BY <1>11, <2>3, Trained
    <3>2. \E n, photo : \E at \in {"previewing", "training"} :
            splat' = [Stepped(splat, n, photo) EXCEPT !.at = at]
      BY <3>1
    <3>3. /\ DOMAIN splat' = DOMAIN splat /\ splat'.at \in {"previewing", "training"}
          /\ splat'.outcome = splat.outcome
      BY <3>2 DEF Stepped, BodyInv, SplatFields, NewSplat
    <3> QED BY <1>6, <2>1, <3>1, <3>3
  <2> QED BY <2>2, <2>3
<1>12. CASE Preview
  <2>1. splat.at = "previewing" /\ Begun /\ SplatLeft = 1
    BY <1>12 DEF Preview, SplatLeft
  <2>2. CASE EndTraining("failed")
    BY <1>4, <2>1, <2>2
  <2>3. CASE ~EndTraining("failed")
    <3>1. DOMAIN splat' = DOMAIN splat /\ splat'.at = "training" /\ splat'.outcome = splat.outcome
      BY <1>12, <2>3 DEF Preview, BodyInv, SplatFields, NewSplat
    <3>2. SplatLeft' = 0
      BY <3>1 DEF SplatLeft
    <3> QED BY <1>6, <2>1, <3>1, <3>2
  <2> QED BY <2>2, <2>3
<1>13. CASE LeaveTraining
  <2>1. /\ splat.at = "training" /\ splat.it = Iterations /\ UNCHANGED ctxVars
        /\ \/ ~asked /\ splat' = [splat EXCEPT !.at = "writing_splat", !.cached = State, !.dirty = FALSE]
           \/ EndTraining("cancelled") /\ asked
    BY <1>13 DEF LeaveTraining, RaiseOr
  <2>2. CASE ~asked /\ splat' = [splat EXCEPT !.at = "writing_splat", !.cached = State, !.dirty = FALSE]
    <3>1. /\ DOMAIN splat' = DOMAIN splat /\ splat'.at = "writing_splat" /\ splat'.outcome = splat.outcome
          /\ splat'.it = Iterations
      BY <2>1, <2>2 DEF BodyInv, SplatFields, NewSplat
    <3> QED BY <1>6, <2>1, <2>2, <3>1
  <2> QED BY <1>5, <2>1, <2>2
<1>14. CASE WriteSplat
  <2>1. splat.at = "writing_splat" /\ Begun /\ SplatLeft = 3 /\ splat.it = Iterations
    BY <1>14 DEF WriteSplat, SplatLeft, BodyInv
  <2>2. CASE EndTraining("failed")
    BY <1>4, <2>1, <2>2
  <2>3. CASE ~EndTraining("failed")
    <3>0. \E final : /\ final.it = splat.it
                     /\ splat' = [splat EXCEPT !.at = "writing_cameras", !.final = final]
      <4> DEFINE final == [it |-> splat.it, version |-> State.version, n |-> State.n]
      <4>1. splat' = [splat EXCEPT !.at = "writing_cameras", !.final = final]
        BY <1>14, <2>3 DEF WriteSplat
      <4>2. final.it = splat.it
        OBVIOUS
      <4> QED BY <4>1, <4>2
    <3>1. /\ DOMAIN splat' = DOMAIN splat /\ splat'.at = "writing_cameras" /\ splat'.outcome = splat.outcome
          /\ splat'.final.it = splat.it
      BY <3>0 DEF BodyInv, SplatFields, NewSplat
    <3>2. SplatLeft' = 2 /\ SplatWhole'
      BY <2>1, <3>1 DEF SplatLeft, SplatWhole
    <3> QED BY <1>6, <2>1, <3>1, <3>2
  <2> QED BY <2>2, <2>3
<1>15. CASE WriteCameras
  <2>1. splat.at = "writing_cameras" /\ Begun /\ SplatLeft = 2 /\ SplatWhole
    BY <1>15 DEF WriteCameras, SplatLeft, BodyInv
  <2>2. CASE EndTraining("failed")
    BY <1>4, <2>1, <2>2
  <2>3. CASE ~EndTraining("failed")
    <3>1. /\ DOMAIN splat' = DOMAIN splat /\ splat'.at = "writing_compressed" /\ splat'.outcome = splat.outcome
          /\ splat'.final = splat.final
      BY <1>15, <2>3 DEF WriteCameras, BodyInv, SplatFields, NewSplat
    <3>2. SplatLeft' = 1 /\ SplatWhole'
      BY <2>1, <3>1 DEF SplatLeft, SplatWhole
    <3> QED BY <1>6, <2>1, <3>1, <3>2
  <2> QED BY <2>2, <2>3
<1>16. CASE WriteCompressed
  <2>1. splat.at = "writing_compressed" /\ Begun /\ SplatLeft = 1 /\ SplatWhole
    BY <1>16 DEF WriteCompressed, SplatLeft, BodyInv
  <2>2. CASE EndTraining("failed")
    BY <1>4, <2>1, <2>2
  <2>3. CASE EndTraining("ready")
    <3>1. Pays(SplatLeft, 0)
      BY <2>1 DEF Pays
    <3>2. SplatWhole'
      BY <1>2, <2>1, <2>3 DEF SplatWhole
    <3> QED BY <1>1, <1>2, <2>1, <2>3, <3>1, <3>2
  <2> QED BY <1>16, <2>2, <2>3 DEF WriteCompressed
<1>17. ASSUME UNCHANGED splat
       PROVE  BodyInv' /\ BodyOutcome' = BodyOutcome /\ Left' = Left
  <2>1. BodyInv'
    BY <1>17 DEF BodyInv, SplatFields, BotFields, SplatWhole, LingbotWhole
  <2> QED BY <1>17, <2>1, LeftStays
<1>18. CASE AskSplatStop
  <2>1. splat.at # "ended" /\ Request /\ UNCHANGED splat
    BY <1>18 DEF AskSplatStop
  <2>2. BodyOutcome = "none"
    BY <2>1 DEF BodyInv, BodyOutcome, Ends
  <2> QED BY <1>17, <2>1, <2>2, AskIsAsk
<1>19. CASE DropSourceRow \/ DropSourceFile
  <2>1. UNCHANGED splat /\ UNCHANGED <<asked, late>>
    BY <1>19 DEF DropSourceRow, DropSourceFile, ctxVars
  <2> QED BY <1>17, <2>1 DEF Body!vars
<1> QED BY <1>7, <1>8, <1>9, <1>10, <1>11, <1>12, <1>13, <1>14, <1>15, <1>16, <1>18, <1>19
        DEF SplatNext

LEMMA LingbotIsBody ==
  ASSUME ClipInv, BodyInv, ContextInv, Left \in Nat, Left' \in Nat, part = "lingbot", LingbotNext,
         UNCHANGED <<part, plan, slam, source, splat, streamVars>>
  PROVE  BodyInv' /\ (Body!Work \/ Body!Ask \/ UNCHANGED Body!vars)
<1>1. ASSUME bot.at # "ended", DOMAIN bot' = DOMAIN bot, DOMAIN snap' = DOMAIN snap,
             Pays(LingbotLeft, LingbotLeft'),
             bot'.at = "exporting_ply" => "glb" \in bot'.made,
             bot'.at \in {"exporting_path", "cleaning_up"} => LingbotWhole',
             \/ bot'.at \notin {"unwinding", "ended"} /\ bot'.outcome = "none"
             \/ /\ bot'.at = "unwinding"
                /\ bot'.outcome \in {"none", "failed"} \/ (bot'.outcome = "cancelled" /\ asked)
             \/ /\ bot'.at = "ended"
                /\ \/ bot'.outcome = "failed"
                   \/ bot'.outcome = "cancelled" /\ asked
                   \/ bot'.outcome = "ready" /\ LingbotWhole'
      PROVE  BodyInv' /\ Body!Work
  <2>1. asked' = asked
    BY <1>1 DEF Pays, Begun, ctxVars
  <2>2. BodyInv'
    BY <1>1, <2>1 DEF BodyInv, SplatFields, BotFields, SplatWhole
  <2>3. /\ BodyOutcome = "none"
        /\ BodyOutcome' = IF bot'.at = "ended" THEN Ends(bot'.outcome, LingbotWhole') ELSE "none"
    BY <1>1 DEF BodyOutcome, Ends, LingbotWhole
  <2>4. Steps(BodyOutcome, BodyOutcome')
    BY <1>1, <2>3 DEF Steps, Ends
  <2>5. Left = LingbotLeft /\ Left' = LingbotLeft'
    BY DEF Left
  <2> QED BY <1>1, <2>2, <2>4, <2>5, StepIsWork
<1>2. ASSUME NEW outcome, BotEnds(outcome)
      PROVE  /\ DOMAIN bot' = DOMAIN bot /\ bot'.at = "ended" /\ bot'.outcome = outcome
             /\ bot'.made = bot.made /\ LingbotLeft' = 0
  BY <1>2 DEF BotEnds, BodyInv, BotFields, LingbotLeft
<1>3. LingbotLeft \in Nat
  BY DEF Left
\* A call that was left begins and fails, or the run was stopped.
<1>4. ASSUME bot.at # "ended", DOMAIN snap' = DOMAIN snap,
             UNCHANGED ctxVars \/ (Begun /\ LingbotLeft > 0),
             BotEnds("failed") \/ (BotEnds("cancelled") /\ asked)
      PROVE  BodyInv' /\ Body!Work
  <2>1. /\ DOMAIN bot' = DOMAIN bot /\ bot'.at = "ended" /\ LingbotLeft' = 0
        /\ bot'.outcome = "failed" \/ (bot'.outcome = "cancelled" /\ asked)
    BY <1>2, <1>4
  <2>2. Pays(LingbotLeft, LingbotLeft')
    BY <1>3, <1>4, <2>1 DEF Pays
  <2> QED BY <1>1, <1>4, <2>1, <2>2
<1>5. ASSUME bot.at # "ended", DOMAIN snap' = DOMAIN snap,
             UNCHANGED ctxVars \/ (Begun /\ LingbotLeft > 0),
             Unwind("failed") \/ (Unwind("cancelled") /\ asked)
      PROVE  BodyInv' /\ Body!Work
  <2>1. /\ DOMAIN bot' = DOMAIN bot /\ bot'.at = "unwinding"
        /\ bot'.outcome = "failed" \/ (bot'.outcome = "cancelled" /\ asked)
    BY <1>5 DEF Unwind, BodyInv, BotFields
  <2>2. LingbotLeft' = 0
    BY <2>1 DEF LingbotLeft
  <2>3. Pays(LingbotLeft, LingbotLeft')
    BY <1>3, <1>5, <2>2 DEF Pays
  <2> QED BY <1>1, <1>5, <2>1, <2>3
\* It goes on: with a call less to make, with as many, or with no stop asked for.
<1>6. ASSUME bot.at # "ended", DOMAIN bot' = DOMAIN bot, DOMAIN snap' = DOMAIN snap,
             bot'.outcome = "none",
             bot'.at \in {"ingesting", "fetching", "fetched", "loading", "streaming", "forwarding",
                          "unwinding", "exporting", "exporting_glb"},
             \/ UNCHANGED ctxVars /\ (~asked \/ LingbotLeft' <= LingbotLeft)
             \/ Begun /\ LingbotLeft' < LingbotLeft
      PROVE  BodyInv' /\ Body!Work
  <2>1. Pays(LingbotLeft, LingbotLeft')
    BY <1>6 DEF Pays
  <2> QED BY <1>1, <1>6, <2>1
<1>7. DOMAIN snap = {"active", "cloud", "files", "shown"}
  BY DEF BodyInv, BotFields
<1>8. CASE StartLingbot
  <2>1. /\ bot.at = "queued" /\ snap' = snap /\ UNCHANGED ctxVars
        /\ \/ ~asked /\ bot' = [bot EXCEPT !.at = "ingesting"]
           \/ BotEnds("cancelled") /\ asked
    BY <1>8 DEF StartLingbot, RaiseOr
  <2>2. CASE ~asked /\ bot' = [bot EXCEPT !.at = "ingesting"]
    <3>1. DOMAIN bot' = DOMAIN bot /\ bot'.at = "ingesting" /\ bot'.outcome = "none"
      BY <2>1, <2>2 DEF BodyInv, BotFields
    <3> QED BY <1>6, <2>1, <2>2, <3>1
  <2> QED BY <1>4, <2>1, <2>2
<1>9. CASE IngestVideos
  <2>1. bot.at = "ingesting" /\ snap' = snap /\ LingbotLeft = IngestLeft
    BY <1>9 DEF IngestVideos, LingbotLeft
  <2>2. CASE IngestStep /\ UNCHANGED bot
    <3>1. LingbotLeft' = IngestLeft'
      BY <2>1, <2>2 DEF LingbotLeft
    <3>2. Pays(LingbotLeft, LingbotLeft')
      BY <2>1, <2>2, <3>1, IngestPays
    <3>3. bot.outcome = "none"
      BY <2>1 DEF BodyInv
    <3> QED BY <1>1, <2>1, <2>2, <3>2, <3>3
  <2>3. CASE IngestFails /\ BotEnds("failed")
    <3>1. (~Ingested /\ Begun) \/ UNCHANGED ctxVars
      BY <2>3 DEF IngestFails
    <3>2. ~Ingested => LingbotLeft > 0
      BY <2>1, IngestLeftIs
    <3> QED BY <1>4, <2>1, <2>3, <3>1, <3>2
  <2> QED BY <1>9, <2>2, <2>3 DEF IngestVideos
<1>10. CASE LeaveVideos
  <2>1. /\ bot.at = "ingesting" /\ snap' = snap /\ UNCHANGED ctxVars
        /\ \/ ~asked /\ \E n : bot' = [bot EXCEPT !.at = "fetching", !.total = n]
           \/ BotEnds("cancelled") /\ asked
    BY <1>10 DEF LeaveVideos, BotUnless
  <2>2. CASE ~asked /\ \E n : bot' = [bot EXCEPT !.at = "fetching", !.total = n]
    <3>1. DOMAIN bot' = DOMAIN bot /\ bot'.at = "fetching" /\ bot'.outcome = "none"
      BY <2>1, <2>2 DEF BodyInv, BotFields
    <3> QED BY <1>6, <2>1, <2>2, <3>1
  <2> QED BY <1>4, <2>1, <2>2
<1>11. CASE FetchCheckpoint
  <2>1. /\ bot.at = "fetching" /\ snap' = snap /\ LingbotLeft = 1
        /\ BotEnds("failed") \/ bot' = [bot EXCEPT !.at = "fetched"]
        /\ Begun \/ UNCHANGED ctxVars
    BY <1>11 DEF FetchCheckpoint, LingbotLeft
  <2>2. CASE BotEnds("failed")
    BY <1>4, <2>1, <2>2
  <2>3. CASE bot' = [bot EXCEPT !.at = "fetched"]
    <3>1. DOMAIN bot' = DOMAIN bot /\ bot'.at = "fetched" /\ bot'.outcome = "none"
      BY <2>1, <2>3 DEF BodyInv, BotFields
    <3>2. LingbotLeft' = 0
      BY <3>1 DEF LingbotLeft
    <3> QED BY <1>6, <2>1, <3>1, <3>2
  <2> QED BY <2>1, <2>2, <2>3
<1>12. CASE StartWatchdog
  <2>1. /\ bot.at = "fetched" /\ snap' = snap /\ UNCHANGED ctxVars
        /\ \/ ~asked /\ bot' = [bot EXCEPT !.at = "loading"]
           \/ BotEnds("cancelled") /\ asked
    BY <1>12 DEF StartWatchdog, BotUnless
  <2>2. CASE ~asked /\ bot' = [bot EXCEPT !.at = "loading"]
    <3>1. DOMAIN bot' = DOMAIN bot /\ bot'.at = "loading" /\ bot'.outcome = "none"
      BY <2>1, <2>2 DEF BodyInv, BotFields
    <3> QED BY <1>6, <2>1, <2>2, <3>1
  <2> QED BY <1>4, <2>1, <2>2
<1>13. CASE LoadModel
  <2>1. /\ bot.at = "loading" /\ snap' = snap /\ Begun /\ LingbotLeft = 1
        /\ Unwind("failed") \/ bot' = [bot EXCEPT !.at = "streaming"]
    BY <1>13 DEF LoadModel, LingbotLeft
  <2>2. CASE Unwind("failed")
    BY <1>5, <2>1, <2>2
  <2>3. CASE bot' = [bot EXCEPT !.at = "streaming"]
    <3>1. DOMAIN bot' = DOMAIN bot /\ bot'.at = "streaming" /\ bot'.outcome = "none"
      BY <2>1, <2>3 DEF BodyInv, BotFields
    <3>2. LingbotLeft' = 0
      BY <3>1 DEF LingbotLeft
    <3> QED BY <1>6, <2>1, <3>1, <3>2
  <2> QED BY <2>1, <2>2, <2>3
<1>14. CASE BeginForward
  <2>1. /\ bot.at = "streaming" /\ snap' = snap /\ UNCHANGED ctxVars
        /\ \/ ~asked /\ bot' = [bot EXCEPT !.at = "forwarding"]
           \/ Unwind("failed") \/ (Unwind("cancelled") /\ asked)
    BY <1>14 DEF BeginForward, RaiseOr
  <2>2. CASE ~asked /\ bot' = [bot EXCEPT !.at = "forwarding"]
    <3>1. DOMAIN bot' = DOMAIN bot /\ bot'.at = "forwarding" /\ bot'.outcome = "none"
      BY <2>1, <2>2 DEF BodyInv, BotFields
    <3> QED BY <1>6, <2>1, <2>2, <3>1
  <2> QED BY <1>5, <2>1, <2>2
<1>15. CASE EndForward
  <2>1. bot.at = "forwarding" /\ LingbotLeft = 1
    BY <1>15 DEF EndForward, LingbotLeft
  <2>2. CASE Unwind("failed") /\ UNCHANGED <<snap, ctxVars>>
    BY <1>5, <2>1, <2>2
  <2>3. ASSUME NEW accum, NEW done, Count(accum, done) PROVE BodyInv' /\ Body!Work
    <3>1. DOMAIN bot' = DOMAIN bot /\ bot'.at = "streaming" /\ bot'.outcome = "none"
      BY <2>1, <2>3 DEF Count, BodyInv, BotFields
    <3>2. DOMAIN snap' = DOMAIN snap
      BY <1>7, <2>3 DEF Count
    <3>3. Begun \/ UNCHANGED ctxVars
      BY <2>3 DEF Count
    <3>4. LingbotLeft' = 0
      BY <3>1 DEF LingbotLeft
    <3> QED BY <1>6, <2>1, <3>1, <3>2, <3>3, <3>4
  <2>4. (Unwind("failed") /\ UNCHANGED <<snap, ctxVars>>) \/ \E accum, done : Count(accum, done)
    BY <1>15 DEF EndForward
  <2> QED BY <2>2, <2>3, <2>4
<1>16. CASE InferenceReturns
  <2>0. bot.at = "streaming" /\ LingbotLeft = 0 /\ snap' = snap /\ UNCHANGED ctxVars
    BY <1>16 DEF InferenceReturns, LingbotLeft
  <2>1. /\ bot.at = "streaming" /\ snap' = snap /\ UNCHANGED ctxVars
        /\ \/ Unwind("failed")
           \/ \E heads : bot' = [bot EXCEPT !.at = "unwinding", !.outcome = "none", !.accum = <<>>, !.heads = heads]
    BY <1>16 DEF InferenceReturns
  <2>2. CASE Unwind("failed")
    BY <1>5, <2>1, <2>2
  <2>3. CASE ~Unwind("failed")
    <3>1. DOMAIN bot' = DOMAIN bot /\ bot'.at = "unwinding" /\ bot'.outcome = "none"
      BY <2>1, <2>3 DEF BodyInv, BotFields
    <3>2. LingbotLeft' = 0
      BY <3>1 DEF LingbotLeft
    <3>3. LingbotLeft' <= LingbotLeft /\ bot.at # "ended" /\ DOMAIN snap' = DOMAIN snap /\ UNCHANGED ctxVars
      BY <2>0, <3>2
    <3> QED BY <1>6, <3>1, <3>3
  <2> QED BY <2>2, <2>3
<1>17. ASSUME UNCHANGED <<bot, clip>>, DOMAIN snap' = DOMAIN snap, UNCHANGED ctxVars \/ Request
       PROVE  BodyInv' /\ BodyOutcome' = BodyOutcome /\ Left' = Left
  <2>1. asked => asked'
    BY <1>17 DEF Request, ctxVars
  <2>2. BodyInv'
    BY <1>17, <2>1 DEF BodyInv, SplatFields, BotFields, SplatWhole, LingbotWhole
  <2> QED BY <1>17, <2>2, LeftStays
<1>18. CASE PublishPartial \/ NoPartial
  <2>1. UNCHANGED <<bot, clip>> /\ UNCHANGED ctxVars /\ DOMAIN snap' = DOMAIN snap
    BY <1>18, <1>7 DEF PublishPartial, NoPartial
  <2> QED BY <1>17, <2>1 DEF Body!vars, ctxVars
<1>19. CASE PollVram \/ WatchdogWakes \/ StopWatchdog
  <2>1. UNCHANGED <<bot, clip>> /\ UNCHANGED ctxVars /\ UNCHANGED snap
    BY <1>19 DEF PollVram, WatchdogWakes, StopWatchdog
  <2> QED BY <1>17, <2>1 DEF Body!vars, ctxVars
<1>20. CASE AskLingbotStop
  <2>1. UNCHANGED <<bot, clip>> /\ UNCHANGED snap /\ Request /\ bot.at # "ended"
    BY <1>20 DEF AskLingbotStop
  <2>2. BodyOutcome = "none"
    BY <2>1 DEF BodyOutcome
  <2> QED BY <1>17, <2>1, <2>2, AskIsAsk
<1>21. CASE LeaveInference
  <2>1. /\ bot.at = "unwinding" /\ snap' = snap /\ UNCHANGED ctxVars
        /\ \/ bot.outcome # "none" /\ BotEnds(bot.outcome)
           \/ bot.outcome = "none" /\ BotEnds("cancelled") /\ asked
           \/ bot.outcome = "none" /\ ~asked /\ bot' = [bot EXCEPT !.at = "exporting"]
    BY <1>21 DEF LeaveInference, BotUnless
  <2>2. CASE bot.outcome # "none" /\ BotEnds(bot.outcome)
    <3>1. bot.outcome = "failed" \/ (bot.outcome = "cancelled" /\ asked)
      BY <2>1, <2>2 DEF BodyInv
    <3> QED BY <1>4, <2>1, <2>2, <3>1
  <2>3. CASE BotEnds("cancelled") /\ asked
    BY <1>4, <2>1, <2>3
  <2>4. CASE bot.outcome = "none" /\ ~asked /\ bot' = [bot EXCEPT !.at = "exporting"]
    <3>1. DOMAIN bot' = DOMAIN bot /\ bot'.at = "exporting" /\ bot'.outcome = "none"
      BY <2>4 DEF BodyInv, BotFields
    <3> QED BY <1>6, <2>1, <2>4, <3>1
  <2> QED BY <2>1, <2>2, <2>3, <2>4
<1>22. CASE MaskSky
  <2>1. /\ bot.at = "exporting" /\ snap' = snap /\ LingbotLeft = 4
        /\ \/ Begun /\ BotEnds("failed")
           \/ (Begun \/ UNCHANGED ctxVars) /\ bot' = [bot EXCEPT !.at = "exporting_glb"]
    BY <1>22 DEF MaskSky, LingbotLeft
  <2>2. CASE Begun /\ BotEnds("failed")
    BY <1>4, <2>1, <2>2
  <2>3. CASE (Begun \/ UNCHANGED ctxVars) /\ bot' = [bot EXCEPT !.at = "exporting_glb"]
    <3>1. DOMAIN bot' = DOMAIN bot /\ bot'.at = "exporting_glb" /\ bot'.outcome = "none"
      BY <2>1, <2>3 DEF BodyInv, BotFields
    <3>2. LingbotLeft' = 3
      BY <3>1 DEF LingbotLeft
    <3> QED BY <1>6, <2>1, <2>3, <3>1, <3>2
  <2> QED BY <2>1, <2>2, <2>3
<1>23. ASSUME snap' = snap, Begun,
              NEW at \in {"exporting_ply", "exporting_path", "cleaning_up"}, NEW made,
              bot' = [bot EXCEPT !.at = at, !.made = @ \cup made],
              at = "exporting_ply" => bot.at = "exporting_glb" /\ "glb" \in made,
              at = "exporting_path" => bot.at = "exporting_ply" /\ "ply" \in made,
              at = "cleaning_up" => bot.at = "exporting_path"
       PROVE  BodyInv' /\ Body!Work
  <2>1. /\ DOMAIN bot' = DOMAIN bot /\ bot'.at = at /\ bot'.outcome = bot.outcome
        /\ bot'.made = bot.made \cup made
    BY <1>23 DEF BodyInv, BotFields
  <2>2. bot.outcome = "none" /\ bot.at \in {"exporting_glb", "exporting_ply", "exporting_path"}
    BY <1>23 DEF BodyInv
  <2>3. at = "exporting_ply" => "glb" \in bot'.made
    BY <1>23, <2>1
  <2>4. at \in {"exporting_path", "cleaning_up"} => LingbotWhole'
    BY <1>23, <2>1 DEF BodyInv, LingbotWhole
  <2>5. \/ at = "exporting_ply" /\ LingbotLeft = 3 /\ LingbotLeft' = 2
        \/ at = "exporting_path" /\ LingbotLeft = 2 /\ LingbotLeft' = 1
        \/ at = "cleaning_up" /\ LingbotLeft = 1 /\ LingbotLeft' = 0
    BY <1>23, <2>1 DEF LingbotLeft
  <2>6. Pays(LingbotLeft, LingbotLeft')
    BY <1>23, <2>5 DEF Pays
  <2> QED BY <1>1, <1>23, <2>1, <2>2, <2>3, <2>4, <2>6
<1>24. CASE WriteGlb
  <2>1. /\ bot.at = "exporting_glb" /\ snap' = snap /\ Begun /\ LingbotLeft = 3
        /\ BotEnds("failed") \/ bot' = [bot EXCEPT !.at = "exporting_ply", !.made = @ \cup {"glb"}]
    BY <1>24 DEF WriteGlb, LingbotLeft
  <2>2. CASE BotEnds("failed")
    BY <1>4, <2>1, <2>2
  <2>3. CASE bot' = [bot EXCEPT !.at = "exporting_ply", !.made = @ \cup {"glb"}]
    BY <1>23, <2>1, <2>3
  <2> QED BY <2>1, <2>2, <2>3
<1>25. CASE WritePly
  <2>1. /\ bot.at = "exporting_ply" /\ snap' = snap /\ Begun /\ LingbotLeft = 2
        /\ BotEnds("failed") \/ bot' = [bot EXCEPT !.at = "exporting_path", !.made = @ \cup {"ply"}]
    BY <1>25 DEF WritePly, LingbotLeft
  <2>2. CASE BotEnds("failed")
    BY <1>4, <2>1, <2>2
  <2>3. CASE bot' = [bot EXCEPT !.at = "exporting_path", !.made = @ \cup {"ply"}]
    BY <1>23, <2>1, <2>3
  <2> QED BY <2>1, <2>2, <2>3
<1>26. CASE WriteCameraPath
  <2>1. /\ bot.at = "exporting_path" /\ snap' = snap /\ Begun
        /\ \E path \in {{}, {"camera_path"}} : bot' = [bot EXCEPT !.at = "cleaning_up", !.made = @ \cup path]
    BY <1>26 DEF WriteCameraPath
  <2> QED BY <1>23, <2>1
<1>27. CASE RemovePartials
  <2>1. bot.at = "cleaning_up" /\ BotEnds("ready") /\ UNCHANGED ctxVars /\ DOMAIN snap' = DOMAIN snap
    BY <1>7, <1>27 DEF RemovePartials
  <2>2. /\ DOMAIN bot' = DOMAIN bot /\ bot'.at = "ended" /\ bot'.outcome = "ready" /\ bot'.made = bot.made
        /\ LingbotLeft' = 0
    BY <1>2, <2>1
  <2>3. LingbotWhole'
    BY <2>1, <2>2 DEF BodyInv, LingbotWhole
  <2>4. Pays(LingbotLeft, LingbotLeft')
    BY <1>3, <2>1, <2>2 DEF Pays
  <2> QED BY <1>1, <2>1, <2>2, <2>3, <2>4
<1> QED BY <1>8, <1>9, <1>10, <1>11, <1>12, <1>13, <1>14, <1>15, <1>16, <1>18, <1>19, <1>20, <1>21,
           <1>22, <1>24, <1>25, <1>26, <1>27
        DEF LingbotNext

LEMMA BodyInitInv == Init => BodyInv /\ Body!Init
<1> SUFFICES ASSUME Init PROVE BodyInv /\ Body!Init
  OBVIOUS
<1>1. /\ slam = QueuedSlam /\ \E random \in BOOLEAN : splat = NewSplat(random)
      /\ asked = FALSE /\ late = 0 /\ part \in {"slam", "splat", "lingbot", "stream"}
  BY DEF Init, LingbotInit, SlamInit, SplatInit, NoSlam, NoSplat, CtxInit
<1>2. /\ BotFields /\ bot.at = "queued" /\ bot.outcome = "none"
  BY DEF Init, LingbotInit, BotQueued, BotFields
<1>3. /\ slam.at = "queued" /\ slam.outcome = "none" /\ DOMAIN slam = DOMAIN QueuedSlam
      /\ splat.at = "asking" /\ splat.outcome = "none" /\ SplatFields
  BY <1>1 DEF QueuedSlam, NewSplat, SplatFields
<1>4. BodyInv
  BY <1>1, <1>2, <1>3 DEF BodyInv
<1>5. BodyOutcome = "none"
  BY <1>1, <1>2, <1>3 DEF BodyOutcome, Ends
<1>6. Left \in Nat
  BY <1>1, ClipStartsOK, LeftIs
<1> QED BY <1>1, <1>4, <1>5, <1>6 DEF Body!Init

Counted == Left \in Nat

\* With the calls that are left counted before and after it, a step is one of JobBody.
LEMMA BodyStep ==
  ClipOK /\ BodyInv /\ ContextInv /\ Counted /\ Counted' /\ [Next]_procVars
    => BodyInv' /\ [Body!Next]_(Body!vars)
<1> SUFFICES ASSUME ClipOK, BodyInv, ContextInv, Left \in Nat, Left' \in Nat, [Next]_procVars
             PROVE  BodyInv' /\ [Body!Next]_(Body!vars)
  BY DEF Counted
<1>1. CASE UNCHANGED <<part, plan, slam, splat, bot, snap, asked, late>>
           /\ (part \in {"slam", "lingbot"} => UNCHANGED clip)
  <2>1. BodyInv'
    BY <1>1 DEF BodyInv, SplatFields, BotFields, SplatWhole, LingbotWhole
  <2>2. Left' = Left /\ BodyOutcome' = BodyOutcome
    BY <1>1, LeftStays DEF ClipOK
  <2> QED BY <1>1, <2>1, <2>2 DEF Body!vars
<1>2. CASE part = "slam" /\ SlamNext /\ UNCHANGED <<part, source, splat, bot, watch, snap, streamVars>>
  BY <1>2, SlamIsBody DEF Body!Next, ClipOK
<1>3. CASE part = "splat" /\ SplatNext /\ UNCHANGED <<part, clip, plan, slam, bot, watch, snap, streamVars>>
  BY <1>3, SplatIsBody DEF Body!Next
<1>4. CASE part = "lingbot" /\ LingbotNext /\ UNCHANGED <<part, plan, slam, source, splat, streamVars>>
  BY <1>4, LingbotIsBody DEF Body!Next, ClipOK
<1>5. CASE part = "stream" /\ UNCHANGED <<part, slamVars, source, splat, bot, watch, snap>>
  BY <1>1, <1>5 DEF slamVars, ctxVars
<1>6. CASE UNCHANGED procVars
  BY <1>1, <1>6 DEF procVars, slamVars, splatVars, botVars, ctxVars
<1> QED BY <1>2, <1>3, <1>4, <1>5, <1>6 DEF Next

\* Every processor implements JobBody, for every configuration, clip, source and
\* interval: it ends once, as cancelled only when asked, as ready only with what the
\* runner records, and after a stop it begins no call but those it had still to make
\* before its next look at the token.
THEOREM Refinement == Spec => ImplementsBody
<1>1. Init => ClipOK /\ BodyInv /\ ContextInv /\ Body!Init
  BY ClipStartsOK, BodyInitInv, ContextInit
<1>2. ContextInv /\ [Next]_procVars => ContextInv'
  BY ContextStep
<1>3. ClipOK /\ [Next]_procVars => ClipOK'
  BY ClipAlways
<1>4. ClipOK => Counted
  BY LeftIs DEF Counted
<1>5. ClipOK /\ BodyInv /\ ContextInv /\ Counted /\ Counted' /\ [Next]_procVars
        => BodyInv' /\ [Body!Next]_(Body!vars)
  BY BodyStep
<1> QED BY <1>1, <1>2, <1>3, <1>4, <1>5, PTL DEF Spec, ImplementsBody, Body!Spec

\* Which videos a clip is of stays.
LEMMA VideosStay ==
  ASSUME ClipInv, SlamNext \/ LingbotNext
  PROVE  clip'.videos = clip.videos
<1>1. CASE IngestStep
  BY <1>1, IngestGoes DEF ExtractVideo, PassOver, ClipInv
<1> QED BY <1>1, ClipMoves

\* Once it is asked, a run is allowed no less than before: what it was allowed in its
\* ingest it keeps.
LEMMA AllowedStays ==
  ASSUME ClipOK, BodyInv, asked, [Next]_procVars, Allowed \in Nat
  PROVE  Allowed <= Allowed'
<1> DEFINE n == Len(clip.videos)
           n2 == Len(clip'.videos)
<1>1. CASE part \in {"splat", "stream"} \/ UNCHANGED procVars
  <2>1. Allowed' = Allowed
    BY <1>1 DEF Allowed, Next, procVars, slamVars, botVars
  <2> QED BY <2>1
<1>2. CASE part = "slam" /\ part' = part /\ SlamNext
  <2>1. n \in Nat /\ n2 = n
    BY <1>2, VideosStay DEF ClipOK, ClipInv
  <2>2. slam.at \in {"ingesting", "ended"} => slam'.at \in {"ingesting", "ended"}
    <3>1. CASE IngestClip \/ LeaveIngest
      BY <3>1 DEF IngestClip, LeaveIngest, Unless, End, BodyInv, QueuedSlam
    <3>2. CASE AskSlamStop
      BY <3>2 DEF AskSlamStop
    <3> QED BY <1>2, <3>1, <3>2
        DEF SlamNext, StartSlam, GateFrames, SeedSession, BeginStep, EndStep, LeaveTracking,
            FinaliseSession, InstallFrames, RunBatch, CheckTracked, ExportSlam
  <2>3. /\ slam.at \in {"ingesting", "ended"} => Allowed = n + 7 /\ Allowed' = n2 + 7
        /\ Allowed = n + 7 \/ Allowed = 2
        /\ Allowed' = n2 + 7 \/ Allowed' = 2
    BY <1>2, <2>2, PassesAre DEF Allowed
  <2>4. slam.at \notin {"ingesting", "ended"} => Allowed = 2
    BY <1>2 DEF Allowed
  <2> HIDE DEF n, n2
  <2> QED BY <2>1, <2>3, <2>4
<1>3. CASE part = "lingbot" /\ part' = part /\ LingbotNext
  <2>1. n \in Nat /\ n2 = n
    BY <1>3, VideosStay DEF ClipOK, ClipInv
  <2>2. bot.at \in {"ingesting", "ended"} => bot'.at \in {"ingesting", "ended"}
    <3>1. CASE IngestVideos \/ LeaveVideos
      BY <3>1 DEF IngestVideos, LeaveVideos, BotUnless, BotEnds, BodyInv, BotFields
    <3>2. CASE \/ PublishPartial \/ NoPartial \/ PollVram \/ WatchdogWakes \/ StopWatchdog
               \/ AskLingbotStop
      BY <3>2 DEF PublishPartial, NoPartial, PollVram, WatchdogWakes, StopWatchdog, AskLingbotStop
    <3> QED BY <1>3, <3>1, <3>2
        DEF LingbotNext, StartLingbot, FetchCheckpoint, StartWatchdog, LoadModel, BeginForward,
            EndForward, InferenceReturns, LeaveInference, MaskSky, WriteGlb, WritePly,
            WriteCameraPath, RemovePartials
  <2>3. /\ bot.at \in {"ingesting", "ended"} => Allowed = n + 7 /\ Allowed' = n2 + 7
        /\ Allowed' = n2 + 7 \/ Allowed' = 4
    BY <1>3, <2>2, PassesAre DEF Allowed
  <2>4. bot.at \notin {"ingesting", "ended"} => Allowed = 4
    BY <1>3 DEF Allowed
  <2> HIDE DEF n, n2
  <2> QED BY <2>1, <2>3, <2>4
<1> QED BY <1>1, <1>2, <1>3 DEF ClipOK, Next

BodyMoves == [Body!Next]_(Body!vars)
Fits == Left \in Nat /\ Allowed \in Nat /\ Left <= Allowed

LEMMA SumsFit ==
  ASSUME NEW s \in Nat, NEW t \in Nat, NEW l \in Nat, NEW m \in Nat, NEW a \in Nat, NEW b \in Nat,
         t + m <= s + l, s + l <= a, a <= b
  PROVE  t + m <= b
OBVIOUS

\* What was begun and what is left never grow together, and the bound never falls.
LEMMA SoonStep ==
  ClipOK /\ BodyInv /\ ContextInv /\ ContextInv' /\ Fits /\ Fits' /\ [Next]_procVars /\ BodyMoves
    => (StopsSoon => StopsSoon')
<1> HAVE ClipOK /\ BodyInv /\ ContextInv /\ ContextInv' /\ Fits /\ Fits' /\ [Next]_procVars /\ BodyMoves
<1> HAVE StopsSoon
<1>1. /\ Left \in Nat /\ Left' \in Nat /\ Allowed \in Nat /\ Allowed' \in Nat /\ Left' <= Allowed'
      /\ late \in Nat /\ late' \in Nat /\ late + Left <= Allowed
  BY DEF Fits, ContextInv, StopsSoon
<1>2. CASE late' = 0
  <2>1. \A m \in Nat : 0 + m = m
    OBVIOUS
  <2>2. late' + Left' = Left'
    BY <1>1, <1>2, <2>1
  <2> QED BY <1>1, <2>2 DEF StopsSoon
<1>3. CASE late' # 0
  <2>1. asked
    BY <1>3 DEF ContextInv, BodyMoves, Body!Next, Body!Ask, Body!Work, Body!vars
  <2>2. Allowed <= Allowed'
    BY <2>1, AllowedStays DEF Fits
  <2>3. late' + Left' <= late + Left \/ (late' = late /\ Left' = Left)
    BY <2>1 DEF BodyMoves, Body!Next, Body!Ask, Body!Work, Body!vars
  <2>4. CASE late' + Left' <= late + Left
    BY <1>1, <2>2, <2>4, SumsFit DEF StopsSoon
  <2>5. CASE late' = late /\ Left' = Left
    <3>1. late' + Left' <= late + Left
      BY <1>1, <2>5
    <3> QED BY <1>1, <2>2, <3>1, SumsFit DEF StopsSoon
  <2> QED BY <2>3, <2>4, <2>5
<1> QED BY <1>2, <1>3

\* A stop request is seen after the rest of the ingest at most, or after two more
\* calls of a SLAM run, three of a splat training, four of a LingBot reconstruction:
\* for every clip, configuration and interval.
THEOREM StopIsSoon == Spec => []StopsSoon
<1>1. Init => ClipOK /\ ContextInv
  BY ClipStartsOK, ContextInit
<1>2. Init => asked = FALSE /\ late = 0
  BY DEF Init, LingbotInit, SlamInit, SplatInit, CtxInit
<1>3. ClipOK => Fits
  BY LeftIs DEF Fits
<1>4. Init => StopsSoon
  <2> SUFFICES ASSUME Init PROVE StopsSoon
    OBVIOUS
  <2> DEFINE l == Left
             a == Allowed
  <2>1. late = 0 /\ l \in Nat /\ a \in Nat /\ l <= a
    BY <1>1, <1>2, <1>3 DEF Fits
  <2>2. late + l <= a
    <3> HIDE DEF l, a
    <3> QED BY <2>1
  <2> QED BY <2>2 DEF StopsSoon
<1>5. ContextInv /\ [Next]_procVars => ContextInv'
  BY ContextStep
<1>6. ClipOK /\ [Next]_procVars => ClipOK'
  BY ClipAlways
<1>7. ClipOK /\ BodyInv /\ ContextInv /\ ContextInv' /\ Fits /\ Fits' /\ [Next]_procVars /\ BodyMoves
        => (StopsSoon => StopsSoon')
  BY SoonStep
<1>8. /\ Init => BodyInv /\ Counted
      /\ ClipOK => Counted
      /\ ClipOK /\ BodyInv /\ ContextInv /\ Counted /\ Counted' /\ [Next]_procVars
           => BodyInv' /\ BodyMoves
  BY <1>1, BodyInitInv, LeftIs, BodyStep DEF Counted, BodyMoves
<1> QED BY <1>1, <1>3, <1>4, <1>5, <1>6, <1>7, <1>8, PTL DEF Spec
-----------------------------------------------------------------------------
(* Types *)

SlamPlaced ==
  /\ slam.at \in {"queued", "ingesting", "gating", "seeding", "tracking", "stepping", "finalising",
                  "batch", "launching", "tracked", "exporting", "ended"}
  /\ slam.outcome \in {"none", "ready", "failed", "cancelled"}

LEMMA SlamPlacedStep ==
  ASSUME BodyInv, SlamPlaced, SlamNext
  PROVE  SlamPlaced'
<1> USE DEF SlamPlaced
<1>1. ASSUME NEW outcome \in {"failed", "cancelled"}, slam' = End(outcome)
      PROVE  SlamPlaced'
  BY <1>1 DEF End, BodyInv, QueuedSlam
<1>2. CASE StartSlam \/ IngestClip \/ LeaveIngest \/ GateFrames
  BY <1>1, <1>2 DEF StartSlam, IngestClip, LeaveIngest, GateFrames, RaiseOr, Unless, BodyInv, QueuedSlam
<1>3. CASE SeedSession
  <2>1. slam' = End("failed") \/ (slam'.at \in {"batch", "tracking"} /\ slam'.outcome = slam.outcome)
    BY <1>3 DEF SeedSession, BodyInv, QueuedSlam
  <2> QED BY <1>1, <2>1
<1>4. CASE BeginStep
  BY <1>1, <1>4 DEF BeginStep, RaiseOr, BodyInv, QueuedSlam
<1>5. CASE EndStep
  <2>1. slam' = End("failed") \/ (slam'.at = "tracking" /\ slam'.outcome = slam.outcome)
    BY <1>5 DEF EndStep, BodyInv, QueuedSlam
  <2> QED BY <1>1, <2>1
<1>6. CASE FinaliseSession \/ RunBatch
  <2>1. \/ slam' = End("failed")
        \/ \E poses, keyframes :
             slam' = [slam EXCEPT !.at = "tracked", !.poses = poses, !.keyframes = keyframes]
    <3>1. CASE FinaliseSession
      BY <3>1 DEF FinaliseSession
    <3>2. CASE RunBatch
      BY <3>2 DEF RunBatch
    <3> QED BY <1>6, <3>1, <3>2
  <2> QED BY <1>1, <2>1 DEF BodyInv, QueuedSlam
<1>7. CASE LeaveTracking \/ InstallFrames \/ CheckTracked \/ AskSlamStop
  BY <1>1, <1>7 DEF LeaveTracking, InstallFrames, CheckTracked, AskSlamStop, Unless, BodyInv, QueuedSlam
<1>8. CASE ExportSlam
  <2>1. \/ slam' = End("failed")
        \/ \E points : slam' = [End("ready") EXCEPT !.rows = PoseRows, !.artifacts = Artifacts(points)]
    BY <1>8 DEF ExportSlam
  <2> QED BY <1>1, <2>1 DEF End, BodyInv, QueuedSlam
<1> QED BY <1>2, <1>3, <1>4, <1>5, <1>6, <1>7, <1>8 DEF SlamNext

SplatPlaced ==
  /\ splat.at \in {"asking", "queued", "resolved", "training", "previewing", "writing_splat",
                   "writing_cameras", "writing_compressed", "ended"}
  /\ splat.outcome \in {"none", "refused", "failed", "cancelled", "ready"}
  /\ splat.it <= Iterations

LEMMA SplatPlacedStep ==
  ASSUME SplatInv, SplatPlaced, SplatNext
  PROVE  SplatPlaced'
<1> USE DEF SplatPlaced
<1>1. ASSUME NEW outcome \in {"refused", "failed", "cancelled", "ready"}, EndTraining(outcome)
      PROVE  SplatPlaced'
  BY <1>1 DEF EndTraining, SplatInv, SplatFields, NewSplat
<1>2. CASE AskSplat \/ ResolveAgain \/ TrainerUnavailable
  BY <1>1, <1>2 DEF AskSplat, ResolveAgain, TrainerUnavailable, RaiseOr, SplatInv, SplatFields, NewSplat
<1>3. CASE Prepare
  <2>1. CASE EndTraining("failed")
    BY <1>1, <2>1
  <2>2. CASE ~EndTraining("failed")
    <3>1. \E n \in {3, SeedPoints} : \E paths, cameras :
            splat' = [splat EXCEPT !.at = "training", !.n = n, !.paths = paths,
                        !.cameras = cameras,
                        !.cached = [version |-> 0, n |-> n], !.dirty = FALSE]
      BY <1>3, <2>2, Prepared
    <3> QED BY <3>1 DEF SplatInv, SplatFields, NewSplat
  <2> QED BY <2>1, <2>2
<1>4. CASE TrainStep
  <2>1. CASE EndTraining("failed") \/ EndTraining("cancelled")
    BY <1>1, <2>1
  <2>2. CASE ~(EndTraining("failed") \/ EndTraining("cancelled"))
    <3>1. \E cam \in DOMAIN splat.cameras :
            \E n \in SizesAfter(splat.it + 1, splat.n) :
              splat' = [Stepped(splat, n, splat.cameras[cam]) EXCEPT
                          !.at = IF (splat.it + 1) % PreviewEvery = 0 THEN "previewing" ELSE "training"]
      BY <1>4, <2>2, Trained
    <3>2. \E n, photo : \E at \in {"previewing", "training"} :
            splat' = [Stepped(splat, n, photo) EXCEPT !.at = at]
      BY <3>1
    <3>3. /\ splat'.at \in {"previewing", "training"} /\ splat'.outcome = splat.outcome
          /\ splat'.it = splat.it + 1
      BY <3>2 DEF Stepped, SplatInv, SplatFields, NewSplat
    <3>4. splat.it < Iterations /\ splat.it \in Nat /\ Iterations \in Nat
      BY <1>4, SplatAssumption DEF TrainStep, SplatInv
    <3> QED BY <3>3, <3>4
  <2> QED BY <2>1, <2>2
<1>5. CASE Preview
  <2>1. CASE EndTraining("failed")
    BY <1>1, <2>1
  <2>2. CASE ~EndTraining("failed")
    <3>1. splat'.at = "training" /\ splat'.outcome = splat.outcome /\ splat'.it = splat.it
      BY <1>5, <2>2 DEF Preview, SplatInv, SplatFields, NewSplat
    <3> QED BY <3>1
  <2> QED BY <2>1, <2>2
<1>6. CASE LeaveTraining
  BY <1>1, <1>6 DEF LeaveTraining, RaiseOr, SplatInv, SplatFields, NewSplat
<1>7. CASE WriteSplat
  <2>1. CASE EndTraining("failed")
    BY <1>1, <2>1
  <2>2. CASE ~EndTraining("failed")
    <3>1. \E final : splat' = [splat EXCEPT !.at = "writing_cameras", !.final = final]
      BY <1>7, <2>2 DEF WriteSplat
    <3> QED BY <3>1 DEF SplatInv, SplatFields, NewSplat
  <2> QED BY <2>1, <2>2
<1>8. CASE WriteCameras
  <2>1. EndTraining("failed") \/ splat' = [splat EXCEPT !.at = "writing_compressed"]
    BY <1>8 DEF WriteCameras
  <2> QED BY <1>1, <2>1 DEF SplatInv, SplatFields, NewSplat
<1>9. CASE WriteCompressed
  BY <1>1, <1>9 DEF WriteCompressed
<1>10. CASE AskSplatStop \/ DropSourceRow \/ DropSourceFile
  BY <1>10 DEF AskSplatStop, DropSourceRow, DropSourceFile
<1> QED BY <1>2, <1>3, <1>4, <1>5, <1>6, <1>7, <1>8, <1>9, <1>10 DEF SplatNext

\* No forward goes beyond the frames the ingest left.
BotPlaced ==
  /\ bot.at \in {"queued", "ingesting", "fetching", "fetched", "loading", "streaming",
                 "forwarding", "unwinding", "exporting", "exporting_glb", "exporting_ply",
                 "exporting_path", "cleaning_up", "ended"}
  /\ bot.outcome \in {"none", "failed", "cancelled", "ready"}
  /\ bot.done <= bot.total
  /\ DOMAIN watch = {"at", "stop", "tripped"}
  /\ watch.at \in {"off", "polling", "waiting", "gone"}

LEMMA BotPlacedStep ==
  ASSUME ClipInv, BotInv, BodyInv, BotPlaced, LingbotNext
  PROVE  BotPlaced'
<1> USE DEF BotPlaced
<1>1. ASSUME NEW outcome \in {"failed", "cancelled", "ready"}, BotEnds(outcome)
      PROVE  /\ bot'.at = "ended" /\ bot'.outcome = outcome
             /\ bot'.done = bot.done /\ bot'.total = bot.total
  BY <1>1 DEF BotEnds, BotInv, BotFields
<1>2. ASSUME NEW outcome \in {"failed", "cancelled"}, Unwind(outcome)
      PROVE  /\ bot'.at = "unwinding" /\ bot'.outcome = outcome
             /\ bot'.done = bot.done /\ bot'.total = bot.total
  BY <1>2 DEF Unwind, BotInv, BotFields
<1>3. CASE StartLingbot
  BY <1>1, <1>3 DEF StartLingbot, RaiseOr, BotInv, BotFields
<1>4. CASE IngestVideos
  <2>1. watch' = watch /\ (bot' = bot \/ BotEnds("failed"))
    BY <1>4 DEF IngestVideos
  <2> QED BY <1>1, <2>1
<1>5. CASE LeaveVideos
  <2>1. watch' = watch /\ bot.done = 0 /\ bot.at = "ingesting"
    BY <1>5 DEF LeaveVideos, BotInv, Before
  <2>2. CASE BotEnds("cancelled")
    BY <1>1, <2>1, <2>2
  <2>3. CASE bot' = [bot EXCEPT !.at = "fetching", !.total = Len(clip.frames)]
    <3>1. Len(clip.frames) \in Nat
      BY DEF ClipInv, FrameSeq
    <3>2. /\ bot'.at = "fetching" /\ bot'.total = Len(clip.frames)
          /\ bot'.done = bot.done /\ bot'.outcome = bot.outcome
      BY <2>3 DEF BotInv, BotFields
    <3> QED BY <2>1, <3>1, <3>2
  <2> QED BY <1>5, <2>2, <2>3 DEF LeaveVideos, BotUnless
<1>6. CASE FetchCheckpoint \/ StartWatchdog
  <2>1. watch' = watch \/ watch' = [watch EXCEPT !.at = "polling"]
    BY <1>6 DEF FetchCheckpoint, StartWatchdog
  <2>2. \/ BotEnds("failed") \/ BotEnds("cancelled")
        \/ \E at \in {"fetched", "loading"} : bot' = [bot EXCEPT !.at = at]
    BY <1>6 DEF FetchCheckpoint, StartWatchdog, BotUnless
  <2> QED BY <1>1, <2>1, <2>2 DEF BotInv, BotFields
<1>7. CASE LoadModel \/ BeginForward
  <2>1. watch' = watch
    BY <1>7 DEF LoadModel, BeginForward
  <2>2. \/ Unwind("failed") \/ Unwind("cancelled")
        \/ \E at \in {"streaming", "forwarding"} : bot' = [bot EXCEPT !.at = at]
    BY <1>7 DEF LoadModel, BeginForward, RaiseOr
  <2> QED BY <1>2, <2>1, <2>2 DEF BotInv, BotFields
<1>14. CASE EndForward
  <2>1. watch' = watch /\ bot.at = "forwarding"
    BY <1>14 DEF EndForward
  <2>2. CASE Unwind("failed")
    BY <1>2, <2>1, <2>2
  <2>3. CASE \E accum : Count(accum, bot.done + NextBatch)
    <3>1. /\ bot'.at = "streaming" /\ bot'.outcome = bot.outcome /\ bot'.total = bot.total
          /\ bot'.done = bot.done + NextBatch
      BY <2>1, <2>3 DEF Count, BotInv, BotFields
    <3> DEFINE done == bot.done
               total == bot.total
    <3>2. done \in Nat /\ total \in Nat /\ done < total
      BY <2>1 DEF BotInv
    <3>3. NextBatch = IF done = 0 THEN IF ScaleFrames < total THEN ScaleFrames ELSE total ELSE 1
      BY DEF NextBatch
    <3> HIDE DEF done, total
    <3>4. done + NextBatch <= total
      BY <3>2, <3>3, LingbotAssumption
    <3> QED BY <2>1, <3>1, <3>4 DEF done, total
  <2> QED BY <1>14, <2>2, <2>3 DEF EndForward
<1>8. CASE InferenceReturns
  <2>1. watch' = watch
    BY <1>8 DEF InferenceReturns
  <2>2. \/ Unwind("failed")
        \/ \E heads : bot' = [bot EXCEPT !.at = "unwinding", !.outcome = "none", !.accum = <<>>, !.heads = heads]
    BY <1>8 DEF InferenceReturns
  <2>3. CASE Unwind("failed")
    BY <1>2, <2>1, <2>3
  <2>4. CASE \E heads : bot' = [bot EXCEPT !.at = "unwinding", !.outcome = "none", !.accum = <<>>, !.heads = heads]
    <3>1. /\ bot'.at = "unwinding" /\ bot'.outcome = "none"
          /\ bot'.done = bot.done /\ bot'.total = bot.total
      BY <2>4 DEF BotInv, BotFields
    <3> QED BY <2>1, <3>1
  <2> QED BY <2>2, <2>3, <2>4
<1>9. CASE PublishPartial \/ NoPartial \/ AskLingbotStop
  BY <1>9 DEF PublishPartial, NoPartial, AskLingbotStop
<1>10. CASE PollVram \/ WatchdogWakes \/ StopWatchdog
  <2>1. bot' = bot
    BY <1>10 DEF PollVram, WatchdogWakes, StopWatchdog
  <2>2. DOMAIN watch' = DOMAIN watch /\ watch'.at \in {"off", "polling", "waiting", "gone"}
    BY <1>10 DEF PollVram, WatchdogWakes, StopWatchdog
  <2> QED BY <2>1, <2>2
<1>11. CASE LeaveInference
  <2>1. watch' = [watch EXCEPT !.at = "gone"] /\ bot.at = "unwinding"
    BY <1>11 DEF LeaveInference
  <2>2. \/ bot.outcome # "none" /\ BotEnds(bot.outcome)
        \/ BotEnds("cancelled") \/ bot' = [bot EXCEPT !.at = "exporting"]
    BY <1>11 DEF LeaveInference, BotUnless
  <2>3. bot.outcome \in {"none", "failed", "cancelled"}
    BY <2>1 DEF BodyInv
  <2> QED BY <1>1, <2>1, <2>2, <2>3 DEF BotInv, BotFields
<1>12. CASE MaskSky \/ WriteGlb \/ WritePly \/ WriteCameraPath
  <2>1. watch' = watch
    BY <1>12 DEF MaskSky, WriteGlb, WritePly, WriteCameraPath
  <2>2. ASSUME NEW at \in {"exporting_ply", "exporting_path", "cleaning_up"}, NEW made,
               bot' = [bot EXCEPT !.at = at, !.made = made]
        PROVE  BotPlaced'
    <3>1. /\ bot'.at = at /\ bot'.outcome = bot.outcome
          /\ bot'.done = bot.done /\ bot'.total = bot.total
      BY <2>2 DEF BotInv, BotFields
    <3> QED BY <2>1, <3>1
  <2>3. CASE BotEnds("failed")
    BY <1>1, <2>1, <2>3
  <2>4. CASE WriteGlb
    BY <2>2, <2>3, <2>4 DEF WriteGlb
  <2>5. CASE WritePly
    BY <2>2, <2>3, <2>5 DEF WritePly
  <2>6. CASE WriteCameraPath
    BY <2>2, <2>3, <2>6 DEF WriteCameraPath
  <2>7. CASE MaskSky
    <3>1. BotEnds("failed") \/ bot' = [bot EXCEPT !.at = "exporting_glb"]
      BY <2>7 DEF MaskSky
    <3> QED BY <2>1, <2>3, <3>1 DEF BotInv, BotFields
  <2> QED BY <1>12, <2>4, <2>5, <2>6, <2>7
<1>13. CASE RemovePartials
  BY <1>1, <1>13 DEF RemovePartials
<1> QED BY <1>3, <1>4, <1>5, <1>6, <1>7, <1>8, <1>9, <1>10, <1>11, <1>12, <1>13, <1>14
        DEF LingbotNext

LEMMA StreamTyped ==
  ASSUME StreamInv, StreamTypeOK, StreamNext
  PROVE  StreamTypeOK'
<1> USE StreamAssumption DEF StreamTypeOK
<1>0. queue \in Seq(Int)
  BY DEF StreamInv
<1>1. Len(queue') <= QueueSize
  <2>1. ASSUME NEW n \in Int, Len(queue) < QueueSize, queue' = Append(queue, n)
        PROVE  Len(queue') <= QueueSize
    BY <1>0, <2>1
  <2>2. CASE UNCHANGED queue
    BY <2>2
  <2>3. CASE PushFrame
    BY <2>1, <2>2, <2>3 DEF PushFrame, StreamInv
  <2>4. CASE PutStop
    BY <2>1, <2>2, <2>4 DEF PutStop, Stop
  <2>5. CASE DrainOne
    <3>1. CASE queue # <<>> /\ queue' = Append(Tail(queue), Stop)
      <4>1. Tail(queue) \in Seq(Int) /\ Len(Tail(queue)) = Len(queue) - 1
        BY <1>0, <3>1
      <4> QED BY <1>0, <3>1, <4>1 DEF Stop
    <3> QED BY <2>2, <2>5, <3>1 DEF DrainOne
  <2>6. CASE TakeItem
    <3>1. queue # <<>> /\ queue' = Tail(queue)
      BY <2>6 DEF TakeItem
    <3>2. Len(Tail(queue)) = Len(queue) - 1
      BY <1>0, <3>1
    <3> QED BY <1>0, <3>1, <3>2
  <2>7. CASE SkipFrame \/ CloseDataset \/ JoinEnds \/ NextFrame \/ GetItem \/ TrackFrame
    BY <2>2, <2>7 DEF SkipFrame, CloseDataset, JoinEnds, NextFrame, GetItem, TrackFrame
  <2> QED BY <2>3, <2>4, <2>5, <2>6, <2>7 DEF StreamNext, ReadStep
<1>2. feed'.at \in {"feeding", "stopping", "draining", "joining", "finalised"}
  BY DEF StreamInv, StreamNext, ReadStep, PushFrame, SkipFrame, CloseDataset, PutStop, DrainOne, JoinEnds,
         NextFrame, GetItem, TakeItem, TrackFrame
<1>3. reader'.at \in {"asking", "getting", "waiting", "tracking", "saved", "dead"}
  BY DEF StreamInv, StreamNext, ReadStep, PushFrame, SkipFrame, CloseDataset, PutStop, DrainOne, JoinEnds,
         NextFrame, GetItem, TakeItem, TrackFrame
<1> QED BY <1>1, <1>2, <1>3

TypeInv == SlamPlaced /\ SplatPlaced /\ BotPlaced /\ StreamTypeOK

LEMMA TypeInitInv == Init => TypeInv
<1> SUFFICES ASSUME Init PROVE TypeInv
  OBVIOUS
<1>1. SlamPlaced
  <2>1. slam = QueuedSlam
    BY DEF Init, SlamInit, NoSlam
  <2> QED BY <2>1 DEF SlamPlaced, QueuedSlam
<1>2. SplatPlaced
  <2>1. \E random \in BOOLEAN : splat = NewSplat(random)
    BY DEF Init, SplatInit, NoSplat
  <2> QED BY <2>1, SplatAssumption DEF SplatPlaced, NewSplat
<1>3. BotPlaced
  BY DEF Init, LingbotInit, BotQueued, BotPlaced
<1>4. StreamTypeOK
  BY StreamAssumption DEF Init, StreamInit, StreamTypeOK
<1> QED BY <1>1, <1>2, <1>3, <1>4 DEF TypeInv

LEMMA TypeStep ==
  ClipOK /\ SplatInv /\ BotInv /\ StreamInv /\ BodyInv /\ TypeInv /\ [Next]_procVars => TypeInv'
<1> SUFFICES ASSUME ClipOK, SplatInv, BotInv, StreamInv, BodyInv, TypeInv, [Next]_procVars
             PROVE  TypeInv'
  OBVIOUS
<1>1. SlamPlaced'
  <2>1. slam' = slam \/ SlamNext
    BY DEF Next, procVars, slamVars
  <2> QED BY <2>1, SlamPlacedStep DEF TypeInv, SlamPlaced
<1>2. SplatPlaced'
  <2>1. splat' = splat \/ SplatNext
    BY DEF Next, procVars, splatVars
  <2> QED BY <2>1, SplatPlacedStep DEF TypeInv, SplatPlaced
<1>3. BotPlaced'
  <2>1. (bot' = bot /\ watch' = watch) \/ (ClipInv /\ LingbotNext)
    BY DEF Next, procVars, botVars, ClipOK
  <2> QED BY <2>1, BotPlacedStep DEF TypeInv, BotPlaced
<1>4. StreamTypeOK'
  <2>1. UNCHANGED streamVars \/ StreamNext
    BY DEF Next, procVars
  <2> QED BY <2>1, StreamTyped DEF TypeInv, StreamTypeOK, streamVars
<1> QED BY <1>1, <1>2, <1>3, <1>4 DEF TypeInv

\* Type correctness of the four: in particular no training goes beyond its last
\* step, no forward beyond the clip, and the live queue not beyond its size.
THEOREM TypeCorrect == Spec => [](SlamTypeOK /\ SplatTypeOK /\ LingbotTypeOK /\ StreamTypeOK)
<1> DEFINE Typed == SlamTypeOK /\ SplatTypeOK /\ LingbotTypeOK /\ StreamTypeOK
<1>1. Init => ClipOK /\ ContextInv /\ SplatInv /\ BotInv /\ StreamInv /\ BodyInv /\ TypeInv
  BY ClipStartsOK, ContextInit, SplatInitInv, BotInitInv, StreamInitInv, BodyInitInv, TypeInitInv DEF Init
<1>2. ASSUME ContextInv, SplatInv, BotInv, TypeInv PROVE Typed
  <2>1. CtxTypeOK
    BY <1>2 DEF ContextInv, CtxTypeOK
  <2>2. SplatTypeOK
    BY <1>2, <2>1, SplatAssumption DEF SplatTypeOK, TypeInv, SplatPlaced, SplatInv
  <2>3. LingbotTypeOK
    BY <1>2, <2>1 DEF LingbotTypeOK, TypeInv, BotPlaced, BotInv
  <2> QED BY <1>2, <2>1, <2>2, <2>3 DEF SlamTypeOK, TypeInv, SlamPlaced
<1> HIDE DEF Typed
<1>3. ClipOK => Counted
  BY LeftIs DEF Counted
<1>4. ClipOK /\ BodyInv /\ ContextInv /\ Counted /\ Counted' /\ [Next]_procVars => BodyInv'
  BY BodyStep
<1>5. /\ ContextInv /\ [Next]_procVars => ContextInv'
      /\ ClipOK /\ [Next]_procVars => ClipOK'
  BY ContextStep, ClipAlways
<1>6. ClipOK /\ SplatInv /\ BotInv /\ StreamInv /\ BodyInv /\ TypeInv /\ [Next]_procVars
        => (SplatInv /\ BotInv /\ StreamInv /\ TypeInv)'
  BY SplatAlways, BotAlways, StreamAlways, TypeStep
<1> QED BY <1>1, <1>2, <1>3, <1>4, <1>5, <1>6, PTL DEF Spec, Typed
=============================================================================
