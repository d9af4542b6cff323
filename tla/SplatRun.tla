------------------------------ MODULE SplatRun ------------------------------
(***************************************************************************)
(* One splat training (worker/app/processors/gsplat) from its submission   *)
(* to the splat it exports: GsplatProcessor.run over GsplatCudaTrainer,    *)
(* fed by the files of a finished source job that somebody may delete      *)
(* meanwhile.                                                              *)
(*                                                                         *)
(* Parameters of gaussians are not modelled: the set of them is its size   *)
(* and the number of the training step that made it.                       *)
(***************************************************************************)
EXTENDS JobContext, Integers, Sequences, FiniteSets

CONSTANTS
  Iterations,   \* training steps
  DensifyEvery, PruneEvery, PreviewEvery, \* intervals, in steps
  PreviewCap,   \* most gaussians in a preview (0: no cap)
  MaxPoints     \* most points taken from the source's cloud

ASSUME SplatAssumption ==
  /\ {Iterations, PreviewCap} \subseteq Nat
  /\ {DensifyEvery, PruneEvery, PreviewEvery, MaxPoints} \subseteq Nat \ {0}

VARIABLES
  source, \* the source job: its row, its photos and files still on disk
  splat   \* the training

splatVars == <<source, splat, ctxVars>>

\* A finished source: `cloud` points in reconstruction.ply, `cameras` the source
\* frames its pose graph names; files holds which of the two are on disk.
Sources ==
  [row : {TRUE}, photos : {{}, {0, 1, 2}}, files : SUBSET {"cloud", "cameras"},
   cloud : {0, 3, 41}, cameras : {<<>>, <<0, 2>>, <<1, 4>>}]

NothingShown == [it |-> 0, version |-> 0, n |-> 0]

NewSplat(random) ==
  [at |-> "asking", outcome |-> "none", random |-> random, inputs |-> {},
   it |-> 0, version |-> 0, n |-> 0, cached |-> [version |-> 0, n |-> 0], dirty |-> TRUE,
   paths |-> <<>>, cameras |-> <<>>, loaded |-> {}, shown |-> NothingShown, final |-> NothingShown]

SplatInit ==
  /\ source \in Sources
  /\ \E random \in BOOLEAN : splat = NewSplat(random)
  /\ CtxInit

EndTraining(outcome) ==
  splat' = [splat EXCEPT !.at = "ended", !.outcome = outcome, !.paths = <<>>, !.cameras = <<>>,
                         !.loaded = {}]

-----------------------------------------------------------------------------
(* Inputs *)

\* resolve_inputs, past the source's row: it has extracted frames.
Usable == source.photos # {}

\* Every step-th gaussian or point, so that at most cap are left.
Thinned(n, cap) ==
  IF cap <= 0 \/ n <= cap THEN n
  ELSE LET step == n \div cap + 1 IN (n + step - 1) \div step

\* load_init_points.
SeedPoints == Thinned(source.cloud, MaxPoints)

\* create_gsplat_job: 404, 409, or the row of the new job.
AskSplat ==
  /\ splat.at = "asking"
  /\ IF source.row /\ Usable
       THEN splat' = [splat EXCEPT !.at = "queued"]
       ELSE EndTraining("refused")
  /\ UNCHANGED <<source, ctxVars>>

\* The head of GsplatProcessor.run: the inputs are resolved again, and a trainer
\* that cannot be loaded raises.
ResolveAgain ==
  /\ splat.at = "queued"
  /\ RaiseOr(IF source.row /\ Usable
               THEN splat' = [splat EXCEPT !.at = "resolved", !.inputs = source.files]
               ELSE EndTraining("failed"),
             EndTraining("cancelled"))
  /\ UNCHANGED source

TrainerUnavailable ==
  /\ splat.at = "resolved"
  /\ EndTraining("failed")
  /\ UNCHANGED <<source, ctxVars>>

\* The photos in name order.
Listed(photos) ==
  LET F[i \in 0 .. 2] == LET before == IF i = 0 THEN <<>> ELSE F[i - 1]
                         IN IF i \in photos THEN Append(before, i) ELSE before
  IN F[2]

\* GsplatCudaTrainer.prepare: no points, no cameras or no photos raise, and so
\* does a file that has gone since it was resolved.  A camera without a photo of
\* its own takes the last one.  Asking for trainer.state.n fills the cache.
Prepare ==
  /\ splat.at = "resolved"
  /\ LET random == splat.random \/ "cloud" \notin splat.inputs
         n == IF random THEN 3 ELSE SeedPoints
         ready == /\ random \/ "cloud" \in source.files
                  /\ n > 0
                  /\ "cameras" \in splat.inputs /\ "cameras" \in source.files
                  /\ source.cameras # <<>> /\ source.photos # {}
         paths == Listed(source.photos)
         photo(cam) == IF source.cameras[cam] < Len(paths) THEN source.cameras[cam] ELSE Len(paths) - 1
     IN IF ready
          THEN splat' = [splat EXCEPT !.at = "training", !.n = n, !.paths = paths,
                           !.cameras = [cam \in DOMAIN source.cameras |-> photo(cam)],
                           !.cached = [version |-> 0, n |-> n], !.dirty = FALSE]
          ELSE EndTraining("failed")
  /\ Begun
  /\ UNCHANGED source

-----------------------------------------------------------------------------
(* Training *)

\* _densify clones a twentieth of the gaussians and at least one; torch.topk
\* refuses to pick one of none.
Densified(n) == n + (IF n \div 20 > 1 THEN n \div 20 ELSE 1)

\* The sizes after densification and pruning; {} when the step raises.  The set
\* may be pruned to nothing, and what rasterising nothing does is up to gsplat.
SizesAfter(it, n) ==
  LET grown == IF it % DensifyEvery = 0 THEN Densified(n) ELSE n
  IN IF it % DensifyEvery = 0 /\ n = 0 THEN {}
     ELSE IF it % PruneEvery = 0 THEN {0, grown \div 2, grown} ELSE {grown}

\* Mutant: the cached parameters are not marked stale by a step.
Kept(was, n, photo) ==
  [was EXCEPT !.version = was.it + 1, !.n = n, !.it = @ + 1, !.loaded = @ \cup {photo}]

\* What a step leaves: new parameters, and a cache marked stale.
Stepped(was, n, photo) ==
  [was EXCEPT !.version = was.it + 1, !.n = n, !.it = @ + 1, !.loaded = @ \cup {photo},
              !.dirty = TRUE]

\* trainer.step(it): one camera at random; its photo is read from the source's
\* directory the first time and from memory after that.
TrainStep ==
  /\ splat.at = "training" /\ splat.it < Iterations
  /\ RaiseOr(
       \/ \E cam \in DOMAIN splat.cameras :
            LET photo == splat.cameras[cam]
                there == photo \in splat.loaded \/ splat.paths[photo + 1] \in source.photos
                sizes == SizesAfter(splat.it + 1, splat.n)
            IN IF there /\ sizes # {}
                 THEN \E n \in sizes :
                        splat' = [Stepped(splat, n, photo) EXCEPT
                                    !.at = IF (splat.it + 1) % PreviewEvery = 0
                                             THEN "previewing" ELSE "training"]
                 ELSE EndTraining("failed")
       \/ splat.n = 0 /\ EndTraining("failed"),
       EndTraining("cancelled"))
  /\ UNCHANGED source

\* trainer.state: the parameters as of the last time the cache was stale.
State == IF splat.dirty THEN [version |-> splat.version, n |-> splat.n] ELSE splat.cached

\* _publish_partial: a thinned copy, written in a thread and announced.
Preview ==
  /\ splat.at = "previewing"
  /\ \/ EndTraining("failed")
     \/ splat' = [splat EXCEPT !.at = "training", !.cached = State, !.dirty = FALSE,
                    !.shown = [it |-> splat.it, version |-> State.version,
                               n |-> Thinned(State.n, PreviewCap)]]
  /\ Begun
  /\ UNCHANGED source

\* The check after the last step; _finalise is given trainer.state.
LeaveTraining ==
  /\ splat.at = "training" /\ splat.it = Iterations
  /\ RaiseOr(splat' = [splat EXCEPT !.at = "writing_splat", !.cached = State, !.dirty = FALSE],
             EndTraining("cancelled"))
  /\ UNCHANGED source

\* _finalise writes splat.ply, the cameras, read once more (none if the source
\* has gone), and splat.splat, each in a thread of its own that may raise, and
\* none behind a check.
WriteSplat ==
  /\ splat.at = "writing_splat"
  /\ \/ EndTraining("failed")
     \/ splat' = [splat EXCEPT !.at = "writing_cameras",
                    !.final = [it |-> splat.it, version |-> State.version, n |-> State.n]]
  /\ Begun
  /\ UNCHANGED source

WriteCameras ==
  /\ splat.at = "writing_cameras"
  /\ EndTraining("failed") \/ splat' = [splat EXCEPT !.at = "writing_compressed"]
  /\ Begun
  /\ UNCHANGED source

WriteCompressed ==
  /\ splat.at = "writing_compressed"
  /\ EndTraining("failed") \/ EndTraining("ready")
  /\ Begun
  /\ UNCHANGED source

\* The stage calls before the next ctx.check_cancel(), or before the end.
SplatLeft ==
  CASE splat.at \in {"resolved", "previewing", "writing_compressed"} -> 1
    [] splat.at = "writing_cameras" -> 2
    [] splat.at = "writing_splat" -> 3
    [] OTHER -> 0

-----------------------------------------------------------------------------
(* Others *)

AskSplatStop == splat.at \notin {"asking", "ended"} /\ Request /\ UNCHANGED <<source, splat>>

\* delete_job of the source: its row goes, then its tree, file by file.
DropSourceRow ==
  /\ source.row /\ splat.at # "ended"
  /\ source' = [source EXCEPT !.row = FALSE]
  /\ UNCHANGED <<splat, ctxVars>>

DropSourceFile ==
  /\ ~source.row /\ splat.at # "ended"
  /\ \/ \E f \in source.files : source' = [source EXCEPT !.files = @ \ {f}]
     \/ \E p \in source.photos : source' = [source EXCEPT !.photos = @ \ {p}]
  /\ UNCHANGED <<splat, ctxVars>>

SplatNext ==
  \/ AskSplat \/ ResolveAgain \/ TrainerUnavailable \/ Prepare
  \/ TrainStep \/ Preview \/ LeaveTraining \/ WriteSplat \/ WriteCameras \/ WriteCompressed
  \/ AskSplatStop \/ DropSourceRow \/ DropSourceFile

SplatSpec == SplatInit /\ [][SplatNext]_splatVars

-----------------------------------------------------------------------------
SplatTypeOK ==
  /\ splat.at \in {"asking", "queued", "resolved", "training", "previewing",
                   "writing_splat", "writing_cameras", "writing_compressed", "ended"}
  /\ splat.outcome \in {"none", "refused", "failed", "cancelled", "ready"}
  /\ splat.it \in 0 .. Iterations /\ splat.version \in 0 .. Iterations /\ splat.n \in Nat
  /\ CtxTypeOK

\* What the page is shown and what the job exports are the parameters as of the
\* step they are labelled with, never those an earlier preview left in the cache
\* (GsplatCudaTrainer.state); a preview never exceeds its cap, and the export is
\* whole.
SplatIsCurrent ==
  /\ splat.shown.version = splat.shown.it
  /\ PreviewCap > 0 => splat.shown.n <= PreviewCap
  /\ splat.outcome = "ready" =>
       splat.final = [it |-> Iterations, version |-> splat.version, n |-> splat.n]
=============================================================================
