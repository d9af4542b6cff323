----------------------------- MODULE ClipIngest -----------------------------
(***************************************************************************)
(* From uploads to numbered frames: concat_videos_to_frames                *)
(* (worker/app/pipeline/ingest.py), the filters that rewrite the frames in *)
(* place (pipeline/preproc.py, pipeline/fpv_filters) and the scores the    *)
(* frame gate reads.  Pixels are not modelled: a frame is the video and    *)
(* the place it comes from, an edition counts the passes that rewrote the  *)
(* frames, and sharpness has two levels.  The ingest never looks at the    *)
(* job's cancel token.                                                     *)
(***************************************************************************)
EXTENDS JobContext, Integers, Sequences, FiniteSets, Functions

CONSTANTS
  Uploads,   \* sequences of video lengths, in frames
  Captures,  \* numbers of frames a capture may leave
  Filters    \* sets of filters a job may switch on

\* The threads of the filters, in their order, and the filter each is of.
Passes == <<"mask", "inpaint", "normalise", "estimate", "warp", "sharpen", "score">>
FilterOf == <<"osd", "osd", "color_norm", "rs_correction", "rs_correction", "deblur",
              "keyframe_score">>

ASSUME IngestAssumption ==
  /\ Uploads \subseteq Seq(Nat) /\ Captures \subseteq Nat \ {0}
  /\ Filters \subseteq SUBSET {FilterOf[i] : i \in DOMAIN Passes}

VARIABLE clip  \* the job's uploads, the frames made of them, and their scores

Frames(n) == 0 .. (n - 1)

\* The i-th smallest member of a set of numbers, and a list cut down to the
\* positions in such a set.
Nth(K, i) == CHOOSE k \in K : Cardinality({j \in K : j <= k}) = i
Picked(s, K) == [i \in 1 .. Cardinality(K) |-> s[Nth(K, i)]]

Place(video, k) == [video |-> video, at |-> k]
FramesOf(videos, v) == [k \in 1 .. videos[v] |-> Place(v, k)]
Earlier(a, b) == a.video < b.video \/ (a.video = b.video /\ a.at < b.at)

\* All the frames of the first `done` videos, each once, one video after the other.
Places(videos, done) == UNION {Range(FramesOf(videos, v)) : v \in 1 .. done}
InOrder(frames, videos, done) ==
  /\ Range(frames) = Places(videos, done)
  /\ \A i, j \in DOMAIN frames : i < j => Earlier(frames[i], frames[j])

\* At most one frame does not decode, and every third or all frames are sharp.
\* A capture left its frames where the ingest would put them.
Clips ==
  (UNION {LET n == Cardinality(Places(videos, Len(videos))) IN
           [videos : {videos}, captured : {FALSE}, frames : {<<>>}, done : {0},
            bad : {{}} \cup {{f} : f \in Frames(n)},
            sharp : {Frames(n), {f \in Frames(n) : f % 3 = 2}},
            pending : {{i \in DOMAIN Passes : FilterOf[i] \in on} : on \in Filters},
            edition : {1}, scored : {0}]
          : videos \in Uploads})
  \cup
  (UNION {[videos : {<<n>>}, captured : {TRUE}, frames : {FramesOf(<<n>>, 1)}, done : {1},
           bad : {{}} \cup {{f} : f \in Frames(n)}, sharp : {{}}, pending : {{}},
           edition : {1}, scored : {0}]
          : n \in Captures})

ClipInit == clip \in Clips

\* ffmpeg writes a video's frames into a directory of its own, from where they
\* are moved to the next free numbers.
ExtractVideo ==
  /\ clip.done < Len(clip.videos)
  /\ LET v == clip.done + 1
     IN clip' = [clip EXCEPT !.done = v, !.frames = @ \o FramesOf(clip.videos, v)]
  /\ Begun

\* The filters that are on run in their order, pass by pass.
Filtering(pass) ==
  /\ clip.done = Len(clip.videos)
  /\ \E i \in clip.pending : Passes[i] = pass /\ \A j \in clip.pending : i <= j

Readable == Frames(Len(clip.frames)) \ clip.bad

\* A pass is over, or its filter with it.
Later == {i \in clip.pending : \E j \in clip.pending : j < i}
Without(filter) == [clip EXCEPT !.pending = {i \in @ : FilterOf[i] # filter}]
Skipped == [clip EXCEPT !.pending = Later]

\* Every readable frame is rewritten in place, under its own number.
Rewritten == [clip EXCEPT !.pending = Later, !.edition = @ + 1]

\* A filter with no frames to work on returns at once; a pass is one thread.
NoFrames(filter) == clip.frames = <<>> /\ clip' = Without(filter) /\ UNCHANGED ctxVars
OnFrames(clips) == clip.frames # <<>> /\ clip' \in clips /\ Begun

\* The overlay's mask needs three readable samples, and may be empty: then there
\* is nothing to inpaint.
FindOverlay ==
  /\ Filtering("mask")
  /\ \/ NoFrames("osd")
     \/ OnFrames({Without("osd")} \cup (IF Cardinality(Readable) >= 3 THEN {Skipped} ELSE {}))

InpaintOverlay == Filtering("inpaint") /\ OnFrames({Rewritten})

NormaliseColour == Filtering("normalise") /\ (NoFrames("color_norm") \/ OnFrames({Rewritten}))

\* The shear is the user's, or is estimated; one too small, or one that no pair
\* of frames gave, warps nothing.
EstimateShear ==
  /\ Filtering("estimate")
  /\ \/ NoFrames("rs_correction")
     \/ clip.frames # <<>> /\ clip' \in {Skipped, Without("rs_correction")} /\ UNCHANGED ctxVars
     \/ OnFrames({Skipped, Without("rs_correction")})

CorrectShear == Filtering("warp") /\ OnFrames({Rewritten})

\* Frames below the gate are sharpened: none, or all that were not sharp.
Deblur ==
  /\ Filtering("sharpen")
  /\ \/ NoFrames("deblur")
     \/ OnFrames({Skipped}
                 \cup (IF Readable # {} THEN {[Rewritten EXCEPT !.sharp = Readable]} ELSE {}))

\* The scores are of the frames as they are now; the file is made even for none.
ScoreFrames ==
  /\ Filtering("score")
  /\ clip' = [Skipped EXCEPT !.scored = clip.edition]
  /\ IF clip.frames = <<>> THEN UNCHANGED ctxVars ELSE Begun

IngestStep ==
  \/ ExtractVideo
  \/ FindOverlay \/ InpaintOverlay \/ NormaliseColour \/ EstimateShear \/ CorrectShear
  \/ Deblur \/ ScoreFrames

Ingested == clip.done = Len(clip.videos) /\ clip.pending = {}

\* ffmpeg or a thread of it raises, or the ingest does between two of them.
IngestFails ==
  /\ ~clip.captured
  /\ (~Ingested /\ Begun) \/ UNCHANGED ctxVars
  /\ UNCHANGED clip

\* The subprocesses and threads it has still to start.
IngestLeft == Len(clip.videos) - clip.done + Cardinality(clip.pending)

\* The frames are numbered video by video in their own order, and the scores the
\* gate goes by are of the very frames the tracker is given.
FramesReady ==
  /\ InOrder(clip.frames, clip.videos, Len(clip.videos))
  /\ clip.scored \in {0, clip.edition}
=============================================================================
