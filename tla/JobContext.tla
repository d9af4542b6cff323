---------------------------- MODULE JobContext ----------------------------
(***************************************************************************)
(* What run_job hands every processor and this model keeps of it: the      *)
(* cancel token (worker/app/jobs/cancel.py), which somebody may set at any *)
(* time, and a count of the work begun in spite of it.  The processors     *)
(* (SlamRun, SplatRun, LingbotRun) all run under it.                       *)
(*                                                                         *)
(* A stage call is one awaited thread or subprocess, a download among      *)
(* them, one forward of a model, or the start of a snapshot thread.        *)
(* Between two of them the run may look at its token, and need not.        *)
(***************************************************************************)
EXTENDS Naturals

VARIABLES
  asked,  \* the cancel token is set
  late    \* stage calls begun since it was

ctxVars == <<asked, late>>

CtxInit == asked = FALSE /\ late = 0

\* CancelToken.request; the first request stays.
Request == ~asked /\ asked' = TRUE /\ UNCHANGED late

\* One stage call begins, whether or not a stop was asked for.
Begun == late' = (IF asked THEN late + 1 ELSE late) /\ UNCHANGED asked

\* ctx.check_cancel() raises, or the run goes on.
RaiseOr(go, stop) == (IF asked THEN stop ELSE go) /\ UNCHANGED ctxVars

CtxTypeOK == asked \in BOOLEAN /\ late \in Nat
=============================================================================
