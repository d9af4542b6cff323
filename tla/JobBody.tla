------------------------------ MODULE JobBody ------------------------------
(***************************************************************************)
(* What run_job relies on while it awaits processor.run                    *)
(* (worker/app/jobs/runner.py), and JobLifecycle takes a processor for     *)
(* between Start and its return: it returns once, raises JobCancelled only *)
(* when the token is set, returns only with its artifacts, and begins      *)
(* nothing after its end.  It looks at the token now and then only: once   *)
(* it is told to stop, the stage calls it had still to make before its     *)
(* next look are all it makes, however they end.                           *)
(***************************************************************************)
EXTENDS Naturals

VARIABLES
  asked,   \* the cancel token is set
  begun,   \* stage calls begun since it was
  left,    \* stage calls that may begin before the run looks at its token
  outcome  \* "none" while it runs, then how it ended

vars == <<asked, begun, left, outcome>>

Init == ~asked /\ begun = 0 /\ left \in Nat /\ outcome = "none"

Ask == outcome = "none" /\ ~asked /\ asked' = TRUE /\ UNCHANGED <<begun, left, outcome>>

\* It goes on, or ends.
Outcomes == {"none", "ready", "failed"} \cup (IF asked THEN {"cancelled"} ELSE {})

\* Once it was asked, a call it begins is one of those that were left.
Work ==
  /\ outcome = "none" /\ outcome' \in Outcomes
  /\ left' \in Nat
  /\ IF asked THEN begun' \in {begun, begun + 1} /\ begun' + left' <= begun + left
              ELSE UNCHANGED begun
  /\ UNCHANGED asked

Next == Ask \/ Work

Spec == Init /\ [][Next]_vars
=============================================================================
