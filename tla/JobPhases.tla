----------------------------- MODULE JobPhases -----------------------------
(***************************************************************************)
(* What a job promises whoever watches it: it is queued, it runs, it ends  *)
(* once and for good; it ends as cancelled only when somebody asked; it is *)
(* ready only with its artifacts recorded and no error text; and its event *)
(* stream is closed only after the end.                                    *)
(***************************************************************************)
CONSTANT Terminal

VARIABLES
  phase,   \* "queued", "working" or a terminal status
  asked,   \* somebody asked for the job to stop
  clean,   \* artifacts recorded and no error text
  closed   \* the event stream is closed

vars == <<phase, asked, clean, closed>>

Init == phase = "queued" /\ ~asked /\ ~clean /\ ~closed

Ask == asked' = TRUE /\ UNCHANGED <<phase, clean, closed>>

Work == phase = "queued" /\ phase' = "working" /\ UNCHANGED <<asked, clean, closed>>

\* Artifacts are recorded, or an error text is noted, while the job runs.
Note == phase \notin Terminal /\ clean' \in BOOLEAN /\ UNCHANGED <<phase, asked, closed>>

\* The sweep ends a job and notes the error in one write.
End(s) ==
  /\ phase \notin Terminal
  /\ s = "cancelled" => asked
  /\ s = "ready" => clean
  /\ phase' = s
  /\ clean' = (s = "ready")
  /\ UNCHANGED <<asked, closed>>

Close == phase \in Terminal /\ closed' = TRUE /\ UNCHANGED <<phase, asked, clean>>

Next == Ask \/ Work \/ Note \/ (\E s \in Terminal : End(s)) \/ Close

Spec == Init /\ [][Next]_vars
=============================================================================
