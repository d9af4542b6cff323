------------------------------ MODULE JobFiles ------------------------------
(***************************************************************************)
(* The files of a job on both sides of its run: the uploads it is made     *)
(* from (JobUploads) and the artifacts that are edited after it            *)
(* (MeshEdits).  The two share no state, so a behaviour is one or the      *)
(* other: `part` says which.                                               *)
(***************************************************************************)
EXTENDS JobUploads, MeshEdits

VARIABLE part

fileVars == <<part, uploadVars, editVars>>

Init == part \in {"uploads", "artifacts"} /\ UploadsInit /\ EditsInit

Next ==
  \/ part = "uploads" /\ UploadsNext /\ UNCHANGED <<part, editVars>>
  \/ part = "artifacts" /\ EditsNext /\ UNCHANGED <<part, uploadVars>>

Spec == Init /\ [][Next]_fileVars
=============================================================================
