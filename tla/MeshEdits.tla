----------------------------- MODULE MeshEdits -----------------------------
(***************************************************************************)
(* The artifacts of one job: the files of its artifacts directory and the  *)
(* list its row keeps, under POST /mesh/edit and POST /reexport            *)
(* (worker/app/main.py, worker/app/mesh/ops.py, worker/app/mesh/io.py),    *)
(* the run that writes the first of them, and the job's deletion.          *)
(*                                                                         *)
(* A handler reads the row's list, hands the work to a thread, and writes  *)
(* back what it read with one name more; the threads of two handlers       *)
(* interleave file operation by file operation.  Revision n is the file    *)
(* rev_n.glb; 0 is the mesh the run itself exported, and the last number   *)
(* is the one name a re-export writes.                                     *)
(***************************************************************************)
EXTENDS Naturals, FiniteSets

CONSTANTS
  Editors,  \* mesh edits that may be under way at once
  MaxRev    \* bound on revisions

ASSUME EditsAssumption == MaxRev \in Nat

VARIABLES
  exists,  \* the row is there
  listed,  \* its artifact list
  folder,  \* the artifacts directory is there
  meshes,  \* what each .glb holds: nothing, half a file, or the mesh somebody made
  scratch, \* what each rev_n.tmp.ply holds
  edit,    \* per editor: where it is, its revision, the list it read, the mesh it has in memory
  export,  \* where the re-export is, and the list it read
  running  \* the job's own run has not ended

editVars == <<exists, listed, folder, meshes, scratch, edit, export, running>>

Revisions == 1 .. MaxRev
Reexport == MaxRev + 1
Names == 0 .. Reexport
Nothing == "nothing"
Half == "half"
TheRun == "the run"
Contents == Editors \cup {Nothing, Half, TheRun}

NoEdit == [at |-> "idle", rev |-> 0, seen |-> {}, holds |-> Nothing]
EditAt == {"idle", "asked", "made", "numbered", "saved", "loaded", "exporting", "exported", "read"}
Edit == [at : EditAt, rev : 0 .. MaxRev, seen : SUBSET Names, holds : Editors \cup {Nothing}]
NoExport == [at |-> "idle", seen |-> {}]
Export == [at : {"idle", "asked", "exporting", "exported"}, seen : SUBSET Names]

EditsInit ==
  /\ exists = TRUE /\ listed = {} /\ folder = TRUE
  /\ meshes = [n \in Names |-> Nothing]
  /\ scratch = [n \in Revisions |-> Nothing]
  /\ edit = [e \in Editors |-> NoEdit]
  /\ export = NoExport
  /\ running = TRUE

OnDisk == {n \in Names : meshes[n] # Nothing}

\* Mutant: the next revision is the number of revisions the row lists, plus one.
ListedNext == 1 + Cardinality(listed \cap Revisions)

\* next_revision: one more than the highest rev_N.glb, 1 when there is none.
NextRevision ==
  CHOOSE n \in 1 .. Reexport :
    /\ \A r \in Revisions : r >= n => meshes[r] = Nothing
    /\ n = 1 \/ meshes[n - 1] # Nothing

\* apply_op raises: the handler publishes an error and answers 500.
EditFails(e) == edit' = [edit EXCEPT ![e] = NoEdit]

EditGoes(e, at) == edit' = [edit EXCEPT ![e].at = at]

Write(n, content) == meshes' = [meshes EXCEPT ![n] = content]

-----------------------------------------------------------------------------
(* POST /api/jobs/{id}/mesh/edit *)

AskEdit(e) ==
  /\ edit[e].at = "idle" /\ exists
  /\ edit' = [edit EXCEPT ![e] = [NoEdit EXCEPT !.at = "asked", !.seen = listed]]
  /\ UNCHANGED <<exists, listed, folder, meshes, scratch, export, running>>

\* The thread reads a revision (the latest, or the one the request names) or the
\* run's own mesh or points, and applies the operation in memory.  Half a file
\* may load or may not.
MakeMesh(e) ==
  /\ edit[e].at = "asked"
  /\ \/ \E n \in OnDisk \ {Reexport} : EditGoes(e, "made")
     \/ (\A n \in 0 .. MaxRev : meshes[n] \in {Nothing, Half}) /\ EditFails(e)
  /\ UNCHANGED <<exists, listed, folder, meshes, scratch, export, running>>

TakeNumber(e) ==
  /\ edit[e].at = "made" /\ NextRevision \in Revisions
  /\ edit' = [edit EXCEPT ![e].at = "numbered", ![e].rev = NextRevision]
  /\ UNCHANGED <<exists, listed, folder, meshes, scratch, export, running>>

\* _export_glb: save a temporary .ply named after the revision ...
SaveScratch(e) ==
  /\ edit[e].at = "numbered"
  /\ IF folder
       THEN scratch' = [scratch EXCEPT ![edit[e].rev] = e] /\ EditGoes(e, "saved")
       ELSE EditFails(e) /\ UNCHANGED scratch
  /\ UNCHANGED <<exists, listed, folder, meshes, export, running>>

\* ... load it back ...
LoadScratch(e) ==
  /\ edit[e].at = "saved"
  /\ IF scratch[edit[e].rev] = Nothing
       THEN EditFails(e)
       ELSE edit' = [edit EXCEPT ![e].at = "loaded", ![e].holds = scratch[edit[e].rev]]
  /\ UNCHANGED <<exists, listed, folder, meshes, scratch, export, running>>

\* Mutant: the artifact is recorded before the file is written.
RecordEarly(e) ==
  /\ edit[e].at = "loaded"
  /\ scratch' = [scratch EXCEPT ![edit[e].rev] = Nothing]
  /\ EditGoes(e, "read")
  /\ UNCHANGED <<exists, listed, folder, meshes, export, running>>

\* ... unlink it (missing_ok) and open the .glb ...
OpenRevision(e) ==
  /\ edit[e].at = "loaded"
  /\ scratch' = [scratch EXCEPT ![edit[e].rev] = Nothing]
  /\ IF folder
       THEN Write(edit[e].rev, Half) /\ EditGoes(e, "exporting")
       ELSE EditFails(e) /\ UNCHANGED meshes
  /\ UNCHANGED <<exists, listed, folder, export, running>>

\* ... and write it, unless the directory has gone with the file in it.
WriteRevision(e) ==
  /\ edit[e].at = "exporting"
  /\ IF meshes[edit[e].rev] = Nothing THEN UNCHANGED meshes
                                      ELSE Write(edit[e].rev, edit[e].holds)
  /\ EditGoes(e, "exported")
  /\ UNCHANGED <<exists, listed, folder, scratch, export, running>>

\* mesh_summary and stat: the file may be gone, or half written by another edit.
Summarise(e) ==
  /\ edit[e].at = "exported"
  /\ IF meshes[edit[e].rev] \in {Nothing, Half} THEN EditFails(e) ELSE EditGoes(e, "read")
  /\ UNCHANGED <<exists, listed, folder, meshes, scratch, export, running>>

\* update_job(artifacts = what the handler read, and one more).
RecordEdit(e) ==
  /\ edit[e].at = "read"
  /\ listed' = IF exists THEN edit[e].seen \cup {edit[e].rev} ELSE listed
  /\ edit' = [edit EXCEPT ![e] = NoEdit]
  /\ UNCHANGED <<exists, folder, meshes, scratch, export, running>>

-----------------------------------------------------------------------------
(* POST /api/jobs/{id}/reexport *)

\* The predictions are the run's: without them the answer is 409.  The
\* directory is made, again if need be, before the thread starts.
AskReexport ==
  /\ export.at = "idle" /\ exists /\ meshes[0] # Nothing
  /\ export' = [at |-> "asked", seen |-> listed]
  /\ UNCHANGED <<exists, listed, folder, meshes, scratch, edit, running>>

OpenReexport ==
  /\ export.at = "asked"
  /\ folder' = TRUE
  /\ Write(Reexport, Half)
  /\ export' = [export EXCEPT !.at = "exporting"]
  /\ UNCHANGED <<exists, listed, scratch, edit, running>>

WriteReexport ==
  /\ export.at = "exporting"
  /\ IF meshes[Reexport] = Nothing THEN UNCHANGED meshes ELSE Write(Reexport, TheRun)
  /\ export' = [export EXCEPT !.at = "exported"]
  /\ UNCHANGED <<exists, listed, folder, scratch, edit, running>>

\* stat() raises when the file has gone.
RecordReexport ==
  /\ export.at = "exported"
  /\ listed' = IF exists /\ meshes[Reexport] # Nothing THEN export.seen \cup {Reexport} ELSE listed
  /\ export' = NoExport
  /\ UNCHANGED <<exists, folder, meshes, scratch, edit, running>>

-----------------------------------------------------------------------------
(* The job's run, and its deletion *)

\* A processor's export, whose files an edit may already read ...
RunExports ==
  /\ running /\ meshes[0] = Nothing /\ folder
  /\ Write(0, TheRun)
  /\ UNCHANGED <<exists, listed, folder, scratch, edit, export, running>>

\* ... and the runner's update_job: the processor's own list replaces the row's.
RunRecords ==
  /\ running /\ (meshes[0] # Nothing \/ ~exists)
  /\ listed' = IF exists THEN {0} ELSE listed
  /\ running' = FALSE
  /\ UNCHANGED <<exists, folder, meshes, scratch, edit, export>>

DropJob ==
  /\ exists
  /\ exists' = FALSE /\ listed' = {}
  /\ UNCHANGED <<folder, meshes, scratch, edit, export, running>>

\* rmtree, after the await.
DropFolder ==
  /\ ~exists /\ folder
  /\ folder' = FALSE
  /\ meshes' = [n \in Names |-> Nothing]
  /\ scratch' = [n \in Revisions |-> Nothing]
  /\ UNCHANGED <<exists, listed, edit, export, running>>

EditsNext ==
  \/ \E e \in Editors :
       \/ AskEdit(e) \/ MakeMesh(e) \/ TakeNumber(e) \/ SaveScratch(e) \/ LoadScratch(e)
       \/ OpenRevision(e) \/ WriteRevision(e) \/ Summarise(e) \/ RecordEdit(e)
  \/ AskReexport \/ OpenReexport \/ WriteReexport \/ RecordReexport
  \/ RunExports \/ RunRecords \/ DropJob \/ DropFolder

EditsSpec == EditsInit /\ [][EditsNext]_editVars

-----------------------------------------------------------------------------
EditsTypeOK ==
  /\ exists \in BOOLEAN /\ folder \in BOOLEAN /\ running \in BOOLEAN
  /\ listed \subseteq Names
  /\ meshes \in [Names -> Contents]
  /\ scratch \in [Revisions -> Editors \cup {Nothing}]
  /\ edit \in [Editors -> Edit]
  /\ export \in Export

\* Whatever two edits, a re-export and the run write over each other, every
\* artifact the row lists is a file the viewer can fetch.
ListedOnDisk == exists => listed \subseteq OnDisk

\* A revision that the row lists is written over only by an edit that was asked
\* for before the row listed it, so that two edits of which the second is asked
\* for when the first is recorded never meet in one file: the list may lose
\* entries to a handler that read it earlier, or to the run's own, but the next
\* number is taken from the directory.  (Edits that overlap may take one number.)
ListedNotOverwritten ==
  [][\A n \in listed \cap Revisions :
       meshes'[n] # meshes[n] /\ exists' =>
         \E e \in Editors : edit[e].rev = n /\ n \notin edit[e].seen]_editVars
=============================================================================
