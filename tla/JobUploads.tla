----------------------------- MODULE JobUploads -----------------------------
(***************************************************************************)
(* How videos become a job: POST /api/drafts (worker/app/main.py,          *)
(* worker/app/jobs/drafts.py), POST /api/jobs with a draft or with files,  *)
(* POST /api/jobs/{id}/restart and DELETE /api/jobs/{id}.                  *)
(*                                                                         *)
(* Every handler runs on the API's event loop: what lies between two       *)
(* awaits is one step, and any other handler may run at an await.  A video *)
(* is written to the name safe_filename makes of its own: two videos may   *)
(* have one name, and then the second is written over the first.  A        *)
(* directory is the set of the videos whose content its files hold.        *)
(* What becomes of a row once it is there is module JobLifecycle.          *)
(***************************************************************************)
EXTENDS Naturals, FiniteSets

CONSTANTS
  Videos,    \* the videos one user uploads
  FileName,  \* safe_filename: the name a video is written to
  JobIds     \* job ids the API hands out

ASSUME UploadsAssumption == IsFiniteSet(Videos) /\ Videos # {}

VARIABLES
  draft,   \* the draft's directory: there or not, files, probe.json, older than the TTL
  upload,  \* where POST /api/drafts is
  saving,  \* the videos it has still to write
  jobs,    \* per job: its row, the uploads the row names, the files in its directory,
           \* and whether they are the draft's own
  request  \* per job: where the handler that makes it is, what it does next, and the
           \* uploads it has listed (saved_names)

uploadVars == <<draft, upload, saving, jobs, request>>

FileNames == {FileName[v] : v \in Videos}
NamesOf(files) == {FileName[v] : v \in files}

\* A list of uploads is how often each name is in it.
NoNames == [n \in FileNames |-> 0]
Once(names) == [n \in FileNames |-> IF n \in names THEN 1 ELSE 0]
Listed(list) == {n \in FileNames : list[n] > 0}
Lists == [FileNames -> Nat]

\* open("wb"): the file of that name is the new video's.
Written(files, v) == {u \in files : FileName[u] # FileName[v]} \cup {v}

NoDraft == [dir |-> FALSE, files |-> {}, probed |-> FALSE, old |-> FALSE]
NoJob == [row |-> "none", names |-> NoNames, disk |-> {}, draft |-> FALSE]
NoRequest == [at |-> "none", todo |-> {}, names |-> NoNames, source |-> 0]

Draft == [dir : BOOLEAN, files : SUBSET Videos, probed : BOOLEAN, old : BOOLEAN]
JobFiles == [row : {"none", "queued", "deleted"}, names : Lists, disk : SUBSET Videos,
             draft : BOOLEAN]
Request == [at : {"none", "files", "copy", "insert", "ended"},
            todo : SUBSET Videos, names : Lists, source : JobIds \cup {0}]

UploadsInit ==
  /\ draft = NoDraft /\ upload = "idle" /\ saving = {}
  /\ jobs = [j \in JobIds |-> NoJob]
  /\ request = [j \in JobIds |-> NoRequest]

Exists(j) == jobs[j].row = "queued"

-----------------------------------------------------------------------------
(* POST /api/drafts *)

BeginDraft ==
  /\ upload = "idle"
  /\ draft' = [NoDraft EXCEPT !.dir = TRUE]
  /\ upload' = "files" /\ saving' = Videos
  /\ UNCHANGED <<jobs, request>>

\* One file of the form, chunk by chunk; opening it raises when the directory
\* has been swept away, and the request ends with a 500.
SaveVideo ==
  /\ upload = "files"
  /\ \E v \in saving :
       IF draft.dir
         THEN /\ draft' = [draft EXCEPT !.files = Written(@, v)]
              /\ saving' = saving \ {v}
              /\ upload' = IF saving = {v} THEN "probes" ELSE "files"
         ELSE upload' = "ended" /\ saving' = {} /\ UNCHANGED draft
  /\ UNCHANGED <<jobs, request>>

\* Every probe has been awaited (one that fails is recorded as an error):
\* save_draft writes probe.json, which needs the directory too.
SaveDraft ==
  /\ upload = "probes"
  /\ draft' = IF draft.dir THEN [draft EXCEPT !.probed = TRUE, !.old = FALSE] ELSE draft
  /\ upload' = "ended"
  /\ UNCHANGED <<saving, jobs, request>>

DraftExpires ==
  /\ draft.dir /\ draft' = [draft EXCEPT !.old = TRUE]
  /\ UNCHANGED <<upload, saving, jobs, request>>

\* sweep_expired, at the head of some other POST /api/drafts.  A draft that is
\* still being uploaded has no probe.json: its age is that of its directory.
Sweep ==
  /\ draft.dir /\ draft.old
  /\ draft' = NoDraft
  /\ UNCHANGED <<upload, saving, jobs, request>>

\* DELETE /api/drafts/{id}: the user has the id once the upload is answered.
DropDraft ==
  /\ upload = "ended" /\ draft.dir
  /\ draft' = NoDraft
  /\ UNCHANGED <<upload, saving, jobs, request>>

-----------------------------------------------------------------------------
(* POST /api/jobs and POST /api/jobs/{id}/restart *)

\* A job's directory holds files, the handler has listed names; the row is
\* inserted after an await.
Stage(j, files, names, taken) ==
  /\ jobs' = [jobs EXCEPT ![j].disk = files, ![j].draft = taken]
  /\ request' = [request EXCEPT ![j] = [NoRequest EXCEPT !.at = "insert", !.names = names]]

Refuse(j) ==
  /\ request' = [request EXCEPT ![j] = [NoRequest EXCEPT !.at = "ended"]]
  /\ UNCHANGED jobs

\* Mutant: the draft's files are copied and the draft is kept.
TakeCopy(j) ==
  /\ request[j].at = "none"
  /\ IF draft.dir /\ draft.probed /\ draft.files # {}
       THEN Stage(j, draft.files, Once(NamesOf(draft.files)), TRUE)
       ELSE Refuse(j)
  /\ UNCHANGED <<draft, upload, saving>>

\* draft_id: no await between load_draft and delete_draft; the directory is
\* listed, so a name is in the list once.
TakeDraft(j) ==
  /\ request[j].at = "none"
  /\ IF draft.dir /\ draft.probed /\ draft.files # {}
       THEN Stage(j, draft.files, Once(NamesOf(draft.files)), TRUE) /\ draft' = NoDraft
       ELSE Refuse(j) /\ UNCHANGED draft
  /\ UNCHANGED <<upload, saving>>

\* videos: every chunk is awaited.
BeginJob(j) ==
  /\ request[j].at = "none"
  /\ request' = [request EXCEPT ![j] = [NoRequest EXCEPT !.at = "files", !.todo = Videos]]
  /\ UNCHANGED <<draft, upload, saving, jobs>>

\* A name is listed once for every video that has it, whatever it overwrote.
SaveJobVideo(j) ==
  /\ request[j].at = "files"
  /\ \E v \in request[j].todo :
       /\ jobs' = [jobs EXCEPT ![j].disk = Written(@, v)]
       /\ request' = [request EXCEPT ![j].todo = @ \ {v}, ![j].names[FileName[v]] = @ + 1,
                        ![j].at = IF request[j].todo = {v} THEN "insert" ELSE "files"]
  /\ UNCHANGED <<draft, upload, saving>>

\* restart: the row is read before an await ...
ReadOld(j, old) ==
  /\ request[j].at = "none" /\ Exists(old)
  /\ request' = [request EXCEPT ![j] = [at |-> "copy", todo |-> {}, names |-> jobs[old].names, source |-> old]]
  /\ UNCHANGED <<draft, upload, saving, jobs>>

\* The files of the old job whose names the request has read.
Wanted(j) == {v \in jobs[request[j].source].disk : FileName[v] \in Listed(request[j].names)}

\* Mutant: what is there is copied, a missing upload is passed over.
CopyPresent(j) ==
  /\ request[j].at = "copy"
  /\ Stage(j, Wanted(j), [n \in FileNames |-> IF n \in NamesOf(Wanted(j)) THEN request[j].names[n] ELSE 0],
           FALSE)
  /\ UNCHANGED <<draft, upload, saving>>

\* ... and its uploads are copied after it, name by name as they are listed, up
\* to the first that is missing (409).
CopyOld(j) ==
  /\ request[j].at = "copy"
  /\ IF Listed(request[j].names) \subseteq NamesOf(Wanted(j))
       THEN Stage(j, Wanted(j), request[j].names, FALSE)
       ELSE \E part \in SUBSET Wanted(j) :
              /\ jobs' = [jobs EXCEPT ![j].disk = part]
              /\ request' = [request EXCEPT ![j] = [NoRequest EXCEPT !.at = "ended"]]
  /\ UNCHANGED <<draft, upload, saving>>

\* store.create_job: the row has the list the handler made.
InsertRow(j) ==
  /\ request[j].at = "insert"
  /\ jobs' = [jobs EXCEPT ![j].row = "queued", ![j].names = request[j].names]
  /\ request' = [request EXCEPT ![j].at = "ended"]
  /\ UNCHANGED <<draft, upload, saving>>

-----------------------------------------------------------------------------
(* DELETE /api/jobs/{id} *)

\* The row goes first ...
DropRow(j) ==
  /\ Exists(j)
  /\ jobs' = [jobs EXCEPT ![j].row = "deleted", ![j].names = NoNames]
  /\ UNCHANGED <<draft, upload, saving, request>>

\* ... and the directory after the await.
DropTree(j) ==
  /\ jobs[j].row = "deleted" /\ jobs[j].disk # {}
  /\ jobs' = [jobs EXCEPT ![j].disk = {}]
  /\ UNCHANGED <<draft, upload, saving, request>>

UploadsNext ==
  \/ BeginDraft \/ SaveVideo \/ SaveDraft \/ DraftExpires \/ Sweep \/ DropDraft
  \/ \E j \in JobIds :
       \/ TakeDraft(j) \/ BeginJob(j) \/ SaveJobVideo(j) \/ CopyOld(j) \/ InsertRow(j)
       \/ DropRow(j) \/ DropTree(j)
       \/ \E old \in JobIds \ {j} : ReadOld(j, old)

UploadsSpec == UploadsInit /\ [][UploadsNext]_uploadVars

-----------------------------------------------------------------------------
UploadsTypeOK ==
  /\ draft \in Draft
  /\ upload \in {"idle", "files", "probes", "ended"} /\ saving \subseteq Videos
  /\ jobs \in [JobIds -> JobFiles]
  /\ request \in [JobIds -> Request]

\* Every row lists the name of each video that was uploaded for it, and a file of
\* that name is in its directory: no worker can claim a job whose ingest, or
\* whose restart, will not find what the row lists, whichever way the job was
\* made and whatever was swept, dropped, taken by another submission or deleted
\* while its handler was at an await.  A video that shares its name with no other
\* is there itself; of those that share one, one of them is.
RowsHaveUploads ==
  \A j \in JobIds : Exists(j) =>
    \A v \in Videos :
      /\ FileName[v] \in Listed(jobs[j].names)
      /\ \E u \in jobs[j].disk : FileName[u] = FileName[v]

\* A draft's videos are in one place: two submissions of one draft do not both
\* become jobs, and no draft is left beside the job that was made from it.
DraftTakenOnce ==
  \A j \in JobIds :
    jobs[j].draft => ~draft.dir /\ \A k \in JobIds \ {j} : ~jobs[k].draft
=============================================================================
