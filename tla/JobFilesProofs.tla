--------------------------- MODULE JobFilesProofs ---------------------------
(***************************************************************************)
(* Theorems about JobFiles, for any number of videos, jobs, edits and      *)
(* revisions.                                                              *)
(***************************************************************************)
EXTENDS JobFiles, FiniteSetTheorems, WellFoundedInduction, TLAPS

-----------------------------------------------------------------------------
(* Uploads *)

\* The files of a directory have the names of those videos; so has a list.
Holds(files, videos) == NamesOf(files) = NamesOf(videos)
Has(list, videos) == Listed(list) = NamesOf(videos)

\* A draft that is complete, or about to be declared so, has every name.
DraftWhole ==
  /\ upload = "idle" => draft = NoDraft
  /\ upload = "files" => ~draft.probed /\ (draft.dir => Holds(draft.files, Videos \ saving))
  /\ upload = "probes" => ~draft.probed /\ (draft.dir => Holds(draft.files, Videos))
  /\ draft.dir /\ draft.probed => Holds(draft.files, Videos)

\* What a request has put into its job's directory, and listed, so far.
StagedSoFar ==
  \A j \in JobIds :
    /\ request[j].at # "ended" => jobs[j].row = "none"
    /\ request[j].at = "none" => jobs[j].disk = {}
    /\ request[j].at = "files" => /\ Holds(jobs[j].disk, Videos \ request[j].todo)
                                  /\ Has(request[j].names, Videos \ request[j].todo)
    /\ request[j].at = "copy" => Has(request[j].names, Videos)
    /\ request[j].at = "insert" => Holds(jobs[j].disk, Videos) /\ Has(request[j].names, Videos)

\* A row that is there has every name, and a file of it.
RowsWhole ==
  \A j \in JobIds : Exists(j) => Holds(jobs[j].disk, Videos) /\ Has(jobs[j].names, Videos)

\* Writing a video's file adds its name, whatever it is written over.
LEMMA WrittenNames ==
  ASSUME NEW files \in SUBSET Videos, NEW v \in Videos
  PROVE  Written(files, v) \in SUBSET Videos /\ NamesOf(Written(files, v)) = NamesOf(files) \cup {FileName[v]}
<1>1. Written(files, v) \in SUBSET Videos
  BY DEF Written
<1>2. NamesOf(Written(files, v)) \subseteq NamesOf(files) \cup {FileName[v]}
  BY DEF Written, NamesOf
<1>3. ASSUME NEW u \in files PROVE FileName[u] \in NamesOf(Written(files, v))
  <2>1. CASE FileName[u] = FileName[v]
    BY <2>1 DEF Written, NamesOf
  <2>2. CASE FileName[u] # FileName[v]
    BY <2>2 DEF Written, NamesOf
  <2> QED BY <2>1, <2>2
<1>4. FileName[v] \in NamesOf(Written(files, v))
  BY DEF Written, NamesOf
<1>5. NamesOf(files) \cup {FileName[v]} \subseteq NamesOf(Written(files, v))
  <2> HIDE DEF Written
  <2> QED BY <1>3, <1>4 DEF NamesOf
<1> QED BY <1>1, <1>2, <1>5

\* One video more is written and listed.
LEMMA OneMore ==
  ASSUME NEW todo \in SUBSET Videos, NEW v \in todo
  PROVE  /\ NamesOf(Videos \ (todo \ {v})) = NamesOf(Videos \ todo) \cup {FileName[v]}
         /\ todo = {v} => Videos \ (todo \ {v}) = Videos
<1>1. Videos \ (todo \ {v}) = (Videos \ todo) \cup {v}
  OBVIOUS
<1>2. \A S : NamesOf(S \cup {v}) = NamesOf(S) \cup {FileName[v]}
  BY DEF NamesOf
<1> QED BY <1>1, <1>2

LEMMA HoldsMore ==
  ASSUME NEW files \in SUBSET Videos, NEW todo \in SUBSET Videos, NEW v \in todo,
         Holds(files, Videos \ todo)
  PROVE  /\ Written(files, v) \in SUBSET Videos
         /\ Holds(Written(files, v), Videos \ (todo \ {v}))
         /\ todo = {v} => Holds(Written(files, v), Videos)
<1>1. v \in Videos
  OBVIOUS
<1>2. Holds(Written(files, v), Videos \ (todo \ {v}))
  <2>1. NamesOf(Written(files, v)) = NamesOf(files) \cup {FileName[v]}
    BY <1>1, WrittenNames
  <2>2. NamesOf(Videos \ (todo \ {v})) = NamesOf(Videos \ todo) \cup {FileName[v]}
    BY OneMore
  <2>3. NamesOf(files) = NamesOf(Videos \ todo)
    BY DEF Holds
  <2> QED BY ONLY <2>1, <2>2, <2>3 DEF Holds
<1>3. todo = {v} => Videos \ (todo \ {v}) = Videos
  BY OneMore
<1> QED BY <1>1, <1>2, <1>3, WrittenNames

Longer(list, v) == [list EXCEPT ![FileName[v]] = @ + 1]

LEMMA HasMore ==
  ASSUME NEW list \in Lists, NEW todo \in SUBSET Videos, NEW v \in todo,
         Has(list, Videos \ todo)
  PROVE  /\ Longer(list, v) \in Lists
         /\ Has(Longer(list, v), Videos \ (todo \ {v}))
         /\ todo = {v} => Has(Longer(list, v), Videos)
<1> DEFINE more == Longer(list, v)
<1>1. FileName[v] \in FileNames
  BY DEF FileNames
<1>2. more \in Lists
  BY <1>1 DEF Lists, Longer
<1>3. Listed(more) = Listed(list) \cup {FileName[v]}
  BY <1>1 DEF Lists, Listed, Longer
<1> HIDE DEF more
<1>4. Has(more, Videos \ (todo \ {v}))
  BY <1>3, OneMore DEF Has
<1>5. todo = {v} => Videos \ (todo \ {v}) = Videos
  BY OneMore
<1> QED BY <1>2, <1>4, <1>5 DEF more

LEMMA ListOnce ==
  ASSUME NEW files \in SUBSET Videos, Holds(files, Videos)
  PROVE  Once(NamesOf(files)) \in Lists /\ Has(Once(NamesOf(files)), Videos)
<1>1. NamesOf(files) = FileNames
  BY DEF Holds, NamesOf, FileNames
<1>2. Once(FileNames) \in Lists /\ Listed(Once(FileNames)) = FileNames
  BY DEF Once, Lists, Listed
<1> QED BY <1>1, <1>2 DEF Has, Holds

LEMMA NoNamesIsList == NoNames \in Lists /\ Listed(NoNames) = {}
BY DEF NoNames, Lists, Listed

\* Nothing is listed, and nothing is held, of no videos.
LEMMA NothingYet == Holds({}, Videos \ Videos) /\ Has(NoNames, Videos \ Videos)
<1>1. Videos \ Videos = {} /\ NamesOf({}) = {}
  BY DEF NamesOf
<1> QED BY <1>1, NoNamesIsList DEF Holds, Has

SourceIsJob == \A j \in JobIds : request[j].at = "copy" => request[j].source \in JobIds

TakenAtTheEnd == \A j \in JobIds : jobs[j].draft => upload = "ended"

UploadsInv ==
  UploadsTypeOK /\ DraftWhole /\ StagedSoFar /\ SourceIsJob /\ TakenAtTheEnd /\ RowsWhole
  /\ DraftTakenOnce

LEMMA UploadsInitInv == UploadsInit => UploadsInv
<1> SUFFICES ASSUME UploadsInit PROVE UploadsInv
  OBVIOUS
<1>1. UploadsTypeOK
  <2>1. NoDraft \in Draft /\ NoJob \in JobFiles /\ NoRequest \in Request
    BY NoNamesIsList DEF NoDraft, NoJob, NoRequest, Draft, JobFiles, Request
  <2> QED BY <2>1 DEF UploadsInit, UploadsTypeOK
<1>2. DraftWhole
  BY DEF UploadsInit, DraftWhole, NoDraft
<1>3. StagedSoFar /\ SourceIsJob /\ TakenAtTheEnd /\ RowsWhole /\ DraftTakenOnce
  BY DEF UploadsInit, StagedSoFar, SourceIsJob, TakenAtTheEnd, RowsWhole, DraftTakenOnce, Exists,
         NoJob, NoRequest
<1> QED BY <1>1, <1>2, <1>3 DEF UploadsInv

\* The draft's own steps leave the jobs alone, and make no draft of one that was
\* taken.
LEMMA DraftStep ==
  ASSUME UploadsInv,
         BeginDraft \/ SaveVideo \/ SaveDraft \/ DraftExpires \/ Sweep \/ DropDraft
  PROVE  UploadsInv'
<1>1. jobs' = jobs /\ request' = request
  BY DEF BeginDraft, SaveVideo, SaveDraft, DraftExpires, Sweep, DropDraft
<1>2. NoDraft \in Draft
  BY DEF NoDraft, Draft
<1> USE DEF UploadsInv
<1>3. draft' \in Draft /\ upload' \in {"idle", "files", "probes", "ended"} /\ saving' \subseteq Videos
  <2>1. CASE BeginDraft
    BY <1>2, <2>1 DEF BeginDraft, UploadsTypeOK, Draft
  <2>2. CASE SaveVideo
    BY <2>2, WrittenNames DEF SaveVideo, UploadsTypeOK, Draft
  <2>3. CASE SaveDraft
    BY <2>3 DEF SaveDraft, UploadsTypeOK, Draft
  <2>4. CASE DraftExpires \/ Sweep \/ DropDraft
    BY <1>2, <2>4 DEF DraftExpires, Sweep, DropDraft, UploadsTypeOK, Draft
  <2> QED BY <2>1, <2>2, <2>3, <2>4
<1>4. DraftWhole'
  <2>1. CASE BeginDraft
    BY <2>1, NothingYet DEF BeginDraft, DraftWhole, NoDraft
  <2>2. CASE SaveVideo
    <3>1. PICK v \in saving :
            IF draft.dir
              THEN /\ draft' = [draft EXCEPT !.files = Written(@, v)]
                   /\ saving' = saving \ {v}
                   /\ upload' = IF saving = {v} THEN "probes" ELSE "files"
              ELSE upload' = "ended" /\ saving' = {} /\ draft' = draft
      BY <2>2 DEF SaveVideo
    <3>2. upload = "files" /\ v \in Videos /\ saving \subseteq Videos
      BY <2>2, <3>1 DEF SaveVideo, UploadsTypeOK
    <3>3. CASE draft.dir
      <4>1. /\ draft'.dir = draft.dir /\ draft'.probed = draft.probed
            /\ draft'.files = Written(draft.files, v) /\ draft.files \in SUBSET Videos
        BY <3>1, <3>3 DEF UploadsTypeOK, Draft
      <4>2. Holds(draft.files, Videos \ saving) /\ ~draft.probed
        BY <3>2, <3>3 DEF DraftWhole
      <4>3. Holds(draft'.files, Videos \ (saving \ {v}))
        BY <3>2, <4>1, <4>2, HoldsMore
      <4>4. saving = {v} => Holds(draft'.files, Videos)
        BY <3>2, <4>1, <4>2, HoldsMore
      <4> QED BY <3>1, <3>3, <4>1, <4>2, <4>3, <4>4 DEF DraftWhole
    <3>4. CASE ~draft.dir
      BY <3>1, <3>4 DEF DraftWhole
    <3> QED BY <3>3, <3>4
  <2>3. CASE SaveDraft
    BY <2>3 DEF SaveDraft, DraftWhole, UploadsTypeOK, Draft
  <2>4. CASE DraftExpires
    <3>1. /\ draft'.dir = draft.dir /\ draft'.probed = draft.probed /\ draft'.files = draft.files
          /\ upload' = upload /\ saving' = saving /\ draft.dir
      BY <2>4 DEF DraftExpires, UploadsTypeOK, Draft
    <3>2. upload # "idle"
      BY <3>1 DEF DraftWhole, NoDraft
    <3> QED BY <3>1, <3>2 DEF DraftWhole
  <2>5. CASE Sweep \/ DropDraft
    BY <2>5 DEF Sweep, DropDraft, DraftWhole, NoDraft
  <2> QED BY <2>1, <2>2, <2>3, <2>4, <2>5
<1>5. draft'.dir => draft.dir \/ upload = "idle"
  BY DEF BeginDraft, SaveVideo, SaveDraft, DraftExpires, Sweep, DropDraft, UploadsTypeOK, Draft, NoDraft
<1>6. upload = "ended" => upload' = "ended"
  BY DEF BeginDraft, SaveVideo, SaveDraft, DraftExpires, Sweep, DropDraft
<1>7. StagedSoFar' /\ SourceIsJob' /\ RowsWhole'
  BY <1>1 DEF StagedSoFar, SourceIsJob, RowsWhole, Exists
<1>8. TakenAtTheEnd' /\ DraftTakenOnce'
  BY <1>1, <1>5, <1>6 DEF TakenAtTheEnd, DraftTakenOnce
<1> QED BY <1>1, <1>3, <1>4, <1>7, <1>8 DEF UploadsTypeOK

\* A step of job j's requests that leaves the draft alone and takes nothing from it.
LEMMA OneJobStep ==
  ASSUME UploadsInv, NEW j \in JobIds, NEW job \in JobFiles, NEW req \in Request,
         UNCHANGED <<draft, upload, saving>>,
         jobs' = [jobs EXCEPT ![j] = job], request' = [request EXCEPT ![j] = req],
         job.draft => jobs[j].draft, req.at # "none",
         req.at # "ended" => job.row = "none",
         req.at = "files" => Holds(job.disk, Videos \ req.todo) /\ Has(req.names, Videos \ req.todo),
         req.at = "copy" => Has(req.names, Videos) /\ req.source \in JobIds,
         req.at = "insert" => Holds(job.disk, Videos) /\ Has(req.names, Videos),
         job.row = "queued" => Holds(job.disk, Videos) /\ Has(job.names, Videos)
  PROVE  UploadsInv'
<1> USE DEF UploadsInv
<1>1. /\ jobs' \in [JobIds -> JobFiles] /\ request' \in [JobIds -> Request]
      /\ jobs'[j] = job /\ request'[j] = req
      /\ \A k \in JobIds \ {j} : jobs'[k] = jobs[k] /\ request'[k] = request[k]
  BY DEF UploadsTypeOK
<1>2. UploadsTypeOK' /\ DraftWhole'
  BY <1>1 DEF UploadsTypeOK, DraftWhole
<1>3. StagedSoFar' /\ SourceIsJob'
  BY <1>1 DEF StagedSoFar, SourceIsJob
<1>4. RowsWhole'
  BY <1>1 DEF RowsWhole, Exists
<1>5. \A k \in JobIds : jobs'[k].draft => jobs[k].draft
  BY <1>1
<1>6. TakenAtTheEnd' /\ DraftTakenOnce'
  BY <1>5 DEF TakenAtTheEnd, DraftTakenOnce
<1> QED BY <1>2, <1>3, <1>4, <1>6

\* TakeDraft: the draft is whole, and gone when its job has it.
LEMMA TakeDraftStep ==
  ASSUME UploadsInv, NEW j \in JobIds, TakeDraft(j)
  PROVE  UploadsInv'
<1> USE DEF UploadsInv
<1>0. jobs[j] \in JobFiles /\ request[j] \in Request /\ request[j].at = "none" /\ jobs[j].row = "none"
  BY DEF TakeDraft, UploadsTypeOK, StagedSoFar
<1>1. CASE Refuse(j) /\ draft' = draft
  <2> DEFINE req == [NoRequest EXCEPT !.at = "ended"]
  <2>1. req \in Request /\ req.at = "ended"
    BY NoNamesIsList DEF NoRequest, Request
  <2>2. /\ jobs' = [jobs EXCEPT ![j] = jobs[j]] /\ request' = [request EXCEPT ![j] = req]
        /\ UNCHANGED <<draft, upload, saving>>
    BY <1>1 DEF TakeDraft, Refuse, UploadsTypeOK
  <2> HIDE DEF req
  <2> QED BY <1>0, <2>1, <2>2, OneJobStep
<1>2. CASE /\ Stage(j, draft.files, Once(NamesOf(draft.files)), TRUE) /\ draft' = NoDraft
           /\ draft.dir /\ draft.probed
  <2> DEFINE list == Once(NamesOf(draft.files))
             job == [jobs[j] EXCEPT !.disk = draft.files, !.draft = TRUE]
             req == [NoRequest EXCEPT !.at = "insert", !.names = list]
  <2>1. /\ Holds(draft.files, Videos) /\ draft.files \in SUBSET Videos /\ upload = "ended"
    BY <1>2 DEF DraftWhole, NoDraft, UploadsTypeOK, Draft
  <2>2. list \in Lists /\ Has(list, Videos)
    BY <2>1, ListOnce
  <2> HIDE DEF list
  <2>3. /\ job \in JobFiles /\ req \in Request /\ req.names = list
        /\ job.row = "none" /\ job.disk = draft.files /\ req.at = "insert"
    BY <1>0, <2>1, <2>2 DEF JobFiles, Request, NoRequest
  <2>4. jobs' = [jobs EXCEPT ![j] = job] /\ request' = [request EXCEPT ![j] = req]
    BY <1>2 DEF Stage, UploadsTypeOK, list
  <2>5. UNCHANGED <<upload, saving>>
    BY DEF TakeDraft
  <2> HIDE DEF job, req
  <2>6. /\ jobs' \in [JobIds -> JobFiles] /\ request' \in [JobIds -> Request]
        /\ jobs'[j] = job /\ request'[j] = req
        /\ \A k \in JobIds \ {j} : jobs'[k] = jobs[k] /\ request'[k] = request[k]
    BY <2>3, <2>4 DEF UploadsTypeOK
  <2>7. NoDraft \in Draft /\ ~NoDraft.dir /\ ~NoDraft.probed
    BY DEF NoDraft, Draft
  <2>8. UploadsTypeOK' /\ DraftWhole'
    BY <1>2, <2>1, <2>5, <2>6, <2>7 DEF UploadsTypeOK, DraftWhole
  <2>9. StagedSoFar' /\ SourceIsJob' /\ RowsWhole'
    BY <2>1, <2>2, <2>3, <2>6 DEF StagedSoFar, SourceIsJob, RowsWhole, Exists
  <2>10. \A k \in JobIds : ~jobs[k].draft
    BY <1>2 DEF DraftTakenOnce
  <2>11. TakenAtTheEnd' /\ DraftTakenOnce'
    BY <1>2, <2>1, <2>5, <2>6, <2>7, <2>10 DEF TakenAtTheEnd, DraftTakenOnce
  <2> QED BY <2>8, <2>9, <2>11
<1> QED BY <1>1, <1>2 DEF TakeDraft

\* The other ways to make a job, and its deletion.
LEMMA JobStep ==
  ASSUME UploadsInv, NEW j \in JobIds,
         \/ BeginJob(j) \/ SaveJobVideo(j) \/ CopyOld(j) \/ InsertRow(j)
         \/ DropRow(j) \/ DropTree(j)
         \/ \E old \in JobIds \ {j} : ReadOld(j, old)
  PROVE  UploadsInv'
<1> USE DEF UploadsInv
<1>0. jobs[j] \in JobFiles /\ request[j] \in Request
  BY DEF UploadsTypeOK
<1>1. CASE BeginJob(j)
  <2> DEFINE req == [NoRequest EXCEPT !.at = "files", !.todo = Videos]
  <2>1. req \in Request /\ req.at = "files" /\ req.todo = Videos /\ req.names = NoNames
    BY NoNamesIsList DEF Request, NoRequest
  <2>2. /\ jobs' = [jobs EXCEPT ![j] = jobs[j]] /\ request' = [request EXCEPT ![j] = req]
        /\ UNCHANGED <<draft, upload, saving>>
    BY <1>1 DEF BeginJob, UploadsTypeOK
  <2>3. jobs[j].row = "none" /\ jobs[j].disk = {}
    BY <1>1 DEF BeginJob, StagedSoFar
  <2> HIDE DEF req
  <2> QED BY <1>0, <2>1, <2>2, <2>3, NothingYet, OneJobStep
<1>2. CASE SaveJobVideo(j)
  <2>1. PICK v \in request[j].todo :
          /\ jobs' = [jobs EXCEPT ![j].disk = Written(@, v)]
          /\ request' = [request EXCEPT ![j].todo = @ \ {v}, ![j].names[FileName[v]] = @ + 1,
                           ![j].at = IF request[j].todo = {v} THEN "insert" ELSE "files"]
    BY <1>2 DEF SaveJobVideo
  <2> DEFINE todo == request[j].todo
             more == [request[j].names EXCEPT ![FileName[v]] = @ + 1]
             job == [jobs[j] EXCEPT !.disk = Written(jobs[j].disk, v)]
             req == [request[j] EXCEPT !.todo = todo \ {v}, !.names = more,
                       !.at = IF todo = {v} THEN "insert" ELSE "files"]
  <2>2. /\ todo \in SUBSET Videos /\ v \in todo /\ v \in Videos /\ request[j].at = "files"
        /\ jobs[j].disk \in SUBSET Videos /\ request[j].names \in Lists
    BY <1>0, <1>2, <2>1 DEF SaveJobVideo, Request, JobFiles
  <2>3. /\ jobs[j].row = "none" /\ Holds(jobs[j].disk, Videos \ todo)
        /\ Has(request[j].names, Videos \ todo)
    BY <2>2 DEF StagedSoFar
  <2>4. /\ Written(jobs[j].disk, v) \in SUBSET Videos
        /\ Holds(Written(jobs[j].disk, v), Videos \ (todo \ {v}))
        /\ todo = {v} => Holds(Written(jobs[j].disk, v), Videos)
    <3> HIDE DEF todo
    <3> QED BY <2>2, <2>3, HoldsMore
  <2>5. more \in Lists /\ Has(more, Videos \ (todo \ {v})) /\ (todo = {v} => Has(more, Videos))
    <3> DEFINE list == request[j].names
    <3>1. more = Longer(list, v) /\ list \in Lists
      BY <2>2 DEF Longer
    <3>2. Has(list, Videos \ todo)
      BY <2>3
    <3>3. todo \in SUBSET Videos /\ v \in todo
      BY <2>2
    <3> HIDE DEF todo, more, list
    <3> QED BY ONLY <3>1, <3>2, <3>3, HasMore
  <2>6. /\ job \in JobFiles /\ job.row = jobs[j].row /\ job.draft = jobs[j].draft
        /\ job.disk = Written(jobs[j].disk, v)
    BY <1>0, <2>4 DEF JobFiles
  <2>7. /\ req \in Request /\ req.todo = todo \ {v} /\ req.names = more
        /\ req.at = IF todo = {v} THEN "insert" ELSE "files"
    <3> HIDE DEF more
    <3> QED BY <1>0, <2>2, <2>5 DEF Request
  <2>8. jobs' = [jobs EXCEPT ![j] = job]
    BY <2>1 DEF UploadsTypeOK
  <2>9. request' = [request EXCEPT ![j] = req]
    BY <1>0, <2>1, <2>2 DEF UploadsTypeOK, Request
  <2>10. UNCHANGED <<draft, upload, saving>>
    BY <1>2 DEF SaveJobVideo
  <2> HIDE DEF job, req, todo, more
  <2> QED BY <2>3, <2>4, <2>5, <2>6, <2>7, <2>8, <2>9, <2>10, OneJobStep
<1>3. CASE CopyOld(j)
  <2>1. /\ request[j].at = "copy" /\ Has(request[j].names, Videos) /\ jobs[j].row = "none"
        /\ UNCHANGED <<draft, upload, saving>>
    BY <1>3 DEF CopyOld, StagedSoFar
  <2>2. CASE /\ Stage(j, Wanted(j), request[j].names, FALSE)
             /\ Listed(request[j].names) \subseteq NamesOf(Wanted(j)) /\ Wanted(j) \in SUBSET Videos
    <3> DEFINE job == [jobs[j] EXCEPT !.disk = Wanted(j), !.draft = FALSE]
               req == [NoRequest EXCEPT !.at = "insert", !.names = request[j].names]
    <3>1. /\ job \in JobFiles /\ req \in Request /\ ~job.draft
          /\ job.row = "none" /\ job.disk = Wanted(j) /\ req.at = "insert"
          /\ req.names = request[j].names
      <4> HIDE DEF Wanted
      <4> QED BY <1>0, <2>1, <2>2, NoNamesIsList DEF JobFiles, Request, NoRequest
    <3>2. Holds(Wanted(j), Videos)
      <4>1. NamesOf(Wanted(j)) \subseteq NamesOf(Videos)
        BY <2>2 DEF NamesOf
      <4> HIDE DEF Wanted, NamesOf
      <4> QED BY <2>1, <2>2, <4>1 DEF Holds, Has
    <3>3. jobs' = [jobs EXCEPT ![j] = job] /\ request' = [request EXCEPT ![j] = req]
      <4> HIDE DEF Wanted
      <4> QED BY <2>2 DEF Stage, UploadsTypeOK
    <3> HIDE DEF job, req
    <3> QED BY <2>1, <3>1, <3>2, <3>3, OneJobStep
  <2>3. ASSUME NEW kept \in SUBSET Videos,
               jobs' = [jobs EXCEPT ![j].disk = kept],
               request' = [request EXCEPT ![j] = [NoRequest EXCEPT !.at = "ended"]]
        PROVE  UploadsInv'
    <3> DEFINE job == [jobs[j] EXCEPT !.disk = kept]
               req == [NoRequest EXCEPT !.at = "ended"]
    <3>1. /\ job \in JobFiles /\ req \in Request /\ job.draft = jobs[j].draft
          /\ job.row = "none" /\ req.at = "ended"
      BY <1>0, <2>1, NoNamesIsList DEF JobFiles, Request, NoRequest
    <3>2. jobs' = [jobs EXCEPT ![j] = job] /\ request' = [request EXCEPT ![j] = req]
      BY <2>3 DEF UploadsTypeOK
    <3> HIDE DEF job, req
    <3> QED BY <2>1, <3>1, <3>2, OneJobStep
  <2>4. CASE Wanted(j) \in SUBSET Videos
    BY <1>3, <2>1, <2>2, <2>3, <2>4 DEF CopyOld
  <2>5. Wanted(j) \in SUBSET Videos
    <3>1. request[j].source \in JobIds
      BY <1>0, <2>1 DEF UploadsInv, SourceIsJob
    <3> QED BY <3>1 DEF Wanted, UploadsTypeOK, JobFiles
  <2> QED BY <2>4, <2>5
<1>4. CASE InsertRow(j)
  <2> DEFINE job == [jobs[j] EXCEPT !.row = "queued", !.names = request[j].names]
             req == [request[j] EXCEPT !.at = "ended"]
  <2>1. Holds(jobs[j].disk, Videos) /\ Has(request[j].names, Videos)
    BY <1>4 DEF InsertRow, StagedSoFar
  <2>2. /\ job \in JobFiles /\ req \in Request /\ job.draft = jobs[j].draft
        /\ job.names = request[j].names /\ job.disk = jobs[j].disk /\ req.at = "ended"
    BY <1>0 DEF JobFiles, Request
  <2>3. /\ jobs' = [jobs EXCEPT ![j] = job] /\ request' = [request EXCEPT ![j] = req]
        /\ UNCHANGED <<draft, upload, saving>>
    BY <1>4 DEF InsertRow, UploadsTypeOK
  <2> HIDE DEF job, req
  <2> QED BY <2>1, <2>2, <2>3, OneJobStep
<1>5. CASE DropRow(j)
  <2> DEFINE job == [jobs[j] EXCEPT !.row = "deleted", !.names = NoNames]
  <2>1. job \in JobFiles /\ job.draft = jobs[j].draft /\ job.row = "deleted"
    BY <1>0, NoNamesIsList DEF JobFiles
  <2>2. request[j].at = "ended"
    BY <1>5 DEF DropRow, Exists, StagedSoFar
  <2>3. /\ jobs' = [jobs EXCEPT ![j] = job] /\ request' = [request EXCEPT ![j] = request[j]]
        /\ UNCHANGED <<draft, upload, saving>>
    BY <1>5 DEF DropRow, UploadsTypeOK
  <2> HIDE DEF job
  <2> QED BY <1>0, <2>1, <2>2, <2>3, OneJobStep
<1>6. CASE DropTree(j)
  <2> DEFINE job == [jobs[j] EXCEPT !.disk = {}]
  <2>1. job \in JobFiles /\ job.draft = jobs[j].draft /\ job.row = "deleted"
    BY <1>0, <1>6 DEF JobFiles, DropTree
  <2>2. request[j].at = "ended"
    BY <1>6 DEF DropTree, StagedSoFar
  <2>3. /\ jobs' = [jobs EXCEPT ![j] = job] /\ request' = [request EXCEPT ![j] = request[j]]
        /\ UNCHANGED <<draft, upload, saving>>
    BY <1>6 DEF DropTree, UploadsTypeOK
  <2> HIDE DEF job
  <2> QED BY <1>0, <2>1, <2>2, <2>3, OneJobStep
<1>7. ASSUME NEW old \in JobIds, ReadOld(j, old) PROVE UploadsInv'
  <2> DEFINE req == [at |-> "copy", todo |-> {}, names |-> jobs[old].names, source |-> old]
  <2>1. Has(jobs[old].names, Videos) /\ jobs[old].names \in Lists
    BY <1>7 DEF ReadOld, RowsWhole, UploadsTypeOK, JobFiles
  <2>2. req \in Request /\ req.at = "copy" /\ req.names = jobs[old].names /\ req.source = old
    BY <2>1 DEF Request
  <2>3. /\ jobs' = [jobs EXCEPT ![j] = jobs[j]] /\ request' = [request EXCEPT ![j] = req]
        /\ UNCHANGED <<draft, upload, saving>>
    BY <1>7 DEF ReadOld, UploadsTypeOK
  <2>4. jobs[j].row = "none"
    BY <1>7 DEF ReadOld, StagedSoFar
  <2> HIDE DEF req
  <2> QED BY <1>0, <2>1, <2>2, <2>3, <2>4, OneJobStep
<1> QED BY <1>1, <1>2, <1>3, <1>4, <1>5, <1>6, <1>7

LEMMA UploadsStep == UploadsInv /\ [Next]_fileVars => UploadsInv'
<1> SUFFICES ASSUME UploadsInv, [Next]_fileVars PROVE UploadsInv'
  OBVIOUS
<1>1. CASE UNCHANGED uploadVars
  BY <1>1 DEF uploadVars, UploadsInv, UploadsTypeOK, DraftWhole, StagedSoFar, SourceIsJob, TakenAtTheEnd,
              RowsWhole, DraftTakenOnce, Exists
<1>2. CASE UploadsNext
  BY <1>2, DraftStep, TakeDraftStep, JobStep DEF UploadsNext
<1> QED BY <1>1, <1>2 DEF Next, fileVars

LEMMA UploadsAlways == Spec => []UploadsInv
<1>1. Init => UploadsInv
  BY UploadsInitInv DEF Init
<1> QED BY <1>1, UploadsStep, PTL DEF Spec

\* Whichever way jobs are made, and whatever is swept, dropped or deleted between
\* two awaits: what was uploaded is listed, by its sanitised name, in the row that
\* a worker can claim, and a file of that name is in its directory.
THEOREM UploadsAreThere == Spec => []RowsHaveUploads
<1>1. UploadsInv => RowsHaveUploads
  <2> SUFFICES ASSUME UploadsInv, NEW j \in JobIds, Exists(j), NEW v \in Videos
               PROVE  FileName[v] \in Listed(jobs[j].names) /\ \E u \in jobs[j].disk : FileName[u] = FileName[v]
    BY DEF RowsHaveUploads
  <2>1. NamesOf(jobs[j].disk) = NamesOf(Videos) /\ Listed(jobs[j].names) = NamesOf(Videos)
    BY DEF UploadsInv, RowsWhole, Holds, Has
  <2>2. FileName[v] \in NamesOf(Videos)
    BY DEF NamesOf
  <2>3. FileName[v] \in NamesOf(jobs[j].disk)
    BY <2>1, <2>2
  <2> QED BY <2>1, <2>2, <2>3 DEF NamesOf
<1> QED BY UploadsAlways, <1>1, PTL

\* One draft becomes at most one job, and is gone then.
THEOREM OneJobPerDraft == Spec => []DraftTakenOnce
<1>1. UploadsInv => DraftTakenOnce
  BY DEF UploadsInv
<1> QED BY UploadsAlways, <1>1, PTL

-----------------------------------------------------------------------------
(* Artifacts *)

\* While the row is there no file goes; what a handler read, or has written, is
\* on disk.
SeenOnDisk ==
  /\ \A e \in Editors : edit[e].at # "idle" => edit[e].seen \subseteq OnDisk
  /\ \A e \in Editors : edit[e].at = "read" => edit[e].rev \in OnDisk
  /\ export.at # "idle" => export.seen \subseteq OnDisk

\* An editor has the revision number it took, and the mesh it loaded.
Numbered == {"numbered", "saved", "loaded", "exporting", "exported", "read"}
Holding ==
  \A e \in Editors :
    /\ edit[e].at \in Numbered => edit[e].rev \in Revisions
    /\ edit[e].at \in {"loaded", "exporting"} => edit[e].holds # Nothing

EditsInv == EditsTypeOK /\ Holding /\ (exists => SeenOnDisk) /\ ListedOnDisk

LEMMA EditsInitInv == EditsInit => EditsInv
<1> SUFFICES ASSUME EditsInit PROVE EditsInv
  OBVIOUS
<1>1. EditsTypeOK
  <2>1. NoEdit \in Edit
    BY EditsAssumption DEF NoEdit, Edit, EditAt, Nothing, Names, Reexport
  <2>2. NoExport \in Export
    BY DEF NoExport, Export
  <2> QED BY <2>1, <2>2 DEF EditsInit, EditsTypeOK, Contents
<1>2. Holding /\ SeenOnDisk /\ ListedOnDisk
  BY DEF EditsInit, Holding, Numbered, SeenOnDisk, ListedOnDisk, NoEdit, NoExport
<1> QED BY <1>1, <1>2 DEF EditsInv

\* An editor's step to `new`, with the files as they were or one name more.
LEMMA OneEditStep ==
  ASSUME EditsInv, NEW e \in Editors, NEW new \in Edit,
         edit' = [edit EXCEPT ![e] = new],
         UNCHANGED <<exists, folder, export, running>>,
         meshes' \in [Names -> Contents], scratch' \in [Revisions -> Editors \cup {Nothing}],
         listed' \subseteq Names,
         OnDisk \subseteq OnDisk',
         exists => listed' \subseteq OnDisk',
         new.at \in Numbered => new.rev \in Revisions,
         new.at \in {"loaded", "exporting"} => new.holds # Nothing,
         exists /\ new.at # "idle" => new.seen \subseteq OnDisk',
         exists /\ new.at = "read" => new.rev \in OnDisk'
  PROVE  EditsInv'
<1> USE DEF EditsInv
<1>1. /\ edit' \in [Editors -> Edit] /\ edit'[e] = new
      /\ \A k \in Editors \ {e} : edit'[k] = edit[k]
  BY DEF EditsTypeOK
<1>2. EditsTypeOK'
  BY <1>1 DEF EditsTypeOK
<1>3. Holding'
  BY <1>1 DEF Holding
<1> HIDE DEF EditsInv
<1>4. ASSUME exists PROVE SeenOnDisk'
  <2>1. SeenOnDisk
    BY <1>4 DEF EditsInv
  <2>2. ASSUME NEW k \in Editors
        PROVE  /\ edit'[k].at # "idle" => edit'[k].seen \subseteq OnDisk'
               /\ edit'[k].at = "read" => edit'[k].rev \in OnDisk'
    <3>1. CASE k = e
      BY <1>1, <1>4, <3>1
    <3>2. CASE k # e
      <4>1. edit'[k] = edit[k]
        BY <1>1, <3>2
      <4> HIDE DEF OnDisk
      <4> QED BY <2>1, <4>1 DEF SeenOnDisk
    <3> QED BY <3>1, <3>2
  <2>3. export'.at # "idle" => export'.seen \subseteq OnDisk'
    BY <2>1 DEF SeenOnDisk
  <2> QED BY <2>2, <2>3 DEF SeenOnDisk
<1>5. ListedOnDisk'
  BY DEF ListedOnDisk
<1> QED BY <1>2, <1>3, <1>4, <1>5 DEF EditsInv

\* Writing a file that is not nothing takes none away.
LEMMA WriteKeeps ==
  ASSUME meshes \in [Names -> Contents], NEW n \in Names, NEW content \in Contents,
         content # Nothing, Write(n, content)
  PROVE  meshes' \in [Names -> Contents] /\ OnDisk \subseteq OnDisk' /\ n \in OnDisk'
BY DEF Write, OnDisk

LEMMA EditorStep ==
  ASSUME EditsInv, NEW e \in Editors,
         \/ AskEdit(e) \/ MakeMesh(e) \/ TakeNumber(e) \/ SaveScratch(e) \/ LoadScratch(e)
         \/ OpenRevision(e) \/ WriteRevision(e) \/ Summarise(e) \/ RecordEdit(e)
  PROVE  EditsInv'
<1>0. /\ edit[e] \in Edit /\ edit \in [Editors -> Edit] /\ NoEdit \in Edit /\ NoEdit.at = "idle"
      /\ meshes \in [Names -> Contents] /\ scratch \in [Revisions -> Editors \cup {Nothing}]
      /\ listed \subseteq Names
  <2>1. NoEdit \in Edit
    BY EditsAssumption DEF NoEdit, Edit, EditAt, Nothing, Names, Reexport
  <2> QED BY <2>1 DEF EditsInv, EditsTypeOK, NoEdit
<1>1. /\ exists /\ edit[e].at # "idle" => edit[e].seen \subseteq OnDisk
      /\ exists /\ edit[e].at = "read" => edit[e].rev \in OnDisk
      /\ exists => listed \subseteq OnDisk
      /\ edit[e].at \in Numbered => edit[e].rev \in Revisions
      /\ edit[e].at \in {"loaded", "exporting"} => edit[e].holds # Nothing
  BY DEF EditsInv, SeenOnDisk, ListedOnDisk, Holding
<1>2. UNCHANGED <<exists, folder, export, running>>
  BY DEF AskEdit, MakeMesh, TakeNumber, SaveScratch, LoadScratch, OpenRevision, WriteRevision,
         Summarise, RecordEdit
<1> DEFINE Same == listed' = listed /\ meshes' = meshes /\ scratch' \in [Revisions -> Editors \cup {Nothing}]
<1>3. ASSUME Same PROVE OnDisk' = OnDisk
  BY <1>3 DEF OnDisk
<1>4. ASSUME EditFails(e), Same PROVE EditsInv'
  BY <1>0, <1>1, <1>2, <1>3, <1>4, OneEditStep DEF EditFails, Numbered
\* A step that only moves the editor on.
<1>5. ASSUME NEW at \in EditAt \ {"idle", "read", "loaded", "exporting"}, EditGoes(e, at), Same,
             edit[e].at # "idle", at \in Numbered => edit[e].at \in Numbered
      PROVE  EditsInv'
  <2> DEFINE new == [edit[e] EXCEPT !.at = at]
  <2>1. new \in Edit /\ new.at = at /\ new.seen = edit[e].seen /\ new.rev = edit[e].rev
    BY <1>0 DEF Edit
  <2>2. edit' = [edit EXCEPT ![e] = new]
    BY <1>0, <1>5 DEF EditGoes
  <2> HIDE DEF new
  <2> QED BY <1>0, <1>1, <1>2, <1>3, <1>5, <2>1, <2>2, OneEditStep
<1>6. CASE AskEdit(e)
  <2> DEFINE new == [NoEdit EXCEPT !.at = "asked", !.seen = listed]
  <2>1. new \in Edit /\ new.at = "asked" /\ new.seen = listed /\ new.at \notin Numbered
    BY <1>0 DEF Edit, EditAt, NoEdit, Numbered
  <2>2. edit' = [edit EXCEPT ![e] = new] /\ Same
    BY <1>0, <1>6 DEF AskEdit
  <2> HIDE DEF new
  <2> QED BY <1>0, <1>1, <1>2, <1>3, <2>1, <2>2, OneEditStep
<1>7. CASE MakeMesh(e)
  <2>1. Same /\ edit[e].at # "idle"
    BY <1>0, <1>7 DEF MakeMesh
  <2>2. EditGoes(e, "made") \/ EditFails(e)
    BY <1>7 DEF MakeMesh
  <2> QED BY <1>4, <1>5, <2>1, <2>2 DEF EditAt, Numbered
<1>8. CASE TakeNumber(e)
  <2> DEFINE new == [edit[e] EXCEPT !.at = "numbered", !.rev = NextRevision]
  <2>1. NextRevision \in Revisions /\ NextRevision \in 0 .. MaxRev
    BY <1>8, EditsAssumption DEF TakeNumber, Revisions
  <2>2. new \in Edit /\ new.at = "numbered" /\ new.seen = edit[e].seen /\ new.rev \in Revisions
    <3> HIDE DEF NextRevision
    <3> QED BY <1>0, <2>1 DEF Edit, EditAt
  <2>3. edit' = [edit EXCEPT ![e] = new] /\ Same /\ edit[e].at # "idle"
    BY <1>0, <1>8 DEF TakeNumber
  <2> HIDE DEF new
  <2> QED BY <1>0, <1>1, <1>2, <1>3, <2>2, <2>3, OneEditStep
<1>9. CASE SaveScratch(e)
  <2>1. Same /\ edit[e].at = "numbered" /\ (EditGoes(e, "saved") \/ EditFails(e))
    BY <1>0, <1>9 DEF SaveScratch
  <2> QED BY <1>4, <1>5, <2>1 DEF EditAt, Numbered
<1>10. CASE LoadScratch(e)
  <2>1. Same /\ edit[e].at = "saved"
    BY <1>0, <1>10 DEF LoadScratch
  <2>2. CASE EditFails(e)
    BY <1>4, <2>1, <2>2
  <2>3. CASE ~EditFails(e)
    <3> DEFINE new == [edit[e] EXCEPT !.at = "loaded", !.holds = scratch[edit[e].rev]]
    <3>1. edit[e].rev \in Revisions
      BY <1>1, <2>1 DEF Numbered
    <3>2. scratch[edit[e].rev] # Nothing /\ edit' = [edit EXCEPT ![e] = new]
      BY <1>0, <1>10, <2>3 DEF LoadScratch
    <3>3. /\ new \in Edit /\ new.at = "loaded" /\ new.seen = edit[e].seen /\ new.rev = edit[e].rev
          /\ new.holds # Nothing
      BY <1>0, <3>1, <3>2 DEF Edit, EditAt
    <3> HIDE DEF new
    <3> QED BY <1>0, <1>1, <1>2, <1>3, <2>1, <3>1, <3>2, <3>3, OneEditStep
  <2> QED BY <2>2, <2>3
<1>11. CASE OpenRevision(e)
  <2>1. edit[e].at = "loaded" /\ listed' = listed /\ scratch' \in [Revisions -> Editors \cup {Nothing}]
    BY <1>0, <1>11 DEF OpenRevision
  <2>2. CASE EditFails(e) /\ meshes' = meshes
    BY <1>4, <2>1, <2>2
  <2>3. CASE Write(edit[e].rev, Half) /\ EditGoes(e, "exporting")
    <3>1. edit[e].rev \in Revisions /\ edit[e].rev \in Names
      BY <1>1, <2>1, EditsAssumption DEF Numbered, Revisions, Names, Reexport
    <3>2. meshes' \in [Names -> Contents] /\ OnDisk \subseteq OnDisk'
      BY <1>0, <2>3, <3>1, WriteKeeps DEF Contents, Half, Nothing
    <3> DEFINE new == [edit[e] EXCEPT !.at = "exporting"]
    <3>3. /\ new \in Edit /\ new.at = "exporting" /\ new.seen = edit[e].seen
          /\ new.rev = edit[e].rev /\ new.holds = edit[e].holds
      BY <1>0 DEF Edit, EditAt
    <3>4. edit' = [edit EXCEPT ![e] = new]
      BY <1>0, <2>3 DEF EditGoes
    <3> HIDE DEF new, OnDisk
    <3> QED BY <1>0, <1>1, <1>2, <2>1, <3>1, <3>2, <3>3, <3>4, OneEditStep
  <2> QED BY <1>11, <2>2, <2>3 DEF OpenRevision
<1>12. CASE WriteRevision(e)
  <2>1. /\ edit[e].at = "exporting" /\ listed' = listed /\ scratch' = scratch
        /\ EditGoes(e, "exported")
    BY <1>12 DEF WriteRevision
  <2>2. edit[e].rev \in Revisions /\ edit[e].rev \in Names
    BY <1>1, <2>1, EditsAssumption DEF Numbered, Revisions, Names, Reexport
  <2>3. edit[e].holds \in Contents /\ edit[e].holds # Nothing
    BY <1>0, <1>1, <2>1 DEF Edit, Contents
  <2>4. CASE meshes' = meshes
    BY <1>0, <1>5, <2>1, <2>4 DEF EditAt, Numbered
  <2>5. CASE Write(edit[e].rev, edit[e].holds)
    <3>1. meshes' \in [Names -> Contents] /\ OnDisk \subseteq OnDisk'
      BY <1>0, <2>2, <2>3, <2>5, WriteKeeps
    <3> DEFINE new == [edit[e] EXCEPT !.at = "exported"]
    <3>2. /\ new \in Edit /\ new.at = "exported" /\ new.seen = edit[e].seen /\ new.rev = edit[e].rev
      BY <1>0 DEF Edit, EditAt
    <3>3. edit' = [edit EXCEPT ![e] = new]
      BY <1>0, <2>1 DEF EditGoes
    <3> HIDE DEF new, OnDisk
    <3> QED BY <1>0, <1>1, <1>2, <2>1, <2>2, <3>1, <3>2, <3>3, OneEditStep
  <2> QED BY <1>12, <2>4, <2>5 DEF WriteRevision
<1>13. CASE Summarise(e)
  <2>1. Same /\ edit[e].at = "exported"
    BY <1>0, <1>13 DEF Summarise
  <2>2. CASE EditFails(e)
    BY <1>4, <2>1, <2>2
  <2>3. CASE meshes[edit[e].rev] # Nothing /\ EditGoes(e, "read")
    <3>1. edit[e].rev \in Revisions /\ edit[e].rev \in Names
      BY <1>1, <2>1, EditsAssumption DEF Numbered, Revisions, Names, Reexport
    <3>2. edit[e].rev \in OnDisk
      BY <2>3, <3>1 DEF OnDisk
    <3> DEFINE new == [edit[e] EXCEPT !.at = "read"]
    <3>3. /\ new \in Edit /\ new.at = "read" /\ new.seen = edit[e].seen /\ new.rev = edit[e].rev
      BY <1>0 DEF Edit, EditAt
    <3>4. edit' = [edit EXCEPT ![e] = new]
      BY <1>0, <2>3 DEF EditGoes
    <3> HIDE DEF new, OnDisk
    <3> QED BY <1>0, <1>1, <1>2, <1>3, <2>1, <3>1, <3>2, <3>3, <3>4, OneEditStep
  <2> QED BY <1>13, <2>2, <2>3 DEF Summarise
<1>14. CASE RecordEdit(e)
  <2>1. /\ edit[e].at = "read" /\ meshes' = meshes /\ scratch' = scratch
        /\ listed' = (IF exists THEN edit[e].seen \cup {edit[e].rev} ELSE listed)
        /\ edit' = [edit EXCEPT ![e] = NoEdit]
    BY <1>14 DEF RecordEdit
  <2>2. OnDisk' = OnDisk
    BY <2>1 DEF OnDisk
  <2>3. edit[e].rev \in Names
    BY <1>1, <2>1, EditsAssumption DEF Numbered, Revisions, Names, Reexport
  <2>4. listed' \subseteq Names
    BY <1>0, <2>1, <2>3 DEF Edit
  <2>5. exists => listed' \subseteq OnDisk
    <3> HIDE DEF OnDisk
    <3> QED BY <1>1, <2>1
  <2>6. NoEdit.at \notin Numbered
    BY DEF NoEdit, Numbered
  <2> HIDE DEF OnDisk
  <2> QED BY <1>0, <1>2, <2>1, <2>2, <2>4, <2>5, <2>6, OneEditStep
<1> QED BY <1>6, <1>7, <1>8, <1>9, <1>10, <1>11, <1>12, <1>13, <1>14

\* A step that no editor takes.
LEMMA OtherStep ==
  ASSUME EditsInv, edit' = edit,
         exists' \in BOOLEAN, folder' \in BOOLEAN, running' \in BOOLEAN, listed' \subseteq Names,
         meshes' \in [Names -> Contents], scratch' \in [Revisions -> Editors \cup {Nothing}],
         export' \in Export,
         exists' => /\ exists /\ OnDisk \subseteq OnDisk' /\ listed' \subseteq OnDisk'
                    /\ export'.at # "idle" => export'.seen \subseteq OnDisk'
  PROVE  EditsInv'
<1>1. EditsTypeOK'
  BY DEF EditsInv, EditsTypeOK
<1>2. Holding'
  BY DEF EditsInv, Holding
<1>3. ASSUME exists' PROVE SeenOnDisk'
  <2>1. SeenOnDisk
    BY <1>3 DEF EditsInv
  <2> HIDE DEF OnDisk
  <2> QED BY <1>3, <2>1 DEF SeenOnDisk
<1>4. ListedOnDisk'
  BY DEF ListedOnDisk
<1> QED BY <1>1, <1>2, <1>3, <1>4 DEF EditsInv

\* The re-export.
LEMMA ReexportStep ==
  ASSUME EditsInv, AskReexport \/ OpenReexport \/ WriteReexport \/ RecordReexport
  PROVE  EditsInv'
<1>0. /\ exists \in BOOLEAN /\ folder \in BOOLEAN /\ running \in BOOLEAN /\ listed \subseteq Names
      /\ meshes \in [Names -> Contents] /\ scratch \in [Revisions -> Editors \cup {Nothing}]
      /\ export \in Export
  BY DEF EditsInv, EditsTypeOK
<1>1. exists => listed \subseteq OnDisk /\ (export.at # "idle" => export.seen \subseteq OnDisk)
  BY DEF EditsInv, SeenOnDisk, ListedOnDisk
<1>2. Reexport \in Names
  BY EditsAssumption DEF Names, Reexport
<1>3. /\ edit' = edit /\ exists' = exists /\ running' = running /\ scratch' = scratch
      /\ folder' \in BOOLEAN
  BY <1>0 DEF AskReexport, OpenReexport, WriteReexport, RecordReexport
<1>4. CASE AskReexport
  <2>1. /\ meshes' = meshes /\ listed' = listed /\ export' = [at |-> "asked", seen |-> listed]
    BY <1>4 DEF AskReexport
  <2>2. OnDisk' = OnDisk
    BY <2>1 DEF OnDisk
  <2>3. export' \in Export /\ export'.seen = listed
    BY <1>0, <2>1 DEF Export
  <2> HIDE DEF OnDisk
  <2> QED BY <1>0, <1>1, <1>3, <2>1, <2>2, <2>3, OtherStep
<1>5. CASE OpenReexport \/ WriteReexport
  <2>1. /\ listed' = listed /\ export' \in Export /\ export'.seen = export.seen /\ export.at # "idle"
    BY <1>0, <1>5 DEF OpenReexport, WriteReexport, Export
  <2>2. meshes' = meshes \/ Write(Reexport, Half) \/ Write(Reexport, TheRun)
    BY <1>5 DEF OpenReexport, WriteReexport
  <2>3. meshes' \in [Names -> Contents] /\ OnDisk \subseteq OnDisk'
    <3>1. CASE meshes' = meshes
      BY <1>0, <3>1 DEF OnDisk
    <3>2. CASE Write(Reexport, Half)
      BY <1>0, <1>2, <3>2, WriteKeeps DEF Contents, Half, Nothing
    <3>3. CASE Write(Reexport, TheRun)
      BY <1>0, <1>2, <3>3, WriteKeeps DEF Contents, TheRun, Nothing
    <3> QED BY <2>2, <3>1, <3>2, <3>3
  <2> HIDE DEF OnDisk
  <2> QED BY <1>0, <1>1, <1>3, <2>1, <2>3, OtherStep
<1>6. CASE RecordReexport
  <2>1. /\ meshes' = meshes /\ export' = NoExport /\ export.at = "exported"
        /\ listed' = IF exists /\ meshes[Reexport] # Nothing
                       THEN export.seen \cup {Reexport} ELSE listed
    BY <1>6 DEF RecordReexport
  <2>2. OnDisk' = OnDisk /\ (meshes[Reexport] # Nothing => Reexport \in OnDisk)
    BY <1>2, <2>1 DEF OnDisk
  <2>3. export' \in Export /\ export'.at = "idle"
    BY <2>1 DEF NoExport, Export
  <2>4. listed' \subseteq Names
    BY <1>0, <1>2, <2>1 DEF Export
  <2> HIDE DEF OnDisk
  <2>5. exists => listed' \subseteq OnDisk
    BY <1>1, <2>1, <2>2
  <2> QED BY <1>0, <1>3, <2>1, <2>2, <2>3, <2>4, <2>5, OtherStep
<1> QED BY <1>4, <1>5, <1>6

\* The job's own run, and its deletion.
LEMMA RunStep ==
  ASSUME EditsInv, RunExports \/ RunRecords \/ DropJob \/ DropFolder
  PROVE  EditsInv'
<1>0. /\ exists \in BOOLEAN /\ folder \in BOOLEAN /\ running \in BOOLEAN /\ listed \subseteq Names
      /\ meshes \in [Names -> Contents] /\ scratch \in [Revisions -> Editors \cup {Nothing}]
      /\ export \in Export
  BY DEF EditsInv, EditsTypeOK
<1>1. exists => listed \subseteq OnDisk /\ (export.at # "idle" => export.seen \subseteq OnDisk)
  BY DEF EditsInv, SeenOnDisk, ListedOnDisk
<1>2. 0 \in Names
  BY EditsAssumption DEF Names, Reexport
<1>3. CASE RunExports
  <2>1. /\ edit' = edit /\ export' = export /\ Write(0, TheRun)
        /\ UNCHANGED <<exists, listed, folder, scratch, running>>
    BY <1>3 DEF RunExports
  <2>2. meshes' \in [Names -> Contents] /\ OnDisk \subseteq OnDisk'
    BY <1>0, <1>2, <2>1, WriteKeeps DEF Contents, TheRun, Nothing
  <2> HIDE DEF OnDisk
  <2> QED BY <1>0, <1>1, <2>1, <2>2, OtherStep
<1>4. CASE RunRecords
  <2>1. /\ edit' = edit /\ export' = export /\ running' = FALSE
        /\ UNCHANGED <<exists, folder, meshes, scratch>>
        /\ listed' = IF exists THEN {0} ELSE listed
        /\ exists => meshes[0] # Nothing
    BY <1>4 DEF RunRecords
  <2>2. OnDisk' = OnDisk /\ (exists => 0 \in OnDisk)
    BY <1>2, <2>1 DEF OnDisk
  <2>3. listed' \subseteq Names
    BY <1>0, <1>2, <2>1
  <2> HIDE DEF OnDisk
  <2> QED BY <1>0, <1>1, <2>1, <2>2, <2>3, OtherStep
<1>5. CASE DropJob \/ DropFolder
  <2>1. /\ edit' = edit /\ export' = export /\ running' = running /\ exists' = FALSE
        /\ folder' \in BOOLEAN /\ listed' \subseteq Names
    BY <1>0, <1>5 DEF DropJob, DropFolder
  <2>2. meshes' \in [Names -> Contents] /\ scratch' \in [Revisions -> Editors \cup {Nothing}]
    BY <1>0, <1>5 DEF DropJob, DropFolder, Contents
  <2> QED BY <1>0, <2>1, <2>2, OtherStep
<1> QED BY <1>3, <1>4, <1>5

LEMMA EditsStep == EditsInv /\ [Next]_fileVars => EditsInv'
<1> SUFFICES ASSUME EditsInv, [Next]_fileVars PROVE EditsInv'
  OBVIOUS
<1>1. CASE UNCHANGED editVars
  BY <1>1 DEF editVars, EditsInv, EditsTypeOK, Holding, SeenOnDisk, ListedOnDisk, OnDisk
<1>2. CASE EditsNext
  BY <1>2, EditorStep, ReexportStep, RunStep DEF EditsNext
<1> QED BY <1>1, <1>2 DEF Next, fileVars

\* Whatever edits, a re-export, the run and a deletion write over each other,
\* what a job's row lists is on disk.
THEOREM ListedFilesExist == Spec => []ListedOnDisk
<1>1. Init => EditsInv
  BY EditsInitInv DEF Init
<1>2. EditsInv => ListedOnDisk
  BY DEF EditsInv
<1> QED BY <1>1, <1>2, EditsStep, PTL DEF Spec
-----------------------------------------------------------------------------
(* Revision numbers *)

\* While the row is there, the number an editor took is above every revision that
\* was listed when it was asked for.
AboveSeen ==
  exists => \A e \in Editors :
              edit[e].at \in Numbered => \A n \in edit[e].seen \cap Revisions : n < edit[e].rev

\* A nonempty set of numbers has a largest: of the sets of larger ones, which
\* inclusion orders, the least is empty.
LEMMA Largest ==
  ASSUME NEW n \in Nat, NEW S \in SUBSET (1 .. n), S # {}
  PROVE  \E m \in S : \A k \in S : k <= m
<1> DEFINE Larger(i) == {j \in S : j > i}
           T == {Larger(i) : i \in S}
<1>1. IsWellFoundedOn(StrictSubsetOrdering(S), SUBSET S)
  <2>1. IsFiniteSet(S)
    <3>1. IsFiniteSet(1 .. n)
      BY FS_Interval
    <3> QED BY <3>1, FS_Subset
  <2> QED BY <2>1, FS_StrictSubsetOrderingWellFounded, FS_FiniteSubsetsOfFinite
<1>2. T \subseteq SUBSET S /\ T # {}
  OBVIOUS
<1>3. PICK t \in T : \A u \in T : ~ (<<u, t>> \in StrictSubsetOrdering(S))
  <2> HIDE DEF T
  <2> QED BY <1>1, <1>2, WFMin
<1>4. PICK m \in S : t = Larger(m)
  BY <1>3
<1>5. ASSUME NEW k \in S, k > m PROVE FALSE
  <2>1. Larger(k) \in T /\ k \in Larger(m) /\ k \notin Larger(k)
    BY <1>5
  <2>2. Larger(k) \subseteq Larger(m) /\ Larger(m) \subseteq S
    <3>1. \A j \in S : j > k => j > m
      BY <1>5
    <3> QED BY <3>1
  <2>3. <<Larger(k), Larger(m)>> \in StrictSubsetOrdering(S)
    <3> HIDE DEF Larger
    <3> QED BY <2>1, <2>2 DEF StrictSubsetOrdering
  <2> QED BY <2>1, <2>3, <1>3, <1>4
<1>6. \A k \in S : k <= m
  BY <1>5
<1> QED BY <1>6

\* next_revision: above every revision on disk.
LEMMA NextIsAbove ==
  ASSUME EditsTypeOK
  PROVE  NextRevision \in 1 .. Reexport /\ \A r \in OnDisk \cap Revisions : r < NextRevision
<1> DEFINE Free(n) == /\ \A r \in Revisions : r >= n => meshes[r] = Nothing
                      /\ n = 1 \/ meshes[n - 1] # Nothing
           used == {r \in Revisions : meshes[r] # Nothing}
<1>1. \E n \in 1 .. Reexport : Free(n)
  <2>1. CASE used = {}
    <3>1. 1 \in 1 .. Reexport
      BY EditsAssumption DEF Reexport
    <3>2. Free(1)
      BY <2>1
    <3> QED BY <3>1, <3>2
  <2>2. CASE used # {}
    <3>1. PICK m \in used : \A k \in used : k <= m
      <4>1. used \in SUBSET (1 .. MaxRev)
        BY DEF Revisions
      <4> HIDE DEF used
      <4> QED BY <2>2, <4>1, Largest, EditsAssumption
    <3>2. m \in 1 .. MaxRev /\ meshes[m] # Nothing
      BY <3>1 DEF Revisions
    <3>3. \A r \in Revisions : r >= m + 1 => meshes[r] = Nothing
      BY <3>1, <3>2, EditsAssumption DEF Revisions
    <3>4. m + 1 \in 1 .. Reexport /\ (m + 1) - 1 = m
      BY <3>2, EditsAssumption DEF Reexport
    <3>5. Free(m + 1)
      BY <3>2, <3>3, <3>4
    <3> HIDE DEF Free
    <3> QED BY <3>4, <3>5
  <2> QED BY <2>1, <2>2
<1>2. NextRevision \in 1 .. Reexport /\ Free(NextRevision)
  <2>1. NextRevision = CHOOSE n \in 1 .. Reexport : Free(n)
    BY DEF NextRevision
  <2> HIDE DEF Free
  <2> QED BY <1>1, <2>1
<1>3. ASSUME NEW r \in OnDisk \cap Revisions PROVE r < NextRevision
  <2>1. meshes[r] # Nothing /\ r \in Nat
    BY <1>3, EditsAssumption DEF OnDisk, Revisions
  <2>2. NextRevision \in Nat /\ ~(r >= NextRevision)
    BY <1>2, <1>3, <2>1, EditsAssumption DEF Reexport
  <2> HIDE DEF NextRevision
  <2> QED BY <2>1, <2>2
<1> QED BY <1>2, <1>3

\* What a step does to an editor: its number is the one it had, and what it has
\* read stays, or it takes the next.
LEMMA AboveStep == EditsInv /\ AboveSeen /\ [Next]_fileVars => AboveSeen'
<1> SUFFICES ASSUME EditsInv, AboveSeen, [Next]_fileVars, exists', NEW e \in Editors,
                    edit'[e].at \in Numbered, NEW n \in edit'[e].seen \cap Revisions
             PROVE  n < edit'[e].rev
  BY DEF AboveSeen
<1> HIDE DEF NextRevision
<1>0. edit[e] \in Edit /\ edit \in [Editors -> Edit]
  BY DEF EditsInv, EditsTypeOK
<1>1. exists
  BY DEF Next, fileVars, editVars, EditsNext, AskEdit, MakeMesh, TakeNumber, SaveScratch, LoadScratch,
         OpenRevision, WriteRevision, Summarise, RecordEdit, AskReexport, OpenReexport, WriteReexport,
         RecordReexport, RunExports, RunRecords, DropJob, DropFolder
<1>2. ASSUME edit[e].at \in Numbered, edit'[e].rev = edit[e].rev, edit'[e].seen = edit[e].seen
      PROVE  n < edit'[e].rev
  BY <1>1, <1>2 DEF AboveSeen
<1>3. CASE edit' = edit
  BY <1>2, <1>3
<1>4. ASSUME NEW k \in Editors,
             \/ AskEdit(k) \/ MakeMesh(k) \/ TakeNumber(k) \/ SaveScratch(k) \/ LoadScratch(k)
             \/ OpenRevision(k) \/ WriteRevision(k) \/ Summarise(k) \/ RecordEdit(k)
      PROVE  n < edit'[e].rev
  <2>1. CASE k # e
    <3>1. \E new : edit' = [edit EXCEPT ![k] = new]
      BY <1>4 DEF AskEdit, MakeMesh, TakeNumber, SaveScratch, LoadScratch, OpenRevision,
                  WriteRevision, Summarise, RecordEdit, EditFails, EditGoes
    <3>2. edit'[e] = edit[e]
      BY <1>0, <2>1, <3>1
    <3> QED BY <1>2, <3>2
  <2>2. CASE k = e /\ TakeNumber(e)
    <3>1. edit'[e].rev = NextRevision /\ edit'[e].seen = edit[e].seen /\ edit[e].at = "made"
      BY <1>0, <2>2 DEF TakeNumber, Edit
    <3>2. edit[e].seen \subseteq OnDisk
      BY <1>1, <3>1 DEF EditsInv, SeenOnDisk
    <3>3. n \in OnDisk \cap Revisions
      BY <3>1, <3>2
    <3> QED BY <3>1, <3>3, NextIsAbove DEF EditsInv
  <2>3. CASE k = e /\ (AskEdit(e) \/ MakeMesh(e) \/ RecordEdit(e))
    <3>1. CASE AskEdit(e)
      BY <1>0, <3>1 DEF AskEdit, NoEdit, Numbered
    <3>2. CASE MakeMesh(e)
      <4>1. EditGoes(e, "made") \/ EditFails(e)
        BY <3>2 DEF MakeMesh
      <4>2. edit'[e].at \in {"made", "idle"}
        BY <1>0, <4>1 DEF EditFails, EditGoes, NoEdit, Edit
      <4> QED BY <4>2 DEF Numbered
    <3>3. CASE RecordEdit(e)
      BY <1>0, <3>3 DEF RecordEdit, NoEdit, Numbered
    <3> QED BY <2>3, <3>1, <3>2, <3>3
  <2>4. CASE k = e /\ (SaveScratch(e) \/ LoadScratch(e) \/ OpenRevision(e) \/ WriteRevision(e) \/ Summarise(e))
    <3>1. edit[e].at \in Numbered
      BY <2>4 DEF SaveScratch, LoadScratch, OpenRevision, WriteRevision, Summarise, Numbered
    <3>2. ~EditFails(e)
      BY <1>0 DEF EditFails, NoEdit, Numbered
    <3>3. \/ \E at : EditGoes(e, at)
          \/ \E held : edit' = [edit EXCEPT ![e].at = "loaded", ![e].holds = held]
      <4>1. CASE LoadScratch(e)
        BY <3>2, <4>1 DEF LoadScratch
      <4>2. CASE ~LoadScratch(e)
        BY <2>4, <3>2, <4>2 DEF SaveScratch, OpenRevision, WriteRevision, Summarise
      <4> QED BY <4>1, <4>2
    <3>4. edit'[e].rev = edit[e].rev /\ edit'[e].seen = edit[e].seen
      BY <1>0, <3>3 DEF EditGoes, Edit
    <3> QED BY <1>2, <3>1, <3>4
  <2> QED BY <1>4, <2>1, <2>2, <2>3, <2>4
<1>5. CASE UNCHANGED editVars
  BY <1>3, <1>5 DEF editVars
<1>6. CASE EditsNext
  <2>1. CASE \/ AskReexport \/ OpenReexport \/ WriteReexport \/ RecordReexport
             \/ RunExports \/ RunRecords \/ DropJob \/ DropFolder
    BY <1>3, <2>1 DEF AskReexport, OpenReexport, WriteReexport, RecordReexport, RunExports,
                      RunRecords, DropJob, DropFolder
  <2> QED BY <1>4, <1>6, <2>1 DEF EditsNext
<1> QED BY <1>5, <1>6 DEF Next, fileVars

\* Only an edit that was asked for before a revision was listed writes over it.
LEMMA WritesAreAbove ==
  ASSUME EditsInv, AboveSeen, [Next]_fileVars, exists', NEW n \in listed \cap Revisions,
         meshes'[n] # meshes[n]
  PROVE  \E e \in Editors : edit[e].rev = n /\ n \notin edit[e].seen
<1>0. meshes \in [Names -> Contents] /\ n \in Names /\ n \in Nat /\ n # 0 /\ n # Reexport
  BY EditsAssumption DEF EditsInv, EditsTypeOK, Revisions, Names, Reexport
<1>1. /\ exists
      /\ \/ \E e \in Editors : OpenRevision(e) \/ WriteRevision(e)
         \/ \E c : Write(0, c) \/ Write(Reexport, c)
  BY DEF Next, fileVars, editVars, EditsNext, AskEdit, MakeMesh, TakeNumber, SaveScratch, LoadScratch,
         OpenRevision, WriteRevision, Summarise, RecordEdit, AskReexport, OpenReexport, WriteReexport,
         RecordReexport, RunExports, RunRecords, DropJob, DropFolder
<1>2. PICK e \in Editors : OpenRevision(e) \/ WriteRevision(e)
  BY <1>0, <1>1 DEF Write
<1>3. edit[e].rev = n /\ edit[e].at \in Numbered
  BY <1>0, <1>2 DEF OpenRevision, WriteRevision, Write, Numbered
<1>4. n \notin edit[e].seen
  <2>1. \A r \in edit[e].seen \cap Revisions : r < n
    BY <1>1, <1>3 DEF AboveSeen
  <2> QED BY <1>0, <2>1
<1> QED BY <1>3, <1>4

\* A revision that the row lists is written over only by an edit that was asked
\* for before it was listed, whatever the list has lost and whatever else is
\* under way: next_revision reads the directory.
THEOREM ListedStays == Spec => ListedNotOverwritten
<1>1. Init => EditsInv /\ AboveSeen
  <2>1. Init => AboveSeen
    BY DEF Init, EditsInit, AboveSeen, NoEdit, Numbered
  <2> QED BY <2>1, EditsInitInv DEF Init
<1>2. EditsInv /\ AboveSeen /\ [Next]_fileVars =>
        [\A n \in listed \cap Revisions :
           meshes'[n] # meshes[n] /\ exists' =>
             \E e \in Editors : edit[e].rev = n /\ n \notin edit[e].seen]_editVars
  BY WritesAreAbove
<1> QED BY <1>1, <1>2, EditsStep, AboveStep, PTL DEF Spec, ListedNotOverwritten

-----------------------------------------------------------------------------
(* Types *)

\* Of the uploads and of the edits, for any number of requests under way.
THEOREM TypeCorrect == Spec => [](UploadsTypeOK /\ EditsTypeOK)
<1>1. Init => UploadsInv /\ EditsInv
  BY UploadsInitInv, EditsInitInv DEF Init
<1>2. UploadsInv /\ EditsInv => UploadsTypeOK /\ EditsTypeOK
  BY DEF UploadsInv, EditsInv
<1> QED BY <1>1, <1>2, UploadsStep, EditsStep, PTL DEF Spec
=============================================================================
