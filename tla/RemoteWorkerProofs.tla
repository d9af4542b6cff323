------------------------- MODULE RemoteWorkerProofs -------------------------
(***************************************************************************)
(* Theorems about RemoteWorker, for any vendors, rates, caps and number of *)
(* faults.  The invariant has a part for each thing that several of the    *)
(* processes write: the row, the dispatch and its machine, the pod and its *)
(* uploads, the claim request.                                             *)
(***************************************************************************)
EXTENDS RemoteWorker, TLAPS

\* Only a job that is there is claimed.
RowOK == row \in Row /\ (row.claimed_by # "nobody" => Exists)

LaunchAt == {"new", "resolving", "pricing", "calling", "creating", "booking", "failing", "over"}

LaunchOK ==
  /\ launch \in [at : LaunchAt, cap : Nat \cup {NoCap}]
  /\ lost \in Nat /\ crashes \in Nat
  /\ (launch.at = "new") <=> (row.status = "unborn")

\* The machine exists once the create call is over, and the dispatch knows of it
\* unless the answer was lost; a pod runs on a machine.
MachineOK ==
  /\ launch.at \in {"new", "resolving", "pricing", "calling", "creating"} => machine = "none"
  /\ launch.at = "booking" => machine # "none"
  /\ (launch.at = "failing" /\ lost = 0 /\ crashes = 0) => machine = "none"
  /\ pod # "off" => machine = "up"

PodOK ==
  /\ outcome \in Terminal
  /\ file \in Nat
  /\ up \in [Uploads -> [stat : Nat, at : {"none", "open", "sent"}, over : Nat, torn : BOOLEAN]]
  /\ \A u \in Uploads : up[u].at # "none" => up[u].stat # 0
  /\ up["run"].at # "none" => pod = "produced"
  /\ pod = "produced" => file # 0

\* From the claim's answer on, the job is out of everyone else's reach.
Busy == Run \cup {"fetching"}
BusyAlone == pod \in Busy => row.claimed_by # "local" /\ ~Offered

\* What the run has uploaded is there, unless the job was deleted.
Backed ==
  /\ pod = "uploaded" => (copy # 0 \/ row.status = "deleted")
  /\ (storage = "broker" /\ up["run"].at = "sent") => (copy # 0 \/ row.status = "deleted")

\* The older job is held only while the claim request is about to release it.
HeldBriefly == older = "held" => (ask = "release" \/ crashes > 0)

\* Until the pod's claim of the job is answered and its files are there, nothing was
\* written or sent.
AtWork == Run \cup {"closing"}
Untouched == file = 0 /\ known = 0 /\ copy = 0 /\ object = 0 /\ \A u \in Uploads : up[u].at = "none"
FreshUntilRun == row.status = "unborn" \/ Offered \/ pod = "fetching" => Untouched

\* The stats of the file, of what was uploaded, and of the uploads in progress.
StatsOK ==
  /\ known \in Nat /\ object \in Nat /\ copy \in Nat \cup {Mixed}
  /\ pod \in AtWork => known <= file /\ (file = 0 => copy = 0 /\ object = 0)
  /\ pod \notin AtWork => file = 0
  /\ up["sync"].at # "none" => pod \in Run /\ known < file /\ up["sync"].stat <= file
  /\ up["run"].at # "none" => up["run"].stat = file

\* What the studio has of the file as it is now.
HasFile ==
  /\ storage = "broker" => copy \in {file, Mixed}
  /\ storage = "minio" => object \in {0, file}
KnownIsThere ==
  /\ storage \in {"broker", "minio"}
  /\ known = file /\ file # 0 /\ Exists => HasFile /\ copy \in {file, Mixed}
  /\ up["sync"].at = "sent" /\ up["sync"].stat = file /\ Exists => HasFile
FlushedOrExcused ==
  pod = "closing" /\ lost = 0 /\ crashes = 0 /\ ~expired /\ Exists => Synced

SyncInv == FreshUntilRun /\ StatsOK /\ KnownIsThere /\ FlushedOrExcused

Inv ==
  /\ RowOK /\ LaunchOK /\ MachineOK /\ PodOK /\ BusyAlone /\ Backed /\ HeldBriefly
  /\ RentedIsRecorded /\ UnrentedIsFailed /\ OlderUnharmed /\ ManifestBacked
  /\ SyncInv

-----------------------------------------------------------------------------
(* What a step does to a row that has been submitted *)

\* The row keeps its shape, its machine and its deletion; it is never put back on
\* offer, and a local worker claims only what is on offer.
RowChange ==
  /\ RowOK'
  /\ row.instance => (row'.instance \/ row'.status = "deleted")
  /\ row.status = "deleted" => row'.status = "deleted"
  /\ row'.status = "unborn" <=> row.status = "unborn"
  /\ row'.status = "queued" => row.status = "queued"
  /\ Offered' => Offered
  /\ row'.claimed_by = "local" => (row.claimed_by = "local" \/ Offered)
  /\ row'.manifest => (row.manifest \/ (pod = "uploaded" /\ row.status # "deleted"))

\* Every step of the dispatch, the pod, the uploads and the sweep: the row as it
\* was, or one field of it written.
LEMMA RowOfPod ==
  ASSUME RowOK,
         \/ row' = row
         \/ Update([row EXCEPT !.status = "working"])
         \/ Update([row EXCEPT !.manifest = TRUE]) /\ pod = "uploaded"
         \/ Update([row EXCEPT !.instance = TRUE])
         \/ Update([row EXCEPT !.status = "ready"])
         \/ Update([row EXCEPT !.status = "failed"])
         \/ Update([row EXCEPT !.status = outcome]) /\ outcome \in Terminal
         \/ row.claimed_by = "pod" /\ row' = [row EXCEPT !.stale = FALSE]
         \/ row.claimed_by = "pod" /\ row' = [row EXCEPT !.stale = TRUE]
         \/ Offered /\ row' = [row EXCEPT !.claimed_by = "pod", !.stale = FALSE]
  PROVE  RowChange
<1> USE DEF RowOK, Row, Update, Exists, Running, Terminal, Offered, RowChange
<1>1. CASE row' = row
  BY <1>1
<1>2. CASE Update([row EXCEPT !.status = "working"])
  BY <1>2
<1>3. CASE Update([row EXCEPT !.status = "ready"])
  BY <1>3
<1>4. CASE Update([row EXCEPT !.status = "failed"])
  BY <1>4
<1>5. CASE Update([row EXCEPT !.manifest = TRUE]) /\ pod = "uploaded"
  BY <1>5
<1>6. CASE Update([row EXCEPT !.instance = TRUE])
  BY <1>6
<1>7. CASE Update([row EXCEPT !.status = outcome]) /\ outcome \in Terminal
  BY <1>7
<1>8. CASE row.claimed_by = "pod" /\ row' = [row EXCEPT !.stale = FALSE]
  BY <1>8
<1>9. CASE row.claimed_by = "pod" /\ row' = [row EXCEPT !.stale = TRUE]
  BY <1>9
<1>10. CASE Offered /\ row' = [row EXCEPT !.claimed_by = "pod", !.stale = FALSE]
  BY <1>10
<1> QED BY <1>1, <1>2, <1>3, <1>4, <1>5, <1>6, <1>7, <1>8, <1>9, <1>10

LEMMA RowOfOthers ==
  ASSUME RowOK, Sweep \/ LocalClaim \/ LocalRun \/ Stop \/ Delete
  PROVE  RowChange
<1> USE DEF RowOK, Row, Exists, Running, Terminal, Offered, RowChange
<1>1. CASE Sweep
  BY <1>1 DEF Sweep
<1>2. CASE LocalClaim
  BY <1>2 DEF LocalClaim
<1>3. CASE LocalRun
  BY <1>3 DEF LocalRun
<1>4. CASE Stop
  BY <1>4 DEF Stop
<1>5. CASE Delete
  BY <1>5 DEF Delete
<1> QED BY <1>1, <1>2, <1>3, <1>4, <1>5

LEMMA RowStep ==
  ASSUME RowOK, outcome \in Terminal, Next, ~(Dispatch /\ Submit)
  PROVE  RowChange
<1>1. CASE Boot \/ Write \/ Watch \/ Return \/ TakeOlder \/ Expire \/ ApiCrash \/ Preempt \/ TearDown
  BY <1>1, RowOfPod DEF Boot, Write, Watch, Return, TakeOlder, Expire, ApiCrash, Preempt, TearDown,
                        Teardown, dispatchVars
<1>2. CASE Claiming
  BY <1>2, RowOfPod DEF Claiming, ClaimLook, ClaimNext, ClaimRelease, dispatchVars
<1>3. CASE PodStep
  BY <1>3, RowOfPod DEF PodStep, Ask4Job, NoAnswer, Fetch, SetManifest, SetReady, PublishReady, SetError,
                        SetOutcome, StopSync, Flush, Close, Answered, Unanswered, dispatchVars
<1>4. CASE Report \/ Raise
  BY <1>4, RowOfPod DEF Report, Raise, Answered, Unanswered
<1>5. CASE \E u \in Uploads : Upload(u)
  BY <1>5, RowOfPod DEF Upload, Open, Fail, Publish, PublishLate, PutObject, Commit, CommitFails,
                        UploadUnchanged
<1>6. CASE Beat \/ GoStale \/ BeatsLost
  BY <1>6, RowOfPod DEF Beat, GoStale, BeatsLost
<1>7. CASE Sweep \/ LocalClaim \/ LocalRun \/ Stop \/ Delete
  BY <1>7, RowOfOthers
<1>8. CASE Dispatch
  BY <1>8, RowOfPod DEF Dispatch, Resolve, PreflightRefused, EnforceCaps, Ask, Create, Book, FailJob
<1> QED BY <1>1, <1>2, <1>3, <1>4, <1>5, <1>6, <1>7, <1>8 DEF Next

-----------------------------------------------------------------------------
(* What a step that is not the dispatch's does to the machine and the dispatch *)

MachineChange ==
  /\ \/ machine' = machine
     \/ machine # "none" /\ machine' = "gone"
     \/ machine = "booting" /\ machine' = "up"
  /\ pod' # "off" => machine' = "up"
  /\ lost' \in Nat /\ lost' >= lost
  /\ crashes' \in Nat /\ crashes' >= crashes
  /\ \/ launch' = launch
     \/ launch.at # "new" /\ launch' = Idle("over") /\ crashes' > 0

LEMMA MachineStep ==
  ASSUME MachineOK, PodOK, lost \in Nat, crashes \in Nat, Next, ~Dispatch
  PROVE  MachineChange
<1> USE DEF MachineOK, PodOK, MachineChange, Lose
<1>1. CASE Boot
  BY <1>1 DEF Boot
<1>2. CASE Claiming
  BY <1>2 DEF Claiming, ClaimLook, ClaimNext, ClaimRelease, dispatchVars, podVars
<1>3. CASE Ask4Job \/ NoAnswer \/ Fetch
  BY <1>3 DEF Ask4Job, NoAnswer, Fetch, GoRound
<1>4. CASE SetManifest \/ SetReady \/ PublishReady \/ SetError \/ SetOutcome \/ Report \/ Raise
  BY <1>4 DEF SetManifest, SetReady, PublishReady, SetError, SetOutcome, Report, Raise, Answered,
              Unanswered, Catch, RunUnchanged, podVars
<1>5. CASE StopSync \/ Flush \/ Write \/ Watch \/ Return
  BY <1>5 DEF StopSync, Flush, Write, Watch, Return, dispatchVars, podVars
<1>6. CASE Close
  BY <1>6 DEF Close, Answered, Unanswered, GoRound
<1>7. CASE \E u \in Uploads : Upload(u)
  <2>1. PICK u \in Uploads : Upload(u)
    BY <1>7
  <2>2. machine' = machine /\ crashes' = crashes /\ launch' = launch
    BY <2>1 DEF Upload, Open, Fail, Publish, PublishLate, PutObject, Commit, CommitFails, UploadUnchanged,
                otherVars
  <2>3. lost' \in Nat /\ lost' >= lost
    BY <2>1 DEF Upload, Open, Fail, Publish, PublishLate, PutObject, Commit, CommitFails
  <2>4. pod' = pod \/ pod = "produced"
    <3>1. CASE Open(u) \/ Publish(u) \/ PutObject(u)
      BY <3>1 DEF Open, Publish, PutObject, podVars
    <3>2. CASE Fail(u) \/ PublishLate(u) \/ Commit(u) \/ CommitFails(u)
      <4>1. u = "run" => pod = "produced"
        BY <3>2 DEF Fail, PublishLate, Commit, CommitFails
      <4>2. u # "run" => pod' = pod
        BY <3>2 DEF Fail, PublishLate, Commit, CommitFails, GiveUp, podVars, Uploads
      <4> QED BY <4>1, <4>2
    <3> QED BY <2>1, <3>1, <3>2 DEF Upload
  <2> QED BY <2>2, <2>3, <2>4
<1>8. CASE Beat \/ GoStale \/ BeatsLost \/ Sweep \/ LocalClaim \/ LocalRun \/ Stop
  <2>1. launch' = launch /\ machine' = machine /\ crashes' = crashes /\ pod' = pod
    BY <1>8 DEF Beat, GoStale, BeatsLost, Sweep, BeatUnchanged, LocalClaim, LocalRun, Stop, LocalUnchanged,
                podVars
  <2>2. lost' \in Nat /\ lost' >= lost
    <3>1. lost' = lost \/ lost' = lost + 1
      <4> HIDE DEF MachineOK, PodOK, MachineChange
      <4> QED BY <1>8 DEF Beat, GoStale, BeatsLost, Sweep, LocalClaim, LocalRun, Stop, LocalUnchanged
    <3> QED BY <3>1
  <2> QED BY <2>1, <2>2
<1>9. CASE TakeOlder \/ Expire
  BY <1>9 DEF TakeOlder, Expire, dispatchVars, podVars
<1>10. CASE Delete
  BY <1>10 DEF Delete, CutUploads, Catch, podVars
<1>11. CASE ApiCrash
  BY <1>11 DEF ApiCrash, CutUploads, Catch, podVars
<1>12. CASE Preempt
  BY <1>12 DEF Preempt, Stopped
<1>13. CASE TearDown
  <2>1. /\ machine' = "gone" \/ machine' = machine
        /\ launch' = launch /\ lost' = lost /\ crashes' = crashes /\ machine # "none"
        /\ IF machine' = "gone" THEN pod' = "off" ELSE pod' = pod
    BY <1>13 DEF TearDown, Teardown, Stopped, podVars
  <2> QED BY <2>1
<1> QED BY <1>1, <1>2, <1>3, <1>4, <1>5, <1>6, <1>7, <1>8, <1>9, <1>10, <1>11, <1>12, <1>13
        DEF Next, PodStep
RentInv == RowOK /\ LaunchOK /\ MachineOK /\ RentedIsRecorded /\ UnrentedIsFailed

LEMMA RentAlone ==
  ASSUME RentInv, RowChange, MachineChange
  PROVE  RentInv'
<1> USE DEF RentInv, RowChange, MachineChange, Idle
<1>1. LaunchOK'
  BY DispatchAssumption DEF LaunchOK, LaunchAt
<1>2. MachineOK'
  BY DEF LaunchOK, MachineOK
<1>4. RentedIsRecorded'
  BY DEF LaunchOK, MachineOK, RentedIsRecorded
<1>5. UnrentedIsFailed'
  BY DEF LaunchOK, MachineOK, UnrentedIsFailed
<1> QED BY <1>1, <1>2, <1>4, <1>5

\* POST /api/jobs, await by await.
LEMMA RentStep ==
  ASSUME RentInv, PodOK, Dispatch, ~Submit, RowChange
  PROVE  RentInv'
<1> USE DEF RentInv
<1>0. /\ pod' = pod /\ crashes' = crashes /\ lost \in Nat /\ crashes \in Nat
      /\ launch.at \in LaunchAt /\ launch.cap \in Nat \cup {NoCap}
      /\ launch = [at |-> launch.at, cap |-> launch.cap]
  BY DEF Dispatch, podVars, Resolve, PreflightRefused, EnforceCaps, Ask, Create, Book, FailJob, LaunchOK
<1>1. CASE Resolve \/ PreflightRefused
  <2>1. /\ row' = row /\ machine' = machine /\ lost' = lost /\ launch.at \in {"resolving", "pricing"}
        /\ launch' \in {[launch EXCEPT !.at = "pricing"], Idle("failing")}
    BY <1>1 DEF Resolve, PreflightRefused
  <2> QED BY <1>0, <2>1, DispatchAssumption
          DEF LaunchOK, LaunchAt, MachineOK, RentedIsRecorded, UnrentedIsFailed, Idle, RowOK, Exists
<1>2. CASE EnforceCaps
  <2>1. /\ row' = row /\ machine' = machine /\ lost' = lost /\ launch.at = "pricing"
        /\ launch' \in {Idle("calling"), Idle("failing")}
    BY <1>2 DEF EnforceCaps
  <2> QED BY <1>0, <2>1, DispatchAssumption
          DEF LaunchOK, LaunchAt, MachineOK, RentedIsRecorded, UnrentedIsFailed, Idle, RowOK, Exists
<1>3. CASE Ask
  <2>1. /\ row' = row /\ machine' = machine /\ lost' \in Nat /\ launch.at = "calling"
        /\ launch' \in {Idle("creating"), Idle("failing")}
    BY <1>0, <1>3 DEF Ask, Lose
  <2> QED BY <1>0, <2>1, DispatchAssumption
          DEF LaunchOK, LaunchAt, MachineOK, RentedIsRecorded, UnrentedIsFailed, Idle, RowOK, Exists
<1>4. CASE Create
  <2>1. /\ row' = row /\ launch.at = "creating"
        /\ \/ /\ machine' = "booting" /\ launch' = [launch EXCEPT !.at = "booking"] /\ lost' = lost
           \/ /\ launch' = [launch EXCEPT !.at = "failing"] /\ machine' = machine /\ lost' = lost
           \/ /\ launch' = [launch EXCEPT !.at = "failing"] /\ machine' = "booting" /\ lost' = lost + 1
    BY <1>4 DEF Create, Lose
  <2> QED BY <1>0, <2>1
          DEF LaunchOK, LaunchAt, MachineOK, RentedIsRecorded, UnrentedIsFailed, RowOK, Exists
<1>5. CASE Book
  <2>1. /\ machine' = machine /\ lost' = lost /\ launch.at = "booking" /\ launch' = Idle("over")
        /\ row' = IF Exists THEN [row EXCEPT !.instance = TRUE] ELSE row
    BY <1>5 DEF Book, Update
  <2>2. row'.instance \/ row'.status = "deleted"
    BY <2>1 DEF LaunchOK, RowOK, Row, Exists, Running, Terminal
  <2> QED BY <1>0, <2>1, <2>2, DispatchAssumption
          DEF LaunchOK, LaunchAt, MachineOK, RentedIsRecorded, UnrentedIsFailed, Idle, RowChange
<1>6. CASE FailJob
  <2>1. /\ machine' = machine /\ lost' = lost /\ launch.at = "failing" /\ launch' = Idle("over")
        /\ row' = IF Exists THEN [row EXCEPT !.status = "failed"] ELSE row
    BY <1>6 DEF FailJob, Update
  <2>2. row'.status # "queued"
    BY <2>1 DEF RowOK, Row, Exists, Running, Terminal
  <2> QED BY <1>0, <2>1, <2>2, DispatchAssumption
          DEF LaunchOK, LaunchAt, MachineOK, RentedIsRecorded, UnrentedIsFailed, Idle, RowChange
<1> QED BY <1>1, <1>2, <1>3, <1>4, <1>5, <1>6 DEF Dispatch

\* The INSERT.
LEMMA SubmitStep ==
  ASSUME RentInv, Submit, pod' = pod
  PROVE  RentInv'
<1>1. PICK cap \in JobCaps \cup {NoCap} : launch' = [at |-> "resolving", cap |-> cap]
  BY DEF Submit
<1>2. /\ launch.at = "new" /\ row.status = "unborn" /\ row' = [row EXCEPT !.status = "queued"]
      /\ UNCHANGED <<machine, lost, crashes, vendor>> /\ machine = "none"
  BY DEF RentInv, LaunchOK, MachineOK, Submit
<1>3. RowOK'
  BY <1>2 DEF RentInv, RowOK, Row, Exists, Running, Terminal
<1> QED BY <1>1, <1>2, <1>3, DispatchAssumption
        DEF RentInv, LaunchOK, LaunchAt, MachineOK, RentedIsRecorded, UnrentedIsFailed, RowOK, Row
-----------------------------------------------------------------------------
(* The pod and its uploads *)

\* Steps in which no upload and no artifact changes.
LEMMA PodQuiet ==
  ASSUME PodOK, up' = up, file' = file, outcome' \in Terminal,
         pod' = pod \/ (pod # "produced" /\ pod' # "produced")
  PROVE  PodOK'
BY DEF PodOK

LEMMA NoUploads ==
  ASSUME up' = [u \in Uploads |-> NoUpload]
  PROVE  /\ up' \in [Uploads -> [stat : Nat, at : {"none", "open", "sent"}, over : Nat, torn : BOOLEAN]]
         /\ \A u \in Uploads : up'[u].at = "none"
BY DEF NoUpload

LEMMA UploadStep ==
  ASSUME PodOK, NEW u \in Uploads, Upload(u)
  PROVE  PodOK'
<1> USE DEF PodOK
<1>0. /\ file' = file /\ "run" \in Uploads /\ up[u] \in [stat : Nat, at : {"none", "open", "sent"}, over : Nat, torn : BOOLEAN]
      /\ Other(u) \in Uploads /\ Other(u) # u
  BY DEF Upload, Open, Fail, Publish, PublishLate, PutObject, Commit, CommitFails, UploadUnchanged, Uploads,
         Other
<1>1. CASE Open(u)
  <2>1. /\ up' = [v \in Uploads |->
              IF v = u THEN [stat |-> file, at |-> "open", over |-> 0, torn |-> FALSE]
              ELSE IF up[v].at = "open" /\ up[v].over = 0 THEN [up[v] EXCEPT !.torn = TRUE]
              ELSE up[v]]
        /\ file # 0 /\ pod' = pod /\ outcome' = outcome /\ (u = "run" => pod = "produced")
    BY <1>1 DEF Open, MaySync, podVars, Uploads
  <2>2. up' \in [Uploads -> [stat : Nat, at : {"none", "open", "sent"}, over : Nat, torn : BOOLEAN]]
    BY <2>1
  <2>3. \A v \in Uploads : v # u => up'[v].at = up[v].at /\ up'[v].stat = up[v].stat
    BY <2>1
  <2>4. up'[u].stat # 0
    BY <2>1
  <2> QED BY <1>0, <2>1, <2>2, <2>3, <2>4
<1>2. ASSUME GiveUp(u), up[u].at # "none" \/ (u = "run" /\ pod = "produced") PROVE PodOK'
  <2>1. /\ up' \in [Uploads -> [stat : Nat, at : {"none", "open", "sent"}, over : Nat, torn : BOOLEAN]]
        /\ up'[u].at = "none" /\ \A v \in Uploads \ {u} : up'[v] = up[v]
    BY <1>2 DEF GiveUp, NoUpload
  <2>2. CASE u = "run"
    <3>1. pod' = "noting" /\ outcome' = "failed"
      BY <1>2, <2>2 DEF GiveUp, Catch
    <3> QED BY <1>0, <2>1, <2>2, <3>1 DEF Terminal
  <2>3. CASE u # "run"
    <3>1. pod' = pod /\ outcome' = outcome
      BY <1>2, <2>3 DEF GiveUp, podVars
    <3> QED BY <1>0, <2>1, <2>3, <3>1
  <2> QED BY <2>2, <2>3
<1>3. CASE Fail(u)
  BY <1>2, <1>3 DEF Fail
<1>4. CASE Publish(u)
  <2> DEFINE o == up[Other(u)]
             new == IF o.at = "open" /\ o.over = 0 THEN [o EXCEPT !.over = up[u].stat] ELSE o
  <2>1. /\ up' = [v \in Uploads |-> IF v = u THEN [up[u] EXCEPT !.at = "sent"] ELSE new]
        /\ up[u].at = "open" /\ pod' = pod /\ outcome' = outcome
    BY <1>4 DEF Publish, podVars
  <2>2. /\ new \in [stat : Nat, at : {"none", "open", "sent"}, over : Nat, torn : BOOLEAN]
        /\ new.stat = o.stat /\ new.at = o.at
    BY <1>0
  <2> HIDE DEF new
  <2>3. /\ up' \in [Uploads -> [stat : Nat, at : {"none", "open", "sent"}, over : Nat, torn : BOOLEAN]]
        /\ up'[u].at = "sent" /\ up'[u].stat = up[u].stat
        /\ \A v \in Uploads \ {u} : up'[v] = new
    BY <1>0, <2>1, <2>2
  <2>4. \A v \in Uploads \ {u} : v = Other(u)
    BY DEF Uploads, Other
  <2>5. \A v \in Uploads : up'[v].at # "none" => up'[v].stat # 0
    BY <1>0, <2>1, <2>2, <2>3, <2>4
  <2>6. up'["run"].at # "none" => pod = "produced"
    BY <1>0, <2>1, <2>2, <2>3, <2>4
  <2> QED BY <1>0, <2>1, <2>3, <2>5, <2>6
<1>5. CASE PublishLate(u)
  BY <1>2, <1>5 DEF PublishLate
<1>6. CASE PutObject(u)
  <2>1. /\ up' = [up EXCEPT ![u].at = "sent"] /\ up[u].at = "open" /\ pod' = pod /\ outcome' = outcome
    BY <1>6 DEF PutObject, podVars
  <2> QED BY <1>0, <2>1
<1>7. CASE Commit(u)
  <2>1. /\ up' = [up EXCEPT ![u] = NoUpload] /\ outcome' = outcome
        /\ u = "run" => pod' = "uploaded"
        /\ u # "run" => pod' = pod
    BY <1>7 DEF Commit, podVars, Uploads
  <2>2. /\ up' \in [Uploads -> [stat : Nat, at : {"none", "open", "sent"}, over : Nat, torn : BOOLEAN]]
        /\ up'[u].at = "none" /\ \A v \in Uploads \ {u} : up'[v] = up[v]
    BY <2>1 DEF NoUpload
  <2> QED BY <1>0, <2>1, <2>2
<1>8. CASE CommitFails(u)
  BY <1>2, <1>8 DEF CommitFails
<1> QED BY <1>1, <1>3, <1>4, <1>5, <1>6, <1>7, <1>8 DEF Upload

LEMMA CutStep ==
  ASSUME PodOK, CutUploads, file' = file
  PROVE  PodOK'
<1>1. /\ pod' \in {pod, "noting"} /\ outcome' \in {outcome, "failed"}
      /\ up' = [u \in Uploads |-> NoUpload]
  BY DEF CutUploads, Catch, podVars
<1>2. "run" \in Uploads
  BY DEF Uploads
<1> QED BY <1>1, <1>2, NoUploads DEF PodOK, Terminal

LEMMA PodKeeps ==
  ASSUME PodOK, MachineOK, Next
  PROVE  PodOK'
<1>0. outcome \in Terminal /\ "run" \in Uploads
  BY DEF PodOK, Uploads
<1>1. CASE Dispatch \/ Watch \/ TakeOlder \/ Expire
  BY <1>0, <1>1, PodQuiet DEF Dispatch, Watch, TakeOlder, Expire, podVars, syncVars
<1>2. CASE Claiming
  BY <1>0, <1>2, PodQuiet DEF Claiming, ClaimLook, ClaimNext, ClaimRelease, podVars, syncVars
<1>3. CASE Boot
  BY <1>0, <1>3, PodQuiet DEF Boot, syncVars, MachineOK
<1>4. CASE Ask4Job \/ NoAnswer \/ Fetch
  BY <1>0, <1>4, PodQuiet DEF Ask4Job, NoAnswer, Fetch, GoRound, syncVars
<1>5. CASE SetManifest \/ SetReady \/ PublishReady \/ SetError \/ SetOutcome \/ Report \/ Raise
  <2>1. outcome' \in Terminal
    BY <1>0, <1>5 DEF SetManifest, SetReady, PublishReady, SetError, SetOutcome, Report, Raise, Catch, Terminal,
                      podVars
  <2>2. up' = up /\ file' = file
    BY <1>5 DEF SetManifest, SetReady, PublishReady, SetError, SetOutcome, Report, Raise, RunUnchanged, syncVars
  <2>3. pod # "produced" /\ pod' # "produced"
    BY <1>5 DEF SetManifest, SetReady, PublishReady, SetError, SetOutcome, Report, Raise, Catch, podVars
  <2> QED BY <2>1, <2>2, <2>3, PodQuiet
<1>6. CASE Flush
  BY <1>0, <1>6, PodQuiet DEF Flush, syncVars
<1>7. CASE StopSync
  BY <1>0, <1>7, NoUploads DEF StopSync, PodOK
<1>8. CASE Close
  <2>1. /\ pod = "closing" /\ pod' \in {"off", "polling"} /\ file' = 0 /\ outcome' = "ready" /\ up' = up
    BY <1>8 DEF Close, GoRound
  <2> QED BY <1>0, <2>1 DEF PodOK, Terminal
<1>9. CASE Write
  BY <1>0, <1>9 DEF Write, PodOK, podVars
<1>10. CASE Return
  BY <1>0, <1>10 DEF Return, PodOK, syncVars, Whole
<1>11. CASE \E u \in Uploads : Upload(u)
  BY <1>11, UploadStep
<1>12. CASE Beat \/ GoStale \/ BeatsLost \/ Sweep
  BY <1>0, <1>12, PodQuiet DEF Beat, GoStale, BeatsLost, Sweep, BeatUnchanged, podVars, syncVars
<1>13. CASE LocalClaim \/ LocalRun \/ Stop
  BY <1>0, <1>13, PodQuiet DEF LocalClaim, LocalRun, Stop, LocalUnchanged, podVars, syncVars
<1>14. CASE Delete \/ ApiCrash
  BY <1>14, CutStep DEF Delete, ApiCrash
<1>15. CASE Preempt \/ TearDown
  <2>1. CASE Stopped
    BY <1>0, <2>1, NoUploads DEF Stopped, PodOK, Terminal
  <2>2. CASE UNCHANGED <<podVars, syncVars, otherVars>>
    BY <1>0, <2>2, PodQuiet DEF podVars, syncVars
  <2> QED BY <1>15, <2>1, <2>2 DEF Preempt, TearDown
<1> QED BY <1>1, <1>2, <1>3, <1>4, <1>5, <1>6, <1>7, <1>8, <1>9, <1>10, <1>11, <1>12, <1>13, <1>14, <1>15
        DEF Next, PodStep
-----------------------------------------------------------------------------
(* One runner *)

\* The pod is at work on the job only after a claim that gave it the row.
LEMMA BusyByClaim ==
  ASSUME PodOK, RowOK, Next, pod' \in Busy
  PROVE  pod \in Busy \/ row'.claimed_by = "pod"
<1> USE DEF Busy, Run, Body, Handler
<1>1. CASE Dispatch \/ Watch \/ TakeOlder \/ Expire \/ Boot
  BY <1>1 DEF Dispatch, Watch, TakeOlder, Expire, Boot, podVars
<1>2. CASE Claiming
  <2>1. CASE ClaimNext
    <3>1. CASE pod' = pod
      BY <3>1
    <3>2. CASE pod' # pod
      <4>1. row' = [row EXCEPT !.claimed_by = "pod", !.stale = FALSE]
        BY <2>1, <3>2 DEF ClaimNext
      <4> QED BY <4>1 DEF RowOK, Row
    <3> QED BY <3>1, <3>2
  <2>2. CASE ClaimLook \/ ClaimRelease
    BY <2>2 DEF ClaimLook, ClaimRelease, podVars
  <2> QED BY <1>2, <2>1, <2>2 DEF Claiming
<1>3. CASE PodStep \/ Report \/ Write \/ Return \/ Raise
  BY <1>3 DEF PodStep, Ask4Job, NoAnswer, Fetch, SetManifest, SetReady, PublishReady, SetError, SetOutcome,
              StopSync, Flush, Close, GoRound, Report, Write, Return, Raise, podVars
<1>4. CASE \E u \in Uploads : Upload(u)
  <2>1. PICK u \in Uploads : Upload(u)
    BY <1>4
  <2>2. CASE Open(u) \/ Publish(u) \/ PutObject(u)
    BY <2>2 DEF Open, Publish, PutObject, podVars
  <2>3. CASE Fail(u) \/ PublishLate(u) \/ Commit(u) \/ CommitFails(u)
    <3>1. u = "run" => pod = "produced"
      BY <2>3 DEF Fail, PublishLate, Commit, CommitFails, PodOK
    <3>2. u # "run" => pod' = pod
      BY <2>3 DEF Fail, PublishLate, Commit, CommitFails, GiveUp, podVars, Uploads
    <3> QED BY <3>1, <3>2
  <2> QED BY <2>1, <2>2, <2>3 DEF Upload
<1>5. CASE Beat \/ GoStale \/ BeatsLost \/ Sweep \/ LocalClaim \/ LocalRun \/ Stop
  BY <1>5 DEF Beat, GoStale, BeatsLost, Sweep, BeatUnchanged, LocalClaim, LocalRun, Stop, LocalUnchanged, podVars
<1>6. CASE Delete \/ ApiCrash
  BY <1>6 DEF Delete, ApiCrash, CutUploads, Catch, podVars
<1>7. CASE Preempt \/ TearDown
  BY <1>7 DEF Preempt, TearDown, Stopped, podVars
<1> QED BY <1>1, <1>2, <1>3, <1>4, <1>5, <1>6, <1>7 DEF Next

LEMMA BusyStep ==
  ASSUME PodOK, BusyAlone, Next, RowOK, RowChange
  PROVE  BusyAlone'
<1> SUFFICES ASSUME pod' \in Busy PROVE row'.claimed_by # "local" /\ ~Offered'
  BY DEF BusyAlone
<1>1. CASE pod \in Busy
  BY <1>1 DEF BusyAlone, RowChange
<1>2. CASE row'.claimed_by = "pod"
  BY <1>2 DEF Offered
<1> QED BY <1>1, <1>2, BusyByClaim

-----------------------------------------------------------------------------
(* What the manifest names *)

\* The artifact is not taken back, unless with the job.
LEMMA CopyKept ==
  ASSUME PodOK, Next
  PROVE  \/ copy' = copy \/ copy' # 0
         \/ row'.status = "deleted" /\ row'.manifest = FALSE /\ up' = [u \in Uploads |-> NoUpload]
<1>1. CASE \E u \in Uploads : Upload(u)
  <2>1. PICK u \in Uploads : Upload(u)
    BY <1>1
  <2>2. CASE Publish(u)
    <3>1. copy' \in {Mixed, up[u].stat}
      BY <2>2 DEF Publish
    <3>2. up[u].stat # 0 /\ Mixed # 0
      BY <2>2, RemoteAssumption DEF Publish, PodOK
    <3> QED BY <3>1, <3>2
  <2>3. CASE PublishLate(u)
    <3>1. copy' \in {Mixed, up[u].stat}
      BY <2>3 DEF PublishLate
    <3>2. up[u].stat # 0 /\ Mixed # 0
      BY <2>3, RemoteAssumption DEF PublishLate, PodOK
    <3> QED BY <3>1, <3>2
  <2>4. CASE Open(u) \/ Fail(u) \/ PutObject(u) \/ Commit(u) \/ CommitFails(u)
    BY <2>4 DEF Open, Fail, PutObject, Commit, CommitFails
  <2> QED BY <2>1, <2>2, <2>3, <2>4 DEF Upload
<1>2. CASE Delete
  BY <1>2 DEF Delete, CutUploads
<1>3. CASE Dispatch \/ Boot \/ Watch \/ TakeOlder \/ Expire \/ Write \/ Return \/ Raise \/ Report
  BY <1>3 DEF Dispatch, Boot, Watch, TakeOlder, Expire, Write, Return, Raise, Report, RunUnchanged, syncVars
<1>4. CASE Claiming \/ PodStep
  BY <1>4 DEF Claiming, ClaimLook, ClaimNext, ClaimRelease, PodStep, Ask4Job, NoAnswer, Fetch, SetManifest,
              SetReady, PublishReady, SetError, SetOutcome, StopSync, Flush, Close, RunUnchanged, syncVars
<1>5. CASE Beat \/ GoStale \/ BeatsLost \/ Sweep \/ LocalClaim \/ LocalRun \/ Stop
  BY <1>5 DEF Beat, GoStale, BeatsLost, Sweep, BeatUnchanged, LocalClaim, LocalRun, Stop, LocalUnchanged, syncVars
<1>6. CASE ApiCrash \/ Preempt \/ TearDown
  BY <1>6 DEF ApiCrash, Preempt, TearDown, Stopped, syncVars
<1> QED BY <1>1, <1>2, <1>3, <1>4, <1>5, <1>6 DEF Next
\* The run's upload is over by its commit, and with the broker sent by its rename.
LEMMA UploadedBy ==
  ASSUME PodOK, Next
  PROVE  /\ pod' = "uploaded" => pod = "uploaded" \/ Commit("run")
         /\ storage' = storage
         /\ up'["run"].at = "sent" => up["run"].at = "sent" \/ Publish("run") \/ storage = "minio"
<1>0. "run" \in Uploads /\ NoUpload.at = "none"
  BY DEF Uploads, NoUpload
<1>1. CASE \E u \in Uploads : Upload(u)
  <2>1. PICK u \in Uploads : Upload(u)
    BY <1>1
  <2>2. storage' = storage
    BY <2>1 DEF Upload, Open, Fail, Publish, PublishLate, PutObject, Commit, CommitFails, UploadUnchanged, otherVars
  <2>3. CASE u = "run"
    <3>1. CASE Publish(u) \/ PutObject(u)
      BY <2>2, <2>3, <3>1 DEF Publish, PutObject, podVars
    <3>2. CASE Commit(u)
      BY <1>0, <2>2, <2>3, <3>2 DEF Commit, PodOK
    <3>3. CASE GiveUp(u)
      BY <1>0, <2>2, <2>3, <3>3 DEF GiveUp, Catch, PodOK
    <3>4. CASE Open(u)
      BY <1>0, <2>2, <2>3, <3>4 DEF Open, podVars
    <3> QED BY <2>1, <3>1, <3>2, <3>3, <3>4 DEF Upload, Fail, PublishLate, CommitFails
  <2>4. CASE u # "run"
    <3>1. pod' = pod
      BY <2>1, <2>4 DEF Upload, Open, Fail, Publish, PublishLate, PutObject, Commit, CommitFails, GiveUp, podVars,
                        Uploads
    <3>2. CASE Open(u)
      BY <1>0, <2>2, <2>4, <3>1, <3>2 DEF Open, PodOK
    <3>3. CASE Publish(u)
      <4>1. up'["run"] = up["run"] \/ up'["run"] = [up["run"] EXCEPT !.over = up[u].stat]
        BY <1>0, <2>4, <3>3 DEF Publish, Other, Uploads
      <4>2. up'["run"].at = up["run"].at
        BY <1>0, <4>1 DEF PodOK
      <4> QED BY <2>2, <3>1, <4>2
    <3>4. CASE Fail(u) \/ PublishLate(u) \/ PutObject(u) \/ Commit(u) \/ CommitFails(u)
      <4>1. up'["run"] = up["run"]
        BY <1>0, <2>4, <3>4 DEF Fail, PublishLate, PutObject, Commit, CommitFails, GiveUp, PodOK
      <4> QED BY <2>2, <3>1, <4>1
    <3> QED BY <2>1, <3>2, <3>3, <3>4 DEF Upload
  <2> QED BY <2>3, <2>4
<1>2. CASE Dispatch \/ Boot \/ Watch \/ TakeOlder \/ Expire \/ Write \/ Return \/ Raise \/ Report
  BY <1>2 DEF Dispatch, Boot, Watch, TakeOlder, Expire, Write, Return, Raise, Report, RunUnchanged, Catch,
              syncVars, podVars, otherVars
<1>3. CASE Claiming
  BY <1>3 DEF Claiming, ClaimLook, ClaimNext, ClaimRelease, syncVars, podVars
<1>4. CASE StopSync
  BY <1>0, <1>4 DEF StopSync, otherVars
<1>5. CASE PodStep /\ ~StopSync
  BY <1>5 DEF PodStep, Ask4Job, NoAnswer, Fetch, SetManifest, SetReady, PublishReady, SetError, SetOutcome,
              Flush, Close, GoRound, Catch, RunUnchanged, syncVars, podVars, otherVars
<1>6. CASE Beat \/ GoStale \/ BeatsLost \/ Sweep \/ LocalClaim \/ LocalRun \/ Stop
  BY <1>6 DEF Beat, GoStale, BeatsLost, Sweep, BeatUnchanged, LocalClaim, LocalRun, Stop, LocalUnchanged,
              syncVars, podVars, otherVars
<1>7. CASE Delete \/ ApiCrash
  BY <1>0, <1>7 DEF Delete, ApiCrash, CutUploads, Catch, podVars, otherVars
<1>8. CASE Preempt \/ TearDown
  BY <1>0, <1>8 DEF Preempt, TearDown, Stopped, syncVars, podVars, otherVars
<1> QED BY <1>1, <1>2, <1>3, <1>4, <1>5, <1>6, <1>7, <1>8 DEF Next

LEMMA BackedStep ==
  ASSUME PodOK, Backed, ManifestBacked, Next, RowChange
  PROVE  Backed' /\ ManifestBacked'
<1> DEFINE There == copy # 0 \/ row.status = "deleted"
<1>0. Mixed # 0 /\ "run" \in Uploads /\ NoUpload.at = "none"
  BY RemoteAssumption DEF Uploads, NoUpload
<1>1. There => There'
  BY CopyKept DEF RowChange
<1>2. Commit("run") => There'
  <2> SUFFICES ASSUME Commit("run") PROVE There'
    OBVIOUS
  <2>1. row' = row /\ up["run"].at = "sent"
    BY DEF Commit, UploadUnchanged
  <2>2. CASE storage = "broker"
    <3>1. There
      BY <2>1, <2>2 DEF Backed
    <3> QED BY <1>1, <3>1
  <2>3. CASE storage # "broker"
    BY <2>3 DEF Commit
  <2> QED BY <2>2, <2>3
<1>3. Publish("run") => There'
  <2> SUFFICES ASSUME Publish("run") PROVE copy' # 0
    OBVIOUS
  <2>1. copy' \in {Mixed, up["run"].stat} /\ up["run"].at = "open"
    BY DEF Publish
  <2> QED BY <1>0, <2>1 DEF PodOK
<1>4. Backed'
  <2>1. pod' = "uploaded" => There'
    BY <1>1, <1>2, UploadedBy DEF Backed
  <2>2. storage' = "broker" /\ up'["run"].at = "sent" => There'
    BY <1>1, <1>3, UploadedBy DEF Backed
  <2> QED BY <2>1, <2>2 DEF Backed
<1>5. ManifestBacked'
  <2> SUFFICES ASSUME row'.manifest PROVE copy' # 0
    BY DEF ManifestBacked
  <2>1. copy # 0
    BY DEF RowChange, ManifestBacked, Backed
  <2> QED BY <2>1, CopyKept
<1> QED BY <1>4, <1>5
-----------------------------------------------------------------------------
(* The last version, flushed *)

\* A job that is gone does not come back.
LEMMA ExistsBack ==
  ASSUME RowOK, RowChange
  PROVE  Exists' => Exists
BY DEF RowOK, RowChange, Row, Exists, Running, Terminal

\* A step that changes no stat, no copy and no upload, and takes the pod neither to
\* work nor away from it.
LEMMA SyncQuiet ==
  ASSUME SyncInv, RowOK, RowChange, syncVars' = syncVars, storage' = storage, pod' = pod \/ pod' \in Run,
         pod \in Run \/ pod' = pod, lost \in Nat, lost' >= lost, lost' \in Nat,
         crashes \in Nat, crashes' \in Nat, crashes' >= crashes, expired => expired'
  PROVE  SyncInv'
<1> USE DEF SyncInv, syncVars
<1>1. Exists' => Exists
  BY ExistsBack
<1>2. FreshUntilRun'
  BY DEF FreshUntilRun, Untouched, RowChange, Run, Body, Handler
<1>3. StatsOK'
  BY DEF StatsOK, AtWork
<1>4. KnownIsThere'
  BY <1>1 DEF KnownIsThere, HasFile
<1>5. FlushedOrExcused'
  BY <1>1 DEF FlushedOrExcused, Synced, Run, Body, Handler
<1> QED BY <1>2, <1>3, <1>4, <1>5

\* A step after which nothing is written or sent, as before it.
LEMMA SyncFresh ==
  ASSUME KnownIsThere, storage' = storage, Untouched', pod' # "closing"
  PROVE  SyncInv'
BY DEF SyncInv, FreshUntilRun, StatsOK, KnownIsThere, FlushedOrExcused, Untouched, Uploads

\* A step that takes the pod away from its work.
LEMMA SyncIdle ==
  ASSUME SyncInv, RowChange, pod' \notin AtWork, pod' # "fetching", file' = 0,
         known' \in {0, known}, copy' = copy, object' = object, storage' = storage,
         \A u \in Uploads : up'[u].at = "none", pod \in AtWork \/ file = 0
  PROVE  SyncInv'
<1> USE DEF SyncInv
<1>1. FreshUntilRun'
  BY DEF FreshUntilRun, Untouched, RowChange, Uploads
<1>2. StatsOK'
  BY DEF StatsOK, Uploads
<1>3. KnownIsThere' /\ FlushedOrExcused'
  BY DEF KnownIsThere, FlushedOrExcused, AtWork, Uploads
<1> QED BY <1>1, <1>2, <1>3
\* A step that cuts the uploads off; the copy goes only with the job.
LEMMA SyncCut ==
  ASSUME SyncInv, RowOK, RowChange, \A u \in Uploads : up'[u].at = "none", storage' = storage,
         file' = file, known' = known, object' = object, copy' = copy \/ (copy' = 0 /\ ~Exists'),
         pod' = pod \/ (pod \in Run /\ pod' \in Run), lost' = lost, lost \in Nat,
         crashes \in Nat, crashes' \in Nat, crashes' >= crashes, expired' = expired
  PROVE  SyncInv'
<1> USE DEF SyncInv
<1>1. Exists' => Exists /\ copy' = copy
  BY ExistsBack
<1>2. FreshUntilRun'
  BY DEF FreshUntilRun, Untouched, RowChange, Run, Body, Handler
<1>3. StatsOK'
  BY DEF StatsOK, AtWork, Uploads
<1>4. KnownIsThere'
  BY <1>1 DEF KnownIsThere, HasFile, Uploads
<1>5. FlushedOrExcused'
  BY <1>1 DEF FlushedOrExcused, Synced, Run, Body, Handler
<1> QED BY <1>2, <1>3, <1>4, <1>5

LEMMA SyncWrite ==
  ASSUME SyncInv, PodOK, BusyAlone, LaunchOK, MachineOK, Write
  PROVE  SyncInv'
<1>1. /\ pod = "running" /\ file' = file + 1 /\ file \in Nat /\ known' = known /\ copy' = copy
      /\ object' = object /\ up' = up /\ pod' = pod /\ row' = row /\ storage' = storage
  BY DEF Write, PodOK, dispatchVars, podVars, otherVars
<1>2. /\ up["run"].at = "none" /\ known <= file /\ known \in Nat
      /\ up["sync"].at # "none" => known < file /\ up["sync"].stat <= file /\ up["sync"].stat \in Nat
  BY <1>1 DEF SyncInv, StatsOK, PodOK, AtWork, Run, Body, Uploads
<1>3. row.status # "unborn" /\ ~Offered
  BY <1>1 DEF BusyAlone, Busy, Run, Body, LaunchOK, MachineOK
<1>4. FreshUntilRun'
  BY <1>1, <1>3 DEF FreshUntilRun, Offered
<1>5. StatsOK'
  BY <1>1, <1>2 DEF SyncInv, StatsOK, AtWork, Run, Body
<1>6. KnownIsThere' /\ FlushedOrExcused'
  BY <1>1, <1>2 DEF SyncInv, KnownIsThere, FlushedOrExcused
<1> QED BY <1>4, <1>5, <1>6 DEF SyncInv

\* An upload is a step of a run at work on a file that is there.
LEMMA UploadAtWork ==
  ASSUME SyncInv, PodOK, BusyAlone, LaunchOK, MachineOK, NEW u \in Uploads, Upload(u)
  PROVE  /\ pod \in Run /\ pod' \in Run /\ file \in Nat /\ file # 0 /\ known <= file
         /\ row' = row /\ file' = file /\ storage' = storage
         /\ FreshUntilRun' /\ FlushedOrExcused'
<1>1. row' = row /\ file' = file /\ storage' = storage
  BY DEF Upload, Open, Fail, Publish, PublishLate, PutObject, Commit, CommitFails, UploadUnchanged, otherVars
<1>2. pod \in Run /\ file \in Nat /\ file # 0
  <2>1. up[u].at # "none" \/ (Open(u) /\ MaySync) \/ pod = "produced"
    BY DEF Upload, Open, Fail, Publish, PublishLate, PutObject, Commit, CommitFails
  <2>2. CASE up[u].at # "none"
    <3>1. up[u].stat \in Nat /\ up[u].stat # 0 /\ file \in Nat
      BY <2>2 DEF PodOK
    <3> QED BY <2>2, <3>1 DEF SyncInv, StatsOK, PodOK, Uploads, Run, Body
  <2>3. CASE pod = "produced" \/ MaySync
    BY <2>3 DEF PodOK, MaySync, Run, Body
  <2> QED BY <2>1, <2>2, <2>3
<1>3. pod' \in Run
  <2>1. pod' \in {pod, "noting", "uploaded"}
    BY DEF Upload, Open, Fail, Publish, PublishLate, PutObject, Commit, CommitFails, GiveUp, Catch, podVars
  <2> QED BY <1>2, <2>1 DEF Run, Body, Handler
<1>4. row.status # "unborn" /\ ~Offered
  BY <1>2 DEF BusyAlone, Busy, Run, Body, Handler, LaunchOK, MachineOK
<1>5. FreshUntilRun' /\ FlushedOrExcused'
  BY <1>1, <1>3, <1>4 DEF FreshUntilRun, FlushedOrExcused, Offered, Run, Body, Handler
<1> QED BY <1>1, <1>2, <1>3, <1>5 DEF SyncInv, StatsOK, AtWork

\* What an upload was read at is the file, or an earlier version of it.
LEMMA SyncUpload ==
  ASSUME SyncInv, PodOK, BusyAlone, LaunchOK, MachineOK, NEW u \in Uploads, Upload(u)
  PROVE  SyncInv'
<1>0. /\ pod \in Run /\ pod' \in Run /\ file \in Nat /\ file # 0 /\ known <= file
      /\ row' = row /\ file' = file /\ storage' = storage
      /\ FreshUntilRun' /\ FlushedOrExcused'
  BY UploadAtWork
<1> DEFINE Stats == [stat : Nat, at : {"none", "open", "sent"}, over : Nat, torn : BOOLEAN]
<1>1. /\ up \in [Uploads -> Stats] /\ Uploads = {"sync", "run"} /\ up[u] \in Stats
      /\ Other(u) \in Uploads \ {u} /\ \A v \in Uploads : v # u => v = Other(u)
  BY DEF PodOK, Uploads, Other
<1>2. /\ known \in Nat /\ object \in Nat /\ copy \in Nat \cup {Mixed}
      /\ storage \in {"broker", "minio"}
      /\ up["sync"].at # "none" => known < file /\ up["sync"].stat <= file
      /\ up["run"].at # "none" => up["run"].stat = file
      /\ up[u].at # "none" => up[u].stat \in Nat /\ up[u].stat # 0 /\ up[u].stat <= file
      /\ known = file /\ Exists => HasFile /\ copy \in {file, Mixed}
      /\ up["sync"].at = "sent" /\ up["sync"].stat = file /\ Exists => HasFile
  BY <1>0, <1>1 DEF SyncInv, StatsOK, KnownIsThere, PodOK
<1> SUFFICES StatsOK' /\ KnownIsThere'
  BY <1>0 DEF SyncInv
<1>3. Exists' <=> Exists
  BY <1>0 DEF Exists
<1>4. ASSUME up'[u].at = "none", \A v \in Uploads \ {u} : up'[v] = up[v],
             known' = known, object' = object, copy' = copy
      PROVE  StatsOK' /\ KnownIsThere'
  BY <1>0, <1>1, <1>2, <1>3, <1>4 DEF StatsOK, KnownIsThere, HasFile, AtWork
<1>5. ASSUME GiveUp(u) PROVE up'[u].at = "none" /\ \A v \in Uploads \ {u} : up'[v] = up[v]
  BY <1>1, <1>5 DEF GiveUp, NoUpload
<1>6. CASE Fail(u) \/ CommitFails(u)
  BY <1>4, <1>5, <1>6 DEF Fail, CommitFails
<1>7. CASE Open(u)
  <2>1. /\ up'[u] = [stat |-> file, at |-> "open", over |-> 0, torn |-> FALSE]
        /\ known' = known /\ copy' = copy /\ object' = object
        /\ u = "sync" => known < file
    BY <1>0, <1>1, <1>2, <1>7 DEF Open, MaySync, Synced
  <2>2. up'[Other(u)].at = up[Other(u)].at /\ up'[Other(u)].stat = up[Other(u)].stat
    BY <1>1, <1>7 DEF Open
  <2> QED BY <1>0, <1>1, <1>2, <1>3, <2>1, <2>2 DEF StatsOK, KnownIsThere, HasFile, AtWork
<1>8. CASE Publish(u)
  <2>1. /\ up[u].at = "open" /\ copy' \in {Mixed, up[u].stat} /\ known' = known /\ object' = object
        /\ storage = "broker" /\ up'[u].stat = up[u].stat
    BY <1>1, <1>8 DEF Publish
  <2>2. up'[Other(u)].at = up[Other(u)].at /\ up'[Other(u)].stat = up[Other(u)].stat
    BY <1>1, <1>8 DEF Publish
  <2> QED BY <1>0, <1>1, <1>2, <1>3, <2>1, <2>2 DEF StatsOK, KnownIsThere, HasFile, AtWork
<1>9. CASE PublishLate(u)
  <2>1. /\ up[u].at = "open" /\ copy' \in {Mixed, up[u].stat} /\ known' = known /\ object' = object
        /\ storage = "broker"
    BY <1>9 DEF PublishLate
  <2>2. up'[u].at = "none" /\ up'[Other(u)] = up[Other(u)]
    BY <1>1, <1>5, <1>9 DEF PublishLate
  <2> QED BY <1>0, <1>1, <1>2, <1>3, <2>1, <2>2 DEF StatsOK, KnownIsThere, HasFile, AtWork
<1>10. CASE PutObject(u)
  <2>1. /\ up[u].at = "open" /\ object' = up[u].stat /\ known' = known /\ copy' = copy
        /\ storage = "minio" /\ up'[u].stat = up[u].stat
        /\ up'[Other(u)] = up[Other(u)]
    BY <1>1, <1>10 DEF PutObject
  <2> QED BY <1>0, <1>1, <1>2, <1>3, <2>1 DEF StatsOK, KnownIsThere, HasFile, AtWork
<1>11. CASE Commit(u)
  <2>1. /\ up[u].at = "sent" /\ up'[u].at = "none" /\ up'[Other(u)] = up[Other(u)]
        /\ storage = "broker" => copy' = copy /\ object' = object
        /\ storage = "minio" => object # 0 /\ copy' = object /\ object' \in {0, object}
        /\ known' = IF u = "sync" THEN up[u].stat ELSE known
    BY <1>1, <1>2, <1>11 DEF Commit, NoUpload
  <2> QED BY <1>0, <1>1, <1>2, <1>3, <2>1 DEF StatsOK, KnownIsThere, HasFile, AtWork
<1> QED BY <1>6, <1>7, <1>8, <1>9, <1>10, <1>11 DEF Upload

SyncContext == SyncInv /\ RowOK /\ PodOK /\ BusyAlone /\ LaunchOK /\ MachineOK

LEMMA SyncStep ==
  ASSUME SyncContext, RowChange, PodOK', Next
  PROVE  SyncInv'
<1> USE DEF SyncContext
<1>0. /\ lost \in Nat /\ crashes \in Nat
      /\ pod \notin AtWork => file = 0
      /\ pod \notin Run => \A u \in Uploads : up[u].at = "none"
  BY DEF SyncInv, StatsOK, LaunchOK, PodOK, Uploads, Run, Body
<1>1. CASE Dispatch
  <2>1. /\ syncVars' = syncVars /\ storage' = storage /\ pod' = pod /\ expired' = expired /\ crashes' = crashes
        /\ lost' \in {lost, lost + 1}
    BY <1>1 DEF Dispatch, podVars, otherVars, Submit, Resolve, PreflightRefused, EnforceCaps, Ask, Create, Book,
                FailJob, Lose
  <2> QED BY <1>0, <2>1, SyncQuiet
<1>2. CASE Claiming
  <2>1. /\ syncVars' = syncVars /\ storage' = storage /\ expired' = expired /\ crashes' = crashes
        /\ lost' \in {lost, lost + 1} /\ (pod' = pod \/ (Offered /\ pod' = "fetching"))
    BY <1>2 DEF Claiming, ClaimLook, ClaimNext, ClaimRelease, dispatchVars, podVars, Lose
  <2>2. CASE pod' = pod
    BY <1>0, <2>1, <2>2, SyncQuiet
  <2>3. CASE Offered /\ pod' = "fetching"
    BY <2>1, <2>3, SyncFresh DEF SyncInv, FreshUntilRun, Untouched, syncVars
  <2> QED BY <2>1, <2>2, <2>3
<1>3. CASE Fetch
  <2>1. pod = "fetching" /\ syncVars' = syncVars /\ storage' = storage /\ pod' # "closing"
    BY <1>3 DEF Fetch, GoRound, otherVars
  <2> QED BY <2>1, SyncFresh DEF SyncInv, FreshUntilRun, Untouched, syncVars
<1>4. CASE Boot \/ Ask4Job \/ NoAnswer
  <2>1. /\ syncVars' = syncVars /\ storage' = storage /\ pod \notin AtWork
        /\ pod' \in {"off", "polling", "asking"}
    BY <1>4 DEF Boot, Ask4Job, NoAnswer, GoRound, MachineOK, otherVars, AtWork, Run, Body, Handler
  <2> QED BY <1>0, <2>1, SyncIdle DEF syncVars, AtWork, Run, Body, Handler
<1>5. CASE SetManifest \/ SetReady \/ PublishReady \/ SetError \/ SetOutcome \/ Report \/ Raise
  <2>1. /\ syncVars' = syncVars /\ storage' = storage /\ expired' = expired /\ crashes' = crashes
        /\ lost' \in {lost, lost + 1}
    BY <1>5 DEF SetManifest, SetReady, PublishReady, SetError, SetOutcome, Report, Raise, RunUnchanged, Answered,
                Unanswered, Lose, otherVars
  <2>2. pod \in Run /\ pod' \in Run
    BY <1>5 DEF SetManifest, SetReady, PublishReady, SetError, SetOutcome, Report, Raise, Catch, podVars, Run, Body,
                Handler
  <2> QED BY <1>0, <2>1, <2>2, SyncQuiet
<1>6. CASE StopSync
  BY <1>0, <1>6, SyncCut DEF StopSync, NoUpload, dispatchVars, otherVars, Run, Handler
<1>7. CASE Flush
  <2>1. /\ pod = "flushing" /\ pod' = "closing" /\ syncVars' = syncVars /\ row' = row /\ lost' = lost
        /\ crashes' = crashes /\ expired' = expired /\ storage' = storage
        /\ Synced \/ expired \/ lost > 0 \/ crashes > 0 \/ ~Exists
        /\ \A u \in Uploads : up[u].at = "none"
    BY <1>7 DEF Flush, dispatchVars, otherVars, PodOK, Uploads
  <2>2. FreshUntilRun' /\ StatsOK'
    BY <2>1 DEF SyncInv, FreshUntilRun, StatsOK, Untouched, Offered, syncVars, AtWork, Run, Uploads
  <2>3. KnownIsThere'
    BY <2>1 DEF SyncInv, KnownIsThere, HasFile, Exists, syncVars
  <2>4. FlushedOrExcused'
    BY <1>0, <2>1 DEF FlushedOrExcused, Synced, Exists, syncVars
  <2> QED BY <2>2, <2>3, <2>4 DEF SyncInv
<1>8. CASE Close
  BY <1>0, <1>8, SyncIdle DEF Close, GoRound, otherVars, AtWork, Run, Body, Handler
<1>9. CASE Write
  BY <1>9, SyncWrite
<1>10. CASE Watch \/ Return
  BY <1>0, <1>10, SyncQuiet DEF Watch, Return, dispatchVars, otherVars, Run, Body
<1>11. CASE \E u \in Uploads : Upload(u)
  BY <1>11, SyncUpload
<1>12. CASE Beat \/ GoStale \/ BeatsLost \/ Sweep \/ LocalClaim \/ LocalRun \/ Stop
  <2>1. /\ syncVars' = syncVars /\ storage' = storage /\ expired' = expired /\ crashes' = crashes /\ pod' = pod
        /\ lost' \in {lost, lost + 1}
    BY <1>12 DEF Beat, GoStale, BeatsLost, Sweep, BeatUnchanged, LocalClaim, LocalRun, Stop, LocalUnchanged,
                 podVars, otherVars, Lose
  <2> QED BY <1>0, <2>1, SyncQuiet
<1>13. CASE TakeOlder \/ Expire
  BY <1>0, <1>13, SyncQuiet DEF TakeOlder, Expire, dispatchVars, podVars
<1>14. CASE Delete \/ ApiCrash
  <2>1. /\ \A u \in Uploads : up'[u].at = "none"
        /\ pod' = pod \/ (pod \in Run /\ pod' \in Run)
    BY <1>14 DEF Delete, ApiCrash, CutUploads, NoUpload, Catch, podVars, Run, Body, Handler
  <2>2. /\ file' = file /\ known' = known /\ object' = object /\ storage' = storage /\ expired' = expired
        /\ lost' = lost /\ crashes' \in {crashes, crashes + 1}
        /\ copy' = copy \/ (copy' = 0 /\ row'.status = "deleted")
    BY <1>14 DEF Delete, ApiCrash, otherVars
  <2>3. row'.status = "deleted" => ~Exists'
    BY DEF Exists, Running, Terminal
  <2> QED BY <1>0, <2>1, <2>2, <2>3, SyncCut
<1>15. CASE Preempt \/ TearDown
  <2>1. CASE Stopped
    BY <1>0, <2>1, SyncIdle DEF Stopped, NoUpload, otherVars, AtWork, Run, Body, Handler
  <2>2. CASE TearDown /\ UNCHANGED <<podVars, syncVars, otherVars>>
    BY <1>0, <2>2, SyncQuiet DEF TearDown, Teardown, podVars, otherVars
  <2> QED BY <1>15, <2>1, <2>2 DEF Preempt, TearDown
<1> QED BY <1>1, <1>2, <1>3, <1>4, <1>5, <1>6, <1>7, <1>8, <1>9, <1>10, <1>11, <1>12, <1>13, <1>14, <1>15
        DEF Next, PodStep

\* So a last pass that was not excused leaves the studio the file as it is.
LEMMA FlushedBySync ==
  ASSUME SyncInv, PodOK
  PROVE  FlushedAtEnd
<1> SUFFICES ASSUME pod = "closing", lost = 0, crashes = 0, ~expired, Exists, ~(known = 0 /\ file % 3 = 1)
             PROVE  copy \in {file, Mixed}
  BY DEF FlushedAtEnd
<1>1. known = file
  BY DEF SyncInv, FlushedOrExcused, Synced
<1>2. CASE file = 0
  BY <1>2 DEF SyncInv, StatsOK, AtWork
<1>3. CASE file # 0
  BY <1>1, <1>3 DEF SyncInv, KnownIsThere
<1> QED BY <1>2, <1>3

-----------------------------------------------------------------------------
(* The older job, and the whole *)

OlderInv == HeldBriefly /\ OlderUnharmed

LEMMA OlderStep ==
  ASSUME OlderInv, crashes \in Nat, Next
  PROVE  OlderInv'
<1> USE DEF OlderInv, HeldBriefly, OlderUnharmed
<1>1. CASE Dispatch
  BY <1>1 DEF Dispatch, otherVars, Submit, Resolve, PreflightRefused, EnforceCaps, Ask, Create, Book, FailJob
<1>2. CASE Claiming
  BY <1>2 DEF Claiming, ClaimLook, ClaimNext, ClaimRelease, dispatchVars
<1>3. CASE Boot \/ Watch \/ Expire \/ Write \/ Return \/ Raise \/ Report
  BY <1>3 DEF Boot, Watch, Expire, Write, Return, Raise, Report, RunUnchanged, dispatchVars, otherVars
<1>4. CASE PodStep
  BY <1>4 DEF PodStep, Ask4Job, NoAnswer, Fetch, SetManifest, SetReady, PublishReady, SetError, SetOutcome,
              StopSync, Flush, Close, RunUnchanged, dispatchVars, otherVars
<1>5. CASE TakeOlder
  BY <1>5 DEF TakeOlder, dispatchVars
<1>6. CASE \E u \in Uploads : Upload(u)
  <2>1. older' = older /\ ask' = ask /\ crashes' = crashes
    BY <1>6 DEF Upload, Open, Fail, Publish, PublishLate, PutObject, Commit, CommitFails, UploadUnchanged, otherVars
  <2> QED BY <2>1
<1>7. CASE Beat \/ GoStale \/ BeatsLost \/ Sweep \/ LocalClaim \/ LocalRun \/ Stop \/ Delete
  <2>1. older' = older /\ ask' = ask /\ crashes' = crashes
    BY <1>7 DEF Beat, GoStale, BeatsLost, Sweep, BeatUnchanged, LocalClaim, LocalRun, Stop, LocalUnchanged, Delete,
                otherVars
  <2> QED BY <2>1
<1>8. CASE ApiCrash
  BY <1>8 DEF ApiCrash
<1>9. CASE Preempt \/ TearDown
  <2>1. older' = older /\ ask' = ask /\ crashes' = crashes
    BY <1>9 DEF Preempt, TearDown, Teardown, Stopped, otherVars
  <2> QED BY <2>1
<1> QED BY <1>1, <1>2, <1>3, <1>4, <1>5, <1>6, <1>7, <1>8, <1>9 DEF Next

LEMMA InitInv == Init => Inv
<1> SUFFICES ASSUME Init PROVE Inv
  OBVIOUS
<1> USE DEF Init, DispatchInit
<1>1. RowOK
  BY DEF RowOK, Row, Exists, Running, Terminal
<1>2. LaunchOK
  BY DispatchAssumption DEF LaunchOK, LaunchAt, Idle
<1>3. MachineOK /\ BusyAlone /\ Backed /\ HeldBriefly
  BY DEF MachineOK, BusyAlone, Backed, HeldBriefly, Busy, Run, Body, Handler, Idle, NoUpload, Uploads
<1>4. PodOK
  BY DEF PodOK, NoUpload, Uploads, Terminal
<1>5. RentedIsRecorded /\ UnrentedIsFailed /\ OlderUnharmed /\ ManifestBacked
  BY DEF RentedIsRecorded, UnrentedIsFailed, OlderUnharmed, ManifestBacked, Idle
<1>6. SyncInv
  BY DEF SyncInv, FreshUntilRun, Untouched, StatsOK, KnownIsThere, FlushedOrExcused, AtWork, Run, Body, Handler,
         NoUpload, Uploads
<1> QED BY <1>1, <1>2, <1>3, <1>4, <1>5, <1>6 DEF Inv

LEMMA InvStep == Inv /\ [Next]_vars => Inv'
<1> SUFFICES ASSUME Inv, [Next]_vars PROVE Inv'
  OBVIOUS
<1>1. CASE UNCHANGED vars
  BY <1>1 DEF vars, dispatchVars, podVars, syncVars, otherVars, Inv, RowOK, LaunchOK, MachineOK, PodOK, BusyAlone,
              Backed, HeldBriefly, RentedIsRecorded, UnrentedIsFailed, OlderUnharmed, ManifestBacked,
              Exists, Offered, SyncInv, FreshUntilRun, Untouched, StatsOK, KnownIsThere, HasFile, FlushedOrExcused,
              Synced
<1>2. CASE Next
  <2>1. PodOK'
    BY <1>2, PodKeeps DEF Inv
  <2>2. OlderInv'
    BY <1>2, OlderStep DEF Inv, LaunchOK, OlderInv
  <2>3. CASE Dispatch /\ Submit
    <3>1. pod' = pod /\ up' = up /\ copy' = copy /\ storage' = storage
      BY <2>3 DEF Dispatch, podVars, syncVars, otherVars
    <3>2. RentInv'
      BY <2>3, <3>1, SubmitStep DEF Inv, RentInv
    <3>3. pod = "off" /\ row.status = "unborn" /\ row'.manifest = row.manifest
      BY <2>3 DEF Submit, Inv, LaunchOK, MachineOK, RowOK, Row
    <3>4. BusyAlone'
      BY <3>1, <3>3 DEF BusyAlone, Busy, Run, Body, Handler
    <3>5. Backed' /\ ManifestBacked'
      BY <3>1, <3>3 DEF Inv, Backed, ManifestBacked
    <3>6. SyncInv'
      <4>1. Untouched /\ syncVars' = syncVars
        BY <2>3, <3>3 DEF Inv, SyncInv, FreshUntilRun, Dispatch
      <4> QED BY <3>1, <3>3, <4>1, SyncFresh DEF Inv, SyncInv, Untouched, syncVars
    <3> QED BY <2>1, <2>2, <3>2, <3>4, <3>5, <3>6 DEF Inv, RentInv, OlderInv
  <2>4. CASE ~(Dispatch /\ Submit)
    <3>1. RowChange
      BY <1>2, <2>4, RowStep DEF Inv, PodOK
    <3>2. RentInv'
      <4>1. CASE Dispatch
        BY <2>4, <3>1, <4>1, RentStep DEF Inv, RentInv
      <4>2. CASE ~Dispatch
        <5>1. MachineChange
          BY <1>2, <4>2, MachineStep DEF Inv, LaunchOK
        <5> QED BY <3>1, <5>1, RentAlone DEF Inv, RentInv
      <4> QED BY <4>1, <4>2
    <3>3. BusyAlone' /\ Backed' /\ ManifestBacked'
      BY <1>2, <3>1, BusyStep, BackedStep DEF Inv
    <3>4. SyncInv'
      BY <1>2, <2>1, <3>1, SyncStep DEF Inv, SyncContext
    <3> QED BY <2>1, <2>2, <3>2, <3>3, <3>4 DEF Inv, RentInv, OlderInv
  <2> QED BY <2>3, <2>4
<1> QED BY <1>1, <1>2

LEMMA Always == Spec => []Inv
BY InitInv, InvStep, PTL DEF Spec

-----------------------------------------------------------------------------
(* Theorems *)

\* While nothing is lost, a rented machine can be found from its job's row.
THEOREM RentedAlwaysRecorded == Spec => []RentedIsRecorded
<1>1. Inv => RentedIsRecorded
  BY DEF Inv
<1> QED BY Always, <1>1, PTL

\* However a dispatch fails, its job does not stay queued.
THEOREM UnrentedAlwaysFailed == Spec => []UnrentedIsFailed
<1>1. Inv => UnrentedIsFailed
  BY DEF Inv
<1> QED BY Always, <1>1, PTL

\* Local workers and the pod never run the job together, whatever is lost.
THEOREM OneRunnerAtATime == Spec => []OneRunner
<1>1. Inv => OneRunner
  BY DEF Inv, BusyAlone, Busy, OneRunner
<1> QED BY Always, <1>1, PTL

\* The claim of a job that is not the token's is given back.
THEOREM OlderNeverHarmed == Spec => []OlderUnharmed
<1>1. Inv => OlderUnharmed
  BY DEF Inv
<1> QED BY Always, <1>1, PTL

\* A manifest never names an artifact the studio has nothing of.
THEOREM ManifestAlwaysBacked == Spec => []ManifestBacked
<1>1. Inv => ManifestBacked
  BY DEF Inv
<1> QED BY Always, <1>1, PTL

\* When a run ends and no request went unanswered, the studio has the last version of
\* its artifact, for any number of writes, whichever uploads were under way meanwhile.
THEOREM LastVersionFlushed == Spec => []FlushedAtEnd
<1>1. Inv => FlushedAtEnd
  BY FlushedBySync DEF Inv
<1> QED BY Always, <1>1, PTL
-----------------------------------------------------------------------------
(* Types *)

CapTyped == launch.cap \in JobCaps \cup {NoCap}

LEMMA CapTypedStep ==
  ASSUME CapTyped, LaunchOK, Next
  PROVE  CapTyped'
<1> USE DEF CapTyped
<1>1. CASE launch' = launch \/ \E at : launch' = Idle(at)
  BY <1>1 DEF Idle
<1>2. CASE Dispatch
  <2>1. CASE Submit
    BY <2>1 DEF Submit
  <2>2. CASE Resolve \/ PreflightRefused \/ EnforceCaps \/ Ask \/ Create \/ Book \/ FailJob
    <3>1. \/ \E at : launch' = Idle(at)
          \/ launch' = [launch EXCEPT !.at = "pricing"]
          \/ launch' = [launch EXCEPT !.at = "booking"]
          \/ launch' = [launch EXCEPT !.at = "failing"]
      BY <2>2 DEF Resolve, PreflightRefused, EnforceCaps, Ask, Create, Book, FailJob
    <3> QED BY <1>1, <3>1 DEF LaunchOK
  <2> QED BY <1>2, <2>1, <2>2 DEF Dispatch
<1>3. CASE ApiCrash
  BY <1>1, <1>3 DEF ApiCrash
<1>4. CASE Boot \/ Claiming \/ Write \/ Watch \/ Return \/ TakeOlder \/ Expire \/ Preempt \/ TearDown
  BY <1>4 DEF Boot, Claiming, ClaimLook, ClaimNext, ClaimRelease, Write, Watch, Return, TakeOlder, Expire,
              Preempt, TearDown, Teardown, dispatchVars
<1>5. CASE PodStep \/ Report \/ Raise
  BY <1>5 DEF PodStep, Ask4Job, NoAnswer, Fetch, SetManifest, SetReady, PublishReady, SetError, SetOutcome,
              StopSync, Flush, Close, Report, Raise, RunUnchanged, dispatchVars
<1>6. CASE \E u \in Uploads : Upload(u)
  BY <1>6 DEF Upload, Open, Fail, Publish, PublishLate, PutObject, Commit, CommitFails, UploadUnchanged
<1>7. CASE Beat \/ GoStale \/ BeatsLost \/ Sweep \/ LocalClaim \/ LocalRun \/ Stop \/ Delete
  BY <1>7 DEF Beat, GoStale, BeatsLost, Sweep, BeatUnchanged, LocalClaim, LocalRun, Stop, LocalUnchanged, Delete
<1> QED BY <1>2, <1>3, <1>4, <1>5, <1>6, <1>7 DEF Next

\* Requests are lost, and the API restarts, within the bound together.
Faults == lost \in Nat /\ crashes \in Nat /\ lost + crashes <= MaxFaults

LEMMA FaultsStep ==
  ASSUME Faults, Next
  PROVE  Faults'
<1>1. \/ lost' = lost /\ crashes' = crashes
      \/ Lose /\ crashes' = crashes
      \/ lost + crashes < MaxFaults /\ lost' = lost /\ crashes' = crashes + 1
  <2>1. CASE Dispatch
    BY <2>1 DEF Dispatch, Submit, Resolve, PreflightRefused, EnforceCaps, Ask, Create, Book, FailJob
  <2>2. CASE Boot \/ Claiming \/ Write \/ Watch \/ Return \/ TakeOlder \/ Expire \/ ApiCrash \/ Preempt \/ TearDown
    BY <2>2 DEF Boot, Claiming, ClaimLook, ClaimNext, ClaimRelease, Write, Watch, Return, TakeOlder, Expire,
                ApiCrash, Preempt, TearDown, Teardown, dispatchVars
  <2>3. CASE PodStep \/ Report \/ Raise
    BY <2>3 DEF PodStep, Ask4Job, NoAnswer, Fetch, SetManifest, SetReady, PublishReady, SetError, SetOutcome,
                StopSync, Flush, Close, Report, Raise, RunUnchanged, dispatchVars, Answered, Unanswered
  <2>4. CASE \E u \in Uploads : Upload(u)
    BY <2>4 DEF Upload, Open, Fail, Publish, PublishLate, PutObject, Commit, CommitFails, UploadUnchanged
  <2>5. CASE Beat \/ GoStale \/ BeatsLost \/ Sweep \/ LocalClaim \/ LocalRun \/ Stop \/ Delete
    BY <2>5 DEF Beat, GoStale, BeatsLost, Sweep, BeatUnchanged, LocalClaim, LocalRun, Stop, LocalUnchanged, Delete
  <2> QED BY <2>1, <2>2, <2>3, <2>4, <2>5 DEF Next
<1> QED BY <1>1, DispatchAssumption DEF Faults, Lose

\* No copy, and no upload, is of a version that was not written.
Stat == 0 .. MaxStat
StatsBounded ==
  /\ file \in Stat /\ known \in Stat /\ object \in Stat /\ copy \in Stat \cup {Mixed}
  /\ up \in [Uploads -> [stat : Stat, at : {"none", "open", "sent"}, over : Stat, torn : BOOLEAN]]

LEMMA StatsStep ==
  ASSUME StatsBounded, Next
  PROVE  StatsBounded'
<1> DEFINE U == [stat : Stat, at : {"none", "open", "sent"}, over : Stat, torn : BOOLEAN]
<1>1. 0 \in Stat /\ NoUpload \in U
  BY RemoteAssumption DEF Stat, NoUpload
<1>2. CASE UNCHANGED syncVars
  BY <1>2 DEF StatsBounded, syncVars
<1>3. CASE /\ file' \in {0, file} /\ known' \in {0, known} /\ copy' \in {0, copy}
           /\ object' = object /\ up' = [u \in Uploads |-> NoUpload]
  BY <1>1, <1>3 DEF StatsBounded
<1>4. CASE Write
  BY <1>4, RemoteAssumption DEF StatsBounded, Write, Stat
<1>5. CASE \E u \in Uploads : Upload(u)
  <2>1. PICK u \in Uploads : Upload(u)
    BY <1>5
  <2>2. file' = file
    BY <2>1 DEF Upload, Open, Fail, Publish, PublishLate, PutObject, Commit, CommitFails, UploadUnchanged
  <2>3. ASSUME NEW v \in Uploads PROVE up[v] \in U
    BY DEF StatsBounded
  <2>4. Other(u) \in Uploads
    BY DEF Other, Uploads
  <2>5. CASE Open(u)
    <3>1. ASSUME NEW v \in Uploads
          PROVE  (IF v = u THEN [stat |-> file, at |-> "open", over |-> 0, torn |-> FALSE]
                  ELSE IF up[v].at = "open" /\ up[v].over = 0 THEN [up[v] EXCEPT !.torn = TRUE]
                  ELSE up[v]) \in U
      BY <1>1, <2>3 DEF StatsBounded
    <3>2. up' \in [Uploads -> U]
      BY <2>5, <3>1 DEF Open
    <3>3. known' = known /\ copy' = copy /\ object' = object
      BY <2>5 DEF Open
    <3> QED BY <2>2, <3>2, <3>3 DEF StatsBounded
  <2>6. CASE Publish(u)
    <3> DEFINE o == up[Other(u)]
               shared == o.at = "open" /\ o.over = 0
    <3>1. up' = [v \in Uploads |-> IF v = u THEN [up[u] EXCEPT !.at = "sent"]
                                   ELSE IF shared THEN [o EXCEPT !.over = up[u].stat] ELSE o]
      BY <2>6 DEF Publish
    <3>2. o \in U /\ up[u] \in U
      BY <2>3, <2>4
    <3>3. copy' \in {Mixed, up[u].stat} /\ known' = known /\ object' = object
      BY <2>6 DEF Publish
    <3>4. up' \in [Uploads -> U]
      <4>1. [up[u] EXCEPT !.at = "sent"] \in U /\ [o EXCEPT !.over = up[u].stat] \in U
        BY <3>2
      <4> HIDE DEF o, shared, U
      <4> QED BY <3>1, <3>2, <4>1
    <3> QED BY <2>2, <3>2, <3>3, <3>4 DEF StatsBounded
  <2>7. CASE Fail(u) \/ PublishLate(u) \/ CommitFails(u)
    <3>1. up' = [up EXCEPT ![u] = NoUpload] /\ known' = known /\ object' = object
      BY <2>7 DEF Fail, PublishLate, CommitFails, GiveUp
    <3>2. copy' \in {copy, Mixed, up[u].stat}
      BY <2>7 DEF Fail, PublishLate, CommitFails
    <3> QED BY <1>1, <2>2, <2>3, <3>1, <3>2 DEF StatsBounded
  <2>8. CASE PutObject(u)
    <3>1. up' = [up EXCEPT ![u].at = "sent"] /\ known' = known /\ object' = up[u].stat /\ copy' = copy
      BY <2>8 DEF PutObject
    <3> QED BY <2>2, <2>3, <3>1 DEF StatsBounded
  <2>9. CASE Commit(u)
    <3>1. /\ up' = [up EXCEPT ![u] = NoUpload] /\ known' \in {known, up[u].stat}
          /\ copy' \in {copy, object} /\ object' \in {0, object}
      BY <2>9 DEF Commit
    <3> QED BY <1>1, <2>2, <2>3, <3>1 DEF StatsBounded
  <2> QED BY <2>1, <2>5, <2>6, <2>7, <2>8, <2>9 DEF Upload
<1>6. CASE Dispatch \/ Boot \/ Claiming \/ Watch \/ Return \/ Report \/ Raise \/ TakeOlder \/ Expire
  BY <1>2, <1>6 DEF Dispatch, Boot, Claiming, ClaimLook, ClaimNext, ClaimRelease, Watch, Return, Report, Raise,
                    RunUnchanged, TakeOlder, Expire
<1>7. CASE PodStep
  <2>1. CASE Ask4Job \/ NoAnswer \/ Fetch \/ SetManifest \/ SetReady \/ PublishReady \/ SetError \/ SetOutcome \/ Flush
    BY <1>2, <2>1 DEF Ask4Job, NoAnswer, Fetch, SetManifest, SetReady, PublishReady, SetError, SetOutcome, Flush,
                      RunUnchanged
  <2>2. CASE StopSync
    BY <1>3, <2>2 DEF StopSync
  <2>3. CASE Close
    BY <1>1, <2>3 DEF Close, StatsBounded
  <2> QED BY <1>7, <2>1, <2>2, <2>3 DEF PodStep
<1>8. CASE Beat \/ GoStale \/ BeatsLost \/ Sweep \/ LocalClaim \/ LocalRun \/ Stop
  BY <1>2, <1>8 DEF Beat, GoStale, BeatsLost, Sweep, BeatUnchanged, LocalClaim, LocalRun, Stop, LocalUnchanged
<1>9. CASE Delete \/ ApiCrash \/ Preempt
  BY <1>3, <1>9 DEF Delete, ApiCrash, CutUploads, Preempt, Stopped
<1>10. CASE TearDown
  BY <1>2, <1>3, <1>10 DEF TearDown, Stopped
<1> QED BY <1>4, <1>5, <1>6, <1>7, <1>8, <1>9, <1>10 DEF Next

\* Where each process is.
PodAt == {"off", "polling", "asking", "fetching", "closing"} \cup Run
Places ==
  /\ vendor \in Vendors /\ storage \in {"broker", "minio"}
  /\ machine \in {"none", "booting", "up", "gone"}
  /\ older \in {"waiting", "held", "taken", "failed"}
  /\ expired \in BOOLEAN /\ token \in BOOLEAN
  /\ ask \in {"none", "look", "claim", "release"}
  /\ pod \in PodAt

LEMMA PlacesStep ==
  ASSUME Places, Next
  PROVE  Places'
<1> USE DEF Places
<1>1. vendor' = vendor /\ storage' = storage
  <2>1. CASE Dispatch \/ Boot \/ Claiming \/ Write \/ Watch \/ Return \/ TakeOlder \/ Expire \/ ApiCrash \/ Preempt \/ TearDown
    BY <2>1 DEF Dispatch, Submit, Resolve, PreflightRefused, EnforceCaps, Ask, Create, Book, FailJob, Boot,
                Claiming, ClaimLook, ClaimNext, ClaimRelease, Write, Watch, Return, TakeOlder, Expire,
                ApiCrash, Preempt, TearDown, Teardown, Stopped, dispatchVars, otherVars
  <2>2. CASE PodStep \/ Report \/ Raise
    BY <2>2 DEF PodStep, Ask4Job, NoAnswer, Fetch, SetManifest, SetReady, PublishReady, SetError, SetOutcome,
                StopSync, Flush, Close, Report, Raise, RunUnchanged, dispatchVars, otherVars
  <2>3. CASE \E u \in Uploads : Upload(u)
    BY <2>3 DEF Upload, Open, Fail, Publish, PublishLate, PutObject, Commit, CommitFails, UploadUnchanged, otherVars
  <2>4. CASE Beat \/ GoStale \/ BeatsLost \/ Sweep \/ LocalClaim \/ LocalRun \/ Stop \/ Delete
    BY <2>4 DEF Beat, GoStale, BeatsLost, Sweep, BeatUnchanged, LocalClaim, LocalRun, Stop, LocalUnchanged, Delete,
                otherVars
  <2> QED BY <2>1, <2>2, <2>3, <2>4 DEF Next
<1>2. older' \in {"waiting", "held", "taken", "failed"} /\ expired' \in BOOLEAN
      /\ ask' \in {"none", "look", "claim", "release"}
  <2>1. CASE Dispatch \/ Boot \/ Write \/ Watch \/ Return \/ TakeOlder \/ Expire \/ ApiCrash \/ Preempt \/ TearDown
    BY <2>1 DEF Dispatch, Boot, Write, Watch, Return, TakeOlder, Expire, ApiCrash, Preempt, TearDown, Stopped,
                otherVars
  <2>2. CASE Claiming
    BY <2>2 DEF Claiming, ClaimLook, ClaimNext, ClaimRelease
  <2>3. CASE PodStep \/ Report \/ Raise
    BY <2>3 DEF PodStep, Ask4Job, NoAnswer, Fetch, SetManifest, SetReady, PublishReady, SetError, SetOutcome,
                StopSync, Flush, Close, Report, Raise, RunUnchanged, otherVars
  <2>4. CASE \E u \in Uploads : Upload(u)
    BY <2>4 DEF Upload, Open, Fail, Publish, PublishLate, PutObject, Commit, CommitFails, UploadUnchanged, otherVars
  <2>5. CASE Beat \/ GoStale \/ BeatsLost \/ Sweep \/ LocalClaim \/ LocalRun \/ Stop \/ Delete
    BY <2>5 DEF Beat, GoStale, BeatsLost, Sweep, BeatUnchanged, LocalClaim, LocalRun, Stop, LocalUnchanged, Delete,
                otherVars
  <2> QED BY <2>1, <2>2, <2>3, <2>4, <2>5 DEF Next
<1>3. machine' \in {"none", "booting", "up", "gone"}
  <2>1. CASE Dispatch
    BY <2>1 DEF Dispatch, Submit, Resolve, PreflightRefused, EnforceCaps, Ask, Create, Book, FailJob
  <2>2. CASE Boot \/ Claiming \/ Write \/ Watch \/ Return \/ TakeOlder \/ Expire \/ ApiCrash \/ Preempt \/ TearDown
    BY <2>2 DEF Boot, Claiming, ClaimLook, ClaimNext, ClaimRelease, Write, Watch, Return, TakeOlder, Expire,
                ApiCrash, Preempt, TearDown, Teardown, dispatchVars
  <2>3. CASE PodStep \/ Report \/ Raise
    BY <2>3 DEF PodStep, Ask4Job, NoAnswer, Fetch, SetManifest, SetReady, PublishReady, SetError, SetOutcome,
                StopSync, Flush, Close, Report, Raise, RunUnchanged, dispatchVars, GoRound
  <2>4. CASE \E u \in Uploads : Upload(u)
    BY <2>4 DEF Upload, Open, Fail, Publish, PublishLate, PutObject, Commit, CommitFails, UploadUnchanged
  <2>5. CASE Beat \/ GoStale \/ BeatsLost \/ Sweep \/ LocalClaim \/ LocalRun \/ Stop \/ Delete
    BY <2>5 DEF Beat, GoStale, BeatsLost, Sweep, BeatUnchanged, LocalClaim, LocalRun, Stop, LocalUnchanged, Delete
  <2> QED BY <2>1, <2>2, <2>3, <2>4, <2>5 DEF Next
<1>4. pod' \in PodAt /\ token' \in BOOLEAN
  <2> USE DEF PodAt, Run, Body, Handler
  <2>1. CASE UNCHANGED podVars \/ (token' = token /\ pod' = "noting")
    BY <2>1 DEF podVars
  <2>2. CASE Dispatch \/ Boot \/ Claiming \/ Write \/ Watch \/ Return \/ TakeOlder \/ Expire
    BY <2>2 DEF Dispatch, Boot, Claiming, ClaimLook, ClaimNext, ClaimRelease, Write, Watch, Return, TakeOlder,
                Expire, podVars
  <2>3. CASE ApiCrash \/ Delete
    BY <2>1, <2>3 DEF ApiCrash, Delete, CutUploads, Catch
  <2>4. CASE Preempt \/ TearDown
    BY <2>4 DEF Preempt, TearDown, Stopped, podVars
  <2>5. CASE Report \/ Raise
    BY <2>1, <2>5 DEF Report, Raise, Catch
  <2>6. CASE PodStep
    BY <2>6 DEF PodStep, Ask4Job, NoAnswer, Fetch, SetManifest, SetReady, PublishReady, SetError, SetOutcome,
                StopSync, Flush, Close, GoRound, Catch
  <2>7. CASE \E u \in Uploads : Upload(u)
    BY <2>1, <2>7 DEF Upload, Open, Fail, Publish, PublishLate, PutObject, Commit, CommitFails, GiveUp, Catch, podVars
  <2>8. CASE Beat \/ GoStale \/ BeatsLost \/ Sweep \/ LocalClaim \/ LocalRun \/ Stop
    BY <2>1, <2>8 DEF Beat, GoStale, BeatsLost, Sweep, BeatUnchanged, LocalClaim, LocalRun, Stop, LocalUnchanged
  <2> QED BY <2>2, <2>3, <2>4, <2>5, <2>6, <2>7, <2>8 DEF Next
<1> QED BY <1>1, <1>2, <1>3, <1>4

TypeInv == CapTyped /\ Faults /\ StatsBounded /\ Places

\* Type correctness of the dispatch, the machine, the network's faults, the pod, its
\* uploads and the older job: an estimate is never negative, nothing is sent or kept
\* of a version that was not written, and the faults stay within their bound.
THEOREM TypeCorrect == Spec => []TypeOK
<1>1. Init => TypeInv
  <2>1. Init => CapTyped /\ Faults
    BY DispatchAssumption DEF Init, DispatchInit, CapTyped, Faults, Idle
  <2>2. Init => Places
    BY DEF Init, DispatchInit, Places, PodAt
  <2>3. Init => StatsBounded
    BY RemoteAssumption DEF Init, StatsBounded, Stat, NoUpload
  <2> QED BY <2>1, <2>2, <2>3 DEF TypeInv
<1>2. Inv /\ TypeInv /\ [Next]_vars => TypeInv'
  <2>1. CASE UNCHANGED vars
    BY <2>1 DEF vars, dispatchVars, podVars, syncVars, otherVars, TypeInv, CapTyped, Faults, StatsBounded, Places
  <2>2. CASE Next
    BY <2>2, CapTypedStep, FaultsStep, StatsStep, PlacesStep DEF TypeInv, Inv
  <2> QED BY <2>1, <2>2
<1>3. Inv /\ TypeInv => TypeOK
  <2>1. ASSUME Inv, TypeInv PROVE DispatchTypeOK
    <3>1. lost \in 0 .. MaxFaults /\ crashes \in 0 .. MaxFaults
      BY <2>1, DispatchAssumption DEF TypeInv, Faults
    <3>2. launch.at \in LaunchAt
      BY <2>1 DEF Inv, LaunchOK
    <3> QED BY <2>1, <3>1, <3>2 DEF TypeInv, Inv, RowOK, LaunchAt, CapTyped, Places, DispatchTypeOK
  <2> QED BY <2>1 DEF TypeInv, Inv, PodOK, Terminal, StatsBounded, Stat, Places, PodAt, TypeOK
<1> QED BY <1>1, <1>2, <1>3, Always, PTL DEF Spec
=============================================================================
