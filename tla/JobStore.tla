------------------------------ MODULE JobStore ------------------------------
(***************************************************************************)
(* The `jobs` table of worker/app/jobs/store.py: the one piece of state    *)
(* the API process and every worker process share.                         *)
(*                                                                         *)
(* A row keeps the columns the queue protocol reads: status, claimed_by    *)
(* and the age of claimed_at.  created_at is the job itself: jobs are      *)
(* natural numbers and a smaller job was created earlier.                  *)
(* cancel_requested is read by the runner only (module JobLifecycle).      *)
(*                                                                         *)
(* sqlite is driven through pysqlite's default transaction control, which  *)
(* opens a transaction at the first INSERT, UPDATE or DELETE.  A SELECT    *)
(* therefore commits to nothing: every store function below is a SELECT    *)
(* followed, in a later step, by the UPDATE the ORM flushes, and the       *)
(* UPDATE writes, by primary key, only the columns the code assigned.      *)
(* The operators of this module are the single statements.                 *)
(***************************************************************************)
EXTENDS Naturals, FiniteSets

CONSTANTS
  Jobs,        \* job ids, ordered by created_at
  Workers,     \* worker processes (claimed_by values)
  jobClass,    \* worker_class of every row (which processor family may run it)
  workerClass, \* WORKER_CLASS of every worker process
  StaleAfter,  \* STALE_CLAIM_THRESHOLD_S, in heartbeat intervals
  Nobody       \* claimed_by IS NULL

ASSUME StoreAssumption ==
  /\ Jobs \subseteq Nat
  /\ StaleAfter \in Nat
  /\ Nobody \notin Workers

VARIABLE rows  \* the table: the row of every job id; "unborn" before INSERT, "deleted" after DELETE

(***************************************************************************)
(* The five statuses a processor reports while it works (ingest,           *)
(* inference, slam, training, meshing, export) behave alike for every      *)
(* reader of the column and are one value here.                            *)
(***************************************************************************)
Terminal == {"ready", "failed", "cancelled"}
RunningStatuses == {"queued", "working"}
Status == Terminal \cup RunningStatuses

MaxAge == StaleAfter + 1

Row == [status : Status \cup {"unborn", "deleted"},
        claimed_by : Workers \cup {Nobody},
        age : 0 .. MaxAge]

NewRow(s) == [status |-> s, claimed_by |-> Nobody, age |-> 0]

Exists(j) == rows[j].status \in Status

\* The rows the claim SELECT may return for a worker of class c ...
Offered(c) ==
  {j \in Jobs : /\ rows[j].status = "queued"
                /\ jobClass[j] = c
                /\ rows[j].claimed_by = Nobody}

\* ... and the one it does return: ORDER BY created_at LIMIT 1.
IsOldest(j, S) == j \in S /\ \A k \in S : j <= k

\* Mutants: the cutoff reaches one heartbeat interval too far; the sweep leaves
\* out rows whose run had not reported a stage yet.
StaleTooSoon ==
  {j \in Jobs : /\ rows[j].claimed_by # Nobody
                /\ rows[j].age >= StaleAfter
                /\ rows[j].status \in RunningStatuses}
StaleUnlessQueued ==
  {j \in Jobs : /\ rows[j].claimed_by # Nobody
                /\ rows[j].age > StaleAfter
                /\ rows[j].status = "working"}

\* claimed_at < cutoff, on a claimed row in a running status.
StaleClaims ==
  {j \in Jobs : /\ rows[j].claimed_by # Nobody
                /\ rows[j].age > StaleAfter
                /\ rows[j].status \in RunningStatuses}

-----------------------------------------------------------------------------
Insert(j) == rows' = [rows EXCEPT ![j] = NewRow("queued")]

Delete(j) == rows' = [rows EXCEPT ![j] = NewRow("deleted")]

\* update_job(status=s) returns None, and writes nothing, when the row is gone.
\* It checks nothing else: any status replaces any other.
WriteStatus(j, s) ==
  rows' = IF Exists(j) THEN [rows EXCEPT ![j].status = s] ELSE rows

\* A row in status s with its claim columns assigned: claimed_by = c, claimed_at = now.
Claim(c, s) == [status |-> s, claimed_by |-> c, age |-> 0]

WriteClaim(w, j) ==
  rows' = [rows EXCEPT ![j] = Claim(w, @.status)]

\* release_job, requeue = False: status is not assigned.
ClearClaim(j) ==
  rows' = [rows EXCEPT ![j] = Claim(Nobody, @.status)]

\* heartbeat: guarded by the claim still being ours.  Its UPDATE writes only
\* claimed_at, which no reader looks at once claimed_by is NULL, so the SELECT
\* and the UPDATE are one step.
Beat(w, j) ==
  rows' = IF Exists(j) /\ rows[j].claimed_by = w
            THEN [rows EXCEPT ![j].age = 0] ELSE rows

\* The flush of sweep_stale_claims: one transaction for all selected rows.
Reap(S) ==
  rows' = [j \in Jobs |->
             IF j \in S
               THEN Claim(Nobody, "failed")
               ELSE rows[j]]

\* One heartbeat interval passes: every claim grows older.
Age ==
  rows' = [j \in Jobs |->
             IF rows[j].claimed_by # Nobody /\ rows[j].age < MaxAge
               THEN [rows[j] EXCEPT !.age = @ + 1] ELSE rows[j]]
=============================================================================
