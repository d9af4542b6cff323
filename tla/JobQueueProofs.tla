--------------------------- MODULE JobQueueProofs ---------------------------
(***************************************************************************)
(* Theorems about JobQueue, for every number of jobs, workers and sweep    *)
(* loops, every stale threshold and every number of crashes and failed     *)
(* store calls.  They rest on two facts of the deployment: one worker      *)
(* process per class, and heartbeats in time for the stale threshold.      *)
(***************************************************************************)
EXTENDS JobQueue, TLAPS

\* What the job a worker has in hand and its row know of each other.
Routed ==
  \A w \in Workers :
    /\ job[w] \in Jobs => jobClass[job[w]] = workerClass[w]
    /\ job[w] \in Jobs <=> pc[w] \notin {"down", "idle"}

InHandIsBorn ==
  \A w \in Workers : job[w] \in Jobs => rows[job[w]].status # "unborn"

SelectedUnclaimed ==
  \A w \in Workers :
    pc[w] = "selected" /\ Exists(job[w]) => rows[job[w]].claimed_by = Nobody

RunIsFresh ==
  \A w \in Workers, j \in Jobs :
    Runs(w, j) /\ Exists(j) => rows[j].age <= MaxSilence

SweptNotOffered ==
  \A s \in Sweepers : \A j \in swept[s] :
    /\ rows[j].status # "unborn"
    /\ rows[j].status = "queued" => rows[j].claimed_by # Nobody

IInv ==
  /\ TypeOK
  /\ Routed
  /\ InHandIsBorn
  /\ SelectedUnclaimed
  /\ RunKeepsClaim
  /\ RunIsFresh
  /\ SweptIsDead
  /\ SweptNotOffered

-----------------------------------------------------------------------------
\* The table keeps its type under every statement.
LEMMA RowsTyped ==
  ASSUME rows \in [Jobs -> Row]
  PROVE  /\ \A j \in Jobs : Insert(j) => rows' \in [Jobs -> Row]
         /\ \A j \in Jobs : Delete(j) => rows' \in [Jobs -> Row]
         /\ \A j \in Jobs, s \in Status : WriteStatus(j, s) => rows' \in [Jobs -> Row]
         /\ \A w \in Workers, j \in Jobs : WriteClaim(w, j) => rows' \in [Jobs -> Row]
         /\ \A j \in Jobs : ClearClaim(j) => rows' \in [Jobs -> Row]
         /\ \A w \in Workers, j \in Jobs : Beat(w, j) => rows' \in [Jobs -> Row]
         /\ \A S \in SUBSET Jobs : Reap(S) => rows' \in [Jobs -> Row]
         /\ Age => rows' \in [Jobs -> Row]
<1> USE StoreAssumption DEF Row, Status, Terminal, RunningStatuses, MaxAge
<1>0. 0 \in 0 .. MaxAge
  OBVIOUS
<1>1. \A j \in Jobs : Insert(j) => rows' \in [Jobs -> Row]
  BY DEF Insert, NewRow
<1>2. \A j \in Jobs : Delete(j) => rows' \in [Jobs -> Row]
  BY DEF Delete, NewRow
<1>3. \A j \in Jobs, s \in Status : WriteStatus(j, s) => rows' \in [Jobs -> Row]
  BY DEF WriteStatus
<1>4. \A w \in Workers, j \in Jobs : WriteClaim(w, j) => rows' \in [Jobs -> Row]
  BY <1>0 DEF Claim, WriteClaim
<1>5. \A j \in Jobs : ClearClaim(j) => rows' \in [Jobs -> Row]
  BY <1>0 DEF Claim, ClearClaim
<1>6. \A w \in Workers, j \in Jobs : Beat(w, j) => rows' \in [Jobs -> Row]
  BY DEF Beat
<1>7. \A S \in SUBSET Jobs : Reap(S) => rows' \in [Jobs -> Row]
  BY <1>0 DEF Claim, Reap
<1>8. Age => rows' \in [Jobs -> Row]
  BY DEF Age
<1> QED BY <1>1, <1>2, <1>3, <1>4, <1>5, <1>6, <1>7, <1>8

\* With one worker per class, two workers never have the same job in hand.
LEMMA OneInHand ==
  ASSUME OneWorkerPerClass, Routed,
         NEW v \in Workers, NEW w \in Workers, job[v] \in Jobs, job[v] = job[w]
  PROVE  v = w
  BY DEF OneWorkerPerClass, Routed

\* A worker that has a job in hand is past the claim SELECT.
LEMMA InHand ==
  ASSUME TypeOK, Routed, NEW w \in Workers, NEW j \in Jobs
  PROVE  job[w] = j <=> (pc[w] = "selected" /\ job[w] = j) \/ Runs(w, j)
  BY DEF Routed, Runs, Deployed, TypeOK, PC

-----------------------------------------------------------------------------
LEMMA InitHolds == Init => IInv
<1> SUFFICES ASSUME Init PROVE IInv
  OBVIOUS
<1> USE StoreAssumption, QueueAssumption DEF Init
<1>1. TypeOK
  BY DEF TypeOK, NewRow, Row, MaxAge, PC, Deployed
<1>2. Routed /\ InHandIsBorn /\ SelectedUnclaimed
  BY DEF Routed, InHandIsBorn, SelectedUnclaimed
<1>3. RunKeepsClaim /\ RunIsFresh
  BY DEF RunKeepsClaim, RunIsFresh, Runs, Deployed
<1>4. SweptIsDead /\ SweptNotOffered
  BY DEF SweptIsDead, SweptNotOffered
<1> QED BY <1>1, <1>2, <1>3, <1>4 DEF IInv
-----------------------------------------------------------------------------
\* Every action preserves the inductive invariant; per action, its conjuncts.
LEMMA StepHolds ==
  ASSUME OneWorkerPerClass, BeatsInTime, IInv, [Next]_vars
  PROVE  IInv'
<1> USE StoreAssumption, QueueAssumption, OneInHand, InHand
    DEF IInv, TypeOK, Routed, RunKeepsClaim, Runs, Deployed, PC,
        Exists, Status, Terminal, RunningStatuses
<1>1. ASSUME NEW w \in Workers, ClaimSelect(w)
      PROVE  IInv'
  <2>1. TypeOK'
    BY <1>1 DEF ClaimSelect, IsOldest, Offered, Goto
  <2>2. Routed' /\ InHandIsBorn' /\ SelectedUnclaimed'
    BY <1>1 DEF InHandIsBorn, SelectedUnclaimed, ClaimSelect, IsOldest, Offered, Goto
  <2>3. RunKeepsClaim'
    BY <1>1 DEF InHandIsBorn, SelectedUnclaimed, SweptIsDead, ClaimSelect, IsOldest, Offered, Goto
  <2>4. RunIsFresh'
    <3> SUFFICES ASSUME NEW v \in Workers, NEW j \in Jobs, Runs(v, j)', Exists(j)'
                 PROVE  rows[j].age' <= MaxSilence
      BY DEF RunIsFresh
    <3>1. Runs(v, j)
      BY <1>1 DEF ClaimSelect, Goto
    <3>2. rows' = rows
      BY <1>1 DEF ClaimSelect
    <3> QED
      BY <3>1, <3>2 DEF RunIsFresh
  <2>5. SweptIsDead' /\ SweptNotOffered'
    BY <1>1 DEF SweptIsDead, SweptNotOffered, ClaimSelect, IsOldest, Offered, Goto
  <2> QED BY <2>1, <2>2, <2>3, <2>4, <2>5
<1>2. ASSUME NEW w \in Workers, ClaimUpdate(w)
      PROVE  IInv'
  <2>1. TypeOK'
    BY <1>2, RowsTyped DEF ClaimUpdate, WriteClaim, Claim, Goto
  <2>2. Routed' /\ InHandIsBorn' /\ SelectedUnclaimed'
    BY <1>2 DEF InHandIsBorn, SelectedUnclaimed, ClaimUpdate, WriteClaim, Claim, Goto
  <2>3. RunKeepsClaim'
    BY <1>2 DEF InHandIsBorn, SelectedUnclaimed, SweptIsDead, ClaimUpdate, WriteClaim, Claim, Goto
  <2>4. RunIsFresh'
    BY <1>2 DEF InHandIsBorn, RunIsFresh, SweptIsDead, ClaimUpdate, WriteClaim, Claim, Goto
  <2>5. SweptIsDead' /\ SweptNotOffered'
    BY <1>2 DEF SweptIsDead, SweptNotOffered, ClaimUpdate, WriteClaim, Claim, Goto
  <2> QED BY <2>1, <2>2, <2>3, <2>4, <2>5
<1>3. ASSUME NEW w \in Workers, ClaimLost(w)
      PROVE  IInv'
  <2>1. TypeOK'
    BY <1>3 DEF ClaimLost, Forget, Goto
  <2>2. Routed' /\ InHandIsBorn' /\ SelectedUnclaimed'
    BY <1>3 DEF InHandIsBorn, SelectedUnclaimed, ClaimLost, Forget, Goto
  <2>3. RunKeepsClaim'
    BY <1>3 DEF InHandIsBorn, SelectedUnclaimed, SweptIsDead, ClaimLost, Forget, Goto
  <2>4. RunIsFresh'
    BY <1>3 DEF InHandIsBorn, RunIsFresh, SweptIsDead, ClaimLost, Forget, Goto
  <2>5. SweptIsDead' /\ SweptNotOffered'
    BY <1>3 DEF SweptIsDead, SweptNotOffered, ClaimLost, Forget, Goto
  <2> QED BY <2>1, <2>2, <2>3, <2>4, <2>5
<1>4. ASSUME NEW w \in Workers, Heartbeat(w)
      PROVE  IInv'
  <2>1. TypeOK'
    <3>1. rows' \in [Jobs -> Row]
      BY <1>4, RowsTyped DEF Heartbeat
    <3>2. QED
      BY <1>4, <3>1 DEF Heartbeat, workerVars
  <2>2. Routed' /\ InHandIsBorn' /\ SelectedUnclaimed'
    BY <1>4 DEF InHandIsBorn, SelectedUnclaimed, Heartbeat, Beat, workerVars
  <2>3. RunKeepsClaim'
    BY <1>4 DEF InHandIsBorn, SelectedUnclaimed, SweptIsDead, Heartbeat, Beat, workerVars
  <2>4. RunIsFresh'
    BY <1>4 DEF InHandIsBorn, RunIsFresh, SweptIsDead, Heartbeat, Beat, workerVars
  <2>5. SweptIsDead' /\ SweptNotOffered'
    BY <1>4 DEF SweptIsDead, SweptNotOffered, Heartbeat, Beat, workerVars
  <2> QED BY <2>1, <2>2, <2>3, <2>4, <2>5
<1>5. ASSUME NEW w \in Workers, Report(w)
      PROVE  IInv'
  <2>1. TypeOK'
    BY <1>5, RowsTyped DEF Report, WriteStatus, workerVars
  <2>2. Routed' /\ InHandIsBorn' /\ SelectedUnclaimed'
    BY <1>5 DEF InHandIsBorn, SelectedUnclaimed, Report, WriteStatus, workerVars
  <2>3. RunKeepsClaim'
    BY <1>5 DEF InHandIsBorn, SelectedUnclaimed, SweptIsDead, Report, WriteStatus, workerVars
  <2>4. RunIsFresh'
    BY <1>5 DEF InHandIsBorn, RunIsFresh, SweptIsDead, Report, WriteStatus, workerVars
  <2>5. SweptIsDead' /\ SweptNotOffered'
    BY <1>5 DEF SweptIsDead, SweptNotOffered, Report, WriteStatus, workerVars
  <2> QED BY <2>1, <2>2, <2>3, <2>4, <2>5
<1>6. ASSUME NEW w \in Workers, Settle(w)
      PROVE  IInv'
  <2>1. TypeOK'
    <3>1. PICK t \in Terminal : WriteStatus(job[w], t)
      BY <1>6 DEF Settle
    <3>2. rows' \in [Jobs -> Row]
      BY <1>6, <3>1, RowsTyped DEF Settle
    <3>3. QED
      BY <1>6, <3>2 DEF Settle, Goto
  <2>2. Routed' /\ InHandIsBorn' /\ SelectedUnclaimed'
    BY <1>6 DEF InHandIsBorn, SelectedUnclaimed, Settle, WriteStatus, Goto
  <2>3. RunKeepsClaim'
    BY <1>6 DEF InHandIsBorn, SelectedUnclaimed, SweptIsDead, Settle, WriteStatus, Goto
  <2>4. RunIsFresh'
    BY <1>6 DEF InHandIsBorn, RunIsFresh, SweptIsDead, Settle, WriteStatus, Goto
  <2>5. SweptIsDead' /\ SweptNotOffered'
    BY <1>6 DEF SweptIsDead, SweptNotOffered, Settle, WriteStatus, Goto
  <2> QED BY <2>1, <2>2, <2>3, <2>4, <2>5
<1>7. ASSUME NEW w \in Workers, Abort(w)
      PROVE  IInv'
  <2>1. TypeOK'
    BY <1>7 DEF Abort, Fault, Goto
  <2>2. Routed' /\ InHandIsBorn' /\ SelectedUnclaimed'
    BY <1>7 DEF InHandIsBorn, SelectedUnclaimed, Abort, Fault, Goto
  <2>3. RunKeepsClaim'
    BY <1>7 DEF InHandIsBorn, SelectedUnclaimed, SweptIsDead, Abort, Fault, Goto
  <2>4. RunIsFresh'
    BY <1>7 DEF InHandIsBorn, RunIsFresh, SweptIsDead, Abort, Fault, Goto
  <2>5. SweptIsDead' /\ SweptNotOffered'
    BY <1>7 DEF SweptIsDead, SweptNotOffered, Abort, Fault, Goto
  <2> QED BY <2>1, <2>2, <2>3, <2>4, <2>5
<1>8. ASSUME NEW w \in Workers, ReleaseSelect(w)
      PROVE  IInv'
  <2>1. TypeOK'
    BY <1>8 DEF ReleaseSelect, Forget, Goto
  <2>2. Routed' /\ InHandIsBorn' /\ SelectedUnclaimed'
    BY <1>8 DEF InHandIsBorn, SelectedUnclaimed, ReleaseSelect, Forget, Goto
  <2>3. RunKeepsClaim'
    BY <1>8 DEF InHandIsBorn, SelectedUnclaimed, SweptIsDead, ReleaseSelect, Forget, Goto
  <2>4. RunIsFresh'
    BY <1>8 DEF InHandIsBorn, RunIsFresh, SweptIsDead, ReleaseSelect, Forget, Goto
  <2>5. SweptIsDead' /\ SweptNotOffered'
    BY <1>8 DEF SweptIsDead, SweptNotOffered, ReleaseSelect, Forget, Goto
  <2> QED BY <2>1, <2>2, <2>3, <2>4, <2>5
<1>9. ASSUME NEW w \in Workers, ReleaseUpdate(w)
      PROVE  IInv'
  <2>1. TypeOK'
    BY <1>9, RowsTyped DEF ReleaseUpdate, ClearClaim, Claim, Forget, Goto
  <2>2. Routed' /\ InHandIsBorn' /\ SelectedUnclaimed'
    BY <1>9 DEF InHandIsBorn, SelectedUnclaimed, ReleaseUpdate, ClearClaim, Claim, Forget, Goto
  <2>3. RunKeepsClaim'
    BY <1>9 DEF InHandIsBorn, SelectedUnclaimed, SweptIsDead, ReleaseUpdate, ClearClaim, Claim, Forget, Goto
  <2>4. RunIsFresh'
    BY <1>9 DEF InHandIsBorn, RunIsFresh, SweptIsDead, ReleaseUpdate, ClearClaim, Claim, Forget, Goto
  <2>5. SweptIsDead' /\ SweptNotOffered'
    BY <1>9 DEF SweptIsDead, SweptNotOffered, ReleaseUpdate, ClearClaim, Claim, Forget, Goto
  <2> QED BY <2>1, <2>2, <2>3, <2>4, <2>5
<1>10. ASSUME NEW w \in Workers, ReleaseFails(w)
      PROVE  IInv'
  <2>1. TypeOK'
    BY <1>10 DEF ReleaseFails, Fault, Forget, Goto
  <2>2. Routed' /\ InHandIsBorn' /\ SelectedUnclaimed'
    BY <1>10 DEF InHandIsBorn, SelectedUnclaimed, ReleaseFails, Fault, Forget, Goto
  <2>3. RunKeepsClaim'
    BY <1>10 DEF InHandIsBorn, SelectedUnclaimed, SweptIsDead, ReleaseFails, Fault, Forget, Goto
  <2>4. RunIsFresh'
    BY <1>10 DEF InHandIsBorn, RunIsFresh, SweptIsDead, ReleaseFails, Fault, Forget, Goto
  <2>5. SweptIsDead' /\ SweptNotOffered'
    BY <1>10 DEF SweptIsDead, SweptNotOffered, ReleaseFails, Fault, Forget, Goto
  <2> QED BY <2>1, <2>2, <2>3, <2>4, <2>5
<1>11. ASSUME NEW w \in Workers, Crash(w)
      PROVE  IInv'
  <2>1. TypeOK'
    BY <1>11 DEF Crash, Fault, Goto
  <2>2. Routed' /\ InHandIsBorn' /\ SelectedUnclaimed'
    BY <1>11 DEF InHandIsBorn, SelectedUnclaimed, Crash, Fault, Goto
  <2>3. RunKeepsClaim'
    BY <1>11 DEF InHandIsBorn, SelectedUnclaimed, SweptIsDead, Crash, Fault, Goto
  <2>4. RunIsFresh'
    BY <1>11 DEF InHandIsBorn, RunIsFresh, SweptIsDead, Crash, Fault, Goto
  <2>5. SweptIsDead' /\ SweptNotOffered'
    BY <1>11 DEF SweptIsDead, SweptNotOffered, Crash, Fault, Goto
  <2> QED BY <2>1, <2>2, <2>3, <2>4, <2>5
<1>12. ASSUME NEW w \in Workers, Restart(w)
      PROVE  IInv'
  <2>1. TypeOK'
    BY <1>12 DEF Restart, Goto
  <2>2. Routed' /\ InHandIsBorn' /\ SelectedUnclaimed'
    BY <1>12 DEF InHandIsBorn, SelectedUnclaimed, Restart, Goto
  <2>3. RunKeepsClaim'
    BY <1>12 DEF InHandIsBorn, SelectedUnclaimed, SweptIsDead, Restart, Goto
  <2>4. RunIsFresh'
    BY <1>12 DEF InHandIsBorn, RunIsFresh, SweptIsDead, Restart, Goto
  <2>5. SweptIsDead' /\ SweptNotOffered'
    BY <1>12 DEF SweptIsDead, SweptNotOffered, Restart, Goto
  <2> QED BY <2>1, <2>2, <2>3, <2>4, <2>5
<1>13. ASSUME NEW s \in Sweepers, SweepSelect(s)
      PROVE  IInv'
  <2>1. TypeOK'
    BY <1>13 DEF SweepSelect, StaleClaims, workerVars
  <2>2. Routed' /\ InHandIsBorn' /\ SelectedUnclaimed'
    BY <1>13 DEF InHandIsBorn, SelectedUnclaimed, SweepSelect, StaleClaims, workerVars
  <2>3. RunKeepsClaim'
    BY <1>13 DEF InHandIsBorn, SelectedUnclaimed, SweptIsDead, SweepSelect, StaleClaims, workerVars
  <2>4. RunIsFresh'
    BY <1>13 DEF InHandIsBorn, RunIsFresh, SweptIsDead, SweepSelect, StaleClaims, workerVars
  <2>5. \A j \in StaleClaims : \A w \in Workers : job[w] # j
    <3> SUFFICES ASSUME NEW j \in StaleClaims, NEW w \in Workers, job[w] = j
                 PROVE  FALSE
      OBVIOUS
    <3>1. j \in Jobs /\ rows[j].claimed_by # Nobody /\ rows[j].age > StaleAfter /\ Exists(j)
      BY DEF StaleClaims
    <3>2. Runs(w, j)
      BY <3>1 DEF SelectedUnclaimed
    <3>3. rows[j].age <= MaxSilence
      BY <3>1, <3>2 DEF RunIsFresh
    <3>4. rows[j].age \in Nat
      BY <3>1 DEF Row, MaxAge
    <3>5. QED
      BY <3>1, <3>3, <3>4 DEF BeatsInTime
  <2>6. SweptIsDead'
    BY <1>13, <2>5 DEF SweptIsDead, SweepSelect, workerVars
  <2>7. SweptNotOffered'
    BY <1>13 DEF SweptNotOffered, SweepSelect, StaleClaims, workerVars
  <2> QED BY <2>1, <2>2, <2>3, <2>4, <2>6, <2>7
<1>14. ASSUME NEW s \in Sweepers, SweepUpdate(s)
      PROVE  IInv'
  <2>1. TypeOK'
    <3>1. rows' \in [Jobs -> Row]
      BY <1>14, RowsTyped DEF SweepUpdate
    <3>2. QED
      BY <1>14, <3>1 DEF SweepUpdate, workerVars
  <2>2. ASSUME NEW w \in Workers, job[w] \in Jobs
        PROVE  rows'[job[w]] = rows[job[w]]
    <3>1. job[w] \notin swept[s]
      BY <1>14 DEF SweptIsDead
    <3>2. QED
      BY ONLY <1>14, <2>2, <3>1 DEF SweepUpdate, Reap
  <2>6. Routed' /\ InHandIsBorn'
    BY <1>14, <2>2 DEF InHandIsBorn, SweepUpdate, workerVars
  <2>7. SelectedUnclaimed'
    BY <1>14, <2>2 DEF SelectedUnclaimed, SweepUpdate, workerVars
  <2>3. RunKeepsClaim'
    BY <1>14 DEF InHandIsBorn, SelectedUnclaimed, SweptIsDead, SweepUpdate, Reap, Claim, workerVars
  <2>4. RunIsFresh'
    BY <1>14 DEF InHandIsBorn, RunIsFresh, SweptIsDead, SweepUpdate, Reap, Claim, workerVars
  <2>5. SweptIsDead' /\ SweptNotOffered'
    BY <1>14 DEF SweptIsDead, SweptNotOffered, SweepUpdate, Reap, Claim, workerVars
  <2> QED BY <2>1, <2>3, <2>4, <2>5, <2>6, <2>7
<1>15. ASSUME NEW s \in Sweepers, SweepDies(s)
      PROVE  IInv'
  <2>1. TypeOK'
    BY <1>15 DEF SweepDies, Fault, workerVars
  <2>2. Routed' /\ InHandIsBorn' /\ SelectedUnclaimed'
    BY <1>15 DEF InHandIsBorn, SelectedUnclaimed, SweepDies, Fault, workerVars
  <2>3. RunKeepsClaim'
    BY <1>15 DEF InHandIsBorn, SelectedUnclaimed, SweptIsDead, SweepDies, Fault, workerVars
  <2>4. RunIsFresh'
    BY <1>15 DEF InHandIsBorn, RunIsFresh, SweptIsDead, SweepDies, Fault, workerVars
  <2>5. SweptIsDead' /\ SweptNotOffered'
    BY <1>15 DEF SweptIsDead, SweptNotOffered, SweepDies, Fault, workerVars
  <2> QED BY <2>1, <2>2, <2>3, <2>4, <2>5
<1>16. ASSUME NEW k \in Jobs, ApiInsert(k)
      PROVE  IInv'
  <2>1. TypeOK'
    BY <1>16, RowsTyped DEF ApiInsert, Insert, NewRow, workerVars
  <2>2. Routed' /\ InHandIsBorn' /\ SelectedUnclaimed'
    BY <1>16 DEF InHandIsBorn, SelectedUnclaimed, ApiInsert, Insert, NewRow, workerVars
  <2>3. RunKeepsClaim'
    BY <1>16 DEF InHandIsBorn, SelectedUnclaimed, SweptIsDead, ApiInsert, Insert, NewRow, workerVars
  <2>4. RunIsFresh'
    BY <1>16 DEF InHandIsBorn, RunIsFresh, SweptIsDead, ApiInsert, Insert, NewRow, workerVars
  <2>5. SweptIsDead' /\ SweptNotOffered'
    BY <1>16 DEF SweptIsDead, SweptNotOffered, ApiInsert, Insert, NewRow, workerVars
  <2> QED BY <2>1, <2>2, <2>3, <2>4, <2>5
<1>17. ASSUME NEW k \in Jobs, ApiFinish(k)
      PROVE  IInv'
  <2>1. TypeOK'
    BY <1>17, RowsTyped DEF ApiFinish, WriteStatus, workerVars
  <2>2. Routed' /\ InHandIsBorn' /\ SelectedUnclaimed'
    BY <1>17 DEF InHandIsBorn, SelectedUnclaimed, ApiFinish, WriteStatus, workerVars
  <2>3. RunKeepsClaim'
    BY <1>17 DEF InHandIsBorn, SelectedUnclaimed, SweptIsDead, ApiFinish, WriteStatus, workerVars
  <2>4. RunIsFresh'
    BY <1>17 DEF InHandIsBorn, RunIsFresh, SweptIsDead, ApiFinish, WriteStatus, workerVars
  <2>5. SweptIsDead' /\ SweptNotOffered'
    BY <1>17 DEF SweptIsDead, SweptNotOffered, ApiFinish, WriteStatus, workerVars
  <2> QED BY <2>1, <2>2, <2>3, <2>4, <2>5
<1>18. ASSUME NEW k \in Jobs, ApiDelete(k)
      PROVE  IInv'
  <2>1. TypeOK'
    BY <1>18, RowsTyped DEF ApiDelete, Delete, NewRow, workerVars
  <2>2. Routed' /\ InHandIsBorn' /\ SelectedUnclaimed'
    BY <1>18 DEF InHandIsBorn, SelectedUnclaimed, ApiDelete, Delete, NewRow, workerVars
  <2>3. RunKeepsClaim'
    BY <1>18 DEF InHandIsBorn, SelectedUnclaimed, SweptIsDead, ApiDelete, Delete, NewRow, workerVars
  <2>4. RunIsFresh'
    BY <1>18 DEF InHandIsBorn, RunIsFresh, SweptIsDead, ApiDelete, Delete, NewRow, workerVars
  <2>5. SweptIsDead' /\ SweptNotOffered'
    BY <1>18 DEF SweptIsDead, SweptNotOffered, ApiDelete, Delete, NewRow, workerVars
  <2> QED BY <2>1, <2>2, <2>3, <2>4, <2>5
<1>19. ASSUME Tick
      PROVE  IInv'
  <2>1. TypeOK'
    BY <1>19, RowsTyped DEF Tick, Age, workerVars
  <2>2. Routed' /\ InHandIsBorn' /\ SelectedUnclaimed'
    BY <1>19 DEF InHandIsBorn, SelectedUnclaimed, Tick, Age, workerVars
  <2>3. RunKeepsClaim'
    BY <1>19 DEF InHandIsBorn, SelectedUnclaimed, SweptIsDead, Tick, Age, workerVars
  <2>4. RunIsFresh'
    <3> SUFFICES ASSUME NEW v \in Workers, NEW j \in Jobs, Runs(v, j)', Exists(j)'
                 PROVE  rows[j].age' <= MaxSilence
      BY DEF RunIsFresh
    <3>1. Runs(v, j) /\ rows[j].claimed_by = v
      BY <1>19 DEF Tick, Age, workerVars
    <3>2. rows[j].age < MaxSilence /\ rows[j].age \in Nat
      BY <1>19, <3>1 DEF Tick, Row, MaxAge
    <3>3. rows[j].age' \in {rows[j].age, rows[j].age + 1}
      BY <1>19 DEF Tick, Age, Row
    <3>4. QED
      BY <3>2, <3>3
  <2>5. SweptIsDead' /\ SweptNotOffered'
    BY <1>19 DEF SweptIsDead, SweptNotOffered, Tick, Age, workerVars
  <2> QED BY <2>1, <2>2, <2>3, <2>4, <2>5
<1>20. ASSUME UNCHANGED vars
      PROVE  IInv'
  <2>1. rows' = rows /\ pc' = pc /\ job' = job /\ swept' = swept /\ faults' = faults
    BY <1>20 DEF vars
  <2>2. TypeOK' /\ Routed'
    BY <2>1
  <2>3. InHandIsBorn'
    BY <2>1 DEF InHandIsBorn
  <2>4. SelectedUnclaimed'
    BY <2>1 DEF SelectedUnclaimed
  <2>5. RunKeepsClaim' /\ RunIsFresh'
    BY <2>1 DEF RunIsFresh
  <2>6. SweptIsDead' /\ SweptNotOffered'
    BY <2>1 DEF SweptIsDead, SweptNotOffered
  <2> QED BY <2>2, <2>3, <2>4, <2>5, <2>6
<1> QED
  BY <1>1, <1>2, <1>3, <1>4, <1>5, <1>6, <1>7, <1>8, <1>9, <1>10, <1>11, <1>12, <1>13, <1>14, <1>15, <1>16, <1>17, <1>18, <1>19, <1>20 DEF Next, WorkerStep, RunStep, SweepStep, ApiStep

-----------------------------------------------------------------------------
\* The inductive invariant holds in every state of the queue.
THEOREM Invariance ==
  ASSUME OneWorkerPerClass, BeatsInTime
  PROVE  Spec => []IInv
<1>1. IInv /\ [Next]_vars => IInv'
  BY StepHolds
<1> QED
  BY <1>1, InitHolds, PTL DEF Spec

\* Type correctness.
THEOREM TypeCorrect ==
  ASSUME OneWorkerPerClass, BeatsInTime
  PROVE  Spec => []TypeOK
<1>1. IInv => TypeOK
  BY DEF IInv
<1> QED BY <1>1, Invariance, PTL

\* heartbeat and sweep_stale_claims: a live run is never reaped, and its row
\* stays claimed by the worker that runs it until that worker releases it.
THEOREM LiveRunKeepsClaim ==
  ASSUME OneWorkerPerClass, BeatsInTime
  PROVE  Spec => [](RunKeepsClaim /\ SweptIsDead)
<1>1. IInv => RunKeepsClaim /\ SweptIsDead
  BY DEF IInv
<1> QED BY <1>1, Invariance, PTL

\* claim_next_job and release_job: a claim reaches another worker only through
\* NULL, across every crash, restart, sweep and deletion.
THEOREM NoTheft ==
  ASSUME OneWorkerPerClass, BeatsInTime
  PROVE  Spec => ClaimNeverStolen
<1> DEFINE Kept ==
      \A j \in Jobs : rows[j].claimed_by # Nobody
                       => rows'[j].claimed_by \in {rows[j].claimed_by, Nobody}
<1>1. ASSUME IInv, [Next]_vars
      PROVE  [Kept]_vars
  <2> USE <1>1, StoreAssumption DEF IInv, TypeOK
  <2>1. ASSUME NEW w \in Workers, ClaimUpdate(w)
        PROVE  Kept
    BY <2>1 DEF ClaimUpdate, WriteClaim, Claim, SelectedUnclaimed, Routed
  <2>2. ASSUME NEW w \in Workers, WorkerStep(w), ~ClaimUpdate(w)
        PROVE  Kept
    <3>1. CASE Heartbeat(w)
      BY <3>1 DEF Heartbeat, Beat
    <3>2. CASE Report(w)
      BY <3>2 DEF Report, WriteStatus
    <3>3. CASE Settle(w)
      BY <3>3 DEF Settle, WriteStatus
    <3>4. CASE ReleaseUpdate(w)
      BY <3>4 DEF ReleaseUpdate, ClearClaim, Claim
    <3>5. CASE UNCHANGED rows
      BY <3>5 DEF Row
    <3> QED
      BY <2>2, <3>1, <3>2, <3>3, <3>4, <3>5
         DEF WorkerStep, RunStep, ClaimSelect, ClaimLost, Abort, ReleaseSelect, ReleaseFails, Crash, Restart
  <2>3. ASSUME NEW s \in Sweepers, SweepStep(s) \/ SweepDies(s)
        PROVE  Kept
    BY <2>3 DEF SweepStep, SweepSelect, SweepUpdate, SweepDies, Reap, Claim
  <2>4. ASSUME NEW k \in Jobs, ApiStep(k)
        PROVE  Kept
    <3>1. CASE ApiInsert(k)
      BY <3>1 DEF ApiInsert, Insert, NewRow
    <3>2. CASE ApiFinish(k)
      BY <3>2 DEF ApiFinish, WriteStatus
    <3>3. CASE ApiDelete(k)
      BY <3>3 DEF ApiDelete, Delete, NewRow
    <3> QED
      BY <2>4, <3>1, <3>2, <3>3 DEF ApiStep
  <2>5. ASSUME Tick
        PROVE  Kept
    BY <2>5 DEF Tick, Age
  <2> QED
    BY <1>1, <2>1, <2>2, <2>3, <2>4, <2>5 DEF Next
<1> QED
  BY <1>1, Invariance, PTL DEF ClaimNeverStolen, Spec

=============================================================================
