--------------------------- MODULE EventBusProofs ---------------------------
(***************************************************************************)
(* Theorems about EventBus, for any number of lines, dropped connections   *)
(* and restarts.                                                           *)
(***************************************************************************)
EXTENDS EventBus, FiniteSetTheorems, WellFoundedInduction, TLAPS

\* No process is ahead of the file by more than the id it is about to append.
IdsBounded ==
  /\ \A i \in DOMAIN file : file[i].id <= i
  /\ \A p \in Procs : IF pending[p] = 0 THEN nextId[p] <= Len(file) + 1
                      ELSE pending[p] <= Len(file) + 1 /\ nextId[p] = pending[p] + 1

\* The page has an event with the id of line i.
Seen(i) == \E k \in DOMAIN log : file[log[k]].id = file[i].id

\* The generator sends what it has read; the page has seen every event it was
\* sent, and every event in the file up to any line it shows.
Cursor == sub.sent <= sub.read /\ sub.read <= Len(file)
SeenSent == \A i \in 1 .. sub.sent : file[i].ok => Seen(i)
SeenBefore == \A k \in DOMAIN log : \A i \in 1 .. log[k] : file[i].ok => Seen(i)
LogInFile == \A k \in DOMAIN log : log[k] <= Len(file) /\ file[log[k]].ok

Shown == Cursor /\ SeenSent /\ SeenBefore /\ LogInFile /\ LogInOrder

\* The process that publishes: the API, until the worker takes its first id.
Speaker == IF begun THEN "worker" ELSE "api"

\* While the two take turns the other one has nothing to append, the speaker's
\* counter is past the whole file, and a closed stream stays as it is.
OneSpeaks ==
  ~spoke =>
    /\ IF begun THEN pending["api"] = 0 ELSE pending["worker"] = 0 /\ nextId["worker"] = 0
    /\ IdsRise
    /\ \A i \in DOMAIN file : file[i].ok =>
         /\ nextId[Speaker] # 0 => file[i].id < nextId[Speaker]
         /\ pending[Speaker] # 0 => file[i].id < pending[Speaker]
    /\ done => begun /\ ~running /\ pending["worker"] = 0
    /\ conn = "stopped" => done

Inv == TypeOK /\ IdsBounded /\ Shown /\ OneSpeaks /\ StoppedSawAll

-----------------------------------------------------------------------------
\* A nonempty set of positions has a last one: of the sets of later positions,
\* which are ordered by inclusion, the least is empty.
LEMMA GreatestPosition ==
  ASSUME NEW n \in Nat, NEW S \in SUBSET (1 .. n), S # {}
  PROVE  \E m \in S : \A k \in S : k <= m
<1> DEFINE Later(i) == {j \in S : j > i}
           T == {Later(i) : i \in S}
<1>1. IsWellFoundedOn(StrictSubsetOrdering(S), SUBSET S)
  <2>1. IsFiniteSet(S)
    <3>1. IsFiniteSet(1 .. n)
      BY FS_Interval
    <3> QED BY <3>1, FS_Subset
  <2> QED BY <2>1, FS_StrictSubsetOrderingWellFounded, FS_FiniteSubsetsOfFinite
<1>2. T \subseteq SUBSET S /\ T # {}
  OBVIOUS
<1>3. PICK t \in T : \A u \in T : ~ (<<u, t>> \in StrictSubsetOrdering(S))
  <2> HIDE DEF T
  <2> QED BY <1>1, <1>2, WFMin
<1>4. PICK m \in S : t = Later(m)
  BY <1>3
<1>5. ASSUME NEW k \in S, k > m PROVE FALSE
  <2>1. Later(k) \in T
    OBVIOUS
  <2>2. k \in Later(m) /\ k \notin Later(k)
    BY <1>5
  <2>3. \A j \in S : j > k => j > m
    BY <1>5
  <2>4. Later(k) \subseteq Later(m) /\ Later(m) \subseteq S
    BY <2>3
  <2>5. <<Later(k), Later(m)>> \in StrictSubsetOrdering(S)
    <3> HIDE DEF Later
    <3> QED BY <2>4, <2>2 DEF StrictSubsetOrdering
  <2> QED BY <2>1, <2>5, <1>3, <1>4
<1> QED BY <1>5

\* _scan_last_id returns the id of some line that parses, or 0 when none does;
\* when ids rise along the file no other is greater.
LEMMA LastOfFile ==
  ASSUME TypeOK
  PROVE  /\ \/ ScanLastId = 0
            \/ \E i \in DOMAIN file : file[i].ok /\ ScanLastId = file[i].id
         /\ IdsRise => \A i \in DOMAIN file : file[i].ok => file[i].id <= ScanLastId
<1> DEFINE good == {i \in DOMAIN file : file[i].ok}
           last == CHOOSE i \in good : \A k \in good : k <= i
<1>1. Len(file) \in Nat /\ DOMAIN file = 1 .. Len(file)
  BY DEF TypeOK
<1>2. CASE good = {}
  BY <1>2 DEF ScanLastId
<1>3. CASE good # {}
  <2>1. last \in good /\ \A k \in good : k <= last
    <3>1. good \in SUBSET (1 .. Len(file))
      BY <1>1
    <3> HIDE DEF good
    <3>2. \E i \in good : \A k \in good : k <= i
      BY <1>1, <1>3, <3>1, GreatestPosition
    <3> QED BY <3>2
  <2>2. ScanLastId = file[last].id
    BY <1>3 DEF ScanLastId
  <2> HIDE DEF last
  <2>3. ASSUME IdsRise, NEW k \in DOMAIN file, file[k].ok PROVE file[k].id <= file[last].id
    <3>1. k \in good /\ k <= last /\ last \in DOMAIN file /\ file[last].ok
      BY <2>1, <2>3
    <3>2. file[k].id \in Nat /\ file[last].id \in Nat
      <4>1. file[k] \in Line /\ file[last] \in Line
        BY <3>1 DEF TypeOK
      <4> QED BY <4>1, BusAssumption DEF Line, Ids
    <3>3. CASE k = last
      BY <3>2, <3>3
    <3>4. CASE k < last
      BY <3>1, <3>2, <3>4, <2>3 DEF IdsRise
    <3> QED BY <3>1, <3>3, <3>4, <1>1
  <2> QED BY <2>1, <2>2, <2>3
<1> QED BY <1>2, <1>3

LEMMA InitInv == Init => Inv
<1> SUFFICES ASSUME Init PROVE Inv
  OBVIOUS
<1> USE BusAssumption DEF Init
<1>1. TypeOK
  <2>1. file \in Seq(Line) /\ Len(file) <= MaxLines
    OBVIOUS
  <2>2. nextId \in [Procs -> 0 .. MaxLines + 2] /\ pending \in [Procs -> 0 .. MaxLines + 1]
    OBVIOUS
  <2>3. sub \in [at : {"none", "reading", "sending"}, read : 0 .. MaxLines, sent : 0 .. MaxLines]
    BY DEF NoSub
  <2>4. log \in Seq(1 .. MaxLines) /\ drops \in 0 .. MaxDrops /\ restarts \in 0 .. MaxRestarts
    OBVIOUS
  <2> QED BY ONLY Init, <2>1, <2>2, <2>3, <2>4 DEF Init, TypeOK
<1>2. IdsBounded
  BY DEF IdsBounded, Procs
<1>3. Shown
  BY DEF Shown, Cursor, SeenSent, SeenBefore, LogInFile, LogInOrder, NoSub
<1>4. OneSpeaks /\ StoppedSawAll
  BY DEF OneSpeaks, Speaker, StoppedSawAll, IdsRise, Procs
<1> QED BY <1>1, <1>2, <1>3, <1>4 DEF Inv

-----------------------------------------------------------------------------
\* An append leaves the earlier lines alone.
LEMMA Appended ==
  ASSUME TypeOK, NEW p \in Procs, AppendLine(p)
  PROVE  /\ Len(file) \in Nat /\ Len(file') = Len(file) + 1
         /\ DOMAIN file = 1 .. Len(file) /\ DOMAIN file' = 1 .. Len(file) + 1
         /\ \A i \in 1 .. Len(file) : file'[i] = file[i]
         /\ file'[Len(file) + 1] = [id |-> pending[p], ok |-> ~torn]
         /\ file' \in Seq(Line) /\ Len(file') <= MaxLines
<1>1. [id |-> pending[p], ok |-> ~torn] \in Line
  <2>1. pending[p] \in Ids
    BY BusAssumption DEF TypeOK, AppendLine, Ids, Procs
  <2> QED BY <2>1 DEF Line
<1> QED BY <1>1, BusAssumption DEF TypeOK, AppendLine

\* The id a process takes next is at most one more than the lines there are.
LEMMA AssignBounded ==
  ASSUME Inv, NEW p \in Procs, Assign(p)
  PROVE  \E id \in 1 .. Len(file) + 1 :
           /\ id = IF nextId[p] # 0 THEN nextId[p] ELSE ScanLastId + 1
           /\ pending' = [pending EXCEPT ![p] = id]
           /\ nextId' = [nextId EXCEPT ![p] = id + 1]
<1> DEFINE id == IF nextId[p] # 0 THEN nextId[p] ELSE ScanLastId + 1
<1>1. Len(file) \in Nat /\ DOMAIN file = 1 .. Len(file) /\ nextId[p] \in Nat /\ pending[p] = 0
  BY BusAssumption DEF Inv, TypeOK, Assign, Procs
<1>2. ScanLastId \in 0 .. Len(file)
  <2>1. CASE ScanLastId = 0
    BY <2>1, <1>1
  <2>2. ASSUME NEW i \in DOMAIN file, ScanLastId = file[i].id PROVE ScanLastId \in 0 .. Len(file)
    <3>1. file[i] \in Line
      BY DEF Inv, TypeOK
    <3>2. file[i].id \in Nat \ {0} /\ file[i].id <= i
      BY <3>1, BusAssumption DEF Inv, IdsBounded, Line, Ids
    <3> QED BY <2>2, <3>2, <1>1
  <2> QED BY <2>1, <2>2, LastOfFile DEF Inv
<1>3. nextId[p] <= Len(file) + 1
  BY <1>1 DEF Inv, IdsBounded, Procs
<1>4. id \in 1 .. Len(file) + 1
  BY <1>1, <1>2, <1>3
<1> QED BY <1>4 DEF Assign

\* The types of a step, and the bound on ids they need.
LEMMA TypeStep == Inv /\ [Next]_vars => TypeOK' /\ IdsBounded'
<1> SUFFICES ASSUME Inv, [Next]_vars PROVE TypeOK' /\ IdsBounded'
  OBVIOUS
<1> USE BusAssumption
<1>0. Len(file) \in Nat /\ DOMAIN file = 1 .. Len(file)
  BY DEF Inv, TypeOK
<1>1. ASSUME NEW p \in Procs, Assign(p) PROVE TypeOK' /\ IdsBounded'
  <2>1. PICK id \in 1 .. Len(file) + 1 :
           /\ pending' = [pending EXCEPT ![p] = id]
           /\ nextId' = [nextId EXCEPT ![p] = id + 1]
    BY <1>1, AssignBounded
  <2>2. Len(file) < MaxLines /\ file' = file
    BY <1>1 DEF Assign
  <2>3. nextId' \in [Procs -> 0 .. MaxLines + 2] /\ pending' \in [Procs -> 0 .. MaxLines + 1]
    BY <2>1, <2>2, <1>0 DEF Inv, TypeOK, Procs
  <2>4. TypeOK'
    BY <1>1, <2>3 DEF Inv, TypeOK, Assign, pageVars
  <2>5. IdsBounded'
    <3>1. pending'[p] = id /\ nextId'[p] = id + 1 /\ id # 0
      BY <2>1 DEF Inv, TypeOK
    <3>2. \A q \in Procs \ {p} : pending'[q] = pending[q] /\ nextId'[q] = nextId[q]
      BY <2>1 DEF Inv, TypeOK
    <3>3. \A i \in DOMAIN file : file[i].id <= i
      BY DEF Inv, IdsBounded
    <3>4. ASSUME NEW q \in Procs
          PROVE IF pending'[q] = 0 THEN nextId'[q] <= Len(file) + 1
                ELSE pending'[q] <= Len(file) + 1 /\ nextId'[q] = pending'[q] + 1
      BY <3>1, <3>2, <1>0 DEF Inv, IdsBounded
    <3> QED BY <3>3, <3>4, <2>2 DEF IdsBounded
  <2> QED BY <2>4, <2>5
<1>2. ASSUME NEW p \in Procs, AppendLine(p) PROVE TypeOK' /\ IdsBounded'
  <2>1. TypeOK
    BY DEF Inv
  <2>2. pending' = [pending EXCEPT ![p] = 0] /\ nextId' = nextId
    BY <1>2 DEF AppendLine
  <2>3. TypeOK'
    <3>1. pending' \in [Procs -> 0 .. MaxLines + 1]
      BY <2>1, <2>2 DEF TypeOK
    <3>2. file' \in Seq(Line) /\ Len(file') <= MaxLines
      BY <1>2, <2>1, Appended
    <3> QED BY ONLY <1>2, <3>1, <3>2, <2>1 DEF TypeOK, AppendLine, pageVars
  <2>4. IdsBounded'
    <3>1. pending[p] # 0 /\ pending[p] <= Len(file) + 1 /\ nextId[p] = pending[p] + 1
      BY <1>2 DEF Inv, IdsBounded, AppendLine
    <3>2. Len(file') = Len(file) + 1 /\ DOMAIN file' = 1 .. Len(file) + 1
      BY <1>2, <2>1, Appended
    <3>3. ASSUME NEW i \in DOMAIN file' PROVE file'[i].id <= i
      <4>1. CASE i \in 1 .. Len(file)
        <5>1. file'[i] = file[i]
          BY <1>2, <2>1, <4>1, Appended
        <5> QED BY <5>1, <4>1, <1>0 DEF Inv, IdsBounded
      <4>2. CASE i = Len(file) + 1
        <5>1. file'[Len(file) + 1] = [id |-> pending[p], ok |-> ~torn]
          BY <1>2, <2>1, Appended
        <5>2. file'[i].id = pending[p]
          BY <5>1, <4>2
        <5> QED BY <5>2, <4>2, <3>1
      <4> QED BY <4>1, <4>2, <3>2, <1>0
    <3>4. ASSUME NEW q \in Procs
          PROVE IF pending'[q] = 0 THEN nextId'[q] <= Len(file') + 1
                ELSE pending'[q] <= Len(file') + 1 /\ nextId'[q] = pending'[q] + 1
      <4>1. pending[q] \in Nat /\ nextId[q] \in Nat
        BY <2>1 DEF TypeOK
      <4>2. CASE q = p
        <5>1. pending'[q] = 0 /\ nextId'[q] = pending[p] + 1
          BY <4>2, <2>1, <2>2, <3>1 DEF TypeOK
        <5> QED BY <5>1, <3>1, <3>2, <4>1, <4>2, <1>0
      <4>3. CASE q # p
        <5>1. pending'[q] = pending[q] /\ nextId'[q] = nextId[q]
          BY <4>3, <2>1, <2>2 DEF TypeOK
        <5> QED BY <5>1, <3>2, <4>1, <1>0 DEF Inv, IdsBounded
      <4> QED BY <4>2, <4>3
    <3> QED BY <3>3, <3>4 DEF IdsBounded
  <2> QED BY <2>3, <2>4
<1>3. ASSUME NEW p \in Procs, Restart(p) PROVE TypeOK' /\ IdsBounded'
  <2>1. nextId' = [nextId EXCEPT ![p] = 0] /\ pending' = [pending EXCEPT ![p] = 0] /\ file' = file
    BY <1>3 DEF Restart
  <2>2. nextId' \in [Procs -> 0 .. MaxLines + 2] /\ pending' \in [Procs -> 0 .. MaxLines + 1]
    BY <2>1 DEF Inv, TypeOK
  <2>3. torn' \in BOOLEAN
    BY <1>3 DEF Inv, TypeOK, Restart
  <2>4. running' \in BOOLEAN /\ conn' \in {"open", "closed", "stopped"}
    BY <1>3 DEF Inv, TypeOK, Restart
  <2>5. sub' \in [at : {"none", "reading", "sending"}, read : 0 .. MaxLines, sent : 0 .. MaxLines]
    BY <1>3 DEF Inv, TypeOK, Restart, NoSub
  <2>6. restarts' \in 0 .. MaxRestarts
    BY <1>3 DEF Inv, TypeOK, Restart
  <2>7. TypeOK'
    BY ONLY <1>3, <2>2, <2>3, <2>4, <2>5, <2>6, Inv DEF Inv, TypeOK, Restart
  <2>8. IdsBounded'
    <3>1. ASSUME NEW q \in Procs
          PROVE IF pending'[q] = 0 THEN nextId'[q] <= Len(file) + 1
                ELSE pending'[q] <= Len(file) + 1 /\ nextId'[q] = pending'[q] + 1
      <4>1. CASE q = p
        <5>1. pending'[q] = 0 /\ nextId'[q] = 0
          BY <4>1, <2>1 DEF Inv, TypeOK
        <5> QED BY <5>1, <1>0
      <4>2. CASE q # p
        <5>1. pending'[q] = pending[q] /\ nextId'[q] = nextId[q]
          BY <4>2, <2>1 DEF Inv, TypeOK
        <5> QED BY <5>1 DEF Inv, IdsBounded
      <4> QED BY <4>1, <4>2
    <3> QED BY <3>1, <2>1 DEF Inv, IdsBounded
  <2> QED BY <2>1, <2>7, <2>8 DEF Inv
<1>4. ASSUME UNCHANGED <<file, nextId, pending>>, TypeOK' PROVE TypeOK' /\ IdsBounded'
  BY <1>4 DEF Inv, IdsBounded
<1>5. CASE ForceClose \/ CloseRun
  BY <1>4, <1>5 DEF Inv, TypeOK, ForceClose, CloseRun, pageVars
<1>6. CASE Read \/ Poll \/ Drop \/ Connect
  <2>1. UNCHANGED <<busVars, running, begun, spoke, log, restarts>>
    BY <1>6 DEF Read, Poll, Drop, Connect
  <2>2. drops' \in 0 .. MaxDrops
    BY <1>6 DEF Inv, TypeOK, Read, Poll, Drop, Connect
  <2>3. conn' \in {"open", "closed", "stopped"}
    BY <1>6 DEF Inv, TypeOK, Read, Poll, Drop, Connect
  <2>4. sub' \in [at : {"none", "reading", "sending"}, read : 0 .. MaxLines, sent : 0 .. MaxLines]
    <3>1. Len(file) \in 0 .. MaxLines
      BY <1>0 DEF Inv, TypeOK
    <3>2. CASE Read
      BY <3>1, <3>2 DEF Inv, TypeOK, Read
    <3>3. CASE Poll \/ Drop \/ Connect
      <4>1. sub' \in {NoSub, [sub EXCEPT !.at = "reading"], [NoSub EXCEPT !.at = "reading"]}
        BY <3>3 DEF Poll, Drop, Connect
      <4>2. sub \in [at : {"none", "reading", "sending"}, read : 0 .. MaxLines, sent : 0 .. MaxLines]
        BY DEF Inv, TypeOK
      <4>3. 0 \in 0 .. MaxLines
        OBVIOUS
      <4> QED BY ONLY <4>1, <4>2, <4>3 DEF NoSub
    <3> QED BY <3>2, <3>3, <1>6
  <2>5. TypeOK'
    BY ONLY <2>1, <2>2, <2>3, <2>4, Inv DEF Inv, TypeOK, busVars
  <2> QED BY <1>4, <2>1, <2>5 DEF busVars
<1>7. CASE Send
  <2>1. UNCHANGED <<busVars, running, begun, spoke, conn, drops, restarts>>
    BY <1>7 DEF Send
  <2>2. sub.sent + 1 \in 1 .. MaxLines
    BY <1>7 DEF Inv, TypeOK, Send
  <2>3. log' \in Seq(1 .. MaxLines)
    <3>1. log' = log \/ log' = Append(log, sub.sent + 1)
      BY <1>7 DEF Send, Receive
    <3>2. log \in Seq(1 .. MaxLines)
      BY DEF Inv, TypeOK
    <3>3. Append(log, sub.sent + 1) \in Seq(1 .. MaxLines)
      BY ONLY <3>2, <2>2
    <3> QED BY <3>1, <3>2, <3>3
  <2>4. sub' \in [at : {"none", "reading", "sending"}, read : 0 .. MaxLines, sent : 0 .. MaxLines]
    <3>1. sub' = [sub EXCEPT !.sent = sub.sent + 1]
      BY <1>7 DEF Send
    <3>2. sub \in [at : {"none", "reading", "sending"}, read : 0 .. MaxLines, sent : 0 .. MaxLines]
      BY DEF Inv, TypeOK
    <3> QED BY ONLY <3>1, <3>2, <2>2, BusAssumption DEF BusAssumption
  <2>5. TypeOK'
    BY ONLY <2>1, <2>3, <2>4, Inv DEF Inv, TypeOK, busVars
  <2> QED BY <1>4, <2>1, <2>5 DEF busVars
<1>8. CASE UNCHANGED vars
  BY <1>4, <1>8 DEF Inv, TypeOK, vars, busVars, pageVars
<1> QED BY <1>1, <1>2, <1>3, <1>5, <1>6, <1>7, <1>8 DEF Next, TailStep

-----------------------------------------------------------------------------
\* What the page shows, over any reconnection: order and completeness of the log.
LEMMA ShownStep == Inv /\ [Next]_vars => Shown'
<1> SUFFICES ASSUME Inv, [Next]_vars PROVE Shown'
  OBVIOUS
<1>0. /\ Len(file) \in Nat /\ DOMAIN file = 1 .. Len(file)
      /\ Len(log) \in Nat /\ DOMAIN log = 1 .. Len(log)
      /\ \A k \in DOMAIN log : log[k] \in Nat \ {0}
      /\ sub.sent \in Nat /\ sub.read \in Nat
  BY BusAssumption DEF Inv, TypeOK
<1>1. ASSUME NEW p \in Procs, AppendLine(p) PROVE Shown'
  <2>1. /\ Len(file') = Len(file) + 1
        /\ \A i \in 1 .. Len(file) : file'[i] = file[i]
    BY <1>1, Appended DEF Inv
  <2>2. log' = log /\ sub' = sub
    BY <1>1 DEF AppendLine, pageVars
  <2>3. \A k \in DOMAIN log : log[k] \in 1 .. Len(file) /\ file'[log[k]] = file[log[k]]
    BY <2>1, <1>0 DEF Inv, Shown, LogInFile
  <2>4. ASSUME NEW i \in 1 .. Len(file), Seen(i) PROVE Seen(i)'
    BY <2>1, <2>2, <2>3, <2>4 DEF Seen
  <2>5. Cursor' /\ LogInOrder'
    BY <2>1, <2>2, <1>0 DEF Inv, Shown, Cursor, LogInOrder
  <2>6. LogInFile'
    BY <2>1, <2>2, <2>3, <1>0 DEF Inv, Shown, LogInFile
  <2>7. SeenSent'
    <3>1. ASSUME NEW i \in 1 .. sub.sent, file'[i].ok PROVE Seen(i)'
      <4>1. i \in 1 .. Len(file) /\ file'[i] = file[i]
        BY <2>1, <1>0 DEF Inv, Shown, Cursor
      <4> QED BY <4>1, <3>1, <2>4 DEF Inv, Shown, SeenSent
    <3> QED BY <3>1, <2>2 DEF SeenSent
  <2>8. SeenBefore'
    <3>1. ASSUME NEW k \in DOMAIN log, NEW i \in 1 .. log[k], file'[i].ok PROVE Seen(i)'
      <4>1. i \in 1 .. Len(file) /\ file'[i] = file[i]
        BY <2>1, <2>3, <1>0
      <4> QED BY <4>1, <3>1, <2>4 DEF Inv, Shown, SeenBefore
    <3> QED BY <3>1, <2>2 DEF SeenBefore
  <2> QED BY <2>5, <2>6, <2>7, <2>8 DEF Shown
<1>2. CASE Send
  <2> DEFINE i == sub.sent + 1
  <2>1. /\ i \in 1 .. sub.read /\ i <= Len(file) /\ file' = file
        /\ sub' = [sub EXCEPT !.sent = i]
        /\ IF file[i].ok THEN Receive(i) ELSE log' = log
    BY <1>2, <1>0 DEF Send, busVars, Inv, Shown, Cursor
  <2>2. sub'.sent = i /\ sub'.read = sub.read
    BY <2>1 DEF Inv, TypeOK
  <2>3. Cursor'
    BY <2>1, <2>2 DEF Inv, Shown, Cursor
  <2>4. CASE log' = log /\ (file[i].ok => Seen(i))
    <3>1. \A j \in 1 .. Len(file) : Seen(j)' <=> Seen(j)
      BY <2>1, <2>4 DEF Seen
    <3>2. SeenSent'
      <4>1. \A j \in 1 .. i : j \in 1 .. sub.sent \/ j = i
        BY <1>0
      <4>2. \A j \in 1 .. i : j \in 1 .. Len(file)
        BY <2>1, <1>0
      <4> HIDE DEF i
      <4> QED BY <4>1, <4>2, <3>1, <2>1, <2>2, <2>4 DEF Inv, Shown, SeenSent
    <3>3. SeenBefore' /\ LogInFile' /\ LogInOrder'
      BY <2>1, <2>4 DEF Inv, Shown, SeenBefore, LogInFile, LogInOrder, Seen
    <3> QED BY <2>3, <3>2, <3>3 DEF Shown
  <2>5. CASE log' = Append(log, i) /\ file[i].ok /\ ~Seen(i)
    <3>1. /\ Len(log') = Len(log) + 1 /\ DOMAIN log' = 1 .. Len(log) + 1
          /\ \A k \in 1 .. Len(log) : log'[k] = log[k]
          /\ log'[Len(log) + 1] = i
      BY <2>5, <1>0 DEF Inv, TypeOK
    <3>2. \A k \in DOMAIN log : log[k] < i
      <4>1. SUFFICES ASSUME NEW k \in DOMAIN log, i <= log[k] PROVE FALSE
        BY <1>0
      <4>2. i \in 1 .. log[k]
        BY <4>1, <1>0
      <4> QED BY <4>2, <2>5 DEF Inv, Shown, SeenBefore
    <3>3. LogInOrder'
      <4>1. ASSUME NEW k \in DOMAIN log', NEW l \in DOMAIN log', k < l PROVE log'[k] < log'[l]
        <5>1. k \in 1 .. Len(log) /\ log'[k] = log[k]
          BY <4>1, <3>1, <1>0
        <5>2. CASE l = Len(log) + 1
          BY <5>1, <5>2, <3>1, <3>2, <1>0
        <5>3. CASE l \in 1 .. Len(log)
          BY <5>1, <5>3, <4>1, <3>1, <1>0 DEF Inv, Shown, LogInOrder
        <5> QED BY <5>2, <5>3, <3>1, <1>0
      <4> QED BY <4>1 DEF LogInOrder
    <3>4. LogInFile'
      <4>1. ASSUME NEW k \in DOMAIN log' PROVE log'[k] <= Len(file) /\ file[log'[k]].ok
        <5>1. CASE k = Len(log) + 1
          BY <5>1, <3>1, <2>1, <2>5
        <5>2. CASE k \in 1 .. Len(log)
          BY <5>2, <3>1, <1>0 DEF Inv, Shown, LogInFile
        <5> QED BY <5>1, <5>2, <3>1, <1>0
      <4> QED BY <4>1, <2>1 DEF LogInFile
    <3>5. ASSUME NEW j \in 1 .. i, file[j].ok PROVE Seen(j)'
      <4>1. CASE j = i
        <5>1. Len(log) + 1 \in DOMAIN log' /\ file'[log'[Len(log) + 1]].id = file'[j].id
          BY <4>1, <3>1, <2>1, <1>0
        <5> QED BY <5>1 DEF Seen
      <4>2. CASE j \in 1 .. sub.sent
        <5>1. PICK k \in DOMAIN log : file[log[k]].id = file[j].id
          BY <4>2, <3>5 DEF Inv, Shown, SeenSent, Seen
        <5>2. k \in DOMAIN log' /\ file'[log'[k]].id = file'[j].id
          BY <5>1, <3>1, <2>1, <1>0
        <5> QED BY <5>2 DEF Seen
      <4> QED BY <4>1, <4>2, <1>0
    <3>6. SeenSent'
      <4> HIDE DEF i
      <4> QED BY <3>5, <2>1, <2>2 DEF SeenSent
    <3>7. SeenBefore'
      <4>1. ASSUME NEW k \in DOMAIN log', NEW j \in 1 .. log'[k] PROVE j \in 1 .. i
        <5>1. log'[k] \in Nat /\ log'[k] <= i
          <6>1. CASE k = Len(log) + 1
            BY <6>1, <3>1, <1>0
          <6>2. CASE k \in 1 .. Len(log)
            BY <6>2, <3>1, <3>2, <1>0
          <6> QED BY <6>1, <6>2, <3>1, <1>0
        <5> QED BY <5>1, <1>0
      <4> HIDE DEF i
      <4> QED BY <4>1, <3>5, <2>1 DEF SeenBefore
    <3> QED BY <2>3, <3>3, <3>4, <3>6, <3>7 DEF Shown
  <2>6. Seen(i) <=> \E k \in 1 .. Len(log) : file[log[k]].id = file[i].id
    BY <1>0 DEF Seen
  <2> QED BY <2>1, <2>4, <2>5, <2>6 DEF Receive
<1> DEFINE Resumes == \/ sub'.sent = sub.sent /\ sub'.read \in {Len(file), sub.read}
                      \/ sub'.sent = 0 /\ sub'.read = 0
<1>3. ASSUME file' = file, log' = log, Resumes PROVE Shown'
  <2>1. /\ sub'.sent <= sub'.read /\ sub'.read <= Len(file)
        /\ \A i \in 1 .. sub'.sent : i \in 1 .. sub.sent
    BY <1>3, <1>0 DEF Inv, Shown, Cursor
  <2>2. Cursor' /\ SeenSent'
    BY <2>1, <1>3 DEF Inv, Shown, Cursor, SeenSent, Seen
  <2>3. SeenBefore' /\ LogInFile' /\ LogInOrder'
    BY <1>3 DEF Inv, Shown, SeenBefore, LogInFile, LogInOrder, Seen
  <2> QED BY <2>2, <2>3 DEF Shown
<1>4. ASSUME NEW p \in Procs, Assign(p) PROVE Shown'
  <2>1. file' = file /\ log' = log /\ sub' = sub
    BY <1>4 DEF Assign, pageVars
  <2> QED BY <2>1, <1>3
<1>5. ASSUME NEW p \in Procs, Restart(p) PROVE Shown'
  <2>1. file' = file /\ log' = log /\ (sub' = sub \/ sub' = NoSub)
    BY <1>5 DEF Restart
  <2>2. Resumes
    BY <2>1 DEF NoSub
  <2> QED BY <2>1, <2>2, <1>3
<1>6. CASE ForceClose \/ CloseRun \/ UNCHANGED vars
  <2>1. file' = file /\ log' = log /\ sub' = sub
    BY <1>6 DEF ForceClose, CloseRun, pageVars, busVars, vars
  <2> QED BY <2>1, <1>3
<1>7. CASE Read \/ Poll \/ Drop \/ Connect
  <2>1. file' = file /\ log' = log
    BY <1>7 DEF Read, Poll, Drop, Connect, busVars
  <2>2. CASE Read
    <3>1. sub'.sent = sub.sent /\ sub'.read = Len(file)
      BY <2>2 DEF Read, Inv, TypeOK
    <3> QED BY <3>1, <2>1, <1>3
  <2>3. CASE Poll \/ Drop \/ Connect
    <3>1. sub' \in {NoSub, [sub EXCEPT !.at = "reading"], [NoSub EXCEPT !.at = "reading"]}
      BY <2>3 DEF Poll, Drop, Connect
    <3>2. \/ sub'.sent = sub.sent /\ sub'.read = sub.read
          \/ sub'.sent = 0 /\ sub'.read = 0
      BY <3>1 DEF NoSub, Inv, TypeOK
    <3> QED BY <3>2, <2>1, <1>3
  <2> QED BY <1>7, <2>2, <2>3
<1> QED BY <1>1, <1>2, <1>4, <1>5, <1>6, <1>7 DEF Next, TailStep

-----------------------------------------------------------------------------
\* While the publishers take turns ids rise along the file, and nothing follows
\* the close.
LEMMA TurnsStep == Inv /\ [Next]_vars => OneSpeaks'
<1> SUFFICES ASSUME Inv, [Next]_vars, ~spoke' PROVE OneSpeaks'
  BY DEF OneSpeaks
<1>0. ~spoke
  BY DEF Next, TailStep, Assign, AppendLine, Restart, ForceClose, CloseRun, Read, Send, Poll,
         Drop, Connect, vars, Inv, TypeOK
<1>1. /\ IF begun THEN pending["api"] = 0 ELSE pending["worker"] = 0 /\ nextId["worker"] = 0
      /\ IdsRise
      /\ \A i \in DOMAIN file : file[i].ok =>
           /\ nextId[Speaker] # 0 => file[i].id < nextId[Speaker]
           /\ pending[Speaker] # 0 => file[i].id < pending[Speaker]
      /\ done => begun /\ ~running /\ pending["worker"] = 0
      /\ conn = "stopped" => done
  BY <1>0 DEF Inv, OneSpeaks
<1>2. /\ Len(file) \in Nat /\ DOMAIN file = 1 .. Len(file)
      /\ \A i \in DOMAIN file : file[i].id \in Nat
  <2>1. Len(file) \in Nat /\ DOMAIN file = 1 .. Len(file)
    BY DEF Inv, TypeOK
  <2>2. \A i \in DOMAIN file : file[i] \in Line
    BY DEF Inv, TypeOK
  <2> QED BY <2>1, <2>2, BusAssumption DEF Line, Ids
<1> DEFINE Behind(p) == \A i \in DOMAIN file : file[i].ok =>
                          /\ nextId'[p] # 0 => file[i].id < nextId'[p]
                          /\ pending'[p] # 0 => file[i].id < pending'[p]
<1>3. ASSUME NEW p \in Procs, Assign(p) PROVE OneSpeaks'
  <2>1. /\ file' = file /\ done' = done /\ running' = running /\ conn' = conn
        /\ begun' = (begun \/ p = "worker")
        /\ IF p = "api" THEN ~begun ELSE p = "worker" /\ running /\ pending["api"] = 0
    BY <1>0, <1>3 DEF Assign, Procs, pageVars
  <2>2. PICK id \in 1 .. Len(file) + 1 :
           /\ id = IF nextId[p] # 0 THEN nextId[p] ELSE ScanLastId + 1
           /\ pending' = [pending EXCEPT ![p] = id]
           /\ nextId' = [nextId EXCEPT ![p] = id + 1]
    BY <1>3, AssignBounded
  <2>3. /\ pending'[p] = id /\ nextId'[p] = id + 1
        /\ \A q \in Procs \ {p} : pending'[q] = pending[q] /\ nextId'[q] = nextId[q]
    BY <2>2 DEF Inv, TypeOK
  <2>4. nextId[p] # 0 => p = Speaker
    BY <2>1, <1>1 DEF Speaker
  <2>5. ASSUME NEW i \in DOMAIN file, file[i].ok PROVE file[i].id < id
    <3>1. CASE nextId[p] # 0
      BY <3>1, <2>2, <2>4, <2>5, <1>1
    <3>2. CASE nextId[p] = 0
      <4>1. file[i].id <= ScanLastId
        BY <2>5, <1>1, LastOfFile DEF Inv
      <4>2. ScanLastId \in Nat
        BY LastOfFile, <1>2 DEF Inv
      <4> QED BY <3>2, <4>1, <4>2, <2>2, <1>2
    <3> QED BY <3>1, <3>2
  <2>6. Behind(p)
    BY <2>3, <2>5, <1>2
  <2> HIDE DEF Behind
  <2>7. IdsRise'
    BY <2>1, <1>1 DEF IdsRise
  <2>8. ~done /\ Speaker' = p
    BY <2>1, <1>1 DEF Speaker
  <2>9. IF begun' THEN pending'["api"] = 0 ELSE pending'["worker"] = 0 /\ nextId'["worker"] = 0
    BY <2>1, <2>3, <1>1 DEF Procs
  <2> QED BY <2>1, <2>6, <2>7, <2>8, <2>9, <1>1 DEF OneSpeaks, Behind
<1>4. ASSUME NEW p \in Procs, AppendLine(p) PROVE OneSpeaks'
  <2>1. /\ done' = done /\ running' = running /\ begun' = begun /\ conn' = conn
        /\ nextId' = nextId /\ pending[p] # 0 /\ p = Speaker /\ Speaker' = Speaker
    BY <1>4, <1>1 DEF AppendLine, Procs, pageVars, Speaker
  <2>2. pending'[p] = 0 /\ \A q \in Procs \ {p} : pending'[q] = pending[q]
    BY <1>4 DEF AppendLine, Inv, TypeOK
  <2>3. /\ DOMAIN file' = 1 .. Len(file) + 1
        /\ \A i \in 1 .. Len(file) : file'[i] = file[i]
        /\ file'[Len(file) + 1].id = pending[p]
    <3>1. TypeOK /\ AppendLine(p)
      BY <1>4 DEF Inv
    <3>2. file'[Len(file) + 1] = [id |-> pending[p], ok |-> ~torn]
      BY <3>1, Appended
    <3> QED BY <3>1, <3>2, Appended
  <2>4. nextId[p] = pending[p] + 1 /\ pending[p] \in Nat
    BY <2>1 DEF Inv, IdsBounded, TypeOK
  <2>5. IdsRise'
    <3>1. ASSUME NEW i \in DOMAIN file', NEW k \in DOMAIN file', i < k, file'[i].ok, file'[k].ok
          PROVE  file'[i].id < file'[k].id
      <4>1. i \in DOMAIN file /\ file'[i] = file[i] /\ file[i].ok
        BY <3>1, <2>3, <1>2
      <4>2. CASE k = Len(file) + 1
        BY <4>1, <4>2, <2>1, <2>3, <1>1
      <4>3. CASE k \in DOMAIN file
        <5>1. file'[k] = file[k] /\ file[k].ok
          BY <4>3, <3>1, <2>3, <1>2
        <5> QED BY <4>1, <4>3, <5>1, <3>1, <1>1 DEF IdsRise
      <4> QED BY <4>2, <4>3, <2>3, <1>2
    <3> QED BY <3>1 DEF IdsRise
  <2>6. ASSUME NEW i \in DOMAIN file', file'[i].ok PROVE file'[i].id < nextId[p]
    <3>1. CASE i = Len(file) + 1
      BY <3>1, <2>3, <2>4
    <3>2. CASE i \in DOMAIN file
      <4>1. file'[i] = file[i] /\ file[i].ok
        BY <3>2, <2>3, <2>6, <1>2
      <4> QED BY <4>1, <3>2, <2>1, <2>4, <1>1, <1>2
    <3> QED BY <3>1, <3>2, <2>3, <1>2
  <2>7. IF begun' THEN pending'["api"] = 0 ELSE pending'["worker"] = 0 /\ nextId'["worker"] = 0
    BY <2>1, <2>2, <1>1 DEF Procs, Speaker
  <2>8. ~done
    BY <2>1, <1>1 DEF Speaker
  <2> QED BY <2>1, <2>2, <2>5, <2>6, <2>7, <2>8, <1>1 DEF OneSpeaks
<1>5. ASSUME NEW p \in Procs, Restart(p) PROVE OneSpeaks'
  <2>1. /\ file' = file /\ done' = done /\ begun' = begun /\ Speaker' = Speaker
        /\ nextId' = [nextId EXCEPT ![p] = 0] /\ pending' = [pending EXCEPT ![p] = 0]
        /\ running' = running \/ running' = FALSE
        /\ conn' = "stopped" => conn = "stopped"
    BY <1>5 DEF Restart, Speaker
  <2>2. \A q \in Procs : nextId'[q] \in {0, nextId[q]} /\ pending'[q] \in {0, pending[q]}
    BY <2>1 DEF Inv, TypeOK
  <2>3. Speaker \in Procs
    BY DEF Speaker, Procs
  <2>4. Behind(Speaker)
    BY <2>2, <2>3, <1>1
  <2>5. IdsRise'
    BY <2>1, <1>1 DEF IdsRise
  <2>6. /\ IF begun' THEN pending'["api"] = 0 ELSE pending'["worker"] = 0 /\ nextId'["worker"] = 0
        /\ done' => begun' /\ ~running' /\ pending'["worker"] = 0
        /\ conn' = "stopped" => done'
    BY <2>1, <2>2, <1>1 DEF Procs
  <2> HIDE DEF Behind
  <2> QED BY <2>1, <2>4, <2>5, <2>6 DEF OneSpeaks, Behind
<1>6. CASE ForceClose
  BY <1>6 DEF ForceClose
<1>7. CASE CloseRun
  BY <1>1, <1>7 DEF CloseRun, OneSpeaks, Speaker, IdsRise, pageVars
<1>8. CASE Poll
  BY <1>1, <1>8 DEF Poll, Drained, OneSpeaks, Speaker, IdsRise, busVars
<1>9. CASE Read \/ Send \/ Drop \/ Connect \/ UNCHANGED vars
  <2>1. UNCHANGED <<file, nextId, pending, done, running, begun>> /\ (conn' = "stopped" => conn = "stopped")
    BY <1>9 DEF Read, Send, Drop, Connect, vars, busVars, pageVars
  <2> QED BY <1>1, <2>1 DEF OneSpeaks, Speaker, IdsRise
<1> QED BY <1>3, <1>4, <1>5, <1>6, <1>7, <1>8, <1>9 DEF Next, TailStep

\* The stream is closed only when all of the file was sent; nothing follows it.
LEMMA StoppedStep == Inv /\ [Next]_vars => StoppedSawAll'
<1> SUFFICES ASSUME Inv, [Next]_vars, ~spoke', conn' = "stopped",
                    NEW i \in DOMAIN file', file'[i].ok
             PROVE  i \in ToSet(log')
  BY DEF StoppedSawAll
<1>0. ~spoke
  BY DEF Next, TailStep, Assign, AppendLine, Restart, ForceClose, CloseRun, Read, Send, Poll,
         Drop, Connect, vars, Inv, TypeOK
<1>1. CASE conn = "stopped"
  <2>1. done /\ ~running /\ \A p \in Procs : pending[p] = 0
    BY <1>0, <1>1 DEF Inv, OneSpeaks, Procs
  <2>2. file' = file
    BY <2>1 DEF Next, TailStep, Assign, AppendLine, Restart, ForceClose, CloseRun, Read, Send,
                Poll, Drop, Connect, vars, busVars
  <2>3. i \in ToSet(log)
    BY <1>0, <1>1, <2>2 DEF Inv, StoppedSawAll
  <2>4. log' = log \/ \E n \in Nat : log' = Append(log, n)
    <3>1. CASE Send
      BY <3>1 DEF Send, Receive, Inv, TypeOK
    <3>2. CASE ~Send
      BY <3>2 DEF Next, TailStep, Assign, AppendLine, Restart, ForceClose, CloseRun, Read,
                  Poll, Drop, Connect, vars, busVars, pageVars
    <3> QED BY <3>1, <3>2
  <2>5. ASSUME NEW n \in Nat, log' = Append(log, n) PROVE ToSet(log) \subseteq ToSet(log')
    <3>1. log \in Seq(1 .. MaxLines)
      BY DEF Inv, TypeOK
    <3>2. \A k \in DOMAIN log : k \in DOMAIN log' /\ log'[k] = log[k]
      BY <2>5, <3>1
    <3> QED BY <3>2 DEF ToSet
  <2> QED BY <2>3, <2>4, <2>5
<1>2. CASE conn # "stopped"
  <2>1. Poll /\ Drained
    BY <1>2 DEF Next, TailStep, Assign, AppendLine, Restart, ForceClose, CloseRun, Read, Send,
                Poll, Drop, Connect, vars, busVars, pageVars
  <2>2. file' = file /\ log' = log /\ sub.sent = Len(file) /\ DOMAIN file = 1 .. Len(file)
    BY <2>1 DEF Poll, Drained, busVars, Inv, TypeOK
  <2>3. PICK k \in DOMAIN log : file[log[k]].id = file[i].id
    BY <2>2 DEF Inv, Shown, SeenSent, Seen
  <2>4. log[k] \in DOMAIN file /\ file[log[k]].ok
    <3>1. log[k] \in Nat \ {0}
      BY BusAssumption DEF Inv, TypeOK
    <3>2. log[k] <= Len(file) /\ file[log[k]].ok
      BY DEF Inv, Shown, LogInFile
    <3>3. Len(file) \in Nat
      BY DEF Inv, TypeOK
    <3> QED BY <3>1, <3>2, <3>3, <2>2
  <2>5. log[k] = i
    <3>1. file[i].id \in Nat
      <4>1. file[i] \in Line
        BY <2>2 DEF Inv, TypeOK
      <4> QED BY <4>1, BusAssumption DEF Line, Ids
    <3>2. log[k] \in Nat /\ i \in Nat
      BY <2>2, <2>4
    <3>3. ~(log[k] < i) /\ ~(i < log[k])
      BY <1>0, <2>2, <2>3, <2>4, <3>1 DEF Inv, OneSpeaks, IdsRise
    <3> QED BY <3>2, <3>3
  <2> QED BY <2>2, <2>5 DEF ToSet
<1> QED BY <1>1, <1>2

-----------------------------------------------------------------------------
LEMMA StepInv == Inv /\ [Next]_vars => Inv'
BY TypeStep, ShownStep, TurnsStep, StoppedStep DEF Inv

LEMMA Invariant == Spec => []Inv
BY InitInv, StepInv, PTL DEF Spec

\* Type correctness of the stream, its readers and the page.
THEOREM TypeCorrect == Spec => []TypeOK
<1>1. Inv => TypeOK
  BY DEF Inv
<1> QED BY Invariant, <1>1, PTL

\* Over any number of dropped connections and replays, and even when two
\* publishers have given the same id twice, the page shows events in file order
\* and none of them twice.
THEOREM ShownInOrder == Spec => []LogInOrder
<1>1. Inv => LogInOrder
  BY DEF Inv, Shown
<1> QED BY Invariant, <1>1, PTL

\* Wherever appends are cut off and processes restart, ids rise along the file
\* as long as the API's events precede the worker's: the counter a process
\* caches and the one it reads back from the file continue each other.
THEOREM IdsRiseInTurn == Spec => []IdsRiseInRun
<1>1. Inv => IdsRiseInRun
  BY DEF Inv, OneSpeaks, IdsRiseInRun
<1> QED BY Invariant, <1>1, PTL

\* A page whose stream was closed cleanly by the runner has been sent every event
\* there will be, when the API's events precede the worker's.
THEOREM CleanCloseIsComplete == Spec => []StoppedSawAll
<1>1. Inv => StoppedSawAll
  BY DEF Inv
<1> QED BY Invariant, <1>1, PTL
=============================================================================
