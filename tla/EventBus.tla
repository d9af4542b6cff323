------------------------------ MODULE EventBus ------------------------------
(***************************************************************************)
(* The event stream of one job (worker/app/jobs/events.py): publishers in  *)
(* several processes append numbered lines to events.jsonl, one of them    *)
(* closes the stream with events.done, the API tails the file into a       *)
(* WebSocket, and the page (web/src/lib/ws.ts, web/src/hooks/              *)
(* useJobStream.ts) reconnects after a dropped connection and discards     *)
(* the replayed events by their id.                                        *)
(*                                                                         *)
(* A remote worker publishes through the API process, so it is no          *)
(* publisher of its own.                                                   *)
(***************************************************************************)
EXTENDS Naturals, Sequences, SequencesExt

CONSTANTS
  MaxLines,     \* bound on the lines of the file
  MaxDrops,     \* bound on dropped connections
  MaxRestarts   \* bound on process restarts

ASSUME BusAssumption ==
  /\ MaxLines \in Nat \ {0}
  /\ MaxDrops \in Nat
  /\ MaxRestarts \in Nat

Procs == {"api", "worker"}

VARIABLES
  file,      \* the complete lines of events.jsonl
  torn,      \* the file ends in a line without its newline
  done,      \* events.done exists
  nextId,    \* _next_ids of every process for this job; 0 is no entry
  pending,   \* the id a process has assigned and not yet appended; 0 is none
  running,   \* the worker's run of the job is to come, or under way
  begun,     \* the worker has taken an id for this run
  spoke,     \* the API has taken an id beside or after the worker's first, or closed
  sub,       \* the generator of bus.subscribe: what it read and what it sent
  conn,      \* the page's JobStreamClient
  log,       \* the lines the page shows, by their place in the file
  drops, restarts

busVars == <<file, torn, done, nextId, pending>>
pageVars == <<sub, conn, log>>
vars == <<busVars, running, begun, spoke, pageVars, drops, restarts>>

Ids == 1 .. MaxLines + 1

\* ok is false for a line that json.loads rejects.
Line == [id : Ids, ok : BOOLEAN]

TypeOK ==
  /\ file \in Seq(Line) /\ Len(file) <= MaxLines
  /\ torn \in BOOLEAN /\ done \in BOOLEAN
  /\ running \in BOOLEAN /\ begun \in BOOLEAN /\ spoke \in BOOLEAN
  /\ nextId \in [Procs -> 0 .. MaxLines + 2]
  /\ pending \in [Procs -> 0 .. MaxLines + 1]
  /\ sub \in [at : {"none", "reading", "sending"}, read : 0 .. MaxLines, sent : 0 .. MaxLines]
  /\ conn \in {"open", "closed", "stopped"}
  /\ log \in Seq(1 .. MaxLines)
  /\ drops \in 0 .. MaxDrops /\ restarts \in 0 .. MaxRestarts

NoSub == [at |-> "none", read |-> 0, sent |-> 0]

\* POST /api/jobs has committed the row and published nothing yet: a worker may
\* claim it and publish before the API does.  A page is about to connect.
Init ==
  /\ file = <<>>
  /\ torn = FALSE /\ done = FALSE
  /\ nextId = [p \in Procs |-> 0]
  /\ pending = [p \in Procs |-> 0]
  /\ running = TRUE /\ begun = FALSE /\ spoke = FALSE
  /\ sub = NoSub
  /\ conn = "closed"
  /\ log = <<>>
  /\ drops = 0 /\ restarts = 0

-----------------------------------------------------------------------------
(* Publishing *)

\* Mutant: every process counts from one.
ScanNothing == 0

\* _scan_last_id: the id of the last line that parses, 0 when there is none.
ScanLastId ==
  LET good == {i \in DOMAIN file : file[i].ok}
  IN  IF good = {} THEN 0 ELSE file[CHOOSE i \in good : \A k \in good : k <= i].id

\* publish, up to the id: from the process's own counter, or from the file.
Assign(p) ==
  /\ p = "worker" => running
  /\ pending[p] = 0
  /\ Len(file) < MaxLines
  /\ LET id == IF nextId[p] # 0 THEN nextId[p] ELSE ScanLastId + 1
     IN  /\ pending' = [pending EXCEPT ![p] = id]
         /\ nextId' = [nextId EXCEPT ![p] = id + 1]
  /\ begun' = (begun \/ p = "worker")
  /\ spoke' = (spoke \/ IF p = "api" THEN begun ELSE pending["api"] # 0)
  /\ UNCHANGED <<file, torn, done, running, pageVars, drops, restarts>>

\* publish, the append: after a torn line the new one completes it into a line
\* that does not parse.
AppendLine(p) ==
  /\ pending[p] # 0
  /\ Len(file) < MaxLines
  /\ file' = Append(file, [id |-> pending[p], ok |-> ~torn])
  /\ torn' = FALSE
  /\ pending' = [pending EXCEPT ![p] = 0]
  /\ UNCHANGED <<done, nextId, running, begun, spoke, pageVars, drops, restarts>>

\* A force stop closes the stream right after its own event, before or in the
\* middle of a run.
ForceClose ==
  /\ ~done /\ nextId["api"] # 0 /\ pending["api"] = 0
  /\ done' = TRUE
  /\ spoke' = TRUE
  /\ UNCHANGED <<file, torn, nextId, pending, running, begun, pageVars, drops, restarts>>

\* The runner closes the stream at the end of the run, after its last event.
CloseRun ==
  /\ running /\ begun /\ pending["worker"] = 0
  /\ done' = TRUE
  /\ running' = FALSE
  /\ UNCHANGED <<file, torn, nextId, pending, begun, spoke, pageVars, drops, restarts>>

\* A process dies, perhaps in the middle of an append, and comes back without
\* its counters.  The API takes its connections with it; a worker does not take
\* up the run again.
Restart(p) ==
  /\ restarts < MaxRestarts
  /\ restarts' = restarts + 1
  /\ \/ torn' = torn
     \/ pending[p] # 0 /\ torn' = TRUE
  /\ nextId' = [nextId EXCEPT ![p] = 0]
  /\ pending' = [pending EXCEPT ![p] = 0]
  /\ IF p = "worker"
       THEN running' = FALSE /\ UNCHANGED <<sub, conn>>
       ELSE /\ sub' = NoSub
            /\ conn' = IF conn = "open" THEN "closed" ELSE conn
            /\ UNCHANGED running
  /\ UNCHANGED <<file, done, begun, spoke, log, drops>>

-----------------------------------------------------------------------------
(* Tailing *)

\* _read_from: all complete lines after the offset.
Read ==
  /\ sub.at = "reading"
  /\ sub' = [sub EXCEPT !.at = "sending", !.read = Len(file)]
  /\ UNCHANGED <<busVars, running, begun, spoke, conn, log, drops, restarts>>

\* Mutant: the page shows every event it receives.
ReceiveAll(i) == log' = Append(log, i)

\* useJobStream: an event whose id was seen before is discarded.
Receive(i) ==
  log' = IF \E k \in 1 .. Len(log) : file[log[k]].id = file[i].id
           THEN log ELSE Append(log, i)

\* One event is sent and received; a line that does not parse is skipped.
Send ==
  /\ sub.at = "sending" /\ sub.sent < sub.read
  /\ sub' = [sub EXCEPT !.sent = @ + 1]
  /\ IF file[sub.sent + 1].ok THEN Receive(sub.sent + 1) ELSE UNCHANGED log
  /\ UNCHANGED <<busVars, running, begun, spoke, conn, drops, restarts>>

\* Mutants: the generator returns without comparing its offset with the file;
\* it waits for an offset past the end.
DrainedWhenDone == done
DrainedPastEnd == done /\ sub.read > Len(file) /\ ~torn

\* done.exists() and offset >= _file_size(path)
Drained == done /\ sub.read = Len(file) /\ ~torn

\* Nothing left to yield: the generator returns and the socket is closed with
\* code 1000, which stops the client for good; or it sleeps and reads again.
Poll ==
  /\ sub.at = "sending" /\ sub.sent = sub.read
  /\ IF Drained
       THEN sub' = NoSub /\ conn' = "stopped"
       ELSE sub' = [sub EXCEPT !.at = "reading"] /\ UNCHANGED conn
  /\ UNCHANGED <<busVars, running, begun, spoke, log, drops, restarts>>

Drop ==
  /\ conn = "open"
  /\ drops < MaxDrops
  /\ drops' = drops + 1
  /\ conn' = "closed"
  /\ sub' = NoSub
  /\ UNCHANGED <<busVars, running, begun, spoke, log, restarts>>

\* Mutant: a connection starts at the end of the file.
ConnectAtEnd ==
  /\ conn = "closed"
  /\ conn' = "open"
  /\ sub' = [at |-> "reading", read |-> Len(file), sent |-> Len(file)]
  /\ UNCHANGED <<busVars, running, begun, spoke, log, drops, restarts>>

\* Every connection replays the file from its start.
Connect ==
  /\ conn = "closed"
  /\ conn' = "open"
  /\ sub' = [NoSub EXCEPT !.at = "reading"]
  /\ UNCHANGED <<busVars, running, begun, spoke, log, drops, restarts>>

-----------------------------------------------------------------------------
TailStep == Read \/ Send \/ Poll

Next ==
  \/ \E p \in Procs : Assign(p) \/ AppendLine(p) \/ Restart(p)
  \/ ForceClose \/ CloseRun
  \/ TailStep \/ Drop \/ Connect

Spec == Init /\ [][Next]_vars

\* The API's loop resumes the generator, an assigned event is written, and the
\* client's timer fires: it never stops reconnecting after an unclean close.
FairSpec ==
  /\ Spec
  /\ WF_vars(TailStep) /\ WF_vars(Connect)
  /\ \A p \in Procs : WF_vars(AppendLine(p))

-----------------------------------------------------------------------------
(* Properties *)

\* subscribe and useJobStream: over any number of reconnections the page shows
\* the events in file order and none of them twice.
LogInOrder == \A k, l \in DOMAIN log : k < l => log[k] < log[l]

IdsRise ==
  \A i, k \in DOMAIN file : i < k /\ file[i].ok /\ file[k].ok => file[i].id < file[k].id

\* _scan_last_id: ids are assigned "monotonically".  A run counts on from what the
\* API wrote before the worker's first event, whichever process restarts and
\* wherever an append was cut off.  An event of the API beside or after that one
\* (the first one too, which follows the commit of the row) sets the two cached
\* counters against each other.
IdsRiseInRun == ~spoke => IdsRise

\* ws.ts: a clean close means the page has been sent all there is to show, when
\* the API's events precede the worker's and the runner closes.
StoppedSawAll ==
  ~spoke /\ conn = "stopped" => \A i \in DOMAIN file : file[i].ok => i \in ToSet(log)

\* An event that was written is shown, however often the connection drops,
\* unless the API has spoken into the run.
EventShown ==
  \A i \in 1 .. MaxLines :
    i \in DOMAIN file /\ file[i].ok ~> i \in ToSet(log) \/ spoke

\* events.py: subscribers "exit cleanly instead of tailing forever", whoever
\* closes, unless a line was cut off after the close.
DoneStops == done ~> conn = "stopped" \/ torn
=============================================================================
