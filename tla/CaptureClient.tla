---------------------------- MODULE CaptureClient ----------------------------
(***************************************************************************)
(* The capture page's connection (web/src/lib/captureSession.ts and        *)
(* web/src/app/capture/page.tsx) to the sessions of the API process: one   *)
(* store that outlives the page, WebSockets whose handlers write to it     *)
(* whenever their events arrive, and retry timers.                         *)
(*                                                                         *)
(* Sockets and timers are numbered, and a number is used again once its    *)
(* socket or timer is through with its events.                             *)
(***************************************************************************)
EXTENDS Naturals

CONSTANTS
  MaxSessions,  \* bound on POST /api/capture/start
  MaxSockets,   \* bound on sockets, and on timers, at a time
  MaxDrops,     \* bound on dropped or refused connections and API restarts
  MaxRetries    \* length of RECONNECT_DELAYS_MS

ASSUME ClientAssumption ==
  /\ MaxSessions \in Nat \ {0}
  /\ MaxSockets \in Nat \ {0}
  /\ MaxDrops \in Nat
  /\ MaxRetries \in Nat \ {0}

Sessions == 1 .. MaxSessions
Slots == 1 .. MaxSockets

VARIABLES
  live,       \* the sessions in the server's manager
  created,    \* how many there have been
  page,       \* the capture page is mounted
  busy,       \* the request its buttons wait for
  status, sessionId, ws, attempt, timer, userClose,   \* the store; 0 is null
  socks,      \* every socket: its session and its readyState
  timers,     \* every pending setTimeout: the session it reconnects to
  wasReset,   \* reset() has been called since the page was loaded
  drops

serverVars == <<live, created>>
pageVars == <<page, busy>>
storeVars == <<status, sessionId, ws, attempt, timer, userClose>>
netVars == <<socks, timers>>
vars == <<serverVars, pageVars, storeVars, netVars, wasReset, drops>>

Socket == [session : 0 .. MaxSessions, at : {"unused", "connecting", "open", "closing"}]
Unused == [session |-> 0, at |-> "unused"]

TypeOK ==
  /\ live \subseteq Sessions /\ created \in 0 .. MaxSessions
  /\ page \in BOOLEAN /\ busy \in {"none", "start", "stop", "leaving"}
  /\ status \in {"idle", "connecting", "open", "closed"}
  /\ sessionId \in 0 .. MaxSessions
  /\ ws \in 0 .. MaxSockets /\ timer \in 0 .. MaxSockets
  /\ attempt \in 0 .. MaxRetries
  /\ userClose \in BOOLEAN /\ wasReset \in BOOLEAN
  /\ socks \in [Slots -> Socket]
  /\ timers \in [Slots -> 0 .. MaxSessions]
  /\ drops \in 0 .. MaxDrops

Init ==
  /\ live = {} /\ created = 0
  /\ page = TRUE /\ busy = "none"
  /\ status = "idle" /\ sessionId = 0 /\ ws = 0 /\ attempt = 0 /\ timer = 0 /\ userClose = FALSE
  /\ socks = [k \in Slots |-> Unused]
  /\ timers = [k \in Slots |-> 0]
  /\ wasReset = FALSE /\ drops = 0

\* page.tsx: the Stop button is shown, otherwise Start.
Capturing == status = "open" \/ attempt > 0

\* clearTimeout, where a null or spent timer has no effect.
Cleared == IF timer = 0 THEN timers ELSE [timers EXCEPT ![timer] = 0]

\* connectWs: a new socket, which becomes the store's.
ConnectWs(s) ==
  \E k \in Slots :
    /\ socks[k].at = "unused"
    /\ socks' = [socks EXCEPT ![k] = [session |-> s, at |-> "connecting"]]
    /\ ws' = k
    /\ status' = "connecting"

\* ws.close(): the close event comes later.
CloseWs ==
  socks' = IF ws # 0 /\ socks[ws].at # "unused"
             THEN [socks EXCEPT ![ws].at = "closing"] ELSE socks

\* reset(): the flag is raised for the call to ws.close() and down again when it
\* returns.
Reset ==
  /\ CloseWs
  /\ timers' = Cleared
  /\ status' = "idle" /\ sessionId' = 0 /\ ws' = 0 /\ attempt' = 0 /\ timer' = 0
  /\ userClose' = FALSE
  /\ wasReset' = TRUE

-----------------------------------------------------------------------------
(* The page *)

\* start(): POST /api/capture/start.
StartPost ==
  /\ page /\ busy = "none" /\ ~Capturing
  /\ created < MaxSessions
  /\ created' = created + 1
  /\ live' = live \cup {created + 1}
  /\ busy' = "start"
  /\ UNCHANGED <<page, storeVars, netVars, wasReset, drops>>

\* open(): the answer has come; the page may have been left meanwhile.
StartOpen ==
  /\ busy = "start"
  /\ busy' = "none"
  /\ ConnectWs(created)
  /\ timers' = Cleared
  /\ sessionId' = created /\ attempt' = 0 /\ timer' = 0 /\ userClose' = FALSE
  /\ UNCHANGED <<serverVars, page, wasReset, drops>>

\* stop(): POST /api/capture/{id}/stop.  After a 404 (the server does not know the
\* session) or a 500 (it had no frames) the page stays as it is.
StopPost ==
  /\ page /\ busy = "none" /\ Capturing /\ sessionId # 0
  /\ busy' \in IF sessionId \in live THEN {"stop", "none"} ELSE {"none"}
  /\ live' = live \ {sessionId}
  /\ UNCHANGED <<created, page, storeVars, netVars, wasReset, drops>>

\* The job is there: reset, and on to the job's page.
StopDone ==
  /\ busy = "stop"
  /\ busy' = IF page THEN "leaving" ELSE "none"
  /\ Reset
  /\ UNCHANGED <<serverVars, page, drops>>

\* Unmounting resets the store; the answer to a request still comes.
Leave ==
  /\ page
  /\ page' = FALSE
  /\ busy' = IF busy = "leaving" THEN "none" ELSE busy
  /\ Reset
  /\ UNCHANGED <<serverVars, drops>>

\* The user comes back, not before those answers.
Return ==
  /\ ~page /\ busy = "none"
  /\ page' = TRUE
  /\ UNCHANGED <<serverVars, busy, storeVars, netVars, wasReset, drops>>

-----------------------------------------------------------------------------
(* The network, and the handlers of a socket's events *)

Drop ==
  /\ drops < MaxDrops
  /\ drops' = drops + 1
  /\ UNCHANGED <<created, pageVars, storeVars, timers, wasReset>>

\* A connection fails before or after it opens.
Disconnect(k) ==
  /\ socks[k].at \in {"connecting", "open"}
  /\ Drop
  /\ socks' = [socks EXCEPT ![k].at = "closing"]
  /\ UNCHANGED live

\* The API restarts: its sessions are gone, its sockets closed.
ApiRestart ==
  /\ live # {}
  /\ Drop
  /\ live' = {}
  /\ socks' = [k \in Slots |->
                 IF socks[k].at = "open" THEN [socks[k] EXCEPT !.at = "closing"] ELSE socks[k]]

\* The open event.  The server accepts every socket, and closes it at once if
\* its session is not in the manager.
OpenEvent(k) ==
  /\ socks[k].at = "connecting"
  /\ socks' = [socks EXCEPT ![k].at = IF socks[k].session \in live THEN "open" ELSE "closing"]
  /\ status' = "open" /\ attempt' = 0
  /\ UNCHANGED <<serverVars, pageVars, sessionId, ws, timer, userClose, timers, wasReset, drops>>

\* setTimeout, remembered in the store.
SetTimer(s) ==
  \E t \in Slots :
    /\ timers[t] = 0
    /\ timers' = [timers EXCEPT ![t] = s]
    /\ timer' = t

\* Mutant: the retry is scheduled once from the error event, and once more from
\* the close event that follows it.
CloseEventTwice(k) ==
  /\ socks[k].at \in {"connecting", "closing"}
  /\ socks' = [socks EXCEPT ![k] = IF socks[k].at = "closing" THEN Unused
                                   ELSE [socks[k] EXCEPT !.at = "closing"]]
  /\ ws' = 0 /\ status' = "connecting"
  /\ attempt < MaxRetries /\ attempt' = attempt + 1
  /\ SetTimer(socks[k].session)
  /\ UNCHANGED <<serverVars, pageVars, sessionId, userClose, wasReset, drops>>

\* The close event: the user closed, the retries are used up, or a retry is
\* scheduled; in each case the store loses its socket, whichever that is.
CloseEvent(k) ==
  /\ socks[k].at = "closing"
  /\ socks' = [socks EXCEPT ![k] = Unused]
  /\ ws' = 0
  /\ IF userClose \/ attempt = MaxRetries
       THEN status' = "closed" /\ UNCHANGED <<attempt, timer, timers>>
       ELSE /\ status' = "connecting"
            /\ attempt' = attempt + 1
            /\ SetTimer(socks[k].session)
  /\ UNCHANGED <<serverVars, pageVars, sessionId, userClose, wasReset, drops>>

\* Mutant: the retry does not connect.
TimerSleeps(t) ==
  /\ timers[t] # 0
  /\ timers' = [timers EXCEPT ![t] = 0]
  /\ timer' = IF timer = t THEN 0 ELSE timer
  /\ UNCHANGED <<serverVars, pageVars, status, sessionId, ws, attempt, userClose, socks,
                 wasReset, drops>>

\* Mutant: the retry counts from zero.
TimerForgets(t) ==
  /\ timers[t] # 0
  /\ timers' = [timers EXCEPT ![t] = 0]
  /\ timer' = IF timer = t THEN 0 ELSE timer
  /\ ConnectWs(timers[t])
  /\ attempt' = 0
  /\ UNCHANGED <<serverVars, pageVars, sessionId, userClose, wasReset, drops>>

\* The retry: to the session of the socket that was lost.
TimerFires(t) ==
  /\ timers[t] # 0
  /\ timers' = [timers EXCEPT ![t] = 0]
  /\ timer' = IF timer = t THEN 0 ELSE timer
  /\ IF userClose THEN UNCHANGED <<status, ws, socks>> ELSE ConnectWs(timers[t])
  /\ UNCHANGED <<serverVars, pageVars, sessionId, attempt, userClose, wasReset, drops>>

-----------------------------------------------------------------------------
SocketEvent(k) == OpenEvent(k) \/ CloseEvent(k) \/ TimerFires(k)

Next ==
  \/ StartPost \/ StartOpen \/ StopPost \/ StopDone \/ Leave \/ Return
  \/ ApiRestart
  \/ \E k \in Slots : Disconnect(k) \/ SocketEvent(k)

Spec == Init /\ [][Next]_vars

\* The browser delivers the events of sockets and timers, and the answers of
\* its requests; nothing makes the user act or the network fail.
FairSpec ==
  Spec /\ WF_vars(StartOpen) /\ WF_vars(StopDone) /\ \A k \in Slots : WF_vars(SocketEvent(k))

-----------------------------------------------------------------------------
(* Properties *)

\* connectWs: the socket, the close event and the timer of a session hand one
\* retry chain on: whatever users, sockets and restarts do, reconnecting never
\* multiplies the connections to a session.
OneChain ==
  /\ \A k, l \in Slots : socks[k].session # 0 /\ socks[l].session = socks[k].session => k = l
  /\ \A t, u \in Slots : timers[t] # 0 /\ timers[u] = timers[t] => t = u
  /\ \A k, t \in Slots : socks[k].session # 0 => timers[t] # socks[k].session

\* The first capture since the page was loaded, before any reset.
FirstCapture == created = 1 /\ ~wasReset

\* page.tsx: "without this a transient network blip would flip the UI to Start
\* mid-scan, which would erroneously kick off a new session".
StopStaysShown == [][FirstCapture /\ FirstCapture' /\ Capturing => Capturing']_vars

\* RECONNECT_DELAYS_MS: as long as the server has the session of the first
\* capture, the page is connected to it again, or has given up.
Recovers ==
  FirstCapture /\ sessionId \in live
    ~> \/ ws # 0 /\ socks[ws] = [session |-> sessionId, at |-> "open"]
       \/ status = "closed" \/ ~FirstCapture \/ sessionId \notin live
=============================================================================
