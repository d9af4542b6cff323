------------------------ MODULE CaptureClientProofs -------------------------
(***************************************************************************)
(* Theorems about CaptureClient, for any number of sessions, sockets,      *)
(* retries and network failures.                                           *)
(***************************************************************************)
EXTENDS CaptureClient, TLAPS

\* A socket that is used has a session, and a session that is not yet opened by
\* the page has neither socket nor timer.
KnownSessions ==
  /\ \A k \in Slots : socks[k].at = "unused" <=> socks[k].session = 0
  /\ \A k \in Slots : socks[k].session <= created
  /\ \A t \in Slots : timers[t] <= created
  /\ busy = "start" => /\ created \in Sessions
                       /\ \A k \in Slots : socks[k].session # created
                       /\ \A t \in Slots : timers[t] # created

Inv == TypeOK /\ OneChain /\ KnownSessions

-----------------------------------------------------------------------------
LEMMA InitInv == Init => Inv
<1> USE ClientAssumption DEF Init, Slots, Sessions
<1>1. Init => TypeOK
  <2>1. Init => socks \in [Slots -> Socket] /\ timers \in [Slots -> 0 .. MaxSessions]
    BY DEF Socket, Unused
  <2>2. Init => /\ created \in 0 .. MaxSessions /\ sessionId \in 0 .. MaxSessions
                /\ ws \in 0 .. MaxSockets /\ timer \in 0 .. MaxSockets
                /\ attempt \in 0 .. MaxRetries /\ drops \in 0 .. MaxDrops
    OBVIOUS
  <2>3. Init => /\ live \subseteq Sessions /\ page \in BOOLEAN /\ busy = "none" /\ status = "idle"
                /\ userClose \in BOOLEAN /\ wasReset \in BOOLEAN
    OBVIOUS
  <2> QED BY <2>1, <2>2, <2>3 DEF TypeOK
<1>2. Init => OneChain /\ KnownSessions
  BY DEF OneChain, KnownSessions, Unused
<1> QED BY <1>1, <1>2 DEF Inv

\* connectWs, for a session that has neither socket nor timer once the timers are
\* as given.
LEMMA ConnectKeepsChain ==
  ASSUME TypeOK, OneChain, KnownSessions,
         NEW s \in Sessions, s <= created,
         ConnectWs(s),
         timers' \in [Slots -> 0 .. MaxSessions],
         \A t \in Slots : timers'[t] # 0 => timers'[t] = timers[t],
         \A k \in Slots : socks[k].session # s,
         \A t \in Slots : timers'[t] # s
  PROVE  /\ OneChain'
         /\ socks' \in [Slots -> Socket]
         /\ ws' \in 0 .. MaxSockets
         /\ \A k \in Slots : socks'[k].session \in {socks[k].session, s}
         /\ \A k \in Slots : socks'[k].at = "unused" <=> socks'[k].session = 0
<1> USE ClientAssumption DEF TypeOK, Slots, Sessions, Socket
<1>1. PICK k \in Slots : /\ socks[k].at = "unused"
                         /\ socks' = [socks EXCEPT ![k] = [session |-> s, at |-> "connecting"]]
                         /\ ws' = k
  BY DEF ConnectWs
<1>2. /\ socks'[k] = [session |-> s, at |-> "connecting"]
      /\ \A j \in Slots : j # k => socks'[j] = socks[j]
  BY <1>1
<1>3. socks' \in [Slots -> Socket] /\ ws' \in 0 .. MaxSockets
  BY <1>1
<1>4. OneChain'
  <2>1. \A i, j \in Slots : socks'[i].session # 0 /\ socks'[j].session = socks'[i].session => i = j
    BY <1>2 DEF OneChain
  <2>2. \A t, u \in Slots : timers'[t] # 0 /\ timers'[u] = timers'[t] => t = u
    BY DEF OneChain
  <2>3. \A i, t \in Slots : socks'[i].session # 0 => timers'[t] # socks'[i].session
    BY <1>2 DEF OneChain
  <2> QED BY <2>1, <2>2, <2>3 DEF OneChain
<1>5. ASSUME NEW j \in Slots
      PROVE  /\ socks'[j].session \in {socks[j].session, s}
             /\ socks'[j].at = "unused" <=> socks'[j].session = 0
  <2>1. CASE j = k
    <3>1. socks'[j].session = s /\ socks'[j].at = "connecting" /\ s # 0
      BY <2>1, <1>2
    <3> QED BY <3>1
  <2>2. CASE j # k
    <3>1. socks'[j] = socks[j]
      BY <2>2, <1>2
    <3>2. socks[j].at = "unused" <=> socks[j].session = 0
      BY DEF KnownSessions
    <3> QED BY <3>1, <3>2
  <2> QED BY <2>1, <2>2
<1> QED BY <1>3, <1>4, <1>5

\* A step after which every socket and timer has the session it had, or none, and
\* no session is asked for anew.
LEMMA FewerKeepsChain ==
  ASSUME TypeOK, OneChain, KnownSessions,
         socks' \in [Slots -> Socket],
         timers' \in [Slots -> 0 .. MaxSessions],
         \A k \in Slots : socks'[k].session \in {socks[k].session, 0},
         \A t \in Slots : timers'[t] \in {timers[t], 0},
         \A k \in Slots : socks'[k].at = "unused" <=> socks'[k].session = 0,
         created' = created,
         busy' = "start" => busy = "start"
  PROVE  OneChain' /\ KnownSessions'
<1> USE ClientAssumption DEF TypeOK, Slots, Sessions, Socket
<1>1. OneChain'
  <2>1. \A i, j \in Slots : socks'[i].session # 0 /\ socks'[j].session = socks'[i].session => i = j
    BY DEF OneChain
  <2>2. \A t, u \in Slots : timers'[t] # 0 /\ timers'[u] = timers'[t] => t = u
    BY DEF OneChain
  <2>3. ASSUME NEW i \in Slots, NEW t \in Slots, socks'[i].session # 0
        PROVE  timers'[t] # socks'[i].session
    <3>1. socks'[i].session = socks[i].session /\ timers'[t] \in {timers[t], 0}
      BY <2>3
    <3>2. socks[i].session # 0 => timers[t] # socks[i].session
      BY DEF OneChain
    <3> QED BY ONLY <2>3, <3>1, <3>2
  <2> QED BY <2>1, <2>2, <2>3 DEF OneChain
<1>2. KnownSessions'
  <2>0. created \in Nat
    OBVIOUS
  <2>1. ASSUME NEW k \in Slots PROVE socks'[k].session <= created
    <3>1. socks'[k].session = socks[k].session \/ socks'[k].session = 0
      OBVIOUS
    <3>2. socks[k].session <= created
      BY DEF KnownSessions
    <3> QED BY ONLY <2>0, <3>1, <3>2
  <2>2. ASSUME NEW t \in Slots PROVE timers'[t] <= created
    <3>1. timers'[t] = timers[t] \/ timers'[t] = 0
      OBVIOUS
    <3>2. timers[t] <= created
      BY DEF KnownSessions
    <3> QED BY ONLY <2>0, <3>1, <3>2
  <2>3. ASSUME busy' = "start"
        PROVE  /\ created \in Sessions
               /\ \A k \in Slots : socks'[k].session # created
               /\ \A t \in Slots : timers'[t] # created
    <3>1. /\ created \in Sessions /\ created # 0
          /\ \A k \in Slots : socks[k].session # created
          /\ \A t \in Slots : timers[t] # created
      BY <2>3 DEF KnownSessions
    <3> QED BY <3>1
  <2> QED BY <2>1, <2>2, <2>3 DEF KnownSessions
<1> QED BY <1>1, <1>2

\* What reset() does to sockets and timers.
LEMMA ResetClears ==
  ASSUME TypeOK, KnownSessions, Reset
  PROVE  /\ socks' \in [Slots -> Socket]
         /\ timers' \in [Slots -> 0 .. MaxSessions]
         /\ \A k \in Slots : socks'[k].session = socks[k].session
         /\ \A t \in Slots : timers'[t] \in {timers[t], 0}
         /\ \A k \in Slots : socks'[k].at = "unused" <=> socks'[k].session = 0
<1> USE ClientAssumption DEF TypeOK, Slots, Sessions, Socket
<1>1. /\ timers' \in [Slots -> 0 .. MaxSessions]
      /\ \A t \in Slots : timers'[t] \in {timers[t], 0}
  BY DEF Reset, Cleared
<1>2. /\ socks' \in [Slots -> Socket]
      /\ \A k \in Slots : socks'[k].session = socks[k].session
      /\ \A k \in Slots : socks'[k].at = "unused" <=> socks[k].at = "unused"
  <2>1. CASE ws # 0 /\ socks[ws].at # "unused"
    <3>1. ws \in Slots /\ socks' = [socks EXCEPT ![ws].at = "closing"]
      BY <2>1 DEF Reset, CloseWs
    <3>2. socks'[ws] = [session |-> socks[ws].session, at |-> "closing"]
      BY <3>1
    <3> QED BY <2>1, <3>1, <3>2
  <2>2. CASE ~(ws # 0 /\ socks[ws].at # "unused")
    BY <2>2 DEF Reset, CloseWs
  <2> QED BY <2>1, <2>2
<1> QED BY <1>1, <1>2 DEF KnownSessions

-----------------------------------------------------------------------------
\* The variables keep their types.
LEMMA TypeStep ==
  ASSUME Inv, [Next]_vars
  PROVE  TypeOK'
<1> USE ClientAssumption DEF Inv, TypeOK, Slots, Sessions, Socket, serverVars, pageVars, storeVars, netVars
<1>1. CASE StartPost
  BY <1>1 DEF StartPost
<1>2. CASE StartOpen
  <2>1. /\ socks' \in [Slots -> Socket] /\ ws' \in 0 .. MaxSockets /\ status' = "connecting"
    <3>1. ConnectWs(created) /\ created \in Sessions
      BY <1>2 DEF StartOpen, KnownSessions
    <3> QED BY <3>1 DEF ConnectWs
  <2>2. timers' \in [Slots -> 0 .. MaxSessions]
    BY <1>2 DEF StartOpen, Cleared
  <2>3. /\ UNCHANGED <<live, created, page, wasReset, drops>> /\ busy' = "none"
        /\ sessionId' = created /\ attempt' = 0 /\ timer' = 0 /\ userClose' = FALSE
    BY <1>2 DEF StartOpen
  <2>4. attempt' \in 0 .. MaxRetries /\ timer' \in 0 .. MaxSockets
    BY <2>3
  <2> QED BY <2>1, <2>2, <2>3, <2>4
<1>3. CASE StopPost
  BY <1>3 DEF StopPost
<1>4. CASE StopDone
  <2>1. socks' \in [Slots -> Socket] /\ timers' \in [Slots -> 0 .. MaxSessions]
    BY <1>4, ResetClears DEF StopDone
  <2>2. /\ status' = "idle" /\ sessionId' = 0 /\ ws' = 0 /\ attempt' = 0 /\ timer' = 0
        /\ userClose' = FALSE /\ wasReset' = TRUE
    BY <1>4 DEF StopDone, Reset
  <2>3. /\ UNCHANGED <<live, created, page, drops>> /\ page' \in BOOLEAN
        /\ busy' \in {"none", "start", "stop", "leaving"}
    BY <1>4 DEF StopDone
  <2>4. /\ sessionId' \in 0 .. MaxSessions /\ ws' \in 0 .. MaxSockets
        /\ attempt' \in 0 .. MaxRetries /\ timer' \in 0 .. MaxSockets
    BY <2>2
  <2> QED BY <2>1, <2>2, <2>3, <2>4
<1>5. CASE Leave
  <2>1. socks' \in [Slots -> Socket] /\ timers' \in [Slots -> 0 .. MaxSessions]
    BY <1>5, ResetClears DEF Leave
  <2>2. /\ status' = "idle" /\ sessionId' = 0 /\ ws' = 0 /\ attempt' = 0 /\ timer' = 0
        /\ userClose' = FALSE /\ wasReset' = TRUE
    BY <1>5 DEF Leave, Reset
  <2>3. /\ UNCHANGED <<live, created, drops>> /\ page' \in BOOLEAN
        /\ busy' \in {"none", "start", "stop", "leaving"}
    BY <1>5 DEF Leave
  <2>4. /\ sessionId' \in 0 .. MaxSessions /\ ws' \in 0 .. MaxSockets
        /\ attempt' \in 0 .. MaxRetries /\ timer' \in 0 .. MaxSockets
    BY <2>2
  <2> QED BY <2>1, <2>2, <2>3, <2>4
<1>6. CASE Return
  BY <1>6 DEF Return
<1>7. CASE ApiRestart
  <2>1. socks' \in [Slots -> Socket]
    BY <1>7 DEF ApiRestart
  <2>2. drops' \in 0 .. MaxDrops
    BY <1>7 DEF ApiRestart, Drop
  <2> QED BY <1>7, <2>1, <2>2 DEF ApiRestart, Drop
<1>8. ASSUME NEW k \in Slots, Disconnect(k) PROVE TypeOK'
  <2>1. socks' \in [Slots -> Socket]
    BY <1>8 DEF Disconnect
  <2>2. drops' \in 0 .. MaxDrops
    BY <1>8 DEF Disconnect, Drop
  <2> QED BY <1>8, <2>1, <2>2 DEF Disconnect, Drop
<1>9. ASSUME NEW k \in Slots, OpenEvent(k) PROVE TypeOK'
  <2>1. socks' \in [Slots -> Socket]
    BY <1>9 DEF OpenEvent
  <2> QED BY <1>9, <2>1 DEF OpenEvent
<1>10. ASSUME NEW k \in Slots, CloseEvent(k) PROVE TypeOK'
  <2>1. socks' \in [Slots -> Socket]
    <3>1. socks' = [socks EXCEPT ![k] = Unused]
      BY <1>10 DEF CloseEvent
    <3>2. Unused \in Socket
      BY DEF Unused
    <3>3. socks \in [Slots -> Socket]
      OBVIOUS
    <3> QED BY ONLY <3>1, <3>2, <3>3
  <2>2. CASE userClose \/ attempt = MaxRetries
    BY <1>10, <2>1, <2>2 DEF CloseEvent
  <2>3. CASE ~(userClose \/ attempt = MaxRetries)
    <3>1. SetTimer(socks[k].session) /\ attempt' = attempt + 1 /\ status' = "connecting"
      BY <1>10, <2>3 DEF CloseEvent
    <3>2. timers' \in [Slots -> 0 .. MaxSessions] /\ timer' \in 0 .. MaxSockets
      BY <3>1 DEF SetTimer
    <3>3. attempt' \in 0 .. MaxRetries
      BY <2>3, <3>1
    <3> QED BY <1>10, <2>1, <3>1, <3>2, <3>3 DEF CloseEvent
  <2> QED BY <2>2, <2>3
<1>11. ASSUME NEW t \in Slots, TimerFires(t) PROVE TypeOK'
  <2>1. timers' \in [Slots -> 0 .. MaxSessions] /\ timer' \in 0 .. MaxSockets
    BY <1>11 DEF TimerFires
  <2>2. CASE userClose
    BY <1>11, <2>1, <2>2 DEF TimerFires
  <2>3. CASE ~userClose
    <3>1. ConnectWs(timers[t])
      BY <1>11, <2>3 DEF TimerFires
    <3>2. socks' \in [Slots -> Socket] /\ ws' \in 0 .. MaxSockets /\ status' = "connecting"
      BY <3>1 DEF ConnectWs
    <3> QED BY <1>11, <2>1, <3>2 DEF TimerFires
  <2> QED BY <2>2, <2>3
<1>12. CASE UNCHANGED vars
  BY <1>12 DEF vars
<1> QED BY <1>1, <1>2, <1>3, <1>4, <1>5, <1>6, <1>7, <1>8, <1>9, <1>10, <1>11, <1>12
        DEF Next, SocketEvent

\* One chain stays one chain.
LEMMA ChainStep ==
  ASSUME Inv, [Next]_vars
  PROVE  OneChain' /\ KnownSessions'
<1> USE ClientAssumption DEF Inv, Slots, Sessions, serverVars, pageVars, storeVars, netVars
<1>1. CASE StartPost
  <2>1. created' = created + 1 /\ created' \in Sessions /\ UNCHANGED netVars
    BY <1>1 DEF StartPost, TypeOK
  <2>2. OneChain'
    BY <2>1 DEF OneChain
  <2>3. \A k \in Slots : socks[k].session < created' /\ timers[k] < created'
    BY <2>1 DEF KnownSessions, TypeOK, Socket
  <2>4. KnownSessions'
    BY <2>1, <2>3 DEF KnownSessions, TypeOK, Socket
  <2> QED BY <2>2, <2>4
<1>2. CASE StartOpen
  <2>1. /\ ConnectWs(created) /\ created \in Sessions /\ created' = created /\ busy' = "none"
        /\ \A k \in Slots : socks[k].session # created
        /\ \A t \in Slots : timers[t] # created
    BY <1>2 DEF StartOpen, KnownSessions
  <2>2. /\ timers' \in [Slots -> 0 .. MaxSessions]
        /\ \A t \in Slots : timers'[t] \in {timers[t], 0}
    BY <1>2 DEF StartOpen, Cleared, TypeOK
  <2>3. /\ OneChain'
        /\ \A k \in Slots : socks'[k].session \in {socks[k].session, created}
        /\ \A k \in Slots : socks'[k].at = "unused" <=> socks'[k].session = 0
    <3>1. \A t \in Slots : timers'[t] # 0 => timers'[t] = timers[t]
      BY <2>2
    <3>2. created <= created /\ \A t \in Slots : timers'[t] # created
      BY <2>1, <2>2 DEF TypeOK
    <3> QED BY <2>1, <2>2, <3>1, <3>2, ConnectKeepsChain
  <2>4. ASSUME NEW k \in Slots PROVE socks'[k].session <= created'
    <3>1. socks'[k].session = socks[k].session \/ socks'[k].session = created
      BY <2>3
    <3>2. socks[k].session <= created /\ created <= created
      BY <2>1 DEF KnownSessions
    <3> QED BY <2>1, <3>1, <3>2
  <2>5. ASSUME NEW t \in Slots PROVE timers'[t] <= created'
    <3>1. timers'[t] = timers[t] \/ timers'[t] = 0
      BY <2>2
    <3>2. timers[t] <= created /\ 0 <= created
      BY <2>1 DEF KnownSessions
    <3> QED BY <2>1, <3>1, <3>2
  <2> QED BY <2>1, <2>3, <2>4, <2>5 DEF KnownSessions
<1>3. CASE StopPost
  BY <1>3, FewerKeepsChain DEF StopPost, TypeOK, KnownSessions
<1>4. CASE StopDone
  <2>1. created' = created /\ busy' # "start" /\ Reset
    BY <1>4 DEF StopDone
  <2> QED BY <2>1, ResetClears, FewerKeepsChain
<1>5. CASE Leave
  <2>1. created' = created /\ (busy' = "start" => busy = "start") /\ Reset
    BY <1>5 DEF Leave
  <2> QED BY <2>1, ResetClears, FewerKeepsChain
<1>6. CASE Return
  BY <1>6, FewerKeepsChain DEF Return, TypeOK, KnownSessions
<1>7. CASE ApiRestart
  <2>1. /\ socks' \in [Slots -> Socket]
        /\ \A k \in Slots : /\ socks'[k].session = socks[k].session
                            /\ socks'[k].at = "unused" <=> socks[k].at = "unused"
    BY <1>7 DEF ApiRestart, TypeOK, Socket
  <2>2. UNCHANGED <<timers, created, busy>>
    BY <1>7 DEF ApiRestart, Drop
  <2> QED BY <2>1, <2>2, FewerKeepsChain DEF TypeOK, KnownSessions
<1>8. ASSUME NEW k \in Slots, Disconnect(k) PROVE OneChain' /\ KnownSessions'
  <2>1. /\ socks' \in [Slots -> Socket]
        /\ \A j \in Slots : /\ socks'[j].session = socks[j].session
                            /\ socks'[j].at = "unused" <=> socks[j].at = "unused"
    BY <1>8 DEF Disconnect, TypeOK, Socket
  <2>2. UNCHANGED <<timers, created, busy>>
    BY <1>8 DEF Disconnect, Drop
  <2> QED BY <2>1, <2>2, FewerKeepsChain DEF TypeOK, KnownSessions
<1>9. ASSUME NEW k \in Slots, OpenEvent(k) PROVE OneChain' /\ KnownSessions'
  <2>1. /\ socks' \in [Slots -> Socket]
        /\ \A j \in Slots : /\ socks'[j].session = socks[j].session
                            /\ socks'[j].at = "unused" <=> socks[j].at = "unused"
    BY <1>9 DEF OpenEvent, TypeOK, Socket
  <2>2. UNCHANGED <<timers, created, busy>>
    BY <1>9 DEF OpenEvent
  <2> QED BY <2>1, <2>2, FewerKeepsChain DEF TypeOK, KnownSessions
<1>10. ASSUME NEW k \in Slots, CloseEvent(k) PROVE OneChain' /\ KnownSessions'
  <2>1. /\ socks' = [socks EXCEPT ![k] = Unused] /\ created' = created /\ busy' = busy
        /\ socks[k].at = "closing"
    BY <1>10 DEF CloseEvent
  <2>2. /\ socks'[k].session = 0 /\ socks'[k].at = "unused"
        /\ \A j \in Slots : j # k => socks'[j] = socks[j]
        /\ socks' \in [Slots -> Socket]
    BY <2>1 DEF TypeOK, Unused, Socket
  <2>3. CASE UNCHANGED timers
    BY <2>1, <2>2, <2>3, FewerKeepsChain DEF TypeOK, KnownSessions
  <2>4. ASSUME NEW t \in Slots, timers[t] = 0, timers' = [timers EXCEPT ![t] = socks[k].session]
        PROVE  OneChain' /\ KnownSessions'
    <3>1. /\ timers'[t] = socks[k].session /\ timers' \in [Slots -> 0 .. MaxSessions]
          /\ \A u \in Slots : u # t => timers'[u] = timers[u]
      BY <2>4 DEF TypeOK, Socket
    <3>2. /\ socks[k].session # 0 /\ socks[k].session <= created
          /\ \A u \in Slots : timers[u] # socks[k].session
          /\ \A j \in Slots : j # k => socks[j].session # socks[k].session
      BY <2>1 DEF KnownSessions, OneChain
    <3>3. \A i, j \in Slots : socks'[i].session # 0 /\ socks'[j].session = socks'[i].session => i = j
      BY <2>2 DEF OneChain
    <3>4. \A u, v \in Slots : timers'[u] # 0 /\ timers'[v] = timers'[u] => u = v
      BY <3>1, <3>2 DEF OneChain
    <3>5. ASSUME NEW j \in Slots, NEW u \in Slots, socks'[j].session # 0
          PROVE  timers'[u] # socks'[j].session
      <4>1. j # k /\ socks'[j] = socks[j]
        BY <2>2, <3>5
      <4>2. CASE u = t
        BY <3>1, <3>2, <4>1, <4>2
      <4>3. CASE u # t
        BY <3>1, <3>5, <4>1, <4>3 DEF OneChain
      <4> QED BY <4>2, <4>3
    <3>6. \A j \in Slots : /\ socks'[j].at = "unused" <=> socks'[j].session = 0
                           /\ socks'[j].session <= created'
      <4>1. 0 <= created
        BY DEF TypeOK
      <4> QED BY <2>1, <2>2, <4>1 DEF KnownSessions
    <3>7. \A u \in Slots : timers'[u] <= created'
      BY <2>1, <3>1, <3>2 DEF KnownSessions
    <3>8. ASSUME busy' = "start"
          PROVE  /\ created' \in Sessions
                 /\ \A j \in Slots : socks'[j].session # created'
                 /\ \A u \in Slots : timers'[u] # created'
      <4>1. /\ created \in Sessions /\ created' = created /\ created # 0
            /\ \A j \in Slots : socks[j].session # created
            /\ \A u \in Slots : timers[u] # created
        BY <2>1, <3>8 DEF KnownSessions
      <4>2. ASSUME NEW j \in Slots PROVE socks'[j].session # created
        BY <2>2, <4>1
      <4>3. ASSUME NEW u \in Slots PROVE timers'[u] # created
        BY <3>1, <4>1
      <4> QED BY <4>1, <4>2, <4>3
    <3>9. KnownSessions'
      BY <3>6, <3>7, <3>8 DEF KnownSessions
    <3> QED BY <3>3, <3>4, <3>5, <3>9 DEF OneChain
  <2> QED BY <1>10, <2>3, <2>4 DEF CloseEvent, SetTimer
<1>11. ASSUME NEW t \in Slots, TimerFires(t) PROVE OneChain' /\ KnownSessions'
  <2>1. /\ timers' = [timers EXCEPT ![t] = 0] /\ timers[t] # 0
        /\ created' = created /\ busy' = busy
    BY <1>11 DEF TimerFires
  <2>2. /\ timers' \in [Slots -> 0 .. MaxSessions] /\ timers'[t] = 0
        /\ \A u \in Slots : u # t => timers'[u] = timers[u]
    BY <2>1 DEF TypeOK
  <2>3. CASE UNCHANGED socks
    BY <2>1, <2>2, <2>3, FewerKeepsChain DEF TypeOK, KnownSessions
  <2>4. CASE ConnectWs(timers[t])
    <3>1. /\ timers[t] \in Sessions /\ timers[t] <= created
          /\ \A k \in Slots : socks[k].session # timers[t]
          /\ \A u \in Slots : timers'[u] # timers[t]
      BY <2>1, <2>2 DEF TypeOK, KnownSessions, OneChain, Socket
    <3>2. /\ OneChain'
          /\ \A k \in Slots : socks'[k].session \in {socks[k].session, timers[t]}
          /\ \A k \in Slots : socks'[k].at = "unused" <=> socks'[k].session = 0
      BY <2>2, <2>4, <3>1, ConnectKeepsChain
    <3>3. \A k \in Slots : socks'[k].session <= created'
      BY <2>1, <3>1, <3>2 DEF KnownSessions
    <3>4. \A u \in Slots : timers'[u] <= created'
      BY <2>1, <2>2 DEF KnownSessions, TypeOK
    <3>5. ASSUME busy' = "start"
          PROVE  /\ created' \in Sessions
                 /\ \A k \in Slots : socks'[k].session # created'
                 /\ \A u \in Slots : timers'[u] # created'
      <4>1. /\ created \in Sessions /\ created' = created /\ created # 0
            /\ \A k \in Slots : socks[k].session # created
            /\ \A u \in Slots : timers[u] # created
        BY <2>1, <3>5 DEF KnownSessions
      <4>2. \A k \in Slots : socks'[k].session # created
        BY <3>2, <4>1
      <4>3. \A u \in Slots : timers'[u] # created
        BY <2>2, <4>1
      <4> QED BY <4>1, <4>2, <4>3
    <3> QED BY <3>2, <3>3, <3>4, <3>5 DEF KnownSessions
  <2> QED BY <1>11, <2>3, <2>4 DEF TimerFires
<1>12. CASE UNCHANGED vars
  BY <1>12 DEF vars, OneChain, KnownSessions
<1> QED BY <1>1, <1>2, <1>3, <1>4, <1>5, <1>6, <1>7, <1>8, <1>9, <1>10, <1>11, <1>12
        DEF Next, SocketEvent

LEMMA NextInv == Inv /\ [Next]_vars => Inv'
  BY TypeStep, ChainStep DEF Inv

THEOREM Invariance == Spec => []Inv
  BY InitInv, NextInv, PTL DEF Spec

\* Type correctness of the store, its sockets and its timers.
THEOREM TypeCorrect == Spec => []TypeOK
  BY Invariance, PTL DEF Inv

\* However often connections drop, the page is left or the API restarts, a
\* session never has two sockets or timers that reconnect to it.
THEOREM ReconnectsOnce == Spec => []OneChain
  BY Invariance, PTL DEF Inv

-----------------------------------------------------------------------------
(* The Stop button *)

\* In the first capture a retry that is pending has been counted, and while its
\* session is asked for nothing is shown yet.
ShownInv ==
  /\ ~userClose
  /\ FirstCapture => \A t \in Slots : timers[t] # 0 => attempt > 0
  /\ FirstCapture /\ busy = "start" => ~Capturing

\* Before the first session there is neither socket nor timer, nor while it is asked
\* for; and then a socket excludes a timer.
LEMMA FirstChain ==
  ASSUME Inv, created <= 1
  PROVE  /\ created = 0 \/ busy = "start" => \A k \in Slots : socks[k].at = "unused" /\ timers[k] = 0
         /\ \A k, t \in Slots : socks[k].at # "unused" => timers[t] = 0
<1>1. \A k \in Slots : /\ socks[k].session \in {0, created} /\ timers[k] \in {0, created}
                       /\ socks[k].at = "unused" <=> socks[k].session = 0
  <2> SUFFICES ASSUME NEW k \in Slots
               PROVE  /\ socks[k].session \in {0, created} /\ timers[k] \in {0, created}
                      /\ socks[k].at = "unused" <=> socks[k].session = 0
    OBVIOUS
  <2>1. socks[k].session \in Nat /\ timers[k] \in Nat /\ created \in Nat
    BY ClientAssumption DEF Inv, TypeOK, Socket
  <2>2. /\ socks[k].session <= created /\ timers[k] <= created
        /\ socks[k].at = "unused" <=> socks[k].session = 0
    BY DEF Inv, KnownSessions
  <2> QED BY <2>1, <2>2
<1>2. ASSUME created = 0 \/ busy = "start"
      PROVE  \A k \in Slots : socks[k].session = 0 /\ timers[k] = 0
  BY <1>1, <1>2 DEF Inv, KnownSessions
<1>3. ASSUME NEW k \in Slots, NEW t \in Slots, socks[k].session # 0 PROVE timers[t] = 0
  BY <1>1, <1>3 DEF Inv, OneChain
<1> QED BY <1>1, <1>2, <1>3

LEMMA ShownStep ==
  ASSUME Inv, ShownInv, [Next]_vars
  PROVE  ShownInv' /\ (FirstCapture /\ FirstCapture' /\ Capturing => Capturing')
<1> USE DEF ShownInv, FirstCapture, Capturing
<1>0. /\ created \in Nat /\ attempt \in 0 .. MaxRetries /\ MaxRetries \in Nat \ {0}
      /\ timers \in [Slots -> 0 .. MaxSessions]
  BY ClientAssumption DEF Inv, TypeOK
<1>1. CASE StartPost
  <2>1. /\ created' = created + 1 /\ ~Capturing /\ UNCHANGED <<storeVars, timers, wasReset>>
    BY <1>1 DEF StartPost, netVars
  <2>2. created' = 1 => created = 0
    BY <1>0, <2>1
  <2>3. created' = 1 => \A t \in Slots : timers[t] = 0
    BY <2>2, FirstChain
  <2> QED BY <1>0, <2>1, <2>3 DEF storeVars
<1>2. CASE StartOpen
  <2>1. /\ busy = "start" /\ busy' = "none" /\ created' = created /\ wasReset' = wasReset
        /\ ~userClose' /\ timers' = Cleared
    BY <1>2 DEF StartOpen, serverVars
  <2>2. created = 1 => \A t \in Slots : timers[t] = 0
    BY <1>0, <2>1, FirstChain
  <2>3. created = 1 => \A t \in Slots : timers'[t] = 0
    BY <1>0, <2>1, <2>2 DEF Cleared
  <2> QED BY <2>1, <2>3
<1>3. CASE StopPost
  <2>1. UNCHANGED <<created, storeVars, timers, wasReset>> /\ busy' # "start"
    BY <1>3 DEF StopPost, netVars
  <2> QED BY <2>1 DEF storeVars
<1>4. CASE StopDone \/ Leave
  <2>1. wasReset' /\ ~userClose'
    BY <1>4 DEF StopDone, Leave, Reset
  <2> QED BY <2>1
<1>5. CASE Return
  <2>1. UNCHANGED <<created, storeVars, timers, wasReset, busy>>
    BY <1>5 DEF Return, netVars, serverVars
  <2> QED BY <2>1 DEF storeVars
<1>6. ASSUME ApiRestart \/ \E k \in Slots : Disconnect(k)
      PROVE  UNCHANGED <<created, storeVars, timers, wasReset, busy>>
  BY <1>6 DEF ApiRestart, Disconnect, Drop, pageVars
<1>7. CASE ApiRestart \/ \E k \in Slots : Disconnect(k)
  BY <1>6, <1>7 DEF storeVars
<1>8. ASSUME NEW k \in Slots, OpenEvent(k) PROVE ShownInv' /\ Capturing'
  <2>1. /\ socks[k].at = "connecting" /\ status' = "open" /\ attempt' = 0
        /\ UNCHANGED <<created, busy, timers, wasReset, userClose>>
    BY <1>8 DEF OpenEvent, serverVars, pageVars
  <2>2. created = 1 => busy # "start" /\ \A t \in Slots : timers[t] = 0
    BY <1>0, <2>1, FirstChain
  <2> QED BY <2>1, <2>2
<1>9. ASSUME NEW k \in Slots, CloseEvent(k) PROVE ShownInv' /\ Capturing'
  <2>1. /\ socks[k].at = "closing" /\ UNCHANGED <<created, busy, wasReset, userClose>>
        /\ \/ attempt = MaxRetries /\ UNCHANGED <<attempt, timers>>
           \/ attempt' = attempt + 1
    BY <1>9 DEF CloseEvent, serverVars, pageVars
  <2>2. attempt' > 0
    BY <1>0, <2>1
  <2>3. created = 1 => busy # "start"
    BY <1>0, <2>1, FirstChain
  <2> QED BY <2>1, <2>2, <2>3
<1>10. ASSUME NEW t \in Slots, TimerFires(t)
       PROVE  ShownInv' /\ (FirstCapture /\ Capturing => Capturing')
  <2>1. /\ timers[t] # 0 /\ timers' = [timers EXCEPT ![t] = 0]
        /\ UNCHANGED <<created, busy, wasReset, userClose, attempt>>
    BY <1>10 DEF TimerFires, serverVars, pageVars
  <2>2. FirstCapture => attempt' > 0 /\ busy # "start"
    BY <1>0, <2>1, FirstChain
  <2>3. \A u \in Slots : timers'[u] # 0 => timers[u] # 0
    BY <1>0, <2>1
  <2> QED BY <2>1, <2>2, <2>3
<1>11. CASE UNCHANGED vars
  BY <1>11 DEF vars, storeVars, serverVars, pageVars, netVars
<1> QED BY <1>1, <1>2, <1>3, <1>4, <1>5, <1>7, <1>8, <1>9, <1>10, <1>11 DEF Next, SocketEvent

\* In the first capture since the page was loaded, Stop once shown stays shown, in
\* whatever order sockets open and close, timers fire and retries are used up.
THEOREM StopIsNotWithdrawn == Spec => StopStaysShown
<1>1. Init => ShownInv
  BY ClientAssumption DEF Init, ShownInv, FirstCapture, Capturing
<1>2. Inv /\ ShownInv /\ [Next]_vars => ShownInv'
  BY ShownStep
<1>3. Inv /\ ShownInv /\ [Next]_vars => [FirstCapture /\ FirstCapture' /\ Capturing => Capturing']_vars
  BY ShownStep
<1> QED BY Invariance, <1>1, <1>2, <1>3, PTL DEF Spec, StopStaysShown
=============================================================================
