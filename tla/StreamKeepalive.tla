-------------------------- MODULE StreamKeepalive --------------------------
(***************************************************************************)
(* The HLS keepalive of the stream proxy (internal/stream/proxy.go): while *)
(* a player watches a go2rtc session through the proxy, one goroutine per  *)
(* session pings it, so that go2rtc does not drop it between the player's  *)
(* bursts; when the player has been silent for keepaliveMax the goroutine  *)
(* removes the session and ends.                                           *)
(*                                                                         *)
(* The goroutine pings inside its loop: while a ping runs it looks at      *)
(* nothing else, its ticker goes on, and one tick waits in the channel.    *)
(* Time passes in unit steps (Tick).  A step never passes a goroutine that *)
(* can take a tick, nor a ping that has used up PingTimeout: goroutines    *)
(* run promptly and the HTTP client ends the two fetches of a ping.  Ages  *)
(* are counted up to Horizon.                                              *)
(***************************************************************************)
EXTENDS Naturals, FiniteSets

CONSTANTS
    Ids,            \* go2rtc session ids
    Workers,        \* identities of keepAlive goroutines
    MaxSessions,    \* maxKeepaliveSessions
    PingEvery,      \* keepalivePing
    PingTimeout,    \* the longest a ping takes: two fetches, each given
                    \* fetchTimeout by the HTTP client
    PingLatency,    \* a ping that takes longer counts as missed
    ServerTimeout,  \* go2rtc's inactivity timeout
    Settings,       \* values an admin gives keepaliveMax; 0 disables it
    NoId            \* no session

ASSUME NoIdAssumption      == NoId \notin Ids
ASSUME MaxAssumption       == MaxSessions \in Nat
ASSUME SettingsAssumption  ==
    /\ Settings \subseteq Nat
    /\ \E m \in Settings : \A n \in Settings : n <= m
ASSUME TimingAssumption    ==
    /\ PingEvery \in Nat \ {0}
    /\ PingTimeout \in Nat
    /\ PingLatency \in Nat
    /\ PingLatency < PingEvery /\ PingLatency <= PingTimeout
    /\ ServerTimeout \in Nat
    /\ PingEvery + PingLatency <= ServerTimeout

VARIABLES
    sessions,       \* the keys of p.sessions
    silence,        \* time since lastSeen of each session
    keepaliveMax,   \* p.keepaliveMax
    job,            \* the session each keepAlive goroutine serves
    due,            \* time until its ticker fires next
    waiting,        \* the goroutines with a tick in their ticker's channel
    ping,           \* time its ping has been running, or NotPinging
    reached,        \* the goroutines whose running ping has got to go2rtc
    idle,           \* go2rtc: time since the session was fetched, or Absent
    missed          \* history: a ping of the session failed or took longer
                    \* than PingLatency

clock == <<job, due, waiting>>
vars == <<sessions, silence, keepaliveMax, clock, ping, reached, idle, missed>>

NotPinging == PingTimeout + 1
Absent     == ServerTimeout + 1
Longest    == CHOOSE m \in Settings : \A n \in Settings : n <= m
Lateness   == IF PingTimeout > PingEvery THEN PingTimeout ELSE PingEvery
Horizon    == Longest + Lateness + 1
Alive(id)  == idle[id] <= ServerTimeout
Free       == {w \in Workers : job[w] = NoId}

Init ==
    /\ sessions = {}
    /\ silence = [id \in Ids |-> 0]
    /\ keepaliveMax \in Settings
    /\ job  = [w \in Workers |-> NoId]
    /\ due  = [w \in Workers |-> PingEvery]
    /\ waiting = {}
    /\ ping = [w \in Workers |-> NotPinging]
    /\ reached = {}
    /\ idle = [id \in Ids |-> Absent]
    /\ missed = {}

-----------------------------------------------------------------------------
(* touchSession, which runs under p.mu.                                    *)

Refresh(id) ==
    /\ id \in sessions
    /\ keepaliveMax > 0
    /\ silence' = [silence EXCEPT ![id] = 0]
    /\ UNCHANGED <<sessions, clock>>

\* Off by one: the cap is compared with ">".
HasRoomMutant == Cardinality(sessions) <= MaxSessions
HasRoom == Cardinality(sessions) < MaxSessions

\* Mutant: a goroutine is started for every variant fetch.
StartMutant(id) ==
    /\ keepaliveMax > 0
    /\ HasRoom
    /\ sessions' = sessions \cup {id}
    /\ silence' = [silence EXCEPT ![id] = 0]
    /\ \E w \in Free :
        /\ job' = [job EXCEPT ![w] = id]
        /\ due' = [due EXCEPT ![w] = PingEvery]
    /\ UNCHANGED waiting

Start(id) ==
    /\ id \notin sessions
    /\ keepaliveMax > 0
    /\ HasRoom
    /\ sessions' = sessions \cup {id}
    /\ silence' = [silence EXCEPT ![id] = 0]
    /\ \E w \in Free :
        /\ job' = [job EXCEPT ![w] = id]
        /\ due' = [due EXCEPT ![w] = PingEvery]
    /\ UNCHANGED waiting

Ignore(id, variant) ==
    /\ \/ keepaliveMax = 0
       \/ id \notin sessions /\ (~variant \/ ~HasRoom)
    /\ UNCHANGED <<sessions, silence, clock>>

\* Mutant: a URL without a session id is not turned away.
touchSessionMutant(id, variant) ==
    Refresh(id) \/ (variant /\ Start(id)) \/ Ignore(id, variant)

touchSession(id, variant) ==
    IF id = NoId
      THEN UNCHANGED <<sessions, silence, clock>>
      ELSE Refresh(id) \/ (variant /\ Start(id)) \/ Ignore(id, variant)

-----------------------------------------------------------------------------
(* The player, through the proxy's Handler.                                *)

\* The master playlist carries no session id; go2rtc opens a session for it.
FetchMaster(id) ==
    /\ ~Alive(id)
    /\ id \notin sessions       \* go2rtc's ids are fresh
    /\ idle' = [idle EXCEPT ![id] = 0]
    /\ missed' = missed \ {id}
    /\ touchSession(NoId, TRUE)
    /\ UNCHANGED <<keepaliveMax, ping, reached>>

\* A variant playlist: only a 200 answer touches the session.
FetchVariant(id) ==
    /\ Alive(id)
    /\ idle' = [idle EXCEPT ![id] = 0]
    /\ touchSession(id, TRUE)
    /\ UNCHANGED <<keepaliveMax, ping, reached, missed>>

\* A segment: the session is touched whatever go2rtc answered.
FetchSegment(id) ==
    /\ IF Alive(id)
         THEN idle' = [idle EXCEPT ![id] = 0]
         ELSE UNCHANGED idle
    /\ touchSession(id, FALSE)
    /\ UNCHANGED <<keepaliveMax, ping, reached, missed>>

SetKeepaliveMax(d) ==
    /\ keepaliveMax' = d
    /\ UNCHANGED <<sessions, silence, clock, ping, reached, idle, missed>>

-----------------------------------------------------------------------------
(* keepAlive                                                               *)

\* Mutant: the silence of the player is not looked at.
ExpiredMutant(id) == keepaliveMax = 0
Expired(id) == keepaliveMax = 0 \/ silence[id] > keepaliveMax

\* The loop can take a tick: it has one and no ping is running.
AtTick(w) == job[w] # NoId /\ w \in waiting /\ ping[w] = NotPinging

Stop(w) ==
    /\ AtTick(w)
    /\ job[w] \notin sessions \/ Expired(job[w])
    /\ sessions' = sessions \ {job[w]}
    /\ silence' = [silence EXCEPT ![job[w]] = 0]
    /\ job' = [job EXCEPT ![w] = NoId]
    /\ due' = [due EXCEPT ![w] = PingEvery]
    /\ waiting' = waiting \ {w}
    /\ UNCHANGED <<keepaliveMax, ping, reached, idle, missed>>

\* Mutant: a session fetched within the last period is not pinged.
StartPingMutant(w) ==
    /\ AtTick(w)
    /\ job[w] \in sessions /\ ~Expired(job[w])
    /\ waiting' = waiting \ {w}
    /\ ping' = IF idle[job[w]] <= PingEvery THEN ping ELSE [ping EXCEPT ![w] = 0]
    /\ UNCHANGED <<sessions, silence, keepaliveMax, job, due, reached, idle, missed>>

StartPing(w) ==
    /\ AtTick(w)
    /\ job[w] \in sessions /\ ~Expired(job[w])
    /\ waiting' = waiting \ {w}
    /\ ping' = [ping EXCEPT ![w] = 0]
    /\ UNCHANGED <<sessions, silence, keepaliveMax, job, due, reached, idle, missed>>

\* The fetch of the segment gets to go2rtc, which resets its timer.
PingReaches(w) ==
    /\ ping[w] # NotPinging
    /\ w \notin reached
    /\ Alive(job[w])
    /\ reached' = reached \cup {w}
    /\ idle' = [idle EXCEPT ![job[w]] = 0]
    /\ UNCHANGED <<sessions, silence, keepaliveMax, clock, ping, missed>>

\* The answer is read, or given up at the timeout.
PingDone(w) ==
    /\ ping[w] # NotPinging
    /\ w \in reached
    /\ ping' = [ping EXCEPT ![w] = NotPinging]
    /\ reached' = reached \ {w}
    /\ UNCHANGED <<sessions, silence, keepaliveMax, clock, idle, missed>>

\* The ping never got to the session: best effort, no retry.
PingFails(w) ==
    /\ ping[w] # NotPinging
    /\ w \notin reached
    /\ ping' = [ping EXCEPT ![w] = NotPinging]
    /\ missed' = missed \cup {job[w]}
    /\ UNCHANGED <<sessions, silence, keepaliveMax, clock, reached, idle>>

-----------------------------------------------------------------------------
Later(n, last) == IF n < last THEN n + 1 ELSE last

\* A unit of time.  A ticker that fires leaves a tick in its channel, or drops
\* it when one is waiting there, and keeps its period.
Tick ==
    /\ \A w \in Workers : ~AtTick(w) /\ ping[w] # PingTimeout
    /\ silence' = [id \in Ids |->
            IF id \in sessions THEN Later(silence[id], Horizon) ELSE 0]
    /\ due'  = [w \in Workers |->
            IF job[w] # NoId /\ due[w] > 1 THEN due[w] - 1 ELSE PingEvery]
    /\ waiting' = waiting \cup {w \in Workers : job[w] # NoId /\ due[w] = 1}
    /\ ping' = [w \in Workers |-> Later(ping[w], NotPinging)]
    /\ idle' = [id \in Ids |-> Later(idle[id], Absent)]
    /\ missed' = missed \cup {job[w] : w \in {v \in Workers : ping[v] = PingLatency}}
    /\ UNCHANGED <<sessions, keepaliveMax, job, reached>>

Fetch == \E id \in Ids : FetchMaster(id) \/ FetchVariant(id) \/ FetchSegment(id)

KeepAlive == \E w \in Workers :
    Stop(w) \/ StartPing(w) \/ PingReaches(w) \/ PingDone(w) \/ PingFails(w)

Next ==
    \/ Fetch
    \/ KeepAlive
    \/ \E d \in Settings : SetKeepaliveMax(d)
    \/ Tick

Spec == Init /\ [][Next]_vars

-----------------------------------------------------------------------------
\* Every variable has its type; only go2rtc sessions are kept alive.
TypeOK ==
    /\ sessions \subseteq Ids
    /\ silence \in [Ids -> Nat]
    /\ keepaliveMax \in Settings
    /\ job  \in [Workers -> Ids \cup {NoId}]
    /\ due  \in [Workers -> 1 .. PingEvery]
    /\ waiting \subseteq Workers
    /\ ping \in [Workers -> 0 .. NotPinging]
    /\ reached \subseteq Workers
    /\ idle \in [Ids -> 0 .. Absent]
    /\ missed \subseteq Ids

\* Sessions and keepAlive goroutines are in one-to-one correspondence: no
\* session without its goroutine (it would fill a slot for ever), no
\* goroutine without a session (a leak), never two pinging the same session,
\* whatever the order of fetches, setting changes and ticks.  In particular
\* the "s == nil" case of keepAlive never happens.
OneWorkerPerSession ==
    /\ \A w \in Workers : job[w] # NoId => job[w] \in sessions
    /\ \A id \in sessions : \E w \in Workers : job[w] = id
    /\ \A v, w \in Workers : job[v] = job[w] /\ job[v] # NoId => v = w

\* "cap concurrent keepalive goroutines" (proxy.go:98).
WorkersCapped == Cardinality({w \in Workers : job[w] # NoId}) <= MaxSessions

\* A session the proxy keeps alive is alive at go2rtc, across any gap in the
\* player's fetches, unless one of its pings failed or took longer than the
\* slack between the ticker and go2rtc's timeout.
WarmWhileWatched == \A id \in sessions : Alive(id) \/ id \in missed

\* "A session is dropped once the player stops fetching it for keepaliveMax"
\* (proxy.go:95): it is late by at most one ticker period or one ping that
\* hangs until its timeout, whichever is longer.  Delays do not add up: a ping
\* starts only after the silence was looked at.  This holds whatever an admin
\* does to the setting meanwhile.
DroppedAfterSilence == \A id \in sessions : silence[id] <= Longest + Lateness

=============================================================================
