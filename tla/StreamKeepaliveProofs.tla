----------------------- MODULE StreamKeepaliveProofs -----------------------
(***************************************************************************)
(* Proofs about StreamKeepalive, for any sets of sessions and goroutines,  *)
(* any cap, any settings and any timing that satisfies TimingAssumption.   *)
(*                                                                         *)
(* The inductive invariant adds to the properties what they rest on: the   *)
(* number of sessions (SessionsCapped); the silence of a session when the  *)
(* one goroutine that serves it looks at it next, after its ticker or its  *)
(* running ping (Silences); and go2rtc's inactivity timer against both, as *)
(* long as no ping was missed (Warmth).                                    *)
(***************************************************************************)
EXTENDS StreamKeepalive, FiniteSetTheorems, FunctionTheorems, TLAPS

SessionsCapped ==
    /\ IsFiniteSet(sessions)
    /\ Cardinality(sessions) <= MaxSessions

Unemployed ==
    /\ reached \subseteq {w \in Workers : ping[w] # NotPinging}
    /\ \A w \in Workers : job[w] = NoId =>
         /\ ping[w] = NotPinging
         /\ w \notin waiting
         /\ due[w] = PingEvery

\* The silence of the session when its goroutine looks at it next is known: a
\* tick later, at once when a tick waits, or when the ping ends, which began
\* when the session was not silent for too long.
Silent(s, d, wait, p) ==
    IF p = NotPinging
      THEN IF wait THEN s <= Longest + Lateness
                   ELSE s + d <= Longest + Lateness
      ELSE /\ s <= Longest + p
           /\ ~wait => p + d <= PingEvery

\* Until a ping is missed the ticker is never behind, and go2rtc was fetched
\* within a period of the last tick.
Warm(i, d, wait, p, there) ==
    IF p = NotPinging
      THEN IF wait THEN i <= PingEvery /\ d = PingEvery ELSE i + d <= PingEvery
      ELSE /\ ~wait
           /\ p <= PingLatency
           /\ p + d = PingEvery
           /\ IF there THEN i + d <= PingEvery ELSE i <= PingEvery + p

Silences == \A w \in Workers : job[w] # NoId =>
    Silent(silence[job[w]], due[w], w \in waiting, ping[w])

Warmth == \A w \in Workers : job[w] # NoId /\ job[w] \notin missed =>
    Warm(idle[job[w]], due[w], w \in waiting, ping[w], w \in reached)

IInv == TypeOK /\ OneWorkerPerSession /\ SessionsCapped /\ Unemployed /\ Silences /\ Warmth

-----------------------------------------------------------------------------
\* The largest setting exists and bounds keepaliveMax.
LEMMA LongestBounds ==
    /\ Longest \in Nat
    /\ \A n \in Settings : n \in Nat /\ n <= Longest
  BY SettingsAssumption DEF Longest

LEMMA LatenessBounds ==
    Lateness \in Nat /\ PingEvery <= Lateness /\ PingTimeout <= Lateness
  BY TimingAssumption DEF Lateness

LEMMA InitIInv == Init => IInv
<1> SUFFICES ASSUME Init PROVE IInv
  OBVIOUS
<1> USE DEF Init, NotPinging, Absent
<1>1. TypeOK
  BY TimingAssumption DEF TypeOK
<1>2. OneWorkerPerSession
  BY DEF OneWorkerPerSession
<1>3. SessionsCapped
  BY FS_EmptySet, MaxAssumption DEF SessionsCapped
<1>4. Silences /\ Warmth
  BY DEF Silences, Warmth
<1>5. Unemployed
  BY DEF Unemployed
<1>6. QED
  BY <1>1, <1>2, <1>3, <1>4, <1>5 DEF IInv

\* Whatever a fetch does to the session table preserves the invariant, when
\* go2rtc has just answered it (idle = 0 for a variant) or ignored it.
LEMMA StartIInv ==
  ASSUME IInv, NEW id \in Ids, Start(id), idle' = [idle EXCEPT ![id] = 0],
         UNCHANGED <<keepaliveMax, ping, reached, missed>>
  PROVE  IInv'
<1> USE TimingAssumption, LongestBounds, LatenessBounds, NoIdAssumption
    DEF NotPinging, Absent, Start
<1>1. PICK w \in Free : /\ job' = [job EXCEPT ![w] = id]
                        /\ due' = [due EXCEPT ![w] = PingEvery]
  OBVIOUS
<1>2. w \in Workers /\ job[w] = NoId
  BY DEF Free
<1>3. TypeOK'
  BY <1>1, <1>2 DEF IInv, TypeOK
<1>4. OneWorkerPerSession'
  BY <1>1, <1>2 DEF IInv, TypeOK, OneWorkerPerSession
<1>5. SessionsCapped'
  <2>1. /\ IsFiniteSet(sessions')
        /\ Cardinality(sessions') = Cardinality(sessions) + 1
    BY FS_AddElement DEF IInv, SessionsCapped
  <2>2. Cardinality(sessions) \in Nat
    BY FS_CardinalityType DEF IInv, SessionsCapped
  <2>3. QED
    BY <2>1, <2>2, MaxAssumption DEF HasRoom, SessionsCapped
<1>6. Unemployed'
  BY <1>1, <1>2 DEF IInv, TypeOK, Unemployed
<1>7. Silences' /\ Warmth'
  <2> SUFFICES ASSUME NEW v \in Workers, job'[v] # NoId
               PROVE  /\ Silent(silence[job[v]], due[v], v \in waiting, ping[v])'
                      /\ job'[v] \notin missed' =>
                           Warm(idle[job[v]], due[v], v \in waiting, ping[v], v \in reached)'
    BY DEF Silences, Warmth
  <2>1. CASE v = w
    <3>1. /\ ping'[v] = NotPinging /\ job'[v] = id /\ due'[v] = PingEvery
          /\ v \notin waiting'
      BY <1>1, <1>2, <2>1 DEF IInv, TypeOK, Unemployed
    <3>2. silence'[id] = 0 /\ idle'[id] = 0
      BY DEF IInv, TypeOK
    <3>3. QED
      BY <3>1, <3>2 DEF Silent, Warm
  <2>2. CASE v # w
    <3>1. /\ job'[v] = job[v] /\ due'[v] = due[v] /\ waiting' = waiting
          /\ ping' = ping /\ reached' = reached /\ missed' = missed
          /\ job[v] \in sessions /\ job[v] # id
      BY <1>1, <1>2, <2>2 DEF IInv, TypeOK, OneWorkerPerSession
    <3>2. silence'[job[v]] = silence[job[v]] /\ idle'[job[v]] = idle[job[v]]
      BY <3>1 DEF IInv, TypeOK, OneWorkerPerSession
    <3>3. QED
      BY <3>1, <3>2 DEF IInv, Silences, Warmth, Silent, Warm
  <2>3. QED
    BY <2>1, <2>2
<1>8. QED
  BY <1>3, <1>4, <1>5, <1>6, <1>7 DEF IInv

\* A fetch that leaves the table alone, or refreshes a session of it.
LEMMA RefreshIInv ==
  ASSUME IInv, NEW id \in Ids, Refresh(id),
         idle' = idle \/ idle' = [idle EXCEPT ![id] = 0],
         UNCHANGED <<keepaliveMax, ping, reached, missed>>
  PROVE  IInv'
<1> USE TimingAssumption, LongestBounds, LatenessBounds, NoIdAssumption
    DEF NotPinging, Absent, Refresh, clock
<1>1. TypeOK'
  BY DEF IInv, TypeOK
<1>2. OneWorkerPerSession' /\ SessionsCapped' /\ Unemployed'
  BY DEF IInv, OneWorkerPerSession, SessionsCapped, Unemployed
<1>3. Silences' /\ Warmth'
  BY DEF IInv, TypeOK, Silences, Warmth, Silent, Warm
<1>4. QED
  BY <1>1, <1>2, <1>3 DEF IInv

LEMMA IgnoreIInv ==
  ASSUME IInv, UNCHANGED <<sessions, silence, clock, keepaliveMax, ping, reached>>,
         NEW id \in Ids,
         \/ idle' = idle /\ missed' = missed
         \/ idle' = [idle EXCEPT ![id] = 0] /\ missed' = missed
         \/ idle' = [idle EXCEPT ![id] = 0] /\ missed' = missed \ {id} /\ id \notin sessions
  PROVE  IInv'
<1> USE TimingAssumption, LongestBounds, LatenessBounds, NoIdAssumption DEF NotPinging, Absent, clock
<1>1. TypeOK'
  BY DEF IInv, TypeOK
<1>2. OneWorkerPerSession' /\ SessionsCapped' /\ Unemployed'
  BY DEF IInv, OneWorkerPerSession, SessionsCapped, Unemployed
<1>3. Silences' /\ Warmth'
  BY DEF IInv, TypeOK, Silences, Warmth, Silent, Warm, OneWorkerPerSession
<1>4. QED
  BY <1>1, <1>2, <1>3 DEF IInv

LEMMA FetchIInv == IInv /\ Fetch => IInv'
<1> SUFFICES ASSUME IInv, NEW id \in Ids,
                    FetchMaster(id) \/ FetchVariant(id) \/ FetchSegment(id)
             PROVE  IInv'
  BY DEF Fetch
<1>1. CASE FetchMaster(id)
  BY <1>1, IgnoreIInv DEF FetchMaster, touchSession, clock
<1>2. CASE FetchVariant(id)
  BY <1>2, StartIInv, RefreshIInv, IgnoreIInv, NoIdAssumption
     DEF FetchVariant, touchSession, Ignore, clock
<1>3. CASE FetchSegment(id)
  BY <1>3, RefreshIInv, IgnoreIInv, NoIdAssumption
     DEF FetchSegment, touchSession, Ignore, clock
<1>4. QED
  BY <1>1, <1>2, <1>3

\* The goroutine that gives up removes the one session it served.
LEMMA StopIInv ==
  ASSUME IInv, NEW w \in Workers, Stop(w)
  PROVE  IInv'
<1> USE TimingAssumption, LongestBounds, LatenessBounds, NoIdAssumption
    DEF NotPinging, Absent, Stop, AtTick
<1>1. job[w] \in sessions /\ job[w] \in Ids
  BY DEF IInv, TypeOK, OneWorkerPerSession
<1>2. TypeOK'
  BY DEF IInv, TypeOK
<1>3. OneWorkerPerSession'
  BY <1>1 DEF IInv, TypeOK, OneWorkerPerSession
<1>4. SessionsCapped'
  <2>1. /\ IsFiniteSet(sessions')
        /\ Cardinality(sessions') = Cardinality(sessions) - 1
    BY <1>1, FS_RemoveElement DEF IInv, SessionsCapped
  <2>2. Cardinality(sessions) \in Nat
    BY FS_CardinalityType DEF IInv, SessionsCapped
  <2>3. QED
    BY <2>1, <2>2, MaxAssumption DEF IInv, SessionsCapped
<1>5. Unemployed'
  BY DEF IInv, TypeOK, Unemployed
<1>6. Silences' /\ Warmth'
  BY <1>1 DEF IInv, TypeOK, Silences, Warmth, Silent, Warm, OneWorkerPerSession
<1>7. QED
  BY <1>2, <1>3, <1>4, <1>5, <1>6 DEF IInv

\* The steps of a ping concern one goroutine.
LEMMA PingIInv ==
  ASSUME IInv, NEW w \in Workers,
         StartPing(w) \/ PingReaches(w) \/ PingDone(w) \/ PingFails(w)
  PROVE  IInv'
<1> USE TimingAssumption, LongestBounds, LatenessBounds, NoIdAssumption
    DEF NotPinging, Absent, clock
<1>1. job[w] \in sessions /\ job[w] \in Ids
  BY DEF IInv, TypeOK, OneWorkerPerSession, Unemployed, StartPing, AtTick,
         PingReaches, PingDone, PingFails
<1>2. TypeOK'
  BY <1>1 DEF IInv, TypeOK, StartPing, PingReaches, PingDone, PingFails
<1>3. OneWorkerPerSession' /\ SessionsCapped'
  BY DEF IInv, OneWorkerPerSession, SessionsCapped,
         StartPing, PingReaches, PingDone, PingFails
<1>4. Unemployed'
  BY <1>1 DEF IInv, TypeOK, Unemployed, StartPing, PingReaches, PingDone, PingFails
<1>5. Silences' /\ Warmth'
  <2> SUFFICES ASSUME NEW v \in Workers, job'[v] # NoId
               PROVE  /\ Silent(silence[job[v]], due[v], v \in waiting, ping[v])'
                      /\ job'[v] \notin missed' =>
                           Warm(idle[job[v]], due[v], v \in waiting, ping[v], v \in reached)'
    BY DEF Silences, Warmth
  <2>0. /\ job' = job /\ due' = due /\ silence' = silence /\ missed \subseteq missed'
        /\ job[v] \in Ids
    BY DEF IInv, TypeOK, StartPing, PingReaches, PingDone, PingFails
  <2>1. CASE v # w
    <3>1. /\ ping'[v] = ping[v] /\ idle'[job[v]] = idle[job[v]]
          /\ v \in waiting' <=> v \in waiting
          /\ v \in reached' <=> v \in reached
      BY <1>1, <2>0, <2>1 DEF IInv, TypeOK, OneWorkerPerSession,
         StartPing, PingReaches, PingDone, PingFails
    <3>2. QED
      BY <2>0, <3>1 DEF IInv, Silences, Warmth, Silent, Warm
  <2>2. CASE v = w /\ StartPing(w)
    BY <1>1, <2>0, <2>2 DEF IInv, TypeOK, Unemployed, Silences, Warmth, Silent, Warm,
       StartPing, AtTick, Expired
  <2>3. CASE v = w /\ PingReaches(w)
    BY <1>1, <2>0, <2>3 DEF IInv, TypeOK, Silences, Warmth, Silent, Warm, PingReaches
  <2>4. CASE v = w /\ PingDone(w)
    BY <1>1, <2>0, <2>4 DEF IInv, TypeOK, Silences, Warmth, Silent, Warm, PingDone
  <2>5. CASE v = w /\ PingFails(w)
    BY <1>1, <2>0, <2>5 DEF IInv, TypeOK, Silences, Warmth, Silent, Warm, PingFails
  <2>6. QED
    BY <2>1, <2>2, <2>3, <2>4, <2>5
<1>6. QED
  BY <1>2, <1>3, <1>4, <1>5 DEF IInv

LEMMA TickIInv == IInv /\ Tick => IInv'
<1> SUFFICES ASSUME IInv, Tick PROVE IInv'
  OBVIOUS
<1> USE TimingAssumption, LongestBounds, LatenessBounds, NoIdAssumption
    DEF NotPinging, Absent
<1>1. TypeOK'
  <2>1. /\ silence' \in [Ids -> Nat] /\ idle' \in [Ids -> 0 .. Absent]
        /\ due' \in [Workers -> 1 .. PingEvery] /\ ping' \in [Workers -> 0 .. NotPinging]
    BY DEF IInv, TypeOK, Tick, Later, Horizon
  <2>2. missed' \subseteq Ids
    BY DEF IInv, TypeOK, Tick, Unemployed
  <2>3. QED
    BY <2>1, <2>2 DEF IInv, TypeOK, Tick
<1>2. OneWorkerPerSession' /\ SessionsCapped'
  BY DEF IInv, OneWorkerPerSession, SessionsCapped, Tick
<1>3. Unemployed'
  BY DEF IInv, TypeOK, Unemployed, Tick, Later
<1>4. Silences' /\ Warmth'
  <2> SUFFICES ASSUME NEW v \in Workers, job'[v] # NoId
               PROVE  /\ Silent(silence[job[v]], due[v], v \in waiting, ping[v])'
                      /\ job'[v] \notin missed' =>
                           Warm(idle[job[v]], due[v], v \in waiting, ping[v], v \in reached)'
    BY DEF Silences, Warmth
  <2> DEFINE id == job[v]
  <2>1. /\ job'[v] = id /\ id \in Ids /\ id \in sessions
        /\ reached' = reached
        /\ id \notin missed' => id \notin missed /\ ping[v] # PingLatency
    BY DEF IInv, TypeOK, OneWorkerPerSession, Tick
  <2>2. /\ silence[id] \in Nat /\ idle[id] \in 0 .. Absent
        /\ due[v] \in 1 .. PingEvery /\ ping[v] \in 0 .. NotPinging
    BY <2>1 DEF IInv, TypeOK
  <2>3. /\ silence'[id] <= silence[id] + 1 /\ silence'[id] \in Nat
        /\ idle'[id] <= idle[id] + 1 /\ idle'[id] \in Nat
        /\ ping'[v] = IF ping[v] = NotPinging THEN NotPinging ELSE ping[v] + 1
        /\ due'[v] = IF due[v] = 1 THEN PingEvery ELSE due[v] - 1
        /\ v \in waiting' <=> v \in waiting \/ due[v] = 1
        /\ ping[v] # PingTimeout
        /\ ping[v] = NotPinging => v \notin waiting
    BY <2>1, <2>2 DEF Tick, Later, Horizon, AtTick
  <2>4. Silent(silence[id], due[v], v \in waiting, ping[v])
    BY <2>1 DEF IInv, Silences
  <2>5. Silent(silence[job[v]], due[v], v \in waiting, ping[v])'
    BY <2>1, <2>2, <2>3, <2>4 DEF Silent
  <2>6. ASSUME id \notin missed'
        PROVE  Warm(idle[job[v]], due[v], v \in waiting, ping[v], v \in reached)'
    <3>1. Warm(idle[id], due[v], v \in waiting, ping[v], v \in reached)
      BY <2>1, <2>6 DEF IInv, Warmth
    <3>2. QED
      BY <2>1, <2>2, <2>3, <2>6, <3>1 DEF Warm
  <2>7. QED
    BY <2>1, <2>5, <2>6
<1>5. QED
  BY <1>1, <1>2, <1>3, <1>4 DEF IInv

LEMMA SettingIInv ==
  ASSUME IInv, NEW d \in Settings, SetKeepaliveMax(d)
  PROVE  IInv'
  BY DEF IInv, TypeOK, OneWorkerPerSession, SessionsCapped, Unemployed, Silences,
         Warmth, Silent, Warm, SetKeepaliveMax, clock

LEMMA StutterIInv == IInv /\ UNCHANGED vars => IInv'
  BY DEF IInv, TypeOK, OneWorkerPerSession, SessionsCapped, Unemployed, Silences,
         Warmth, Silent, Warm, vars, clock

LEMMA IInvInvariant == Spec => []IInv
<1>1. IInv /\ [Next]_vars => IInv'
  BY FetchIInv, StopIInv, PingIInv, TickIInv, SettingIInv, StutterIInv
     DEF Next, KeepAlive
<1>2. QED
  BY InitIInv, <1>1, PTL DEF Spec

-----------------------------------------------------------------------------
\* Every variable keeps its type (the state of stream/proxy.go's Proxy).
THEOREM TypeCorrect == Spec => []TypeOK
<1>1. IInv => TypeOK
  BY DEF IInv
<1>2. QED
  BY IInvInvariant, <1>1, PTL

\* touchSession and keepAlive keep sessions and goroutines in one-to-one
\* correspondence.
THEOREM SessionsHaveOneWorker == Spec => []OneWorkerPerSession
<1>1. IInv => OneWorkerPerSession
  BY DEF IInv
<1>2. QED
  BY IInvInvariant, <1>1, PTL

\* maxKeepaliveSessions bounds the goroutines, not only the table.
THEOREM WorkersStayCapped == Spec => []WorkersCapped
<1>1. ASSUME IInv PROVE WorkersCapped
  <2> DEFINE Busy == {w \in Workers : job[w] # NoId}
             f == [w \in Busy |-> job[w]]
  <2>1. f \in Injection(Busy, sessions)
    BY <1>1 DEF IInv, OneWorkerPerSession, Injection, IsInjective
  <2>2. Cardinality(Busy) <= Cardinality(sessions) /\ IsFiniteSet(Busy)
    <3> HIDE DEF Busy, f
    <3>1. QED
      BY <1>1, <2>1, FS_Injection DEF IInv, SessionsCapped
  <2>3. Cardinality(Busy) \in Nat /\ Cardinality(sessions) \in Nat
    <3> HIDE DEF Busy
    <3>1. QED
      BY <1>1, <2>2, FS_CardinalityType DEF IInv, SessionsCapped
  <2>4. QED
    BY <1>1, <2>2, <2>3, MaxAssumption DEF IInv, SessionsCapped, WorkersCapped
<1>2. QED
  BY IInvInvariant, <1>1, PTL

\* pings are frequent enough for go2rtc, for every timing that satisfies
\* TimingAssumption, as long as none is missed.
THEOREM WatchedSessionsStayWarm == Spec => []WarmWhileWatched
<1>1. ASSUME IInv PROVE WarmWhileWatched
  <2> SUFFICES ASSUME NEW id \in sessions, id \notin missed
               PROVE  idle[id] <= ServerTimeout
    BY DEF WarmWhileWatched, Alive
  <2>1. PICK w \in Workers : job[w] = id
    BY <1>1 DEF IInv, OneWorkerPerSession
  <2>2. job[w] # NoId /\ id \in Ids /\ due[w] \in 1 .. PingEvery /\ idle[id] \in Nat
        /\ ping[w] \in 0 .. NotPinging
    BY <1>1, <2>1, NoIdAssumption, TimingAssumption DEF IInv, TypeOK, Absent, NotPinging
  <2>3. Warm(idle[id], due[w], w \in waiting, ping[w], w \in reached)
    BY <1>1, <2>1, <2>2 DEF IInv, Warmth
  <2>4. QED
    BY <2>2, <2>3, TimingAssumption DEF Warm, NotPinging
<1>2. QED
  BY IInvInvariant, <1>1, PTL

\* keepAlive removes a silent session within one ticker period, or one hanging
\* ping, of keepaliveMax, however long a ping may hang.
THEOREM SilentSessionsAreDropped == Spec => []DroppedAfterSilence
<1>1. ASSUME IInv PROVE DroppedAfterSilence
  <2> SUFFICES ASSUME NEW id \in sessions
               PROVE  silence[id] <= Longest + Lateness
    BY DEF DroppedAfterSilence
  <2>1. PICK w \in Workers : job[w] = id
    BY <1>1 DEF IInv, OneWorkerPerSession
  <2>2. job[w] # NoId /\ id \in Ids /\ due[w] \in 1 .. PingEvery
        /\ silence[id] \in Nat /\ ping[w] \in 0 .. NotPinging
    BY <1>1, <2>1, NoIdAssumption, TimingAssumption DEF IInv, TypeOK
  <2>3. Silent(silence[id], due[w], w \in waiting, ping[w])
    BY <1>1, <2>1, <2>2 DEF IInv, Silences
  <2>4. QED
    BY <2>2, <2>3, TimingAssumption, LongestBounds, LatenessBounds DEF Silent, NotPinging
<1>2. QED
  BY IInvInvariant, <1>1, PTL

=============================================================================
