----------------------- MODULE OpenHABConnectorProofs -----------------------
(***************************************************************************)
(* Proofs about OpenHABConnector, for any number of state changes,         *)
(* Resyncs, device sets and administrators.                                *)
(*                                                                         *)
(* NewestIsCurrent says that c.sseCancel always cancels the newest run:    *)
(* whatever a Resync replaces is cancelled with it, which OneLiveStream    *)
(* rests on.  Informed says where the item's state is, unless something    *)
(* went amiss: last in the events the current stream has not handled, in   *)
(* the fetch that is not routed yet, or in the device.  It rests on        *)
(* NothingTooNew: whatever is on its way to a device is no newer than the  *)
(* item.                                                                   *)
(***************************************************************************)
EXTENDS OpenHABConnector, SequenceTheorems, TLAPS

NewestIsCurrent ==
    /\ current = run
    /\ run \notin cancelled
    /\ \A r \in Runs : r > run => stream[r] = "none" /\ sync[r] = "none"

ClosedIsEmpty == \A r \in Runs : stream[r] # "open" => events[r] = <<>>

NothingTooNew == \A r \in Runs :
    /\ got[r] <= item
    /\ \A i \in 1 .. Len(events[r]) : events[r][i] <= item

Informed ==
    ~amiss => \A r \in Runs : r = current /\ stream[r] # "ended" =>
        /\ events[r] # <<>> => events[r][Len(events[r])] = item
        /\ events[r] = <<>> /\ sync[r] = "route" => got[r] = item \/ Right
        /\ events[r] = <<>> /\ sync[r] = "done" => Right

CInv == TypeOK /\ OneLiveStream /\ NewestIsCurrent /\ ClosedIsEmpty /\ NothingTooNew

-----------------------------------------------------------------------------
LEMMA RangesAreNumbers ==
  /\ Runs \subseteq Nat \ {0} /\ Sets \subseteq Nat \ {0} /\ 1 \in Sets
  /\ States \subseteq Nat /\ 0 \in States
  /\ MaxRun \in Nat /\ MaxSet \in Nat /\ MaxState \in Nat
  BY BoundsAssumption DEF Runs, Sets, States

LEMMA InitCInv == Init => CInv /\ Informed
<1> SUFFICES ASSUME Init PROVE CInv /\ Informed
  OBVIOUS
<1> USE RangesAreNumbers DEF Init
<1>1. TypeOK
  <2>1. << >> \in Seq(States) /\ bound \subseteq 1 .. built /\ cancelled \subseteq 1 .. run
    OBVIOUS
  <2>2. 0 \in 0 .. MaxRun /\ 0 \in 0 .. MaxSet /\ current \in 0 .. run
    OBVIOUS
  <2>3. value \in [Sets -> States \cup {Unknown}] /\ admin \in [Admins -> 0 .. MaxSet]
    BY <2>2
  <2>4. QED
    BY <2>1, <2>2, <2>3 DEF TypeOK
<1>2. OneLiveStream /\ NewestIsCurrent /\ ClosedIsEmpty
  BY DEF OneLiveStream, NewestIsCurrent, ClosedIsEmpty
<1>3. NothingTooNew
  <2>1. \A r \in Runs : Len(events[r]) = 0 /\ got[r] = 0
    OBVIOUS
  <2>2. QED
    BY <2>1 DEF NothingTooNew
<1>4. Informed
  BY DEF Informed
<1>5. QED
  BY <1>1, <1>2, <1>3, <1>4 DEF CInv

-----------------------------------------------------------------------------
(* Resyncs.                                                                *)

\* A Resync: the critical section replaces the run, on whatever devices.
LEMMA InstallKeeps ==
  ASSUME CInv, NEW d \in Sets, Install(d),
         UNCHANGED <<item, value, configured, got, events>>,
         built' \in Sets, bound' \subseteq 1 .. built',
         admin' \in [Admins -> 0 .. MaxSet]
  PROVE  CInv' /\ Informed'
<1> USE RangesAreNumbers
<1>1. /\ run' = run + 1 /\ current' = run' /\ run < MaxRun /\ run \in Nat
      /\ cancelled' = cancelled \cup ({run} \ {0})
      /\ installed' = d /\ amiss' = FALSE /\ resumed' = "no"
  BY DEF Install, CInv, NewestIsCurrent, TypeOK
<1>2. run + 1 \in Runs
  BY <1>1 DEF Runs
<1>3. \/ stream' = [stream EXCEPT ![run + 1] = "spawn"] /\ sync' = sync
      \/ stream' = [stream EXCEPT ![run + 1] = "ended"] /\ sync' = [sync EXCEPT ![run + 1] = "done"]
  BY <1>1 DEF Install, Begin
<1>4. /\ stream' \in [Runs -> {"none", "spawn", "connect", "open", "backoff", "ended"}]
      /\ sync' \in [Runs -> {"none", "fetch", "route", "done"}]
      /\ \A r \in Runs : r # run + 1 => stream'[r] = stream[r] /\ sync'[r] = sync[r]
  BY <1>3 DEF CInv, TypeOK
<1>5. stream[run + 1] = "none" /\ sync[run + 1] = "none"
  BY <1>1, <1>2 DEF CInv, NewestIsCurrent
<1>6. TypeOK'
  <2>1. run' \in 0 .. MaxRun /\ current' \in 0 .. run' /\ cancelled' \subseteq 1 .. run'
    BY <1>1 DEF CInv, TypeOK
  <2>2. QED
    BY <1>1, <1>4, <2>1 DEF CInv, TypeOK
<1>7. OneLiveStream'
  <2> SUFFICES ASSUME NEW r \in Runs, stream'[r] \notin {"none", "ended"}
               PROVE  r \in cancelled' \/ r = current'
    BY DEF OneLiveStream
  <2>1. CASE r = run + 1
    BY <2>1, <1>1
  <2>2. CASE r # run + 1
    BY <2>2, <1>1, <1>4 DEF CInv, OneLiveStream, NewestIsCurrent
  <2>3. QED
    BY <2>1, <2>2
<1>8. NewestIsCurrent'
  BY <1>1, <1>4 DEF CInv, NewestIsCurrent, TypeOK, Runs
<1>9. ClosedIsEmpty'
  BY <1>4, <1>5 DEF CInv, ClosedIsEmpty
<1>10. NothingTooNew'
  BY DEF CInv, NothingTooNew
<1>11. Informed'
  <2>1. events[run + 1] = <<>>
    BY <1>2, <1>5 DEF CInv, ClosedIsEmpty
  <2>2. stream'[run + 1] = "ended" \/ sync'[run + 1] = "none"
    BY <1>2, <1>3, <1>5 DEF CInv, TypeOK
  <2>3. QED
    BY <1>1, <2>1, <2>2 DEF Informed
<1>12. QED
  BY <1>6, <1>7, <1>8, <1>9, <1>10, <1>11 DEF CInv

LEMMA ResyncsKeep ==
  ASSUME CInv,
         \/ FirstResync
         \/ \E binds \in BOOLEAN : Resync(binds)
         \/ \E a \in Admins : ResyncDevices(a)
  PROVE  CInv' /\ Informed'
<1> USE RangesAreNumbers
<1>1. CASE FirstResync
  BY <1>1, InstallKeeps DEF FirstResync, CInv, TypeOK
<1>2. ASSUME NEW binds \in BOOLEAN, Resync(binds)
      PROVE  CInv' /\ Informed'
  <2>1. built + 1 \in Sets
    BY <1>2 DEF Resync, CInv, TypeOK, Sets
  <2>2. bound' \subseteq 1 .. built'
    BY <1>2, <2>1 DEF Resync, CInv, TypeOK, Sets
  <2>3. QED
    BY <1>2, <2>1, <2>2, InstallKeeps DEF Resync, CInv, TypeOK
<1>3. ASSUME NEW a \in Admins, ResyncDevices(a)
      PROVE  CInv' /\ Informed'
  <2>1. admin[a] \in Sets /\ admin' \in [Admins -> 0 .. MaxSet]
    BY <1>3 DEF ResyncDevices, CInv, TypeOK, Sets
  <2>2. QED
    BY <1>3, <2>1, InstallKeeps DEF ResyncDevices, CInv, TypeOK
<1>4. QED
  BY <1>1, <1>2, <1>3

LEMMA ReadDevicesKeeps ==
  ASSUME CInv, Informed, NEW a \in Admins, ReadDevices(a)
  PROVE  CInv' /\ Informed'
<1> USE RangesAreNumbers DEF ReadDevices, control, threads
<1>1. admin' \in [Admins -> 0 .. MaxSet]
  BY DEF CInv, TypeOK, Sets
<1>2. TypeOK'
  BY <1>1 DEF CInv, TypeOK
<1>3. OneLiveStream' /\ NewestIsCurrent' /\ ClosedIsEmpty' /\ NothingTooNew'
  BY DEF CInv, OneLiveStream, NewestIsCurrent, ClosedIsEmpty, NothingTooNew
<1>4. Informed'
  BY DEF Informed, Right
<1>5. QED
  BY <1>2, <1>3, <1>4 DEF CInv

-----------------------------------------------------------------------------
(* The goroutines of one run.                                              *)

Live == {"spawn", "connect", "open", "backoff"}

\* A step of run r that leaves the control and the tables alone and does not
\* revive the run.
LEMMA ThreadCInv ==
  ASSUME CInv, NEW r \in Runs,
         UNCHANGED <<item, installed, built, bound, configured, control, admin>>,
         value' \in [Sets -> States \cup {Unknown}],
         amiss' \in BOOLEAN,
         resumed' \in {"no", "cut", "open"},
         sync' \in [Runs -> {"none", "fetch", "route", "done"}],
         got' \in [Runs -> States],
         stream' \in [Runs -> {"none", "spawn", "connect", "open", "backoff", "ended"}],
         events' \in [Runs -> Seq(States)],
         stream[r] \in Live \/ sync[r] \in {"fetch", "route"},
         stream'[r] \in Live => stream[r] \in Live,
         stream'[r] # "open" => events'[r] = <<>>,
         got'[r] <= item,
         \A i \in 1 .. Len(events'[r]) : events'[r][i] <= item,
         \A q \in Runs \ {r} : /\ stream'[q] = stream[q] /\ sync'[q] = sync[q]
                               /\ got'[q] = got[q] /\ events'[q] = events[q]
  PROVE  CInv'
<1> USE DEF control
<1>1. TypeOK'
  BY DEF CInv, TypeOK
<1>2. OneLiveStream'
  BY DEF CInv, OneLiveStream, TypeOK, Live
<1>3. NewestIsCurrent'
  BY DEF CInv, NewestIsCurrent, Live
<1>4. ClosedIsEmpty'
  BY DEF CInv, ClosedIsEmpty
<1>5. NothingTooNew'
  BY DEF CInv, NothingTooNew
<1>6. QED
  BY <1>1, <1>2, <1>3, <1>4, <1>5 DEF CInv

\* route writes a state of the item, and nothing goes amiss with a state
\* that is no older.
LEMMA RouteKeeps ==
  ASSUME TypeOK, NEW v \in States, Route(v)
  PROVE  /\ value' \in [Sets -> States \cup {Unknown}]
         /\ amiss' \in BOOLEAN
         /\ ~amiss' => ~amiss
         /\ v = item /\ UNCHANGED <<item, installed, bound>> => Right'
         /\ Right /\ v <= item /\ ~amiss' /\ UNCHANGED <<item, installed, bound>> => Right'
<1> USE RangesAreNumbers DEF TypeOK, Route
<1>1. /\ value' \in [Sets -> States \cup {Unknown}]
      /\ amiss' \in BOOLEAN
      /\ ~amiss' => ~amiss
  OBVIOUS
<1>2. v = item /\ UNCHANGED <<item, installed, bound>> => Right'
  BY DEF Right
<1>3. ASSUME Right, v <= item, ~amiss', UNCHANGED <<item, installed, bound>>, installed \in bound
      PROVE  value'[installed] = item
  <2>1. value[installed] = item /\ item # Unknown
    BY <1>3 DEF Right, States, Unknown
  <2>2. ~(v < item)
    BY <1>3, <2>1
  <2>3. v = item
    BY <1>3, <2>2 DEF States
  <2>4. QED
    BY <1>3, <2>3
<1>4. QED
  BY <1>1, <1>2, <1>3 DEF Right

LEMMA SpawnKeeps ==
  ASSUME CInv, Informed, NEW r \in Runs, Spawn(r)
  PROVE  CInv' /\ Informed'
<1> USE DEF Spawn, tables
<1>1. \/ stream' = [stream EXCEPT ![r] = "connect"] /\ sync' = [sync EXCEPT ![r] = "fetch"]
      \/ stream' = [stream EXCEPT ![r] = "ended"] /\ sync' = [sync EXCEPT ![r] = "done"]
  OBVIOUS
<1>2. stream[r] = "spawn"
  OBVIOUS
<1>3. UNCHANGED <<item, installed, built, bound, value, configured, control, admin, got, events, amiss, resumed>>
  OBVIOUS
<1> HIDE DEF Spawn
<1>4. events[r] = <<>>
  BY <1>2 DEF CInv, ClosedIsEmpty
<1>5. CInv'
  <2>1. /\ sync' \in [Runs -> {"none", "fetch", "route", "done"}]
        /\ stream' \in [Runs -> {"none", "spawn", "connect", "open", "backoff", "ended"}]
        /\ \A q \in Runs \ {r} : stream'[q] = stream[q] /\ sync'[q] = sync[q]
        /\ stream'[r] \in {"connect", "ended"}
    BY <1>1 DEF CInv, TypeOK
  <2>2. got[r] <= item /\ \A i \in 1 .. Len(events[r]) : events[r][i] <= item
    BY DEF CInv, NothingTooNew
  <2>3. QED
    BY <1>2, <1>3, <1>4, <2>1, <2>2, ThreadCInv DEF CInv, TypeOK, Live
<1>6. Informed'
  <2>1. stream'[r] = "ended" \/ sync'[r] = "fetch"
    BY <1>1 DEF CInv, TypeOK
  <2>2. \A q \in Runs \ {r} : stream'[q] = stream[q] /\ sync'[q] = sync[q]
    BY <1>1 DEF CInv, TypeOK
  <2>3. QED
    BY <1>3, <1>4, <2>1, <2>2 DEF Informed, Right, control
<1>7. QED
  BY <1>5, <1>6

LEMMA FetchKeeps ==
  ASSUME CInv, Informed, NEW r \in Runs, Fetched(r) \/ FetchFails(r)
  PROVE  CInv' /\ Informed'
<1> USE RangesAreNumbers
<1>1. /\ sync[r] = "fetch"
      /\ sync' = [sync EXCEPT ![r] = "route"] \/ sync' = [sync EXCEPT ![r] = "done"]
      /\ UNCHANGED <<item, installed, built, bound, configured, value, control, admin, stream, events, resumed>>
  BY DEF Fetched, FetchFails, tables
<1>2. /\ got' = got \/ got' = [got EXCEPT ![r] = item]
      /\ amiss' \in BOOLEAN
  BY DEF Fetched, FetchFails, CInv, TypeOK
<1>3. CInv'
  <2>1. /\ sync' \in [Runs -> {"none", "fetch", "route", "done"}]
        /\ got' \in [Runs -> States]
        /\ \A q \in Runs \ {r} : sync'[q] = sync[q] /\ got'[q] = got[q]
    BY <1>1, <1>2 DEF CInv, TypeOK
  <2>2. got'[r] <= item /\ \A i \in 1 .. Len(events[r]) : events[r][i] <= item
    BY <1>2 DEF CInv, NothingTooNew, TypeOK
  <2>3. stream[r] # "open" => events[r] = <<>>
    BY DEF CInv, ClosedIsEmpty
  <2>4. QED
    BY <1>1, <1>2, <2>1, <2>2, <2>3, ThreadCInv DEF CInv, TypeOK, Live
<1>4. Informed'
  <2>1. CASE Fetched(r)
    BY <1>1, <2>1 DEF Fetched, Informed, Right, CInv, TypeOK, control
  <2>2. CASE FetchFails(r)
    BY <1>1, <2>2 DEF FetchFails, Informed, Right, CInv, TypeOK, control
  <2>3. QED
    BY <2>1, <2>2
<1>5. QED
  BY <1>3, <1>4

\* A late fetch: what it routes over a newer state is recorded as amiss.
LEMMA RouteFetchedKeeps ==
  ASSUME CInv, Informed, NEW r \in Runs, RouteFetched(r)
  PROVE  CInv' /\ Informed'
<1> USE RangesAreNumbers DEF RouteFetched
<1>1. got[r] \in States /\ got[r] <= item
  BY DEF CInv, TypeOK, NothingTooNew
<1>2. /\ value' \in [Sets -> States \cup {Unknown}] /\ amiss' \in BOOLEAN
      /\ ~amiss' => ~amiss
      /\ got[r] = item => Right'
      /\ Right /\ ~amiss' => Right'
  BY <1>1, RouteKeeps DEF CInv
<1>3. CInv'
  <2>1. /\ sync' \in [Runs -> {"none", "fetch", "route", "done"}]
        /\ got' \in [Runs -> States] /\ got'[r] = 0
        /\ \A q \in Runs \ {r} : sync'[q] = sync[q] /\ got'[q] = got[q]
    BY DEF CInv, TypeOK
  <2>2. 0 <= item /\ \A i \in 1 .. Len(events[r]) : events[r][i] <= item
    BY DEF CInv, NothingTooNew, TypeOK, States
  <2>3. stream[r] # "open" => events[r] = <<>>
    BY DEF CInv, ClosedIsEmpty
  <2>4. QED
    BY <1>2, <2>1, <2>2, <2>3, ThreadCInv DEF CInv, TypeOK, Live
<1>4. Informed'
  <2>1. \A q \in Runs \ {r} : sync'[q] = sync[q] /\ got'[q] = got[q]
    BY DEF CInv, TypeOK
  <2>2. sync[r] = "route" /\ sync'[r] = "done"
    BY DEF CInv, TypeOK
  <2>3. UNCHANGED <<item, stream, events, current>>
    BY DEF control
  <2> HIDE DEF RouteFetched
  <2>4. QED
    BY <1>2, <2>1, <2>2, <2>3 DEF Informed
<1>5. QED
  BY <1>3, <1>4

LEMMA ConnectKeeps ==
  ASSUME CInv, Informed, NEW r \in Runs, Connect(r) \/ ConnectFails(r) \/ Retry(r) \/ End(r)
  PROVE  CInv' /\ Informed'
<1> USE DEF Connect, ConnectFails, Retry, End, tables
<1>1. /\ stream[r] \in Live
      /\ \E s \in {"open", "backoff", "connect", "ended"} : stream' = [stream EXCEPT ![r] = s]
  BY DEF Live
<1>2. UNCHANGED <<item, installed, built, bound, value, configured, control, admin, sync, got, amiss>>
  OBVIOUS
<1>3. /\ events' = events \/ events' = [events EXCEPT ![r] = << >>]
      /\ resumed' \in {"no", "cut", "open"}
  BY DEF CInv, TypeOK
<1>4. events'[r] = <<>>
  <2>1. CASE Connect(r) \/ End(r)
    BY <2>1 DEF CInv, TypeOK
  <2>2. CASE ConnectFails(r) \/ Retry(r)
    BY <2>2 DEF CInv, ClosedIsEmpty
  <2>3. QED
    BY <2>1, <2>2
<1>5. r = current => events[r] = <<>> /\ stream[r] # "ended"
  <2>1. End(r) => r # current
    BY DEF CInv, NewestIsCurrent
  <2>2. QED
    BY <2>1 DEF CInv, ClosedIsEmpty
<1> HIDE DEF Connect, ConnectFails, Retry, End
<1>6. << >> \in Seq(States) /\ Len(<< >>) = 0
  OBVIOUS
<1>7. /\ events' \in [Runs -> Seq(States)]
      /\ \A q \in Runs \ {r} : events'[q] = events[q]
  BY <1>3, <1>6 DEF CInv, TypeOK
<1>8. /\ stream' \in [Runs -> {"none", "spawn", "connect", "open", "backoff", "ended"}]
      /\ \A q \in Runs \ {r} : stream'[q] = stream[q]
  BY <1>1 DEF CInv, TypeOK
<1>9. CInv'
  <2>1. got[r] <= item /\ \A i \in 1 .. Len(events'[r]) : events'[r][i] <= item
    BY <1>4, <1>6 DEF CInv, NothingTooNew
  <2>2. QED
    BY <1>1, <1>2, <1>3, <1>4, <1>7, <1>8, <2>1, ThreadCInv DEF CInv, TypeOK
<1>10. Informed'
  BY <1>2, <1>4, <1>5, <1>7, <1>8 DEF Informed, Right, control
<1>11. QED
  BY <1>9, <1>10

\* A cut stream: the events it had not handled are gone.
LEMMA DropKeeps ==
  ASSUME CInv, Informed, NEW r \in Runs, NEW next \in {"connect", "backoff"}, Drop(r, next)
  PROVE  CInv' /\ Informed'
<1> USE DEF Drop, tables
<1>1. << >> \in Seq(States) /\ Len(<< >>) = 0
  OBVIOUS
<1>2. /\ events' \in [Runs -> Seq(States)] /\ events'[r] = <<>>
      /\ \A q \in Runs \ {r} : events'[q] = events[q] /\ stream'[q] = stream[q]
      /\ stream' \in [Runs -> {"none", "spawn", "connect", "open", "backoff", "ended"}]
      /\ stream'[r] = next
      /\ amiss' \in BOOLEAN /\ resumed' \in {"no", "cut", "open"}
  BY <1>1 DEF CInv, TypeOK
<1>3. /\ stream[r] = "open" /\ (~amiss' => ~amiss /\ events[r] = <<>>)
      /\ UNCHANGED <<item, installed, built, bound, value, configured, control, admin, sync, got>>
  BY DEF CInv, TypeOK
<1> HIDE DEF Drop
<1>4. CInv'
  <2>1. got[r] <= item /\ \A i \in 1 .. Len(events'[r]) : events'[r][i] <= item
    BY <1>1, <1>2 DEF CInv, NothingTooNew
  <2>2. QED
    BY <1>2, <1>3, <2>1, ThreadCInv DEF CInv, TypeOK, Live
<1>5. Informed'
  BY <1>2, <1>3 DEF Informed, Right, control
<1>6. QED
  BY <1>4, <1>5

LEMMA TailOfEvents ==
  ASSUME NEW S, NEW e \in Seq(S), e # << >>
  PROVE  /\ Head(e) \in S /\ Head(e) = e[1] /\ 1 \in 1 .. Len(e)
         /\ Tail(e) \in Seq(S)
         /\ \A i \in 1 .. Len(Tail(e)) : i + 1 \in 1 .. Len(e) /\ Tail(e)[i] = e[i + 1]
         /\ Tail(e) # << >> => Tail(e)[Len(Tail(e))] = e[Len(e)]
         /\ Tail(e) = << >> => e[Len(e)] = Head(e)
<1>1. Len(e) \in Nat \ {0} /\ Tail(e) \in Seq(S) /\ Len(Tail(e)) = Len(e) - 1 /\ Head(e) = e[1] /\ Head(e) \in S
  BY HeadTailProperties, LenProperties, EmptySeq
<1>2. \A i \in 1 .. Len(Tail(e)) : Tail(e)[i] = e[i + 1]
  BY <1>1, HeadTailProperties
<1>3. \A i \in 1 .. Len(Tail(e)) : i + 1 \in 1 .. Len(e)
  BY <1>1
<1>4. Tail(e) # << >> => Len(Tail(e)) \in 1 .. Len(Tail(e))
  <2>1. Tail(e) # << >> => Len(Tail(e)) # 0
    BY <1>1, EmptySeq
  <2>2. QED
    BY <1>1, <2>1
<1>5. Tail(e) = << >> => Len(e) = 1
  <2>1. Len(<< >>) = 0
    OBVIOUS
  <2>2. Tail(e) = << >> => Len(Tail(e)) = 0
    BY <2>1
  <2>3. QED
    BY <1>1, <2>2
<1>6. Len(Tail(e)) + 1 = Len(e) /\ 1 \in 1 .. Len(e)
  BY <1>1
<1>7. QED
  BY <1>1, <1>2, <1>3, <1>4, <1>5, <1>6

\* A stream handles its next event.  The last of the current stream is the
\* item's state; one of a cancelled stream may be older than the device's.
LEMMA HandleKeeps ==
  ASSUME CInv, Informed, NEW r \in Runs, Handle(r)
  PROVE  CInv' /\ Informed'
<1> USE RangesAreNumbers DEF Handle
<1>1. events[r] \in Seq(States) /\ events[r] # << >>
  BY DEF CInv, TypeOK
<1> DEFINE e == events[r]
<1>2. /\ Head(e) \in States /\ Head(e) = e[1] /\ 1 \in 1 .. Len(e)
      /\ Tail(e) \in Seq(States)
      /\ \A i \in 1 .. Len(Tail(e)) : i + 1 \in 1 .. Len(e) /\ Tail(e)[i] = e[i + 1]
      /\ Tail(e) # << >> => Tail(e)[Len(Tail(e))] = e[Len(e)]
      /\ Tail(e) = << >> => e[Len(e)] = Head(e)
  BY <1>1, TailOfEvents
<1>3. \A i \in 1 .. Len(e) : e[i] <= item
  BY DEF CInv, NothingTooNew
<1>4. /\ events' \in [Runs -> Seq(States)] /\ events'[r] = Tail(e)
      /\ \A q \in Runs \ {r} : events'[q] = events[q]
  BY <1>2 DEF CInv, TypeOK
<1>5. /\ stream[r] = "open" /\ Route(Head(e))
      /\ UNCHANGED <<item, installed, built, bound, configured, control, sync, got, stream, admin, resumed>>
  OBVIOUS
<1> HIDE DEF Handle, e
<1>6. /\ value' \in [Sets -> States \cup {Unknown}] /\ amiss' \in BOOLEAN
      /\ ~amiss' => ~amiss
      /\ Head(e) = item => Right'
      /\ Right /\ ~amiss' => Right'
  <2>1. Head(e) <= item
    BY <1>2, <1>3
  <2>2. QED
    BY <1>2, <1>5, <2>1, RouteKeeps DEF CInv
<1>7. CInv'
  <2>1. \A i \in 1 .. Len(events'[r]) : events'[r][i] <= item
    BY <1>2, <1>3, <1>4
  <2>2. got[r] <= item
    BY DEF CInv, NothingTooNew
  <2>3. QED
    BY <1>4, <1>5, <1>6, <2>1, <2>2, ThreadCInv DEF CInv, TypeOK, Live
<1>8. Informed'
  <2> SUFFICES ASSUME ~amiss', current \in Runs, stream[current] # "ended"
               PROVE  /\ events'[current] # <<>> => events'[current][Len(events'[current])] = item
                      /\ events'[current] = <<>> /\ sync[current] = "route" => got[current] = item \/ Right'
                      /\ events'[current] = <<>> /\ sync[current] = "done" => Right'
    BY <1>5 DEF Informed, control
  <2>1. /\ events[current] # <<>> => events[current][Len(events[current])] = item
        /\ events[current] = <<>> /\ sync[current] = "route" => got[current] = item \/ Right
        /\ events[current] = <<>> /\ sync[current] = "done" => Right
    BY <1>6 DEF Informed
  <2>2. CASE current = r
    <3>1. e[Len(e)] = item
      BY <1>1, <2>1, <2>2 DEF e
    <3>2. Tail(e) # << >> => Tail(e)[Len(Tail(e))] = item
      BY <1>2, <3>1
    <3>3. Tail(e) = << >> => Right'
      BY <1>2, <1>6, <3>1
    <3>4. QED
      BY <1>4, <2>2, <3>2, <3>3
  <2>3. CASE current # r
    BY <1>4, <1>6, <2>1, <2>3
  <2>4. QED
    BY <2>2, <2>3
<1>9. QED
  BY <1>7, <1>8

\* openHAB changes the item.  The current stream is told if it is open, and
\* a fetch that was not answered yet will be.
LEMMA ChangeKeeps ==
  ASSUME CInv, Informed, Change
  PROVE  CInv' /\ Informed'
<1> USE RangesAreNumbers DEF Change, tables, control
<1>1. item' = item + 1 /\ item + 1 \in States /\ item \in States
  BY DEF CInv, TypeOK, States
<1>2. ASSUME NEW r \in Runs
      PROVE  /\ events[r] \in Seq(States) /\ Append(events[r], item + 1) \in Seq(States)
             /\ Append(events[r], item + 1) # << >>
             /\ Len(Append(events[r], item + 1)) = Len(events[r]) + 1
             /\ Append(events[r], item + 1)[Len(events[r]) + 1] = item + 1
             /\ \A i \in 1 .. Len(events[r]) : Append(events[r], item + 1)[i] = events[r][i]
  <2>1. events[r] \in Seq(States)
    BY DEF CInv, TypeOK
  <2> HIDE DEF Change
  <2>2. QED
    BY <1>1, <2>1, AppendProperties
<1>3. TypeOK'
  <2>1. events' \in [Runs -> Seq(States)]
    BY <1>2
  <2>2. QED
    BY <1>1, <2>1 DEF CInv, TypeOK
<1>4. OneLiveStream' /\ NewestIsCurrent' /\ ClosedIsEmpty'
  BY DEF CInv, OneLiveStream, NewestIsCurrent, ClosedIsEmpty
<1>5. NothingTooNew'
  <2> SUFFICES ASSUME NEW r \in Runs
               PROVE  got[r] <= item + 1 /\ \A i \in 1 .. Len(events'[r]) : events'[r][i] <= item + 1
    BY <1>1 DEF NothingTooNew
  <2>1. got[r] <= item /\ \A i \in 1 .. Len(events[r]) : events[r][i] <= item
    BY DEF CInv, NothingTooNew
  <2>2. got[r] \in Nat /\ item \in Nat /\ Len(events[r]) \in Nat
        /\ \A i \in 1 .. Len(events[r]) : events[r][i] \in Nat
    BY <1>1, <1>2 DEF CInv, TypeOK, States
  <2>3. events'[r] = events[r] \/ events'[r] = Append(events[r], item + 1)
    OBVIOUS
  <2> HIDE DEF Change
  <2>4. CASE events'[r] = events[r]
    BY <2>1, <2>2, <2>4
  <2>5. CASE events'[r] = Append(events[r], item + 1)
    <3>1. ASSUME NEW i \in 1 .. Len(events'[r]) PROVE events'[r][i] <= item + 1
      <4>1. i \in 1 .. Len(events[r]) \/ i = Len(events[r]) + 1
        BY <1>2, <2>2, <2>5, <3>1
      <4>2. QED
        BY <1>2, <2>1, <2>2, <2>5, <4>1
    <3>2. QED
      BY <2>1, <2>2, <3>1
  <2>6. QED
    BY <2>3, <2>4, <2>5
<1>6. Informed'
  <2> SUFFICES ASSUME ~amiss', current \in Runs, stream[current] # "ended"
               PROVE  /\ events'[current] # <<>> => events'[current][Len(events'[current])] = item + 1
                      /\ events'[current] = <<>> => sync[current] \notin {"route", "done"}
    BY <1>1 DEF Informed
  <2>1. CASE stream[current] = "open"
    BY <1>2, <2>1
  <2>2. CASE stream[current] # "open"
    <3>1. events'[current] = <<>>
      BY <2>2 DEF CInv, ClosedIsEmpty
    <3>2. sync[current] \notin {"route", "done"}
      BY <2>2
    <3>3. QED
      BY <3>1, <3>2
  <2>3. QED
    BY <2>1, <2>2
<1>7. QED
  BY <1>3, <1>4, <1>5, <1>6 DEF CInv

-----------------------------------------------------------------------------
IInv == CInv /\ Informed

LEMMA StepIInv == IInv /\ [Next]_vars => IInv'
<1> SUFFICES ASSUME CInv, Informed, [Next]_vars PROVE CInv' /\ Informed'
  BY DEF IInv
<1>1. ASSUME NEW r \in Runs, Work(r)
      PROVE  CInv' /\ Informed'
  BY <1>1, SpawnKeeps, RouteFetchedKeeps, ConnectKeeps, HandleKeeps DEF Work
<1>2. CASE UNCHANGED vars
  <2> USE <1>2 DEF vars, tables, control, threads
  <2>1. TypeOK'
    BY DEF CInv, TypeOK
  <2>2. OneLiveStream' /\ NewestIsCurrent' /\ ClosedIsEmpty' /\ NothingTooNew'
    BY DEF CInv, OneLiveStream, NewestIsCurrent, ClosedIsEmpty, NothingTooNew
  <2>3. Informed'
    BY DEF Informed, Right
  <2>4. QED
    BY <2>1, <2>2, <2>3 DEF CInv
<1>3. QED
  BY <1>1, <1>2, ResyncsKeep, ReadDevicesKeeps, FetchKeeps, ConnectKeeps, DropKeeps, ChangeKeeps
     DEF Next

LEMMA Invariance == Spec => []IInv
<1>1. Init => IInv
  BY InitCInv DEF IInv
<1>2. QED
  BY <1>1, StepIInv, PTL DEF Spec

\* In every reachable state every variable has its type.
THEOREM TypeCorrect == Spec => []TypeOK
<1>1. IInv => TypeOK
  BY DEF IInv, CInv
<1>2. QED
  BY <1>1, Invariance, PTL

\* However Resyncs, Reconfigures and goroutines interleave, no uncancelled
\* stream is left but the one c.sseCancel cancels.
THEOREM StreamsAreCancellable == Spec => []OneLiveStream
<1>1. IInv => OneLiveStream
  BY DEF IInv, CInv
<1>2. QED
  BY <1>1, Invariance, PTL

\* Whatever changes, Resyncs, cuts and late goroutines interleave, a device
\* of a connector that fetched, follows the stream and handled its events
\* has the item's state, unless its fetch failed, a change was told to
\* neither fetch nor stream, or an older state was routed over a newer one,
\* and no change came on the open stream since.
THEOREM StatesAlwaysArrive == Spec => []StatesArrive
<1>1. IInv => StatesArrive
  BY DEF IInv, Informed, StatesArrive
<1>2. QED
  BY <1>1, Invariance, PTL
=============================================================================
