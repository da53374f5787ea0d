-------------------------- MODULE VacuumGroupProofs --------------------------
(***************************************************************************)
(* Proofs about VacuumGroup, for any rooms, any number of concurrent       *)
(* requests, timers and reloads.                                           *)
(*                                                                         *)
(* The inductive invariant is the conjunction of the checked invariants    *)
(* and HouseIsEmpty, which NoStrayDispatch rests on: a whole-house command *)
(* empties the batch under the lock, so a callback that was already        *)
(* waiting finds nothing to dispatch.                                      *)
(*                                                                         *)
(* The last part shows the refinement of RoomBatches, step by step.        *)
(***************************************************************************)
EXTENDS VacuumGroup, TLAPS

HouseIsEmpty == \A g \in Gens : house[g] => active[g] = {}

IInv == TypeOK /\ NoStrandedBatch /\ JobIsKnown /\ HouseIsEmpty

-----------------------------------------------------------------------------
LEMMA GensAreNumbers == 1 \in Gens /\ Gens \subseteq Nat
  BY MaxGenAssumption DEF Gens

LEMMA CommandTypes ==
  ASSUME NEW g \in Gens, NEW S \in SUBSET Segments
  PROVE  /\ Home(g) \in Commands /\ Home(g).kind = "home"
         /\ Start(g) \in Commands /\ Start(g).kind = "start"
         /\ Clean(g, S) \in Commands /\ Clean(g, S).kind = "rooms"
         /\ Clean(g, S).by = g /\ Clean(g, S).rooms = S
  BY DEF Home, Start, Clean, Commands

LEMMA InitIInv == Init => IInv
<1> SUFFICES ASSUME Init PROVE IInv
  OBVIOUS
<1> USE GensAreNumbers DEF Init
<1>1. TypeOK
  BY CommandTypes DEF TypeOK, CallStates, PhaseStates
<1>2. NoStrandedBatch /\ HouseIsEmpty
  BY DEF NoStrandedBatch, HouseIsEmpty
<1>3. JobIsKnown
  BY CommandTypes DEF JobIsKnown
<1>4. QED
  BY <1>1, <1>2, <1>3 DEF IInv

-----------------------------------------------------------------------------
\* What the timer helpers do to a group, its own and any other.
LEMMA ArmEffect ==
  ASSUME TypeOK, NEW g \in Gens, arm(g)
  PROVE  /\ running' \in [Gens -> SUBSET Timers]
         /\ timer' \in [Gens -> Timers \cup {NoTimer}]
         /\ running'[g] # {}
         /\ \A x \in Gens \ {g} : running'[x] = running[x]
<1>1. FreeTimers(g) \subseteq Timers
  BY DEF TypeOK, FreeTimers
<1>2. PICK t \in Timers :
        /\ running' = [running EXCEPT ![g] = (@ \ {timer[g]}) \cup {t}]
        /\ timer'   = [timer EXCEPT ![g] = t]
  BY <1>1 DEF arm
<1>3. QED
  BY <1>2 DEF TypeOK

LEMMA StopTimerEffect ==
  ASSUME TypeOK, NEW g \in Gens, stopTimer(g)
  PROVE  /\ running' \in [Gens -> SUBSET Timers]
         /\ timer' \in [Gens -> Timers \cup {NoTimer}]
         /\ \A x \in Gens \ {g} : running'[x] = running[x]
  BY DEF TypeOK, stopTimer

-----------------------------------------------------------------------------
\* The steps of the runtime's timers.
LEMMA FireIInv ==
  ASSUME IInv, NEW g \in Gens, Fire(g)
  PROVE  IInv'
<1> USE DEF Fire, groupVars, callVars, reloadVars
<1>1. TypeOK'
  BY DEF IInv, TypeOK
<1>2. NoStrandedBatch'
  BY DEF IInv, TypeOK, NoStrandedBatch, Stopped
<1>3. JobIsKnown' /\ HouseIsEmpty'
  BY DEF IInv, JobIsKnown, HouseIsEmpty
<1>4. QED
  BY <1>1, <1>2, <1>3 DEF IInv

LEMMA DispatchIInv ==
  ASSUME IInv, NEW g \in Gens, Dispatch(g)
  PROVE  IInv'
<1> USE DEF Dispatch, BatchReady
<1>1. active[g] \in SUBSET Segments
  BY DEF IInv, TypeOK
<1>2. /\ active' \in [Gens -> SUBSET Segments]
      /\ active'[g] = {}
      /\ \A x \in Gens \ {g} : active'[x] = active[x]
  BY DEF IInv, TypeOK
<1>3. /\ fired' \in [Gens -> SUBSET Timers]
      /\ \A x \in Gens \ {g} : fired'[x] = fired[x]
  BY DEF IInv, TypeOK
<1>4. timer' \in [Gens -> Timers \cup {NoTimer}]
  BY DEF IInv, TypeOK
<1>5. /\ cleaning' \in [Gens -> BOOLEAN]
      /\ \A x \in Gens : cleaning[x] => cleaning'[x]
  <2>1. cleaning \in [Gens -> BOOLEAN]
    BY DEF IInv, TypeOK
  <2>2. cleaning' = cleaning \/ cleaning' = [cleaning EXCEPT ![g] = TRUE]
    OBVIOUS
  <2> HIDE DEF Dispatch, BatchReady
  <2>3. QED
    BY <2>1, <2>2
<1>6. \/ robot' = robot
      \/ /\ robot' \in Commands /\ robot'.rooms # {}
         /\ robot'.by = g /\ cleaning'[g]
  BY <1>1, CommandTypes DEF IInv, TypeOK
<1>7. UNCHANGED <<running, house, call, found, installed, registry, phase, replaced>>
  BY DEF callVars, reloadVars
<1> HIDE DEF Dispatch, BatchReady
<1>8. TypeOK'
  BY <1>2, <1>3, <1>4, <1>5, <1>6, <1>7 DEF IInv, TypeOK
<1>9. NoStrandedBatch' /\ HouseIsEmpty'
  BY <1>2, <1>3, <1>7 DEF IInv, NoStrandedBatch, HouseIsEmpty, Stopped
<1>10. robot.by \in Gens
  BY DEF IInv, TypeOK, Commands
<1>11. JobIsKnown'
  BY <1>5, <1>6, <1>7, <1>10 DEF IInv, JobIsKnown
<1>12. QED
  BY <1>8, <1>9, <1>11 DEF IInv

-----------------------------------------------------------------------------
\* The provider-API calls.
LEMMA LookUpIInv ==
  ASSUME IInv, NEW h \in Handlers, LookUp(h)
  PROVE  IInv'
<1> USE DEF LookUp, groupVars, reloadVars
<1>1. TypeOK'
  BY DEF IInv, TypeOK, CallStates
<1>2. NoStrandedBatch' /\ HouseIsEmpty'
  BY DEF IInv, NoStrandedBatch, HouseIsEmpty, Stopped
<1>3. JobIsKnown'
  BY DEF IInv, TypeOK, JobIsKnown
<1>4. QED
  BY <1>1, <1>2, <1>3 DEF IInv

LEMMA SetRoomOnIInv ==
  ASSUME IInv, NEW h \in Handlers, NEW s \in Segments, SetRoomOn(h, s)
  PROVE  IInv'
<1> DEFINE g == found[h]
<1> USE GensAreNumbers DEF SetRoomOn, Return, reloadVars
<1>1. g \in Gens /\ arm(g)
  BY DEF IInv, TypeOK
<1>2. /\ running' \in [Gens -> SUBSET Timers]
      /\ timer' \in [Gens -> Timers \cup {NoTimer}]
      /\ running'[g] # {}
      /\ \A x \in Gens \ {g} : running'[x] = running[x]
  BY <1>1, ArmEffect DEF IInv
<1>3. TypeOK'
  BY <1>1, <1>2 DEF IInv, TypeOK, CallStates
<1>4. NoStrandedBatch'
  BY <1>1, <1>2 DEF IInv, TypeOK, NoStrandedBatch, Stopped
<1>5. JobIsKnown'
  BY <1>1 DEF IInv, TypeOK, JobIsKnown
<1>6. HouseIsEmpty'
  BY <1>1 DEF IInv, TypeOK, HouseIsEmpty
<1>7. QED
  BY <1>3, <1>4, <1>5, <1>6 DEF IInv

\* The three outcomes of turning a room off, seen from the invariant.
LEMMA RoomOffEffect ==
  ASSUME IInv, NEW g \in Gens, NEW s \in Segments,
         StopJob(g) \/ EmptyBatch(g, s) \/ ShrinkBatch(g, s)
  PROVE  /\ active' \in [Gens -> SUBSET Segments]
         /\ cleaning' \in [Gens -> BOOLEAN]
         /\ running' \in [Gens -> SUBSET Timers]
         /\ timer' \in [Gens -> Timers \cup {NoTimer}]
         /\ active'[g] = {} \/ running'[g] # {}
         /\ \A x \in Gens \ {g} : active'[x] = active[x] /\ running'[x] = running[x]
         /\ \/ robot' = robot /\ cleaning' = cleaning
            \/ robot' \in Commands /\ robot'.kind = "home"
<1>0. TypeOK
  BY DEF IInv
<1>1. CASE StopJob(g)
  <2>1. /\ running' \in [Gens -> SUBSET Timers]
        /\ timer' \in [Gens -> Timers \cup {NoTimer}]
        /\ \A x \in Gens \ {g} : running'[x] = running[x]
    BY <1>0, <1>1, StopTimerEffect DEF StopJob
  <2>2. /\ active' \in [Gens -> SUBSET Segments]
        /\ active'[g] = {}
        /\ \A x \in Gens \ {g} : active'[x] = active[x]
    BY <1>0, <1>1 DEF TypeOK, StopJob
  <2>3. cleaning' \in [Gens -> BOOLEAN]
    BY <1>0, <1>1 DEF TypeOK, StopJob
  <2>4. robot' \in Commands /\ robot'.kind = "home"
    BY <1>1, CommandTypes DEF StopJob
  <2>5. QED
    BY <2>1, <2>2, <2>3, <2>4
<1>2. CASE EmptyBatch(g, s)
  <2>1. /\ running' \in [Gens -> SUBSET Timers]
        /\ timer' \in [Gens -> Timers \cup {NoTimer}]
        /\ \A x \in Gens \ {g} : running'[x] = running[x]
    BY <1>0, <1>2, StopTimerEffect DEF EmptyBatch
  <2>2. /\ active' \in [Gens -> SUBSET Segments]
        /\ active'[g] = {}
        /\ \A x \in Gens \ {g} : active'[x] = active[x]
        /\ robot' = robot /\ cleaning' = cleaning
    BY <1>0, <1>2 DEF TypeOK, EmptyBatch
  <2>3. QED
    BY <1>0, <2>1, <2>2 DEF TypeOK
<1>3. CASE ShrinkBatch(g, s)
  <2>1. /\ running' \in [Gens -> SUBSET Timers]
        /\ timer' \in [Gens -> Timers \cup {NoTimer}]
        /\ running'[g] # {}
        /\ \A x \in Gens \ {g} : running'[x] = running[x]
    BY <1>0, <1>3, ArmEffect DEF ShrinkBatch
  <2>2. /\ active' \in [Gens -> SUBSET Segments]
        /\ \A x \in Gens \ {g} : active'[x] = active[x]
        /\ robot' = robot /\ cleaning' = cleaning
    BY <1>0, <1>3 DEF TypeOK, ShrinkBatch
  <2>3. QED
    BY <1>0, <2>1, <2>2 DEF TypeOK
<1>4. QED
  BY <1>1, <1>2, <1>3

LEMMA SetRoomOffIInv ==
  ASSUME IInv, NEW h \in Handlers, NEW s \in Segments, SetRoomOff(h, s)
  PROVE  IInv'
<1> DEFINE g == found[h]
<1>1. g \in Gens
  BY DEF IInv, TypeOK
<1>2. /\ StopJob(g) \/ EmptyBatch(g, s) \/ ShrinkBatch(g, s)
      /\ call[h] = "found"
      /\ UNCHANGED <<fired, installed, registry, phase, replaced>>
  BY DEF SetRoomOff, reloadVars
<1>3. /\ call' \in [Handlers -> CallStates]
      /\ found' \in [Handlers -> Gens]
      /\ \A i \in Handlers \ {h} : call'[i] = call[i] /\ found'[i] = found[i]
  BY GensAreNumbers DEF SetRoomOff, Return, IInv, TypeOK, CallStates
<1>4. /\ house' \in [Gens -> BOOLEAN]
      /\ ~house'[g]
      /\ \A x \in Gens \ {g} : house'[x] = house[x]
  BY <1>1 DEF SetRoomOff, IInv, TypeOK
<1>5. /\ active' \in [Gens -> SUBSET Segments]
      /\ cleaning' \in [Gens -> BOOLEAN]
      /\ running' \in [Gens -> SUBSET Timers]
      /\ timer' \in [Gens -> Timers \cup {NoTimer}]
      /\ active'[g] = {} \/ running'[g] # {}
      /\ \A x \in Gens \ {g} : active'[x] = active[x] /\ running'[x] = running[x]
      /\ \/ robot' = robot /\ cleaning' = cleaning
         \/ robot' \in Commands /\ robot'.kind = "home"
  BY <1>1, <1>2, RoomOffEffect
<1> HIDE DEF g
<1>6. TypeOK'
  BY <1>2, <1>3, <1>4, <1>5 DEF IInv, TypeOK
<1>7. NoStrandedBatch' /\ HouseIsEmpty'
  BY <1>2, <1>4, <1>5 DEF IInv, NoStrandedBatch, HouseIsEmpty, Stopped
<1>8. JobIsKnown'
  BY <1>2, <1>3, <1>5 DEF IInv, JobIsKnown
<1>9. QED
  BY <1>6, <1>7, <1>8 DEF IInv

LEMMA WholeHouseIInv ==
  ASSUME IInv, NEW h \in Handlers, NEW on \in BOOLEAN, WholeHouse(h, on)
  PROVE  IInv'
<1> DEFINE g == found[h]
<1> USE DEF WholeHouse, reloadVars
<1>0. g \in Gens /\ stopTimer(g)
  BY DEF IInv, TypeOK
<1>1. TypeOK'
  BY <1>0, StopTimerEffect DEF IInv, TypeOK, CallStates
<1>2. NoStrandedBatch' /\ HouseIsEmpty'
  BY <1>0, StopTimerEffect DEF IInv, TypeOK, NoStrandedBatch, HouseIsEmpty, Stopped
<1>3. JobIsKnown'
  BY <1>0 DEF IInv, TypeOK, JobIsKnown
<1>4. QED
  BY <1>1, <1>2, <1>3 DEF IInv

LEMMA PublishWholeHouseIInv ==
  ASSUME IInv, NEW h \in Handlers, PublishWholeHouse(h)
  PROVE  IInv'
<1> USE GensAreNumbers DEF PublishWholeHouse, Return, groupVars, reloadVars
<1>0. found[h] \in Gens
  BY DEF IInv, TypeOK
<1>1. TypeOK'
  BY <1>0, CommandTypes DEF IInv, TypeOK, CallStates
<1>2. NoStrandedBatch' /\ HouseIsEmpty'
  BY DEF IInv, NoStrandedBatch, HouseIsEmpty, Stopped
<1>3. JobIsKnown'
  BY <1>0, CommandTypes DEF JobIsKnown
<1>4. QED
  BY <1>1, <1>2, <1>3 DEF IInv

-----------------------------------------------------------------------------
\* The steps of a catalog reload.
LEMMA ReloadIInv ==
  ASSUME IInv, NEW g \in Gens \ {1},
         SwapGroups(g) \/ StopReplaced(g) \/ StoreRegistry(g)
  PROVE  IInv'
<1> USE GensAreNumbers DEF groupVars, callVars
<1>1. CASE SwapGroups(g)
  <2>1. TypeOK'
    BY <1>1 DEF IInv, TypeOK, PhaseStates, SwapGroups
  <2>2. \A x \in Gens : Stopped(x) => Stopped(x)'
    BY <1>1 DEF IInv, TypeOK, Stopped, SwapGroups
  <2>3. NoStrandedBatch' /\ JobIsKnown' /\ HouseIsEmpty'
    BY <1>1, <2>2 DEF IInv, NoStrandedBatch, JobIsKnown, HouseIsEmpty, SwapGroups
  <2>4. QED
    BY <2>1, <2>3 DEF IInv
<1>2. CASE StopReplaced(g)
  <2>1. replaced[g] \in Gens /\ stopTimer(replaced[g])
    BY <1>2 DEF IInv, TypeOK, StopReplaced
  <2>2. TypeOK'
    BY <1>2, <2>1, StopTimerEffect DEF IInv, TypeOK, PhaseStates, StopReplaced
  <2>3. Stopped(replaced[g])' /\ \A x \in Gens : Stopped(x) => Stopped(x)'
    BY <1>2 DEF IInv, TypeOK, Stopped, StopReplaced
  <2>4. NoStrandedBatch'
    BY <1>2, <2>1, <2>3, StopTimerEffect DEF IInv, TypeOK, NoStrandedBatch, StopReplaced
  <2>5. JobIsKnown' /\ HouseIsEmpty'
    BY <1>2 DEF IInv, JobIsKnown, HouseIsEmpty, StopReplaced
  <2>6. QED
    BY <2>2, <2>4, <2>5 DEF IInv
<1>3. CASE StoreRegistry(g)
  <2>1. TypeOK'
    BY <1>3 DEF IInv, TypeOK, PhaseStates, StoreRegistry
  <2>2. \A x \in Gens : Stopped(x) => Stopped(x)'
    BY <1>3 DEF IInv, TypeOK, Stopped, StoreRegistry
  <2>3. NoStrandedBatch' /\ JobIsKnown' /\ HouseIsEmpty'
    BY <1>3, <2>2 DEF IInv, NoStrandedBatch, JobIsKnown, HouseIsEmpty, StoreRegistry
  <2>4. QED
    BY <2>1, <2>3 DEF IInv
<1>4. QED
  BY <1>1, <1>2, <1>3

LEMMA StutterIInv == IInv /\ UNCHANGED vars => IInv'
  BY DEF IInv, TypeOK, NoStrandedBatch, JobIsKnown, HouseIsEmpty, Stopped,
         vars, groupVars, callVars, reloadVars

LEMMA IInvInvariant == Spec => []IInv
<1>1. IInv /\ [Next]_vars => IInv'
  BY FireIInv, DispatchIInv, LookUpIInv, SetRoomOnIInv, SetRoomOffIInv,
     WholeHouseIInv, PublishWholeHouseIInv, ReloadIInv, StutterIInv
     DEF Next, Call
<1>2. QED
  BY InitIInv, <1>1, PTL DEF Spec

-----------------------------------------------------------------------------
\* Every variable keeps its type, and dispatch never publishes an empty
\* segment list (vacuum.go dispatch).
THEOREM TypeCorrect == Spec => []TypeOK
<1>1. IInv => TypeOK
  BY DEF IInv
<1>2. QED
  BY IInvInvariant, <1>1, PTL

\* SetRoom and a stale dispatch never leave rooms in the batch without a
\* timer or callback that will serve them (vacuum.go arm, dispatch, Stop).
THEOREM BatchesAreNotStranded == Spec => []NoStrandedBatch
<1>1. IInv => NoStrandedBatch
  BY DEF IInv
<1>2. QED
  BY IInvInvariant, <1>1, PTL

\* A group knows of the job it sent (vacuum.go cleaning).
THEOREM JobsAreKnown == Spec => []JobIsKnown
<1>1. IInv => JobIsKnown
  BY DEF IInv
<1>2. QED
  BY IInvInvariant, <1>1, PTL

\* SetRoom(off) of the group that sent the job sends the robot home.
THEOREM RoomOffStops == Spec => RoomOffStopsOwnJob
<1>1. ASSUME IInv, NEW h \in Handlers, NEW s \in Segments,
             robot.kind = "rooms", robot.by = found[h],
             \A i \in Handlers : call[i] # "home",
             SetRoomOff(h, s)
      PROVE  robot'.kind = "home"
  <2>1. cleaning[found[h]]
    BY <1>1 DEF IInv, JobIsKnown
  <2>2. StopJob(found[h])
    BY <1>1, <2>1 DEF SetRoomOff, EmptyBatch, ShrinkBatch
  <2>3. QED
    BY <2>2 DEF StopJob, Home
<1>2. IInv => \A h \in Handlers, s \in Segments :
                /\ robot.kind = "rooms"
                /\ robot.by = found[h]
                /\ \A i \in Handlers : call[i] # "home"
                /\ SetRoomOff(h, s)
                => robot'.kind = "home"
  BY <1>1
<1>3. QED
  BY IInvInvariant, <1>2, PTL DEF RoomOffStopsOwnJob

\* A whole-house command leaves nothing a waiting dispatch could send.
THEOREM DispatchesAreNotStray == Spec => NoStrayDispatch
<1>1. ASSUME IInv, Next, robot' # robot, robot'.kind = "rooms"
      PROVE  ~house[robot'.by]
  <2>1. PICK g \in Gens : Dispatch(g)
    <3>1. \A g \in Gens : Home(g).kind # "rooms" /\ Start(g).kind # "rooms"
      BY DEF Home, Start
    <3>2. \A h \in Handlers : found[h] \in Gens
      BY <1>1 DEF IInv, TypeOK
    <3>3. QED
      BY <1>1, <3>1, <3>2
         DEF Next, Call, LookUp, SetRoomOn, SetRoomOff, StopJob, EmptyBatch,
             ShrinkBatch, WholeHouse, PublishWholeHouse, Fire, SwapGroups,
             StopReplaced, StoreRegistry
  <2>2. active[g] # {} /\ robot'.by = g
    BY <1>1, <2>1, CommandTypes DEF IInv, TypeOK, Dispatch, BatchReady
  <2>3. QED
    BY <1>1, <2>1, <2>2 DEF IInv, HouseIsEmpty
<1>2. IInv /\ [Next]_vars => [robot' # robot /\ robot'.kind = "rooms" => ~house[robot'.by]]_vars
  BY <1>1
<1>3. QED
  BY IInvInvariant, <1>2, PTL DEF Spec, NoStrayDispatch

-----------------------------------------------------------------------------
(* The refinement: what each step does to the whole-house commands that    *)
(* are on their way, then the step of RoomBatches it is.                   *)

LEMMA OwedUnchanged ==
  ASSUME TypeOK, UNCHANGED callVars
  PROVE  Owed' = Owed
BY DEF Owed, callVars

\* A call that had nothing to publish and still has nothing.
LEMMA OwedOfOthers ==
  ASSUME TypeOK, NEW h \in Handlers, call[h] \in {"idle", "found"},
         call' = [call EXCEPT ![h] = call'[h]], call'[h] \in {"idle", "found"},
         found' = [found EXCEPT ![h] = found'[h]]
  PROVE  Owed' = Owed
<1>1. \A i \in Handlers \ {h} : call'[i] = call[i] /\ found'[i] = found[i]
  BY DEF TypeOK
<1>2. {i \in Handlers : call'[i] \in {"start", "home"}} = {i \in Handlers : call[i] \in {"start", "home"}}
  BY <1>1
<1>3. \A i \in {j \in Handlers : call[j] \in {"start", "home"}} :
        found'[i] = found[i] /\ call'[i] = call[i]
  BY <1>1
<1>4. QED
  BY <1>2, <1>3 DEF Owed

LEMMA ReturnOwes ==
  ASSUME TypeOK, NEW h \in Handlers, call[h] = "found", Return(h)
  PROVE  Owed' = Owed
<1>1. /\ call'[h] = "idle"
      /\ call' = [call EXCEPT ![h] = call'[h]]
      /\ found' = [found EXCEPT ![h] = found'[h]]
  BY DEF TypeOK, Return
<1>2. QED
  BY <1>1, OwedOfOthers

LEMMA RoomOnIsBatches ==
  ASSUME TypeOK, NEW h \in Handlers, NEW s \in Segments, SetRoomOn(h, s)
  PROVE  Batches!TurnOn(found[h], s)
<1>1. Owed' = Owed
  BY ReturnOwes DEF SetRoomOn
<1>2. QED
  BY <1>1 DEF SetRoomOn, Batches!TurnOn

LEMMA RoomOffIsBatches ==
  ASSUME TypeOK, NEW h \in Handlers, NEW s \in Segments, SetRoomOff(h, s)
  PROVE  Batches!TurnOff(found[h], s) \/ Batches!StopJob(found[h])
<1>1. Owed' = Owed
  BY ReturnOwes DEF SetRoomOff
<1> DEFINE g == found[h]
<1>2. g \in Gens
  BY DEF TypeOK
<1>3. CASE StopJob(g)
  BY <1>1, <1>3 DEF StopJob, Home, Batches!StopJob, Batches!Command
<1>4. CASE EmptyBatch(g, s)
  BY <1>1, <1>2, <1>4 DEF TypeOK, EmptyBatch, Batches!TurnOff
<1>5. CASE ShrinkBatch(g, s)
  BY <1>1, <1>5 DEF ShrinkBatch, Batches!TurnOff
<1>6. QED
  BY <1>3, <1>4, <1>5 DEF SetRoomOff

LEMMA WholeHouseIsBatches ==
  ASSUME TypeOK, NEW h \in Handlers, NEW on \in BOOLEAN, WholeHouse(h, on)
  PROVE  Batches!House(h, found[h], IF on THEN "start" ELSE "home")
<1> DEFINE kind == IF on THEN "start" ELSE "home"
<1>1. /\ call[h] = "found" /\ call'[h] = kind /\ found' = found
      /\ \A i \in Handlers \ {h} : call'[i] = call[i]
  BY DEF TypeOK, WholeHouse
<1>2. \A o \in Owed : o.of # h
  BY <1>1 DEF Owed
<1>3. Owed' = Owed \cup {[of |-> h, by |-> found[h], kind |-> kind]}
  <2>1. {i \in Handlers : call'[i] \in {"start", "home"}}
          = {i \in Handlers : call[i] \in {"start", "home"}} \cup {h}
    BY <1>1
  <2>2. \A i \in {j \in Handlers : call[j] \in {"start", "home"}} :
          found'[i] = found[i] /\ call'[i] = call[i]
    BY <1>1
  <2>3. QED
    BY <1>1, <2>1, <2>2 DEF Owed
<1>4. on = (kind = "start")
  OBVIOUS
<1>5. cleaning' = [cleaning EXCEPT ![found[h]] = (kind = "start")]
  BY <1>4 DEF WholeHouse
<1>6. QED
  BY <1>2, <1>3, <1>5 DEF WholeHouse, Batches!House

LEMMA PublishIsBatches ==
  ASSUME TypeOK, NEW h \in Handlers, PublishWholeHouse(h)
  PROVE  Batches!Deliver(h)
<1> DEFINE o == [of |-> h, by |-> found[h], kind |-> call[h]]
<1>1. /\ call[h] \in {"start", "home"} /\ call'[h] = "idle"
      /\ \A i \in Handlers \ {h} : call'[i] = call[i] /\ found'[i] = found[i]
  BY DEF TypeOK, PublishWholeHouse, Return
<1>2. o \in Owed /\ o.of = h
  BY <1>1 DEF Owed
<1>3. Owed' = Owed \ {o}
  <2>1. {i \in Handlers : call'[i] \in {"start", "home"}}
          = {i \in Handlers : call[i] \in {"start", "home"}} \ {h}
    BY <1>1
  <2>2. \A i \in {j \in Handlers : call[j] \in {"start", "home"}} \ {h} :
          found'[i] = found[i] /\ call'[i] = call[i]
    BY <1>1
  <2>3. QED
    BY <1>1, <2>1, <2>2 DEF Owed
<1>4. robot' = Batches!Command(o.by, o.kind, {})
  BY <1>1 DEF PublishWholeHouse, Start, Home, Batches!Command
<1>5. QED
  BY <1>2, <1>3, <1>4 DEF PublishWholeHouse, groupVars, Batches!Deliver

LEMMA DispatchIsBatches ==
  ASSUME TypeOK, NEW g \in Gens, Dispatch(g)
  PROVE  Batches!Clean(g) \/ UNCHANGED Batches!vars
<1>1. Owed' = Owed
  BY OwedUnchanged DEF Dispatch
<1>2. QED
  BY <1>1 DEF Dispatch, BatchReady, Clean, Batches!Clean, Batches!Command, Batches!vars

\* The rest never shows.
LEMMA RestStutters ==
  ASSUME TypeOK,
         \/ UNCHANGED vars
         \/ \E h \in Handlers : LookUp(h)
         \/ \E g \in Gens : Fire(g) \/ SwapGroups(g) \/ StopReplaced(g) \/ StoreRegistry(g)
  PROVE  UNCHANGED Batches!vars
<1>1. Owed' = Owed
  <2>1. ASSUME NEW h \in Handlers, LookUp(h) PROVE Owed' = Owed
    <3>1. /\ call[h] = "idle" /\ call'[h] = "found"
          /\ call' = [call EXCEPT ![h] = call'[h]]
          /\ found' = [found EXCEPT ![h] = found'[h]]
      BY <2>1 DEF TypeOK, LookUp
    <3>2. QED
      BY <3>1, OwedOfOthers
  <2>2. QED
    BY <2>1, OwedUnchanged
       DEF vars, callVars, Fire, SwapGroups, StopReplaced, StoreRegistry
<1>2. UNCHANGED <<active, cleaning, robot>>
  BY DEF vars, groupVars, LookUp, Fire, SwapGroups, StopReplaced, StoreRegistry
<1>3. QED
  BY <1>1, <1>2 DEF Batches!vars

LEMMA InitIsBatches == Init => Batches!Init
<1> SUFFICES ASSUME Init PROVE Batches!Init
  OBVIOUS
<1>1. Owed = {}
  BY DEF Init, Owed
<1>2. Home(1) = Batches!Command(1, "home", {}) /\ 1 \in Gens
  BY GensAreNumbers DEF Home, Batches!Command
<1>3. QED
  BY <1>1, <1>2 DEF Init, Batches!Init

LEMMA NextIsBatches == TypeOK /\ [Next]_vars => [Batches!Next]_(Batches!vars)
<1> SUFFICES ASSUME TypeOK, [Next]_vars PROVE [Batches!Next]_(Batches!vars)
  OBVIOUS
<1>1. \A h \in Handlers : found[h] \in Gens
  BY DEF TypeOK
<1>2. ASSUME NEW h \in Handlers, NEW s \in Segments, SetRoomOn(h, s) \/ SetRoomOff(h, s)
      PROVE  Batches!Next
  BY <1>1, <1>2, RoomOnIsBatches, RoomOffIsBatches DEF Batches!Next
<1>3. ASSUME NEW h \in Handlers, NEW on \in BOOLEAN, WholeHouse(h, on)
      PROVE  Batches!Next
  BY <1>1, <1>3, WholeHouseIsBatches DEF Batches!Next
<1>4. ASSUME NEW h \in Handlers, PublishWholeHouse(h)
      PROVE  Batches!Next
  BY <1>4, PublishIsBatches DEF Batches!Next
<1>5. ASSUME NEW g \in Gens, Dispatch(g)
      PROVE  Batches!Next \/ UNCHANGED Batches!vars
  BY <1>5, DispatchIsBatches DEF Batches!Next
<1>6. QED
  BY <1>2, <1>3, <1>4, <1>5, RestStutters DEF Next, Call

\* The groups implement the batching as it is promised, for any rooms,
\* requests, timers and reloads; that the whole-house commands are sent in
\* the end stays with TLC.
THEOREM GroupsImplementBatches == Spec => Batches!Safety
<1>1. Spec => []TypeOK
  BY TypeCorrect
<1>2. QED
  BY <1>1, InitIsBatches, NextIsBatches, PTL DEF Spec, Batches!Safety

=============================================================================
