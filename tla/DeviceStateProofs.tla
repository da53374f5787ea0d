------------------------- MODULE DeviceStateProofs -------------------------
(***************************************************************************)
(* Proofs about DeviceState, for any requests, range, rules, reports and   *)
(* reloads.                                                                *)
(*                                                                         *)
(* What holds at rest is the end of a chain that the invariant follows     *)
(* backwards: a device object that was heard agrees with the device        *)
(* unless a report of the topic is on its way, or dispatch has yet to      *)
(* apply one, or, for the level, a command is yet to be executed.  The     *)
(* last report of a topic carries the value the device has now, and so     *)
(* does the one dispatch works on if none is left.  The same chain, one    *)
(* link longer, leads to the last callback.                                *)
(***************************************************************************)
EXTENDS DeviceState, SequenceTheorems, WellFoundedInduction, TLAPS

\* The topics, what is reported on each, and what the device has now.
Topics     == {"level", "sensor"} \cup RuleTopics
ValuesOf(t) == CASE t = "level" -> Levels [] t = "sensor" -> Readings [] OTHER -> Statuses
ValueNow(t) == CASE t = "level" -> plant.level [] t = "sensor" -> plant.sensor [] OTHER -> plant.status[t]
TopicOf(x)  == CASE x = Level -> "level" [] x = Sensor -> "sensor" [] OTHER -> Rules[x[2]].topic

Values   == UNION {ValuesOf(t) : t \in Topics}
Messages == [relative : BOOLEAN, value : Int]
Reports  == {m \in [topic : Topics, value : Values] : m.value \in ValuesOf(m.topic)}
Calls    == {Idle} \cup [at : {"found"}, device : Devices] \cup [at : {"publish"}, message : Messages]
Works    == {Rest} \cup [at : {"update", "notify"}, device : Devices, topic : Topics,
                         value : Values, todo : SUBSET Instances]

ObjectTypes ==
    /\ cur       \in [Devices -> Levels \cup Steps]
    /\ reading   \in [Devices -> Readings \cup {Default}]
    /\ seen      \in [Devices -> BOOLEAN]
    /\ errorVals \in [Devices -> [Codes -> Statuses \cup {Silent}]]
    /\ errorCode \in [Devices -> Codes \cup {NoError}]
    /\ heard     \in [Devices -> SUBSET Instances]

OtherTypes ==
    /\ registry  \in Devices
    /\ installed \in Devices
    /\ call      \in [Requests -> Calls]
    /\ work      \in Works
    /\ commands  \in Seq(Messages)
    /\ inbox     \in Seq(Reports)
    /\ plant     \in [level : Levels, sensor : Readings, status : [RuleTopics -> Statuses]]
    /\ announced \in [level : Levels \cup Steps, sensor : Readings \cup {Unseen},
                      error : Codes \cup {NoError}]

Coming(t)  == \E i \in 1 .. Len(inbox) : inbox[i].topic = t
InWork(x)  == work # Rest /\ work.device = installed /\ x \in work.todo

LastIsCurrent ==
    \A i \in 1 .. Len(inbox) :
        \/ \E j \in 1 .. Len(inbox) : j > i /\ inbox[j].topic = inbox[i].topic
        \/ inbox[i].value = ValueNow(inbox[i].topic)

WorkIsBound ==
    work # Rest =>
        /\ work.value \in ValuesOf(work.topic)
        /\ work.todo # {} /\ work.todo \subseteq Bound(work.topic)
        /\ Bound(work.topic) \ work.todo \subseteq heard[work.device]
        /\ work.at = "notify" => First(work.todo) \in heard[work.device]
        /\ Coming(work.topic) \/ work.value = ValueNow(work.topic)
        /\ work.device <= installed
        /\ work.device < installed => heard[installed] = {}

\* What object d has stored is what it was told.
Stored(d) ==
    /\ d > installed => heard[d] = {}
    /\ seen[d] <=> Sensor \in heard[d]
    /\ seen[d] => reading[d] \in Readings
    /\ \A i \in Codes : Rule(i) \notin heard[d] => errorVals[d][i] = Silent
    /\ errorCode[d] = IF \E i \in Codes : Rule(i) \in heard[d] THEN FirstMatch(errorVals[d]) ELSE NoError

HeardIsStored == installed <= registry /\ \A d \in Devices : Stored(d)

\* Rules that share a topic are heard together.
HeardTogether ==
    \A x \in heard[installed], y \in Instances : TopicOf(x) = TopicOf(y) => y \in heard[installed] \/ InWork(y)

\* A command that will make the device report its level.
Underway == (\E r \in Requests : call[r].at = "publish") \/ commands # <<>>

\* What the installed object holds for an instance, as the device reports it.
Held(x) ==
    CASE x = Level  -> Message(cur[installed], FALSE).value
      [] x = Sensor -> reading[installed]
      [] OTHER      -> errorVals[installed][x[2]]

Agrees(x) == Held(x) = ValueNow(TopicOf(x))

Updated(x) == work.at = "notify" /\ x = First(work.todo)

HeardAgrees ==
    \A x \in heard[installed] :
        \/ Agrees(x)
        \/ Coming(TopicOf(x))
        \/ InWork(x) /\ ~Updated(x)
        \/ x = Level /\ Underway

IsAnnounced(x) ==
    CASE x = Level  -> announced.level = cur[installed]
      [] x = Sensor -> announced.sensor = reading[installed]
      [] OTHER      -> announced.error = errorCode[installed]

HeardIsAnnounced ==
    \A x \in heard[installed] :
        \/ IsAnnounced(x)
        \/ \E y \in Instances : InWork(y) /\ y[1] = x[1]
        \/ x = Level /\ (Underway \/ Coming("level"))

IInv == /\ ObjectTypes /\ OtherTypes
        /\ LastIsCurrent /\ WorkIsBound /\ HeardIsStored /\ HeardTogether
        /\ HeardAgrees /\ HeardIsAnnounced

-----------------------------------------------------------------------------
(* Constants, instances and conversions.                                   *)

LEMMA ConstantFacts ==
  /\ LevelMin \in Int /\ LevelMax \in Int /\ LevelMin \in Levels /\ Levels \subseteq Int
  /\ Codes \subseteq Nat \ {NoError}
  /\ Devices \subseteq Nat /\ 1 \in Devices /\ MaxDevices \in Nat
  /\ "level" \notin RuleTopics /\ "sensor" \notin RuleTopics
  /\ Readings \subseteq Nat \ {Default} /\ Unseen \notin Readings /\ Default \notin Readings
  BY LevelAssumption, ReadingsAssumption, RulesAssumption, BoundsAssumption
     DEF Levels, Codes, NoError, Devices, RuleTopics, Default, Unseen

LEMMA InstanceFacts ==
  /\ Level \in Instances /\ Sensor \in Instances /\ Level # Sensor
  /\ Level[1] = "level" /\ Sensor[1] = "sensor"
  /\ Level[2] = 0 /\ Sensor[2] = 0
  /\ \A i : Rule(i)[1] = "rule" /\ Rule(i)[2] = i /\ Rule(i) # Level /\ Rule(i) # Sensor
  /\ \A i \in Codes : Rule(i) \in Instances
  /\ \A x \in Instances : x = Level \/ x = Sensor \/ \E i \in Codes : x = Rule(i)
  BY DEF Level, Sensor, Rule, Instances

LEMMA TopicFacts ==
  /\ TopicOf(Level) = "level" /\ TopicOf(Sensor) = "sensor"
  /\ \A i \in Codes : TopicOf(Rule(i)) = Rules[i].topic /\ Rules[i].topic \in RuleTopics
  /\ \A x \in Instances : TopicOf(x) \in Topics
  /\ \A t \in RuleTopics : t # "level" /\ t # "sensor"
<1>1. \A i \in Codes : TopicOf(Rule(i)) = Rules[i].topic /\ Rules[i].topic \in RuleTopics
  BY InstanceFacts DEF TopicOf, RuleTopics
<1>2. TopicOf(Level) = "level" /\ TopicOf(Sensor) = "sensor"
  BY InstanceFacts DEF TopicOf
<1>3. QED
  BY <1>1, <1>2, InstanceFacts, ConstantFacts DEF Topics

\* The instances bound to a topic are those that have it.
LEMMA BoundIsTopic ==
  ASSUME NEW t \in Topics
  PROVE  Bound(t) = {x \in Instances : TopicOf(x) = t} /\ Bound(t) # {}
<1>1. CASE t = "level"
  BY <1>1, InstanceFacts, TopicFacts DEF Bound
<1>2. CASE t = "sensor"
  BY <1>2, InstanceFacts, TopicFacts DEF Bound
<1>3. CASE t \in RuleTopics
  <2>1. Bound(t) = {Rule(i) : i \in {j \in Codes : Rules[j].topic = t}}
    BY <1>3, TopicFacts DEF Bound
  <2>2. \E i \in Codes : Rules[i].topic = t
    BY <1>3 DEF RuleTopics
  <2>3. QED
    BY <1>3, <2>1, <2>2, InstanceFacts, TopicFacts
<1>4. QED
  BY <1>1, <1>2, <1>3 DEF Topics

LEMMA BoundIsOfOneKind ==
  ASSUME NEW t \in Topics, NEW x \in Bound(t), NEW y \in Bound(t)
  PROVE  x[1] = y[1]
  BY BoundIsTopic, InstanceFacts, TopicFacts DEF Topics

LEMMA LeastExists ==
  ASSUME NEW T \in SUBSET Nat, T # {}
  PROVE  \E n \in T : \A m \in T : n <= m
<1>1. PICK n \in T : \A m \in T : ~ (<<m, n>> \in OpToRel(<, Nat))
  BY NatLessThanWellFounded, WFMin
<1>2. \A m \in T : ~ (m < n)
  BY <1>1 DEF OpToRel
<1>3. QED
  BY <1>2

\* The first of a set of instances is one of them.
LEMMA FirstIsMember ==
  ASSUME NEW todo \in SUBSET Instances, todo # {}
  PROVE  First(todo) \in todo
<1> DEFINE positions == {x[2] : x \in todo}
<1>1. positions \subseteq Nat /\ positions # {}
  BY InstanceFacts, ConstantFacts
<1>2. \E n \in positions : \A m \in positions : n <= m
  BY <1>1, LeastExists
<1>3. \E x \in todo : \A y \in todo : x[2] <= y[2]
  BY <1>2
<1>4. QED
  BY <1>3 DEF First

LEMMA FirstMatchIsCode == \A vals : FirstMatch(vals) \in Codes \cup {NoError}
<1> SUFFICES ASSUME NEW vals PROVE FirstMatch(vals) \in Codes \cup {NoError}
  OBVIOUS
<1> DEFINE active == {i \in Codes : vals[i] = Rules[i].value}
<1>1. CASE active = {}
  BY <1>1 DEF FirstMatch
<1>2. CASE active # {}
  <2>1. active \subseteq Nat
    BY ConstantFacts
  <2> HIDE DEF active
  <2>2. \E n \in active : \A m \in active : n <= m
    BY <1>2, <2>1, LeastExists
  <2>3. (CHOOSE i \in active : \A j \in active : i <= j) \in active
    BY <2>2
  <2>4. QED
    BY <1>2, <2>3 DEF FirstMatch, active
<1>3. QED
  BY <1>1, <1>2

\* A level that went through an inverted range twice is what it was.
LEMMA Conversions ==
  /\ \A v \in Levels : FromPayload(v) \in Levels /\ Message(FromPayload(v), FALSE).value = v
  /\ \A v \in Levels : Message(v, FALSE) \in Messages
  /\ \A v \in Steps : Message(v, TRUE) \in Messages
  /\ \A v \in Int : Clamp(v) \in Levels
  BY LevelAssumption, StepsAssumption DEF Levels, FromPayload, invertRange, Message, Messages, Clamp

-----------------------------------------------------------------------------
LEMMA InitIInv == Init => IInv
<1> SUFFICES ASSUME Init PROVE IInv
  OBVIOUS
<1> USE ConstantFacts DEF Init
<1>1. ObjectTypes
  BY DEF ObjectTypes
<1>2. Idle \in Calls /\ Rest \in Works
  BY DEF Calls, Works
<1>3. commands \in Seq(Messages) /\ inbox \in Seq(Reports) /\ Len(inbox) = 0
  OBVIOUS
<1>4. OtherTypes
  BY <1>2, <1>3 DEF OtherTypes
<1>5. LastIsCurrent
  BY <1>3 DEF LastIsCurrent
<1>6. WorkIsBound /\ HeardTogether /\ HeardAgrees /\ HeardIsAnnounced
  BY DEF WorkIsBound, HeardTogether, HeardAgrees, HeardIsAnnounced
<1>7. HeardIsStored
  BY DEF HeardIsStored, Stored
<1>8. QED
  BY <1>1, <1>4, <1>5, <1>6, <1>7 DEF IInv

(* Each part of the invariant depends on few variables.                    *)

LEMMA ReportsFrame ==
  ASSUME LastIsCurrent, UNCHANGED <<inbox, plant>>
  PROVE  LastIsCurrent'
  BY DEF LastIsCurrent, ValueNow

LEMMA WorkFrame ==
  ASSUME WorkIsBound, UNCHANGED <<work, heard, inbox, plant, installed>>
  PROVE  WorkIsBound'
  BY DEF WorkIsBound, ValueNow, Coming

LEMMA StoredFrame ==
  ASSUME HeardIsStored, UNCHANGED <<reading, seen, errorVals, errorCode, heard, registry, installed>>
  PROVE  HeardIsStored'
  BY DEF HeardIsStored, Stored

LEMMA TogetherFrame ==
  ASSUME HeardTogether, UNCHANGED <<heard, installed, work>>
  PROVE  HeardTogether'
  BY DEF HeardTogether, InWork

LEMMA AgreesFrame ==
  ASSUME HeardAgrees, Underway => Underway',
         UNCHANGED <<cur, reading, errorVals, heard, installed, work, inbox, plant>>
  PROVE  HeardAgrees'
  BY DEF HeardAgrees, Agrees, Held, ValueNow, Coming, InWork, Updated

LEMMA AnnouncedFrame ==
  ASSUME HeardIsAnnounced, Underway => Underway',
         UNCHANGED <<cur, reading, errorCode, heard, installed, work, inbox, announced>>
  PROVE  HeardIsAnnounced'
  BY DEF HeardIsAnnounced, IsAnnounced, Coming, InWork

-----------------------------------------------------------------------------
(* A provider-API action.                                                  *)

LEMMA FindIInv ==
  ASSUME IInv, NEW r \in Requests, Find(r)
  PROVE  IInv'
<1> USE DEF IInv, Find, state, objects, outside
<1>1. call' \in [Requests -> Calls]
  BY DEF OtherTypes, Calls
<1>2. ObjectTypes' /\ OtherTypes'
  BY <1>1 DEF ObjectTypes, OtherTypes
<1>3. Underway => Underway'
  BY DEF Underway, OtherTypes, Idle
<1>4. QED
  BY <1>2, <1>3, ReportsFrame, WorkFrame, StoredFrame, TogetherFrame, AgreesFrame, AnnouncedFrame

LEMMA SetCapabilityStateIInv ==
  ASSUME IInv, NEW r \in Requests, NEW v, NEW relative,
         \/ v \in Levels /\ relative = FALSE
         \/ v \in Steps /\ relative = TRUE,
         SetCapabilityState(r, v, relative)
  PROVE  IInv'
<1> USE DEF IInv, SetCapabilityState, objects, outside
<1>1. call[r] \in [at : {"found"}, device : Devices]
  BY DEF OtherTypes, Calls, Idle
<1>2. call' \in [Requests -> Calls]
  BY Conversions DEF OtherTypes, Calls
<1>3. ObjectTypes' /\ OtherTypes'
  BY <1>1, <1>2 DEF ObjectTypes, OtherTypes
<1>4. Underway'
  BY DEF Underway, OtherTypes
<1>5. UNCHANGED <<reading, seen, errorVals, errorCode, heard, installed, registry, work, inbox, plant, announced>>
  OBVIOUS
<1>6. HeardAgrees'
  BY <1>4, <1>5 DEF HeardAgrees, Agrees, Held, ValueNow, Coming, InWork, Updated
<1>7. HeardIsAnnounced'
  BY <1>4, <1>5 DEF HeardIsAnnounced, IsAnnounced, Coming, InWork
<1>8. QED
  BY <1>3, <1>5, <1>6, <1>7, ReportsFrame, WorkFrame, StoredFrame, TogetherFrame

LEMMA PublishIInv ==
  ASSUME IInv, NEW r \in Requests, Publish(r)
  PROVE  IInv'
<1> USE DEF IInv, Publish, state, objects
<1>1. call[r].message \in Messages
  BY DEF OtherTypes, Calls, Idle
<1>2. commands' \in Seq(Messages) /\ commands' # <<>>
  BY <1>1 DEF OtherTypes
<1>3. call' \in [Requests -> Calls]
  BY DEF OtherTypes, Calls
<1>4. ObjectTypes' /\ OtherTypes'
  BY <1>2, <1>3 DEF ObjectTypes, OtherTypes
<1>5. Underway'
  BY <1>2 DEF Underway
<1>6. QED
  BY <1>4, <1>5, ReportsFrame, WorkFrame, StoredFrame, TogetherFrame, AgreesFrame, AnnouncedFrame

-----------------------------------------------------------------------------
(* The physical device: whatever it does, it reports it.                   *)

LEMMA ReportIInv ==
  ASSUME IInv, NEW t \in Topics, NEW v \in ValuesOf(t), Report(t, v),
         ValueNow(t)' = v,
         \A u \in Topics \ {t} : ValueNow(u)' = ValueNow(u),
         plant' \in [level : Levels, sensor : Readings, status : [RuleTopics -> Statuses]],
         commands' \in Seq(Messages),
         t = "level" \/ commands' = commands,
         UNCHANGED <<state, objects, call, work, announced, heard>>
  PROVE  IInv'
<1> USE DEF IInv, state, objects
<1> DEFINE m == [topic |-> t, value |-> v]
<1>1. m \in Reports
  BY DEF Reports, Values
<1>2. inbox \in Seq(Reports) /\ work \in Works
  BY DEF OtherTypes
<1>3. /\ inbox' \in Seq(Reports)
      /\ Len(inbox') = Len(inbox) + 1
      /\ inbox'[Len(inbox) + 1] = m
      /\ \A i \in 1 .. Len(inbox) : inbox'[i] = inbox[i]
      /\ Len(inbox) \in Nat
  BY <1>1, <1>2 DEF Report
<1>4. \A i \in 1 .. Len(inbox) : inbox[i].topic \in Topics
  BY <1>2 DEF Reports
<1> HIDE DEF m
<1>5. m.topic = t /\ m.value = v
  BY DEF m
<1>6. Coming(t)'
  BY <1>3, <1>5 DEF Coming
<1>7. \A u : Coming(u) => Coming(u)'
  BY <1>3 DEF Coming
<1>8. ObjectTypes' /\ OtherTypes'
  BY <1>3 DEF ObjectTypes, OtherTypes
<1>9. LastIsCurrent'
  <2>1. ASSUME NEW i \in 1 .. Len(inbox'), NEW u \in Topics, u = inbox'[i].topic
        PROVE  \/ \E j \in 1 .. Len(inbox') : j > i /\ inbox'[j].topic = u
               \/ inbox'[i].value = ValueNow(u)'
    <3>1. CASE i = Len(inbox) + 1
      BY <1>3, <1>5, <2>1, <3>1
    <3>2. CASE i \in 1 .. Len(inbox) /\ u = t
      BY <1>3, <1>5, <3>2
    <3>3. CASE i \in 1 .. Len(inbox) /\ u # t
      <4>1. u = inbox[i].topic /\ inbox'[i].value = inbox[i].value
        BY <1>3, <2>1, <3>3
      <4>2. CASE inbox[i].value = ValueNow(u)
        BY <3>3, <4>1, <4>2
      <4>3. CASE \E j \in 1 .. Len(inbox) : j > i /\ inbox[j].topic = u
        BY <1>3, <4>3
      <4>4. QED
        BY <3>3, <4>1, <4>2, <4>3 DEF LastIsCurrent
    <3>4. QED
      BY <1>3, <2>1, <3>1, <3>2, <3>3
  <2>2. \A i \in 1 .. Len(inbox') : inbox'[i].topic \in Topics
    BY <1>3 DEF Reports
  <2>3. QED
    BY <2>1, <2>2 DEF LastIsCurrent
<1>10. WorkIsBound'
  <2>1. SUFFICES ASSUME work # Rest PROVE Coming(work.topic)' \/ work.value = ValueNow(work.topic)'
    BY DEF WorkIsBound
  <2>2. work.topic \in Topics
    BY <1>2, <2>1 DEF Works
  <2>3. QED
    BY <1>6, <1>7, <2>1, <2>2 DEF WorkIsBound
<1>11. HeardAgrees'
  <2>1. SUFFICES ASSUME NEW x \in heard[installed]
                 PROVE  (Agrees(x) \/ Coming(TopicOf(x)) \/ (InWork(x) /\ ~Updated(x)) \/ (x = Level /\ Underway))'
    BY DEF HeardAgrees
  <2>2. TopicOf(x) \in Topics
    BY TopicFacts DEF ObjectTypes, OtherTypes
  <2>3. CASE TopicOf(x) = t
    BY <1>6, <2>3 DEF TopicOf
  <2>4. CASE TopicOf(x) # t
    <3>1. Agrees(x) => Agrees(x)'
      BY <2>2, <2>4 DEF Agrees, Held, TopicOf
    <3>2. x = Level /\ Underway => Underway'
      BY <2>4, TopicFacts DEF Underway
    <3>3. InWork(x) /\ ~Updated(x) => (InWork(x) /\ ~Updated(x))'
      BY DEF InWork, Updated
    <3>4. Coming(TopicOf(x)) => Coming(TopicOf(x))'
      BY <1>7 DEF TopicOf
    <3>5. QED
      BY <3>1, <3>2, <3>3, <3>4 DEF HeardAgrees
  <2>5. QED
    BY <2>3, <2>4
<1>12. HeardIsAnnounced'
  <2>1. Underway \/ Coming("level") => (Underway \/ Coming("level"))'
    BY <1>6, <1>7 DEF Underway
  <2>2. QED
    BY <2>1 DEF HeardIsAnnounced, IsAnnounced, InWork
<1>13. QED
  BY <1>8, <1>9, <1>10, <1>11, <1>12, StoredFrame, TogetherFrame

LEMMA ExecuteIInv == IInv /\ Execute => IInv'
<1> SUFFICES ASSUME IInv, Execute PROVE IInv'
  OBVIOUS
<1> DEFINE m == Head(commands)
           v == Clamp(IF m.relative THEN plant.level + m.value ELSE m.value)
<1>1. commands \in Seq(Messages) /\ commands # <<>>
  BY DEF Execute, IInv, OtherTypes
<1>2. m \in Messages /\ Tail(commands) \in Seq(Messages)
  BY <1>1, HeadTailProperties
<1>3. plant.level \in Int
  BY ConstantFacts DEF IInv, OtherTypes
<1>4. v \in Levels
  BY <1>2, <1>3, Conversions DEF Messages
<1>5. Report("level", v) /\ plant' = [plant EXCEPT !.level = v] /\ commands' = Tail(commands)
  BY DEF Execute
<1>6. UNCHANGED <<state, objects, call, work, announced, heard>>
  BY DEF Execute
<1> HIDE DEF m, v
<1>7. /\ plant' \in [level : Levels, sensor : Readings, status : [RuleTopics -> Statuses]]
      /\ plant'.level = v /\ plant'.sensor = plant.sensor /\ plant'.status = plant.status
  BY <1>4, <1>5 DEF IInv, OtherTypes
<1>8. ValueNow("level")' = v /\ \A u \in Topics \ {"level"} : ValueNow(u)' = ValueNow(u)
  BY <1>7 DEF ValueNow
<1>9. "level" \in Topics /\ v \in ValuesOf("level")
  BY <1>4 DEF Topics, ValuesOf
<1>10. QED
  BY <1>2, <1>5, <1>6, <1>7, <1>8, <1>9, ReportIInv

LEMMA ChangeIInv == IInv /\ Change => IInv'
<1> SUFFICES ASSUME IInv, Change PROVE IInv'
  OBVIOUS
<1>1. plant \in [level : Levels, sensor : Readings, status : [RuleTopics -> Statuses]] /\ commands \in Seq(Messages)
  BY DEF IInv, OtherTypes
<1>2. UNCHANGED <<state, objects, call, work, commands, announced, heard>>
  BY DEF Change
<1>3. ASSUME NEW v \in Levels, plant' = [plant EXCEPT !.level = v], Report("level", v)
      PROVE  IInv'
  <2>1. ValueNow("level")' = v /\ \A u \in Topics \ {"level"} : ValueNow(u)' = ValueNow(u)
    BY <1>1, <1>3 DEF ValueNow
  <2>2. "level" \in Topics /\ v \in ValuesOf("level")
    BY DEF Topics, ValuesOf
  <2>3. plant' \in [level : Levels, sensor : Readings, status : [RuleTopics -> Statuses]]
    BY <1>1, <1>3
  <2>4. QED
    BY <1>1, <1>2, <1>3, <2>1, <2>2, <2>3, ReportIInv
<1>4. ASSUME NEW v \in Readings, plant' = [plant EXCEPT !.sensor = v], Report("sensor", v)
      PROVE  IInv'
  <2>1. ValueNow("sensor")' = v /\ \A u \in Topics \ {"sensor"} : ValueNow(u)' = ValueNow(u)
    BY <1>1, <1>4 DEF ValueNow
  <2>2. "sensor" \in Topics /\ v \in ValuesOf("sensor")
    BY DEF Topics, ValuesOf
  <2>3. plant' \in [level : Levels, sensor : Readings, status : [RuleTopics -> Statuses]]
    BY <1>1, <1>4
  <2>4. QED
    BY <1>1, <1>2, <1>4, <2>1, <2>2, <2>3, ReportIInv
<1>5. ASSUME NEW t \in RuleTopics, NEW v \in Statuses, plant' = [plant EXCEPT !.status[t] = v], Report(t, v)
      PROVE  IInv'
  <2>1. t # "level" /\ t # "sensor"
    BY TopicFacts
  <2>2. ValueNow(t)' = v /\ \A u \in Topics \ {t} : ValueNow(u)' = ValueNow(u)
    BY <1>1, <1>5, <2>1 DEF ValueNow, Topics
  <2>3. t \in Topics /\ v \in ValuesOf(t)
    BY <2>1 DEF Topics, ValuesOf
  <2>4. plant' \in [level : Levels, sensor : Readings, status : [RuleTopics -> Statuses]]
    BY <1>1, <1>5
  <2>5. QED
    BY <1>1, <1>2, <1>5, <2>2, <2>3, <2>4, ReportIInv
<1>6. QED
  BY <1>3, <1>4, <1>5 DEF Change

-----------------------------------------------------------------------------
(* dispatch.                                                               *)

LEMMA ReceiveIInv == IInv /\ Receive => IInv'
<1> SUFFICES ASSUME IInv, Receive PROVE IInv'
  OBVIOUS
<1>1. inbox \in Seq(Reports) /\ inbox # <<>> /\ work = Rest
  BY DEF Receive, IInv, OtherTypes
<1>2. Head(inbox) = inbox[1] /\ inbox[1] \in Reports
  BY <1>1, HeadTailProperties
<1>3. /\ inbox' \in Seq(Reports)
      /\ Len(inbox) \in Nat /\ Len(inbox) >= 1 /\ Len(inbox') = Len(inbox) - 1
      /\ \A i \in 1 .. Len(inbox') : inbox'[i] = inbox[i + 1]
  <2>1. inbox' = Tail(inbox)
    BY DEF Receive
  <2>2. QED
    BY <1>1, <2>1, HeadTailProperties, LenProperties
<1>4. PICK t \in Topics, v \in Values :
        t = inbox[1].topic /\ v = inbox[1].value /\ v \in ValuesOf(t)
  BY <1>2 DEF Reports
<1>5. work' = [at |-> "update", device |-> installed, topic |-> t, value |-> v, todo |-> Bound(t)]
  BY <1>2, <1>4 DEF Receive
<1>6. UNCHANGED <<state, objects, call, outside, announced, heard>>
  BY DEF Receive
<1>7. /\ \A x \in Instances : x \in Bound(t) <=> TopicOf(x) = t
      /\ Bound(t) # {} /\ Bound(t) \subseteq Instances
  BY BoundIsTopic
<1>8. work' \in Works /\ work' # Rest
  BY <1>5, <1>7 DEF Works, Rest, IInv, OtherTypes
<1> USE <1>6 DEF IInv, state, objects, outside
<1>9. ObjectTypes' /\ OtherTypes'
  BY <1>3, <1>8 DEF ObjectTypes, OtherTypes
<1>10. \A u : Coming(u) => Coming(u)' \/ u = t
  <2>1. SUFFICES ASSUME NEW u, NEW i \in 1 .. Len(inbox), inbox[i].topic = u, u # t
                 PROVE  Coming(u)'
    BY DEF Coming
  <2>2. i - 1 \in 1 .. Len(inbox') /\ inbox'[i - 1] = inbox[i]
    BY <1>3, <1>4, <2>1
  <2>3. QED
    BY <2>1, <2>2 DEF Coming
<1>11. \A u : ValueNow(u)' = ValueNow(u)
  BY DEF ValueNow
<1>12. LastIsCurrent'
  <2>1. ASSUME NEW i \in 1 .. Len(inbox'), NEW u, u = inbox'[i].topic
        PROVE  \/ \E j \in 1 .. Len(inbox') : j > i /\ inbox'[j].topic = u
               \/ inbox'[i].value = ValueNow(u)'
    <3>1. i + 1 \in 1 .. Len(inbox) /\ inbox'[i] = inbox[i + 1]
      BY <1>3
    <3>2. CASE inbox[i + 1].value = ValueNow(u)
      BY <1>11, <3>1, <3>2
    <3>3. CASE \E j \in 1 .. Len(inbox) : j > i + 1 /\ inbox[j].topic = u
      <4>1. PICK j \in 1 .. Len(inbox) : j > i + 1 /\ inbox[j].topic = u
        BY <3>3
      <4>2. j - 1 \in 1 .. Len(inbox') /\ j - 1 > i /\ inbox'[j - 1] = inbox[j]
        BY <1>3, <4>1
      <4>3. QED
        BY <4>1, <4>2
    <3>4. QED
      BY <2>1, <3>1, <3>2, <3>3 DEF LastIsCurrent
  <2>2. QED
    BY <2>1 DEF LastIsCurrent
<1>13. Coming(t)' \/ v = ValueNow(t)'
  <2>1. CASE \E j \in 1 .. Len(inbox) : j > 1 /\ inbox[j].topic = t
    <3>1. PICK j \in 1 .. Len(inbox) : j > 1 /\ inbox[j].topic = t
      BY <2>1
    <3>2. j - 1 \in 1 .. Len(inbox') /\ inbox'[j - 1].topic = t
      BY <1>3, <3>1
    <3>3. QED
      BY <3>2 DEF Coming
  <2>2. QED
    BY <1>3, <1>4, <1>11, <2>1 DEF LastIsCurrent
<1>14. /\ work'.at = "update" /\ work'.device = installed' /\ work'.topic = t
       /\ work'.value = v /\ work'.todo = Bound(t)
  BY <1>5
<1>15. WorkIsBound'
  <2>1. installed \in Nat
    BY ConstantFacts DEF OtherTypes
  <2>2. Coming(work.topic)' \/ work'.value = ValueNow(work.topic)'
    BY <1>13, <1>14 DEF Coming, ValueNow
  <2>3. Bound(t) = Bound(work.topic)'
    BY <1>14 DEF Bound
  <2>4. QED
    BY <1>4, <1>7, <1>14, <2>1, <2>2, <2>3 DEF WorkIsBound
<1>16. HeardTogether'
  BY <1>1 DEF HeardTogether, InWork
<1>17. \A x \in Bound(t) : (InWork(x) /\ ~Updated(x))'
  BY <1>8, <1>14 DEF InWork, Updated
<1>18. heard[installed] \subseteq Instances
  BY DEF ObjectTypes, OtherTypes
<1>19. HeardAgrees'
  <2>1. SUFFICES ASSUME NEW x \in heard[installed]
                 PROVE  (Agrees(x) \/ Coming(TopicOf(x)) \/ (InWork(x) /\ ~Updated(x)) \/ (x = Level /\ Underway))'
    BY DEF HeardAgrees
  <2>2. Agrees(x) => Agrees(x)'
    BY <1>11 DEF Agrees, Held, TopicOf
  <2>3. Coming(TopicOf(x)) => Coming(TopicOf(x))' \/ x \in Bound(t)
    BY <1>7, <1>10, <1>18 DEF TopicOf
  <2>4. Underway => Underway'
    BY DEF Underway
  <2>5. ~InWork(x)
    BY <1>1 DEF InWork
  <2>6. QED
    BY <1>17, <2>2, <2>3, <2>4, <2>5 DEF HeardAgrees
<1>20. HeardIsAnnounced'
  <2>1. SUFFICES ASSUME NEW x \in heard[installed]
                 PROVE  (\/ IsAnnounced(x)
                         \/ \E y \in Instances : InWork(y) /\ y[1] = x[1]
                         \/ x = Level /\ (Underway \/ Coming("level")))'
    BY DEF HeardIsAnnounced
  <2>2. IsAnnounced(x) => IsAnnounced(x)'
    BY DEF IsAnnounced
  <2>3. Coming("level") => Coming("level")' \/ Level \in Bound(t)
    BY <1>7, <1>10, InstanceFacts, TopicFacts
  <2>4. Underway => Underway'
    BY DEF Underway
  <2>5. \A y : ~InWork(y)
    BY <1>1 DEF InWork
  <2>6. QED
    BY <1>17, <2>2, <2>3, <2>4, <2>5, InstanceFacts DEF HeardIsAnnounced
<1>21. QED
  BY <1>9, <1>12, <1>15, <1>16, <1>19, <1>20, StoredFrame

\* What an update does to the object of device d, whichever instance it is for.
LEMMA UpdateOfObject ==
  ASSUME IInv, UpdateFromMQTT, NEW d \in Devices, NEW i \in Instances,
         d = work.device, i = First(work.todo), work.value \in ValuesOf(TopicOf(i))
  PROVE  /\ ObjectTypes'
         /\ heard' = [heard EXCEPT ![d] = @ \cup {i}]
         /\ d <= installed => HeardIsStored'
         /\ d = installed => Held(i)' = work.value
         /\ \A x \in Instances \ {i} : Held(x)' = Held(x)
         /\ \A x \in Instances : x[1] # i[1] => (IsAnnounced(x) => IsAnnounced(x)')
<1> USE DEF UpdateFromMQTT, objects, outside
<1>1. heard' = [heard EXCEPT ![d] = @ \cup {i}] /\ UNCHANGED <<registry, installed, plant, announced>>
  OBVIOUS
<1>2. heard' \in [Devices -> SUBSET Instances] /\ installed \in Devices
  BY <1>1 DEF IInv, ObjectTypes, OtherTypes
<1>3. CASE i = Level
  <2>1. work.value \in Levels
    BY <1>3, TopicFacts DEF ValuesOf
  <2>2. cur' = [cur EXCEPT ![d] = FromPayload(work.value)] /\ UNCHANGED <<reading, seen, errorVals, errorCode>>
    BY <1>3, InstanceFacts DEF UpdateLevel
  <2>3. FromPayload(work.value) \in Levels /\ Message(FromPayload(work.value), FALSE).value = work.value
    BY <2>1, Conversions
  <2>4. ObjectTypes'
    BY <1>2, <2>2, <2>3 DEF IInv, ObjectTypes
  <2>5. d <= installed => HeardIsStored'
    <3>1. SUFFICES ASSUME d <= installed, NEW e \in Devices
                   PROVE  Stored(e)'
      BY <1>1 DEF IInv, HeardIsStored
    <3> ~(d > installed)
      BY <1>2, <3>1, ConstantFacts
    <3>2. Stored(e)
      BY DEF IInv, HeardIsStored
    <3>3. CASE e # d
      BY <1>1, <2>2, <3>2, <3>3 DEF Stored, IInv, ObjectTypes
    <3>4. CASE e = d
      BY <1>1, <1>3, <2>2, <3>2, <3>4, InstanceFacts DEF Stored, IInv, ObjectTypes
    <3>5. QED
      BY <3>3, <3>4
  <2>6. d = installed => Held(i)' = work.value
    <3>1. cur'[d] = FromPayload(work.value)
      BY <2>2 DEF IInv, ObjectTypes
    <3>2. Held(i)' = Message(cur'[installed'], FALSE).value
      <4> HIDE DEF UpdateFromMQTT, objects, outside
      <4>1. QED
        BY <1>3, InstanceFacts DEF Held
    <3>3. QED
      BY <1>1, <2>3, <3>1, <3>2
  <2>7. \A x \in Instances \ {i} : Held(x)' = Held(x)
    BY <1>1, <1>3, <2>2 DEF Held
  <2>8. \A x \in Instances : x[1] # i[1] => (IsAnnounced(x) => IsAnnounced(x)')
    BY <1>1, <1>3, <2>2 DEF IsAnnounced
  <2>9. QED
    BY <1>1, <2>4, <2>5, <2>6, <2>7, <2>8
<1>4. CASE i = Sensor
  <2>1. work.value \in Readings
    BY <1>4, InstanceFacts, TopicFacts DEF ValuesOf
  <2>2. /\ reading' = [reading EXCEPT ![d] = work.value]
        /\ seen' = [seen EXCEPT ![d] = TRUE]
        /\ UNCHANGED <<cur, errorVals, errorCode>>
    BY <1>4, InstanceFacts DEF UpdateSensor
  <2>3. ObjectTypes'
    BY <1>2, <2>1, <2>2 DEF IInv, ObjectTypes
  <2>4. d <= installed => HeardIsStored'
    <3>1. SUFFICES ASSUME d <= installed, NEW e \in Devices
                   PROVE  Stored(e)'
      BY <1>1 DEF IInv, HeardIsStored
    <3> ~(d > installed)
      BY <1>2, <3>1, ConstantFacts
    <3>2. Stored(e)
      BY DEF IInv, HeardIsStored
    <3>3. CASE e # d
      BY <1>1, <2>2, <3>2, <3>3 DEF Stored, IInv, ObjectTypes
    <3>4. CASE e = d
      BY <1>1, <1>4, <2>1, <2>2, <3>2, <3>4, InstanceFacts DEF Stored, IInv, ObjectTypes
    <3>5. QED
      BY <3>3, <3>4
  <2>5. d = installed => Held(i)' = work.value
    BY <1>1, <1>4, <2>2, InstanceFacts DEF Held, IInv, ObjectTypes
  <2>6. \A x \in Instances \ {i} : Held(x)' = Held(x)
    BY <1>1, <1>4, <2>2 DEF Held
  <2>7. \A x \in Instances : x[1] # i[1] => (IsAnnounced(x) => IsAnnounced(x)')
    BY <1>1, <1>4, <2>2 DEF IsAnnounced
  <2>8. QED
    BY <1>1, <2>3, <2>4, <2>5, <2>6, <2>7
<1>5. ASSUME NEW j \in Codes, i = Rule(j)
      PROVE  /\ ObjectTypes'
             /\ d <= installed => HeardIsStored'
             /\ d = installed => Held(i)' = work.value
             /\ \A x \in Instances \ {i} : Held(x)' = Held(x)
             /\ \A x \in Instances : x[1] # i[1] => (IsAnnounced(x) => IsAnnounced(x)')
  <2>1. i # Level /\ i # Sensor /\ i[1] = "rule" /\ i[2] = j
    BY <1>5, InstanceFacts
  <2>2. work.value \in Statuses
    BY <1>5, TopicFacts DEF ValuesOf
  <2>3. /\ errorVals' = [errorVals EXCEPT ![d][j] = work.value]
        /\ errorCode' = [errorCode EXCEPT ![d] = FirstMatch(errorVals'[d])]
        /\ UNCHANGED <<cur, reading, seen>>
    BY <2>1 DEF UpdateError
  <2>4. errorVals' \in [Devices -> [Codes -> Statuses \cup {Silent}]]
    BY <2>2, <2>3 DEF IInv, ObjectTypes
  <2>5. ObjectTypes'
    BY <1>2, <2>3, <2>4, FirstMatchIsCode DEF IInv, ObjectTypes
  <2>6. d <= installed => HeardIsStored'
    <3>1. SUFFICES ASSUME d <= installed, NEW e \in Devices
                   PROVE  Stored(e)'
      BY <1>1 DEF IInv, HeardIsStored
    <3> ~(d > installed)
      BY <1>2, <3>1, ConstantFacts
    <3>2. Stored(e)
      BY DEF IInv, HeardIsStored
    <3>3. CASE e # d
      BY <1>1, <2>3, <3>2, <3>3 DEF Stored, IInv, ObjectTypes
    <3>4. CASE e = d
      <4>1. heard'[d] = heard[d] \cup {Rule(j)} /\ Rule(j) # Sensor
        BY <1>1, <1>5, InstanceFacts DEF IInv, ObjectTypes
      <4>2. errorCode'[d] = FirstMatch(errorVals'[d])
        BY <2>3 DEF IInv, ObjectTypes
      <4>3. \A k \in Codes : Rule(k) \notin heard'[d] => errorVals'[d][k] = Silent
        BY <2>3, <3>2, <3>4, <4>1 DEF Stored, IInv, ObjectTypes
      <4>4. QED
        BY <1>1, <2>3, <3>2, <3>4, <4>1, <4>2, <4>3 DEF Stored
    <3>5. QED
      BY <3>3, <3>4
  <2>7. d = installed => Held(i)' = work.value
    BY <1>1, <2>1, <2>3 DEF Held, IInv, ObjectTypes
  <2>8. ASSUME NEW x \in Instances \ {i}
        PROVE  Held(x)' = Held(x)
    <3>1. CASE x = Level \/ x = Sensor
      BY <1>1, <2>3, <3>1, InstanceFacts DEF Held
    <3>2. ASSUME NEW k \in Codes, x = Rule(k)
          PROVE  Held(x)' = Held(x)
      <4>1. k # j /\ x # Level /\ x # Sensor /\ x[2] = k
        BY <1>5, <3>2, InstanceFacts
      <4>2. errorVals'[installed][k] = errorVals[installed][k]
        BY <1>2, <2>3, <4>1 DEF IInv, ObjectTypes
      <4>3. QED
        BY <1>1, <4>1, <4>2 DEF Held
    <3>3. QED
      BY <3>1, <3>2, InstanceFacts
  <2>9. \A x \in Instances : x[1] # i[1] => (IsAnnounced(x) => IsAnnounced(x)')
    BY <1>1, <2>1, <2>3, InstanceFacts DEF IsAnnounced
  <2>10. QED
    BY <2>5, <2>6, <2>7, <2>8, <2>9
<1>6. QED
  BY <1>1, <1>3, <1>4, <1>5, InstanceFacts

\* What dispatch works on.
LEMMA WorkInHand ==
  ASSUME IInv, work # Rest
  PROVE  /\ work \in [at : {"update", "notify"}, device : Devices, topic : Topics,
                    value : Values, todo : SUBSET Instances]
         /\ First(work.todo) \in work.todo
         /\ \A x \in Bound(work.topic) : x \in Instances /\ TopicOf(x) = work.topic
         /\ \A x \in Instances : TopicOf(x) = work.topic => x \in Bound(work.topic)
         /\ work.todo \subseteq Bound(work.topic)
         /\ \A x, y \in Bound(work.topic) : x[1] = y[1]
<1>1. work \in [at : {"update", "notify"}, device : Devices, topic : Topics,
                value : Values, todo : SUBSET Instances]
  BY DEF IInv, OtherTypes, Works
<1>2. work.todo # {} /\ work.todo \subseteq Bound(work.topic)
  BY DEF IInv, WorkIsBound
<1>3. First(work.todo) \in work.todo
  BY <1>1, <1>2, FirstIsMember
<1>4. QED
  BY <1>1, <1>2, <1>3, BoundIsTopic, BoundIsOfOneKind

LEMMA UpdateFromMQTTIInv == IInv /\ UpdateFromMQTT => IInv'
<1> SUFFICES ASSUME IInv, UpdateFromMQTT PROVE IInv'
  OBVIOUS
<1>1. work # Rest /\ work.at = "update"
  BY DEF UpdateFromMQTT, Rest
<1>2. PICK d \in Devices, i \in Instances, t \in Topics :
        d = work.device /\ i = First(work.todo) /\ t = work.topic
  BY <1>1, WorkInHand
<1>3. i \in work.todo /\ i \in Bound(t) /\ TopicOf(i) = t /\ work.value \in ValuesOf(t)
  BY <1>1, <1>2, WorkInHand DEF IInv, WorkIsBound
<1>4. d <= installed /\ (d < installed => heard[installed] = {}) /\ d \in Nat /\ installed \in Nat
  BY <1>1, <1>2, ConstantFacts DEF IInv, WorkIsBound, OtherTypes
<1>5. /\ ObjectTypes'
      /\ heard' = [heard EXCEPT ![d] = @ \cup {i}]
      /\ HeardIsStored'
      /\ d = installed => Held(i)' = work.value
      /\ \A x \in Instances \ {i} : Held(x)' = Held(x)
      /\ \A x \in Instances : x[1] # i[1] => (IsAnnounced(x) => IsAnnounced(x)')
  BY <1>2, <1>3, <1>4, UpdateOfObject
<1>6. UNCHANGED <<registry, installed, call, commands, plant, inbox, announced>> /\ work' = [work EXCEPT !.at = "notify"]
  BY DEF UpdateFromMQTT, objects, outside
<1>7. /\ work' \in Works /\ work' # Rest /\ work'.at = "notify" /\ work'.device = d
      /\ work'.topic = t /\ work'.value = work.value /\ work'.todo = work.todo
  BY <1>1, <1>2, <1>6, WorkInHand DEF Works, Rest
<1>8. \A x : InWork(x)' <=> InWork(x)
  BY <1>1, <1>2, <1>6, <1>7 DEF InWork
<1>9. (\A u : (Coming(u) => Coming(u)') /\ ValueNow(u)' = ValueNow(u)) /\ (Underway => Underway')
  BY <1>6 DEF Coming, ValueNow, Underway
<1>10. heard'[d] = heard[d] \cup {i} /\ heard[installed] \subseteq Instances /\ (d # installed => heard'[installed] = {})
  BY <1>4, <1>5 DEF IInv, ObjectTypes, OtherTypes
<1>11. OtherTypes'
  BY <1>6, <1>7 DEF IInv, OtherTypes
<1>12. LastIsCurrent'
  BY <1>6, ReportsFrame DEF IInv
<1>13. WorkIsBound'
  <2>1. Bound(t) = Bound(work.topic) /\ Bound(t) = Bound(work.topic)'
    BY <1>2, <1>7 DEF Bound
  <2>2. First(work.todo)' = i
    BY <1>2, <1>7 DEF First
  <2>3. Coming(work.topic)' \/ work'.value = ValueNow(work.topic)'
    BY <1>1, <1>2, <1>6, <1>7 DEF IInv, WorkIsBound, Coming, ValueNow
  <2>4. QED
    BY <1>1, <1>2, <1>3, <1>4, <1>6, <1>7, <1>10, <2>1, <2>2, <2>3 DEF IInv, WorkIsBound
<1>14. HeardTogether'
  <2>1. SUFFICES ASSUME d = installed, NEW x \in heard'[d], NEW y \in Instances, TopicOf(x) = TopicOf(y)
                 PROVE  y \in heard'[d] \/ InWork(y)'
    BY <1>6, <1>10 DEF HeardTogether, TopicOf
  <2>2. CASE x = i
    <3>1. y \in Bound(t)
      BY <1>1, <1>2, <1>3, <2>1, <2>2, WorkInHand
    <3>2. QED
      BY <1>1, <1>2, <1>8, <1>10, <2>1, <3>1 DEF IInv, WorkIsBound, InWork
  <2>3. CASE x \in heard[d]
    BY <1>8, <1>10, <2>1, <2>3 DEF IInv, HeardTogether
  <2>4. QED
    BY <1>10, <2>2, <2>3
<1>15. HeardAgrees'
  <2>1. SUFFICES ASSUME d = installed, NEW x \in heard'[d]
                 PROVE  (Agrees(x) \/ Coming(TopicOf(x)) \/ (InWork(x) /\ ~Updated(x)) \/ (x = Level /\ Underway))'
    BY <1>6, <1>10 DEF HeardAgrees
  <2>2. CASE x = i
    <3>1. Coming(t) \/ work.value = ValueNow(t)
      BY <1>1, <1>2 DEF IInv, WorkIsBound
    <3>2. TopicOf(x) = t /\ TopicOf(x)' = t
      BY <1>3, <2>2 DEF TopicOf
    <3>3. work.value = ValueNow(t) => Agrees(x)'
      BY <1>5, <1>9, <2>1, <2>2, <3>2 DEF Agrees
    <3>4. Coming(t) => Coming(TopicOf(x))'
      BY <1>9, <3>2 DEF Coming
    <3>5. QED
      BY <3>1, <3>3, <3>4
  <2>3. CASE x \in heard[d] /\ x # i
    <3>1. x \in Instances /\ TopicOf(x)' = TopicOf(x)
      BY <1>10, <2>1, <2>3 DEF TopicOf
    <3>2. Agrees(x) => Agrees(x)'
      BY <1>5, <1>9, <2>3, <3>1 DEF Agrees
    <3>3. Coming(TopicOf(x)) => Coming(TopicOf(x))'
      BY <1>9, <3>1 DEF Coming
    <3>4. ~Updated(x)'
      <4>1. First(work.todo)' = i
        BY <1>2, <1>7 DEF First
      <4>2. QED
        BY <2>3, <4>1 DEF Updated
    <3>5. QED
      BY <1>8, <1>9, <2>1, <2>3, <3>2, <3>3, <3>4 DEF IInv, HeardAgrees
  <2>4. QED
    BY <1>10, <2>1, <2>2, <2>3
<1>16. HeardIsAnnounced'
  <2>1. SUFFICES ASSUME d = installed, NEW x \in heard'[d]
                 PROVE  (\/ IsAnnounced(x)
                         \/ \E y \in Instances : InWork(y) /\ y[1] = x[1]
                         \/ x = Level /\ (Underway \/ Coming("level")))'
    BY <1>6, <1>10 DEF HeardIsAnnounced
  <2>2. CASE x[1] = i[1]
    BY <1>1, <1>2, <1>3, <1>8, <2>1, <2>2 DEF InWork
  <2>3. CASE x[1] # i[1]
    <3>1. x \in heard[d] /\ x \in Instances
      BY <1>10, <2>1, <2>3
    <3>2. IsAnnounced(x) => IsAnnounced(x)'
      BY <1>5, <2>3, <3>1
    <3>3. QED
      BY <1>8, <1>9, <2>1, <3>1, <3>2 DEF IInv, HeardIsAnnounced
  <2>4. QED
    BY <2>2, <2>3
<1>17. QED
  BY <1>5, <1>11, <1>12, <1>13, <1>14, <1>15, <1>16 DEF IInv

\* A callback announces the instance it is made for, and none falsely.
LEMMA CallbackAnnounces ==
  ASSUME IInv, OnUpdate, NEW d \in Devices, NEW i \in Instances,
         d = work.device, i = First(work.todo)
  PROVE  /\ announced' \in [level : Levels \cup Steps, sensor : Readings \cup {Unseen},
                           error : Codes \cup {NoError}]
         /\ d = installed =>
              \A x \in heard[d] : (IsAnnounced(x) \/ x[1] = i[1]) => IsAnnounced(x)'
<1> DEFINE q == QueryState(d)
<1>1. announced' = Announce(q, i) /\ UNCHANGED <<cur, reading, seen, errorCode, installed, heard>>
  BY DEF OnUpdate, state, objects
<1>2. /\ q.level = cur[d] /\ q.level \in Levels \cup Steps
      /\ q.sensor = IF seen[d] THEN reading[d] ELSE Unseen
      /\ q.sensor \in Readings \cup {Unseen}
      /\ q.error = errorCode[d] /\ q.error \in Codes \cup {NoError}
  BY DEF QueryState, IInv, ObjectTypes, HeardIsStored, Stored
<1>3. announced \in [level : Levels \cup Steps, sensor : Readings \cup {Unseen}, error : Codes \cup {NoError}]
  BY DEF IInv, OtherTypes
<1>4. Sensor \in heard[d] => seen[d] /\ reading[d] # Unseen
  BY ConstantFacts DEF IInv, HeardIsStored, Stored
<1>5. heard[d] \subseteq Instances
  BY DEF IInv, ObjectTypes
<1> HIDE DEF q
<1>6. CASE i = Level
  <2>1. announced' = [announced EXCEPT !.level = q.level]
    BY <1>1, <1>6, InstanceFacts DEF Announce
  <2>2. announced'.level = cur[d] /\ announced'.sensor = announced.sensor /\ announced'.error = announced.error
    BY <1>2, <1>3, <2>1
  <2>3. QED
    BY <1>1, <1>2, <1>3, <1>5, <1>6, <2>1, <2>2, InstanceFacts DEF IsAnnounced
<1>7. CASE i = Sensor
  <2>1. announced' = [announced EXCEPT !.sensor = q.sensor]
    BY <1>1, <1>7, InstanceFacts DEF Announce
  <2>2. announced'.level = announced.level /\ announced'.sensor = q.sensor /\ announced'.error = announced.error
    BY <1>2, <1>3, <2>1
  <2>3. QED
    BY <1>1, <1>2, <1>3, <1>4, <1>5, <1>7, <2>1, <2>2, InstanceFacts DEF IsAnnounced
<1>8. CASE i # Level /\ i # Sensor
  <2>1. announced' = [level  |-> q.level,
                      sensor |-> IF q.sensor = Unseen THEN announced.sensor ELSE q.sensor,
                      error  |-> q.error]
    BY <1>1, <1>8 DEF Announce
  <2>2. announced'.level = cur[d] /\ announced'.error = errorCode[d] /\ (Sensor \in heard[d] => announced'.sensor = reading[d])
    BY <1>2, <1>4, <2>1
  <2>3. QED
    BY <1>1, <1>2, <1>3, <1>5, <2>1, <2>2, InstanceFacts DEF IsAnnounced
<1>9. QED
  BY <1>6, <1>7, <1>8

LEMMA OnUpdateIInv == IInv /\ OnUpdate => IInv'
<1> SUFFICES ASSUME IInv, OnUpdate PROVE IInv'
  OBVIOUS
<1>1. work # Rest /\ work.at = "notify"
  BY DEF OnUpdate, Rest
<1>2. PICK d \in Devices, i \in Instances, t \in Topics :
        d = work.device /\ i = First(work.todo) /\ t = work.topic
  BY <1>1, WorkInHand
<1>3. i \in work.todo /\ i \in Bound(t) /\ i \in heard[d]
  BY <1>1, <1>2, WorkInHand DEF IInv, WorkIsBound
<1>4. d <= installed /\ (d < installed => heard[installed] = {}) /\ d \in Nat /\ installed \in Nat
  BY <1>1, <1>2, ConstantFacts DEF IInv, WorkIsBound, OtherTypes
<1>5. /\ announced' \in [level : Levels \cup Steps, sensor : Readings \cup {Unseen}, error : Codes \cup {NoError}]
      /\ d = installed => \A x \in heard[d] : (IsAnnounced(x) \/ x[1] = i[1]) => IsAnnounced(x)'
  BY <1>2, CallbackAnnounces
<1>6. /\ UNCHANGED <<state, objects, call, commands, plant, inbox, heard>>
      /\ work' = IF work.todo = {i} THEN Rest ELSE [work EXCEPT !.at = "update", !.todo = @ \ {i}]
  BY <1>2 DEF OnUpdate, outside
<1>7. work' \in Works
  BY <1>1, <1>6, WorkInHand DEF Works
<1>8. work' # Rest => /\ work'.at = "update" /\ work'.device = d /\ work'.topic = t
                      /\ work'.value = work.value /\ work'.todo = work.todo \ {i} /\ work'.todo # {}
  BY <1>1, <1>2, <1>3, <1>6, WorkInHand
<1>9. \A x : InWork(x) /\ x # i => InWork(x)' /\ ~Updated(x)'
  <2>1. SUFFICES ASSUME NEW x, InWork(x), x # i PROVE InWork(x)' /\ ~Updated(x)'
    OBVIOUS
  <2>2. work.todo # {i}
    BY <2>1 DEF InWork
  <2>3. work' = [work EXCEPT !.at = "update", !.todo = @ \ {i}]
    BY <1>6, <2>2
  <2>4. work'.at = "update" /\ work'.device = d /\ work'.todo = work.todo \ {i}
    BY <1>1, <1>2, <2>3, WorkInHand
  <2>5. installed' = installed /\ work' # Rest
    BY <1>6, <2>4 DEF objects, Rest
  <2>6. QED
    BY <1>2, <2>1, <2>4, <2>5 DEF InWork, Updated
<1>10. (\A u : (Coming(u) => Coming(u)') /\ ValueNow(u)' = ValueNow(u)) /\ (Underway => Underway')
  BY <1>6 DEF Coming, ValueNow, Underway, state, objects
<1>11. ObjectTypes' /\ OtherTypes'
  BY <1>5, <1>6, <1>7 DEF IInv, ObjectTypes, OtherTypes, state, objects
<1>12. WorkIsBound'
  <2>1. SUFFICES ASSUME work' # Rest PROVE WorkIsBound'
    BY DEF WorkIsBound
  <2>2. Bound(t) = Bound(work.topic) /\ Bound(t) = Bound(work.topic)'
    BY <1>2, <1>8, <2>1 DEF Bound
  <2>3. Coming(work.topic)' \/ work'.value = ValueNow(work.topic)'
    BY <1>1, <1>2, <1>6, <1>8, <2>1 DEF IInv, WorkIsBound, Coming, ValueNow
  <2>4. /\ work.value \in ValuesOf(t) /\ work.todo \subseteq Bound(t)
        /\ Bound(t) \ work.todo \subseteq heard[d]
    BY <1>1, <1>2 DEF IInv, WorkIsBound
  <2>5. UNCHANGED <<installed, heard>>
    BY <1>6 DEF objects
  <2>6. QED
    BY <1>3, <1>4, <1>8, <2>1, <2>2, <2>3, <2>4, <2>5 DEF WorkIsBound
<1>13. UNCHANGED <<installed, heard, cur, reading, errorVals, errorCode>>
  BY <1>6 DEF objects, state
<1>14. HeardTogether'
  <2>1. SUFFICES ASSUME NEW x \in heard[installed], NEW y \in Instances, TopicOf(x) = TopicOf(y)
                 PROVE  y \in heard[installed] \/ InWork(y)'
    BY <1>13 DEF HeardTogether, TopicOf
  <2>2. QED
    BY <1>2, <1>3, <1>9, <2>1 DEF IInv, HeardTogether, InWork
<1>15. HeardAgrees'
  <2>1. SUFFICES ASSUME NEW x \in heard[installed]
                 PROVE  (Agrees(x) \/ Coming(TopicOf(x)) \/ (InWork(x) /\ ~Updated(x)) \/ (x = Level /\ Underway))'
    BY <1>13 DEF HeardAgrees
  <2>2. Agrees(x) => Agrees(x)'
    BY <1>10, <1>13 DEF Agrees, Held, TopicOf
  <2>3. Coming(TopicOf(x)) => Coming(TopicOf(x))'
    BY <1>10 DEF TopicOf
  <2>4. InWork(x) /\ ~Updated(x) => x # i
    BY <1>1, <1>2 DEF Updated
  <2>5. QED
    BY <1>9, <1>10, <2>1, <2>2, <2>3, <2>4 DEF IInv, HeardAgrees
<1>16. HeardIsAnnounced'
  <2>1. SUFFICES ASSUME d = installed, NEW x \in heard[d]
                 PROVE  IsAnnounced(x)' \/ (x = Level /\ (Underway \/ Coming("level")))'
    <3>1. d # installed => heard'[installed'] = {}
      BY <1>4, <1>13
    <3>2. QED
      BY <1>13, <3>1 DEF HeardIsAnnounced
  <2>2. \A y : InWork(y) => y[1] = i[1]
    BY <1>1, <1>2, <1>3, WorkInHand DEF InWork
  <2>3. QED
    BY <1>5, <1>10, <2>1, <2>2 DEF IInv, HeardIsAnnounced
<1>17. QED
  BY <1>6, <1>11, <1>12, <1>14, <1>15, <1>16, ReportsFrame, StoredFrame DEF IInv, state, objects

-----------------------------------------------------------------------------
(* A reload: the new objects were told nothing.                            *)

LEMMA StoreRegistryIInv == IInv /\ StoreRegistry => IInv'
<1> SUFFICES ASSUME IInv, StoreRegistry PROVE IInv'
  OBVIOUS
<1> USE DEF IInv, StoreRegistry, state, outside
<1>1. registry' \in Devices /\ installed <= registry'
  BY ConstantFacts DEF OtherTypes, Devices
<1>2. ObjectTypes' /\ OtherTypes'
  BY <1>1 DEF ObjectTypes, OtherTypes
<1>3. HeardIsStored'
  BY <1>1 DEF HeardIsStored, Stored
<1>4. Underway => Underway'
  BY DEF Underway
<1>5. QED
  BY <1>2, <1>3, <1>4, ReportsFrame, WorkFrame, TogetherFrame, AgreesFrame, AnnouncedFrame

LEMMA ResyncIInv == IInv /\ Resync => IInv'
<1> SUFFICES ASSUME IInv, Resync PROVE IInv'
  OBVIOUS
<1> USE DEF IInv, Resync, state, outside
<1>1. /\ installed' = registry /\ registry \in Devices /\ installed < registry
      /\ installed \in Nat /\ registry \in Nat /\ Devices \subseteq Nat
  BY ConstantFacts DEF OtherTypes, HeardIsStored
<1>2. heard'[installed'] = {}
  BY <1>1 DEF HeardIsStored, Stored
<1>3. ObjectTypes' /\ OtherTypes'
  BY <1>1 DEF ObjectTypes, OtherTypes
<1>4. HeardIsStored'
  <2>1. ASSUME NEW d \in Devices
        PROVE  Stored(d)'
    <3>1. d > installed' => d > installed
      BY <1>1
    <3>2. QED
      BY <3>1 DEF HeardIsStored, Stored
  <2>2. QED
    BY <1>1, <2>1 DEF HeardIsStored
<1>5. WorkIsBound'
  <2>1. SUFFICES ASSUME work # Rest PROVE WorkIsBound'
    BY DEF WorkIsBound
  <2>2. work.device \in Nat /\ work.device <= installed
    BY <1>1, <2>1, WorkInHand DEF WorkIsBound
  <2>3. work.device <= installed'
    BY <1>1, <2>2
  <2>4. QED
    BY <1>2, <2>1, <2>3 DEF WorkIsBound, Coming, ValueNow
<1>6. HeardTogether' /\ HeardAgrees' /\ HeardIsAnnounced'
  BY <1>2 DEF HeardTogether, HeardAgrees, HeardIsAnnounced
<1>7. QED
  BY <1>3, <1>4, <1>5, <1>6, ReportsFrame

LEMMA StepIInv == IInv /\ [Next]_vars => IInv'
<1> SUFFICES ASSUME IInv, [Next]_vars PROVE IInv'
  OBVIOUS
<1>1. CASE UNCHANGED vars
  <2>1. Underway => Underway'
    BY <1>1 DEF vars, outside, Underway
  <2>2. ObjectTypes' /\ OtherTypes'
    BY <1>1 DEF vars, state, objects, outside, IInv, ObjectTypes, OtherTypes
  <2>3. QED
    BY <1>1, <2>1, <2>2, ReportsFrame, WorkFrame, StoredFrame, TogetherFrame, AgreesFrame, AnnouncedFrame
       DEF vars, state, objects, outside, IInv
<1>2. ASSUME NEW r \in Requests, NEW v \in Levels, SetCapabilityState(r, v, FALSE)
      PROVE  IInv'
  BY <1>2, SetCapabilityStateIInv
<1>3. ASSUME NEW r \in Requests, NEW v \in Steps, SetCapabilityState(r, v, TRUE)
      PROVE  IInv'
  BY <1>3, SetCapabilityStateIInv
<1>4. QED
  BY <1>1, <1>2, <1>3, FindIInv, PublishIInv, ExecuteIInv, ChangeIInv, ReceiveIInv, UpdateFromMQTTIInv,
     OnUpdateIInv, StoreRegistryIInv, ResyncIInv DEF Next

-----------------------------------------------------------------------------
LEMMA Invariance == Spec => []IInv
  BY InitIInv, StepIInv, PTL DEF Spec

\* At rest nothing is left of the chain.
LEMMA AtRest ==
  ASSUME IInv, Quiet
  PROVE  /\ installed = registry /\ registry \in Devices
         /\ ~Underway
         /\ \A t : ~Coming(t)
         /\ \A x : ~InWork(x)
<1>1. Len(inbox) = 0
  BY DEF Quiet
<1>2. QED
  BY <1>1 DEF IInv, OtherTypes, Quiet, Underway, Coming, InWork, Idle

\* Device objects, the messages under way and what was announced have their
\* types, and neither a query nor a callback shows a reading of a sensor that
\* was never heard.
THEOREM TypeCorrect == Spec => []TypeOK
<1>1. IInv => TypeOK
  BY DEF IInv, ObjectTypes, OtherTypes, HeardIsStored, Stored, QueryState, TypeOK
<1>2. QED
  BY Invariance, <1>1, PTL

\* At rest a device object that was heard agrees with the device: however
\* many actions wrote cur and published in whatever order, and whatever
\* reloads replaced the object meanwhile.
THEOREM StateFollows == Spec => []StateFollowsDevice
<1>1. IInv => StateFollowsDevice
  <2>1. SUFFICES ASSUME IInv, Quiet
                 PROVE  /\ Level \in heard[registry] => Message(cur[registry], FALSE).value = plant.level
                        /\ Sensor \in heard[registry] => reading[registry] = plant.sensor
    BY DEF StateFollowsDevice
  <2>2. \A x \in heard[registry] : Held(x) = ValueNow(TopicOf(x))
    BY <2>1, AtRest DEF IInv, HeardAgrees, Agrees
  <2>3. QED
    BY <2>1, <2>2, AtRest, InstanceFacts, TopicFacts DEF Held, ValueNow
<1>2. QED
  BY Invariance, <1>1, PTL

\* At rest the error code is that of the first rule that applies, for any
\* rules, whichever of them share a topic.
THEOREM ErrorFollows == Spec => []ErrorFollowsDevice
<1> DEFINE Known(t) == \E j \in Codes : Rules[j].topic = t /\ Rule(j) \in heard[registry]
           Now == [i \in Codes |-> IF Known(Rules[i].topic) THEN plant.status[Rules[i].topic] ELSE Silent]
<1>1. ASSUME IInv, Quiet
      PROVE  errorCode[registry] = IF \E t \in RuleTopics : Known(t) THEN FirstMatch(Now) ELSE NoError
  <2>1. \A x \in heard[registry] : Held(x) = ValueNow(TopicOf(x))
    BY <1>1, AtRest DEF IInv, HeardAgrees, Agrees
  <2>2. ASSUME NEW i \in Codes
        PROVE  errorVals[registry][i] = Now[i]
    <3>1. CASE Known(Rules[i].topic)
      <4>1. Rule(i) \in heard[registry]
        BY <1>1, <3>1, AtRest, InstanceFacts, TopicFacts DEF IInv, HeardTogether
      <4>2. Held(Rule(i)) = errorVals[registry][i]
        BY <1>1, AtRest, InstanceFacts DEF Held
      <4>3. ValueNow(TopicOf(Rule(i))) = plant.status[Rules[i].topic]
        BY TopicFacts DEF ValueNow
      <4>4. QED
        BY <2>1, <3>1, <4>1, <4>2, <4>3
    <3>2. CASE ~Known(Rules[i].topic)
      BY <1>1, <3>2, AtRest DEF IInv, HeardIsStored, Stored
    <3>3. QED
      BY <3>1, <3>2
  <2>3. errorVals[registry] = Now
    BY <1>1, <2>2, AtRest DEF IInv, ObjectTypes
  <2>4. (\E t \in RuleTopics : Known(t)) <=> \E i \in Codes : Rule(i) \in heard[registry]
    BY TopicFacts
  <2> HIDE DEF Now, Known
  <2>5. QED
    BY <1>1, <2>3, <2>4, AtRest DEF IInv, HeardIsStored, Stored
<1>2. IInv => ErrorFollowsDevice
  BY <1>1 DEF ErrorFollowsDevice
<1>3. QED
  BY Invariance, <1>2, PTL

\* At rest the last callback about each part that was heard is what a query
\* answers: none is swallowed, and an action that overtakes one does not
\* leave Yandex with what it replaced.
THEOREM AnnouncedStaysCurrent == Spec => []AnnouncedIsCurrent
<1>1. IInv => AnnouncedIsCurrent
  <2>1. SUFFICES ASSUME IInv, Quiet
                 PROVE  /\ Level \in heard[registry] => announced.level = cur[registry]
                        /\ Sensor \in heard[registry] => announced.sensor = reading[registry] /\ seen[registry]
                        /\ (\E i \in Codes : Rule(i) \in heard[registry]) => announced.error = errorCode[registry]
    BY DEF AnnouncedIsCurrent, QueryState
  <2>2. \A x \in heard[registry] : IsAnnounced(x)
    BY <2>1, AtRest DEF IInv, HeardIsAnnounced
  <2>3. QED
    BY <2>1, <2>2, AtRest, InstanceFacts DEF IsAnnounced, IInv, HeardIsStored, Stored
<1>2. QED
  BY Invariance, <1>1, PTL

=============================================================================
