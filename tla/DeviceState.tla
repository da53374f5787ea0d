---------------------------- MODULE DeviceState ----------------------------
(***************************************************************************)
(* The state of one MQTT device (internal/device/device.go) between the    *)
(* physical device and Yandex: provider-API actions write it and publish   *)
(* commands (yandex/api.go), the bridge's dispatch applies the reports of  *)
(* the device (mqtt/bridge.go), the notifier announces what changed        *)
(* (yandex/notify.go), and a reload replaces the device object by a new    *)
(* one that knows nothing (device/manager.go).                             *)
(*                                                                         *)
(* The device has a range capability, possibly inverted, a sensor, and     *)
(* error rules, which may share a topic.  Actions run concurrently with    *)
(* each other and with dispatch, which paho calls for one message at a     *)
(* time; a Device has no lock.  The device (external) executes commands in *)
(* order and reports each; broker and link are reliable here.              *)
(***************************************************************************)
EXTENDS Integers, Sequences

CONSTANTS
    Requests,   \* concurrent provider-API requests
    LevelMin, LevelMax, \* parameters.range
    Steps,      \* amounts of a relative action
    Inverted,   \* config.Capability.Invert
    Readings,   \* what the sensor can report; its default is not one
    Statuses,   \* what the sources of the error rules report
    Rules,      \* the device's error rules, in order: [topic, value]
    MaxActions, \* bounds the actions
    MaxChanges, \* bounds the changes the device makes by itself
    MaxDevices  \* bounds the device objects: MaxDevices - 1 reloads

Default == 0    \* the "float" of initState

ASSUME LevelAssumption == LevelMin \in Int /\ LevelMax \in Int /\ LevelMin <= LevelMax
ASSUME StepsAssumption == Steps \subseteq Int
ASSUME ReadingsAssumption == Readings \subseteq Nat \ {Default} /\ Readings # {}
\* The sources of the error rules are topics of their own.
ASSUME RulesAssumption ==
    /\ Rules \in Seq([topic : STRING, value : STRING])
    /\ \A i \in 1 .. Len(Rules) : Rules[i].topic \notin {"level", "sensor"}
ASSUME BoundsAssumption ==
    MaxActions \in Nat /\ MaxChanges \in Nat /\ MaxDevices \in Nat \ {0}

Levels  == LevelMin .. LevelMax
Devices == 1 .. MaxDevices
Codes   == 1 .. Len(Rules)      \* a rule's error code is its position
NoError == 0
Unseen  == -1                   \* a reading that is left out of an answer

Silent  == ""                   \* what the map has for a source nobody has heard

\* The instances of the device, and the topics their state comes from.
Level   == <<"level", 0>>
Sensor  == <<"sensor", 0>>
Rule(i) == <<"rule", i>>
Instances  == {Level, Sensor} \cup {Rule(i) : i \in Codes}
RuleTopics == {Rules[i].topic : i \in Codes}

VARIABLES
    cur,        \* value of the capability's cur, of each device object
    reading,    \* value of the sensor's cur
    seen,       \* propState.seen
    errorVals,  \* the last value of each rule's source
    errorCode,
    registry,   \* the device object behind Manager.reg
    installed,  \* the device object in the bridge's tables
    call,       \* what each request is doing
    work,       \* the message dispatch works on
    commands,   \* published and not yet executed
    inbox,      \* reports on their way to the bridge
    plant,      \* the physical device
    actions, changes,   \* counted up to their bounds
    announced,  \* the last callback made about each part of the state
    heard       \* history: instances each device object got a report for

state    == <<cur, reading, seen, errorVals, errorCode>>
objects  == <<registry, installed>>
outside  == <<commands, plant>>
counters == <<actions, changes>>
vars == <<state, objects, call, work, outside, inbox, counters, announced, heard>>

Idle == [at |-> "idle"]
Rest == [at |-> "rest"]

Init ==
    /\ cur       = [d \in Devices |-> LevelMin]
    /\ reading   = [d \in Devices |-> Default]
    /\ seen      = [d \in Devices |-> FALSE]
    /\ errorVals = [d \in Devices |-> [i \in Codes |-> Silent]]
    /\ errorCode = [d \in Devices |-> NoError]
    /\ registry  = 1
    /\ installed = 1
    /\ call      = [r \in Requests |-> Idle]
    /\ work      = Rest
    /\ commands  = <<>>
    /\ inbox     = <<>>
    /\ plant \in [level : Levels, sensor : Readings, status : [RuleTopics -> Statuses]]
    /\ actions = 0 /\ changes = 0
    /\ announced = [level |-> LevelMin, sensor |-> Unseen, error |-> NoError]
    /\ heard     = [d \in Devices |-> {}]

-----------------------------------------------------------------------------
(* Conversions.                                                            *)

invertRange(v) == LevelMin + LevelMax - v

\* The payload of a command: the value, flipped for an inverted range.
Message(v, relative) ==
    [relative |-> relative,
     value    |-> IF ~Inverted THEN v ELSE IF relative THEN -v ELSE invertRange(v)]

\* Mutant: an inverted range is not flipped on the way in.
FromPayloadMutant(v) == v
FromPayload(v) == IF Inverted THEN invertRange(v) ELSE v

\* The first rule, in order, whose source has its trigger value.
FirstMatch(vals) ==
    LET active == {i \in Codes : vals[i] = Rules[i].value} IN
    IF active = {} THEN NoError ELSE CHOOSE i \in active : \A j \in active : i <= j

\* What a query answers; a sensor that was never heard is left out.
QueryStateMutant(d) == [level |-> cur[d], sensor |-> reading[d], error |-> errorCode[d]]
QueryState(d) == [level  |-> cur[d],
                  sensor |-> IF seen[d] THEN reading[d] ELSE Unseen,
                  error  |-> errorCode[d]]

-----------------------------------------------------------------------------
(* A provider-API action.                                                  *)

Find(r) ==
    /\ call[r] = Idle
    /\ actions < MaxActions
    /\ actions' = actions + 1
    /\ call' = [call EXCEPT ![r] = [at |-> "found", device |-> registry]]
    /\ UNCHANGED <<state, objects, work, outside, inbox, changes, announced, heard>>

\* cur takes the value of the action, for a relative one the amount.
SetCapabilityState(r, v, relative) ==
    /\ call[r].at = "found"
    /\ cur' = [cur EXCEPT ![call[r].device] = v]
    /\ call' = [call EXCEPT ![r] = [at |-> "publish", message |-> Message(v, relative)]]
    /\ UNCHANGED <<reading, seen, errorVals, errorCode, objects, work, outside, inbox,
                   counters, announced, heard>>

Publish(r) ==
    /\ call[r].at = "publish"
    /\ commands' = Append(commands, call[r].message)
    /\ call' = [call EXCEPT ![r] = Idle]
    /\ UNCHANGED <<state, objects, work, plant, inbox, counters, announced, heard>>

-----------------------------------------------------------------------------
(* The physical device.                                                    *)

Clamp(v) == IF v < LevelMin THEN LevelMin ELSE IF v > LevelMax THEN LevelMax ELSE v

\* The report of a part of the device: its topic and its value.
Report(topic, v) == inbox' = Append(inbox, [topic |-> topic, value |-> v])

Execute ==
    LET m == Head(commands)
        v == Clamp(IF m.relative THEN plant.level + m.value ELSE m.value)
    IN
    /\ commands # <<>>
    /\ commands' = Tail(commands)
    /\ plant' = [plant EXCEPT !.level = v]
    /\ Report("level", v)
    /\ UNCHANGED <<state, objects, call, work, counters, announced, heard>>

Change ==
    /\ changes < MaxChanges
    /\ changes' = changes + 1
    /\ \/ \E v \in Levels : plant' = [plant EXCEPT !.level = v] /\ Report("level", v)
       \/ \E v \in Readings : plant' = [plant EXCEPT !.sensor = v] /\ Report("sensor", v)
       \/ \E t \in RuleTopics, v \in Statuses :
            plant' = [plant EXCEPT !.status[t] = v] /\ Report(t, v)
    /\ UNCHANGED <<state, objects, call, work, commands, actions, announced, heard>>

-----------------------------------------------------------------------------
(* dispatch: every instance bound to the topic is updated and announced,   *)
(* one after the other, on the device objects found when it began.         *)

\* Mutant: only the first binding of a topic is kept.
BoundMutant(topic) ==
    CASE topic = "level"  -> {Level}
      [] topic = "sensor" -> {Sensor}
      [] OTHER -> {Rule(CHOOSE i \in Codes : Rules[i].topic = topic)}

\* The instances bound to a topic, and the one that comes first.
Bound(topic) ==
    CASE topic = "level"  -> {Level}
      [] topic = "sensor" -> {Sensor}
      [] OTHER -> {Rule(i) : i \in {j \in Codes : Rules[j].topic = topic}}

First(todo) == CHOOSE x \in todo : \A y \in todo : x[2] <= y[2]

Receive ==
    LET m == Head(inbox) IN
    /\ work = Rest
    /\ inbox # <<>>
    /\ inbox' = Tail(inbox)
    /\ work' = [at |-> "update", device |-> installed, topic |-> m.topic, value |-> m.value,
                todo |-> Bound(m.topic)]
    /\ UNCHANGED <<state, objects, call, outside, counters, announced, heard>>

UpdateError(d, i) ==
    /\ errorVals' = [errorVals EXCEPT ![d][i] = work.value]
    /\ errorCode' = [errorCode EXCEPT ![d] = FirstMatch(errorVals'[d])]
    /\ UNCHANGED <<cur, reading, seen>>

UpdateSensor(d) ==
    /\ reading' = [reading EXCEPT ![d] = work.value]
    /\ seen' = [seen EXCEPT ![d] = TRUE]
    /\ UNCHANGED <<cur, errorVals, errorCode>>

UpdateLevel(d) ==
    /\ cur' = [cur EXCEPT ![d] = FromPayload(work.value)]
    /\ UNCHANGED <<reading, seen, errorVals, errorCode>>

UpdateFromMQTT ==
    LET i == First(work.todo) IN
    /\ work.at = "update"
    /\ CASE i = Level  -> UpdateLevel(work.device)
         [] i = Sensor -> UpdateSensor(work.device)
         [] OTHER      -> UpdateError(work.device, i[2])
    /\ heard' = [heard EXCEPT ![work.device] = @ \cup {i}]
    /\ work' = [work EXCEPT !.at = "notify"]
    /\ UNCHANGED <<objects, call, outside, inbox, counters, announced>>

\* Mutant: a status that clears the error is not announced.
AnnounceMutant(q, i) ==
    CASE i = Level  -> [announced EXCEPT !.level = q.level]
      [] i = Sensor -> [announced EXCEPT !.sensor = q.sensor]
      [] OTHER      -> IF q.error = NoError THEN announced ELSE
                       [level  |-> q.level,
                        sensor |-> IF q.sensor = Unseen THEN announced.sensor ELSE q.sensor,
                        error  |-> q.error]

\* A status is announced with the full state, anything else alone.
Announce(q, i) ==
    CASE i = Level  -> [announced EXCEPT !.level = q.level]
      [] i = Sensor -> [announced EXCEPT !.sensor = q.sensor]
      [] OTHER      -> [level  |-> q.level,
                        sensor |-> IF q.sensor = Unseen THEN announced.sensor ELSE q.sensor,
                        error  |-> q.error]

OnUpdate ==
    LET i == First(work.todo) IN
    /\ work.at = "notify"
    /\ announced' = Announce(QueryState(work.device), i)
    /\ work' = IF work.todo = {i} THEN Rest
               ELSE [work EXCEPT !.at = "update", !.todo = @ \ {i}]
    /\ UNCHANGED <<state, objects, call, outside, inbox, counters, heard>>

-----------------------------------------------------------------------------
(* A reload: new device objects, then the registry, then the bridge.       *)

StoreRegistry ==
    /\ registry = installed
    /\ registry < MaxDevices
    /\ registry' = registry + 1
    /\ UNCHANGED <<state, installed, call, work, outside, inbox, counters, announced, heard>>

Resync ==
    /\ registry # installed
    /\ installed' = registry
    /\ UNCHANGED <<state, registry, call, work, outside, inbox, counters, announced, heard>>

-----------------------------------------------------------------------------
Next ==
    \/ \E r \in Requests : Find(r)
    \/ \E r \in Requests, v \in Levels : SetCapabilityState(r, v, FALSE)
    \/ \E r \in Requests, v \in Steps : SetCapabilityState(r, v, TRUE)
    \/ \E r \in Requests : Publish(r)
    \/ Execute
    \/ Change
    \/ Receive
    \/ UpdateFromMQTT
    \/ OnUpdate
    \/ StoreRegistry
    \/ Resync

Spec == Init /\ [][Next]_vars

-----------------------------------------------------------------------------
Quiet ==
    /\ \A r \in Requests : call[r] = Idle
    /\ work = Rest
    /\ commands = <<>>
    /\ inbox = <<>>
    /\ registry = installed

\* Every variable has its type; no answer and no callback contains a sensor
\* reading the device never made.
TypeOK ==
    /\ cur       \in [Devices -> Levels \cup Steps]
    /\ reading   \in [Devices -> Readings \cup {Default}]
    /\ seen      \in [Devices -> BOOLEAN]
    /\ errorVals \in [Devices -> [Codes -> Statuses \cup {Silent}]]
    /\ errorCode \in [Devices -> Codes \cup {NoError}]
    /\ registry  \in Devices
    /\ installed \in Devices
    /\ plant.level \in Levels
    /\ heard     \in [Devices -> SUBSET Instances]
    /\ announced.sensor \in Readings \cup {Unseen}
    /\ \A d \in Devices : QueryState(d).sensor \in Readings \cup {Unseen}

\* At rest the device object of the registry agrees with the device, once a
\* report has reached it: sending the device its own level would not move
\* it, and the reading is the sensor's, whatever the order in which requests wrote cur and
\* published, whichever object they held across a reload, the report of the
\* last command puts things right.
StateFollowsDevice ==
    LET d == registry IN
    Quiet => /\ Level \in heard[d] => Message(cur[d], FALSE).value = plant.level
             /\ Sensor \in heard[d] => reading[d] = plant.sensor

\* At rest, once a source was heard, the error code is that of the first rule
\* whose source has its trigger value now, also when several rules share a
\* topic and their values have come and gone.  A source nobody has heard
\* counts as empty.
ErrorFollowsDevice ==
    LET d == registry
        known(t) == \E j \in Codes : Rules[j].topic = t /\ Rule(j) \in heard[d]
        now == [i \in Codes |-> IF known(Rules[i].topic)
                                  THEN plant.status[Rules[i].topic] ELSE Silent]
    IN Quiet => errorCode[d] = IF \E t \in RuleTopics : known(t) THEN FirstMatch(now) ELSE NoError

\* At rest the last callback about a part of the state carries the state a
\* query would answer: no update is swallowed, and no action that overtook
\* one leaves Yandex with what it replaced.
AnnouncedIsCurrent ==
    LET d == registry
        q == QueryState(d)
    IN Quiet => /\ Level \in heard[d] => announced.level = q.level
                /\ Sensor \in heard[d] => announced.sensor = q.sensor
                /\ (\E i \in Codes : Rule(i) \in heard[d]) => announced.error = q.error

=============================================================================
