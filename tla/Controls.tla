------------------------------ MODULE Controls ------------------------------
(***************************************************************************)
(* What a device of the catalog does with values (device/device.go,        *)
(* mapping.go, convert.go): the command an action of Yandex sends to an    *)
(* openHAB item, and the value a report of the item gives.  Both are       *)
(* functions of the device's definition; the state they are kept in, and   *)
(* the relative changes, are DeviceState's.                                *)
(*                                                                         *)
(* A device is a record: its capabilities and properties in order, the set *)
(* of its bindings [kind, inst, item], the set of its value mappings       *)
(* [act, inst, pairs] (each at most once), and "equipment", the Equipment  *)
(* item a composite draft stands for.                                      *)
(***************************************************************************)
EXTENDS Infer

Nothing == ""

Bound(d, kind, inst) ==
    LET items == {b.item : b \in {x \in d.bind : x.kind = kind /\ x.inst = inst}}
    IN IF items = {} THEN Nothing ELSE CHOOSE i \in items : TRUE

Pairs(d, act, inst) ==
    LET tables == {m.pairs : m \in {x \in d.maps : x.act = act /\ x.inst = inst}}
    IN IF tables = {} THEN <<>> ELSE CHOOSE t \in tables : TRUE

-----------------------------------------------------------------------------
(* Values.                                                                 *)

IsNumber(v) == v[1] \in {"num", "text", "bool"}

toFloatOr0(v) == IF v[1] = "bool" THEN (IF v[2] THEN 1 ELSE 0)
                 ELSE IF IsNumber(v) THEN v[2] ELSE 0

toBool(v) ==
    \/ v \in {Bool(TRUE), Str("true"), Str("on"), Str("ON"), Num(1), Text(1)}
    \/ IsNumber(v) /\ toFloatOr0(v) > 1

Abs(n) == IF n < 0 THEN -n ELSE n

\* The first of the values whose number is nearest.
closest(v, values) ==
    LET off(i) == Abs(toFloatOr0(values[i]) - toFloatOr0(v))
    IN values[CHOOSE i \in DOMAIN values : \A j \in DOMAIN values :
                 off(i) < off(j) \/ (off(i) = off(j) /\ i <= j)]

\* What "to" holds where "from" first holds v; v itself if it does not.
Translate(v, from, to) ==
    LET at == {i \in DOMAIN from : from[i] = v}
    IN IF at = {} THEN v ELSE to[CHOOSE i \in at : \A j \in at : i <= j]

mapValue(d, v, act, inst, outbound) ==
    LET pairs  == Pairs(d, act, inst)
        yandex == [i \in DOMAIN pairs |-> pairs[i][1]]
        device == [i \in DOMAIN pairs |-> pairs[i][2]]
    IN CASE pairs = <<>> \/ (act = "color_setting" /\ inst = "hsv") -> v
         [] pairs # <<>> /\ outbound -> Translate(v, yandex, device)
         [] OTHER -> Translate(IF inst \in {"fan_speed", "work_speed"} THEN closest(v, device) ELSE v,
                               device, yandex)

tempRange(params) == IF "temperature_k" \in DOMAIN params THEN params.temperature_k
                     ELSE <<2700, 6500>>

convertToYandexValue(v, act, inst, params) ==
    LET k == tempRange(params)
    IN CASE act \in {"range", "float"} -> Num(toFloatOr0(v))
         [] act \in {"toggle", "on_off"} -> Bool(toBool(v))
         [] act = "color_setting" /\ inst = "temperature_k" ->
                Num((toFloatOr0(v) * (k[2] - k[1])) \div 100 + k[1])
         [] act = "color_setting" /\ inst = "rgb" -> Num(toFloatOr0(v))
         [] act = "color_setting" /\ inst = "hsv" -> IF v[1] = "hsv" THEN v ELSE Hsv(<<0, 0, 0>>)
         [] OTHER -> v

invertRange(v, params) ==
    IF IsNumber(v) THEN Num(params.range[1] + params.range[2] - toFloatOr0(v)) ELSE v

\* num2str and toOpenHABCommand: the payload openHAB gets.
Payload(v) ==
    CASE v \in {Bool(TRUE), Str("true")} -> Str("ON")
      [] v \in {Bool(FALSE), Str("false")} -> Str("OFF")
      [] v[1] = "num" -> Text(v[2])
      [] OTHER -> v

-----------------------------------------------------------------------------
(* Lookups.                                                                *)

\* The instance of initState, by which a capability is found.
initInstance(c) ==
    CASE c.act = "on_off" -> "on"
      [] c.act \in {"mode", "range", "toggle"} -> c.params.instance
      [] OTHER -> Nothing

findCap(d, act, inst) ==
    SelectSeq(d.caps, LAMBDA c :
        c.act = act /\ (act = "color_setting" \/ initInstance(c) = inst))

findCapByInstance(d, inst) ==
    SelectSeq(d.caps, LAMBDA c :
        IF inst \in {"temperature_k", "hsv", "rgb", "scene"}
        THEN c.act = "color_setting" ELSE initInstance(c) = inst)

-----------------------------------------------------------------------------
Rejected == [done |-> FALSE]

SetCapabilityState(d, act, inst, v) ==
    LET found == findCap(d, act, inst)
        params == Head(found).params
        value  == mapValue(d, v, act, inst, TRUE)
        k == tempRange(params)
    IN IF found = <<>> \/ Bound(d, "cap", inst) = Nothing THEN Rejected
       ELSE [done |-> TRUE, item |-> Bound(d, "cap", inst), command |->
               CASE inst = "temperature_k" ->
                        Text(((toFloatOr0(value) - k[1]) * 100) \div (k[2] - k[1]))
                 [] act = "range" /\ Head(found).invert -> Payload(invertRange(value, params))
                 [] OTHER -> Payload(value)]

Unread == <<"unread", 0>>   \* no capability takes the report

UpdateFromMQTT(d, inst, payload) ==
    LET found == findCapByInstance(d, inst)
        c == Head(found)
        value == convertToYandexValue(mapValue(d, payload, c.act, inst, FALSE),
                                      c.act, inst, c.params)
    IN IF found = <<>> THEN Unread
       ELSE IF c.act = "range" /\ c.invert THEN invertRange(value, c.params) ELSE value

-----------------------------------------------------------------------------
(* An item executes a command and reports its state; a Group does so as    *)
(* its base type.                                                          *)

Base(it) == IF it.type = "Group" THEN it.base ELSE it.type
Refused  == <<"refused", 0>>

Execute(it, command) ==
    LET on == command = Str("ON")
        off == command = Str("OFF")
        number == command[1] = "text"
    IN CASE Base(it) = "Switch" /\ (on \/ off) -> command
         [] Base(it) \in {"Dimmer", "Rollershutter", "Number"} /\ number -> command
         [] Base(it) = "Dimmer" /\ (on \/ off) -> Text(IF on THEN 100 ELSE 0)
         [] Base(it) = "Rollershutter" /\ command = Str("UP") -> Text(0)
         [] Base(it) = "Rollershutter" /\ command = Str("DOWN") -> Text(100)
         [] Base(it) = "Color" /\ command[1] = "hsv" -> command
         [] Base(it) = "Color" /\ (on \/ off) -> Hsv(<<0, 0, IF on THEN 100 ELSE 0>>)
         [] Base(it) = "Color" /\ number -> Hsv(<<0, 0, command[2]>>)
         [] Base(it) = "String" -> command
         [] OTHER -> Refused

=============================================================================
