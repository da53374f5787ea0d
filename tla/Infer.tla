------------------------------- MODULE Infer -------------------------------
(***************************************************************************)
(* What discovery makes of one openHAB item (openhab/infer.go, yahome.go): *)
(* its Yandex capabilities and properties, each with the item it binds to, *)
(* from the semantic tags, the item's type, its metadata and its state     *)
(* description.                                                            *)
(*                                                                         *)
(* An item (external) is a record: "type" and "dim" are the two parts of   *)
(* "Number:Temperature", "base" the base type of a Group, "point" says     *)
(* that its semantics metadata starts with Point_, "yahome" and "modes"    *)
(* are the override's value and its list of <<mode, device value>>, "desc" *)
(* the state description, and "clue" what the code looks for in the name:  *)
(* "fan", "hlsurl", "mjpegurl" or none of them.  "long" is a label of more *)
(* than 25 characters.  An optional number is a sequence of at most one.   *)
(*                                                                         *)
(* A device type <<"light", "strip">> stands for devices.types.light.strip.*)
(* Rooms, labels, units, precisions and the values of an event are left    *)
(* out.                                                                    *)
(***************************************************************************)
EXTENDS Integers, SequencesExt, TLC

Item(name, type) ==
    [name |-> name, type |-> type, dim |-> "", base |-> "", tags |-> <<>>, groups |-> <<>>,
     point |-> FALSE, yahome |-> "", modes |-> <<>>, clue |-> "", long |-> FALSE,
     desc |-> [min |-> <<>>, max |-> <<>>, step |-> <<>>, options |-> <<>>]]

\* The elements of s at the positions in K, in their order.
Only(s, K) == FlattenSeq([k \in DOMAIN s |-> IF k \in K THEN <<s[k]>> ELSE <<>>])

-----------------------------------------------------------------------------
(* Values keep their kind; a payload is a number in decimal, a colour or   *)
(* another word.                                                           *)

Bool(b)  == <<"bool", b>>
Num(n)   == <<"num", n>>
Text(n)  == <<"text", n>>      \* the payload "20"
Str(s)   == <<"str", s>>
Hsv(c)   == <<"hsv", c>>       \* the payload "h,s,v", hue, saturation and value

-----------------------------------------------------------------------------
(* Tags.                                                                   *)

Each(keys, v) == [k \in keys |-> v]

\* What the first tag that "table" knows stands for.
FirstOf(tags, table, default) ==
    LET found == SelectSeq(tags, LAMBDA t : t \in DOMAIN table)
    IN IF found = <<>> THEN default ELSE table[Head(found)]

pointRole(tags) == FirstOf(tags,
    Each({"Setpoint", "Control", "Switch"}, "control") @@ Each({"Alarm"}, "event")
    @@ Each({"Measurement", "Status", "Calculation", "Forecast"}, "readonly"), "")

PropertyTags ==
    {"Temperature", "Humidity", "Moisture", "Pressure", "Power", "Energy", "Current",
     "Voltage", "Frequency", "Brightness", "Color", "ColorTemperature", "SoundVolume",
     "Speed", "Motion", "Presence", "Opening", "OpenState", "OpenLevel", "Smoke", "Water",
     "Gas", "Vibration", "Illuminance", "CO2", "CO", "VOC", "ParticulateMatter",
     "LowBattery", "StateOfCharge", "Channel", "Position", "Tilt", "Mode", "MediaControl",
     "Light", "Tampered"}

propertyTag(tags) == FirstOf(tags, [t \in PropertyTags |-> t], "")

hasTag(tags, t)  == t \in ToSet(tags)

EquipmentTypes ==
       Each({"Chandelier"}, <<"light", "ceiling">>)
    @@ Each({"LightStrip", "LightStripe"}, <<"light", "strip">>)
    @@ Each({"LightSource", "Lightbulb", "Lamp", "Pendant", "Sconce", "Downlight", "FloodLight",
             "SpotLight", "TrackLight", "WallLight", "AccentLight", "Light"}, <<"light">>)
    @@ Each({"PowerOutlet"}, <<"socket">>)
    @@ Each({"WallSwitch"}, <<"switch">>)
    @@ Each({"Fan", "CeilingFan"}, <<"ventilation", "fan">>)
    @@ Each({"ExhaustFan", "KitchenHood", "SmartVent", "HeatRecovery"}, <<"ventilation">>)
    @@ Each({"Thermostat", "RadiatorControl", "HVAC", "Boiler", "WaterHeater", "FloorHeating",
             "HeatPump", "Furnace"}, <<"thermostat">>)
    @@ Each({"AirConditioner"}, <<"thermostat", "ac">>)
    @@ Each({"Humidifier", "Dehumidifier"}, <<"humidifier">>)
    @@ Each({"AirFilter"}, <<"purifier">>)
    @@ Each({"Blinds", "Drapes", "WindowCovering"}, <<"openable", "curtain">>)
    @@ Each({"Window", "Door", "FrontDoor", "BackDoor", "SideDoor", "InnerDoor", "CellarDoor",
             "GarageDoor", "Gate"}, <<"openable">>)
    @@ Each({"Lock"}, <<"openable", "door_lock">>)
    @@ Each({"Valve"}, <<"openable", "valve">>)
    @@ Each({"CleaningRobot"}, <<"vacuum_cleaner">>)
    @@ Each({"WashingMachine"}, <<"washing_machine">>)
    @@ Each({"Dishwasher"}, <<"dishwasher">>)
    @@ Each({"CoffeeMaker"}, <<"cooking", "coffee_maker">>)
    @@ Each({"Microwave", "Oven", "Cooktop", "Range", "Toaster", "AirFryer", "Fryer",
             "FoodProcessor", "Mixer", "IceMaker", "Refrigerator", "Freezer"}, <<"cooking">>)
    @@ Each({"PetFeeder"}, <<"pet_feeder">>)
    @@ Each({"Television"}, <<"media_device", "tv">>)
    @@ Each({"Receiver"}, <<"media_device", "receiver">>)
    @@ Each({"Speaker", "MediaPlayer", "AudioVisual", "Display", "VoiceAssistant"},
            <<"media_device">>)
    @@ Each({"Camera", "Doorbell"}, <<"camera">>)
    @@ Each({"MotionDetector", "OccupancySensor"}, <<"sensor", "motion">>)
    @@ Each({"ContactSensor"}, <<"sensor", "open">>)
    @@ Each({"SmokeDetector", "FireDetector", "FlameDetector", "HeatDetector"},
            <<"sensor", "smoke">>)
    @@ Each({"LeakSensor"}, <<"sensor", "water_leak">>)
    @@ Each({"IlluminanceSensor"}, <<"sensor", "illumination">>)
    @@ Each({"VibrationSensor", "GlassBreakDetector"}, <<"sensor", "vibration">>)
    @@ Each({"COSensor", "CO2Sensor", "AirQualitySensor", "GasMeter"}, <<"sensor", "gas">>)
    @@ Each({"TemperatureSensor", "HumiditySensor", "WeatherStation"}, <<"sensor", "climate">>)
    @@ Each({"ElectricMeter"}, <<"smart_meter", "electricity">>)
    @@ Each({"WaterMeter"}, <<"smart_meter">>)
    @@ Each({"Button", "Keypad", "Dial", "Slider", "RemoteControl"}, <<"sensor", "button">>)
    @@ Each({"Sensor"}, <<"sensor">>)

NoType == <<>>

equipmentType(tags) == FirstOf(tags, EquipmentTypes, NoType)

deviceTypeFor(tags, default) == FirstOf(tags, EquipmentTypes, default)

\* strings.HasPrefix(type, "devices.types.<family>")
IsOf(type, family) == type # NoType /\ Head(type) = family

isMediaType(type) == IsOf(type, "media_device")

-----------------------------------------------------------------------------
(* Features.                                                               *)

capability(act, params) == [act |-> act, params |-> params, invert |-> FALSE]

Feature(kind, inst, cap, it) ==
    [kind |-> kind, inst |-> inst, cap |-> cap, item |-> it.name, pairs |-> <<>>]

capOnOff(it)      == Feature("cap", "on", capability("on_off", <<>>), it)
capToggle(i, it)  == Feature("cap", i, capability("toggle", [instance |-> i]), it)
capRange(i, bounds, it) ==
    Feature("cap", i, capability("range", [instance |-> i, range |-> bounds]), it)
capPercent(i, it) == capRange(i, <<0, 100>>, it)
capMode(i, modes) == capability("mode", [instance |-> i, modes |-> modes])
capColorHSV(it)   ==
    Feature("cap", "hsv", capability("color_setting", [color_model |-> "hsv"]), it)
capColorTempK(it) == Feature("cap", "temperature_k",
    capability("color_setting", [temperature_k |-> <<2700, 6500>>]), it)
capVideoStream(protocol, it) == Feature("cap", "get_stream",
    capability("video_stream", [protocols |-> <<protocol>>]), it)
propFloat(i, it)  == Feature("prop", i, capability("float", [instance |-> i]), it)
propEvent(i, it)  == Feature("prop", i, capability("event", [instance |-> i]), it)

Found(features, type) == [features |-> features, type |-> type]
Unsupported == Found(<<>>, NoType)

Given(opt, default) == IF opt = <<>> THEN default ELSE Head(opt)

rangeParams(it, lo, hi) == <<Given(it.desc.min, lo), Given(it.desc.max, hi)>>

-----------------------------------------------------------------------------
(* Speeds.                                                                 *)

Recommended ==
    [cleanup_mode |-> <<"auto", "eco", "express", "normal", "quiet", "wet_cleaning",
                        "dry_cleaning", "mixed_cleaning">>,
     fan_speed    |-> <<"auto", "high", "low", "medium", "turbo">>,
     thermostat   |-> <<"auto", "cool", "dry", "fan_only", "heat", "preheat">>,
     work_speed   |-> <<"auto", "fast", "max", "medium", "min", "slow", "turbo">>]

speedInstance(it) == IF it.clue = "fan" THEN "fan_speed" ELSE "work_speed"

speedLadder(inst) == IF inst = "fan_speed" THEN <<"low", "medium", "high", "turbo">>
                     ELSE <<"min", "slow", "medium", "fast", "max", "turbo">>

isOffValue(v) == v \in {Str("off"), Text(0), Str("none"), Str("stop")}

\* Mutant: the whole ladder is declared.
ladderMappingMutant(values, ladder) ==
    LET n == Len(values)
        rung(i) == ladder[1 + (IF n > Len(ladder) THEN ((i - 1) * Len(ladder)) \div n ELSE i - 1)]
    IN [modes |-> ladder, pairs |-> [i \in 1 .. n |-> <<Str(rung(i)), values[i]>>]]

\* Each device value gets a rung of the ladder; more values than rungs are
\* spread over it.  The modes are the rungs used.
ladderMapping(values, ladder) ==
    LET n == Len(values)
        rung(i) == ladder[1 + (IF n > Len(ladder) THEN ((i - 1) * Len(ladder)) \div n ELSE i - 1)]
        pairs   == [i \in 1 .. n |-> <<Str(rung(i)), values[i]>>]
    IN [modes |-> SelectSeq(ladder, LAMBDA m : \E i \in 1 .. n : rung(i) = m), pairs |-> pairs]

SpeedFeature(it, values) ==
    LET inst == speedInstance(it)
        m == IF values = <<>> THEN [modes |-> Recommended[inst], pairs |-> <<>>]
             ELSE ladderMapping(values, speedLadder(inst))
    IN [Feature("cap", inst, capMode(inst, m.modes), it) EXCEPT !.pairs = m.pairs]

\* The device's own words, those that mean "off" dropped.
stringSpeed(it) == SpeedFeature(it, SelectSeq(it.desc.options, LAMBDA v : ~isOffValue(v)))

\* The numbers of the range, 0 counted as "off"; none without a range.
speedValues(desc) ==
    LET step  == IF Given(desc.step, 0) > 0 THEN Head(desc.step) ELSE 1
        first == IF Given(desc.min, 0) = 0 THEN step ELSE Head(desc.min)
    IN IF desc.min = <<>> \/ desc.max = <<>> THEN <<>>
       ELSE [k \in 1 .. ((Head(desc.max) - first) \div step) + 1 |-> Num(first + (k - 1) * step)]

speedFeature(it) == SpeedFeature(it, speedValues(it.desc))

-----------------------------------------------------------------------------
(* yahome: the explicit override.                                          *)

hasYahome(it) == it.yahome \in {"on_off", "mode", "cleanup_mode", "video_stream"}

yahomeModeSpec(it, inst) ==
    IF it.modes = <<>> THEN [modes |-> Recommended[inst], pairs |-> <<>>]
    ELSE LET mapped == SelectSeq(it.modes, LAMBDA p : p[2] # Str(""))
         IN [modes |-> [i \in DOMAIN it.modes |-> it.modes[i][1]],
             pairs |-> [i \in DOMAIN mapped |-> <<Str(mapped[i][1]), mapped[i][2]>>]]

yahomeFeatures(it) ==
    CASE it.yahome = "on_off" -> Found(<<capOnOff(it)>>, <<"switch">>)
      [] it.yahome = "mode" ->
            Found(<<Feature("cap", "mode",
                            capMode("thermostat", yahomeModeSpec(it, "thermostat").modes), it)>>,
                  <<"thermostat">>)
      [] it.yahome = "cleanup_mode" ->
            LET m == yahomeModeSpec(it, "cleanup_mode") IN
            Found(<<[Feature("cap", "cleanup_mode", capMode("cleanup_mode", m.modes), it)
                     EXCEPT !.pairs = m.pairs]>>, <<"vacuum_cleaner">>)
      [] it.yahome = "video_stream" -> Found(<<capVideoStream("hls", it)>>, <<"camera">>)

-----------------------------------------------------------------------------
(* The features of an item in the context of an Equipment of type ctx.     *)

EventTypes ==
    Each({"Motion", "Presence"}, <<"motion", "motion">>)
    @@ Each({"Opening", "OpenState"}, <<"open", "open">>)
    @@ [Smoke |-> <<"smoke", "smoke">>, Water |-> <<"water_leak", "water_leak">>,
        Vibration |-> <<"vibration", "vibration">>, LowBattery |-> <<"battery_level", "">>]

eventFeature(prop, it) ==
    LET e == EventTypes[prop]
    IN Found(<<propEvent(e[1], it)>>, IF e[2] = "" THEN <<"sensor">> ELSE <<"sensor", e[2]>>)

isThermostat(type) == type = <<"thermostat">> \/ type = <<"thermostat", "ac">>

dimmerFeatures(it, ctx) ==
    LET prop == propertyTag(it.tags)
        light == deviceTypeFor(it.tags, <<"light">>)
        dimLight == Found(<<capOnOff(it), capPercent("brightness", it)>>, light)
        volume == Found(<<capPercent("volume", it)>>, <<"media_device">>)
        tempSet(type) == Found(<<capRange("temperature", rangeParams(it, 10, 30), it)>>, type)
        position(type) == Found(<<capPercent("open", it), capOnOff(it)>>, type)
    IN CASE prop = "SoundVolume" -> volume
         [] prop = "Brightness" -> dimLight
         [] prop = "Speed" -> Found(<<speedFeature(it)>>, <<"ventilation", "fan">>)
         [] prop = "ColorTemperature" -> Found(<<capOnOff(it), capColorTempK(it)>>, light)
         [] prop = "Temperature" -> tempSet(<<"thermostat">>)
         [] prop \in {"OpenLevel", "Position", "Opening"} -> position(<<"openable", "curtain">>)
         [] OTHER ->
              CASE isMediaType(ctx) -> volume
                [] isThermostat(ctx) -> tempSet(ctx)
                [] IsOf(ctx, "openable") -> position(ctx)
                [] OTHER -> dimLight

FloatTypes ==
    Each({"Humidity", "Moisture"}, <<"humidity", <<"sensor", "climate">>>>)
    @@ [Temperature   |-> <<"temperature", <<"sensor", "climate">>>>,
        Pressure      |-> <<"pressure", <<"sensor", "climate">>>>,
        Power         |-> <<"power", <<"sensor">>>>,
        Energy        |-> <<"electricity_meter", <<"smart_meter", "electricity">>>>,
        Current       |-> <<"amperage", <<"sensor">>>>,
        Voltage       |-> <<"voltage", <<"sensor">>>>,
        Water         |-> <<"water_meter", <<"smart_meter">>>>,
        Gas           |-> <<"gas_meter", <<"smart_meter", "gas">>>>,
        Illuminance   |-> <<"illumination", <<"sensor", "illumination">>>>,
        CO2           |-> <<"co2_level", <<"sensor", "climate">>>>,
        VOC           |-> <<"tvoc", <<"sensor", "climate">>>>,
        ParticulateMatter |-> <<"pm2.5_density", <<"sensor", "climate">>>>,
        StateOfCharge |-> <<"battery_level", <<"sensor">>>>]

numberFeature(it, tagged, ctx) ==
    LET prop == IF tagged = "" THEN it.dim ELSE tagged
        setpoint == pointRole(it.tags) = "control" \/ hasTag(it.tags, "Setpoint")
        volume == Found(<<capPercent("volume", it)>>, <<"media_device">>)
    IN CASE setpoint /\ prop = "" /\ isMediaType(ctx) -> volume
         [] setpoint /\ prop = "" /\ isThermostat(ctx) ->
                Found(<<capRange("temperature", <<10, 30>>, it)>>, ctx)
         [] setpoint /\ prop = "Temperature" ->
                Found(<<capRange("temperature", rangeParams(it, 10, 30), it)>>, <<"thermostat">>)
         [] setpoint /\ prop = "SoundVolume" -> volume
         [] setpoint /\ prop = "Brightness" ->
                Found(<<capPercent("brightness", it)>>, <<"light">>)
         [] setpoint /\ prop = "Speed" -> Found(<<speedFeature(it)>>, <<"ventilation", "fan">>)
         [] prop \in DOMAIN FloatTypes /\ ~(setpoint /\ prop = "Temperature") ->
                Found(<<propFloat(FloatTypes[prop][1], it)>>, FloatTypes[prop][2])
         [] OTHER -> Unsupported

stringFeature(it) ==
    CASE it.type = "String" /\ it.clue = "hlsurl" ->
            Found(<<capVideoStream("hls", it)>>, <<"camera">>)
      [] it.type = "String" /\ it.clue = "mjpegurl" ->
            Found(<<capVideoStream("mjpeg", it)>>, <<"camera">>)
      [] hasTag(it.tags, "Speed") -> Found(<<stringSpeed(it)>>, <<"ventilation", "fan">>)
      [] OTHER -> Unsupported

switchFeature(it, prop, ctx) ==
    IF prop = "Light" /\ ctx # NoType /\ ~IsOf(ctx, "light")
    THEN Found(<<capToggle("backlight", it)>>, ctx)
    ELSE Found(<<capOnOff(it)>>, deviceTypeFor(it.tags, <<"switch">>))

colorFeatures(it) ==
    Found(<<capOnOff(it), capPercent("brightness", it), capColorHSV(it)>>, <<"light">>)

\* A Rollershutter counts 0 % as open and takes UP and DOWN.
shutterFeatures(it) ==
    Found(<<[capPercent("open", it) EXCEPT !.cap.invert = TRUE],
            [capOnOff(it) EXCEPT !.pairs = << <<Bool(TRUE), Str("UP")>>, <<Bool(FALSE), Str("DOWN")>> >>]>>,
          <<"openable", "curtain">>)

featuresForItem(it, ctx) ==
    LET base == IF it.type = "Group" /\ it.base # "" THEN it.base ELSE it.type
        prop == propertyTag(it.tags)
        event == /\ base \in {"Switch", "Contact"}
                 /\ pointRole(it.tags) # "control"
                 /\ prop \in DOMAIN EventTypes
    IN IF hasYahome(it) THEN yahomeFeatures(it)
       ELSE IF event THEN eventFeature(prop, it)
       ELSE CASE base = "Switch" -> switchFeature(it, prop, ctx)
              [] base = "String" -> stringFeature(it)
              [] base = "Dimmer" -> dimmerFeatures(it, ctx)
              [] base = "Color" -> colorFeatures(it)
              [] base = "Rollershutter" -> shutterFeatures(it)
              [] base = "Contact" -> Found(<<propEvent("open", it)>>, <<"sensor", "open">>)
              [] base = "Number" -> numberFeature(it, prop, ctx)
              [] OTHER -> Unsupported

=============================================================================
