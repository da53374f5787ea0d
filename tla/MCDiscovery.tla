---------------------------- MODULE MCDiscovery ----------------------------
(* Five homes, and the filters "all items" and the default tag.            *)
EXTENDS Discovery

DiscoveryTag == "ya2mqtt"
MCTagFilters == {AllItems, DiscoveryTag}

It(name, type, tags, groups) == [Item(name, type) EXCEPT !.tags = tags, !.groups = groups]
Limits(lo, hi) == [min |-> <<lo>>, max |-> <<hi>>, step |-> <<1>>, options |-> <<>>]
Options(words) == [min |-> <<>>, max |-> <<>>, step |-> <<>>, options |-> words]

\* A colour light: colour and colour temperature are merged; a helper
\* dimmer without a tag comes before the tagged one.
Lamp == <<
    It("Room", "Group", <<"LivingRoom">>, <<>>),
    It("Lamp", "Group", <<"Lightbulb", DiscoveryTag>>, <<"Room">>),
    It("Lamp_Fade", "Dimmer", <<>>, <<"Lamp">>),
    It("Lamp_Level", "Dimmer", <<"Setpoint", "Brightness">>, <<"Lamp">>),
    It("Lamp_White", "Dimmer", <<"Setpoint", "ColorTemperature">>, <<"Lamp">>),
    It("Lamp_Color", "Color", <<"Color", DiscoveryTag>>, <<"Lamp">>)>>

\* A thermostat with a relay, a mode by metadata and a sensor of its own tag.
Climate == <<
    It("Heat_Relay", "Switch", <<"Switch", "Power">>, <<"Heat">>),
    [It("Heat_Mode", "String", <<"Control", DiscoveryTag>>, <<"Heat">>)
        EXCEPT !.yahome = "mode", !.modes = << <<"heat", Str("HEAT")>>, <<"auto", Str("")>> >>],
    [It("Heat_Set", "Number", <<"Setpoint">>, <<"Heat">>)
        EXCEPT !.dim = "Temperature", !.desc = Limits(5, 35)],
    It("Heat_Temp", "Number", <<"Measurement", "Temperature", DiscoveryTag>>, <<"Heat">>),
    [It("Heat", "Group", <<"HVAC", DiscoveryTag>>, <<>>) EXCEPT !.long = TRUE]>>

\* Lights under one switch, inside an Equipment and outside of any, and an
\* Equipment inside another that comes after it.
Hall == <<
    It("Hall_L1", "Switch", <<"Switch", DiscoveryTag>>, <<"Hall_All">>),
    It("Hall_L2", "Switch", <<"Switch">>, <<"Hall_All", "Rest">>),
    [It("Hall_All", "Group", <<"Switch", "Light", DiscoveryTag>>, <<"Hall">>)
        EXCEPT !.base = "Switch", !.point = TRUE],
    It("Hood", "Group", <<"KitchenHood", DiscoveryTag>>, <<"Hall">>),
    It("Hood_Lamp", "Switch", <<"Switch", "Light">>, <<"Hood">>),
    It("Hood_Power", "Switch", <<"Switch">>, <<"Hood">>),
    It("Hall", "Group", <<"WallLight", DiscoveryTag>>, <<>>),
    [It("Rest", "Group", <<DiscoveryTag>>, <<>>) EXCEPT !.base = "Switch"]>>

\* A robot with its segments, whose suction has more presets than there are
\* rungs; a shutter; fans by range and by words.
Machines == <<
    It("Robot", "Group", <<"CleaningRobot", DiscoveryTag>>, <<>>),
    [It("Robot_Map", "String", <<>>, <<"Robot">>) EXCEPT !.yahome = "vac_segments"],
    [It("Robot_Queue", "String", <<>>, <<"Robot">>) EXCEPT !.yahome = "vac_queue"],
    [It("Robot_Suction", "Number", <<"Setpoint", "Speed">>, <<"Robot">>)
        EXCEPT !.desc = Limits(0, 8)],
    [It("Robot_Kind", "String", <<"Control", DiscoveryTag>>, <<"Robot">>)
        EXCEPT !.yahome = "cleanup_mode",
                 !.modes = << <<"dry_cleaning", Str("vacuum")>>, <<"eco", Text(2)>>,
                              <<"spot", Str("")>>, <<"auto", Str("")>> >>],
    It("Shutter", "Rollershutter", <<"Control">>, <<>>),
    [It("Ceiling", "String", <<"Setpoint", "Speed", DiscoveryTag>>, <<>>)
        EXCEPT !.clue = "fan", !.desc = Options(<<Str("off"), Str("lo"), Str("mid"), Str("hi")>>)],
    [It("Duct", "Number", <<"Setpoint", "Speed">>, <<>>)
        EXCEPT !.clue = "fan", !.desc = Limits(0, 3)]>>

\* An untidy home: a switch that is an Equipment inside another.
Spots == <<
    It("Spot", "Switch", <<>>, <<"Spots">>),
    [It("Spots", "Group", <<"SpotLight", DiscoveryTag>>, <<"Ceiling">>) EXCEPT !.base = "Switch"],
    It("Ceiling", "Group", <<"Chandelier", DiscoveryTag>>, <<>>)>>

MCHouses == {Lamp, Climate, Hall, Machines, Spots}
=============================================================================
