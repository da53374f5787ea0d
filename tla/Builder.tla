------------------------------ MODULE Builder ------------------------------
(***************************************************************************)
(* The device builder's form (web/builder.go): toInput splits a stored     *)
(* device into rows, one for each instance of a capability, the page       *)
(* (templates/builder.html) shows them as fields and collects the fields   *)
(* again, and buildDevice puts a device together from the rows.  Only      *)
(* openHAB devices are modelled: a row carries its item, as it would its   *)
(* MQTT topics; a device value has no comma.                               *)
(***************************************************************************)
EXTENDS Controls

\* Mutant: every capability is one of its own.
AddCapabilityMutant(caps, c) == Append(caps, c)

\* The parameters of p and of q, those of p first.
Over(p, q) == [k \in DOMAIN p \cup DOMAIN q |-> IF k \in DOMAIN p THEN p[k] ELSE q[k]]

\* Yandex allows one color_setting: the parameters of later ones are merged
\* into the first.
AddCapability(caps, c) ==
    LET colour == {k \in DOMAIN caps : caps[k].act = "color_setting"}
    IN IF c.act = "color_setting" /\ colour # {}
       THEN [caps EXCEPT ![CHOOSE k \in colour : TRUE].params = Over(c.params, @)]
       ELSE Append(caps, c)

\* The capabilities of a device, added one by one.
Merged(list) ==
    LET after[n \in 0 .. Len(list)] ==
            IF n = 0 THEN <<>> ELSE AddCapability(after[n - 1], list[n])
    IN after[Len(list)]

-----------------------------------------------------------------------------
(* toInput.                                                                *)

capInstance(c) ==
    CASE "instance" \in DOMAIN c.params -> c.params.instance
      [] c.act = "on_off" -> "on"
      [] c.act = "video_stream" -> "get_stream"

Has(params, keys) == DOMAIN params \cap keys # {}

\* Mutant: one instance only, temperature_k before the others.
colorSubInstancesMutant(params) ==
    IF Has(params, {"temperature_k"}) THEN <<"temperature_k">>
    ELSE IF Has(params, {"scene"}) THEN <<"scene">>
    ELSE IF params.color_model = "rgb" THEN <<"rgb">> ELSE <<"hsv">>

\* The instances a color_setting carries; "hsv" if it carries none.
colorSubInstances(params) ==
    LET model == IF Has(params, {"color_model"}) THEN <<params.color_model>> ELSE <<>>
        white == IF Has(params, {"temperature_k"}) THEN <<"temperature_k">> ELSE <<>>
        scene == IF Has(params, {"scene"}) THEN <<"scene">> ELSE <<>>
        subs  == model \o white \o scene
    IN IF subs = <<>> THEN <<"hsv">> ELSE subs

colorSubParams(params, inst) ==
    IF inst \in {"hsv", "rgb"} THEN [color_model |-> inst] ELSE [k \in {inst} |-> params[k]]

capRows(c) ==
    IF c.act # "color_setting" THEN <<[inst |-> capInstance(c), params |-> c.params]>>
    ELSE LET subs == colorSubInstances(c.params)
         IN [k \in DOMAIN subs |-> [inst |-> subs[k], params |-> colorSubParams(c.params, subs[k])]]

Row(d, kind, c, r) ==
    [act |-> c.act, inst |-> r.inst, params |-> r.params, invert |-> c.invert,
     item |-> Bound(d, kind, r.inst), pairs |-> Pairs(d, c.act, r.inst)]

RowsOf(d, kind, caps) ==
    FlattenSeq([k \in DOMAIN caps |->
        LET rows == capRows(caps[k])
        IN [j \in DOMAIN rows |-> Row(d, kind, caps[k], rows[j])]])

toInput(d) == [type |-> d.type, capabilities |-> RowsOf(d, "cap", d.caps),
               properties |-> RowsOf(d, "prop", d.props)]

-----------------------------------------------------------------------------
(* The page: renderParams and collect.                                     *)

\* The modes of Yandex's schema.
ModeValues ==
    <<"americano", "aspic", "auto", "baby_food", "baking", "black_tea", "boiling", "bread",
      "cappuccino", "cereals", "cheesecake", "cool", "deep_fryer", "dessert", "double_espresso",
      "dry", "dry_cleaning", "eco", "eight", "espresso", "express", "extraction_air", "fan_only",
      "fast", "five", "flower_tea", "four", "fowl", "frying", "glass", "green_tea", "heat",
      "herbal_tea", "high", "horizontal", "intensive", "latte", "low", "macaroni", "max",
      "medium", "milk_porridge", "min", "mixed_cleaning", "multicooker", "nine", "normal", "one",
      "oolong_tea", "pasta", "pilaf", "pizza", "pre_rinse", "preheat", "puerh_tea", "quiet",
      "red_tea", "sauce", "seven", "six", "slow", "slow_cook", "smart", "soup", "stationary",
      "steam", "stewing", "supply_air", "ten", "three", "turbo", "two", "vacuum", "vertical",
      "wet_cleaning", "white_tea", "yogurt">>

\* The modes a row shows, the recommended ones first, and those it has checked.
ordered(inst) ==
    LET rec == Recommended[inst]
    IN rec \o SelectSeq(ModeValues, LAMBDA m : m \notin ToSet(rec))

Checked(row) == SelectSeq(ordered(row.inst), LAMBDA m : m \in ToSet(row.params.modes))

\* A cell holds text: what looks like a number or a truth value becomes one.
parseVal(v) ==
    CASE v[1] = "text" -> Num(v[2])
      [] v = Str("true") -> Bool(TRUE)
      [] v = Str("false") -> Bool(FALSE)
      [] OTHER -> v

\* The Yandex values of the table whose cells are collected.
TableValues(row) ==
    CASE row.act \in {"on_off", "toggle"} -> <<Bool(TRUE), Bool(FALSE)>>
      [] row.act = "mode" -> LET m == Checked(row) IN [k \in DOMAIN m |-> Str(m[k])]
      [] OTHER -> <<>>

\* Cell by cell, and in a cell value by value.
collectPairs(row) ==
    LET cell(y) == SelectSeq(row.pairs, LAMBDA p : p[1] = y)
        values  == TableValues(row)
    IN FlattenSeq([k \in DOMAIN values |->
           LET c == cell(values[k])
           IN [j \in DOMAIN c |-> <<values[k], parseVal(c[j][2])>>]])

\* A scene has no field.
collectParams(row) ==
    CASE row.act = "mode" -> [instance |-> row.inst, modes |-> Checked(row)]
      [] row.act = "color_setting" /\ row.inst = "scene" -> <<>>
      [] OTHER -> row.params

collectRow(row) ==
    [act |-> row.act, inst |-> row.inst, params |-> collectParams(row),
     invert |-> row.invert /\ row.act = "range", item |-> row.item, pairs |-> collectPairs(row)]

collect(rows) == [k \in DOMAIN rows |-> collectRow(rows[k])]

\* What the page sends when the user saves.
save(in) == [type |-> in.type, capabilities |-> collect(in.capabilities),
             properties |-> collect(in.properties)]

-----------------------------------------------------------------------------
(* buildDevice.                                                            *)

CapabilityOf(row) ==
    [act |-> row.act, params |-> row.params,
     invert |-> row.invert /\ row.act # "color_setting"]

Bindings(kind, rows) ==
    {[kind |-> kind, inst |-> r.inst, item |-> r.item] :
        r \in {x \in ToSet(rows) : x.item # Nothing}}

Mappings(rows) ==
    {[act |-> r.act, inst |-> r.inst, pairs |-> r.pairs] :
        r \in {x \in ToSet(rows) : x.pairs # <<>>}}

buildDevice(in) ==
    LET caps  == in.capabilities
        props == in.properties
    IN [type      |-> in.type,
        caps      |-> Merged([k \in DOMAIN caps |-> CapabilityOf(caps[k])]),
        props     |-> [k \in DOMAIN props |-> CapabilityOf(props[k])],
        bind      |-> Bindings("cap", caps) \cup Bindings("prop", props),
        maps      |-> Mappings(caps) \cup Mappings(props),
        equipment |-> Nothing]

=============================================================================
