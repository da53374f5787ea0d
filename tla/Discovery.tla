----------------------------- MODULE Discovery -----------------------------
(***************************************************************************)
(* One user's way from openHAB items to devices of the catalog: the        *)
(* discovery page (web/discover.go), the builder the user opens on a draft *)
(* or a device (web/builder.go), and what the devices then do with actions *)
(* and reports (Controls).  A page stays open while the settings, the      *)
(* ignore list and the catalog change.  Here a handler is one step: its    *)
(* statements, its rooms and other users are Catalog's, robots are set up  *)
(* there.  openHAB answers, and its model does not change.                 *)
(***************************************************************************)
EXTENDS Drafts

CONSTANTS
    Houses,     \* openHAB models, as lists of items
    TagFilters, \* tags the user may filter by
    MaxDevices, \* bounds the catalog
    MaxChanges  \* bounds changes of settings, the ignore list and devices

\* openHAB names its items, each differently; in the builder an empty name
\* means that a row has no item.  An item lists its groups, and only a group
\* has a base type.
ASSUME HousesAssumption ==
    \A h \in Houses :
        /\ h \in Seq(ToSet(h))
        /\ \A i, j \in DOMAIN h : h[i].name = h[j].name => i = j
        /\ Nothing \notin Names(h)
        /\ \A it \in ToSet(h) :
             /\ it.groups \in Seq(ToSet(it.groups))
             /\ it.base # "" => it.type = "Group"
ASSUME TagsAssumption == TagFilters # {}
ASSUME BoundsAssumption == MaxDevices \in Nat /\ MaxChanges \in Nat

Modes == {"semantic", "flat"}

VARIABLES
    home,      \* the openHAB model
    discoveryMode, discoveryTag,  \* app_settings of the user
    ignored,    \* openhab_ignore
    catalog,    \* the user's devices, in the order of their creation
    page,       \* the items on the discovery page the user looks at
    changes     \* counted up to MaxChanges

settings == <<discoveryMode, discoveryTag>>
vars == <<home, settings, ignored, catalog, page, changes>>

Init ==
    /\ home \in Houses
    /\ discoveryMode = "semantic"
    /\ discoveryTag \in TagFilters
    /\ ignored = {}
    /\ catalog = <<>>
    /\ page = {}
    /\ changes = 0

-----------------------------------------------------------------------------
(* The list.                                                               *)

DraftsOf(h, mode, tag) ==
    IF mode = "semantic" THEN inferDevices(h, tag) ELSE inferDevicesFlat(h, tag)

\* Every list there can be, worked out once.
Inferred ==
    {[home |-> h, mode |-> m, tag |-> t, drafts |-> DraftsOf(h, m, t)] :
        h \in Houses, m \in Modes, t \in TagFilters}

Drafted ==
    LET list == CHOOSE l \in Inferred :
                    l.home = home /\ l.mode = discoveryMode /\ l.tag = discoveryTag
    IN list.drafts

Items(d) == {b.item : b \in d.bind}

ImportedOpenHABItems == UNION {Items(e.device) : e \in ToSet(catalog)}

\* Mutant: a draft counts as imported by the item it stands for.
draftImportedMutant(draft) == draft.source \in ImportedOpenHABItems

draftImported(draft) == Items(draft.device) \cap ImportedOpenHABItems # {}

Offered ==
    {d \in ToSet(Drafted) :
        /\ d.source \notin ignored \cup inferVacuums(home)
        /\ ~draftImported(d)}

draftByItem(item) == Only(Drafted, {k \in DOMAIN Drafted : Drafted[k].source = item})

Discover ==
    /\ page' = {d.source : d \in Offered}
    /\ UNCHANGED <<home, settings, ignored, catalog, changes>>

-----------------------------------------------------------------------------
(* Settings and the ignore list.                                           *)

Change ==
    /\ changes < MaxChanges
    /\ changes' = changes + 1
    /\ UNCHANGED home

SetDiscoveryMode ==
    /\ Change
    /\ \E m \in Modes \ {discoveryMode} : discoveryMode' = m
    /\ UNCHANGED <<discoveryTag, ignored, catalog, page>>

SetDiscoveryTag ==
    /\ Change
    /\ \E t \in TagFilters \ {discoveryTag} : discoveryTag' = t
    /\ UNCHANGED <<discoveryMode, ignored, catalog, page>>

IgnoreDiscovered(item) ==
    /\ Change
    /\ ignored' = ignored \cup {item}
    /\ UNCHANGED <<settings, catalog, page>>

Unignore(item) ==
    /\ Change
    /\ ignored' = ignored \ {item}
    /\ UNCHANGED <<settings, catalog, page>>

ClearIgnore ==
    /\ Change
    /\ ignored # {}
    /\ ignored' = {}
    /\ UNCHANGED <<settings, catalog, page>>

-----------------------------------------------------------------------------
(* Devices.                                                                *)

\* insertChildren leaves the identity of a composite out.
Stored(d) == [d EXCEPT !.equipment = Nothing]

\* With each device: was it on offer when it was added, and in which list.
Save(draft, d) ==
    /\ Len(catalog) < MaxDevices
    /\ catalog' = Append(catalog, [device |-> Stored(d), offered |-> draft \in Offered,
                                   mode |-> discoveryMode, tag |-> discoveryTag])
    /\ UNCHANGED <<home, settings, ignored, page, changes>>

\* Alice's limit on names turns a long label down.
AddDiscovered(item) ==
    LET found == draftByItem(item) IN
    /\ found # <<>>
    /\ ~Head(found).long
    /\ Save(Head(found), Head(found).device)

\* NewDevice on a draft and CreateDevice, with a shorter name if need be.
ConfigureDiscovered(item) ==
    LET found == draftByItem(item) IN
    /\ found # <<>>
    /\ Save(Head(found), buildDevice(save(toInput(Head(found).device))))

\* EditDevice and UpdateDevice: the user saves the page as it is, deletes a
\* row, or has a colour light driven by rgb.
WithoutRow(in, k) == [in EXCEPT !.capabilities = RemoveAt(@, k)]
AsRgbRow(row) == [row EXCEPT !.inst = "rgb", !.params = [color_model |-> "rgb"]]
AsRgb(in, k) == [in EXCEPT !.capabilities[k] = AsRgbRow(@)]

Edits(in) ==
    {in} \cup {WithoutRow(in, k) : k \in DOMAIN in.capabilities}
    \cup {AsRgb(in, k) : k \in {j \in DOMAIN in.capabilities : in.capabilities[j].inst = "hsv"}}

UpdateDevice(n) ==
    /\ Change
    /\ \E in \in Edits(toInput(catalog[n].device)) :
         catalog' = [catalog EXCEPT ![n].device = Stored(buildDevice(save(in)))]
    /\ UNCHANGED <<settings, ignored, page>>

DeleteDevice(n) ==
    /\ Change
    /\ catalog' = RemoveAt(catalog, n)
    /\ UNCHANGED <<settings, ignored, page>>

-----------------------------------------------------------------------------
Next ==
    \/ Discover
    \/ SetDiscoveryMode
    \/ SetDiscoveryTag
    \/ \E item \in page : IgnoreDiscovered(item)
    \/ \E item \in ignored : Unignore(item)
    \/ ClearIgnore
    \/ \E item \in page : AddDiscovered(item)
    \/ \E item \in page : ConfigureDiscovered(item)
    \/ \E n \in DOMAIN catalog : UpdateDevice(n)
    \/ \E n \in DOMAIN catalog : DeleteDevice(n)

Spec == Init /\ [][Next]_vars

-----------------------------------------------------------------------------
(* Properties.                                                             *)

Devices == {e.device : e \in ToSet(catalog)}

AtMostOnce(f, S) == \A x, y \in S : f[x] = f[y] => x = y

\* Every variable has its type, and every device of the catalog is one
\* Yandex accepts: one color_setting, no instance of an act twice, no
\* instance bound twice, and every item exists.
TypeOK ==
    /\ home \in Houses /\ discoveryMode \in Modes /\ discoveryTag \in TagFilters
    /\ ignored \subseteq Names(home)
    /\ page \subseteq Names(home)
    /\ Len(catalog) <= MaxDevices
    /\ \A d \in Devices :
         /\ AtMostOnce([k \in DOMAIN d.caps |->
                          IF d.caps[k].act = "color_setting" THEN <<"colour">>
                          ELSE <<d.caps[k].act, capInstance(d.caps[k])>>], DOMAIN d.caps)
         /\ AtMostOnce([b \in d.bind |-> <<b.kind, b.inst>>], d.bind)
         /\ Items(d) \subseteq Names(home)
         /\ d.equipment = Nothing

\* What a device drives: its items, and the items of aggregation groups.
DrivenIn(h, d) == Items(d) \cup Below(h, Items(d), Aggregations(h))

InTwoGroups(h, name) == Cardinality(ToSet(ItemNamed(h, name).groups)) > 1

\* A home whose aggregation groups are in one group at most, and those that
\* are an Equipment neither in another nor in an aggregation group.
Tidy(h) ==
    \A it \in ToSet(h) : it.base # "" =>
        /\ ~InTwoGroups(h, it.name)
        /\ IsEquipment(it) /\ ~it.point =>
             \A g \in ToSet(h) : g.name \in ToSet(it.groups) => ~IsEquipment(g) /\ g.base = ""

\* What two drafts of one list drive both.
DrivenTwice(h, drafts) ==
    UNION {DrivenIn(h, p[1].device) \cap DrivenIn(h, p[2].device) :
              p \in {q \in ToSet(drafts) \X ToSet(drafts) : q[1] # q[2]}}

\* Every list with what it has twice.
Doubles ==
    {[home |-> l.home, mode |-> l.mode, tag |-> l.tag, things |-> DrivenTwice(l.home, l.drafts)] :
        l \in Inferred}

\* A draft on offer never binds an item of another device, whichever mode
\* and filter the other was added under and however it was edited since.
\* What two devices of the same list both drive, directly or through an
\* aggregation group, two drafts of that list drive both: no history of
\* imports and edits doubles anything that the list itself has only once;
\* and the list of a tidy home doubles only what is in two groups.  A page
\* that was overtaken (a second tab, a double submit) adds a thing twice.
NoThingTwice ==
    \A i, j \in DOMAIN catalog : i < j /\ catalog[j].offered =>
        LET d == catalog[i] e == catalog[j]
        IN /\ Items(d.device) \cap Items(e.device) = {}
           /\ d.mode = e.mode /\ d.tag = e.tag =>
                \A x \in DrivenIn(home, d.device) \cap DrivenIn(home, e.device) :
                    /\ \E l \in Doubles : /\ l.home = home /\ l.mode = d.mode /\ l.tag = d.tag
                                         /\ x \in l.things
                    /\ Tidy(home) => InTwoGroups(home, x)

\* Member k of the composite takes a slot if no other that can is better:
\* tagged for it when k only defaults to it, or as good and before k.
BestFor(members, able, k) ==
    /\ k \in able
    /\ \A j \in able \ {k} :
         IF Specific(members[j]) = Specific(members[k]) THEN k < j ELSE Specific(members[k])

ComposedWell(h, draft) ==
    LET g == ItemNamed(h, draft.source)
        members == MembersOf(h, g.name)
        type == equipmentType(g.tags)
        fills == [k \in DOMAIN members |->
                    {<<f.kind, f.inst>> : f \in ToSet(FeaturesIn(members[k], type))}]
        able(slot) == {k \in DOMAIN members : slot \in fills[k]}
        winner(slot) == CHOOSE k \in able(slot) : BestFor(members, able(slot), k)
    IN /\ draft.device.bind =
            {[kind |-> slot[1], inst |-> slot[2], item |-> members[winner(slot)].name] :
                slot \in UNION {fills[k] : k \in DOMAIN members}}
       /\ isThermostat(type) =>
            \A c \in ToSet(draft.device.caps) : c.act \in {"on_off", "mode", "toggle"} =>
                \E it \in ToSet(members) :
                    hasYahome(it) /\ it.name \in Items(draft.device)
                    /\ c \in {f.cap : f \in ToSet(yahomeFeatures(it).features)}

AllComposedWell ==
    {<<l.home, l.mode, l.tag>> :
        l \in {x \in Inferred : \A draft \in ToSet(x.drafts) :
                  draft.device.equipment # Nothing => ComposedWell(x.home, draft)}}

\* Each slot of a composite goes to a member that is tagged for it, or opts
\* in, before one that only defaults to it, and to the first of its kind;
\* every slot a member can fill is filled, and by an item of its own; and a
\* thermostat exposes no relay that does not opt in.
SlotsGoToSpecific == <<home, discoveryMode, discoveryTag>> \in AllComposedWell

\* A mode declared by yahome="mode" is bound as "mode" and declared as
\* "thermostat".
BoundAsMode(d) == Bound(d, "cap", "mode") # Nothing

\* The device after it was opened in the builder and saved as it is.
Resaved(d) == Stored(buildDevice(save(toInput(d))))

\* What the page leaves as it was, in every device it is opened on: its type
\* and, but for a mode bound by yahome="mode", its bindings; every control is
\* still declared under the instance it is bound to.
KeepsControls(d, e) ==
    /\ e.type = d.type
    /\ ~BoundAsMode(d) => e.bind = d.bind
    /\ {<<r.act, r.inst>> : r \in ToSet(toInput(d).capabilities)}
         = {<<r.act, r.inst>> : r \in ToSet(toInput(e).capabilities)}

\* The values Yandex may send to a row of the form.
Commands(row) ==
    CASE row.act \in {"on_off", "toggle"} -> {Bool(TRUE), Bool(FALSE)}
      [] row.act = "range" ->
            LET r == row.params.range IN {Num(r[1]), Num(r[1] + 1), Num((r[1] + r[2]) \div 2), Num(r[2])}
      [] row.act = "mode" -> {Str(m) : m \in ToSet(row.params.modes)}
      [] row.inst = "temperature_k" -> {Num(2700), Num(2737), Num(4444), Num(6499), Num(6500)}
      [] row.inst = "hsv" -> {Hsv(<<0, 0, 0>>), Hsv(<<240, 100, 60>>)}
      [] OTHER -> {}

\* The controls that are known not to read back: what a Color item reports
\* is not taken apart, a Rollershutter is driven by UP and DOWN but reports
\* a percentage, a speed in words is read as the first of them, a speed
\* without a range sends words to a number, and of another mode a number that
\* went through the page is never equal to the text of a report.
ReadsOtherwise(row, it) ==
    \/ Base(it) = "Color" /\ row.inst # "hsv"
    \/ Base(it) = "Rollershutter" /\ row.inst = "on"
    \/ /\ row.inst \in {"fan_speed", "work_speed"}
       /\ IF row.pairs = <<>> THEN Base(it) # "String"
          ELSE \E p \in ToSet(row.pairs) : ~IsNumber(p[2])
    \/ /\ row.act = "mode" /\ row.inst \notin {"fan_speed", "work_speed"}
       /\ \E p \in ToSet(row.pairs) : p[2][1] = "num"

\* The modes of a row that are in the schema of the page.
Known(row) == IF row.act = "mode" THEN {Str(m) : m \in ToSet(Checked(row))} ELSE Commands(row)

\* The payloads the item of a row may report.
Reports(d, row, it) ==
    {Text(n) : n \in 0 .. 9}
    \cup {Execute(it, SetCapabilityState(d, row.act, row.inst, v).command) : v \in Known(row)}

\* Opening a device in the builder and saving it keeps its controls: colours
\* that were merged are split and merged again with their own items, and the
\* value mappings, which the page sorts and reads anew from text, send the
\* same commands and read the same reports.  Modes that are not in the
\* schema are lost, and of the controls that do not read back also the
\* readings may change.  Saving a second time changes nothing at all.
EditKeepsDevice ==
    \A d \in Devices :
        LET e == Resaved(d) IN
        /\ Resaved(e) = e
        /\ KeepsControls(d, e)
        /\ \A row \in ToSet(toInput(d).capabilities) : row.item # Nothing =>
             LET it == ItemNamed(home, row.item)
                 after == CHOOSE r \in ToSet(toInput(e).capabilities) :
                             r.act = row.act /\ r.inst = row.inst
             IN /\ Known(row) = Commands(after)
                /\ \A v \in Known(row) :
                      SetCapabilityState(d, row.act, row.inst, v)
                        = SetCapabilityState(e, row.act, row.inst, v)
                /\ \A p \in Reports(d, row, it) :
                      \/ ReadsOtherwise(after, it)
                      \/ UpdateFromMQTT(d, row.inst, p) = UpdateFromMQTT(e, row.inst, p)

\* Every control has its item, the thermostat of BoundAsMode apart, and
\* takes every value it declares: the item gets a command it executes, and
\* its report reads as the value that was asked for, through value mappings,
\* spread ladders and inverted ranges; a colour temperature as one at most a
\* step below.
ControlsReadBack ==
    \A d \in Devices : \A row \in ToSet(toInput(d).capabilities) :
        IF row.item = Nothing THEN row.inst = "thermostat"
        ELSE \A v \in Commands(row) :
            LET it   == ItemNamed(home, row.item)
                done == SetCapabilityState(d, row.act, row.inst, v)
                read == UpdateFromMQTT(d, row.inst, Execute(it, done.command))
            IN \/ ReadsOtherwise(row, it)
               \/ /\ done # Rejected
                  /\ IF row.inst = "temperature_k" THEN read[2] <= v[2] /\ v[2] < read[2] + 38
                     ELSE read = v

=============================================================================
