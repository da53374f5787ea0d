------------------------------- MODULE Drafts -------------------------------
(***************************************************************************)
(* The device drafts discovery makes of an openHAB model, a sequence of    *)
(* items, composing Equipment or flat (openhab/discovery.go), and the      *)
(* robots that are set up on a page of their own (vacuum_setup.go).        *)
(***************************************************************************)
EXTENDS Builder

ItemNamed(house, name) == CHOOSE it \in ToSet(house) : it.name = name
Names(house) == {it.name : it \in ToSet(house)}

MembersOf(house, g) == Only(house, {k \in DOMAIN house : hasTag(house[k].groups, g)})

\* The names of all items below the groups of gs, through the groups of "via".
Below(house, gs, via) ==
    LET step(S) == {it.name : it \in {x \in ToSet(house) : ToSet(x.groups) \cap S \cap via # {}}}
        reach[n \in 0 .. Len(house)] == IF n = 0 THEN gs ELSE reach[n - 1] \cup step(reach[n - 1])
    IN UNION {step(reach[n]) : n \in 0 .. Len(house)}

-----------------------------------------------------------------------------
(* assemble.                                                               *)

assemble(type, features) ==
    LET cap  == Only(features, {k \in DOMAIN features : features[k].kind = "cap"})
        prop == Only(features, {k \in DOMAIN features : features[k].kind = "prop"})
    IN [type      |-> type,
        caps      |-> Merged([k \in DOMAIN cap |-> cap[k].cap]),
        props     |-> [k \in DOMAIN prop |-> prop[k].cap],
        bind      |-> {[kind |-> f.kind, inst |-> f.inst, item |-> f.item] : f \in ToSet(features)},
        maps      |-> {[act |-> f.cap.act, inst |-> f.inst, pairs |-> f.pairs] :
                          f \in {x \in ToSet(features) : x.pairs # <<>>}},
        equipment |-> Nothing]

\* A draft of no features is none.
Draft(it, found, equipment) ==
    IF found.features = <<>> THEN <<>>
    ELSE <<[device |-> [assemble(found.type, found.features) EXCEPT !.equipment = equipment],
            source |-> it.name, long |-> it.long]>>

draftForItem(it) == Draft(it, featuresForItem(it, NoType), Nothing)

draftForEach(items) == FlattenSeq([k \in DOMAIN items |-> draftForItem(items[k])])

-----------------------------------------------------------------------------
(* A composite of the features of an Equipment's members, one for each     *)
(* kind and instance.                                                      *)

\* Of an item that does not opt in, a thermostat takes sensors and setpoints.
sensorsAndSetpoint(f) == f.cap.act \in {"float", "range"}

Exposed(all, it, type) ==
    IF isThermostat(type) /\ ~hasYahome(it)
    THEN Only(all, {k \in DOMAIN all : sensorsAndSetpoint(all[k])})
    ELSE all

FeaturesIn(it, type) == Exposed(featuresForItem(it, type).features, it, type)

Specific(it) == propertyTag(it.tags) # "" \/ hasYahome(it)

Claim(features, specific) ==
    [j \in DOMAIN features |-> [f |-> features[j], specific |-> specific]]

Claims(members, type) ==
    FlattenSeq([k \in DOMAIN members |->
                  Claim(FeaturesIn(members[k], type), Specific(members[k]))])

SameSlot(f, g) == f.kind = g.kind /\ f.inst = g.inst

\* Mutant: a specific claim takes the slot from any other.
ClaimSlotMutant(slots, c) ==
    LET same == {k \in DOMAIN slots : SameSlot(slots[k].f, c.f)}
    IN IF same = {} THEN Append(slots, c)
       ELSE LET k == CHOOSE k \in same : TRUE
            IN IF c.specific THEN [slots EXCEPT ![k] = c] ELSE slots

\* The first claim gets the slot; a specific one takes it from one that is not.
ClaimSlot(slots, c) ==
    LET same == {k \in DOMAIN slots : SameSlot(slots[k].f, c.f)}
    IN IF same = {} THEN Append(slots, c)
       ELSE LET k == CHOOSE k \in same : TRUE
            IN IF c.specific /\ ~slots[k].specific THEN [slots EXCEPT ![k] = c] ELSE slots

\* The slots, claimed one by one.
Slots(claims) ==
    LET after[n \in 0 .. Len(claims)] ==
            IF n = 0 THEN <<>> ELSE ClaimSlot(after[n - 1], claims[n])
    IN after[Len(claims)]

Claimed(slots) == [k \in DOMAIN slots |-> slots[k].f]

draftForGroup(g, type, members) ==
    Draft(g, Found(Claimed(Slots(Claims(members, type))), type), g.name)

-----------------------------------------------------------------------------
(* The list of drafts.                                                     *)

AllItems == ""      \* the empty tag filter

Candidate(it, tag) == tag = AllItems \/ hasTag(it.tags, tag)

IsEquipment(it) == it.type = "Group" /\ equipmentType(it.tags) # NoType

\* Pass 1, one item: the draft of an Equipment consumes everything below it.
Consume(acc, draft, below) ==
    IF draft = <<>> THEN acc
    ELSE [drafts |-> acc.drafts \o draft, consumed |-> acc.consumed \cup below]

Compose(house, tag, acc, it) ==
    IF ~IsEquipment(it) \/ ~Candidate(it, tag) \/ it.point \/ it.name \in acc.consumed
    THEN acc
    ELSE Consume(acc, draftForGroup(it, equipmentType(it.tags), MembersOf(house, it.name)),
                 Below(house, {it.name}, Names(house)))

ComposeAll(house, tag) ==
    LET after[n \in 0 .. Len(house)] ==
            IF n = 0 THEN [drafts |-> <<>>, consumed |-> {}]
            ELSE Compose(house, tag, after[n - 1], house[n])
    IN after[Len(house)]

\* Pass 2: every other item by itself.
AddSingles(house, tag, composed) ==
    composed.drafts \o draftForEach(Only(house, {k \in DOMAIN house :
        /\ house[k].type # "Group"
        /\ house[k].name \notin composed.consumed
        /\ Candidate(house[k], tag)}))

inferDevices(house, tag) == AddSingles(house, tag, ComposeAll(house, tag))

Aggregations(house) == {it.name : it \in {x \in ToSet(house) : x.base # ""}}

inferDevicesFlat(house, tag) ==
    draftForEach(Only(house, {k \in DOMAIN house :
        /\ Candidate(house[k], tag)
        /\ ToSet(house[k].groups) \cap Aggregations(house) = {}}))

\* Robots with a segment list and a queue; the request for them leaves the
\* base types of groups out.
inferVacuums(house) ==
    {it.name : it \in {x \in ToSet(house) :
        /\ IsEquipment(x)
        /\ equipmentType(x.tags) = <<"vacuum_cleaner">>
        /\ {"vac_segments", "vac_queue"} \subseteq
             {m.yahome : m \in ToSet(MembersOf(house, x.name))}}}

=============================================================================
