-------------------------- MODULE HotReloadProofs --------------------------
(***************************************************************************)
(* Proofs about HotReload, for any number of users, requests, transports,  *)
(* edits and faults.                                                       *)
(*                                                                         *)
(* A request carries what it loaded through its reload, so the invariant   *)
(* says at every stage what its snapshot contains (Carried) and, when      *)
(* nobody overlaps it, what it has replaced so far (SoloProgress).         *)
(***************************************************************************)
EXTENDS HotReload, TLAPS

Loaded == {"loaded", "swapped", "resync", "notify"}

\* A snapshot that contains the edit its reload follows.
Own(s) == s.by <= s.rows /\ s.rows <= s.kids /\ s.kids <= db

Published == Own(registry) /\ Own(groups) /\ \A c \in Connectors : Own(table[c])

Carried == \A e \in Editors :
    /\ pc[e] = "committed" => snap[e].by <= db
    /\ pc[e] = "reading" => snap[e].by <= snap[e].rows /\ snap[e].rows <= db
    /\ pc[e] \in Loaded => Own(snap[e])

\* What a reload nobody overlaps has read and replaced at each stage.
SoloProgress == \A e \in solo :
    /\ pc[e] # "idle" /\ \A d \in Editors \ {e} : pc[d] = "idle"
    /\ pc[e] \in Loaded \cup {"reading"} => snap[e].rows = db
    /\ pc[e] \in Loaded => snap[e].kids = db
    /\ pc[e] \in {"swapped", "resync", "notify"} => groups = snap[e]
    /\ pc[e] \in {"resync", "notify"} =>
         /\ registry = snap[e]
         /\ \A c \in Connectors \ todo[e] : table[c] = snap[e]

Repaired == repaired => Fresh /\ \A e \in Editors : pc[e] \in {"idle", "notify"}

IInv == TypeOK /\ Published /\ Carried /\ SoloProgress /\ Repaired

-----------------------------------------------------------------------------
LEMMA VersionsAreNumbers == 0 \in Versions /\ Versions \subseteq Nat
  BY MaxEditsAssumption DEF Versions

LEMMA BlankTypes ==
  /\ db \in Versions => Blank \in Loads
  /\ Blank.by = 0 /\ Blank.rows = 0 /\ Blank.kids = 0
<1>1. db \in Versions => 0 \in 0 .. db
  BY VersionsAreNumbers
<1>2. QED
  BY <1>1 DEF Blank, Loads

\* Writing one field of a snapshot leaves the other two alone.
LEMMA FieldTypes ==
  ASSUME NEW s \in Loads, NEW v \in 0 .. db
  PROVE  /\ [s EXCEPT !.by = v] \in Loads
         /\ [s EXCEPT !.by = v].by = v
         /\ [s EXCEPT !.rows = v] \in Loads
         /\ [s EXCEPT !.rows = v].rows = v
         /\ [s EXCEPT !.rows = v].by = s.by
         /\ [s EXCEPT !.kids = v] \in Loads
         /\ [s EXCEPT !.kids = v].kids = v
         /\ [s EXCEPT !.kids = v].by = s.by
         /\ [s EXCEPT !.kids = v].rows = s.rows
  BY DEF Loads

LEMMA FaultsStayBounded == ASSUME TypeOK, Fault PROVE faults' \in 0 .. MaxFaults
  BY MaxFaultsAssumption DEF TypeOK, Fault

\* What a snapshot knows of a user is among the user's edits.
LEMMA DevicesTypes ==
  ASSUME NEW s, NEW u \in Users
  PROVE  Devices(s, u) \in [rows : SUBSET edits[u], kids : SUBSET edits[u]]
  BY DEF Devices

LEMMA InitIInv == Init => IInv
<1> SUFFICES ASSUME Init PROVE IInv
  OBVIOUS
<1> USE VersionsAreNumbers, BlankTypes DEF Init
<1>1. TypeOK
  <2>1. \A u \in Users : yandex[u] \in [rows : SUBSET edits[u], kids : SUBSET edits[u]]
    BY DevicesTypes
  <2>2. /\ edits \in [Users -> SUBSET (1 .. db)] /\ DOMAIN yandex = Users
        /\ pings \in [Users -> Nat] /\ faults \in 0 .. MaxFaults
    BY MaxFaultsAssumption
  <2>3. Blank \in Loads /\ db \in Versions
    OBVIOUS
  <2>4. /\ registry \in Loads /\ groups \in Loads
        /\ table \in [Connectors -> Loads] /\ snap \in [Editors -> Loads]
        /\ pc \in [Editors -> States] /\ todo \in [Editors -> SUBSET Connectors]
    BY <2>3 DEF States
  <2>5. QED
    BY <2>1, <2>2, <2>3, <2>4 DEF TypeOK
<1>2. Published
  BY DEF Published, Own
<1>3. Carried /\ SoloProgress
  BY DEF Carried, SoloProgress, Loaded
<1>4. Repaired
  BY DEF Repaired, Fresh
<1>5. QED
  BY <1>1, <1>2, <1>3, <1>4 DEF IInv

-----------------------------------------------------------------------------
\* A request is over: what it carried is gone, nobody else is disturbed.
LEMMA FinishEffect ==
  ASSUME IInv, NEW e \in Editors, Finish(e), UNCHANGED <<db, live>>
  PROVE  /\ pc' \in [Editors -> States]
         /\ snap' \in [Editors -> Loads]
         /\ todo' \in [Editors -> SUBSET Connectors]
         /\ solo' \in SUBSET Editors
         /\ pc'[e] = "idle" /\ \A d \in Editors \ {e} : pc'[d] = pc[d]
         /\ Published' /\ Carried' /\ SoloProgress'
<1> USE BlankTypes DEF Finish, live
<1>1. /\ pc' \in [Editors -> States]
      /\ pc'[e] = "idle" /\ \A d \in Editors \ {e} : pc'[d] = pc[d]
  BY DEF IInv, TypeOK, States
<1>2. /\ snap' \in [Editors -> Loads]
      /\ \A d \in Editors \ {e} : snap'[d] = snap[d]
  BY DEF IInv, TypeOK
<1>3. /\ todo' \in [Editors -> SUBSET Connectors]
      /\ \A d \in Editors \ {e} : todo'[d] = todo[d]
  BY DEF IInv, TypeOK
<1>4. solo' \in SUBSET Editors /\ solo' = solo \ {e}
  BY DEF IInv, TypeOK
<1>5. Published'
  BY DEF IInv, Published, Own
<1>6. Carried'
  BY <1>1, <1>2 DEF IInv, Carried, Own, Loaded
<1>7. SoloProgress'
  BY <1>1, <1>2, <1>3, <1>4 DEF IInv, SoloProgress, Loaded
<1>8. QED
  BY <1>1, <1>2, <1>3, <1>4, <1>5, <1>6, <1>7

LEMMA GiveUpIInv == ASSUME IInv, NEW e \in Editors, GiveUp(e) PROVE IInv'
<1> USE DEF GiveUp
<1>1. /\ pc' \in [Editors -> States]
      /\ snap' \in [Editors -> Loads]
      /\ todo' \in [Editors -> SUBSET Connectors]
      /\ solo' \in SUBSET Editors
      /\ pc'[e] = "idle" /\ \A d \in Editors \ {e} : pc'[d] = pc[d]
      /\ Published' /\ Carried' /\ SoloProgress'
  BY FinishEffect
<1>2. TypeOK'
  BY <1>1, FaultsStayBounded DEF IInv, TypeOK, Loads, live, callback, history
<1>3. Repaired'
  BY <1>1 DEF IInv, Repaired, Fresh, live
<1>4. QED
  BY <1>1, <1>2, <1>3 DEF IInv

LEMMA NotifyIInv == ASSUME IInv, NEW e \in Editors, NotifyDiscovery(e) PROVE IInv'
<1> USE DEF NotifyDiscovery
<1>1. /\ pc' \in [Editors -> States]
      /\ snap' \in [Editors -> Loads]
      /\ todo' \in [Editors -> SUBSET Connectors]
      /\ solo' \in SUBSET Editors
      /\ pc'[e] = "idle" /\ \A d \in Editors \ {e} : pc'[d] = pc[d]
      /\ Published' /\ Carried' /\ SoloProgress'
  BY FinishEffect
<1>2. TypeOK'
  <2>1. pings' \in [Users -> Nat]
    BY DEF IInv, TypeOK
  <2>2. QED
    BY <1>1, <2>1 DEF IInv, TypeOK, Loads, live
<1>3. Repaired'
  BY <1>1 DEF IInv, Repaired, Fresh, live
<1>4. QED
  BY <1>1, <1>2, <1>3 DEF IInv

LEMMA CommitIInv ==
  ASSUME IInv, NEW e \in Editors, NEW u \in Users, Commit(e, u)
  PROVE  IInv'
<1> USE VersionsAreNumbers DEF Commit, Goto
<1>1. /\ db \in Nat /\ db' = db + 1 /\ db' \in Versions /\ snap[e] \in Loads
      /\ Loads \subseteq Loads'
  <2>1. db \in Nat /\ db' = db + 1 /\ db' \in Versions /\ snap[e] \in Loads
    BY MaxEditsAssumption DEF IInv, TypeOK, Versions
  <2>2. 0 .. db \subseteq 0 .. db'
    BY <2>1
  <2>3. QED
    BY <2>1, <2>2 DEF Loads
<1>2. /\ pc' \in [Editors -> States] /\ pc[e] = "idle"
      /\ pc'[e] = "committed" /\ \A d \in Editors \ {e} : pc'[d] = pc[d]
  BY DEF IInv, TypeOK, States
<1>3. /\ snap' \in [Editors -> Loads']
      /\ snap'[e].by = db' /\ \A d \in Editors \ {e} : snap'[d] = snap[d]
  <2> DEFINE s == [snap[e] EXCEPT !.by = db + 1]
  <2>1. s \in Loads' /\ s.by = db'
    BY <1>1 DEF Loads
  <2>2. snap' = [snap EXCEPT ![e] = s]
    OBVIOUS
  <2> HIDE DEF s, Commit
  <2>3. QED
    BY <1>1, <2>1, <2>2 DEF IInv, TypeOK
<1>4. /\ solo' \in SUBSET Editors
      /\ \A d \in solo' : d = e /\ \A x \in Editors : pc[x] = "idle"
  BY DEF Busy
<1>e. /\ edits' \in [Users -> SUBSET (1 .. db')]
      /\ \A x \in Users : edits[x] \subseteq edits'[x]
  <2>1. db + 1 \in 1 .. db' /\ 1 .. db \subseteq 1 .. db'
    BY <1>1
  <2>2. edits' = [edits EXCEPT ![u] = @ \cup {db + 1}]
    OBVIOUS
  <2> HIDE DEF Commit
  <2>3. QED
    BY <2>1, <2>2 DEF IInv, TypeOK
<1>5. TypeOK'
  <2>1. /\ registry' \in Loads' /\ groups' \in Loads'
        /\ table' \in [Connectors -> Loads']
    BY <1>1 DEF IInv, TypeOK, live
  <2>2. \A x \in Users : yandex'[x] \in [rows : SUBSET edits'[x], kids : SUBSET edits'[x]]
    BY <1>e DEF IInv, TypeOK, callback
  <2>3. QED
    BY <1>1, <1>2, <1>3, <1>4, <1>e, <2>1, <2>2 DEF IInv, TypeOK, callback
<1> DEFINE Numbers(s) == s.by \in Nat /\ s.rows \in Nat /\ s.kids \in Nat
<1>a. /\ Numbers(registry) /\ Numbers(groups)
      /\ \A c \in Connectors : Numbers(table[c])
      /\ \A d \in Editors : Numbers(snap[d])
  <2>1. \A s \in Loads : Numbers(s)
    BY <1>1 DEF Loads
  <2> HIDE DEF Numbers
  <2>2. QED
    BY <2>1 DEF IInv, TypeOK
<1>6. Published'
  BY <1>1, <1>a DEF IInv, Published, Own, live
<1>7. Carried'
  <2> SUFFICES ASSUME NEW d \in Editors
               PROVE  /\ pc'[d] = "committed" => snap'[d].by <= db'
                      /\ pc'[d] = "reading" => snap'[d].by <= snap'[d].rows /\ snap'[d].rows <= db'
                      /\ pc'[d] \in Loaded => Own(snap[d])'
    BY DEF Carried
  <2>1. CASE d = e
    BY <2>1, <1>1, <1>2, <1>3 DEF Loaded
  <2>2. CASE d # e
    <3>1. pc'[d] = pc[d] /\ snap'[d] = snap[d]
      BY <2>2, <1>2, <1>3
    <3> HIDE DEF Commit, Goto
    <3>2. QED
      BY <3>1, <1>1, <1>a DEF IInv, Carried, Own
  <2>3. QED
    BY <2>1, <2>2
<1>8. SoloProgress'
  BY <1>2, <1>4 DEF SoloProgress, Loaded
<1>9. Repaired'
  BY DEF Repaired
<1>10. QED
  BY <1>5, <1>6, <1>7, <1>8, <1>9 DEF IInv

-----------------------------------------------------------------------------
\* A step of a reload moves one request: the frame that all of them share.
LEMMA GotoEffect ==
  ASSUME TypeOK, NEW e \in Editors, NEW s \in States, Goto(e, s)
  PROVE  /\ pc' \in [Editors -> States]
         /\ pc'[e] = s /\ \A d \in Editors \ {e} : pc'[d] = pc[d]
  BY DEF TypeOK, Goto

\* While a request is at work before its callback, nothing counts as
\* repaired, and a solo request can only be that one.
LEMMA OneAtWork ==
  ASSUME IInv, NEW e \in Editors, pc[e] \notin {"idle", "notify"}
  PROVE  /\ ~repaired
         /\ \A d \in solo : d = e
  BY DEF IInv, TypeOK, SoloProgress, Repaired

LEMMA LoadRowsIInv == ASSUME IInv, NEW e \in Editors, LoadRows(e) PROVE IInv'
<1> USE VersionsAreNumbers DEF LoadRows
<1>1. pc[e] = "committed" /\ db \in Versions /\ snap[e] \in Loads
  BY DEF IInv, TypeOK
<1>2. /\ pc' \in [Editors -> States]
      /\ pc'[e] = "reading" /\ \A d \in Editors \ {e} : pc'[d] = pc[d]
  BY GotoEffect DEF IInv, States
<1>3. /\ snap' \in [Editors -> Loads]
      /\ snap'[e].by = snap[e].by /\ snap'[e].rows = db
      /\ \A d \in Editors \ {e} : snap'[d] = snap[d]
  <2> DEFINE s == [snap[e] EXCEPT !.rows = db]
  <2>1. s \in Loads /\ s.by = snap[e].by /\ s.rows = db
    <3>1. db \in 0 .. db
      BY <1>1
    <3>2. QED
      BY <1>1, <3>1, FieldTypes
  <2>2. snap' = [snap EXCEPT ![e] = s]
    OBVIOUS
  <2> HIDE DEF s
  <2>3. QED
    BY <2>1, <2>2 DEF IInv, TypeOK
<1>4. ~repaired /\ \A d \in solo : d = e
  BY <1>1, OneAtWork
<1>5. TypeOK'
  BY <1>2, <1>3 DEF IInv, TypeOK, Loads, live, callback, history
<1>6. Published'
  BY DEF IInv, Published, Own, live
<1>7. Carried'
  BY <1>1, <1>2, <1>3 DEF IInv, Carried, Own, Loaded
<1>8. SoloProgress' /\ Repaired'
  BY <1>2, <1>3, <1>4 DEF IInv, SoloProgress, Repaired, Loaded, history
<1>9. QED
  BY <1>5, <1>6, <1>7, <1>8 DEF IInv

LEMMA LoadChildrenIInv == ASSUME IInv, NEW e \in Editors, LoadChildren(e) PROVE IInv'
<1> USE VersionsAreNumbers DEF LoadChildren
<1>1. pc[e] = "reading" /\ db \in Versions /\ snap[e] \in Loads
  BY DEF IInv, TypeOK
<1>2. /\ pc' \in [Editors -> States]
      /\ pc'[e] = "loaded" /\ \A d \in Editors \ {e} : pc'[d] = pc[d]
  BY GotoEffect DEF IInv, States
<1>3. /\ snap' \in [Editors -> Loads]
      /\ snap'[e].by = snap[e].by /\ snap'[e].rows = snap[e].rows /\ snap'[e].kids = db
      /\ \A d \in Editors \ {e} : snap'[d] = snap[d]
  <2> DEFINE s == [snap[e] EXCEPT !.kids = db]
  <2>1. s \in Loads /\ s.by = snap[e].by /\ s.rows = snap[e].rows /\ s.kids = db
    <3>1. db \in 0 .. db
      BY <1>1
    <3>2. QED
      BY <1>1, <3>1, FieldTypes
  <2>2. snap' = [snap EXCEPT ![e] = s]
    OBVIOUS
  <2> HIDE DEF s
  <2>3. QED
    BY <2>1, <2>2 DEF IInv, TypeOK
<1>4. ~repaired /\ \A d \in solo : d = e
  BY <1>1, OneAtWork
<1>5. TypeOK'
  BY <1>2, <1>3 DEF IInv, TypeOK, Loads, live, callback, history
<1>6. Published'
  BY DEF IInv, Published, Own, live
<1>7. Carried'
  <2>1. \A d \in Editors \ {e} : Own(snap[d])' <=> Own(snap[d])
    BY <1>3 DEF Own
  <2>2. Own(snap[e])'
    BY <1>1, <1>3 DEF IInv, Carried, Own
  <2>3. QED
    BY <1>1, <1>2, <1>3, <2>1, <2>2 DEF IInv, Carried, Loaded
<1>8. SoloProgress' /\ Repaired'
  BY <1>1, <1>2, <1>3, <1>4 DEF IInv, SoloProgress, Repaired, Loaded, history
<1>9. QED
  BY <1>5, <1>6, <1>7, <1>8 DEF IInv

LEMMA SwapGroupsIInv == ASSUME IInv, NEW e \in Editors, SwapGroups(e) PROVE IInv'
<1> USE DEF SwapGroups
<1>1. pc[e] = "loaded" /\ snap[e] \in Loads /\ Own(snap[e])
  BY DEF IInv, TypeOK, Carried, Loaded
<1>2. /\ pc' \in [Editors -> States]
      /\ pc'[e] = "swapped" /\ \A d \in Editors \ {e} : pc'[d] = pc[d]
  BY GotoEffect DEF IInv, States
<1>3. ~repaired /\ \A d \in solo : d = e
  BY <1>1, OneAtWork
<1>4. TypeOK'
  BY <1>1, <1>2 DEF IInv, TypeOK, Loads, callback, history
<1>5. Published'
  BY <1>1 DEF IInv, Published, Own
<1>6. Carried'
  BY <1>1, <1>2 DEF IInv, Carried, Own, Loaded
<1>7. SoloProgress' /\ Repaired'
  BY <1>1, <1>2, <1>3 DEF IInv, SoloProgress, Repaired, Loaded, history
<1>8. QED
  BY <1>4, <1>5, <1>6, <1>7 DEF IInv

LEMMA StoreRegistryIInv == ASSUME IInv, NEW e \in Editors, StoreRegistry(e) PROVE IInv'
<1> USE DEF StoreRegistry
<1>1. pc[e] = "swapped" /\ snap[e] \in Loads /\ Own(snap[e])
  BY DEF IInv, TypeOK, Carried, Loaded
<1>2. /\ pc' \in [Editors -> States]
      /\ pc'[e] = "resync" /\ \A d \in Editors \ {e} : pc'[d] = pc[d]
  BY GotoEffect DEF IInv, States
<1>3. ~repaired /\ \A d \in solo : d = e
  BY <1>1, OneAtWork
<1>4. todo' \in [Editors -> SUBSET Connectors] /\ todo'[e] = Connectors
  BY DEF IInv, TypeOK
<1>5. TypeOK'
  <2>1. silent' \in SUBSET Users
    BY DEF Untold
  <2>2. QED
    BY <1>1, <1>2, <1>4, <2>1 DEF IInv, TypeOK, Loads, history
<1>6. Published'
  BY <1>1 DEF IInv, Published, Own
<1>7. Carried'
  BY <1>1, <1>2 DEF IInv, Carried, Own, Loaded
<1>8. SoloProgress' /\ Repaired'
  BY <1>1, <1>2, <1>3, <1>4 DEF IInv, SoloProgress, Repaired, Loaded, history
<1>9. QED
  BY <1>5, <1>6, <1>7, <1>8 DEF IInv

LEMMA ResyncOneIInv == ASSUME IInv, NEW e \in Editors, ResyncOne(e) PROVE IInv'
<1> USE DEF ResyncOne
<1>1. pc[e] = "resync" /\ snap[e] \in Loads /\ Own(snap[e])
  BY DEF IInv, TypeOK, Carried, Loaded
<1>2. PICK c \in todo[e] : /\ table' = [table EXCEPT ![c] = snap[e]]
                           /\ todo'  = [todo EXCEPT ![e] = @ \ {c}]
  OBVIOUS
<1>3. c \in Connectors
  BY <1>2 DEF IInv, TypeOK
<1>4. /\ table' \in [Connectors -> Loads]
      /\ table'[c] = snap[e] /\ \A x \in Connectors \ {c} : table'[x] = table[x]
  BY <1>1, <1>2, <1>3 DEF IInv, TypeOK
<1>5. /\ todo' \in [Editors -> SUBSET Connectors]
      /\ todo'[e] = todo[e] \ {c}
  BY <1>2 DEF IInv, TypeOK
<1>6. ~repaired /\ \A d \in solo : d = e
  BY <1>1, OneAtWork
<1>7. TypeOK'
  BY <1>4, <1>5 DEF IInv, TypeOK, Loads, callback, history
<1>8. Published'
  BY <1>1, <1>3, <1>4 DEF IInv, Published, Own
<1>9. Carried'
  BY DEF IInv, Carried, Own
<1>10. SoloProgress' /\ Repaired'
  BY <1>1, <1>3, <1>4, <1>5, <1>6 DEF IInv, SoloProgress, Repaired, Loaded, history
<1>11. QED
  BY <1>7, <1>8, <1>9, <1>10 DEF IInv

LEMMA ReloadDoneIInv == ASSUME IInv, NEW e \in Editors, ReloadDone(e) PROVE IInv'
<1> USE DEF ReloadDone
<1>1. pc[e] = "resync" /\ todo[e] = {}
  BY DEF IInv, TypeOK
<1>2. /\ pc' \in [Editors -> States]
      /\ pc'[e] = "notify" /\ \A d \in Editors \ {e} : pc'[d] = pc[d]
  BY GotoEffect DEF IInv, States
<1>3. \A d \in solo : d = e
  BY <1>1, OneAtWork
<1>4. TypeOK'
  BY <1>2 DEF IInv, TypeOK, Loads, live, callback, history
<1>5. Published'
  BY DEF IInv, Published, Own, live
<1>6. Carried'
  BY <1>1, <1>2 DEF IInv, Carried, Own, Loaded
<1>7. SoloProgress'
  BY <1>1, <1>2, <1>3 DEF IInv, SoloProgress, Loaded, live
<1>8. Repaired'
  <2> SUFFICES ASSUME e \in solo
               PROVE  Fresh' /\ \A d \in Editors : pc'[d] \in {"idle", "notify"}
    BY DEF Repaired
  <2>1. /\ snap[e].rows = db /\ snap[e].kids = db
        /\ groups = snap[e] /\ registry = snap[e]
        /\ \A c \in Connectors : table[c] = snap[e]
        /\ \A d \in Editors \ {e} : pc[d] = "idle"
    BY <1>1 DEF IInv, SoloProgress, Loaded
  <2>2. QED
    BY <1>2, <2>1 DEF Fresh, live
<1>9. QED
  BY <1>4, <1>5, <1>6, <1>7, <1>8 DEF IInv

-----------------------------------------------------------------------------
LEMMA PingIInv ==
  ASSUME IInv, NEW u \in Users, Discover(u) \/ LosePing(u)
  PROVE  IInv'
<1> USE DEF Discover, LosePing, live, request, history
<1>1. pings' \in [Users -> Nat] /\ faults' \in 0 .. MaxFaults /\ silent' \in SUBSET Users
  BY FaultsStayBounded DEF IInv, TypeOK
<1>2. /\ DOMAIN yandex' = Users
      /\ \A x \in Users : yandex'[x] \in [rows : SUBSET edits[x], kids : SUBSET edits[x]]
  <2> DEFINE list == Devices(registry, u)
  <2>1. list \in [rows : SUBSET edits[u], kids : SUBSET edits[u]]
    BY DevicesTypes
  <2> HIDE DEF list
  <2>2. yandex' = yandex \/ yandex' = [yandex EXCEPT ![u] = list]
    BY DEF list
  <2>3. QED
    BY <2>1, <2>2 DEF IInv, TypeOK
<1>3. TypeOK'
  BY <1>1, <1>2 DEF IInv, TypeOK, Loads
<1>4. Published' /\ Carried'
  BY DEF IInv, Published, Carried, Own
<1>5. SoloProgress' /\ Repaired'
  BY DEF IInv, SoloProgress, Repaired, Fresh
<1>6. QED
  BY <1>3, <1>4, <1>5 DEF IInv

LEMMA RestartIInv == ASSUME IInv, Restart PROVE IInv'
<1> DEFINE fresh == [by |-> 0, rows |-> db, kids |-> db]
<1> USE VersionsAreNumbers, BlankTypes DEF Restart
<1>1. db' = db /\ db \in Versions /\ db \in Nat /\ 0 <= db
  BY DEF IInv, TypeOK
<1>2. /\ registry' = fresh /\ groups' = fresh
      /\ \A c \in Connectors : table'[c] = fresh
      /\ table' \in [Connectors -> {fresh}]
  OBVIOUS
<1>3. fresh \in Loads /\ fresh.by = 0 /\ fresh.rows = db /\ fresh.kids = db
  BY <1>1 DEF Loads
<1>4. pc' \in [Editors -> States] /\ \A e \in Editors : pc'[e] = "idle"
  BY DEF States
<1> HIDE DEF fresh
<1>5. TypeOK'
  BY <1>1, <1>2, <1>3, <1>4, FaultsStayBounded DEF IInv, TypeOK, Loads, callback, history
<1>6. Published'
  BY <1>1, <1>2, <1>3 DEF Published, Own
<1>7. Carried' /\ SoloProgress'
  BY <1>4 DEF Carried, SoloProgress, Loaded
<1>8. Repaired'
  BY <1>1, <1>2, <1>3, <1>4 DEF Repaired, Fresh
<1>9. QED
  BY <1>5, <1>6, <1>7, <1>8 DEF IInv

LEMMA StutterIInv == ASSUME IInv, UNCHANGED vars PROVE IInv'
<1> USE DEF vars, live, request, callback, history
<1>1. TypeOK'
  BY DEF IInv, TypeOK, Loads
<1>2. Published' /\ Carried'
  BY DEF IInv, Published, Carried, Own
<1>3. SoloProgress' /\ Repaired'
  BY DEF IInv, SoloProgress, Repaired, Fresh
<1>4. QED
  BY <1>1, <1>2, <1>3 DEF IInv

LEMMA NextIInv == IInv /\ [Next]_vars => IInv'
<1> SUFFICES ASSUME IInv, [Next]_vars PROVE IInv'
  OBVIOUS
<1>1. CASE \E e \in Editors : \/ \E u \in Users : Commit(e, u)
                              \/ GiveUp(e) \/ Reload(e) \/ NotifyDiscovery(e)
  BY <1>1, CommitIInv, GiveUpIInv, LoadRowsIInv, LoadChildrenIInv, SwapGroupsIInv,
     StoreRegistryIInv, ResyncOneIInv, ReloadDoneIInv, NotifyIInv DEF Reload
<1>2. CASE \E u \in Users : Discover(u) \/ LosePing(u)
  BY <1>2, PingIInv
<1>3. CASE Restart
  BY <1>3, RestartIInv
<1>4. CASE UNCHANGED vars
  BY <1>4, StutterIInv
<1>5. QED
  BY <1>1, <1>2, <1>3, <1>4 DEF Next

LEMMA Invariance == Spec => []IInv
  BY InitIInv, NextIInv, PTL DEF Spec

-----------------------------------------------------------------------------
\* Every variable has its type.  No reload loads or publishes anything beyond
\* the edits the database has committed (the bounds are the current db), and
\* Yandex gets for a user only what that user committed.
THEOREM TypeCorrect == Spec => []TypeOK
<1>1. IInv => TypeOK
  BY DEF IInv
<1>2. QED
  BY <1>1, Invariance, PTL

\* A reload nobody overlapped repairs the registry, the groups and every
\* connector, whatever earlier reloads and failures left behind.
THEOREM SoloReloadsRepair == Spec => []SoloReloadRepairs
<1>1. IInv => SoloReloadRepairs
  BY DEF IInv, Repaired, SoloReloadRepairs
<1>2. QED
  BY <1>1, Invariance, PTL

\* What is published contains the edit its publisher committed, however the
\* reloads of any number of requests interleave.
THEOREM PublishedHaveOwnEdit == Spec => []PublishedHasOwnEdit
<1>1. IInv => PublishedHasOwnEdit
  BY DEF IInv, Published, Own, PublishedHasOwnEdit
<1>2. QED
  BY <1>1, Invariance, PTL

=============================================================================
