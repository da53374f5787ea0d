-------------------------- MODULE MqttBridgeProofs --------------------------
(***************************************************************************)
(* Proofs about MqttBridge, for any topics, late callbacks, connection     *)
(* losses and changes of broker.                                           *)
(*                                                                         *)
(* Two invariants carry them.  ClientsInTurn: every client but b.client is *)
(* closed or not made yet, unless two Reconfigures handled it at once.     *)
(* SInv: no pending Resync drops a topic of the tables, and every topic of *)
(* the tables is subscribed or about to be, by a callback or by a Resync,  *)
(* unless it came back while a Resync had still to drop it.                *)
(***************************************************************************)
EXTENDS MqttBridge, TLAPS

\* A Reconfigure that is about to replace b.client is alone with it, and
\* has closed it before it makes the next one, or b.client is overlapped.
ClientsInTurn ==
    /\ link[client] # "none"
    /\ link[client] = "made" => \E b \in Admins : admin[b].at = "connect"
    /\ \A c \in Clients : c # client /\ c \notin overlapped => link[c] \in {"none", "closed"}
    /\ \A a \in Replacing : client \notin overlapped =>
          /\ \A b \in Admins : admin[b].at # "connect"
          /\ admin[a].at = "disconnect" => admin[a].old = client
          /\ admin[a].at = "make" => link[client] = "closed"

CInv == TypeOK /\ ClientsInTurn

DropsAreGone == \A r \in Resyncers :
    /\ resync[r].drop \cap filters \subseteq raced
    /\ resync[r].at = "none" => resync[r].drop = {} /\ resync[r].add = {}

ByHook(k, t) == hook[k].at = "subscribing" /\ hook[k].client = client /\ t \in hook[k].topics
ByResync(r, t) == t \in resync[r].add

\* Topic t is subscribed or about to be.
Covered(t) ==
    \/ t \in subs[client]
    \/ \E k \in Hooks : ByHook(k, t)
    \/ \E r \in Resyncers : ByResync(r, t)

\* paho's callback for a new connection of b.client has not run.
Greeting == \E k \in Hooks : hook[k].at = "started" /\ hook[k].client = client

TablesAreCovered == Connected /\ ~Greeting => \A t \in filters \ raced : Covered(t)

SInv == DropsAreGone /\ TablesAreCovered

-----------------------------------------------------------------------------
LEMMA ClientsAreNumbers == Clients \subseteq Nat /\ 1 \in Clients /\ MaxClients \in Nat /\ MaxLost \in Nat
  BY MaxLostAssumption, MaxClientsAssumption DEF Clients

LEMMA NothingPending == NoHook \in HookStates /\ NoSync \in ResyncStates
                        /\ NoHook.at = "none" /\ NoSync.at = "none"
                        /\ NoSync.drop = {} /\ NoSync.add = {}
                        /\ Idle \in AdminStates /\ Idle.at = "idle"
  BY ClientsAreNumbers DEF NoHook, NoSync, Idle, HookStates, ResyncStates, AdminStates

\* What a Resync has left to do at the broker.
LEMMA TodoType ==
  ASSUME NEW drop \in SUBSET Topics, NEW add \in SUBSET Topics, drop \cap add = {}
  PROVE  /\ Todo(drop, add) \in ResyncStates
         /\ Todo(drop, add).drop = drop
         /\ Todo(drop, add).add = add
         /\ Todo(drop, add).at = "none" => drop = {} /\ add = {}
  BY DEF Todo, ResyncStates

LEMMA InitCInv == Init => CInv
<1> SUFFICES ASSUME Init PROVE CInv
  OBVIOUS
<1> USE ClientsAreNumbers, NothingPending DEF Init
<1>1. /\ link \in [Clients -> {"none", "made", "down", "up", "closed"}]
      /\ subs \in [Clients -> SUBSET Topics]
  OBVIOUS
<1>2. hook \in [Hooks -> HookStates]
  OBVIOUS
<1>3. /\ resync \in [Resyncers -> ResyncStates]
      /\ \A r \in Resyncers : resync[r].drop \cap resync[r].add = {}
  OBVIOUS
<1>4. lost \in 0 .. MaxLost
  OBVIOUS
<1>5. TypeOK
  BY <1>1, <1>2, <1>3, <1>4 DEF TypeOK
<1>6. ClientsInTurn
  BY DEF ClientsInTurn, Replacing
<1>7. QED
  BY <1>5, <1>6 DEF CInv

LEMMA InitSInv == Init => SInv
  BY NothingPending DEF Init, SInv, DropsAreGone, TablesAreCovered, Connected

-----------------------------------------------------------------------------
(* Clients and types.                                                      *)

LEMMA LinkUpCInv ==
  ASSUME CInv, NEW c \in Clients, LinkUp(c)
  PROVE  CInv'
<1> USE ClientsAreNumbers DEF LinkUp
<1>1. PICK k \in Hooks : hook' = [hook EXCEPT ![k] = [at |-> "started", client |-> c, topics |-> {}]]
  OBVIOUS
<1>2. hook' \in [Hooks -> HookStates]
  BY <1>1 DEF CInv, TypeOK, HookStates
<1>3. link' \in [Clients -> {"none", "made", "down", "up", "closed"}]
  BY DEF CInv, TypeOK
<1>4. TypeOK'
  BY <1>2, <1>3 DEF CInv, TypeOK
<1>5. ClientsInTurn'
  BY DEF CInv, TypeOK, ClientsInTurn, Replacing
<1>6. QED
  BY <1>4, <1>5 DEF CInv

LEMMA LinkDownCInv ==
  ASSUME CInv, NEW c \in Clients, LinkDown(c)
  PROVE  CInv'
<1> USE ClientsAreNumbers DEF LinkDown, Up
<1>1. TypeOK'
  BY DEF CInv, TypeOK
<1>2. ClientsInTurn'
  BY DEF CInv, TypeOK, ClientsInTurn, Replacing
<1>3. QED
  BY <1>1, <1>2 DEF CInv

LEMMA ConnectionLostCInv ==
  ASSUME CInv, ConnectionLost
  PROVE  CInv'
<1> USE DEF ConnectionLost, broker
<1>1. lost' \in 0 .. MaxLost
  BY ClientsAreNumbers DEF CInv, TypeOK
<1>2. TypeOK'
  BY <1>1 DEF CInv, TypeOK
<1>3. ClientsInTurn'
  BY DEF CInv, ClientsInTurn, Replacing
<1>4. QED
  BY <1>2, <1>3 DEF CInv

\* The callbacks and Resyncs leave clients and links alone.
LEMMA CallbackCInv ==
  ASSUME CInv, NEW k \in Hooks, onConnect(k) \/ SubscribeAll(k)
  PROVE  CInv'
<1> USE DEF onConnect, SubscribeAll, broker
<1>1. UNCHANGED <<client, link, admin, filters, lost, resync, overlapped>> /\ raced' \subseteq raced
  OBVIOUS
<1>2. connected' \in BOOLEAN
  BY DEF CInv, TypeOK
<1>3. hook' \in [Hooks -> HookStates] /\ owner' \in Clients
  <2>1. hook[k] \in HookStates /\ filters \subseteq Topics
    BY DEF CInv, TypeOK
  <2>2. hook' = hook \/ \E s \in HookStates : hook' = [hook EXCEPT ![k] = s]
    BY <2>1, NothingPending DEF HookStates
  <2>3. QED
    BY <2>1, <2>2 DEF CInv, TypeOK, HookStates
<1>4. subs' \in [Clients -> SUBSET Topics]
  BY DEF CInv, TypeOK, HookStates
<1> HIDE DEF onConnect, SubscribeAll, broker
<1>5. TypeOK'
  BY <1>1, <1>2, <1>3, <1>4 DEF CInv, TypeOK
<1>6. ClientsInTurn'
  BY <1>1 DEF CInv, ClientsInTurn, Replacing
<1>7. QED
  BY <1>5, <1>6 DEF CInv

LEMMA ResyncCInv ==
  ASSUME CInv, NEW r \in Resyncers,
         \/ \E topics \in SUBSET Topics : Resync(r, topics)
         \/ Unsubscribe(r)
         \/ Subscribe(r)
  PROVE  CInv'
<1> USE DEF Resync, Unsubscribe, Subscribe, broker
<1>1. UNCHANGED <<client, link, admin, connected, hook, lost, owner, overlapped>>
  OBVIOUS
<1>2. filters' \in SUBSET Topics /\ raced' \subseteq filters'
  BY DEF CInv, TypeOK
<1>3. resync[r] \in ResyncStates /\ resync[r].drop \cap resync[r].add = {}
  BY DEF CInv, TypeOK
<1>4. resync' = resync \/ \E s \in ResyncStates : s.drop \cap s.add = {} /\ resync' = [resync EXCEPT ![r] = s]
  <2>1. CASE \E topics \in SUBSET Topics : Resync(r, topics)
    <3>1. PICK topics \in SUBSET Topics : Resync(r, topics)
      BY <2>1
    <3>2. /\ Todo(filters \ topics, topics \ filters) \in ResyncStates
          /\ Todo(filters \ topics, topics \ filters).drop \cap Todo(filters \ topics, topics \ filters).add = {}
      <4>1. filters \ topics \in SUBSET Topics /\ topics \ filters \in SUBSET Topics
        BY DEF CInv, TypeOK
      <4>2. (filters \ topics) \cap (topics \ filters) = {}
        OBVIOUS
      <4> HIDE DEF Resync
      <4>3. QED
        BY <4>1, <4>2, TodoType
    <3>3. QED
      BY <3>1, <3>2
  <2>2. CASE Unsubscribe(r)
    <3>1. Todo({}, resync[r].add) \in ResyncStates /\ Todo({}, resync[r].add).drop = {}
      <4>1. resync[r].add \in SUBSET Topics /\ {} \in SUBSET Topics /\ {} \cap resync[r].add = {}
        BY <1>3 DEF ResyncStates
      <4> HIDE DEF Unsubscribe
      <4>2. QED
        BY <4>1, TodoType
    <3>2. QED
      BY <2>2, <3>1
  <2>3. CASE Subscribe(r)
    BY <2>3, NothingPending
  <2>4. QED
    BY <2>1, <2>2, <2>3
<1>5. subs' \in [Clients -> SUBSET Topics]
  <2>1. resync[r].add \subseteq Topics /\ subs \in [Clients -> SUBSET Topics] /\ client \in Clients
    BY <1>3 DEF CInv, TypeOK, ResyncStates
  <2>2. subs[client] \subseteq Topics
    BY <2>1
  <2>3. \/ subs' = subs
        \/ subs' = [subs EXCEPT ![client] = @ \cup resync[r].add]
        \/ subs' = [subs EXCEPT ![client] = @ \ resync[r].drop]
    OBVIOUS
  <2>4. QED
    BY <2>1, <2>2, <2>3
<1> HIDE DEF Resync, Unsubscribe, Subscribe, broker
<1>6. /\ resync' \in [Resyncers -> ResyncStates]
      /\ \A q \in Resyncers : resync'[q].drop \cap resync'[q].add = {}
  BY <1>4 DEF CInv, TypeOK
<1>7. TypeOK'
  BY <1>1, <1>2, <1>5, <1>6 DEF CInv, TypeOK
<1>8. ClientsInTurn'
  BY <1>1 DEF CInv, ClientsInTurn, Replacing
<1>9. QED
  BY <1>7, <1>8 DEF CInv

LEMMA ReconfigureCInv ==
  ASSUME CInv, NEW a \in Admins, Forget(a) \/ DisconnectOld(a) \/ MakeNew(a) \/ Connect(a)
  PROVE  CInv'
<1> USE ClientsAreNumbers DEF broker
<1>1. client \in Clients /\ admin \in [Admins -> AdminStates] /\ admin[a] \in AdminStates
  BY DEF CInv, TypeOK
<1>2. CASE Forget(a)
  <2>1. admin' = [admin EXCEPT ![a] = [at |-> "disconnect", old |-> client]]
    BY <1>2 DEF Forget
  <2>2. admin' \in [Admins -> AdminStates]
    BY <1>1, <2>1 DEF AdminStates
  <2>3. TypeOK'
    BY <1>2, <2>2 DEF Forget, CInv, TypeOK
  <2>4. \A b \in Admins : admin[b].at = "connect" <=> admin'[b].at = "connect"
    BY <1>1, <1>2, <2>1 DEF Forget
  <2>5. ClientsInTurn'
    BY <1>1, <1>2, <2>1, <2>4 DEF Forget, CInv, ClientsInTurn, Replacing
  <2>6. QED
    BY <2>3, <2>5 DEF CInv
<1>3. CASE DisconnectOld(a)
  <2>1. admin' = [admin EXCEPT ![a] = [at |-> "make", old |-> 1]]
    BY <1>3 DEF DisconnectOld
  <2>2. admin' \in [Admins -> AdminStates]
    BY <1>1, <2>1 DEF AdminStates
  <2>3. admin[a].old \in Clients
    BY <1>1 DEF AdminStates
  <2>4. TypeOK'
    BY <1>3, <2>2, <2>3 DEF DisconnectOld, CInv, TypeOK
  <2>5. \A b \in Admins : admin[b].at = "connect" <=> admin'[b].at = "connect"
    BY <1>1, <1>3, <2>1 DEF DisconnectOld
  <2>6. \A c \in Clients :
           \/ link'[c] = link[c] /\ link[c] \notin {"down", "up"}
           \/ link'[c] = link[c] /\ c # admin[a].old
           \/ link'[c] = "closed"
    BY <1>3, <2>3 DEF DisconnectOld, CInv, TypeOK
  <2>7. ASSUME client \notin overlapped
        PROVE  /\ admin[a].old = client
               /\ \A b \in Admins : admin[b].at # "connect"
               /\ link'[client] = "closed"
    <3>1. /\ admin[a].old = client
          /\ \A b \in Admins : admin[b].at # "connect"
      BY <1>3, <2>7 DEF DisconnectOld, CInv, ClientsInTurn, Replacing
    <3>2. link[client] \in {"down", "up", "closed"}
      BY <1>1, <3>1 DEF CInv, TypeOK, ClientsInTurn
    <3>3. QED
      BY <1>3, <3>1, <3>2 DEF DisconnectOld, CInv, TypeOK
  <2>8. UNCHANGED <<client, overlapped>>
    BY <1>3 DEF DisconnectOld
  <2>9. \A b \in Admins \ {a} : admin'[b] = admin[b]
    BY <1>1, <2>1
  <2>10. ClientsInTurn'
    BY <1>1, <2>1, <2>5, <2>6, <2>7, <2>8, <2>9 DEF CInv, ClientsInTurn, Replacing
  <2>11. QED
    BY <2>4, <2>10 DEF CInv
<1>4. CASE MakeNew(a)
  <2>1. PICK c \in Clients : /\ link[c] = "none"
                             /\ client' = c
                             /\ link' = [link EXCEPT ![c] = "made"]
                             /\ overlapped' = IF Replacing # {a} THEN overlapped \cup {c} ELSE overlapped
    BY <1>4 DEF MakeNew, Unmade
  <2>2. admin' = [admin EXCEPT ![a].at = "connect"]
    BY <1>4 DEF MakeNew
  <2>3. admin' \in [Admins -> AdminStates] /\ admin'[a].at = "connect"
    BY <1>1, <2>2 DEF AdminStates
  <2>4. TypeOK'
    BY <1>4, <2>1, <2>3 DEF MakeNew, CInv, TypeOK
  <2>5. a \in Replacing /\ Replacing' = Replacing \ {a}
    BY <1>1, <1>4, <2>2, <2>3 DEF MakeNew, Replacing
  <2>6. client \in overlapped \/ link[client] = "closed"
    BY <1>4, <2>5 DEF MakeNew, CInv, ClientsInTurn
  <2>7. client # c
    BY <2>1 DEF CInv, ClientsInTurn
  <2>8. \A d \in Clients : d # c /\ d \notin overlapped => link'[d] \in {"none", "closed"}
    BY <1>1, <2>1, <2>6 DEF CInv, TypeOK, ClientsInTurn
  <2>9. Replacing' # {} => c \in overlapped'
    BY <2>1, <2>5
  <2>10. link'[c] = "made"
    BY <2>1 DEF CInv, TypeOK
  <2>11. ClientsInTurn'
    BY <2>1, <2>3, <2>8, <2>9, <2>10 DEF ClientsInTurn
  <2>12. QED
    BY <2>4, <2>11 DEF CInv
<1>5. CASE Connect(a)
  <2>1. admin' = [admin EXCEPT ![a] = Idle]
    BY <1>5 DEF Connect
  <2>2. admin' \in [Admins -> AdminStates]
    BY <1>1, <2>1, NothingPending
  <2>3. TypeOK'
    BY <1>1, <1>5, <2>2 DEF Connect, CInv, TypeOK
  <2>4. Replacing' = Replacing /\ \A b \in Replacing : admin'[b] = admin[b]
    BY <1>1, <1>5, <2>1, NothingPending DEF Connect, Replacing
  <2>5. Replacing # {} => client \in overlapped
    BY <1>5 DEF Connect, CInv, ClientsInTurn
  <2>6. link'[client] \in {"down", "up"} /\ \A c \in Clients \ {client} : link'[c] = link[c]
    BY <1>1, <1>5 DEF Connect, CInv, TypeOK, ClientsInTurn
  <2>7. UNCHANGED <<client, overlapped>>
    BY <1>5 DEF Connect
  <2>8. ClientsInTurn'
    BY <2>4, <2>5, <2>6, <2>7 DEF CInv, ClientsInTurn
  <2>9. QED
    BY <2>3, <2>8 DEF CInv
<1>6. QED
  BY <1>2, <1>3, <1>4, <1>5

LEMMA StepCInv == CInv /\ [Next]_vars => CInv'
<1> SUFFICES ASSUME CInv, [Next]_vars PROVE CInv'
  OBVIOUS
<1>1. CASE UNCHANGED vars
  BY <1>1 DEF vars, broker, CInv, TypeOK, ClientsInTurn, Replacing
<1>2. QED
  BY <1>1, LinkUpCInv, LinkDownCInv, ConnectionLostCInv, CallbackCInv, ResyncCInv, ReconfigureCInv DEF Next

-----------------------------------------------------------------------------
(* Subscriptions.  The link, a Reconfigure and the callbacks change no     *)
(* table and no Resync.                                                    *)

LEMMA LinkSInv ==
  ASSUME CInv, SInv, NEW c \in Clients, LinkUp(c) \/ LinkDown(c)
  PROVE  SInv'
<1> USE DEF LinkUp, LinkDown
<1>1. DropsAreGone'
  BY DEF SInv, DropsAreGone
<1>2. SUFFICES ASSUME Connected', ~Greeting' PROVE \A t \in filters \ raced : Covered(t)'
  BY <1>1 DEF SInv, TablesAreCovered
<1>3. CASE LinkUp(c)
  <2>1. PICK k \in Hooks : /\ hook[k] = NoHook
                           /\ hook' = [hook EXCEPT ![k] = [at |-> "started", client |-> c, topics |-> {}]]
    BY <1>3
  <2>2. hook'[k].at = "started" /\ hook'[k].client = c
    BY <2>1 DEF CInv, TypeOK
  <2>3. c # client
    BY <1>2, <1>3, <2>2 DEF Greeting
  <2>4. Connected
    BY <1>2, <1>3, <2>3 DEF Connected, Up, CInv, TypeOK
  <2>5. ~Greeting
    BY <1>2, <1>3, <2>1, NothingPending DEF Greeting, CInv, TypeOK
  <2>6. \A t : Covered(t) => Covered(t)'
    BY <1>3, <2>1, NothingPending DEF Covered, ByHook, ByResync, CInv, TypeOK
  <2>7. QED
    BY <2>4, <2>5, <2>6 DEF SInv, TablesAreCovered
<1>4. CASE LinkDown(c)
  <2>1. c # client
    BY <1>2, <1>4 DEF Connected, Up, CInv, TypeOK
  <2>2. Connected /\ ~Greeting /\ subs'[client'] = subs[client]
    BY <1>2, <1>4, <2>1 DEF Connected, Greeting, Up, CInv, TypeOK
  <2>3. QED
    BY <1>4, <2>2 DEF SInv, TablesAreCovered, Covered, ByHook, ByResync
<1>5. QED
  BY <1>3, <1>4

LEMMA ForgottenSInv ==
  ASSUME CInv, SInv, NEW a \in Admins, Forget(a) \/ MakeNew(a) \/ Connect(a)
  PROVE  SInv'
<1> USE DEF Forget, MakeNew, Connect, broker
<1>1. DropsAreGone'
  BY DEF SInv, DropsAreGone
<1>2. CASE Forget(a)
  BY <1>1, <1>2 DEF Connected, SInv, TablesAreCovered
<1>3. CASE MakeNew(a)
  <2>1. link'[client'] = "made"
    BY <1>3 DEF CInv, TypeOK, Unmade
  <2>2. QED
    BY <1>1, <2>1 DEF Connected, Up, SInv, TablesAreCovered
<1>4. CASE Connect(a)
  <2>1. Connected' => link' = link
    BY <1>4 DEF Connected, Up, CInv, TypeOK
  <2>2. QED
    BY <1>1, <1>4, <2>1 DEF Connected, Greeting, Up, SInv, TablesAreCovered, Covered, ByHook, ByResync
<1>5. QED
  BY <1>2, <1>3, <1>4

LEMMA DisconnectOldSInv ==
  ASSUME CInv, SInv, NEW a \in Admins, DisconnectOld(a)
  PROVE  SInv'
<1> USE DEF DisconnectOld
<1>1. DropsAreGone'
  BY DEF SInv, DropsAreGone
<1>2. SUFFICES ASSUME Connected', ~Greeting' PROVE \A t \in filters \ raced : Covered(t)'
  BY <1>1 DEF SInv, TablesAreCovered
<1>3. admin[a].old \in Clients
  BY DEF CInv, TypeOK, AdminStates
<1>4. admin[a].old # client /\ Up(client)
  BY <1>2, <1>3 DEF Connected, Up, CInv, TypeOK
<1>5. Connected /\ ~Greeting /\ subs'[client'] = subs[client]
  BY <1>2, <1>3, <1>4 DEF Connected, Greeting, CInv, TypeOK
<1>6. QED
  BY <1>5 DEF SInv, TablesAreCovered, Covered, ByHook, ByResync

LEMMA onConnectSInv ==
  ASSUME CInv, SInv, NEW k \in Hooks, onConnect(k)
  PROVE  SInv'
<1> USE DEF onConnect, broker
<1>1. DropsAreGone'
  BY DEF SInv, DropsAreGone, ToDrop
<1>2. SUFFICES ASSUME Connected', NEW t \in filters' \ raced'
               PROVE  Covered(t)'
  BY <1>1 DEF SInv, TablesAreCovered
<1>3. hook[k].client = client /\ t \in filters
  BY <1>2 DEF Connected
<1>4. hook[k] \in HookStates
  BY DEF CInv, TypeOK
<1>5. hook'[k] = [at |-> "subscribing", client |-> client, topics |-> filters]
  BY <1>3, <1>4 DEF HookStates, CInv, TypeOK
<1>6. QED
  BY <1>3, <1>5 DEF Covered, ByHook

LEMMA SubscribeAllSInv ==
  ASSUME CInv, SInv, NEW k \in Hooks, SubscribeAll(k)
  PROVE  SInv'
<1> USE DEF SubscribeAll
<1>1. DropsAreGone'
  BY DEF SInv, DropsAreGone
<1>2. SUFFICES ASSUME Connected', ~Greeting', NEW t \in filters' \ raced'
               PROVE  Covered(t)'
  BY <1>1 DEF SInv, TablesAreCovered
<1>3. /\ \A j \in Hooks \ {k} : hook'[j] = hook[j]
      /\ hook'[k] = NoHook
  BY DEF CInv, TypeOK
<1>4. ~Greeting
  BY <1>2, <1>3 DEF Greeting
<1>5. Connected /\ Covered(t)
  BY <1>2, <1>4 DEF Connected, Up, SInv, TablesAreCovered
<1>6. \A c \in Clients : subs[c] \subseteq subs'[c]
  BY DEF CInv, TypeOK
<1>7. CASE t \in subs[client]
  BY <1>6, <1>7 DEF Covered, CInv, TypeOK
<1>8. CASE ByHook(k, t)
  <2>1. subs' = [subs EXCEPT ![client] = @ \cup hook[k].topics]
    BY <1>5, <1>8 DEF ByHook, Connected
  <2>2. t \in subs'[client']
    BY <1>8, <2>1 DEF ByHook, CInv, TypeOK
  <2>3. QED
    BY <2>2 DEF Covered
<1>9. CASE \E j \in Hooks \ {k} : ByHook(j, t)
  BY <1>3, <1>9 DEF Covered, ByHook
<1>10. CASE \E r \in Resyncers : ByResync(r, t)
  BY <1>10 DEF Covered, ByResync
<1>11. QED
  BY <1>5, <1>7, <1>8, <1>9, <1>10 DEF Covered

LEMMA SwapSInv ==
  ASSUME CInv, SInv, NEW r \in Resyncers, NEW topics \in SUBSET Topics, Resync(r, topics)
  PROVE  SInv'
<1> USE DEF Resync, broker
<1>1. /\ \A q \in Resyncers \ {r} : resync'[q] = resync[q]
      /\ filters' = topics /\ filters \in SUBSET Topics
      /\ resync[r].at = "none"
  BY DEF CInv, TypeOK
<1>2. /\ connected => /\ resync'[r].drop = filters \ topics
                      /\ resync'[r].add = topics \ filters
                      /\ resync'[r].at = "none" => resync'[r].drop = {} /\ resync'[r].add = {}
      /\ ~connected => resync' = resync
  <2>1. CASE connected
    <3>1. filters \ topics \in SUBSET Topics /\ topics \ filters \in SUBSET Topics
      BY <1>1
    <3>2. /\ Todo(filters \ topics, topics \ filters).drop = filters \ topics
          /\ Todo(filters \ topics, topics \ filters).add = topics \ filters
          /\ Todo(filters \ topics, topics \ filters).at = "none" => filters \ topics = {} /\ topics \ filters = {}
      BY <3>1, TodoType
    <3>3. resync'[r] = Todo(filters \ topics, topics \ filters)
      BY <2>1 DEF CInv, TypeOK
    <3>4. QED
      BY <2>1, <3>2, <3>3
  <2>2. QED
    BY <2>1
<1>3. resync[r].add = {}
  BY <1>1 DEF SInv, DropsAreGone
<1>4. resync[r].drop = {}
  BY <1>1 DEF SInv, DropsAreGone
<1>5. DropsAreGone'
  <2>1. ASSUME NEW q \in Resyncers, NEW t \in resync'[q].drop \cap topics
        PROVE  t \in raced'
    <3>1. q # r
      BY <1>1, <1>2, <1>4, <2>1
    <3>2. QED
      BY <1>1, <2>1, <3>1 DEF ToDrop
  <2>2. \A q \in Resyncers : resync'[q].at = "none" => resync'[q].drop = {} /\ resync'[q].add = {}
    BY <1>1, <1>2 DEF SInv, DropsAreGone
  <2>3. QED
    BY <1>1, <2>1, <2>2 DEF DropsAreGone
<1>6. ASSUME Connected', ~Greeting', NEW t \in filters' \ raced'
      PROVE  Covered(t)'
  <2>1. connected /\ Connected /\ ~Greeting
    BY <1>6 DEF Connected, Up, Greeting
  <2>2. CASE t \in filters
    <3>1. Covered(t)
      BY <1>1, <1>6, <2>1, <2>2 DEF SInv, TablesAreCovered
    <3>2. QED
      BY <1>1, <1>3, <3>1 DEF Covered, ByHook, ByResync
  <2>3. CASE t \notin filters
    BY <1>1, <1>2, <1>6, <2>1, <2>3 DEF Covered, ByResync
  <2>4. QED
    BY <2>2, <2>3
<1>7. QED
  BY <1>5, <1>6 DEF SInv, TablesAreCovered

LEMMA UnsubscribeSInv ==
  ASSUME CInv, SInv, NEW r \in Resyncers, Unsubscribe(r)
  PROVE  SInv'
<1> USE DEF Unsubscribe
<1>1. resync[r] \in ResyncStates
  BY DEF CInv, TypeOK
<1>2. /\ \A q \in Resyncers : resync'[q].add = resync[q].add
      /\ \A q \in Resyncers : resync'[q].drop \subseteq resync[q].drop
      /\ \A q \in Resyncers \ {r} : resync'[q] = resync[q]
      /\ resync'[r].at = "none" => resync'[r].drop = {} /\ resync'[r].add = {}
  <2>1. resync'[r] = Todo({}, resync[r].add)
    BY <1>1 DEF CInv, TypeOK
  <2>2. resync[r].add \in SUBSET Topics
    BY <1>1 DEF ResyncStates
  <2>3. /\ Todo({}, resync[r].add).drop = {}
        /\ Todo({}, resync[r].add).add = resync[r].add
        /\ Todo({}, resync[r].add).at = "none" => resync[r].add = {}
    BY <2>2, TodoType
  <2>4. \A q \in Resyncers \ {r} : resync'[q] = resync[q]
    BY DEF CInv, TypeOK
  <2>5. QED
    BY <2>1, <2>3, <2>4
<1>3. DropsAreGone'
  BY <1>2 DEF SInv, DropsAreGone
<1>4. SUFFICES ASSUME Connected', ~Greeting', NEW t \in filters' \ raced'
               PROVE  Covered(t)'
  BY <1>3 DEF SInv, TablesAreCovered
<1>5. t \in filters \ raced /\ Covered(t)
  BY <1>4 DEF Connected, Up, Greeting, SInv, TablesAreCovered
<1>6. t \notin resync[r].drop
  BY <1>5 DEF SInv, DropsAreGone
<1>7. t \in subs[client] => t \in subs'[client']
  BY <1>6 DEF CInv, TypeOK
<1>8. QED
  BY <1>2, <1>5, <1>7 DEF Covered, ByHook, ByResync

LEMMA SubscribeSInv ==
  ASSUME CInv, SInv, NEW r \in Resyncers, Subscribe(r)
  PROVE  SInv'
<1> USE DEF Subscribe
<1>1. /\ \A q \in Resyncers \ {r} : resync'[q] = resync[q]
      /\ resync'[r] = NoSync
  BY NothingPending DEF CInv, TypeOK
<1>2. DropsAreGone'
  BY <1>1, NothingPending DEF SInv, DropsAreGone
<1>3. SUFFICES ASSUME Connected', ~Greeting', NEW t \in filters' \ raced'
               PROVE  Covered(t)'
  BY <1>2 DEF SInv, TablesAreCovered
<1>4. t \in filters \ raced /\ Covered(t) /\ Up(client)
  BY <1>3 DEF Connected, Up, Greeting, SInv, TablesAreCovered
<1>5. subs'[client'] = subs[client] \cup resync[r].add
  BY <1>4 DEF CInv, TypeOK
<1>6. CASE \E q \in Resyncers : ByResync(q, t)
  BY <1>1, <1>5, <1>6 DEF Covered, ByResync
<1>7. QED
  BY <1>4, <1>5, <1>6 DEF Covered, ByHook

LEMMA StepSInv == CInv /\ SInv /\ [Next]_vars => SInv'
<1> SUFFICES ASSUME CInv, SInv, [Next]_vars PROVE SInv'
  OBVIOUS
<1>1. CASE UNCHANGED vars
  BY <1>1 DEF vars, broker, SInv, DropsAreGone, TablesAreCovered, Connected, Up, Greeting,
              Covered, ByHook, ByResync
<1>2. CASE ConnectionLost
  BY <1>2 DEF ConnectionLost, broker, SInv, DropsAreGone, TablesAreCovered, Connected
<1>3. QED
  BY <1>1, <1>2, LinkSInv, ForgottenSInv, DisconnectOldSInv, onConnectSInv, SubscribeAllSInv, SwapSInv,
     UnsubscribeSInv, SubscribeSInv DEF Next

-----------------------------------------------------------------------------
LEMMA Invariance == Spec => []CInv
  BY InitCInv, StepCInv, PTL DEF Spec

LEMMA SubscriptionInvariance == Spec => []SInv
  BY InitSInv, Invariance, StepSInv, PTL DEF Spec

\* The bridge's tables, its flag, the callbacks of paho and the difference a
\* Resync still has to send have their types, however the link, reloads and
\* changes of broker interleave.
THEOREM TypeCorrect == Spec => []TypeOK
<1>1. CInv => TypeOK
  BY DEF CInv
<1>2. QED
  BY Invariance, <1>1, PTL

\* Any number of Reconfigures, in any order of their steps: besides b.client
\* only a client that two of them handled at once can be connected under
\* the bridge's client id.  Reconfigures that do not overlap close every
\* client they replace.
THEOREM OneClientIsOnline == Spec => []OneClientOnline
<1>1. CInv => OneClientOnline
  BY ClientsAreNumbers DEF CInv, TypeOK, ClientsInTurn, OneClientOnline, Up
<1>2. QED
  BY Invariance, <1>1, PTL

\* A bridge that finished its callbacks and is connected is subscribed to
\* every topic of its tables, for any number of overlapping reloads, late
\* onConnect goroutines, lost connections and changes of broker, but for
\* topics that came back while a Resync had still to drop them.
THEOREM ConnectedIsSubscribed == Spec => []ConnectedMeansSubscribed
<1>1. SInv => ConnectedMeansSubscribed
  <2>1. SUFFICES ASSUME SInv, Quiet, Connected, NEW t \in filters \ raced
                 PROVE  t \in subs[client]
    BY DEF ConnectedMeansSubscribed
  <2>2. Covered(t)
    BY <2>1 DEF SInv, TablesAreCovered, Quiet, Greeting
  <2>3. \A r \in Resyncers : resync[r].add = {}
    BY <2>1 DEF Quiet, SInv, DropsAreGone
  <2>4. QED
    BY <2>1, <2>2, <2>3 DEF Quiet, Covered, ByHook, ByResync
<1>2. QED
  BY SubscriptionInvariance, <1>1, PTL

\* No step of the bridge, of any number of overlapping reloads, interrupts
\* the subscription of a topic that stays in the tables, while its link
\* stays up, but for topics that came back while a Resync had still to drop
\* them.
THEOREM KeptTopicsStay == Spec => KeptTopicsStaySubscribed
<1>1. ASSUME CInv, SInv, [Next]_vars, NEW c \in Clients, Up(c), Up(c)',
             NEW t \in (filters \cap filters' \cap subs[c]) \ raced
      PROVE  t \in subs'[c]
  <2> USE <1>1 DEF CInv, TypeOK, Up
  <2>1. CASE \E r \in Resyncers : Unsubscribe(r)
    BY <2>1 DEF Unsubscribe, SInv, DropsAreGone
  <2>2. CASE \E d \in Clients : LinkDown(d)
    BY <2>2 DEF LinkDown
  <2>3. CASE \E a \in Admins : DisconnectOld(a)
    BY <2>3 DEF DisconnectOld, AdminStates
  <2>4. CASE \E k \in Hooks : SubscribeAll(k)
    BY <2>4 DEF SubscribeAll
  <2>5. CASE \E r \in Resyncers : Subscribe(r)
    BY <2>5 DEF Subscribe
  <2>6. CASE UNCHANGED subs
    BY <2>6
  <2>7. QED
    BY <1>1, <2>1, <2>2, <2>3, <2>4, <2>5, <2>6
       DEF Next, LinkUp, ConnectionLost, onConnect, Resync, Forget, MakeNew, Connect, broker, vars
<1>2. CInv /\ SInv /\ [Next]_vars =>
        [\A c \in Clients : Up(c) /\ Up(c)' =>
           (filters \cap filters' \cap subs[c]) \ raced \subseteq subs'[c]]_vars
  BY <1>1
<1>3. QED
  BY Invariance, SubscriptionInvariance, <1>2, PTL DEF Spec, KeptTopicsStaySubscribed

=============================================================================
