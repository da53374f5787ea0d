----------------------------- MODULE MqttBridge -----------------------------
(***************************************************************************)
(* The MQTT bridge (internal/mqtt/bridge.go): its subscription tables, the *)
(* "connected" flag and the broker's view of the subscriptions, while the  *)
(* link goes up and down, catalog reloads call Resync and admins change    *)
(* the broker with Reconfigure.  Nothing keeps two Resyncs or two          *)
(* Reconfigures apart: the web server handles each request in a goroutine, *)
(* and b.client is read and written outside the bridge's lock.             *)
(*                                                                         *)
(* paho (external) starts onConnect and the connection-lost handler in a   *)
(* goroutine each: they may run late and in either order, even after the   *)
(* link has changed again.  A clean session starts without subscriptions;  *)
(* a subscribe or unsubscribe on a link that is down fails, and the bridge *)
(* does not retry it.                                                      *)
(***************************************************************************)
EXTENDS Naturals, FiniteSets

CONSTANTS
    Topics,     \* state topics of the devices
    Resyncers,  \* reloads that may call Resync at the same time
    Admins,     \* requests that may call Reconfigure at the same time
    Hooks,      \* identities of onConnect goroutines; bounds those alive
    MaxLost,    \* bounds the connection-lost handlers waiting to run
    MaxClients  \* bounds the paho clients: MaxClients - 1 reconfigurations

ASSUME MaxLostAssumption    == MaxLost \in Nat
ASSUME MaxClientsAssumption == MaxClients \in Nat \ {0}

Clients == 1 .. MaxClients

VARIABLES
    filters,    \* b.filters, the topics of the current tables
    connected,  \* b.connected
    client,     \* b.client
    link,       \* of each paho client
    subs,       \* the broker's subscriptions of each client's session
    hook,       \* the onConnect goroutines
    lost,       \* connection-lost handlers that have not run yet
    resync,     \* what each Resync still has to do at the broker
    admin,      \* progress of each Reconfigure
    owner,      \* history: the client whose onConnect set the flag last
    raced,      \* history: topics put back while a Resync still had to drop them
    overlapped  \* history: clients that two Reconfigures handled at once

broker == <<link, subs>>
vars == <<filters, connected, client, broker, hook, lost, resync, admin, owner, raced, overlapped>>

NoHook == [at |-> "none", client |-> 1, topics |-> {}]
NoSync == [at |-> "none", drop |-> {}, add |-> {}]
Idle   == [at |-> "idle", old |-> 1]

HookStates   == [at : {"none", "started", "subscribing"}, client : Clients, topics : SUBSET Topics]
ResyncStates == [at : {"none", "unsubscribe", "subscribe"}, drop : SUBSET Topics, add : SUBSET Topics]
AdminStates  == [at : {"idle", "disconnect", "make", "connect"}, old : Clients]

\* main.go reloads the catalog before it calls Connect.
Init ==
    /\ filters   \in SUBSET Topics
    /\ connected = FALSE
    /\ client    = 1
    /\ link      = [c \in Clients |-> IF c = 1 THEN "down" ELSE "none"]
    /\ subs      = [c \in Clients |-> {}]
    /\ hook      = [k \in Hooks |-> NoHook]
    /\ lost      = 0
    /\ resync    = [r \in Resyncers |-> NoSync]
    /\ admin     = [a \in Admins |-> Idle]
    /\ owner     = 1
    /\ raced     = {}
    /\ overlapped = {}

Up(c) == link[c] = "up"

\* One of these Resyncs has still to unsubscribe topic t.
ToDrop(t, resyncs) == \E r \in resyncs : t \in resync[r].drop

-----------------------------------------------------------------------------
(* The link, and the callbacks paho starts.                                *)

LinkUp(c) ==
    /\ link[c] = "down"
    /\ link' = [link EXCEPT ![c] = "up"]
    /\ \E k \in Hooks :
        /\ hook[k] = NoHook
        /\ hook' = [hook EXCEPT ![k] = [at |-> "started", client |-> c, topics |-> {}]]
    /\ UNCHANGED <<filters, connected, client, subs, lost, resync, admin, owner, raced, overlapped>>

LinkDown(c) ==
    /\ Up(c)
    /\ lost < MaxLost
    /\ link' = [link EXCEPT ![c] = "down"]
    /\ subs' = [subs EXCEPT ![c] = {}]
    /\ lost' = lost + 1
    /\ UNCHANGED <<filters, connected, client, hook, resync, admin, owner, raced, overlapped>>

ConnectionLost ==
    /\ lost > 0
    /\ lost' = lost - 1
    /\ connected' = FALSE
    /\ UNCHANGED <<filters, client, broker, hook, resync, admin, owner, raced, overlapped>>

\* Mutant: the topics are those of the previous connection.
onConnectMutant(k) ==
    /\ hook[k].at = "started"
    /\ connected' = TRUE
    /\ owner' = hook[k].client
    /\ hook' = [hook EXCEPT ![k] =
            IF filters = {} THEN NoHook
            ELSE [@ EXCEPT !.at = "subscribing", !.topics = filters \cap subs[client]]]
    /\ raced' = IF hook[k].client = client THEN {t \in raced : ToDrop(t, Resyncers)} ELSE raced
    /\ UNCHANGED <<filters, client, broker, lost, resync, admin, overlapped>>

\* onConnect copies the filters in the critical section that sets the flag,
\* and subscribes after it.
onConnect(k) ==
    /\ hook[k].at = "started"
    /\ connected' = TRUE
    /\ owner' = hook[k].client
    /\ hook' = [hook EXCEPT ![k] =
            IF filters = {} THEN NoHook
            ELSE [@ EXCEPT !.at = "subscribing", !.topics = filters]]
    /\ raced' = IF hook[k].client = client THEN {t \in raced : ToDrop(t, Resyncers)} ELSE raced
    /\ UNCHANGED <<filters, client, broker, lost, resync, admin, overlapped>>

SubscribeAll(k) ==
    LET c == hook[k].client IN
    /\ hook[k].at = "subscribing"
    /\ subs' = IF Up(c) THEN [subs EXCEPT ![c] = @ \cup hook[k].topics] ELSE subs
    /\ hook' = [hook EXCEPT ![k] = NoHook]
    /\ UNCHANGED <<filters, connected, client, link, lost, resync, admin, owner, raced, overlapped>>

-----------------------------------------------------------------------------
(* Resync: swap the tables and read the flag under the lock, then apply    *)
(* the difference with two broker calls, outside it, on whatever b.client  *)
(* is by then.                                                             *)

\* The broker calls left: each is made only when it has topics.
Todo(drop, add) ==
    [at   |-> IF drop # {} THEN "unsubscribe" ELSE IF add # {} THEN "subscribe" ELSE "none",
     drop |-> drop,
     add  |-> add]

\* Mutant: everything is unsubscribed and subscribed again.
ResyncMutant(r, topics) ==
    /\ resync[r].at = "none"
    /\ filters' = topics
    /\ resync' = IF connected THEN [resync EXCEPT ![r] = Todo(filters, topics)] ELSE resync
    /\ raced' = {t \in topics : t \in raced \/ ToDrop(t, Resyncers \ {r})}
    /\ UNCHANGED <<connected, client, broker, hook, lost, admin, owner, overlapped>>

Resync(r, topics) ==
    /\ resync[r].at = "none"
    /\ filters' = topics
    /\ resync' = IF connected THEN [resync EXCEPT ![r] = Todo(filters \ topics, topics \ filters)] ELSE resync
    /\ raced' = {t \in topics : t \in raced \/ ToDrop(t, Resyncers \ {r})}
    /\ UNCHANGED <<connected, client, broker, hook, lost, admin, owner, overlapped>>

Unsubscribe(r) ==
    /\ resync[r].at = "unsubscribe"
    /\ subs' = IF Up(client) THEN [subs EXCEPT ![client] = @ \ resync[r].drop] ELSE subs
    /\ resync' = [resync EXCEPT ![r] = Todo({}, @.add)]
    /\ UNCHANGED <<filters, connected, client, link, hook, lost, admin, owner, raced, overlapped>>

Subscribe(r) ==
    /\ resync[r].at = "subscribe"
    /\ subs' = IF Up(client) THEN [subs EXCEPT ![client] = @ \cup resync[r].add] ELSE subs
    /\ resync' = [resync EXCEPT ![r] = NoSync]
    /\ UNCHANGED <<filters, connected, client, link, hook, lost, admin, owner, raced, overlapped>>

-----------------------------------------------------------------------------
(* Reconfigure: forget the connection, disconnect the client it found,     *)
(* put a new one in its place, connect whichever is there by then.  paho   *)
(* ignores a Disconnect of a client that is not connecting or connected,   *)
(* and a Connect of one that is.                                           *)

Replacing == {a \in Admins : admin[a].at \in {"disconnect", "make"}}
Unmade    == {c \in Clients : link[c] = "none"}

\* old := b.client, and the flag is cleared.
Forget(a) ==
    /\ admin[a].at = "idle"
    /\ Cardinality(Replacing) < Cardinality(Unmade)
    /\ connected' = FALSE
    /\ admin' = [admin EXCEPT ![a] = [at |-> "disconnect", old |-> client]]
    /\ overlapped' = IF \E b \in Admins : admin[b].at = "connect" THEN overlapped \cup {client} ELSE overlapped
    /\ UNCHANGED <<filters, client, broker, hook, lost, resync, owner, raced>>

\* Mutant: the old client is not disconnected.
DisconnectOldMutant(a) ==
    /\ admin[a].at = "disconnect"
    /\ admin' = [admin EXCEPT ![a] = [at |-> "make", old |-> 1]]
    /\ UNCHANGED <<filters, connected, client, broker, hook, lost, resync, owner, raced, overlapped>>

DisconnectOld(a) ==
    LET old == admin[a].old IN
    /\ admin[a].at = "disconnect"
    /\ link' = IF link[old] \in {"down", "up"} THEN [link EXCEPT ![old] = "closed"] ELSE link
    /\ subs' = [subs EXCEPT ![old] = {}]
    /\ admin' = [admin EXCEPT ![a] = [at |-> "make", old |-> 1]]
    /\ UNCHANGED <<filters, connected, client, hook, lost, resync, owner, raced, overlapped>>

\* b.client = b.newClient(cfg)
MakeNew(a) ==
    /\ admin[a].at = "make"
    /\ \E c \in Unmade :
        /\ \A d \in Unmade : c <= d
        /\ client' = c
        /\ link' = [link EXCEPT ![c] = "made"]
        /\ overlapped' = IF Replacing # {a} THEN overlapped \cup {c} ELSE overlapped
    /\ admin' = [admin EXCEPT ![a].at = "connect"]
    /\ UNCHANGED <<filters, connected, subs, hook, lost, resync, owner, raced>>

\* return b.Connect(), of the b.client another Reconfigure may have put there
Connect(a) ==
    /\ admin[a].at = "connect"
    /\ link' = IF link[client] \in {"made", "closed"} THEN [link EXCEPT ![client] = "down"] ELSE link
    /\ admin' = [admin EXCEPT ![a] = Idle]
    /\ UNCHANGED <<filters, connected, client, subs, hook, lost, resync, owner, raced, overlapped>>

-----------------------------------------------------------------------------
Next ==
    \/ \E c \in Clients : LinkUp(c)
    \/ \E c \in Clients : LinkDown(c)
    \/ ConnectionLost
    \/ \E k \in Hooks : onConnect(k)
    \/ \E k \in Hooks : SubscribeAll(k)
    \/ \E r \in Resyncers, topics \in SUBSET Topics : Resync(r, topics)
    \/ \E r \in Resyncers : Unsubscribe(r)
    \/ \E r \in Resyncers : Subscribe(r)
    \/ \E a \in Admins : Forget(a)
    \/ \E a \in Admins : DisconnectOld(a)
    \/ \E a \in Admins : MakeNew(a)
    \/ \E a \in Admins : Connect(a)

\* Goroutines that started run on; paho keeps retrying, but the network owes
\* it nothing.
Fairness ==
    /\ WF_vars(ConnectionLost)
    /\ \A k \in Hooks : WF_vars(onConnect(k)) /\ WF_vars(SubscribeAll(k))
    /\ \A r \in Resyncers : WF_vars(Unsubscribe(r)) /\ WF_vars(Subscribe(r))
    /\ \A a \in Admins : WF_vars(DisconnectOld(a)) /\ WF_vars(MakeNew(a)) /\ WF_vars(Connect(a))

Spec == Init /\ [][Next]_vars /\ Fairness

-----------------------------------------------------------------------------
\* Every variable has its type, and no Resync drops a topic it also adds.
TypeOK ==
    /\ filters   \in SUBSET Topics
    /\ connected \in BOOLEAN
    /\ client    \in Clients
    /\ link      \in [Clients -> {"none", "made", "down", "up", "closed"}]
    /\ subs      \in [Clients -> SUBSET Topics]
    /\ hook      \in [Hooks -> HookStates]
    /\ lost      \in 0 .. MaxLost
    /\ resync    \in [Resyncers -> ResyncStates]
    /\ \A r \in Resyncers : resync[r].drop \cap resync[r].add = {}
    /\ admin     \in [Admins -> AdminStates]
    /\ owner     \in Clients
    /\ raced     \subseteq filters
    /\ overlapped \subseteq Clients

Quiet ==
    /\ \A k \in Hooks : hook[k].at = "none"
    /\ \A r \in Resyncers : resync[r].at = "none"
    /\ \A a \in Admins : admin[a].at = "idle"

\* The bridge's own callback of its own client set the flag.
Connected == connected /\ Up(client) /\ owner = client

\* When no callback, Resync or Reconfigure is under way and the bridge is
\* connected, the broker has the topics of the tables, whatever order the
\* link, its late callbacks, overlapping edits and changes of broker came
\* in.  The one way to miss a topic: it came back into the tables while an
\* earlier Resync had still to unsubscribe it, and the bridge has not
\* reconnected since.  A flag set last by a callback of a client that
\* Reconfigure replaced does not count as connected.
ConnectedMeansSubscribed ==
    Quiet /\ Connected => filters \ raced \subseteq subs[client]

\* An edit never interrupts a topic it keeps: while the link stays up, a
\* subscribed topic that is in the tables before and after stays subscribed,
\* but for a topic that came back while a Resync had still to unsubscribe it.
KeptTopicsStaySubscribed ==
    [][\A c \in Clients : Up(c) /\ Up(c)' =>
         (filters \cap filters' \cap subs[c]) \ raced \subseteq subs'[c]]_vars

\* Besides b.client, only a client that two overlapping Reconfigures handled
\* at once can be connected: one was about to replace b.client when the
\* other put it there, or found it before the other connected it.  All
\* clients have the id "yandex2mqtt", and two of them throw each other out
\* of the broker for ever; Reconfigures that do not overlap never leave two.
OneClientOnline ==
    \A c \in Clients : Up(c) => c = client \/ c \in overlapped

\* Once link, edits and admins leave it alone with its link up, the bridge
\* finishes its callbacks and is subscribed, unless a connection-lost
\* handler that ran late cleared the flag, or a topic came back while a
\* Resync had still to unsubscribe it.
SettlesSubscribed ==
    (<>[][UNCHANGED <<filters, client, link>>]_vars)
        => <>[](Connected => filters \ raced \subseteq subs[client])

=============================================================================
