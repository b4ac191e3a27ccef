----------------------------- MODULE InventoryBus -----------------------------
(***************************************************************************)
(* The Inventory fed by the package events of the message bus.             *)
(*                                                                         *)
(* The package manager publishes an event for everything it does; the bus  *)
(* delivers the events in order to InventoryBusHandler, which turns each   *)
(* into one call of the Inventory and ignores how the call ends. With      *)
(* several publishers the calls of the handler overlap. Other tasks use    *)
(* the Inventory meanwhile. The bus lives in the process of the daemon:    *)
(* what it has not delivered when the daemon stops is lost.                *)
(*                                                                         *)
(* The package manager and the bus are not part of this repository; they   *)
(* are modelled from how bus_handler.rs and main.rs use them.              *)
(***************************************************************************)
EXTENDS Inventory, Sequences

CONSTANTS
    Handlers,           \* the clients that are invocations of the bus handler
    ApiOperations,      \* the operations that the other clients use
    DefaultLabels,      \* Stable, Ok, no caption
    MaxEvents           \* bound on the events published

ASSUME HandlersAssumption ==
    /\ Handlers \subseteq Clients
    /\ {"upsert_resource", "uninstall"} \cup ApiOperations \subseteq Operations
    /\ DefaultLabels \in Labels
    /\ "active" \in ResourceStatuses
    /\ MaxEvents \in Nat

VARIABLES
    packages,   \* what the package manager has installed: id -> version
    queue,      \* events published and not delivered
    published,  \* how many events have been published
    lost,       \* history: packages whose last event was lost, could not be
                \* read, or was refused
    raced       \* history: handlers whose call overlaps another one's of the
                \* same package, so that either may come last

busvars == <<packages, queue, published, lost, raced>>
allvars == <<vars, busvars>>

Users == Clients \ Handlers

\* "malformed" is an event of a package whose payload the handler cannot read,
\* "unusable" a message that is about no package.
Events ==
    [topic : {"installed", "updated"}, id : ResourceIds, version : Versions]
        \cup [topic : {"removed", "malformed"}, id : ResourceIds]
        \cup [topic : {"unusable"}]

BusInit ==
    /\ Init
    /\ packages = EmptyTable
    /\ queue = <<>>
    /\ published = 0
    /\ lost = {}
    /\ raced = {}

-----------------------------------------------------------------------------
(* The package manager (external) *)

Publish(e) ==
    /\ published < MaxEvents
    /\ published' = published + 1
    /\ queue' = Append(queue, e)
    /\ UNCHANGED <<vars, lost, raced>>

\* The package manager tells what it did, in a form that may be another one
\* than the handler expects.
Announce(e) ==
    \/ Publish(e)
    \/ /\ "malformed_event" \in Disruptions
       /\ Publish([topic |-> "malformed", id |-> e.id])

PackageInstalled(id, version) ==
    /\ id \notin DOMAIN packages
    /\ packages' = Put(packages, id, version)
    /\ Announce([topic |-> "installed", id |-> id, version |-> version])

PackageUpdated(id, version) ==
    /\ id \in DOMAIN packages
    /\ packages[id] # version
    /\ packages' = [packages EXCEPT ![id] = version]
    /\ Announce([topic |-> "updated", id |-> id, version |-> version])

PackageRemoved(id) ==
    /\ id \in DOMAIN packages
    /\ packages' = Drop(packages, id)
    /\ Announce([topic |-> "removed", id |-> id])

OtherEvent == Publish([topic |-> "unusable"]) /\ UNCHANGED packages

PackageManager ==
    \/ \E id \in ResourceIds, version \in Versions :
          PackageInstalled(id, version) \/ PackageUpdated(id, version)
    \/ \E id \in ResourceIds : PackageRemoved(id)
    \/ OtherEvent

-----------------------------------------------------------------------------
(* InventoryBusHandler *)

\* The resource of an event: what the payload does not carry is reset.
EventRow(e, origin) ==
    [origin |-> origin, version |-> e.version, labels |-> DefaultLabels,
     status |-> "active"]

\* Mutant of UpsertRequest: an update of a package is installed.
InstallRequest(e, origin) ==
    [op |-> "install", id |-> e.id, row |-> EventRow(e, origin)]

UpsertRequest(e, origin) ==
    [op |-> "upsert_resource", id |-> e.id, row |-> EventRow(e, origin)]

Rivals(h, id) == {g \in Handlers \ {h} : at[g] # "idle" /\ req[g].id = id}

Race(h, id) ==
    raced' = IF Rivals(h, id) = {} THEN raced ELSE raced \cup Rivals(h, id) \cup {h}

\* A payload that cannot be read is logged: nothing is called for it, and what
\* the calls in progress write for the package may be out of date.
Ignore(h, id) ==
    /\ lost' = lost \cup {id}
    /\ raced' = raced \cup Rivals(h, id)
    /\ UNCHANGED vars

\* Mutant of Handle: a bad message is an error, and the bus delivers it again.
HandleOrRetry(h) ==
    /\ at[h] = "idle"
    /\ queue # <<>>
    /\ LET e == Head(queue) IN
       \/ /\ e.topic \in {"installed", "updated"}
          /\ \E origin \in Origins : Begin(h, UpsertRequest(e, origin))
          /\ queue' = Tail(queue)
          /\ Race(h, e.id)
       \/ /\ e.topic = "removed"
          /\ Begin(h, [op |-> "uninstall", id |-> e.id])
          /\ queue' = Tail(queue)
          /\ Race(h, e.id)
       \/ e.topic \in {"malformed", "unusable"} /\ UNCHANGED <<vars, queue, raced>>
    /\ UNCHANGED <<packages, published, lost>>

\* The origin is the type in the payload and the time of the call.
Handle(h) ==
    /\ at[h] = "idle"
    /\ queue # <<>>
    /\ queue' = Tail(queue)
    /\ LET e == Head(queue) IN
       \/ /\ e.topic \in {"installed", "updated"}
          /\ \E origin \in Origins : Begin(h, UpsertRequest(e, origin))
          /\ Race(h, e.id)
          /\ UNCHANGED lost
       \/ /\ e.topic = "removed"
          /\ Begin(h, [op |-> "uninstall", id |-> e.id])
          /\ Race(h, e.id)
          /\ UNCHANGED lost
       \/ e.topic = "malformed" /\ Ignore(h, e.id)
       \/ e.topic = "unusable" /\ UNCHANGED <<vars, lost, raced>>
    /\ UNCHANGED <<packages, published>>

\* The handler logs an error and returns Ok: the event is not tried again.
Handled(h) ==
    /\ Return(h)
    /\ lost' = IF h \in raced \/ answer[h] = "database"
               THEN lost \cup {req[h].id} ELSE lost \ {req[h].id}
    /\ raced' = raced \ {h}
    /\ UNCHANGED <<packages, queue, published>>

HandlerDropped(h) ==
    /\ DropCall(h)
    /\ lost' = lost \cup {req[h].id}
    /\ raced' = raced \ {h}
    /\ UNCHANGED <<packages, queue, published>>

HandlerStep(h) ==
    \/ Handle(h)
    \/ Statement(h) /\ UNCHANGED busvars
    \/ Handled(h)
    \/ HandlerDropped(h)

-----------------------------------------------------------------------------
(* The other tasks, and the process they all run in *)

UserStep(c) ==
    /\ \/ \E r \in Requests : r.op \in ApiOperations /\ Begin(c, r)
       \/ Statement(c)
       \/ DropCall(c)
       \/ Return(c)
    /\ UNCHANGED busvars

Concerned == {queue[i].id : i \in {j \in DOMAIN queue : queue[j].topic # "unusable"}}

InHand == {req[h].id : h \in {g \in Handlers : at[g] # "idle"}}

\* The daemon stops at any moment, and is started again on its database.
Restart ==
    /\ "dropped_call" \in Disruptions
    /\ at' = [c \in Clients |-> "idle"]
    /\ req' = [c \in Clients |-> NoRequest]
    /\ held' = [c \in Clients |-> None]
    /\ answer' = [c \in Clients |-> "none"]
    /\ queue' = <<>>
    /\ lost' = lost \cup Concerned \cup InHand
    /\ raced' = {}
    /\ UNCHANGED <<tables, packages, published>>

-----------------------------------------------------------------------------

BusNext ==
    \/ PackageManager
    \/ \E h \in Handlers : HandlerStep(h)
    \/ \E c \in Users : UserStep(c)
    \/ Restart

\* The bus awaits the handler for each event, and the handler returns.
BusFairness ==
    /\ \A c \in Clients : WF_allvars(Statement(c) /\ UNCHANGED busvars)
    /\ \A h \in Handlers : WF_allvars(Handle(h)) /\ WF_allvars(Handled(h))

BusSpec == BusInit /\ [][BusNext]_allvars /\ BusFairness

-----------------------------------------------------------------------------
(* Properties *)

BusTypeOK ==
    /\ TypeOK
    /\ packages \in Table(ResourceIds, Versions)
    /\ queue \in Seq(Events)
    /\ published \in 0..MaxEvents
    /\ lost \in SUBSET ResourceIds
    /\ raced \in SUBSET Handlers

Recorded(id) ==
    /\ id \in DOMAIN packages <=> Installed(id)
    /\ id \in DOMAIN packages => resources[id].version = packages[id]

\* When every event of a package is through, the inventory agrees with the
\* package manager about it, unless the last of these events was lost with the
\* process, could not be read, was refused by the database, or was handled
\* while another event of the package was: whatever users do to the status of the resource and to its
\* service instances meanwhile, and however many earlier events were lost, the
\* next event that is handled alone repairs the record (bus_handler.rs:81-124).
RecordedUnlessLost ==
    \A id \in ResourceIds :
       id \notin lost \cup Concerned \cup InHand => Recorded(id)

\* bus_handler.rs:9-11: a bad message, or a failing call, does not stop the
\* bus: every event published leaves the queue, to the handler or with the
\* process that held it.
EveryEventDelivered ==
    \A n \in 1..MaxEvents :
       published >= n ~> published - Len(queue) >= n

\* bus_handler.rs:61 "keeps `fs-inventory.db` in sync": once all events are
\* handled, the inventory holds exactly the packages installed.
InSync == Concerned \cup InHand = {} => \A id \in ResourceIds : Recorded(id)
==============================================================================
