--------------------------- MODULE InventoryBusProofs ---------------------------
(***************************************************************************)
(* Proofs about InventoryBus: for any number of packages, events, handler  *)
(* invocations, users and restarts, calls stay atomic, and the record of a *)
(* package follows its events.                                             *)
(***************************************************************************)
EXTENDS InventoryBus, InventoryProofs, SequenceTheorems

(***************************************************************************)
(* Calls stay atomic.                                                      *)
(***************************************************************************)

\* An event of the queue becomes a request of the store.
LEMMA EventRequests ==
  ASSUME NEW e \in Events
  PROVE  /\ e.topic \in {"installed", "updated"} =>
               \A origin \in Origins : UpsertRequest(e, origin) \in Requests
         /\ e.topic = "removed" =>
               [op |-> "uninstall", id |-> e.id] \in Requests
<1>1. ASSUME e.topic \in {"installed", "updated"}, NEW origin \in Origins
      PROVE  UpsertRequest(e, origin) \in Requests
  <2>1. e.id \in ResourceIds /\ e.version \in Versions
    BY <1>1 DEF Events
  <2>2. EventRow(e, origin) \in ResourceRow
    BY <2>1, HandlersAssumption DEF EventRow, ResourceRow
  <2>3. UpsertRequest(e, origin) \in ResourceWrite
    BY <2>1, <2>2 DEF UpsertRequest, ResourceWrite
  <2>. QED
    BY <2>3, HandlersAssumption DEF Requests, UpsertRequest
<1>2. ASSUME e.topic = "removed"
      PROVE  [op |-> "uninstall", id |-> e.id] \in Requests
  <2>1. e.id \in ResourceIds
    BY <1>2 DEF Events
  <2>. QED
    BY <2>1, HandlersAssumption DEF Requests, Removal
<1>. QED
  BY <1>1, <1>2

\* For the Inventory every step is a step of one caller, or the end of all.
LEMMA BusForms ==
  ASSUME queue \in Seq(Events), [BusNext]_allvars
  PROVE  [Next]_vars \/ Gone(Clients)
<1>1. CASE PackageManager
  BY <1>1 DEF PackageManager, PackageInstalled, PackageUpdated, PackageRemoved,
     OtherEvent, Announce, Publish
<1>2. ASSUME NEW h \in Handlers, HandlerStep(h)
      PROVE  [Next]_vars
  <2>1. h \in Clients
    BY HandlersAssumption
  <2>2. CASE Handle(h)
    <3>1. Head(queue) \in Events
      BY <2>2, HeadTailProperties DEF Handle
    <3>2. (\E r \in Requests : Begin(h, r)) \/ UNCHANGED vars
      BY <2>2, <3>1, EventRequests DEF Handle, Ignore
    <3>. QED
      BY <2>1, <3>2 DEF Next, ClientStep
  <2>. QED
    BY <1>2, <2>1, <2>2
       DEF HandlerStep, Handled, HandlerDropped, Next, ClientStep
<1>3. ASSUME NEW c \in Users, UserStep(c)
      PROVE  [Next]_vars
  BY <1>3 DEF Users, UserStep, Next, ClientStep
<1>4. CASE Restart
  BY <1>4 DEF Restart, Gone
<1>5. CASE UNCHANGED allvars
  BY <1>5 DEF allvars
<1>. QED
  BY <1>1, <1>2, <1>3, <1>4, <1>5 DEF BusNext

\* The queue holds events.
LEMMA QueueStep ==
  ASSUME queue \in Seq(Events), [BusNext]_allvars
  PROVE  queue' \in Seq(Events)
<1>1. ASSUME NEW e \in Events, Publish(e)
      PROVE  queue' \in Seq(Events)
  BY <1>1, AppendProperties DEF Publish
<1>2. CASE PackageManager
  BY <1>1, <1>2 DEF PackageManager, PackageInstalled, PackageUpdated,
     PackageRemoved, OtherEvent, Announce, Events
<1>3. ASSUME NEW h \in Handlers, HandlerStep(h)
      PROVE  queue' \in Seq(Events)
  BY <1>3, HeadTailProperties DEF HandlerStep, Handle, Handled, HandlerDropped,
     busvars
<1>4. ASSUME NEW c \in Users, UserStep(c)
      PROVE  queue' \in Seq(Events)
  BY <1>4 DEF UserStep, busvars
<1>5. CASE Restart
  BY <1>5 DEF Restart
<1>6. CASE UNCHANGED allvars
  BY <1>6 DEF allvars, busvars
<1>. QED
  BY <1>2, <1>3, <1>4, <1>5, <1>6 DEF BusNext

CallsOK == IInv /\ queue \in Seq(Events)

LEMMA BusStart ==
  ASSUME BusInit
  PROVE  CallsOK /\ Store!Init
<1>1. TablesTypeOK /\ ReferentialIntegrity
  BY EmptyTableType DEF BusInit, Init, TablesTypeOK, ReferentialIntegrity
<1>2. Quiet
  BY DEF BusInit, Init, Quiet
<1>. QED
  BY <1>1, <1>2, QuietStart DEF CallsOK, BusInit

LEMMA CallsStep ==
  ASSUME CallsOK, [BusNext]_allvars
  PROVE  CallsOK' /\ [Store!Next]_(Store!vars)
BY BusForms, QueueStep, InvariantStep, StepRefines, GoneStep DEF CallsOK

\* The inductive invariant of the Inventory survives the bus, its handler and
\* the restarts of the daemon.
THEOREM BusInvariance == BusSpec => []IInv
<1>1. BusInit => CallsOK
  BY BusStart
<1>2. CallsOK /\ [BusNext]_allvars => CallsOK'
  BY CallsStep
<1>3. CallsOK => IInv
  BY DEF CallsOK
<1>. QED
  BY <1>1, <1>2, <1>3, PTL DEF BusSpec

\* A call of the bus handler is atomic like any other, and so is a restart:
\* half a call is never seen.
THEOREM BusImplementsStore == BusSpec => ImplementsStore
<1>1. BusInit => CallsOK /\ Store!Init
  BY BusStart
<1>2. CallsOK /\ [BusNext]_allvars => CallsOK' /\ [Store!Next]_(Store!vars)
  BY CallsStep
<1>. QED
  BY <1>1, <1>2, PTL DEF BusSpec, Store!Spec, ImplementsStore

(***************************************************************************)
(* Types: who calls what, and what the package manager and the bus hold.   *)
(***************************************************************************)

\* A statement leaves every request as it is and does not end the call.
LEMMA StatementForms ==
  ASSUME TypeOK, NEW c \in Clients, Statement(c)
  PROVE  AtStatement(c) /\ at'[c] # "idle" /\ UNCHANGED req
<1> USE DEF TypeOK, Running, GoTo, Finish, AtStatement
<1>1. CASE InstallFind(c) \/ InstallInsert(c) \/ UpsertReread(c) \/ UpsertWrite(c)
  BY <1>1 DEF InstallFind, InstallInsert, UpsertReread, UpsertWrite
<1>2. CASE \/ UninstallFind(c) \/ UninstallDelete(c)
           \/ SetResourceStatusFind(c) \/ SetResourceStatusWrite(c)
  BY <1>2 DEF UninstallFind, UninstallDelete, SetResourceStatusFind,
     SetResourceStatusWrite
<1>3. CASE AddServiceInsert(c) \/ UpsertServiceFind(c) \/ UpsertServiceWrite(c)
  BY <1>3 DEF AddServiceInsert, UpsertServiceFind, UpsertServiceWrite, HoldNamed
<1>4. CASE \/ SetServiceStatusFind(c) \/ SetServiceStatusWrite(c)
           \/ StatementError(c)
  BY <1>4 DEF SetServiceStatusFind, SetServiceStatusWrite, StatementError,
     HoldNamed
<1>. QED
  BY <1>1, <1>2, <1>3, <1>4 DEF Statement

\* The handler only upserts and uninstalls resources.
RolesOK ==
    /\ \A c \in Users : req[c].op \in ApiOperations \cup {"none"}
    /\ \A h \in Handlers : req[h].op \in {"upsert_resource", "uninstall", "none"}

LEMMA RolesStep ==
  ASSUME TypeOK, RolesOK, queue \in Seq(Events), [BusNext]_allvars
  PROVE  RolesOK'
<1> USE DEF RolesOK
<1>0. Handlers \subseteq Clients
  BY HandlersAssumption
<1>1. CASE UNCHANGED req
  BY <1>1
<1>2. ASSUME NEW c \in Clients, req' = [req EXCEPT ![c] = NoRequest]
      PROVE  RolesOK'
  BY <1>0, <1>2 DEF TypeOK, NoRequest, Users
<1>3. ASSUME NEW h \in Handlers, HandlerStep(h)
      PROVE  RolesOK'
  <2>1. CASE Handle(h)
    <3>1. CASE UNCHANGED vars
      BY <1>1, <3>1 DEF vars
    <3>2. ASSUME NEW r, Begin(h, r), r.op \in {"upsert_resource", "uninstall"}
          PROVE  RolesOK'
      BY <1>0, <3>2 DEF Begin, TypeOK, Users
    <3>. QED
      BY <2>1, <3>1, <3>2 DEF Handle, Ignore, UpsertRequest
  <2>. QED
    BY <1>0, <1>1, <1>2, <1>3, <2>1, StatementForms
       DEF HandlerStep, Handled, HandlerDropped, DropCall, Return, Reset
<1>4. ASSUME NEW c \in Users, UserStep(c)
      PROVE  RolesOK'
  <2>1. c \in Clients
    BY DEF Users
  <2>2. ASSUME NEW r, Begin(c, r), r.op \in ApiOperations
        PROVE  RolesOK'
    BY <1>0, <2>1, <2>2 DEF Begin, TypeOK, Users
  <2>. QED
    BY <1>1, <1>2, <1>4, <2>1, <2>2, StatementForms
       DEF UserStep, DropCall, Return, Reset
<1>5. CASE Restart
  BY <1>0, <1>5 DEF Restart, NoRequest, Users
<1>6. CASE PackageManager \/ UNCHANGED allvars
  BY <1>1, <1>6 DEF PackageManager, PackageInstalled, PackageUpdated,
     PackageRemoved, OtherEvent, Announce, Publish, vars, allvars
<1>. QED
  BY <1>3, <1>4, <1>5, <1>6 DEF BusNext

\* A busy invocation of the handler works on a resource.
LEMMA HandlerIds ==
  ASSUME IInv, RolesOK, NEW h \in Handlers, at[h] # "idle"
  PROVE  /\ req[h].op \in {"upsert_resource", "uninstall"}
         /\ req[h].id \in ResourceIds
<1>1. req[h] \in Requests \cup {NoRequest} /\ req[h] # NoRequest
  BY HandlersAssumption DEF IInv, TypeOK, ControlOK
<1>. QED
  BY <1>1, RequestTypes DEF RolesOK

\* The variables of the bus keep their types.
BusVarsOK ==
    /\ packages \in Table(ResourceIds, Versions)
    /\ queue \in Seq(Events)
    /\ published \in 0..MaxEvents
    /\ lost \in SUBSET ResourceIds
    /\ raced \in SUBSET Handlers

LEMMA BusVarsStep ==
  ASSUME IInv, RolesOK, BusVarsOK, [BusNext]_allvars
  PROVE  BusVarsOK'
<1> USE DEF BusVarsOK
<1>1. queue' \in Seq(Events)
  BY QueueStep
<1>2. CASE PackageManager
  <2>1. ASSUME NEW e, Publish(e)
        PROVE  published' \in 0..MaxEvents /\ UNCHANGED <<lost, raced>>
    BY <2>1, HandlersAssumption DEF Publish
  <2>2. packages' \in Table(ResourceIds, Versions)
    <3>1. ASSUME NEW id \in ResourceIds, NEW version \in Versions,
                 PackageInstalled(id, version)
          PROVE  packages' \in Table(ResourceIds, Versions)
      BY <3>1, PutTable DEF PackageInstalled
    <3>2. ASSUME NEW id \in ResourceIds, NEW version \in Versions,
                 PackageUpdated(id, version)
          PROVE  packages' \in Table(ResourceIds, Versions)
      BY <3>2, UpdateTable DEF PackageUpdated
    <3>3. ASSUME NEW id \in ResourceIds, PackageRemoved(id)
          PROVE  packages' \in Table(ResourceIds, Versions)
      BY <3>3, DropTable DEF PackageRemoved
    <3>. QED
      BY <1>2, <3>1, <3>2, <3>3 DEF PackageManager, OtherEvent
  <2>. QED
    BY <1>1, <1>2, <2>1, <2>2 DEF PackageManager, PackageInstalled,
       PackageUpdated, PackageRemoved, OtherEvent, Announce
<1>3. ASSUME NEW h \in Handlers, HandlerStep(h)
      PROVE  BusVarsOK'
  <2>1. CASE Handle(h)
    <3>1. Head(queue) \in Events
      BY <2>1, HeadTailProperties DEF Handle
    <3>2. Head(queue).topic = "malformed" => Head(queue).id \in ResourceIds
      BY <3>1 DEF Events
    <3>. QED
      BY <1>1, <2>1, <3>2 DEF Handle, Race, Ignore, Rivals
  <2>2. CASE Handled(h) \/ HandlerDropped(h)
    <3>1. at[h] # "idle"
      BY <2>2 DEF Handled, HandlerDropped, Return, DropCall, AtStatement
    <3>. QED
      BY <1>1, <2>2, <3>1, HandlerIds DEF Handled, HandlerDropped
  <2>. QED
    BY <1>3, <2>1, <2>2 DEF HandlerStep, busvars
<1>4. ASSUME NEW c \in Users, UserStep(c)
      PROVE  BusVarsOK'
  BY <1>4 DEF UserStep, busvars
<1>5. CASE Restart
  <2>1. InHand \subseteq ResourceIds
    BY HandlerIds DEF InHand
  <2>2. Concerned \subseteq ResourceIds
    BY LenProperties DEF Concerned, Events
  <2>. QED
    BY <1>1, <1>5, <2>1, <2>2 DEF Restart
<1>6. CASE UNCHANGED allvars
  BY <1>6 DEF allvars, busvars
<1>. QED
  BY <1>2, <1>3, <1>4, <1>5, <1>6 DEF BusNext

\* IInv with the roles of the callers and the types of the bus.
TypesInv == IInv /\ RolesOK /\ BusVarsOK

LEMMA TypesStart ==
  ASSUME BusInit
  PROVE  TypesInv
<1>1. IInv
  BY BusStart DEF CallsOK
<1>2. RolesOK
  BY HandlersAssumption DEF BusInit, Init, RolesOK, NoRequest, Users
<1>3. BusVarsOK
  BY EmptyTableType, HandlersAssumption DEF BusInit, BusVarsOK
<1>. QED
  BY <1>1, <1>2, <1>3 DEF TypesInv

LEMMA TypesStep ==
  ASSUME TypesInv, [BusNext]_allvars
  PROVE  TypesInv'
BY CallsStep, RolesStep, BusVarsStep DEF TypesInv, CallsOK, BusVarsOK, IInv

\* The types of the Inventory and of the bus, for any number of events.
THEOREM BusTypeCorrectness == BusSpec => []BusTypeOK
<1>1. BusInit => TypesInv
  BY TypesStart
<1>2. TypesInv /\ [BusNext]_allvars => TypesInv'
  BY TypesStep
<1>3. TypesInv => BusTypeOK
  BY DEF TypesInv, IInv, BusVarsOK, BusTypeOK
<1>. QED
  BY <1>1, <1>2, <1>3, PTL DEF BusSpec

(***************************************************************************)
(* The record of a package: what the events in the queue, and then the     *)
(* calls they become, will make of it.                                     *)
(***************************************************************************)

\* Nobody but the handler installs, updates or removes a resource.
UsersOnlyUse ==
    ApiOperations \cap {"install", "upsert_resource", "uninstall"} = {}

About(e, id) == e.topic # "unusable" /\ e.id = id

\* No event of the package is waiting.
Through(id) == \A i \in DOMAIN queue : ~About(queue[i], id)

Busy(h) == at[h] # "idle"

\* No event of the package is waiting or being handled.
Settled(id) == Through(id) /\ \A h \in Handlers : Busy(h) => req[h].id # id

\* What an event says is how the package manager has it; so is what a call of
\* the handler asks for; and what it asked for is in the inventory.
EventIsCurrent(e) ==
    /\ e.topic = "removed" => e.id \notin DOMAIN packages
    /\ e.topic \in {"installed", "updated"} => /\ e.id \in DOMAIN packages
                                               /\ packages[e.id] = e.version

CallIsCurrent(h) ==
    IF req[h].op = "uninstall" THEN req[h].id \notin DOMAIN packages
                               ELSE /\ req[h].id \in DOMAIN packages
                                    /\ packages[req[h].id] = req[h].row.version

InEffect(h) ==
    IF req[h].op = "uninstall" THEN ~Installed(req[h].id)
                               ELSE /\ Installed(req[h].id)
                                    /\ resources[req[h].id].version =
                                          req[h].row.version

AloneUnlessRaced ==
    \A h, g \in Handlers :
       h # g /\ h \notin raced /\ Busy(h) /\ Busy(g) => req[h].id # req[g].id

LastEventIsCurrent ==
    \A i \in DOMAIN queue :
       /\ queue[i].topic # "unusable"
       /\ \A j \in DOMAIN queue : j > i => ~About(queue[j], queue[i].id)
       => EventIsCurrent(queue[i])

LastCallIsCurrent ==
    \A h \in Handlers \ raced :
       Busy(h) /\ Through(req[h].id) => CallIsCurrent(h)

\* What a call that runs alone has found, and what it has done, still holds.
ProgressOK ==
    \A h \in Handlers \ raced :
       /\ at[h] = "reread" => Installed(req[h].id)
       /\ at[h] = "done" /\ answer[h] # "database" => InEffect(h)

RecordIsCurrent == \A id \in ResourceIds \ lost : Settled(id) => Recorded(id)

RecordInv ==
    /\ AloneUnlessRaced
    /\ LastEventIsCurrent
    /\ LastCallIsCurrent
    /\ ProgressOK
    /\ RecordIsCurrent

BusInv == TypesInv /\ RecordInv

SameRecord(id) ==
    /\ Installed(id)' <=> Installed(id)
    /\ Installed(id) => resources'[id].version = resources[id].version

\* A statement touches the record of no package but its own.
LEMMA OtherRecords ==
  ASSUME IInv, NEW c \in Clients, Statement(c), NEW id,
         req[c].op # "install",
         req[c].op \in {"upsert_resource", "uninstall"} => req[c].id # id
  PROVE  SameRecord(id)
<1> USE DEF SameRecord, Installed, Running
<1>1. CASE InstallInsert(c) \/ UpsertWrite(c)
  <2>1. req[c].id # id
    BY <1>1 DEF InstallInsert, UpsertWrite
  <2>. QED
    BY <1>1, <2>1 DEF InstallInsert, UpsertWrite, Put
<1>2. CASE UninstallDelete(c)
  <2>1. req[c].id # id
    BY <1>2 DEF UninstallDelete
  <2>. QED
    BY <1>2, <2>1 DEF UninstallDelete, Drop
<1>3. CASE SetResourceStatusWrite(c)
  <2>1. Installed(req[c].id) => resources[req[c].id] \in ResourceRow
    BY TableElim DEF IInv, TypeOK
  <2>. QED
    BY <1>3, <2>1 DEF SetResourceStatusWrite, ResourceRow
<1>4. CASE UNCHANGED resources
  BY <1>4
<1>5. CASE \/ InstallFind(c) \/ UpsertReread(c) \/ UninstallFind(c)
           \/ SetResourceStatusFind(c) \/ AddServiceInsert(c)
           \/ UpsertServiceFind(c) \/ UpsertServiceWrite(c)
           \/ SetServiceStatusFind(c) \/ SetServiceStatusWrite(c)
           \/ StatementError(c)
  BY <1>4, <1>5 DEF InstallFind, UpsertReread, UninstallFind,
     SetResourceStatusFind, AddServiceInsert, UpsertServiceFind,
     UpsertServiceWrite, SetServiceStatusFind, SetServiceStatusWrite,
     StatementError, tables
<1>. QED
  BY <1>1, <1>2, <1>3, <1>5 DEF Statement

\* A call of the handler that runs alone answers what it has done.
LEMMA OwnRecord ==
  ASSUME IInv, NEW h \in Clients, Statement(h),
         req[h].op \in {"upsert_resource", "uninstall"},
         at[h] = "reread" => Installed(req[h].id)
  PROVE  /\ at'[h] = "reread" => Installed(req[h].id)'
         /\ at'[h] = "done" /\ answer'[h] # "database" => InEffect(h)'
<1> USE DEF Running, Finish, GoTo, Installed, InEffect, IInv, TypeOK
<1>1. CASE InstallFind(h)
  BY <1>1 DEF InstallFind, tables
<1>2. CASE InstallInsert(h)
  BY <1>2 DEF InstallInsert, Put
<1>3. CASE UpsertReread(h)
  BY <1>3 DEF UpsertReread, tables
<1>4. CASE UpsertWrite(h)
  <2>1. Installed(req[h].id) => resources[req[h].id] \in ResourceRow
    BY TableElim
  <2>2. req[h].row \in ResourceRow
    BY <1>4, RequestTypes DEF UpsertWrite
  <2>. QED
    BY <1>4, <2>1, <2>2 DEF UpsertWrite, OverwriteResource, ResourceRow
<1>5. CASE UninstallFind(h)
  BY <1>5 DEF UninstallFind, tables
<1>6. CASE UninstallDelete(h)
  BY <1>6 DEF UninstallDelete, Drop
<1>7. CASE StatementError(h)
  BY <1>7 DEF StatementError
<1>8. ~ \/ SetResourceStatusFind(h) \/ SetResourceStatusWrite(h)
        \/ AddServiceInsert(h) \/ UpsertServiceFind(h) \/ UpsertServiceWrite(h)
        \/ SetServiceStatusFind(h) \/ SetServiceStatusWrite(h)
  BY DEF SetResourceStatusFind, SetResourceStatusWrite, AddServiceInsert,
     UpsertServiceFind, UpsertServiceWrite, SetServiceStatusFind,
     SetServiceStatusWrite
<1>. QED
  BY <1>1, <1>2, <1>3, <1>4, <1>5, <1>6, <1>7, <1>8 DEF Statement

\* An event of a package reaches the bus as it is, or malformed.
LEMMA AnnounceForms ==
  ASSUME NEW e \in Events, e.topic # "unusable", Announce(e)
  PROVE  \E f \in Events : /\ Publish(f)
                           /\ f = e \/ f.topic = "malformed"
                           /\ f.topic # "unusable" /\ f.id = e.id
<1>1. CASE Publish(e)
  BY <1>1
<1>2. CASE Publish([topic |-> "malformed", id |-> e.id])
  <2>. DEFINE f == [topic |-> "malformed", id |-> e.id]
  <2>1. f \in Events
    BY DEF Events
  <2>. QED
    BY <1>2, <2>1
<1>. QED
  BY <1>1, <1>2 DEF Announce

\* What only depends on the calls and the tables survives a step of the
\* package manager; the event it publishes is the last of its package.
LEMMA PublishStep ==
  ASSUME TypesInv, RecordInv, PackageManager
  PROVE  RecordInv'
<1> USE DEF TypesInv, RecordInv
<1>. DEFINE SamePackage(id) ==
       /\ id \in DOMAIN packages' <=> id \in DOMAIN packages
       /\ id \in DOMAIN packages => packages'[id] = packages[id]
<1>1. PICK e \in Events :
        /\ Publish(e)
        /\ \A id : ~About(e, id) => SamePackage(id)
        /\ e.topic # "unusable" => EventIsCurrent(e)'
  <2>. DEFINE Told == \E e \in Events :
                        /\ Publish(e)
                        /\ \A i : ~About(e, i) => SamePackage(i)
                        /\ EventIsCurrent(e)'
  <2>0. ASSUME NEW e \in Events, e.topic # "unusable", Announce(e),
               \A i : e.id # i => SamePackage(i), EventIsCurrent(e)'
        PROVE  Told
    <3>1. PICK f \in Events : /\ Publish(f)
                              /\ f = e \/ f.topic = "malformed"
                              /\ f.topic # "unusable" /\ f.id = e.id
      BY <2>0, AnnounceForms
    <3>2. EventIsCurrent(f)'
      BY <2>0, <3>1 DEF EventIsCurrent
    <3>3. \A i : ~About(f, i) => SamePackage(i)
      BY <2>0, <3>1 DEF About
    <3>. QED
      BY <3>1, <3>2, <3>3
  <2>1. ASSUME NEW id \in ResourceIds, NEW version \in Versions,
               PackageInstalled(id, version)
        PROVE  Told
    <3>. DEFINE e == [topic |-> "installed", id |-> id, version |-> version]
    <3>1. e \in Events /\ Announce(e)
      BY <2>1 DEF Events, PackageInstalled
    <3>2. \A i : e.id # i => SamePackage(i)
      BY <2>1 DEF PackageInstalled, Put
    <3>3. EventIsCurrent(e)'
      BY <2>1 DEF PackageInstalled, Put, EventIsCurrent
    <3>. QED
      BY <2>0, <3>1, <3>2, <3>3
  <2>2. ASSUME NEW id \in ResourceIds, NEW version \in Versions,
               PackageUpdated(id, version)
        PROVE  Told
    <3>. DEFINE e == [topic |-> "updated", id |-> id, version |-> version]
    <3>1. e \in Events /\ Announce(e)
      BY <2>2 DEF Events, PackageUpdated
    <3>2. packages \in [DOMAIN packages -> Versions]
      BY TableElim DEF BusVarsOK
    <3>3. \A i : e.id # i => SamePackage(i)
      BY <2>2, <3>2 DEF PackageUpdated
    <3>4. EventIsCurrent(e)'
      BY <2>2, <3>2 DEF PackageUpdated, EventIsCurrent
    <3>. QED
      BY <2>0, <3>1, <3>3, <3>4
  <2>3. ASSUME NEW id \in ResourceIds, PackageRemoved(id)
        PROVE  Told
    <3>. DEFINE e == [topic |-> "removed", id |-> id]
    <3>1. e \in Events /\ Announce(e)
      BY <2>3 DEF Events, PackageRemoved
    <3>2. \A i : e.id # i => SamePackage(i)
      BY <2>3 DEF PackageRemoved, Drop
    <3>3. EventIsCurrent(e)'
      BY <2>3 DEF PackageRemoved, Drop, EventIsCurrent
    <3>. QED
      BY <2>0, <3>1, <3>2, <3>3
  <2>4. CASE OtherEvent
    <3>. DEFINE e == [topic |-> "unusable"]
    <3>1. e \in Events /\ Publish(e)
      BY <2>4 DEF Events, OtherEvent
    <3>. QED
      BY <2>4, <3>1 DEF OtherEvent, About
  <2>. QED
    BY <2>1, <2>2, <2>3, <2>4 DEF PackageManager
<1>2. /\ UNCHANGED <<resources, at, req, answer, lost, raced>>
      /\ queue' = Append(queue, e)
  BY <1>1 DEF Publish, vars
<1>3. /\ DOMAIN queue = 1..Len(queue) /\ Len(queue) \in Nat
      /\ DOMAIN queue' = 1..(Len(queue) + 1)
      /\ \A i \in DOMAIN queue : queue'[i] = queue[i]
      /\ queue'[Len(queue) + 1] = e
  BY <1>2, AppendProperties, LenProperties DEF BusVarsOK
<1>4. \A id : Through(id)' => Through(id) /\ ~About(e, id)
  BY <1>3 DEF Through
<1>5. AloneUnlessRaced' /\ ProgressOK'
  BY <1>2 DEF AloneUnlessRaced, ProgressOK, Busy, InEffect, Installed
<1>6. LastEventIsCurrent'
  <2>. SUFFICES ASSUME NEW i \in DOMAIN queue',
                       queue'[i].topic # "unusable",
                       \A j \in DOMAIN queue' :
                          j > i => ~About(queue'[j], queue'[i].id)
                PROVE  EventIsCurrent(queue[i])'
    BY DEF LastEventIsCurrent
  <2>1. CASE i = Len(queue) + 1
    BY <1>1, <1>3, <2>1 DEF EventIsCurrent
  <2>2. CASE i \in DOMAIN queue
    <3>1. queue'[i] = queue[i] /\ ~About(e, queue[i].id)
      BY <1>3, <2>2
    <3>2. EventIsCurrent(queue[i])
      BY <1>3, <2>2, <3>1 DEF LastEventIsCurrent
    <3>. QED
      BY <1>1, <3>1, <3>2 DEF EventIsCurrent
  <2>. QED
    BY <1>3, <2>1, <2>2
<1>7. LastCallIsCurrent'
  <2>. SUFFICES ASSUME NEW h \in Handlers \ raced, Busy(h), Through(req[h].id)'
                PROVE  CallIsCurrent(h)'
    BY <1>2 DEF LastCallIsCurrent, Busy, Through
  <2>1. CallIsCurrent(h) /\ SamePackage(req[h].id)
    BY <1>1, <1>2, <1>4 DEF LastCallIsCurrent
  <2>. QED
    BY <1>2, <2>1 DEF CallIsCurrent
<1>8. RecordIsCurrent'
  <2>. SUFFICES ASSUME NEW id \in ResourceIds \ lost, Settled(id)'
                PROVE  Recorded(id)'
    BY <1>2 DEF RecordIsCurrent
  <2>1. Settled(id) /\ SamePackage(id)
    BY <1>1, <1>2, <1>4 DEF Settled, Busy
  <2>2. Recorded(id)
    BY <2>1 DEF RecordIsCurrent
  <2>. QED
    BY <1>2, <2>1, <2>2 DEF Recorded, Installed
<1>. QED
  BY <1>5, <1>6, <1>7, <1>8

\* The event becomes a call, and if another call of its package is in progress,
\* both are raced; an event that cannot be read is lost.
LEMMA HandleStep ==
  ASSUME TypesInv, RecordInv, NEW h \in Handlers, Handle(h)
  PROVE  RecordInv'
<1> USE DEF TypesInv, RecordInv
<1>. DEFINE e == Head(queue)
<1>0. /\ h \in Clients /\ Handlers \subseteq Clients
      /\ at \in [Clients -> Points]
      /\ req \in [Clients -> Requests \cup {NoRequest}]
  BY HandlersAssumption DEF IInv, TypeOK
<1>1. /\ DOMAIN queue = 1..Len(queue) /\ Len(queue) \in Nat \ {0}
      /\ queue' = Tail(queue)
      /\ DOMAIN queue' = 1..(Len(queue) - 1)
      /\ \A i \in DOMAIN queue' : queue'[i] = queue[i + 1]
      /\ e = queue[1]
      /\ e \in Events
  <2>1. queue # <<>> /\ queue' = Tail(queue)
    BY DEF Handle
  <2>. QED
    BY <2>1, HeadTailProperties, LenProperties, EmptySeq DEF BusVarsOK
<1>2. \A id : ~About(e, id) /\ Through(id)' => Through(id)
  <2>. SUFFICES ASSUME NEW id, ~About(e, id), Through(id)',
                       NEW i \in DOMAIN queue
                PROVE  ~About(queue[i], id)
    BY DEF Through
  <2>1. CASE i = 1
    BY <1>1, <2>1
  <2>2. CASE i # 1
    <3>1. i - 1 \in DOMAIN queue' /\ queue'[i - 1] = queue[i]
      BY <1>1, <2>2
    <3>. QED
      BY <3>1 DEF Through
  <2>. QED
    BY <2>1, <2>2
<1>3. /\ UNCHANGED <<resources, packages>>
      /\ e.topic # "malformed" => lost' = lost
  BY DEF Handle, Ignore, Begin, tables, vars
<1>4. LastEventIsCurrent'
  <2>. SUFFICES ASSUME NEW i \in DOMAIN queue',
                       queue'[i].topic # "unusable",
                       \A j \in DOMAIN queue' :
                          j > i => ~About(queue'[j], queue'[i].id)
                PROVE  EventIsCurrent(queue[i])'
    BY DEF LastEventIsCurrent
  <2>1. i + 1 \in DOMAIN queue /\ queue'[i] = queue[i + 1]
    BY <1>1
  <2>2. ASSUME NEW j \in DOMAIN queue, j > i + 1
        PROVE  ~About(queue[j], queue[i + 1].id)
    <3>1. j - 1 \in DOMAIN queue' /\ queue'[j - 1] = queue[j] /\ j - 1 > i
      BY <1>1, <2>2
    <3>. QED
      BY <2>1, <3>1
  <2>3. EventIsCurrent(queue[i + 1])
    BY <2>1, <2>2 DEF LastEventIsCurrent
  <2>. QED
    BY <1>3, <2>1, <2>3 DEF EventIsCurrent
<1>5. CASE e.topic = "unusable"
  <2>1. UNCHANGED <<at, req, answer, raced, lost>> /\ \A id : ~About(e, id)
    BY <1>5 DEF Handle, About, vars
  <2>2. AloneUnlessRaced' /\ ProgressOK'
    BY <1>3, <2>1 DEF AloneUnlessRaced, ProgressOK, Busy, InEffect, Installed
  <2>3. LastCallIsCurrent'
    BY <1>2, <1>3, <2>1 DEF LastCallIsCurrent, Busy, CallIsCurrent
  <2>4. RecordIsCurrent'
    BY <1>2, <1>3, <2>1 DEF RecordIsCurrent, Settled, Busy, Recorded, Installed
  <2>. QED
    BY <1>4, <2>2, <2>3, <2>4
<1>7. CASE e.topic = "malformed"
  <2>1. /\ UNCHANGED <<at, req, answer>>
        /\ lost' = lost \cup {e.id}
        /\ raced' = raced \cup Rivals(h, e.id)
        /\ at[h] = "idle"
    BY <1>7 DEF Handle, Ignore, vars
  <2>2. \A g \in Handlers : Busy(g) /\ g \notin raced' => ~About(e, req[g].id)
    BY <2>1 DEF Rivals, Busy, About
  <2>3. AloneUnlessRaced'
    BY <2>1 DEF AloneUnlessRaced, Busy
  <2>4. ProgressOK'
    BY <1>3, <2>1 DEF ProgressOK, InEffect, Installed
  <2>5. LastCallIsCurrent'
    BY <1>2, <1>3, <2>1, <2>2 DEF LastCallIsCurrent, Busy, CallIsCurrent
  <2>6. RecordIsCurrent'
    <3>. SUFFICES ASSUME NEW id \in ResourceIds \ lost', Settled(id)'
                  PROVE  Recorded(id)'
      BY DEF RecordIsCurrent
    <3>1. ~About(e, id) /\ id \notin lost
      BY <2>1 DEF About
    <3>2. Settled(id)
      BY <1>2, <2>1, <3>1 DEF Settled, Busy
    <3>. QED
      BY <1>3, <3>1, <3>2 DEF RecordIsCurrent, Recorded, Installed
  <2>. QED
    BY <1>4, <2>3, <2>4, <2>5, <2>6
<1>6. CASE e.topic \notin {"unusable", "malformed"}
  <2>0. e.topic \in {"installed", "updated", "removed"}
    BY <1>1, <1>6 DEF Events
  <2>1. PICK r : /\ Begin(h, r)
                 /\ r.id = e.id
                 /\ r.op \in {"upsert_resource", "uninstall"}
                 /\ r.op = "uninstall" <=> e.topic = "removed"
                 /\ e.topic # "removed" => r.row.version = e.version
    <3>1. CASE e.topic = "removed"
      <4>. DEFINE r == [op |-> "uninstall", id |-> e.id]
      <4>1. Begin(h, r)
        BY <3>1 DEF Handle
      <4>. QED
        BY <3>1, <4>1
    <3>2. CASE e.topic # "removed"
      <4>1. PICK origin \in Origins : Begin(h, UpsertRequest(e, origin))
        BY <2>0, <3>2 DEF Handle
      <4>. DEFINE r == UpsertRequest(e, origin)
      <4>2. /\ r.id = e.id /\ r.op = "upsert_resource"
            /\ r.row.version = e.version
        BY DEF UpsertRequest, EventRow
      <4>. QED
        BY <3>2, <4>1, <4>2
    <3>. QED
      BY <3>1, <3>2
  <2>2. /\ at[h] = "idle" /\ at'[h] = "find" /\ req'[h] = r
        /\ \A g \in Handlers \ {h} : /\ at'[g] = at[g] /\ req'[g] = req[g]
        /\ answer' = answer
    BY <1>0, <2>1 DEF Begin
  <2>3. /\ raced \subseteq raced'
        /\ \A g \in Handlers \ {h} :
              Busy(g) /\ req[g].id = e.id => g \in raced' /\ h \in raced'
    BY <2>0 DEF Handle, Race, Rivals, Busy
  <2>4. AloneUnlessRaced'
    BY <2>1, <2>2, <2>3 DEF AloneUnlessRaced, Busy
  <2>5. ProgressOK'
    BY <1>3, <2>2, <2>3 DEF ProgressOK, InEffect, Installed
  <2>6. LastCallIsCurrent'
    <3>. SUFFICES ASSUME NEW g \in Handlers \ raced', Busy(g)',
                         Through(req[g].id)'
                  PROVE  CallIsCurrent(g)'
      BY DEF LastCallIsCurrent
    <3>1. CASE g = h
      <4>1. ASSUME NEW j \in DOMAIN queue, j > 1
            PROVE  ~About(queue[j], e.id)
        <5>1. j - 1 \in DOMAIN queue' /\ queue'[j - 1] = queue[j]
          BY <1>1, <4>1
        <5>. QED
          BY <2>1, <2>2, <3>1, <5>1 DEF Through
      <4>2. EventIsCurrent(e)
        BY <1>1, <1>6, <4>1 DEF LastEventIsCurrent
      <4>. QED
        BY <1>3, <2>0, <2>1, <2>2, <3>1, <4>2 DEF EventIsCurrent, CallIsCurrent
    <3>2. CASE g # h
      <4>1. Busy(g) /\ req'[g] = req[g] /\ g \notin raced /\ ~About(e, req[g].id)
        BY <2>2, <2>3, <3>2 DEF Busy, About
      <4>2. CallIsCurrent(g)
        BY <1>2, <4>1 DEF LastCallIsCurrent, Through
      <4>. QED
        BY <1>3, <4>1, <4>2 DEF CallIsCurrent
    <3>. QED
      BY <3>1, <3>2
  <2>7. RecordIsCurrent'
    <3>. SUFFICES ASSUME NEW id \in ResourceIds \ lost, Settled(id)'
                  PROVE  Recorded(id)'
      BY <1>3, <1>6 DEF RecordIsCurrent
    <3>1. ~About(e, id)
      BY <2>1, <2>2 DEF Settled, Busy, About
    <3>2. Settled(id)
      BY <1>2, <2>2, <3>1 DEF Settled, Busy
    <3>. QED
      BY <1>3, <3>2 DEF RecordIsCurrent, Recorded, Installed
  <2>. QED
    BY <1>4, <2>4, <2>5, <2>6, <2>7
<1>. QED
  BY <1>5, <1>6, <1>7

\* A step that changes no event, no package and no verdict, keeps the records
\* of all packages but that of one busy call, and that call's own promise.
LEMMA QuietBusStep ==
  ASSUME RecordInv, UNCHANGED <<packages, queue, lost, raced>>,
         \A g \in Handlers : Busy(g)' <=> Busy(g),
         \A g \in Handlers : Busy(g) => req'[g] = req[g],
         \A id \in ResourceIds : Settled(id) => SameRecord(id),
         ProgressOK'
  PROVE  RecordInv'
<1> USE DEF RecordInv
<1>1. AloneUnlessRaced'
  BY DEF AloneUnlessRaced, Busy
<1>2. LastEventIsCurrent'
  BY DEF LastEventIsCurrent, EventIsCurrent
<1>3. LastCallIsCurrent'
  BY DEF LastCallIsCurrent, CallIsCurrent, Through, Busy
<1>4. ASSUME NEW id \in ResourceIds \ lost, Settled(id)'
      PROVE  Recorded(id)'
  <2>1. Settled(id)
    BY <1>4 DEF Settled, Through, Busy
  <2>2. Recorded(id) /\ SameRecord(id)
    BY <2>1 DEF RecordIsCurrent
  <2>. QED
    BY <2>2 DEF Recorded, SameRecord
<1>. QED
  BY <1>1, <1>2, <1>3, <1>4 DEF RecordIsCurrent

\* A statement of the handler works on a package that is not settled, and on
\* no package of another call, unless the two are raced.
LEMMA HandlerStatementStep ==
  ASSUME TypesInv, RecordInv, NEW h \in Handlers, Statement(h), UNCHANGED busvars
  PROVE  RecordInv'
<1> USE DEF TypesInv, RecordInv, busvars
<1>0. h \in Clients /\ Handlers \subseteq Clients /\ TypeOK
  BY HandlersAssumption DEF IInv
<1>1. /\ at[h] # "idle" /\ at'[h] # "idle" /\ UNCHANGED req
      /\ \A g \in Handlers \ {h} : at'[g] = at[g] /\ answer'[g] = answer[g]
  BY <1>0, StatementForms, OthersUntouched DEF AtStatement, ClientStep
<1>2. req[h].op \in {"upsert_resource", "uninstall"}
  BY <1>1, HandlerIds
<1>3. \A id : id # req[h].id => SameRecord(id)
  BY <1>0, <1>2, OtherRecords
<1>4. ProgressOK'
  <2>. SUFFICES ASSUME NEW g \in Handlers \ raced
                PROVE  /\ at'[g] = "reread" => Installed(req[g].id)'
                       /\ at'[g] = "done" /\ answer'[g] # "database" => InEffect(g)'
    BY DEF ProgressOK
  <2>1. CASE g = h
    BY <1>0, <1>2, <2>1, OwnRecord DEF ProgressOK
  <2>2. CASE g # h /\ ~Busy(g)
    BY <1>1, <2>2 DEF Busy
  <2>3. CASE g # h /\ Busy(g)
    <3>1. req[g].id # req[h].id
      BY <1>1, <2>3 DEF AloneUnlessRaced, Busy
    <3>2. SameRecord(req[g].id)
      BY <1>3, <3>1
    <3>. QED
      BY <1>1, <2>3, <3>2 DEF ProgressOK, SameRecord, InEffect
  <2>. QED
    BY <2>1, <2>2, <2>3
<1>. QED
  BY <1>1, <1>3, <1>4, QuietBusStep DEF Settled, Busy

\* Users touch no record at all.
LEMMA UserRecordStep ==
  ASSUME UsersOnlyUse, TypesInv, RecordInv, NEW c \in Users, UserStep(c)
  PROVE  RecordInv'
<1> USE DEF TypesInv, RecordInv
<1>0. c \in Clients \ Handlers /\ Handlers \subseteq Clients /\ TypeOK
  BY HandlersAssumption DEF IInv, Users
<1>1. ClientStep(c) /\ UNCHANGED <<packages, queue, lost, raced>>
  BY DEF UserStep, ClientStep, busvars
<1>2. \A g \in Handlers :
        at'[g] = at[g] /\ req'[g] = req[g] /\ answer'[g] = answer[g]
  BY <1>0, <1>1, OthersUntouched
<1>3. \A id : SameRecord(id)
  <2>1. req[c].op \notin {"install", "upsert_resource", "uninstall"}
    BY DEF RolesOK, UsersOnlyUse
  <2>2. CASE Statement(c)
    BY <1>0, <2>1, <2>2, OtherRecords
  <2>3. CASE UNCHANGED resources
    BY <2>3 DEF SameRecord, Installed
  <2>. QED
    BY <2>2, <2>3 DEF UserStep, Begin, DropCall, Return, Reset, tables
<1>4. ProgressOK'
  BY <1>1, <1>2, <1>3 DEF ProgressOK, SameRecord, InEffect
<1>. QED
  BY <1>1, <1>2, <1>3, <1>4, QuietBusStep DEF Busy

\* A call that ends leaves a record behind that is as the last event says, or
\* the package among the lost.
LEMMA HandledStep ==
  ASSUME TypesInv, RecordInv, NEW h \in Handlers, Handled(h) \/ HandlerDropped(h)
  PROVE  RecordInv'
<1> USE DEF TypesInv, RecordInv
<1>1. /\ at[h] # "idle" /\ at'[h] = "idle"
      /\ \A g \in Handlers \ {h} :
            at'[g] = at[g] /\ req'[g] = req[g] /\ answer'[g] = answer[g]
      /\ UNCHANGED <<resources, packages, queue>>
      /\ raced' = raced \ {h}
      /\ lost \subseteq lost' \cup {req[h].id}
  BY HandlersAssumption DEF IInv, TypeOK, Handled, HandlerDropped, Return,
     DropCall, Reset, AtStatement, tables
<1>2. AloneUnlessRaced'
  BY <1>1 DEF AloneUnlessRaced, Busy
<1>3. LastEventIsCurrent'
  BY <1>1 DEF LastEventIsCurrent, EventIsCurrent
<1>4. LastCallIsCurrent' /\ ProgressOK'
  BY <1>1 DEF LastCallIsCurrent, ProgressOK, CallIsCurrent, InEffect, Through,
     Busy, Installed
<1>5. RecordIsCurrent'
  <2>. SUFFICES ASSUME NEW id \in ResourceIds, id \notin lost', Settled(id)'
                PROVE  Recorded(id)
    BY <1>1 DEF RecordIsCurrent, Recorded, Installed
  <2>1. Through(id)
    BY <1>1 DEF Settled, Through
  <2>2. CASE id = req[h].id
    <3>1. Handled(h) /\ h \notin raced /\ answer[h] # "database" /\ at[h] = "done"
      BY <2>2 DEF Handled, HandlerDropped, Return
    <3>2. CallIsCurrent(h) /\ InEffect(h)
      BY <1>1, <2>1, <2>2, <3>1 DEF LastCallIsCurrent, ProgressOK, Busy
    <3>. QED
      BY <2>2, <3>2 DEF CallIsCurrent, InEffect, Recorded
  <2>3. CASE id # req[h].id
    <3>1. id \notin lost /\ Settled(id)
      BY <1>1, <2>1, <2>3 DEF Settled, Busy
    <3>. QED
      BY <3>1 DEF RecordIsCurrent
  <2>. QED
    BY <2>2, <2>3
<1>. QED
  BY <1>2, <1>3, <1>4, <1>5

\* A restart loses what was waiting and what was being handled, nothing else.
LEMMA RestartStep ==
  ASSUME TypesInv, RecordInv, Restart
  PROVE  RecordInv'
<1> USE DEF RecordInv, Restart
<1>1. \A h \in Handlers : ~Busy(h)' /\ at'[h] = "idle"
  BY HandlersAssumption DEF Busy
<1>2. AloneUnlessRaced' /\ LastCallIsCurrent' /\ ProgressOK'
  BY <1>1 DEF AloneUnlessRaced, LastCallIsCurrent, ProgressOK
<1>3. LastEventIsCurrent'
  BY DEF LastEventIsCurrent
<1>4. ASSUME NEW id \in ResourceIds, id \notin lost'
      PROVE  Recorded(id)'
  <2>1. id \notin lost /\ id \notin Concerned /\ id \notin InHand
    BY <1>4
  <2>2. Settled(id)
    BY <2>1 DEF Concerned, InHand, Settled, Through, About, Busy
  <2>. QED
    BY <2>1, <2>2 DEF RecordIsCurrent, Recorded, Installed, tables
<1>. QED
  BY <1>2, <1>3, <1>4 DEF RecordIsCurrent

LEMMA RecordStep ==
  ASSUME UsersOnlyUse, BusInv, [BusNext]_allvars
  PROVE  BusInv'
<1> USE DEF BusInv
<1>1. TypesInv'
  BY TypesStep
<1>2. CASE UNCHANGED allvars
  BY <1>1, <1>2 DEF allvars, vars, busvars, RecordInv, AloneUnlessRaced,
     LastEventIsCurrent, LastCallIsCurrent, ProgressOK, RecordIsCurrent,
     EventIsCurrent, CallIsCurrent, InEffect, Settled, Through, Busy, Recorded,
     Installed
<1>. QED
  BY <1>1, <1>2, PublishStep, HandleStep, HandlerStatementStep, HandledStep,
     UserRecordStep, RestartStep DEF BusNext, HandlerStep

\* The record of every package is as its last event says, unless that was
\* lost, refused or raced: for any number of packages, versions, events,
\* concurrent invocations of the handler, and users who do everything but
\* install, upsert and uninstall resources.
THEOREM RecordFollowsEvents ==
  ASSUME UsersOnlyUse
  PROVE  BusSpec => []RecordedUnlessLost
<1>1. BusInit => BusInv
  <2>. SUFFICES ASSUME BusInit PROVE RecordInv
    BY TypesStart DEF BusInv
  <2>1. \A h \in Handlers : at[h] = "idle"
    BY HandlersAssumption DEF BusInit, Init
  <2>2. DOMAIN resources = {} /\ DOMAIN packages = {} /\ DOMAIN queue = {}
    BY EmptyTableType DEF BusInit, Init
  <2>. QED
    BY <2>1, <2>2 DEF RecordInv, AloneUnlessRaced, LastEventIsCurrent,
       LastCallIsCurrent, ProgressOK, RecordIsCurrent, Recorded, Installed, Busy
<1>2. BusInv /\ [BusNext]_allvars => BusInv'
  BY RecordStep
<1>3. BusInv => RecordedUnlessLost
  BY DEF BusInv, RecordInv, RecordIsCurrent, RecordedUnlessLost, Settled,
     Through, About, Concerned, InHand, Busy
<1>. QED
  BY <1>1, <1>2, <1>3, PTL DEF BusSpec
==============================================================================
