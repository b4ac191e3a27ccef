--------------------------- MODULE InventoryProofs ---------------------------
(***************************************************************************)
(* Proofs about Inventory, for every set of callers, keys and values.      *)
(***************************************************************************)
EXTENDS Inventory, FiniteSetTheorems, TLAPS

(***************************************************************************)
(* What the statements do to a table.                                      *)
(***************************************************************************)

\* The fresh database: an empty table has the type of every table.
LEMMA EmptyTableType ==
  ASSUME NEW Keys, NEW Row
  PROVE  EmptyTable \in Table(Keys, Row) /\ DOMAIN EmptyTable = {}
<1>1. EmptyTable \in [{} -> Row]
  BY DEF EmptyTable
<1>2. {} \in SUBSET Keys
  OBVIOUS
<1>. QED
  BY <1>1, <1>2 DEF Table, EmptyTable

\* A table is a function on a set of keys.
LEMMA TableElim ==
  ASSUME NEW Keys, NEW Row, NEW table \in Table(Keys, Row)
  PROVE  /\ DOMAIN table \in SUBSET Keys
         /\ table \in [DOMAIN table -> Row]
<1>1. PICK K \in SUBSET Keys : table \in [K -> Row]
  BY DEF Table
<1>. QED
  BY <1>1

\* A function on a set of keys is a table.
LEMMA TableIntro ==
  ASSUME NEW Keys, NEW Row, NEW K \in SUBSET Keys, NEW table \in [K -> Row]
  PROVE  table \in Table(Keys, Row)
BY DEF Table

\* INSERT adds one row and leaves the others.
LEMMA PutTable ==
  ASSUME NEW Keys, NEW Row, NEW table \in Table(Keys, Row),
         NEW key \in Keys, NEW row \in Row
  PROVE  /\ Put(table, key, row) \in Table(Keys, Row)
         /\ DOMAIN Put(table, key, row) = DOMAIN table \cup {key}
<1>1. Put(table, key, row) \in [DOMAIN table \cup {key} -> Row]
  BY TableElim DEF Put
<1>2. DOMAIN table \cup {key} \in SUBSET Keys
  BY TableElim
<1>. QED
  BY <1>1, <1>2, TableIntro DEF Put

\* DELETE removes one row, if it is there, and leaves the others.
LEMMA DropTable ==
  ASSUME NEW Keys, NEW Row, NEW table \in Table(Keys, Row), NEW key
  PROVE  /\ Drop(table, key) \in Table(Keys, Row)
         /\ DOMAIN Drop(table, key) = DOMAIN table \ {key}
<1>1. Drop(table, key) \in [DOMAIN table \ {key} -> Row]
  BY TableElim DEF Drop
<1>2. DOMAIN table \ {key} \in SUBSET Keys
  BY TableElim
<1>. QED
  BY <1>1, <1>2, TableIntro DEF Drop

\* UPDATE replaces the row of one key and leaves the others.
LEMMA UpdateTable ==
  ASSUME NEW Keys, NEW Row, NEW table \in Table(Keys, Row),
         NEW key \in DOMAIN table, NEW row \in Row
  PROVE  /\ [table EXCEPT ![key] = row] \in Table(Keys, Row)
         /\ DOMAIN [table EXCEPT ![key] = row] = DOMAIN table
<1>1. [table EXCEPT ![key] = row] \in [DOMAIN table -> Row]
  BY TableElim
<1>. QED
  BY <1>1, TableElim, TableIntro

(***************************************************************************)
(* Requests.                                                               *)
(***************************************************************************)

\* The operation of a request determines its arguments.
LEMMA RequestTypes ==
  ASSUME NEW r \in Requests \cup {NoRequest}
  PROVE  /\ r.op \in {"install", "upsert_resource"} =>
               r.id \in ResourceIds /\ r.row \in ResourceRow
         /\ r.op = "uninstall" => r.id \in ResourceIds
         /\ r.op = "set_resource_status" =>
               r.id \in ResourceIds /\ r.status \in ResourceStatuses
         /\ r.op \in {"add_service", "upsert_service"} =>
               r.id \in ServiceIds /\ r.row \in ServiceRow
         /\ r.op = "set_service_status_by_name" =>
               r.name \in InstanceNames /\ r.status \in ServiceStatuses
         /\ r.op \in {"upsert_service", "set_service_status_by_name"} =>
               NameSought(r) \in InstanceNames
         /\ r.op = "none" <=> r = NoRequest
         /\ r \in Requests => r.op \in Operations
BY DEF Requests, NoRequest, NameSought, ResourceWrite, Removal,
       ResourceStatusUpdate, ServiceWrite, ServiceStatusUpdate, ServiceRow

\* An UPDATE by upsert makes a row; that of a service keeps its registration.
LEMMA OverwriteTypes ==
  /\ \A old, new \in ResourceRow : OverwriteResource(old, new) \in ResourceRow
  /\ \A old, new \in ServiceRow :
        /\ OverwriteService(old, new) \in ServiceRow
        /\ OverwriteService(old, new).resource_id = old.resource_id
        /\ OverwriteService(old, new).instance_name = old.instance_name
        /\ OverwriteService(old, new).settings = old.settings
BY DEF OverwriteResource, OverwriteService, ResourceRow, ServiceRow

\* So does an UPDATE of the status.
LEMMA StatusTypes ==
  /\ \A row \in ResourceRow, s \in ResourceStatuses :
        [row EXCEPT !.status = s] \in ResourceRow
  /\ \A row \in ServiceRow, s \in ServiceStatuses :
        /\ [row EXCEPT !.status = s] \in ServiceRow
        /\ [row EXCEPT !.status = s].resource_id = row.resource_id
        /\ [row EXCEPT !.status = s].instance_name = row.instance_name
        /\ [row EXCEPT !.status = s].settings = row.settings
BY DEF ResourceRow, ServiceRow

(***************************************************************************)
(* Control: type correctness of the calls and ControlOK.                   *)
(***************************************************************************)

ControlTypeOK ==
    /\ at \in [Clients -> Points]
    /\ req \in [Clients -> Requests \cup {NoRequest}]
    /\ held \in [Clients -> ServiceIds \cup {None}]
    /\ answer \in [Clients -> Answers \cup {"none"}]

TablesTypeOK ==
    /\ resources \in Table(ResourceIds, ResourceRow)
    /\ services \in Table(ServiceIds, ServiceRow)

\* The five things a step of a caller can do to its own call.
ControlForm(c) ==
    \/ \E r \in Requests : Begin(c, r)
    \/ /\ AtStatement(c)
       /\ \/ GoTo(c, "reread")
          \/ /\ GoTo(c, "insert")
             /\ req[c].op = "upsert_service" =>
                   Named(services, NameSought(req[c])) = {}
          \/ /\ GoTo(c, "write")
             /\ req[c].op \in {"upsert_resource", "uninstall", "set_resource_status"}
    \/ /\ Running(c, {"upsert_service", "set_service_status_by_name"}, "find")
       /\ HoldNamed(c)
    \/ AtStatement(c) /\ \E a \in Answers : Finish(c, a)
    \/ at[c] # "idle" /\ Reset(c)

\* Every action of a caller is one of them.
LEMMA ControlForms ==
  ASSUME NEW c \in Clients, ClientStep(c)
  PROVE  ControlForm(c)
<1> USE DEF ControlForm, Running, AtStatement, Answers
<1>1. ASSUME NEW r \in Requests, Begin(c, r) PROVE ControlForm(c)
  BY <1>1
<1>2. CASE InstallFind(c)
  BY <1>2 DEF InstallFind
<1>3. CASE InstallInsert(c)
  BY <1>3 DEF InstallInsert
<1>4. CASE UpsertReread(c)
  BY <1>4 DEF UpsertReread
<1>5. CASE UpsertWrite(c)
  BY <1>5 DEF UpsertWrite
<1>6. CASE UninstallFind(c)
  BY <1>6 DEF UninstallFind
<1>7. CASE UninstallDelete(c)
  BY <1>7 DEF UninstallDelete
<1>8. CASE SetResourceStatusFind(c)
  BY <1>8 DEF SetResourceStatusFind
<1>9. CASE SetResourceStatusWrite(c)
  BY <1>9 DEF SetResourceStatusWrite
<1>10. CASE AddServiceInsert(c)
  BY <1>10 DEF AddServiceInsert
<1>11. CASE UpsertServiceFind(c)
  BY <1>11 DEF UpsertServiceFind
<1>12. CASE UpsertServiceWrite(c)
  BY <1>12 DEF UpsertServiceWrite
<1>13. CASE SetServiceStatusFind(c)
  BY <1>13 DEF SetServiceStatusFind
<1>14. CASE SetServiceStatusWrite(c)
  BY <1>14 DEF SetServiceStatusWrite
<1>15. CASE StatementError(c)
  BY <1>15 DEF StatementError
<1>16. CASE DropCall(c)
  BY <1>16 DEF DropCall
<1>17. CASE Return(c)
  BY <1>17 DEF Return
<1>. QED
  BY <1>1, <1>2, <1>3, <1>4, <1>5, <1>6, <1>7, <1>8, <1>9, <1>10, <1>11,
     <1>12, <1>13, <1>14, <1>15, <1>16, <1>17 DEF ClientStep, Statement

\* Calls stay well typed, and their program point, request and answer
\* together.
LEMMA ControlStep ==
  ASSUME ControlTypeOK, ControlOK, NEW c \in Clients, ClientStep(c),
         TablesTypeOK
  PROVE  ControlTypeOK' /\ ControlOK'
<1> USE DEF ControlTypeOK, ControlOK, Points, AtStatement
<1>1. ControlForm(c)
  BY ControlForms
<1>2. ASSUME NEW r \in Requests, Begin(c, r) PROVE ControlTypeOK' /\ ControlOK'
  <2>1. r # NoRequest
    BY OperationsAssumption DEF Requests, NoRequest, AllOperations
  <2>. QED
    BY <1>2, <2>1 DEF Begin
<1>3. ASSUME AtStatement(c),
             NEW p \in {"insert", "reread", "write"}, GoTo(c, p)
      PROVE  ControlTypeOK' /\ ControlOK'
  BY <1>3 DEF GoTo
<1>4. ASSUME Running(c, {"upsert_service", "set_service_status_by_name"}, "find"),
             HoldNamed(c)
      PROVE  ControlTypeOK' /\ ControlOK'
  <2>1. Named(services, NameSought(req[c])) \subseteq ServiceIds
    BY TableElim DEF Named, TablesTypeOK
  <2>. QED
    BY <1>4, <2>1 DEF HoldNamed, Running
<1>5. ASSUME AtStatement(c), NEW a \in Answers, Finish(c, a)
      PROVE  ControlTypeOK' /\ ControlOK'
  BY <1>5 DEF Finish, Answers
<1>6. CASE at[c] # "idle" /\ Reset(c)
  BY <1>6 DEF Reset
<1>. QED
  BY <1>1, <1>2, <1>3, <1>4, <1>5, <1>6 DEF ControlForm

(***************************************************************************)
(* Tables: type correctness, referential integrity and the permanence of   *)
(* service instances.                                                      *)
(***************************************************************************)

\* The columns of a service row that no statement changes.
SameRegistration(old, new) ==
    /\ new.instance_name = old.instance_name
    /\ new.resource_id = old.resource_id
    /\ new.settings = old.settings

ServicesKept ==
    \A s \in DOMAIN services :
       s \in DOMAIN services' /\ SameRegistration(services[s], services'[s])

\* The five things a statement can do to the tables.
TablesForm ==
    \/ UNCHANGED tables
    \/ /\ \E id \in ResourceIds, row \in ResourceRow :
             resources' = Put(resources, id, row)
       /\ UNCHANGED services
    \/ /\ \E id \in ResourceIds, row \in ResourceRow :
             /\ id \in DOMAIN resources
             /\ resources' = [resources EXCEPT ![id] = row]
       /\ UNCHANGED services
    \/ /\ \E id \in ResourceIds :
             /\ References(services, id) = {}
             /\ resources' = Drop(resources, id)
       /\ UNCHANGED services
    \/ /\ \E s \in ServiceIds, row \in ServiceRow :
             /\ s \notin DOMAIN services
             /\ row.resource_id \in DOMAIN resources
             /\ services' = Put(services, s, row)
       /\ UNCHANGED resources
    \/ /\ \E s \in ServiceIds, row \in ServiceRow :
             /\ s \in DOMAIN services
             /\ SameRegistration(services[s], row)
             /\ services' = [services EXCEPT ![s] = row]
       /\ UNCHANGED resources

\* Every action is one of them: the row that an UPDATE by name writes exists.
LEMMA TablesForms ==
  ASSUME TypeOK, HeldRowIsTheNamedRow, NEW c \in Clients, ClientStep(c)
  PROVE  TablesForm
<1> USE DEF TablesForm
<1>0. req[c] \in Requests \cup {NoRequest}
  BY DEF TypeOK
<1>1. CASE InstallInsert(c)
  <2>1. req[c].id \in ResourceIds /\ req[c].row \in ResourceRow
    BY <1>0, <1>1, RequestTypes DEF InstallInsert, Running
  <2>. QED
    BY <1>1, <2>1 DEF InstallInsert, tables
<1>2. CASE UpsertWrite(c)
  <2>1. req[c].id \in ResourceIds /\ req[c].row \in ResourceRow
    BY <1>0, <1>2, RequestTypes DEF UpsertWrite, Running
  <2>2. CASE Installed(req[c].id)
    <3>1. resources[req[c].id] \in ResourceRow
      BY <2>2, TableElim DEF TypeOK, Installed
    <3>2. OverwriteResource(resources[req[c].id], req[c].row) \in ResourceRow
      BY <2>1, <3>1, OverwriteTypes
    <3>. QED
      BY <1>2, <2>1, <2>2, <3>2 DEF UpsertWrite, Installed
  <2>. QED
    BY <1>2, <2>2 DEF UpsertWrite, tables
<1>3. CASE UninstallDelete(c)
  <2>1. req[c].id \in ResourceIds
    BY <1>0, <1>3, RequestTypes DEF UninstallDelete, Running
  <2>. QED
    BY <1>3, <2>1 DEF UninstallDelete, tables
<1>4. CASE SetResourceStatusWrite(c)
  <2>1. req[c].id \in ResourceIds /\ req[c].status \in ResourceStatuses
    BY <1>0, <1>4, RequestTypes DEF SetResourceStatusWrite, Running
  <2>2. CASE Installed(req[c].id)
    <3>1. resources[req[c].id] \in ResourceRow
      BY <2>2, TableElim DEF TypeOK, Installed
    <3>2. [resources[req[c].id] EXCEPT !.status = req[c].status] \in ResourceRow
      BY <2>1, <3>1, StatusTypes
    <3>. QED
      BY <1>4, <2>1, <2>2, <3>2 DEF SetResourceStatusWrite, Installed
  <2>. QED
    BY <1>4, <2>2 DEF SetResourceStatusWrite, tables
<1>5. CASE AddServiceInsert(c)
  <2>1. req[c].id \in ServiceIds /\ req[c].row \in ServiceRow
    BY <1>0, <1>5, RequestTypes DEF AddServiceInsert, Running
  <2>. QED
    BY <1>5, <2>1 DEF AddServiceInsert, Installed, tables
<1>6. CASE UpsertServiceWrite(c)
  <2>1. held[c] \in DOMAIN services
    BY <1>6 DEF HeldRowIsTheNamedRow, UpsertServiceWrite, Running, Named
  <2>2. held[c] \in ServiceIds /\ services[held[c]] \in ServiceRow
    BY <2>1, TableElim DEF TypeOK
  <2>3. req[c].row \in ServiceRow
    BY <1>0, <1>6, RequestTypes DEF UpsertServiceWrite, Running
  <2>. DEFINE row == OverwriteService(services[held[c]], req[c].row)
  <2>4. row \in ServiceRow /\ SameRegistration(services[held[c]], row)
    BY <2>2, <2>3, OverwriteTypes DEF SameRegistration
  <2>5. services' = [services EXCEPT ![held[c]] = row] /\ UNCHANGED resources
    BY <1>6 DEF UpsertServiceWrite
  <2>. QED
    BY <2>1, <2>2, <2>4, <2>5
<1>7. CASE SetServiceStatusWrite(c)
  <2>1. held[c] \in DOMAIN services
    BY <1>7 DEF HeldRowIsTheNamedRow, SetServiceStatusWrite, Running, Named
  <2>2. held[c] \in ServiceIds /\ services[held[c]] \in ServiceRow
    BY <2>1, TableElim DEF TypeOK
  <2>3. req[c].status \in ServiceStatuses
    BY <1>0, <1>7, RequestTypes DEF SetServiceStatusWrite, Running
  <2>. DEFINE row == [services[held[c]] EXCEPT !.status = req[c].status]
  <2>4. row \in ServiceRow /\ SameRegistration(services[held[c]], row)
    BY <2>2, <2>3, StatusTypes DEF SameRegistration
  <2>5. services' = [services EXCEPT ![held[c]] = row] /\ UNCHANGED resources
    BY <1>7 DEF SetServiceStatusWrite
  <2>. QED
    BY <2>1, <2>2, <2>4, <2>5
<1>8. ASSUME NEW r \in Requests, Begin(c, r) PROVE UNCHANGED tables
  BY <1>8 DEF Begin
<1>9. CASE \/ InstallFind(c) \/ UpsertReread(c) \/ UninstallFind(c)
           \/ SetResourceStatusFind(c) \/ UpsertServiceFind(c)
           \/ SetServiceStatusFind(c) \/ StatementError(c)
           \/ DropCall(c) \/ Return(c)
  BY <1>9 DEF InstallFind, UpsertReread, UninstallFind, SetResourceStatusFind,
     UpsertServiceFind, SetServiceStatusFind, StatementError, DropCall, Return,
     Reset
<1>. QED
  BY <1>1, <1>2, <1>3, <1>4, <1>5, <1>6, <1>7, <1>8, <1>9
     DEF ClientStep, Statement

\* Whatever a statement does, the tables keep their types, no service instance
\* loses its resource, and no service instance is removed or renamed.
LEMMA TablesStep ==
  ASSUME TablesTypeOK, ReferentialIntegrity, TablesForm
  PROVE  TablesTypeOK' /\ ReferentialIntegrity' /\ ServicesKept
<1> USE DEF ReferentialIntegrity, ServicesKept, SameRegistration, Installed
<1>1. CASE UNCHANGED tables
  BY <1>1 DEF tables, TablesTypeOK
<1>2. ASSUME NEW id \in ResourceIds, NEW row \in ResourceRow,
             resources' = Put(resources, id, row), UNCHANGED services
      PROVE  TablesTypeOK' /\ ReferentialIntegrity' /\ ServicesKept
  <2>1. /\ Put(resources, id, row) \in Table(ResourceIds, ResourceRow)
        /\ DOMAIN Put(resources, id, row) = DOMAIN resources \cup {id}
    BY PutTable DEF TablesTypeOK
  <2>2. TablesTypeOK' /\ DOMAIN resources' = DOMAIN resources \cup {id}
    BY <1>2, <2>1 DEF TablesTypeOK
  <2>. QED
    BY <1>2, <2>2
<1>3. ASSUME NEW id \in ResourceIds, NEW row \in ResourceRow,
             id \in DOMAIN resources,
             resources' = [resources EXCEPT ![id] = row], UNCHANGED services
      PROVE  TablesTypeOK' /\ ReferentialIntegrity' /\ ServicesKept
  <2>1. TablesTypeOK' /\ DOMAIN resources' = DOMAIN resources
    BY <1>3, UpdateTable DEF TablesTypeOK
  <2>. QED
    BY <1>3, <2>1
<1>4. ASSUME NEW id \in ResourceIds, References(services, id) = {},
             resources' = Drop(resources, id), UNCHANGED services
      PROVE  TablesTypeOK' /\ ReferentialIntegrity' /\ ServicesKept
  <2>1. /\ Drop(resources, id) \in Table(ResourceIds, ResourceRow)
        /\ DOMAIN Drop(resources, id) = DOMAIN resources \ {id}
    BY DropTable DEF TablesTypeOK
  <2>2. TablesTypeOK' /\ DOMAIN resources' = DOMAIN resources \ {id}
    BY <1>4, <2>1 DEF TablesTypeOK
  <2>3. \A s \in DOMAIN services : services[s].resource_id # id
    BY <1>4 DEF References
  <2>. QED
    BY <1>4, <2>2, <2>3
<1>5. ASSUME NEW s \in ServiceIds, NEW row \in ServiceRow,
             s \notin DOMAIN services, row.resource_id \in DOMAIN resources,
             services' = Put(services, s, row), UNCHANGED resources
      PROVE  TablesTypeOK' /\ ReferentialIntegrity' /\ ServicesKept
  <2>1. TablesTypeOK'
    BY <1>5, PutTable DEF TablesTypeOK
  <2>2. /\ DOMAIN services' = DOMAIN services \cup {s}
        /\ services'[s] = row
        /\ \A t \in DOMAIN services \ {s} : services'[t] = services[t]
    BY <1>5 DEF Put
  <2>. QED
    BY <1>5, <2>1, <2>2
<1>6. ASSUME NEW s \in ServiceIds, NEW row \in ServiceRow,
             s \in DOMAIN services, SameRegistration(services[s], row),
             services' = [services EXCEPT ![s] = row], UNCHANGED resources
      PROVE  TablesTypeOK' /\ ReferentialIntegrity' /\ ServicesKept
  <2>1. TablesTypeOK' /\ DOMAIN services' = DOMAIN services
    BY <1>6, UpdateTable DEF TablesTypeOK
  <2>2. \A t \in DOMAIN services :
           services'[t] = IF t = s THEN row ELSE services[t]
    BY <1>6
  <2>. QED
    BY <1>6, <2>1, <2>2
<1>. QED
  BY <1>1, <1>2, <1>3, <1>4, <1>5, <1>6 DEF TablesForm

\* A row that some call has found by name stays a row of that name, because
\* no statement removes or renames a service instance.
LEMMA HeldStep ==
  ASSUME TypeOK, HeldRowIsTheNamedRow, ServicesKept,
         NEW c \in Clients, ClientStep(c)
  PROVE  HeldRowIsTheNamedRow'
<1> DEFINE Holding(d) ==
             Running(d, {"upsert_service", "set_service_status_by_name"}, "write")
           Good(d) == held[d] \in Named(services, NameSought(req[d]))
<1>. SUFFICES ASSUME NEW d \in Clients, Holding(d)' PROVE Good(d)'
  BY DEF HeldRowIsTheNamedRow
<1>1. \A s, n : s \in Named(services, n) => s \in Named(services, n)'
  BY DEF ServicesKept, SameRegistration, Named
<1>2. ASSUME Holding(d), UNCHANGED <<req[d], held[d]>> PROVE Good(d)'
  <2>1. Good(d)
    BY <1>2 DEF HeldRowIsTheNamedRow
  <2>2. NameSought(req[d])' = NameSought(req[d])
    BY <1>2 DEF NameSought
  <2>. QED
    BY <1>1, <1>2, <2>1, <2>2
<1>3. CASE d # c
  <2>1. UNCHANGED <<at[d], req[d], held[d]>>
    BY <1>3, ControlForms DEF ControlForm, TypeOK, Begin, GoTo, HoldNamed,
       Finish, Reset
  <2>. QED
    BY <1>2, <2>1 DEF Running
<1>4. CASE d = c
  <2> USE <1>4 DEF Running, TypeOK
  <2>1. ASSUME NEW r \in Requests, Begin(d, r) PROVE FALSE
    BY <2>1 DEF Begin
  <2>2. ASSUME NEW p \in {"insert", "reread"}, GoTo(d, p) PROVE FALSE
    BY <2>2 DEF GoTo
  <2>3. ASSUME GoTo(d, "write"),
               req[d].op \in {"upsert_resource", "uninstall", "set_resource_status"}
        PROVE  FALSE
    BY <2>3 DEF GoTo
  <2>4. CASE HoldNamed(d)
    <3>1. held'[d] \in Named(services, NameSought(req[d])) /\ UNCHANGED req
      BY <2>4 DEF HoldNamed
    <3>2. NameSought(req[d])' = NameSought(req[d])
      BY <3>1 DEF NameSought
    <3>. QED
      BY <1>1, <3>1, <3>2
  <2>5. ASSUME NEW a, Finish(d, a) PROVE FALSE
    BY <2>5 DEF Finish
  <2>6. CASE Reset(d)
    BY <2>6 DEF Reset
  <2>. QED
    BY <2>1, <2>2, <2>3, <2>4, <2>5, <2>6, ControlForms DEF ControlForm
<1>. QED
  BY <1>3, <1>4

(***************************************************************************)
(* The invariants of Spec.                                                 *)
(***************************************************************************)

\* What a step of the store does to the inductive invariant.
LEMMA InvariantStep ==
  ASSUME IInv, [Next]_vars
  PROVE  IInv' /\ ServicesKept
<1> USE DEF IInv
<1>1. ASSUME NEW c \in Clients, ClientStep(c)
      PROVE  IInv' /\ ServicesKept
  <2>1. ControlTypeOK' /\ ControlOK'
    BY <1>1, ControlStep DEF TypeOK, ControlTypeOK, TablesTypeOK
  <2>2. TablesTypeOK' /\ ReferentialIntegrity' /\ ServicesKept
    BY <1>1, TablesForms, TablesStep DEF TypeOK, TablesTypeOK
  <2>3. HeldRowIsTheNamedRow'
    BY <1>1, <2>2, HeldStep
  <2>. QED
    BY <2>1, <2>2, <2>3 DEF TypeOK, ControlTypeOK, TablesTypeOK
<1>2. CASE UNCHANGED vars
  <2> USE <1>2 DEF vars
  <2>1. TypeOK' /\ ControlOK' /\ ServicesKept
    BY DEF TypeOK, ControlOK, ServicesKept, SameRegistration
  <2>2. ReferentialIntegrity' /\ HeldRowIsTheNamedRow'
    BY DEF ReferentialIntegrity, HeldRowIsTheNamedRow, Installed, Running,
           Named, NameSought
  <2>. QED
    BY <2>1, <2>2
<1>. QED
  BY <1>1, <1>2 DEF Next

\* The fresh database satisfies the inductive invariant.
LEMMA InvariantInit ==
  ASSUME Init
  PROVE  IInv
<1> USE DEF Init
<1>1. TypeOK
  BY EmptyTableType DEF TypeOK, Points
<1>2. ControlOK
  BY DEF ControlOK
<1>3. ReferentialIntegrity
  BY EmptyTableType DEF ReferentialIntegrity
<1>4. HeldRowIsTheNamedRow
  BY DEF HeldRowIsTheNamedRow, Running
<1>. QED
  BY <1>1, <1>2, <1>3, <1>4 DEF IInv

\* The inductive invariant holds in every reachable state.
THEOREM Invariance == Spec => []IInv
<1>1. Init => IInv
  BY InvariantInit
<1>2. IInv /\ [Next]_vars => IInv'
  BY InvariantStep
<1>. QED
  BY <1>1, <1>2, PTL DEF Spec

\* Tables, calls and answers keep their types.
THEOREM TypeCorrectness == Spec => []TypeOK
<1>1. IInv => TypeOK
  BY DEF IInv
<1>. QED
  BY <1>1, Invariance, PTL

\* Whatever registrations, upserts and uninstalls interleave, no service
\* instance is ever left without its resource.
THEOREM NoOrphanedService == Spec => []ReferentialIntegrity
<1>1. IInv => ReferentialIntegrity
  BY DEF IInv
<1>. QED
  BY <1>1, Invariance, PTL

\* Between the SELECT that finds a row by name and the UPDATE that writes it,
\* the row keeps that name: no update reaches another instance.
THEOREM UpdatesHitTheNamedRow == Spec => []HeldRowIsTheNamedRow
<1>1. IInv => HeldRowIsTheNamedRow
  BY DEF IInv
<1>. QED
  BY <1>1, Invariance, PTL

\* A registered instance keeps its name, resource and settings for good, and
\* its resource is never removed.
THEOREM Permanence == Spec => RegistrationIsForever
<1>1. IInv /\ [Next]_vars =>
         [\A s \in DOMAIN services :
             /\ s \in DOMAIN services'
             /\ services'[s].instance_name = services[s].instance_name
             /\ services'[s].resource_id = services[s].resource_id
             /\ services'[s].settings = services[s].settings
             /\ services[s].resource_id \in DOMAIN resources']_vars
  <2>. SUFFICES ASSUME IInv, [Next]_vars, NEW s \in DOMAIN services
                PROVE  /\ s \in DOMAIN services'
                       /\ SameRegistration(services[s], services'[s])
                       /\ services[s].resource_id \in DOMAIN resources'
    BY DEF SameRegistration
  <2>1. s \in DOMAIN services' /\ SameRegistration(services[s], services'[s])
    BY InvariantStep DEF ServicesKept
  <2>2. ReferentialIntegrity'
    BY InvariantStep DEF IInv
  <2>3. services'[s].resource_id \in DOMAIN resources'
    BY <2>1, <2>2 DEF ReferentialIntegrity, Installed
  <2>. QED
    BY <2>1, <2>3 DEF SameRegistration
<1>. QED
  BY <1>1, Invariance, PTL DEF Spec, RegistrationIsForever

(***************************************************************************)
(* The statements implement the atomic store.                              *)
(***************************************************************************)

\* A call that is before a statement has not been answered.
LEMMA NotAnswered ==
  ASSUME IInv, NEW c \in Clients, AtStatement(c)
  PROVE  answer[c] = "none"
BY DEF IInv, ControlOK, AtStatement

\* The store accepts the requests that the Inventory accepts.
LEMMA SameRequests == Store!Requests = Requests /\ Store!NoRequest = NoRequest
BY DEF Requests, ResourceWrite, Removal, ResourceStatusUpdate, ServiceWrite,
       ServiceStatusUpdate, ResourceRow, ServiceRow, NoRequest,
       Store!Requests, Store!ResourceWrite, Store!Removal,
       Store!ResourceStatusUpdate, Store!ServiceWrite,
       Store!ServiceStatusUpdate, Store!ResourceRow, Store!ServiceRow,
       Store!NoRequest

\* Every statement is a step of the store in which the call is answered, or
\* changes nothing that the store can see.
LEMMA StatementRefines ==
  ASSUME IInv, NEW c \in Clients, Statement(c)
  PROVE  Store!Next \/ UNCHANGED Store!vars
<1>. DEFINE Same == UNCHANGED Store!vars
<1> USE DEF Running, Finish, Store!Awaiting, Store!Respond, Installed
<1>1. CASE InstallFind(c)
  <2>1. Same \/ Store!RefuseDuplicate(c)
    BY <1>1, NotAnswered DEF InstallFind, GoTo, tables, Store!vars,
       Store!RefuseDuplicate, AtStatement
  <2>. QED
    BY <2>1 DEF Store!Next
<1>2. CASE InstallInsert(c)
  <2>1. Store!InsertResource(c) \/ Store!Refuse(c)
    BY <1>2, NotAnswered DEF InstallInsert, AtStatement, Store!InsertResource,
       Store!Refuse, Store!AllOperations, Put, Store!Put
  <2>. QED
    BY <2>1 DEF Store!Next
<1>3. CASE UpsertReread(c)
  <2>1. Same \/ Store!ResourceMissing(c)
    BY <1>3, NotAnswered DEF UpsertReread, GoTo, tables, Store!vars,
       Store!ResourceMissing, AtStatement
  <2>. QED
    BY <2>1 DEF Store!Next
<1>4. CASE UpsertWrite(c)
  <2>1. Store!UpdateResource(c) \/ Store!Refuse(c)
    BY <1>4, NotAnswered DEF UpsertWrite, AtStatement, Store!UpdateResource,
       Store!Refuse, Store!AllOperations, OverwriteResource,
       Store!OverwriteResource
  <2>. QED
    BY <2>1 DEF Store!Next
<1>5. CASE UninstallFind(c)
  <2>1. Same \/ Store!ResourceMissing(c)
    BY <1>5, NotAnswered DEF UninstallFind, GoTo, tables, Store!vars,
       Store!ResourceMissing, AtStatement
  <2>. QED
    BY <2>1 DEF Store!Next
<1>6. CASE UninstallDelete(c)
  <2>1. Store!RemoveResource(c) \/ Store!Refuse(c)
    BY <1>6, NotAnswered DEF UninstallDelete, AtStatement,
       Store!RemoveResource, Store!Refuse, Store!AllOperations, Drop,
       Store!Drop, References, Store!References
  <2>. QED
    BY <2>1 DEF Store!Next
<1>7. CASE SetResourceStatusFind(c)
  <2>1. Same \/ Store!ResourceMissing(c)
    BY <1>7, NotAnswered DEF SetResourceStatusFind, GoTo, tables, Store!vars,
       Store!ResourceMissing, AtStatement
  <2>. QED
    BY <2>1 DEF Store!Next
<1>8. CASE SetResourceStatusWrite(c)
  <2>1. Store!UpdateResourceStatus(c) \/ Store!Refuse(c)
    BY <1>8, NotAnswered DEF SetResourceStatusWrite, AtStatement,
       Store!UpdateResourceStatus, Store!Refuse, Store!AllOperations
  <2>. QED
    BY <2>1 DEF Store!Next
<1>9. CASE AddServiceInsert(c)
  <2>1. Store!InsertService(c) \/ Store!Refuse(c)
    BY <1>9, NotAnswered DEF AddServiceInsert, AtStatement,
       Store!InsertService, Store!Refuse, Store!AllOperations, Put, Store!Put
  <2>. QED
    BY <2>1 DEF Store!Next
<1>10. CASE UpsertServiceFind(c)
  BY <1>10 DEF UpsertServiceFind, HoldNamed, GoTo, tables, Store!vars
<1>11. CASE UpsertServiceWrite(c)
  <2>1. held[c] \in Named(services, NameSought(req[c]))
    BY <1>11 DEF UpsertServiceWrite, IInv, HeldRowIsTheNamedRow
  <2>2. Store!UpdateService(c)
    BY <1>11, <2>1, NotAnswered DEF UpsertServiceWrite, AtStatement,
       Store!UpdateService, Store!Named, Named, Store!NameSought, NameSought,
       Store!OverwriteService, OverwriteService
  <2>. QED
    BY <2>2 DEF Store!Next
<1>12. CASE SetServiceStatusFind(c)
  <2>1. Same \/ Store!ServiceMissing(c)
    BY <1>12, NotAnswered DEF SetServiceStatusFind, HoldNamed, tables,
       Store!vars, Store!ServiceMissing, AtStatement, Store!Named, Named,
       Store!NameSought, NameSought
  <2>. QED
    BY <2>1 DEF Store!Next
<1>13. CASE SetServiceStatusWrite(c)
  <2>1. held[c] \in Named(services, NameSought(req[c]))
    BY <1>13 DEF SetServiceStatusWrite, IInv, HeldRowIsTheNamedRow
  <2>2. Store!UpdateServiceStatus(c)
    BY <1>13, <2>1, NotAnswered DEF SetServiceStatusWrite, AtStatement,
       Store!UpdateServiceStatus, Store!Named, Named, Store!NameSought,
       NameSought
  <2>. QED
    BY <2>2 DEF Store!Next
<1>14. CASE StatementError(c)
  <2>1. req[c].op \in AllOperations
    <3>1. req[c] \in Requests
      BY <1>14 DEF StatementError, AtStatement, IInv, TypeOK, ControlOK
    <3>. QED
      BY <3>1, RequestTypes, OperationsAssumption
  <2>2. Store!Refuse(c)
    BY <1>14, <2>1, NotAnswered DEF StatementError, tables, Store!Refuse,
       Store!AllOperations, AllOperations
  <2>. QED
    BY <2>2 DEF Store!Next
<1>. QED
  BY <1>1, <1>2, <1>3, <1>4, <1>5, <1>6, <1>7, <1>8, <1>9, <1>10, <1>11,
     <1>12, <1>13, <1>14 DEF Statement

\* Every step of a caller is a step of the store, or invisible to it.
LEMMA StepRefines ==
  ASSUME IInv, [Next]_vars
  PROVE  Store!Next \/ UNCHANGED Store!vars
<1>1. ASSUME NEW c \in Clients, ClientStep(c)
      PROVE  Store!Next \/ UNCHANGED Store!vars
  <2>1. ASSUME NEW r \in Requests, Begin(c, r) PROVE Store!Call(c)
    BY <2>1, SameRequests DEF Begin, IInv, ControlOK, tables, Store!Call
  <2>2. CASE DropCall(c) \/ Return(c)
    <3>1. /\ req \in [Clients -> Requests \cup {NoRequest}]
          /\ answer \in [Clients -> Answers \cup {"none"}]
      BY DEF IInv, TypeOK
    <3>2. Store!Forget({c})
      BY <2>2, <3>1, SameRequests DEF DropCall, Return, Reset, tables,
         Store!Forget
    <3>. QED
      BY <3>2 DEF Store!Next
  <2>. QED
    BY <1>1, <2>1, <2>2, StatementRefines DEF ClientStep, Store!Next
<1>2. CASE UNCHANGED vars
  BY <1>2 DEF vars, Store!vars
<1>. QED
  BY <1>1, <1>2 DEF Next

\* Every call takes effect in one atomic step, in which it is also answered.
THEOREM StatementsImplementStore == Spec => ImplementsStore
<1>1. Init => Store!Init
  <2>1. /\ EmptyTable \in Store!Table(ResourceIds, Store!ResourceRow)
        /\ EmptyTable \in Store!Table(ServiceIds, Store!ServiceRow)
        /\ DOMAIN EmptyTable = {}
    BY EmptyTableType DEF Table, Store!Table, ResourceRow, Store!ResourceRow,
       ServiceRow, Store!ServiceRow, EmptyTable
  <2>. QED
    BY <2>1, SameRequests DEF Init, Store!Init
<1>2. IInv /\ [Next]_vars => [Store!Next]_(Store!vars)
  BY StepRefines
<1>. QED
  BY <1>1, <1>2, Invariance, PTL DEF Spec, Store!Spec, ImplementsStore

(***************************************************************************)
(* Steps that only the compositions have: the callers of a process go away *)
(* together, a statement is refused, a process starts on old tables.       *)
(***************************************************************************)

Gone(gone) ==
    /\ at' = [c \in Clients |-> IF c \in gone THEN "idle" ELSE at[c]]
    /\ req' = [c \in Clients |-> IF c \in gone THEN NoRequest ELSE req[c]]
    /\ held' = [c \in Clients |-> IF c \in gone THEN None ELSE held[c]]
    /\ answer' = [c \in Clients |-> IF c \in gone THEN "none" ELSE answer[c]]
    /\ UNCHANGED tables

\* Whoever goes away, the calls that remain are as they were.
LEMMA GoneStep ==
  ASSUME IInv, NEW gone \in SUBSET Clients, Gone(gone)
  PROVE  IInv' /\ ServicesKept /\ Store!Next
<1> USE DEF IInv, Gone, tables
<1>1. TypeOK'
  BY DEF TypeOK, Points
<1>2. ControlOK'
  BY DEF ControlOK
<1>3. ReferentialIntegrity' /\ ServicesKept
  BY DEF ReferentialIntegrity, Installed, ServicesKept, SameRegistration
<1>4. HeldRowIsTheNamedRow'
  <2>. SUFFICES ASSUME NEW c \in Clients,
                       Running(c, {"upsert_service",
                                   "set_service_status_by_name"}, "write")'
                PROVE  (held[c] \in Named(services, NameSought(req[c])))'
    BY DEF HeldRowIsTheNamedRow
  <2>1. c \notin gone
    BY DEF Running
  <2>2. at'[c] = at[c] /\ req'[c] = req[c] /\ held'[c] = held[c]
    BY <2>1
  <2>. QED
    BY <2>2 DEF HeldRowIsTheNamedRow, Running, Named, NameSought
<1>5. Store!Forget(gone)
  BY SameRequests DEF Store!Forget
<1>. QED
  BY <1>1, <1>2, <1>3, <1>4, <1>5 DEF Store!Next

\* A statement that is refused answers its call and touches no table.
LEMMA RefusedStep ==
  ASSUME IInv, NEW c \in Clients, AtStatement(c), Finish(c, "database"),
         UNCHANGED tables
  PROVE  IInv' /\ ServicesKept /\ Store!Next
<1> USE DEF IInv, Finish, tables
<1>1. TypeOK'
  BY DEF TypeOK, Points, Answers
<1>2. ControlOK'
  BY DEF ControlOK, AtStatement, TypeOK
<1>3. ReferentialIntegrity' /\ ServicesKept
  BY DEF ReferentialIntegrity, Installed, ServicesKept, SameRegistration
<1>4. HeldRowIsTheNamedRow'
  <2>. SUFFICES ASSUME NEW d \in Clients,
                       Running(d, {"upsert_service",
                                   "set_service_status_by_name"}, "write")'
                PROVE  (held[d] \in Named(services, NameSought(req[d])))'
    BY DEF HeldRowIsTheNamedRow
  <2>1. d # c /\ at'[d] = at[d] /\ req'[d] = req[d] /\ held'[d] = held[d]
    BY DEF Running, TypeOK
  <2>. QED
    BY <2>1 DEF HeldRowIsTheNamedRow, Running, Named, NameSought
<1>5. answer[c] = "none" /\ req[c] \in Requests
  BY NotAnswered DEF ControlOK, AtStatement, TypeOK
<1>6. req[c].op \in Store!AllOperations
  BY <1>5, OperationsAssumption DEF Requests, AllOperations, Store!AllOperations
<1>7. Store!Refuse(c)
  BY <1>5, <1>6 DEF Store!Refuse, Store!Awaiting, Store!Respond
<1>. QED
  BY <1>1, <1>2, <1>3, <1>4, <1>7 DEF Store!Next

\* No caller has a call in progress.
Quiet ==
    /\ at = [c \in Clients |-> "idle"]
    /\ req = [c \in Clients |-> NoRequest]
    /\ held = [c \in Clients |-> None]
    /\ answer = [c \in Clients |-> "none"]

\* Any consistent tables are a good start.
LEMMA QuietStart ==
  ASSUME TablesTypeOK, ReferentialIntegrity, Quiet
  PROVE  IInv /\ Store!Init
<1> USE DEF Quiet
<1>1. TypeOK
  BY DEF TypeOK, TablesTypeOK, Points
<1>2. ControlOK /\ HeldRowIsTheNamedRow
  BY DEF ControlOK, HeldRowIsTheNamedRow, Running
<1>3. /\ resources \in Store!Table(ResourceIds, Store!ResourceRow)
      /\ services \in Store!Table(ServiceIds, Store!ServiceRow)
  BY DEF TablesTypeOK, Table, Store!Table, ResourceRow, Store!ResourceRow,
     ServiceRow, Store!ServiceRow
<1>4. Store!Init
  BY <1>3, SameRequests DEF Store!Init, ReferentialIntegrity, Installed
<1>. QED
  BY <1>1, <1>2, <1>4 DEF IInv

(***************************************************************************)
(* The bound on duplicate names.                                           *)
(***************************************************************************)

\* A step of one caller leaves the calls of the others alone.
LEMMA OthersUntouched ==
  ASSUME TypeOK, NEW c \in Clients, ClientStep(c), NEW d \in Clients \ {c}
  PROVE  at'[d] = at[d] /\ req'[d] = req[d] /\ answer'[d] = answer[d]
BY ControlForms DEF ControlForm, TypeOK, Begin, GoTo, HoldNamed, Finish, Reset

\* Only the INSERT of add_service adds a service row.
LEMMA OnlyInsertAdds ==
  ASSUME IInv, NEW c \in Clients, ClientStep(c), ~AddServiceInsert(c)
  PROVE  DOMAIN services' = DOMAIN services
<1>1. CASE UpsertServiceWrite(c) \/ SetServiceStatusWrite(c)
  BY <1>1 DEF UpsertServiceWrite, SetServiceStatusWrite, IInv, TypeOK
<1>2. ASSUME NEW r \in Requests, Begin(c, r) PROVE UNCHANGED services
  BY <1>2 DEF Begin, tables
<1>3. CASE InstallFind(c) \/ InstallInsert(c) \/ UpsertReread(c) \/ UpsertWrite(c)
  BY <1>3 DEF InstallFind, InstallInsert, UpsertReread, UpsertWrite, tables
<1>4. CASE \/ UninstallFind(c) \/ UninstallDelete(c)
           \/ SetResourceStatusFind(c) \/ SetResourceStatusWrite(c)
  BY <1>4 DEF UninstallFind, UninstallDelete, SetResourceStatusFind,
     SetResourceStatusWrite, tables
<1>5. CASE UpsertServiceFind(c) \/ SetServiceStatusFind(c) \/ StatementError(c)
  BY <1>5 DEF UpsertServiceFind, SetServiceStatusFind, StatementError, tables
<1>6. CASE DropCall(c) \/ Return(c)
  BY <1>6 DEF DropCall, Return, Reset, tables
<1>. QED
  BY <1>1, <1>2, <1>3, <1>4, <1>5, <1>6 DEF ClientStep, Statement

\* What a step does to the rows and to the registrants of one name: it leaves
\* the rows and adds no registrant; or there is no row; or a registrant turns
\* into a row.
LEMMA RegistrationForms ==
  ASSUME IInv, NEW c \in Clients, ClientStep(c), "add_service" \notin Operations,
         NEW n \in InstanceNames
  PROVE  \/ /\ Named(services, n)' = Named(services, n)
            /\ Registrants(n)' \subseteq Registrants(n)
         \/ Named(services, n)' = {}
         \/ /\ c \in Registrants(n)
            /\ Registrants(n)' \subseteq Registrants(n) \ {c}
            /\ \E s : Named(services, n)' = Named(services, n) \cup {s}
<1>1. ServicesKept
  BY InvariantStep DEF Next
<1>2. \A d \in Registrants(n)' \ {c} : d \in Registrants(n)
  BY OthersUntouched DEF Registrants, Running, IInv
<1>3. ASSUME DOMAIN services' = DOMAIN services
      PROVE  Named(services, n)' = Named(services, n)
  BY <1>1, <1>3 DEF ServicesKept, SameRegistration, Named
<1>4. CASE AddServiceInsert(c)
  <2>1. req[c] \in Requests \cup {NoRequest}
    BY DEF IInv, TypeOK
  <2>2. req[c].op = "upsert_service" /\ at[c] = "insert"
    BY <1>4, <2>1, RequestTypes DEF AddServiceInsert, Running, NoRequest
  <2>3. at'[c] = "done"
    BY <1>4 DEF AddServiceInsert, Finish, IInv, TypeOK
  <2>4. Registrants(n)' \subseteq Registrants(n) \ {c}
    BY <1>2, <2>3 DEF Registrants, Running
  <2>5. CASE UNCHANGED services
    BY <1>3, <2>4, <2>5
  <2>6. CASE /\ req[c].id \notin DOMAIN services
             /\ services' = Put(services, req[c].id, req[c].row)
    <3>. DEFINE s == req[c].id
    <3>1. /\ DOMAIN services' = DOMAIN services \cup {s}
          /\ services'[s] = req[c].row
          /\ \A t \in DOMAIN services : services'[t] = services[t]
      BY <2>6 DEF Put
    <3>2. CASE req[c].row.instance_name = n
      <4>1. Named(services, n)' = Named(services, n) \cup {s}
        BY <3>1, <3>2 DEF Named
      <4>2. c \in Registrants(n)
        BY <2>2, <3>2 DEF Registrants, Running
      <4>. QED
        BY <2>4, <4>1, <4>2
    <3>3. CASE req[c].row.instance_name # n
      BY <2>4, <3>1, <3>3 DEF Named
    <3>. QED
      BY <3>2, <3>3
  <2>. QED
    BY <1>4, <2>5, <2>6 DEF AddServiceInsert
<1>5. CASE ~AddServiceInsert(c)
  <2>1. Named(services, n)' = Named(services, n)
    BY <1>3, <1>5, OnlyInsertAdds
  <2>2. ASSUME c \in Registrants(n)', c \notin Registrants(n)
        PROVE  Named(services, n) = {}
    <3> USE <2>2 DEF Registrants, Running, IInv, TypeOK
    <3>1. at'[c] = "insert" /\ req'[c].op = "upsert_service"
      OBVIOUS
    <3>2. ASSUME NEW r \in Requests, Begin(c, r) PROVE FALSE
      <4>1. r.op # "add_service"
        BY DEF Requests
      <4>. QED
        BY <3>1, <3>2, <4>1 DEF Begin
    <3>3. CASE /\ GoTo(c, "insert")
               /\ req[c].op = "upsert_service" =>
                     Named(services, NameSought(req[c])) = {}
      <4>1. req'[c] = req[c]
        BY <3>3 DEF GoTo
      <4>. QED
        BY <3>1, <3>3, <4>1 DEF NameSought
    <3>4. ~GoTo(c, "reread") /\ ~GoTo(c, "write") /\ ~HoldNamed(c)
      BY <3>1 DEF GoTo, HoldNamed
    <3>5. ~Reset(c) /\ \A a : ~Finish(c, a)
      BY <3>1 DEF Reset, Finish
    <3>. QED
      BY <3>2, <3>3, <3>4, <3>5, ControlForms DEF ControlForm
  <2>. QED
    BY <1>2, <2>1, <2>2
<1>. QED
  BY <1>4, <1>5

\* One more element, of which it may be unknown whether it is new.
LEMMA OneMore ==
  ASSUME NEW S, NEW x, IsFiniteSet(S)
  PROVE  /\ IsFiniteSet(S \cup {x})
         /\ Cardinality(S \cup {x}) <= Cardinality(S) + 1
<1>1. Cardinality(S) \in Nat
  BY FS_CardinalityType
<1>2. /\ IsFiniteSet(S \cup {x})
      /\ \/ Cardinality(S \cup {x}) = Cardinality(S)
         \/ Cardinality(S \cup {x}) = Cardinality(S) + 1
  BY FS_AddElement
<1>. QED
  BY <1>1, <1>2

\* Every step keeps the sum of the rows and the registrants of a name below
\* the number of callers.
LEMMA NameBoundStep ==
  ASSUME IInv, RegistrationsBounded, [Next]_vars
  PROVE  RegistrationsBounded'
<1>. DEFINE Bound(n) ==
       /\ IsFiniteSet(Named(services, n))
       /\ Cardinality(Named(services, n)) + Cardinality(Registrants(n))
             <= Cardinality(Clients)
<1>. SUFFICES ASSUME "add_service" \notin Operations, NEW n \in InstanceNames
              PROVE  Bound(n)'
  BY DEF RegistrationsBounded
<1>1. Bound(n)
  BY DEF RegistrationsBounded
<1>2. /\ Registrants(n) \subseteq Clients
      /\ Registrants(n)' \subseteq Clients
  BY DEF Registrants
<1>3. /\ IsFiniteSet(Registrants(n))
      /\ IsFiniteSet(Registrants(n)')
      /\ Cardinality(Registrants(n)') <= Cardinality(Clients)
  BY <1>2, ClientsAssumption, FS_Subset
<1>4. /\ Cardinality(Registrants(n)) \in Nat
      /\ Cardinality(Registrants(n)') \in Nat
      /\ Cardinality(Named(services, n)) \in Nat
      /\ Cardinality(Clients) \in Nat
  BY <1>1, <1>3, ClientsAssumption, FS_CardinalityType
<1>5. CASE /\ Named(services, n)' = Named(services, n)
           /\ Registrants(n)' \subseteq Registrants(n)
  <2>1. Cardinality(Registrants(n)') <= Cardinality(Registrants(n))
    BY <1>3, <1>5, FS_Subset
  <2>. QED
    BY <1>1, <1>4, <1>5, <2>1
<1>6. CASE Named(services, n)' = {}
  <2>1. IsFiniteSet({}) /\ Cardinality({}) = 0
    BY FS_EmptySet
  <2>. QED
    BY <1>3, <1>4, <1>6, <2>1
<1>7. ASSUME NEW c \in Registrants(n),
             Registrants(n)' \subseteq Registrants(n) \ {c},
             NEW s, Named(services, n)' = Named(services, n) \cup {s}
      PROVE  Bound(n)'
  <2>1. /\ IsFiniteSet(Registrants(n) \ {c})
        /\ Cardinality(Registrants(n) \ {c}) = Cardinality(Registrants(n)) - 1
    BY <1>3, <1>7, FS_RemoveElement
  <2>2. Cardinality(Registrants(n)') <= Cardinality(Registrants(n)) - 1
    BY <1>7, <2>1, FS_Subset
  <2>3. /\ IsFiniteSet(Named(services, n) \cup {s})
        /\ Cardinality(Named(services, n) \cup {s})
              <= Cardinality(Named(services, n)) + 1
    BY <1>1, OneMore
  <2>4. Cardinality(Named(services, n) \cup {s}) \in Nat
    BY <2>3, FS_CardinalityType
  <2>. QED
    BY <1>1, <1>4, <1>7, <2>2, <2>3, <2>4
<1>8. CASE UNCHANGED vars
  BY <1>1, <1>8 DEF vars, Named, Registrants, Running
<1>. QED
  BY <1>5, <1>6, <1>7, <1>8, RegistrationForms DEF Next

\* A name never gets more rows than there are concurrent callers.
THEOREM DuplicatesAreBounded == Spec => []DuplicatesBounded
<1>1. Init => RegistrationsBounded
  <2>. SUFFICES ASSUME Init, NEW n \in InstanceNames
                PROVE  /\ IsFiniteSet(Named(services, n))
                       /\ Cardinality(Named(services, n))
                            + Cardinality(Registrants(n)) <= Cardinality(Clients)
    BY DEF RegistrationsBounded
  <2>1. Named(services, n) = {} /\ Registrants(n) = {}
    BY EmptyTableType DEF Init, Named, Registrants, Running
  <2>2. Cardinality(Clients) \in Nat
    BY ClientsAssumption, FS_CardinalityType
  <2>. QED
    BY <2>1, <2>2, FS_EmptySet
<1>2. IInv /\ RegistrationsBounded /\ [Next]_vars => RegistrationsBounded'
  BY NameBoundStep
<1>3. RegistrationsBounded => DuplicatesBounded
  <2>. SUFFICES ASSUME RegistrationsBounded, "add_service" \notin Operations,
                       NEW n \in InstanceNames
                PROVE  Cardinality(Named(services, n)) <= Cardinality(Clients)
    BY DEF DuplicatesBounded
  <2>1. /\ IsFiniteSet(Named(services, n))
        /\ Cardinality(Named(services, n)) + Cardinality(Registrants(n))
              <= Cardinality(Clients)
    BY DEF RegistrationsBounded
  <2>2. IsFiniteSet(Registrants(n))
    BY ClientsAssumption, FS_Subset DEF Registrants
  <2>. QED
    BY <2>1, <2>2, ClientsAssumption, FS_CardinalityType
<1>. QED
  BY <1>1, <1>2, <1>3, Invariance, PTL DEF Spec
==============================================================================
