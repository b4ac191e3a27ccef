------------------------------ MODULE Inventory ------------------------------
(***************************************************************************)
(* The Inventory of src/repo.rs: concurrent calls over one SQLite database.*)
(*                                                                         *)
(* Every method is a sequence of SQL statements without a transaction.     *)
(* A statement is atomic; between two statements of a call, at the .await, *)
(* any other call may run its own: the tasks of the gRPC and REST servers, *)
(* the bus handler and the fs-inventory command line share the database.   *)
(* There is one action per statement. A call is at a program point:        *)
(*                                                                         *)
(*   idle     no call                                                      *)
(*   find     before the first SELECT                                      *)
(*   insert   before the INSERT                                            *)
(*   reread   before the second SELECT of upsert_resource                  *)
(*   write    before the UPDATE or DELETE, the row found is held           *)
(*   done     answered, the caller has not taken the answer yet            *)
(*                                                                         *)
(* SQLite enforces the primary keys and, because sqlx opens every          *)
(* connection with foreign_keys on, the REFERENCES clause.                 *)
(***************************************************************************)
EXTENDS InventoryTables

CONSTANTS
    Clients,        \* the tasks that can have a call in progress
    Disruptions     \* what may go wrong besides interleaving

ASSUME ClientsAssumption == IsFiniteSet(Clients)
ASSUME DisruptionsAssumption ==
    Disruptions \subseteq {"statement_error", "dropped_call", "malformed_event"}

VARIABLES
    resources,  \* table installed_resources
    services,   \* table service_instances
    at,         \* program point of each client's call
    req,        \* its request
    held,       \* the service row it found and is about to update
    answer      \* its Result, once there is one

tables == <<resources, services>>
vars == <<resources, services, at, req, held, answer>>

Points == {"idle", "find", "insert", "reread", "write", "done"}

Init ==
    /\ resources = EmptyTable
    /\ services = EmptyTable
    /\ at = [c \in Clients |-> "idle"]
    /\ req = [c \in Clients |-> NoRequest]
    /\ held = [c \in Clients |-> None]
    /\ answer = [c \in Clients |-> "none"]

-----------------------------------------------------------------------------
(* Control *)

Running(c, ops, point) == req[c].op \in ops /\ at[c] = point

Installed(id) == id \in DOMAIN resources

GoTo(c, point) ==
    /\ at' = [at EXCEPT ![c] = point]
    /\ UNCHANGED <<req, held, answer>>

Finish(c, result) ==
    /\ at' = [at EXCEPT ![c] = "done"]
    /\ held' = [held EXCEPT ![c] = None]
    /\ answer' = [answer EXCEPT ![c] = result]
    /\ UNCHANGED req

Begin(c, r) ==
    /\ at[c] = "idle"
    /\ req' = [req EXCEPT ![c] = r]
    /\ at' = [at EXCEPT ![c] = IF r.op = "add_service" THEN "insert" ELSE "find"]
    /\ UNCHANGED <<tables, held, answer>>

Reset(c) ==
    /\ at' = [at EXCEPT ![c] = "idle"]
    /\ req' = [req EXCEPT ![c] = NoRequest]
    /\ held' = [held EXCEPT ![c] = None]
    /\ answer' = [answer EXCEPT ![c] = "none"]
    /\ UNCHANGED tables

Return(c) == at[c] = "done" /\ Reset(c)

-----------------------------------------------------------------------------
(* install, and upsert_resource, which calls it first *)

InstallFind(c) ==
    /\ Running(c, {"install", "upsert_resource"}, "find")
    /\ \/ ~Installed(req[c].id) /\ GoTo(c, "insert")
       \/ Installed(req[c].id) /\ req[c].op = "install"
             /\ Finish(c, "already_installed")
       \/ Installed(req[c].id) /\ req[c].op = "upsert_resource"
             /\ GoTo(c, "reread")
    /\ UNCHANGED tables

\* The id may have been inserted since the SELECT: the primary key refuses.
InstallInsert(c) ==
    /\ Running(c, {"install", "upsert_resource"}, "insert")
    /\ \/ /\ ~Installed(req[c].id)
          /\ resources' = Put(resources, req[c].id, req[c].row)
          /\ Finish(c, "ok")
       \/ /\ Installed(req[c].id)
          /\ Finish(c, "database")
          /\ UNCHANGED resources
    /\ UNCHANGED services

\* Mutant of UpsertReread: an id that is gone again starts the call over.
UpsertRereadOrRetry(c) ==
    /\ Running(c, {"upsert_resource"}, "reread")
    /\ IF Installed(req[c].id) THEN GoTo(c, "write") ELSE GoTo(c, "find")
    /\ UNCHANGED tables

UpsertReread(c) ==
    /\ Running(c, {"upsert_resource"}, "reread")
    /\ \/ Installed(req[c].id) /\ GoTo(c, "write")
       \/ ~Installed(req[c].id) /\ Finish(c, "not_found")
    /\ UNCHANGED tables

\* Mutant of UpsertWrite: INSERT OR REPLACE instead of UPDATE.
UpsertReplace(c) ==
    /\ Running(c, {"upsert_resource"}, "write")
    /\ resources' = Put(resources, req[c].id, req[c].row)
    /\ Finish(c, "ok")
    /\ UNCHANGED services

\* An UPDATE that matches no row is an error (DbErr::RecordNotUpdated).
UpsertWrite(c) ==
    /\ Running(c, {"upsert_resource"}, "write")
    /\ \/ /\ Installed(req[c].id)
          /\ resources' = [resources EXCEPT ![req[c].id] =
                              OverwriteResource(@, req[c].row)]
          /\ Finish(c, "ok")
       \/ /\ ~Installed(req[c].id)
          /\ Finish(c, "database")
          /\ UNCHANGED resources
    /\ UNCHANGED services

-----------------------------------------------------------------------------
(* uninstall *)

UninstallFind(c) ==
    /\ Running(c, {"uninstall"}, "find")
    /\ \/ Installed(req[c].id) /\ GoTo(c, "write")
       \/ ~Installed(req[c].id) /\ Finish(c, "not_found")
    /\ UNCHANGED tables

\* Mutant of UninstallDelete: the connection does not enforce foreign keys.
UninstallUnchecked(c) ==
    /\ Running(c, {"uninstall"}, "write")
    /\ resources' = Drop(resources, req[c].id)
    /\ Finish(c, "ok")
    /\ UNCHANGED services

\* The foreign key refuses to delete a referenced row. A DELETE that matches
\* no row is not an error.
UninstallDelete(c) ==
    /\ Running(c, {"uninstall"}, "write")
    /\ \/ /\ References(services, req[c].id) = {}
          /\ resources' = Drop(resources, req[c].id)
          /\ Finish(c, "ok")
       \/ /\ References(services, req[c].id) # {}
          /\ Finish(c, "database")
          /\ UNCHANGED resources
    /\ UNCHANGED services

-----------------------------------------------------------------------------
(* set_resource_status *)

SetResourceStatusFind(c) ==
    /\ Running(c, {"set_resource_status"}, "find")
    /\ \/ Installed(req[c].id) /\ GoTo(c, "write")
       \/ ~Installed(req[c].id) /\ Finish(c, "not_found")
    /\ UNCHANGED tables

SetResourceStatusWrite(c) ==
    /\ Running(c, {"set_resource_status"}, "write")
    /\ \/ /\ Installed(req[c].id)
          /\ resources' = [resources EXCEPT ![req[c].id].status = req[c].status]
          /\ Finish(c, "ok")
       \/ /\ ~Installed(req[c].id)
          /\ Finish(c, "database")
          /\ UNCHANGED resources
    /\ UNCHANGED services

-----------------------------------------------------------------------------
(* add_service, which is also the last part of upsert_service *)

AddServiceInsert(c) ==
    /\ Running(c, {"add_service", "upsert_service"}, "insert")
    /\ \/ /\ req[c].id \notin DOMAIN services
          /\ Installed(req[c].row.resource_id)
          /\ services' = Put(services, req[c].id, req[c].row)
          /\ Finish(c, "ok")
       \/ /\ \/ req[c].id \in DOMAIN services
             \/ ~Installed(req[c].row.resource_id)
          /\ Finish(c, "database")
          /\ UNCHANGED services
    /\ UNCHANGED resources

\* Mutants of HoldNamed: the filter is forgotten; the name is taken for the key.
HoldAny(c) ==
    \E s \in DOMAIN services :
       /\ held' = [held EXCEPT ![c] = s]
       /\ at' = [at EXCEPT ![c] = "write"]
       /\ UNCHANGED <<req, answer>>

HoldName(c) ==
    /\ Named(services, NameSought(req[c])) # {}
    /\ held' = [held EXCEPT ![c] = NameSought(req[c])]
    /\ at' = [at EXCEPT ![c] = "write"]
    /\ UNCHANGED <<req, answer>>

\* SELECT ... WHERE instance_name = ? LIMIT 1: any row with that name.
HoldNamed(c) ==
    \E s \in Named(services, NameSought(req[c])) :
       /\ held' = [held EXCEPT ![c] = s]
       /\ at' = [at EXCEPT ![c] = "write"]
       /\ UNCHANGED <<req, answer>>

\* Mutant of UpsertServiceFind: the name is not looked up.
UpsertServiceBlind(c) ==
    /\ Running(c, {"upsert_service"}, "find")
    /\ GoTo(c, "insert")
    /\ UNCHANGED tables

UpsertServiceFind(c) ==
    /\ Running(c, {"upsert_service"}, "find")
    /\ \/ HoldNamed(c)
       \/ Named(services, NameSought(req[c])) = {} /\ GoTo(c, "insert")
    /\ UNCHANGED tables

\* No statement deletes a service row, so the row held is there to update.
UpsertServiceWrite(c) ==
    /\ Running(c, {"upsert_service"}, "write")
    /\ services' = [services EXCEPT ![held[c]] = OverwriteService(@, req[c].row)]
    /\ Finish(c, "ok")
    /\ UNCHANGED resources

SetServiceStatusFind(c) ==
    /\ Running(c, {"set_service_status_by_name"}, "find")
    /\ \/ HoldNamed(c)
       \/ Named(services, NameSought(req[c])) = {} /\ Finish(c, "not_found")
    /\ UNCHANGED tables

SetServiceStatusWrite(c) ==
    /\ Running(c, {"set_service_status_by_name"}, "write")
    /\ services' = [services EXCEPT ![held[c]].status = req[c].status]
    /\ Finish(c, "ok")
    /\ UNCHANGED resources

-----------------------------------------------------------------------------
(* Failures *)

AtStatement(c) == at[c] \in {"find", "insert", "reread", "write"}

\* A statement fails by itself (busy, disk full, I/O); `?` returns the error.
StatementError(c) ==
    /\ "statement_error" \in Disruptions
    /\ AtStatement(c)
    /\ Finish(c, "database")
    /\ UNCHANGED tables

\* The task is dropped at an await: its connection closed, or the process
\* died. Statements already executed stay. Dropping a call at "done" is
\* Return, the loss of an answer.
DropCall(c) ==
    /\ "dropped_call" \in Disruptions
    /\ AtStatement(c)
    /\ Reset(c)

-----------------------------------------------------------------------------

Statement(c) ==
    \/ InstallFind(c) \/ InstallInsert(c)
    \/ UpsertReread(c) \/ UpsertWrite(c)
    \/ UninstallFind(c) \/ UninstallDelete(c)
    \/ SetResourceStatusFind(c) \/ SetResourceStatusWrite(c)
    \/ AddServiceInsert(c)
    \/ UpsertServiceFind(c) \/ UpsertServiceWrite(c)
    \/ SetServiceStatusFind(c) \/ SetServiceStatusWrite(c)
    \/ StatementError(c)

ClientStep(c) ==
    \/ \E r \in Requests : Begin(c, r)
    \/ Statement(c)
    \/ DropCall(c)
    \/ Return(c)

Next == \E c \in Clients : ClientStep(c)

\* The runtime polls every task and SQLite finishes, or fails, every
\* statement; callers need not call again nor stay.
Fairness == \A c \in Clients : WF_vars(Statement(c))

Spec == Init /\ [][Next]_vars /\ Fairness

-----------------------------------------------------------------------------
(* Properties *)

TypeOK ==
    /\ resources \in Table(ResourceIds, ResourceRow)
    /\ services \in Table(ServiceIds, ServiceRow)
    /\ at \in [Clients -> Points]
    /\ req \in [Clients -> Requests \cup {NoRequest}]
    /\ held \in [Clients -> ServiceIds \cup {None}]
    /\ answer \in [Clients -> Answers \cup {"none"}]

\* No interleaving of registrations and uninstalls leaves a service instance
\* without its resource, although upsert_service never looks the resource up
\* and uninstall never looks for instances (repo.rs:119-127, 202-218).
ReferentialIntegrity ==
    \A s \in DOMAIN services : Installed(services[s].resource_id)

\* The row that a call found by name and updates in a later statement is then
\* still a row of that name: no call writes into an instance it did not ask
\* for, whatever ran in between (repo.rs:261-273, 314-323).
HeldRowIsTheNamedRow ==
    \A c \in Clients :
       Running(c, {"upsert_service", "set_service_status_by_name"}, "write") =>
          held[c] \in Named(services, NameSought(req[c]))

\* upsert_service looks a name up and inserts in separate statements, so a
\* name can get several rows; but never more than there are concurrent
\* callers, however long the store runs (repo.rs:260-278).
\* For one caller this is the uniqueness of names.
DuplicatesBounded ==
    "add_service" \notin Operations =>
       \A n \in InstanceNames :
          Cardinality(Named(services, n)) <= Cardinality(Clients)

\* From its registration on, a service instance keeps its name, its resource
\* and its settings whatever is upserted under that name, and so pins its
\* resource: no later step removes either (repo.rs:266-273, 125).
RegistrationIsForever ==
    [][\A s \in DOMAIN services :
          /\ s \in DOMAIN services'
          /\ services'[s].instance_name = services[s].instance_name
          /\ services'[s].resource_id = services[s].resource_id
          /\ services'[s].settings = services[s].settings
          /\ services[s].resource_id \in DOMAIN resources']_vars

\* The statements implement the atomic store: a call changes the tables in
\* the very step that decides its answer or not at all, and the answer tells
\* the truth about the tables of that moment.
Store == INSTANCE InventoryStore
ImplementsStore == Store!Spec

\* Every call is answered: no method loops or waits for another call, however
\* the other callers flip the rows it looks at.
EveryCallAnswered ==
    \A c \in Clients : AtStatement(c) ~> ~AtStatement(c)

-----------------------------------------------------------------------------
(* The inductive invariant behind the properties above *)

\* The program point, the request and the answer of a call belong together.
ControlOK ==
    \A c \in Clients :
       /\ at[c] = "idle" <=> req[c] = NoRequest
       /\ at[c] = "done" <=> answer[c] # "none"

IInv == TypeOK /\ ControlOK /\ ReferentialIntegrity /\ HeldRowIsTheNamedRow

\* The callers that have found no instance of a name and will insert one.
Registrants(n) ==
    {c \in Clients : /\ Running(c, {"upsert_service"}, "insert")
                     /\ req[c].row.instance_name = n}

\* Why duplicates are bounded: a caller becomes a registrant only while the
\* name has no row, and stops being one when it inserts its row.
RegistrationsBounded ==
    "add_service" \notin Operations =>
       \A n \in InstanceNames :
          /\ IsFiniteSet(Named(services, n))
          /\ Cardinality(Named(services, n)) + Cardinality(Registrants(n))
                <= Cardinality(Clients)

-----------------------------------------------------------------------------
(* What the repository says of the store, and the code does not keep *)

\* store.rs:72 "Register a service instance or update an existing one with
\* the same name": two instances never share a name.
InstanceNamesUnique ==
    \A s, t \in DOMAIN services :
       services[s].instance_name = services[t].instance_name => s = t
==============================================================================
