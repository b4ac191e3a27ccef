----------------------------- MODULE InventoryNode -----------------------------
(***************************************************************************)
(* The processes of a node that share one inventory database: daemons      *)
(* (fs-inventory serve) and commands (list, status, uninstall, services).  *)
(* They start, open the database, migrate it, bind their ports, serve or   *)
(* make their one call, and exit; each may die at any moment.              *)
(*                                                                         *)
(* A process runs through the phases                                       *)
(*                                                                         *)
(*   resources, services, index   the statements of SCHEMA                 *)
(*   migrate                      the ALTER TABLE                          *)
(*   bind                         a daemon, before its REST listener       *)
(*   serving                      a daemon, in the select! over the servers*)
(*   command                      a command, making its call               *)
(*   exited                       not started, or ended                    *)
(*                                                                         *)
(* The gRPC server binds its port inside the select!. A process ends in    *)
(* one step: its tasks are dropped where they are. Nothing here reads the  *)
(* exit status, which is therefore left out.                               *)
(***************************************************************************)
EXTENDS Inventory

CONSTANTS
    Daemons,        \* processes that serve
    Commands,       \* processes that make one call
    ProcessOf,      \* Clients -> processes: whose task a client is
    RestPort,       \* Daemons -> ports
    GrpcPort        \* Daemons -> ports

Processes == Daemons \cup Commands

ASSUME ProcessesAssumption ==
    /\ Daemons \cap Commands = {}
    /\ ProcessOf \in [Clients -> Processes]
    /\ \A p \in Commands : \E c \in Clients : ProcessOf[c] = p
    /\ "uninstall" \in Operations
    /\ DOMAIN RestPort = Daemons
    /\ DOMAIN GrpcPort = Daemons

VARIABLES
    schema,     \* which tables exist, and whether one is of an old release
    phase,      \* where each process is
    ports,      \* the ports each process listens on
    refused     \* history: the processes whose ALTER TABLE failed by itself

nodevars == <<schema, phase, ports, refused>>
allvars == <<vars, nodevars>>

ClientsOf(p) == {c \in Clients : ProcessOf[c] = p}

Opening == {"resources", "services", "index", "migrate"}

Schemas == [resources : {"none", "old", "current"}, services : BOOLEAN,
            index : BOOLEAN]

Complete == [resources |-> "current", services |-> TRUE, index |-> TRUE]

\* The database is new, of an earlier release, or of this one, with what
\* earlier runs have stored; an earlier run may have died within SCHEMA.
NodeInit ==
    /\ schema \in Schemas
    /\ resources \in Table(ResourceIds, ResourceRow)
    /\ services \in Table(ServiceIds, ServiceRow)
    /\ schema.resources = "none" => ~schema.services
    /\ ~schema.services => ~schema.index /\ resources = EmptyTable
    /\ ReferentialIntegrity
    /\ at = [c \in Clients |-> "idle"]
    /\ req = [c \in Clients |-> NoRequest]
    /\ held = [c \in Clients |-> None]
    /\ answer = [c \in Clients |-> "none"]
    /\ phase = [p \in Processes |-> "exited"]
    /\ ports = [p \in Processes |-> {}]
    /\ refused = {}

-----------------------------------------------------------------------------
(* Start and end *)

GoOn(p, next) ==
    /\ phase' = [phase EXCEPT ![p] = next]
    /\ UNCHANGED ports

Start(p) ==
    /\ phase[p] = "exited"
    /\ phase' = [phase EXCEPT ![p] = "resources"]
    /\ refused' = refused \ {p}
    /\ UNCHANGED <<vars, schema, ports>>

\* The process exits, with success or not: its ports are free, its calls are
\* dropped, and the statements they have executed stay.
End(p) ==
    /\ phase' = [phase EXCEPT ![p] = "exited"]
    /\ ports' = [ports EXCEPT ![p] = {}]
    /\ at' = [c \in Clients |-> IF c \in ClientsOf(p) THEN "idle" ELSE at[c]]
    /\ req' = [c \in Clients |-> IF c \in ClientsOf(p) THEN NoRequest ELSE req[c]]
    /\ held' = [c \in Clients |-> IF c \in ClientsOf(p) THEN None ELSE held[c]]
    /\ answer' = [c \in Clients |-> IF c \in ClientsOf(p) THEN "none" ELSE answer[c]]
    /\ UNCHANGED <<tables, schema, refused>>

\* A signal or a loss of power.
Killed(p) ==
    /\ "dropped_call" \in Disruptions
    /\ phase[p] # "exited"
    /\ End(p)

-----------------------------------------------------------------------------
(* Inventory::open *)

\* CREATE ... IF NOT EXISTS; an error is returned, and main exits with 1.
CreateResources(p) ==
    /\ phase[p] = "resources"
    /\ schema' = IF schema.resources = "none"
                 THEN [schema EXCEPT !.resources = "current"] ELSE schema
    /\ GoOn(p, "services")
    /\ UNCHANGED <<vars, refused>>

CreateServices(p) ==
    /\ phase[p] = "services"
    /\ schema' = [schema EXCEPT !.services = TRUE]
    /\ GoOn(p, "index")
    /\ UNCHANGED <<vars, refused>>

CreateIndex(p) ==
    /\ phase[p] = "index"
    /\ schema' = [schema EXCEPT !.index = TRUE]
    /\ GoOn(p, "migrate")
    /\ UNCHANGED <<vars, refused>>

\* Mutant of SchemaError: the errors of SCHEMA are ignored, like those of the
\* ALTER TABLE.
SchemaErrorIgnored(p) ==
    /\ "statement_error" \in Disruptions
    /\ phase[p] \in {"resources", "services", "index"}
    /\ GoOn(p, "migrate")
    /\ UNCHANGED <<vars, schema, refused>>

\* The database cannot be opened, is locked, or is full.
SchemaError(p) ==
    /\ "statement_error" \in Disruptions
    /\ phase[p] \in {"resources", "services", "index"}
    /\ End(p)

Opened(p) == GoOn(p, IF p \in Daemons THEN "bind" ELSE "command")

\* Mutant of Migrate: the table is dropped and created again.
MigrateByRecreation(p) ==
    /\ phase[p] = "migrate"
    /\ \/ /\ schema.resources = "current"
          /\ UNCHANGED <<schema, resources>>
       \/ /\ schema.resources # "current"
          /\ schema' = [schema EXCEPT !.resources = "current"]
          /\ resources' = EmptyTable
    /\ Opened(p)
    /\ UNCHANGED <<services, at, req, held, answer, refused>>

\* ALTER TABLE ADD COLUMN: an error when the column is there, which is
\* ignored; the rows stay and have no caption.
Migrate(p) ==
    /\ phase[p] = "migrate"
    /\ schema' = [schema EXCEPT !.resources = "current"]
    /\ Opened(p)
    /\ UNCHANGED <<vars, refused>>

\* Every other error of the ALTER TABLE is ignored too.
MigrateRefused(p) ==
    /\ "statement_error" \in Disruptions
    /\ phase[p] = "migrate"
    /\ refused' = refused \cup {p}
    /\ Opened(p)
    /\ UNCHANGED <<vars, schema>>

Open(p) ==
    \/ CreateResources(p) \/ CreateServices(p) \/ CreateIndex(p)
    \/ SchemaError(p)
    \/ Migrate(p) \/ MigrateRefused(p)

-----------------------------------------------------------------------------
(* cmd_serve *)

InUse(port) == \E p \in Processes : port \in ports[p]

Listen(p, port) ==
    /\ ports' = [ports EXCEPT ![p] = @ \cup {port}]
    /\ UNCHANGED <<vars, schema, refused>>

BindRest(p) ==
    /\ phase[p] = "bind"
    /\ \/ /\ ~InUse(RestPort[p])
          /\ Listen(p, RestPort[p])
          /\ phase' = [phase EXCEPT ![p] = "serving"]
       \/ InUse(RestPort[p]) /\ End(p)

\* Mutants of BindGrpc: the listener is opened with SO_REUSEPORT; the server
\* waits for its port.
BindGrpcShared(p) ==
    /\ phase[p] = "serving"
    /\ GrpcPort[p] \notin ports[p]
    /\ Listen(p, GrpcPort[p])
    /\ UNCHANGED phase

BindGrpcWhenFree(p) ==
    /\ phase[p] = "serving"
    /\ ~InUse(GrpcPort[p])
    /\ Listen(p, GrpcPort[p])
    /\ UNCHANGED phase

\* The gRPC server binds when the select! polls it first; REST may have
\* served requests before. If it cannot bind, the daemon exits with 0.
BindGrpc(p) ==
    /\ phase[p] = "serving"
    /\ GrpcPort[p] \notin ports[p] \/ GrpcPort[p] = RestPort[p]
    /\ \/ /\ ~InUse(GrpcPort[p])
          /\ Listen(p, GrpcPort[p])
          /\ UNCHANGED phase
       \/ InUse(GrpcPort[p]) /\ End(p)

\* One of the servers ends, whichever way; the other goes down with it.
ServerEnds(p) ==
    /\ "dropped_call" \in Disruptions
    /\ phase[p] = "serving"
    /\ End(p)

\* A statement on installed_resources names every column.
Statements(c) ==
    \/ /\ \/ schema.resources = "current"
          \/ req[c].op \in {"add_service", "upsert_service",
                            "set_service_status_by_name"}
       /\ Statement(c)
    \/ /\ schema.resources # "current"
       /\ AtStatement(c)
       /\ req[c].op \in {"install", "upsert_resource", "uninstall",
                         "set_resource_status"}
       /\ Finish(c, "database")
       /\ UNCHANGED tables

\* A daemon's task makes any call; which server serves which is in InventoryApi.
Task(c) ==
    /\ phase[ProcessOf[c]] = "serving"
    /\ \/ \E r \in Requests : Begin(c, r)
       \/ DropCall(c)
       \/ Return(c)
    /\ UNCHANGED nodevars

Run(c) == Statements(c) /\ UNCHANGED nodevars

-----------------------------------------------------------------------------
(* The commands *)

Fresh(p) == phase[p] = "command" /\ \A c \in ClientsOf(p) : at[c] = "idle"

\* list, status and services: one SELECT, which may fail, and the exit.
CmdRead(p) == Fresh(p) /\ End(p)

CmdUninstall(p) ==
    /\ Fresh(p)
    /\ \E c \in ClientsOf(p), id \in ResourceIds :
          Begin(c, [op |-> "uninstall", id |-> id])
    /\ UNCHANGED nodevars

CmdUninstalled(p) ==
    /\ phase[p] = "command"
    /\ \E c \in ClientsOf(p) : at[c] = "done"
    /\ End(p)

Command(p) ==
    CmdRead(p) \/ CmdUninstall(p) \/ CmdUninstalled(p)

-----------------------------------------------------------------------------

ProcessStep(p) ==
    \/ Open(p)
    \/ p \in Daemons /\ (BindRest(p) \/ BindGrpc(p))
    \/ p \in Commands /\ Command(p)

NodeNext ==
    \/ \E p \in Processes : Start(p) \/ Killed(p) \/ ProcessStep(p)
    \/ \E p \in Daemons : ServerEnds(p)
    \/ \E c \in Clients : Task(c) \/ Run(c)

\* A process that has started goes on, and SQLite finishes or fails every
\* statement. Nobody need start a process, call it, or end it.
NodeFairness ==
    /\ \A p \in Processes : WF_allvars(ProcessStep(p))
    /\ \A c \in Clients : WF_allvars(Run(c))

NodeSpec == NodeInit /\ [][NodeNext]_allvars /\ NodeFairness

-----------------------------------------------------------------------------
(* Properties *)

\* A process that does not serve has no port and no call of its own in the
\* database, but for the one call of a command; and no two daemons share a
\* port, so that a client always talks to the one it means.
NodeTypeOK ==
    /\ TypeOK
    /\ schema \in Schemas
    /\ phase \in [Processes -> Opening \cup {"bind", "serving", "command", "exited"}]
    /\ refused \in SUBSET Processes
    /\ \A p \in Processes :
          /\ phase[p] # "serving" => ports[p] = {}
          /\ phase[p] \notin {"serving", "command"} =>
                \A c \in ClientsOf(p) : at[c] = "idle"
    /\ \A p, q \in Processes : p # q => ports[p] \cap ports[q] = {}

\* However processes start at the same time, fail and die while they open the
\* database, and whatever an earlier release or run has left of it: a process
\* that has opened it finds every table and column, unless its own ALTER
\* TABLE was refused (repo.rs:67-76).
WorkingSchema ==
    \A p \in Processes :
       phase[p] \in {"bind", "serving", "command"} /\ p \notin refused =>
          schema = Complete

\* A process that starts gets to serve on both of its ports or exits, in spite
\* of the others that hold the database or a port: no daemon is left with one
\* server up and the other waiting (main.rs:128-156, 47-110).
EveryProcessSettles ==
    \A p \in Processes :
       LET Settled == \/ phase[p] = "exited"
                      \/ phase[p] = "serving" /\ GrpcPort[p] \in ports[p]
       IN  ~Settled ~> Settled
==============================================================================
