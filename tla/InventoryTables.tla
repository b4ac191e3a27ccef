--------------------------- MODULE InventoryTables ---------------------------
(***************************************************************************)
(* The data of the inventory database: the rows of installed_resources and *)
(* service_instances, the requests the store accepts, the answers it gives *)
(* and the effect of the SQL statements on a table.                        *)
(*                                                                         *)
(* Columns are grouped by who writes them, which is all the properties can *)
(* tell apart:                                                             *)
(*   resource  origin   resource_type, installed_at: written by INSERT only*)
(*             version  version, config_path, data_path: carried by events *)
(*             labels   channel, validation, caption: fixed by the bus     *)
(*             status   status                                             *)
(*   service   settings variables, s3_paths: written by INSERT only        *)
(*             runtime  roles_provided, roles_required, network, port      *)
(*             status   status                                             *)
(***************************************************************************)
EXTENDS Naturals, FiniteSets

CONSTANTS
    ResourceIds,        \* primary keys of installed_resources
    ServiceIds,         \* primary keys of service_instances
    InstanceNames,      \* values of service_instances.instance_name
    Origins, Versions, Labels, ResourceStatuses,
    Settings, Runtimes, ServiceStatuses,
    Operations,         \* the operations that callers use
    None                \* no row is held

AllOperations ==
    {"install", "upsert_resource", "uninstall", "set_resource_status",
     "add_service", "upsert_service", "set_service_status_by_name"}

ASSUME OperationsAssumption == Operations \subseteq AllOperations
ASSUME NoneAssumption == None \notin ServiceIds

-----------------------------------------------------------------------------

ResourceRow ==
    [origin : Origins, version : Versions, labels : Labels,
     status : ResourceStatuses]

ServiceRow ==
    [resource_id : ResourceIds, instance_name : InstanceNames,
     settings : Settings, runtime : Runtimes, status : ServiceStatuses]

\* A table is a function from the primary keys present to rows.
Table(Keys, Row) == UNION {[K -> Row] : K \in SUBSET Keys}

EmptyTable == [k \in {} |-> None]

Put(table, key, row) ==
    [k \in DOMAIN table \cup {key} |-> IF k = key THEN row ELSE table[k]]

Drop(table, key) == [k \in DOMAIN table \ {key} |-> table[k]]

\* UPDATE of upsert_resource: every column but those of the origin.
OverwriteResource(old, new) == [new EXCEPT !.origin = old.origin]

\* Mutant of OverwriteService: the UPDATE writes every column.
OverwriteWholeService(old, new) == new

\* UPDATE of upsert_service: the runtime columns and the status.
OverwriteService(old, new) ==
    [old EXCEPT !.runtime = new.runtime, !.status = new.status]

Named(services, name) ==
    {s \in DOMAIN services : services[s].instance_name = name}

References(services, id) ==
    {s \in DOMAIN services : services[s].resource_id = id}

-----------------------------------------------------------------------------

\* The methods of the store and their arguments.
ResourceWrite == [op : {"install", "upsert_resource"}, id : ResourceIds,
                  row : ResourceRow]
Removal       == [op : {"uninstall"}, id : ResourceIds]
ResourceStatusUpdate == [op : {"set_resource_status"}, id : ResourceIds,
                         status : ResourceStatuses]
ServiceWrite  == [op : {"add_service", "upsert_service"}, id : ServiceIds,
                  row : ServiceRow]
ServiceStatusUpdate == [op : {"set_service_status_by_name"},
                        name : InstanceNames, status : ServiceStatuses]

Requests ==
    {r \in ResourceWrite \cup Removal \cup ResourceStatusUpdate
             \cup ServiceWrite \cup ServiceStatusUpdate : r.op \in Operations}

NoRequest == [op |-> "none"]

\* The instance name a service request looks up.
NameSought(r) == IF r.op = "upsert_service" THEN r.row.instance_name ELSE r.name

\* Ok(()) and the variants of InventoryError that a write can return.
Answers == {"ok", "not_found", "already_installed", "database"}
==============================================================================
