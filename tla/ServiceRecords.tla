---------------------------- MODULE ServiceRecords ----------------------------
(***************************************************************************)
(* One named service instance of the inventory, column by column, as REST  *)
(* and gRPC clients register, update and read it. Like ResourceRecords,    *)
(* with calls served one after the other; its resource is installed.       *)
(***************************************************************************)
EXTENDS InventoryCodec, Integers

CONSTANTS
    Id, Name, Resource,     \* primary key, name and resource of the instance
    Server,                 \* the task that serves the calls
    Words,                  \* texts that are no JSON
    RestPorts,              \* ports in REST bodies
    WirePorts               \* ports in gRPC messages, which are 32 bits wide

ASSUME PortsAssumption ==
    RestPorts \subseteq 0..MaxU16 /\ WirePorts \subseteq Nat

VARIABLES
    row,        \* the row of the instance, or Nothing
    call,       \* the call being served, or Nothing
    answer,     \* its result
    copy        \* the message a gRPC client has read, or Nothing

vars == <<row, call, answer, copy>>

Texts(Values) == {Json(v) : v \in Values} \cup {Bare(w) : w \in Words}

\* The bodies and messages that clients send.
RestService ==
    [variables : VariableLists, s3_paths : S3Paths, runtime : Runtimes,
     status : ServiceStatuses, port : RestPorts \cup {Nothing}]

ServiceRecord ==
    [variables : Texts(VariableLists), s3_paths : S3Paths, runtime : Runtimes,
     status : Texts(ServiceStatuses), port : WirePorts]

\* The table accepts any text in a column, and any number as a port.
Row ==
    [variables : Texts(VariableLists), s3_paths : S3Paths, runtime : Runtimes,
     status : Texts(ServiceStatuses), port : Int \cup {Nothing}]

Upsert(from, service) ==
    [op |-> "upsert_service", from |-> from, service |-> service]

Calls ==
    [op : {"upsert_service"}, from : {"rest", "grpc", "writeback"},
     service : ServiceInstance]
    \cup [op : {"set_service_status_by_name"}, status : ServiceStatuses]

\* None is neither a row nor a call.
ASSUME NothingAssumption == Nothing \notin Row \cup Calls

Init ==
    /\ row = Nothing
    /\ call = Nothing
    /\ answer = "none"
    /\ copy = Nothing

Serve(c) ==
    /\ call = Nothing
    /\ call' = c
    /\ UNCHANGED <<row, answer, copy>>

-----------------------------------------------------------------------------
(* Requests *)

RestUpsertService == \E s \in RestService : Serve(Upsert("rest", s))

GrpcUpsertService ==
    \E p \in ServiceRecord : Serve(Upsert("grpc", ProtoToService(p)))

SetServiceStatus ==
    \E s \in ServiceStatuses :
       Serve([op |-> "set_service_status_by_name", status |-> s])

\* A gRPC client lists the instance, and writes it back with another status.
GrpcListServices ==
    /\ call = Nothing
    /\ row # Nothing
    /\ ServiceDecodes(row)
    /\ copy' = ServiceToProto(ServiceFromRow(row))
    /\ UNCHANGED <<row, call, answer>>

WriteBack ==
    /\ copy # Nothing
    /\ \E s \in ServiceStatuses :
          Serve(Upsert("writeback",
                       ProtoToService([copy EXCEPT !.status = Json(s)])))

-----------------------------------------------------------------------------
(* The calls *)

Serving(op) == call # Nothing /\ call.op = op /\ answer = "none"

Respond(result) == answer' = result /\ UNCHANGED <<call, copy>>

UpsertService ==
    /\ Serving("upsert_service")
    /\ row' = IF row = Nothing THEN ServiceToRow(call.service)
                               ELSE OverwriteServiceRow(row, call.service)
    /\ Respond("ok")

UpdateStatus ==
    /\ Serving("set_service_status_by_name")
    /\ \/ /\ row # Nothing
          /\ row' = [row EXCEPT !.status = Json(call.status)]
          /\ Respond("ok")
       \/ row = Nothing /\ Respond("not_found") /\ UNCHANGED row

Reply ==
    /\ answer # "none"
    /\ call' = Nothing
    /\ answer' = "none"
    /\ UNCHANGED <<row, copy>>

Next ==
    \/ RestUpsertService \/ GrpcUpsertService \/ SetServiceStatus
    \/ GrpcListServices \/ WriteBack
    \/ UpsertService \/ UpdateStatus \/ Reply

Spec == Init /\ [][Next]_vars

-----------------------------------------------------------------------------
(* Properties *)

\* Every column of the row decodes, and a call carries what the domain struct
\* can hold, whatever texts and numbers clients send.
TypeOK ==
    /\ row # Nothing => ServiceDecodes(row) /\ ServiceFromRow(row) \in ServiceInstance
    /\ call \in Calls \cup {Nothing}
    /\ answer \in {"none", "ok", "not_found"}

\* The port column is 32 bits wide and so is the field of the message, the
\* port is 16 bits wide. Whatever way a number takes through them, it does not
\* come out as another one: a port that is shown is one that clients can send,
\* never a number of theirs wrapped or cut off (grpc.rs:121-125, repo.rs:213,
\* models.rs:218).
PortNeverInvented ==
    row # Nothing =>
       ServiceFromRow(row).port \in RestPorts \cup WirePorts \cup {Nothing}

\* A gRPC client that lists an instance, changes its status and writes it
\* back changes nothing else, provided nobody has written meanwhile, but a
\* port 0, which becomes none.
WriteBackChangesOnlyStatus ==
    [][(/\ row # Nothing
        /\ Serving("upsert_service")
        /\ call.from = "writeback"
        /\ copy = ServiceToProto(ServiceFromRow(row))) =>
          ServiceFromRow(row') =
             [ServiceFromRow(row) EXCEPT !.status = call.service.status,
                                         !.port = IF @ = 0 THEN Nothing ELSE @]]_row

-----------------------------------------------------------------------------
(* The columns implement the grouped rows of the abstract store: settings  *)
(* is what only INSERT writes, runtime what the UPDATE writes.             *)

GroupedRow(s) ==
    [resource_id |-> Resource, instance_name |-> Name,
     settings |-> <<s.variables, s.s3_paths>>, runtime |-> <<s.runtime, s.port>>,
     status |-> s.status]

GroupedTable ==
    [i \in IF row = Nothing THEN {} ELSE {Id} |-> GroupedRow(ServiceFromRow(row))]

GroupedRequest(c) ==
    CASE c = Nothing -> [op |-> "none"]
      [] c # Nothing /\ c.op = "upsert_service" ->
            [op |-> c.op, id |-> Id, row |-> GroupedRow(c.service)]
      [] OTHER -> [op |-> c.op, name |-> Name, status |-> c.status]

InstalledRow ==
    [origin |-> "o", version |-> "v", labels |-> "l", status |-> "active"]

Store == INSTANCE InventoryStore WITH
    ResourceIds <- {Resource}, Origins <- {"o"}, Versions <- {"v"},
    Labels      <- {"l"}, ResourceStatuses <- {"active"},
    ServiceIds  <- {Id}, InstanceNames <- {Name},
    Settings    <- VariableLists \X S3Paths,
    Runtimes    <- Runtimes \X (RestPorts \cup WirePorts \cup {Nothing}),
    Operations  <- {"upsert_service", "set_service_status_by_name"},
    None        <- Nothing,
    Clients     <- {Server},
    resources   <- [i \in {Resource} |-> InstalledRow],
    services    <- GroupedTable,
    req         <- [c \in {Server} |-> GroupedRequest(call)],
    answer      <- [c \in {Server} |-> answer]

\* The column-level upsert is the upsert of the store: an instance keeps its
\* variables and S3 paths from its registration on, whatever is upserted.
ColumnsImplementStore == Store!Spec
==============================================================================
