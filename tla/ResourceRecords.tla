---------------------------- MODULE ResourceRecords ----------------------------
(***************************************************************************)
(* One resource of the inventory, column by column, as REST clients, gRPC  *)
(* clients and the bus handler write it and as gRPC clients read it,       *)
(* change it and write it back.                                            *)
(*                                                                         *)
(* Calls are served one after the other, each in one step: Inventory shows *)
(* that concurrent calls amount to that. What a remote client has read may *)
(* be as old as it likes when it writes it back.                           *)
(***************************************************************************)
EXTENDS InventoryCodec

CONSTANTS
    Id,             \* the resource
    Server,         \* the task that serves the calls
    Words           \* texts of enumerations that are no JSON

VARIABLES
    row,        \* the row of the resource, or Nothing
    call,       \* the call being served, or Nothing
    answer,     \* its result
    copy        \* the message a gRPC client has read, or Nothing

vars == <<row, call, answer, copy>>

Texts(Values) == {Json(v) : v \in Values} \cup {Bare(w) : w \in Words}

\* What clients send: a field left out is an empty string.
ResourceRecord ==
    [resource_type : {Json(t) : t \in ResourceTypes} \cup {Bare("")},
     version : Versions, channel : Texts(Channels), installed_at : Times,
     status : Texts(ResourceStatuses),
     validation : {Json(v) : v \in Validations} \cup {Bare("")},
     caption : Captions]

\* The table accepts any text in the columns of the enumerations.
Row ==
    [resource_type : Texts(ResourceTypes), version : Versions,
     channel : Texts(Channels), installed_at : Times,
     status : Texts(ResourceStatuses), validation : Texts(Validations),
     caption : Captions \cup {Nothing}]

Upsert(from, resource) ==
    [op |-> "upsert_resource", from |-> from, resource |-> resource]

Calls ==
    [op : {"upsert_resource"}, from : {"rest", "grpc", "bus", "writeback"},
     resource : InstalledResource]
    \cup [op : {"set_resource_status"}, status : ResourceStatuses]
    \cup [op : {"uninstall"}]

\* None is neither a row nor a call.
ASSUME NothingAssumption == Nothing \notin Row \cup Calls

Init ==
    /\ row = Nothing
    /\ call = Nothing
    /\ answer = "none"
    /\ copy = Nothing

Serve(c) ==
    /\ call = Nothing
    /\ call' = c
    /\ UNCHANGED <<row, answer, copy>>

-----------------------------------------------------------------------------
(* Requests and events *)

RestUpsertResource == \E r \in InstalledResource : Serve(Upsert("rest", r))

GrpcUpsertResource(p) == Serve(Upsert("grpc", ProtoToResource(p)))

PackageEvent ==
    \E v \in Versions, t \in ResourceTypes \cup {Nothing}, now \in Times :
       Serve(Upsert("bus", EventResource(v, t, now)))

Uninstall == Serve([op |-> "uninstall"])

SetResourceStatus ==
    \E s \in ResourceStatuses :
       Serve([op |-> "set_resource_status", status |-> s])

\* A gRPC client reads the record, and later writes it back with another
\* status. A row that does not decode is an error, and there is no record.
GrpcGetResource ==
    /\ call = Nothing
    /\ row # Nothing
    /\ ResourceDecodes(row)
    /\ copy' = ResourceToProto(ResourceFromRow(row))
    /\ UNCHANGED <<row, call, answer>>

WriteBack ==
    /\ copy # Nothing
    /\ \E s \in ResourceStatuses :
          Serve(Upsert("writeback",
                       ProtoToResource([copy EXCEPT !.status = Json(s)])))

-----------------------------------------------------------------------------
(* The calls *)

Serving(op) == call # Nothing /\ call.op = op /\ answer = "none"

Respond(result) == answer' = result /\ UNCHANGED <<call, copy>>

UpsertResource ==
    /\ Serving("upsert_resource")
    /\ row' = IF row = Nothing THEN ResourceToRow(call.resource)
                               ELSE OverwriteRow(row, call.resource)
    /\ Respond("ok")

UninstallResource ==
    /\ Serving("uninstall")
    /\ row' = Nothing
    /\ Respond(IF row = Nothing THEN "not_found" ELSE "ok")

UpdateStatus ==
    /\ Serving("set_resource_status")
    /\ \/ /\ row # Nothing
          /\ row' = [row EXCEPT !.status = Json(call.status)]
          /\ Respond("ok")
       \/ row = Nothing /\ Respond("not_found") /\ UNCHANGED row

Reply ==
    /\ answer # "none"
    /\ call' = Nothing
    /\ answer' = "none"
    /\ UNCHANGED <<row, copy>>

Request ==
    \/ RestUpsertResource
    \/ \E p \in ResourceRecord : GrpcUpsertResource(p)
    \/ PackageEvent \/ Uninstall \/ SetResourceStatus
    \/ GrpcGetResource \/ WriteBack

Next == Request \/ UpsertResource \/ UninstallResource \/ UpdateStatus \/ Reply

Spec == Init /\ [][Next]_vars

-----------------------------------------------------------------------------
(* Properties *)

TypeOK ==
    /\ row \in Row \cup {Nothing}
    /\ call \in Calls \cup {Nothing}
    /\ answer \in {"none", "ok", "not_found"}
    /\ copy \in ResourceRecord \cup {Nothing}

\* A row that does not decode would fail every list, and so the summary, of
\* all clients (repo.rs:135-142 collects into one Result). Whatever texts
\* clients send, each stored column decodes.
EveryRowDecodes == row # Nothing => ResourceDecodes(row)

\* A gRPC client that reads a resource, changes its status and writes it back
\* changes nothing else, provided nobody has written meanwhile: no field is
\* lost or defaulted on the way through the message (grpc.rs:45-77), but an
\* empty caption, which becomes none.
WriteBackChangesOnlyStatus ==
    [][(/\ row # Nothing
        /\ Serving("upsert_resource")
        /\ call.from = "writeback"
        /\ copy = ResourceToProto(ResourceFromRow(row))) =>
          LET old == ResourceFromRow(row) IN
          ResourceFromRow(row') =
             [old EXCEPT !.status = call.resource.status,
                         !.caption = IF @ = "" THEN Nothing ELSE @]]_row

-----------------------------------------------------------------------------
(* The columns implement the grouped rows of the abstract store: origin is *)
(* what only INSERT writes, labels what the bus handler resets.            *)

GroupedRow(r) ==
    [origin |-> <<r.resource_type, r.installed_at>>, version |-> r.version,
     labels |-> <<r.channel, r.validation, r.caption>>, status |-> r.status]

GroupedTable ==
    [i \in IF row = Nothing THEN {} ELSE {Id} |-> GroupedRow(ResourceFromRow(row))]

GroupedRequest(c) ==
    CASE c = Nothing -> [op |-> "none"]
      [] c # Nothing /\ c.op = "upsert_resource" ->
            [op |-> c.op, id |-> Id, row |-> GroupedRow(c.resource)]
      [] c # Nothing /\ c.op = "set_resource_status" ->
            [op |-> c.op, id |-> Id, status |-> c.status]
      [] OTHER -> [op |-> c.op, id |-> Id]

Store == INSTANCE InventoryStore WITH
    ResourceIds <- {Id},
    Origins     <- ResourceTypes \X Times,
    Labels      <- Channels \X Validations \X (Captions \cup {Nothing}),
    ServiceIds  <- {}, InstanceNames <- {}, Settings <- {},
    Operations  <- {"upsert_resource", "uninstall", "set_resource_status"},
    None        <- Nothing,
    Clients     <- {Server},
    resources   <- GroupedTable,
    services    <- [i \in {} |-> Nothing],
    req         <- [c \in {Server} |-> GroupedRequest(call)],
    answer      <- [c \in {Server} |-> answer]

\* The column-level upsert is the upsert of the store: from installation to
\* removal a resource keeps its type and its time of installation, whatever
\* clients write back and whatever events say (repo.rs:179-187).
ColumnsImplementStore == Store!Spec

-----------------------------------------------------------------------------
(* What the repository says of an upsert, and the code does not keep *)

\* repo.rs:158-159: an update on conflict writes version, channel, status,
\* the paths and validation; the caption, which users assign and events do
\* not carry, is not listed.
EventsKeepCaption ==
    [][(/\ row # Nothing
        /\ Serving("upsert_resource")
        /\ call.from = "bus") =>
          row'.caption = row.caption]_row
==============================================================================
