--------------------------- MODULE ServiceRecordsProofs ---------------------------
(***************************************************************************)
(* Proofs about ServiceRecords: for every set of texts and every set of    *)
(* port numbers that clients send, the row of an instance decodes, no port *)
(* is invented, a client that writes back what it has read changes nothing *)
(* else, and the columns implement the abstract store.                     *)
(***************************************************************************)
EXTENDS ServiceRecords, InventoryCodecProofs

(***************************************************************************)
(* The inductive invariant.                                                *)
(***************************************************************************)

\* The instance that the message m stands for, once its status is s.
WithStatus(m, s) == ProtoToService([m EXCEPT !.status = Json(s)])

\* The instances whose port, if any, a client has sent.
KnownServices ==
    {s \in ServiceInstance : s.port \in RestPorts \cup WirePorts \cup {Nothing}}

ServiceRows == {ServiceToRow(s) : s \in KnownServices}
ServiceMessages == {ServiceToProto(s) : s \in KnownServices}

\* A row is the image of an instance whose port a client has sent, and so are
\* what a call carries and what a client has read; a call that writes back is
\* made of what the client has read last.
RecordsInv ==
    /\ row \in ServiceRows \cup {Nothing}
    /\ call \in Calls \cup {Nothing}
    /\ call # Nothing /\ call.op = "upsert_service" => call.service \in KnownServices
    /\ answer \in {"none", "ok", "not_found"}
    /\ answer # "none" => call # Nothing
    /\ copy \in ServiceMessages \cup {Nothing}
    /\ call # Nothing /\ call.op = "upsert_service" /\ call.from = "writeback" =>
          /\ copy \in ServiceMessages
          /\ \E s \in ServiceStatuses : call.service = WithStatus(copy, s)

\* Instances as rows have the type of the module.
LEMMA RecordForms ==
  ASSUME NEW s \in ServiceInstance
  PROVE  ServiceToRow(s) \in Row
<1>1. \A n \in 0..MaxU16 : n \in Int
  BY DEF MaxU16
<1>. QED
  BY <1>1 DEF ServiceToRow, ServiceInstance, Row, Texts

\* What the calls carry, and that none of them is None.
LEMMA CallForms ==
  /\ \A from \in {"rest", "grpc", "writeback"}, s \in ServiceInstance :
        Upsert(from, s) \in Calls
  /\ \A c \in Calls :
        /\ c # Nothing
        /\ c.op \in {"upsert_service", "set_service_status_by_name"}
        /\ c.op = "upsert_service" => c.service \in ServiceInstance
        /\ c.op = "set_service_status_by_name" => c.status \in ServiceStatuses
BY NothingAssumption DEF Calls, Upsert

\* A row is never None.
LEMMA RowsAreRows == ServiceRows \subseteq Row /\ Nothing \notin ServiceRows
BY RecordForms, NothingAssumption DEF ServiceRows, KnownServices

\* A row that is there decodes as the instance it is the image of.
LEMMA ReadRow ==
  ASSUME row \in ServiceRows
  PROVE  /\ ServiceDecodes(row)
         /\ ServiceFromRow(row) \in KnownServices
         /\ ServiceFromRow(row) \in ServiceInstance
         /\ row = ServiceToRow(ServiceFromRow(row))
<1>1. PICK s \in KnownServices : row = ServiceToRow(s)
  BY DEF ServiceRows
<1>2. s \in ServiceInstance
  BY DEF KnownServices
<1>. QED
  BY <1>1, <1>2, ServiceRowIsLossless

\* What upsert_service does to the row.
LEMMA UpsertedRow ==
  ASSUME RecordsInv, UpsertService
  PROVE  /\ call.service \in ServiceInstance
         /\ row = Nothing => row' = ServiceToRow(call.service)
         /\ row # Nothing =>
               row' = ServiceToRow(UpsertedService(ServiceFromRow(row), call.service))
         /\ row' \in ServiceRows
<1>1. call.service \in ServiceInstance /\ call.service \in KnownServices
  BY CallForms DEF RecordsInv, UpsertService, Serving
<1>2. CASE row = Nothing
  BY <1>1, <1>2 DEF UpsertService, ServiceRows
<1>3. CASE row # Nothing
  <2>1. /\ ServiceFromRow(row) \in ServiceInstance
        /\ row = ServiceToRow(ServiceFromRow(row))
    BY <1>3, ReadRow DEF RecordsInv
  <2>2. row' = ServiceToRow(UpsertedService(ServiceFromRow(row), call.service))
    BY <1>1, <1>3, <2>1, OverwrittenServiceRow DEF UpsertService
  <2>3. UpsertedService(ServiceFromRow(row), call.service) \in ServiceInstance
    BY <1>1, <2>1, OverwrittenServiceRow
  <2>4. UpsertedService(ServiceFromRow(row), call.service).port = call.service.port
    BY <1>1 DEF UpsertedService, ServiceInstance
  <2>5. UpsertedService(ServiceFromRow(row), call.service) \in KnownServices
    BY <1>1, <2>3, <2>4 DEF KnownServices
  <2>. QED
    BY <1>1, <1>3, <2>2, <2>5 DEF ServiceRows
<1>. QED
  BY <1>1, <1>2, <1>3

\* What set_service_status_by_name does to it.
LEMMA StatusRow ==
  ASSUME RecordsInv, UpdateStatus, row # Nothing
  PROVE  /\ call.status \in ServiceStatuses
         /\ row' = ServiceToRow([ServiceFromRow(row) EXCEPT !.status = call.status])
         /\ row' \in ServiceRows
<1> DEFINE old == ServiceFromRow(row)
           new == [old EXCEPT !.status = call.status]
<1>1. call.status \in ServiceStatuses
  BY CallForms DEF RecordsInv, UpdateStatus, Serving
<1>2. old \in ServiceInstance /\ old \in KnownServices /\ row = ServiceToRow(old)
  BY ReadRow DEF RecordsInv
<1>3. row' = ServiceToRow(new)
  BY <1>1, <1>2, ServiceRowWithStatus DEF UpdateStatus
<1>4. new \in ServiceInstance
  BY <1>1, <1>2, ServiceRowWithStatus
<1>5. new.port = old.port
  BY <1>2 DEF ServiceInstance
<1>6. new \in KnownServices
  BY <1>2, <1>4, <1>5 DEF KnownServices
<1>. QED
  BY <1>1, <1>3, <1>6 DEF ServiceRows

\* What a call carries when it is served.
Acceptable(c) ==
    /\ c.op = "upsert_service" => c.service \in KnownServices
    /\ c.op = "upsert_service" /\ c.from = "writeback" =>
          /\ copy \in ServiceMessages
          /\ \E s \in ServiceStatuses : c.service = WithStatus(copy, s)

\* Every request of a client becomes one of the calls, and carries no port
\* but what the client has sent.
LEMMA ServeForms ==
  ASSUME RecordsInv,
         \/ RestUpsertService \/ GrpcUpsertService
         \/ SetServiceStatus \/ WriteBack
  PROVE  \E c \in Calls : Serve(c) /\ Acceptable(c)
<1>1. ASSUME NEW from \in {"rest", "grpc"}, NEW s \in KnownServices,
             Serve(Upsert(from, s))
      PROVE  \E c \in Calls : Serve(c) /\ Acceptable(c)
  <2>1. Upsert(from, s) \in Calls
    BY CallForms DEF KnownServices
  <2>2. Acceptable(Upsert(from, s))
    BY DEF Acceptable, Upsert
  <2>. QED
    BY <1>1, <2>1, <2>2
<1>2. CASE RestUpsertService
  <2>1. RestService \subseteq KnownServices
    BY PortsAssumption DEF RestService, KnownServices, ServiceInstance
  <2>. QED
    BY <1>1, <1>2, <2>1 DEF RestUpsertService
<1>3. CASE GrpcUpsertService
  <2>1. PICK p \in ServiceRecord : Serve(Upsert("grpc", ProtoToService(p)))
    BY <1>3 DEF GrpcUpsertService
  <2> DEFINE A == Texts(VariableLists)
             B == Texts(ServiceStatuses)
  <2>2. p \in [variables : A, s3_paths : S3Paths, runtime : Runtimes,
               status : B, port : WirePorts]
    BY DEF ServiceRecord
  <2> HIDE DEF A, B
  <2>3. /\ ProtoToService(p) \in ServiceInstance
        /\ ProtoToService(p).port \in WirePorts \cup {Nothing}
    BY <2>2, ServiceMessageType
  <2>. QED
    BY <1>1, <2>1, <2>3 DEF KnownServices
<1>4. CASE SetServiceStatus
  <2>1. PICK s \in ServiceStatuses :
           Serve([op |-> "set_service_status_by_name", status |-> s])
    BY <1>4 DEF SetServiceStatus
  <2>2. [op |-> "set_service_status_by_name", status |-> s] \in Calls
    BY DEF Calls
  <2>. QED
    BY <2>1, <2>2 DEF Acceptable
<1>5. CASE WriteBack
  <2>1. PICK s \in ServiceStatuses : Serve(Upsert("writeback", WithStatus(copy, s)))
    BY <1>5 DEF WriteBack, WithStatus
  <2>2. copy \in ServiceMessages
    BY <1>5 DEF WriteBack, RecordsInv
  <2>3. PICK r \in KnownServices : copy = ServiceToProto(r)
    BY <2>2 DEF ServiceMessages
  <2>4. r \in ServiceInstance /\ r.port \in RestPorts \cup WirePorts \cup {Nothing}
    BY DEF KnownServices
  <2>5. WithStatus(copy, s) = [r EXCEPT !.status = s, !.port = PortShown(@)]
    BY <2>3, <2>4, ServiceMessageWithStatus DEF WithStatus
  <2>6. WithStatus(copy, s) \in ServiceInstance
    BY <2>4, <2>5 DEF ServiceInstance, PortShown
  <2>7. WithStatus(copy, s).port \in RestPorts \cup WirePorts \cup {Nothing}
    BY <2>4, <2>5 DEF ServiceInstance, PortShown
  <2>8. Upsert("writeback", WithStatus(copy, s)) \in Calls
    BY <2>6, CallForms
  <2>9. Acceptable(Upsert("writeback", WithStatus(copy, s)))
    BY <2>2, <2>6, <2>7 DEF Acceptable, Upsert, KnownServices
  <2>. QED
    BY <2>1, <2>8, <2>9
<1>. QED
  BY <1>2, <1>3, <1>4, <1>5

\* The invariant is inductive.
LEMMA RecordsStep ==
  ASSUME RecordsInv, [Next]_vars
  PROVE  RecordsInv'
<1>1. CASE \/ RestUpsertService \/ GrpcUpsertService
           \/ SetServiceStatus \/ WriteBack
  <2>1. PICK c \in Calls : Serve(c) /\ Acceptable(c)
    BY <1>1, ServeForms
  <2>. QED
    BY <2>1 DEF RecordsInv, Serve, Acceptable
<1>2. CASE GrpcListServices
  <2>1. ServiceFromRow(row) \in KnownServices
    BY <1>2, ReadRow DEF GrpcListServices, RecordsInv
  <2>2. copy' \in ServiceMessages
    BY <1>2, <2>1 DEF GrpcListServices, ServiceMessages
  <2>. QED
    BY <1>2, <2>2 DEF GrpcListServices, RecordsInv
<1>3. CASE UpsertService
  BY <1>3, UpsertedRow DEF UpsertService, Serving, Respond, RecordsInv
<1>4. CASE UpdateStatus
  BY <1>4, StatusRow DEF UpdateStatus, Serving, Respond, RecordsInv
<1>5. CASE Reply
  BY <1>5 DEF Reply, RecordsInv
<1>6. CASE UNCHANGED vars
  BY <1>6 DEF vars, RecordsInv
<1>. QED
  BY <1>1, <1>2, <1>3, <1>4, <1>5, <1>6 DEF Next

\* Rows, calls and messages are at all times images of instances whose ports
\* clients can send.
THEOREM RecordsInvariance == Spec => []RecordsInv
<1>1. Init => RecordsInv
  BY DEF Init, RecordsInv
<1>. QED
  BY <1>1, RecordsStep, PTL DEF Spec

(***************************************************************************)
(* The invariants of the run.                                              *)
(***************************************************************************)

\* Whatever texts and numbers clients send, the stored row can be read as an
\* instance, and every call carries one.
THEOREM RecordTypes == Spec => []TypeOK
<1>1. RecordsInv => TypeOK
  BY ReadRow DEF RecordsInv, TypeOK
<1>. QED
  BY <1>1, RecordsInvariance, PTL

\* Through columns and messages of 32 bits and a port of 16, whatever numbers
\* clients send: a port that is shown is one that they can send.
THEOREM NoPortIsInvented == Spec => []PortNeverInvented
<1>1. RecordsInv => PortNeverInvented
  BY ReadRow DEF RecordsInv, PortNeverInvented, KnownServices
<1>. QED
  BY <1>1, RecordsInvariance, PTL

(***************************************************************************)
(* Reading and writing back.                                               *)
(***************************************************************************)

\* A client that writes back what is stored, with another status, stores the
\* same instance with that status, and none for a port 0.
THEOREM WriteBackIsSafe == Spec => WriteBackChangesOnlyStatus
<1> DEFINE WroteBack ==
             (/\ row # Nothing
              /\ Serving("upsert_service")
              /\ call.from = "writeback"
              /\ copy = ServiceToProto(ServiceFromRow(row))) =>
                ServiceFromRow(row') =
                   [ServiceFromRow(row) EXCEPT
                       !.status = call.service.status,
                       !.port = IF @ = 0 THEN Nothing ELSE @]
<1>1. ASSUME RecordsInv, [Next]_vars, row' # row, row # Nothing,
             Serving("upsert_service"), call.from = "writeback",
             copy = ServiceToProto(ServiceFromRow(row))
      PROVE  ServiceFromRow(row') =
                [ServiceFromRow(row) EXCEPT
                    !.status = call.service.status,
                    !.port = IF @ = 0 THEN Nothing ELSE @]
  <2> DEFINE old == ServiceFromRow(row)
             new == call.service
  <2>1. old \in ServiceInstance
    BY <1>1, ReadRow DEF RecordsInv
  <2>2. UpsertService
    <3>1. call # Nothing /\ call.op = "upsert_service" /\ answer = "none"
      BY <1>1 DEF Serving
    <3>. QED
      BY <1>1, <3>1 DEF Next, RestUpsertService, GrpcUpsertService,
         SetServiceStatus, GrpcListServices, WriteBack, Serve, UpdateStatus,
         Reply, Serving, vars
  <2>3. PICK s \in ServiceStatuses : new = WithStatus(copy, s)
    BY <1>1 DEF RecordsInv, Serving
  <2>4. new = [old EXCEPT !.status = s, !.port = PortShown(@)]
    BY <1>1, <2>1, <2>3, ServiceMessageWithStatus DEF WithStatus
  <2>5. new \in ServiceInstance
    BY <1>1, <2>2, UpsertedRow
  <2>6. UpsertedService(old, new) = new /\ new.status = s
    BY <2>1, <2>4 DEF UpsertedService, ServiceInstance
  <2>7. row' = ServiceToRow(new)
    BY <1>1, <2>2, <2>6, UpsertedRow
  <2>8. ServiceFromRow(row') = new
    BY <2>5, <2>7, ServiceRowIsLossless
  <2>. QED
    BY <2>4, <2>6, <2>8 DEF PortShown
<1>2. RecordsInv /\ [Next]_vars => [WroteBack]_row
  BY <1>1
<1>3. WriteBackChangesOnlyStatus <=> [][WroteBack]_row
  BY DEF WriteBackChangesOnlyStatus
<1> HIDE DEF WroteBack
<1>. QED
  BY <1>2, <1>3, RecordsInvariance, PTL DEF Spec

(***************************************************************************)
(* The refinement of the store.                                            *)
(***************************************************************************)

\* The table of the store has the row of the instance, if there is one.
LEMMA TableForms ==
  /\ row = Nothing => GroupedTable = [i \in {} |-> Nothing]
  /\ row # Nothing =>
        GroupedTable = [i \in {Id} |-> GroupedRow(ServiceFromRow(row))]
BY DEF GroupedTable

\* The row of the store is found by its name.
LEMMA FoundByName ==
  /\ row # Nothing => Store!Named(GroupedTable, Name) = {Id}
  /\ row = Nothing => Store!Named(GroupedTable, Name) = {}
BY TableForms DEF Store!Named, GroupedRow

\* An instance whose port a client has sent is, grouped, a row of the store.
LEMMA GroupedType ==
  ASSUME NEW s \in KnownServices
  PROVE  GroupedRow(s) \in Store!ServiceRow
BY DEF GroupedRow, KnownServices, ServiceInstance, Store!ServiceRow

\* What is left of two instances, grouped, is what is left of two rows of the
\* store.
LEMMA GroupedUpsert ==
  ASSUME NEW old \in KnownServices, NEW new \in KnownServices
  PROVE  GroupedRow(UpsertedService(old, new)) =
            Store!OverwriteService(GroupedRow(old), GroupedRow(new))
<1> DEFINE both == UpsertedService(old, new)
           g == GroupedRow(old)
           h == GroupedRow(new)
           left == [g EXCEPT !.runtime = h.runtime, !.status = h.status]
<1>1. old \in ServiceInstance /\ new \in ServiceInstance
  BY DEF KnownServices
<1>2. /\ both.variables = old.variables /\ both.s3_paths = old.s3_paths
      /\ both.runtime = new.runtime /\ both.port = new.port
      /\ both.status = new.status
  BY <1>1 DEF UpsertedService, ServiceInstance
<1>3. both \in KnownServices
  BY <1>1, <1>2, OverwrittenServiceRow DEF KnownServices
<1>4. /\ GroupedRow(both) \in Store!ServiceRow
      /\ g \in Store!ServiceRow /\ h \in Store!ServiceRow
  BY <1>3, GroupedType
<1>5. /\ left \in Store!ServiceRow
      /\ left.resource_id = g.resource_id /\ left.instance_name = g.instance_name
      /\ left.settings = g.settings
      /\ left.runtime = h.runtime /\ left.status = h.status
  <2> HIDE DEF g, h
  <2>. QED
    BY <1>4 DEF Store!ServiceRow
<1>6. /\ GroupedRow(both).resource_id = g.resource_id
      /\ GroupedRow(both).instance_name = g.instance_name
      /\ GroupedRow(both).settings = g.settings
      /\ GroupedRow(both).runtime = h.runtime
      /\ GroupedRow(both).status = h.status
  BY <1>2 DEF GroupedRow
<1>7. GroupedRow(both) = left
  <2> HIDE DEF left, both, g, h
  <2>. QED
    BY <1>4, <1>5, <1>6 DEF Store!ServiceRow
<1>. QED
  BY <1>7 DEF Store!OverwriteService

\* A call, grouped, is a request of the store.
LEMMA GroupedRequests ==
  ASSUME NEW c \in Calls, c.op = "upsert_service" => c.service \in KnownServices
  PROVE  /\ GroupedRequest(c) \in Store!Requests
         /\ GroupedRequest(c).op = c.op
         /\ Store!NameSought(GroupedRequest(c)) = Name
         /\ c.op = "upsert_service" =>
               /\ GroupedRequest(c).id = Id
               /\ GroupedRequest(c).row = GroupedRow(c.service)
         /\ c.op = "set_service_status_by_name" =>
               GroupedRequest(c).status = c.status
<1> USE CallForms DEF Store!Requests, Store!NameSought
<1>1. CASE c.op = "upsert_service"
  <2>1. GroupedRequest(c) = [op |-> "upsert_service", id |-> Id,
                             row |-> GroupedRow(c.service)]
    BY <1>1 DEF GroupedRequest
  <2>2. GroupedRequest(c) \in Store!ServiceWrite
    BY <1>1, <2>1, GroupedType DEF Store!ServiceWrite
  <2>3. GroupedRow(c.service).instance_name = Name
    BY DEF GroupedRow
  <2>. QED
    BY <1>1, <2>1, <2>2, <2>3
<1>2. CASE c.op = "set_service_status_by_name"
  <2>1. GroupedRequest(c) = [op |-> "set_service_status_by_name", name |-> Name,
                             status |-> c.status]
    BY <1>2 DEF GroupedRequest
  <2>2. GroupedRequest(c) \in Store!ServiceStatusUpdate
    BY <1>2, <2>1 DEF Store!ServiceStatusUpdate
  <2>. QED
    BY <1>2, <2>1, <2>2
<1>. QED
  BY <1>1, <1>2

\* Serving a call starts it in the store.
LEMMA ServeRefines ==
  ASSUME NEW c \in Calls, Serve(c), Acceptable(c)
  PROVE  Store!Call(Server)
<1>1. /\ call' \in Calls /\ GroupedRequest(call) = [op |-> "none"]
      /\ call'.op = "upsert_service" => call'.service \in KnownServices
  BY DEF Serve, GroupedRequest, Acceptable
<1>2. GroupedRequest(call') \in Store!Requests
  BY <1>1, GroupedRequests
<1>3. GroupedTable' = GroupedTable /\ answer' = answer
  BY DEF Serve, GroupedTable
<1>. QED
  BY <1>1, <1>2, <1>3 DEF Store!Call, Store!NoRequest

\* An upsert of the columns is an upsert of the store.
LEMMA UpsertRefines ==
  ASSUME RecordsInv, UpsertService
  PROVE  Store!InsertService(Server) \/ Store!UpdateService(Server)
<1> DEFINE new == call.service
<1>1. /\ call \in Calls /\ call.op = "upsert_service"
      /\ answer = "none" /\ answer' = "ok" /\ call' = call
      /\ new \in KnownServices
  BY DEF RecordsInv, UpsertService, Serving, Respond
<1>2. /\ GroupedRequest(call).op = "upsert_service"
      /\ GroupedRequest(call).id = Id
      /\ GroupedRequest(call).row = GroupedRow(new)
      /\ Store!NameSought(GroupedRequest(call)) = Name
      /\ GroupedRequest(call') = GroupedRequest(call)
  BY <1>1, GroupedRequests
<1>3. row' # Nothing /\ new \in ServiceInstance
  BY UpsertedRow, RowsAreRows
<1>4. GroupedTable' = [i \in {Id} |-> GroupedRow(ServiceFromRow(row'))]
  BY <1>3 DEF GroupedTable
<1>5. CASE row = Nothing
  <2>1. ServiceFromRow(row') = new
    BY <1>3, <1>5, UpsertedRow, ServiceRowIsLossless
  <2>2. DOMAIN GroupedTable = {}
    BY <1>5 DEF GroupedTable
  <2>3. GroupedTable' = Store!Put(GroupedTable, Id, GroupedRow(new))
    BY <1>4, <2>1, <2>2 DEF Store!Put
  <2>4. GroupedRow(new).resource_id = Resource
    BY DEF GroupedRow
  <2>. QED
    BY <1>1, <1>2, <2>2, <2>3, <2>4 DEF Store!InsertService, Store!Awaiting,
       Store!Respond
<1>6. CASE row # Nothing
  <2> DEFINE old == ServiceFromRow(row)
  <2>1. old \in ServiceInstance
    BY <1>6, ReadRow DEF RecordsInv
  <2>2. ServiceFromRow(row') = UpsertedService(old, new)
    BY <1>3, <1>6, <2>1, UpsertedRow, OverwrittenServiceRow, ServiceRowIsLossless
  <2>3. GroupedTable = [i \in {Id} |-> GroupedRow(old)]
    BY <1>6, TableForms
  <2>4. GroupedRow(UpsertedService(old, new)) =
           Store!OverwriteService(GroupedRow(old), GroupedRow(new))
    BY <1>1, <1>6, ReadRow, GroupedUpsert DEF RecordsInv
  <2>5. GroupedTable' = [GroupedTable EXCEPT ![Id] =
                            Store!OverwriteService(@, GroupedRow(new))]
    BY <1>4, <2>2, <2>3, <2>4
  <2>6. Store!Named(GroupedTable, Name) = {Id}
    BY <1>6, FoundByName
  <2>. QED
    BY <1>1, <1>2, <2>5, <2>6 DEF Store!UpdateService, Store!Awaiting,
       Store!Respond
<1>. QED
  BY <1>5, <1>6

\* A change of the status column is one of the store.
LEMMA StatusRefines ==
  ASSUME RecordsInv, UpdateStatus
  PROVE  Store!UpdateServiceStatus(Server) \/ Store!ServiceMissing(Server)
<1>1. /\ call \in Calls /\ call.op = "set_service_status_by_name"
      /\ answer = "none" /\ call' = call
  BY DEF RecordsInv, UpdateStatus, Serving, Respond
<1>2. /\ GroupedRequest(call).op = "set_service_status_by_name"
      /\ GroupedRequest(call).status = call.status
      /\ Store!NameSought(GroupedRequest(call)) = Name
      /\ GroupedRequest(call') = GroupedRequest(call)
  BY <1>1, GroupedRequests
<1>3. CASE row = Nothing
  <2>1. answer' = "not_found" /\ row' = row
    BY <1>3 DEF UpdateStatus, Respond
  <2>2. GroupedTable' = GroupedTable
    BY <2>1 DEF GroupedTable
  <2>. QED
    BY <1>1, <1>2, <1>3, <2>1, <2>2, FoundByName DEF Store!ServiceMissing,
       Store!Awaiting, Store!Respond
<1>4. CASE row # Nothing
  <2> DEFINE old == ServiceFromRow(row)
             new == [old EXCEPT !.status = call.status]
  <2>1. answer' = "ok"
    BY <1>4 DEF UpdateStatus, Respond
  <2>2. /\ row' = ServiceToRow(new) /\ row' # Nothing
        /\ call.status \in ServiceStatuses
    BY <1>4, StatusRow, RowsAreRows
  <2>3. old \in ServiceInstance
    BY <1>4, ReadRow DEF RecordsInv
  <2>4. ServiceFromRow(row') = new
    BY <2>2, <2>3, ServiceRowWithStatus, ServiceRowIsLossless
  <2>5. GroupedRow(new) = [GroupedRow(old) EXCEPT !.status = call.status]
    BY <2>2, <2>3 DEF GroupedRow, ServiceInstance
  <2>6. GroupedTable = [i \in {Id} |-> GroupedRow(old)]
    BY <1>4, TableForms
  <2>7. GroupedTable' = [i \in {Id} |-> GroupedRow(new)]
    BY <2>2, <2>4 DEF GroupedTable
  <2>8. GroupedTable' = [GroupedTable EXCEPT ![Id].status = call.status]
    BY <2>5, <2>6, <2>7
  <2>. QED
    BY <1>1, <1>2, <1>4, <2>1, <2>8, FoundByName DEF Store!UpdateServiceStatus,
       Store!Awaiting, Store!Respond
<1>. QED
  BY <1>3, <1>4

\* An answer that is taken is forgotten.
LEMMA ReplyRefines ==
  ASSUME Reply
  PROVE  Store!Forget({Server})
<1>1. GroupedTable' = GroupedTable
  BY DEF Reply, GroupedTable
<1>2. GroupedRequest(call') = [op |-> "none"] /\ answer' = "none"
  BY DEF Reply, GroupedRequest
<1>. QED
  BY <1>1, <1>2 DEF Store!Forget, Store!NoRequest

\* Every step on the columns is a step of the store, or changes nothing there.
LEMMA ColumnsStep ==
  ASSUME RecordsInv, [Next]_vars
  PROVE  Store!Next \/ UNCHANGED Store!vars
<1>1. CASE \/ RestUpsertService \/ GrpcUpsertService
           \/ SetServiceStatus \/ WriteBack
  BY <1>1, ServeForms, ServeRefines DEF Store!Next
<1>2. CASE GrpcListServices \/ UNCHANGED vars
  <2>1. row' = row /\ call' = call /\ answer' = answer
    BY <1>2 DEF GrpcListServices, vars
  <2>. QED
    BY <2>1 DEF Store!vars, GroupedTable, GroupedRequest
<1>3. CASE UpsertService
  BY <1>3, UpsertRefines DEF Store!Next
<1>4. CASE UpdateStatus
  BY <1>4, StatusRefines DEF Store!Next
<1>5. CASE Reply
  BY <1>5, ReplyRefines DEF Store!Next
<1>. QED
  BY <1>1, <1>2, <1>3, <1>4, <1>5 DEF Next

\* The store starts with the resource and without the instance.
LEMMA ColumnsInit ==
  ASSUME Init
  PROVE  Store!Init
<1>1. GroupedTable = [i \in {} |-> Nothing] /\ GroupedRequest(call) = [op |-> "none"]
  BY TableForms DEF Init, GroupedRequest
<1>2. \A K, R : [i \in {} |-> Nothing] \in Store!Table(K, R)
  BY DEF Store!Table
<1>3. [i \in {Resource} |-> InstalledRow] \in Store!Table({Resource}, Store!ResourceRow)
  <2>1. InstalledRow \in Store!ResourceRow
    BY DEF Store!ResourceRow, InstalledRow
  <2>2. [i \in {Resource} |-> InstalledRow] \in [{Resource} -> Store!ResourceRow]
    BY <2>1
  <2>. QED
    BY <2>2 DEF Store!Table
<1>. QED
  BY <1>1, <1>2, <1>3 DEF Init, Store!Init, Store!NoRequest

\* The columns implement the store, for every set of texts, lists and ports:
\* an instance keeps its variables and its S3 paths from its registration on,
\* whatever is upserted.
THEOREM ServiceColumnsImplementStore == Spec => ColumnsImplementStore
<1>1. RecordsInv /\ [Next]_vars => [Store!Next]_(Store!vars)
  BY ColumnsStep
<1>2. Init => Store!Init
  BY ColumnsInit
<1>. QED
  BY <1>1, <1>2, RecordsInvariance, PTL DEF Spec, Store!Spec, ColumnsImplementStore
==============================================================================
