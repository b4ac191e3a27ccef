-------------------------- MODULE ResourceRecordsProofs --------------------------
(***************************************************************************)
(* Proofs about ResourceRecords: for every set of enumeration values and   *)
(* of texts, and whatever clients send, the row of a resource decodes, a   *)
(* client that writes back what it has read changes nothing else, and the  *)
(* columns implement the abstract store.                                   *)
(***************************************************************************)
EXTENDS ResourceRecords, InventoryCodecProofs

(***************************************************************************)
(* The inductive invariant.                                                *)
(***************************************************************************)

\* The record that the message m stands for, once its status is s.
WithStatus(m, s) == ProtoToResource([m EXCEPT !.status = Json(s)])

\* A row is the image of a record, and so is what a client has read; a call
\* that writes back is made of what the client has read last.
RecordsInv ==
    /\ row \in ResourceRows \cup {Nothing}
    /\ call \in Calls \cup {Nothing}
    /\ answer \in {"none", "ok", "not_found"}
    /\ answer # "none" => call # Nothing
    /\ copy \in ResourceMessages \cup {Nothing}
    /\ call # Nothing /\ call.op = "upsert_resource" /\ call.from = "writeback" =>
          /\ copy \in ResourceMessages
          /\ \E s \in ResourceStatuses : call.resource = WithStatus(copy, s)

\* Records as rows and as messages have the types of the module.
LEMMA RecordForms ==
  ASSUME NEW r \in InstalledResource
  PROVE  /\ ResourceToRow(r) \in Row
         /\ ResourceToProto(r) \in ResourceRecord
BY DefaultsAssumption DEF ResourceToRow, ResourceToProto, InstalledResource,
   Row, ResourceRecord, Texts

\* What the calls carry, and that none of them is None.
LEMMA CallForms ==
  /\ \A from \in {"rest", "grpc", "bus", "writeback"}, r \in InstalledResource :
        Upsert(from, r) \in Calls
  /\ \A c \in Calls :
        /\ c # Nothing
        /\ c.op \in {"upsert_resource", "set_resource_status", "uninstall"}
        /\ c.op = "upsert_resource" => c.resource \in InstalledResource
        /\ c.op = "set_resource_status" => c.status \in ResourceStatuses
BY NothingAssumption DEF Calls, Upsert

\* A row is never None.
LEMMA RowsAreRows == ResourceRows \subseteq Row /\ Nothing \notin ResourceRows
BY RecordForms, NothingAssumption DEF ResourceRows

\* A row that is there decodes as the record it is the image of.
LEMMA ReadRow ==
  ASSUME row \in ResourceRows
  PROVE  /\ ResourceDecodes(row)
         /\ ResourceFromRow(row) \in InstalledResource
         /\ row = ResourceToRow(ResourceFromRow(row))
<1>1. PICK r \in InstalledResource : row = ResourceToRow(r)
  BY DEF ResourceRows
<1>. QED
  BY <1>1, ResourceRowIsLossless

\* What upsert_resource does to the row.
LEMMA UpsertedRow ==
  ASSUME RecordsInv, UpsertResource
  PROVE  /\ call.resource \in InstalledResource
         /\ row = Nothing => row' = ResourceToRow(call.resource)
         /\ row # Nothing =>
               row' = ResourceToRow(Upserted(ResourceFromRow(row), call.resource))
         /\ row' \in ResourceRows
<1>1. call.resource \in InstalledResource
  BY CallForms DEF RecordsInv, UpsertResource, Serving
<1>2. CASE row = Nothing
  BY <1>1, <1>2 DEF UpsertResource, ResourceRows
<1>3. CASE row # Nothing
  <2>1. /\ ResourceFromRow(row) \in InstalledResource
        /\ row = ResourceToRow(ResourceFromRow(row))
    BY <1>3, ReadRow DEF RecordsInv
  <2>2. row' = ResourceToRow(Upserted(ResourceFromRow(row), call.resource))
    BY <1>1, <1>3, <2>1, OverwrittenRow DEF UpsertResource
  <2>. QED
    BY <1>1, <1>3, <2>1, <2>2, OverwrittenRow DEF ResourceRows
<1>. QED
  BY <1>1, <1>2, <1>3

\* What set_resource_status does to it.
LEMMA StatusRow ==
  ASSUME RecordsInv, UpdateStatus, row # Nothing
  PROVE  /\ call.status \in ResourceStatuses
         /\ row' = ResourceToRow([ResourceFromRow(row) EXCEPT !.status = call.status])
         /\ row' \in ResourceRows
<1>1. call.status \in ResourceStatuses
  BY CallForms DEF RecordsInv, UpdateStatus, Serving
<1>2. /\ ResourceFromRow(row) \in InstalledResource
      /\ row = ResourceToRow(ResourceFromRow(row))
  BY ReadRow DEF RecordsInv
<1>3. row' = ResourceToRow([ResourceFromRow(row) EXCEPT !.status = call.status])
  BY <1>1, <1>2, RowWithStatus DEF UpdateStatus
<1>. QED
  BY <1>1, <1>2, <1>3, RowWithStatus DEF ResourceRows

\* Every request of a client, and every event, becomes one of the calls.
LEMMA ServeForms ==
  ASSUME RecordsInv, Request
  PROVE  \/ GrpcGetResource
         \/ \E c \in Calls :
               /\ Serve(c)
               /\ c.op = "upsert_resource" /\ c.from = "writeback" =>
                     /\ copy \in ResourceMessages
                     /\ \E s \in ResourceStatuses : c.resource = WithStatus(copy, s)
<1> DEFINE Served == \E c \in Calls :
               /\ Serve(c)
               /\ c.op = "upsert_resource" /\ c.from = "writeback" =>
                     /\ copy \in ResourceMessages
                     /\ \E s \in ResourceStatuses : c.resource = WithStatus(copy, s)
<1>1. ASSUME NEW from \in {"rest", "grpc", "bus"}, NEW r \in InstalledResource,
             Serve(Upsert(from, r))
      PROVE  Served
  <2>1. Upsert(from, r) \in Calls /\ Upsert(from, r).from # "writeback"
    BY CallForms DEF Upsert
  <2>. QED
    BY <1>1, <2>1
<1>2. CASE RestUpsertResource
  BY <1>1, <1>2 DEF RestUpsertResource
<1>3. ASSUME NEW p \in ResourceRecord, GrpcUpsertResource(p) PROVE Served
  <2>1. ProtoToResource(p) \in InstalledResource
    <3> DEFINE A == {Json(t) : t \in ResourceTypes} \cup {Bare("")}
               B == Texts(Channels)
               C == Texts(ResourceStatuses)
               D == {Json(v) : v \in Validations} \cup {Bare("")}
    <3>1. p \in [resource_type : A, version : Versions, channel : B,
                 installed_at : Times, status : C, validation : D,
                 caption : Captions]
      BY DEF ResourceRecord
    <3> HIDE DEF A, B, C, D
    <3>. QED
      BY <3>1, MessageType
  <2>. QED
    BY <1>1, <1>3, <2>1 DEF GrpcUpsertResource
<1>4. CASE PackageEvent
  BY <1>1, <1>4, EventType DEF PackageEvent
<1>5. CASE Uninstall
  <2>1. [op |-> "uninstall"] \in Calls
    BY DEF Calls
  <2>. QED
    BY <1>5, <2>1 DEF Uninstall
<1>6. CASE SetResourceStatus
  <2>1. PICK s \in ResourceStatuses :
           Serve([op |-> "set_resource_status", status |-> s])
    BY <1>6 DEF SetResourceStatus
  <2>2. [op |-> "set_resource_status", status |-> s] \in Calls
    BY DEF Calls
  <2>. QED
    BY <2>1, <2>2
<1>7. CASE WriteBack
  <2>1. PICK s \in ResourceStatuses : Serve(Upsert("writeback", WithStatus(copy, s)))
    BY <1>7 DEF WriteBack, WithStatus
  <2>2. copy \in ResourceMessages
    BY <1>7 DEF WriteBack, RecordsInv
  <2>3. PICK r \in InstalledResource : copy = ResourceToProto(r)
    BY <2>2 DEF ResourceMessages
  <2>4. WithStatus(copy, s) = [r EXCEPT !.status = s, !.caption = CaptionShown(@)]
    BY <2>3, MessageWithStatus DEF WithStatus
  <2>5. WithStatus(copy, s) \in InstalledResource
    BY <2>4 DEF InstalledResource, CaptionShown
  <2>6. Upsert("writeback", WithStatus(copy, s)) \in Calls
    BY <2>5, CallForms
  <2>. QED
    BY <2>1, <2>2, <2>6 DEF Upsert
<1>. QED
  BY <1>2, <1>3, <1>4, <1>5, <1>6, <1>7 DEF Request

\* The invariant is inductive.
LEMMA RecordsStep ==
  ASSUME RecordsInv, [Next]_vars
  PROVE  RecordsInv'
<1>1. CASE Request /\ ~GrpcGetResource
  <2>1. PICK c \in Calls :
           /\ Serve(c)
           /\ c.op = "upsert_resource" /\ c.from = "writeback" =>
                 /\ copy \in ResourceMessages
                 /\ \E s \in ResourceStatuses : c.resource = WithStatus(copy, s)
    BY <1>1, ServeForms
  <2>. QED
    BY <2>1 DEF RecordsInv, Serve
<1>2. CASE GrpcGetResource
  <2>1. ResourceFromRow(row) \in InstalledResource
    BY <1>2, ReadRow DEF GrpcGetResource, RecordsInv
  <2>2. copy' \in ResourceMessages
    BY <1>2, <2>1 DEF GrpcGetResource, ResourceMessages
  <2>. QED
    BY <1>2, <2>2 DEF GrpcGetResource, RecordsInv
<1>3. CASE UpsertResource
  BY <1>3, UpsertedRow DEF UpsertResource, Serving, Respond, RecordsInv
<1>4. CASE UninstallResource
  BY <1>4 DEF UninstallResource, Serving, Respond, RecordsInv
<1>5. CASE UpdateStatus
  BY <1>5, StatusRow DEF UpdateStatus, Serving, Respond, RecordsInv
<1>6. CASE Reply
  BY <1>6 DEF Reply, RecordsInv
<1>7. CASE UNCHANGED vars
  BY <1>7 DEF vars, RecordsInv
<1>. QED
  BY <1>1, <1>2, <1>3, <1>4, <1>5, <1>6, <1>7 DEF Next

\* Nothing is stored and nobody has read anything.
LEMMA RecordsInit ==
  ASSUME Init
  PROVE  RecordsInv
BY DEF Init, RecordsInv

\* Rows, calls and messages are at all times images of records.
THEOREM RecordsInvariance == Spec => []RecordsInv
BY RecordsInit, RecordsStep, PTL DEF Spec

(***************************************************************************)
(* The invariants of the run.                                              *)
(***************************************************************************)

\* Whatever texts clients and events carry, the row, the call and the message
\* keep their types.
THEOREM RecordTypes == Spec => []TypeOK
<1>1. ResourceMessages \subseteq ResourceRecord
  BY RecordForms DEF ResourceMessages
<1>2. RecordsInv => TypeOK
  BY <1>1, RowsAreRows DEF RecordsInv, TypeOK
<1>. QED
  BY <1>2, RecordsInvariance, PTL

\* Whatever texts clients and events carry, the stored row can be read: no
\* client can make the list of all resources fail.
THEOREM RowsDecode == Spec => []EveryRowDecodes
<1>1. RecordsInv => EveryRowDecodes
  BY ReadRow DEF RecordsInv, EveryRowDecodes
<1>. QED
  BY <1>1, RecordsInvariance, PTL

(***************************************************************************)
(* Reading and writing back.                                               *)
(***************************************************************************)

\* A client that writes back what is stored, with another status, stores the
\* same record with that status and without an empty caption.
THEOREM WriteBackIsSafe == Spec => WriteBackChangesOnlyStatus
<1> DEFINE WroteBack ==
             (/\ row # Nothing
              /\ Serving("upsert_resource")
              /\ call.from = "writeback"
              /\ copy = ResourceToProto(ResourceFromRow(row))) =>
                LET old == ResourceFromRow(row) IN
                ResourceFromRow(row') =
                   [old EXCEPT !.status = call.resource.status,
                               !.caption = IF @ = "" THEN Nothing ELSE @]
<1>1. ASSUME RecordsInv, [Next]_vars, row' # row, row # Nothing,
             Serving("upsert_resource"), call.from = "writeback",
             copy = ResourceToProto(ResourceFromRow(row))
      PROVE  ResourceFromRow(row') =
                [ResourceFromRow(row) EXCEPT
                    !.status = call.resource.status,
                    !.caption = IF @ = "" THEN Nothing ELSE @]
  <2> DEFINE old == ResourceFromRow(row)
             new == call.resource
  <2>1. old \in InstalledResource
    BY <1>1, ReadRow DEF RecordsInv
  <2>2. UpsertResource
    <3>1. call # Nothing /\ call.op = "upsert_resource" /\ answer = "none"
      BY <1>1 DEF Serving
    <3>2. ~Request
      BY <1>1, <3>1 DEF Request, RestUpsertResource, GrpcUpsertResource,
         PackageEvent, Uninstall, SetResourceStatus, WriteBack, GrpcGetResource,
         Serve
    <3>. QED
      BY <1>1, <3>1, <3>2 DEF Next, UninstallResource, UpdateStatus, Reply,
         Serving, vars
  <2>3. PICK s \in ResourceStatuses : new = WithStatus(copy, s)
    BY <1>1 DEF RecordsInv, Serving
  <2>4. new = [old EXCEPT !.status = s, !.caption = CaptionShown(@)]
    BY <1>1, <2>1, <2>3, MessageWithStatus DEF WithStatus
  <2>5. Upserted(old, new) = new /\ new.status = s /\ new \in InstalledResource
    BY <2>1, <2>4 DEF Upserted, InstalledResource, CaptionShown
  <2>6. row' = ResourceToRow(new)
    BY <1>1, <2>2, <2>5, UpsertedRow
  <2>7. ResourceFromRow(row') = new
    BY <2>5, <2>6, ResourceRowIsLossless
  <2>. QED
    BY <2>4, <2>5, <2>7 DEF CaptionShown
<1>2. RecordsInv /\ [Next]_vars => [WroteBack]_row
  BY <1>1
<1>3. WriteBackChangesOnlyStatus <=> [][WroteBack]_row
  BY DEF WriteBackChangesOnlyStatus
<1> HIDE DEF WroteBack
<1>. QED
  BY <1>2, <1>3, RecordsInvariance, PTL DEF Spec

(***************************************************************************)
(* The refinement of the store.                                            *)
(***************************************************************************)

\* The table of the store has the row of the resource, if there is one.
LEMMA TableForms ==
  /\ row = Nothing => GroupedTable = [i \in {} |-> Nothing]
  /\ row # Nothing =>
        GroupedTable = [i \in {Id} |-> GroupedRow(ResourceFromRow(row))]
BY DEF GroupedTable

\* A record, grouped, is a row of the store.
LEMMA GroupedType ==
  ASSUME NEW r \in InstalledResource
  PROVE  GroupedRow(r) \in Store!ResourceRow
BY DEF GroupedRow, InstalledResource, Store!ResourceRow

\* A call, grouped, is a request of the store.
LEMMA GroupedRequests ==
  ASSUME NEW c \in Calls
  PROVE  /\ GroupedRequest(c) \in Store!Requests
         /\ GroupedRequest(c).op = c.op
         /\ GroupedRequest(c).id = Id
         /\ c.op = "upsert_resource" => GroupedRequest(c).row = GroupedRow(c.resource)
         /\ c.op = "set_resource_status" => GroupedRequest(c).status = c.status
<1> USE CallForms DEF Store!Requests
<1>1. CASE c.op = "upsert_resource"
  <2>1. GroupedRequest(c) = [op |-> "upsert_resource", id |-> Id,
                          row |-> GroupedRow(c.resource)]
    BY <1>1 DEF GroupedRequest
  <2>2. GroupedRequest(c) \in Store!ResourceWrite
    BY <1>1, <2>1, GroupedType DEF Store!ResourceWrite
  <2>. QED
    BY <1>1, <2>1, <2>2
<1>2. CASE c.op = "set_resource_status"
  <2>1. GroupedRequest(c) = [op |-> "set_resource_status", id |-> Id,
                          status |-> c.status]
    BY <1>2 DEF GroupedRequest
  <2>2. GroupedRequest(c) \in Store!ResourceStatusUpdate
    BY <1>2, <2>1 DEF Store!ResourceStatusUpdate
  <2>. QED
    BY <1>2, <2>1, <2>2
<1>3. CASE c.op = "uninstall"
  <2>1. GroupedRequest(c) = [op |-> "uninstall", id |-> Id]
    BY <1>3 DEF GroupedRequest
  <2>2. GroupedRequest(c) \in Store!Removal
    BY <2>1 DEF Store!Removal
  <2>. QED
    BY <1>3, <2>1, <2>2
<1>. QED
  BY <1>1, <1>2, <1>3

\* Serving a call starts it in the store.
LEMMA ServeRefines ==
  ASSUME NEW c \in Calls, Serve(c)
  PROVE  Store!Call(Server)
<1>1. call' \in Calls /\ GroupedRequest(call) = [op |-> "none"]
  BY DEF Serve, GroupedRequest
<1>2. GroupedRequest(call') \in Store!Requests
  BY <1>1, GroupedRequests
<1>3. GroupedTable' = GroupedTable /\ answer' = answer
  BY DEF Serve, GroupedTable
<1>. QED
  BY <1>1, <1>2, <1>3 DEF Store!Call, Store!NoRequest

\* An upsert of the columns is an upsert of the store.
LEMMA UpsertRefines ==
  ASSUME RecordsInv, UpsertResource
  PROVE  Store!InsertResource(Server) \/ Store!UpdateResource(Server)
<1> DEFINE new == call.resource
<1>1. /\ call \in Calls /\ call.op = "upsert_resource"
      /\ answer = "none" /\ answer' = "ok" /\ call' = call
  BY DEF RecordsInv, UpsertResource, Serving, Respond
<1>2. /\ GroupedRequest(call).op = "upsert_resource" /\ GroupedRequest(call).id = Id
      /\ GroupedRequest(call).row = GroupedRow(new)
      /\ GroupedRequest(call') = GroupedRequest(call)
  BY <1>1, GroupedRequests
<1>3. row' # Nothing /\ new \in InstalledResource
  BY UpsertedRow, RowsAreRows
<1>4. GroupedTable' = [i \in {Id} |-> GroupedRow(ResourceFromRow(row'))]
  BY <1>3, TableForms DEF GroupedTable
<1>5. CASE row = Nothing
  <2>1. ResourceFromRow(row') = new
    BY <1>3, <1>5, UpsertedRow, ResourceRowIsLossless
  <2>2. DOMAIN GroupedTable = {}
    BY <1>5 DEF GroupedTable
  <2>3. GroupedTable' = Store!Put(GroupedTable, Id, GroupedRow(new))
    BY <1>4, <2>1, <2>2 DEF Store!Put
  <2>. QED
    BY <1>1, <1>2, <2>2, <2>3 DEF Store!InsertResource, Store!Awaiting, Store!Respond
<1>6. CASE row # Nothing
  <2> DEFINE old == ResourceFromRow(row)
  <2>1. old \in InstalledResource
    BY <1>6, ReadRow DEF RecordsInv
  <2>2. ResourceFromRow(row') = Upserted(old, new)
    BY <1>3, <1>6, <2>1, UpsertedRow, OverwrittenRow, ResourceRowIsLossless
  <2>3. GroupedTable = [i \in {Id} |-> GroupedRow(old)]
    BY <1>6, TableForms
  <2>4. GroupedRow(Upserted(old, new)) =
           Store!OverwriteResource(GroupedRow(old), GroupedRow(new))
    BY <1>3, <2>1 DEF GroupedRow, Upserted, Store!OverwriteResource, InstalledResource
  <2>5. GroupedTable' = [GroupedTable EXCEPT ![Id] =
                            Store!OverwriteResource(@, GroupedRow(new))]
    BY <1>4, <2>2, <2>3, <2>4
  <2>. QED
    BY <1>1, <1>2, <2>3, <2>5 DEF Store!UpdateResource, Store!Awaiting, Store!Respond
<1>. QED
  BY <1>5, <1>6

\* An uninstall removes the row or finds none.
LEMMA UninstallRefines ==
  ASSUME RecordsInv, UninstallResource
  PROVE  Store!RemoveResource(Server) \/ Store!ResourceMissing(Server)
<1>1. /\ call \in Calls /\ call.op = "uninstall"
      /\ answer = "none" /\ call' = call /\ row' = Nothing
      /\ answer' = IF row = Nothing THEN "not_found" ELSE "ok"
  BY DEF RecordsInv, UninstallResource, Serving, Respond
<1>2. /\ GroupedRequest(call).op = "uninstall" /\ GroupedRequest(call).id = Id
      /\ GroupedRequest(call') = GroupedRequest(call)
  BY <1>1, GroupedRequests
<1>3. GroupedTable' = [i \in {} |-> Nothing]
  BY <1>1 DEF GroupedTable, GroupedRow
<1>4. CASE row = Nothing
  BY <1>1, <1>2, <1>3, <1>4, TableForms DEF Store!ResourceMissing,
     Store!Awaiting, Store!Respond
<1>5. CASE row # Nothing
  <2>1. GroupedTable' = Store!Drop(GroupedTable, Id)
    BY <1>3, <1>5, TableForms DEF Store!Drop
  <2>. QED
    BY <1>1, <1>2, <1>5, <2>1 DEF Store!RemoveResource, Store!Awaiting,
       Store!Respond, Store!References
<1>. QED
  BY <1>4, <1>5

\* A change of the status column is one of the store.
LEMMA StatusRefines ==
  ASSUME RecordsInv, UpdateStatus
  PROVE  Store!UpdateResourceStatus(Server) \/ Store!ResourceMissing(Server)
<1>1. /\ call \in Calls /\ call.op = "set_resource_status"
      /\ answer = "none" /\ call' = call
  BY DEF RecordsInv, UpdateStatus, Serving, Respond
<1>2. /\ GroupedRequest(call).op = "set_resource_status" /\ GroupedRequest(call).id = Id
      /\ GroupedRequest(call).status = call.status
      /\ GroupedRequest(call') = GroupedRequest(call)
  BY <1>1, GroupedRequests
<1>3. CASE row = Nothing
  <2>1. answer' = "not_found" /\ row' = row
    BY <1>3 DEF UpdateStatus, Respond
  <2>2. GroupedTable' = GroupedTable
    BY <2>1 DEF GroupedTable
  <2>. QED
    BY <1>1, <1>2, <1>3, <2>1, <2>2, TableForms DEF Store!ResourceMissing,
       Store!Awaiting, Store!Respond
<1>4. CASE row # Nothing
  <2> DEFINE old == ResourceFromRow(row)
             new == [old EXCEPT !.status = call.status]
  <2>1. answer' = "ok"
    BY <1>4 DEF UpdateStatus, Respond
  <2>2. /\ row' = ResourceToRow(new) /\ row' # Nothing
        /\ call.status \in ResourceStatuses
    BY <1>4, StatusRow, RowsAreRows
  <2>3. old \in InstalledResource
    BY <1>4, ReadRow DEF RecordsInv
  <2>4. ResourceFromRow(row') = new
    BY <2>2, <2>3, RowWithStatus, ResourceRowIsLossless
  <2>5. GroupedRow(new) = [GroupedRow(old) EXCEPT !.status = call.status]
    BY <2>2, <2>3 DEF GroupedRow, InstalledResource
  <2>6. GroupedTable = [i \in {Id} |-> GroupedRow(old)]
    BY <1>4, TableForms
  <2>7. GroupedTable' = [i \in {Id} |-> GroupedRow(new)]
    BY <2>2, <2>4 DEF GroupedTable
  <2>8. GroupedTable' = [GroupedTable EXCEPT ![Id].status = call.status]
    BY <2>5, <2>6, <2>7
  <2>. QED
    BY <1>1, <1>2, <2>1, <2>6, <2>8 DEF Store!UpdateResourceStatus,
       Store!Awaiting, Store!Respond
<1>. QED
  BY <1>3, <1>4

\* An answer that is taken is forgotten.
LEMMA ReplyRefines ==
  ASSUME Reply
  PROVE  Store!Forget({Server})
<1>1. GroupedTable' = GroupedTable
  BY DEF Reply, GroupedTable
<1>2. GroupedRequest(call') = [op |-> "none"] /\ answer' = "none"
  BY DEF Reply, GroupedRequest
<1>. QED
  BY <1>1, <1>2 DEF Store!Forget, Store!NoRequest

\* Every step on the columns is a step of the store, or changes nothing there.
LEMMA ColumnsStep ==
  ASSUME RecordsInv, [Next]_vars
  PROVE  Store!Next \/ UNCHANGED Store!vars
<1>1. CASE Request /\ ~GrpcGetResource
  BY <1>1, ServeForms, ServeRefines DEF Store!Next
<1>2. CASE GrpcGetResource \/ UNCHANGED vars
  <2>1. row' = row /\ call' = call /\ answer' = answer
    BY <1>2 DEF GrpcGetResource, vars
  <2>. QED
    BY <2>1 DEF Store!vars, GroupedTable, GroupedRequest
<1>3. CASE UpsertResource
  BY <1>3, UpsertRefines DEF Store!Next
<1>4. CASE UninstallResource
  BY <1>4, UninstallRefines DEF Store!Next
<1>5. CASE UpdateStatus
  BY <1>5, StatusRefines DEF Store!Next
<1>6. CASE Reply
  BY <1>6, ReplyRefines DEF Store!Next
<1>. QED
  BY <1>1, <1>2, <1>3, <1>4, <1>5, <1>6 DEF Next

\* The store starts without the resource.
LEMMA ColumnsInit ==
  ASSUME Init
  PROVE  Store!Init
<1>1. GroupedTable = [i \in {} |-> Nothing] /\ GroupedRequest(call) = [op |-> "none"]
  BY TableForms DEF Init, GroupedRequest
<1>2. \A K, R : [i \in {} |-> Nothing] \in Store!Table(K, R)
  BY DEF Store!Table
<1>. QED
  BY <1>1, <1>2 DEF Init, Store!Init, Store!NoRequest

\* The columns implement the store, for every set of types, texts, times and
\* captions: from installation to removal a resource keeps its type and its
\* time of installation, whatever clients write back and whatever events say.
THEOREM ResourceColumnsImplementStore == Spec => ColumnsImplementStore
<1>1. RecordsInv /\ [Next]_vars => [Store!Next]_(Store!vars)
  BY ColumnsStep
<1>2. Init => Store!Init
  BY ColumnsInit
<1>. QED
  BY <1>1, <1>2, RecordsInvariance, PTL DEF Spec, Store!Spec, ColumnsImplementStore
==============================================================================
