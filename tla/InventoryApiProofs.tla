--------------------------- MODULE InventoryApiProofs ---------------------------
(***************************************************************************)
(* Proofs about InventoryApi: for any number of connections, keys and      *)
(* values, what a client has been told stays true for its later reads.     *)
(***************************************************************************)
EXTENDS InventoryApi, InventoryProofs

\* The names of the instances in a table, and the resources they name.
NamesIn(table) == {table[s].instance_name : s \in DOMAIN table}

ResourcesIn(table) == {table[s].resource_id : s \in DOMAIN table}

ReadsTypeOK ==
    /\ query \in [Clients -> Queries \cup {NoQuery, [kind |-> "status2"],
                                           [kind |-> "refused"]}]
    /\ status \in [Clients -> Statuses]
    /\ found \in [Clients -> [resources : SUBSET ResourceIds,
                              services : Table(ServiceIds, ServiceRow)]]
    /\ known \in [Clients -> [acked : SUBSET InstanceNames,
                              seen : SUBSET ResourceIds,
                              registered : SUBSET ServiceIds]]
    /\ acked \in SUBSET InstanceNames
    /\ seen \in SUBSET ResourceIds

\* An upsert that is about to be answered with success has left its name.
WrittenOK ==
    \A c \in Clients :
       Running(c, {"upsert_service"}, "done") /\ answer[c] = "ok" =>
          req[c].row.instance_name \in NamesIn(services)

\* What clients have been told is so.
HistoryOK ==
    /\ acked \subseteq NamesIn(services)
    /\ seen \subseteq ResourcesIn(services)

\* Every instance in a list of ids is counted, and so is its resource.
Counted(ids, reply) ==
    \A s \in ids : /\ s \in DOMAIN reply.services
                   /\ reply.services[s].resource_id \in reply.resources

\* What a connection has read covers what its client knew.
ReadOK(c) ==
    /\ query[c] = NoQuery => status[c] = "none"
    /\ known[c].acked \subseteq acked
    /\ known[c].seen \subseteq seen
    /\ known[c].registered \subseteq DOMAIN services
    /\ ResourcesIn(found[c].services) \subseteq ResourcesIn(services)
    /\ Delivered(c, {"services"}) =>
          known[c].acked \subseteq NamesIn(found[c].services)
    /\ Delivered(c, {"resources"}) => known[c].seen \subseteq found[c].resources
    /\ Delivered(c, {"resource"}) /\ query[c].id \in known[c].seen =>
          query[c].id \in found[c].resources
    /\ query[c].kind = "status2" =>
          \A s \in known[c].registered :
             services[s].resource_id \in found[c].resources
    /\ Delivered(c, {"status2"}) => Counted(known[c].registered, found[c])

\* A removal of what an instance needs is not carried out.
RemovalOK(c) ==
    Running(c, {"uninstall"}, "done") /\ req[c].id \in known[c].seen =>
       answer[c] # "ok"

ApiInv ==
    /\ IInv
    /\ ReadsTypeOK
    /\ WrittenOK
    /\ HistoryOK
    /\ \A c \in Clients : ReadOK(c) /\ RemovalOK(c)

(***************************************************************************)
(* Calls stay atomic.                                                      *)
(***************************************************************************)

ReadStep(c) == Query(c) \/ ReadStatement(c) \/ ReadReplied(c) \/ ReadDropped(c)

Refused(c) == \E code \in {"400", "404", "invalid_argument"} : Refuse(c, code)

CallBegun(c) == \E op \in Operations : Call(c, op)

CallGoesOn(c) == Statement(c) /\ UNCHANGED <<readvars, history>>

CallEnded(c) == WriteReplied(c) \/ WriteDropped(c)

\* A step of a client belongs to a call, or to a read, or refuses a request.
LEMMA ApiForms ==
  ASSUME NEW c \in Clients, ApiStep(c)
  PROVE  \/ CallBegun(c) \/ CallGoesOn(c) \/ CallEnded(c)
         \/ ReadStep(c)
         \/ Refused(c)
<1>1. ASSUME NEW op, Call(c, op) PROVE CallBegun(c)
  <2>1. PICK r \in Requests : r.op = op /\ Begin(c, r)
    BY <1>1 DEF Call
  <2>2. op \in Operations
    BY <2>1, RequestTypes
  <2>. QED
    BY <1>1, <2>2 DEF CallBegun
<1>. QED
  BY <1>1 DEF ApiStep, Write, RestUpsertResource, RestUninstall, RestUpsertService,
       GrpcUpsertResource, GrpcUninstall, GrpcUpsertService, Refused,
       CallGoesOn, CallEnded, ReadStep

\* The steps of a call are steps of the Inventory.
LEMMA CallsAreCalls ==
  ASSUME NEW c \in Clients, CallBegun(c) \/ CallGoesOn(c) \/ CallEnded(c)
  PROVE  ClientStep(c) /\ UNCHANGED <<query, status, found>>
BY DEF CallBegun, Call, CallGoesOn, CallEnded, WriteReplied, WriteDropped,
       ClientStep, readvars

\* Reads and refusals leave the Inventory alone.
LEMMA ReadsChangeNothing ==
  ASSUME NEW c \in Clients, ReadStep(c) \/ Refused(c)
  PROVE  UNCHANGED vars
BY DEF ReadStep, ReadStatement, RestGetResource, GrpcGetResource, ListResources,
       ListServices, CountResources, CountServices, ReadFailed, ReadReplied,
       ReadDropped, EndRead, Query, Refused, Refuse

\* For the Inventory every step of a client is a step of one caller or none.
LEMMA ApiIsInventory ==
  ASSUME [ApiNext]_apivars
  PROVE  [Next]_vars
<1>1. ASSUME NEW c \in Clients, ApiStep(c)
      PROVE  [Next]_vars
  BY <1>1, ApiForms, CallsAreCalls, ReadsChangeNothing DEF Next
<1>. QED
  BY <1>1 DEF ApiNext, apivars

\* Both servers start on an empty Inventory without calls.
LEMMA ApiStart ==
  ASSUME ApiInit
  PROVE  IInv /\ Store!Init
<1>1. TablesTypeOK /\ ReferentialIntegrity
  BY EmptyTableType DEF ApiInit, Init, TablesTypeOK, ReferentialIntegrity
<1>2. Quiet
  BY DEF ApiInit, Init, Quiet
<1>. QED
  BY <1>1, <1>2, QuietStart

\* The inductive invariant of the Inventory survives both servers.
THEOREM ApiInvariance == ApiSpec => []IInv
<1>1. ApiInit => IInv
  BY ApiStart
<1>2. IInv /\ [ApiNext]_apivars => IInv'
  BY ApiIsInventory, InvariantStep
<1>. QED
  BY <1>1, <1>2, PTL DEF ApiSpec

\* Behind both servers each call is still one atomic step of the store.
THEOREM ApiImplementsStore == ApiSpec => ImplementsStore
<1>1. ApiInit => Store!Init
  BY ApiStart
<1>2. IInv /\ [ApiNext]_apivars => [Store!Next]_(Store!vars)
  BY ApiIsInventory, StepRefines
<1>. QED
  BY <1>1, <1>2, ApiInvariance, PTL DEF ApiSpec, ImplementsStore, Store!Spec

(***************************************************************************)
(* Types of what is read.                                                  *)
(***************************************************************************)

\* No connection has read anything at the start.
LEMMA ReadsTypeInit ==
  ASSUME ApiInit
  PROVE  ReadsTypeOK
<1>1. Nothing \in [resources : SUBSET ResourceIds,
                    services : Table(ServiceIds, ServiceRow)]
  BY EmptyTableType DEF Nothing
<1>2. "none" \in Statuses
  BY DEF Statuses
<1>. QED
  BY <1>1, <1>2 DEF ApiInit, ReadsTypeOK, NoQuery, NoKnowledge

\* Success and failure of a request are statuses.
LEMMA AnsweredType ==
  ASSUME NEW c \in Clients, status \in [Clients -> Statuses], Answered(c)
  PROVE  /\ status' \in [Clients -> Statuses]
         /\ status'[c] \in Success
         /\ \A d \in Clients \ {c} : status'[d] = status[d]
BY DEF Answered, Statuses, Success

\* What a connection reads are rows and keys of the tables.
LEMMA ReadsTypeStep ==
  ASSUME TypeOK, ReadsTypeOK, NEW c \in Clients, ApiStep(c)
  PROVE  ReadsTypeOK'
<1> USE DEF ReadsTypeOK
<1> DEFINE Found == [resources : SUBSET ResourceIds,
                     services : Table(ServiceIds, ServiceRow)]
<1>1. /\ DOMAIN resources \in SUBSET ResourceIds
      /\ services \in Table(ServiceIds, ServiceRow)
      /\ EmptyTable \in Table(ServiceIds, ServiceRow)
  BY TableElim, EmptyTableType DEF TypeOK
<1>2. found[c] \in Found
  OBVIOUS
<1> DEFINE Known == [acked : SUBSET InstanceNames, seen : SUBSET ResourceIds,
                     registered : SUBSET ServiceIds]
<1>k. Knowledge \in Known /\ NoKnowledge \in Known
  <2>1. DOMAIN services \in SUBSET ServiceIds
    BY TableElim DEF TypeOK
  <2>. QED
    BY <2>1 DEF Knowledge, NoKnowledge
<1>r. ASSUME WriteReplied(c) PROVE known' \in [Clients -> Known]
  BY <1>k, <1>r DEF WriteReplied
<1>3. CASE CallBegun(c) \/ CallGoesOn(c) \/ WriteDropped(c)
  <2>1. CASE CallGoesOn(c)
    BY <2>1 DEF CallGoesOn, readvars, history
  <2>2. CASE CallBegun(c) \/ WriteDropped(c)
    <3>1. known' \in [Clients -> Known]
      BY <1>k, <2>2 DEF CallBegun, Call, WriteDropped
    <3>2. UNCHANGED <<query, status, found, acked, seen>>
      BY <2>2 DEF CallBegun, Call, WriteDropped, history
    <3>. QED
      BY <3>1, <3>2
  <2>. QED
    BY <1>3, <2>1, <2>2
<1>4. CASE WriteReplied(c)
  <2>1. CASE req[c].op = "upsert_service" /\ WriteStatus(c) \in Success
    <3>1. req[c].row \in ServiceRow
      BY <2>1, RequestTypes DEF TypeOK
    <3>2. req[c].row.instance_name \in InstanceNames
      BY <3>1 DEF ServiceRow
    <3>. QED
      BY <1>4, <1>r, <2>1, <3>2 DEF WriteReplied
  <2>2. CASE ~(req[c].op = "upsert_service" /\ WriteStatus(c) \in Success)
    BY <1>4, <1>r, <2>2 DEF WriteReplied
  <2>. QED
    BY <2>1, <2>2
<1>5. CASE Refused(c)
  BY <1>5 DEF Refused, Refuse, Statuses, history
<1>6. CASE Query(c)
  <2>1. known' \in [Clients -> Known]
    BY <1>k, <1>6 DEF Query
  <2>. QED
    BY <1>6, <2>1 DEF Query, history
<1>7. CASE RestGetResource(c)
  BY <1>7 DEF RestGetResource, Statuses, history
<1>8. CASE GrpcGetResource(c)
  <2>1. [found[c] EXCEPT !.resources = {query[c].id} \cap DOMAIN resources] \in Found
    BY <1>1, <1>2
  <2>2. found' \in [Clients -> Found]
    BY <1>8, <2>1 DEF GrpcGetResource
  <2>. QED
    BY <1>8, <2>2, AnsweredType DEF GrpcGetResource, history
<1>9. CASE ListResources(c) \/ CountResources(c)
  <2>1. [found[c] EXCEPT !.resources = DOMAIN resources] \in Found
    BY <1>1, <1>2
  <2>2. found' \in [Clients -> Found]
    BY <1>9, <2>1 DEF ListResources, CountResources
  <2>3. CASE ListResources(c)
    BY <2>2, <2>3, AnsweredType DEF ListResources, history
  <2>4. CASE CountResources(c)
    BY <2>2, <2>4 DEF CountResources, history
  <2>. QED
    BY <1>9, <2>3, <2>4
<1>10. CASE ListServices(c) \/ CountServices(c)
  <2>1. [found[c] EXCEPT !.services = services] \in Found
    BY <1>1, <1>2
  <2>2. found' \in [Clients -> Found]
    BY <1>10, <2>1 DEF ListServices, CountServices
  <2>. QED
    BY <1>10, <2>2, AnsweredType DEF ListServices, CountServices, history
<1>11. CASE ReadFailed(c)
  BY <1>11 DEF ReadFailed, Statuses, history
<1>12. CASE ReadReplied(c) \/ ReadDropped(c)
  <2>1. Nothing \in Found
    BY <1>1 DEF Nothing
  <2>2. \A s \in DOMAIN found[c].services :
           found[c].services[s].resource_id \in ResourceIds
    <3>1. found[c].services \in Table(ServiceIds, ServiceRow)
      BY <1>2
    <3>2. \A s \in DOMAIN found[c].services : found[c].services[s] \in ServiceRow
      BY <3>1, TableElim
    <3>. QED
      BY <3>2 DEF ServiceRow
  <2>3. seen' \in SUBSET ResourceIds
    BY <1>12, <2>2 DEF ReadReplied, ReadDropped
  <2>4. EndRead(c)
    BY <1>12 DEF ReadReplied, ReadDropped
  <2>5. /\ found' \in [Clients -> Found]
        /\ status' \in [Clients -> Statuses]
    BY <2>1, <2>4 DEF EndRead, Statuses
  <2>6. known' \in [Clients -> Known]
    BY <1>k, <2>4 DEF EndRead
  <2>. QED
    BY <2>3, <2>4, <2>5, <2>6 DEF EndRead
<1>. QED
  BY <1>3, <1>4, <1>5, <1>6, <1>7, <1>8, <1>9, <1>10, <1>11, <1>12, ApiForms
     DEF CallEnded, ReadStep, ReadStatement

\* Types of the Inventory and of what connections have read.
THEOREM ApiTypeCorrectness == ApiSpec => []ApiTypeOK
<1>1. ApiInit => IInv /\ ReadsTypeOK
  BY ApiStart, ReadsTypeInit
<1>2. IInv /\ ReadsTypeOK /\ [ApiNext]_apivars => (IInv /\ ReadsTypeOK)'
  <2>1. ASSUME IInv, ReadsTypeOK, UNCHANGED apivars
        PROVE  ReadsTypeOK'
    BY <2>1 DEF apivars, readvars, history, ReadsTypeOK
  <2>. QED
    BY <2>1, ApiIsInventory, InvariantStep, ReadsTypeStep DEF IInv, ApiNext
<1>3. IInv /\ ReadsTypeOK => ApiTypeOK
  BY DEF IInv, ReadsTypeOK, ApiTypeOK
<1>. QED
  BY <1>1, <1>2, <1>3, PTL DEF ApiSpec

(***************************************************************************)
(* Acknowledgements.                                                       *)
(***************************************************************************)

\* Names and resources of instances are never lost.
LEMMA NamesStay ==
  ASSUME ServicesKept
  PROVE  /\ NamesIn(services) \subseteq NamesIn(services')
         /\ ResourcesIn(services) \subseteq ResourcesIn(services')
BY DEF ServicesKept, SameRegistration, NamesIn, ResourcesIn

\* The statement that ends an upsert with success writes or finds its name.
LEMMA WrittenStep ==
  ASSUME IInv, WrittenOK, NEW c \in Clients, ClientStep(c)
  PROVE  WrittenOK'
<1> USE DEF IInv, Running
<1>1. ServicesKept
  BY InvariantStep DEF Next
<1>2. NamesIn(services) \subseteq NamesIn(services')
  BY <1>1, NamesStay
<1>3. SUFFICES ASSUME NEW d \in Clients,
                      at'[d] = "done", answer'[d] = "ok",
                      req'[d].op = "upsert_service"
               PROVE  req'[d].row.instance_name \in NamesIn(services')
  BY DEF WrittenOK
<1>4. CASE d # c
  BY <1>2, <1>3, <1>4, OthersUntouched DEF WrittenOK
<1>5. CASE d = c
  <2> USE <1>3, <1>5 DEF TypeOK
  <2>1. ASSUME NEW r \in Requests, Begin(c, r) PROVE FALSE
    BY <2>1 DEF Begin
  <2>2. CASE DropCall(c) \/ Return(c)
    BY <2>2 DEF DropCall, Return, Reset
  <2>3. CASE StatementError(c)
    BY <2>3 DEF StatementError, Finish
  <2>4. CASE AddServiceInsert(c)
    <3>1. /\ services' = Put(services, req[c].id, req[c].row)
          /\ req' = req
      BY <2>4 DEF AddServiceInsert, Finish
    <3>2. /\ req[c].id \in DOMAIN services'
          /\ services'[req[c].id] = req[c].row
      BY <3>1 DEF Put
    <3>. QED
      BY <3>1, <3>2 DEF NamesIn
  <2>5. CASE UpsertServiceWrite(c)
    <3>1. held[c] \in Named(services, req[c].row.instance_name)
      BY <2>5 DEF UpsertServiceWrite, HeldRowIsTheNamedRow, NameSought
    <3>2. /\ held[c] \in DOMAIN services
          /\ services[held[c]].instance_name = req[c].row.instance_name
      BY <3>1 DEF Named
    <3>3. /\ held[c] \in DOMAIN services'
          /\ services'[held[c]].instance_name = req[c].row.instance_name
      BY <1>1, <3>2 DEF ServicesKept, SameRegistration
    <3>4. req' = req
      BY <2>5 DEF UpsertServiceWrite, Finish
    <3>. QED
      BY <3>3, <3>4 DEF NamesIn
  <2>6. CASE UpsertServiceFind(c)
    BY <2>6 DEF UpsertServiceFind, HoldNamed, GoTo
  <2>7. CASE \/ InstallFind(c) \/ InstallInsert(c)
             \/ UpsertReread(c) \/ UpsertWrite(c)
             \/ UninstallFind(c) \/ UninstallDelete(c)
             \/ SetResourceStatusFind(c) \/ SetResourceStatusWrite(c)
             \/ SetServiceStatusFind(c) \/ SetServiceStatusWrite(c)
    <3>1. req[c].op # "upsert_service"
      BY <2>7 DEF InstallFind, InstallInsert, UpsertReread, UpsertWrite,
         UninstallFind, UninstallDelete, SetResourceStatusFind,
         SetResourceStatusWrite, SetServiceStatusFind, SetServiceStatusWrite
    <3>2. req' = req
      BY <2>7 DEF InstallFind, InstallInsert, UpsertReread, UpsertWrite,
         UninstallFind, UninstallDelete, SetResourceStatusFind,
         SetResourceStatusWrite, SetServiceStatusFind, SetServiceStatusWrite,
         HoldNamed, GoTo, Finish
    <3>. QED
      BY <3>1, <3>2
  <2>. QED
    BY <2>1, <2>2, <2>3, <2>4, <2>5, <2>6, <2>7 DEF ClientStep, Statement
<1>. QED
  BY <1>4, <1>5

\* Only a call that ended with ok is answered with a success status.
LEMMA SuccessIsOk ==
  ASSUME NEW c \in Clients, WriteStatus(c) \in Success
  PROVE  answer[c] = "ok"
BY DEF WriteStatus, RestStatus, GrpcStatus, Success

\* What clients have been told stays so, and what they are told next is so.
LEMMA HistoryStep ==
  ASSUME IInv, WrittenOK, HistoryOK, NEW c \in Clients, ReadOK(c),
         ServicesKept, ApiStep(c)
  PROVE  HistoryOK' /\ acked \subseteq acked' /\ seen \subseteq seen'
<1> USE DEF HistoryOK
<1>1. /\ NamesIn(services) \subseteq NamesIn(services')
      /\ ResourcesIn(services) \subseteq ResourcesIn(services')
  BY NamesStay
<1>2. CASE WriteReplied(c)
  <2>1. at[c] = "done" /\ seen' = seen
    BY <1>2 DEF WriteReplied, Return
  <2>2. CASE req[c].op = "upsert_service" /\ WriteStatus(c) \in Success
    <3>1. req[c].row.instance_name \in NamesIn(services)
      BY <2>1, <2>2, SuccessIsOk DEF WrittenOK, Running
    <3>. QED
      BY <1>1, <1>2, <2>1, <2>2, <3>1 DEF WriteReplied
  <2>3. CASE ~(req[c].op = "upsert_service" /\ WriteStatus(c) \in Success)
    BY <1>1, <1>2, <2>1, <2>3 DEF WriteReplied
  <2>. QED
    BY <2>2, <2>3
<1>3. CASE ReadReplied(c)
  <2>1. ResourcesIn(found[c].services) \subseteq ResourcesIn(services)
    BY DEF ReadOK
  <2>2. acked' = acked
    BY <1>3 DEF ReadReplied, EndRead
  <2>3. seen' = seen \/ seen' = seen \cup ResourcesIn(found[c].services)
    BY <1>3 DEF ReadReplied, ResourcesIn
  <2>. QED
    BY <1>1, <2>1, <2>2, <2>3
<1>4. CASE \/ UNCHANGED history
           \/ ReadDropped(c)
  BY <1>1, <1>4 DEF history, ReadDropped, EndRead
<1>5. CASE \/ CallBegun(c) \/ CallGoesOn(c) \/ WriteDropped(c)
           \/ Query(c) \/ ReadStatement(c) \/ Refused(c)
  <2>1. UNCHANGED history
    BY <1>5 DEF CallBegun, Call, CallGoesOn, WriteDropped, Query, ReadStatement, RestGetResource, GrpcGetResource,
       ListResources, ListServices, CountResources, CountServices, ReadFailed,
       Refused, Refuse
  <2>. QED
    BY <1>4, <2>1
<1>. QED
  BY <1>2, <1>3, <1>4, <1>5, ApiForms DEF CallEnded, ReadStep

(***************************************************************************)
(* Reads.                                                                  *)
(***************************************************************************)

\* Nothing that others do takes back what a connection has read, and less
\* knowledge asks less of it.
LEMMA ReadStays ==
  ASSUME NEW d \in Clients, ReadOK(d), ServicesKept,
         acked \subseteq acked', seen \subseteq seen',
         query'[d] = query[d], status'[d] = status[d], found'[d] = found[d],
         known'[d] = known[d] \/ known'[d] = NoKnowledge
  PROVE  ReadOK(d)'
<1>1. ResourcesIn(services) \subseteq ResourcesIn(services')
  BY NamesStay
<1>2. /\ NamesIn(found[d].services)' = NamesIn(found[d].services)
      /\ ResourcesIn(found[d].services)' = ResourcesIn(found[d].services)
  BY DEF NamesIn, ResourcesIn
<1>3. \A kinds : Delivered(d, kinds)' = Delivered(d, kinds)
  BY DEF Delivered
<1>4. \A s \in DOMAIN services : /\ s \in DOMAIN services'
                                 /\ services'[s].resource_id = services[s].resource_id
  BY DEF ServicesKept, SameRegistration
<1>5. CASE known'[d] = known[d]
  BY <1>1, <1>2, <1>3, <1>4, <1>5 DEF ReadOK, Counted
<1>6. CASE known'[d] = NoKnowledge
  BY <1>1, <1>2, <1>3, <1>6 DEF ReadOK, Counted, NoKnowledge
<1>. QED
  BY <1>5, <1>6

\* A client's step leaves the reads of the other connections alone.
LEMMA OtherReads ==
  ASSUME ReadsTypeOK, NEW c \in Clients, ApiStep(c), NEW d \in Clients \ {c}
  PROVE  /\ query'[d] = query[d] /\ status'[d] = status[d]
         /\ found'[d] = found[d] /\ known'[d] = known[d]
<1> USE DEF ReadsTypeOK
<1>1. CASE CallBegun(c) \/ CallGoesOn(c) \/ CallEnded(c)
  <2>1. UNCHANGED <<query, status, found>>
    BY <1>1, CallsAreCalls
  <2>2. known'[d] = known[d]
    BY <1>1 DEF CallBegun, Call, CallGoesOn, readvars, CallEnded, WriteReplied,
       WriteDropped
  <2>. QED
    BY <2>1, <2>2
<1>2. CASE Refused(c) \/ Query(c)
  BY <1>2 DEF Refused, Refuse, Query
<1>3. CASE ReadStatement(c)
  BY <1>3 DEF ReadStatement, RestGetResource, GrpcGetResource, ListResources,
     ListServices, CountResources, CountServices, ReadFailed, Answered
<1>4. CASE ReadReplied(c) \/ ReadDropped(c)
  BY <1>4 DEF ReadReplied, ReadDropped, EndRead
<1>. QED
  BY <1>1, <1>2, <1>3, <1>4, ApiForms DEF ReadStep

\* A connection that begins a call reads nothing.
LEMMA CallBegins ==
  ASSUME ReadsTypeOK, NEW c \in Clients, ReadOK(c), ServicesKept, CallBegun(c)
  PROVE  ReadOK(c)'
<1> USE DEF ReadsTypeOK
<1>1. /\ query'[c] = NoQuery /\ status'[c] = status[c] /\ found'[c] = found[c]
      /\ query[c] = NoQuery
      /\ known'[c] = Knowledge
      /\ UNCHANGED <<acked, seen, services>>
  BY DEF CallBegun, Call, Free, Begin, tables, history
<1>2. ResourcesIn(found[c].services)' \subseteq ResourcesIn(services)'
  BY <1>1 DEF ReadOK, ResourcesIn
<1>. QED
  BY <1>1, <1>2 DEF ReadOK, Delivered, Knowledge, NoQuery

\* The connection that takes the step: each SELECT covers what its client
\* knew, because names and resources are pinned from then on.
LEMMA OwnRead ==
  ASSUME IInv, ReadsTypeOK, HistoryOK, NEW c \in Clients, ReadOK(c),
         UNCHANGED vars, Query(c) \/ ReadStatement(c) \/ Refused(c)
  PROVE  ReadOK(c)'
<1> USE DEF ReadsTypeOK
<1>1. /\ known[c].acked \subseteq NamesIn(services)
      /\ known[c].seen \subseteq DOMAIN resources
      /\ services' = services
  <2>1. ResourcesIn(services) \subseteq DOMAIN resources
    BY DEF IInv, ReferentialIntegrity, Installed, ResourcesIn
  <2>2. services' = services
    BY DEF vars, tables
  <2>. QED
    BY <2>1, <2>2 DEF ReadOK, HistoryOK
<1>2. ResourcesIn(services)' = ResourcesIn(services)
  BY <1>1 DEF ResourcesIn
<1>8. ASSUME found'[c].services = found[c].services
      PROVE  ResourcesIn(found[c].services)' \subseteq ResourcesIn(services)'
  <2>1. ResourcesIn(found[c].services) \subseteq ResourcesIn(services)
    BY DEF ReadOK
  <2>2. ResourcesIn(found[c].services)' = ResourcesIn(found[c].services)
    BY <1>8 DEF ResourcesIn
  <2>. QED
    BY <1>2, <2>1, <2>2
<1>3. CASE Refused(c) \/ ReadFailed(c) \/ RestGetResource(c)
  <2>1. /\ query'[c] # NoQuery
        /\ query'[c].kind = "status2" => query'[c] = query[c]
        /\ status'[c] \in {"400", "404", "invalid_argument", "500", "internal"}
        /\ UNCHANGED <<found, known, acked, seen>>
    BY <1>3 DEF Refused, Refuse, ReadFailed, RestGetResource, Unrouted, Reading,
       NoQuery, history
  <2>2. status'[c] \notin Success
    BY <2>1 DEF Success
  <2>3. ResourcesIn(found[c].services)' \subseteq ResourcesIn(services)'
    BY <1>8, <2>1
  <2>4. query'[c].kind = "status2" =>
           \A s \in known'[c].registered :
              services'[s].resource_id \in found'[c].resources
    BY <1>1, <2>1 DEF ReadOK
  <2>5. /\ known'[c].acked \subseteq acked' /\ known'[c].seen \subseteq seen'
        /\ known'[c].registered \subseteq DOMAIN services'
    BY <1>1, <2>1 DEF ReadOK
  <2>. QED
    BY <2>1, <2>2, <2>3, <2>4, <2>5 DEF ReadOK, Delivered
<1>4. CASE Query(c)
  <2>1. PICK q \in Queries : query' = [query EXCEPT ![c] = q]
    BY <1>4 DEF Query
  <2>2. /\ query'[c].kind \in {"resource", "resources", "services", "status"}
        /\ query[c] = NoQuery
    <3>1. q.kind \in {"resource", "resources", "services", "status"}
      BY DEF Queries
    <3>2. query'[c] = q
      BY <2>1
    <3>. QED
      BY <1>4, <3>1, <3>2 DEF Query, Free
  <2>3. /\ status'[c] = "none"
        /\ found' = found
        /\ known'[c] = Knowledge
        /\ acked' = acked /\ seen' = seen
    BY <1>4, <2>2 DEF Query, ReadOK, history
  <2>4. ResourcesIn(found[c].services)' \subseteq ResourcesIn(services)'
    BY <1>8, <2>3
  <2>. QED
    BY <1>1, <2>2, <2>3, <2>4 DEF ReadOK, Delivered, Success, Knowledge
<1>5. CASE GrpcGetResource(c)
  <2>1. /\ found'[c].resources = {query[c].id} \cap DOMAIN resources
        /\ found'[c].services = found[c].services
        /\ UNCHANGED <<query, known, acked, seen>>
    BY <1>5 DEF GrpcGetResource, history
  <2>2. query[c].kind = "resource" /\ query[c] # NoQuery
    BY <1>5 DEF GrpcGetResource, Reading, NoQuery
  <2>3. ResourcesIn(found[c].services)' \subseteq ResourcesIn(services)'
    BY <1>8, <2>1
  <2>. QED
    BY <1>1, <2>1, <2>2, <2>3 DEF ReadOK, Delivered
<1>6. CASE ListResources(c) \/ CountResources(c)
  <2>1. /\ found'[c].resources = DOMAIN resources
        /\ found'[c].services = found[c].services
        /\ known' = known /\ acked' = acked /\ seen' = seen
    BY <1>6 DEF ListResources, CountResources, history
  <2>2. /\ query'[c].kind \in {"resources", "status2"}
        /\ query'[c].kind = "status2" => status'[c] = "none"
        /\ query'[c] # NoQuery
    BY <1>6 DEF ListResources, CountResources, Reading, NoQuery
  <2>3. ResourcesIn(found[c].services)' \subseteq ResourcesIn(services)'
    BY <1>8, <2>1
  <2>4. \A s \in known[c].registered : services[s].resource_id \in DOMAIN resources
    BY DEF ReadOK, IInv, ReferentialIntegrity, Installed
  <2>. QED
    BY <1>1, <2>1, <2>2, <2>3, <2>4 DEF ReadOK, Delivered, Success
<1>7. CASE ListServices(c) \/ CountServices(c)
  <2>1. /\ found'[c].services = services
        /\ found'[c].resources = found[c].resources
        /\ UNCHANGED <<query, known, acked, seen>>
    BY <1>7 DEF ListServices, CountServices, history
  <2>2. query[c].kind \in {"services", "status2"} /\ query[c] # NoQuery
    BY <1>7 DEF ListServices, CountServices, Reading, NoQuery
  <2>3. /\ ResourcesIn(found[c].services)' = ResourcesIn(services)'
        /\ NamesIn(found[c].services)' = NamesIn(services)
    BY <1>1, <2>1 DEF ResourcesIn, NamesIn
  <2>4. query[c].kind = "status2" => Counted(known[c].registered, found[c])'
    BY <1>1, <2>1 DEF ReadOK, Counted
  <2>. QED
    BY <1>1, <2>1, <2>2, <2>3, <2>4 DEF ReadOK, Delivered
<1>. QED
  BY <1>3, <1>4, <1>5, <1>6, <1>7 DEF ReadStatement

\* A connection that has ended its read has nothing to account for.
LEMMA ReadEnded ==
  ASSUME ReadsTypeOK, NEW c \in Clients, EndRead(c)
  PROVE  ReadOK(c)'
<1>1. /\ query'[c] = NoQuery /\ status'[c] = "none"
      /\ found'[c] = Nothing
      /\ known'[c] = NoKnowledge
  BY DEF EndRead, ReadsTypeOK
<1>2. ResourcesIn(found'[c].services) = {}
  BY <1>1, EmptyTableType DEF Nothing, ResourcesIn
<1>. QED
  BY <1>1, <1>2 DEF ReadOK, Delivered, NoQuery, NoKnowledge

(***************************************************************************)
(* Removals.                                                               *)
(***************************************************************************)

\* The DELETE of a resource that an instance needs is refused.
LEMMA RemovalStep ==
  ASSUME ApiInv, NEW c \in Clients, ApiStep(c), NEW d \in Clients
  PROVE  RemovalOK(d)'
<1> USE DEF ApiInv, IInv, TypeOK, ReadsTypeOK
<1>1. SUFFICES ASSUME at'[d] = "done", req'[d].op = "uninstall",
                      req'[d].id \in known'[d].seen, answer'[d] = "ok"
               PROVE  FALSE
  BY DEF RemovalOK, Running
<1>2. ASSUME at'[d] = at[d], req'[d] = req[d], answer'[d] = answer[d],
             known'[d] = known[d]
      PROVE  FALSE
  BY <1>1, <1>2 DEF RemovalOK, Running
<1>3. CASE ReadStep(c) \/ Refused(c)
  <2>1. at' = at /\ req' = req /\ answer' = answer
    BY <1>3, ReadsChangeNothing DEF vars
  <2>2. CASE d # c
    BY <1>2, <2>1, <2>2, OtherReads
  <2>3. CASE d = c /\ known'[c] # known[c]
    <3>1. CASE Query(c)
      BY <1>1, <2>1, <2>3, <3>1 DEF Query, Free
    <3>2. CASE EndRead(c)
      BY <1>1, <2>3, <3>2 DEF EndRead, NoKnowledge
    <3>3. CASE ReadStatement(c) \/ Refused(c)
      BY <2>3, <3>3 DEF ReadStatement, RestGetResource, GrpcGetResource,
         ListResources, ListServices, CountResources, CountServices, ReadFailed,
         Refused, Refuse
    <3>. QED
      BY <1>3, <3>1, <3>2, <3>3 DEF ReadStep, ReadReplied, ReadDropped
  <2>. QED
    BY <1>2, <2>1, <2>2, <2>3
<1>4. CASE d # c /\ (CallBegun(c) \/ CallGoesOn(c) \/ CallEnded(c))
  BY <1>2, <1>4, CallsAreCalls, OthersUntouched, OtherReads
<1>5. CASE d = c /\ (CallBegun(c) \/ CallEnded(c))
  BY <1>1, <1>5 DEF CallBegun, Call, Begin, CallEnded, WriteReplied, Return,
     WriteDropped, DropCall, Reset
<1>6. CASE d = c /\ CallGoesOn(c)
  <2>1. Statement(c) /\ known' = known
    BY <1>6 DEF CallGoesOn, readvars
  <2>2. CASE UninstallDelete(c)
    <3>1. req[c].id \in ResourcesIn(services)
      BY <1>1, <1>6, <2>1, <2>2 DEF UninstallDelete, Finish, ReadOK, HistoryOK
    <3>2. References(services, req[c].id) # {}
      BY <3>1 DEF ResourcesIn, References
    <3>. QED
      BY <1>1, <1>6, <2>2, <3>2 DEF UninstallDelete, Finish
  <2>3. CASE UninstallFind(c)
    BY <1>1, <1>6, <2>3 DEF UninstallFind, GoTo, Finish
  <2>4. CASE StatementError(c)
    BY <1>1, <1>6, <2>4 DEF StatementError, Finish
  <2>5. CASE \/ InstallFind(c) \/ InstallInsert(c)
             \/ UpsertReread(c) \/ UpsertWrite(c)
             \/ SetResourceStatusFind(c) \/ SetResourceStatusWrite(c)
             \/ AddServiceInsert(c)
             \/ UpsertServiceFind(c) \/ UpsertServiceWrite(c)
             \/ SetServiceStatusFind(c) \/ SetServiceStatusWrite(c)
    <3>1. req[c].op # "uninstall"
      BY <2>5 DEF Running, InstallFind, InstallInsert, UpsertReread, UpsertWrite,
         SetResourceStatusFind, SetResourceStatusWrite, AddServiceInsert,
         UpsertServiceFind, UpsertServiceWrite, SetServiceStatusFind,
         SetServiceStatusWrite
    <3>2. req' = req
      BY <2>5 DEF InstallFind, InstallInsert, UpsertReread, UpsertWrite,
         SetResourceStatusFind, SetResourceStatusWrite, AddServiceInsert,
         UpsertServiceFind, UpsertServiceWrite, SetServiceStatusFind,
         SetServiceStatusWrite, HoldNamed, GoTo, Finish
    <3>. QED
      BY <1>1, <1>6, <3>1, <3>2
  <2>. QED
    BY <2>1, <2>2, <2>3, <2>4, <2>5 DEF Statement
<1>. QED
  BY <1>3, <1>4, <1>5, <1>6, ApiForms

\* Every step of a client keeps the invariant and all registrations.
LEMMA ApiInvStep ==
  ASSUME ApiInv, [ApiNext]_apivars
  PROVE  ApiInv' /\ ServicesKept
<1> USE DEF ApiInv
<1>1. IInv' /\ ServicesKept
  BY ApiIsInventory, InvariantStep
<1>2. CASE UNCHANGED apivars
  <2>1. UNCHANGED <<vars, readvars, history>>
    BY <1>2 DEF apivars
  <2>2. ReadsTypeOK' /\ HistoryOK' /\ WrittenOK'
    BY <2>1 DEF vars, readvars, history, ReadsTypeOK, HistoryOK, WrittenOK,
       NamesIn, ResourcesIn, Running
  <2>3. \A c \in Clients : ReadOK(c)'
    BY <1>1, <2>1, ReadStays DEF readvars, history
  <2>4. \A c \in Clients : RemovalOK(c)'
    BY <2>1 DEF vars, readvars, RemovalOK, Running
  <2>. QED
    BY <1>1, <2>2, <2>3, <2>4
<1>3. ASSUME NEW c \in Clients, ApiStep(c)
      PROVE  ApiInv'
  <2>1. ReadsTypeOK'
    BY <1>3, ReadsTypeStep DEF IInv
  <2>2. HistoryOK' /\ acked \subseteq acked' /\ seen \subseteq seen'
    BY <1>1, <1>3, HistoryStep
  <2>3. WrittenOK'
    <3>1. ClientStep(c) \/ UNCHANGED vars
      BY <1>3, ApiForms, CallsAreCalls, ReadsChangeNothing
    <3>2. CASE UNCHANGED vars
      BY <3>2 DEF vars, WrittenOK, Running, NamesIn
    <3>. QED
      BY <1>3, <3>1, <3>2, WrittenStep
  <2>4. ASSUME NEW d \in Clients \ {c} PROVE ReadOK(d)'
    BY <1>1, <1>3, <2>2, <2>4, OtherReads, ReadStays
  <2>5. ReadOK(c)'
    <3>1. CASE CallGoesOn(c) \/ CallEnded(c)
      <4>1. UNCHANGED <<query, status, found>>
        BY <3>1, CallsAreCalls
      <4>2. known'[c] = known[c] \/ known'[c] = NoKnowledge
        BY <3>1 DEF CallGoesOn, readvars, CallEnded, WriteReplied, WriteDropped,
           ReadsTypeOK
      <4>. QED
        BY <1>1, <2>2, <4>1, <4>2, ReadStays
    <3>2. CASE CallBegun(c)
      BY <1>1, <3>2, CallBegins
    <3>3. CASE EndRead(c)
      BY <3>3, ReadEnded
    <3>4. CASE ReadStep(c) \/ Refused(c)
      BY <3>3, <3>4, OwnRead, ReadsChangeNothing
         DEF ReadStep, ReadReplied, ReadDropped
    <3>. QED
      BY <1>3, <3>1, <3>2, <3>4, ApiForms
  <2>6. ASSUME NEW d \in Clients PROVE RemovalOK(d)'
    BY <1>3, RemovalStep
  <2>. QED
    BY <1>1, <2>1, <2>2, <2>3, <2>4, <2>5, <2>6
<1>. QED
  BY <1>1, <1>2, <1>3 DEF ApiNext

\* At the start nobody has been told anything.
LEMMA ApiInvInit ==
  ASSUME ApiInit
  PROVE  ApiInv
<1>1. IInv /\ ReadsTypeOK
  BY ApiStart, ReadsTypeInit
<1>2. WrittenOK
  BY DEF ApiInit, Init, WrittenOK, Running
<1>3. HistoryOK
  BY DEF ApiInit, HistoryOK
<1>4. ASSUME NEW c \in Clients PROVE ReadOK(c) /\ RemovalOK(c)
  <2>1. /\ query[c] = NoQuery /\ status[c] = "none" /\ found[c] = Nothing
        /\ known[c] = NoKnowledge /\ at[c] = "idle"
    BY DEF ApiInit, Init
  <2>2. ResourcesIn(found[c].services) = {}
    BY <2>1, EmptyTableType DEF Nothing, ResourcesIn
  <2>. QED
    BY <2>1, <2>2 DEF ReadOK, Delivered, NoQuery, NoKnowledge, RemovalOK, Running
<1>. QED
  BY <1>1, <1>2, <1>3, <1>4 DEF ApiInv

\* The invariant of the two servers.
THEOREM ApiInductive == ApiSpec => []ApiInv
<1>1. ApiInit => ApiInv
  BY ApiInvInit
<1>2. ApiInv /\ [ApiNext]_apivars => ApiInv'
  BY ApiInvStep
<1>. QED
  BY <1>1, <1>2, PTL DEF ApiSpec

\* Whoever was told that an instance is registered finds its name in every
\* later list of either server.
THEOREM AcknowledgedStays == ApiSpec => []AcknowledgedIsListed
<1>1. ApiInv => AcknowledgedIsListed
  BY DEF ApiInv, ReadOK, AcknowledgedIsListed, Delivered, NamesIn
<1>. QED
  BY <1>1, ApiInductive, PTL

\* Whoever was shown an instance finds its resource in every later list, and
\* over gRPC by its id.
THEOREM ListedResourceIsPinned == ApiSpec => []ListedResourceStays
<1>1. ApiInv => ListedResourceStays
  BY DEF ApiInv, ReadOK, ListedResourceStays
<1>. QED
  BY <1>1, ApiInductive, PTL

\* Nobody is told that a resource was removed which an instance shown before
\* needs.
THEOREM RefusedRemovalIsTold == ApiSpec => []NoFalseRemoval
<1>1. ApiInv => NoFalseRemoval
  BY SuccessIsOk DEF ApiInv, RemovalOK, NoFalseRemoval
<1>. QED
  BY <1>1, ApiInductive, PTL

\* A summary counts every instance registered before it was asked for, and the
\* resource of each.
THEOREM SummarySkewIsNew == ApiSpec => []SummaryCoversRegistered
<1>1. ApiInv => SummaryCoversRegistered
  BY DEF ApiInv, ReadOK, Counted, SummaryCoversRegistered
<1>. QED
  BY <1>1, ApiInductive, PTL

=============================================================================
