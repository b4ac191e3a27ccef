----------------------------- MODULE InventoryApi -----------------------------
(***************************************************************************)
(* The Inventory behind its REST and gRPC servers: what a client of the    *)
(* daemon sees of it.                                                      *)
(*                                                                         *)
(* A connection serves one request at a time. A write is decoded and       *)
(* becomes one call of the Inventory, whose Result is mapped to a status.  *)
(* A read is one SELECT, or two for the summary, which GET /status and     *)
(* GetStatus make one after the other.                                     *)
(*                                                                         *)
(* REST cannot name a single resource: axum 0.7 (Cargo.toml:44) writes a   *)
(* parameter of a path as :id, and takes the braces of "/resources/{id}"   *)
(* (rest.rs:91) literally. No id matches that path, so the router answers  *)
(* GET and DELETE of a resource itself, and get_resource and               *)
(* uninstall_resource (rest.rs:203-240) are never called.                  *)
(***************************************************************************)
EXTENDS Inventory

CONSTANT RestClients    \* the connections to the REST server

ASSUME RestAssumption == RestClients \subseteq Clients

VARIABLES
    query,      \* the read that each connection is serving
    status,     \* the status it was answered with
    found,      \* the rows that its SELECTs returned
    known,      \* history: what was known when the request came
    acked,      \* history: the instance names registered with success
    seen        \* history: the resources of the instances listed so far

readvars == <<query, status, found, known>>
history == <<acked, seen>>
apivars == <<vars, readvars, history>>

GrpcClients == Clients \ RestClients

NoQuery == [kind |-> "none"]
Queries == [kind : {"resource"}, id : ResourceIds]
               \cup [kind : {"resources", "services", "status"}]

Nothing == [resources |-> {}, services |-> EmptyTable]

\* What clients have been told, and which instances there are.
Knowledge == [acked |-> acked, seen |-> seen, registered |-> DOMAIN services]

NoKnowledge == [acked |-> {}, seen |-> {}, registered |-> {}]

ApiInit ==
    /\ Init
    /\ query = [c \in Clients |-> NoQuery]
    /\ status = [c \in Clients |-> "none"]
    /\ found = [c \in Clients |-> Nothing]
    /\ known = [c \in Clients |-> NoKnowledge]
    /\ acked = {}
    /\ seen = {}

Free(c) == at[c] = "idle" /\ query[c] = NoQuery

-----------------------------------------------------------------------------
(* Writes *)

\* Mutant of RestStatus: every outcome of a call is 200.
RestAccepted(result) == "200"

\* The two upserts do not distinguish errors.
RestStatus(result) == IF result = "ok" THEN "200" ELSE "500"

\* Mutant of GrpcStatus: an error is only logged, as the bus handler does.
GrpcAccepted(result) == IF result = "not_found" THEN "not_found" ELSE "ok"

GrpcStatus(result) ==
    CASE result = "ok" -> "ok"
      [] result = "not_found" -> "not_found"
      [] result = "already_installed" -> "already_exists"
      [] OTHER -> "internal"

WriteStatus(c) ==
    IF c \in RestClients THEN RestStatus(answer[c]) ELSE GrpcStatus(answer[c])

Success == {"200", "ok"}

Call(c, op) ==
    /\ Free(c)
    /\ \E r \in Requests : r.op = op /\ Begin(c, r)
    /\ known' = [known EXCEPT ![c] = Knowledge]
    /\ UNCHANGED <<query, status, found, history>>

\* The request does not decode, or has no route: nothing is called.
Refuse(c, code) ==
    /\ Free(c)
    /\ query' = [query EXCEPT ![c] = [kind |-> "refused"]]
    /\ status' = [status EXCEPT ![c] = code]
    /\ UNCHANGED <<vars, found, known, history>>

\* REST: the body may be no resource, or no service instance.
RestUpsertResource(c) ==
    c \in RestClients /\ (Call(c, "upsert_resource") \/ Refuse(c, "400"))

\* DELETE /resources/<id> has no route.
RestUninstall(c) == c \in RestClients /\ Refuse(c, "404")

RestUpsertService(c) ==
    c \in RestClients /\ (Call(c, "upsert_service") \/ Refuse(c, "400"))

\* gRPC: only a missing message is refused; bad fields get default values.
GrpcUpsertResource(c) ==
    /\ c \in GrpcClients
    /\ Call(c, "upsert_resource") \/ Refuse(c, "invalid_argument")

GrpcUninstall(c) == c \in GrpcClients /\ Call(c, "uninstall")

GrpcUpsertService(c) ==
    /\ c \in GrpcClients
    /\ Call(c, "upsert_service") \/ Refuse(c, "invalid_argument")

Write(c) ==
    \/ RestUpsertResource(c) \/ RestUninstall(c) \/ RestUpsertService(c)
    \/ GrpcUpsertResource(c) \/ GrpcUninstall(c) \/ GrpcUpsertService(c)

\* The client gets the status; acked remembers what it was told.
WriteReplied(c) ==
    /\ Return(c)
    /\ acked' = IF req[c].op = "upsert_service" /\ WriteStatus(c) \in Success
                THEN acked \cup {req[c].row.instance_name} ELSE acked
    /\ known' = [known EXCEPT ![c] = NoKnowledge]
    /\ UNCHANGED <<query, status, found, seen>>

\* The connection is closed, and the server drops the task of the call.
WriteDropped(c) ==
    /\ DropCall(c)
    /\ known' = [known EXCEPT ![c] = NoKnowledge]
    /\ UNCHANGED <<query, status, found, history>>

-----------------------------------------------------------------------------
(* Reads *)

Query(c) ==
    /\ Free(c)
    /\ \E q \in Queries : query' = [query EXCEPT ![c] = q]
    /\ known' = [known EXCEPT ![c] = Knowledge]
    /\ UNCHANGED <<vars, status, found, history>>

Reading(c, kinds) == query[c].kind \in kinds /\ status[c] = "none"

Answered(c) ==
    status' = [status EXCEPT ![c] = IF c \in RestClients THEN "200" ELSE "ok"]

Unrouted(c) == c \in RestClients /\ query[c].kind = "resource"

\* GET /resources/<id> has no route: 404, whatever is installed.
RestGetResource(c) ==
    /\ Unrouted(c)
    /\ Reading(c, {"resource"})
    /\ status' = [status EXCEPT ![c] = "404"]
    /\ UNCHANGED <<vars, query, found, known, history>>

\* SELECT by id. gRPC answers ok with or without a row, and a flag.
GrpcGetResource(c) ==
    /\ c \in GrpcClients
    /\ Reading(c, {"resource"})
    /\ found' = [found EXCEPT ![c].resources = {query[c].id} \cap DOMAIN resources]
    /\ Answered(c)
    /\ UNCHANGED <<vars, query, known, history>>

ListResources(c) ==
    /\ Reading(c, {"resources"})
    /\ found' = [found EXCEPT ![c].resources = DOMAIN resources]
    /\ Answered(c)
    /\ UNCHANGED <<vars, query, known, history>>

ListServices(c) ==
    /\ Reading(c, {"services"})
    /\ found' = [found EXCEPT ![c].services = services]
    /\ Answered(c)
    /\ UNCHANGED <<vars, query, known, history>>

\* The summary counts the resources, and then, anything may have run in
\* between, the services.
CountResources(c) ==
    /\ Reading(c, {"status"})
    /\ query' = [query EXCEPT ![c] = [kind |-> "status2"]]
    /\ found' = [found EXCEPT ![c].resources = DOMAIN resources]
    /\ UNCHANGED <<vars, status, known, history>>

\* Mutant of CountServices: the summary is read again until it is a snapshot.
CountServicesOrRetry(c) ==
    /\ Reading(c, {"status2"})
    /\ \/ /\ found[c].resources = DOMAIN resources
          /\ found' = [found EXCEPT ![c].services = services]
          /\ Answered(c)
          /\ UNCHANGED query
       \/ /\ found[c].resources # DOMAIN resources
          /\ query' = [query EXCEPT ![c] = [kind |-> "status"]]
          /\ UNCHANGED <<status, found>>
    /\ UNCHANGED <<vars, known, history>>

CountServices(c) ==
    /\ Reading(c, {"status2"})
    /\ found' = [found EXCEPT ![c].services = services]
    /\ Answered(c)
    /\ UNCHANGED <<vars, query, known, history>>

ReadFailed(c) ==
    /\ "statement_error" \in Disruptions
    /\ ~Unrouted(c)
    /\ Reading(c, {"resource", "resources", "services", "status", "status2"})
    /\ status' = [status EXCEPT ![c] =
                     IF c \in RestClients THEN "500" ELSE "internal"]
    /\ UNCHANGED <<vars, query, found, known, history>>

EndRead(c) ==
    /\ query' = [query EXCEPT ![c] = NoQuery]
    /\ status' = [status EXCEPT ![c] = "none"]
    /\ found' = [found EXCEPT ![c] = Nothing]
    /\ known' = [known EXCEPT ![c] = NoKnowledge]
    /\ UNCHANGED <<vars, acked>>

\* The client gets the reply; seen remembers what it was shown.
ReadReplied(c) ==
    /\ status[c] # "none"
    /\ seen' = IF status[c] \in Success
               THEN seen \cup {found[c].services[s].resource_id :
                                  s \in DOMAIN found[c].services}
               ELSE seen
    /\ EndRead(c)

\* The connection is closed before the reply, or the reply is lost.
ReadDropped(c) ==
    /\ "dropped_call" \in Disruptions
    /\ query[c] # NoQuery
    /\ EndRead(c)
    /\ UNCHANGED seen

-----------------------------------------------------------------------------

ReadStatement(c) ==
    \/ RestGetResource(c) \/ GrpcGetResource(c)
    \/ ListResources(c) \/ ListServices(c)
    \/ CountResources(c) \/ CountServices(c) \/ ReadFailed(c)

ApiStep(c) ==
    \/ Write(c) \/ Query(c)
    \/ Statement(c) /\ UNCHANGED <<readvars, history>>
    \/ ReadStatement(c)
    \/ WriteReplied(c) \/ WriteDropped(c) \/ ReadReplied(c) \/ ReadDropped(c)

ApiNext == \E c \in Clients : ApiStep(c)

\* The servers poll their tasks, and SQLite finishes or fails every statement;
\* no client need send a request or wait for the reply.
ApiFairness ==
    \A c \in Clients :
       /\ WF_apivars(Statement(c) /\ UNCHANGED <<readvars, history>>)
       /\ WF_apivars(ReadStatement(c))

ApiSpec == ApiInit /\ [][ApiNext]_apivars /\ ApiFairness

-----------------------------------------------------------------------------
(* Properties *)

Statuses == {"none", "200", "400", "404", "500", "ok", "not_found",
             "already_exists", "internal", "invalid_argument"}

ApiTypeOK ==
    /\ TypeOK
    /\ query \in [Clients -> Queries \cup {NoQuery, [kind |-> "status2"],
                                           [kind |-> "refused"]}]
    /\ status \in [Clients -> Statuses]
    /\ \A c \in Clients :
          /\ found[c].resources \in SUBSET ResourceIds
          /\ found[c].services \in Table(ServiceIds, ServiceRow)
    /\ known \in [Clients -> [acked : SUBSET InstanceNames,
                              seen : SUBSET ResourceIds,
                              registered : SUBSET ServiceIds]]
    /\ acked \in SUBSET InstanceNames
    /\ seen \in SUBSET ResourceIds

Delivered(c, kinds) == query[c].kind \in kinds /\ status[c] \in Success

\* A client that was told that an instance is registered finds its name in
\* every later list, from either server, whatever others upsert, remove or
\* abandon, and although the write looks the name up before it inserts.
AcknowledgedIsListed ==
    \A c \in Clients :
       Delivered(c, {"services"}) =>
          known[c].acked \subseteq {found[c].services[s].instance_name :
                                       s \in DOMAIN found[c].services}

\* A client that was shown an instance can rely on the resource it names: it
\* is in every later list of either server, and a later GetResource of gRPC
\* finds it, although others may remove resources at any time
\* (rest.rs:149-160, grpc.rs:163-200).
ListedResourceStays ==
    \A c \in Clients :
       /\ Delivered(c, {"resources"}) => known[c].seen \subseteq found[c].resources
       /\ Delivered(c, {"resource"}) /\ query[c].id \in known[c].seen =>
             query[c].id \in found[c].resources

\* Once an instance has been shown, to whomever, nobody who then asks to remove
\* its resource is told that this was done: the foreign key refuses the DELETE
\* in whatever order lookups, registrations and removals run, and the refusal
\* gets through to the client (repo.rs:119-127, grpc.rs:130-137, 163-175).
NoFalseRemoval ==
    \A c \in Clients :
       /\ Running(c, {"uninstall"}, "done")
       /\ req[c].id \in known[c].seen
       => WriteStatus(c) \notin Success

\* A summary is not a snapshot: the instances are read after the resources,
\* and one registered in between is counted without its resource. The skew
\* ends there: each instance that was registered before the summary was asked
\* for is counted, and the resource it names is counted too, so the number of
\* services never goes down from one summary to a later one
\* (rest.rs:116-143, grpc.rs:237-248).
SummaryCoversRegistered ==
    \A c \in Clients :
       Delivered(c, {"status2"}) =>
          \A s \in known[c].registered :
             /\ s \in DOMAIN found[c].services
             /\ found[c].services[s].resource_id \in found[c].resources

\* Every request is answered, or its connection is closed: no handler waits for
\* the tables to come to rest, though others change them between the two reads
\* of a summary and between the lookup and the write of an upsert.
EveryRequestAnswered ==
    \A c \in Clients :
       LET Pending == AtStatement(c) \/ (query[c] # NoQuery /\ status[c] = "none")
       IN  Pending ~> ~Pending

-----------------------------------------------------------------------------
(* What the repository says of the API, and the code does not keep *)

\* rest.rs:9, 195-201 "GET /resources/{id} - get resource by id", 200 when it
\* is found: a resource that cannot have gone, since an instance of it has
\* been shown, is not answered with 404.
ShownResourceIsServed ==
    \A c \in RestClients :
       query[c].kind = "resource" /\ query[c].id \in known[c].seen =>
          status[c] # "404"
==============================================================================
