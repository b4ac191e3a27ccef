--------------------------- MODULE InventoryStore ----------------------------
(***************************************************************************)
(* What the InventoryStore trait promises its callers: every call takes    *)
(* effect in one atomic step, in which it is also answered; a call that is *)
(* refused, or dropped before it is answered, leaves both tables as they   *)
(* are.                                                                    *)
(*                                                                         *)
(* Two answers are as weak as the code makes them, because the code looks  *)
(* a row up and writes it in separate statements: an uninstall may answer  *)
(* ok when somebody else has just removed the row, and upsert_service may  *)
(* insert a second row with a name that is already taken.                  *)
(***************************************************************************)
EXTENDS InventoryTables

CONSTANT Clients

VARIABLES resources, services, req, answer

vars == <<resources, services, req, answer>>

\* The database is new, or as an earlier run has left it.
Init ==
    /\ resources \in Table(ResourceIds, ResourceRow)
    /\ services \in Table(ServiceIds, ServiceRow)
    /\ \A s \in DOMAIN services : services[s].resource_id \in DOMAIN resources
    /\ req = [c \in Clients |-> NoRequest]
    /\ answer = [c \in Clients |-> "none"]

Call(c) ==
    /\ req[c] = NoRequest
    /\ \E r \in Requests : req' = [req EXCEPT ![c] = r]
    /\ UNCHANGED <<resources, services, answer>>

Awaiting(c, ops) == answer[c] = "none" /\ req[c].op \in ops

Respond(c, a) == answer' = [answer EXCEPT ![c] = a] /\ UNCHANGED req

-----------------------------------------------------------------------------

\* Insert the resource under a free id.
InsertResource(c) ==
    /\ Awaiting(c, {"install", "upsert_resource"})
    /\ req[c].id \notin DOMAIN resources
    /\ resources' = Put(resources, req[c].id, req[c].row)
    /\ Respond(c, "ok")
    /\ UNCHANGED services

\* install refuses an id that is present when it answers.
RefuseDuplicate(c) ==
    /\ Awaiting(c, {"install"})
    /\ req[c].id \in DOMAIN resources
    /\ Respond(c, "already_installed")
    /\ UNCHANGED <<resources, services>>

UpdateResource(c) ==
    /\ Awaiting(c, {"upsert_resource"})
    /\ req[c].id \in DOMAIN resources
    /\ resources' = [resources EXCEPT ![req[c].id] =
                        OverwriteResource(@, req[c].row)]
    /\ Respond(c, "ok")
    /\ UNCHANGED services

\* After an uninstall that answers ok the id is absent; a resource that a
\* service instance references is never removed.
RemoveResource(c) ==
    /\ Awaiting(c, {"uninstall"})
    /\ References(services, req[c].id) = {}
    /\ resources' = Drop(resources, req[c].id)
    /\ Respond(c, "ok")
    /\ UNCHANGED services

UpdateResourceStatus(c) ==
    /\ Awaiting(c, {"set_resource_status"})
    /\ req[c].id \in DOMAIN resources
    /\ resources' = [resources EXCEPT ![req[c].id].status = req[c].status]
    /\ Respond(c, "ok")
    /\ UNCHANGED services

\* not_found is only ever said of an id that is absent at that moment.
ResourceMissing(c) ==
    /\ Awaiting(c, {"upsert_resource", "uninstall", "set_resource_status"})
    /\ req[c].id \notin DOMAIN resources
    /\ Respond(c, "not_found")
    /\ UNCHANGED <<resources, services>>

-----------------------------------------------------------------------------

\* A new instance has a free id and belongs to an installed resource.
InsertService(c) ==
    /\ Awaiting(c, {"add_service", "upsert_service"})
    /\ req[c].id \notin DOMAIN services
    /\ req[c].row.resource_id \in DOMAIN resources
    /\ services' = Put(services, req[c].id, req[c].row)
    /\ Respond(c, "ok")
    /\ UNCHANGED resources

UpdateService(c) ==
    /\ Awaiting(c, {"upsert_service"})
    /\ \E s \in Named(services, NameSought(req[c])) :
          services' = [services EXCEPT ![s] = OverwriteService(@, req[c].row)]
    /\ Respond(c, "ok")
    /\ UNCHANGED resources

UpdateServiceStatus(c) ==
    /\ Awaiting(c, {"set_service_status_by_name"})
    /\ \E s \in Named(services, NameSought(req[c])) :
          services' = [services EXCEPT ![s].status = req[c].status]
    /\ Respond(c, "ok")
    /\ UNCHANGED resources

ServiceMissing(c) ==
    /\ Awaiting(c, {"set_service_status_by_name"})
    /\ Named(services, NameSought(req[c])) = {}
    /\ Respond(c, "not_found")
    /\ UNCHANGED <<resources, services>>

-----------------------------------------------------------------------------

\* InventoryError::Database, at any time and without any effect.
Refuse(c) ==
    /\ Awaiting(c, AllOperations)
    /\ Respond(c, "database")
    /\ UNCHANGED <<resources, services>>

\* A caller has taken the answer, or has gone away; the callers in a process
\* go away together.
Forget(gone) ==
    /\ req' = [c \in Clients |-> IF c \in gone THEN NoRequest ELSE req[c]]
    /\ answer' = [c \in Clients |-> IF c \in gone THEN "none" ELSE answer[c]]
    /\ UNCHANGED <<resources, services>>

Next ==
    \/ \E c \in Clients :
        \/ Call(c)
        \/ InsertResource(c) \/ RefuseDuplicate(c) \/ UpdateResource(c)
        \/ RemoveResource(c) \/ UpdateResourceStatus(c) \/ ResourceMissing(c)
        \/ InsertService(c) \/ UpdateService(c)
        \/ UpdateServiceStatus(c) \/ ServiceMissing(c)
        \/ Refuse(c)
    \/ \E gone \in SUBSET Clients : Forget(gone)

Spec == Init /\ [][Next]_vars
==============================================================================
