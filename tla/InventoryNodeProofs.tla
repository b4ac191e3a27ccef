-------------------------- MODULE InventoryNodeProofs --------------------------
(***************************************************************************)
(* Proofs about InventoryNode: for any number of daemons and commands,     *)
(* starting, failing and dying around one database of any age, the schema  *)
(* is complete for whoever could alter it, and calls stay atomic.          *)
(***************************************************************************)
EXTENDS InventoryNode, InventoryProofs

(***************************************************************************)
(* The schema.                                                             *)
(***************************************************************************)

\* What the phase of a process says of the schema: each statement of open
\* leaves something behind that nobody takes away.
SchemaInv ==
    /\ schema \in Schemas
    /\ phase \in [Processes -> Opening \cup {"bind", "serving", "command", "exited"}]
    /\ \A p \in Processes :
          /\ phase[p] \notin {"exited", "resources"} => schema.resources # "none"
          /\ phase[p] \notin {"exited", "resources", "services"} => schema.services
          /\ phase[p] \notin {"exited", "resources", "services", "index"} =>
                schema.index
          /\ phase[p] \in {"bind", "serving", "command"} /\ p \notin refused =>
                schema.resources = "current"

\* The schema only grows, and where a process ends it needs nothing.
LEMMA SchemaStep ==
  ASSUME SchemaInv, [NodeNext]_allvars
  PROVE  SchemaInv'
<1> USE DEF SchemaInv, Schemas, Opening
<1>1. ASSUME NEW p \in Processes, Start(p) PROVE SchemaInv'
  BY <1>1 DEF Start
<1>2. ASSUME NEW p \in Processes, End(p) PROVE SchemaInv'
  BY <1>2 DEF End
<1>3. ASSUME NEW p \in Processes, CreateResources(p) PROVE SchemaInv'
  BY <1>3 DEF CreateResources, GoOn
<1>4. ASSUME NEW p \in Processes, CreateServices(p) PROVE SchemaInv'
  BY <1>4 DEF CreateServices, GoOn
<1>5. ASSUME NEW p \in Processes, CreateIndex(p) PROVE SchemaInv'
  BY <1>5 DEF CreateIndex, GoOn
<1>6. ASSUME NEW p \in Processes, Migrate(p) PROVE SchemaInv'
  BY <1>6 DEF Migrate, Opened, GoOn
<1>7. ASSUME NEW p \in Processes, MigrateRefused(p) PROVE SchemaInv'
  BY <1>7 DEF MigrateRefused, Opened, GoOn
<1>8. ASSUME NEW p \in Daemons, BindRest(p) \/ BindGrpc(p) \/ ServerEnds(p)
      PROVE  SchemaInv'
  <2>1. p \in Processes
    BY DEF Processes
  <2>2. CASE End(p)
    BY <2>1, <2>2, <1>2
  <2>3. CASE ~End(p)
    BY <1>8, <2>1, <2>3 DEF BindRest, BindGrpc, ServerEnds, Listen
  <2>. QED
    BY <2>2, <2>3
<1>9. ASSUME NEW p \in Processes, Command(p) PROVE SchemaInv'
  <2>1. CASE End(p)
    BY <2>1, <1>2
  <2>2. CASE UNCHANGED nodevars
    BY <2>2 DEF nodevars
  <2>. QED
    BY <1>9, <2>1, <2>2 DEF Command, CmdRead, CmdUninstall, CmdUninstalled
<1>10. CASE UNCHANGED nodevars
  BY <1>10 DEF nodevars
<1>11. ASSUME NEW p \in Processes, Start(p) \/ Killed(p) \/ ProcessStep(p)
       PROVE  SchemaInv'
  BY <1>11, <1>1, <1>2, <1>3, <1>4, <1>5, <1>6, <1>7, <1>8, <1>9
     DEF Killed, ProcessStep, Open, SchemaError
<1>12. ASSUME NEW c \in Clients, Task(c) \/ Run(c) PROVE SchemaInv'
  BY <1>12, <1>10 DEF Task, Run
<1>. QED
  BY <1>8, <1>10, <1>11, <1>12 DEF NodeNext, allvars

\* Whatever processes start, fail and die at the same time, a process that
\* has opened the database finds the whole schema, unless its own ALTER TABLE
\* was refused.
THEOREM SchemaIsComplete == NodeSpec => []WorkingSchema
<1>1. NodeInit => SchemaInv
  BY DEF NodeInit, SchemaInv, Opening
<1>2. SchemaInv /\ [NodeNext]_allvars => SchemaInv'
  BY SchemaStep
<1>3. SchemaInv => WorkingSchema
  BY DEF SchemaInv, WorkingSchema, Complete, Schemas
<1>. QED
  BY <1>1, <1>2, <1>3, PTL DEF NodeSpec

(***************************************************************************)
(* The calls.                                                              *)
(***************************************************************************)

\* A step of the node is a step of one caller, takes callers away, refuses a
\* statement, or leaves the Inventory alone.
LEMMA NodeForms ==
  ASSUME IInv, [NodeNext]_allvars
  PROVE  \/ [Next]_vars
         \/ \E gone \in SUBSET Clients : Gone(gone)
         \/ \E c \in Clients :
               /\ AtStatement(c)
               /\ Finish(c, "database")
               /\ UNCHANGED tables
<1>1. ASSUME NEW p \in Processes, End(p)
      PROVE  \E gone \in SUBSET Clients : Gone(gone)
  <2>1. ClientsOf(p) \in SUBSET Clients
    BY DEF ClientsOf
  <2>2. Gone(ClientsOf(p))
    BY <1>1 DEF End, Gone
  <2>. QED
    BY <2>1, <2>2
<1>2. ASSUME NEW p \in Processes, Open(p)
      PROVE  End(p) \/ UNCHANGED vars
  BY <1>2 DEF Open, CreateResources, CreateServices, CreateIndex, SchemaError,
     Migrate, MigrateRefused
<1>3. ASSUME NEW p \in Daemons, BindRest(p) \/ BindGrpc(p) \/ ServerEnds(p)
      PROVE  End(p) \/ UNCHANGED vars
  BY <1>3 DEF BindRest, BindGrpc, ServerEnds, Listen
<1>4. ASSUME NEW p \in Processes, CmdUninstall(p)
      PROVE  Next
  <2>1. PICK c \in ClientsOf(p), id \in ResourceIds :
           Begin(c, [op |-> "uninstall", id |-> id])
    BY <1>4 DEF CmdUninstall
  <2>2. c \in Clients
    BY DEF ClientsOf
  <2>3. [op |-> "uninstall", id |-> id] \in Requests
    BY ProcessesAssumption DEF Requests, Removal
  <2>. QED
    BY <2>1, <2>2, <2>3 DEF Next, ClientStep
<1>5. ASSUME NEW p \in Processes, Command(p)
      PROVE  End(p) \/ Next
  BY <1>5, <1>4 DEF Command, CmdRead, CmdUninstalled
<1>6. ASSUME NEW p \in Processes, Start(p) \/ Killed(p) \/ ProcessStep(p)
      PROVE  End(p) \/ UNCHANGED vars \/ Next
  BY <1>6, <1>2, <1>3, <1>5 DEF Start, Killed, ProcessStep
<1>7. ASSUME NEW c \in Clients, Task(c)
      PROVE  Next
  BY <1>7 DEF Task, Next, ClientStep
<1>8. ASSUME NEW c \in Clients, Run(c)
      PROVE  \/ Next
             \/ AtStatement(c) /\ Finish(c, "database") /\ UNCHANGED tables
  BY <1>8 DEF Run, Statements, Next, ClientStep
<1>9. CASE UNCHANGED allvars
  BY <1>9 DEF allvars
<1>10. ASSUME NEW p \in Daemons, ServerEnds(p)
       PROVE  (\E gone \in SUBSET Clients : Gone(gone)) \/ UNCHANGED vars
  BY <1>10, <1>1, <1>3 DEF Processes
<1>. QED
  BY <1>1, <1>6, <1>7, <1>8, <1>9, <1>10 DEF NodeNext

\* A node may start on whatever consistent database it finds.
LEMMA NodeStart ==
  ASSUME NodeInit
  PROVE  IInv /\ Store!Init
BY QuietStart DEF NodeInit, TablesTypeOK, Quiet

\* The inductive invariant of the Inventory survives processes coming and
\* going.
THEOREM NodeInvariance == NodeSpec => []IInv
<1>1. NodeInit => IInv
  BY NodeStart
<1>2. IInv /\ [NodeNext]_allvars => IInv'
  BY NodeForms, InvariantStep, GoneStep, RefusedStep
<1>. QED
  BY <1>1, <1>2, PTL DEF NodeSpec

\* For any number of processes that share the database, calls are atomic:
\* whatever a process does to others by starting, migrating or dying, no half
\* of a call is ever seen.
THEOREM NodeImplementsStore == NodeSpec => ImplementsStore
<1>1. NodeInit => Store!Init
  BY NodeStart
<1>2. IInv /\ [NodeNext]_allvars => [Store!Next]_(Store!vars)
  BY NodeForms, StepRefines, GoneStep, RefusedStep
<1>. QED
  BY <1>1, <1>2, NodeInvariance, PTL DEF NodeSpec, Store!Spec, ImplementsStore

(***************************************************************************)
(* The processes.                                                          *)
(***************************************************************************)

\* Only a process that serves listens, and no port has two listeners.
PortsInv ==
    /\ ports = [p \in Processes |-> ports[p]]
    /\ refused \in SUBSET Processes
    /\ \A p \in Processes : phase[p] # "serving" => ports[p] = {}
    /\ \A p, q \in Processes : p # q => ports[p] \cap ports[q] = {}

\* A port is taken only where nobody has it, and given back at the end.
LEMMA PortsStep ==
  ASSUME SchemaInv, PortsInv, [NodeNext]_allvars
  PROVE  PortsInv'
<1> USE DEF PortsInv, SchemaInv, Opening
<1>1. ASSUME NEW p \in Processes, End(p) PROVE PortsInv'
  BY <1>1 DEF End
<1>2. ASSUME NEW p \in Processes, phase[p] \in Opening \cup {"exited"},
             NEW next \in Opening \cup {"bind", "command"},
             phase' = [phase EXCEPT ![p] = next],
             refused' \in SUBSET Processes, ports' = ports
      PROVE  PortsInv'
  BY <1>2
<1>3. ASSUME NEW p \in Processes, Start(p) \/ Open(p), ~End(p) PROVE PortsInv'
  <2>1. CASE Start(p)
    BY <2>1, <1>2 DEF Start
  <2>2. CASE CreateResources(p) \/ CreateServices(p) \/ CreateIndex(p)
    BY <2>2, <1>2 DEF CreateResources, CreateServices, CreateIndex, GoOn
  <2>3. CASE Migrate(p) \/ MigrateRefused(p)
    BY <2>3, <1>2 DEF Migrate, MigrateRefused, Opened, GoOn
  <2>. QED
    BY <1>3, <2>1, <2>2, <2>3 DEF Open, SchemaError
<1>4. ASSUME NEW p \in Daemons, NEW port, ~InUse(port), Listen(p, port),
             phase' = [phase EXCEPT ![p] = "serving"]
      PROVE  PortsInv'
  <2>1. p \in Processes
    BY DEF Processes
  <2>2. ports' = [q \in Processes |->
                    IF q = p THEN ports[p] \cup {port} ELSE ports[q]]
    BY <1>4, <2>1 DEF Listen
  <2>3. \A q \in Processes : port \notin ports[q]
    BY <1>4 DEF InUse
  <2>4. phase' = [q \in Processes |-> IF q = p THEN "serving" ELSE phase[q]]
    BY <1>4, <2>1
  <2>5. \A q, r \in Processes : q # r => ports'[q] \cap ports'[r] = {}
    BY <2>2, <2>3
  <2>. QED
    BY <1>4, <2>2, <2>4, <2>5 DEF Listen
<1>5. ASSUME NEW p \in Daemons, BindRest(p) \/ BindGrpc(p) \/ ServerEnds(p)
      PROVE  PortsInv'
  <2>1. p \in Processes
    BY DEF Processes
  <2>2. CASE End(p)
    BY <2>1, <2>2, <1>1
  <2>3. CASE BindRest(p) /\ ~End(p)
    BY <2>3, <1>4 DEF BindRest
  <2>4. CASE BindGrpc(p) /\ ~End(p)
    <3>1. phase' = [phase EXCEPT ![p] = "serving"]
      BY <2>1, <2>4 DEF BindGrpc
    <3>. QED
      BY <2>4, <3>1, <1>4 DEF BindGrpc
  <2>. QED
    BY <1>5, <2>2, <2>3, <2>4 DEF ServerEnds
<1>6. CASE UNCHANGED nodevars
  BY <1>6 DEF nodevars
<1>7. ASSUME NEW p \in Processes, Command(p) PROVE PortsInv'
  BY <1>7, <1>1, <1>6 DEF Command, CmdRead, CmdUninstall, CmdUninstalled
<1>8. ASSUME NEW p \in Processes, Start(p) \/ Killed(p) \/ ProcessStep(p)
      PROVE  PortsInv'
  BY <1>8, <1>1, <1>3, <1>5, <1>7 DEF Killed, ProcessStep
<1>9. ASSUME NEW c \in Clients, Task(c) \/ Run(c) PROVE PortsInv'
  BY <1>9, <1>6 DEF Task, Run
<1>. QED
  BY <1>5, <1>6, <1>8, <1>9 DEF NodeNext, allvars

\* The calls in the database belong to processes that serve, or to commands.
CallersInv ==
    \A p \in Processes : phase[p] \notin {"serving", "command"} =>
       \A c \in ClientsOf(p) : at[c] = "idle"

\* A caller moves only while its process serves or makes its call.
LEMMA CallersStep ==
  ASSUME IInv, SchemaInv, CallersInv, [NodeNext]_allvars
  PROVE  CallersInv'
<1> USE DEF CallersInv, SchemaInv, Opening
<1>1. ASSUME NEW p \in Processes, End(p) PROVE CallersInv'
  BY <1>1 DEF End, ClientsOf
<1>2. ASSUME NEW p \in Processes, phase[p] \in Opening \cup {"exited", "bind"},
             NEW next, phase' = [phase EXCEPT ![p] = next], at' = at
      PROVE  CallersInv'
  BY <1>2
<1>3. CASE at' = at /\ phase' = phase
  BY <1>3 DEF ClientsOf
<1>4. ASSUME NEW p \in Processes, Start(p) \/ Open(p), ~End(p) PROVE CallersInv'
  <2>1. CASE Start(p)
    BY <2>1, <1>2 DEF Start, vars
  <2>2. CASE CreateResources(p) \/ CreateServices(p) \/ CreateIndex(p)
    BY <2>2, <1>2 DEF CreateResources, CreateServices, CreateIndex, GoOn, vars
  <2>3. CASE Migrate(p) \/ MigrateRefused(p)
    BY <2>3, <1>2 DEF Migrate, MigrateRefused, Opened, GoOn, vars
  <2>. QED
    BY <1>4, <2>1, <2>2, <2>3 DEF Open, SchemaError
<1>5. ASSUME NEW p \in Daemons, BindRest(p) \/ BindGrpc(p) \/ ServerEnds(p)
      PROVE  CallersInv'
  <2>1. p \in Processes
    BY DEF Processes
  <2>2. CASE End(p)
    BY <2>1, <2>2, <1>1
  <2>3. CASE BindRest(p) /\ ~End(p)
    BY <2>1, <2>3, <1>2 DEF BindRest, Listen, vars
  <2>4. CASE BindGrpc(p) /\ ~End(p)
    BY <2>4, <1>3 DEF BindGrpc, Listen, vars
  <2>. QED
    BY <1>5, <2>2, <2>3, <2>4 DEF ServerEnds
<1>6. ASSUME NEW c \in Clients, phase[ProcessOf[c]] \in {"serving", "command"},
             \A d \in Clients \ {c} : at'[d] = at[d], phase' = phase
      PROVE  CallersInv'
  BY <1>6 DEF ClientsOf
<1>7. ASSUME NEW c \in Clients, phase[ProcessOf[c]] \in {"serving", "command"},
             ClientStep(c), UNCHANGED nodevars
      PROVE  CallersInv'
  <2>1. \A d \in Clients \ {c} : at'[d] = at[d]
    BY <1>7, OthersUntouched DEF IInv
  <2>. QED
    BY <1>6, <1>7, <2>1 DEF nodevars
<1>8. ASSUME NEW p \in Processes, Command(p) PROVE CallersInv'
  <2>1. CASE End(p)
    BY <2>1, <1>1
  <2>2. CASE CmdUninstall(p)
    <3>1. PICK c \in ClientsOf(p), id \in ResourceIds :
             Begin(c, [op |-> "uninstall", id |-> id])
      BY <2>2 DEF CmdUninstall
    <3>2. c \in Clients /\ ProcessOf[c] = p
      BY DEF ClientsOf
    <3>3. [op |-> "uninstall", id |-> id] \in Requests
      BY ProcessesAssumption DEF Requests, Removal
    <3>. QED
      BY <2>2, <3>1, <3>2, <3>3, <1>7 DEF CmdUninstall, Fresh, ClientStep
  <2>. QED
    BY <1>8, <2>1, <2>2 DEF Command, CmdRead, CmdUninstalled
<1>9. ASSUME NEW p \in Processes, Start(p) \/ Killed(p) \/ ProcessStep(p)
      PROVE  CallersInv'
  BY <1>9, <1>1, <1>4, <1>5, <1>8 DEF Killed, ProcessStep
<1>10. ASSUME NEW c \in Clients, Task(c) PROVE CallersInv'
  BY <1>10, <1>7 DEF Task, ClientStep
<1>11. ASSUME NEW c \in Clients, Run(c) PROVE CallersInv'
  <2>1. AtStatement(c)
    BY <1>11 DEF Run, Statements, Statement, InstallFind, InstallInsert,
       UpsertReread, UpsertWrite, UninstallFind, UninstallDelete,
       SetResourceStatusFind, SetResourceStatusWrite, AddServiceInsert,
       UpsertServiceFind, UpsertServiceWrite, SetServiceStatusFind,
       SetServiceStatusWrite, StatementError, Running, AtStatement
  <2>2. phase[ProcessOf[c]] \in {"serving", "command"}
    BY <2>1, ProcessesAssumption DEF ClientsOf, AtStatement
  <2>3. CASE Statement(c)
    BY <1>11, <2>2, <2>3, <1>7 DEF Run, ClientStep
  <2>4. CASE ~Statement(c)
    <3>1. at' = [at EXCEPT ![c] = "done"] /\ phase' = phase
      BY <1>11, <2>4 DEF Run, Statements, Finish, nodevars
    <3>. QED
      BY <3>1, <2>2, <1>6 DEF IInv, TypeOK
  <2>. QED
    BY <2>3, <2>4
<1>12. CASE UNCHANGED allvars
  BY <1>12, <1>3 DEF allvars, nodevars, vars
<1>. QED
  BY <1>5, <1>9, <1>10, <1>11, <1>12 DEF NodeNext

\* However processes start, end and die together: only one that serves has a
\* port, no two have the same, and the calls in the database are those of
\* processes that serve and of commands, so that none outlives its process.
THEOREM NodeTypeCorrectness == NodeSpec => []NodeTypeOK
<1> DEFINE NodeInv == SchemaInv /\ PortsInv /\ CallersInv
<1>1. NodeInit => NodeInv
  BY DEF NodeInit, SchemaInv, PortsInv, CallersInv, Opening, ClientsOf
<1>2. IInv /\ NodeInv /\ [NodeNext]_allvars => NodeInv'
  BY SchemaStep, PortsStep, CallersStep
<1>3. IInv /\ NodeInv => NodeTypeOK
  BY DEF IInv, SchemaInv, PortsInv, CallersInv, NodeTypeOK
<1> HIDE DEF NodeInv
<1>. QED
  BY <1>1, <1>2, <1>3, NodeInvariance, PTL DEF NodeSpec
==============================================================================
