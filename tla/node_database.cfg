\* Two daemons that share a port and a command start, fail and die around a
\* database of any age; all of them settle.
SPECIFICATION NodeSpec
CONSTANTS
    d1 = d1  d2 = d2  command = command
    t1 = t1  t2 = t2  caller = caller
    Daemons = {d1, d2}
    Commands = {command}
    ProcessOf <- Owners
    RestPort <- RestPorts
    GrpcPort <- GrpcPorts
    ResourceIds = {kanidm}
    ServiceIds = {s1}
    InstanceNames = {main}
    Origins = {o1}
    Versions = {v1}
    Labels = {stable}
    ResourceStatuses = {"active"}
    Settings = {set1}
    Runtimes = {run1}
    ServiceStatuses = {"running"}
    Operations = {"uninstall", "upsert_service"}
    Clients = {t1, t2, caller}
    Disruptions = {"statement_error", "dropped_call"}
    None = None
INVARIANTS
    NodeTypeOK
    WorkingSchema
PROPERTIES
    ImplementsStore
    EveryProcessSettles
