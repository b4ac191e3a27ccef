\* Two packages in two versions, three events, two invocations of the handler at
\* a time; one user registers instances. Statements fail, calls are dropped,
\* payloads cannot be read, the daemon restarts.
SPECIFICATION BusSpec
CONSTANTS
    ResourceIds = {kanidm, zentinel}
    ServiceIds = {s1}
    InstanceNames = {main}
    Origins = {o1}
    Versions = {v1, v2}
    Labels = {stable}
    ResourceStatuses = {"active"}
    Settings = {set1}
    Runtimes = {run1}
    ServiceStatuses = {"running"}
    Operations = {"install", "upsert_resource", "uninstall",
                  "upsert_service"}
    Clients = {bus1, bus2, user}
    Disruptions = {"statement_error", "dropped_call", "malformed_event"}
    None = None
    Handlers = {bus1, bus2}
    ApiOperations = {"upsert_service"}
    DefaultLabels = stable
    MaxEvents = 3
INVARIANTS
    BusTypeOK
    RecordedUnlessLost
PROPERTIES
    ImplementsStore
    EveryEventDelivered
