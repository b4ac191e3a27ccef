\* One REST and one gRPC connection; two resources, two instances that
\* may get the same name; statements fail and connections are closed.
SPECIFICATION ApiSpec
CONSTANTS
    ResourceIds = {kanidm, zentinel}
    ServiceIds = {s1, s2}
    InstanceNames = {main}
    Origins = {o1}
    Versions = {v1}
    Labels = {stable}
    ResourceStatuses = {"active"}
    Settings = {set1}
    Runtimes = {run1}
    ServiceStatuses = {"running"}
    Operations = {"upsert_resource", "uninstall", "upsert_service"}
    Clients = {rest, grpc}
    Disruptions = {"statement_error", "dropped_call"}
    None = None
    RestClients = {rest}
INVARIANTS
    ApiTypeOK
    AcknowledgedIsListed
    ListedResourceStays
    NoFalseRemoval
    SummaryCoversRegistered
PROPERTIES
    ImplementsStore
    EveryRequestAnswered
