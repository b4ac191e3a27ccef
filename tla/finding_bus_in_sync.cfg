\* One package; a user registers an instance of it. Nothing fails by itself.
SPECIFICATION BusSpec
CONSTANTS
    ResourceIds = {kanidm}
    ServiceIds = {s1}
    InstanceNames = {main}
    Origins = {o1}
    Versions = {v1}
    Labels = {stable}
    ResourceStatuses = {"active"}
    Settings = {set1}
    Runtimes = {run1}
    ServiceStatuses = {"running"}
    Operations = {"upsert_resource", "uninstall", "upsert_service"}
    Clients = {bus, user}
    Disruptions = {}
    None = None
    Handlers = {bus}
    ApiOperations = {"upsert_service"}
    DefaultLabels = stable
    MaxEvents = 2
INVARIANT InSync
