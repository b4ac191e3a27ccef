\* Two concurrent upsert_service calls of one name.
SPECIFICATION Spec
CONSTANTS
    ResourceIds = {kanidm}
    ServiceIds = {s1, s2}
    InstanceNames = {main}
    Origins = {o1}
    Versions = {v1}
    Labels = {stable}
    ResourceStatuses = {"active"}
    Settings = {set1}
    Runtimes = {run1}
    ServiceStatuses = {"running"}
    Operations = {"install", "upsert_service"}
    Clients = {c1, c2}
    Disruptions = {}
    None = None
INVARIANT InstanceNamesUnique
