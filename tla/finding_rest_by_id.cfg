\* One REST connection: it registers an instance, lists it, and gets its
\* resource by id. Nothing fails by itself.
SPECIFICATION ApiSpec
CONSTANTS
    ResourceIds = {kanidm}
    ServiceIds = {s1}
    InstanceNames = {main}
    Origins = {o1}
    Versions = {v1}
    Labels = {stable}
    ResourceStatuses = {"active"}
    Settings = {set1}
    Runtimes = {run1}
    ServiceStatuses = {"running"}
    Operations = {"upsert_resource", "upsert_service"}
    Clients = {rest}
    Disruptions = {}
    None = None
    RestClients = {rest}
INVARIANT ShownResourceIsServed
