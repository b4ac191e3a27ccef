\* Three callers that register and update service instances while a resource
\* is installed and uninstalled.
SPECIFICATION Spec
CONSTANTS
    ResourceIds = {kanidm}
    ServiceIds = {s1, s2, s3, s4}
    InstanceNames = {main, backup}
    Origins = {o1}
    Versions = {v1}
    Labels = {stable}
    ResourceStatuses = {"active"}
    Settings = {set1}
    Runtimes = {run1}
    ServiceStatuses = {"running"}
    Operations = {"install", "uninstall", "upsert_service",
                  "set_service_status_by_name"}
    Clients = {c1, c2, c3}
    Disruptions = {"dropped_call"}
    None = None
SYMMETRY Symmetry
INVARIANTS
    ReferentialIntegrity
    HeldRowIsTheNamedRow
    DuplicatesBounded

