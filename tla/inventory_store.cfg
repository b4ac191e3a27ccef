\* All operations of the Inventory, two callers, every disruption: the
\* statements implement the atomic store, and every call ends.
SPECIFICATION Spec
CONSTANTS
    ResourceIds = {kanidm}
    ServiceIds = {s1}
    InstanceNames = {main, backup}
    Origins = {o1, o2}
    Versions = {v1}
    Labels = {stable}
    ResourceStatuses = {"active", "stopped"}
    Settings = {set1, set2}
    Runtimes = {run1}
    ServiceStatuses = {"running", "stopped"}
    Operations = {"install", "upsert_resource", "uninstall",
                  "set_resource_status", "add_service", "upsert_service",
                  "set_service_status_by_name"}
    Clients = {c1, c2}
    Disruptions = {"statement_error", "dropped_call"}
    None = None
INVARIANT TypeOK
PROPERTIES
    EveryCallAnswered
    RegistrationIsForever
    ImplementsStore
