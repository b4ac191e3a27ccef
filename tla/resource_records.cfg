\* One resource with all its columns; REST, gRPC and bus writers, texts that do
\* not decode, empty and missing captions.
SPECIFICATION Spec
CONSTANTS
    Id = "kanidm"
    Server = "server"
    Words = {"", "testing"}
    ResourceTypes = {"app", "container"}
    Channels = {"stable", "testing"}
    ResourceStatuses = {"active", "stopped"}
    Validations = {"ok", "incomplete"}
    Versions = {"1.5.0"}
    Times = {"t1"}
    Captions = {"", "wiki"}
    VariableLists = {"[]"}
    S3Paths = {"[]"}
    ServiceStatuses = {"stopped"}
    Runtimes = {"[]"}
    Nothing = Nothing
INVARIANTS
    TypeOK
    EveryRowDecodes
PROPERTIES
    WriteBackChangesOnlyStatus
    ColumnsImplementStore
