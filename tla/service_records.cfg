\* One instance with all its columns; ports at the limits of 16 bits and
\* beyond, lists and statuses that do not decode.
SPECIFICATION Spec
CONSTANTS
    Id = "kanidm-main"
    Name = "main-iam"
    Resource = "kanidm"
    Server = "server"
    Words = {""}
    RestPorts = {0, 8443, 65535}
    WirePorts = {0, 8443, 65535, 65536, 73616}
    VariableLists = {"[]", "[domain]"}
    S3Paths = {"[]"}
    ServiceStatuses = {"running", "stopped"}
    Runtimes = {"[iam]"}
    ResourceTypes = {"app"}
    Channels = {"stable"}
    ResourceStatuses = {"active"}
    Validations = {"ok", "incomplete"}
    Versions = {"1.5.0"}
    Times = {"t1"}
    Captions = {""}
    Nothing = Nothing
INVARIANTS
    TypeOK
    PortNeverInvented
PROPERTIES
    WriteBackChangesOnlyStatus
    ColumnsImplementStore
