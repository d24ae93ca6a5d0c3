SPECIFICATION Spec
CONSTANTS
    Client = "http"
    Names = {"np", "other"}
    Versions = {"v1"}
    MaxPlanes = 2
    Name = "np"
    Env = {"delete", "foreground"}
    SpecIDs = {0}
    InitialTenants = {}
    InitialIssued = 0
    InitialCASecrets <- NoSecret
    MaxLag = 0
    MaxFaults = 0
    MaxEdits = 0
PROPERTY NothingWasEverCreated
CHECK_DEADLOCK FALSE
