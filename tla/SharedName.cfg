SPECIFICATION Spec
CONSTANTS
    Client = "http"
    Names = {"np", "other"}
    Versions = {"v1"}
    MaxPlanes = 2
    Name = "np"
    Env = {"delete"}
    SpecIDs = {0}
    InitialTenants = {}
    InitialIssued = 0
    InitialCASecrets <- NoSecret
    MaxLag = 0
    MaxFaults = 1
    MaxEdits = 0
INVARIANT SharedInv
INVARIANT NoSharedPlane
PROPERTY OwnPlaneOnly
CHECK_DEADLOCK FALSE
