SPECIFICATION FairSpec
CONSTANTS
    Client = "http"
    Names = {"np", "other"}
    Versions = {"v1"}
    MaxPlanes = 2
    Name = "np"
    Env = {}
    SpecIDs = {1}
    InitialTenants <- OtherTenant
    InitialIssued = 1
    InitialCASecrets <- NoSecret
    MaxLag = 0
    MaxFaults = 0
    MaxEdits = 0
PROPERTY Converges
