SPECIFICATION FairSpec
CONSTANTS
    Client = "http"
    Names = {"np", "other"}
    Versions = {"v1"}
    MaxPlanes = 2
    Name = "np"
    Env = {"cluster", "creds", "secret", "resync"}
    SpecIDs = {0}
    InitialTenants = {}
    InitialIssued = 0
    InitialCASecrets <- PriorSecrets
    MaxLag = 2
    MaxFaults = 0
    MaxEdits = 3
PROPERTY Converges
