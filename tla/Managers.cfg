SPECIFICATION FairSpec
CONSTANTS
    Client = "http"
    Names = {"np", "other"}
    Versions = {"v1"}
    MaxPlanes = 2
    Name = "np"
    Env = {"delete"}
    SpecIDs = {0}
    InitialTenants = {}
    InitialIssued = 0
    InitialCASecrets <- NoSecret
    MaxLag = 0
    MaxFaults = 0
    MaxEdits = 0
PROPERTY ReleasedByEither
PROPERTY StatusNeverRegressesByEither
PROPERTY PublishedByEither
PROPERTY ConvergesTogether
CHECK_DEADLOCK FALSE
