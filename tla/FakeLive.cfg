SPECIFICATION FairSpec
CONSTANTS
    Client = "fake"
    Names = {"np", "other"}
    Versions = {"v1", "v2"}
    MaxPlanes = 2
    Name = "np"
    Env = {"touch", "delete", "foreground", "create", "version", "pause"}
    SpecIDs = {0}
    InitialTenants = {}
    InitialIssued = 0
    InitialCASecrets <- NoneOrOpaque
    MaxLag = 0
    MaxFaults = 1
    MaxEdits = 1
PROPERTY Converges
PROPERTY EventuallyGone
CHECK_DEADLOCK FALSE
