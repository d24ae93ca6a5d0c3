SPECIFICATION Spec
CONSTANTS
    Client = "http"
    Names = {"np", "other"}
    Versions = {"v1"}
    MaxPlanes = 3
    Name = "np"
    Env = {"touch", "delete", "foreground", "create"}
    SpecIDs = {0}
    InitialTenants = {}
    InitialIssued = 0
    InitialCASecrets <- NoSecret
    MaxLag = 0
    MaxFaults = 2
    MaxEdits = 2
INVARIANT TypeOK
INVARIANT PublishInv
PROPERTY ReleasedBeforeForgotten
PROPERTY CreateOnlyUnderFinalizer
PROPERTY NeverASecondPlane
PROPERTY StatusNeverRegresses
PROPERTY ImplementsLifecycle
PROPERTY InitializedImpliesPublished
CHECK_DEADLOCK FALSE
