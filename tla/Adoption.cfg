SPECIFICATION Spec
CONSTANTS
    Client = "http"
    Names = {"np", "other"}
    Versions = {"v1", "v2"}
    MaxPlanes = 3
    Name = "np"
    Env = {"planeID", "vanish", "pause", "version", "delete", "foreground"}
    SpecIDs = {0, 1}
    InitialTenants <- OtherTenant
    InitialIssued = 1
    InitialCASecrets <- NoSecret
    MaxLag = 0
    MaxFaults = 1
    MaxEdits = 2
INVARIANT SafetyInv
INVARIANT GuardInv
INVARIANT RecordInv
PROPERTY ReleasedBeforeForgotten
PROPERTY CreateOnlyUnderFinalizer
PROPERTY StatusNeverRegresses
PROPERTY ImplementsLifecycle
CHECK_DEADLOCK FALSE
