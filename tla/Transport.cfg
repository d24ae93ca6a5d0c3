SPECIFICATION Spec
CONSTANTS
    Client = "http"
    Names = {"np", "other"}
    Versions = {"v1"}
    MaxPlanes = 2
    Keys = {"good", "bad"}
    ValidKeys = {"good"}
    ProxyCodes = {200, 400, 401, 403, 404, 409, 500, 502, 504}
    UntypedCodes = {200, 204, 400, 401, 403, 404, 409, 500, 502, 504}
    MaxCalls = 3
    MaxFaults = 2
INVARIANT TypeOK
INVARIANT NoNilDereference
PROPERTY ImplementsCall
CHECK_DEADLOCK FALSE
