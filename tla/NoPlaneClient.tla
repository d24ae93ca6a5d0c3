---------------------------- MODULE NoPlaneClient ----------------------------
(***************************************************************************)
(* The noplane.io API as the controller sees it: the tenants the service   *)
(* holds and what each operation of noplane.ClientInterface answers.       *)
(*                                                                         *)
(* Two implementations of the interface exist in the repository, and they  *)
(* do not answer alike.  Client = "http" is noplane.Client, the one main   *)
(* gives to the reconciler; Client = "fake" is the double the unit tests   *)
(* use.  An error is a string naming its Go type: "nil" is success,        *)
(* "ConflictError" and "NotFoundError" are the two types of errors.go and  *)
(* "error" is any value that fmt.Errorf built.                             *)
(*                                                                         *)
(* A failure that is not determined by the tenants (transport, 403, 500, a *)
(* body that does not decode) is not here: the modules that make the calls *)
(* have an action for it.                                                  *)
(***************************************************************************)
EXTENDS Naturals

CONSTANTS
    Client,     \* which implementation of ClientInterface is in use
    Names,      \* tenant names (the client uses the name as uniqueId too)
    Versions,   \* Kubernetes versions
    MaxPlanes   \* bound: tenants the service will ever have issued

ASSUME ClientAssumption == Client \in {"http", "fake"}
ASSUME MaxPlanesAssumption == MaxPlanes \in Nat

(***************************************************************************)
(* A plane ID is a positive number, and the empty Go string is 0 there; in *)
(* a version or a status it is Empty.  A host is either the hostname the   *)
(* service gave to a tenant or the one built from the tenant's subdomain,  *)
(* <name>.k8s.noplane.io; the port is always 6443.                         *)
(***************************************************************************)
NoID == 0
Empty == "empty"
ASSUME StringsAssumption == Empty \notin Names /\ Empty \notin Versions

PlaneIDs == Nat \ {NoID}
Hosts == [of : Names \cup {Empty}, kind : {Empty, "hostname", "subdomain"}]
NoHost == [of |-> Empty, kind |-> Empty]

(***************************************************************************)
(* v1.Tenant: the fields the client reads.  "hostname" tells whether the   *)
(* optional field is there; the subdomain always is, CreatePlane sets it   *)
(* to the name.  An Empty version is a nil pointer.                        *)
(***************************************************************************)
Tenant == [id : PlaneIDs, name : Names, version : Versions \cup {Empty},
           hostname : BOOLEAN]

Plane == [id : Nat, status : {Empty, "created", "ready"}, host : Hosts,
          version : Versions \cup {Empty}]

NoPlane == [id |-> NoID, status |-> Empty, host |-> NoHost, version |-> Empty]

\* Presence of a hostname is the only readiness signal there is.
tenantToPlane(t) ==
    [id |-> t.id,
     status |-> IF t.hostname THEN "ready" ELSE "created",
     host |-> [of |-> t.name,
               kind |-> IF t.hostname THEN "hostname" ELSE "subdomain"],
     version |-> t.version]

HasID(ts, id) == \E t \in ts : t.id = id
HasName(ts, n) == \E t \in ts : t.name = n

\* Seeded fault: the typed error is wrapped, so the type test never succeeds.
IsNotFound_Wrapped(err) == FALSE

\* errors.go tells errors apart by their Go type and by nothing else.
IsConflict(err) == err = "ConflictError"
IsNotFound(err) == err = "NotFoundError"

(***************************************************************************)
(* GetPlane and GetPlaneByName list the tenants and scan for a match.  The *)
(* result is a set: empty when nothing matches, which both report as an    *)
(* error.                                                                  *)
(***************************************************************************)
GetPlane(ts, id) == {tenantToPlane(t) : t \in {u \in ts : u.id = id}}
GetPlaneByName(ts, n) == {tenantToPlane(t) : t \in {u \in ts : u.name = n}}

\* Seeded fault: every request carries a uniqueId of its own.
CreatePlaneErr_FreshUniqueId(ts, n, issued) ==
    IF issued >= MaxPlanes THEN "error" ELSE "nil"

\* Seeded fault: 409 is given the type that IsConflict tests for.
CreatePlaneErr_Typed(ts, n, issued) ==
    CASE HasName(ts, n) -> "ConflictError"
      [] ~HasName(ts, n) /\ issued >= MaxPlanes -> "error"
      [] OTHER -> "nil"

(***************************************************************************)
(* CreatePlane.  uniqueId, subdomain and name of the request are the same  *)
(* string, so a second create for a name in use is refused by the service. *)
(* noplane.Client turns every refusal into a plain error: 400, 403 and 500 *)
(* through apiError, anything else (409 included) through "unexpected      *)
(* status".                                                                *)
(***************************************************************************)
CreatePlaneErr(ts, n, issued) ==
    CASE Client = "fake" /\ HasName(ts, n) -> "ConflictError"
      [] Client = "http" /\ HasName(ts, n) -> "error"
      [] ~HasName(ts, n) /\ issued >= MaxPlanes -> "error"
      [] OTHER -> "nil"

\* Seeded fault: the ID of the new plane is not filled in.
NewID_Missing(issued) == NoID

\* The service never reuses an ID; the fake gives every plane the same one.
NewID(issued) == IF Client = "fake" THEN 1 ELSE issued + 1

\* The fake's planes are ready at once; the service provisions them later.
Created(ts, n, v, issued) ==
    ts \cup {[id |-> NewID(issued), name |-> n, version |-> v,
              hostname |-> Client = "fake"]}

(***************************************************************************)
(* UpdatePlane is not implemented by noplane.Client.                       *)
(***************************************************************************)
UpdatePlaneErr(ts, id) ==
    CASE Client = "http" -> "error"
      [] Client = "fake" /\ ~HasID(ts, id) -> "NotFoundError"
      [] OTHER -> "nil"

Updated(ts, id, v) ==
    {IF t.id = id THEN [t EXCEPT !.version = v] ELSE t : t \in ts}

(***************************************************************************)
(* DeletePlane.  Only 204 is success: noplane.Client turns 404 into the    *)
(* plain error of apiError, the fake into a NotFoundError.                 *)
(***************************************************************************)
DeletePlaneErr(ts, id) ==
    CASE HasID(ts, id) -> "nil"
      [] Client = "fake" /\ ~HasID(ts, id) -> "NotFoundError"
      [] OTHER -> "error"

Deleted(ts, id) == {t \in ts : t.id # id}

(***************************************************************************)
(* GetKubeconfig answers with the credentials of the tenant asked for.     *)
(* The fake never looks at the ID: it has one kubeconfig, which is the one *)
(* of its only plane ID.                                                   *)
(***************************************************************************)
GetKubeconfigErr(ts, id) ==
    IF Client = "fake" \/ HasID(ts, id) THEN "nil" ELSE "error"

KubeconfigOf(id) == IF Client = "fake" THEN 1 ELSE id

==============================================================================
