----------------------------- MODULE ControlPlane -----------------------------
(***************************************************************************)
(* The NoPlaneControlPlane controller for one resource: the reconcile loop *)
(* of internal/controller/noplanecontrolplane_controller.go, run by one    *)
(* manager process, between two remote systems that it changes one call at *)
(* a time: the Kubernetes API server of the management cluster and the     *)
(* noplane.io service (module NoPlaneClient).                              *)
(*                                                                         *)
(* Reconcile is not atomic.  pc names the next remote call of the          *)
(* reconcile in flight; each call is one action, together with everything  *)
(* the code does with its answer, so users, Cluster API and the service    *)
(* may act between any two calls.  The object a reconcile works on is read *)
(* once, from the manager's informer cache, which lags behind the API      *)
(* server; writes carry the resourceVersion that was read and are refused  *)
(* when the stored one has moved on.  The Secrets are read from a cache of *)
(* their own.                                                              *)
(***************************************************************************)
EXTENDS NoPlaneClient, Sequences

CONSTANTS
    Name,              \* metadata.name of the resource, and its tenant name
    Env,               \* which outside events a model admits
    SpecIDs,           \* values users give to spec.planeID
    InitialTenants,    \* tenants that exist before the resource
    InitialIssued,     \* number of IDs issued before the resource
    InitialCASecrets,  \* what may be stored as <cluster>-ca beforehand
    MaxLag,            \* bound: events by which the Secret cache lags behind
    MaxFaults,         \* bound: failed calls and restarts of the manager
    MaxEdits           \* bound: outside events that change the inputs

ASSUME NameAssumption == Name \in Names
ASSUME SpecIDsAssumption == SpecIDs \subseteq Nat
ASSUME TenantsAssumption ==
    /\ InitialTenants \subseteq Tenant
    /\ InitialIssued \in Nat
    /\ \A t \in InitialTenants : t.id <= InitialIssued
ASSUME BoundsAssumption ==
    MaxLag \in Nat /\ MaxFaults \in Nat /\ MaxEdits \in Nat

VARIABLES
    \* The Kubernetes API server
    ncp,               \* the stored resource, or NoObject
    rv,                \* the last resourceVersion given out
    watch,             \* versions not yet delivered to the informer
    kubeconfigSecret,  \* Secret <cluster>-kubeconfig
    caSecret,          \* Secret <cluster>-ca
    cluster,           \* the owner Cluster: "ok", "paused" or "missing"
    creds,             \* credentialsSecretRef: "ok", or "bad" (no apiKey)
    secretCache,       \* the two Secrets as the informer last saw them
    secretWatch,       \* their versions not yet delivered to the informer
    \* The manager process
    cache,             \* the resource as the informer last saw it
    queued,            \* the key is in the workqueue
    timer,             \* a delayed or rate-limited requeue is pending
    \* The reconcile in flight
    pc,                \* its next remote call, or "idle"
    obj,               \* its in-memory copy of the resource (Go: ncp)
    pid,               \* the resolved planeID
    plane,             \* the answer of GetPlane
    kubeconfig,        \* the answer of GetKubeconfig
    \* The noplane.io service
    tenants,           \* the tenants it holds
    issued,            \* number of IDs it has issued
    late,              \* version asked for by an abandoned create request
                       \* that is still under way, or Empty
    \* Bookkeeping of the bounds
    faults, edits

k8sVars == <<ncp, rv, watch>>
secretVars == <<kubeconfigSecret, caSecret, secretCache, secretWatch>>
outsideVars == <<cluster, creds>>
queueVars == <<cache, queued>>
workVars == <<obj, pid, plane, kubeconfig>>
serviceVars == <<tenants, issued, late>>
boundVars == <<faults, edits>>

vars == <<ncp, rv, watch, kubeconfigSecret, caSecret, secretCache, secretWatch,
          cluster, creds, cache, queued, timer, pc, obj, pid, plane, kubeconfig,
          tenants, issued, late, faults, edits>>

-------------------------------------------------------------------------------
(***************************************************************************)
(* The resource.  NoObject, the zero value, stands for its absence.        *)
(* "held" is the foregroundDeletion finalizer of the garbage collector.    *)
(***************************************************************************)
Status == [planeID : Nat, ready : BOOLEAN, initialized : BOOLEAN,
           version : Versions \cup {Empty}]

NCP == [rv : Nat, finalizer : BOOLEAN, held : BOOLEAN,
        deletionTimestamp : BOOLEAN, owned : BOOLEAN, paused : BOOLEAN,
        version : Versions \cup {Empty}, planeID : Nat, endpoint : Hosts,
        status : Status]

NoStatus == [planeID |-> NoID, ready |-> FALSE, initialized |-> FALSE,
             version |-> Empty]

NoObject == [rv |-> 0, finalizer |-> FALSE, held |-> FALSE,
             deletionTimestamp |-> FALSE, owned |-> FALSE, paused |-> FALSE,
             version |-> Empty, planeID |-> NoID, endpoint |-> NoHost,
             status |-> NoStatus]

Exists(o) == o.rv # 0

\* What a user applies: a version, credentials and possibly a planeID.
Applied(r, v, id) ==
    [NoObject EXCEPT !.rv = r, !.version = v, !.planeID = id]

(***************************************************************************)
(* A kubeconfig is known by the plane it gives access to and by whether a  *)
(* CA certificate can be extracted from it.  crt names the plane whose CA  *)
(* certificate tls.crt is (0: none of ours).                               *)
(***************************************************************************)
Kubeconfig == [plane : Nat, ca : BOOLEAN]
NoKubeconfig == [plane |-> NoID, ca |-> FALSE]
KubeconfigSecret == [exists : BOOLEAN, value : Kubeconfig]
NoKubeconfigSecret == [exists |-> FALSE, value |-> NoKubeconfig]
CASecret == [type : {"none", "Opaque", "cluster"}, crt : Nat, key : BOOLEAN]
NoCASecret == [type |-> "none", crt |-> NoID, key |-> FALSE]
OpaqueCASecret == [type |-> "Opaque", crt |-> NoID, key |-> FALSE]
Secrets == [kubeconfig : KubeconfigSecret, ca : CASecret]

ASSUME CASecretsAssumption == InitialCASecrets \subseteq CASecret

Calls == {"addFinalizer", "createPlane", "lookupPlane", "persistPlaneID",
          "getPlane", "updatePlane", "updateEndpoint", "fetchKubeconfig",
          "writeKubeconfig", "checkCA", "writeCA", "recreateCA",
          "updateStatus", "deletePlane", "removeFinalizer"}

\* Every variable of the API server, the manager, the reconcile in flight and
\* the service keeps its type: no answer of the client and no write of
\* Reconcile leaves a field with a value the CRD or the API does not know.
TypeOK ==
    /\ ncp \in NCP
    /\ rv \in Nat
    /\ watch \in Seq(NCP)
    /\ kubeconfigSecret \in KubeconfigSecret
    /\ caSecret \in CASecret
    /\ secretCache \in Secrets
    /\ secretWatch \in Seq(Secrets)
    /\ cluster \in {"ok", "paused", "missing"}
    /\ creds \in {"ok", "bad"}
    /\ cache \in NCP
    /\ queued \in BOOLEAN
    /\ timer \in BOOLEAN
    /\ pc \in Calls \cup {"idle"}
    /\ obj \in NCP
    /\ pid \in Nat
    /\ plane \in Plane
    /\ kubeconfig \in Kubeconfig
    /\ tenants \subseteq Tenant
    /\ issued \in Nat
    /\ late \in Versions \cup {Empty}
    /\ faults \in 0..MaxFaults
    /\ edits \in 0..MaxEdits

Init ==
    /\ \E v \in Versions, id \in SpecIDs : ncp = Applied(1, v, id)
    /\ rv = 1
    /\ watch = <<ncp>>
    /\ kubeconfigSecret = NoKubeconfigSecret
    /\ caSecret \in InitialCASecrets
    /\ secretCache = [kubeconfig |-> kubeconfigSecret, ca |-> caSecret]
    /\ secretWatch = <<>>
    /\ cluster = "ok"
    /\ creds = "ok"
    /\ cache = NoObject
    /\ queued = FALSE
    /\ timer = FALSE
    /\ pc = "idle"
    /\ obj = NoObject
    /\ pid = NoID
    /\ plane = NoPlane
    /\ kubeconfig = NoKubeconfig
    /\ tenants = InitialTenants
    /\ issued = InitialIssued
    /\ late = Empty
    /\ faults = 0
    /\ edits = 0

-------------------------------------------------------------------------------
(***************************************************************************)
(* The API server.  A changed object gets a new resourceVersion and a      *)
(* watch event; an update that changes nothing gets neither.               *)
(***************************************************************************)
Store(o) ==
    IF o = ncp
    THEN UNCHANGED k8sVars
    ELSE /\ rv' = rv + 1
         /\ ncp' = [o EXCEPT !.rv = rv + 1]
         /\ watch' = Append(watch, ncp')

Remove ==
    /\ rv' = rv + 1
    /\ ncp' = NoObject
    /\ watch' = Append(watch, NoObject)

\* The same for the Secrets, which have an informer of their own.  MaxLag = 0
\* makes its cache follow at once.
StoreSecrets(k, c) ==
    /\ kubeconfigSecret' = k
    /\ caSecret' = c
    /\ \/ /\ k = kubeconfigSecret /\ c = caSecret
          /\ UNCHANGED <<secretCache, secretWatch>>
       \/ /\ k # kubeconfigSecret \/ c # caSecret
          /\ MaxLag = 0
          /\ secretCache' = [kubeconfig |-> k, ca |-> c]
          /\ UNCHANGED secretWatch
       \/ /\ k # kubeconfigSecret \/ c # caSecret
          /\ Len(secretWatch) < MaxLag
          /\ secretWatch' = Append(secretWatch, [kubeconfig |-> k, ca |-> c])
          /\ UNCHANGED secretCache

\* The cached copy of a Secret has the stored resourceVersion.
KubeconfigFresh ==
    \A i \in 1..Len(secretWatch) :
        secretWatch[i].kubeconfig = secretCache.kubeconfig
CAFresh == \A i \in 1..Len(secretWatch) : secretWatch[i].ca = secretCache.ca

\* Seeded fault: writes without a resourceVersion.
Fresh_NoLock == Exists(ncp)

\* The optimistic lock of Update and Status().Update.
Fresh == Exists(ncp) /\ obj.rv = ncp.rv

\* Seeded fault: the result asks for no requeue.
Return_NoRequeue(requeue) ==
    /\ pc' = "idle"
    /\ obj' = NoObject
    /\ pid' = NoID
    /\ plane' = NoPlane
    /\ kubeconfig' = NoKubeconfig
    /\ UNCHANGED timer

(***************************************************************************)
(* The end of a reconcile.  An error and a RequeueAfter both leave a timer *)
(* behind; a plain Result{} leaves nothing.                                *)
(***************************************************************************)
Return(requeue) ==
    /\ pc' = "idle"
    /\ obj' = NoObject
    /\ pid' = NoID
    /\ plane' = NoPlane
    /\ kubeconfig' = NoKubeconfig
    /\ timer' = (timer \/ requeue)

Goto(call) == pc' = call /\ UNCHANGED timer

-------------------------------------------------------------------------------
(***************************************************************************)
(* Reconcile, up to its first remote write.  Reads come from the cache.    *)
(***************************************************************************)
IsPaused(o) == cluster = "paused" \/ o.paused

\* Not found, no owner yet, or paused: return nil.
Ignored(o) ==
    \/ ~Exists(o)
    \/ ~o.owned
    \/ cluster # "missing" /\ IsPaused(o)

\* The owner cannot be read, or the API key cannot be resolved.
Blocked(o) ==
    \/ cluster = "missing"
    \/ o.finalizer /\ creds = "bad"

\* resolvePlaneID, paths 1 and 2; NoID when neither applies.
KnownPlaneID(o) == IF o.planeID # NoID THEN o.planeID ELSE o.status.planeID

\* Seeded faults: no finalizer is added before acting; the plane is not
\* deleted before the finalizer is dropped.
FirstCall_NoFinalizer(o) ==
    CASE o.deletionTimestamp -> "removeFinalizer"
      [] OTHER -> IF KnownPlaneID(o) = NoID THEN "createPlane" ELSE "getPlane"

FirstCall_NoDelete(o) ==
    CASE ~o.finalizer -> "addFinalizer"
      [] o.finalizer /\ o.deletionTimestamp -> "removeFinalizer"
      [] OTHER -> IF KnownPlaneID(o) = NoID THEN "createPlane" ELSE "getPlane"

FirstCall(o) ==
    CASE ~o.finalizer -> "addFinalizer"
      [] o.finalizer /\ o.deletionTimestamp ->
            IF o.status.planeID = NoID THEN "removeFinalizer"
                                       ELSE "deletePlane"
      [] OTHER -> IF KnownPlaneID(o) = NoID THEN "createPlane" ELSE "getPlane"

Reconcile ==
    /\ pc = "idle"
    /\ queued
    /\ queued' = FALSE
    /\ \/ Ignored(cache) /\ Return(FALSE)
       \/ ~Ignored(cache) /\ Blocked(cache) /\ Return(TRUE)
       \/ /\ ~Ignored(cache) /\ ~Blocked(cache)
          /\ obj' = cache
          /\ pid' = KnownPlaneID(cache)
          /\ Goto(FirstCall(cache))
          /\ UNCHANGED <<plane, kubeconfig>>
    /\ UNCHANGED <<k8sVars, secretVars, outsideVars, cache, serviceVars,
                   boundVars>>

\* The API server refuses a new finalizer on an object being deleted.
AddFinalizer ==
    /\ pc = "addFinalizer"
    /\ \/ /\ Fresh /\ ~obj.deletionTimestamp
          /\ Store([obj EXCEPT !.finalizer = TRUE])
          /\ Return(FALSE)
       \/ /\ ~Fresh \/ obj.deletionTimestamp
          /\ UNCHANGED k8sVars
          /\ Return(TRUE)
    /\ UNCHANGED <<secretVars, outsideVars, queueVars, serviceVars, boundVars>>

-------------------------------------------------------------------------------
(***************************************************************************)
(* resolvePlaneID, path 3.                                                 *)
(***************************************************************************)
CreatePlane ==
    LET err == CreatePlaneErr(tenants, Name, issued) IN
    /\ pc = "createPlane"
    /\ \/ /\ err = "nil"
          /\ tenants' = Created(tenants, Name, obj.version, issued)
          /\ issued' = issued + 1
          /\ pid' = NewID(issued)
          /\ Goto("persistPlaneID")
          /\ UNCHANGED <<obj, plane, kubeconfig>>
       \/ /\ IsConflict(err)
          /\ Goto("lookupPlane")
          /\ UNCHANGED <<workVars, tenants, issued>>
       \/ /\ err # "nil" /\ ~IsConflict(err)
          /\ Return(TRUE)
          /\ UNCHANGED <<tenants, issued>>
    /\ UNCHANGED <<k8sVars, secretVars, outsideVars, queueVars, late,
                   boundVars>>

LookupPlane ==
    /\ pc = "lookupPlane"
    /\ \/ \E p \in GetPlaneByName(tenants, Name) :
            /\ pid' = p.id
            /\ Goto("persistPlaneID")
            /\ UNCHANGED <<obj, plane, kubeconfig>>
       \/ GetPlaneByName(tenants, Name) = {} /\ Return(TRUE)
    /\ UNCHANGED <<k8sVars, secretVars, outsideVars, queueVars, serviceVars,
                   boundVars>>

PersistPlaneID ==
    /\ pc = "persistPlaneID"
    /\ \/ /\ Fresh
          /\ Store([obj EXCEPT !.status.planeID = pid])
          /\ obj' = ncp'
          /\ Goto("getPlane")
          /\ UNCHANGED <<pid, plane, kubeconfig>>
       \/ ~Fresh /\ Return(TRUE) /\ UNCHANGED k8sVars
    /\ UNCHANGED <<secretVars, outsideVars, queueVars, serviceVars, boundVars>>

-------------------------------------------------------------------------------
(***************************************************************************)
(* reconcileNormal.                                                        *)
(***************************************************************************)
\* Seeded fault: the endpoint is not surfaced.
CallAfterGet_NoEndpoint(p) ==
    IF p.version # obj.version THEN "updatePlane" ELSE "fetchKubeconfig"

CallAfterGet(p) ==
    CASE p.version # obj.version -> "updatePlane"
      [] p.version = obj.version /\ obj.endpoint # p.host -> "updateEndpoint"
      [] OTHER -> "fetchKubeconfig"

\* An absent plane is an error; one that is not ready is polled again.
GetThePlane ==
    /\ pc = "getPlane"
    /\ \/ \E p \in GetPlane(tenants, pid) :
            /\ p.status = "ready"
            /\ plane' = p
            /\ Goto(CallAfterGet(p))
            /\ UNCHANGED <<obj, pid, kubeconfig>>
       \/ /\ \A p \in GetPlane(tenants, pid) : p.status # "ready"
          /\ Return(TRUE)
    /\ UNCHANGED <<k8sVars, secretVars, outsideVars, queueVars, serviceVars,
                   boundVars>>

UpdateThePlane ==
    LET err == UpdatePlaneErr(tenants, pid) IN
    /\ pc = "updatePlane"
    /\ \/ err = "nil" /\ tenants' = Updated(tenants, pid, obj.version)
       \/ err # "nil" /\ UNCHANGED tenants
    /\ Return(TRUE)
    /\ UNCHANGED <<k8sVars, secretVars, outsideVars, queueVars, issued, late,
                   boundVars>>

UpdateEndpoint ==
    /\ pc = "updateEndpoint"
    /\ \/ /\ Fresh
          /\ Store([obj EXCEPT !.endpoint = plane.host])
          /\ obj' = ncp'
          /\ Goto("fetchKubeconfig")
          /\ UNCHANGED <<pid, plane, kubeconfig>>
       \/ ~Fresh /\ Return(TRUE) /\ UNCHANGED k8sVars
    /\ UNCHANGED <<secretVars, outsideVars, queueVars, serviceVars, boundVars>>

(***************************************************************************)
(* GetKubeconfig is called with status.planeID of the copy in memory, not  *)
(* with the resolved planeID.  The service may hand out a kubeconfig that  *)
(* has no CA certificate to extract; that counts as a fault.               *)
(***************************************************************************)
GetKubeconfig(good) ==
    /\ GetKubeconfigErr(tenants, obj.status.planeID) = "nil"
    /\ kubeconfig' = [plane |-> KubeconfigOf(obj.status.planeID), ca |-> good]
    /\ good \/ faults < MaxFaults
    /\ faults' = IF good THEN faults ELSE faults + 1

FetchKubeconfig ==
    /\ pc = "fetchKubeconfig"
    /\ \/ \E good \in BOOLEAN :
            /\ GetKubeconfig(good)
            /\ Goto("writeKubeconfig")
            /\ UNCHANGED <<obj, pid, plane>>
       \/ /\ GetKubeconfigErr(tenants, obj.status.planeID) # "nil"
          /\ Return(TRUE)
          /\ UNCHANGED faults
    /\ UNCHANGED <<k8sVars, secretVars, outsideVars, queueVars, serviceVars,
                   edits>>

\* Create when the cache has no secret, Update of the cached one when it has.
WriteKubeconfig ==
    LET ok == IF secretCache.kubeconfig.exists THEN KubeconfigFresh
                                               ELSE ~kubeconfigSecret.exists
    IN
    /\ pc = "writeKubeconfig"
    /\ \/ /\ ok
          /\ StoreSecrets([exists |-> TRUE, value |-> kubeconfig], caSecret)
          /\ kubeconfig' = NoKubeconfig
          /\ Goto("checkCA")
          /\ UNCHANGED <<obj, pid, plane>>
       \/ ~ok /\ Return(TRUE) /\ UNCHANGED secretVars
    /\ UNCHANGED <<k8sVars, outsideVars, queueVars, serviceVars, boundVars>>

\* A secret that already has a key is left as it is, whatever its tls.crt.
CheckCA ==
    /\ pc = "checkCA"
    /\ \/ /\ secretCache.ca.key
          /\ Goto("updateStatus")
          /\ UNCHANGED <<workVars, faults>>
       \/ /\ ~secretCache.ca.key
          /\ GetKubeconfig(TRUE)
          /\ Goto("writeCA")
          /\ UNCHANGED <<obj, pid, plane>>
       \/ /\ ~secretCache.ca.key
          /\ GetKubeconfigErr(tenants, obj.status.planeID) # "nil"
          /\ Return(TRUE)
          /\ UNCHANGED faults
       \/ /\ ~secretCache.ca.key     \* no CA certificate to extract
          /\ GetKubeconfigErr(tenants, obj.status.planeID) = "nil"
          /\ faults < MaxFaults
          /\ faults' = faults + 1
          /\ Return(TRUE)
    /\ UNCHANGED <<k8sVars, secretVars, outsideVars, queueVars, serviceVars,
                   edits>>

OurCASecret == [type |-> "cluster", crt |-> kubeconfig.plane, key |-> TRUE]

\* Seeded fault: a secret of another type is updated in place, which the API
\* server refuses.
WriteCA_InPlace ==
    LET found == secretCache.ca.type
        ok == (found = "none" /\ caSecret.type = "none")
                  \/ (found = "cluster" /\ CAFresh)
    IN
    /\ pc = "writeCA"
    /\ \/ /\ ok
          /\ StoreSecrets(kubeconfigSecret, OurCASecret)
          /\ Goto("updateStatus")
          /\ UNCHANGED workVars
       \/ ~ok /\ UNCHANGED secretVars /\ Return(TRUE)
    /\ UNCHANGED <<k8sVars, outsideVars, queueVars, serviceVars, boundVars>>

(***************************************************************************)
(* Create, Update or, since the type of a Secret is immutable, Delete:     *)
(* which one is decided on the cached secret.  Create needs that none is   *)
(* stored, Update the stored resourceVersion, Delete only that some secret *)
(* of the name is there.                                                   *)
(***************************************************************************)
WriteCA ==
    LET found == secretCache.ca.type
        written == (found = "none" /\ caSecret.type = "none")
                       \/ (found = "cluster" /\ CAFresh)
        deleted == found = "Opaque" /\ caSecret.type # "none"
    IN
    /\ pc = "writeCA"
    /\ \/ /\ written
          /\ StoreSecrets(kubeconfigSecret, OurCASecret)
          /\ kubeconfig' = NoKubeconfig
          /\ Goto("updateStatus")
          /\ UNCHANGED <<obj, pid, plane>>
       \/ /\ deleted
          /\ StoreSecrets(kubeconfigSecret, NoCASecret)
          /\ Goto("recreateCA")
          /\ UNCHANGED workVars
       \/ ~written /\ ~deleted /\ Return(TRUE) /\ UNCHANGED secretVars
    /\ UNCHANGED <<k8sVars, outsideVars, queueVars, serviceVars, boundVars>>

RecreateCA ==
    /\ pc = "recreateCA"
    /\ \/ /\ caSecret.type = "none"
          /\ StoreSecrets(kubeconfigSecret, OurCASecret)
          /\ kubeconfig' = NoKubeconfig
          /\ Goto("updateStatus")
          /\ UNCHANGED <<obj, pid, plane>>
       \/ caSecret.type # "none" /\ Return(TRUE) /\ UNCHANGED secretVars
    /\ UNCHANGED <<k8sVars, outsideVars, queueVars, serviceVars, boundVars>>

UpdateStatus ==
    /\ pc = "updateStatus"
    /\ \/ Fresh /\ Store([obj EXCEPT !.status =
                            [planeID |-> pid, ready |-> TRUE,
                             initialized |-> TRUE, version |-> plane.version]])
       \/ ~Fresh /\ UNCHANGED k8sVars
    /\ Return(TRUE)
    /\ UNCHANGED <<secretVars, outsideVars, queueVars, serviceVars, boundVars>>

-------------------------------------------------------------------------------
(***************************************************************************)
(* reconcileDelete.                                                        *)
(***************************************************************************)
\* Seeded fault: the resolved plane is deleted, not the persisted one.
DeleteThePlane_Resolved ==
    LET err == DeletePlaneErr(tenants, pid) IN
    /\ pc = "deletePlane"
    /\ tenants' = Deleted(tenants, pid)
    /\ \/ err = "nil" /\ Goto("removeFinalizer") /\ UNCHANGED workVars
       \/ err # "nil" /\ Return(TRUE)
    /\ UNCHANGED <<k8sVars, secretVars, outsideVars, queueVars, issued, late,
                   boundVars>>

DeleteThePlane ==
    LET err == DeletePlaneErr(tenants, obj.status.planeID) IN
    /\ pc = "deletePlane"
    /\ tenants' = Deleted(tenants, obj.status.planeID)
    /\ \/ /\ err = "nil" \/ IsNotFound(err)
          /\ Goto("removeFinalizer")
          /\ UNCHANGED workVars
       \/ /\ err # "nil" /\ ~IsNotFound(err)
          /\ Return(TRUE)
    /\ UNCHANGED <<k8sVars, secretVars, outsideVars, queueVars, issued, late,
                   boundVars>>

\* The API server removes an object being deleted with its last finalizer.
RemoveFinalizer ==
    /\ pc = "removeFinalizer"
    /\ \/ Fresh /\ ~obj.held /\ Remove /\ Return(FALSE)
       \/ /\ Fresh /\ obj.held
          /\ Store([obj EXCEPT !.finalizer = FALSE])
          /\ Return(FALSE)
       \/ ~Fresh /\ UNCHANGED k8sVars /\ Return(TRUE)
    /\ UNCHANGED <<secretVars, outsideVars, queueVars, serviceVars, boundVars>>

-------------------------------------------------------------------------------
(***************************************************************************)
(* Failures.  At every call the reconcile in flight may end with an error: *)
(* the call was not carried out, or the call before it was but its answer  *)
(* was lost (a timeout, a body that does not decode, a recovered panic).   *)
(* A create request whose caller has given up or died may still reach the  *)
(* service later.                                                          *)
(***************************************************************************)
AbandonRequest ==
    \/ UNCHANGED late
    \/ pc = "createPlane" /\ Client = "http" /\ late = Empty /\ late' = obj.version

CallFails ==
    /\ pc # "idle"
    /\ faults < MaxFaults
    /\ faults' = faults + 1
    /\ AbandonRequest
    /\ Return(TRUE)
    /\ UNCHANGED <<k8sVars, secretVars, outsideVars, queueVars, tenants, issued,
                   edits>>

\* The process dies; the new one lists the resource and enqueues what it finds.
Restart ==
    /\ faults < MaxFaults
    /\ faults' = faults + 1
    /\ AbandonRequest
    /\ pc' = "idle"
    /\ obj' = NoObject
    /\ pid' = NoID
    /\ plane' = NoPlane
    /\ kubeconfig' = NoKubeconfig
    /\ timer' = FALSE
    /\ cache' = ncp
    /\ watch' = <<>>
    /\ queued' = Exists(ncp)
    /\ secretCache' = [kubeconfig |-> kubeconfigSecret, ca |-> caSecret]
    /\ secretWatch' = <<>>
    /\ UNCHANGED <<ncp, rv, kubeconfigSecret, caSecret, outsideVars, tenants,
                   issued, edits>>

LateCreate ==
    /\ late # Empty
    /\ late' = Empty
    /\ \/ /\ CreatePlaneErr(tenants, Name, issued) = "nil"
          /\ tenants' = Created(tenants, Name, late, issued)
          /\ issued' = issued + 1
       \/ /\ CreatePlaneErr(tenants, Name, issued) # "nil"
          /\ UNCHANGED <<tenants, issued>>
    /\ UNCHANGED <<k8sVars, secretVars, outsideVars, queueVars, timer, pc,
                   workVars, boundVars>>

-------------------------------------------------------------------------------
(***************************************************************************)
(* The manager.  Only the NoPlaneControlPlane is watched: a change of the  *)
(* Cluster or of a Secret wakes nobody.  Resync is the informer's periodic *)
(* replay of its cache.                                                    *)
(***************************************************************************)
managerIdleVars == <<secretVars, outsideVars, pc, workVars, serviceVars,
                     boundVars>>

Deliver ==
    /\ watch # <<>>
    /\ cache' = Head(watch)
    /\ watch' = Tail(watch)
    /\ queued' = TRUE
    /\ UNCHANGED <<ncp, rv, timer, managerIdleVars>>

\* Reconcile is not woken by this.
DeliverSecrets ==
    /\ secretWatch # <<>>
    /\ secretCache' = Head(secretWatch)
    /\ secretWatch' = Tail(secretWatch)
    /\ UNCHANGED <<k8sVars, kubeconfigSecret, caSecret, outsideVars, queueVars,
                   timer, pc, workVars, serviceVars, boundVars>>

TimerFires ==
    /\ timer
    /\ timer' = FALSE
    /\ queued' = TRUE
    /\ UNCHANGED <<k8sVars, cache, managerIdleVars>>

Resync ==
    /\ "resync" \in Env
    /\ Exists(cache) /\ ~queued
    /\ queued' = TRUE
    /\ UNCHANGED <<k8sVars, timer, cache, managerIdleVars>>

-------------------------------------------------------------------------------
(***************************************************************************)
(* The outside world.                                                      *)
(***************************************************************************)
controllerVars == <<cache, queued, timer, pc, workVars, late, issued, faults>>

Edit(event) ==
    /\ event \in Env
    /\ edits < MaxEdits
    /\ edits' = edits + 1

\* Cluster API sets the ownerReference.
SetOwner ==
    /\ Exists(ncp) /\ ~ncp.owned
    /\ Store([ncp EXCEPT !.owned = TRUE])
    /\ UNCHANGED <<controllerVars, secretVars, outsideVars, tenants, edits>>

\* Somebody writes a label or an annotation the controller does not read.
Touch ==
    /\ Edit("touch")
    /\ Exists(ncp)
    /\ rv' = rv + 1
    /\ ncp' = [ncp EXCEPT !.rv = rv + 1]
    /\ watch' = Append(watch, ncp')
    /\ UNCHANGED <<controllerVars, secretVars, outsideVars, tenants>>

EditSpec ==
    /\ Exists(ncp)
    /\ \/ /\ Edit("version")
          /\ \E v \in Versions \ {ncp.version} :
                Store([ncp EXCEPT !.version = v])
       \/ /\ Edit("planeID")
          /\ \E id \in SpecIDs \ {ncp.planeID} :
                Store([ncp EXCEPT !.planeID = id])
       \/ /\ Edit("pause")
          /\ Store([ncp EXCEPT !.paused = ~ncp.paused])
    /\ UNCHANGED <<controllerVars, secretVars, outsideVars, tenants>>

\* Background or foreground deletion; without a finalizer it is immediate.
DeleteNCP ==
    /\ "delete" \in Env
    /\ Exists(ncp) /\ ~ncp.deletionTimestamp
    /\ \/ /\ "foreground" \in Env
          /\ Store([ncp EXCEPT !.deletionTimestamp = TRUE, !.held = TRUE])
       \/ /\ ncp.finalizer
          /\ Store([ncp EXCEPT !.deletionTimestamp = TRUE])
       \/ ~ncp.finalizer /\ Remove
    /\ UNCHANGED <<controllerVars, secretVars, outsideVars, tenants, edits>>

\* The garbage collector drops its foregroundDeletion finalizer.
ForegroundDone ==
    /\ Exists(ncp) /\ ncp.held
    /\ \/ ncp.finalizer /\ Store([ncp EXCEPT !.held = FALSE])
       \/ ~ncp.finalizer /\ Remove
    /\ UNCHANGED <<controllerVars, secretVars, outsideVars, tenants, edits>>

\* A resource of the same name is applied again, under the same Cluster.
CreateNCP ==
    /\ Edit("create")
    /\ ~Exists(ncp)
    /\ \E v \in Versions, id \in SpecIDs : Store(Applied(0, v, id))
    /\ UNCHANGED <<controllerVars, secretVars, outsideVars, tenants>>

EditInputs ==
    /\ \/ /\ Edit("cluster")
          /\ cluster' \in {"ok", "paused", "missing"} \ {cluster}
          /\ UNCHANGED <<creds, secretVars>>
       \/ /\ Edit("creds")
          /\ creds' \in {"ok", "bad"} \ {creds}
          /\ UNCHANGED <<cluster, secretVars>>
       \/ /\ Edit("secret")
          /\ \/ StoreSecrets(NoKubeconfigSecret, caSecret)
             \/ StoreSecrets(kubeconfigSecret, NoCASecret)
             \/ /\ caSecret.type = "none"
                /\ StoreSecrets(kubeconfigSecret, OpaqueCASecret)
          /\ UNCHANGED outsideVars
    /\ UNCHANGED <<k8sVars, controllerVars, tenants>>

\* A tenant's API server becomes reachable and its hostname appears.
Provision ==
    /\ \E t \in tenants :
        /\ ~t.hostname
        /\ tenants' = (tenants \ {t}) \cup {[t EXCEPT !.hostname = TRUE]}
    /\ UNCHANGED <<k8sVars, controllerVars, secretVars, outsideVars, edits>>

\* A tenant is deleted behind the controller's back.
Vanish ==
    /\ Edit("vanish")
    /\ \E t \in tenants : tenants' = tenants \ {t}
    /\ UNCHANGED <<k8sVars, controllerVars, secretVars, outsideVars>>

-------------------------------------------------------------------------------
ReconcileStep ==
    \/ Reconcile \/ AddFinalizer
    \/ CreatePlane \/ LookupPlane \/ PersistPlaneID
    \/ GetThePlane \/ UpdateThePlane \/ UpdateEndpoint
    \/ FetchKubeconfig \/ WriteKubeconfig
    \/ CheckCA \/ WriteCA \/ RecreateCA \/ UpdateStatus
    \/ DeleteThePlane \/ RemoveFinalizer

Failure == CallFails \/ Restart \/ LateCreate

Manager == Deliver \/ DeliverSecrets \/ TimerFires \/ Resync

Outside ==
    \/ SetOwner \/ Touch \/ EditSpec \/ DeleteNCP \/ ForegroundDone
    \/ CreateNCP \/ EditInputs \/ Provision \/ Vanish

Next == ReconcileStep \/ Failure \/ Manager \/ Outside

Spec == Init /\ [][Next]_vars

(***************************************************************************)
(* The worker goroutine keeps executing, the workqueue hands out what is   *)
(* due, the watch delivers; Cluster API, the garbage collector and the     *)
(* provisioning of the service do their part.  Users and faults are not    *)
(* fair.                                                                   *)
(***************************************************************************)
Fairness ==
    /\ WF_vars(ReconcileStep)
    /\ WF_vars(Deliver)
    /\ WF_vars(DeliverSecrets)
    /\ WF_vars(TimerFires)
    /\ WF_vars(Resync)
    /\ WF_vars(SetOwner)
    /\ WF_vars(ForegroundDone)
    /\ WF_vars(Provision)

FairSpec == Spec /\ Fairness

-------------------------------------------------------------------------------
(***************************************************************************)
(* The inductive invariant behind the action properties.  VersionOf says   *)
(* of a copy o of the resource, given the stored one n, the last           *)
(* resourceVersion r and the number k of IDs issued, that equal versions   *)
(* are equal objects and that its plane ID was really issued.              *)
(***************************************************************************)
VersionOf(o, n, r, k) ==
    /\ o.rv <= r
    /\ Exists(o) /\ o.rv = n.rv => o = n
    /\ o.status.planeID <= k

Snapshots ==
    /\ ~Exists(ncp) => ncp = NoObject
    /\ VersionOf(ncp, ncp, rv, issued)
    /\ VersionOf(obj, ncp, rv, issued)
    /\ VersionOf(cache, ncp, rv, issued)
    /\ \A i \in 1..Len(watch) : VersionOf(watch[i], ncp, rv, issued)

Resolving == {"createPlane", "lookupPlane", "persistPlaneID"}
Publishing == {"updatePlane", "updateEndpoint", "fetchKubeconfig",
               "writeKubeconfig", "checkCA", "writeCA", "recreateCA",
               "updateStatus"}

Provenance ==
    /\ \A t \in tenants : t.id <= issued
    /\ late # Empty => Client = "http"
    /\ pc \in Resolving => obj.status.planeID = NoID
    /\ pc = "persistPlaneID" => pid \in 1..issued
    /\ pc \in Publishing \cup {"getPlane"} =>
          pid # NoID /\ pid \in {obj.status.planeID, obj.planeID}
    /\ pc \in Publishing => pid <= issued
    /\ pc = "removeFinalizer" => ~HasID(tenants, obj.status.planeID)

\* Every copy of the resource the manager holds is a version the API server
\* stored, the plane a reconcile works on is the one its copy names, and the
\* finalizer is about to be dropped only if that plane is gone.
SafetyInv == Snapshots /\ Provenance

(***************************************************************************)
(* The copies of the resource, in the order of their age: the informer's   *)
(* cache, then the versions on their way to it.  obj, the copy in memory,  *)
(* is at most as new as the cache until the reconcile writes it.           *)
(***************************************************************************)
Pending == {watch[i] : i \in 1..Len(watch)}
Copies == {obj, cache} \cup Pending

Unfinished == Resolving \cup Publishing \cup {"getPlane"}
Unwritten == {"addFinalizer", "deletePlane", "removeFinalizer"}

\* The calls that come after GetKubeconfig succeeded for the copy in memory.
Fetched == {"writeKubeconfig", "checkCA", "writeCA", "recreateCA",
            "updateStatus"}

\* Which resources a reconcile has in hand at which call.
Stage ==
    /\ pc = "idle" => obj = NoObject
    /\ pc \in Unfinished => obj.finalizer /\ ~obj.deletionTimestamp
    /\ pc \in {"deletePlane", "removeFinalizer"} =>
          obj.finalizer /\ obj.deletionTimestamp

\* The stored version is the last one the informer gets to see.
Newest ==
    /\ Exists(cache) /\ cache.rv = ncp.rv => watch = <<>>
    /\ \A i \in 1..Len(watch) :
          Exists(watch[i]) /\ watch[i].rv = ncp.rv => i = Len(watch)
    /\ pc \in Unwritten /\ Fresh => cache = obj /\ watch = <<>>

Guarded ==
    \A o \in Copies : o.finalizer /\ ~o.deletionTimestamp => ncp.finalizer

\* No copy, however old, shows a finalizer to act under that the stored
\* resource has lost: the last write of a life is made from its last version.
GuardInv == Stage /\ Newest /\ Guarded

\* A resource for which resolvePlaneID may still have to create a plane.
Creating(o) == o.finalizer /\ ~o.deletionTimestamp /\ o.status.planeID = NoID

\* What holds of a version n of the resource that is later than version o.
Later(o, n) ==
    /\ o.deletionTimestamp /\ HasID(tenants, o.status.planeID) =>
          n.deletionTimestamp
    /\ o.status.planeID # NoID => ~Creating(n)

History ==
    /\ \A o \in Copies \cup {ncp} : o.planeID \in SpecIDs \cup {NoID}
    /\ \A i, j \in 1..Len(watch) : i < j => Later(watch[i], watch[j])
    /\ \A o \in Pending : Later(cache, o)
    /\ obj.deletionTimestamp /\ HasID(tenants, obj.status.planeID) =>
          \A o \in Pending \cup {cache} : o.deletionTimestamp
    /\ pc \in Unfinished /\ obj.status.planeID \notin {pid, NoID} =>
          \A o \in Pending \cup {cache} : ~Creating(o)
    /\ Creating(ncp) => \A o \in Copies : o.status.planeID = NoID

\* The plane on record and what the copies know of it.
OnRecord ==
    /\ ~ncp.finalizer => ~HasID(tenants, ncp.status.planeID)
    /\ ~ncp.finalizer /\ ~ncp.deletionTimestamp => ncp.status.planeID = NoID
    /\ ncp.held => ncp.deletionTimestamp
    /\ \A o \in Copies :
          o.deletionTimestamp /\ HasID(tenants, o.status.planeID) =>
              ncp.deletionTimestamp /\ ncp.status.planeID = o.status.planeID
    /\ (\E o \in Copies : Creating(o)) =>
          \A t \in tenants : t.id = ncp.status.planeID => t.name = Name

\* What a call has established by the time of the next one.
Established ==
    /\ pc # "lookupPlane"
    /\ pc = "persistPlaneID" =>
          \A t \in tenants : t.id = pid => t.name = Name
    /\ pc \in Fetched => obj.status.planeID # NoID

Agreed == History /\ OnRecord /\ Established

\* As long as no plane disappears by itself.
StillRunning ==
    /\ pc \in Publishing \cup {"persistPlaneID"} => HasID(tenants, pid)
    /\ pc = "persistPlaneID" => HasName(tenants, Name)
    /\ ncp.status.planeID # NoID /\ (\E o \in Copies : Creating(o)) =>
          HasName(tenants, Name)

\* With noplane.Client, what any copy of the resource still asks for agrees
\* with the plane on record: a deletion concerns that plane, and a creation
\* is attempted beside it only in vain, since it holds the name.
RecordInv == Agreed /\ ("vanish" \notin Env => StillRunning)

\* What of it does not depend on who else uses the service.
Settled == TypeOK /\ SafetyInv /\ GuardInv /\ Agreed

\* The plane IDs that a reconcile of this resource may still act on.
Held == {o.status.planeID : o \in Copies \cup {ncp}}
            \cup (IF pc = "persistPlaneID" THEN {pid} ELSE {})

\* The endpoint that was surfaced is the hostname of the plane read last.
Surfaced ==
    /\ pc \in Publishing => plane.host.kind = "hostname"
    /\ pc \in Fetched \cup {"fetchKubeconfig"} => obj.endpoint = plane.host

\* The stored kubeconfig is the one of the plane that the copy names.
Delivered ==
    /\ pc = "writeKubeconfig" => kubeconfig.plane = obj.status.planeID
    /\ pc \in Fetched \ {"writeKubeconfig"} =>
          /\ kubeconfigSecret.exists
          /\ kubeconfigSecret.value.plane = obj.status.planeID

Keyed == pc = "updateStatus" => caSecret.key

\* No version of the Secrets that the cache has or will get shows a CA key
\* that the stored Secret has lost.  A cache that does not lag shows what is
\* stored; one that does is safe as long as no CA secret is of a wrong type,
\* for which it would be deleted and created again.
NoneOpaque == \A c \in InitialCASecrets : c.type # "Opaque"

StoredSecrets == [kubeconfig |-> kubeconfigSecret, ca |-> caSecret]
SecretCopies == {StoredSecrets, secretCache}
                    \cup {secretWatch[i] : i \in 1..Len(secretWatch)}

KeysKept ==
    /\ \A s \in SecretCopies : s.ca.key => caSecret.key
    /\ NoneOpaque => \A s \in SecretCopies : s.ca.type # "Opaque"
    /\ MaxLag = 0 => secretWatch = <<>> /\ secretCache = StoredSecrets

\* With noplane.Client, what Reconcile has published so far it can rely on,
\* as long as nobody else removes the Secrets and no cache that lags shows a
\* CA secret that has been replaced since.
PublishInv == Surfaced /\ Delivered /\ Keyed /\ KeysKept

(***************************************************************************)
(* What a step may never do.                                               *)
(***************************************************************************)

\* reconcileDelete lets go of the resource only after the plane whose ID is
\* persisted in its status is gone from noplane.io: whatever failed, crashed
\* or was retried, a persisted plane is never forgotten while it runs.
ReleasedBeforeForgotten ==
    [][ncp.finalizer /\ ~ncp'.finalizer /\ ncp.status.planeID # NoID
            => ~HasID(tenants', ncp.status.planeID)]_vars

\* CreatePlane is sent on the strength of a cached copy of the resource, and
\* yet only while the stored resource carries the finalizer that makes
\* reconcileDelete run before the resource is gone.
CreateOnlyUnderFinalizer ==
    [][pc = "createPlane" /\ pc' = "persistPlaneID" => ncp.finalizer]_vars

\* resolvePlaneID "never creates a duplicate": a create succeeds only while
\* the stored resource has no plane, although the copy that the decision was
\* taken on may be older than the write that persisted one.
NeverASecondPlane ==
    [][pc = "createPlane" /\ pc' = "persistPlaneID"
            => ncp.status.planeID = NoID]_vars

\* Status written from a stale copy never undoes newer status: initialized
\* is "never set back to false once true", and a persisted plane ID is only
\* ever replaced by the spec.planeID of the same resource.
StatusNeverRegresses ==
    [][Exists(ncp) /\ Exists(ncp') =>
        /\ ncp.status.initialized => ncp'.status.initialized
        /\ ncp.status.planeID # NoID =>
              ncp'.status.planeID \in {ncp.status.planeID, ncp.planeID} \ {NoID}
      ]_vars

\* CAPI core starts bootstrapping workers when initialized turns true: by
\* then the endpoint is the hostname of a reachable API server, the CA secret
\* has the key that CABPK insists on and the published kubeconfig is the one
\* of the plane that status names.
InitializedImpliesPublished ==
    [][~ncp.status.initialized /\ ncp'.status.initialized =>
        /\ ncp.endpoint.kind = "hostname"
        /\ caSecret.key
        /\ kubeconfigSecret.exists
        /\ kubeconfigSecret.value.plane = ncp'.status.planeID]_vars

Lifecycle == INSTANCE PlaneLifecycle
    WITH Named <- SpecIDs \ {NoID},
         MayVanish <- "vanish" \in Env,
         resource <- IF ncp.finalizer THEN "guarded"
                     ELSE IF Exists(ncp) THEN "applied" ELSE "absent",
         deleting <- ncp.deletionTimestamp,
         record <- ncp.status.planeID,
         published <- ncp.status.initialized,
         planes <- {t.id : t \in tenants},
         started <- issued,
         asked <- late # Empty

\* Seen from the resource and the planes alone, everything that Reconcile,
\* its retries, crashes and stale copies do is a step of PlaneLifecycle.
ImplementsLifecycle == Lifecycle!Spec

(***************************************************************************)
(* What must eventually happen.                                            *)
(***************************************************************************)
Unhindered == cluster = "ok" /\ creds = "ok" /\ ~ncp.paused

Wanted == Exists(ncp) /\ ~ncp.deletionTimestamp /\ Unhindered

\* The plane on record, created or adopted, is ready, and what is published
\* is its host, its credentials and a CA with a key.
Converged ==
    /\ ncp.status.initialized
    /\ \E p \in GetPlane(tenants, ncp.status.planeID) :
          p.status = "ready" /\ ncp.endpoint = p.host
    /\ ncp.status.version = ncp.version
    /\ kubeconfigSecret.value.plane = ncp.status.planeID
    /\ caSecret.key

\* A resource that stays wanted is in the end provisioned, at the version
\* asked for, and published, and stays so: no conflict, crash, lost answer
\* or missed wake-up leaves Reconcile waiting for nothing.
Converges == <>[]Wanted => <>[]Converged

\* A resource being deleted goes away: reconcileDelete is never stuck on a
\* plane that is already gone, nor is its wake-up lost.
EventuallyGone ==
    ~<>[](Exists(ncp) /\ ncp.deletionTimestamp /\ Unhindered)

(***************************************************************************)
(* What comments in the code say and the code does not do.                 *)
(***************************************************************************)

\* reconcileDelete without a persisted plane ID: "Nothing was ever created".
NothingWasEverCreated ==
    [][ncp.finalizer /\ ~ncp'.finalizer /\ ncp.status.planeID = NoID
            => ~HasName(tenants, Name)]_vars

\* reconcileCASecret keeps "the real CA cert from the kubeconfig" in the
\* secret that is there when the control plane becomes initialized.
RealCACert ==
    [][~ncp.status.initialized /\ ncp'.status.initialized
            => caSecret.crt = ncp'.status.planeID]_vars
===============================================================================
