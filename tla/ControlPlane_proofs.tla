------------------------ MODULE ControlPlane_proofs ------------------------
(***************************************************************************)
(* Proofs about module ControlPlane, for every value of its constants:     *)
(* type correctness, the inductive invariant SafetyInv, and from it that   *)
(* reconcileDelete never lets go of a persisted plane that still runs and  *)
(* that no status write undoes a newer one.                                *)
(***************************************************************************)
EXTENDS ControlPlane, TLAPS

USE DEF NoID

-------------------------------------------------------------------------------
(***************************************************************************)
(* Types of the constants and of the pieces that actions are built from.   *)
(***************************************************************************)

\* The zero values have their types.
LEMMA ZeroTypes ==
    /\ NoStatus \in Status
    /\ NoObject \in NCP
    /\ NoPlane \in Plane
    /\ NoKubeconfig \in Kubeconfig
    /\ NoKubeconfigSecret \in KubeconfigSecret
    /\ NoCASecret \in CASecret
    /\ OpaqueCASecret \in CASecret
    /\ NoObject.rv = 0
    /\ NoObject.status.planeID = 0
    /\ NoObject.finalizer = FALSE
  BY DEF NoStatus, Status, NoObject, NCP, NoPlane, Plane, Hosts, NoHost,
         NoKubeconfig, Kubeconfig, NoKubeconfigSecret, KubeconfigSecret,
         NoCASecret, OpaqueCASecret, CASecret

\* What a user applies is a resource without finalizer and status.
LEMMA AppliedType ==
    ASSUME NEW r \in Nat, NEW v \in Versions, NEW id \in Nat
    PROVE  /\ Applied(r, v, id) \in NCP
           /\ Applied(r, v, id).rv = r
           /\ Applied(r, v, id).status = NoStatus
           /\ Applied(r, v, id).finalizer = FALSE
  BY ZeroTypes DEF Applied, NoObject, NCP, Hosts, NoHost

\* A resource whose fields are edited one at a time stays a resource.
LEMMA EditedType ==
    ASSUME NEW o \in NCP
    PROVE  /\ \A b \in BOOLEAN :
                /\ [o EXCEPT !.finalizer = b] \in NCP
                /\ [o EXCEPT !.held = b] \in NCP
                /\ [o EXCEPT !.owned = b] \in NCP
                /\ [o EXCEPT !.paused = b] \in NCP
                /\ [o EXCEPT !.deletionTimestamp = b] \in NCP
                /\ [o EXCEPT !.deletionTimestamp = TRUE, !.held = b] \in NCP
           /\ \A n \in Nat :
                /\ [o EXCEPT !.rv = n] \in NCP
                /\ [o EXCEPT !.planeID = n] \in NCP
                /\ [o EXCEPT !.status.planeID = n] \in NCP
           /\ \A h \in Hosts : [o EXCEPT !.endpoint = h] \in NCP
           /\ \A v \in Versions : [o EXCEPT !.version = v] \in NCP
           /\ \A s \in Status : [o EXCEPT !.status = s] \in NCP
  BY DEF NCP, Status

\* UpdatePlane leaves tenants behind.
LEMMA UpdatedType ==
    ASSUME NEW ts \in SUBSET Tenant, NEW id, NEW v \in Versions \cup {Empty}
    PROVE  Updated(ts, id, v) \in SUBSET Tenant
  <1>1. \A t \in Tenant : [t EXCEPT !.version = v] \in Tenant
    BY DEF Tenant
  <1>2. \A t \in ts : t \in Tenant
    OBVIOUS
  <1> QED
    BY <1>1, <1>2 DEF Updated

\* A write of a resource keeps the API server's variables well typed.
LEMMA StoreType ==
    ASSUME TypeOK, NEW o \in NCP, Store(o)
    PROVE  /\ ncp' \in NCP
           /\ rv' \in Nat
           /\ watch' \in Seq(NCP)
  <1>1. CASE o = ncp
    BY <1>1 DEF Store, TypeOK, k8sVars
  <1>2. CASE o # ncp
    <2>1. rv' = rv + 1 /\ ncp' = [o EXCEPT !.rv = rv + 1]
          /\ watch' = Append(watch, ncp')
      BY <1>2 DEF Store
    <2>2. rv + 1 \in Nat /\ watch \in Seq(NCP)
      BY DEF TypeOK
    <2>3. ncp' \in NCP
      BY <2>1, <2>2, EditedType
    <2> QED
      BY <2>1, <2>2, <2>3
  <1> QED
    BY <1>1, <1>2

\* So does a removal.
LEMMA RemoveType ==
    ASSUME TypeOK, Remove
    PROVE  /\ ncp' \in NCP
           /\ rv' \in Nat
           /\ watch' \in Seq(NCP)
  BY ZeroTypes DEF Remove, TypeOK

\* A write of the Secrets keeps them, their cache and its events well typed.
LEMMA SecretsType ==
    ASSUME TypeOK, NEW k \in KubeconfigSecret, NEW c \in CASecret,
           StoreSecrets(k, c)
    PROVE  /\ kubeconfigSecret' \in KubeconfigSecret
           /\ caSecret' \in CASecret
           /\ secretCache' \in Secrets
           /\ secretWatch' \in Seq(Secrets)
  <1>1. [kubeconfig |-> k, ca |-> c] \in Secrets
    BY DEF Secrets
  <1>2. secretCache \in Secrets /\ secretWatch \in Seq(Secrets)
    BY DEF TypeOK
  <1>3. Append(secretWatch, [kubeconfig |-> k, ca |-> c]) \in Seq(Secrets)
    BY <1>1, <1>2
  <1> QED
    BY <1>1, <1>2, <1>3 DEF StoreSecrets

\* And so does the end of a reconcile for the reconcile's own variables.
LEMMA ReturnType ==
    ASSUME TypeOK, NEW requeue \in BOOLEAN, Return(requeue)
    PROVE  /\ pc' \in Calls \cup {"idle"}
           /\ obj' \in NCP
           /\ pid' \in Nat
           /\ plane' \in Plane
           /\ kubeconfig' \in Kubeconfig
           /\ timer' \in BOOLEAN
  BY ZeroTypes DEF Return, TypeOK

\* What the service creates is a tenant with an ID of its own.
LEMMA CreatedType ==
    ASSUME NEW ts \in SUBSET Tenant, NEW v \in Versions \cup {Empty},
           NEW k \in Nat
    PROVE  /\ NewID(k) \in PlaneIDs
           /\ NewID(k) <= k + 1
           /\ Created(ts, Name, v, k) \in SUBSET Tenant
           /\ \A t \in Created(ts, Name, v, k) : t \in ts \/ t.id = NewID(k)
  <1>1. NewID(k) \in PlaneIDs /\ NewID(k) <= k + 1
    BY DEF NewID, PlaneIDs
  <1> DEFINE new == [id |-> NewID(k), name |-> Name, version |-> v,
                     hostname |-> Client = "fake"]
  <1>2. (Client = "fake") \in BOOLEAN
    OBVIOUS
  <1>3. new \in Tenant /\ new.id = NewID(k)
    BY <1>1, <1>2, NameAssumption DEF Tenant
  <1>4. Created(ts, Name, v, k) = ts \cup {new}
    BY DEF Created
  <1> HIDE DEF new
  <1> QED
    BY <1>1, <1>3, <1>4

\* The answers of GetPlane and GetPlaneByName are planes with real IDs.
LEMMA GetPlaneType ==
    ASSUME NEW ts \in SUBSET Tenant, NEW id, NEW n
    PROVE  /\ \A p \in GetPlane(ts, id) :
                p \in Plane /\ p.id = id /\ p.id # 0 /\ HasID(ts, p.id)
           /\ \A p \in GetPlaneByName(ts, n) :
                p \in Plane /\ p.id # 0 /\ HasID(ts, p.id)
  <1>1. ASSUME NEW t \in Tenant
        PROVE  tenantToPlane(t) \in Plane /\ tenantToPlane(t).id = t.id /\ t.id # 0
    BY DEF Tenant, tenantToPlane, Plane, Hosts, PlaneIDs
  <1> QED
    BY <1>1 DEF GetPlane, GetPlaneByName, HasID

-------------------------------------------------------------------------------
(***************************************************************************)
(* Type correctness.  One step per action, on top of the lemmas about the  *)
(* API server (StoreType, RemoveType) and the end of a reconcile.          *)
(***************************************************************************)
\* The initial state is well typed.
LEMMA TypeInit == Init => TypeOK
  <1> SUFFICES ASSUME Init PROVE TypeOK
    OBVIOUS
  <1>1. PICK v \in Versions, id \in SpecIDs : ncp = Applied(1, v, id)
    BY DEF Init
  <1>2. ncp \in NCP
    BY <1>1, AppliedType, SpecIDsAssumption
  <1>3. watch \in Seq(NCP)
    BY <1>2 DEF Init
  <1>4. /\ tenants \subseteq Tenant /\ issued \in Nat
        /\ caSecret \in CASecret
        /\ faults \in 0..MaxFaults /\ edits \in 0..MaxEdits
    BY TenantsAssumption, CASecretsAssumption, BoundsAssumption DEF Init
  <1>5. /\ kubeconfigSecret \in KubeconfigSecret
        /\ cache \in NCP /\ obj \in NCP
        /\ plane \in Plane /\ kubeconfig \in Kubeconfig
    BY ZeroTypes DEF Init
  <1>6. secretCache \in Secrets /\ secretWatch \in Seq(Secrets)
    BY <1>4, <1>5 DEF Init, Secrets
  <1> QED
    BY <1>2, <1>3, <1>4, <1>5, <1>6 DEF Init, TypeOK

\* So is the state after every call of a reconcile.
LEMMA TypeReconcile ==
    ASSUME TypeOK, ReconcileStep
    PROVE  TypeOK'
  <1> USE DEF k8sVars, secretVars, outsideVars, queueVars, workVars,
              serviceVars, boundVars
  <1>1. ASSUME NEW call \in Calls, Goto(call)
        PROVE  pc' \in Calls \cup {"idle"} /\ timer' \in BOOLEAN
    BY <1>1 DEF Goto, TypeOK
  <1>2. CASE Reconcile
    <2>1. cache \in NCP /\ KnownPlaneID(cache) \in Nat
          /\ FirstCall(cache) \in Calls
      BY DEF TypeOK, KnownPlaneID, FirstCall, NCP, Status, Calls
    <2>2. CASE Return(FALSE) \/ Return(TRUE)
      BY <1>2, <2>2, ReturnType DEF Reconcile, TypeOK
    <2>3. CASE /\ obj' = cache
               /\ pid' = KnownPlaneID(cache)
               /\ Goto(FirstCall(cache))
               /\ UNCHANGED <<plane, kubeconfig>>
      BY <1>1, <1>2, <2>1, <2>3 DEF Reconcile, TypeOK
    <2> QED
      BY <1>2, <2>2, <2>3 DEF Reconcile
  <1>3. CASE AddFinalizer
    <2>1. ncp' \in NCP /\ rv' \in Nat /\ watch' \in Seq(NCP)
      <3>1. [obj EXCEPT !.finalizer = TRUE] \in NCP
        BY EditedType DEF TypeOK
      <3> QED
        BY <1>3, <3>1, StoreType DEF AddFinalizer, TypeOK
    <2>2. Return(FALSE) \/ Return(TRUE)
      BY <1>3 DEF AddFinalizer
    <2> QED
      BY <1>3, <2>1, <2>2, ReturnType DEF AddFinalizer, TypeOK
  <1>4. CASE CreatePlane
    <2>1. /\ NewID(issued) \in PlaneIDs
          /\ Created(tenants, Name, obj.version, issued) \in SUBSET Tenant
      BY CreatedType DEF TypeOK, NCP
    <2>2. tenants' \in SUBSET Tenant /\ issued' \in Nat
      <3>1. \/ /\ tenants' = Created(tenants, Name, obj.version, issued)
               /\ issued' = issued + 1
            \/ UNCHANGED <<tenants, issued>>
        BY <1>4 DEF CreatePlane
      <3> QED
        BY <2>1, <3>1 DEF TypeOK
    <2>3. CASE Return(TRUE)
      BY <1>4, <2>2, <2>3, ReturnType DEF CreatePlane, TypeOK
    <2>4. CASE Goto("persistPlaneID") /\ pid' = NewID(issued)
               /\ UNCHANGED <<obj, plane, kubeconfig>>
      BY <1>1, <1>4, <2>1, <2>2, <2>4
         DEF CreatePlane, TypeOK, PlaneIDs, Calls
    <2>5. CASE Goto("lookupPlane") /\ UNCHANGED workVars
      BY <1>1, <1>4, <2>2, <2>5 DEF CreatePlane, TypeOK, Calls
    <2> QED
      BY <1>4, <2>3, <2>4, <2>5 DEF CreatePlane
  <1>5. CASE LookupPlane
    <2>1. CASE Return(TRUE)
      BY <1>5, <2>1, ReturnType DEF LookupPlane, TypeOK
    <2>2. CASE \E p \in GetPlaneByName(tenants, Name) :
                 /\ pid' = p.id
                 /\ Goto("persistPlaneID")
                 /\ UNCHANGED <<obj, plane, kubeconfig>>
      <3>1. pid' \in Nat
        <4>1. PICK p \in GetPlaneByName(tenants, Name) : pid' = p.id
          BY <2>2
        <4>2. p \in Plane
          BY <4>1, GetPlaneType DEF TypeOK
        <4> QED
          BY <4>1, <4>2 DEF Plane
      <3> QED
        BY <1>1, <1>5, <2>2, <3>1 DEF LookupPlane, TypeOK, Calls
    <2> QED
      BY <1>5, <2>1, <2>2 DEF LookupPlane
  <1>6. CASE PersistPlaneID
    <2>1. CASE Return(TRUE) /\ UNCHANGED k8sVars
      BY <1>6, <2>1, ReturnType DEF PersistPlaneID, TypeOK
    <2>2. CASE /\ Store([obj EXCEPT !.status.planeID = pid])
               /\ obj' = ncp'
               /\ Goto("getPlane")
               /\ UNCHANGED <<pid, plane, kubeconfig>>
      <3>1. [obj EXCEPT !.status.planeID = pid] \in NCP
        BY EditedType DEF TypeOK
      <3>2. ncp' \in NCP /\ rv' \in Nat /\ watch' \in Seq(NCP)
        BY <2>2, <3>1, StoreType
      <3> QED
        BY <1>1, <1>6, <2>2, <3>2 DEF PersistPlaneID, TypeOK, Calls
    <2> QED
      BY <1>6, <2>1, <2>2 DEF PersistPlaneID
  <1>7. CASE GetThePlane
    <2>1. CASE Return(TRUE)
      BY <1>7, <2>1, ReturnType DEF GetThePlane, TypeOK
    <2>2. CASE \E p \in GetPlane(tenants, pid) :
                 /\ plane' = p
                 /\ Goto(CallAfterGet(p))
                 /\ UNCHANGED <<obj, pid, kubeconfig>>
      <3>1. plane' \in Plane
        BY <2>2, GetPlaneType DEF TypeOK
      <3>2. \A p : CallAfterGet(p) \in Calls
        BY DEF CallAfterGet, Calls
      <3> QED
        BY <1>1, <1>7, <2>2, <3>1, <3>2 DEF GetThePlane, TypeOK
    <2> QED
      BY <1>7, <2>1, <2>2 DEF GetThePlane
  <1>8. CASE UpdateThePlane
    <2>1. tenants \in SUBSET Tenant /\ obj.version \in Versions \cup {Empty}
      BY DEF TypeOK, NCP
    <2>2. Updated(tenants, pid, obj.version) \in SUBSET Tenant
      BY <2>1, UpdatedType
    <2> QED
      BY <1>8, <2>2, ReturnType DEF UpdateThePlane, TypeOK
  <1>9. CASE UpdateEndpoint
    <2>1. CASE Return(TRUE) /\ UNCHANGED k8sVars
      BY <1>9, <2>1, ReturnType DEF UpdateEndpoint, TypeOK
    <2>2. CASE /\ Store([obj EXCEPT !.endpoint = plane.host])
               /\ obj' = ncp'
               /\ Goto("fetchKubeconfig")
               /\ UNCHANGED <<pid, plane, kubeconfig>>
      <3>1. [obj EXCEPT !.endpoint = plane.host] \in NCP
        BY EditedType DEF TypeOK, Plane
      <3>2. ncp' \in NCP /\ rv' \in Nat /\ watch' \in Seq(NCP)
        BY <2>2, <3>1, StoreType
      <3> QED
        BY <1>1, <1>9, <2>2, <3>2 DEF UpdateEndpoint, TypeOK, Calls
    <2> QED
      BY <1>9, <2>1, <2>2 DEF UpdateEndpoint
  <1>10. ASSUME NEW good \in BOOLEAN, GetKubeconfig(good)
         PROVE  kubeconfig' \in Kubeconfig /\ faults' \in 0..MaxFaults
    BY <1>10, BoundsAssumption
       DEF GetKubeconfig, Kubeconfig, KubeconfigOf, TypeOK, NCP, Status
  <1>11. CASE FetchKubeconfig
    <2>1. CASE Return(TRUE) /\ UNCHANGED faults
      BY <1>11, <2>1, ReturnType DEF FetchKubeconfig, TypeOK
    <2>2. CASE \E good \in BOOLEAN : /\ GetKubeconfig(good)
                                     /\ Goto("writeKubeconfig")
                                     /\ UNCHANGED <<obj, pid, plane>>
      BY <1>1, <1>10, <1>11, <2>2 DEF FetchKubeconfig, TypeOK, Calls
    <2> QED
      BY <1>11, <2>1, <2>2 DEF FetchKubeconfig
  <1>12. CASE WriteKubeconfig
    <2>1. CASE /\ StoreSecrets([exists |-> TRUE, value |-> kubeconfig], caSecret)
               /\ kubeconfig' = NoKubeconfig
               /\ Goto("checkCA")
               /\ UNCHANGED <<obj, pid, plane>>
      <3>1. [exists |-> TRUE, value |-> kubeconfig] \in KubeconfigSecret
        BY DEF KubeconfigSecret, TypeOK
      <3>2. /\ kubeconfigSecret' \in KubeconfigSecret
            /\ caSecret' \in CASecret
            /\ secretCache' \in Secrets
            /\ secretWatch' \in Seq(Secrets)
        BY <2>1, <3>1, SecretsType DEF TypeOK
      <3> QED
        BY <1>1, <1>12, <2>1, <3>2, ZeroTypes DEF WriteKubeconfig, TypeOK, Calls
    <2>2. CASE Return(TRUE) /\ UNCHANGED secretVars
      BY <1>12, <2>2, ReturnType DEF WriteKubeconfig, TypeOK
    <2> QED
      BY <1>12, <2>1, <2>2 DEF WriteKubeconfig
  <1>13. CASE CheckCA
    <2>1. CASE Goto("updateStatus") /\ UNCHANGED <<workVars, faults>>
      BY <1>1, <1>13, <2>1 DEF CheckCA, TypeOK, Calls
    <2>2. CASE GetKubeconfig(TRUE) /\ Goto("writeCA")
               /\ UNCHANGED <<obj, pid, plane>>
      BY <1>1, <1>10, <1>13, <2>2 DEF CheckCA, TypeOK, Calls
    <2>3. CASE Return(TRUE) /\ UNCHANGED faults
      BY <1>13, <2>3, ReturnType DEF CheckCA, TypeOK
    <2>4. CASE faults < MaxFaults /\ faults' = faults + 1 /\ Return(TRUE)
      <3>1. faults' \in 0..MaxFaults
        BY <2>4, BoundsAssumption DEF TypeOK
      <3> QED
        BY <1>13, <2>4, <3>1, ReturnType DEF CheckCA, TypeOK
    <2> QED
      BY <1>13, <2>1, <2>2, <2>3, <2>4 DEF CheckCA
  <1>a. OurCASecret \in CASecret /\ kubeconfigSecret \in KubeconfigSecret
    BY DEF OurCASecret, TypeOK, CASecret, Kubeconfig
  <1>14. CASE WriteCA
    <2>1. CASE Return(TRUE) /\ UNCHANGED secretVars
      BY <1>14, <2>1, ReturnType DEF WriteCA, TypeOK
    <2>2. CASE /\ StoreSecrets(kubeconfigSecret, OurCASecret)
               /\ kubeconfig' = NoKubeconfig
               /\ Goto("updateStatus")
               /\ UNCHANGED <<obj, pid, plane>>
      <3>1. /\ kubeconfigSecret' \in KubeconfigSecret
            /\ caSecret' \in CASecret
            /\ secretCache' \in Secrets
            /\ secretWatch' \in Seq(Secrets)
        BY <1>a, <2>2, SecretsType
      <3> QED
        BY <1>1, <1>14, <2>2, <3>1, ZeroTypes DEF WriteCA, TypeOK, Calls
    <2>3. CASE /\ StoreSecrets(kubeconfigSecret, NoCASecret)
               /\ Goto("recreateCA")
               /\ UNCHANGED workVars
      <3>1. /\ kubeconfigSecret' \in KubeconfigSecret
            /\ caSecret' \in CASecret
            /\ secretCache' \in Secrets
            /\ secretWatch' \in Seq(Secrets)
        BY <1>a, <2>3, SecretsType, ZeroTypes
      <3> QED
        BY <1>1, <1>14, <2>3, <3>1 DEF WriteCA, TypeOK, Calls
    <2> QED
      BY <1>14, <2>1, <2>2, <2>3 DEF WriteCA
  <1>15. CASE RecreateCA
    <2>1. CASE Return(TRUE) /\ UNCHANGED secretVars
      BY <1>15, <2>1, ReturnType DEF RecreateCA, TypeOK
    <2>2. CASE /\ StoreSecrets(kubeconfigSecret, OurCASecret)
               /\ kubeconfig' = NoKubeconfig
               /\ Goto("updateStatus")
               /\ UNCHANGED <<obj, pid, plane>>
      <3>1. /\ kubeconfigSecret' \in KubeconfigSecret
            /\ caSecret' \in CASecret
            /\ secretCache' \in Secrets
            /\ secretWatch' \in Seq(Secrets)
        BY <1>a, <2>2, SecretsType
      <3> QED
        BY <1>1, <1>15, <2>2, <3>1, ZeroTypes DEF RecreateCA, TypeOK, Calls
    <2> QED
      BY <1>15, <2>1, <2>2 DEF RecreateCA
  <1>16. CASE UpdateStatus
    <2> DEFINE st == [planeID |-> pid, ready |-> TRUE, initialized |-> TRUE,
                      version |-> plane.version]
    <2>1. st \in Status
      BY DEF TypeOK, Status, Plane
    <2>2. [obj EXCEPT !.status = st] \in NCP
      BY <2>1, EditedType DEF TypeOK
    <2>3. Store([obj EXCEPT !.status = st]) \/ UNCHANGED k8sVars
      BY <1>16 DEF UpdateStatus
    <2>4. ncp' \in NCP /\ rv' \in Nat /\ watch' \in Seq(NCP)
      BY <2>2, <2>3, StoreType DEF TypeOK
    <2> QED
      BY <1>16, <2>4, ReturnType DEF UpdateStatus, TypeOK
  <1>17. CASE DeleteThePlane
    <2>1. Deleted(tenants, obj.status.planeID) \in SUBSET Tenant
      BY DEF Deleted, TypeOK
    <2>2. CASE Return(TRUE)
      BY <1>17, <2>1, <2>2, ReturnType DEF DeleteThePlane, TypeOK
    <2>3. CASE Goto("removeFinalizer") /\ UNCHANGED workVars
      BY <1>1, <1>17, <2>1, <2>3 DEF DeleteThePlane, TypeOK, Calls
    <2> QED
      BY <1>17, <2>2, <2>3 DEF DeleteThePlane
  <1>18. CASE RemoveFinalizer
    <2>1. [obj EXCEPT !.finalizer = FALSE] \in NCP
      BY EditedType DEF TypeOK
    <2>2. ncp' \in NCP /\ rv' \in Nat /\ watch' \in Seq(NCP)
      BY <1>18, <2>1, StoreType, RemoveType DEF RemoveFinalizer, TypeOK
    <2>3. Return(FALSE) \/ Return(TRUE)
      BY <1>18 DEF RemoveFinalizer
    <2> QED
      BY <1>18, <2>2, <2>3, ReturnType DEF RemoveFinalizer, TypeOK
  <1> QED
    BY <1>2, <1>3, <1>4, <1>5, <1>6, <1>7, <1>8, <1>9, <1>11, <1>12, <1>13,
       <1>14, <1>15, <1>16, <1>17, <1>18 DEF ReconcileStep

\* After every failed call, restart and late request.
LEMMA TypeFailure ==
    ASSUME TypeOK, Failure
    PROVE  TypeOK'
  <1> USE DEF k8sVars, secretVars, outsideVars, queueVars, workVars,
              serviceVars, boundVars
  <1>1. ASSUME AbandonRequest
        PROVE  late' \in Versions \cup {Empty}
    BY <1>1 DEF AbandonRequest, TypeOK, NCP
  <1>2. ASSUME faults < MaxFaults, faults' = faults + 1
        PROVE  faults' \in 0..MaxFaults
    BY <1>2, BoundsAssumption DEF TypeOK
  <1>3. CASE CallFails
    <2>1. late' \in Versions \cup {Empty} /\ faults' \in 0..MaxFaults
      BY <1>1, <1>2, <1>3 DEF CallFails
    <2>2. Return(TRUE)
      BY <1>3 DEF CallFails
    <2> QED
      BY <1>3, <2>1, <2>2, ReturnType DEF CallFails, TypeOK
  <1>4. CASE Restart
    <2>1. late' \in Versions \cup {Empty} /\ faults' \in 0..MaxFaults
      BY <1>1, <1>2, <1>4 DEF Restart
    <2>2. watch' \in Seq(NCP) /\ queued' \in BOOLEAN
      BY <1>4 DEF Restart, Exists
    <2>3. secretCache' \in Secrets /\ secretWatch' \in Seq(Secrets)
      BY <1>4 DEF Restart, TypeOK, Secrets
    <2> QED
      BY <1>4, <2>1, <2>2, <2>3, ZeroTypes DEF Restart, TypeOK
  <1>5. CASE LateCreate
    <2>1. Created(tenants, Name, late, issued) \in SUBSET Tenant
      BY CreatedType DEF TypeOK
    <2>2. tenants' \in SUBSET Tenant /\ issued' \in Nat
      BY <1>5, <2>1 DEF LateCreate, TypeOK
    <2> QED
      BY <1>5, <2>2 DEF LateCreate, TypeOK
  <1> QED
    BY <1>3, <1>4, <1>5 DEF Failure

\* After every delivery, timer and resync.
LEMMA TypeManager ==
    ASSUME TypeOK, Manager
    PROVE  TypeOK'
  <1> USE DEF k8sVars, secretVars, outsideVars, workVars, serviceVars,
              boundVars, managerIdleVars
  <1>1. CASE Deliver
    <2>1. cache' \in NCP /\ watch' \in Seq(NCP)
      BY <1>1 DEF Deliver, TypeOK
    <2> QED
      BY <1>1, <2>1 DEF Deliver, TypeOK
  <1>2. CASE TimerFires
    BY <1>2 DEF TimerFires, TypeOK
  <1>3. CASE Resync
    BY <1>3 DEF Resync, TypeOK
  <1>4. CASE DeliverSecrets
    <2>1. secretCache' \in Secrets /\ secretWatch' \in Seq(Secrets)
      BY <1>4 DEF DeliverSecrets, TypeOK
    <2> QED
      BY <1>4, <2>1 DEF DeliverSecrets, queueVars, TypeOK
  <1> QED
    BY <1>1, <1>2, <1>3, <1>4 DEF Manager

\* And after every step of users, Cluster API and the service.
LEMMA TypeOutside ==
    ASSUME TypeOK, Outside
    PROVE  TypeOK'
  <1> USE DEF k8sVars, secretVars, outsideVars, workVars, controllerVars
  <1> DEFINE K8sOK == ncp' \in NCP /\ rv' \in Nat /\ watch' \in Seq(NCP)
  <1>1. ASSUME NEW event, Edit(event)
        PROVE  edits' \in 0..MaxEdits
    BY <1>1, BoundsAssumption DEF Edit, TypeOK
  <1>2. CASE SetOwner
    <2>1. [ncp EXCEPT !.owned = TRUE] \in NCP
      BY EditedType DEF TypeOK
    <2>2. K8sOK
      BY <1>2, <2>1, StoreType DEF SetOwner
    <2> QED
      BY <1>2, <2>2 DEF SetOwner, TypeOK
  <1>3. CASE Touch
    <2>1. ncp' \in NCP /\ rv' \in Nat
      <3>1. rv + 1 \in Nat /\ ncp \in NCP
        BY DEF TypeOK
      <3> QED
        BY <1>3, <3>1, EditedType DEF Touch
    <2>2. watch' \in Seq(NCP)
      BY <1>3, <2>1 DEF Touch, TypeOK
    <2>3. edits' \in 0..MaxEdits
      BY <1>1, <1>3 DEF Touch
    <2> QED
      BY <1>3, <2>1, <2>2, <2>3 DEF Touch, TypeOK
  <1>4. CASE EditSpec
    <2>1. CASE Edit("version") /\ \E v \in Versions \ {ncp.version} :
                                     Store([ncp EXCEPT !.version = v])
      <3>1. K8sOK
        BY <2>1, StoreType, EditedType DEF TypeOK
      <3> QED
        BY <1>1, <1>4, <2>1, <3>1 DEF EditSpec, TypeOK
    <2>2. CASE Edit("planeID") /\ \E id \in SpecIDs \ {ncp.planeID} :
                                     Store([ncp EXCEPT !.planeID = id])
      <3>1. K8sOK
        BY <2>2, StoreType, EditedType, SpecIDsAssumption DEF TypeOK
      <3> QED
        BY <1>1, <1>4, <2>2, <3>1 DEF EditSpec, TypeOK
    <2>3. CASE Edit("pause") /\ Store([ncp EXCEPT !.paused = ~ncp.paused])
      <3>1. (~ncp.paused) \in BOOLEAN
        OBVIOUS
      <3>2. [ncp EXCEPT !.paused = ~ncp.paused] \in NCP
        BY <3>1, EditedType DEF TypeOK
      <3>3. K8sOK
        BY <2>3, <3>2, StoreType
      <3> QED
        BY <1>1, <1>4, <2>3, <3>3 DEF EditSpec, TypeOK
    <2> QED
      BY <1>4, <2>1, <2>2, <2>3 DEF EditSpec
  <1>5. CASE DeleteNCP
    <2>1. /\ [ncp EXCEPT !.deletionTimestamp = TRUE, !.held = TRUE] \in NCP
          /\ [ncp EXCEPT !.deletionTimestamp = TRUE] \in NCP
      BY EditedType DEF TypeOK
    <2>2. K8sOK
      BY <1>5, <2>1, StoreType, RemoveType DEF DeleteNCP
    <2> QED
      BY <1>5, <2>2 DEF DeleteNCP, TypeOK
  <1>6. CASE ForegroundDone
    <2>1. [ncp EXCEPT !.held = FALSE] \in NCP
      BY EditedType DEF TypeOK
    <2>2. K8sOK
      BY <1>6, <2>1, StoreType, RemoveType DEF ForegroundDone
    <2> QED
      BY <1>6, <2>2 DEF ForegroundDone, TypeOK
  <1>7. CASE CreateNCP
    <2>1. K8sOK
      BY <1>7, StoreType, AppliedType, SpecIDsAssumption DEF CreateNCP
    <2>2. edits' \in 0..MaxEdits
      BY <1>1, <1>7 DEF CreateNCP
    <2> QED
      BY <1>7, <2>1, <2>2 DEF CreateNCP, TypeOK
  <1>8. CASE EditInputs
    <2>1. edits' \in 0..MaxEdits
      BY <1>1, <1>8 DEF EditInputs
    <2>2. cluster' \in {"ok", "paused", "missing"} /\ creds' \in {"ok", "bad"}
      BY <1>8 DEF EditInputs, TypeOK
    <2>3. /\ kubeconfigSecret' \in KubeconfigSecret
          /\ caSecret' \in CASecret
          /\ secretCache' \in Secrets
          /\ secretWatch' \in Seq(Secrets)
      <3>1. CASE UNCHANGED secretVars
        BY <3>1 DEF TypeOK
      <3>2. CASE \/ StoreSecrets(NoKubeconfigSecret, caSecret)
                 \/ StoreSecrets(kubeconfigSecret, NoCASecret)
                 \/ StoreSecrets(kubeconfigSecret, OpaqueCASecret)
        <4>1. kubeconfigSecret \in KubeconfigSecret /\ caSecret \in CASecret
          BY DEF TypeOK
        <4> QED
          BY <3>2, <4>1, SecretsType, ZeroTypes
      <3> QED
        BY <1>8, <3>1, <3>2 DEF EditInputs
    <2> QED
      BY <1>8, <2>1, <2>2, <2>3 DEF EditInputs, TypeOK
  <1>9. CASE Provision
    <2>1. \A t \in Tenant : [t EXCEPT !.hostname = TRUE] \in Tenant
      BY DEF Tenant
    <2>2. tenants' \in SUBSET Tenant
      BY <1>9, <2>1 DEF Provision, TypeOK
    <2> QED
      BY <1>9, <2>2 DEF Provision, TypeOK
  <1>10. CASE Vanish
    <2>1. tenants' \in SUBSET Tenant /\ edits' \in 0..MaxEdits
      BY <1>1, <1>10 DEF Vanish, TypeOK
    <2> QED
      BY <1>10, <2>1 DEF Vanish, TypeOK
  <1> QED
    BY <1>2, <1>3, <1>4, <1>5, <1>6, <1>7, <1>8, <1>9, <1>10 DEF Outside

\* Hence the type invariant is inductive.
LEMMA TypeNext ==
    ASSUME TypeOK, [Next]_vars
    PROVE  TypeOK'
  <1>1. CASE Next
    BY <1>1, TypeReconcile, TypeFailure, TypeManager, TypeOutside DEF Next
  <1>2. CASE UNCHANGED vars
    BY <1>2 DEF vars, TypeOK
  <1> QED
    BY <1>1, <1>2

\* Whatever the client, the events and the faults, every variable of the
\* controller, the API server and the service keeps its type.
THEOREM TypeCorrect == Spec => []TypeOK
  BY TypeInit, TypeNext, PTL DEF Spec

-------------------------------------------------------------------------------
(***************************************************************************)
(* The inductive invariant.  First what a write leaves in the store, and   *)
(* that the copies of the resource survive it: a copy is never newer than  *)
(* the last resourceVersion, so it cannot be mistaken for the new object.  *)
(***************************************************************************)

\* A write either changes nothing or stores the object under a new version.
LEMMA StoreContent ==
    ASSUME TypeOK, NEW o \in NCP, Store(o)
    PROVE  /\ ncp'.finalizer = o.finalizer
           /\ ncp'.planeID = o.planeID
           /\ ncp'.status = o.status
           /\ \/ o = ncp /\ UNCHANGED <<ncp, rv, watch>>
              \/ /\ rv' = rv + 1
                 /\ ncp'.rv = rv'
                 /\ watch' = Append(watch, ncp')
  <1>1. CASE o = ncp
    BY <1>1 DEF Store, k8sVars
  <1>2. CASE o # ncp
    <2>1. rv' = rv + 1 /\ ncp' = [o EXCEPT !.rv = rv + 1]
          /\ watch' = Append(watch, ncp')
      BY <1>2 DEF Store
    <2> QED
      BY <2>1 DEF NCP
  <1> QED
    BY <1>1, <1>2

\* The optimistic lock: a copy that is fresh is the stored object.
LEMMA FreshIsStored ==
    ASSUME Snapshots, Fresh
    PROVE  obj = ncp /\ Exists(ncp)
  BY DEF Snapshots, Fresh, VersionOf, Exists

\* Copies of the resource survive every write to it.
LEMMA SnapshotsKept ==
    ASSUME TypeOK, TypeOK', Snapshots, issued <= issued',
           \/ UNCHANGED <<ncp, rv, watch>>
           \/ /\ rv' = rv + 1
              /\ ncp' = NoObject \/ ncp'.rv = rv'
              /\ ncp'.status.planeID <= issued'
              /\ watch' = Append(watch, ncp'),
           cache' = cache,
           obj' \in {obj, cache, ncp', NoObject}
    PROVE  Snapshots'
  <1>1. /\ rv \in Nat /\ rv' \in Nat /\ issued \in Nat /\ issued' \in Nat
        /\ ncp \in NCP /\ ncp' \in NCP /\ obj \in NCP /\ cache \in NCP
        /\ watch \in Seq(NCP) /\ watch' \in Seq(NCP)
    BY DEF TypeOK
  <1>nat. ASSUME NEW o \in NCP
        PROVE  o.rv \in Nat /\ o.status.planeID \in Nat
    BY DEF NCP, Status
  <1>2. /\ ~Exists(ncp') => ncp' = NoObject
        /\ VersionOf(ncp', ncp', rv', issued')
    <2>1. CASE UNCHANGED <<ncp, rv, watch>>
      BY <1>1, <1>nat, <2>1 DEF Snapshots, VersionOf, Exists
    <2>2. CASE /\ rv' = rv + 1
               /\ ncp' = NoObject \/ ncp'.rv = rv'
               /\ ncp'.status.planeID <= issued'
      <3>1. ncp' = NoObject => ncp'.rv = 0
        BY ZeroTypes
      <3>2. ncp'.rv <= rv' /\ (ncp'.rv = 0 => ncp' = NoObject)
        BY <1>1, <2>2, <3>1
      <3> QED
        BY <2>2, <3>2 DEF VersionOf, Exists
    <2> QED
      BY <2>1, <2>2
  <1>3. ASSUME NEW o \in NCP, VersionOf(o, ncp, rv, issued)
        PROVE  VersionOf(o, ncp', rv', issued')
    <2>1. o.status.planeID <= issued'
      BY <1>1, <1>nat, <1>3 DEF VersionOf
    <2>2. CASE UNCHANGED <<ncp, rv, watch>>
      BY <1>3, <2>1, <2>2 DEF VersionOf
    <2>3. CASE /\ rv' = rv + 1
               /\ ncp' = NoObject \/ ncp'.rv = rv'
      <3>1. o.rv \in Nat /\ o.rv <= rv
        BY <1>3, <1>nat DEF VersionOf
      <3>2. ncp'.rv \in {0, rv'}
        BY <2>3, ZeroTypes
      <3>3. o.rv <= rv' /\ (o.rv # 0 => o.rv # ncp'.rv)
        BY <1>1, <2>3, <3>1, <3>2
      <3> QED
        BY <2>1, <3>3 DEF VersionOf, Exists
    <2> QED
      BY <2>2, <2>3
  <1>4. VersionOf(NoObject, ncp', rv', issued')
    BY <1>1, ZeroTypes DEF VersionOf, Exists
  <1>5. VersionOf(obj', ncp', rv', issued')
    BY <1>1, <1>2, <1>3, <1>4 DEF Snapshots
  <1>6. VersionOf(cache', ncp', rv', issued')
    BY <1>1, <1>3 DEF Snapshots
  <1>7. ASSUME NEW i \in 1..Len(watch')
        PROVE  VersionOf(watch'[i], ncp', rv', issued')
    <2>1. CASE UNCHANGED watch
      BY <1>1, <1>3, <1>7, <2>1 DEF Snapshots
    <2>2. CASE watch' = Append(watch, ncp')
      <3>1. CASE i = Len(watch) + 1
        BY <1>1, <1>2, <2>2, <3>1
      <3>2. CASE i # Len(watch) + 1
        <4>1. i \in 1..Len(watch) /\ watch'[i] = watch[i] /\ watch[i] \in NCP
          BY <1>1, <1>7, <2>2, <3>2
        <4> QED
          BY <1>3, <4>1 DEF Snapshots
      <3> QED
        BY <3>1, <3>2
    <2> QED
      BY <2>1, <2>2
  <1> QED
    BY <1>2, <1>5, <1>6, <1>7 DEF Snapshots

\* In particular a write of an object whose plane ID was issued.
LEMMA StoreKept ==
    ASSUME TypeOK, TypeOK', Snapshots, NEW o \in NCP, Store(o),
           o.status.planeID <= issued, UNCHANGED <<issued, cache>>,
           obj' \in {obj, cache, ncp', NoObject}
    PROVE  Snapshots'
  <1>1. /\ ncp'.status = o.status
        /\ \/ UNCHANGED <<ncp, rv, watch>>
           \/ /\ rv' = rv + 1
              /\ ncp'.rv = rv'
              /\ watch' = Append(watch, ncp')
    BY StoreContent
  <1>2. issued <= issued'
    BY DEF TypeOK
  <1> QED
    BY <1>1, <1>2, SnapshotsKept

\* And a removal.
LEMMA RemoveKept ==
    ASSUME TypeOK, TypeOK', Snapshots, Remove, UNCHANGED <<issued, cache>>,
           obj' \in {obj, cache, ncp', NoObject}
    PROVE  Snapshots'
  <1>1. issued \in Nat /\ issued' = issued
    BY DEF TypeOK
  <1>2. issued <= issued' /\ NoObject.status.planeID <= issued'
    BY <1>1, ZeroTypes
  <1> QED
    BY <1>2, SnapshotsKept DEF Remove

(***************************************************************************)
(* Then what the reconcile knows about its plane.  Most steps either end   *)
(* the reconcile, leave it alone, or move it on with the same plane.       *)
(***************************************************************************)

\* A reconcile that has ended knows nothing.
LEMMA ProvenanceIdle ==
    ASSUME pc' = "idle", \A t \in tenants' : t.id <= issued',
           late' # Empty => Client = "http"
    PROVE  Provenance'
  BY DEF Provenance, Resolving, Publishing

\* Steps of others keep what it knows, as long as they bring no plane back.
LEMMA ProvenanceOutside ==
    ASSUME Provenance, UNCHANGED <<pc, pid, obj, late, issued>>,
           \A t \in tenants' : \E u \in tenants : u.id = t.id
    PROVE  Provenance'
  BY DEF Provenance, HasID

\* Publishing goes on with the plane that was resolved.
LEMMA ProvenancePublishing ==
    ASSUME Provenance, UNCHANGED <<tenants, issued, late, pid>>,
           pc \in Publishing, pc' \in Publishing,
           obj'.planeID = obj.planeID,
           obj'.status.planeID = obj.status.planeID
    PROVE  Provenance'
  BY DEF Provenance, Publishing, Resolving

\* The initial state holds no copy that the API server never stored.
LEMMA InvInit == Init => SafetyInv
  <1> SUFFICES ASSUME Init PROVE SafetyInv
    OBVIOUS
  <1>1. PICK v \in Versions, id \in SpecIDs : ncp = Applied(1, v, id)
    BY DEF Init
  <1>2. ncp \in NCP /\ ncp.rv = 1 /\ ncp.status.planeID = 0
    <2>1. id \in Nat /\ NoStatus.planeID = 0
      BY SpecIDsAssumption DEF NoStatus
    <2>2. /\ Applied(1, v, id) \in NCP /\ Applied(1, v, id).rv = 1
          /\ Applied(1, v, id).status = NoStatus
      BY <2>1, AppliedType
    <2> QED
      BY <1>1, <2>1, <2>2
  <1>3. issued \in Nat /\ rv = 1 /\ obj = NoObject /\ cache = NoObject
        /\ watch = <<ncp>>
    BY TenantsAssumption DEF Init
  <1>4. /\ VersionOf(ncp, ncp, rv, issued)
        /\ VersionOf(NoObject, ncp, rv, issued)
        /\ Exists(ncp)
    BY <1>2, <1>3, ZeroTypes DEF VersionOf, Exists
  <1>5. \A i \in 1..Len(watch) : watch[i] = ncp
    BY <1>3
  <1>6. Snapshots
    BY <1>3, <1>4, <1>5 DEF Snapshots
  <1>7. Provenance
    BY TenantsAssumption DEF Init, Provenance, Resolving, Publishing
  <1> QED
    BY <1>6, <1>7 DEF SafetyInv

\* Every call of a reconcile keeps the invariant.
LEMMA InvReconcile ==
    ASSUME TypeOK, SafetyInv, ReconcileStep
    PROVE  SafetyInv'
  <1> USE DEF k8sVars, queueVars, workVars, serviceVars
  <1>1. TypeOK' /\ Snapshots /\ Provenance
    BY TypeReconcile DEF SafetyInv
  <1>2. issued \in Nat /\ obj \in NCP /\ cache \in NCP /\ tenants \subseteq Tenant
        /\ pid \in Nat
    BY DEF TypeOK
  <1>3. /\ \A t \in tenants : t.id \in Nat /\ t.id # 0 /\ t.id <= issued
        /\ late # Empty => Client = "http"
    BY <1>1, <1>2 DEF Provenance, Tenant, PlaneIDs
  <1>4. ASSUME Return(TRUE) \/ Return(FALSE), UNCHANGED <<tenants, issued, late>>
        PROVE  Provenance' /\ obj' = NoObject
    <2>1. pc' = "idle" /\ obj' = NoObject
      BY <1>4 DEF Return
    <2> QED
      BY <1>3, <1>4, <2>1, ProvenanceIdle
  <1>5. ASSUME UNCHANGED <<ncp, rv, watch, cache, issued>>,
               obj' \in {obj, cache, NoObject}
        PROVE  Snapshots'
    BY <1>1, <1>2, <1>5, SnapshotsKept
  <1>6. CASE Reconcile
    <2>1. CASE Return(TRUE) \/ Return(FALSE)
      BY <1>4, <1>5, <1>6, <2>1 DEF Reconcile, SafetyInv
    <2>2. CASE /\ obj' = cache
               /\ pid' = KnownPlaneID(cache)
               /\ Goto(FirstCall(cache))
      <3>1. Snapshots'
        BY <1>5, <1>6, <2>2 DEF Reconcile
      <3>2. pc' = FirstCall(cache) /\ UNCHANGED <<tenants, issued, late>>
        BY <1>6, <2>2 DEF Reconcile, Goto
      <3>3. FirstCall(cache) \in {"addFinalizer", "removeFinalizer",
                                  "deletePlane", "createPlane", "getPlane"}
        BY DEF FirstCall
      <3>4. /\ pc' = "removeFinalizer" => cache.status.planeID = 0
            /\ pc' = "createPlane" => cache.status.planeID = 0
            /\ pc' = "getPlane" => /\ KnownPlaneID(cache) # 0
                                   /\ KnownPlaneID(cache) \in
                                        {cache.status.planeID, cache.planeID}
        BY <3>2 DEF FirstCall, KnownPlaneID
      <3>5. ~HasID(tenants, 0)
        BY <1>3 DEF HasID
      <3>6. Provenance'
        BY <1>3, <2>2, <3>2, <3>3, <3>4, <3>5
           DEF Provenance, Resolving, Publishing, HasID
      <3> QED
        BY <3>1, <3>6 DEF SafetyInv
    <2> QED
      BY <1>6, <2>1, <2>2 DEF Reconcile
  <1>7. CASE AddFinalizer
    <2>1. Provenance' /\ obj' = NoObject
      BY <1>4, <1>7 DEF AddFinalizer
    <2>2. CASE UNCHANGED k8sVars
      BY <1>5, <1>7, <2>1, <2>2 DEF AddFinalizer, SafetyInv
    <2>3. CASE Fresh /\ Store([obj EXCEPT !.finalizer = TRUE])
      <3> DEFINE o == [obj EXCEPT !.finalizer = TRUE]
      <3>1. o \in NCP
        BY <1>2, EditedType
      <3>2. o.status = obj.status
        BY <1>2 DEF NCP
      <3>3. o.status.planeID <= issued
        BY <1>1, <3>2 DEF Snapshots, VersionOf
      <3>4. Snapshots'
        BY <1>1, <1>7, <2>1, <2>3, <3>1, <3>3, StoreKept DEF AddFinalizer
      <3> QED
        BY <2>1, <3>4 DEF SafetyInv
    <2> QED
      BY <1>7, <2>2, <2>3 DEF AddFinalizer
  <1>8. CASE CreatePlane
    <2>1. CASE UNCHANGED <<tenants, issued>> /\ Return(TRUE)
      BY <1>4, <1>5, <1>8, <2>1 DEF CreatePlane, SafetyInv
    <2>2. CASE UNCHANGED <<tenants, issued, workVars>> /\ Goto("lookupPlane")
      <3>1. Snapshots'
        BY <1>5, <1>8, <2>2 DEF CreatePlane
      <3>2. Provenance'
        BY <1>1, <1>8, <2>2
           DEF CreatePlane, Provenance, Resolving, Publishing, Goto
      <3> QED
        BY <3>1, <3>2 DEF SafetyInv
    <2>3. CASE /\ tenants' = Created(tenants, Name, obj.version, issued)
               /\ issued' = issued + 1
               /\ pid' = NewID(issued)
               /\ Goto("persistPlaneID")
               /\ UNCHANGED obj
      <3>1. /\ NewID(issued) \in 1..(issued + 1)
            /\ \A t \in tenants' : t \in tenants \/ t.id = NewID(issued)
        <4>1. obj.version \in Versions \cup {Empty}
          BY <1>2 DEF NCP
        <4>2. /\ NewID(issued) \in PlaneIDs /\ NewID(issued) <= issued + 1
              /\ \A t \in tenants' : t \in tenants \/ t.id = NewID(issued)
          BY <1>2, <2>3, <4>1, CreatedType
        <4> QED
          BY <1>2, <4>2 DEF PlaneIDs
      <3>2. \A t \in tenants' : t.id <= issued'
        BY <1>2, <1>3, <2>3, <3>1
      <3>3. Snapshots'
        BY <1>1, <1>2, <1>8, <2>3, SnapshotsKept DEF CreatePlane
      <3>4. /\ pc' = "persistPlaneID" /\ late' = late
            /\ obj'.status.planeID = 0
            /\ pid' \in 1..issued'
        BY <1>1, <1>8, <2>3, <3>1 DEF CreatePlane, Goto, Provenance, Resolving
      <3>5. Provenance'
        BY <1>3, <3>2, <3>4 DEF Provenance, Resolving, Publishing
      <3> QED
        BY <3>3, <3>5 DEF SafetyInv
    <2> QED
      BY <1>8, <2>1, <2>2, <2>3 DEF CreatePlane
  <1>9. CASE LookupPlane
    <2>1. CASE Return(TRUE)
      BY <1>4, <1>5, <1>9, <2>1 DEF LookupPlane, SafetyInv
    <2>2. CASE \E p \in GetPlaneByName(tenants, Name) :
                 /\ pid' = p.id
                 /\ Goto("persistPlaneID")
                 /\ UNCHANGED <<obj, plane, kubeconfig>>
      <3>1. Snapshots'
        BY <1>5, <1>9, <2>2 DEF LookupPlane
      <3>2. pid' \in 1..issued
        <4>1. PICK p \in GetPlaneByName(tenants, Name) : pid' = p.id
          BY <2>2
        <4>2. \E t \in tenants : t.id = p.id
          BY <1>2, <4>1, GetPlaneType DEF HasID
        <4> QED
          BY <1>2, <1>3, <4>1, <4>2
      <3>3. Provenance'
        BY <1>1, <1>9, <2>2, <3>2
           DEF LookupPlane, Provenance, Resolving, Publishing, Goto
      <3> QED
        BY <3>1, <3>3 DEF SafetyInv
    <2> QED
      BY <1>9, <2>1, <2>2 DEF LookupPlane
  <1>10. CASE PersistPlaneID
    <2>1. CASE Return(TRUE) /\ UNCHANGED k8sVars
      BY <1>4, <1>5, <1>10, <2>1 DEF PersistPlaneID, SafetyInv
    <2>2. CASE /\ Store([obj EXCEPT !.status.planeID = pid])
               /\ obj' = ncp'
               /\ Goto("getPlane")
               /\ UNCHANGED <<pid, plane, kubeconfig>>
      <3> DEFINE o == [obj EXCEPT !.status.planeID = pid]
      <3>1. o \in NCP
        BY <1>2, EditedType
      <3>2. o.status.planeID = pid
        BY <1>2 DEF NCP, Status
      <3>3. pid # 0 /\ pid <= issued
        BY <1>1, <1>2, <1>10 DEF Provenance, PersistPlaneID
      <3>store. Store(o) /\ obj' = ncp' /\ pid' = pid /\ UNCHANGED <<issued, cache>>
        BY <1>10, <2>2 DEF PersistPlaneID
      <3> HIDE DEF o
      <3>4. Snapshots'
        BY <1>1, <3>store, <3>1, <3>2, <3>3, StoreKept
      <3>5. obj'.status.planeID = pid' /\ pid' # 0
        BY <3>store, <3>1, <3>2, <3>3, StoreContent
      <3>6. pc' = "getPlane" /\ UNCHANGED <<tenants, issued, late>>
        BY <1>10, <2>2 DEF PersistPlaneID, Goto
      <3>7. Provenance'
        BY <1>3, <3>5, <3>6 DEF Provenance, Resolving, Publishing
      <3> QED
        BY <3>4, <3>7 DEF SafetyInv
    <2> QED
      BY <1>10, <2>1, <2>2 DEF PersistPlaneID
  <1>11. CASE GetThePlane
    <2>1. CASE Return(TRUE)
      BY <1>4, <1>5, <1>11, <2>1 DEF GetThePlane, SafetyInv
    <2>2. CASE \E p \in GetPlane(tenants, pid) :
                 /\ plane' = p
                 /\ Goto(CallAfterGet(p))
                 /\ UNCHANGED <<obj, pid, kubeconfig>>
      <3>1. Snapshots'
        BY <1>5, <1>11, <2>2 DEF GetThePlane
      <3>2. PICK p \in GetPlane(tenants, pid) : pc' = CallAfterGet(p)
        BY <2>2 DEF Goto
      <3>3. pc' \in Publishing
        BY <3>2 DEF CallAfterGet, Publishing
      <3>4. pid <= issued
        <4>1. HasID(tenants, pid)
          BY <1>2, <3>2, GetPlaneType
        <4> QED
          BY <1>3, <4>1 DEF HasID
      <3>5. /\ UNCHANGED <<obj, pid, tenants, issued, late>>
            /\ pid # 0 /\ pid \in {obj.status.planeID, obj.planeID}
        BY <1>1, <1>11, <2>2 DEF GetThePlane, Provenance
      <3>6. Provenance'
        BY <1>3, <3>3, <3>4, <3>5 DEF Provenance, Resolving, Publishing
      <3> QED
        BY <3>1, <3>6 DEF SafetyInv
    <2> QED
      BY <1>11, <2>1, <2>2 DEF GetThePlane
  <1>12. CASE UpdateThePlane
    <2>1. pc' = "idle" /\ obj' = NoObject
      BY <1>12 DEF UpdateThePlane, Return
    <2>2. Snapshots'
      BY <1>5, <1>12, <2>1 DEF UpdateThePlane
    <2>3. \A t \in tenants' : \E u \in tenants : t.id = u.id
      <3>1. \A u \in tenants : [u EXCEPT !.version = obj.version].id = u.id
        BY <1>2 DEF Tenant
      <3>2. \A t \in Updated(tenants, pid, obj.version) :
              \E u \in tenants : t.id = u.id
        BY <3>1 DEF Updated
      <3> QED
        BY <1>12, <3>2 DEF UpdateThePlane
    <2>4. Provenance'
      BY <1>3, <1>12, <2>1, <2>3, ProvenanceIdle DEF UpdateThePlane
    <2> QED
      BY <2>2, <2>4 DEF SafetyInv
  <1>13. CASE UpdateEndpoint
    <2>1. CASE Return(TRUE) /\ UNCHANGED k8sVars
      BY <1>4, <1>5, <1>13, <2>1 DEF UpdateEndpoint, SafetyInv
    <2>2. CASE /\ Fresh
               /\ Store([obj EXCEPT !.endpoint = plane.host])
               /\ obj' = ncp'
               /\ Goto("fetchKubeconfig")
               /\ UNCHANGED <<pid, plane, kubeconfig>>
      <3> DEFINE o == [obj EXCEPT !.endpoint = plane.host]
      <3>1. o \in NCP
        BY <1>2, EditedType DEF TypeOK, Plane
      <3>2. o.status = obj.status /\ o.planeID = obj.planeID
        BY <1>2 DEF NCP
      <3>3. o.status.planeID <= issued
        BY <1>1, <3>2 DEF Snapshots, VersionOf
      <3>4. Snapshots'
        BY <1>1, <1>13, <2>2, <3>1, <3>3, StoreKept DEF UpdateEndpoint
      <3>5. obj'.status = obj.status /\ obj'.planeID = obj.planeID
        BY <2>2, <3>1, <3>2, StoreContent
      <3>6. /\ pc = "updateEndpoint" /\ pc' = "fetchKubeconfig"
            /\ UNCHANGED <<tenants, issued, late, pid>>
        BY <1>13, <2>2 DEF UpdateEndpoint, Goto
      <3>7. Provenance'
        BY <1>1, <3>5, <3>6, ProvenancePublishing DEF Publishing
      <3> QED
        BY <3>4, <3>7 DEF SafetyInv
    <2> QED
      BY <1>13, <2>1, <2>2 DEF UpdateEndpoint
  <1>14. ASSUME UNCHANGED <<ncp, rv, watch, cache, issued, tenants, late, obj, pid>>,
                pc \in Publishing, pc' \in Publishing
         PROVE  SafetyInv'
    BY <1>1, <1>5, <1>14, ProvenancePublishing DEF SafetyInv
  <1>15. CASE FetchKubeconfig
    <2>1. CASE Return(TRUE)
      BY <1>4, <1>5, <1>15, <2>1 DEF FetchKubeconfig, SafetyInv
    <2>2. CASE Goto("writeKubeconfig") /\ UNCHANGED <<obj, pid, plane>>
      BY <1>14, <1>15, <2>2 DEF FetchKubeconfig, Goto, Publishing
    <2> QED
      BY <1>15, <2>1, <2>2 DEF FetchKubeconfig
  <1>16. CASE WriteKubeconfig
    <2>1. CASE Return(TRUE)
      BY <1>4, <1>5, <1>16, <2>1 DEF WriteKubeconfig, SafetyInv
    <2>2. CASE Goto("checkCA") /\ UNCHANGED <<obj, pid, plane>>
      BY <1>14, <1>16, <2>2 DEF WriteKubeconfig, Goto, Publishing
    <2> QED
      BY <1>16, <2>1, <2>2 DEF WriteKubeconfig
  <1>17. CASE CheckCA
    <2>1. CASE Return(TRUE)
      BY <1>4, <1>5, <1>17, <2>1 DEF CheckCA, SafetyInv
    <2>2. CASE /\ Goto("updateStatus") \/ Goto("writeCA")
               /\ UNCHANGED <<obj, pid, plane>>
      BY <1>14, <1>17, <2>2 DEF CheckCA, Goto, Publishing
    <2> QED
      BY <1>17, <2>1, <2>2 DEF CheckCA
  <1>18. CASE WriteCA
    <2>1. CASE Return(TRUE)
      BY <1>4, <1>5, <1>18, <2>1 DEF WriteCA, SafetyInv
    <2>2. CASE /\ Goto("updateStatus") \/ Goto("recreateCA")
               /\ UNCHANGED <<obj, pid, plane>>
      BY <1>14, <1>18, <2>2 DEF WriteCA, Goto, Publishing
    <2> QED
      BY <1>18, <2>1, <2>2 DEF WriteCA
  <1>19. CASE RecreateCA
    <2>1. CASE Return(TRUE)
      BY <1>4, <1>5, <1>19, <2>1 DEF RecreateCA, SafetyInv
    <2>2. CASE Goto("updateStatus") /\ UNCHANGED <<obj, pid, plane>>
      BY <1>14, <1>19, <2>2 DEF RecreateCA, Goto, Publishing
    <2> QED
      BY <1>19, <2>1, <2>2 DEF RecreateCA
  <1>20. CASE UpdateStatus
    <2>1. Provenance' /\ obj' = NoObject
      BY <1>4, <1>20 DEF UpdateStatus
    <2>2. CASE UNCHANGED k8sVars
      BY <1>5, <1>20, <2>1, <2>2 DEF UpdateStatus, SafetyInv
    <2> DEFINE st == [planeID |-> pid, ready |-> TRUE, initialized |-> TRUE,
                      version |-> plane.version]
               o == [obj EXCEPT !.status = st]
    <2>3. CASE Store(o)
      <3>1. st \in Status /\ st.planeID = pid
        BY DEF TypeOK, Status, Plane
      <3>2. o \in NCP
        BY <1>2, <3>1, EditedType
      <3>3. o.status = st
        BY <1>2 DEF NCP
      <3>4. pid <= issued
        BY <1>1, <1>20 DEF UpdateStatus, Provenance, Publishing
      <3> HIDE DEF st, o
      <3>5. Snapshots'
        BY <1>1, <1>20, <2>1, <2>3, <3>1, <3>2, <3>3, <3>4, StoreKept
           DEF UpdateStatus
      <3> QED
        BY <2>1, <3>5 DEF SafetyInv
    <2> QED
      BY <1>20, <2>2, <2>3 DEF UpdateStatus
  <1>21. CASE DeleteThePlane
    <2>1. /\ UNCHANGED <<ncp, rv, watch, cache, issued, late>>
          /\ tenants' = {t \in tenants : t.id # obj.status.planeID}
      BY <1>21 DEF DeleteThePlane, Deleted
    <2>2. \A t \in tenants' : t.id <= issued'
      BY <1>3, <2>1
    <2>3. CASE Return(TRUE)
      <3>1. pc' = "idle" /\ obj' = NoObject
        BY <2>3 DEF Return
      <3> QED
        BY <1>3, <1>5, <2>1, <2>2, <3>1, ProvenanceIdle DEF SafetyInv
    <2>4. CASE Goto("removeFinalizer") /\ UNCHANGED workVars
      <3>1. ~HasID(tenants', obj'.status.planeID)
        BY <2>1, <2>4 DEF HasID
      <3>2. Provenance'
        BY <1>3, <2>1, <2>2, <2>4, <3>1
           DEF Provenance, Resolving, Publishing, Goto
      <3> QED
        BY <1>5, <2>1, <2>4, <3>2 DEF SafetyInv
    <2> QED
      BY <1>21, <2>3, <2>4 DEF DeleteThePlane
  <1>22. CASE RemoveFinalizer
    <2>1. Provenance' /\ obj' = NoObject
      BY <1>4, <1>22 DEF RemoveFinalizer
    <2>2. CASE UNCHANGED k8sVars
      BY <1>5, <1>22, <2>1, <2>2 DEF RemoveFinalizer, SafetyInv
    <2>3. CASE Remove
      BY <1>1, <1>22, <2>1, <2>3, RemoveKept DEF RemoveFinalizer, SafetyInv
    <2>4. CASE Store([obj EXCEPT !.finalizer = FALSE])
      <3> DEFINE o == [obj EXCEPT !.finalizer = FALSE]
      <3>1. o \in NCP
        BY <1>2, EditedType
      <3>2. o.status = obj.status
        BY <1>2 DEF NCP
      <3>3. o.status.planeID <= issued
        BY <1>1, <3>2 DEF Snapshots, VersionOf
      <3>4. Snapshots'
        BY <1>1, <1>22, <2>1, <2>4, <3>1, <3>3, StoreKept DEF RemoveFinalizer
      <3> QED
        BY <2>1, <3>4 DEF SafetyInv
    <2> QED
      BY <1>22, <2>2, <2>3, <2>4 DEF RemoveFinalizer
  <1> QED
    BY <1>6, <1>7, <1>8, <1>9, <1>10, <1>11, <1>12, <1>13, <1>15, <1>16, <1>17,
       <1>18, <1>19, <1>20, <1>21, <1>22 DEF ReconcileStep

\* A failure forgets what the reconcile knew, and a late create only adds.
LEMMA InvFailure ==
    ASSUME TypeOK, SafetyInv, Failure
    PROVE  SafetyInv'
  <1> USE DEF k8sVars, queueVars, workVars
  <1>1. TypeOK' /\ Snapshots /\ Provenance
    BY TypeFailure DEF SafetyInv
  <1>2. /\ issued \in Nat /\ obj \in NCP /\ ncp \in NCP
        /\ tenants \subseteq Tenant
        /\ late \in Versions \cup {Empty}
    BY DEF TypeOK
  <1>3. \A t \in tenants : t.id <= issued
    BY <1>1 DEF Provenance
  <1>4. ASSUME AbandonRequest
        PROVE  late' # Empty => Client = "http"
    BY <1>1, <1>4 DEF AbandonRequest, Provenance
  <1>5. CASE CallFails
    <2>1. pc' = "idle" /\ obj' = NoObject
          /\ UNCHANGED <<ncp, rv, watch, cache, tenants, issued>>
      BY <1>5 DEF CallFails, Return
    <2>2. Provenance'
      BY <1>3, <1>4, <1>5, <2>1, ProvenanceIdle DEF CallFails
    <2>3. Snapshots'
      BY <1>1, <1>2, <2>1, SnapshotsKept
    <2> QED
      BY <2>2, <2>3 DEF SafetyInv
  <1>6. CASE Restart
    <2>1. /\ pc' = "idle" /\ obj' = NoObject /\ cache' = ncp /\ watch' = <<>>
          /\ UNCHANGED <<ncp, rv, tenants, issued>>
      BY <1>6 DEF Restart
    <2>2. Provenance'
      BY <1>3, <1>4, <1>6, <2>1, ProvenanceIdle DEF Restart
    <2>3. VersionOf(NoObject, ncp, rv, issued)
      BY <1>2, ZeroTypes DEF VersionOf, Exists, TypeOK
    <2>4. Snapshots'
      BY <1>1, <2>1, <2>3 DEF Snapshots
    <2> QED
      BY <2>2, <2>4 DEF SafetyInv
  <1>7. CASE LateCreate
    <2>1. /\ UNCHANGED <<ncp, rv, watch, cache, obj, pc, pid>>
          /\ late' = Empty /\ Client = "http"
      BY <1>1, <1>7 DEF LateCreate, Provenance
    <2>2. NewID(issued) = issued + 1
      BY <2>1 DEF NewID
    <2>3. \/ UNCHANGED <<tenants, issued>>
          \/ /\ issued' = issued + 1
             /\ tenants' = Created(tenants, Name, late, issued)
      BY <1>7 DEF LateCreate
    <2>4. \A t \in tenants' :
            t \in tenants \/ (t.id = issued + 1 /\ issued' = issued + 1)
      BY <1>2, <2>2, <2>3, CreatedType
    <2>5. issued <= issued' /\ issued' \in Nat
      BY <1>2, <2>3
    <2>6. Snapshots'
      BY <1>1, <2>1, <2>5, SnapshotsKept
    <2>7. \A t \in tenants' : t.id <= issued'
      <3>1. \A t \in tenants : t.id \in Nat
        BY <1>2 DEF Tenant, PlaneIDs
      <3> QED
        BY <1>2, <1>3, <2>4, <2>5, <3>1
    <2>8. ASSUME ~HasID(tenants, obj.status.planeID)
          PROVE  ~HasID(tenants', obj.status.planeID)
      <3>1. obj.status.planeID \in Nat /\ obj.status.planeID <= issued
        BY <1>1, <1>2 DEF NCP, Status, Snapshots, VersionOf
      <3> QED
        BY <1>2, <2>4, <2>8, <3>1 DEF HasID
    <2>9. pid \in Nat /\ (pid <= issued => pid <= issued')
          /\ (pid \in 1..issued => pid \in 1..issued')
      BY <1>2, <2>5 DEF TypeOK
    <2>10. Provenance'
      BY <1>1, <2>1, <2>7, <2>8, <2>9 DEF Provenance
    <2> QED
      BY <2>6, <2>10 DEF SafetyInv
  <1> QED
    BY <1>5, <1>6, <1>7 DEF Failure

\* The informer moves copies about; it makes none.
LEMMA InvManager ==
    ASSUME TypeOK, SafetyInv, Manager
    PROVE  SafetyInv'
  <1> USE DEF k8sVars, workVars, serviceVars, managerIdleVars
  <1>1. TypeOK' /\ Snapshots /\ Provenance
    BY TypeManager DEF SafetyInv
  <1>2. UNCHANGED <<ncp, rv, obj, pc, pid, tenants, issued, late>>
    BY DEF Manager, Deliver, DeliverSecrets, TimerFires, Resync
  <1>3. Provenance'
    BY <1>1, <1>2, ProvenanceOutside
  <1>4. CASE Deliver
    <2>1. watch \in Seq(NCP) /\ watch # <<>> /\ cache' = Head(watch)
          /\ watch' = Tail(watch)
      BY <1>4 DEF Deliver, TypeOK
    <2>2. cache' = watch[1] /\ 1 \in 1..Len(watch)
      BY <2>1
    <2>3. \A i \in 1..Len(watch') :
            i + 1 \in 1..Len(watch) /\ watch'[i] = watch[i + 1]
      BY <2>1
    <2>4. Snapshots'
      BY <1>1, <1>2, <2>2, <2>3 DEF Snapshots
    <2> QED
      BY <1>3, <2>4 DEF SafetyInv
  <1>5. CASE DeliverSecrets \/ TimerFires \/ Resync
    <2>1. UNCHANGED <<watch, cache>>
      BY <1>5 DEF DeliverSecrets, TimerFires, Resync, queueVars
    <2> QED
      BY <1>1, <1>2, <1>3, <2>1 DEF Snapshots, SafetyInv
  <1> QED
    BY <1>4, <1>5 DEF Manager

\* The writes of users, Cluster API and the garbage collector: each either
\* leaves the resource alone, stores an edited one with the same status and
\* finalizer, removes one that has no finalizer, or creates one.
LEMMA OutsideWrites ==
    ASSUME TypeOK, Outside
    PROVE  \/ UNCHANGED <<ncp, rv, watch>>
           \/ \E o \in NCP : /\ Store(o)
                             /\ o.status = ncp.status
                             /\ o.finalizer = ncp.finalizer
           \/ Remove /\ ~ncp.finalizer
           \/ /\ ~Exists(ncp)
              /\ \E o \in NCP : Store(o) /\ o.status = NoStatus
           \/ /\ Exists(ncp)
              /\ rv' = rv + 1
              /\ ncp' = [ncp EXCEPT !.rv = rv + 1]
              /\ watch' = Append(watch, ncp')
  <1> USE DEF k8sVars
  <1>1. ncp \in NCP
    BY DEF TypeOK
  <1>2. CASE SetOwner
    <2> DEFINE o == [ncp EXCEPT !.owned = TRUE]
    <2>1. o \in NCP /\ o.status = ncp.status /\ o.finalizer = ncp.finalizer
      BY <1>1 DEF NCP
    <2> QED
      BY <1>2, <2>1 DEF SetOwner
  <1>3. CASE Touch
    BY <1>3 DEF Touch
  <1>4. CASE EditSpec
    <2>1. CASE \E v \in Versions \ {ncp.version} :
                 Store([ncp EXCEPT !.version = v])
      <3>1. PICK v \in Versions : Store([ncp EXCEPT !.version = v])
        BY <2>1
      <3> DEFINE o == [ncp EXCEPT !.version = v]
      <3>2. o \in NCP /\ o.status = ncp.status /\ o.finalizer = ncp.finalizer
        BY <1>1 DEF NCP
      <3> QED
        BY <3>1, <3>2
    <2>2. CASE \E id \in SpecIDs \ {ncp.planeID} :
                 Store([ncp EXCEPT !.planeID = id])
      <3>1. PICK id \in SpecIDs : Store([ncp EXCEPT !.planeID = id])
        BY <2>2
      <3> DEFINE o == [ncp EXCEPT !.planeID = id]
      <3>2. id \in Nat
        BY SpecIDsAssumption
      <3>3. o \in NCP /\ o.status = ncp.status /\ o.finalizer = ncp.finalizer
        BY <1>1, <3>2 DEF NCP
      <3> QED
        BY <3>1, <3>3
    <2>3. CASE Store([ncp EXCEPT !.paused = ~ncp.paused])
      <3> DEFINE o == [ncp EXCEPT !.paused = ~ncp.paused]
      <3>1. (~ncp.paused) \in BOOLEAN
        OBVIOUS
      <3>2. o \in NCP
        BY <1>1, <3>1, EditedType
      <3>3. o.status = ncp.status /\ o.finalizer = ncp.finalizer
        BY <1>1 DEF NCP
      <3> QED
        BY <2>3, <3>2, <3>3
    <2> QED
      BY <1>4, <2>1, <2>2, <2>3 DEF EditSpec
  <1>5. CASE DeleteNCP
    <2>1. CASE Store([ncp EXCEPT !.deletionTimestamp = TRUE, !.held = TRUE])
      <3> DEFINE o == [ncp EXCEPT !.deletionTimestamp = TRUE, !.held = TRUE]
      <3>1. o \in NCP /\ o.status = ncp.status /\ o.finalizer = ncp.finalizer
        BY <1>1 DEF NCP
      <3> QED
        BY <2>1, <3>1
    <2>2. CASE Store([ncp EXCEPT !.deletionTimestamp = TRUE])
      <3> DEFINE o == [ncp EXCEPT !.deletionTimestamp = TRUE]
      <3>1. o \in NCP /\ o.status = ncp.status /\ o.finalizer = ncp.finalizer
        BY <1>1 DEF NCP
      <3> QED
        BY <2>2, <3>1
    <2> QED
      BY <1>5, <2>1, <2>2 DEF DeleteNCP
  <1>6. CASE ForegroundDone
    <2> DEFINE o == [ncp EXCEPT !.held = FALSE]
    <2>1. o \in NCP /\ o.status = ncp.status /\ o.finalizer = ncp.finalizer
      BY <1>1 DEF NCP
    <2> QED
      BY <1>6, <2>1 DEF ForegroundDone
  <1>7. CASE CreateNCP
    <2>1. PICK v \in Versions, id \in SpecIDs : Store(Applied(0, v, id))
      BY <1>7 DEF CreateNCP
    <2>2. Applied(0, v, id) \in NCP /\ Applied(0, v, id).status = NoStatus
      BY AppliedType, SpecIDsAssumption
    <2> QED
      BY <1>7, <2>1, <2>2 DEF CreateNCP
  <1>8. CASE EditInputs \/ Provision \/ Vanish
    BY <1>8 DEF EditInputs, Provision, Vanish
  <1> QED
    BY <1>2, <1>3, <1>4, <1>5, <1>6, <1>7, <1>8 DEF Outside

\* Steps of others keep the invariant.
LEMMA InvOutside ==
    ASSUME TypeOK, SafetyInv, Outside
    PROVE  SafetyInv'
  <1> USE DEF workVars, controllerVars
  <1>1. TypeOK' /\ Snapshots /\ Provenance
    BY TypeOutside DEF SafetyInv
  <1>2. UNCHANGED <<cache, obj, pc, pid, issued, late>>
    BY DEF Outside, SetOwner, Touch, EditSpec, DeleteNCP, ForegroundDone,
           CreateNCP, EditInputs, Provision, Vanish
  <1>3. \A t \in tenants' : \E u \in tenants : u.id = t.id
    <2>1. CASE UNCHANGED tenants
      BY <2>1
    <2>2. CASE Provision
      <3>1. PICK u \in tenants :
              tenants' = (tenants \ {u}) \cup {[u EXCEPT !.hostname = TRUE]}
        BY <2>2 DEF Provision
      <3>2. u \in Tenant
        BY DEF TypeOK
      <3>3. [u EXCEPT !.hostname = TRUE].id = u.id
        BY <3>2 DEF Tenant
      <3> QED
        BY <3>1, <3>3
    <2>3. CASE Vanish
      BY <2>3 DEF Vanish
    <2> QED
      BY <2>1, <2>2, <2>3
         DEF Outside, SetOwner, Touch, EditSpec, DeleteNCP, ForegroundDone,
             CreateNCP, EditInputs
  <1>4. Provenance'
    BY <1>1, <1>2, <1>3, ProvenanceOutside
  <1>5. issued \in Nat /\ issued <= issued' /\ ncp.status.planeID <= issued
        /\ ncp \in NCP /\ rv \in Nat
    BY <1>1, <1>2 DEF TypeOK, Snapshots, VersionOf
  <1>6. CASE UNCHANGED <<ncp, rv, watch>>
    BY <1>1, <1>2, <1>4, <1>5, <1>6, SnapshotsKept DEF SafetyInv
  <1>7. CASE \E o \in NCP : Store(o) /\ o.status = ncp.status
    BY <1>1, <1>2, <1>4, <1>5, <1>7, StoreKept DEF SafetyInv
  <1>8. CASE Remove
    BY <1>1, <1>2, <1>4, <1>8, RemoveKept DEF SafetyInv
  <1>9. CASE \E o \in NCP : Store(o) /\ o.status = NoStatus
    <2>1. NoStatus.planeID <= issued
      BY <1>5 DEF NoStatus
    <2> QED
      BY <1>1, <1>2, <1>4, <1>9, <2>1, StoreKept DEF SafetyInv
  <1>10. CASE /\ rv' = rv + 1
              /\ ncp' = [ncp EXCEPT !.rv = rv + 1]
              /\ watch' = Append(watch, ncp')
    <2>1. ncp'.rv = rv' /\ ncp'.status = ncp.status
      BY <1>5, <1>10 DEF NCP
    <2>2. Snapshots'
      BY <1>1, <1>2, <1>5, <1>10, <2>1, SnapshotsKept
    <2> QED
      BY <1>4, <2>2 DEF SafetyInv
  <1> QED
    BY <1>6, <1>7, <1>8, <1>9, <1>10, OutsideWrites

\* Hence SafetyInv is inductive, given the type invariant.
LEMMA InvNext ==
    ASSUME TypeOK, SafetyInv, [Next]_vars
    PROVE  SafetyInv'
  <1>1. CASE Next
    BY <1>1, InvReconcile, InvFailure, InvManager, InvOutside DEF Next
  <1>2. CASE UNCHANGED vars
    BY <1>2 DEF vars, SafetyInv, Snapshots, Provenance
  <1> QED
    BY <1>1, <1>2

\* Every copy of the resource the manager holds is a version the API server
\* stored, and the plane a reconcile acts on is the one its copy names.
THEOREM SafetyInvariant == Spec => []SafetyInv
  BY TypeInit, TypeNext, InvInit, InvNext, PTL DEF Spec

-------------------------------------------------------------------------------
(***************************************************************************)
(* The action properties.  Both speak of the stored resource, which only a *)
(* fresh write of the controller or an outside event changes.              *)
(***************************************************************************)

\* What the controller's own writes do to the finalizer and to the status.
LEMMA ReconcileWrites ==
    ASSUME TypeOK, SafetyInv, ReconcileStep
    PROVE  /\ \/ ncp'.finalizer = ncp.finalizer
              \/ ncp'.finalizer = TRUE
              \/ tenants' = tenants /\ ~HasID(tenants, ncp.status.planeID)
           /\ \/ ncp'.status = ncp.status
              \/ ~Exists(ncp')
              \/ /\ \/ ncp'.status.initialized = TRUE
                    \/ ncp'.status.initialized = ncp.status.initialized
                 /\ ncp'.status.planeID # 0
                 /\ \/ ncp.status.planeID = 0
                    \/ ncp'.status.planeID \in {ncp.status.planeID, ncp.planeID}
  <1> USE DEF k8sVars, serviceVars
  <1>1. Snapshots /\ Provenance /\ obj \in NCP /\ pid \in Nat
    BY DEF SafetyInv, TypeOK
  <1>2. CASE UNCHANGED ncp
    BY <1>2
  <1>3. CASE AddFinalizer /\ Fresh /\ Store([obj EXCEPT !.finalizer = TRUE])
    <2> DEFINE o == [obj EXCEPT !.finalizer = TRUE]
    <2>1. o \in NCP /\ o.finalizer = TRUE /\ o.status = obj.status
      BY <1>1 DEF NCP
    <2>2. Store(o) /\ obj = ncp
      BY <1>1, <1>3, FreshIsStored
    <2> HIDE DEF o
    <2> QED
      BY <2>1, <2>2, StoreContent
  <1>4. CASE PersistPlaneID /\ Fresh
             /\ Store([obj EXCEPT !.status.planeID = pid])
    <2> DEFINE o == [obj EXCEPT !.status.planeID = pid]
    <2>1. o \in NCP /\ o.finalizer = obj.finalizer /\ o.status.planeID = pid
          /\ o.status.initialized = obj.status.initialized
      BY <1>1 DEF NCP, Status
    <2>2. Store(o) /\ obj = ncp
      BY <1>1, <1>4, FreshIsStored
    <2>3. obj.status.planeID = 0 /\ pid # 0
      BY <1>1, <1>4 DEF PersistPlaneID, Provenance, Resolving
    <2> HIDE DEF o
    <2> QED
      BY <2>1, <2>2, <2>3, StoreContent
  <1>5. CASE UpdateEndpoint /\ Fresh
             /\ Store([obj EXCEPT !.endpoint = plane.host])
    <2> DEFINE o == [obj EXCEPT !.endpoint = plane.host]
    <2>1. plane.host \in Hosts
      BY DEF TypeOK, Plane
    <2>2. o \in NCP /\ o.finalizer = obj.finalizer /\ o.status = obj.status
      BY <1>1, <2>1 DEF NCP
    <2>3. Store(o) /\ obj = ncp
      BY <1>1, <1>5, FreshIsStored
    <2> HIDE DEF o
    <2> QED
      BY <2>2, <2>3, StoreContent
  <1> DEFINE st == [planeID |-> pid, ready |-> TRUE, initialized |-> TRUE,
                    version |-> plane.version]
  <1>6. CASE UpdateStatus /\ Fresh /\ Store([obj EXCEPT !.status = st])
    <2> DEFINE o == [obj EXCEPT !.status = st]
    <2>1. st \in Status /\ st.planeID = pid /\ st.initialized = TRUE
      BY DEF TypeOK, Status, Plane
    <2> HIDE DEF st
    <2>2. o \in NCP /\ o.finalizer = obj.finalizer /\ o.status = st
      BY <1>1, <2>1 DEF NCP
    <2>3. Store(o) /\ obj = ncp
      BY <1>1, <1>6, FreshIsStored
    <2>4. pid # 0 /\ pid \in {obj.status.planeID, obj.planeID}
      BY <1>1, <1>6 DEF UpdateStatus, Provenance, Publishing
    <2> HIDE DEF o
    <2> QED
      BY <2>1, <2>2, <2>3, <2>4, StoreContent
  <1>7. CASE RemoveFinalizer /\ Fresh
    <2>1. obj = ncp
      BY <1>1, <1>7, FreshIsStored
    <2>2. tenants' = tenants /\ ~HasID(tenants, ncp.status.planeID)
      BY <1>1, <1>7, <2>1 DEF RemoveFinalizer, Provenance
    <2>3. CASE Remove
      BY <2>2, <2>3, ZeroTypes DEF Remove, Exists
    <2>4. CASE Store([obj EXCEPT !.finalizer = FALSE])
      <3> DEFINE o == [obj EXCEPT !.finalizer = FALSE]
      <3>1. o \in NCP /\ o.status = obj.status
        BY <1>1 DEF NCP
      <3>2. ncp'.status = ncp.status
        BY <2>1, <2>4, <3>1, StoreContent
      <3> QED
        BY <2>2, <3>2
    <2> QED
      BY <1>7, <2>3, <2>4 DEF RemoveFinalizer
  <1>8. CASE AddFinalizer
    BY <1>2, <1>3, <1>8 DEF AddFinalizer
  <1>9. CASE PersistPlaneID
    BY <1>2, <1>4, <1>9 DEF PersistPlaneID
  <1>10. CASE UpdateEndpoint
    BY <1>2, <1>5, <1>10 DEF UpdateEndpoint
  <1>11. CASE UpdateStatus
    BY <1>2, <1>6, <1>11 DEF UpdateStatus
  <1>12. CASE RemoveFinalizer
    BY <1>2, <1>7, <1>12 DEF RemoveFinalizer
  <1>13. CASE \/ Reconcile \/ CreatePlane \/ LookupPlane \/ GetThePlane
              \/ UpdateThePlane \/ FetchKubeconfig \/ WriteKubeconfig
              \/ CheckCA \/ WriteCA \/ RecreateCA \/ DeleteThePlane
    BY <1>2, <1>13
       DEF Reconcile, CreatePlane, LookupPlane, GetThePlane, UpdateThePlane,
           FetchKubeconfig, WriteKubeconfig, CheckCA, WriteCA, RecreateCA,
           DeleteThePlane
  <1> QED
    BY <1>8, <1>9, <1>10, <1>11, <1>12, <1>13 DEF ReconcileStep

\* Nothing but the reconcile and the outside touches the stored resource.
LEMMA QuietSteps ==
    ASSUME Failure \/ Manager \/ UNCHANGED vars
    PROVE  UNCHANGED ncp
  BY DEF Failure, CallFails, Restart, LateCreate, Manager, Deliver,
         DeliverSecrets, TimerFires, Resync, k8sVars, vars

\* A step that drops the finalizer comes from a fresh copy, whose plane is gone.
LEMMA ReleasedStep ==
    ASSUME TypeOK, SafetyInv, [Next]_vars,
           ncp.finalizer, ~ncp'.finalizer, ncp.status.planeID # NoID
    PROVE  ~HasID(tenants', ncp.status.planeID)
  <1>1. ncp \in NCP /\ ncp' \in NCP /\ Snapshots
    BY TypeNext DEF TypeOK, SafetyInv
  <1>2. ncp.finalizer = TRUE /\ ncp'.finalizer = FALSE
    BY <1>1 DEF NCP
  <1>3. CASE ReconcileStep
    BY <1>2, <1>3, ReconcileWrites
  <1>4. CASE Outside
    <2>1. CASE \E o \in NCP : Store(o) /\ o.finalizer = ncp.finalizer
      BY <1>2, <2>1, StoreContent
    <2>2. CASE ncp' = [ncp EXCEPT !.rv = rv + 1]
      <3>1. ncp'.finalizer = ncp.finalizer
        BY <1>1, <2>2 DEF NCP
      <3> QED
        BY <1>2, <3>1
    <2>3. CASE ~Exists(ncp)
      BY <1>1, <1>2, <2>3, ZeroTypes DEF Snapshots
    <2> QED
      BY <1>2, <1>4, <2>1, <2>2, <2>3, OutsideWrites
  <1> QED
    BY <1>2, <1>3, <1>4, QuietSteps DEF Next

\* reconcileDelete never gives up the finalizer of a resource while the plane
\* whose ID is persisted in its status is still running: for any number of
\* faults, restarts, edits and stale reads, with either client.
THEOREM Released == Spec => ReleasedBeforeForgotten
  <1>1. TypeOK /\ SafetyInv /\ [Next]_vars
        => [ncp.finalizer /\ ~ncp'.finalizer /\ ncp.status.planeID # NoID
              => ~HasID(tenants', ncp.status.planeID)]_vars
    BY ReleasedStep
  <1> QED
    BY <1>1, TypeCorrect, SafetyInvariant, PTL
       DEF Spec, ReleasedBeforeForgotten

\* A step that writes the status starts from the status that is stored.
LEMMA StatusStep ==
    ASSUME TypeOK, SafetyInv, [Next]_vars, Exists(ncp), Exists(ncp')
    PROVE  /\ ncp.status.initialized => ncp'.status.initialized
           /\ ncp.status.planeID # NoID =>
                 ncp'.status.planeID \in
                   {ncp.status.planeID, ncp.planeID} \ {NoID}
  <1>1. ncp \in NCP /\ ncp.status \in Status
    BY DEF TypeOK, NCP
  <1>2. CASE ncp'.status = ncp.status
    BY <1>2
  <1>3. CASE ReconcileStep
    BY <1>1, <1>2, <1>3, ReconcileWrites
  <1>4. CASE Outside
    <2>1. CASE \E o \in NCP : Store(o) /\ o.status = ncp.status
      BY <1>2, <2>1, StoreContent
    <2>2. CASE ncp' = [ncp EXCEPT !.rv = rv + 1]
      <3>1. ncp'.status = ncp.status
        BY <1>1, <2>2 DEF NCP
      <3> QED
        BY <1>2, <3>1
    <2>3. CASE Remove
      BY <2>3, ZeroTypes DEF Remove, Exists
    <2> QED
      BY <1>2, <1>4, <2>1, <2>2, <2>3, OutsideWrites
  <1> QED
    BY <1>2, <1>3, <1>4, QuietSteps DEF Next

\* No status write, however old the copy it was computed from, takes
\* initialized back or loses a persisted plane ID.
THEOREM StatusMonotone == Spec => StatusNeverRegresses
  <1>1. TypeOK /\ SafetyInv /\ [Next]_vars
        => [Exists(ncp) /\ Exists(ncp') =>
              /\ ncp.status.initialized => ncp'.status.initialized
              /\ ncp.status.planeID # NoID =>
                    ncp'.status.planeID \in
                      {ncp.status.planeID, ncp.planeID} \ {NoID}]_vars
    BY StatusStep
  <1> QED
    BY <1>1, TypeCorrect, SafetyInvariant, PTL
       DEF Spec, StatusNeverRegresses
===============================================================================
