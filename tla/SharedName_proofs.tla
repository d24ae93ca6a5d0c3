--------------------------- MODULE SharedName_proofs ---------------------------
(***************************************************************************)
(* Proofs about module SharedName: two resources of one name never get one *)
(* plane between them, and neither stops the plane of the other.           *)
(*                                                                         *)
(* AP and BP are A and B with the lemmas proved about ControlPlane.        *)
(***************************************************************************)
EXTENDS SharedName, TLAPS

AP == INSTANCE Neighbour_proofs WITH
        ncp <- ncpA, rv <- rvA, watch <- watchA, kubeconfigSecret <-
        kubeconfigSecretA, caSecret <- caSecretA, secretCache <- secretCacheA,
        secretWatch <- secretWatchA, cluster <- clusterA, creds <- credsA,
        cache <- cacheA, queued <- queuedA, timer <- timerA, pc <- pcA, obj <-
        objA, pid <- pidA, plane <- planeA, kubeconfig <- kubeconfigA, late <-
        lateA

BP == INSTANCE Neighbour_proofs WITH
        ncp <- ncpB, rv <- rvB, watch <- watchB, kubeconfigSecret <-
        kubeconfigSecretB, caSecret <- caSecretB, secretCache <- secretCacheB,
        secretWatch <- secretWatchB, cluster <- clusterB, creds <- credsB,
        cache <- cacheB, queued <- queuedB, timer <- timerB, pc <- pcB, obj <-
        objB, pid <- pidB, plane <- planeB, kubeconfig <- kubeconfigB, late <-
        lateB

\* AP and A, and BP and B, are instances of the same definitions, which have
\* to be named for the provers to see it.
LEMMA SameA ==
    /\ A!Init <=> AP!Init
    /\ A!Next <=> AP!Next
    /\ A!Settled <=> AP!Settled
    /\ (A!Settled <=> AP!Settled)'
    /\ A!Held = AP!Held
    /\ (A!Held = AP!Held)'
  <1>1. /\ A!Init <=> AP!Init
        /\ A!Next <=> AP!Next
    BY DEF
       A!NoID, A!Empty, A!PlaneIDs, A!Hosts, A!NoHost, A!Tenant, A!Plane,
       A!NoPlane, A!tenantToPlane, A!HasID, A!HasName, A!IsConflict,
       A!IsNotFound, A!GetPlane, A!GetPlaneByName, A!CreatePlaneErr, A!NewID,
       A!Created, A!UpdatePlaneErr, A!Updated, A!DeletePlaneErr, A!Deleted,
       A!GetKubeconfigErr, A!KubeconfigOf, A!k8sVars, A!secretVars,
       A!outsideVars, A!queueVars, A!workVars, A!serviceVars, A!boundVars,
       A!vars, A!Status, A!NCP, A!NoStatus, A!NoObject, A!Exists, A!Applied,
       A!Kubeconfig, A!NoKubeconfig, A!KubeconfigSecret, A!NoKubeconfigSecret,
       A!CASecret, A!NoCASecret, A!OpaqueCASecret, A!Secrets, A!Calls,
       A!TypeOK, A!Init, A!Store, A!Remove, A!StoreSecrets, A!KubeconfigFresh,
       A!CAFresh, A!Fresh, A!Return, A!Goto, A!IsPaused, A!Ignored, A!Blocked,
       A!KnownPlaneID, A!FirstCall, A!Reconcile, A!AddFinalizer, A!CreatePlane,
       A!LookupPlane, A!PersistPlaneID, A!CallAfterGet, A!GetThePlane,
       A!UpdateThePlane, A!UpdateEndpoint, A!GetKubeconfig, A!FetchKubeconfig,
       A!WriteKubeconfig, A!CheckCA, A!OurCASecret, A!WriteCA, A!RecreateCA,
       A!UpdateStatus, A!DeleteThePlane, A!RemoveFinalizer, A!AbandonRequest,
       A!CallFails, A!Restart, A!LateCreate, A!managerIdleVars, A!Deliver,
       A!DeliverSecrets, A!TimerFires, A!Resync, A!controllerVars, A!Edit,
       A!SetOwner, A!Touch, A!EditSpec, A!DeleteNCP, A!ForegroundDone,
       A!CreateNCP, A!EditInputs, A!Provision, A!Vanish, A!ReconcileStep,
       A!Failure, A!Manager, A!Outside, A!Next,
       AP!NoID, AP!Empty, AP!PlaneIDs, AP!Hosts, AP!NoHost, AP!Tenant,
       AP!Plane, AP!NoPlane, AP!tenantToPlane, AP!HasID, AP!HasName,
       AP!IsConflict, AP!IsNotFound, AP!GetPlane, AP!GetPlaneByName,
       AP!CreatePlaneErr, AP!NewID, AP!Created, AP!UpdatePlaneErr, AP!Updated,
       AP!DeletePlaneErr, AP!Deleted, AP!GetKubeconfigErr, AP!KubeconfigOf,
       AP!k8sVars, AP!secretVars, AP!outsideVars, AP!queueVars, AP!workVars,
       AP!serviceVars, AP!boundVars, AP!vars, AP!Status, AP!NCP, AP!NoStatus,
       AP!NoObject, AP!Exists, AP!Applied, AP!Kubeconfig, AP!NoKubeconfig,
       AP!KubeconfigSecret, AP!NoKubeconfigSecret, AP!CASecret, AP!NoCASecret,
       AP!OpaqueCASecret, AP!Secrets, AP!Calls, AP!TypeOK, AP!Init, AP!Store,
       AP!Remove, AP!StoreSecrets, AP!KubeconfigFresh, AP!CAFresh, AP!Fresh,
       AP!Return, AP!Goto, AP!IsPaused, AP!Ignored, AP!Blocked,
       AP!KnownPlaneID, AP!FirstCall, AP!Reconcile, AP!AddFinalizer,
       AP!CreatePlane, AP!LookupPlane, AP!PersistPlaneID, AP!CallAfterGet,
       AP!GetThePlane, AP!UpdateThePlane, AP!UpdateEndpoint, AP!GetKubeconfig,
       AP!FetchKubeconfig, AP!WriteKubeconfig, AP!CheckCA, AP!OurCASecret,
       AP!WriteCA, AP!RecreateCA, AP!UpdateStatus, AP!DeleteThePlane,
       AP!RemoveFinalizer, AP!AbandonRequest, AP!CallFails, AP!Restart,
       AP!LateCreate, AP!managerIdleVars, AP!Deliver, AP!DeliverSecrets,
       AP!TimerFires, AP!Resync, AP!controllerVars, AP!Edit, AP!SetOwner,
       AP!Touch, AP!EditSpec, AP!DeleteNCP, AP!ForegroundDone, AP!CreateNCP,
       AP!EditInputs, AP!Provision, AP!Vanish, AP!ReconcileStep, AP!Failure,
       AP!Manager, AP!Outside, AP!Next
  <1>2. /\ A!Settled <=> AP!Settled
        /\ (A!Settled <=> AP!Settled)'
        /\ A!Held = AP!Held
        /\ (A!Held = AP!Held)'
    BY DEF
       A!NoID, A!Empty, A!PlaneIDs, A!Hosts, A!NoHost, A!Tenant, A!Plane,
       A!HasID, A!Status, A!NCP, A!NoStatus, A!NoObject, A!Exists,
       A!Kubeconfig, A!KubeconfigSecret, A!CASecret, A!Secrets, A!Calls,
       A!TypeOK, A!Fresh, A!VersionOf, A!Snapshots, A!Resolving, A!Publishing,
       A!Provenance, A!SafetyInv, A!Pending, A!Copies, A!Unfinished,
       A!Unwritten, A!Fetched, A!Stage, A!Newest, A!Guarded, A!GuardInv,
       A!Creating, A!Later, A!History, A!OnRecord, A!Established, A!Agreed,
       A!Settled, A!Held,
       AP!NoID, AP!Empty, AP!PlaneIDs, AP!Hosts, AP!NoHost, AP!Tenant,
       AP!Plane, AP!HasID, AP!Status, AP!NCP, AP!NoStatus, AP!NoObject,
       AP!Exists, AP!Kubeconfig, AP!KubeconfigSecret, AP!CASecret, AP!Secrets,
       AP!Calls, AP!TypeOK, AP!Fresh, AP!VersionOf, AP!Snapshots, AP!Resolving,
       AP!Publishing, AP!Provenance, AP!SafetyInv, AP!Pending, AP!Copies,
       AP!Unfinished, AP!Unwritten, AP!Fetched, AP!Stage, AP!Newest,
       AP!Guarded, AP!GuardInv, AP!Creating, AP!Later, AP!History, AP!OnRecord,
       AP!Established, AP!Agreed, AP!Settled, AP!Held
  <1> QED
    BY <1>1, <1>2

LEMMA SameB ==
    /\ B!Init <=> BP!Init
    /\ B!Next <=> BP!Next
    /\ B!Settled <=> BP!Settled
    /\ (B!Settled <=> BP!Settled)'
    /\ B!Held = BP!Held
    /\ (B!Held = BP!Held)'
  <1>1. /\ B!Init <=> BP!Init
        /\ B!Next <=> BP!Next
    BY DEF
       B!NoID, B!Empty, B!PlaneIDs, B!Hosts, B!NoHost, B!Tenant, B!Plane,
       B!NoPlane, B!tenantToPlane, B!HasID, B!HasName, B!IsConflict,
       B!IsNotFound, B!GetPlane, B!GetPlaneByName, B!CreatePlaneErr, B!NewID,
       B!Created, B!UpdatePlaneErr, B!Updated, B!DeletePlaneErr, B!Deleted,
       B!GetKubeconfigErr, B!KubeconfigOf, B!k8sVars, B!secretVars,
       B!outsideVars, B!queueVars, B!workVars, B!serviceVars, B!boundVars,
       B!vars, B!Status, B!NCP, B!NoStatus, B!NoObject, B!Exists, B!Applied,
       B!Kubeconfig, B!NoKubeconfig, B!KubeconfigSecret, B!NoKubeconfigSecret,
       B!CASecret, B!NoCASecret, B!OpaqueCASecret, B!Secrets, B!Calls,
       B!TypeOK, B!Init, B!Store, B!Remove, B!StoreSecrets, B!KubeconfigFresh,
       B!CAFresh, B!Fresh, B!Return, B!Goto, B!IsPaused, B!Ignored, B!Blocked,
       B!KnownPlaneID, B!FirstCall, B!Reconcile, B!AddFinalizer, B!CreatePlane,
       B!LookupPlane, B!PersistPlaneID, B!CallAfterGet, B!GetThePlane,
       B!UpdateThePlane, B!UpdateEndpoint, B!GetKubeconfig, B!FetchKubeconfig,
       B!WriteKubeconfig, B!CheckCA, B!OurCASecret, B!WriteCA, B!RecreateCA,
       B!UpdateStatus, B!DeleteThePlane, B!RemoveFinalizer, B!AbandonRequest,
       B!CallFails, B!Restart, B!LateCreate, B!managerIdleVars, B!Deliver,
       B!DeliverSecrets, B!TimerFires, B!Resync, B!controllerVars, B!Edit,
       B!SetOwner, B!Touch, B!EditSpec, B!DeleteNCP, B!ForegroundDone,
       B!CreateNCP, B!EditInputs, B!Provision, B!Vanish, B!ReconcileStep,
       B!Failure, B!Manager, B!Outside, B!Next,
       BP!NoID, BP!Empty, BP!PlaneIDs, BP!Hosts, BP!NoHost, BP!Tenant,
       BP!Plane, BP!NoPlane, BP!tenantToPlane, BP!HasID, BP!HasName,
       BP!IsConflict, BP!IsNotFound, BP!GetPlane, BP!GetPlaneByName,
       BP!CreatePlaneErr, BP!NewID, BP!Created, BP!UpdatePlaneErr, BP!Updated,
       BP!DeletePlaneErr, BP!Deleted, BP!GetKubeconfigErr, BP!KubeconfigOf,
       BP!k8sVars, BP!secretVars, BP!outsideVars, BP!queueVars, BP!workVars,
       BP!serviceVars, BP!boundVars, BP!vars, BP!Status, BP!NCP, BP!NoStatus,
       BP!NoObject, BP!Exists, BP!Applied, BP!Kubeconfig, BP!NoKubeconfig,
       BP!KubeconfigSecret, BP!NoKubeconfigSecret, BP!CASecret, BP!NoCASecret,
       BP!OpaqueCASecret, BP!Secrets, BP!Calls, BP!TypeOK, BP!Init, BP!Store,
       BP!Remove, BP!StoreSecrets, BP!KubeconfigFresh, BP!CAFresh, BP!Fresh,
       BP!Return, BP!Goto, BP!IsPaused, BP!Ignored, BP!Blocked,
       BP!KnownPlaneID, BP!FirstCall, BP!Reconcile, BP!AddFinalizer,
       BP!CreatePlane, BP!LookupPlane, BP!PersistPlaneID, BP!CallAfterGet,
       BP!GetThePlane, BP!UpdateThePlane, BP!UpdateEndpoint, BP!GetKubeconfig,
       BP!FetchKubeconfig, BP!WriteKubeconfig, BP!CheckCA, BP!OurCASecret,
       BP!WriteCA, BP!RecreateCA, BP!UpdateStatus, BP!DeleteThePlane,
       BP!RemoveFinalizer, BP!AbandonRequest, BP!CallFails, BP!Restart,
       BP!LateCreate, BP!managerIdleVars, BP!Deliver, BP!DeliverSecrets,
       BP!TimerFires, BP!Resync, BP!controllerVars, BP!Edit, BP!SetOwner,
       BP!Touch, BP!EditSpec, BP!DeleteNCP, BP!ForegroundDone, BP!CreateNCP,
       BP!EditInputs, BP!Provision, BP!Vanish, BP!ReconcileStep, BP!Failure,
       BP!Manager, BP!Outside, BP!Next
  <1>2. /\ B!Settled <=> BP!Settled
        /\ (B!Settled <=> BP!Settled)'
        /\ B!Held = BP!Held
        /\ (B!Held = BP!Held)'
    BY DEF
       B!NoID, B!Empty, B!PlaneIDs, B!Hosts, B!NoHost, B!Tenant, B!Plane,
       B!HasID, B!Status, B!NCP, B!NoStatus, B!NoObject, B!Exists,
       B!Kubeconfig, B!KubeconfigSecret, B!CASecret, B!Secrets, B!Calls,
       B!TypeOK, B!Fresh, B!VersionOf, B!Snapshots, B!Resolving, B!Publishing,
       B!Provenance, B!SafetyInv, B!Pending, B!Copies, B!Unfinished,
       B!Unwritten, B!Fetched, B!Stage, B!Newest, B!Guarded, B!GuardInv,
       B!Creating, B!Later, B!History, B!OnRecord, B!Established, B!Agreed,
       B!Settled, B!Held,
       BP!NoID, BP!Empty, BP!PlaneIDs, BP!Hosts, BP!NoHost, BP!Tenant,
       BP!Plane, BP!HasID, BP!Status, BP!NCP, BP!NoStatus, BP!NoObject,
       BP!Exists, BP!Kubeconfig, BP!KubeconfigSecret, BP!CASecret, BP!Secrets,
       BP!Calls, BP!TypeOK, BP!Fresh, BP!VersionOf, BP!Snapshots, BP!Resolving,
       BP!Publishing, BP!Provenance, BP!SafetyInv, BP!Pending, BP!Copies,
       BP!Unfinished, BP!Unwritten, BP!Fetched, BP!Stage, BP!Newest,
       BP!Guarded, BP!GuardInv, BP!Creating, BP!Later, BP!History, BP!OnRecord,
       BP!Established, BP!Agreed, BP!Settled, BP!Held
  <1> QED
    BY <1>1, <1>2

-------------------------------------------------------------------------------
\* Constants are the same in every instance.
LEMMA SameConstants ==
    /\ A!NoID = 0
    /\ AP!Tenant = A!Tenant /\ BP!Tenant = A!Tenant
    /\ AP!CASecret = A!CASecret /\ BP!CASecret = A!CASecret
    /\ AP!Empty = A!Empty /\ BP!Empty = A!Empty
    /\ \A T, id : (AP!HasID(T, id) <=> A!HasID(T, id))
                    /\ (BP!HasID(T, id) <=> A!HasID(T, id))
  BY DEF A!NoID, AP!NoID, BP!NoID, A!Tenant, AP!Tenant, BP!Tenant, A!CASecret,
         AP!CASecret, BP!CASecret, A!Empty, AP!Empty, BP!Empty, A!PlaneIDs,
         AP!PlaneIDs, BP!PlaneIDs, A!HasID, AP!HasID, BP!HasID

\* A step of either resource, or none, from a state of the invariant: what it
\* means to the resource itself, H being the IDs it holds and o the stored
\* object, and to the service.
StepOf(H, H1, o) ==
    /\ SpecIDs \subseteq {0} => \A id \in H1 : id \in H \cup {0} \/ issued < id
    /\ "vanish" \notin Env =>
          \A id : A!HasID(tenants, id) /\ ~A!HasID(tenants', id) =>
            /\ id \in H
            /\ id = o.status.planeID => o.deletionTimestamp

LEMMA StepOfA ==
    ASSUME Client = "http", A!Settled, B!Settled,
           StepA \/ UNCHANGED vars
    PROVE  /\ A!Settled' /\ B!Settled' /\ B!Held' = B!Held
           /\ StepOf(A!Held, A!Held', ncpA)
  <1>1. [AP!Next]_(AP!vars)
    BY SameA DEF StepA, vars, varsA, AP!vars
  <1>2. /\ AP!Settled' /\ AP!ServiceStep
        /\ SpecIDs \subseteq {0} =>
             \A id \in AP!Held' : id \in AP!Held \cup {0} \/ issued < id
        /\ "vanish" \notin Env =>
             \A id : AP!HasID(tenants, id) /\ ~AP!HasID(tenants', id) =>
               /\ id \in AP!Held
               /\ id = ncpA.status.planeID => ncpA.deletionTimestamp
    BY <1>1, SameA, SameConstants, ConstantsAssumption, AP!OwnStep
  <1>3. BP!ServiceStep /\ UNCHANGED BP!ownVars
    BY <1>2, SameConstants
       DEF AP!ServiceStep, BP!ServiceStep, BP!ownVars, StepA, vars, varsB
  <1>4. BP!Settled' /\ BP!Held' = BP!Held
    BY <1>3, SameB, SameConstants, ConstantsAssumption, BP!NeighbourStep
  <1> QED
    BY <1>2, <1>4, SameA, SameB, SameConstants DEF StepOf

LEMMA StepOfB ==
    ASSUME Client = "http", A!Settled, B!Settled, StepB
    PROVE  /\ A!Settled' /\ B!Settled' /\ A!Held' = A!Held
           /\ StepOf(B!Held, B!Held', ncpB)
  <1>1. [BP!Next]_(BP!vars)
    BY SameB DEF StepB
  <1>2. /\ BP!Settled' /\ BP!ServiceStep
        /\ SpecIDs \subseteq {0} =>
             \A id \in BP!Held' : id \in BP!Held \cup {0} \/ issued < id
        /\ "vanish" \notin Env =>
             \A id : BP!HasID(tenants, id) /\ ~BP!HasID(tenants', id) =>
               /\ id \in BP!Held
               /\ id = ncpB.status.planeID => ncpB.deletionTimestamp
    BY <1>1, SameB, SameConstants, ConstantsAssumption, BP!OwnStep
  <1>3. AP!ServiceStep /\ UNCHANGED AP!ownVars
    BY <1>2, SameConstants
       DEF AP!ServiceStep, BP!ServiceStep, AP!ownVars, StepB, varsA
  <1>4. AP!Settled' /\ AP!Held' = AP!Held
    BY <1>3, SameA, SameConstants, ConstantsAssumption, AP!NeighbourStep
  <1> QED
    BY <1>2, <1>4, SameA, SameB, SameConstants DEF StepOf

\* The IDs in either's hands were issued, and 0 is no plane.
LEMMA HeldByEither ==
    ASSUME A!Settled, B!Settled
    PROVE  /\ issued \in Nat /\ ~A!HasID(tenants, 0)
           /\ A!Held \subseteq 0..issued /\ B!Held \subseteq 0..issued
           /\ ncpA.status.planeID \in A!Held /\ ncpB.status.planeID \in B!Held
  <1>1. /\ issued \in Nat /\ ~AP!HasID(tenants, 0)
        /\ AP!Held \subseteq 0..issued /\ ncpA.status.planeID \in AP!Held
    BY SameA, SameConstants, ConstantsAssumption, AP!HeldIssued
  <1>2. BP!Held \subseteq 0..issued /\ ncpB.status.planeID \in BP!Held
    BY SameB, SameConstants, ConstantsAssumption, BP!HeldIssued
  <1> QED
    BY <1>1, <1>2, SameA, SameB, SameConstants

LEMMA SharedInit == Init => SharedInv
  <1> SUFFICES ASSUME Init PROVE SharedInv
    OBVIOUS
  <1>1. AP!Settled /\ AP!Held \subseteq {0}
    BY SameA, SameConstants, ConstantsAssumption, AP!SettledInit DEF Init
  <1>2. BP!Settled /\ BP!Held \subseteq {0}
    BY SameB, SameConstants, ConstantsAssumption, BP!SettledInit DEF Init
  <1> QED
    BY <1>1, <1>2, SameA, SameB, SameConstants DEF SharedInv

\* The invariant is inductive.
LEMMA SharedNext ==
    ASSUME Client = "http", SpecIDs \subseteq {0}, SharedInv, [Next]_vars
    PROVE  SharedInv'
  <1>1. A!Settled /\ B!Settled /\ A!Held \cap B!Held \subseteq {0}
    BY SameConstants DEF SharedInv
  <1>2. /\ issued \in Nat
        /\ A!Held \subseteq 0..issued /\ B!Held \subseteq 0..issued
    BY <1>1, HeldByEither
  <1>3. CASE StepA \/ UNCHANGED vars
    <2>1. /\ A!Settled' /\ B!Settled' /\ B!Held' = B!Held
          /\ \A id \in A!Held' : id \in A!Held \cup {0} \/ issued < id
      BY <1>1, <1>3, StepOfA DEF StepOf
    <2>2. ASSUME NEW id \in A!Held', id \in B!Held' PROVE id = 0
      <3>1. id \in B!Held /\ id \in 0..issued
        BY <1>2, <2>1, <2>2
      <3>2. id \in A!Held \cup {0}
        BY <1>2, <2>1, <3>1
      <3> QED
        BY <1>1, <3>1, <3>2
    <2> QED
      BY <2>1, <2>2, SameConstants DEF SharedInv, A!NoID
  <1>4. CASE StepB
    <2>1. /\ A!Settled' /\ B!Settled' /\ A!Held' = A!Held
          /\ \A id \in B!Held' : id \in B!Held \cup {0} \/ issued < id
      BY <1>1, <1>4, StepOfB DEF StepOf
    <2>2. ASSUME NEW id \in B!Held', id \in A!Held' PROVE id = 0
      <3>1. id \in A!Held /\ id \in 0..issued
        BY <1>2, <2>1, <2>2
      <3>2. id \in B!Held \cup {0}
        BY <1>2, <2>1, <3>1
      <3> QED
        BY <1>1, <3>1, <3>2
    <2> QED
      BY <2>1, <2>2, SameConstants DEF SharedInv, A!NoID
  <1> QED
    BY <1>3, <1>4 DEF Next

\* With noplane.Client, and no plane named by the user, the two resources hold
\* no plane in common: not on record, and not in a stale copy or in a create
\* that was answered and is still to be recorded (resolvePlaneID).
THEOREM HeldApart ==
    ASSUME Client = "http", SpecIDs \subseteq {0}
    PROVE  Spec => []SharedInv
  <1>1. ASSUME SharedInv, [Next]_vars PROVE SharedInv'
    BY <1>1, SharedNext
  <1> QED
    BY <1>1, SharedInit, PTL DEF Spec

\* Hence neither resource ever records the plane of the other, although both
\* ask the service for a tenant of the same name (resolvePlaneID).
THEOREM NoPlaneShared ==
    ASSUME Client = "http", SpecIDs \subseteq {0}
    PROVE  Spec => []NoSharedPlane
  <1>1. SharedInv => NoSharedPlane
    BY HeldByEither, SameConstants DEF SharedInv, NoSharedPlane
  <1> QED
    BY <1>1, HeldApart, PTL

\* And as long as no plane disappears by itself, DeletePlane of one resource
\* never stops the plane of the other (reconcileDelete).
THEOREM OwnPlaneStopped ==
    ASSUME Client = "http", SpecIDs \subseteq {0}, "vanish" \notin Env
    PROVE  Spec => OwnPlaneOnly
  <1>1. ASSUME SharedInv, [Next]_vars
        PROVE  [KeepsPlane(ncpA) /\ KeepsPlane(ncpB)]_vars
    <2>1. A!Settled /\ B!Settled /\ A!Held \cap B!Held \subseteq {0}
      BY <1>1, SameConstants DEF SharedInv
    <2>2. /\ ~A!HasID(tenants, 0)
          /\ ncpA.status.planeID \in A!Held /\ ncpB.status.planeID \in B!Held
      BY <2>1, HeldByEither
    <2>3. CASE StepA
      BY <2>1, <2>2, <2>3, StepOfA DEF StepOf, KeepsPlane
    <2>4. CASE StepB
      BY <2>1, <2>2, <2>4, StepOfB DEF StepOf, KeepsPlane
    <2> QED
      BY <1>1, <2>3, <2>4 DEF Next
  <1> QED
    BY <1>1, HeldApart, PTL DEF Spec, OwnPlaneOnly
===============================================================================
