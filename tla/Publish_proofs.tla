---------------------------- MODULE Publish_proofs ----------------------------
(***************************************************************************)
(* With noplane.Client, initialized turns true only when everything that   *)
(* CAPI core and CABPK then rely on is in place.                           *)
(*                                                                         *)
(* Two assumptions, both necessary: nobody else removes the Secrets, and   *)
(* the cache of the Secrets does not show a CA secret that was deleted to  *)
(* change its type, either because it does not lag or because there never  *)
(* was one of another type.                                                *)
(***************************************************************************)
EXTENDS Record_proofs

USE DEF NoID

LeftAlone ==
    /\ "secret" \notin Env
    /\ MaxLag = 0 \/ NoneOpaque

\* A write of the Secrets adds the stored version to those the cache gets.
LEMMA SecretsWritten ==
    ASSUME TypeOK, NEW k \in KubeconfigSecret, NEW c \in CASecret,
           StoreSecrets(k, c)
    PROVE  /\ StoredSecrets' = [kubeconfig |-> k, ca |-> c]
           /\ SecretCopies' \subseteq SecretCopies \cup {StoredSecrets'}
           /\ KeysKept /\ MaxLag = 0 =>
                 secretWatch' = <<>> /\ secretCache' = StoredSecrets'
  <1>1. secretWatch \in Seq(Secrets) /\ Len(secretWatch) \in Nat
    BY DEF TypeOK
  <1>2. StoredSecrets' = [kubeconfig |-> k, ca |-> c]
    BY DEF StoreSecrets, StoredSecrets
  <1>3. CASE k = kubeconfigSecret /\ c = caSecret
             /\ UNCHANGED <<secretCache, secretWatch>>
    <2>1. StoredSecrets' = StoredSecrets
      BY <1>2, <1>3 DEF StoredSecrets
    <2> QED
      BY <1>2, <1>3, <2>1 DEF SecretCopies, KeysKept
  <1>4. CASE secretCache' = [kubeconfig |-> k, ca |-> c]
             /\ UNCHANGED secretWatch
    BY <1>2, <1>4 DEF SecretCopies, KeysKept
  <1>5. CASE /\ Len(secretWatch) < MaxLag /\ UNCHANGED secretCache
             /\ secretWatch' = Append(secretWatch, [kubeconfig |-> k, ca |-> c])
    <2>1. MaxLag # 0
      BY <1>1, <1>5
    <2>2. ASSUME NEW i \in 1..Len(secretWatch')
          PROVE  secretWatch'[i] \in SecretCopies \cup {StoredSecrets'}
      <3>1. [kubeconfig |-> k, ca |-> c] \in Secrets
        BY DEF Secrets
      <3>2. CASE i = Len(secretWatch) + 1
        BY <1>1, <1>2, <1>5, <3>1, <3>2
      <3>3. CASE i # Len(secretWatch) + 1
        <4>1. i \in 1..Len(secretWatch) /\ secretWatch'[i] = secretWatch[i]
          BY <1>1, <1>5, <2>2, <3>1, <3>3
        <4> QED
          BY <4>1 DEF SecretCopies
      <3> QED
        BY <3>2, <3>3
    <2>3. secretCache' \in SecretCopies
      BY <1>5 DEF SecretCopies
    <2> QED
      BY <1>2, <2>1, <2>2, <2>3 DEF SecretCopies
  <1> QED
    BY <1>3, <1>4, <1>5 DEF StoreSecrets

\* KeysKept survives a write that leaves the CA secret alone or gives it a
\* key, and, with a cache that does not lag, any write.
LEMMA KeysWritten ==
    ASSUME TypeOK, KeysKept, NEW k \in KubeconfigSecret, NEW c \in CASecret,
           StoreSecrets(k, c),
           \/ c = caSecret
           \/ c.key /\ c.type # "Opaque"
           \/ MaxLag = 0 /\ c.type # "Opaque"
    PROVE  KeysKept'
  <1>1. /\ StoredSecrets'.ca = c /\ caSecret' = c
        /\ SecretCopies' \subseteq SecretCopies \cup {StoredSecrets'}
        /\ MaxLag = 0 => secretWatch' = <<>> /\ secretCache' = StoredSecrets'
    BY SecretsWritten DEF StoreSecrets
  <1>2. StoredSecrets \in SecretCopies /\ StoredSecrets.ca = caSecret
    BY DEF SecretCopies, StoredSecrets
  <1>3. NoneOpaque => c.type # "Opaque"
    BY <1>2 DEF KeysKept
  <1>4. NoneOpaque => \A s \in SecretCopies' : s.ca.type # "Opaque"
    BY <1>1, <1>3 DEF KeysKept
  <1>5. \A s \in SecretCopies' : s.ca.key => caSecret'.key
    <2>1. CASE c = caSecret \/ c.key
      BY <1>1, <2>1 DEF KeysKept
    <2>2. CASE MaxLag = 0
      <3>1. SecretCopies' = {StoredSecrets'}
        BY <1>1, <2>2 DEF SecretCopies
      <3> QED
        BY <1>1, <3>1
    <2> QED
      BY <2>1, <2>2
  <1>6. NoneOpaque' <=> NoneOpaque
    BY DEF NoneOpaque
  <1> QED
    BY <1>1, <1>4, <1>5, <1>6 DEF KeysKept

\* KeysKept survives every step.
LEMMA KeysKeptStep ==
    ASSUME TypeOK, KeysKept, LeftAlone, [Next]_vars
    PROVE  KeysKept'
  <1> USE DEF secretVars
  <1>0. /\ kubeconfigSecret \in KubeconfigSecret /\ caSecret \in CASecret
        /\ kubeconfig \in Kubeconfig
    BY DEF TypeOK
  <1>1. CASE UNCHANGED secretVars
    BY <1>1 DEF KeysKept, SecretCopies, StoredSecrets, NoneOpaque
  <1>2. CASE WriteKubeconfig
    <2>1. CASE StoreSecrets([exists |-> TRUE, value |-> kubeconfig], caSecret)
      <3>1. [exists |-> TRUE, value |-> kubeconfig] \in KubeconfigSecret
        BY <1>0 DEF KubeconfigSecret
      <3> QED
        BY <1>0, <2>1, <3>1, KeysWritten
    <2> QED
      BY <1>1, <1>2, <2>1 DEF WriteKubeconfig
  <1>3. CASE StoreSecrets(kubeconfigSecret, OurCASecret)
    <2>1. OurCASecret \in CASecret /\ OurCASecret.key
          /\ OurCASecret.type # "Opaque"
      BY <1>0 DEF OurCASecret, CASecret, Kubeconfig
    <2> QED
      BY <1>0, <1>3, <2>1, KeysWritten
  <1>4. CASE WriteCA /\ secretCache.ca.type = "Opaque"
             /\ StoreSecrets(kubeconfigSecret, NoCASecret)
    <2>1. secretCache \in SecretCopies
      BY DEF SecretCopies
    <2>2. MaxLag = 0
      BY <1>4, <2>1 DEF KeysKept, LeftAlone
    <2>3. NoCASecret \in CASecret /\ NoCASecret.type # "Opaque"
      BY ZeroTypes DEF NoCASecret
    <2> QED
      BY <1>0, <1>4, <2>2, <2>3, KeysWritten
  <1>5. CASE WriteCA
    BY <1>1, <1>3, <1>4, <1>5 DEF WriteCA
  <1>6. CASE RecreateCA
    BY <1>1, <1>3, <1>6 DEF RecreateCA
  <1>7. CASE Restart
    <2>1. secretCache' = StoredSecrets' /\ secretWatch' = <<>>
          /\ UNCHANGED StoredSecrets /\ UNCHANGED caSecret
      BY <1>7 DEF Restart, StoredSecrets
    <2>2. SecretCopies' = {StoredSecrets}
      BY <2>1 DEF SecretCopies
    <2>3. StoredSecrets \in SecretCopies
      BY DEF SecretCopies
    <2> QED
      BY <2>1, <2>2, <2>3 DEF KeysKept, NoneOpaque
  <1>8. CASE DeliverSecrets
    <2>1. /\ secretWatch # <<>> /\ secretWatch \in Seq(Secrets)
          /\ secretCache' = Head(secretWatch) /\ secretWatch' = Tail(secretWatch)
          /\ UNCHANGED StoredSecrets /\ UNCHANGED caSecret
      BY <1>8 DEF DeliverSecrets, StoredSecrets, TypeOK
    <2>2. secretCache' = secretWatch[1] /\ 1 \in 1..Len(secretWatch)
      BY <2>1
    <2>3. ASSUME NEW i \in 1..Len(secretWatch')
          PROVE  /\ i + 1 \in 1..Len(secretWatch)
                 /\ secretWatch'[i] = secretWatch[i + 1]
      BY <2>1, <2>3
    <2>4. SecretCopies' \subseteq SecretCopies
      BY <2>1, <2>2, <2>3 DEF SecretCopies
    <2> QED
      BY <2>1, <2>4 DEF KeysKept, NoneOpaque
  <1>9. CASE ReconcileStep /\ ~WriteKubeconfig /\ ~WriteCA /\ ~RecreateCA
    BY <1>1, <1>9
       DEF ReconcileStep, Reconcile, AddFinalizer, CreatePlane, LookupPlane,
           PersistPlaneID, GetThePlane, UpdateThePlane, UpdateEndpoint,
           FetchKubeconfig, CheckCA, UpdateStatus, DeleteThePlane,
           RemoveFinalizer
  <1>10. CASE CallFails \/ LateCreate \/ Deliver \/ TimerFires \/ Resync
              \/ UNCHANGED vars
    BY <1>1, <1>10
       DEF CallFails, LateCreate, Deliver, TimerFires, Resync, managerIdleVars,
           vars
  <1>11. CASE Outside
    BY <1>1, <1>11
       DEF Outside, SetOwner, Touch, EditSpec, DeleteNCP, ForegroundDone,
           CreateNCP, EditInputs, Edit, Provision, Vanish, LeftAlone
  <1> QED
    BY <1>2, <1>5, <1>6, <1>7, <1>8, <1>9, <1>10, <1>11
       DEF Next, Failure, Manager

(***************************************************************************)
(* The steps of Reconcile from GetPlane to the status write.               *)
(***************************************************************************)

\* What a reconcile has published stays so while it waits, and matters no
\* longer once it has ended or not yet got to publishing.
LEMMA PublishedElsewhere ==
    ASSUME Surfaced /\ Delivered /\ Keyed,
           \/ pc' \notin Publishing
           \/ UNCHANGED <<pc, obj, plane, kubeconfig, kubeconfigSecret, caSecret>>
    PROVE  (Surfaced /\ Delivered /\ Keyed)'
  BY DEF Surfaced, Delivered, Keyed, Publishing, Fetched

\* The rest of PublishInv survives every call of a reconcile.
LEMMA PublishReconcile ==
    ASSUME Client = "http", TypeOK, SafetyInv, KeysKept, Surfaced, Delivered,
           Keyed, ReconcileStep
    PROVE  (Surfaced /\ Delivered /\ Keyed)'
  <1> USE DEF secretVars, workVars, Publishing, Fetched
  <1>0. Surfaced /\ Delivered /\ Keyed
    OBVIOUS
  <1>1. CASE Return(TRUE) \/ Return(FALSE)
    BY <1>0, <1>1, PublishedElsewhere DEF Return
  <1>2. CASE Reconcile \/ AddFinalizer \/ CreatePlane \/ LookupPlane
             \/ PersistPlaneID \/ UpdateThePlane \/ UpdateStatus
             \/ DeleteThePlane \/ RemoveFinalizer
    <2>1. pc' \notin Publishing
      BY <1>2
         DEF Reconcile, AddFinalizer, CreatePlane, LookupPlane, PersistPlaneID,
             UpdateThePlane, UpdateStatus, DeleteThePlane, RemoveFinalizer,
             Return, Goto, FirstCall
    <2> QED
      BY <1>0, <2>1, PublishedElsewhere
  <1>3. CASE GetThePlane /\ ~Return(TRUE)
    <2>1. PICK p \in GetPlane(tenants, pid) :
            /\ p.status = "ready" /\ plane' = p /\ pc' = CallAfterGet(p)
            /\ UNCHANGED obj
      BY <1>3 DEF GetThePlane, Goto
    <2>2. p.host.kind = "hostname"
      <3>1. PICK t \in tenants : p = tenantToPlane(t)
        BY DEF GetPlane
      <3> QED
        BY <2>1, <3>1 DEF tenantToPlane
    <2>3. /\ CallAfterGet(p) \notin Fetched
          /\ CallAfterGet(p) = "fetchKubeconfig" => obj.endpoint = p.host
      BY DEF CallAfterGet
    <2> QED
      BY <2>1, <2>2, <2>3 DEF Surfaced, Delivered, Keyed
  <1>4. CASE UpdateEndpoint /\ ~Return(TRUE)
    <2>1. /\ pc = "updateEndpoint" /\ pc' = "fetchKubeconfig"
          /\ Store([obj EXCEPT !.endpoint = plane.host]) /\ UNCHANGED cache
          /\ obj' = ncp' /\ UNCHANGED plane
      BY <1>4 DEF UpdateEndpoint, Goto, queueVars
    <2> DEFINE o == [obj EXCEPT !.endpoint = plane.host]
    <2>2. o \in NCP /\ o.endpoint = plane.host
      <3>1. obj \in NCP /\ plane.host \in Hosts
        BY DEF TypeOK, Plane
      <3> QED
        BY <3>1 DEF NCP
    <2>3. Store(o)
      BY <2>1
    <2> HIDE DEF o
    <2>4. ncp'.endpoint = plane.host
      BY <2>1, <2>2, <2>3, StoreEffect
    <2> QED
      BY <1>0, <2>1, <2>4 DEF Surfaced, Delivered, Keyed
  <1>5. CASE FetchKubeconfig /\ ~Return(TRUE)
    <2>1. pc = "fetchKubeconfig" /\ pc' = "writeKubeconfig"
          /\ UNCHANGED <<obj, plane>>
      BY <1>5 DEF FetchKubeconfig, Goto
    <2>2. PICK good \in BOOLEAN : GetKubeconfig(good)
      BY <1>5 DEF FetchKubeconfig
    <2>3. KubeconfigOf(obj.status.planeID) = obj.status.planeID
      BY DEF KubeconfigOf
    <2>4. kubeconfig'.plane = obj.status.planeID
      BY <2>2, <2>3 DEF GetKubeconfig
    <2> QED
      BY <1>0, <2>1, <2>4 DEF Surfaced, Delivered, Keyed
  <1>6. CASE WriteKubeconfig /\ ~Return(TRUE)
    <2>1. /\ pc = "writeKubeconfig" /\ pc' = "checkCA" /\ UNCHANGED <<obj, plane>>
          /\ kubeconfigSecret' = [exists |-> TRUE, value |-> kubeconfig]
      BY <1>6 DEF WriteKubeconfig, StoreSecrets, Goto
    <2> QED
      BY <1>0, <2>1 DEF Surfaced, Delivered, Keyed
  <1>7. CASE CheckCA /\ ~Return(TRUE)
    <2>1. /\ pc = "checkCA" /\ pc' \in {"updateStatus", "writeCA"}
          /\ UNCHANGED <<obj, plane, kubeconfigSecret, caSecret>>
          /\ pc' = "updateStatus" => secretCache.ca.key
      BY <1>7 DEF CheckCA, Goto
    <2>2. secretCache \in SecretCopies
      BY DEF SecretCopies
    <2> QED
      BY <1>0, <2>1, <2>2 DEF Surfaced, Delivered, Keyed, KeysKept
  <1>8. CASE (WriteCA \/ RecreateCA) /\ ~Return(TRUE)
    <2>1. /\ pc \in {"writeCA", "recreateCA"}
          /\ pc' \in {"updateStatus", "recreateCA"}
          /\ UNCHANGED <<obj, plane, kubeconfigSecret>>
          /\ pc' = "updateStatus" => caSecret' = OurCASecret
      BY <1>8 DEF WriteCA, RecreateCA, StoreSecrets, Goto
    <2>2. OurCASecret.key
      BY DEF OurCASecret
    <2> QED
      BY <1>0, <2>1, <2>2 DEF Surfaced, Delivered, Keyed
  <1> QED
    BY <1>1, <1>2, <1>3, <1>4, <1>5, <1>6, <1>7, <1>8 DEF ReconcileStep

\* PublishInv holds initially.
LEMMA PublishInit == Init => PublishInv
  <1> SUFFICES ASSUME Init PROVE PublishInv
    OBVIOUS
  <1>1. pc = "idle" /\ secretCache = StoredSecrets /\ secretWatch = <<>>
        /\ caSecret \in InitialCASecrets
    BY DEF Init, StoredSecrets
  <1>2. SecretCopies = {StoredSecrets} /\ StoredSecrets.ca = caSecret
    BY <1>1 DEF SecretCopies, StoredSecrets
  <1> QED
    BY <1>1, <1>2
       DEF PublishInv, Surfaced, Delivered, Keyed, KeysKept, NoneOpaque,
           Publishing, Fetched

\* PublishInv is inductive, given the type invariant and SafetyInv.
LEMMA PublishNext ==
    ASSUME Client = "http", LeftAlone, TypeOK, SafetyInv, PublishInv, [Next]_vars
    PROVE  PublishInv'
  <1>0. Surfaced /\ Delivered /\ Keyed /\ KeysKept
    BY DEF PublishInv
  <1>1. KeysKept'
    BY <1>0, KeysKeptStep
  <1>2. CASE ReconcileStep
    BY <1>0, <1>1, <1>2, PublishReconcile DEF PublishInv
  <1>3. CASE CallFails \/ Restart
    <2>1. pc' \notin Publishing
      BY <1>3 DEF CallFails, Restart, Return, Publishing
    <2> QED
      BY <1>0, <1>1, <2>1, PublishedElsewhere DEF PublishInv
  <1>4. CASE LateCreate \/ Manager \/ Outside \/ UNCHANGED vars
    <2>1. UNCHANGED <<pc, obj, plane, kubeconfig, kubeconfigSecret, caSecret>>
      BY <1>4
         DEF LateCreate, Manager, Deliver, DeliverSecrets, TimerFires, Resync,
             managerIdleVars, Outside, SetOwner, Touch, EditSpec, DeleteNCP,
             ForegroundDone, CreateNCP, EditInputs, Edit, Provision, Vanish,
             LeftAlone, secretVars, workVars, controllerVars, vars
    <2> QED
      BY <1>0, <1>1, <2>1, PublishedElsewhere DEF PublishInv
  <1> QED
    BY <1>2, <1>3, <1>4 DEF Next, Failure

\* With noplane.Client, what Reconcile has published so far it can rely on.
THEOREM PublishInvariant ==
    ASSUME Client = "http", LeftAlone
    PROVE  Spec => []PublishInv
  <1>1. ASSUME TypeOK, SafetyInv, PublishInv, [Next]_vars
        PROVE  PublishInv'
    BY <1>1, PublishNext
  <1> QED
    BY <1>1, PublishInit, TypeCorrect, SafetyInvariant, PTL DEF Spec

\* initialized, the signal on which CAPI core lets workers join, turns true
\* only when the endpoint is a hostname, the CA secret has its key and the
\* stored kubeconfig is the one of the plane on record; with noplane.Client,
\* for resources whose spec names no plane.
THEOREM PublishedFirst ==
    ASSUME Client = "http", LeftAlone, SpecIDs \subseteq {NoID}
    PROVE  Spec => InitializedImpliesPublished
  <1>1. ASSUME TypeOK, SafetyInv, GuardInv, RecordInv, PublishInv, [Next]_vars
        PROVE  [~ncp.status.initialized /\ ncp'.status.initialized =>
                  /\ ncp.endpoint.kind = "hostname"
                  /\ caSecret.key
                  /\ kubeconfigSecret.exists
                  /\ kubeconfigSecret.value.plane = ncp'.status.planeID]_vars
    <2>1. SUFFICES ASSUME ~ncp.status.initialized, ncp'.status.initialized
                   PROVE  /\ ncp.endpoint.kind = "hostname"
                          /\ caSecret.key
                          /\ kubeconfigSecret.exists
                          /\ kubeconfigSecret.value.plane = ncp'.status.planeID
      OBVIOUS
    <2>2. Publishes
      <3>1. ReconcileEffect \/ OtherEffect
        BY <1>1, StepEffects
      <3>2. ncp.status \in Status /\ NoObject.status.initialized = FALSE
            /\ NoStatus.initialized = FALSE
        BY <1>1 DEF TypeOK, NCP, NoObject, NoStatus
      <3>3. ~Persists
        BY <2>1, <3>2 DEF Persists, Status
      <3> QED
        BY <2>1, <3>1, <3>2, <3>3
           DEF ReconcileEffect, OtherEffect, GivesUp, Starts, GoesOn, Creates,
               LooksUp, Deletes, AddsFinalizer, SetsEndpoint, Releases,
               Restarts, LateAnswer, Delivers, Unnoticed, Edits, AsksDeletion,
               GoesAway, Applies, PlanesChange, Still, SameLife, Removal, Remove
    <2>3. pc = "updateStatus" /\ obj = ncp /\ ncp'.status.planeID = pid
      BY <2>2 DEF Publishes
    <2>4. pid = obj.status.planeID
      <3>1. pid # 0 /\ pid \in {obj.status.planeID, obj.planeID}
        BY <1>1, <2>3 DEF SafetyInv, Provenance, Publishing
      <3>2. obj.planeID = 0
        BY <1>1 DEF RecordInv, Agreed, History, Copies
      <3> QED
        BY <3>1, <3>2
    <2> QED
      BY <1>1, <2>3, <2>4
         DEF PublishInv, Surfaced, Delivered, Keyed, Publishing, Fetched
  <1> QED
    BY <1>1, TypeCorrect, SafetyInvariant, GuardInvariant, RecordInvariant,
       PublishInvariant, PTL DEF Spec, InitializedImpliesPublished
===============================================================================
