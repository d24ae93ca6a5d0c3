---------------------------- MODULE Record_proofs ----------------------------
(***************************************************************************)
(* Proofs about module ControlPlane, continued: a plane is created only    *)
(* under the finalizer, and with noplane.Client never beside the plane on  *)
(* record, although every decision is taken on a copy of the resource that *)
(* may be arbitrarily old.                                                 *)
(*                                                                         *)
(* Both invariants, GuardInv and RecordInv, speak of few variables.  The   *)
(* effects below say what each step does to those and nothing else; lemma  *)
(* StepEffects shows once that every step has one of them, and the proofs  *)
(* go through the effects instead of the actions.                          *)
(***************************************************************************)
EXTENDS ControlPlane_proofs, SequenceTheorems

USE DEF NoID

(***************************************************************************)
(* Effects on the stored resource.                                         *)
(***************************************************************************)

\* The resource and the informer's view of it stay as they are.
Still == UNCHANGED <<ncp, rv, watch, cache>>

\* The stored resource is replaced, or written with no change.
Written ==
    /\ \/ UNCHANGED <<ncp, rv, watch>>
       \/ rv' = rv + 1 /\ ncp'.rv = rv' /\ watch' = Append(watch, ncp')
    /\ UNCHANGED cache

\* Everything the life of a plane depends on is written back as it was.
SameLife ==
    /\ ncp'.finalizer = ncp.finalizer
    /\ ncp'.deletionTimestamp = ncp.deletionTimestamp
    /\ ncp'.status = ncp.status

SameHold == ncp'.held = ncp.held /\ ncp'.planeID = ncp.planeID

Removal == Remove /\ UNCHANGED cache

(***************************************************************************)
(* Effects on the reconcile in flight and on the service.                  *)
(***************************************************************************)
Ended == pc' = "idle" /\ obj' = NoObject /\ pid' = NoID
Waits == UNCHANGED <<pc, obj, pid>>
Serves == UNCHANGED <<tenants, issued, late>>

Abandoned ==
    \/ UNCHANGED late
    \/ pc = "createPlane" /\ late = Empty /\ late' = obj.version

(***************************************************************************)
(* What a step of a reconcile may do.                                      *)
(***************************************************************************)
GivesUp ==
    /\ Still /\ Ended /\ Abandoned /\ UNCHANGED issued
    /\ Client = "http" => UNCHANGED tenants

Starts ==
    /\ Still /\ Serves
    /\ pc' = FirstCall(cache) /\ obj' = cache /\ pid' = KnownPlaneID(cache)

GoesOn ==
    /\ Still /\ Serves /\ UNCHANGED <<obj, pid>>
    /\ pc \in Publishing \cup {"getPlane"} /\ pc' \in Publishing
    /\ pc = "getPlane" => HasID(tenants, pid)
    /\ pc' \in Fetched =>
          pc \in Fetched \/ GetKubeconfigErr(tenants, obj.status.planeID) = "nil"

Creates ==
    /\ Still /\ UNCHANGED <<obj, late>>
    /\ pc = "createPlane" /\ pc' = "persistPlaneID"
    /\ ~HasName(tenants, Name)
    /\ pid' = NewID(issued) /\ issued' = issued + 1
    /\ tenants' = Created(tenants, Name, obj.version, issued)

LooksUp ==
    /\ Still /\ Serves /\ UNCHANGED obj
    /\ \/ Client = "fake" /\ pc = "createPlane" /\ pc' = "lookupPlane"
       \/ pc = "lookupPlane" /\ pc' = "persistPlaneID"

Deletes ==
    /\ Still /\ UNCHANGED <<issued, late>>
    /\ pc = "deletePlane"
    /\ tenants' = Deleted(tenants, obj.status.planeID)
    /\ Ended \/ (pc' = "removeFinalizer" /\ UNCHANGED <<obj, pid>>)

AddsFinalizer ==
    /\ Written /\ Serves /\ Ended
    /\ pc = "addFinalizer" /\ Fresh /\ obj = ncp /\ ~ncp.deletionTimestamp
    /\ ncp'.finalizer = TRUE
    /\ ncp'.deletionTimestamp = ncp.deletionTimestamp
    /\ ncp'.status = ncp.status
    /\ SameHold

Persists ==
    /\ Written /\ Serves /\ UNCHANGED pid
    /\ pc = "persistPlaneID" /\ pc' = "getPlane" /\ Fresh /\ obj = ncp
    /\ obj' = ncp'
    /\ ncp'.finalizer = ncp.finalizer
    /\ ncp'.deletionTimestamp = ncp.deletionTimestamp
    /\ ncp'.status = [ncp.status EXCEPT !.planeID = pid]
    /\ SameHold

SetsEndpoint ==
    /\ Written /\ Serves /\ UNCHANGED pid
    /\ pc = "updateEndpoint" /\ pc' = "fetchKubeconfig" /\ Fresh /\ obj = ncp
    /\ obj' = ncp'
    /\ SameLife /\ SameHold

Publishes ==
    /\ Written /\ Serves /\ Ended
    /\ pc = "updateStatus" /\ Fresh /\ obj = ncp
    /\ ncp'.finalizer = ncp.finalizer
    /\ ncp'.deletionTimestamp = ncp.deletionTimestamp
    /\ ncp'.status.planeID = pid /\ ncp'.status.initialized = TRUE
    /\ SameHold

Releases ==
    /\ Serves /\ Ended
    /\ pc = "removeFinalizer" /\ Fresh /\ obj = ncp
    /\ \/ Removal
       \/ /\ Written
          /\ ncp'.finalizer = FALSE
          /\ ncp'.deletionTimestamp = ncp.deletionTimestamp
          /\ ncp'.status = ncp.status
          /\ SameHold

ReconcileEffect ==
    \/ GivesUp \/ Starts \/ GoesOn \/ Creates \/ LooksUp \/ Deletes
    \/ AddsFinalizer \/ Persists \/ SetsEndpoint \/ Publishes \/ Releases

(***************************************************************************)
(* What a failure, the manager or the outside may do.                      *)
(***************************************************************************)
Restarts ==
    /\ UNCHANGED <<ncp, rv, tenants, issued>>
    /\ cache' = ncp /\ watch' = <<>>
    /\ Ended /\ Abandoned

LateAnswer ==
    /\ Still /\ Waits
    /\ late # Empty /\ late' = Empty
    /\ \/ UNCHANGED <<tenants, issued>>
       \/ /\ tenants' = Created(tenants, Name, late, issued)
          /\ issued' = issued + 1

Delivers ==
    /\ UNCHANGED <<ncp, rv>> /\ Waits /\ Serves
    /\ watch # <<>> /\ cache' = Head(watch) /\ watch' = Tail(watch)

Unnoticed == Still /\ Waits /\ Serves

Edits ==
    /\ Written /\ Waits /\ Serves
    /\ Exists(ncp)
    /\ SameLife
    /\ ncp'.held => ncp.held
    /\ ncp'.planeID \in SpecIDs \cup {ncp.planeID}

AsksDeletion ==
    /\ Written /\ Waits /\ Serves
    /\ Exists(ncp) /\ ~ncp.deletionTimestamp
    /\ ncp'.finalizer = ncp.finalizer
    /\ ncp'.deletionTimestamp = TRUE
    /\ ncp'.status = ncp.status
    /\ ncp'.planeID = ncp.planeID

GoesAway ==
    /\ Removal /\ Waits /\ Serves
    /\ Exists(ncp) /\ ~ncp.finalizer
    /\ ncp.held \/ ~ncp.deletionTimestamp

Applies ==
    /\ Written /\ Waits /\ Serves
    /\ ~Exists(ncp) /\ Exists(ncp')
    /\ ncp'.finalizer = FALSE /\ ncp'.deletionTimestamp = FALSE
    /\ ncp'.held = FALSE /\ ncp'.status = NoStatus
    /\ ncp'.planeID \in SpecIDs

\* A hostname appears, or a plane disappears by itself.
PlanesChange ==
    /\ Still /\ Waits /\ UNCHANGED <<issued, late>>
    /\ \A t \in tenants' : \E u \in tenants : u.id = t.id /\ u.name = t.name
    /\ \/ \A u \in tenants : \E t \in tenants' : u.id = t.id /\ u.name = t.name
       \/ "vanish" \in Env /\ \E u \in tenants : tenants' = tenants \ {u}

OtherEffect ==
    \/ Restarts \/ LateAnswer \/ Delivers \/ Unnoticed \/ Edits
    \/ AsksDeletion \/ GoesAway \/ Applies \/ PlanesChange

-------------------------------------------------------------------------------
\* A write stores the fields it was given.
LEMMA StoreEffect ==
    ASSUME TypeOK, NEW o \in NCP, Store(o), UNCHANGED cache
    PROVE  /\ Written
           /\ ncp'.finalizer = o.finalizer
           /\ ncp'.held = o.held
           /\ ncp'.deletionTimestamp = o.deletionTimestamp
           /\ ncp'.planeID = o.planeID
           /\ ncp'.endpoint = o.endpoint
           /\ ncp'.status = o.status
  <1>1. CASE o = ncp
    BY <1>1 DEF Store, k8sVars, Written
  <1>2. CASE o # ncp
    <2>1. rv' = rv + 1 /\ ncp' = [o EXCEPT !.rv = rv + 1]
          /\ watch' = Append(watch, ncp')
      BY <1>2 DEF Store
    <2> QED
      BY <2>1 DEF NCP, Written
  <1> QED
    BY <1>1, <1>2

\* Every call of a reconcile has one of the effects.
LEMMA ReconcileEffects ==
    ASSUME TypeOK, SafetyInv, ReconcileStep
    PROVE  ReconcileEffect
  <1> USE DEF k8sVars, serviceVars, queueVars, workVars, ReconcileEffect, Still,
              Serves, Ended, Return, Goto, Abandoned
  <1>1. Snapshots /\ obj \in NCP /\ pid \in Nat
    BY DEF SafetyInv, TypeOK
  <1>2. Fresh => obj = ncp /\ Exists(ncp)
    BY <1>1, FreshIsStored
  <1>3. CASE Reconcile
    BY <1>3 DEF Reconcile, GivesUp, Starts
  <1>4. CASE AddFinalizer
    <2>1. CASE Fresh /\ ~obj.deletionTimestamp /\ Return(FALSE)
               /\ Store([obj EXCEPT !.finalizer = TRUE])
      <3> DEFINE o == [obj EXCEPT !.finalizer = TRUE]
      <3>1. /\ o \in NCP /\ o.finalizer = TRUE /\ o.held = obj.held
            /\ o.deletionTimestamp = obj.deletionTimestamp
            /\ o.status = obj.status /\ o.planeID = obj.planeID
        BY <1>1 DEF NCP
      <3>2. Store(o) /\ UNCHANGED cache
        BY <1>4, <2>1 DEF AddFinalizer
      <3> HIDE DEF o
      <3> QED
        BY <1>2, <1>4, <2>1, <3>1, <3>2, StoreEffect
           DEF AddFinalizer, AddsFinalizer, SameHold
    <2>2. CASE UNCHANGED k8sVars /\ Return(TRUE)
      BY <1>4, <2>2 DEF AddFinalizer, GivesUp
    <2> QED
      BY <1>4, <2>1, <2>2 DEF AddFinalizer
  <1>5. CASE CreatePlane
    <2>1. CASE CreatePlaneErr(tenants, Name, issued) = "nil"
      <3>1. ~HasName(tenants, Name)
        BY <2>1, ClientAssumption DEF CreatePlaneErr
      <3>2. ~IsConflict("nil")
        BY DEF IsConflict
      <3> QED
        BY <1>5, <2>1, <3>1, <3>2 DEF CreatePlane, Creates
    <2>2. CASE IsConflict(CreatePlaneErr(tenants, Name, issued))
      <3>1. Client = "fake"
        BY <2>2, ClientAssumption DEF CreatePlaneErr, IsConflict
      <3>2. CreatePlaneErr(tenants, Name, issued) # "nil"
        BY <2>2 DEF IsConflict
      <3> QED
        BY <1>5, <2>2, <3>1, <3>2 DEF CreatePlane, LooksUp
    <2>3. CASE ~IsConflict(CreatePlaneErr(tenants, Name, issued))
               /\ CreatePlaneErr(tenants, Name, issued) # "nil"
      BY <1>5, <2>3 DEF CreatePlane, GivesUp
    <2> QED
      BY <2>1, <2>2, <2>3
  <1>6. CASE LookupPlane
    BY <1>6 DEF LookupPlane, LooksUp, GivesUp
  <1>7. CASE PersistPlaneID
    <2>1. CASE Fresh /\ Store([obj EXCEPT !.status.planeID = pid])
               /\ obj' = ncp' /\ Goto("getPlane") /\ UNCHANGED pid
      <3> DEFINE o == [obj EXCEPT !.status.planeID = pid]
      <3>1. /\ o \in NCP /\ o.finalizer = obj.finalizer /\ o.held = obj.held
            /\ o.deletionTimestamp = obj.deletionTimestamp
            /\ o.status = [obj.status EXCEPT !.planeID = pid]
            /\ o.planeID = obj.planeID
        BY <1>1 DEF NCP, Status
      <3>2. Store(o) /\ UNCHANGED cache
        BY <1>7, <2>1 DEF PersistPlaneID
      <3> HIDE DEF o
      <3> QED
        BY <1>2, <1>7, <2>1, <3>1, <3>2, StoreEffect
           DEF PersistPlaneID, Persists, SameHold
    <2>2. CASE Return(TRUE) /\ UNCHANGED k8sVars
      BY <1>7, <2>2 DEF PersistPlaneID, GivesUp
    <2> QED
      BY <1>7, <2>1, <2>2 DEF PersistPlaneID
  <1>8. CASE GetThePlane
    <2>1. CASE Return(TRUE)
      BY <1>8, <2>1 DEF GetThePlane, GivesUp
    <2>2. ASSUME NEW p \in GetPlane(tenants, pid), Goto(CallAfterGet(p)),
                 UNCHANGED <<obj, pid>>
          PROVE  GoesOn
      <3>1. HasID(tenants, pid)
        BY <2>2 DEF GetPlane, HasID
      <3>2. CallAfterGet(p) \in Publishing \ Fetched
        BY DEF CallAfterGet, Publishing, Fetched
      <3> QED
        BY <1>8, <2>2, <3>1, <3>2 DEF GetThePlane, GoesOn
    <2> QED
      BY <1>8, <2>1, <2>2 DEF GetThePlane
  <1>9. CASE UpdateThePlane
    <2>1. Client = "http" => UpdatePlaneErr(tenants, pid) = "error"
      BY DEF UpdatePlaneErr
    <2> QED
      BY <1>9, <2>1 DEF UpdateThePlane, GivesUp
  <1>10. CASE UpdateEndpoint
    <2>1. CASE Fresh /\ Store([obj EXCEPT !.endpoint = plane.host])
               /\ obj' = ncp' /\ Goto("fetchKubeconfig") /\ UNCHANGED pid
      <3> DEFINE o == [obj EXCEPT !.endpoint = plane.host]
      <3>0. plane.host \in Hosts
        BY DEF TypeOK, Plane
      <3>1. /\ o \in NCP /\ o.finalizer = obj.finalizer /\ o.held = obj.held
            /\ o.deletionTimestamp = obj.deletionTimestamp
            /\ o.status = obj.status /\ o.planeID = obj.planeID
        BY <1>1, <3>0 DEF NCP
      <3>2. Store(o) /\ UNCHANGED cache
        BY <1>10, <2>1 DEF UpdateEndpoint
      <3> HIDE DEF o
      <3> QED
        BY <1>2, <1>10, <2>1, <3>1, <3>2, StoreEffect
           DEF UpdateEndpoint, SetsEndpoint, SameHold, SameLife
    <2>2. CASE Return(TRUE) /\ UNCHANGED k8sVars
      BY <1>10, <2>2 DEF UpdateEndpoint, GivesUp
    <2> QED
      BY <1>10, <2>1, <2>2 DEF UpdateEndpoint
  <1>11. CASE FetchKubeconfig \/ WriteKubeconfig \/ CheckCA \/ WriteCA
              \/ RecreateCA
    <2>1. CASE Return(TRUE)
      BY <1>11, <2>1
         DEF FetchKubeconfig, WriteKubeconfig, CheckCA, WriteCA, RecreateCA,
             GivesUp
    <2>2. CASE FetchKubeconfig /\ ~Return(TRUE)
      <3>1. GetKubeconfigErr(tenants, obj.status.planeID) = "nil"
        BY <2>2 DEF FetchKubeconfig, GetKubeconfig
      <3> QED
        BY <2>2, <3>1 DEF FetchKubeconfig, GoesOn, Publishing, Fetched
    <2>3. CASE (WriteKubeconfig \/ CheckCA \/ WriteCA \/ RecreateCA)
               /\ ~Return(TRUE)
      <3>1. Still /\ Serves /\ UNCHANGED <<obj, pid>>
            /\ pc \in Fetched /\ pc' \in Fetched
        BY <2>3 DEF WriteKubeconfig, CheckCA, WriteCA, RecreateCA, Fetched
      <3> QED
        BY <3>1 DEF GoesOn, Fetched, Publishing
    <2> QED
      BY <1>11, <2>1, <2>2, <2>3
  <1>12. CASE UpdateStatus
    <2> DEFINE st == [planeID |-> pid, ready |-> TRUE, initialized |-> TRUE,
                      version |-> plane.version]
    <2>1. CASE Fresh /\ Store([obj EXCEPT !.status = st])
      <3> DEFINE o == [obj EXCEPT !.status = st]
      <3>0. st \in Status /\ st.planeID = pid /\ st.initialized = TRUE
        BY DEF TypeOK, Status, Plane
      <3> HIDE DEF st
      <3>1. /\ o \in NCP /\ o.finalizer = obj.finalizer /\ o.held = obj.held
            /\ o.deletionTimestamp = obj.deletionTimestamp
            /\ o.status = st /\ o.planeID = obj.planeID
        BY <1>1, <3>0 DEF NCP
      <3>2. Store(o) /\ UNCHANGED cache
        BY <1>12, <2>1 DEF UpdateStatus
      <3> HIDE DEF o
      <3> QED
        BY <1>2, <1>12, <2>1, <3>0, <3>1, <3>2, StoreEffect
           DEF UpdateStatus, Publishes, SameHold
    <2>2. CASE UNCHANGED k8sVars
      BY <1>12, <2>2 DEF UpdateStatus, GivesUp
    <2> QED
      BY <1>12, <2>1, <2>2 DEF UpdateStatus
  <1>13. CASE DeleteThePlane
    BY <1>13 DEF DeleteThePlane, Deletes
  <1>14. CASE RemoveFinalizer
    <2>1. CASE Fresh /\ Remove /\ Return(FALSE)
      BY <1>2, <1>14, <2>1 DEF RemoveFinalizer, Releases, Removal
    <2>2. CASE Fresh /\ Store([obj EXCEPT !.finalizer = FALSE])
               /\ Return(FALSE)
      <3> DEFINE o == [obj EXCEPT !.finalizer = FALSE]
      <3>1. /\ o \in NCP /\ o.finalizer = FALSE /\ o.held = obj.held
            /\ o.deletionTimestamp = obj.deletionTimestamp
            /\ o.status = obj.status /\ o.planeID = obj.planeID
        BY <1>1 DEF NCP
      <3>2. Store(o) /\ UNCHANGED cache
        BY <1>14, <2>2 DEF RemoveFinalizer
      <3> HIDE DEF o
      <3> QED
        BY <1>2, <1>14, <2>2, <3>1, <3>2, StoreEffect
           DEF RemoveFinalizer, Releases, SameHold
    <2>3. CASE UNCHANGED k8sVars /\ Return(TRUE)
      BY <1>14, <2>3 DEF RemoveFinalizer, GivesUp
    <2> QED
      BY <1>14, <2>1, <2>2, <2>3 DEF RemoveFinalizer
  <1> QED
    BY <1>3, <1>4, <1>5, <1>6, <1>7, <1>8, <1>9, <1>10, <1>11, <1>12, <1>13,
       <1>14 DEF ReconcileStep

\* So has every failure and every step of the manager.
LEMMA ManagerEffects ==
    ASSUME Failure \/ Manager \/ UNCHANGED vars
    PROVE  GivesUp \/ OtherEffect
  <1> USE DEF k8sVars, secretVars, serviceVars, queueVars, workVars, boundVars,
              managerIdleVars, OtherEffect, Still, Waits, Serves, Ended
  <1>1. AbandonRequest => Abandoned
    BY DEF AbandonRequest, Abandoned
  <1>2. CASE CallFails
    BY <1>1, <1>2 DEF CallFails, Return, GivesUp
  <1>3. CASE Restart
    BY <1>1, <1>3 DEF Restart, Restarts
  <1>4. CASE LateCreate
    BY <1>4 DEF LateCreate, LateAnswer
  <1>5. CASE Deliver
    BY <1>5 DEF Deliver, Delivers
  <1>6. CASE DeliverSecrets \/ TimerFires \/ Resync \/ UNCHANGED vars
    BY <1>6 DEF DeliverSecrets, TimerFires, Resync, vars, Unnoticed
  <1> QED
    BY <1>2, <1>3, <1>4, <1>5, <1>6 DEF Failure, Manager

\* And every step of users, Cluster API and the service.
LEMMA OutsideEffects ==
    ASSUME TypeOK, SafetyInv, Outside
    PROVE  OtherEffect
  <1> USE DEF k8sVars, workVars, controllerVars, OtherEffect, Still, Waits, Serves
  <1>1. ncp \in NCP /\ rv \in Nat /\ (~Exists(ncp) => ncp = NoObject)
    BY DEF TypeOK, SafetyInv, Snapshots
  <1>2. ASSUME NEW o \in NCP, Store(o), Exists(ncp), Waits, Serves,
               UNCHANGED cache,
               o.finalizer = ncp.finalizer, o.status = ncp.status,
               o.deletionTimestamp = ncp.deletionTimestamp,
               o.held => ncp.held,
               o.planeID \in SpecIDs \cup {ncp.planeID}
        PROVE  Edits
    BY <1>2, StoreEffect DEF Edits, SameLife
  <1>3. CASE SetOwner
    <2> DEFINE o == [ncp EXCEPT !.owned = TRUE]
    <2>1. /\ o \in NCP /\ o.status = ncp.status /\ o.finalizer = ncp.finalizer
          /\ o.deletionTimestamp = ncp.deletionTimestamp /\ o.held = ncp.held
          /\ o.planeID = ncp.planeID
      BY <1>1 DEF NCP
    <2>2. Store(o) /\ Exists(ncp) /\ Waits /\ Serves /\ UNCHANGED cache
      BY <1>3 DEF SetOwner
    <2> HIDE DEF o
    <2>3. Edits
      BY <1>2, <2>1, <2>2
    <2> QED
      BY <2>3
  <1>4. CASE Touch
    <2>1. ncp' = [ncp EXCEPT !.rv = rv + 1] /\ rv' = rv + 1
          /\ watch' = Append(watch, ncp') /\ UNCHANGED cache
          /\ Exists(ncp) /\ Waits /\ Serves
      BY <1>4 DEF Touch
    <2>2. ncp'.rv = rv' /\ SameLife /\ SameHold
      BY <1>1, <2>1 DEF NCP, SameLife, SameHold
    <2>3. Edits
      BY <2>1, <2>2 DEF Edits, Written, SameHold
    <2> QED
      BY <2>3
  <1>5. CASE EditSpec
    <2>0. Exists(ncp) /\ Waits /\ Serves /\ UNCHANGED cache
      BY <1>5 DEF EditSpec
    <2>1. ASSUME NEW v \in Versions, Store([ncp EXCEPT !.version = v])
          PROVE  Edits
      <3> DEFINE o == [ncp EXCEPT !.version = v]
      <3>1. /\ o \in NCP /\ o.status = ncp.status /\ o.finalizer = ncp.finalizer
            /\ o.deletionTimestamp = ncp.deletionTimestamp /\ o.held = ncp.held
            /\ o.planeID = ncp.planeID
        BY <1>1 DEF NCP
      <3>2. Store(o)
        BY <2>1
      <3> HIDE DEF o
      <3> QED
        BY <1>2, <2>0, <3>1, <3>2
    <2>2. ASSUME NEW id \in SpecIDs, Store([ncp EXCEPT !.planeID = id])
          PROVE  Edits
      <3> DEFINE o == [ncp EXCEPT !.planeID = id]
      <3>0. id \in Nat
        BY SpecIDsAssumption
      <3>1. /\ o \in NCP /\ o.status = ncp.status /\ o.finalizer = ncp.finalizer
            /\ o.deletionTimestamp = ncp.deletionTimestamp /\ o.held = ncp.held
            /\ o.planeID = id
        BY <1>1, <3>0 DEF NCP
      <3>2. Store(o)
        BY <2>2
      <3> HIDE DEF o
      <3> QED
        BY <1>2, <2>0, <3>1, <3>2
    <2>3. CASE Store([ncp EXCEPT !.paused = ~ncp.paused])
      <3> DEFINE o == [ncp EXCEPT !.paused = ~ncp.paused]
      <3>0. (~ncp.paused) \in BOOLEAN
        OBVIOUS
      <3>1. o \in NCP
        BY <1>1, <3>0, EditedType
      <3>2. /\ o.status = ncp.status /\ o.finalizer = ncp.finalizer
            /\ o.deletionTimestamp = ncp.deletionTimestamp /\ o.held = ncp.held
            /\ o.planeID = ncp.planeID
        BY <1>1 DEF NCP
      <3>3. Store(o)
        BY <2>3
      <3> HIDE DEF o
      <3>4. Edits
        BY <1>2, <2>0, <3>1, <3>2, <3>3
      <3> QED
        BY <3>4
    <2> QED
      BY <1>5, <2>1, <2>2, <2>3 DEF EditSpec
  <1>6. CASE DeleteNCP
    <2>0. Exists(ncp) /\ ~ncp.deletionTimestamp /\ Waits /\ Serves
          /\ UNCHANGED cache
      BY <1>6 DEF DeleteNCP
    <2>1. ASSUME NEW o \in NCP, Store(o), o.finalizer = ncp.finalizer,
                 o.status = ncp.status, o.deletionTimestamp = TRUE,
                 o.planeID = ncp.planeID
          PROVE  AsksDeletion
      BY <2>0, <2>1, StoreEffect DEF AsksDeletion
    <2>2. CASE Store([ncp EXCEPT !.deletionTimestamp = TRUE, !.held = TRUE])
      <3> DEFINE o == [ncp EXCEPT !.deletionTimestamp = TRUE, !.held = TRUE]
      <3>1. /\ o \in NCP /\ o.status = ncp.status /\ o.finalizer = ncp.finalizer
            /\ o.deletionTimestamp = TRUE /\ o.planeID = ncp.planeID
        BY <1>1 DEF NCP
      <3>2. Store(o)
        BY <2>2
      <3> HIDE DEF o
      <3> QED
        BY <2>1, <3>1, <3>2
    <2>3. CASE Store([ncp EXCEPT !.deletionTimestamp = TRUE])
      <3> DEFINE o == [ncp EXCEPT !.deletionTimestamp = TRUE]
      <3>1. /\ o \in NCP /\ o.status = ncp.status /\ o.finalizer = ncp.finalizer
            /\ o.deletionTimestamp = TRUE /\ o.planeID = ncp.planeID
        BY <1>1 DEF NCP
      <3>2. Store(o)
        BY <2>3
      <3> HIDE DEF o
      <3> QED
        BY <2>1, <3>1, <3>2
    <2>4. CASE ~ncp.finalizer /\ Remove
      BY <2>0, <2>4 DEF GoesAway, Removal
    <2> QED
      BY <1>6, <2>2, <2>3, <2>4 DEF DeleteNCP
  <1>7. CASE ForegroundDone
    <2>0. Exists(ncp) /\ ncp.held /\ Waits /\ Serves /\ UNCHANGED cache
      BY <1>7 DEF ForegroundDone
    <2>1. CASE Store([ncp EXCEPT !.held = FALSE])
      <3> DEFINE o == [ncp EXCEPT !.held = FALSE]
      <3>1. /\ o \in NCP /\ o.status = ncp.status /\ o.finalizer = ncp.finalizer
            /\ o.deletionTimestamp = ncp.deletionTimestamp /\ o.held = FALSE
            /\ o.planeID = ncp.planeID
        BY <1>1 DEF NCP
      <3>2. Store(o)
        BY <2>1
      <3> HIDE DEF o
      <3>3. Edits
        BY <1>2, <2>0, <3>1, <3>2
      <3> QED
        BY <3>3
    <2>2. CASE ~ncp.finalizer /\ Remove
      BY <2>0, <2>2 DEF GoesAway, Removal
    <2> QED
      BY <1>7, <2>1, <2>2 DEF ForegroundDone
  <1>8. CASE CreateNCP
    <2>0. ~Exists(ncp) /\ Waits /\ Serves /\ UNCHANGED cache
      BY <1>8 DEF CreateNCP
    <2>1. PICK v \in Versions, id \in SpecIDs : Store(Applied(0, v, id))
      BY <1>8 DEF CreateNCP
    <2> DEFINE o == Applied(0, v, id)
    <2>2. /\ o \in NCP /\ o.status = NoStatus /\ o.finalizer = FALSE
          /\ o.deletionTimestamp = FALSE /\ o.held = FALSE
          /\ o.planeID = id /\ o.version = v
      BY AppliedType, SpecIDsAssumption DEF Applied, NoObject
    <2>3. o # ncp
      BY <1>1, <2>0, <2>2, StringsAssumption DEF NoObject
    <2>4. Store(o)
      BY <2>1
    <2> HIDE DEF o
    <2>5. rv' = rv + 1 /\ ncp' = [o EXCEPT !.rv = rv + 1]
      BY <2>3, <2>4 DEF Store
    <2>6. Exists(ncp')
      BY <1>1, <2>2, <2>5 DEF Exists, NCP
    <2>7. Applies
      BY <2>0, <2>2, <2>4, <2>6, StoreEffect DEF Applies
    <2> QED
      BY <2>7
  <1>9. CASE EditInputs
    BY <1>9 DEF EditInputs, Unnoticed
  <1>10. CASE Provision
    <2>0. Still /\ Waits /\ UNCHANGED <<issued, late>>
      BY <1>10 DEF Provision
    <2>1. PICK u \in tenants :
            tenants' = (tenants \ {u}) \cup {[u EXCEPT !.hostname = TRUE]}
      BY <1>10 DEF Provision
    <2>2. u \in Tenant
      BY DEF TypeOK
    <2> DEFINE w == [u EXCEPT !.hostname = TRUE]
    <2>3. w.id = u.id /\ w.name = u.name
      BY <2>2 DEF Tenant
    <2> HIDE DEF w
    <2>4. tenants' = (tenants \ {u}) \cup {w}
      BY <2>1 DEF w
    <2>5. /\ \A t \in tenants' :
               \E x \in tenants : x.id = t.id /\ x.name = t.name
          /\ \A x \in tenants :
               \E t \in tenants' : x.id = t.id /\ x.name = t.name
      BY <2>3, <2>4
    <2>6. PlanesChange
      BY <2>0, <2>5 DEF PlanesChange
    <2> QED
      BY <2>6
  <1>11. CASE Vanish
    BY <1>11 DEF Vanish, Edit, PlanesChange
  <1> QED
    BY <1>3, <1>4, <1>5, <1>6, <1>7, <1>8, <1>9, <1>10, <1>11 DEF Outside

\* Hence a proof about every step is a proof about every effect.
LEMMA StepEffects ==
    ASSUME TypeOK, SafetyInv, [Next]_vars
    PROVE  ReconcileEffect \/ OtherEffect
  BY ReconcileEffects, ManagerEffects, OutsideEffects
     DEF Next, ReconcileEffect

-------------------------------------------------------------------------------
(***************************************************************************)
(* The informer's view.  Seen are the copies it has or will get.           *)
(***************************************************************************)
Seen == Pending \cup {cache}

\* A copy the informer gets to see was seen before or is the stored version.
LEMMA SeenStep ==
    ASSUME TypeOK, TypeOK',
           Still \/ Written \/ Removal \/ Delivers \/ Restarts
    PROVE  /\ Seen' \subseteq Seen \cup {ncp'}
           /\ Written \/ Removal => Pending' \subseteq Pending \cup {ncp'}
           /\ Delivers => cache' \in Pending /\ Pending' \subseteq Pending
  <1>1. watch \in Seq(NCP) /\ watch' \in Seq(NCP)
    BY DEF TypeOK
  <1>2. ASSUME NEW n, watch' = Append(watch, n)
        PROVE  Pending' \subseteq Pending \cup {n}
    <2>1. ASSUME NEW i \in 1..Len(watch')
          PROVE  watch'[i] \in Pending \cup {n}
      <3>1. CASE i = Len(watch) + 1
        BY <1>1, <1>2, <3>1
      <3>2. CASE i # Len(watch) + 1
        <4>1. i \in 1..Len(watch) /\ watch'[i] = watch[i]
          BY <1>1, <1>2, <2>1, <3>2
        <4> QED
          BY <4>1 DEF Pending
      <3> QED
        BY <3>1, <3>2
    <2> QED
      BY <2>1 DEF Pending
  <1>3. UNCHANGED watch => Pending' = Pending
    BY DEF Pending
  <1>4. CASE Still
    BY <1>3, <1>4 DEF Still, Seen, Written, Removal, Delivers, Remove
  <1>5. Written \/ Removal => Pending' \subseteq Pending \cup {ncp'}
    BY <1>2, <1>3 DEF Written, Removal, Remove
  <1>6. Written \/ Removal => UNCHANGED cache
    BY DEF Written, Removal
  <1>7. ASSUME Delivers
        PROVE  cache' \in Pending /\ Pending' \subseteq Pending
    <2>1. watch # <<>> /\ cache' = Head(watch) /\ watch' = Tail(watch)
      BY <1>7 DEF Delivers
    <2>2. cache' = watch[1] /\ 1 \in 1..Len(watch)
      BY <1>1, <2>1
    <2>3. ASSUME NEW i \in 1..Len(watch')
          PROVE  i + 1 \in 1..Len(watch) /\ watch'[i] = watch[i + 1]
      BY <1>1, <2>1, <2>3
    <2> QED
      BY <2>2, <2>3 DEF Pending
  <1>8. CASE Restarts
    <2>1. watch' = <<>> /\ cache' = ncp /\ ncp' = ncp
      BY <1>8 DEF Restarts
    <2>2. Pending' = {}
      BY <2>1 DEF Pending
    <2> QED
      BY <1>5, <1>7, <2>1, <2>2 DEF Seen
  <1> QED
    BY <1>4, <1>5, <1>6, <1>7, <1>8 DEF Seen

\* A write leaves every older copy behind; one that changes nothing leaves
\* the informer as it is.
LEMMA NewestWritten ==
    ASSUME TypeOK, TypeOK', Snapshots, Newest, Written \/ Removal \/ Still,
           pc' \in Unwritten => pc \in Unwritten /\ obj' = obj
    PROVE  Newest'
  <1>1. /\ rv \in Nat /\ ncp \in NCP /\ ncp' \in NCP /\ obj \in NCP
        /\ cache \in NCP /\ watch \in Seq(NCP) /\ watch' \in Seq(NCP)
    BY DEF TypeOK
  <1>nat. \A o \in NCP : o.rv \in Nat
    BY DEF NCP
  <1>2. CASE UNCHANGED <<ncp, rv, watch, cache>>
    BY <1>2 DEF Newest, Fresh, Exists
  <1>3. CASE /\ watch' = Append(watch, ncp') /\ UNCHANGED cache
             /\ rv' = rv + 1 /\ ncp'.rv \in {0, rv'}
    <2>1. ASSUME NEW o \in NCP, o.rv <= rv, o.rv # 0
          PROVE  o.rv # ncp'.rv
      BY <1>1, <1>nat, <1>3, <2>1
    <2>2. cache.rv <= rv /\ obj.rv <= rv
      BY DEF Snapshots, VersionOf
    <2>3. ~(Exists(cache') /\ cache'.rv = ncp'.rv)
      BY <1>1, <1>3, <2>1, <2>2 DEF Exists
    <2>4. ASSUME NEW i \in 1..Len(watch'), Exists(watch'[i]),
                 watch'[i].rv = ncp'.rv
          PROVE  i = Len(watch')
      <3>1. CASE i # Len(watch) + 1
        <4>1. i \in 1..Len(watch) /\ watch'[i] = watch[i] /\ watch[i] \in NCP
          BY <1>1, <1>3, <2>4, <3>1
        <4>2. watch[i].rv <= rv
          BY <4>1 DEF Snapshots, VersionOf
        <4> QED
          BY <2>1, <2>4, <4>1, <4>2 DEF Exists
      <3>2. CASE i = Len(watch) + 1
        BY <1>1, <1>3, <3>2
      <3> QED
        BY <3>1, <3>2
    <2>5. ~(pc' \in Unwritten /\ Fresh')
      <3>1. SUFFICES ASSUME pc' \in Unwritten, Exists(ncp'), obj'.rv = ncp'.rv
                     PROVE  FALSE
        BY DEF Fresh
      <3>2. obj' = obj /\ ncp'.rv # 0
        BY <3>1 DEF Exists
      <3> QED
        BY <1>1, <2>1, <2>2, <3>1, <3>2
    <2> QED
      BY <2>3, <2>4, <2>5 DEF Newest
  <1>4. NoObject.rv = 0
    BY ZeroTypes
  <1> QED
    BY <1>2, <1>3, <1>4 DEF Written, Removal, Remove, Still

\* Newest survives every step.
LEMMA NewestStep ==
    ASSUME TypeOK, TypeOK', Snapshots, GuardInv, ReconcileEffect \/ OtherEffect
    PROVE  Newest'
  <1> USE DEF Unwritten
  <1>0. Newest
    BY DEF GuardInv
  <1>1. CASE GivesUp \/ GoesOn \/ Creates \/ LooksUp \/ Deletes
    <2>1. Still /\ (pc' \in Unwritten => pc \in Unwritten /\ obj' = obj)
      BY <1>1 DEF GivesUp, GoesOn, Creates, LooksUp, Deletes, Ended, Publishing
    <2> QED
      BY <1>0, <2>1, NewestWritten
  <1>2. CASE AddsFinalizer \/ Persists \/ SetsEndpoint \/ Publishes \/ Releases
    <2>1. (Written \/ Removal) /\ pc' \notin Unwritten
      BY <1>2 DEF AddsFinalizer, Persists, SetsEndpoint, Publishes, Releases,
                  Ended
    <2> QED
      BY <1>0, <2>1, NewestWritten
  <1>3. CASE LateAnswer \/ Unnoticed \/ Edits \/ AsksDeletion \/ GoesAway
             \/ Applies \/ PlanesChange
    <2>1. (Written \/ Removal \/ Still) /\ UNCHANGED <<pc, obj>>
      BY <1>3 DEF LateAnswer, Unnoticed, Edits, AsksDeletion, GoesAway, Applies,
                  PlanesChange, Waits
    <2> QED
      BY <1>0, <2>1, NewestWritten
  <1>4. CASE Starts
    <2>1. obj' = cache /\ UNCHANGED <<ncp, rv, watch, cache>>
      BY <1>4 DEF Starts, Still
    <2> QED
      BY <1>0, <2>1 DEF Newest, Fresh, Exists
  <1>5. CASE Restarts
    <2>1. watch' = <<>> /\ pc' = "idle"
      BY <1>5 DEF Restarts, Ended
    <2> QED
      BY <2>1 DEF Newest
  <1>6. CASE Delivers
    <2>1. UNCHANGED <<ncp, pc, obj>> /\ watch # <<>>
          /\ cache' = Head(watch) /\ watch' = Tail(watch)
      BY <1>6 DEF Delivers, Waits
    <2>2. watch \in Seq(NCP)
      BY DEF TypeOK
    <2>3. cache' = watch[1] /\ 1 \in 1..Len(watch) /\ Len(watch') = Len(watch) - 1
          /\ watch' \in Seq(NCP) /\ Len(watch) \in Nat
      BY <2>1, <2>2
    <2>4. ASSUME NEW i \in 1..Len(watch')
          PROVE  i + 1 \in 1..Len(watch) /\ watch'[i] = watch[i + 1]
      BY <2>1, <2>2, <2>4
    <2>5. Exists(cache') /\ cache'.rv = ncp'.rv => watch' = <<>>
      <3>1. SUFFICES ASSUME Exists(cache'), cache'.rv = ncp'.rv
                     PROVE  watch' = <<>>
        OBVIOUS
      <3>2. 1 = Len(watch)
        BY <1>0, <2>1, <2>3, <3>1 DEF Newest
      <3>3. Len(watch') = Len(watch) - 1
        BY <2>3
      <3>4. Len(watch') = 0
        BY <3>2, <3>3
      <3> QED
        BY <2>3, <3>4, EmptySeq
    <2>6. ASSUME NEW i \in 1..Len(watch'), Exists(watch'[i]),
                 watch'[i].rv = ncp'.rv
          PROVE  i = Len(watch')
      <3>1. i + 1 = Len(watch)
        BY <1>0, <2>1, <2>4, <2>6 DEF Newest
      <3> QED
        BY <2>3, <3>1
    <2>7. ~(pc' \in Unwritten /\ Fresh')
      BY <1>0, <2>1 DEF Newest, Fresh, Exists
    <2> QED
      BY <2>5, <2>6, <2>7 DEF Newest
  <1> QED
    BY <1>1, <1>2, <1>3, <1>4, <1>5, <1>6 DEF ReconcileEffect, OtherEffect

\* What the first call of a reconcile says of the copy it was decided on.
LEMMA FirstCallOf ==
    ASSUME NEW o \in NCP
    PROVE  \/ FirstCall(o) = "addFinalizer" /\ ~o.finalizer
           \/ /\ FirstCall(o) \in {"deletePlane", "removeFinalizer"}
              /\ o.finalizer /\ o.deletionTimestamp
           \/ /\ FirstCall(o) \in {"createPlane", "getPlane"}
              /\ o.finalizer /\ ~o.deletionTimestamp
  BY DEF FirstCall, NCP

\* Stage survives every step.
LEMMA StageStep ==
    ASSUME TypeOK, Stage, ReconcileEffect \/ OtherEffect
    PROVE  Stage'
  <1> USE DEF Unfinished, Resolving, Publishing
  <1>1. CASE pc' = "idle" /\ obj' = NoObject
    BY <1>1 DEF Stage
  <1>2. CASE Waits
    BY <1>2 DEF Stage, Waits
  <1>3. CASE Starts
    <2>1. cache \in NCP
      BY DEF TypeOK
    <2> QED
      BY <1>3, <2>1, FirstCallOf DEF Starts, Stage
  <1>4. CASE GoesOn \/ Creates \/ LooksUp
    <2>1. obj' = obj /\ pc \in Unfinished /\ pc' \in Unfinished
      BY <1>4 DEF GoesOn, Creates, LooksUp
    <2> QED
      BY <2>1 DEF Stage
  <1>5. CASE Deletes
    BY <1>1, <1>5 DEF Deletes, Ended, Stage
  <1>6. CASE Persists \/ SetsEndpoint
    <2>1. /\ pc \in Unfinished /\ pc' \in Unfinished /\ obj = ncp /\ obj' = ncp'
          /\ ncp'.finalizer = ncp.finalizer
          /\ ncp'.deletionTimestamp = ncp.deletionTimestamp
      BY <1>6 DEF Persists, SetsEndpoint, SameLife
    <2> QED
      BY <2>1 DEF Stage
  <1>7. CASE \/ GivesUp \/ AddsFinalizer \/ Publishes \/ Releases \/ Restarts
    BY <1>1, <1>7
       DEF GivesUp, AddsFinalizer, Publishes, Releases, Restarts, Ended
  <1>8. CASE \/ LateAnswer \/ Delivers \/ Unnoticed \/ Edits \/ AsksDeletion
             \/ GoesAway \/ Applies \/ PlanesChange
    BY <1>2, <1>8
       DEF LateAnswer, Delivers, Unnoticed, Edits, AsksDeletion, GoesAway,
           Applies, PlanesChange
  <1> QED
    BY <1>3, <1>4, <1>5, <1>6, <1>7, <1>8 DEF ReconcileEffect, OtherEffect

\* The copies after a step are copies from before it, the stored version and
\* the empty copy of a reconcile that has ended.
LEMMA CopiesStep ==
    ASSUME TypeOK, TypeOK', ReconcileEffect \/ OtherEffect
    PROVE  /\ Seen' \subseteq Seen \cup {ncp'}
           /\ obj' \in {obj, cache, ncp', NoObject}
           /\ Copies' \subseteq Copies \cup {ncp', NoObject}
  <1>1. Still \/ Written \/ Removal \/ Delivers \/ Restarts
    BY DEF ReconcileEffect, OtherEffect, GivesUp, Starts, GoesOn, Creates,
           LooksUp, Deletes, AddsFinalizer, Persists, SetsEndpoint, Publishes,
           Releases, LateAnswer, Unnoticed, Edits, AsksDeletion, GoesAway,
           Applies, PlanesChange
  <1>2. obj' \in {obj, cache, ncp', NoObject}
    BY DEF ReconcileEffect, OtherEffect, GivesUp, Starts, GoesOn, Creates,
           LooksUp, Deletes, AddsFinalizer, Persists, SetsEndpoint, Publishes,
           Releases, Restarts, LateAnswer, Delivers, Unnoticed, Edits,
           AsksDeletion, GoesAway, Applies, PlanesChange, Ended, Waits
  <1>3. Seen' \subseteq Seen \cup {ncp'}
    BY <1>1, SeenStep
  <1>4. Copies = Seen \cup {obj} /\ Copies' = Seen' \cup {obj'} /\ cache \in Seen
    BY DEF Copies, Seen
  <1> QED
    BY <1>2, <1>3, <1>4

\* Only a reconcile that holds the one remaining version of the resource, and
\* that one being deleted, takes the finalizer away.
LEMMA GuardedStep ==
    ASSUME TypeOK, TypeOK', Snapshots, GuardInv, ReconcileEffect \/ OtherEffect
    PROVE  Guarded'
  <1>0. NoObject.finalizer = FALSE
    BY ZeroTypes
  <1>1. Copies' \subseteq Copies \cup {ncp', NoObject}
    BY CopiesStep
  <1>2. CASE ncp.finalizer => ncp'.finalizer
    BY <1>0, <1>1, <1>2 DEF GuardInv, Guarded
  <1>3. CASE Releases
    <2>1. cache = obj /\ watch = <<>> /\ obj.deletionTimestamp /\ obj' = NoObject
      BY <1>3 DEF Releases, GuardInv, Newest, Stage, Unwritten, Ended
    <2>2. Pending = {}
      BY <2>1 DEF Pending
    <2>3. (Written \/ Removal) /\ UNCHANGED cache
      BY <1>3 DEF Releases, Written, Removal
    <2>4. Seen' \subseteq {cache, ncp'}
      BY <2>2, <2>3, SeenStep DEF Seen
    <2>5. Copies' = Seen' \cup {obj'}
      BY DEF Copies, Seen
    <2> QED
      BY <1>0, <2>1, <2>4, <2>5 DEF Guarded
  <1>4. ncp.finalizer /\ ~Exists(ncp) => FALSE
    BY <1>0 DEF Snapshots
  <1>5. CASE GivesUp \/ Starts \/ GoesOn \/ Creates \/ LooksUp \/ Deletes
             \/ AddsFinalizer \/ Persists \/ SetsEndpoint \/ Publishes
    <2>1. ncp.finalizer => ncp'.finalizer
      BY <1>5 DEF GivesUp, Starts, GoesOn, Creates, LooksUp, Deletes,
                  AddsFinalizer, Persists, SetsEndpoint, Publishes, Still,
                  SameLife
    <2> QED
      BY <1>2, <2>1
  <1>6. CASE OtherEffect
    <2>1. ncp.finalizer => ncp'.finalizer
      BY <1>4, <1>6
         DEF OtherEffect, Restarts, LateAnswer, Delivers, Unnoticed, Edits,
             AsksDeletion, GoesAway, Applies, PlanesChange, Still, SameLife
    <2> QED
      BY <1>2, <2>1
  <1> QED
    BY <1>3, <1>5, <1>6 DEF ReconcileEffect

\* GuardInv holds initially.
LEMMA GuardInit == Init => GuardInv
  <1> SUFFICES ASSUME Init PROVE GuardInv
    OBVIOUS
  <1>1. PICK v \in Versions, id \in SpecIDs : ncp = Applied(1, v, id)
    BY DEF Init
  <1>2. ncp.finalizer = FALSE
    BY <1>1, AppliedType, SpecIDsAssumption
  <1>3. watch = <<ncp>> /\ cache = NoObject /\ obj = NoObject /\ pc = "idle"
    BY DEF Init
  <1>4. Stage
    BY <1>3 DEF Stage, Unfinished, Resolving, Publishing
  <1>5. Newest
    BY <1>3, ZeroTypes DEF Newest, Exists, Unwritten
  <1>6. Copies = {NoObject, ncp}
    BY <1>3 DEF Copies, Pending
  <1>7. Guarded
    BY <1>2, <1>6, ZeroTypes DEF Guarded
  <1> QED
    BY <1>4, <1>5, <1>7 DEF GuardInv

\* GuardInv is inductive, given the type invariant and SafetyInv.
LEMMA GuardNext ==
    ASSUME TypeOK, SafetyInv, GuardInv, [Next]_vars
    PROVE  GuardInv'
  <1>1. TypeOK' /\ Snapshots
    BY TypeNext DEF SafetyInv
  <1> QED
    BY <1>1, StepEffects, StageStep, NewestStep, GuardedStep DEF GuardInv

\* However old the copies in the informer and in memory are, none of them
\* shows a finalizer to act under that the stored resource has lost.
THEOREM GuardInvariant == Spec => []GuardInv
  BY GuardInit, GuardNext, TypeCorrect, SafetyInvariant, PTL DEF Spec

\* Hence CreatePlane succeeds only while the stored resource carries the
\* finalizer, whichever client is in use and whatever fails in between.
THEOREM CreatedUnderFinalizer == Spec => CreateOnlyUnderFinalizer
  <1>1. ASSUME TypeOK, SafetyInv, GuardInv, [Next]_vars
        PROVE  [pc = "createPlane" /\ pc' = "persistPlaneID"
                  => ncp.finalizer]_vars
    <2>1. SUFFICES ASSUME pc = "createPlane" PROVE ncp.finalizer
      OBVIOUS
    <2>2. obj.finalizer /\ ~obj.deletionTimestamp /\ obj \in Copies
      BY <1>1, <2>1 DEF GuardInv, Stage, Unfinished, Resolving, Copies
    <2> QED
      BY <1>1, <2>2 DEF GuardInv, Guarded
  <1> QED
    BY <1>1, TypeCorrect, SafetyInvariant, GuardInvariant, PTL
       DEF Spec, CreateOnlyUnderFinalizer

-------------------------------------------------------------------------------
(***************************************************************************)
(* The plane on record, with noplane.Client.  HttpStep is what every step  *)
(* from a state of the invariants is known to satisfy.                     *)
(***************************************************************************)
HttpStep ==
    /\ Client = "http"
    /\ TypeOK /\ TypeOK' /\ SafetyInv /\ GuardInv /\ Agreed
    /\ ReconcileEffect \/ OtherEffect

\* The planes after a step are planes from before it, but for one with a new
\* ID; no step but DeletePlane takes one away, if none may vanish.
LEMMA PlanesStep ==
    ASSUME HttpStep
    PROVE  /\ \A t \in tenants' :
                \/ \E u \in tenants : u.id = t.id /\ u.name = t.name
                \/ t.id = issued + 1 /\ t.name = Name /\ issued' = issued + 1
           /\ \/ \A u \in tenants :
                    \E t \in tenants' : u.id = t.id /\ u.name = t.name
              \/ Deletes
              \/ "vanish" \in Env
  <1>1. ASSUME NEW v, tenants' = Created(tenants, Name, v, issued)
        PROVE  /\ \A t \in tenants' :
                    t \in tenants \/ (t.id = issued + 1 /\ t.name = Name)
               /\ tenants \subseteq tenants'
    BY <1>1 DEF Created, NewID, HttpStep
  <1>2. CASE UNCHANGED tenants
    BY <1>2
  <1>3. CASE Creates
    BY <1>1, <1>3 DEF Creates
  <1>4. CASE LateAnswer
    BY <1>1, <1>2, <1>4 DEF LateAnswer
  <1>5. CASE Deletes
    BY <1>5 DEF Deletes, Deleted
  <1>6. CASE PlanesChange
    BY <1>6 DEF PlanesChange
  <1> QED
    BY <1>2, <1>3, <1>4, <1>5, <1>6
       DEF HttpStep, ReconcileEffect, OtherEffect, GivesUp, Starts, GoesOn,
           LooksUp, AddsFinalizer, Persists, SetsEndpoint, Publishes, Releases,
           Restarts, Delivers, Unnoticed, Edits, AsksDeletion, GoesAway,
           Applies, Serves

\* Every copy is a resource whose plane ID was issued.
LEMMA CopiesIssued ==
    ASSUME TypeOK, SafetyInv
    PROVE  /\ \A o \in Copies \cup {ncp} :
                o \in NCP /\ o.status.planeID \in 0..issued
           /\ ~HasID(tenants, 0)
  <1>1. /\ ncp \in NCP /\ obj \in NCP /\ cache \in NCP /\ watch \in Seq(NCP)
        /\ issued \in Nat
    BY DEF TypeOK
  <1>2. \A o \in NCP : o.status.planeID \in Nat
    BY DEF NCP, Status
  <1>3. \A o \in Pending : o \in NCP /\ o.status.planeID <= issued
    <2>1. \A i \in 1..Len(watch) :
            watch[i] \in NCP /\ watch[i].status.planeID <= issued
      BY <1>1 DEF SafetyInv, Snapshots, VersionOf
    <2> QED
      BY <2>1 DEF Pending
  <1>4. /\ ncp.status.planeID <= issued /\ obj.status.planeID <= issued
        /\ cache.status.planeID <= issued
    BY DEF SafetyInv, Snapshots, VersionOf
  <1>5. ~HasID(tenants, 0)
    <2>1. \A t \in Tenant : t.id # 0
      BY DEF Tenant, PlaneIDs
    <2> QED
      BY <2>1 DEF HasID, TypeOK
  <1> QED
    BY <1>1, <1>2, <1>3, <1>4, <1>5 DEF Copies

\* No step revives the plane a copy names.
LEMMA NoneRevived ==
    ASSUME HttpStep
    PROVE  \A id \in 0..issued : HasID(tenants', id) => HasID(tenants, id)
  <1>1. issued \in Nat
    BY DEF HttpStep, TypeOK
  <1> QED
    BY <1>1, PlanesStep DEF HasID

\* Once the recorded plane is to be deleted, nothing takes the deletion back
\* or changes the record as long as the plane runs.
LEMMA DeletionKept ==
    ASSUME HttpStep, ncp.deletionTimestamp, HasID(tenants, ncp.status.planeID)
    PROVE  ncp'.deletionTimestamp /\ ncp'.status.planeID = ncp.status.planeID
  <1>1. Stage /\ Provenance /\ OnRecord /\ ~HasID(tenants, 0)
        /\ (~Exists(ncp) => ncp = NoObject)
    BY CopiesIssued
       DEF HttpStep, GuardInv, SafetyInv, Agreed, Snapshots
  <1>2. Exists(ncp)
    BY <1>1, ZeroTypes
  <1>3. ncp.finalizer
    BY <1>1 DEF OnRecord
  <1>4. ~Releases
    BY <1>1 DEF Releases, Provenance
  <1>5. ~Persists /\ ~Publishes
    BY <1>1 DEF Persists, Publishes, Stage, Unfinished, Resolving, Publishing
  <1> QED
    BY <1>2, <1>3, <1>4, <1>5
       DEF HttpStep, ReconcileEffect, OtherEffect, GivesUp, Starts, GoesOn,
           Creates, LooksUp, Deletes, AddsFinalizer, SetsEndpoint, Restarts,
           LateAnswer, Delivers, Unnoticed, Edits, AsksDeletion, GoesAway,
           Applies, PlanesChange, Still, SameLife

\* A resource for which a plane may be created has no past with a plane.
LEMMA CreatingStep ==
    ASSUME HttpStep, Creating(ncp')
    PROVE  \A o \in Copies : o.status.planeID = 0
  <1>1. /\ History /\ OnRecord /\ Newest /\ Provenance /\ ~HasID(tenants, 0)
        /\ (~Exists(ncp) => ncp = NoObject)
    BY CopiesIssued DEF HttpStep, GuardInv, SafetyInv, Agreed, Snapshots
  <1>2. ncp'.finalizer /\ ~ncp'.deletionTimestamp /\ ncp'.status.planeID = 0
    BY DEF Creating
  <1>3. CASE Creating(ncp)
    BY <1>1, <1>3 DEF History
  <1>4. CASE UNCHANGED ncp \/ SameLife
    BY <1>2, <1>3, <1>4 DEF SameLife, Creating
  <1>5. CASE AddsFinalizer
    <2>1. ncp.status.planeID = 0 /\ ~ncp.deletionTimestamp /\ obj = ncp
      BY <1>2, <1>5 DEF AddsFinalizer
    <2>2. CASE ncp.finalizer
      BY <1>3, <2>1, <2>2 DEF Creating
    <2>3. CASE ~ncp.finalizer
      <3>1. cache = obj /\ watch = <<>>
        BY <1>1, <1>5 DEF AddsFinalizer, Newest, Unwritten
      <3>2. Copies = {obj}
        BY <3>1 DEF Copies, Pending
      <3> QED
        BY <2>1, <3>2
    <2> QED
      BY <2>2, <2>3
  <1>6. ~Persists /\ ~Publishes
    <2>1. pc \in {"persistPlaneID", "updateStatus"} => pid # 0
      BY <1>1 DEF Provenance, Publishing
    <2>2. ncp.status \in Status
      BY DEF HttpStep, TypeOK, NCP
    <2>3. Persists => ncp'.status.planeID = pid
      BY <2>2 DEF Persists, Status
    <2> QED
      BY <1>2, <2>1, <2>3 DEF Persists, Publishes
  <1>7. ~Releases /\ ~AsksDeletion /\ ~GoesAway /\ ~Applies
    BY <1>2, ZeroTypes
       DEF Releases, AsksDeletion, GoesAway, Applies, Removal, Remove
  <1> QED
    BY <1>4, <1>5, <1>6, <1>7
       DEF HttpStep, ReconcileEffect, OtherEffect, GivesUp, Starts, GoesOn,
           Creates, LooksUp, Deletes, SetsEndpoint, Restarts, LateAnswer,
           Delivers, Unnoticed, Edits, PlanesChange, Still

\* Every version is followed by one that is Later than all versions so far.
LEMMA SuccessorLater ==
    ASSUME HttpStep, NEW o \in Copies
    PROVE  /\ o.deletionTimestamp /\ HasID(tenants', o.status.planeID) =>
                 ncp'.deletionTimestamp
           /\ o.status.planeID # 0 => ~Creating(ncp')
  <1>1. OnRecord /\ o.status.planeID \in 0..issued
    BY CopiesIssued DEF HttpStep, Agreed
  <1>2. ASSUME o.deletionTimestamp, HasID(tenants', o.status.planeID)
        PROVE  ncp'.deletionTimestamp
    <2>1. HasID(tenants, o.status.planeID)
      BY <1>1, <1>2, NoneRevived
    <2>2. ncp.deletionTimestamp /\ ncp.status.planeID = o.status.planeID
      BY <1>1, <1>2, <2>1 DEF OnRecord
    <2> QED
      BY <2>1, <2>2, DeletionKept
  <1>3. ASSUME o.status.planeID # 0
        PROVE  ~Creating(ncp')
    BY <1>3, CreatingStep
  <1> QED
    BY <1>2, <1>3

\* The versions stay in the order of their age.
LEMMA OrderStep ==
    ASSUME HttpStep
    PROVE  /\ (\A i, j \in 1..Len(watch) : i < j => Later(watch[i], watch[j]))'
           /\ (\A o \in Pending : Later(cache, o))'
  <1>0. /\ TypeOK /\ SafetyInv /\ History /\ TypeOK'
        /\ watch \in Seq(NCP) /\ watch' \in Seq(NCP) /\ Len(watch) \in Nat
    BY DEF HttpStep, Agreed, TypeOK
  <1>1. /\ \A i, j \in 1..Len(watch) : i < j => Later(watch[i], watch[j])
        /\ \A o \in Pending : Later(cache, o)
    BY <1>0 DEF History
  <1>2. ASSUME NEW o, NEW n, o.status.planeID \in 0..issued, Later(o, n)
        PROVE  /\ o.deletionTimestamp /\ HasID(tenants', o.status.planeID) =>
                     n.deletionTimestamp
               /\ o.status.planeID # 0 => ~Creating(n)
    BY <1>2, NoneRevived DEF Later
  <1>3. /\ \A o \in Copies : o.status.planeID \in 0..issued
        /\ \A i \in 1..Len(watch) : watch[i] \in Pending /\ watch[i] \in Copies
        /\ Pending \subseteq Copies /\ cache \in Copies
    BY <1>0, CopiesIssued DEF Copies, Pending
  <1>4. CASE UNCHANGED <<watch, cache>>
    <2>1. ASSUME NEW i \in 1..Len(watch'), NEW j \in 1..Len(watch'), i < j
          PROVE  Later(watch[i], watch[j])'
      <3>1. Later(watch[i], watch[j])
        BY <1>1, <1>4, <2>1
      <3> QED
        BY <1>2, <1>3, <1>4, <3>1 DEF Later
    <2>2. ASSUME NEW i \in 1..Len(watch')
          PROVE  Later(cache, watch[i])'
      <3>1. Later(cache, watch[i])
        BY <1>1, <1>3, <1>4
      <3> QED
        BY <1>2, <1>3, <1>4, <3>1 DEF Later
    <2> QED
      BY <2>1, <2>2 DEF Pending, Later
  <1>5. CASE watch' = Append(watch, ncp') /\ UNCHANGED cache
    <2>1. \A i \in 1..Len(watch) : watch'[i] = watch[i]
      BY <1>0, <1>5
    <2>2. watch'[Len(watch) + 1] = ncp' /\ Len(watch') = Len(watch) + 1
      BY <1>0, <1>5
    <2>3. ASSUME NEW i \in 1..Len(watch'), NEW j \in 1..Len(watch'), i < j
          PROVE  Later(watch[i], watch[j])'
      <3>1. i \in 1..Len(watch)
        BY <1>0, <2>2, <2>3
      <3>2. watch'[i] = watch[i] /\ watch[i] \in Copies
        BY <1>3, <2>1, <3>1
      <3>3. CASE j \in 1..Len(watch)
        <4>1. watch'[j] = watch[j] /\ Later(watch[i], watch[j])
          BY <1>1, <2>1, <2>3, <3>1, <3>3
        <4> QED
          BY <1>2, <1>3, <3>2, <4>1 DEF Later
      <3>4. CASE j \notin 1..Len(watch)
        <4>1. watch'[j] = ncp'
          BY <1>0, <2>2, <2>3, <3>4
        <4> QED
          BY <3>2, <4>1, SuccessorLater DEF Later
      <3> QED
        BY <3>3, <3>4
    <2>4. ASSUME NEW i \in 1..Len(watch')
          PROVE  Later(cache, watch[i])'
      <3>1. CASE i \in 1..Len(watch)
        <4>1. watch'[i] = watch[i] /\ Later(cache, watch[i])
          BY <1>1, <1>3, <2>1, <3>1
        <4> QED
          BY <1>2, <1>3, <1>5, <4>1 DEF Later
      <3>2. CASE i \notin 1..Len(watch)
        <4>1. watch'[i] = ncp'
          BY <1>0, <2>2, <2>4, <3>2
        <4> QED
          BY <1>3, <1>5, <4>1, SuccessorLater DEF Later
      <3> QED
        BY <3>1, <3>2
    <2> QED
      BY <2>3, <2>4 DEF Pending, Later
  <1>6. CASE Delivers
    <2>1. watch # <<>> /\ cache' = Head(watch) /\ watch' = Tail(watch)
      BY <1>6 DEF Delivers
    <2>2. cache' = watch[1] /\ 1 \in 1..Len(watch)
      BY <1>0, <2>1
    <2>3. ASSUME NEW i \in 1..Len(watch')
          PROVE  /\ i + 1 \in 1..Len(watch) /\ watch'[i] = watch[i + 1]
                 /\ 1 < i + 1
      BY <1>0, <2>1, <2>3
    <2>4. ASSUME NEW i \in 1..Len(watch'), NEW j \in 1..Len(watch'), i < j
          PROVE  Later(watch[i], watch[j])'
      <3>1. i + 1 < j + 1
        BY <1>0, <2>4
      <3>2. Later(watch[i + 1], watch[j + 1])
        BY <1>1, <2>3, <3>1
      <3> QED
        BY <1>2, <1>3, <2>3, <3>2 DEF Later
    <2>5. ASSUME NEW i \in 1..Len(watch')
          PROVE  Later(cache, watch[i])'
      <3>1. Later(watch[1], watch[i + 1])
        BY <1>1, <2>2, <2>3
      <3> QED
        BY <1>2, <1>3, <2>2, <2>3, <3>1 DEF Later
    <2> QED
      BY <2>4, <2>5 DEF Pending, Later
  <1>7. CASE Restarts
    <2>1. watch' = <<>>
      BY <1>7 DEF Restarts
    <2> QED
      BY <2>1 DEF Pending
  <1>8. \/ UNCHANGED <<watch, cache>>
        \/ watch' = Append(watch, ncp') /\ UNCHANGED cache
        \/ Delivers \/ Restarts
    BY DEF HttpStep, ReconcileEffect, OtherEffect, GivesUp, Starts, GoesOn,
           Creates, LooksUp, Deletes, AddsFinalizer, Persists, SetsEndpoint,
           Publishes, Releases, LateAnswer, Unnoticed, Edits, AsksDeletion,
           GoesAway, Applies, PlanesChange, Still, Written, Removal, Remove
  <1> QED
    BY <1>4, <1>5, <1>6, <1>7, <1>8

\* What a deletion concerns is still on record after the step, being deleted.
LEMMA DeletingStep ==
    ASSUME HttpStep, NEW o \in Copies', o.deletionTimestamp,
           HasID(tenants', o.status.planeID)
    PROVE  ncp'.deletionTimestamp /\ ncp'.status.planeID = o.status.planeID
  <1>0. TypeOK /\ SafetyInv /\ TypeOK' /\ OnRecord
    BY DEF HttpStep, Agreed
  <1>1. o \in Copies \cup {ncp', NoObject}
    BY CopiesStep DEF HttpStep
  <1>2. CASE o = ncp'
    BY <1>2
  <1>3. CASE o = NoObject
    <2>1. \A t \in Tenant : t.id # 0
      BY DEF Tenant, PlaneIDs
    <2>2. ~HasID(tenants', 0)
      BY <1>0, <2>1 DEF HasID, TypeOK
    <2> QED
      BY <1>3, <2>2, ZeroTypes
  <1>4. CASE o \in Copies
    <2>1. HasID(tenants, o.status.planeID)
      BY <1>0, <1>4, CopiesIssued, NoneRevived
    <2>2. ncp.deletionTimestamp /\ ncp.status.planeID = o.status.planeID
      BY <1>0, <1>4, <2>1 DEF OnRecord
    <2> QED
      BY <2>1, <2>2, DeletionKept
  <1> QED
    BY <1>1, <1>2, <1>3, <1>4

\* The spec.planeID of every copy is one that users give, or none.
LEMMA NamedStep ==
    ASSUME HttpStep
    PROVE  \A o \in Copies' \cup {ncp'} : o.planeID \in SpecIDs \cup {0}
  <1>1. /\ History /\ (~Exists(ncp) => ncp = NoObject)
        /\ NoObject.planeID = 0
        /\ Copies' \subseteq Copies \cup {ncp', NoObject}
    BY CopiesStep DEF HttpStep, Agreed, SafetyInv, Snapshots, NoObject
  <1>2. ncp'.planeID \in SpecIDs \cup {ncp.planeID, 0}
    BY <1>1
       DEF HttpStep, ReconcileEffect, OtherEffect, GivesUp, Starts, GoesOn,
           Creates, LooksUp, Deletes, AddsFinalizer, Persists, SetsEndpoint,
           Publishes, Releases, Restarts, LateAnswer, Delivers, Unnoticed,
           Edits, AsksDeletion, GoesAway, Applies, PlanesChange, Still,
           Removal, Remove, SameHold
  <1> QED
    BY <1>1, <1>2 DEF History

\* History survives every step.
LEMMA HistoryStep ==
    ASSUME HttpStep
    PROVE  History'
  <1>0. /\ TypeOK /\ SafetyInv /\ TypeOK' /\ History /\ Stage /\ Provenance
        /\ ReconcileEffect \/ OtherEffect
    BY DEF HttpStep, Agreed, GuardInv, SafetyInv
  <1>c. /\ Seen' \subseteq Seen \cup {ncp'}
        /\ Copies' \subseteq Copies \cup {ncp', NoObject}
        /\ obj' \in Copies'
        /\ Seen = Pending \cup {cache} /\ Seen' = Pending' \cup {cache'}
        /\ Seen' \subseteq Copies'
    BY <1>0, CopiesStep DEF Copies, Seen
  <1>i. \A o \in Copies \cup {ncp} : o.status.planeID \in 0..issued
    BY <1>0, CopiesIssued
  <1>1. Creating(ncp') => \A o \in Copies' : o.status.planeID = 0
    BY <1>c, CreatingStep, ZeroTypes DEF Creating
  <1>2. ASSUME obj'.deletionTimestamp, HasID(tenants', obj'.status.planeID)
        PROVE  \A o \in Seen' : o.deletionTimestamp
    <2>1. ncp'.deletionTimestamp
      BY <1>c, <1>2, DeletingStep
    <2>2. CASE obj' = obj
      <3>1. HasID(tenants, obj.status.planeID)
        BY <1>2, <1>i, <2>2, NoneRevived DEF Copies
      <3>2. \A o \in Seen : o.deletionTimestamp
        BY <1>0, <1>2, <1>c, <2>2, <3>1 DEF History
      <3> QED
        BY <1>c, <2>1, <3>2
    <2>3. CASE Starts
      <3>1. obj' = cache /\ Still /\ UNCHANGED tenants
        BY <2>3 DEF Starts, Serves
      <3>2. \A o \in Pending : Later(cache, o)
        BY <1>0 DEF History
      <3>3. \A o \in Seen : o.deletionTimestamp
        BY <1>2, <1>c, <3>1, <3>2 DEF Later
      <3> QED
        BY <1>c, <2>1, <3>3
    <2>4. CASE obj' = NoObject
      BY <1>2, <2>4 DEF NoObject
    <2>5. CASE Persists \/ SetsEndpoint
      <3>1. /\ pc \in Unfinished /\ obj = ncp /\ obj' = ncp'
            /\ ncp'.deletionTimestamp = ncp.deletionTimestamp
        BY <2>5 DEF Persists, SetsEndpoint, SameLife, Unfinished, Resolving,
                    Publishing
      <3> QED
        BY <1>0, <2>1, <3>1 DEF Stage
    <2> QED
      BY <1>0, <2>2, <2>3, <2>4, <2>5
         DEF ReconcileEffect, OtherEffect, GivesUp, GoesOn, Creates, LooksUp,
             Deletes, AddsFinalizer, Publishes, Releases, Restarts, LateAnswer,
             Delivers, Unnoticed, Edits, AsksDeletion, GoesAway, Applies,
             PlanesChange, Ended, Waits
  <1>3. ASSUME pc' \in Unfinished, obj'.status.planeID \notin {pid', 0}
        PROVE  \A o \in Seen' : ~Creating(o)
    <2>1. ~Creating(ncp')
      BY <1>1, <1>3, <1>c
    <2>2. CASE /\ pc \in Unfinished /\ pid' = pid
               /\ obj'.status.planeID = obj.status.planeID
      <3>1. \A o \in Seen : ~Creating(o)
        BY <1>0, <1>3, <1>c, <2>2 DEF History
      <3> QED
        BY <1>c, <2>1, <3>1
    <2>3. CASE Starts
      <3>1. obj' = cache
        BY <2>3 DEF Starts
      <3>2. \A o \in Pending : Later(cache, o)
        BY <1>0 DEF History
      <3>3. \A o \in Seen : ~Creating(o)
        BY <1>3, <1>c, <3>1, <3>2 DEF Later, Creating
      <3> QED
        BY <1>c, <2>1, <3>3
    <2>4. pc' # "idle"
      BY <1>3 DEF Unfinished, Resolving, Publishing
    <2>5. CASE Waits
      BY <1>3, <2>2, <2>5 DEF Waits
    <2>6. CASE GoesOn \/ SetsEndpoint
      BY <2>2, <2>6
         DEF GoesOn, SetsEndpoint, SameLife, Unfinished, Resolving, Publishing
    <2>7. ~Creates /\ ~LooksUp
      BY <1>0, <1>3 DEF Creates, LooksUp, Provenance, Resolving
    <2>8. ~Persists
      <3>1. ncp.status \in Status
        BY <1>0 DEF TypeOK, NCP
      <3>2. Persists => obj'.status.planeID = pid'
        BY <3>1 DEF Persists, Status
      <3> QED
        BY <1>3, <3>2
    <2>9. ~Deletes
      BY <1>3 DEF Deletes, Ended, Unfinished, Resolving, Publishing
    <2> QED
      BY <1>0, <2>3, <2>4, <2>5, <2>6, <2>7, <2>8, <2>9
         DEF ReconcileEffect, OtherEffect, GivesUp, AddsFinalizer, Publishes,
             Releases, Restarts, LateAnswer, Delivers, Unnoticed, Edits,
             AsksDeletion, GoesAway, Applies, PlanesChange, Ended
  <1>4. (\A o \in Copies \cup {ncp} : o.planeID \in SpecIDs \cup {NoID})'
    BY NamedStep
  <1>5. (obj.deletionTimestamp /\ HasID(tenants, obj.status.planeID) =>
           \A o \in Pending \cup {cache} : o.deletionTimestamp)'
    BY <1>2, <1>c
  <1>6. (pc \in Unfinished /\ obj.status.planeID \notin {pid, NoID} =>
           \A o \in Pending \cup {cache} : ~Creating(o))'
    BY <1>3, <1>c
  <1> QED
    BY <1>1, <1>4, <1>5, <1>6, OrderStep DEF History

\* A reconcile that records another plane than its copy names does so only
\* when no copy is left for which a plane may be created.
LEMMA RecordStep ==
    ASSUME HttpStep, \E o \in Copies' : Creating(o)
    PROVE  \/ ncp'.status.planeID \in {0, ncp.status.planeID}
              /\ (ncp'.status.planeID # 0 => \E o \in Copies : Creating(o))
           \/ Persists /\ ncp'.status.planeID = pid
  <1>0. /\ TypeOK /\ SafetyInv /\ TypeOK' /\ History /\ Stage /\ Provenance
        /\ Established
        /\ ReconcileEffect \/ OtherEffect
        /\ (~Exists(ncp) => ncp = NoObject)
    BY DEF HttpStep, Agreed, GuardInv, SafetyInv, Snapshots
  <1>c. /\ Seen' \subseteq Seen \cup {ncp'}
        /\ Copies' \subseteq Copies \cup {ncp', NoObject}
        /\ Copies' = Seen' \cup {obj'}
        /\ Seen = Pending \cup {cache}
    BY <1>0, CopiesStep DEF Copies, Seen
  <1>n. ~Creating(NoObject)
    BY ZeroTypes DEF Creating
  <1>1. CASE Creating(ncp')
    BY <1>1 DEF Creating
  <1>2. CASE ncp'.status.planeID = ncp.status.planeID /\ ~Creating(ncp')
    BY <1>c, <1>n, <1>2
  <1>3. CASE Persists
    <2>1. ncp.status \in Status
      BY <1>0 DEF TypeOK, NCP
    <2> QED
      BY <1>3, <2>1 DEF Persists, Status
  <1>4. CASE Publishes
    <2>1. /\ obj = ncp /\ ncp'.status.planeID = pid /\ obj' = NoObject
          /\ pc = "updateStatus"
      BY <1>4 DEF Publishes, Ended
    <2>2. CASE pid = obj.status.planeID
      BY <1>1, <1>2, <2>1, <2>2
    <2>3. CASE pid # obj.status.planeID /\ ~Creating(ncp')
      <3>1. obj.status.planeID # 0
        BY <1>0, <2>1 DEF Established, Fetched
      <3>2. \A o \in Seen : ~Creating(o)
        BY <1>0, <1>c, <2>1, <2>3, <3>1 DEF History, Unfinished, Publishing
      <3>3. \A o \in Copies' : ~Creating(o)
        BY <1>c, <1>n, <2>1, <2>3, <3>2
      <3> QED
        BY <3>3
    <2> QED
      BY <1>1, <2>2, <2>3
  <1>5. CASE Removal \/ Applies
    <2>1. ncp'.status.planeID = 0
      BY <1>5, ZeroTypes DEF Removal, Remove, Applies, NoStatus
    <2> QED
      BY <2>1
  <1>6. CASE UNCHANGED ncp \/ ncp'.status = ncp.status
    BY <1>1, <1>2, <1>6
  <1> QED
    BY <1>0, <1>3, <1>4, <1>5, <1>6
       DEF ReconcileEffect, OtherEffect, GivesUp, Starts, GoesOn, Creates,
           LooksUp, Deletes, AddsFinalizer, SetsEndpoint, Releases, Restarts,
           LateAnswer, Delivers, Unnoticed, Edits, AsksDeletion, GoesAway,
           PlanesChange, Still, SameLife

\* OnRecord survives every step.
LEMMA OnRecordStep ==
    ASSUME HttpStep
    PROVE  OnRecord'
  <1>0. /\ TypeOK /\ SafetyInv /\ TypeOK' /\ OnRecord /\ Stage /\ Provenance
        /\ Established /\ issued \in Nat
        /\ ReconcileEffect \/ OtherEffect
        /\ (~Exists(ncp) => ncp = NoObject)
    BY DEF HttpStep, Agreed, GuardInv, SafetyInv, Snapshots, TypeOK
  <1>i. ncp.status.planeID \in 0..issued
    BY <1>0, CopiesIssued
  <1>t. ~HasID(tenants', 0)
    <2>1. \A t \in Tenant : t.id # 0
      BY DEF Tenant, PlaneIDs
    <2> QED
      BY <1>0, <2>1 DEF HasID, TypeOK
  <1>1. /\ ~ncp'.finalizer => ~HasID(tenants', ncp'.status.planeID)
        /\ ~ncp'.finalizer /\ ~ncp'.deletionTimestamp => ncp'.status.planeID = 0
        /\ ncp'.held => ncp'.deletionTimestamp
    <2>1. CASE SameLife /\ (ncp'.held => ncp.held)
      BY <1>0, <1>i, <2>1, NoneRevived DEF OnRecord, SameLife
    <2>2. CASE UNCHANGED ncp
      BY <1>0, <1>i, <2>2, NoneRevived DEF OnRecord
    <2>3. CASE Persists \/ Publishes
      <3>1. /\ pc \in Unfinished /\ obj = ncp
            /\ ncp'.finalizer = ncp.finalizer /\ ncp'.held = ncp.held
            /\ ncp'.deletionTimestamp = ncp.deletionTimestamp
        BY <2>3 DEF Persists, Publishes, SameHold, Unfinished, Resolving,
                    Publishing
      <3> QED
        BY <1>0, <3>1 DEF Stage, OnRecord
    <2>4. CASE AddsFinalizer
      BY <1>0, <2>4 DEF AddsFinalizer, SameHold, OnRecord
    <2>5. CASE Releases /\ ~Removal
      <3>1. /\ pc = "removeFinalizer" /\ obj = ncp /\ UNCHANGED tenants
            /\ ncp'.deletionTimestamp = ncp.deletionTimestamp
            /\ ncp'.status = ncp.status
        BY <2>5 DEF Releases, Serves
      <3> QED
        BY <1>0, <3>1 DEF Stage, Provenance
    <2>6. CASE Removal
      BY <1>t, <2>6 DEF Removal, Remove, NoObject, NoStatus
    <2>7. CASE Applies
      BY <1>t, <2>7 DEF Applies, NoStatus
    <2>8. CASE AsksDeletion
      BY <1>0, <1>i, <2>8, NoneRevived DEF AsksDeletion, OnRecord
    <2> QED
      BY <1>0, <2>1, <2>2, <2>3, <2>4, <2>5, <2>6, <2>7, <2>8
         DEF ReconcileEffect, OtherEffect, GivesUp, Starts, GoesOn, Creates,
             LooksUp, Deletes, SetsEndpoint, Restarts, LateAnswer, Delivers,
             Unnoticed, Edits, GoesAway, PlanesChange, Still, SameHold
  <1>2. ASSUME \E o \in Copies' : Creating(o),
               NEW t \in tenants', t.id = ncp'.status.planeID
        PROVE  t.name = Name
    <2>1. ncp'.status.planeID # 0
      BY <1>2, <1>t DEF HasID
    <2>2. CASE /\ ncp'.status.planeID = ncp.status.planeID
               /\ \E o \in Copies : Creating(o)
      <3>1. \A u \in tenants : u.id = ncp.status.planeID => u.name = Name
        BY <1>0, <2>2 DEF OnRecord
      <3>2. t.id # issued + 1
        BY <1>0, <1>2, <1>i, <2>2
      <3> QED
        BY <1>2, <2>2, <3>1, <3>2, PlanesStep
    <2>3. CASE Persists /\ ncp'.status.planeID = pid
      BY <1>0, <1>2, <2>3 DEF Persists, Serves, Established
    <2> QED
      BY <1>2, <2>1, <2>2, <2>3, RecordStep
  <1> QED
    BY <1>1, <1>2, DeletingStep DEF OnRecord

\* Established survives every step.
LEMMA EstablishedStep ==
    ASSUME HttpStep
    PROVE  Established'
  <1> USE DEF Publishing, Fetched
  <1>0. /\ TypeOK /\ SafetyInv /\ Established /\ Provenance /\ issued \in Nat
        /\ Client = "http" /\ ~HasID(tenants, 0)
        /\ ReconcileEffect \/ OtherEffect
    BY CopiesIssued DEF HttpStep, Agreed, SafetyInv, TypeOK
  <1>1. CASE pc' = "idle"
    BY <1>1 DEF Established
  <1>2. CASE Waits
    <2>1. pc = "persistPlaneID" => pid # issued + 1
      BY <1>0 DEF Provenance
    <2>2. ASSUME pc' = "persistPlaneID", NEW t \in tenants', t.id = pid'
          PROVE  t.name = Name
      BY <1>0, <1>2, <2>1, <2>2, PlanesStep DEF Waits, Established
    <2> QED
      BY <1>0, <1>2, <2>2 DEF Waits, Established
  <1>3. CASE Starts
    <2>1. pc' \in {"addFinalizer", "createPlane", "getPlane", "deletePlane",
                   "removeFinalizer"}
      BY <1>3 DEF Starts, FirstCall
    <2> QED
      BY <2>1 DEF Established
  <1>4. CASE GoesOn
    <2>1. GetKubeconfigErr(tenants, obj.status.planeID) = "nil" =>
            obj.status.planeID # 0
      BY <1>0 DEF GetKubeconfigErr
    <2> QED
      BY <1>0, <1>4, <2>1 DEF GoesOn, Established
  <1>5. CASE Creates
    <2>1. ASSUME NEW t \in tenants', t.id = pid'
          PROVE  t.name = Name
      <3>1. pid' = issued + 1
        BY <1>0, <1>5 DEF Creates, NewID
      <3>2. \A u \in tenants : u.id # issued + 1
        <4>1. \A u \in tenants : u.id <= issued /\ u.id \in Nat
          BY <1>0 DEF Provenance, TypeOK, Tenant, PlaneIDs
        <4> QED
          BY <1>0, <4>1
      <3> QED
        BY <2>1, <3>1, <3>2, PlanesStep
    <2> QED
      BY <1>5, <2>1 DEF Creates, Established
  <1>6. ~LooksUp
    BY <1>0 DEF LooksUp, Established
  <1>7. CASE Persists \/ SetsEndpoint \/ Deletes
    <2>1. pc' \in {"idle", "getPlane", "fetchKubeconfig", "removeFinalizer"}
      BY <1>7 DEF Persists, SetsEndpoint, Deletes, Ended
    <2> QED
      BY <2>1 DEF Established
  <1> QED
    BY <1>0, <1>1, <1>2, <1>3, <1>4, <1>5, <1>6, <1>7
       DEF ReconcileEffect, OtherEffect, GivesUp, AddsFinalizer, Publishes,
           Releases, Restarts, LateAnswer, Delivers, Unnoticed, Edits,
           AsksDeletion, GoesAway, Applies, PlanesChange, Ended

\* StillRunning survives every step, if no plane may vanish.
LEMMA StillRunningStep ==
    ASSUME HttpStep, StillRunning, "vanish" \notin Env
    PROVE  StillRunning'
  <1>0. /\ TypeOK /\ SafetyInv /\ StillRunning /\ History /\ Stage /\ Provenance
        /\ ReconcileEffect \/ OtherEffect
        /\ Client = "http" /\ ~HasID(tenants, 0) /\ ~HasID(tenants', 0)
    <2>1. \A t \in Tenant : t.id # 0
      BY DEF Tenant, PlaneIDs
    <2> QED
      BY <2>1 DEF HttpStep, Agreed, SafetyInv, GuardInv, TypeOK, HasID
  <1>1. CASE ~Deletes
    <2>0. \A u \in tenants : \E t \in tenants' : u.id = t.id /\ u.name = t.name
      BY <1>1, PlanesStep
    <2>1. /\ \A id : HasID(tenants, id) => HasID(tenants', id)
          /\ HasName(tenants, Name) => HasName(tenants', Name)
      BY <2>0 DEF HasID, HasName
    <2>2. ASSUME pc' \in Publishing \cup {"persistPlaneID"}
          PROVE  /\ HasID(tenants', pid')
                 /\ pc' = "persistPlaneID" => HasName(tenants', Name)
      <3>1. CASE Waits
        BY <1>0, <2>1, <2>2, <3>1 DEF Waits, StillRunning
      <3>2. CASE GoesOn
        BY <1>0, <2>1, <3>2 DEF GoesOn, StillRunning, Publishing
      <3>3. CASE Creates
        <4> DEFINE new == [id |-> NewID(issued), name |-> Name,
                           version |-> obj.version,
                           hostname |-> Client = "fake"]
        <4>1. new.id = NewID(issued) /\ new.name = Name
          OBVIOUS
        <4>2. new \in tenants' /\ pid' = NewID(issued)
          BY <3>3 DEF Creates, Created
        <4> HIDE DEF new
        <4> QED
          BY <4>1, <4>2 DEF HasID, HasName
      <3>4. CASE SetsEndpoint
        BY <1>0, <2>1, <3>4 DEF SetsEndpoint, StillRunning, Publishing
      <3>5. ~LooksUp
        BY DEF LooksUp, HttpStep, Agreed, Established
      <3>6. pc' # "idle" /\ pc' # "getPlane" /\ ~Starts
        BY <2>2 DEF Publishing, Starts, FirstCall
      <3> QED
        BY <1>0, <1>1, <3>1, <3>2, <3>3, <3>4, <3>5, <3>6
           DEF ReconcileEffect, OtherEffect, GivesUp, AddsFinalizer, Persists,
               Publishes, Releases, Restarts, LateAnswer, Delivers, Unnoticed,
               Edits, AsksDeletion, GoesAway, Applies, PlanesChange, Ended
    <2>3. ASSUME ncp'.status.planeID # 0, \E o \in Copies' : Creating(o)
          PROVE  HasName(tenants', Name)
      <3>1. CASE /\ ncp'.status.planeID = ncp.status.planeID
                 /\ \E o \in Copies : Creating(o)
        BY <1>0, <2>1, <2>3, <3>1 DEF StillRunning
      <3>2. CASE Persists
        BY <1>0, <2>1, <3>2 DEF Persists, StillRunning
      <3> QED
        BY <2>3, <3>1, <3>2, RecordStep
    <2> QED
      BY <2>2, <2>3 DEF StillRunning
  <1>2. CASE Deletes
    <2>1. /\ pc' \in {"idle", "removeFinalizer"} /\ obj.deletionTimestamp
          /\ UNCHANGED ncp
      BY <1>0, <1>2 DEF Deletes, Ended, Stage, Still
    <2>2. CASE ~HasID(tenants, obj.status.planeID)
      <3>1. tenants' = tenants
        BY <1>2, <2>2 DEF Deletes, Deleted, HasID
      <3>2. ncp'.status.planeID # 0 /\ (\E o \in Copies' : Creating(o)) =>
              HasName(tenants', Name)
        <4>1. ~Persists
          BY <1>2 DEF Deletes, Persists
        <4> QED
          BY <1>0, <2>1, <3>1, <4>1, RecordStep DEF StillRunning
      <3> QED
        BY <2>1, <3>2 DEF StillRunning, Publishing
    <2>3. CASE HasID(tenants, obj.status.planeID)
      <3>1. \A o \in Copies : o.deletionTimestamp
        BY <1>0, <2>1, <2>3 DEF History, Copies
      <3>2. Still /\ obj' \in {obj, NoObject}
        BY <1>2 DEF Deletes, Ended
      <3>3. Copies' \subseteq Copies \cup {NoObject}
        BY <3>2 DEF Still, Copies, Pending
      <3>4. \A o \in Copies' : ~Creating(o)
        BY <3>1, <3>3, ZeroTypes DEF Creating
      <3> QED
        BY <2>1, <3>4 DEF StillRunning, Publishing
    <2> QED
      BY <2>2, <2>3
  <1> QED
    BY <1>1, <1>2

\* RecordInv holds initially.
LEMMA RecordInit == Init => RecordInv
  <1> SUFFICES ASSUME Init PROVE RecordInv
    OBVIOUS
  <1>1. PICK v \in Versions, id \in SpecIDs : ncp = Applied(1, v, id)
    BY DEF Init
  <1>2. /\ ncp.finalizer = FALSE /\ ncp.deletionTimestamp = FALSE
        /\ ncp.held = FALSE /\ ncp.status.planeID = 0 /\ ncp.planeID = id
    BY <1>1 DEF Applied, NoObject, NoStatus
  <1>3. /\ NoObject.deletionTimestamp = FALSE /\ NoObject.planeID = 0
        /\ NoObject.status.planeID = 0 /\ NoObject.finalizer = FALSE
    BY DEF NoObject, NoStatus
  <1>4. watch = <<ncp>> /\ cache = NoObject /\ obj = NoObject /\ pc = "idle"
        /\ tenants = InitialTenants
    BY DEF Init
  <1>5. Copies = {NoObject, ncp} /\ Pending = {ncp} /\ Len(watch) = 1
    BY <1>4 DEF Copies, Pending
  <1>6. ~HasID(tenants, 0)
    <2>1. \A t \in Tenant : t.id # 0
      BY DEF Tenant, PlaneIDs
    <2> QED
      BY <1>4, <2>1, TenantsAssumption DEF HasID
  <1>7. ~Creating(ncp) /\ ~Creating(NoObject)
    BY <1>2, <1>3 DEF Creating
  <1>8. History
    BY <1>2, <1>3, <1>4, <1>5, <1>7
       DEF History, Later, Unfinished, Resolving, Publishing
  <1>9. OnRecord
    BY <1>2, <1>3, <1>5, <1>6, <1>7 DEF OnRecord
  <1>10. Established
    BY <1>4 DEF Established, Fetched
  <1>11. StillRunning
    BY <1>2, <1>4 DEF StillRunning, Publishing
  <1> QED
    BY <1>8, <1>9, <1>10, <1>11 DEF RecordInv, Agreed

\* With noplane.Client, RecordInv is inductive, given the other invariants.
LEMMA RecordNext ==
    ASSUME Client = "http", TypeOK, SafetyInv, GuardInv, RecordInv, [Next]_vars
    PROVE  RecordInv'
  <1>1. HttpStep
    BY TypeNext, StepEffects DEF HttpStep, RecordInv
  <1> QED
    BY <1>1, HistoryStep, OnRecordStep, EstablishedStep, StillRunningStep
       DEF RecordInv, Agreed

\* With noplane.Client, what any copy of the resource still asks for, however
\* old it is, agrees with the plane on record.
THEOREM RecordInvariant ==
    ASSUME Client = "http"
    PROVE  Spec => []RecordInv
  <1>1. ASSUME TypeOK, SafetyInv, GuardInv, RecordInv, [Next]_vars
        PROVE  RecordInv'
    BY <1>1, RecordNext
  <1> QED
    BY <1>1, RecordInit, TypeCorrect, SafetyInvariant, GuardInvariant, PTL
       DEF Spec

\* "resolvePlaneID never creates a duplicate": with noplane.Client, and as
\* long as planes do not disappear by themselves, a create succeeds only while
\* the stored resource has no plane, however stale the copy it was decided on.
THEOREM NoSecondPlane ==
    ASSUME Client = "http", "vanish" \notin Env
    PROVE  Spec => NeverASecondPlane
  <1>1. ASSUME TypeOK, SafetyInv, GuardInv, RecordInv, [Next]_vars
        PROVE  [pc = "createPlane" /\ pc' = "persistPlaneID"
                  => ncp.status.planeID = NoID]_vars
    <2>1. SUFFICES ASSUME pc = "createPlane", pc' = "persistPlaneID"
                   PROVE  ncp.status.planeID = 0
      OBVIOUS
    <2>2. HttpStep
      BY <1>1, TypeNext, StepEffects DEF HttpStep, RecordInv
    <2>3. ~HasName(tenants, Name)
      <3>1. Creates
        BY <2>1, <2>2
           DEF HttpStep, ReconcileEffect, OtherEffect, GivesUp, Starts, GoesOn,
               LooksUp, Deletes, AddsFinalizer, Persists, SetsEndpoint,
               Publishes, Releases, Restarts, LateAnswer, Delivers, Unnoticed,
               Edits, AsksDeletion, GoesAway, Applies, PlanesChange, Ended,
               Waits, Publishing, FirstCall
      <3> QED
        BY <3>1 DEF Creates
    <2>4. Creating(obj) /\ obj \in Copies
      BY <1>1, <2>1
         DEF GuardInv, Stage, Unfinished, Resolving, SafetyInv, Provenance,
             Creating, Copies
    <2> QED
      BY <1>1, <2>3, <2>4 DEF RecordInv, StillRunning
  <1> QED
    BY <1>1, TypeCorrect, SafetyInvariant, GuardInvariant, RecordInvariant, PTL
       DEF Spec, NeverASecondPlane
==============================================================================
