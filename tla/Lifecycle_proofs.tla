--------------------------- MODULE Lifecycle_proofs ---------------------------
(***************************************************************************)
(* With noplane.Client the controller implements PlaneLifecycle: the       *)
(* initial states map to initial states and every step, through its        *)
(* effect, maps to a step of PlaneLifecycle or to none.                    *)
(***************************************************************************)
EXTENDS Record_proofs

USE DEF NoID

\* The values that the mapping gives to resource and planes.
Resource == IF ncp.finalizer THEN "guarded"
            ELSE IF Exists(ncp) THEN "applied" ELSE "absent"
Running == {t.id : t \in tenants}

\* What the abstract resource is, in terms of the stored one.
LEMMA ResourceIs ==
    ASSUME TypeOK, SafetyInv
    PROVE  /\ Resource = "guarded" <=> ncp.finalizer
           /\ Resource = "applied" <=> Exists(ncp) /\ ~ncp.finalizer
           /\ Resource = "absent" <=> ~Exists(ncp)
           /\ ~Exists(ncp) => ncp = NoObject
  BY ZeroTypes DEF Resource, SafetyInv, Snapshots

\* The initial states are initial states of PlaneLifecycle.
LEMMA LifecycleInit == Init => Lifecycle!Init
  <1> SUFFICES ASSUME Init PROVE Lifecycle!Init
    OBVIOUS
  <1>1. PICK v \in Versions, id \in SpecIDs : ncp = Applied(1, v, id)
    BY DEF Init
  <1>2. /\ ncp.rv = 1 /\ ncp.finalizer = FALSE /\ ncp.deletionTimestamp = FALSE
        /\ ncp.status.planeID = 0 /\ ncp.status.initialized = FALSE
    BY <1>1 DEF Applied, NoObject, NoStatus
  <1>3. issued \in Nat /\ tenants = InitialTenants /\ late = Empty
        /\ issued = InitialIssued
    BY TenantsAssumption DEF Init
  <1>4. \A t \in tenants : t.id \in 1..issued
    <2>1. \A t \in Tenant : t.id \in Nat /\ t.id # 0
      BY DEF Tenant, PlaneIDs
    <2>2. \A t \in tenants : t \in Tenant /\ t.id <= issued
      BY <1>3, TenantsAssumption
    <2> QED
      BY <1>3, <2>1, <2>2
  <1>5. {t.id : t \in tenants} \in SUBSET (1..issued)
    BY <1>4
  <1> QED
    BY <1>2, <1>3, <1>5 DEF Lifecycle!Init, Exists

\* The planes that run after a create or a delete.
LEMMA RunningIs ==
    ASSUME Client = "http"
    PROVE  /\ \A v : tenants' = Created(tenants, Name, v, issued) =>
                       Running' = Running \cup {issued + 1}
           /\ \A id : tenants' = Deleted(tenants, id) =>
                       Running' = Running \ {id}
           /\ \A id : HasID(tenants, id) <=> id \in Running
  <1>1. ASSUME NEW v, tenants' = Created(tenants, Name, v, issued)
        PROVE  Running' = Running \cup {issued + 1}
    <2> DEFINE new == [id |-> NewID(issued), name |-> Name, version |-> v,
                       hostname |-> Client = "fake"]
    <2>1. new.id = issued + 1
      BY DEF NewID
    <2>2. tenants' = tenants \cup {new}
      BY <1>1 DEF Created
    <2> HIDE DEF new
    <2> QED
      BY <2>1, <2>2 DEF Running
  <1>2. ASSUME NEW id, tenants' = Deleted(tenants, id)
        PROVE  Running' = Running \ {id}
    BY <1>2 DEF Deleted, Running
  <1> QED
    BY <1>1, <1>2 DEF HasID, Running

\* A step that leaves the resource, the planes and the requests alone is none.
LEMMA Stutters ==
    ASSUME UNCHANGED <<Resource, Running, issued, late>>,
           ncp'.deletionTimestamp = ncp.deletionTimestamp,
           ncp'.status = ncp.status
    PROVE  UNCHANGED Lifecycle!vars
  BY DEF Lifecycle!vars, Resource, Running

\* Every step is a step of PlaneLifecycle.
LEMMA LifecycleNext ==
    ASSUME HttpStep, RecordInv
    PROVE  [Lifecycle!Next]_Lifecycle!vars
  <1> USE DEF Still, Serves
  <1>0. /\ TypeOK /\ SafetyInv /\ TypeOK' /\ GuardInv /\ RecordInv /\ Stage
        /\ Provenance /\ OnRecord /\ Guarded /\ Client = "http" /\ issued \in Nat
        /\ ReconcileEffect \/ OtherEffect
    BY DEF HttpStep, GuardInv, SafetyInv, Agreed, TypeOK
  <1>r. /\ Resource = "guarded" <=> ncp.finalizer
        /\ Resource = "applied" <=> Exists(ncp) /\ ~ncp.finalizer
        /\ Resource = "absent" <=> ~Exists(ncp)
        /\ ~Exists(ncp) => ncp = NoObject
    BY <1>0, ResourceIs
  <1>1. CASE Starts \/ GoesOn \/ Unnoticed \/ Delivers
    <2>1. UNCHANGED <<ncp, tenants, issued, late>>
      BY <1>1 DEF Starts, GoesOn, Unnoticed, Delivers
    <2>2. UNCHANGED Lifecycle!vars
      BY <2>1, Stutters DEF Resource, Running, Exists
    <2> QED
      BY <2>2

  <1>2. CASE (GivesUp \/ Restarts) /\ UNCHANGED late
    <2>1. UNCHANGED <<ncp, tenants, issued, late>>
      BY <1>0, <1>2 DEF GivesUp, Restarts
    <2>2. UNCHANGED Lifecycle!vars
      BY <2>1, Stutters DEF Resource, Running, Exists
    <2> QED
      BY <2>2
  <1>3. CASE (GivesUp \/ Restarts) /\ ~UNCHANGED late
    <2>1. /\ UNCHANGED <<ncp, tenants, issued>>
          /\ pc = "createPlane" /\ late = Empty /\ late' = obj.version
      BY <1>0, <1>3 DEF GivesUp, Restarts, Abandoned
    <2>2. ncp.finalizer
      BY <1>0, <2>1 DEF Stage, Unfinished, Resolving, Guarded, Copies
    <2>3. Lifecycle!Ask
      BY <1>3, <2>1, <2>2
         DEF Lifecycle!Ask, Lifecycle!resourceVars, Exists
    <2> QED
      BY <2>3 DEF Lifecycle!Next
  <1>4. CASE Creates
    <2>1. /\ UNCHANGED <<ncp, late>> /\ issued' = issued + 1
          /\ ~HasName(tenants, Name)
          /\ Running' = Running \cup {issued + 1}
      BY <1>0, <1>4, RunningIs DEF Creates
    <2>2. Creating(obj) /\ obj \in Copies
      BY <1>0, <1>4
         DEF Creates, Stage, Unfinished, Resolving, Provenance, Creating, Copies
    <2>3. ncp.finalizer
      BY <1>0, <2>2 DEF Guarded, Creating
    <2>4. ncp.status.planeID \notin Running
      BY <1>0, <2>1, <2>2 DEF OnRecord, HasName, Running
    <2>5. "vanish" \notin Env => ncp.status.planeID = 0
      BY <1>0, <2>1, <2>2 DEF RecordInv, StillRunning
    <2>6. Lifecycle!Start
      BY <2>1, <2>3, <2>4, <2>5
         DEF Lifecycle!Start, Lifecycle!resourceVars, Running, Exists
    <2> QED
      BY <2>6 DEF Lifecycle!Next
  <1>5. ~LooksUp
    BY <1>0 DEF LooksUp, RecordInv, Agreed, Established
  <1>6. CASE Deletes
    <2>1. /\ UNCHANGED <<ncp, issued, late>>
          /\ Running' = Running \ {obj.status.planeID}
      BY <1>0, <1>6, RunningIs DEF Deletes
    <2>2. CASE obj.status.planeID \notin Running
      <3>1. Running' = Running
        BY <2>1, <2>2
      <3>2. UNCHANGED Lifecycle!vars
        BY <2>1, <3>1, Stutters DEF Resource, Exists
      <3> QED
        BY <3>2
    <2>3. CASE obj.status.planeID \in Running
      <3>1. HasID(tenants, obj.status.planeID) /\ obj.deletionTimestamp
        BY <1>0, <1>6, <2>3, RunningIs DEF Deletes, Stage
      <3>2. ncp.deletionTimestamp /\ ncp.status.planeID = obj.status.planeID
        BY <1>0, <3>1 DEF OnRecord, Copies
      <3>3. ncp.finalizer
        BY <1>0, <3>1, <3>2 DEF OnRecord
      <3>4. Lifecycle!Stop
        BY <2>1, <3>2, <3>3
           DEF Lifecycle!Stop, Lifecycle!resourceVars, Running, Exists
      <3> QED
        BY <3>4 DEF Lifecycle!Next
    <2> QED
      BY <2>2, <2>3
  <1>w. Written => Exists(ncp') \/ UNCHANGED ncp
    <2>1. rv \in Nat
      BY <1>0 DEF TypeOK
    <2> QED
      BY <2>1 DEF Written, Exists
  <1>7. CASE AddsFinalizer
    <2>1. /\ UNCHANGED <<tenants, issued, late>>
          /\ Exists(ncp) /\ ~ncp.deletionTimestamp
          /\ ncp'.finalizer = TRUE /\ ncp'.status = ncp.status
          /\ ncp'.deletionTimestamp = ncp.deletionTimestamp
      BY <1>7 DEF AddsFinalizer, Fresh
    <2>2. CASE ncp.finalizer
      <3>1. UNCHANGED Lifecycle!vars
        BY <2>1, <2>2, Stutters DEF Resource, Running
      <3> QED
        BY <3>1
    <2>3. CASE ~ncp.finalizer
      <3>1. Lifecycle!Guard
        BY <2>1, <2>3 DEF Lifecycle!Guard, Lifecycle!serviceVars
      <3> QED
        BY <3>1 DEF Lifecycle!Next
    <2> QED
      BY <2>2, <2>3
  <1>8. ASSUME pid \in 1..issued, HasID(tenants, pid) \/ "vanish" \in Env
        PROVE  Lifecycle!Runs(pid)
    BY <1>0, <1>8, RunningIs DEF Lifecycle!Runs, Running
  <1>9. CASE Persists
    <2>0. ncp.status \in Status
      BY <1>0 DEF TypeOK, NCP
    <2>1. /\ UNCHANGED <<tenants, issued, late>> /\ obj = ncp
          /\ ncp'.finalizer = ncp.finalizer
          /\ ncp'.deletionTimestamp = ncp.deletionTimestamp
          /\ ncp'.status.planeID = pid
          /\ ncp'.status.initialized = ncp.status.initialized
      BY <1>9, <2>0 DEF Persists, Status
    <2>2. ncp.finalizer /\ ~ncp.deletionTimestamp
      BY <1>0, <1>9, <2>1 DEF Persists, Stage, Unfinished, Resolving
    <2>3. ncp.status.planeID = 0 /\ pid \in 1..issued
      BY <1>0, <1>9, <2>1 DEF Persists, Provenance, Resolving
    <2>4. HasID(tenants, pid) \/ "vanish" \in Env
      BY <1>0, <1>9 DEF Persists, RecordInv, StillRunning
    <2>5. Lifecycle!Runs(pid)
      BY <1>8, <2>3, <2>4
    <2>6. Lifecycle!Record
      BY <2>1, <2>2, <2>3, <2>5
         DEF Lifecycle!Record, Lifecycle!serviceVars
    <2> QED
      BY <2>6 DEF Lifecycle!Next
  <1>10. CASE SetsEndpoint \/ Edits
    <2>1. /\ UNCHANGED <<tenants, issued, late>> /\ SameLife
          /\ Exists(ncp) /\ Written
      BY <1>10 DEF SetsEndpoint, Edits, Fresh
    <2>2. Exists(ncp')
      BY <1>w, <2>1 DEF Exists
    <2>3. UNCHANGED Lifecycle!vars
      BY <2>1, <2>2, Stutters DEF Resource, Running, SameLife
    <2> QED
      BY <2>3
  <1>11. CASE Publishes
    <2>1. /\ UNCHANGED <<tenants, issued, late>> /\ obj = ncp
          /\ ncp'.finalizer = ncp.finalizer
          /\ ncp'.deletionTimestamp = ncp.deletionTimestamp
          /\ ncp'.status.planeID = pid /\ ncp'.status.initialized = TRUE
          /\ pc = "updateStatus"
      BY <1>11 DEF Publishes
    <2>2. ncp.finalizer /\ ~ncp.deletionTimestamp
      BY <1>0, <2>1 DEF Stage, Unfinished, Publishing
    <2>3. /\ pid # 0 /\ pid <= issued /\ pid \in Nat
          /\ pid \in {ncp.status.planeID, ncp.planeID}
      BY <1>0, <2>1 DEF Provenance, Publishing, TypeOK
    <2>4. pid \in {ncp.status.planeID} \cup (SpecIDs \ {0})
      BY <1>0, <2>3 DEF RecordInv, Agreed, History
    <2>5. HasID(tenants, pid) \/ "vanish" \in Env
      BY <1>0, <2>1 DEF RecordInv, StillRunning, Publishing
    <2>6. Lifecycle!Runs(pid)
      BY <1>0, <1>8, <2>3, <2>5
    <2>7. Lifecycle!Runs(ncp'.status.planeID)
      BY <2>1, <2>6
    <2>8. Lifecycle!Publish
      BY <2>1, <2>2, <2>3, <2>4, <2>6
         DEF Lifecycle!Publish, Lifecycle!serviceVars, Lifecycle!Runs
    <2> QED
      BY <2>8 DEF Lifecycle!Next
  <1>12. ASSUME Removal
         PROVE  Lifecycle!Removed
    <2>1. ncp' = NoObject
      BY <1>12 DEF Removal, Remove
    <2> QED
      BY <2>1 DEF Lifecycle!Removed, NoObject, NoStatus, Exists
  <1>13. CASE Releases
    <2>1. /\ UNCHANGED <<tenants, issued, late>> /\ obj = ncp
          /\ pc = "removeFinalizer"
      BY <1>13 DEF Releases
    <2>2. /\ ncp.finalizer /\ ncp.deletionTimestamp
          /\ ~HasID(tenants, ncp.status.planeID)
      BY <1>0, <2>1 DEF Stage, Provenance
    <2>3. ncp.status.planeID \notin {t.id : t \in tenants}
      BY <1>0, <2>2, RunningIs DEF Running
    <2>4. CASE Removal
      <3>1. Lifecycle!Forget
        BY <1>12, <2>1, <2>2, <2>3, <2>4
           DEF Lifecycle!Forget, Lifecycle!serviceVars
      <3> QED
        BY <3>1 DEF Lifecycle!Next
    <2>5. CASE ~Removal
      <3>1. /\ Written /\ ncp'.finalizer = FALSE /\ ncp'.status = ncp.status
            /\ ncp'.deletionTimestamp = ncp.deletionTimestamp
        BY <1>13, <2>5 DEF Releases
      <3>2. Exists(ncp')
        BY <1>w, <2>2, <3>1
      <3>3. Lifecycle!Forget
        BY <2>1, <2>2, <2>3, <3>1, <3>2
           DEF Lifecycle!Forget, Lifecycle!serviceVars
      <3> QED
        BY <3>3 DEF Lifecycle!Next
    <2> QED
      BY <2>4, <2>5
  <1>14. CASE LateAnswer
    <2>1. UNCHANGED ncp /\ late # Empty /\ late' = Empty
      BY <1>14 DEF LateAnswer
    <2>2. CASE UNCHANGED <<tenants, issued>>
      <3>1. Lifecycle!Refuse
        BY <2>1, <2>2 DEF Lifecycle!Refuse, Lifecycle!resourceVars, Exists
      <3> QED
        BY <3>1 DEF Lifecycle!Next
    <2>3. CASE issued' = issued + 1
               /\ tenants' = Created(tenants, Name, late, issued)
      <3>1. Running' = Running \cup {issued + 1}
        BY <1>0, <2>3, RunningIs
      <3>2. Lifecycle!Start
        BY <2>1, <2>3, <3>1
           DEF Lifecycle!Start, Lifecycle!resourceVars, Running, Exists
      <3> QED
        BY <3>2 DEF Lifecycle!Next
    <2> QED
      BY <1>14, <2>2, <2>3 DEF LateAnswer
  <1>15. CASE AsksDeletion
    <2>1. /\ UNCHANGED <<tenants, issued, late>> /\ Written
          /\ Exists(ncp) /\ ~ncp.deletionTimestamp
          /\ ncp'.finalizer = ncp.finalizer /\ ncp'.status = ncp.status
          /\ ncp'.deletionTimestamp = TRUE
      BY <1>15 DEF AsksDeletion
    <2>2. Exists(ncp')
      BY <1>w, <2>1
    <2>3. Lifecycle!Delete
      BY <2>1, <2>2 DEF Lifecycle!Delete, Lifecycle!serviceVars
    <2> QED
      BY <2>3 DEF Lifecycle!Next
  <1>16. CASE GoesAway
    <2>1. /\ UNCHANGED <<tenants, issued, late>> /\ Removal
          /\ Exists(ncp) /\ ~ncp.finalizer
      BY <1>16 DEF GoesAway
    <2>2. CASE ncp.deletionTimestamp
      <3>1. Lifecycle!Collect
        BY <1>12, <2>1, <2>2 DEF Lifecycle!Collect, Lifecycle!serviceVars
      <3> QED
        BY <3>1 DEF Lifecycle!Next
    <2>3. CASE ~ncp.deletionTimestamp
      <3>1. Lifecycle!Delete
        BY <1>12, <2>1, <2>3 DEF Lifecycle!Delete, Lifecycle!serviceVars
      <3> QED
        BY <3>1 DEF Lifecycle!Next
    <2> QED
      BY <2>2, <2>3
  <1>17. CASE Applies
    <2>1. /\ UNCHANGED <<tenants, issued, late>>
          /\ ~Exists(ncp) /\ Exists(ncp')
          /\ ncp'.finalizer = FALSE /\ ncp'.deletionTimestamp = FALSE
          /\ ncp'.status = NoStatus /\ ncp = NoObject
      BY <1>17, <1>r DEF Applies
    <2>2. NoObject.finalizer = FALSE /\ NoObject.deletionTimestamp = FALSE
          /\ NoObject.status = NoStatus
      BY DEF NoObject
    <2>3. Lifecycle!Apply
      BY <2>1, <2>2 DEF Lifecycle!Apply, Lifecycle!serviceVars
    <2> QED
      BY <2>3 DEF Lifecycle!Next
  <1>18. CASE PlanesChange
    <2>1. UNCHANGED <<ncp, issued, late>>
      BY <1>18 DEF PlanesChange
    <2>2. CASE Running' = Running
      <3>1. UNCHANGED Lifecycle!vars
        BY <2>1, <2>2, Stutters DEF Resource, Exists
      <3> QED
        BY <3>1
    <2>3. CASE Running' # Running
      <3>1. Running' \subseteq Running
        BY <1>18 DEF PlanesChange, Running
      <3>2. PICK u \in tenants : "vanish" \in Env /\ tenants' = tenants \ {u}
        BY <1>18, <2>3, <3>1 DEF PlanesChange, Running
      <3>3. Running' = Running \ {u.id}
        <4>1. Running \ {u.id} \subseteq Running'
          BY <3>2 DEF Running
        <4>2. u.id \notin Running'
          BY <2>3, <3>1, <4>1
        <4> QED
          BY <3>1, <4>1, <4>2
      <3>4. u.id \in Running
        BY <3>2 DEF Running
      <3>5. Lifecycle!Vanish
        BY <2>1, <3>2, <3>3, <3>4
           DEF Lifecycle!Vanish, Lifecycle!resourceVars, Running, Exists
      <3> QED
        BY <3>5 DEF Lifecycle!Next
    <2> QED
      BY <2>2, <2>3
  <1> QED
    BY <1>0, <1>1, <1>2, <1>3, <1>4, <1>5, <1>6, <1>7, <1>9, <1>10, <1>11,
       <1>13, <1>14, <1>15, <1>16, <1>17, <1>18 DEF ReconcileEffect, OtherEffect

\* With noplane.Client, whatever is stale, refused, retried, lost or crashed,
\* the resource and the planes go through the life that PlaneLifecycle
\* describes and through no other.
THEOREM LifecycleImplemented ==
    ASSUME Client = "http"
    PROVE  Spec => ImplementsLifecycle
  <1>1. ASSUME TypeOK, SafetyInv, GuardInv, RecordInv, [Next]_vars
        PROVE  [Lifecycle!Next]_Lifecycle!vars
    <2>1. HttpStep
      BY <1>1, TypeNext, StepEffects DEF HttpStep, RecordInv
    <2> QED
      BY <1>1, <2>1, LifecycleNext
  <1> QED
    BY <1>1, LifecycleInit, TypeCorrect, SafetyInvariant, GuardInvariant,
       RecordInvariant, PTL DEF Spec, ImplementsLifecycle, Lifecycle!Spec
===============================================================================
