--------------------------- MODULE Neighbour_proofs ---------------------------
(***************************************************************************)
(* Proofs about module ControlPlane, continued: with noplane.Client, what  *)
(* a resource relies on does not depend on what others do at the service   *)
(* in the meantime, and what it does there concerns its own planes only.   *)
(* SharedName_proofs puts two resources together from these lemmas.        *)
(***************************************************************************)
EXTENDS Record_proofs

USE DEF NoID

\* What belongs to one resource alone: its cluster, its manager, its calls.
ownVars == <<ncp, rv, watch, kubeconfigSecret, caSecret, secretCache,
             secretWatch, cluster, creds, cache, queued, timer, pc, obj, pid,
             plane, kubeconfig, late>>

\* What a step does at the service, as far as anybody else can tell: new
\* planes have new IDs.
ServiceStep ==
    /\ tenants' \subseteq Tenant
    /\ issued' \in Nat /\ issued <= issued'
    /\ \A t \in tenants' :
          \/ \E u \in tenants : u.id = t.id /\ u.name = t.name
          \/ issued < t.id /\ t.id <= issued'
    /\ faults' \in 0..MaxFaults /\ edits' \in 0..MaxEdits

\* The plane IDs in the hands of a reconcile were issued.
LEMMA HeldIssued ==
    ASSUME Settled
    PROVE  /\ Held \subseteq 0..issued /\ ncp.status.planeID \in Held
           /\ issued \in Nat /\ ~HasID(tenants, 0)
  <1>1. /\ \A o \in Copies \cup {ncp} : o.status.planeID \in 0..issued
        /\ ~HasID(tenants, 0)
    BY CopiesIssued DEF Settled
  <1>2. issued \in Nat /\ (pc = "persistPlaneID" => pid \in 0..issued)
    BY DEF Settled, TypeOK, SafetyInv, Provenance
  <1> QED
    BY <1>1, <1>2 DEF Held

LEMMA SettledInit ==
    ASSUME Init PROVE Settled /\ Held \subseteq {0}
  <1>1. Settled
    BY TypeInit, InvInit, GuardInit, RecordInit DEF Settled, RecordInv
  <1>2. PICK v \in Versions, id \in SpecIDs : ncp = Applied(1, v, id)
    BY DEF Init
  <1>3. ncp.status.planeID = 0 /\ NoObject.status.planeID = 0
    BY <1>2 DEF Applied, NoObject, NoStatus
  <1>4. watch = <<ncp>> /\ cache = NoObject /\ obj = NoObject /\ pc = "idle"
    BY DEF Init
  <1>5. Copies = {NoObject, ncp}
    BY <1>4 DEF Copies, Pending
  <1> QED
    BY <1>1, <1>3, <1>4, <1>5 DEF Held

-------------------------------------------------------------------------------
\* Whatever another resource does at the service, the invariant survives and
\* nothing gets into the hands of this one.
LEMMA NeighbourStep ==
    ASSUME Settled, ServiceStep, UNCHANGED ownVars
    PROVE  Settled' /\ Held' = Held
  <1> USE DEF ownVars
  <1>1. TypeOK'
    BY DEF Settled, TypeOK, ServiceStep
  <1>2. /\ TypeOK /\ Snapshots /\ Provenance /\ GuardInv
        /\ History /\ OnRecord /\ Established
    BY DEF Settled, SafetyInv, Agreed
  <1>3. /\ issued \in Nat /\ issued' \in Nat /\ issued <= issued'
        /\ \A id \in 0..issued : HasID(tenants', id) => HasID(tenants, id)
        /\ \A id \in 0..issued : \A t \in tenants' : t.id = id =>
              \E u \in tenants : u.id = id /\ u.name = t.name
    BY <1>2 DEF ServiceStep, HasID, TypeOK
  <1>4. \A o \in Copies \cup {ncp} : o \in NCP /\ o.status.planeID \in 0..issued
    BY CopiesIssued DEF Settled
  <1>5. Pending' = Pending /\ Copies' = Copies /\ Held' = Held
    BY DEF Pending, Copies, Held
  <1>6. Snapshots'
    <2>1. \A o \in Copies \cup {ncp} :
            VersionOf(o, ncp, rv, issued) => VersionOf(o, ncp, rv, issued')
      BY <1>3, <1>4 DEF VersionOf
    <2>2. \A i \in 1..Len(watch) : watch[i] \in Copies
      BY DEF Copies, Pending
    <2>3. obj \in Copies /\ cache \in Copies
      BY DEF Copies
    <2> QED
      BY <1>2, <2>1, <2>2, <2>3 DEF Snapshots
  <1>7. Provenance'
    <2>1. \A t \in tenants' : t.id <= issued'
      <3>1. \A t \in tenants : t \in Tenant /\ t.id \in Nat /\ t.id <= issued
        BY <1>2 DEF Provenance, TypeOK, Tenant, PlaneIDs
      <3>2. \A t \in tenants' : t.id \in Nat
        BY <1>1 DEF TypeOK, Tenant, PlaneIDs
      <3> QED
        BY <1>3, <3>1, <3>2 DEF ServiceStep
    <2>2. pc = "removeFinalizer" => ~HasID(tenants', obj.status.planeID)
      BY <1>2, <1>3, <1>4 DEF Provenance, Copies
    <2>3. /\ pc = "persistPlaneID" => pid \in 1..issued'
          /\ pc \in Publishing => pid <= issued'
      BY <1>2, <1>3 DEF Provenance, TypeOK
    <2> QED
      BY <1>2, <2>1, <2>2, <2>3 DEF Provenance
  <1>8. GuardInv'
    BY <1>2, <1>5 DEF GuardInv, Stage, Newest, Guarded, Fresh
  <1>9. History'
    <2>1. \A o \in Copies : \A n : Later(o, n) => Later(o, n)'
      BY <1>3, <1>4 DEF Later, Creating
    <2>2. /\ cache \in Copies /\ obj \in Copies
          /\ \A i \in 1..Len(watch) : watch[i] \in Copies
      BY DEF Copies, Pending
    <2>3. (\A i, j \in 1..Len(watch) : i < j => Later(watch[i], watch[j]))'
      BY <1>2, <2>1, <2>2 DEF History
    <2>4. (\A o \in Pending : Later(cache, o))'
      BY <1>2, <1>5, <2>1, <2>2 DEF History
    <2>5. HasID(tenants', obj.status.planeID) => HasID(tenants, obj.status.planeID)
      BY <1>3, <1>4, <2>2
    <2> QED
      BY <1>2, <1>5, <2>3, <2>4, <2>5 DEF History, Creating
  <1>10. OnRecord'
    <2>1. \A o \in Copies \cup {ncp} :
            HasID(tenants', o.status.planeID) => HasID(tenants, o.status.planeID)
      BY <1>3, <1>4
    <2>2. \A t \in tenants' : t.id = ncp.status.planeID =>
            \E u \in tenants : u.id = ncp.status.planeID /\ u.name = t.name
      BY <1>3, <1>4
    <2> QED
      BY <1>2, <1>5, <2>1, <2>2 DEF OnRecord, Creating
  <1>11. Established'
    <2>1. pc = "persistPlaneID" =>
            \A t \in tenants' : t.id = pid =>
              \E u \in tenants : u.id = pid /\ u.name = t.name
      BY <1>2, <1>3 DEF Provenance
    <2> QED
      BY <1>2, <2>1 DEF Established
  <1> QED
    BY <1>1, <1>5, <1>6, <1>7, <1>8, <1>9, <1>10, <1>11
       DEF Settled, SafetyInv, Agreed

-------------------------------------------------------------------------------
\* To the others, a step of this resource is one at the service.
LEMMA ServedStep ==
    ASSUME HttpStep, faults' \in 0..MaxFaults, edits' \in 0..MaxEdits
    PROVE  ServiceStep
  <1>1. issued \in Nat /\ issued' \in Nat /\ tenants' \subseteq Tenant
    BY DEF HttpStep, TypeOK
  <1>2. issued' \in {issued, issued + 1}
    BY DEF HttpStep, ReconcileEffect, OtherEffect, GivesUp, Starts, GoesOn,
           Creates, LooksUp, Deletes, AddsFinalizer, Persists, SetsEndpoint,
           Publishes, Releases, Restarts, LateAnswer, Delivers, Unnoticed,
           Edits, AsksDeletion, GoesAway, Applies, PlanesChange, Serves
  <1> QED
    BY <1>1, <1>2, PlanesStep DEF ServiceStep

\* Unless the user names one, a step gets hold of no plane but a new one.
LEMMA HeldStep ==
    ASSUME HttpStep, SpecIDs \subseteq {0}, NEW id \in Held'
    PROVE  id \in Held \cup {0} \/ (id = issued + 1 /\ issued' = issued + 1)
  <1>0. /\ TypeOK /\ SafetyInv /\ TypeOK' /\ History /\ Provenance /\ Established
        /\ (ReconcileEffect \/ OtherEffect) /\ Client = "http" /\ issued \in Nat
    BY DEF HttpStep, Agreed, SafetyInv, TypeOK
  <1>1. /\ NoObject.status.planeID = 0
        /\ Copies' \subseteq Copies \cup {ncp', NoObject}
    BY <1>0, CopiesStep DEF NoObject, NoStatus
  <1>2. pc = "updateStatus" => pid = 0 \/ pid = obj.status.planeID
    BY <1>0 DEF Provenance, Publishing, History, Copies
  <1>3. ncp'.status.planeID \in Held \cup {0}
    <2>1. \/ ncp'.status.planeID \in {ncp.status.planeID, 0}
          \/ Persists \/ Publishes
      <3>1. NoStatus.planeID = 0
        BY DEF NoStatus
      <3> QED
        BY <1>0, <1>1, <3>1
           DEF ReconcileEffect, OtherEffect, GivesUp, Starts, GoesOn, Creates,
               LooksUp, Deletes, AddsFinalizer, SetsEndpoint, Releases,
               Restarts, LateAnswer, Delivers, Unnoticed, Edits, AsksDeletion,
               GoesAway, Applies, PlanesChange, Still, SameLife, Removal, Remove
    <2>2. CASE Persists
      <3>1. ncp.status \in Status /\ ncp'.status = [ncp.status EXCEPT !.planeID = pid]
        BY <1>0, <2>2 DEF Persists, TypeOK, NCP
      <3>2. ncp'.status.planeID = pid
        BY <3>1 DEF Status
      <3> QED
        BY <2>2, <3>2 DEF Persists, Held
    <2>3. CASE Publishes
      BY <1>2, <2>3 DEF Publishes, Held, Copies
    <2> QED
      BY <2>1, <2>2, <2>3 DEF Held
  <1>4. pc' = "persistPlaneID" =>
          \/ pc = "persistPlaneID" /\ pid' = pid
          \/ pid' = issued + 1 /\ issued' = issued + 1
    <2>1. CASE Creates
      BY <2>1 DEF Creates, NewID, HttpStep
    <2>2. CASE LooksUp
      BY <1>0, <2>2 DEF LooksUp, Established
    <2>3. CASE Starts
      <3>1. cache \in NCP
        BY <1>0 DEF TypeOK
      <3> QED
        BY <2>3, <3>1, FirstCallOf DEF Starts
    <2> QED
      BY <1>0, <2>1, <2>2, <2>3
         DEF ReconcileEffect, OtherEffect, GivesUp, GoesOn, Deletes,
             AddsFinalizer, Persists, SetsEndpoint, Publishes, Releases,
             Restarts, LateAnswer, Delivers, Unnoticed, Edits, AsksDeletion,
             GoesAway, Applies, PlanesChange, Waits, Ended, Publishing
  <1> QED
    BY <1>1, <1>3, <1>4 DEF Held

\* If none may vanish, a step stops no plane but one this resource holds, and
\* not the recorded one unless the resource is being deleted.
LEMMA StopStep ==
    ASSUME HttpStep, "vanish" \notin Env, NEW id, HasID(tenants, id),
           ~HasID(tenants', id)
    PROVE  id \in Held /\ (id = ncp.status.planeID => ncp.deletionTimestamp)
  <1>1. Deletes
    BY PlanesStep DEF HasID
  <1>2. id = obj.status.planeID
    BY <1>1 DEF Deletes, Deleted, HasID
  <1>3. obj.deletionTimestamp /\ obj \in Copies
    BY <1>1 DEF Deletes, HttpStep, GuardInv, Stage, Copies
  <1> QED
    BY <1>2, <1>3 DEF HttpStep, Agreed, OnRecord, Held

\* All that a step of this resource does, for itself and for the others.
LEMMA OwnStep ==
    ASSUME Client = "http", Settled, [Next]_vars
    PROVE  /\ Settled' /\ ServiceStep
           /\ SpecIDs \subseteq {0} =>
                \A id \in Held' : id \in Held \cup {0} \/ issued < id
           /\ "vanish" \notin Env =>
                \A id : HasID(tenants, id) /\ ~HasID(tenants', id) =>
                  /\ id \in Held
                  /\ id = ncp.status.planeID => ncp.deletionTimestamp
  <1>1. TypeOK /\ SafetyInv /\ GuardInv /\ Agreed /\ issued \in Nat
    BY DEF Settled, TypeOK
  <1>2. TypeOK' /\ SafetyInv' /\ GuardInv'
    BY <1>1, TypeNext, InvNext, GuardNext
  <1>3. HttpStep
    BY <1>1, <1>2, StepEffects DEF HttpStep
  <1>4. Agreed'
    BY <1>3, HistoryStep, OnRecordStep, EstablishedStep DEF Agreed
  <1>5. faults' \in 0..MaxFaults /\ edits' \in 0..MaxEdits
    BY <1>2 DEF TypeOK
  <1> QED
    BY <1>1, <1>2, <1>3, <1>4, <1>5, ServedStep, HeldStep, StopStep DEF Settled
===============================================================================
