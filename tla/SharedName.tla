------------------------------- MODULE SharedName -------------------------------
(***************************************************************************)
(* Two resources of one name, in two namespaces or two management          *)
(* clusters, under one noplane.io account.  resolvePlaneID names the       *)
(* tenant after metadata.name alone, so both ask for the same tenant.      *)
(*                                                                         *)
(* A and B are two copies of ControlPlane that share the service and       *)
(* nothing else.                                                           *)
(***************************************************************************)
EXTENDS Naturals

CONSTANTS Client, Names, Versions, MaxPlanes, Name, Env, SpecIDs, InitialTenants,
          InitialIssued, InitialCASecrets, MaxLag, MaxFaults, MaxEdits

VARIABLES
    \* The service, and the bounds
    tenants, issued, faults, edits,
    \* Resource A, its cluster and its reconcile
    ncpA, rvA, watchA, kubeconfigSecretA, caSecretA, secretCacheA, secretWatchA,
    clusterA, credsA, cacheA, queuedA, timerA, pcA, objA, pidA, planeA,
    kubeconfigA, lateA,
    \* Resource B, its cluster and its reconcile
    ncpB, rvB, watchB, kubeconfigSecretB, caSecretB, secretCacheB, secretWatchB,
    clusterB, credsB, cacheB, queuedB, timerB, pcB, objB, pidB, planeB,
    kubeconfigB, lateB

varsA == <<ncpA, rvA, watchA, kubeconfigSecretA, caSecretA, secretCacheA,
           secretWatchA, clusterA, credsA, cacheA, queuedA, timerA, pcA, objA,
           pidA, planeA, kubeconfigA, lateA>>
varsB == <<ncpB, rvB, watchB, kubeconfigSecretB, caSecretB, secretCacheB,
           secretWatchB, clusterB, credsB, cacheB, queuedB, timerB, pcB, objB,
           pidB, planeB, kubeconfigB, lateB>>
vars == <<tenants, issued, faults, edits, varsA, varsB>>

A == INSTANCE ControlPlane WITH
        ncp <- ncpA, rv <- rvA, watch <- watchA,
        kubeconfigSecret <- kubeconfigSecretA, caSecret <- caSecretA,
        secretCache <- secretCacheA, secretWatch <- secretWatchA,
        cluster <- clusterA, creds <- credsA, cache <- cacheA,
        queued <- queuedA, timer <- timerA, pc <- pcA, obj <- objA,
        pid <- pidA, plane <- planeA, kubeconfig <- kubeconfigA, late <- lateA

B == INSTANCE ControlPlane WITH
        ncp <- ncpB, rv <- rvB, watch <- watchB,
        kubeconfigSecret <- kubeconfigSecretB, caSecret <- caSecretB,
        secretCache <- secretCacheB, secretWatch <- secretWatchB,
        cluster <- clusterB, creds <- credsB, cache <- cacheB,
        queued <- queuedB, timer <- timerB, pc <- pcB, obj <- objB,
        pid <- pidB, plane <- planeB, kubeconfig <- kubeconfigB, late <- lateB

\* The assumptions of ControlPlane on its constants.
ASSUME ConstantsAssumption ==
    /\ Client \in {"http", "fake"} /\ MaxPlanes \in Nat
    /\ A!Empty \notin Names /\ A!Empty \notin Versions /\ Name \in Names
    /\ SpecIDs \subseteq Nat
    /\ InitialTenants \subseteq A!Tenant /\ InitialIssued \in Nat
    /\ \A t \in InitialTenants : t.id <= InitialIssued
    /\ InitialCASecrets \subseteq A!CASecret
    /\ MaxLag \in Nat /\ MaxFaults \in Nat /\ MaxEdits \in Nat

Init == A!Init /\ B!Init

StepA == A!Next /\ UNCHANGED varsB
StepB == B!Next /\ UNCHANGED varsA

Next == StepA \/ StepB

Spec == Init /\ [][Next]_vars
-------------------------------------------------------------------------------
\* The invariant of each resource, and that no plane is in the hands of both,
\* not even in a copy that is out of date or in a create that was answered and
\* not yet recorded.
SharedInv ==
    /\ A!Settled /\ B!Settled
    /\ A!Held \cap B!Held \subseteq {A!NoID}

\* The resource that comes second to the name never takes the plane of the
\* first for its own: the refusal of its create is not read as a conflict
\* that adoption by name would settle.
NoSharedPlane ==
    ncpA.status.planeID = A!NoID \/ ncpA.status.planeID # ncpB.status.planeID

KeepsPlane(o) ==
    A!HasID(tenants, o.status.planeID) /\ ~o.deletionTimestamp
        => A!HasID(tenants', o.status.planeID)

\* reconcileDelete of one resource never deletes the plane that the other,
\* which nobody is deleting, has on record.
OwnPlaneOnly == [][KeepsPlane(ncpA) /\ KeepsPlane(ncpB)]_vars
===============================================================================
