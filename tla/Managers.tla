-------------------------------- MODULE Managers --------------------------------
(***************************************************************************)
(* Two manager processes at work on one resource.  --leader-elect is off   *)
(* unless the deployment sets it, and a leader that stalls may wake up     *)
(* after another has taken over; both are behaviours of this module, which *)
(* lets managers A and B reconcile side by side.                           *)
(*                                                                         *)
(* A and B are two copies of ControlPlane that share the API server and    *)
(* the service.  Each has an informer, a queue and a reconcile in flight   *)
(* of its own, and each is sent every change that the other makes.  What   *)
(* fails here is what the other manager makes fail: lost calls and crashes *)
(* are left to ControlPlane.                                               *)
(***************************************************************************)
EXTENDS Sequences

CONSTANTS Client, Names, Versions, MaxPlanes, Name, Env, SpecIDs, InitialTenants,
          InitialIssued, InitialCASecrets, MaxLag, MaxFaults, MaxEdits

\* Both caches of the Secrets follow at once.
ASSUME NoLag == MaxLag = 0

VARIABLES
    \* Shared
    ncp, rv, kubeconfigSecret, caSecret, cluster, creds, tenants, issued,
    faults, edits,
    \* Manager A
    watchA, secretCacheA, secretWatchA, cacheA, queuedA, timerA, pcA, objA,
    pidA, planeA, kubeconfigA, lateA,
    \* Manager B
    watchB, secretCacheB, secretWatchB, cacheB, queuedB, timerB, pcB, objB,
    pidB, planeB, kubeconfigB, lateB

sharedVars == <<ncp, rv, kubeconfigSecret, caSecret, cluster, creds, tenants,
                issued, faults, edits>>
processA == <<cacheA, queuedA, timerA, pcA, objA, pidA, planeA, kubeconfigA,
              lateA>>
processB == <<cacheB, queuedB, timerB, pcB, objB, pidB, planeB, kubeconfigB,
              lateB>>
informersA == <<watchA, secretCacheA, secretWatchA>>
informersB == <<watchB, secretCacheB, secretWatchB>>

vars == <<sharedVars, processA, informersA, processB, informersB>>

A == INSTANCE ControlPlane WITH
        watch <- watchA, secretCache <- secretCacheA,
        secretWatch <- secretWatchA, cache <- cacheA, queued <- queuedA,
        timer <- timerA, pc <- pcA, obj <- objA, pid <- pidA, plane <- planeA,
        kubeconfig <- kubeconfigA, late <- lateA

B == INSTANCE ControlPlane WITH
        watch <- watchB, secretCache <- secretCacheB,
        secretWatch <- secretWatchB, cache <- cacheB, queued <- queuedB,
        timer <- timerB, pc <- pcB, obj <- objB, pid <- pidB, plane <- planeB,
        kubeconfig <- kubeconfigB, late <- lateB

Init == A!Init /\ B!Init

\* What a step of the other manager or of the outside makes the informers of
\* A, or of B, see.
InformedA ==
    /\ watchA' = IF ncp' = ncp THEN watchA ELSE Append(watchA, ncp')
    /\ secretCacheA' = [kubeconfig |-> kubeconfigSecret', ca |-> caSecret']
    /\ UNCHANGED secretWatchA

InformedB ==
    /\ watchB' = IF ncp' = ncp THEN watchB ELSE Append(watchB, ncp')
    /\ secretCacheB' = [kubeconfig |-> kubeconfigSecret', ca |-> caSecret']
    /\ UNCHANGED secretWatchB

Seen == InformedB /\ UNCHANGED processB     \* by B, of a step of A
SeenToo == InformedA /\ UNCHANGED processA  \* by A, of a step of B
Unseen == UNCHANGED <<processB, informersB>>
UnseenToo == UNCHANGED <<processA, informersA>>

ReconcileA == A!ReconcileStep /\ Seen
ReconcileB == B!ReconcileStep /\ SeenToo

ManagerA == A!Manager /\ Unseen
ManagerB == B!Manager /\ UnseenToo

Outside == A!Outside /\ Seen

Next == ReconcileA \/ ReconcileB \/ ManagerA \/ ManagerB \/ Outside

(***************************************************************************)
(* Fair as in ControlPlane: each process executes, each informer and the   *)
(* outside do their part.  One condition for several actions is the weaker *)
(* assumption, and enough: timers and reconciles alternate, and the events *)
(* to be delivered come to an end.                                         *)
(***************************************************************************)
Fairness ==
    /\ WF_vars(ReconcileA \/ (A!TimerFires /\ Unseen))
    /\ WF_vars(ReconcileB \/ (B!TimerFires /\ UnseenToo))
    /\ WF_vars(\/ A!Deliver /\ Unseen
               \/ B!Deliver /\ UnseenToo
               \/ (A!SetOwner \/ A!Provision) /\ Seen)

FairSpec == Init /\ [][Next]_vars /\ Fairness
-------------------------------------------------------------------------------
\* Neither manager lets go of the resource while the plane on record runs,
\* although the other may delete, persist or publish at the same time.
ReleasedByEither == A!ReleasedBeforeForgotten

\* No write of one manager undoes the status the other has written.
StatusNeverRegressesByEither == A!StatusNeverRegresses

\* initialized is written by one manager on the strength of secrets that the
\* other may be writing.
PublishedByEither == A!InitializedImpliesPublished

\* The two never keep each other from converging: of two creates one fails,
\* of two writes one conflicts, and what the losers retry comes to rest.
ConvergesTogether == A!Converges
===============================================================================
