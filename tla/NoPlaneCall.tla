------------------------------ MODULE NoPlaneCall ------------------------------
(***************************************************************************)
(* What a call of noplane.ClientInterface promises its caller, whatever    *)
(* lies between the two: the request is carried out at one instant or not  *)
(* at all, and an answer without an error is the one NoPlaneClient gives   *)
(* for the tenants of that instant.  An error promises nothing: the        *)
(* request may have been carried out, and one that was given up may still  *)
(* be.  But nothing goes wrong by itself: faults counts the causes.        *)
(*                                                                         *)
(* The actions of ControlPlane that call the service are this module with  *)
(* the instant and the answer taken together; what they leave out is       *)
(* CallFails and LateCreate there.                                         *)
(***************************************************************************)
EXTENDS NoPlaneClient

CONSTANTS
    Keys,         \* API keys a client may be made with
    ValidKeys     \* the ones the service accepts

VARIABLES
    tenants, issued,  \* the service, as in ControlPlane
    faults,           \* number of things that went wrong
    calls,            \* number of calls made
    call,             \* the call in progress, or NoCall
    open,             \* requests that may still be carried out
    outcome,          \* what the call in progress will answer, or Pending
    answer            \* what the last call answered

vars == <<tenants, issued, faults, calls, call, open, outcome, answer>>
-------------------------------------------------------------------------------
IDs == 0..MaxPlanes

Calls ==
    [op : {"CreatePlane"}, id : {NoID}, name : Names, version : Versions,
     key : Keys]
    \cup
    [op : {"GetPlane", "DeletePlane", "GetKubeconfig"}, id : IDs,
     name : {Empty}, version : {Empty}, key : Keys]
    \cup
    [op : {"GetPlaneByName"}, id : {NoID}, name : Names, version : {Empty},
     key : Keys]

NoCall == [op |-> Empty, id |-> NoID, name |-> Empty, version |-> Empty,
           key |-> Empty]

Answers == [err : {"nil", "error"}, planes : SUBSET Plane, kubeconfig : Nat]

Success(planes, id) == [err |-> "nil", planes |-> planes, kubeconfig |-> id]
Failed == [err |-> "error", planes |-> {}, kubeconfig |-> NoID]
Pending == [err |-> Empty, planes |-> {}, kubeconfig |-> NoID]

Found(planes) == IF planes = {} THEN Failed ELSE Success(planes, NoID)

\* The tenants after call c, and its answer, when it is carried out with
\* tenants ts and k IDs issued.
Grants(c, ts, k) ==
    /\ c.key \in ValidKeys
    /\ \/ c.op = "CreatePlane" /\ CreatePlaneErr(ts, c.name, k) = "nil"
       \/ c.op = "DeletePlane" /\ DeletePlaneErr(ts, c.id) = "nil"
       \/ c.op = "GetKubeconfig" /\ GetKubeconfigErr(ts, c.id) = "nil"
       \/ c.op \in {"GetPlane", "GetPlaneByName"}

After(c, ts, k) ==
    CASE Grants(c, ts, k) /\ c.op = "CreatePlane" ->
            Created(ts, c.name, c.version, k)
      [] Grants(c, ts, k) /\ c.op = "DeletePlane" -> Deleted(ts, c.id)
      [] OTHER -> ts

IssuedAfter(c, ts, k) ==
    IF Grants(c, ts, k) /\ c.op = "CreatePlane" THEN k + 1 ELSE k

Answer(c, ts, k) ==
    CASE ~Grants(c, ts, k) -> Failed
      [] Grants(c, ts, k) /\ c.op = "CreatePlane" ->
            Success({tenantToPlane(t) : t \in After(c, ts, k) \ ts}, NoID)
      [] Grants(c, ts, k) /\ c.op = "DeletePlane" -> Success({}, NoID)
      [] Grants(c, ts, k) /\ c.op = "GetKubeconfig" ->
            Success({}, KubeconfigOf(c.id))
      [] Grants(c, ts, k) /\ c.op = "GetPlane" -> Found(GetPlane(ts, c.id))
      [] OTHER -> Found(GetPlaneByName(ts, c.name))
-------------------------------------------------------------------------------
Init ==
    /\ tenants = {}
    /\ issued = 0
    /\ faults = 0
    /\ calls = 0
    /\ call = NoCall
    /\ open = {}
    /\ outcome = Pending
    /\ answer = Pending

Invoke ==
    /\ call = NoCall
    /\ call' \in Calls
    /\ calls' = calls + 1
    /\ open' = open \cup {[n |-> calls + 1, call |-> call']}
    /\ UNCHANGED <<tenants, issued, faults, outcome, answer>>

\* r is what the call in progress waits for.
Awaited(r) == call # NoCall /\ r.n = calls /\ outcome = Pending

Answered(r, a) == outcome' = IF Awaited(r) THEN a ELSE outcome

Effect(r) ==
    /\ open' = open \ {r}
    /\ tenants' = After(r.call, tenants, issued)
    /\ issued' = IssuedAfter(r.call, tenants, issued)

CarryOut(r) ==
    /\ Effect(r)
    /\ Answered(r, Answer(r.call, tenants, issued))
    /\ UNCHANGED <<faults, calls, call, answer>>

\* Carried out, discarded, or neither yet: an error, or no answer at all.
GoWrong(r) ==
    /\ faults' = faults + 1
    /\ \/ Effect(r)
       \/ open' = open \ {r} /\ UNCHANGED <<tenants, issued>>
       \/ UNCHANGED <<open, tenants, issued>>
    /\ Answered(r, Failed) \/ UNCHANGED outcome
    /\ UNCHANGED <<calls, call, answer>>

Return ==
    /\ call # NoCall
    /\ \/ outcome # Pending /\ answer' = outcome /\ UNCHANGED faults
       \/ answer' = Failed /\ faults' = faults + 1
    /\ call' = NoCall
    /\ outcome' = Pending
    /\ UNCHANGED <<tenants, issued, calls, open>>

Provision ==
    /\ \E t \in tenants :
        /\ ~t.hostname
        /\ tenants' = (tenants \ {t}) \cup {[t EXCEPT !.hostname = TRUE]}
    /\ UNCHANGED <<issued, faults, calls, call, open, outcome, answer>>

Next ==
    \/ Invoke \/ Return \/ Provision
    \/ \E r \in open : CarryOut(r) \/ GoWrong(r)

Spec == Init /\ [][Next]_vars
===============================================================================
