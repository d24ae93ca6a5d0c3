---------------------------- MODULE PlaneLifecycle ----------------------------
(***************************************************************************)
(* What the provider promises about one resource and the planes it pays    *)
(* for, without caches, conflicts, retries or crashes:                     *)
(*                                                                         *)
(*   - a plane is started only for a guarded resource that has none on     *)
(*     record, or whose plane on record somebody else has stopped, or by a *)
(*     request that was given up earlier;                                  *)
(*   - what goes on record is a plane that runs, or one the user named;    *)
(*   - a resource is published only with a plane on record, never again    *)
(*     unpublished, and never published while it is being deleted;         *)
(*   - no plane is stopped but the one on record, and that only for the    *)
(*     deletion of the resource;                                           *)
(*   - the guard, the finalizer, is given up only when that plane is gone. *)
(***************************************************************************)
EXTENDS Naturals

CONSTANTS
    Named,        \* IDs of planes that users may name in the spec
    MayVanish     \* whether planes may be stopped by somebody else

VARIABLES
    resource,     \* "absent", "applied" or "guarded"
    deleting,     \* its deletion has been requested
    record,       \* the plane on record, 0 if none
    published,    \* workers may join
    planes,       \* the planes that run
    started,      \* number of planes ever started: their IDs are 1..started
    asked         \* a request for a plane was given up and is still under way

vars == <<resource, deleting, record, published, planes, started, asked>>
resourceVars == <<resource, deleting, record, published>>
serviceVars == <<planes, started, asked>>

Init ==
    /\ resource = "applied"
    /\ deleting = FALSE
    /\ record = 0
    /\ published = FALSE
    /\ started \in Nat
    /\ planes \in SUBSET (1..started)
    /\ asked = FALSE

Apply ==
    /\ resource = "absent"
    /\ resource' = "applied"
    /\ UNCHANGED <<deleting, record, published, serviceVars>>

Guard ==
    /\ resource = "applied" /\ ~deleting
    /\ resource' = "guarded"
    /\ UNCHANGED <<deleting, record, published, serviceVars>>

Ask ==
    /\ resource = "guarded"
    /\ asked' = TRUE
    /\ UNCHANGED <<resourceVars, planes, started>>

Start ==
    /\ \/ /\ resource = "guarded"
          /\ record = 0 \/ (MayVanish /\ record \notin planes)
          /\ UNCHANGED asked
       \/ asked /\ asked' = FALSE
    /\ started' = started + 1
    /\ planes' = planes \cup {started'}
    /\ UNCHANGED resourceVars

\* The request that was given up is refused.
Refuse ==
    /\ asked
    /\ asked' = FALSE
    /\ UNCHANGED <<resourceVars, planes, started>>

Runs(id) == id \in planes \/ (MayVanish /\ id \in 1..started)

Record ==
    /\ resource = "guarded" /\ ~deleting
    /\ record = 0
    /\ \E id \in 1..started : Runs(id) /\ record' = id
    /\ UNCHANGED <<resource, deleting, published, serviceVars>>

Publish ==
    /\ resource = "guarded" /\ ~deleting
    /\ record' \in {record} \cup Named
    /\ record' # 0 /\ (published \/ Runs(record'))
    /\ published' = TRUE
    /\ UNCHANGED <<resource, deleting, serviceVars>>

Removed ==
    /\ resource' = "absent"
    /\ deleting' = FALSE
    /\ record' = 0
    /\ published' = FALSE

Delete ==
    /\ resource # "absent" /\ ~deleting
    /\ \/ deleting' = TRUE /\ UNCHANGED <<resource, record, published>>
       \/ resource = "applied" /\ Removed
    /\ UNCHANGED serviceVars

Stop ==
    /\ resource = "guarded" /\ deleting
    /\ planes' = planes \ {record}
    /\ UNCHANGED <<resourceVars, started, asked>>

Forget ==
    /\ resource = "guarded" /\ deleting
    /\ record \notin planes
    /\ \/ resource' = "applied" /\ UNCHANGED <<deleting, record, published>>
       \/ Removed
    /\ UNCHANGED serviceVars

\* The last hold of somebody else on an unguarded resource is released.
Collect ==
    /\ resource = "applied" /\ deleting
    /\ Removed
    /\ UNCHANGED serviceVars

Vanish ==
    /\ MayVanish
    /\ \E id \in planes : planes' = planes \ {id}
    /\ UNCHANGED <<resourceVars, started, asked>>

Next ==
    \/ Apply \/ Guard \/ Ask \/ Start \/ Refuse \/ Record \/ Publish
    \/ Delete \/ Stop \/ Forget \/ Collect \/ Vanish

Spec == Init /\ [][Next]_vars
===============================================================================
