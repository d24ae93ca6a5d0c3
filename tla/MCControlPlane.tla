---------------------------- MODULE MCControlPlane ----------------------------
(***************************************************************************)
(* Instances of ControlPlane for TLC.                                      *)
(***************************************************************************)
EXTENDS ControlPlane

\* What <cluster>-ca may hold before the controller first runs: nothing, or a
\* secret of another type that an earlier version or a user left there.
NoSecret == {NoCASecret}
PriorSecrets == {NoCASecret, OpaqueCASecret,
                 [type |-> "cluster", crt |-> NoID, key |-> FALSE]}
NoneOrOpaque == {NoCASecret, OpaqueCASecret}

\* A tenant that somebody made with another tool, for brownfield adoption.
OtherTenant == {[id |-> 1, name |-> "other", version |-> "v1", hostname |-> TRUE]}
===============================================================================
