------------------------------ MODULE MCManagers ------------------------------
(***************************************************************************)
(* An instance of Managers for TLC.                                        *)
(***************************************************************************)
EXTENDS Managers

\* Nothing is stored as <cluster>-ca beforehand.
NoSecret == {[type |-> "none", crt |-> 0, key |-> FALSE]}
===============================================================================
