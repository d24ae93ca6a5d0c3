----------------------------- MODULE MCSharedName -----------------------------
(***************************************************************************)
(* An instance of SharedName for TLC.                                      *)
(***************************************************************************)
EXTENDS SharedName

\* Nothing is stored as <cluster>-ca beforehand.
NoSecret == {[type |-> "none", crt |-> 0, key |-> FALSE]}
===============================================================================
