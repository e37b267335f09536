------------------------------ MODULE MCAccess ------------------------------
(* A small instance of Access for TLC. *)
EXTENDS Access

\* One port range of one client.
OneScope == {[lo |-> 1, hi |-> 1]}
=============================================================================
