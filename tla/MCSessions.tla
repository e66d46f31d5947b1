----------------------------- MODULE MCSessions -----------------------------
(***************************************************************************)
(* Accounts and handlers for the runs of Sessions.                         *)
(***************************************************************************)
EXTENDS Sessions

CONSTANTS c1, c2
=============================================================================
