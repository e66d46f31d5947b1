----------------------------- MODULE MCSchedule -----------------------------
(***************************************************************************)
(* Two expressions and every patch of the switch and the expression; the   *)
(* other settings are stored and copied in the same way.                   *)
(***************************************************************************)
EXTENDS Schedule

MCValues == [syncEnabled : BOOLEAN, syncCron : Crons]

MCDefaults == [syncEnabled |-> FALSE, syncCron |-> "nightly"]

MCPatches == MCValues \cup [syncEnabled : BOOLEAN] \cup [syncCron : Crons]
=============================================================================
