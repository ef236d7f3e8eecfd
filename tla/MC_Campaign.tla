---------------------------- MODULE MC_Campaign ----------------------------
(* Small instances of Campaign for TLC: the constants are numbers that the *)
(* configurations give. A child whose time has come to its end waits for   *)
(* ever, so that these runs do not look for deadlocks.                     *)
EXTENDS Campaign
=============================================================================
