--------------------------- MODULE MCAccountPause ---------------------------
(* Small instances of AccountPause for TLC. *)
EXTENDS AccountPause

MCPasswords == {"old", "new"}
MCGood == {"new"}
AllHandlers == {"password", "link", "ban", "unban", "reanudar", "period"}
PeriodOnly == {"period"}
=============================================================================
