--------------------------- MODULE MCEntraSession ---------------------------
(* Small instances of EntraSession for TLC. *)
EXTENDS EntraSession, TLC

CONSTANTS tick, request, login

MCCallers == {tick, request}
MCSignIns == {login}
=============================================================================
