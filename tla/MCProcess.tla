------------------------------ MODULE MCProcess ------------------------------
(* Small instances of Process for TLC. *)
EXTENDS Process, TLC

MCIds == 1..3
MCOrder == <<"north", "south">>
MCSids == 1..5
MCJobs == {1, 2}
MCOwner == [j \in MCJobs |-> "user"]
=============================================================================
