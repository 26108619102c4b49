---------------------------- MODULE MCScheduler ----------------------------
(* Small instances of Scheduler for TLC. *)
EXTENDS Scheduler, TLC

CONSTANTS a1, a2, w1, w2, r1, r2

MCAccounts == {a1, a2}
MCJobs == {1, 2, 3}
MCOwner == (1 :> a1) @@ (2 :> a1) @@ (3 :> a2)
MCWorkers == {w1, w2}
OneAccount == {a1}
OneAccountJobs == {1, 2}
OneAccountOwner == [j \in OneAccountJobs |-> a1]
OneAccountBoot == {1}
MCOneWorker == {w1}
MCRequesters == {r1, r2}
MCOpenOnly == {"open"}
MCAllGates == Gates
MCBootJobs == {1, 3}
Symmetry == Permutations(MCWorkers) \cup Permutations(MCRequesters)
=============================================================================
