----------------------------- MODULE MCWorkers ------------------------------
(* Small instances of Workers for TLC.                                     *)
EXTENDS Workers, TLC

(* The oracle's use of the tree, the shared source path and the builds     *)
(* that share it are looked at apart: a build reads what its worker holds, *)
(* never the tree.  A run without --apply is one whose writes all fail, so *)
(* only two workers that share objects are looked at without it, because a *)
(* write would change the sources under them.                              *)
MCModes(jobs) == [jobs : jobs, tests : BOOLEAN, apply : BOOLEAN, ccache : BOOLEAN, san : BOOLEAN]
MCAllModes == {m \in MCModes({1, 2}) : /\ m.ccache # m.tests
                                       /\ m.san => m.ccache /\ m.jobs = 1
                                       /\ m.apply = (m.jobs = 1 \/ m.tests)}
MCParallelTests == {m \in MCModes({2}) : m.tests /\ ~m.ccache /\ ~m.san}

(* The workers of the pool differ only in their names.                     *)
MCSymmetry == Permutations(Worker)
=============================================================================
