----------------------------- MODULE MCHotspots -----------------------------
(* Small instances of Hotspots for TLC: two functions the harness drives,  *)
(* one that only the project's tests reach, a rule that fires on one of    *)
(* them, and one reading for each way through the gate.                    *)
EXTENDS Hotspots
CONSTANTS f1, f2, g, src, m1, m2

(* A rule rewrites the original text of f1; f2 matches a rule that         *)
(* --transforms disables, so the sensor names it and no rule offers.       *)
MCRule == [f \in {f1, f2, g} |-> [t \in Text |->
             IF f # f2 /\ t = src THEN m1 ELSE Nothing]]

Slow == [gain |-> 1, regressed |-> FALSE]
Fast == [gain |-> 4, regressed |-> FALSE]
VeryFast == [gain |-> 9, regressed |-> FALSE]

Good == [build |-> "ok", same |-> TRUE, san |-> "clean", race |-> FALSE,
         first |-> Fast, second |-> Fast, meta |-> "held", tests |-> "pass",
         bench |-> "faster"]

MCReadings ==
    {Good,
     [Good EXCEPT !.first = VeryFast, !.second = VeryFast],
     [Good EXCEPT !.build = "var_failed"],
     [Good EXCEPT !.same = FALSE],
     [Good EXCEPT !.san = "tripped"],
     [Good EXCEPT !.race = TRUE],
     [Good EXCEPT !.second = Slow, !.bench = "slower"],
     [Good EXCEPT !.meta = "broken"],
     [Good EXCEPT !.tests = "fail"],
     [Good EXCEPT !.tests = "unusable", !.first.regressed = TRUE]}

Strict == [minRung |-> 3, minSpeedup |-> 2, confirm |-> TRUE, metamorphic |-> TRUE,
           tests |-> TRUE, bench |-> TRUE]
Quick == [Strict EXCEPT !.minRung = 1, !.tests = FALSE]

Run(a, model, policy) == [apply |-> a, force |-> FALSE, refine |-> FALSE,
                         model |-> model, policy |-> policy]

(* optimize --apply, --apply --fast, --refine without --apply, and under   *)
(* the rule proposer a dry run and --apply --fast --force.                 *)
MCOptions ==
    {Run(TRUE, "local", Strict), Run(TRUE, "local", Quick), Run(FALSE, "rules", Strict),
     [Run(FALSE, "local", Strict) EXCEPT !.refine = TRUE],
     [Run(TRUE, "rules", Quick) EXCEPT !.force = TRUE]}
=============================================================================
