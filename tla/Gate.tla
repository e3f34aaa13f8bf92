-------------------------------- MODULE Gate --------------------------------
(***************************************************************************)
(* engine/gate.py and what it asks of its oracles: the one decision that   *)
(* accepts a rewrite.  A reading is what the oracles would find out about  *)
(* one (original, variant) pair; a policy is the part of Config the gate   *)
(* obeys.                                                                  *)
(***************************************************************************)
EXTENDS Integers

Measurement == [gain : Int, regressed : BOOLEAN]

Reading == [build : {"ok", "orig_failed", "var_failed"},   \* of the harness
            same  : BOOLEAN,                       \* the differential test
            san   : {"clean", "tripped", "none"},  \* none: no usable build
            race  : BOOLEAN,                       \* ThreadSanitizer saw one
            first : Measurement, second : Measurement,
            meta  : {"na", "held", "broken"},      \* the metamorphic property
            tests : {"unusable", "pass", "fail"},  \* the project's own
            bench : {"failed", "slower", "faster"}]

Policy == [minRung : Int, minSpeedup : Int, confirm : BOOLEAN,
           metamorphic : BOOLEAN, tests : BOOLEAN, bench : BOOLEAN]

(* sanitizers.evaluate: rung 3 iff ASan/UBSan ran clean and TSan saw no    *)
(* race; a policy below 3 does not ask for the sanitizers at all.          *)
Rung(p, r) == IF p.minRung >= 3 /\ r.san = "clean" /\ ~r.race THEN 3 ELSE 1

(* performance._pareto: a p50 gain past the threshold and no regression.   *)
Wins(p, m) == m.gain >= p.minSpeedup /\ ~m.regressed

(* performance.compare: a win must be reproduced by a second measurement.  *)
Faster(p, r) == Wins(p, r.first) /\ (p.confirm => Wins(p, r.second))

(* The reported gain is the smaller of the two that agreed.                *)
Gain(p, r) == IF p.confirm /\ Faster(p, r) /\ r.second.gain < r.first.gain
                THEN r.second.gain ELSE r.first.gain

(* InvariantGate.decide: the early returns, in their order.                *)
HarnessReason(p, r) ==
    IF r.build = "orig_failed" THEN "skipped_unverifiable"
    ELSE IF r.build = "var_failed" THEN "build_failed"
    ELSE IF ~r.same THEN "changed_output"
    ELSE IF Rung(p, r) < p.minRung THEN "unsafe"
    ELSE IF ~Faster(p, r) THEN "slower"
    ELSE IF p.metamorphic /\ r.meta = "broken" THEN "metamorphic_failed"
    ELSE IF p.tests /\ r.tests = "fail" THEN "tests_failed"
    ELSE "accepted"

(* _decide_via_tests: the project's own tests, then its own bench.         *)
TestsReason(p, r) ==
    IF ~p.tests \/ r.tests = "unusable" THEN "skipped_unverifiable"
    ELSE IF r.tests = "fail" THEN "tests_failed"
    ELSE IF ~p.bench \/ r.bench = "failed" THEN "perf_unproven"
    ELSE IF r.bench = "slower" THEN "slower"
    ELSE "accepted"

(* The verdict.  `sound` is the orchestrator's condition for writing it:   *)
(* sanitizer-clean, or confirmed by the project's tests.                   *)
Decide(mode, p, r) ==
    LET reason == IF mode = "tests" THEN TestsReason(p, r) ELSE HarnessReason(p, r)
    IN  [accepted |-> reason = "accepted",
         reason   |-> reason,
         rung     |-> IF mode = "tests" THEN 1 ELSE Rung(p, r),
         gain     |-> IF mode = "tests" THEN r.first.gain ELSE Gain(p, r),
         sound    |-> IF mode = "tests" THEN reason = "accepted" ELSE Rung(p, r) >= 3]

-----------------------------------------------------------------------------
(* What the harness must have shown of a rewrite, said without the gate:   *)
(* it builds, does the same and measures faster twice over, and neither    *)
(* the metamorphic property nor the project's tests speak against it.      *)
Shown(p, r) ==
    /\ r.build = "ok" /\ r.same /\ Faster(p, r)
    /\ ~(p.metamorphic /\ r.meta = "broken")
    /\ ~(p.tests /\ r.tests = "fail")

(* What it takes to call one proven: that, and a clean run under every     *)
(* sanitizer; or the project's own tests and bench say so.                 *)
Proven(mode, p, r) ==
    IF mode = "tests"
      THEN r.tests = "pass" /\ r.bench = "faster"
      ELSE Shown(p, r) /\ r.san = "clean" /\ ~r.race
=============================================================================
