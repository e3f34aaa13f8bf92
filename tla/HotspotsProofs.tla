--------------------------- MODULE HotspotsProofs ---------------------------
(***************************************************************************)
(* What the optimization loop guarantees for any number of functions,      *)
(* candidates, draws, repairs and runs, whatever the oracles read.         *)
(***************************************************************************)
EXTENDS Hotspots, TLAPS

(* Every verdict that makes a rewrite writable rests on a proof: gate and  *)
(* orchestrator together never call sound what the oracles did not show,   *)
(* not even under a policy that asks for less (--fast).                    *)
LEMMA SoundAcceptIsProven ==
  ASSUME NEW mo \in {"harness", "tests"}, NEW p \in Policy, NEW r \in Reading,
         Decide(mo, p, r).accepted, Decide(mo, p, r).sound
  PROVE  Proven(mo, p, r)
<1>1. CASE mo = "tests"
  <2>1. TestsReason(p, r) = "accepted"
    BY <1>1 DEF Decide
  <2>2. r.tests = "pass" /\ r.bench = "faster"
    BY <2>1 DEF TestsReason, Reading, Policy
  <2> QED
    BY <1>1, <2>2 DEF Proven
<1>2. CASE mo # "tests"
  <2>1. HarnessReason(p, r) = "accepted" /\ Rung(p, r) >= 3
    BY <1>2 DEF Decide
  <2>2. r.san = "clean" /\ ~r.race
    BY <2>1 DEF Rung
  <2>3. /\ r.build = "ok" /\ r.same /\ Faster(p, r)
        /\ ~(p.metamorphic /\ r.meta = "broken")
        /\ ~(p.tests /\ r.tests = "fail")
    BY <2>1 DEF HarnessReason, Reading, Policy
  <2> QED
    BY <1>2, <2>2, <2>3 DEF Proven, Shown
<1> QED
  BY <1>1, <1>2

-----------------------------------------------------------------------------
(* The best candidate of a hotspot is backed by a verdict of this round,   *)
(* or is the stored verdict of a dry run.                                  *)
BestIsGated ==
  best # Nothing =>
    \/ ~opts.apply /\ best.basis = Nothing
    \/ /\ best.basis \in Readings
       /\ Decide(mode, opts.policy, best.basis).accepted
       /\ best.sound = Decide(mode, opts.policy, best.basis).sound

(* There is none before the hotspot has been looked up, nor without an     *)
(* attempt.                                                                *)
BestNeedsAttempt ==
  /\ pc \in {"idle", "sense", "lookup", "ended"} => best = Nothing
  /\ ~tried => best = Nothing

(* A function being processed has not been processed before; no round has  *)
(* been completed before the first function is processed.                  *)
HotspotIsNew ==
  /\ verdicts \in [Func \cup {Stem} -> Nat]
  /\ sym \in Func \cup {Stem} /\ visited \subseteq Func \cup {Stem}
  /\ round \in Nat /\ (round = 0 => visited = {})
  /\ \A f \in Func \cup {Stem} : verdicts[f] = IF f \in visited THEN 1 ELSE 0
  /\ pc \in {"lookup", "floor", "rule", "draw", "repair", "conclude"} => sym \notin visited

LoopInv == /\ opts \in Options /\ mode \in {"harness", "tests"}
           /\ BestIsGated /\ BestNeedsAttempt /\ HotspotIsNew

LEMMA InitLoopInv == Init => LoopInv
<1> SUFFICES ASSUME Init PROVE LoopInv
  OBVIOUS
<1>1. opts \in Options /\ mode \in {"harness", "tests"} /\ BestIsGated /\ BestNeedsAttempt
  BY DEF Init, BestIsGated, BestNeedsAttempt
<1>2. HotspotIsNew
  BY DEF Init, HotspotIsNew
<1> QED
  BY <1>1, <1>2 DEF LoopInv

USE HotspotAssumption

(* One call of _evaluate leaves the best candidate gated.                  *)
LEMMA ConsiderKeepsGated ==
  ASSUME BestIsGated, opts \in Options, UNCHANGED <<opts, mode>>,
         NEW text, NEW why, Consider(text, why)
  PROVE  BestIsGated' /\ (best' # Nothing => tried' \/ best' = best) /\ (tried => tried')
<1> DEFINE v(r) == Decide(mode, opts.policy, r)
<1>1. CASE UNCHANGED best
  BY <1>1 DEF BestIsGated, Consider
<1>2. CASE best' # best
  <2>1. PICK r \in Readings : v(r).accepted /\ best' = Winner(text, v(r), r) /\ tried'
    BY <1>2 DEF Consider
  <2>2. best'.basis = r /\ best'.sound = v(r).sound
    BY <2>1 DEF Winner
  <2> QED
    BY <2>1, <2>2 DEF BestIsGated
<1> QED
  BY <1>1, <1>2

LEMMA NextLoopInv ==
  ASSUME LoopInv, [Next]_vars
  PROVE  LoopInv'
<1> USE DEF LoopInv
<1>1. CASE BeginRun
  BY <1>1 DEF BeginRun, FreshHotspot, BestIsGated, BestNeedsAttempt, HotspotIsNew
<1>2. CASE PickHotspot
  BY <1>2 DEF PickHotspot, hotVars, Selectable, Func, BestIsGated, BestNeedsAttempt, HotspotIsNew
<1>3. CASE NoHotspot
  BY <1>3 DEF NoHotspot, Ends, hotVars, BestIsGated, BestNeedsAttempt, HotspotIsNew
<1>4. CASE OutOfRounds \/ DrawNothing \/ DrawsDone \/ GiveUpRepair \/ MissCache \/ NothingProposed
  BY <1>4 DEF OutOfRounds, DrawNothing, DrawsDone, GiveUpRepair, MissCache,
     NothingProposed, Ends, hotVars, walkVars, BestIsGated, BestNeedsAttempt, HotspotIsNew
<1>5. CASE ReuseVerdict
  BY <1>5 DEF ReuseVerdict, walkVars, BestIsGated, BestNeedsAttempt, HotspotIsNew
<1>6. CASE VerifyCached
  <2>1. PICK e \in Hits, r \in Readings :
          best' = IF Decide(mode, opts.policy, r).accepted
                    THEN Winner(e.new, Decide(mode, opts.policy, r), r) ELSE Nothing
    BY <1>6 DEF VerifyCached
  <2>2. BestIsGated'
    BY <1>6, <2>1 DEF VerifyCached, walkVars, BestIsGated, Winner
  <2> QED
    BY <1>6, <2>2 DEF VerifyCached, walkVars, BestNeedsAttempt, HotspotIsNew
<1>7. CASE GateFloor \/ GateRule \/ Draw \/ Repair
  <2>1. /\ UNCHANGED <<opts, mode, round, visited, sym, verdicts>>
        /\ pc \in {"floor", "rule", "draw", "repair"}
        /\ pc' \in {"draw", "repair", "conclude"}
    BY <1>7 DEF GateFloor, GateRule, Draw, Repair, walkVars
  <2>2. UNCHANGED <<best, tried>> \/ \E text, why : Consider(text, why)
    BY <1>7 DEF GateFloor, GateRule, Draw, Repair
  <2>3. BestIsGated' /\ (~tried' => best' = Nothing)
    BY <2>1, <2>2, ConsiderKeepsGated DEF BestIsGated, BestNeedsAttempt
  <2> QED
    BY <2>1, <2>3 DEF BestNeedsAttempt, HotspotIsNew
<1>8. CASE ConcludeAccepted \/ ConcludeRejected
  <2>1. /\ best' = Nothing /\ tried' = FALSE /\ pc = "conclude" /\ pc' \in {"sense", "ended"}
        /\ UNCHANGED <<opts, sym, mode>> /\ round' = round + 1
        /\ visited' = visited \cup {sym}
        /\ verdicts' = [verdicts EXCEPT ![sym] = @ + 1]
    BY <1>8 DEF ConcludeAccepted, ConcludeRejected, FreshHotspot, Ends, MarkVisited, Reported
  <2>2. HotspotIsNew'
    BY <2>1 DEF HotspotIsNew
  <2> QED
    BY <2>1, <2>2 DEF BestIsGated, BestNeedsAttempt
<1>9. CASE UNCHANGED vars
  BY <1>9 DEF vars, hotVars, walkVars, BestIsGated, BestNeedsAttempt, HotspotIsNew
<1> QED
  BY <1>1, <1>2, <1>3, <1>4, <1>5, <1>6, <1>7, <1>8, <1>9 DEF Next, AllRunsDone

(* The loop invariant holds in every state.                                *)
THEOREM LoopInvariant == Spec => []LoopInv
<1> QED
  BY InitLoopInv, NextLoopInv, PTL DEF Spec

-----------------------------------------------------------------------------
(* orchestrator.py:214-224: every write of the loop is of a rewrite proven *)
(* in the same round, or was forced.                                       *)
THEOREM OnlyProvedWrites == Spec => WritesAreProved
<1>1. ASSUME LoopInv, Next, code' # code
      PROVE  /\ opts.apply /\ best.basis # Nothing
             /\ opts.force \/ Proven(mode, opts.policy, best.basis)
  <2>1. ConcludeAccepted
    BY <1>1 DEF Next, BeginRun, PickHotspot, NoHotspot, OutOfRounds, ReuseVerdict,
       VerifyCached, MissCache, GateFloor, GateRule, Draw, DrawNothing, DrawsDone, Repair,
       GiveUpRepair, NothingProposed, ConcludeRejected, AllRunsDone, vars
  <2>2. best # Nothing /\ opts.apply /\ (best.sound \/ opts.force)
    BY <1>1, <2>1 DEF ConcludeAccepted
  <2>3. /\ best.basis \in Readings
        /\ Decide(mode, opts.policy, best.basis).accepted
        /\ best.sound = Decide(mode, opts.policy, best.basis).sound
    BY <1>1, <2>2 DEF LoopInv, BestIsGated
  <2> QED
    BY <1>1, <2>2, <2>3, SoundAcceptIsProven DEF LoopInv
<1> QED
  BY LoopInvariant, <1>1, PTL DEF Spec, WritesAreProved

(* orchestrator.py:170-181, 197-199: no function is reported twice in a    *)
(* run, however the profile changes between rounds.                        *)
THEOREM NoFunctionTwice == Spec => []OncePerRun
<1>1. LoopInv => OncePerRun
  BY DEF LoopInv, HotspotIsNew, OncePerRun
<1> QED
  BY LoopInvariant, <1>1, PTL

-----------------------------------------------------------------------------
(* Type correctness needs to know more than the types: that a round in     *)
(* progress is not beyond the last, and that only a function the harness   *)
(* drives is processed in harness mode.                                    *)
Working == {"lookup", "floor", "rule", "draw", "repair", "conclude"}

WalkInv ==
  /\ mode = "harness" => sym \in Harness \cup {Stem}
  /\ noAccept <= round /\ (pc \in Working => round < MaxRounds)

TypeInv == HotTypeOK /\ WalkInv

LEMMA Limits ==
  /\ NumDraws \in Nat /\ RepairRounds \in Nat /\ MaxRounds \in Nat /\ MaxRuns \in Nat
  /\ RunLimit \in Nat /\ HotspotLimit \in Nat /\ MaxCall \in Nat /\ MaxCall > 0
  OBVIOUS

LEMMA VerdictTypes ==
  ASSUME NEW mo, NEW p \in Policy, NEW r \in Reading
  PROVE  /\ Decide(mo, p, r).gain \in Int /\ Decide(mo, p, r).rung \in {1, 3}
         /\ Decide(mo, p, r).sound \in BOOLEAN
<1>1. r.first.gain \in Int /\ r.second.gain \in Int
  BY DEF Reading, Measurement
<1>2. Gain(p, r) \in Int /\ Rung(p, r) \in {1, 3}
  BY <1>1 DEF Gain, Rung
<1>3. (Rung(p, r) >= 3) \in BOOLEAN
  BY <1>2
<1> QED
  BY <1>1, <1>2, <1>3 DEF Decide

LEMMA WinnerIsCandidate ==
  ASSUME opts \in Options, NEW text \in Text, NEW r \in Readings
  PROVE  Winner(text, Decide(mode, opts.policy, r), r) \in Candidate
<1>1. opts.policy \in Policy /\ r \in Reading
  OBVIOUS
<1>2. /\ Decide(mode, opts.policy, r).gain \in Int
      /\ Decide(mode, opts.policy, r).rung \in {1, 3}
      /\ Decide(mode, opts.policy, r).sound \in BOOLEAN
  BY <1>1, VerdictTypes
<1> QED
  BY <1>2 DEF Winner, Candidate

LEMMA ConsiderKeepsTypes ==
  ASSUME HotTypeOK, NEW text \in Text, NEW why, Consider(text, why)
  PROVE  /\ best' \in Candidate \cup {Nothing} /\ seen' \subseteq Text
         /\ tried' \in BOOLEAN
<1> USE DEF HotTypeOK, FileTypes, DrawTypes
<1>1. CASE UNCHANGED <<seen, best>>
  BY <1>1 DEF Consider
<1>2. CASE ~UNCHANGED <<seen, best>>
  <2>1. PICK r \in Readings :
          /\ seen' = seen \cup {text} /\ tried' = TRUE
          /\ \/ best' = Winner(text, Decide(mode, opts.policy, r), r)
             \/ best' = best
    BY <1>2 DEF Consider
  <2>2. Winner(text, Decide(mode, opts.policy, r), r) \in Candidate
    BY WinnerIsCandidate
  <2> QED
    BY <2>1, <2>2
<1> QED
  BY <1>1, <1>2

(* An accepted candidate stays in the pool or is beaten by a faster one.   *)
LEMMA AcceptedIsInPool ==
  ASSUME HotTypeOK, NEW text \in Text, Consider(text, "accepted")
  PROVE  best' \in Candidate
<1> USE DEF HotTypeOK, FileTypes, DrawTypes
<1> DEFINE v(r) == Decide(mode, opts.policy, r)
<1>1. PICK r \in Readings :
        /\ best' = IF v(r).accepted /\ Beats(v(r)) THEN Winner(text, v(r), r) ELSE best
        /\ v(r).reason = "accepted"
  BY DEF Consider
<1>2. v(r).accepted
  <2>1. v(r).accepted = (v(r).reason = "accepted")
    BY DEF Decide
  <2> QED
    BY <1>1, <2>1
<1>3. Winner(text, Decide(mode, opts.policy, r), r) \in Candidate
  BY WinnerIsCandidate
<1> QED
  BY <1>1, <1>2, <1>3 DEF Beats

LEMMA RuleRewriteIsText ==
  ASSUME HotTypeOK PROVE RuleRewrite \in Text \cup {Nothing}
  BY DEF HotTypeOK, FileTypes, WalkTypes, RuleRewrite

LEMMA InitTypeInv == Init => TypeInv
<1> SUFFICES ASSUME Init PROVE TypeInv
  OBVIOUS
<1>1. FileTypes
  BY DEF Init, FileTypes
<1>2. WalkTypes
  BY Limits DEF Init, WalkTypes
<1>3. DrawTypes
  <2>1. floor \in Int \cup {Nothing} /\ best \in Candidate \cup {Nothing}
    BY DEF Init
  <2>2. draws \in 0..NumDraws /\ repairs \in 0..RepairRounds /\ runTok \in Nat /\ hotTok \in Nat
    BY Limits DEF Init
  <2>3. seen \subseteq Text /\ tried \in BOOLEAN /\ cached \in BOOLEAN
    BY DEF Init
  <2> QED
    BY <2>1, <2>2, <2>3 DEF DrawTypes
<1>4. WalkInv
  BY DEF Init, WalkInv, Working
<1> QED
  BY <1>1, <1>2, <1>3, <1>4 DEF TypeInv, HotTypeOK

(* A fresh hotspot has well-typed, empty bookkeeping.                      *)
LEMMA FreshTypes ==
  ASSUME FreshHotspot, runTok' \in Nat, hotTok' \in Nat
  PROVE  DrawTypes'
<1>1. floor' \in Int \cup {Nothing} /\ best' \in Candidate \cup {Nothing}
  BY DEF FreshHotspot
<1>2. draws' \in 0..NumDraws /\ repairs' \in 0..RepairRounds
  BY Limits DEF FreshHotspot
<1>3. seen' \subseteq Text /\ tried' \in BOOLEAN /\ cached' \in BOOLEAN
  BY DEF FreshHotspot
<1> QED
  BY <1>1, <1>2, <1>3 DEF DrawTypes

LEMMA NextTypeInv ==
  ASSUME TypeInv, [Next]_vars
  PROVE  TypeInv'
<1> SUFFICES FileTypes' /\ WalkTypes' /\ DrawTypes' /\ WalkInv'
  BY DEF TypeInv, HotTypeOK
<1> USE DEF TypeInv, HotTypeOK
<1>1. CASE BeginRun
  <2>1. FileTypes'
    BY <1>1 DEF BeginRun, FileTypes
  <2>2. WalkTypes' /\ WalkInv'
    BY <1>1, Limits DEF BeginRun, WalkTypes, WalkInv, Working
  <2>3. DrawTypes'
    BY <1>1, FreshTypes DEF BeginRun
  <2> QED
    BY <2>1, <2>2, <2>3
<1>2. CASE PickHotspot \/ NoHotspot \/ OutOfRounds \/ NothingProposed
  <2>1. FileTypes' /\ DrawTypes'
    BY <1>2 DEF PickHotspot, NoHotspot, OutOfRounds, NothingProposed, hotVars, meterVars,
       FileTypes, DrawTypes
  <2>2. WalkTypes' /\ WalkInv'
    BY <1>2 DEF PickHotspot, NoHotspot, OutOfRounds, NothingProposed, Ends, Selectable,
       Func, WalkTypes, WalkInv, Working
  <2> QED
    BY <2>1, <2>2
<1>3. CASE DrawNothing \/ DrawsDone \/ GiveUpRepair \/ MissCache
  <2>1. FileTypes' /\ WalkTypes' /\ WalkInv'
    BY <1>3 DEF DrawNothing, DrawsDone, GiveUpRepair, MissCache, walkVars,
       FileTypes, WalkTypes, WalkInv, Working
  <2>2. DrawTypes'
    BY <1>3, Limits DEF DrawNothing, DrawsDone, GiveUpRepair, MissCache, Charge, hotVars,
       meterVars, DrawTypes
  <2> QED
    BY <2>1, <2>2
<1>4. CASE ReuseVerdict
  <2>1. PICK e \in Hits :
          best' = [text |-> e.new, gain |-> e.gain, rung |-> e.rung,
                   sound |-> e.rung >= 3, basis |-> Nothing]
    BY <1>4 DEF ReuseVerdict
  <2>2. e \in Entry
    BY DEF Hits, Entries, FileTypes
  <2>3. best' \in Candidate
    BY <2>1, <2>2 DEF Entry, Candidate
  <2>4. FileTypes' /\ WalkTypes' /\ WalkInv'
    BY <1>4 DEF ReuseVerdict, walkVars, FileTypes, WalkTypes, WalkInv, Working
  <2> QED
    BY <1>4, <2>3, <2>4 DEF ReuseVerdict, meterVars, DrawTypes
<1>5. CASE VerifyCached
  <2>1. PICK e \in Hits, r \in Readings :
          /\ seen' = {e.new}
          /\ best' = IF Decide(mode, opts.policy, r).accepted
                       THEN Winner(e.new, Decide(mode, opts.policy, r), r) ELSE Nothing
    BY <1>5 DEF VerifyCached
  <2>2. e.new \in Text /\ opts \in Options
    BY DEF Hits, Entries, FileTypes, Entry
  <2>3. Winner(e.new, Decide(mode, opts.policy, r), r) \in Candidate
    BY <2>2, WinnerIsCandidate
  <2>4. FileTypes' /\ WalkTypes' /\ WalkInv'
    BY <1>5 DEF VerifyCached, walkVars, FileTypes, WalkTypes, WalkInv, Working
  <2>5. best' \in Candidate \cup {Nothing} /\ seen' \subseteq Text
    BY <2>1, <2>2, <2>3
  <2>6. tried' = TRUE /\ cached' = TRUE /\ UNCHANGED <<floor, draws, repairs, meterVars>>
    BY <1>5 DEF VerifyCached
  <2>7. DrawTypes'
    BY <2>5, <2>6 DEF meterVars, DrawTypes
  <2> QED
    BY <2>4, <2>7
<1>6. CASE GateFloor \/ GateRule \/ Draw \/ Repair
  <2>1. /\ best' \in Candidate \cup {Nothing} /\ seen' \subseteq Text
        /\ tried' \in BOOLEAN
    <3>1. \/ UNCHANGED <<seen, best, tried>>
          \/ \E text \in Text : \E why : Consider(text, why)
      BY <1>6, RuleRewriteIsText DEF GateFloor, GateRule, Draw, Repair
    <3> QED
      BY <3>1, ConsiderKeepsTypes DEF DrawTypes
  <2>2. floor' \in Int \cup {Nothing}
    <3>1. CASE GateFloor
      <4>1. \/ floor' = floor
            \/ /\ RuleRewrite # Nothing /\ Consider(RuleRewrite, "accepted")
               /\ floor' = best'.gain
        BY <3>1 DEF GateFloor
      <4> QED
        BY <4>1, RuleRewriteIsText, AcceptedIsInPool DEF Candidate, DrawTypes
    <3>2. CASE ~GateFloor
      BY <1>6, <3>2 DEF GateRule, Draw, Repair, DrawTypes
    <3> QED
      BY <3>1, <3>2
  <2>3. FileTypes' /\ WalkTypes' /\ WalkInv'
    BY <1>6 DEF GateFloor, GateRule, Draw, Repair, walkVars, FileTypes, WalkTypes,
       WalkInv, Working
  <2>4. /\ draws' \in 0..NumDraws /\ repairs' \in 0..RepairRounds /\ cached' = cached
        /\ runTok' \in Nat /\ hotTok' \in Nat
    BY <1>6, Limits DEF GateFloor, GateRule, Draw, Repair, Charge, DrawTypes, meterVars
  <2>5. DrawTypes'
    BY <2>1, <2>2, <2>4 DEF DrawTypes
  <2> QED
    BY <2>3, <2>5
<1>7. CASE ConcludeAccepted
  <2>1. best \in Candidate
    BY <1>7 DEF ConcludeAccepted, DrawTypes
  <2>2. cache' \subseteq Entry
    <3>1. CASE cache' = cache
      BY <3>1 DEF FileTypes
    <3>2. CASE cache' # cache
      <4>1. HasSource /\ cache' = (cache \ Entries) \cup {NewEntry}
        BY <1>7, <3>2 DEF ConcludeAccepted, StoreBest
      <4>2. sym \in Harness /\ code[sym] \in Text
        BY <4>1 DEF HasSource, FileTypes, WalkInv, Func
      <4>3. opts.model \in STRING /\ opts.policy.minRung \in Int
        BY DEF FileTypes, Policy
      <4>4. NewEntry \in Entry
        BY <2>1, <4>2, <4>3 DEF NewEntry, Entry, Candidate
      <4> QED
        BY <4>1, <4>4 DEF FileTypes
    <3> QED
      BY <3>1, <3>2
  <2>3. code' \in [Func -> Text] /\ opts' = opts
    BY <1>7, <2>1 DEF ConcludeAccepted, Candidate, FileTypes
  <2>4. WalkTypes' /\ WalkInv'
    BY <1>7, Limits DEF ConcludeAccepted, MarkVisited, Reported, WalkTypes, WalkInv, Working
  <2>5. DrawTypes'
    BY <1>7, FreshTypes DEF ConcludeAccepted, meterVars, DrawTypes
  <2> QED
    BY <2>2, <2>3, <2>4, <2>5 DEF FileTypes
<1>8. CASE ConcludeRejected
  <2>1. FileTypes'
    BY <1>8 DEF ConcludeRejected, FileTypes
  <2>2. WalkTypes' /\ WalkInv'
    BY <1>8, Limits DEF ConcludeRejected, MarkVisited, Reported, Ends, WalkTypes, WalkInv,
       Working
  <2>3. DrawTypes'
    BY <1>8, FreshTypes DEF ConcludeRejected, meterVars, DrawTypes
  <2> QED
    BY <2>1, <2>2, <2>3
<1>9. CASE UNCHANGED vars
  BY <1>9 DEF vars, hotVars, walkVars, meterVars, FileTypes, WalkTypes, DrawTypes, WalkInv,
     Working
<1> QED
  BY <1>1, <1>2, <1>3, <1>4, <1>5, <1>6, <1>7, <1>8, <1>9 DEF Next, AllRunsDone

(* Every variable of the loop keeps its type.                              *)
THEOREM LoopTypes == Spec => []HotTypeOK
<1>1. TypeInv => HotTypeOK
  BY DEF TypeInv
<1> QED
  BY <1>1, InitTypeInv, NextTypeInv, PTL DEF Spec

-----------------------------------------------------------------------------
(* budget.py:56-91: the meters are asked before every call and pay after   *)
(* it, draws and repairs alike, so that a ceiling is passed by less than   *)
(* the call that reached it, whatever the limits and the calls cost.       *)
THEOREM MetersHold == Spec => []SpendingBounded
<1>1. Init => SpendingBounded
  BY Limits DEF Init, SpendingBounded
<1>2. HotTypeOK /\ SpendingBounded /\ [Next]_vars => SpendingBounded'
  <2> SUFFICES ASSUME HotTypeOK, SpendingBounded, [Next]_vars
               PROVE  SpendingBounded'
    OBVIOUS
  <2>1. runTok \in Nat /\ hotTok \in Nat
    BY DEF HotTypeOK, DrawTypes
  <2>2. CASE CanSpend /\ Charge
    BY <2>1, <2>2, Limits DEF CanSpend, Charge, SpendingBounded
  <2>3. CASE UNCHANGED meterVars
    BY <2>3 DEF meterVars, SpendingBounded
  <2>4. CASE runTok' \in {runTok, 0} /\ hotTok' \in {hotTok, 0}
    BY <2>4, Limits DEF SpendingBounded
  <2>5. CASE Draw \/ Repair
    BY <2>2, <2>5 DEF Draw, Repair
  <2>6. CASE DrawNothing \/ GiveUpRepair
    BY <2>2, <2>3, <2>6 DEF DrawNothing, GiveUpRepair
  <2>7. CASE BeginRun \/ MissCache
    BY <2>4, <2>7 DEF BeginRun, MissCache
  <2>8. CASE ~(Draw \/ Repair \/ DrawNothing \/ GiveUpRepair \/ BeginRun \/ MissCache)
    BY <2>3, <2>8 DEF Next, PickHotspot, NoHotspot, OutOfRounds, ReuseVerdict, VerifyCached,
       GateFloor, GateRule, DrawsDone, NothingProposed, ConcludeAccepted, ConcludeRejected,
       AllRunsDone, vars
  <2> QED
    BY <2>5, <2>6, <2>7, <2>8
<1> QED
  BY <1>1, <1>2, LoopTypes, PTL DEF Spec

-----------------------------------------------------------------------------
(* The floor is in the pool from the moment it is gated until the hotspot  *)
(* is concluded, and nothing slower takes its place.                       *)
FloorInv ==
  /\ pc \notin {"draw", "repair", "conclude"} => floor = Nothing
  /\ floor # Nothing => best \in Candidate /\ best.gain >= floor

LEMMA ConsiderKeepsFloor ==
  ASSUME HotTypeOK, FloorInv, NEW text \in Text, NEW why, Consider(text, why), floor # Nothing
  PROVE  best' \in Candidate /\ best'.gain >= floor
<1>1. best \in Candidate /\ best.gain >= floor /\ best # Nothing
  BY DEF FloorInv
<1>2. CASE best' = best
  BY <1>1, <1>2
<1>3. CASE best' # best
  <2> DEFINE v(r) == Decide(mode, opts.policy, r)
  <2>1. PICK r \in Readings : best' = Winner(text, v(r), r) /\ Beats(v(r))
    BY <1>3 DEF Consider
  <2>2. best' \in Candidate
    BY <2>1, WinnerIsCandidate DEF HotTypeOK, FileTypes
  <2>3. best'.gain > best.gain
    BY <1>1, <2>1 DEF Beats, Winner
  <2>4. floor \in Int /\ best.gain \in Int /\ best'.gain \in Int
    BY <1>1, <2>2 DEF HotTypeOK, DrawTypes, Candidate
  <2> QED
    BY <1>1, <2>2, <2>3, <2>4
<1> QED
  BY <1>2, <1>3

(* orchestrator.py:99-101: whatever the model draws and the gate measures, *)
(* a hotspot whose rule rewrite was accepted is concluded with one that is *)
(* at least as fast.                                                       *)
THEOREM FloorHolds == Spec => []NeverWorseThanFloor
<1>1. Init => FloorInv
  BY DEF Init, FloorInv
<1>2. HotTypeOK /\ LoopInv /\ FloorInv /\ [Next]_vars => FloorInv'
  <2> SUFFICES ASSUME HotTypeOK, LoopInv, FloorInv, [Next]_vars PROVE FloorInv'
    OBVIOUS
  <2>1. CASE GateFloor
    <3>1. floor = Nothing /\ pc' = "draw"
      BY <2>1 DEF GateFloor, FloorInv
    <3>2. CASE floor' = floor
      BY <3>1, <3>2 DEF FloorInv
    <3>3. CASE floor' # floor
      <4>1. RuleRewrite # Nothing /\ Consider(RuleRewrite, "accepted") /\ floor' = best'.gain
        BY <2>1, <3>3 DEF GateFloor
      <4>2. best' \in Candidate
        BY <4>1, RuleRewriteIsText, AcceptedIsInPool
      <4> QED
        BY <3>1, <4>1, <4>2 DEF FloorInv, Candidate
    <3> QED
      BY <3>2, <3>3
  <2>2. CASE Draw \/ Repair
    <3>1. /\ floor' = floor /\ pc' \in {"draw", "repair"}
          /\ \E text \in Text : \E why : Consider(text, why)
      BY <2>2 DEF Draw, Repair
    <3>2. floor # Nothing => best' \in Candidate /\ best'.gain >= floor
      BY <3>1, ConsiderKeepsFloor
    <3> QED
      BY <3>1, <3>2 DEF FloorInv
  <2>3. CASE ReuseVerdict \/ VerifyCached \/ GateRule
    BY <2>3 DEF ReuseVerdict, VerifyCached, GateRule, FloorInv
  <2>4. CASE BeginRun \/ ConcludeAccepted \/ ConcludeRejected
    BY <2>4 DEF BeginRun, ConcludeAccepted, ConcludeRejected, FreshHotspot, FloorInv
  <2>5. CASE PickHotspot \/ NoHotspot \/ OutOfRounds \/ MissCache
    BY <2>5 DEF PickHotspot, NoHotspot, OutOfRounds, MissCache, Ends, hotVars, FloorInv
  <2>6. CASE NothingProposed
    <3>1. best = Nothing /\ UNCHANGED <<best, floor>>
      BY <2>6 DEF NothingProposed, hotVars, LoopInv, BestNeedsAttempt
    <3> QED
      BY <3>1 DEF FloorInv
  <2>7. CASE DrawNothing \/ DrawsDone \/ GiveUpRepair
    BY <2>7 DEF DrawNothing, DrawsDone, GiveUpRepair, hotVars, FloorInv
  <2>8. CASE UNCHANGED vars
    BY <2>8 DEF vars, hotVars, FloorInv
  <2> QED
    BY <2>1, <2>2, <2>3, <2>4, <2>5, <2>6, <2>7, <2>8 DEF Next, AllRunsDone
<1>3. FloorInv => NeverWorseThanFloor
  BY DEF FloorInv, NeverWorseThanFloor
<1> QED
  BY <1>1, <1>2, <1>3, LoopTypes, LoopInvariant, PTL DEF Spec

-----------------------------------------------------------------------------
(* A best candidate that did not come out of the cache was accepted by the *)
(* gate in this round and changes the function; what it carries is what    *)
(* the verdict said.                                                       *)
Backed(b) ==
  LET v == Decide(mode, opts.policy, b.basis) IN
  /\ b.basis \in Readings /\ v.accepted
  /\ b.rung = v.rung /\ b.gain = v.gain /\ b.text # code[sym]

FreshBest == best # Nothing /\ ~cached => Backed(best)

LEMMA ConsiderKeepsFresh ==
  ASSUME FreshBest, NEW text, NEW why, Consider(text, why),
         UNCHANGED <<opts, mode, code, sym, cached>>
  PROVE  FreshBest'
<1> DEFINE v(r) == Decide(mode, opts.policy, r)
<1>1. CASE best' = best
  BY <1>1 DEF FreshBest, Backed
<1>2. CASE best' # best
  <2>1. PICK r \in Readings :
          best' = Winner(text, v(r), r) /\ v(r).accepted /\ text # code[sym]
    BY <1>2 DEF Consider
  <2>2. /\ best'.basis = r /\ best'.rung = v(r).rung /\ best'.gain = v(r).gain
        /\ best'.text = text
    BY <2>1 DEF Winner
  <2> QED
    BY <2>1, <2>2 DEF FreshBest, Backed
<1> QED
  BY <1>1, <1>2

(* gate.py, decide: what the harness gate accepts it was shown, at the     *)
(* rung that was asked for.                                                *)
LEMMA AcceptIsShown ==
  ASSUME NEW p \in Policy, NEW r \in Reading, Decide("harness", p, r).accepted
  PROVE  /\ Shown(p, r) /\ Rung(p, r) >= p.minRung
         /\ Decide("harness", p, r).rung = Rung(p, r)
         /\ Decide("harness", p, r).gain = Gain(p, r)
<1>1. /\ HarnessReason(p, r) = "accepted" /\ Decide("harness", p, r).rung = Rung(p, r)
      /\ Decide("harness", p, r).gain = Gain(p, r)
  BY DEF Decide
<1>2. Rung(p, r) \in Int /\ p.minRung \in Int
  BY DEF Rung, Policy
<1>3. ~(Rung(p, r) < p.minRung)
  BY <1>1 DEF HarnessReason
<1>4. Shown(p, r)
  BY <1>1 DEF HarnessReason, Shown, Reading, Policy
<1> QED
  BY <1>1, <1>2, <1>3, <1>4

(* Conclusion is the one step that stores.                                 *)
LEMMA StoredIsEarned ==
  ASSUME HotTypeOK, FreshBest, ConcludeAccepted, cache' # cache
  PROVE  /\ \A e \in cache' \ cache : Earned(e)
         /\ \A e \in cache \ cache' : \E d \in cache' : Key(d) = Key(e) /\ d.gain > e.gain
<1>1. /\ ~cached /\ HasSource /\ cache' = (cache \ Entries) \cup {NewEntry}
      /\ ~\E e \in Entries : e.gain >= best.gain
  BY DEF ConcludeAccepted, StoreBest
<1>2. mode = "harness" /\ best # Nothing /\ Backed(best)
  BY <1>1 DEF ConcludeAccepted, FreshBest, HasSource
<1>3. opts.policy \in Policy /\ best.basis \in Reading /\ best.basis # Nothing
  BY <1>2, HotspotAssumption DEF HotTypeOK, FileTypes, Backed
<1>4. Decide("harness", opts.policy, best.basis).accepted
  BY <1>2 DEF Backed
<1>5. /\ Shown(opts.policy, best.basis) /\ Rung(opts.policy, best.basis) >= opts.policy.minRung
      /\ best.rung = Rung(opts.policy, best.basis) /\ best.gain = Gain(opts.policy, best.basis)
  BY <1>2, <1>3, <1>4, AcceptIsShown DEF Backed
<1>6. /\ Key(NewEntry) = <<sym, code[sym], opts.model, opts.policy.minRung>>
      /\ NewEntry.new = best.text /\ NewEntry.text = code[sym]
      /\ NewEntry.rung = best.rung /\ NewEntry.gain = best.gain
      /\ NewEntry.minRung = opts.policy.minRung
  BY DEF Key, NewEntry
<1>7. best.text # code[sym]
  BY <1>2 DEF Backed
<1>8. Earned(NewEntry)
  BY <1>2, <1>3, <1>5, <1>6, <1>7 DEF Earned
<1>9. ASSUME NEW e \in cache \ cache'
      PROVE  Key(NewEntry) = Key(e) /\ NewEntry.gain > e.gain
  <2>1. e \in Entries
    BY <1>1
  <2>2. Key(e) = Key(NewEntry) /\ ~(e.gain >= best.gain)
    BY <1>1, <1>6, <2>1 DEF Entries
  <2>3. e.gain \in Int /\ best.gain \in Int
    BY <1>2 DEF HotTypeOK, FileTypes, DrawTypes, Entry, Candidate
  <2> QED
    BY <1>6, <2>2, <2>3
<1> QED
  BY <1>1, <1>8, <1>9

(* cache.py:7, "the entry was gated when stored": over any sequence of     *)
(* runs under any options, whatever the best candidate came from, only     *)
(* what the harness showed in that round, of that text and at the rung of  *)
(* the key, enters the cache, and only a faster one takes its place.       *)
THEOREM CacheIsGated == Spec => CacheHoldsGated
<1>1. Init => FreshBest
  BY DEF Init, FreshBest
<1>2. LoopInv /\ FreshBest /\ [Next]_vars => FreshBest'
  <2> SUFFICES ASSUME LoopInv, FreshBest, [Next]_vars
               PROVE  FreshBest'
    OBVIOUS
  <2>1. CASE GateFloor \/ GateRule \/ Draw \/ Repair
    <3>1. UNCHANGED <<opts, mode, code, sym, cached>>
      BY <2>1 DEF GateFloor, GateRule, Draw, Repair, walkVars
    <3>2. best' = best \/ \E text, why : Consider(text, why)
      BY <2>1 DEF GateFloor, GateRule, Draw, Repair
    <3> QED
      BY <3>1, <3>2, ConsiderKeepsFresh DEF FreshBest, Backed
  <2>2. CASE PickHotspot
    <3>1. best = Nothing /\ best' = best
      BY <2>2 DEF PickHotspot, hotVars, LoopInv, BestNeedsAttempt
    <3> QED
      BY <3>1 DEF FreshBest
  <2>3. CASE ReuseVerdict \/ VerifyCached
    BY <2>3 DEF ReuseVerdict, VerifyCached, FreshBest
  <2>4. CASE BeginRun \/ ConcludeAccepted \/ ConcludeRejected
    BY <2>4 DEF BeginRun, ConcludeAccepted, ConcludeRejected, FreshHotspot, FreshBest
  <2>5. CASE \/ NoHotspot \/ OutOfRounds \/ MissCache \/ DrawNothing \/ DrawsDone
             \/ GiveUpRepair \/ NothingProposed \/ UNCHANGED vars
    <3>1. UNCHANGED <<opts, mode, code, sym, best, cached>>
      BY <2>5 DEF NoHotspot, OutOfRounds, MissCache, DrawNothing, DrawsDone,
         GiveUpRepair, NothingProposed, hotVars, walkVars, vars
    <3> QED
      BY <3>1 DEF FreshBest, Backed
  <2> QED
    BY <2>1, <2>2, <2>3, <2>4, <2>5 DEF Next, AllRunsDone
<1>3. ASSUME HotTypeOK, FreshBest, [Next]_vars, ~UNCHANGED vars
      PROVE  /\ \A e \in cache' \ cache : Earned(e)
             /\ \A e \in cache \ cache' : \E d \in cache' : Key(d) = Key(e) /\ d.gain > e.gain
  <2>1. CASE cache' = cache
    BY <2>1
  <2>2. CASE cache' # cache
    <3>1. ConcludeAccepted
      BY <1>3, <2>2 DEF Next, BeginRun, PickHotspot, NoHotspot, OutOfRounds, ReuseVerdict,
         VerifyCached, MissCache, GateFloor, GateRule, Draw, DrawNothing, DrawsDone,
         Repair, GiveUpRepair, NothingProposed, ConcludeRejected, AllRunsDone, vars
    <3> QED
      BY <1>3, <2>2, <3>1, StoredIsEarned
  <2> QED
    BY <2>1, <2>2
<1> QED
  BY <1>1, <1>2, <1>3, LoopTypes, LoopInvariant, PTL DEF Spec, CacheHoldsGated
=============================================================================
