------------------------------ MODULE Hotspots ------------------------------
(***************************************************************************)
(* Orchestrator.run (engine/orchestrator.py) over one file, run after run  *)
(* with the rewrite cache (engine/cache.py) in between, and the cost meter *)
(* (runtime/budget.py) inside.  A round picks a hotspot, looks it up in    *)
(* the cache or draws candidates (the rule floor, the model's draws, the   *)
(* repairs of draws that did not compile), has each gated, and reports or  *)
(* writes the best one.                                                    *)
(*                                                                         *)
(* A function's text is an opaque value.  What the oracles read about a    *)
(* candidate is left open at each gate call: the same candidate may pass   *)
(* today and fail tomorrow, as a measurement does.                         *)
(***************************************************************************)
EXTENDS Gate, FiniteSets

CONSTANTS
    Harness,      \* functions the harness can drive
    Testable,     \* functions only the project's tests can verify
    Stem,         \* the symbol a target starts with: the name of the file
    Text,         \* what a function can be
    Source,       \* its text before the first run
    Rewrites,     \* what the model may answer
    Rule,         \* function -> text -> the first enabled rule's rewrite, or Nothing
    Nothing,
    Readings,     \* what the oracles may read
    Options,      \* command lines: [apply, force, refine, model, policy]
    NumDraws, RepairRounds, MaxRounds,
    RunLimit, HotspotLimit, MaxCall,   \* tokens: the two meters, one call
    MaxRuns       \* bound on the number of runs

Func == Harness \cup Testable

(* A candidate the gate accepted: its text, the verdict, and the reading   *)
(* the verdict rests on, or Nothing if that was read in an earlier run.    *)
Candidate == [text : Text, gain : Int, rung : {1, 3}, sound : BOOLEAN,
              basis : Readings \cup {Nothing}]

ASSUME HotspotAssumption ==
    /\ Harness \cap Testable = {} /\ Stem \notin Func /\ Nothing \notin Text \cup Candidate
    /\ Source \in Text /\ Rewrites \subseteq Text
    /\ Readings \subseteq Reading /\ Nothing \notin Reading
    /\ Options \subseteq [apply : BOOLEAN, force : BOOLEAN, refine : BOOLEAN,
                          model : STRING, policy : Policy]
    /\ \A f \in Func, t \in Text : Rule[f][t] \in Text \cup {Nothing}
    /\ {NumDraws, RepairRounds, MaxRounds, RunLimit, HotspotLimit, MaxRuns} \subseteq Nat
    /\ MaxCall \in Nat \ {0}

VARIABLES
    code,       \* Func -> its text in the file
    cache,      \* set of [func, text, model, minRung, new, gain, rung]
    opts,       \* the command line of this run
    pc,         \* where the run stands
    runs,       \* runs begun
    round,      \* round_i
    visited,    \* visited_funcs
    sym,        \* current.symbol
    mode,       \* current.verify_mode
    noAccept,   \* no_accept
    verdicts,   \* function -> verdicts reported for it in this run
    seen,       \* texts gated for this hotspot
    best,       \* the best accepted candidate of this hotspot, or Nothing
    tried,      \* attempts is not empty
    cached,     \* the attempt came from the cache
    floor,      \* gain of the rule floor if the gate accepted it, or Nothing
    draws,      \* model draws made
    repairs,    \* repair calls left for this draw
    runTok, hotTok    \* the two meters

hotVars == <<seen, best, tried, cached, floor, draws, repairs>>
walkVars == <<round, visited, sym, mode, noAccept, verdicts>>
meterVars == <<runTok, hotTok>>
vars == <<code, cache, opts, pc, runs, walkVars, hotVars, meterVars>>

FreshHotspot ==
    /\ seen' = {} /\ best' = Nothing /\ tried' = FALSE /\ cached' = FALSE
    /\ floor' = Nothing /\ draws' = 0 /\ repairs' = 0

Init ==
    /\ code = [f \in Func |-> Source] /\ cache = {}
    /\ opts \in Options /\ pc = "idle" /\ runs = 0
    /\ round = 0 /\ visited = {} /\ sym = Stem /\ mode = "harness"
    /\ noAccept = 0 /\ verdicts = [f \in Func \cup {Stem} |-> 0]
    /\ seen = {} /\ best = Nothing /\ tried = FALSE /\ cached = FALSE
    /\ floor = Nothing /\ draws = 0 /\ repairs = 0 /\ runTok = 0 /\ hotTok = 0

BeginRun ==
    /\ pc \in {"idle", "ended"} /\ runs < MaxRuns
    /\ runs' = runs + 1 /\ opts' \in Options
    /\ round' = 0 /\ visited' = {} /\ sym' = Stem /\ mode' = "harness"
    /\ noAccept' = 0 /\ verdicts' = [f \in Func \cup {Stem} |-> 0]
    /\ FreshHotspot /\ runTok' = 0 /\ hotTok' = 0
    /\ pc' = "sense"
    /\ UNCHANGED <<code, cache>>

-----------------------------------------------------------------------------
Selectable == Harness \ visited

Ends == pc' = "ended"

(* sensor.collect: some function not yet processed becomes the hotspot.    *)
PickHotspot ==
    /\ pc = "sense" /\ round < MaxRounds
    /\ \/ sym' \in Selectable /\ UNCHANGED mode
       \/ /\ Selectable = {} /\ opts.policy.tests
          /\ sym' \in Testable \ visited
          /\ mode' = "tests"
    /\ pc' = "lookup"
    /\ UNCHANGED <<code, cache, opts, runs, round, visited, noAccept,
                   verdicts, hotVars, meterVars>>

(* Nothing is left, or what is left is cold beside a function already      *)
(* processed: the target keeps its symbol, which ends every round but the  *)
(* first.                                                                  *)
NoHotspot ==
    /\ pc = "sense" /\ round < MaxRounds
    /\ \/ Selectable = {} /\ (opts.policy.tests => Testable \subseteq visited)
       \/ Selectable # {} /\ visited \cap Harness # {}
    /\ IF round > 0 /\ sym \in visited
         THEN Ends
         ELSE pc' = "lookup"
    /\ UNCHANGED <<code, cache, opts, runs, round, visited, sym, mode, noAccept,
                   verdicts, hotVars, meterVars>>

OutOfRounds ==
    /\ pc = "sense" /\ round = MaxRounds
    /\ Ends
    /\ UNCHANGED <<code, cache, opts, runs, round, visited, sym, mode, noAccept,
                   verdicts, hotVars, meterVars>>

-----------------------------------------------------------------------------
(* As a bug would have it: tests-mode evidence carries func_source too.    *)
AnySource == sym # Stem

(* ev.func_source is not empty: only then is there a cache key.            *)
HasSource == mode = "harness" /\ sym # Stem

Key(e) == <<e.func, e.text, e.model, e.minRung>>

Entries == {e \in cache : Key(e) = <<sym, code[sym], opts.model, opts.policy.minRung>>}

Hits == IF HasSource /\ ~opts.refine THEN Entries ELSE {}

Winner(text, v, r) == [text |-> text, gain |-> v.gain, rung |-> v.rung,
                       sound |-> v.sound, basis |-> r]

(* A dry run reuses the stored verdict.                                    *)
ReuseVerdict ==
    /\ pc = "lookup" /\ ~opts.apply
    /\ \E e \in Hits :
          best' = [text |-> e.new, gain |-> e.gain, rung |-> e.rung,
                   sound |-> e.rung >= 3, basis |-> Nothing]
    /\ tried' = TRUE /\ cached' = TRUE
    /\ pc' = "conclude"
    /\ UNCHANGED <<code, cache, opts, runs, walkVars, seen, floor, draws, repairs,
                   meterVars>>

(* As a bug would have it: --apply trusts the stored verdict too.          *)
TrustCached ==
    /\ pc = "lookup" /\ opts.apply
    /\ \E e \in Hits :
          /\ seen' = {e.new} /\ tried' = TRUE
          /\ best' = [text |-> e.new, gain |-> e.gain, rung |-> e.rung,
                      sound |-> e.rung >= 3, basis |-> Nothing]
    /\ cached' = TRUE
    /\ pc' = "conclude"
    /\ UNCHANGED <<code, cache, opts, runs, walkVars, floor, draws, repairs, meterVars>>

(* --apply has the gate decide again; either way this is the only attempt. *)
VerifyCached ==
    /\ pc = "lookup" /\ opts.apply
    /\ \E e \in Hits, r \in Readings :
          LET v == Decide(mode, opts.policy, r) IN
          /\ seen' = {e.new} /\ tried' = TRUE
          /\ best' = IF v.accepted THEN Winner(e.new, v, r) ELSE Nothing
    /\ cached' = TRUE
    /\ pc' = "conclude"
    /\ UNCHANGED <<code, cache, opts, runs, walkVars, floor, draws, repairs, meterVars>>

(* _best_of_n begins; the hotspot's meter starts at zero.                  *)
MissCache ==
    /\ pc = "lookup" /\ Hits = {}
    /\ hotTok' = 0
    /\ pc' = IF opts.model = "rules" THEN "rule" ELSE "floor"
    /\ UNCHANGED <<code, cache, opts, runs, walkVars, hotVars, runTok>>

-----------------------------------------------------------------------------
(* As a bug would have it: the last accepted candidate wins, not the best. *)
AnyAccepted(v) == TRUE

Beats(v) == best = Nothing \/ v.gain > best.gain

(* _evaluate of one candidate: not appliable, already gated, or gated now. *)
(* Its outcome is `why`.                                                   *)
Consider(text, why) ==
    LET appliable == sym # Stem /\ text # code[sym] IN
    \/ /\ ~appliable /\ why = "mutation_failed"
       /\ tried' = TRUE /\ UNCHANGED <<seen, best>>
    \/ /\ appliable /\ text \in seen /\ why = "deduped"
       /\ UNCHANGED <<seen, best, tried>>
    \/ /\ appliable /\ text \notin seen
       /\ seen' = seen \cup {text}
       /\ \E r \in Readings :
             LET v == Decide(mode, opts.policy, r) IN
             /\ v.reason = why /\ tried' = TRUE
             /\ best' = IF v.accepted /\ Beats(v) THEN Winner(text, v, r) ELSE best

Outcomes == {"mutation_failed", "deduped", "accepted", "build_failed", "changed_output",
             "unsafe", "slower", "metamorphic_failed", "tests_failed",
             "perf_unproven", "skipped_unverifiable"}

RuleRewrite == IF sym = Stem THEN Nothing ELSE Rule[sym][code[sym]]

(* Under a model, the rule's rewrite is gated first.                       *)
GateFloor ==
    /\ pc = "floor"
    /\ IF RuleRewrite = Nothing
         THEN UNCHANGED <<seen, best, tried, floor>>
         ELSE \E why \in Outcomes :
                 /\ Consider(RuleRewrite, why)
                 /\ floor' = IF why = "accepted" THEN best'.gain ELSE floor
    /\ pc' = "draw"
    /\ UNCHANGED <<code, cache, opts, runs, walkVars, cached, draws, repairs, meterVars>>

(* Without a model, it is the only candidate.                              *)
GateRule ==
    /\ pc = "rule"
    /\ IF RuleRewrite = Nothing
         THEN UNCHANGED <<seen, best, tried>>
         ELSE \E why \in Outcomes : Consider(RuleRewrite, why)
    /\ pc' = "conclude"
    /\ UNCHANGED <<code, cache, opts, runs, walkVars, cached, floor, draws, repairs,
                   meterVars>>

-----------------------------------------------------------------------------
CanSpend == runTok < RunLimit /\ hotTok < HotspotLimit

(* A completed call is debited from both meters.                           *)
Charge == \E c \in 1..MaxCall : runTok' = runTok + c /\ hotTok' = hotTok + c

(* A draw: the model answers with a text.                                  *)
Draw ==
    /\ pc = "draw" /\ draws < NumDraws /\ CanSpend
    /\ Charge
    /\ \E text \in Rewrites, why \in Outcomes :
          /\ Consider(text, why)
          /\ IF why = "build_failed"
               THEN pc' = "repair" /\ repairs' = RepairRounds
               ELSE pc' = "draw" /\ repairs' = 0
    /\ draws' = draws + 1
    /\ UNCHANGED <<code, cache, opts, runs, walkVars, cached, floor>>

(* No proposal: the meter is spent, the call failed, or (charged) the      *)
(* answer holds no code.  The remaining draws are not made.                *)
DrawNothing ==
    /\ pc = "draw" /\ draws < NumDraws
    /\ UNCHANGED meterVars \/ (CanSpend /\ Charge)
    /\ pc' = "conclude"
    /\ UNCHANGED <<code, cache, opts, runs, walkVars, hotVars>>

DrawsDone ==
    /\ pc = "draw" /\ draws = NumDraws
    /\ pc' = "conclude"
    /\ UNCHANGED <<code, cache, opts, runs, walkVars, hotVars, meterVars>>

(* As a bug would have it: a repair call is made without asking the meter. *)
RepairUnmetered ==
    /\ pc = "repair" /\ repairs > 0
    /\ Charge
    /\ \E text \in Rewrites, why \in Outcomes :
          /\ Consider(text, why)
          /\ IF why = "build_failed"
               THEN pc' = "repair" /\ repairs' = repairs - 1
               ELSE pc' = "draw" /\ repairs' = 0
    /\ UNCHANGED <<code, cache, opts, runs, walkVars, cached, floor, draws>>

(* The compiler's error goes back to the model; as long as the answer does *)
(* not compile either, it may go back again.                               *)
Repair ==
    /\ pc = "repair" /\ repairs > 0 /\ CanSpend
    /\ Charge
    /\ \E text \in Rewrites, why \in Outcomes :
          /\ Consider(text, why)
          /\ IF why = "build_failed"
               THEN pc' = "repair" /\ repairs' = repairs - 1
               ELSE pc' = "draw" /\ repairs' = 0
    /\ UNCHANGED <<code, cache, opts, runs, walkVars, cached, floor, draws>>

(* Out of repair rounds, or no answer to repair with.                      *)
GiveUpRepair ==
    /\ pc = "repair"
    /\ UNCHANGED meterVars \/ (repairs > 0 /\ CanSpend /\ Charge)
    /\ pc' = "draw" /\ repairs' = 0
    /\ UNCHANGED <<code, cache, opts, runs, walkVars, seen, best, tried, cached, floor, draws>>

-----------------------------------------------------------------------------
(* The proposer offered nothing: the walk ends here.                       *)
NothingProposed ==
    /\ pc = "conclude" /\ ~tried
    /\ Ends
    /\ UNCHANGED <<code, cache, opts, runs, round, visited, sym, mode, noAccept,
                   verdicts, hotVars, meterVars>>

NewEntry == [func |-> sym, text |-> code[sym], model |-> opts.model,
             minRung |-> opts.policy.minRung,
             new |-> best.text, gain |-> best.gain, rung |-> best.rung]

(* RewriteCache.put keeps the better of the entry it has and the new one.  *)
StoreBest ==
    cache' = IF cached \/ ~HasSource \/ \E e \in Entries : e.gain >= best.gain
             THEN cache
             ELSE (cache \ Entries) \cup
                  {NewEntry}

(* As a bug would have it: only an accepted function counts as visited.    *)
MarkAccepted == visited' = IF best = Nothing THEN visited ELSE visited \cup {sym}

MarkVisited == visited' = visited \cup {sym}

Reported == verdicts' = [verdicts EXCEPT ![sym] = @ + 1]

(* An accepted candidate: cached if it was not a cached one, and written   *)
(* if --apply and it is sound or forced.                                   *)
ConcludeAccepted ==
    /\ pc = "conclude" /\ best # Nothing
    /\ StoreBest /\ MarkVisited /\ Reported
    /\ code' = IF opts.apply /\ (best.sound \/ opts.force)
                 THEN [code EXCEPT ![sym] = best.text] ELSE code
    /\ noAccept' = 0 /\ round' = round + 1
    /\ FreshHotspot /\ pc' = "sense"
    /\ UNCHANGED <<opts, runs, sym, mode, meterVars>>

(* Attempts, none accepted.  --apply gives up after two in a row.          *)
ConcludeRejected ==
    /\ pc = "conclude" /\ best = Nothing /\ tried
    /\ MarkVisited /\ Reported
    /\ noAccept' = noAccept + 1 /\ round' = round + 1
    /\ FreshHotspot
    /\ IF opts.apply /\ noAccept + 1 >= 2
         THEN Ends
         ELSE pc' = "sense"
    /\ UNCHANGED <<code, cache, opts, runs, sym, mode, meterVars>>

AllRunsDone == pc = "ended" /\ runs = MaxRuns /\ UNCHANGED vars

Next == \/ BeginRun \/ PickHotspot \/ NoHotspot \/ OutOfRounds
        \/ ReuseVerdict \/ VerifyCached \/ MissCache
        \/ GateFloor \/ GateRule \/ Draw \/ DrawNothing \/ DrawsDone
        \/ Repair \/ GiveUpRepair
        \/ NothingProposed \/ ConcludeAccepted \/ ConcludeRejected \/ AllRunsDone

Spec == Init /\ [][Next]_vars

-----------------------------------------------------------------------------
Entry == [func : Harness, text : Text, model : STRING, minRung : Int, new : Text,
          gain : Int, rung : {1, 3}]

FileTypes == code \in [Func -> Text] /\ cache \subseteq Entry /\ opts \in Options

WalkTypes ==
    /\ pc \in {"idle", "sense", "lookup", "floor", "rule", "draw", "repair",
               "conclude", "ended"}
    /\ runs \in 0..MaxRuns /\ round \in 0..MaxRounds
    /\ visited \subseteq Func \cup {Stem} /\ sym \in Func \cup {Stem}
    /\ mode \in {"harness", "tests"} /\ noAccept \in 0..MaxRounds
    /\ verdicts \in [Func \cup {Stem} -> Nat]

DrawTypes ==
    /\ seen \subseteq Text /\ best \in Candidate \cup {Nothing}
    /\ tried \in BOOLEAN /\ cached \in BOOLEAN /\ floor \in Int \cup {Nothing}
    /\ draws \in 0..NumDraws /\ repairs \in 0..RepairRounds
    /\ runTok \in Nat /\ hotTok \in Nat

(* Every variable holds a value of its kind.                               *)
HotTypeOK == FileTypes /\ WalkTypes /\ DrawTypes

(* "write only a SOUND change" (orchestrator.py:214-218) and "--apply      *)
(* re-verifies before writing" (cache.py:7-8): the file changes only under *)
(* --apply, and unless it is forced only to a rewrite that was proven in   *)
(* this very round, whatever the cache, the draws and the policy.          *)
WritesAreProved ==
    [][code' # code =>
         /\ opts.apply
         /\ best.basis # Nothing
         /\ opts.force \/ Proven(mode, opts.policy, best.basis)]_vars

(* The walk reports a function at most once in a run ("so each round       *)
(* advances to a NEW hotspot", orchestrator.py:170-172).                   *)
OncePerRun == \A f \in Func \cup {Stem} : verdicts[f] <= 1

(* "--model local|frontier can only ever do BETTER than --model rules,     *)
(* never worse" (orchestrator.py:99-101): a rule rewrite that was accepted *)
(* is beaten only by a faster one.                                         *)
NeverWorseThanFloor ==
    pc = "conclude" /\ floor # Nothing => best # Nothing /\ best.gain >= floor

(* The best candidate's own reading shows what entry e says of it: that it *)
(* replaces this very text, was found the same and faster by the harness   *)
(* under this command line, reached the rung of the key, and gained that.  *)
Earned(e) ==
    LET r == best.basis IN
    /\ mode = "harness" /\ r # Nothing
    /\ Key(e) = <<sym, code[sym], opts.model, opts.policy.minRung>>
    /\ e.new = best.text /\ e.new # e.text
    /\ Shown(opts.policy, r)
    /\ e.rung = Rung(opts.policy, r) /\ e.rung >= e.minRung
    /\ e.gain = Gain(opts.policy, r)

(* "the entry was gated when stored" (cache.py:7): whatever the round took *)
(* its best candidate from, a rule, a draw, a repair, the project's tests  *)
(* or the cache itself, an entry is stored only if the harness earned it   *)
(* in this very round, and an entry goes only for a faster one of its key. *)
CacheHoldsGated ==
    [][/\ \A e \in cache' \ cache : Earned(e)
       /\ \A e \in cache \ cache' :
             \E d \in cache' : Key(d) = Key(e) /\ d.gain > e.gain]_vars

(* The meters bound what a run and a hotspot may cost, draws and repairs   *)
(* together: past a ceiling by less than the call that reached it.         *)
SpendingBounded ==
    /\ runTok < RunLimit + MaxCall
    /\ hotTok < HotspotLimit + MaxCall

=============================================================================
