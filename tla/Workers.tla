------------------------------- MODULE Workers -------------------------------
(***************************************************************************)
(* What the workers of a codebase run share outside their own process      *)
(* memory: the project's source tree, into which the project-test oracle   *)
(* swaps each unproven variant (reuse.py), and the object, source and      *)
(* executable caches under /tmp (link.py, build/compile.py).               *)
(*                                                                         *)
(* A worker takes one translation unit at a time (api.py, _do): it builds  *)
(* objects of all the others, builds the harness of the unit and of its    *)
(* variant against them, lets the gate decide, and with --apply writes the *)
(* variant.  The text of a unit is abstracted to a version number; the     *)
(* variant of version n is version n + 1.  A file holds a version, or the  *)
(* first one with CR LF line ends, or what a write that failed left of     *)
(* one, which does not compile.  No two units have the same text.          *)
(***************************************************************************)
EXTENDS Naturals, FiniteSets

CONSTANTS
    Worker,        \* the threads of the pool (--jobs)
    Unit,          \* the translation units of compile_commands.json
    Breaking,      \* units whose variants fail the project's own tests
    Modes,         \* the command lines: [jobs, tests, apply, ccache, san]
    Dos,           \* units whose source comes with CR LF line ends
    Crlf,          \* what such a file holds
    Torn,          \* what a write of a source that failed halfway leaves
    None,          \* no entry
    MaxVersion,    \* bound: versions of a unit
    MaxFails,      \* bound: writes that fail
    MaxRuns        \* bound: runs, in one process or after a kill

Version == 0 .. MaxVersion
Bytes == Version \union {Crlf, Torn}
Program == Unit \X Version         \* the harness of a unit's version: its text
Source == Unit \X Bytes            \* a file: its path and what it holds

Original == [u \in Unit |-> IF u \in Dos THEN Crlf ELSE 0]

(* read_text gives every line the end LF, and write_text writes that.      *)
TextOf(b) == IF b = Crlf THEN 0 ELSE b

ASSUME WorkersAssumption ==
    /\ Breaking \subseteq Unit /\ Dos \subseteq Unit /\ IsFiniteSet(Worker)
    /\ MaxVersion \in Nat /\ MaxFails \in Nat /\ MaxRuns \in Nat \ {0}
    /\ Modes \subseteq [jobs : 1 .. Cardinality(Worker), tests : BOOLEAN,
                       apply : BOOLEAN, ccache : BOOLEAN, san : BOOLEAN]
    /\ None \notin Bytes /\ None \notin BOOLEAN
    /\ Crlf \notin Version /\ Torn \notin Version /\ Crlf # Torn

VARIABLES
    mode,
    tree,       \* what each source file holds
    objs,       \* boostopt-obj: the bytes compiled, by unit and key
    ccsrc,      \* boostopt-ccsrc: how much of a program's source is written
    exes,       \* boostopt-exe: the executables cached, with or without sanitizers
    baseline,   \* _BASELINE of the process: outcomes by unit and version
    job,        \* what each worker is doing
    taken,      \* units of this run already taken by a worker
    applied,    \* history: accepted variants written to the tree
    accepted,   \* history: variants the gate accepted
    unrestored, \* history: units whose restoring write failed
    cut,        \* history: programs whose source was written only in part
    runs, killed, \* the run's number; was one before it killed?
    fails       \* writes that failed

vars == <<mode, tree, objs, ccsrc, exes, baseline, job, taken, applied, accepted,
          unrestored, cut, runs, killed, fails>>
caches == <<objs, ccsrc, exes>>
history == <<taken, applied, accepted, unrestored, cut>>
counts == <<runs, killed, fails>>

Idle == [at |-> "idle"]
Step(w, at) == job' = [job EXCEPT ![w].at = at]
End(w) == job' = [job EXCEPT ![w] = Idle]
WriteFails == fails < MaxFails /\ fails' = fails + 1

(* What the correctness oracle builds of a unit, all at the same time:     *)
(* both harnesses, and the variant's once more under the sanitizers (ASan  *)
(* and UBSan, and likewise ThreadSanitizer).                               *)
Kind == {"orig", "var", "san"}
Stage == {"todo", "open", "write", "compile", "done", "failed"}

-----------------------------------------------------------------------------
(* The unit and the archive of all the others.                             *)

(* As a bug would have it: a unit that compile_commands.json names twice   *)
(* is worked on twice.                                                     *)
TakeAgain(w, u) ==
    /\ job[w] = Idle
    /\ Cardinality({x \in Worker : job[x] # Idle}) < mode.jobs
    /\ taken' = taken \union {u}
    /\ job' = [job EXCEPT ![w] = [at |-> "archive", unit |-> u, others |-> Unit \ {u},
                                  obj |-> None, key |-> None]]
    /\ UNCHANGED <<mode, tree, caches, baseline, applied, accepted, unrestored, cut, counts>>

(* A unit of the list, which compile_db.load has rid of duplicates.        *)
Take(w, u) ==
    /\ job[w] = Idle /\ u \notin taken
    /\ Cardinality({x \in Worker : job[x] # Idle}) < mode.jobs
    /\ taken' = taken \union {u}
    /\ job' = [job EXCEPT ![w] = [at |-> "archive", unit |-> u, others |-> Unit \ {u},
                                  obj |-> None, key |-> None]]
    /\ UNCHANGED <<mode, tree, caches, baseline, applied, accepted, unrestored, cut, counts>>

(* The bytes of the source are read for the key; an object that is there   *)
(* under this key is used as it is.                                        *)
ReadSource(w) ==
    /\ job[w].at = "archive"
    /\ \E v \in job[w].others :
         IF objs[<<v, tree[v]>>] # None
         THEN job' = [job EXCEPT ![w].others = @ \ {v}]
         ELSE job' = [job EXCEPT ![w].at = "object", ![w].obj = v, ![w].key = tree[v]]
    /\ UNCHANGED <<mode, tree, caches, baseline, history, counts>>

(* As a bug would have it: the key leaves out the bytes of the source.     *)
CompileObjectByName(w) ==
    /\ job[w].at = "object"
    /\ LET v == job[w].obj IN
         /\ \/ objs' = [objs EXCEPT ![<<v, 0>>] = tree[v]]
            \/ UNCHANGED objs
         /\ job' = [job EXCEPT ![w].at = "archive", ![w].others = @ \ {v}]
    /\ UNCHANGED <<mode, tree, ccsrc, exes, baseline, history, counts>>

(* The compiler opens the file again; what it makes is stored, atomically, *)
(* under the key.  A unit that does not compile contributes no object.     *)
CompileObject(w) ==
    /\ job[w].at = "object"
    /\ LET v == job[w].obj IN
         /\ \/ tree[v] # Torn /\ objs' = [objs EXCEPT ![<<v, job[w].key>>] = tree[v]]
            \/ UNCHANGED objs
         /\ job' = [job EXCEPT ![w].at = "archive", ![w].others = @ \ {v}]
    /\ UNCHANGED <<mode, tree, ccsrc, exes, baseline, history, counts>>

(* The unit itself is read, as text; its variant, if there is one, is its  *)
(* next version.  Its harnesses are built, unless none can be synthesized: *)
(* then the project's tests and bench decide alone.                        *)
Propose(w) ==
    /\ job[w].at = "archive" /\ job[w].others = {}
    /\ LET u == job[w].unit n == TextOf(tree[u]) IN
         \/ End(w)
         \/ /\ tree[u] # Torn /\ n < MaxVersion
            /\ \E harness \in BOOLEAN :
                 /\ harness \/ mode.tests
                 /\ job' = [job EXCEPT ![w] =
                      [at |-> IF harness THEN "build" ELSE "baseline", harness |-> harness,
                       unit |-> u, from |-> n,
                       builds |-> [k \in Kind |-> IF k = "san" /\ ~mode.san
                                                   THEN "done" ELSE "todo"]]]
    /\ UNCHANGED <<mode, tree, caches, baseline, history, counts>>

-----------------------------------------------------------------------------
(* build/compile.py: the executables of a worker's unit.                   *)

Prog(w, k) == <<job[w].unit, IF k = "orig" THEN job[w].from ELSE job[w].from + 1>>
At(w, k, s) == job[w].at = "build" /\ job[w].builds[k] = s
Goes(w, k, s) == job' = [job EXCEPT ![w].builds = [@ EXCEPT ![k] = s]]

(* A cached executable is placed at once.  Otherwise the source goes to    *)
(* its stable path (with ccache, and only if nothing is there), which the  *)
(* sanitizers' build shares, or to the worker's own directory.             *)
LookUp(w, k) ==
    /\ At(w, k, "todo")
    /\ Goes(w, k, IF <<Prog(w, k), k = "san">> \in exes THEN "done"
                  ELSE IF mode.ccache /\ ccsrc[Prog(w, k)] = "none" THEN "open"
                  ELSE "compile")
    /\ UNCHANGED <<mode, tree, caches, baseline, history, counts>>

(* write_text: the file is created, or emptied if another build has        *)
(* created it since, ...                                                   *)
OpenSource(w, k) ==
    /\ At(w, k, "open")
    /\ ccsrc' = [ccsrc EXCEPT ![Prog(w, k)] = "part"]
    /\ Goes(w, k, "write")
    /\ UNCHANGED <<mode, tree, objs, exes, baseline, history, counts>>

(* ... and the write goes through, or fails and leaves the part it wrote:  *)
(* then the unit ends in an error.                                         *)
WriteSource(w, k) ==
    /\ At(w, k, "write")
    /\ \/ /\ ccsrc' = [ccsrc EXCEPT ![Prog(w, k)] = "whole"]
          /\ Goes(w, k, "compile")
          /\ UNCHANGED <<cut, fails>>
       \/ /\ WriteFails
          /\ cut' = cut \union {Prog(w, k)}
          /\ Goes(w, k, "failed")
          /\ UNCHANGED ccsrc
    /\ UNCHANGED <<mode, tree, objs, exes, baseline, taken, applied, accepted, unrestored,
                   runs, killed>>

Compiles(w, k) == mode.ccache => ccsrc[Prog(w, k)] = "whole"

(* A source cut short does not link; a build that succeeds is stored with  *)
(* one atomic replace.                                                     *)
Build(w, k) ==
    /\ At(w, k, "compile")
    /\ IF Compiles(w, k)
       THEN exes' = exes \union {<<Prog(w, k), k = "san">>} /\ Goes(w, k, "done")
       ELSE Goes(w, k, "failed") /\ UNCHANGED exes
    /\ UNCHANGED <<mode, tree, objs, ccsrc, baseline, history, counts>>

-----------------------------------------------------------------------------
(* The gate, and the project's own tests.                                  *)

Variant(w) == job[w].from + 1
TestsPass == /\ \A u \in Unit : tree[u] # Torn
             /\ \A u \in Breaking : TextOf(tree[u]) = 0

Accept(w) ==
    /\ accepted' = accepted \union {<<job[w].unit, Variant(w)>>}
    /\ IF mode.apply THEN Step(w, "apply") ELSE End(w)

Built(w) == \A k \in Kind : job[w].builds[k] = "done"

(* The harness rejects the variant, for a build that failed or another     *)
(* reason, or accepts it; with a test command an accepted one goes on to   *)
(* the project's tests.                                                    *)
Harness(w) ==
    /\ job[w].at = "build" /\ \A k \in Kind : job[w].builds[k] \in {"done", "failed"}
    /\ \/ End(w) /\ UNCHANGED accepted
       \/ Built(w) /\ ~mode.tests /\ Accept(w)
       \/ Built(w) /\ mode.tests /\ Step(w, "baseline") /\ UNCHANGED accepted
    /\ UNCHANGED <<mode, tree, caches, baseline, taken, applied, unrestored, cut, counts>>

(* confirm reads the original, and runs the tests on it unless this        *)
(* process has done so.  Where they fail the oracle is unavailable: an     *)
(* acceptance by the harness stands, and without one the unit is skipped.  *)
Baseline(w) ==
    /\ job[w].at = "baseline"
    /\ LET p == <<job[w].unit, TextOf(tree[job[w].unit])>>
           base == IF baseline[p] = None THEN TestsPass ELSE baseline[p]
       IN  /\ baseline' = [baseline EXCEPT ![p] = base]
           /\ CASE base               -> Step(w, "swap") /\ UNCHANGED accepted
                [] ~base /\ job[w].harness  -> Accept(w)
                [] ~base /\ ~job[w].harness -> End(w) /\ UNCHANGED accepted
    /\ UNCHANGED <<mode, tree, caches, taken, applied, unrestored, cut, counts>>

InTree(w, b) == tree' = [tree EXCEPT ![job[w].unit] = b]

(* The variant is written into the real source, whether or not the run     *)
(* applies anything, to be tested or (bench) to be measured; if the write  *)
(* fails, the original is still written back, ...                          *)
Swap(w) ==
    /\ job[w].at \in {"swap", "before"}
    /\ \/ /\ InTree(w, Variant(w))
          /\ Step(w, IF job[w].at = "swap" THEN "test" ELSE "after")
          /\ UNCHANGED fails
       \/ /\ WriteFails
          /\ UNCHANGED tree \/ InTree(w, Torn)
          /\ Step(w, "raised")
    /\ UNCHANGED <<mode, caches, baseline, history, runs, killed>>

(* As a bug would have it: a run of the tests that fails counts as one that*)
(* could not be had.                                                       *)
TestFailureIsSkipped(w) ==
    /\ job[w].at = "test"
    /\ Step(w, IF TestsPass \/ job[w].harness THEN "passed" ELSE "failed")
    /\ UNCHANGED <<mode, tree, caches, baseline, history, counts>>

(* ... the tests build and run from the tree as it is (their outcome is    *)
(* taken to be a function of it: no flaky test, no timeout), ...           *)
Test(w) ==
    /\ job[w].at = "test"
    /\ Step(w, IF TestsPass THEN "passed" ELSE "failed")
    /\ UNCHANGED <<mode, tree, caches, baseline, history, counts>>

(* ... the project bench is faster, or is slower, or fails, ...            *)
Measure(w) ==
    /\ job[w].at = "after"
    /\ Step(w, "faster") \/ Step(w, "slower")
    /\ UNCHANGED <<mode, tree, caches, baseline, history, counts>>

(* ... the verdict: tests alone decide for a harness's acceptance, a bench *)
(* is needed besides them without one.                                     *)
Conclude(w) ==
    CASE job[w].at = "passed" /\ ~job[w].harness -> Step(w, "before") /\ UNCHANGED accepted
      [] job[w].at = "passed" /\ job[w].harness  -> Accept(w)
      [] job[w].at = "faster"                    -> Accept(w)
      [] OTHER                                   -> End(w) /\ UNCHANGED accepted

(* As a bug would have it: the source is restored only after a success.    *)
RestoreAfterPass(w) ==
    /\ job[w].at \in {"passed", "failed", "faster", "slower", "raised"}
    /\ IF job[w].at \in {"passed", "faster"} THEN InTree(w, job[w].from) ELSE UNCHANGED tree
    /\ Conclude(w)
    /\ UNCHANGED <<mode, caches, baseline, taken, applied, unrestored, cut, counts>>

(* ... and the text that was read is written back in any case, with the    *)
(* line ends read_text gave it.  If that write fails, the variant stays,   *)
(* or a part of the text, and the unit ends in an error.                   *)
Restore(w) ==
    /\ job[w].at \in {"passed", "failed", "faster", "slower", "raised"}
    /\ \/ /\ InTree(w, job[w].from)
          /\ Conclude(w)
          /\ UNCHANGED <<unrestored, fails>>
       \/ /\ WriteFails
          /\ UNCHANGED tree \/ InTree(w, Torn)
          /\ unrestored' = unrestored \union {job[w].unit}
          /\ End(w) /\ UNCHANGED accepted
    /\ UNCHANGED <<mode, caches, baseline, taken, applied, cut, runs, killed>>

(* The transaction's write, which is refused unless the file holds, byte   *)
(* for byte, the text that was verified (and may fail, leaving the file    *)
(* alone; what the run then takes back is CodebaseRun's).                  *)
Apply(w) ==
    /\ job[w].at = "apply"
    /\ \/ /\ tree[job[w].unit] = job[w].from
          /\ InTree(w, Variant(w))
          /\ applied' = applied \union {<<job[w].unit, Variant(w)>>}
       \/ UNCHANGED <<tree, applied>>
    /\ End(w)
    /\ UNCHANGED <<mode, caches, baseline, taken, accepted, unrestored, cut, counts>>

-----------------------------------------------------------------------------
(* The next run: in the same process (the daemon), whose memory of test    *)
(* baselines stays, or in a new one after this one was killed.  Before it  *)
(* the user may take the sources back to what they were.                   *)
Rerun ==
    /\ runs < MaxRuns /\ runs' = runs + 1
    /\ taken' = {}
    /\ job' = [w \in Worker |-> Idle]
    /\ \/ /\ taken = Unit /\ \A w \in Worker : job[w] = Idle
          /\ UNCHANGED <<baseline, killed, cut>>
          /\ tree' \in {tree, Original}
       \/ /\ baseline' = [p \in Program |-> None] /\ killed' = TRUE
          /\ cut' = cut \union {p \in Program : \E w \in Worker, k \in Kind :
                                              At(w, k, "write") /\ Prog(w, k) = p}
          /\ UNCHANGED tree
    /\ UNCHANGED <<mode, caches, applied, accepted, unrestored, fails>>

Init ==
    /\ mode \in Modes
    /\ tree = Original
    /\ objs = [p \in Source |-> None]
    /\ ccsrc = [p \in Program |-> "none"]
    /\ exes = {}
    /\ baseline = [p \in Program |-> None]
    /\ job = [w \in Worker |-> Idle]
    /\ taken = {} /\ applied = {} /\ accepted = {}
    /\ unrestored = {} /\ cut = {}
    /\ runs = 1 /\ killed = FALSE /\ fails = 0

WorkerStep(w) ==
    \/ \E u \in Unit : Take(w, u)
    \/ ReadSource(w) \/ CompileObject(w) \/ Propose(w)
    \/ \E k \in Kind : LookUp(w, k) \/ OpenSource(w, k) \/ WriteSource(w, k) \/ Build(w, k)
    \/ Harness(w)
    \/ Baseline(w) \/ Swap(w) \/ Test(w) \/ Measure(w) \/ Restore(w) \/ Apply(w)

Next == (\E w \in Worker : WorkerStep(w)) \/ Rerun

Spec == Init /\ [][Next]_vars

-----------------------------------------------------------------------------
(* Properties.                                                             *)

(* The types of the tree, the caches and the workers' states.              *)
WorkersTypeOK ==
    /\ mode \in Modes
    /\ tree \in [Unit -> Bytes]
    /\ objs \in [Source -> Bytes \union {None}]
    /\ ccsrc \in [Program -> {"none", "part", "whole"}]
    /\ exes \subseteq Program \X BOOLEAN
    /\ baseline \in [Program -> BOOLEAN \union {None}]
    /\ \A w \in Worker : job[w].at \in {"idle", "archive", "object", "build", "baseline",
         "swap", "test", "passed", "failed", "before", "after", "faster", "slower", "raised",
         "apply"}
    /\ taken \subseteq Unit /\ applied \subseteq accepted /\ accepted \subseteq Program
    /\ unrestored \subseteq Unit /\ cut \subseteq Program
    /\ runs \in 1 .. MaxRuns /\ killed \in BOOLEAN /\ fails \in 0 .. MaxFails

Swapped(u) == \E w \in Worker :
    /\ job[w].at \in {"test", "passed", "failed", "after", "faster", "slower", "raised"}
    /\ job[w].unit = u

(* "swap the variant into the real source, run the tests, ALWAYS restore"  *)
(* (reuse.py:101): with any number of workers, a source that no oracle is  *)
(* testing holds the text of its first version or one that was accepted    *)
(* and applied, unless a run was killed or the restoring write itself      *)
(* failed; also where the write of the variant failed halfway.             *)
TreeIsClean ==
    killed \/ \A u \in Unit : \/ Swapped(u) \/ u \in unrestored
                              \/ TextOf(tree[u]) = 0 \/ <<u, tree[u]>> \in applied

(* The same sentence read to the letter, which CR LF line ends refute:     *)
(* without kills and failing writes, a source nobody is testing and        *)
(* nothing was applied to is what it was.                                  *)
SourceIsRestored ==
    killed \/ \A u \in Unit : \/ Swapped(u) \/ u \in unrestored
                              \/ tree[u] = Original[u] \/ <<u, tree[u]>> \in applied

(* "per-TU objects: keyed on (source bytes + flags); shared across every   *)
(* target and every run" (link.py:18): an object holds what its key says.  *)
(* The source is read twice, so this needs a tree that does not change in  *)
(* between: one worker, or workers that neither test nor apply.            *)
ObjectMatchesKey ==
    (mode.jobs = 1 \/ ~(mode.tests \/ mode.apply))
      => \A p \in Source : objs[p] \in {None, p[2]}

(* "compiled from a CONTENT-ADDRESSED stable path" (compile.py:90), which  *)
(* whoever comes first writes in place and nobody else waits for: without  *)
(* the sanitizers (--fast), no build reads such a source before it is      *)
(* written, in whatever order the workers take their units, but where a    *)
(* failed write or a kill has cut it short for good.                       *)
BuildsSeeWholeSources ==
    ~mode.san => \A w \in Worker, k \in Kind :
                   At(w, k, "compile") => Compiles(w, k) \/ Prog(w, k) \in cut

(* "The sanitizer builds are INDEPENDENT of the diff-test build"           *)
(* (correctness.py:66): so what the one has done of its work takes nothing *)
(* from the other.  With ccache they share a source path, which refutes it.*)
SanitizerBuildsAreIndependent ==
    \A w \in Worker, k \in Kind :
      At(w, k, "compile") => Compiles(w, k) \/ Prog(w, k) \in cut

(* A change the harness accepted "must also survive the project's real     *)
(* acceptance criteria" (gate.py:91): with one worker, no accepted variant *)
(* breaks the project's tests.  A killed run, or a restoring write that    *)
(* failed, may have left one in the tree, on which later baselines fail.   *)
AcceptedPassedTests ==
    (mode.tests /\ mode.jobs = 1 /\ ~killed /\ unrestored = {})
      => \A p \in accepted : p[1] \notin Breaking

(* The same of parallel runs, of which "identical results to sequential"   *)
(* is said (Docs/BOOSTOPT_Roadmap.md:103).                                 *)
ParallelAcceptedPassedTests ==
    (mode.tests /\ ~killed /\ unrestored = {}) => \A p \in accepted : p[1] \notin Breaking
=============================================================================
