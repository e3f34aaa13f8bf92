# BOOSTOPT in TLA+

BOOSTOPT rewrites hot C++ functions, proves each rewrite equivalent and faster, and only then writes
it. This directory holds TLA+ models of the parts of it where that promise depends on order: workers
that share one tree and one set of caches, a transaction that must be undone, an optimization loop
with a cache and a budget, a daemon that commands can lose, an installer that can be killed,
surfaces that apply a report to a text that has moved on, and a metered server. TLC checks them on
small instances and TLAPS proves the central theorems for every instance. Paths below are relative
to `src/`.

1. The system
2. Modules and how they correspond to the code
3. Runs
4. Fairness
5. Proofs
6. What is not modelled
7. Disagreements between the code and its words
8. Plan

## 1. The system

| part | code | state | operations | what makes it correct |
|---|---|---|---|---|
| apply transaction | `boostopt/engine/apply_txn.py` | files, `.bak` siblings, `_orig` snapshots, a lock | `write`, `rollback`, `commit` | all-or-nothing; a write never tears a file; a `.bak` is the original |
| codebase run | `boostopt/engine/api.py` | thread pool, results, one transaction | `optimize_codebase` | rollback sees no write in flight; a failed write undoes the batch; reports are true; the run ends if its subprocesses do |
| optimization loop | `boostopt/engine/orchestrator.py` | target, visited functions, attempts | `run`, `_best_of_n`, `_repair`, `_from_cache` | only proven rewrites are written; each function once; the model is never worse than the rules |
| invariant gate | `boostopt/engine/gate.py` | none | `decide` | accepts exactly what the oracles proved |
| oracles | `adapters/domain/performance/` | build directories | `equivalent`, `evaluate`, `compare` | the decision made from each measurement |
| project-test oracle | `adapters/domain/performance/reuse.py` | the real source file, `_BASELINE` | `confirm`, `bench_compare` | the text is back whatever the outcome; an outcome is blamed on the right variant |
| build and link caches | `adapters/language/cpp/link.py`, `build/compile.py` | objects, sources and executables under `/tmp` | `build_object`, `compile_pair` | an entry is what its key says; nobody reads what another is still writing |
| sensor, proposers | `adapters/language/cpp/sensor.py`, `adapters/proposer/` | target | `collect`, `propose`, `repair` | picks an unvisited function; asks the meter before each call |
| detection and transforms | `adapters/language/cpp/analysis/detect.py`, `regex_detect.py`, `transforms/` | none | one detector and one rewriter per rule | a candidate has a rule to offer; no rule undoes another; a rewrite keeps the behaviour |
| rewrite cache | `boostopt/engine/cache.py` | `.boostopt/cache.jsonl` | `get`, `put` | holds only gated wins; the better entry is the last one |
| budget | `boostopt/runtime/budget.py` | two meters | `can_spend`, `charge`, `start_hotspot` | overshoot is less than one call |
| baselines | `boostopt/engine/baselines.py` | a JSON file | `record`, `_save`, `check` | what was recorded stays recorded |
| daemon and command line | `boostopt/surfaces/daemon.py`, `cli/main.py` | a Unix socket, a warm engine | `serve`, `serve --stop`, `try_client` | one daemon; a command runs once; every client is let go |
| provisioning, uninstall | `runtime/provision.py`, `receipt.py`, `surfaces/uninstall.py`, `cli/main.py` | Ollama, its models, a receipt, pointer and configuration files | `init`, `uninstall` | removes what it installed and nothing else; "ready" is true; a fallback never becomes an intent |
| hosted server | `boostopt_server/` | accounts file, in-memory accounts, lock | `consume`, `issue`, `revoke` | the quota holds; what was answered is durable |
| editor extension | `editors/vscode/src/` | open document, findings, proof panel | `runOptimize`, `applyFinding` | a finding applied to its own text gives the verified text |
| CI actions | `examples/github-action/` | pull-request comments, a check | `main`, `upsert_comment`, suggestions | one summary; the check tells what the report says |
| ledger, hosted client, admin tool, harness synthesis, compile database, sandbox | see section 6 | | | |

How they interact. The command line hands a command to the daemon if one answers, and runs it itself
otherwise. Either process builds an `Engine`, which for `--apply` opens one `ApplyTransaction` and
hands each translation unit to a worker. A worker runs the orchestrator's loop: the sensor reads the
file, the cache or the proposer gives candidates, the gate asks the oracles about each (one of which
swaps the candidate into the real tree), the transaction writes the best. The main thread takes
results in input order and, on any exception, joins the pool and rolls back. Processes meet only
through files: the sources, the object and executable caches, the rewrite cache, the floors, the
receipt, the socket. The editor and the CI action run the command line and apply or post what it
reports. The hosted server wraps the same engine behind a token whose runs are metered in
`accounts.json`.

What is hard. Workers write while the main thread waits for another one; an interrupt can arrive at
any point, including inside the join; the sensor's text is minutes old when it is overwritten; a
variant under test is in the tree other workers compile; a kill leaves half of a shared file; a
client cannot know whether a daemon that hung up had run its command; a report's line numbers are
used on a document that changed; request threads share one account file, and the store behind it is
made lazily. `PROJECT.json` lists these hazards one by one, at the line where they bite, with the
properties that watch each of them or the reason why none does.

## 2. Modules and how they correspond to the code

```
AtomicApply <-- implemented by -- ApplyTransaction <-- composed into -- CodebaseRun
                                                                          ^ EXTENDS
                                                                  CodebaseRunFaults
Gate <-- EXTENDS -- Hotspots        Workers      Daemon      Install      HostedServer
Patch <-- EXTENDS -- Editor, Review <-- composed into -- Surfaces         Rules
```

**AtomicApply** is the abstract promise of `--apply`: changes are staged one by one and the tree
takes all of them or none. The one exception the code makes, a restore that failed and was
swallowed, is visible as `damaged`.

**ApplyTransaction** is `apply_txn.py`, one action per atomic step. `write` is `CallWrite`,
`ReadAnchored`, `TakeSnapshot`, `SaveBackup`, `Replace`, with `RaiseApplyError` wherever the code
raises; `rollback` is `BeginRollback`, then `Truncate` and `Fill` for each file (because
`write_bytes` truncates in place), `RestoreFails` for the swallowed `OSError`, and `EndRollback`;
`TakeSnapshot` waits while a rollback holds the lock. A text is an opaque value. `TxnSpec` is the
transaction in the hands of any caller that starts no write after it has ended and ends it when none
is in flight.

**CodebaseRun** is `Engine.optimize_codebase` with `apply=True`. `task[t]` is the position of a
unit's worker in the orchestrator's loop, `main` the position of the main thread. A worker may be
`hung` in a project bench that never ends (`BenchHangs`): the one thing a worker waits for without a
timeout. `jobs` is chosen initially, so both the pool and the inline path are covered. Pool
semantics that matter are kept: units start in input order, at most `jobs` at a time; `ex.map`
yields in input order; leaving the iterator cancels what has not started; leaving the `with` joins
what has. It uses the transaction's actions, and `KeepsTxnContract` says it uses them lawfully.

**CodebaseRunFaults** puts the same run into a hostile environment: editor saves, a kill, Ctrl-C
again in the join or in the rollback. `Faults` selects which.

**Workers** is what the pool shares outside its process memory. `CodebaseRun` has no notion of what
a unit contains; here a unit is a version number, its variant the next one, and `tree` says what
each source file holds: a version, the first one with CR LF line ends (`Crlf`), or what a failed
write left (`Torn`). `TextOf` is `read_text`, which makes every line end LF, and that is what is
written back. `ReadSource` and `CompileObject` are the two readings of a source that `link.py` makes
for one object (once for the key, once in the compiler). A worker builds up to three executables at
once, both harnesses and the variant's under sanitizers: `LookUp`, `OpenSource`, `WriteSource`,
`Build` are one of them in `compile.py`, whose source is written in place on a path that the
variant's two builds have in common. `Baseline`, `Swap`, `Test`, `Measure`, `Restore` are `confirm`
and the project bench; the write of the variant and the write that restores may fail, and leave the
file as it was or torn. `Rerun` is the next run, in the same process (whose `_BASELINE` stays) or
after a kill.

**Gate** is `InvariantGate.decide`, `_decide_via_tests` and the small decisions the oracles make
(`sanitizers.evaluate`, `_pareto`, the confirmation run) as operators on a *reading*, the record of
what the oracles would find out: `Shown` is what the harness can establish of a rewrite, `Proven`
says independently of the gate's order of returns what it takes to call a rewrite proven.

**Hotspots** is `Orchestrator.run` on one file, run after run with the cache in between, and the
cost meters within. Each gate call draws a fresh reading, so the same candidate may pass today and
fail tomorrow. `PickHotspot`/`NoHotspot` are the sensor, `ReuseVerdict`/`VerifyCached`/`MissCache`
the cache lookup, `GateFloor`/`GateRule`/`Draw`/`Repair` and their ends the best-of-n,
`ConcludeAccepted`/`ConcludeRejected`/`NothingProposed` the end of a round.

**Rules** is the rule proposer. A function is what the detectors look at: its local containers and
where they grow, its `if (m.count(k))` statements, its parameters; overloads share a name.
`Reported` is what the seven detectors find in a function and `Usable` what of it the rule can act
on; `SiteOf` looks a site up by name, as the code does, so that of several overloads the first to
report something answers, and `GrowthIn` is the one rule with a fallback to regular expressions.
`Candidates` are the names of one rule, `Selectable` what the sensor may choose, `Propose` the first
enabled rule that matches, `Rewrite` the transforms. `Outcome` is the reference semantics of a
lookup and its fused form: which key each name stands for (a branch may assign one), where the
iterator is, and, in a `std::unordered_map`, the rehash that a new key may cause.

**Daemon** is `daemon.py` and the choice `main` makes, process by process: `StartServe`, `Clear`,
`Bind`, `Listen`, `Accept`, `Request`, `Answer`, `Close`, `Unlink`; `StartCommand`, `Send`,
`Receive`, `RunLocally`; `StartStop`, `ClearStale`. A connection is in the backlog from `connect()`
on, as the kernel has it. A command's run records into the rewrite cache (`PutCache`) and the floors
(`LoadFloors`, `SaveFloors`), which two processes may do at once.

**Install** is `boostopt init` (`_init`, `provision.py`) and `boostopt-uninstall`, one action for
each call that leaves the process: probe, installer, wait, pull, create, reading and writing the
receipt, pointer and configuration; then the removals. Every one of them may fail, and `Crash` may
come between any two. Flags (`--pull`, `--install-ollama`, `--with-ollama`) are chosen where a
command looks at them, once. `putBy` and `ollamaBy` remember who made a thing present.

**Patch** is a report's unified diff as lines. `Rewrite` is the text the gate verified, `Hunks` what
`difflib` makes of the two texts (the lines within the context of a change, and of those every
connected stretch), `ApplyHunks` how a surface puts them into a text, from the last one to the
first. **Editor** is the extension over the file on disk and the open document; **Review** the
action's run for each push, from exit code to check; **Surfaces** composes them: what was optimized,
typed and saved in the editor is pushed.

**HostedServer** is `app.py`'s two POST handlers over `store.py` and `billing.py`. A thread's `pc`
walks the handler; `default_store()` is the unguarded test, construction and assignment it is
(`UseStore`, `BuildStore`, `PublishStore`); `consume` is `Refuse` or `Reserve`, then `Count`, which
asks for the period a second time as the code does; `BodyArrives` is `rfile.read(n)`, which waits
for the client; `_save` is `OpenTmp`, `FillTmp`, `ReplaceFile` under the lock. A handle on the
shared `.tmp` may outlive a rename by another store, so `handle` follows the inode. `started`,
`paid` and `cancelled` are history: what callers were told.

The `MC*` modules give constants their values. Definitions introduced by "As a bug would have it"
are the mutations that show each property can fail; no specification uses them. `PROJECT.json` maps
every definition to its lines.

Some properties hold only under a proviso. Most are history variables: the behaviour is in the
model, and the property speaks of the states in which it has not happened. These are `overlap` (two
commands ran at once), `cut` in Daemon (a signal took a run), `crowded` (two `serve` commands
between their look at the socket and their act), `alone` (one init or uninstall at a time), `killed`
(a run was killed), `unrestored` and `cut` in Workers (the write that restores a source failed; a
shared source was written in part), `raced` (two runs of the action overlapped), `doubled` (two
threads were building the account store at once). Two are constants and do leave behaviour out of
the runs: `UserRepulls`, which is FALSE in the run (with TRUE, the user installs again what the
receipt still claims, and `OnlyOursRemoved` is about the other case only), and `Modes` of Workers,
the command lines that are tried. The theorems are about every value of `Modes`. Section 7 says what
happens without the provisos.

## 3. Runs

Passing runs:

| run | instance | distinct states | shows |
|---|---|---|---|
| `CodebaseRun` | 2 units, `jobs` 1 or 2, 2 rounds each, 2 texts, `.bak` on | 302,517 | all-or-nothing by refinement, lawful use of the transaction, truthful reports, backups; unless a project bench never ends, a failed write ends in a rollback and the run ends |
| `CodebaseRunFaults` | 2 units, 1 round each, 2 edits, all faults | 441,133 | whatever the environment does, a write overwrites only the text that was read, unless it was touched after the comparison |
| `Hotspots` | 2 harness functions and 1 for tests only, 10 readings, 5 command lines, 2 runs of 3 rounds, 2 draws, 1 repair | 1,563,087 | only proven writes, each function once, rule floor respected, the cache stores what the harness earned in that round, spending bounded |
| `Workers` | 1 or 2 workers, 2 units (one's variant breaks the tests, the other has CR LF line ends), 5 command lines, 1 write that fails, 2 runs, a kill or a revert between | 4,376,105 | swapped variants are taken back, objects are what their keys say, no build reads a source that another is writing, one worker accepts nothing the tests reject |
| `Rules` | files of one function with up to two containers or lookups of up to two accesses, files of two functions or two overloads with a vector, string or list each, 3 filters | 45,106 | fusion keeps the behaviour where nothing disturbs the iterator or the key, candidates have proposals unless an overload masks them, repeated runs come to an end |
| `Daemon` | 2 commands, 2 invocations of `serve` or `serve --stop`, 1 signal | 372,556 | a command runs once, floors and cache keep what was recorded, one daemon, every command ends |
| `Install` | 2 projects, 3 commands, `--model` absent or a third party's, 1 kill | 1,257,818 | only what an init put there is removed, the claim on Ollama survives, ready is true, a fallback is not an intent |
| `Surfaces` | 6 lines, a function with two changes and one between them, 2 runs, 1 edit, 2 pushes, 1 comment of a person, a page of 1 | 4,415,652 | a finding applied to its own text gives the verified text, one summary, the check tells |
| `HostedServer` | 2 threads, 3 requests, 2 tokens (quota 1, unlimited), 2 months, 1 kill | 923,466 | unless two stores were built at once: quota, durability of what was answered, finality of a revocation; with any number of stores: a request that has its body ends |

Why the bounds are enough. Two units in a pool of two already give every pair of positions of a
writer and another writer, or of a writer and the main thread; the transaction treats files
independently, and the theorems below remove the bound. Two rounds make the second write of a file,
which is what the first-snapshot and first-`.bak` rules are about. In `Hotspots` the ten readings
cover every way through both gates, two wins of different gain make "better" meaningful, and the
second run sees what the first one cached; the meters (3 and 2 tokens, calls of at most 2) are
reached by draws and by repairs. In `Workers` one unit whose variant passes and one whose variant
breaks the tests is the least tree in which an outcome can be blamed on the wrong variant, and the
second run meets the caches a killed one left; the other unit's source has CR LF line ends, so one
write back shows both conversions. The five command lines look at the oracle's use of the tree and
at ccache's shared source path apart, because a build reads what its worker holds and never the
tree; a run without `--apply` is one whose writes all fail, so it is tried only where two workers
share objects and a write would change the sources under them; and the sanitizers' build races its
sibling within one worker, so `--jobs 2` is not combined with it. `Rules` has every branch of two
statements, which is one access and one thing that disturbs it, in both orders, over two keys and
two names; two overloads are enough for one to hide the other. `Daemon` has a client behind another
one in the backlog of a daemon that a second `serve` probes or stops, and a signal at each step.
`Install` has two projects that share one machine: three commands are an init, another init or an
uninstall, and a third that reads what the first two left. In `Surfaces` the two changes of one
function enclose the other's and have different lengths, so a wrong order or a moved line shows; the
page of one comment makes the listing overflow. `HostedServer` has two runs racing for the last of a
quota, with the month ending between `Reserve` and `Count`, a kill at each step of a save, and two
first requests that build a store each. Every action of every specification fires in some passing
run.

Deadlock is checked in `CodebaseRun`, `CodebaseRunFaults`, `Hotspots` and `HostedServer`, whose
intended final states stutter explicitly (`Stopped`, `AllRunsDone`, `Quiet`). The other systems
really stop: the commands of `Install` and `Daemon`, the runs of `Workers`, the pushes of `Surfaces`
and the rewrites of `Rules` come to an end when the bound on them is used up, so those runs say
`CHECK_DEADLOCK FALSE`; that nobody waits for ever in them is `CommandsEnd` and `Settles`.

Runs that find the program disagreeing with its own words:

| run | property | in short |
|---|---|---|
| `DoubleInterrupt` | `NoHalfEditedTree` | Ctrl-C again while the pool is joined: rollback runs under live workers and one writes afterwards (`api.py:112`) |
| `ParallelTests` | `ParallelAcceptedPassedTests` | with two workers, one unit's test baseline is taken while another's breaking variant is in the tree; it fails, the oracle counts as unavailable, and a breaking variant is accepted (`reuse.py:104`) |
| `RequestKillsDaemon` | `RequestsNeverKill` | a second `serve` probes the socket and leaves; the daemon answers the empty request and dies of it (`daemon.py:107`) |

`findings` in `PROJECT.json` quotes the sentence each of them contradicts.

## 4. Fairness

`RunSpec` has weak fairness for each worker and for the main thread: they are operating-system
threads, and what they wait for is another worker or a subprocess. Every subprocess is run under a
timeout but one: the project bench, measured directly, is waited for with `os.wait4`
(`reuse.py:179`). That hang is in the model: `BenchHangs` may take a worker for ever, and `RunEnds`
and `WriteFailureRollsBack` except exactly the runs in which it did. Interrupts have no fairness.
`HostedServer!Spec` has weak fairness for each handler thread; what it waits for is a lock whose
holder is saving a file, and an engine whose subprocesses time out. The body of a request is read
without a timeout (`app.py:100`) and may never come, so `BodyArrives` has no fairness, and
`RequestsEnd` says that a request ends or waits for its body. Under weak fairness alone a thread
could be kept out of the lock for ever by an endless stream of other requests, which `MaxRequests`
excludes: the property is about locks that are never given back, not about starvation. `Daemon!Spec`
has weak fairness for every process that was started; nobody has to start one, and a client is
served because the backlog is a queue. `Rules!Spec` has weak fairness of `Next`: an assumption about
the user, who runs the tool again as long as it changes something. Arrivals, kills, month ends and
failures owe nothing. The other specifications claim no liveness; `CodebaseRunFaults` claims none
because a killed process finishes nothing.

## 5. Proofs

Proved by TLAPS for every value of the constants: any number of files, units, jobs, functions,
readings, workers, threads, months, clients, daemons, edits and kills. The assumptions are the named
ones on the constants (`TextAssumption`, `BackupAssumption`, `RunAssumption`, `FaultAssumption`,
`HotspotAssumption`, `HostedAssumption`, `WorkersAssumption`, `InstallAssumption`,
`DaemonAssumption`, `RulesAssumption`, `PatchAssumption`, `EditorAssumption`, `ReviewAssumption`),
which TLC evaluates in the runs.

*CodebaseRunProofs, the transaction.* The safety properties of the transaction are not inductive by
themselves. `TxnInv` adds the reason a rollback is able to restore: a snapshot is the original text
(`FirstSnapshot`), a file that differs from its original has a snapshot (`ChangedIsSnapshotted`),
between its read and its replace a call holds what the file holds (`CallHolds`), an ended
transaction has no write in flight (`EndedIsQuiet`), and the files already restored are originals
(`RollbackProgress`). One lemma per action shows that it keeps `TxnInv`. Types,
`RollbackIsComplete`, `BackupsAreOriginals` and `WritesNeverTear` follow. `AllOrNothing` is the
refinement of AtomicApply: the abstract tree is what a rollback would leave, the staged changes are
what snapshotted files hold now; each step is shown to be an abstract step or a stutter.

*The run.* `RunInv` says that only a task in its write has a write in flight, that the transaction
is open exactly until the main thread ends it, that results already taken are of ended tasks, and
that nothing is queued once the run unwinds and nothing live once it has rolled back. From it,
`RunIsLawfulCaller` shows that each step of the run is a step of `TxnSpec`: joining before the
`except` clause, and taking results in order, are exactly what makes the transaction quiescent.
`RunIsAllOrNothing` and `RunRestores` are then the transaction's theorems applied to the run.
`RunIsTyped` and `ReportsHold` need one invariant more, `BookInv`: what a task has written and what
its verdicts say agree, except between the return of the write and the line that records it
(`AppliedOnDisk`), and what it writes is a text (`WritesText`).

*What happens around it.* With edits and interrupts the run is no lawful caller any more, so nothing
above applies. `AnchorInv` is about one write alone: its worker waits for it and does not read the
file again (`WriterWaits`), it was called with the text the sensor read (`ExpectsSeen`), and past
its comparison the file still holds that text unless it was touched (`HoldsSeen`). The step that
needs the first of them is a rollback's `Fill`, which only changes a torn file: no text that was
verified. `WritesWhatWasVerified` follows.

*HotspotsProofs.* `SoundAcceptIsProven` compares the gate with `Proven`: nothing the orchestrator
would call sound is unproven, under any policy and reading. `LoopInv` carries that verdict from the
gate call to the write, past the other candidates and the cache, and keeps the function under way
out of `visited`. `OnlyProvedWrites` and `NoFunctionTwice` follow. `LoopTypes` is by `TypeInv`,
which adds where the walk stands. `MetersHold` needs the types only, because a call is charged after
one comparison. `FloorHolds` keeps, next to the best so far, that it is at least the floor that was
gated (`FloorInv`). `CacheIsGated` is about the step that stores: it carries from the gate call what
a fresh best has been found to be (`FreshBest`), so that what goes into the cache was earned in that
very round, by the harness, for that text and policy (`StoredIsEarned`), and an entry gives way only
to a faster one.

*HostedServerProofs*. `HostedTypes` holds however many stores there are (`TypesInv`: a thread past
`default_store()` has a store, with memory). The other theorems are about runs up to the moment two
threads are building a store at once: `HostedInv` is shown to hold as long as `~doubled`, which once
lost stays lost. It has two halves. `Control`: where a thread may be for its kind of request
(`Places`), that they all use one store (`OneStoreUsed`), and that whoever counts or saves holds its
lock (`LockHeld`). `Data`: a complete `.tmp` is the memory as it was when the save began
(`TmpIsSaved`), the memory is ahead of the file and the file ahead of what was answered, never the
other way round (`StoreAhead`, `InHand`, `WrittenDown`), and a minted token is nobody else's
(`FreshTokens`). Only the lock's holder stands between memory and file, which is why a kill loses
nothing that was answered (`AnswersAreDurable`) and why a reserved run has been counted when it
starts (`QuotaIsKept`). `RevocationIsFinal` follows from the same order: a cancelled token is
inactive in the file, hence in memory, hence refused.

*WorkersProofs.* `WorkersInv` starts from ownership: a unit is in the hands of one worker
(`Owners`), and the position of that worker tells which version its source holds (`Positions`).
After a write that failed that is the old bytes or a torn file. A unit nobody owns holds the text of
its first version or an accepted and applied one, unless the write that restores it failed
(`Clean`), which is `SwapsAreTakenBack`. Where nothing writes the tree during a compilation, the
compiler reads what the key was made from (`ReadTwice`), which is `ObjectsMatchKeys`.
`NoHalfWrittenSource` is about who writes a shared source: two workers' programs are of different
units, so without sanitizers only its own build does, and it compiles after it has written or found
the whole (`WholeSources`). With one worker every baseline passes and a breaking variant's test
fails (`TestsTell`), which is `AcceptedSurvivesTests`. Most lemmas say that a worker's step is
invisible to the others.

*InstallProofs*, under the proviso `~UserRepulls`. The heart of `InstallInv` is `Claims`: an item
the receipt names is gone, or an init put it there (`Mine`). The receipt is read early and acted on
late, so the same is said of whatever a command has in hand, a snapshot, a claim or a list to remove
(`TakesOurs`); hence `RemovesOnlyOurs`, also for commands side by side. `FileTypes` has nobody
asking for the base model, which is `FallbackStaysLocal`. `ReadyHolds` and `ClaimOutlives` are about
a command that runs alone, and need what such a command knows of the machine from its own earlier
steps (`Knows`).

*DaemonProofs* has three invariants on top of types and `Owners` (a run belongs to the process that
is busy with it). `SocketInv`: unless `crowded`, one process passes between look and act
(`OnePasses`), nobody serves while it does, and the socket file leads to the one in the loop
(`Path`), which is `OneServes`. `FilesInv`: unless `overlap`, the one command at work has in memory
what the files hold, and the floors hold what was recorded unless it is between its load and its
save; `RecordsStay` and `ScoreRises` follow. `CountInv`: a connection is in one place, a backlog, a
serve process's hand or nowhere (`Placed`), and the place tells how often its command has run
(`Counted`): not yet in a backlog, and not at all when the connection is reset without a signal to
the daemon (`Dropped`). That is what lets the client run it again, and `NeverTwice` follows.

*RulesProofs* is about operators that walk over sequences of any length. The walks are recursive
functions, and what is said of them is shown by induction in the form of a set: the numbers for
which it holds contain 0 and, with each number, the next one, or else the least number outside would
contradict that (`Smallest`, from the well-foundedness of `<`; `Induction`). `FusingIsEquivalent`
goes through the branch of a lookup statement by statement: before the last access the iterator of
the fused form stays at the key its name stands for (`IteratorKept`), because what could take it
away, an erase, an assignment of the name, in a hashed map a new key, is what the premise excludes;
so it reads what `at()` reads. `CandidatesAreOffered` shows that the sensor's look at a file,
function by function, and the rules' look, by name, agree, the fallback to regular expressions
included, unless an overload whose bound is unknown is found before one whose bound is known
(`Masked`). `RewritesLeaveLess` is the safety half of `Settles`: the number of sites still to do
(`Left`, over functions, rules and places) is a natural number that every step lowers, so no rule
can undo or repeat what another did.

*SurfacesProofs.* Half of it is about text. `RewriteSplit` and `RewriteKeeps` say that the verified
text is put together part by part and that parts no site lies in stay. `HunkIs`, `HunkStarts` and
`NotCovered` say what the diff consists of: hunks are maximal covered stretches, and between two of
them nothing changes. `StepDown` is the step of the induction over the lines from the last hunk's
start upwards: once everything from line k on is in place, the next hunk above leaves everything
from its own start in place, because the lines it splices are still where the report saw them. This
is what `HunksApplied`, and with it `AppliedAsVerified`, rests on; applied from the top it fails as
soon as a hunk changes the number of lines. The other half is `SurfacesInv`: findings are verdicts
on the text their report was about (`EditorOK`); a run's exit code follows from its report from the
moment the command ends (`PushesOK`), hence `CheckIsTheReport`; suggestions are of what the run
found (`NotesOK`); and unless `raced`, only the last push has a run under way, what it saw on the
page is still there, and a summary on the page is the only one (`CommentsOK`), which is
`SummaryIsOne`. The invariant was checked by TLC on the instance of the run before it was proved.

Only model-checked is liveness, which is beyond the prover: `RunEnds`, `WriteFailureRollsBack`,
`RequestsEnd`, `CommandsEnd` and `Settles` (whose safety half is `RewritesLeaveLess`). Every other
property of a passing run is stated by a theorem.

## 6. What is not modelled

* Texts: harness generation, prompts, wording of reports. C++ is modelled as far as the detectors
  and transforms look at it (`Rules`); parsing it, the regular expressions' misreadings of comments
  and strings, and names that shadow each other are left out. The branch of a lookup is
  straight-line code.
* Measurement: compiling, running, timing, the sandbox. What they find is a reading. Timeouts and
  flaky tests of the project are left out of `Workers`: its theorems take the outcome of the tests
  for a function of the tree.
* The parts of the object and executable keys that do not change within a run: flags, compiler,
  standard. Headers are not in the keys at all (section 7), and no header changes in the model.
* Newline translation inside the transaction: a source with CRLF fails the anchor's byte comparison,
  which appears as the `ApplyError` that any write may raise. In the project-test oracle it is
  modelled (`Workers`).
* In `Workers`, no two units have the same text, a torn source does not compile and fails the tests,
  and one sanitizers' build stands for ASan with UBSan and for ThreadSanitizer.
* Two units naming one file: `compile_db.load` drops duplicates, so at most one write per file is in
  flight. `ApplyTransaction` rests on that. The rest of the compile database is parsing.
* The ledger, which no decision reads. The timings of the floors: whether a floor is armed and how
  two processes' records merge are kept.
* Money and time budgets, which are the same comparison as the token meter.
* The hosted server's first-run seeding, signature verification and a plan name outside the
  catalogue; the hosted client, which is one call and one write; the admin tool, because the store
  declares itself unsafe across processes.
* The network behind provisioning: a probe, a pull or an installer succeeds or fails at once.
* The editor's other commands and its tree of findings, GitHub's rate limits, the GitLab recipe.
* `install.sh`, packaging, documentation, the wedge test and the release tools.

`PROJECT.json` lists every component with its status.

## 7. Disagreements between the code and its words

Those with a run are in section 3. The others, met while translating; where the model has the
behaviour, the proviso that keeps the properties true of it is named.

Loop and run:
* `--budget` is promised "per run" (`parser.py:120`), but every unit gets a meter of its own
  (`registry.py:57`): a codebase run may spend it once per file. `Hotspots` is one file.
* A unit that fails after its first write keeps that write, and its row says only "error"
  (`api.py:90`); `ReportsTruthful` is about units without an error.
* A project bench that never ends keeps the run, or its join, for ever (`reuse.py:179`,
  `BenchHangs`).
* Between the comparison with the anchor and `os.replace` an edit is overwritten
  (`apply_txn.py:60`): `OverwritesOnlyWhatWasRead` excepts a file touched after the comparison.
* A floor armed at the write stays armed when the run is rolled back (`orchestrator.py:230`;
  `baselines.py:7` promises floors of applied wins). `baselines.py:149`: a faster accept that was
  not applied takes a floor over and keeps its applied flag.
* A cached candidate that is rejected ends the hotspot; neither rules nor model are asked
  (`orchestrator.py:99`, `:192`, `:301`).
* With `--transforms`, the walk stops at a function for which no enabled rule exists (`sensor.py:44`
  does not know the filter, `orchestrator.py:196`).
* `--min-rung 2` rejects what `--min-rung 3` accepts (`correctness.py:73`, `parser.py:25`).

Workers (`killed`, `unrestored`, `cut`, the command lines in the properties' premises). TLC refutes
`SourceIsRestored` and `SanitizerBuildsAreIndependent` when they are put among the invariants of
`Workers.cfg`:
* "ALWAYS restore" (`reuse.py:101`) restores the text, not the file: `read_text` and `write_text`
  (`:89`, `:106`, `:127`, `:133`) turn a source with CR LF line ends into one with LF. The restoring
  write is in a `finally` and may fail itself, and leaves the variant, or part of a text, in the
  tree.
* The sanitizers' builds are called independent of the variant's (`correctness.py:66`), but with
  ccache they share its source path, which whoever is first writes in place and the other does not
  wait for (`compile.py:96`). A build that read half of it fails, and then a good variant is
  rejected, or ThreadSanitizer is skipped in silence (`sanitizers.py:70`). A source that a failed
  write or a kill cut short stays so, and every later build of that text fails.
* With `--jobs 2` and writes or tests under way, an object can be stored under a key made from
  another text (`link.py:70`); the key ignores headers (`link.py:73`), and so does the cache of
  parsed units (`parse.py:59`).
* An edit saved while `confirm` has a variant in the file is undone by its restore (`reuse.py:106`);
  two processes may swap the same file.

Daemon (`overlap`, `crowded`, `cut`):
* `load_profile` caches by relative path, so a second project's command reads the first one's
  profile (`profile.py:89`; `daemon.py:13` says the daemon changes nothing about a result). The
  client's environment is not forwarded.

Install (`alone`, `UserRepulls`, `killed`):
* A failed `ollama rm` is ignored and the receipt that claims the model is dropped
  (`uninstall.py:112`). A model the user installs again is removed on the strength of the old claim
  (`receipt.py:75`). The global configuration is removed even if it was written by hand.
* After a kill between two steps the pointer may name a base model that is not there
  (`main.py:197`), and a torn receipt reads as an empty one (`receipt.py:43`).

Surfaces:
* Applying one finding and then another of the same function undoes lines of the first
  (`panel.ts:133`, `extension.ts:219`): a hunk's context is written back with it. A dirty document
  is optimized as it is on disk (`extension.ts:122`), and the answers of two runs may arrive in the
  other order (`extension.ts:131`).
* With more than a page of comments, or two runs at once, a second summary appears (`gh.py:88`,
  `raced`).
* A report with failed units gives a green check that says "clean" although `render.py:208` says a
  real error returns 2; after a failed command the summary says the files were checked
  (`comment.py:125`). Suggestions are posted again on each push.
* A failure while the report or the outputs are written ends the action with a traceback, whatever
  the report says (`entrypoint.py:164`); `RunCli` has it.
* The hosted client writes what it gets without an anchor (`hosted_client.py:61`).

Rules. TLC refutes `ContractSuffices` and `CandidatesCanBeActedOn` when they are put among the
invariants of `Rules.cfg`:
* The contract of lookup fusion, no mutation between `count()` and `at()`, is said to make it
  output-equivalent (`fuse_map_lookup.py:26`, `:28`); it does not where the condition does not ask
  for the key or the branch assigns it. The detector checks neither the contract nor that: an
  `erase` of the key, a key put in that makes a `std::unordered_map` rehash, and a new value of the
  key's name all pass it.
* `candidates` are "function names this transform can act on" (`base.py:39`). Sites are looked up by
  name, the first overload that reports one answers (`detect.py:159`, `:194`), and one whose bound
  is unknown hides another that could be reserved. The loop takes the missing proposal for the end
  of the file (`orchestrator.py:196`).
* The lookup-fusion detector admits `count(k) == 0`, `> 1`, `>= 0` and `!= 1` (`detect.py:358`,
  "matched narrowly for soundness" at `:342`); the gate alone stops the rewrite.
* The first rule that matches hides the later ones, also when the gate has rejected it
  (`rules.py:27`). `side_effect_reason` looks at direct references only (`safety.py:79`).

Hosted server (`doubled`). TLC refutes `EveryRunIsMetered` when it is put among the invariants of
`HostedServer.cfg`:
* Two first requests build two stores, each with its own memory and lock (`store.py:156`), and each
  counts for itself, so a quota of one run admits two; "every run is metered" (`store.py:7`).
* A request whose body does not come holds its thread without a limit (`app.py:100`).
* A payment event delivered twice mints two tokens (`billing.py:114`).

## 8. Plan

Done: the transaction, the run and its faults, the loop with gate, cache and budget, the shared
caches and the project-test oracle, the rules, the daemon, installation, the editor and the CI
action, the hosted server; theorems for all of the safety properties of these.

Next: the safety halves of the remaining liveness properties (what a step brings nearer to its end),
as for `Settles`. The ledger, the hosted client and the compile database would add code to the map
and no question worth asking.
