----------------------------- MODULE CodebaseRun -----------------------------
(***************************************************************************)
(* Engine.optimize_codebase --apply (engine/api.py): one worker task per   *)
(* translation unit, a thread pool (or the main thread itself when jobs is *)
(* 1), one ApplyTransaction for all of them, and the main thread that      *)
(* takes the results in input order, joins the pool, and commits or rolls  *)
(* back.                                                                   *)
(*                                                                         *)
(* A task is the orchestrator's loop seen from the transaction: it reads   *)
(* its file (sensor.collect), has a variant verified (mutator.apply and    *)
(* gate.decide), writes it if it is accepted and sound, records the floor, *)
(* and goes round again.  What the gate decides is left open.              *)
(***************************************************************************)
EXTENDS Naturals, FiniteSets, ApplyTransaction

CONSTANTS NumTU, MaxJobs, MaxRounds

ASSUME RunAssumption == /\ NumTU \in Nat \ {0} /\ File = 1..NumTU
                        /\ MaxJobs \in Nat \ {0} /\ MaxRounds \in Nat \ {0}

VARIABLES
    jobs,      \* --jobs
    main,      \* "results" | "unwinding" | "rollback" | "raised" | "returned"
    next,      \* the task whose result the main thread waits for
    task,      \* File -> where the task of that translation unit stands
    round,     \* File -> rounds the task has begun
    seen,      \* File -> ev.source, the text the sensor read
    reported,  \* File -> text of the last verdict with applied set, or Nothing
    armed      \* files whose persisted floor has applied = true

taskVars == <<task, round, seen, reported, armed>>
mainVars == <<jobs, main, next>>
runVars  == <<txnVars, mainVars, taskVars>>

TaskState == {"queued", "cancelled", "collect", "verify", "write", "record",
              "hung", "ok", "error", "apply_error", "interrupted"}

Live(t) == task[t] \in {"collect", "verify", "write", "record", "hung"}

(* jobs = 1, or a single unit: the main thread runs the tasks itself.      *)
Inline == jobs = 1 \/ NumTU = 1

RunInit ==
    /\ TxnInit
    /\ jobs \in 1..MaxJobs
    /\ main = "results" /\ next = 1
    /\ task = [t \in File |-> "queued"]
    /\ round = [t \in File |-> 0]
    /\ seen = [t \in File |-> Nothing]
    /\ reported = [t \in File |-> Nothing]
    /\ armed = {}

TaskMoves(t, to) == task' = [task EXCEPT ![t] = to]

-----------------------------------------------------------------------------
(* The pool starts the units in input order, `jobs` at a time.             *)
Start(t) ==
    /\ main = "results" /\ task[t] = "queued"
    /\ \A u \in 1..(t - 1) : task[u] # "queued"
    /\ Cardinality({u \in File : Live(u)}) < jobs
    /\ Inline => next = t
    /\ TaskMoves(t, "collect")
    /\ UNCHANGED <<txnVars, mainVars, round, seen, reported, armed>>

(* A round begins: sensor.collect reads the file.                          *)
Collect(t) ==
    /\ task[t] = "collect" /\ round[t] < MaxRounds
    /\ seen' = [seen EXCEPT ![t] = disk[t]]
    /\ round' = [round EXCEPT ![t] = @ + 1]
    /\ TaskMoves(t, "verify")
    /\ UNCHANGED <<txnVars, mainVars, reported, armed>>

(* No hotspot left, out of rounds, or two rejects in a row.                *)
Finish(t) ==
    /\ task[t] = "collect"
    /\ TaskMoves(t, "ok")
    /\ UNCHANGED <<txnVars, mainVars, round, seen, reported, armed>>

(* The gate runs the project bench and waits for it with os.wait4, which   *)
(* has no timeout: a bench that never ends keeps its task for ever.  Of    *)
(* all that a task waits for this alone is unbounded.                      *)
BenchHangs(t) ==
    /\ task[t] = "verify"
    /\ TaskMoves(t, "hung")
    /\ UNCHANGED <<txnVars, mainVars, round, seen, reported, armed>>

(* Rejected, or accepted below the sound rung: nothing is written.         *)
Decline(t) ==
    /\ task[t] = "verify"
    /\ TaskMoves(t, "collect")
    /\ UNCHANGED <<txnVars, mainVars, round, seen, reported, armed>>

(* Accepted and sound: txn.write(file, source_after, expected=ev.source).  *)
(* The variant is made from the text mutator.apply reads now; a truncated  *)
(* source has no function to rewrite.                                      *)
Accept(t) ==
    /\ task[t] = "verify" /\ Torn \notin {seen[t], disk[t]}
    /\ \E text \in Text \ {disk[t]} : CallWrite(t, text, seen[t])
    /\ TaskMoves(t, "write")
    /\ UNCHANGED <<mainVars, round, seen, reported, armed>>

WriteProceeds(t) ==
    /\ task[t] = "write"
    /\ ReadAnchored(t) \/ TakeSnapshot(t) \/ SaveBackup(t)
    /\ UNCHANGED <<mainVars, taskVars>>

WriteReturns(t) ==
    /\ task[t] = "write"
    /\ Replace(t)
    /\ TaskMoves(t, "record")
    /\ UNCHANGED <<mainVars, round, seen, reported, armed>>

(* As a bug would have it: a failed write is taken for a done one.         *)
WriteErrorIgnored(t) ==
    /\ task[t] = "write"
    /\ RaiseApplyError(t)
    /\ TaskMoves(t, "record")
    /\ UNCHANGED <<mainVars, round, seen, reported, armed>>

(* An ApplyError leaves _do and becomes the future's exception.            *)
WriteRaises(t) ==
    /\ task[t] = "write"
    /\ RaiseApplyError(t)
    /\ TaskMoves(t, "apply_error")
    /\ UNCHANGED <<mainVars, round, seen, reported, armed>>

(* v.applied = True, then baselines.record(applied=True); next round.      *)
RecordFloor(t) ==
    /\ task[t] = "record"
    /\ reported' = [reported EXCEPT ![t] = newText[t]]
    /\ armed' = armed \cup {t}
    /\ TaskMoves(t, "collect")
    /\ UNCHANGED <<txnVars, mainVars, round, seen>>

(* Any other exception: the unit is recorded as an error with no verdicts; *)
(* what it already wrote stays written.                                    *)
TaskFails(t) ==
    /\ task[t] \in {"collect", "verify", "record"}
    /\ TaskMoves(t, "error")
    /\ reported' = [reported EXCEPT ![t] = Nothing]
    /\ UNCHANGED <<txnVars, mainVars, round, seen, armed>>

-----------------------------------------------------------------------------
(* As a bug would have it: an ApplyError is one more bad unit.             *)
TakeAnyResult ==
    /\ main = "results" /\ next <= NumTU
    /\ task[next] \in {"ok", "error", "apply_error"}
    /\ next' = next + 1
    /\ UNCHANGED <<txnVars, jobs, main, taskVars>>

(* As a bug would have it: the result of a bad unit never arrives.         *)
TakeGoodResult ==
    /\ main = "results" /\ next <= NumTU
    /\ task[next] = "ok"
    /\ next' = next + 1
    /\ UNCHANGED <<txnVars, jobs, main, taskVars>>

(* ex.map yields the results in input order.                               *)
TakeResult ==
    /\ main = "results" /\ next <= NumTU
    /\ task[next] \in {"ok", "error"}
    /\ next' = next + 1
    /\ UNCHANGED <<txnVars, jobs, main, taskVars>>

(* The exception leaves the for loop: the iterator cancels every future    *)
(* that has not started.  Inline, the running task is what was unwound.    *)
Unwind ==
    /\ main = "results"
    /\ main' = "unwinding"
    /\ task' = [t \in File |-> IF task[t] = "queued" THEN "cancelled"
                               ELSE IF Inline /\ Live(t) THEN "interrupted"
                               ELSE task[t]]
    /\ IF Inline THEN AbandonWrites(File) ELSE UNCHANGED callVars
    /\ UNCHANGED <<fileVars, orig, undoVars, jobs, next, round, seen, reported, armed>>

ResultRaises == next <= NumTU /\ task[next] = "apply_error" /\ Unwind

(* Ctrl-C in the main thread, or on_done raising.                          *)
Interrupt == Unwind

(* As a bug would have it: rollback inside the with block, before the join.*)
RollbackWithoutJoin ==
    /\ main = "unwinding"
    /\ BeginRollback
    /\ main' = "rollback"
    /\ UNCHANGED <<jobs, next, taskVars>>

(* Leaving `with ThreadPoolExecutor` waits for the running tasks; then the *)
(* except clause rolls back.                                               *)
JoinThenRollback ==
    /\ main = "unwinding"
    /\ \A t \in File : ~Live(t)
    /\ BeginRollback
    /\ main' = "rollback"
    /\ UNCHANGED <<jobs, next, taskVars>>

RestoreStep ==
    /\ main = "rollback"
    /\ \E f \in File : Truncate(f) \/ Fill(f) \/ RestoreFails(f)
    /\ UNCHANGED <<mainVars, taskVars>>

ReRaise ==
    /\ main = "rollback"
    /\ EndRollback
    /\ main' = "raised"
    /\ UNCHANGED <<jobs, next, taskVars>>

Return ==
    /\ main = "results" /\ next = NumTU + 1
    /\ Commit
    /\ main' = "returned"
    /\ UNCHANGED <<jobs, next, taskVars>>

Ended == main \in {"raised", "returned"}

(* A bench that never ends holds up the join, or the run.                  *)
Hanging == \E t \in File : task[t] = "hung"

Stopped == (Ended \/ (main = "unwinding" /\ Hanging)) /\ UNCHANGED runVars

-----------------------------------------------------------------------------
TaskNext(t) ==
    \/ Start(t) \/ Collect(t) \/ Finish(t) \/ Decline(t) \/ Accept(t)
    \/ WriteProceeds(t) \/ WriteReturns(t) \/ WriteRaises(t)
    \/ RecordFloor(t) \/ TaskFails(t) \/ BenchHangs(t)

MainNext == TakeResult \/ ResultRaises \/ JoinThenRollback \/ RestoreStep
            \/ ReRaise \/ Return

RunNext == (\E t \in File : TaskNext(t)) \/ MainNext \/ Interrupt \/ Stopped

(* Every thread is scheduled, and everything a task waits for, the direct  *)
(* project bench apart (BenchHangs), is run under a timeout; nobody has to *)
(* press Ctrl-C.                                                           *)
RunSpec == /\ RunInit /\ [][RunNext]_runVars
           /\ \A t \in File : WF_runVars(TaskNext(t))
           /\ WF_runVars(MainNext)

-----------------------------------------------------------------------------
(* Every variable holds a value of its kind.                               *)
RunTypeOK ==
    /\ TxnTypeOK
    /\ jobs \in 1..MaxJobs
    /\ main \in {"results", "unwinding", "rollback", "raised", "returned"}
    /\ next \in 1..(NumTU + 1)
    /\ task \in [File -> TaskState]
    /\ round \in [File -> 0..MaxRounds]
    /\ seen \in [File -> Content \cup {Nothing}]
    /\ reported \in [File -> Text \cup {Nothing}]
    /\ armed \subseteq File

(* The run is a lawful caller of the transaction: no write is in flight    *)
(* when it commits or rolls back, none starts afterwards (the join before  *)
(* the except clause, and the cancelling of what has not started).         *)
KeepsTxnContract == TxnSpec

(* When the run returns, a unit that reports no error holds exactly the    *)
(* last change its verdicts say was applied, or its original text.         *)
ReportsTruthful ==
    main = "returned" =>
        \A t \in File : task[t] = "ok" =>
            disk[t] = IF reported[t] = Nothing THEN Original[t] ELSE reported[t]

(* A write failure in any worker, whenever it happens, ends in a rollback: *)
(* "a write failure -> roll back the whole batch" (api.py:88-89), unless a *)
(* project bench never ends.                                               *)
WriteFailureRollsBack ==
    \A t \in File : (task[t] = "apply_error") ~> (main = "raised" \/ Hanging)

(* The run ends with no worker left behind, whatever fails, unless a       *)
(* project bench never ends (reuse.py:179 waits for it without a timeout). *)
RunEnds == <>[]((Ended /\ \A t \in File : ~Live(t)) \/ Hanging)

=============================================================================
