-------------------------- MODULE CodebaseRunFaults --------------------------
(***************************************************************************)
(* CodebaseRun in an environment that does not wait for it: somebody saves *)
(* a file in an editor (or a second BOOSTOPT process writes it), the       *)
(* process is killed, and Ctrl-C is pressed again while the main thread is *)
(* joining the pool or rolling back.  `Faults` says which of these happen. *)
(***************************************************************************)
EXTENDS CodebaseRun

CONSTANTS Faults, MaxEdits

ASSUME FaultAssumption == /\ Faults \subseteq {"edit", "crash",
                                              "ctrl_c_join", "ctrl_c_rollback"}
                          /\ MaxEdits \in Nat

VARIABLES
    alive,     \* the process has not been killed
    edits,     \* edits saved so far (bounded by MaxEdits)
    touched    \* files that the user, or rollback(), changed since the
               \* pending write read them

faultVars == <<alive, edits, touched>>
allVars == <<runVars, faultVars>>

FaultInit == /\ RunInit
             /\ alive = TRUE /\ edits = 0 /\ touched = {}

(* A step of the program, with the history variable kept up to date.       *)
Program ==
    /\ alive /\ RunNext
    /\ touched' = (touched \ {t \in File : wpc[t] = "read" /\ wpc'[t] # "read"})
                    \cup {t \in File : restoring' = t}
    /\ UNCHANGED <<alive, edits>>

(* The user saves another text.                                            *)
SaveInEditor(t) ==
    /\ "edit" \in Faults /\ edits < MaxEdits /\ ~Ended
    /\ \E text \in Text \ {disk[t]} : disk' = [disk EXCEPT ![t] = text]
    /\ edits' = edits + 1
    /\ touched' = touched \cup {t}
    /\ UNCHANGED <<bak, orig, undoVars, callVars, mainVars, taskVars, alive>>

(* SIGKILL or a power cut; nothing runs at the next start to repair it.    *)
Crash ==
    /\ "crash" \in Faults /\ alive /\ ~Ended
    /\ alive' = FALSE
    /\ UNCHANGED <<runVars, edits, touched>>

(* Ctrl-C during the join: __exit__ raises out of shutdown(wait=True), and *)
(* the except clause rolls back while the workers go on.                   *)
InterruptJoin ==
    /\ "ctrl_c_join" \in Faults /\ alive
    /\ main = "unwinding" /\ ~Inline /\ \E t \in File : Live(t)
    /\ BeginRollback
    /\ main' = "rollback"
    /\ UNCHANGED <<jobs, next, taskVars, faultVars>>

(* Ctrl-C inside rollback(): the lock is released, the snapshots stay and  *)
(* nobody uses them again.                                                 *)
InterruptRollback ==
    /\ "ctrl_c_rollback" \in Faults /\ alive
    /\ main = "rollback"
    /\ txn' = "open" /\ main' = "raised"
    /\ UNCHANGED <<fileVars, orig, todo, restoring, failed, callVars,
                   jobs, next, taskVars, faultVars>>

FaultNext == \/ Program \/ Crash \/ InterruptJoin \/ InterruptRollback
             \/ \E t \in File : SaveInEditor(t)
             \/ ~alive /\ UNCHANGED allVars

FaultSpec == FaultInit /\ [][FaultNext]_allVars

-----------------------------------------------------------------------------
(* Which file a write replaces in this step.                               *)
Replaced(t) == wpc[t] = "replace" /\ wpc'[t] = "idle"

(* "refuse to write if the file on disk no longer matches the exact source *)
(* that was verified" (apply_txn.py:14-16): a write overwrites only the    *)
(* text the sensor read, unless the file was touched after the comparison.  *)
OverwritesOnlyWhatWasRead ==
    [][\A t \in File : Replaced(t) /\ t \notin touched => disk[t] = seen[t]]_allVars

(* "never leave a half-edited codebase" (api.py:114): once an interrupted  *)
(* run is over and its threads have ended, the tree is what it found.      *)
NoHalfEditedTree ==
    (main = "raised" \/ ~alive) /\ (~alive \/ \A t \in File : ~Live(t))
        => \A t \in File \ failed : disk[t] = Original[t]
=============================================================================
