-------------------------- MODULE ApplyTransaction --------------------------
(***************************************************************************)
(* boostopt/engine/apply_txn.py: the transaction that writes verified      *)
(* sources.  write() is a sequence of steps (read and anchor, snapshot     *)
(* under the lock, optional .bak, temp file + os.replace) that other       *)
(* writers interleave with; rollback() holds the lock and restores the     *)
(* snapshots one file at a time; commit() forgets them.                    *)
(*                                                                         *)
(* A text is an opaque value.  Torn is what a reader finds in a file that  *)
(* write_bytes has truncated and not yet filled.  At most one write per    *)
(* file is in flight: one worker owns one translation unit                 *)
(* (compile_db.load drops duplicates).                                     *)
(***************************************************************************)
CONSTANTS File, Text, Torn, Nothing, Original, Backup

Content == Text \cup {Torn}

ASSUME TextAssumption == /\ Torn \notin Text
                         /\ Nothing \notin Content \cup File
                         /\ Original \in [File -> Text]
ASSUME BackupAssumption == Backup \in BOOLEAN

VARIABLES
    disk,       \* File -> what the file holds
    bak,        \* File -> its .bak sibling, or Nothing
    orig,       \* File -> the snapshot in self._orig, or Nothing
    txn,        \* "open" | "rolling" | "rolledback" | "committed"
    todo,       \* snapshots rollback() has still to write back
    restoring,  \* the file it has truncated and not filled, or Nothing
    failed,     \* files missing from the list rollback() returns
    wpc,        \* File -> where the write() call of that file stands
    newText,    \* File -> write()'s new_text
    expected,   \* File -> write()'s expected_before
    cur         \* File -> the bytes the call read

fileVars == <<disk, bak>>
callVars == <<wpc, newText, expected, cur>>
undoVars == <<txn, todo, restoring, failed>>
txnVars  == <<disk, bak, orig, txn, todo, restoring, failed,
              wpc, newText, expected, cur>>

WriteStep == {"idle", "read", "snapshot", "backup", "replace", "raised"}

TxnInit ==
    /\ disk = Original
    /\ bak = [f \in File |-> Nothing]
    /\ orig = [f \in File |-> Nothing]
    /\ txn = "open" /\ todo = {} /\ restoring = Nothing /\ failed = {}
    /\ wpc = [f \in File |-> "idle"]
    /\ newText = [f \in File |-> Nothing]
    /\ expected = [f \in File |-> Nothing]
    /\ cur = [f \in File |-> Nothing]

InFlight(f) == wpc[f] \notin {"idle", "raised"}

Quiescent == \A f \in File : ~InFlight(f)

Snapshotted == {f \in File : orig[f] # Nothing}

WriteMoves(f, to) == wpc' = [wpc EXCEPT ![f] = to]

-----------------------------------------------------------------------------
(* write(path, new_text, expected_before): the call.                       *)
CallWrite(f, text, before) ==
    /\ ~InFlight(f)
    /\ WriteMoves(f, "read")
    /\ newText' = [newText EXCEPT ![f] = text]
    /\ expected' = [expected EXCEPT ![f] = before]
    /\ UNCHANGED <<cur, fileVars, orig, undoVars>>

(* As a bug would have it: the text on disk is not compared.               *)
ReadUnanchored(f) ==
    /\ wpc[f] = "read"
    /\ cur' = [cur EXCEPT ![f] = disk[f]]
    /\ WriteMoves(f, "snapshot")
    /\ UNCHANGED <<newText, expected, fileVars, orig, undoVars>>

(* read_bytes and the anchor: go on only if the file is what was verified. *)
ReadAnchored(f) ==
    /\ wpc[f] = "read"
    /\ disk[f] = expected[f]
    /\ cur' = [cur EXCEPT ![f] = disk[f]]
    /\ WriteMoves(f, "snapshot")
    /\ UNCHANGED <<newText, expected, fileVars, orig, undoVars>>

(* As a bug would have it: every write overwrites the file's snapshot.     *)
SnapshotEveryWrite(f) ==
    /\ wpc[f] = "snapshot" /\ txn # "rolling"
    /\ orig' = [orig EXCEPT ![f] = cur[f]]
    /\ WriteMoves(f, IF Backup /\ orig[f] = Nothing THEN "backup" ELSE "replace")
    /\ UNCHANGED <<newText, expected, cur, fileVars, undoVars>>

(* As a bug would have it: every write makes a .bak, not only the first.   *)
BackupEveryWrite(f) ==
    /\ wpc[f] = "snapshot" /\ txn # "rolling"
    /\ orig' = [orig EXCEPT ![f] = IF @ = Nothing THEN cur[f] ELSE @]
    /\ WriteMoves(f, IF Backup THEN "backup" ELSE "replace")
    /\ UNCHANGED <<newText, expected, cur, fileVars, undoVars>>

(* Under self._lock, which rollback() holds from its first restore to its  *)
(* clear(): only the first write of a file takes its snapshot.             *)
TakeSnapshot(f) ==
    /\ wpc[f] = "snapshot"
    /\ txn # "rolling"
    /\ orig' = [orig EXCEPT ![f] = IF @ = Nothing THEN cur[f] ELSE @]
    /\ WriteMoves(f, IF Backup /\ orig[f] = Nothing THEN "backup" ELSE "replace")
    /\ UNCHANGED <<newText, expected, cur, fileVars, undoVars>>

(* The .bak copy; an OSError is ignored, on open or halfway.               *)
SaveBackup(f) ==
    /\ wpc[f] = "backup"
    /\ \E copy \in {bak[f], cur[f], Torn} : bak' = [bak EXCEPT ![f] = copy]
    /\ WriteMoves(f, "replace")
    /\ UNCHANGED <<newText, expected, cur, disk, orig, undoVars>>

(* As a bug would have it: the file is written in place.                   *)
WriteInPlace(f) ==
    /\ wpc[f] = "replace"
    /\ \E text \in {Torn, newText[f]} : disk' = [disk EXCEPT ![f] = text]
    /\ WriteMoves(f, "idle")
    /\ UNCHANGED <<newText, expected, cur, bak, orig, undoVars>>

(* Temp file, then os.replace: the file changes in one step.               *)
Replace(f) ==
    /\ wpc[f] = "replace"
    /\ disk' = [disk EXCEPT ![f] = newText[f]]
    /\ WriteMoves(f, "idle")
    /\ UNCHANGED <<newText, expected, cur, bak, orig, undoVars>>

(* ApplyError: the file drifted, or reading or replacing it failed.  A     *)
(* failed replace leaves the snapshot behind and the file alone.           *)
RaiseApplyError(f) ==
    /\ wpc[f] \in {"read", "replace"}
    /\ WriteMoves(f, "raised")
    /\ UNCHANGED <<newText, expected, cur, fileVars, orig, undoVars>>

(* A KeyboardInterrupt in the thread that is writing.                      *)
AbandonWrites(files) ==
    /\ wpc' = [f \in File |-> IF f \in files /\ InFlight(f) THEN "raised" ELSE wpc[f]]
    /\ UNCHANGED <<newText, expected, cur>>

-----------------------------------------------------------------------------
BeginRollback ==
    /\ txn = "open"
    /\ txn' = "rolling"
    /\ todo' = Snapshotted
    /\ UNCHANGED <<callVars, fileVars, orig, restoring, failed>>

(* Path.write_bytes truncates the file in place ...                        *)
Truncate(f) ==
    /\ txn = "rolling" /\ restoring = Nothing /\ f \in todo
    /\ disk' = [disk EXCEPT ![f] = Torn]
    /\ restoring' = f
    /\ UNCHANGED <<callVars, bak, orig, txn, todo, failed>>

(* As a bug would have it: the bytes the last write read are put back.     *)
FillLastRead(f) ==
    /\ restoring = f
    /\ disk' = [disk EXCEPT ![f] = IF @ = Torn THEN cur[f] ELSE @]
    /\ restoring' = Nothing
    /\ todo' = todo \ {f}
    /\ UNCHANGED <<callVars, bak, orig, txn, failed>>

(* ... and fills it.  If an os.replace came in between, the bytes go to    *)
(* the unlinked inode and the file keeps what replaced it.                 *)
Fill(f) ==
    /\ restoring = f
    /\ disk' = [disk EXCEPT ![f] = IF @ = Torn THEN orig[f] ELSE @]
    /\ restoring' = Nothing
    /\ todo' = todo \ {f}
    /\ UNCHANGED <<callVars, bak, orig, txn, failed>>

(* OSError on open or while filling: swallowed, f is not in the result.    *)
RestoreFails(f) ==
    /\ txn = "rolling" /\ f \in todo
    /\ restoring \in {Nothing, f}
    /\ restoring' = Nothing
    /\ todo' = todo \ {f}
    /\ failed' = failed \cup {f}
    /\ UNCHANGED <<callVars, fileVars, orig, txn>>

EndRollback ==
    /\ txn = "rolling" /\ todo = {}
    /\ txn' = "rolledback"
    /\ orig' = [f \in File |-> Nothing]
    /\ UNCHANGED <<callVars, fileVars, todo, restoring, failed>>

Commit ==
    /\ txn = "open"
    /\ txn' = "committed"
    /\ orig' = [f \in File |-> Nothing]
    /\ UNCHANGED <<callVars, fileVars, todo, restoring, failed>>

-----------------------------------------------------------------------------
(* One file's step of the transaction in the hands of a caller that keeps  *)
(* the class's contract: it writes while the transaction is open, with     *)
(* whatever texts, and ends it only when no write is in flight.            *)
FileStep(f) ==
    \/ /\ txn = "open"
       /\ \E text \in Text, before \in Content : CallWrite(f, text, before)
    \/ ReadAnchored(f) \/ TakeSnapshot(f) \/ SaveBackup(f) \/ Replace(f)
    \/ RaiseApplyError(f)
    \/ Truncate(f) \/ Fill(f) \/ RestoreFails(f)

TxnNext ==
    \/ \E f \in File : FileStep(f)
    \/ \E files \in SUBSET File :
          AbandonWrites(files) /\ UNCHANGED <<fileVars, orig, undoVars>>
    \/ Quiescent /\ (BeginRollback \/ Commit)
    \/ EndRollback

TxnSpec == TxnInit /\ [][TxnNext]_txnVars

-----------------------------------------------------------------------------
(* Every variable holds a value of its kind.                               *)
TxnTypeOK ==
    /\ disk \in [File -> Content]
    /\ bak \in [File -> Content \cup {Nothing}]
    /\ orig \in [File -> Content \cup {Nothing}]
    /\ txn \in {"open", "rolling", "rolledback", "committed"}
    /\ todo \subseteq File /\ failed \subseteq File
    /\ restoring \in File \cup {Nothing}
    /\ wpc \in [File -> WriteStep]
    /\ newText \in [File -> Text \cup {Nothing}]
    /\ expected \in [File -> Content \cup {Nothing}]
    /\ cur \in [File -> Content \cup {Nothing}]

(* "rollback() restores ALL of them": when it is over, every file holds    *)
(* the text the transaction found, except those whose restore failed.      *)
RollbackRestores ==
    txn = "rolledback" => \A f \in File \ failed : disk[f] = Original[f]

(* The .bak is the original, whatever the number of writes: a copy that    *)
(* failed halfway is cut short, but no later text ever gets there.         *)
BackupIsOriginal == \A f \in File : bak[f] \in {Nothing, Torn, Original[f]}

(* A file is torn only while, or because, rollback() was restoring it; a   *)
(* write never tears one.                                                  *)
TornOnlyInRollback ==
    \A f \in File : disk[f] = Torn => f = restoring \/ f \in failed

(* The promise of AtomicApply.  What a rollback would leave is the tree.   *)
treeBar == [f \in File |-> IF orig[f] # Nothing /\ f \notin failed
                             THEN orig[f] ELSE disk[f]]
stagedBar == [f \in File |-> IF txn = "open" /\ orig[f] # Nothing
                               THEN disk[f] ELSE Nothing]
outcomeBar == CASE txn = "open" -> "open"
                [] txn = "committed" -> "committed"
                [] OTHER -> "aborted"

Atomic == INSTANCE AtomicApply
            WITH tree <- treeBar, staged <- stagedBar,
                 outcome <- outcomeBar, damaged <- failed

(* The transaction implements the all-or-nothing apply.                    *)
ImplementsAtomicApply == Atomic!AtomicSpec
=============================================================================
