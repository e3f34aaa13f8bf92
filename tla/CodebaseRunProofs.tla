------------------------- MODULE CodebaseRunProofs --------------------------
(***************************************************************************)
(* Theorems about the apply transaction, about a codebase run that goes    *)
(* through it, and about what happens around the run, for any files,       *)
(* texts, writes per file, units, jobs and rounds.                         *)
(***************************************************************************)
EXTENDS CodebaseRunFaults, TLAPS

-----------------------------------------------------------------------------
(***************************************************************************)
(* Theorems about ApplyTransaction, for every set of files and texts, with *)
(* any number of writes per file, failing writes and failing restores.     *)
(*                                                                         *)
(* The invariant TxnInv says why a rollback can restore the tree: a        *)
(* snapshot is the original text (FirstSnapshot), a file that differs from *)
(* its original has a snapshot (ChangedIsSnapshotted), and between the     *)
(* read and the replace the call holds what the file holds (CallHolds).    *)
(***************************************************************************)

FirstSnapshot == \A f \in File : orig[f] \in {Nothing, Original[f]}

ChangedIsSnapshotted ==
    txn = "open" => \A f \in File : orig[f] = Nothing => disk[f] = Original[f]

CallHolds ==
    \A f \in File :
        /\ InFlight(f) => newText[f] \in Text
        /\ wpc[f] = "snapshot" => cur[f] = disk[f]
        /\ wpc[f] = "backup" => cur[f] = Original[f]
        /\ wpc[f] \in {"backup", "replace"} => orig[f] # Nothing

EndedIsQuiet == txn # "open" => Quiescent

RollbackProgress ==
    /\ txn # "rolling" => todo = {} /\ restoring = Nothing
    /\ txn = "rolling" =>
          /\ todo \subseteq Snapshotted /\ todo \cap failed = {}
          /\ restoring \in todo \cup {Nothing}
          /\ \A f \in File : f = restoring => disk[f] = Torn
          /\ \A f \in File : f \notin todo /\ f \notin failed => disk[f] = Original[f]
    /\ txn \in {"open", "committed"} => failed = {}

TxnInv ==
    /\ TxnTypeOK
    /\ FirstSnapshot
    /\ ChangedIsSnapshotted
    /\ CallHolds
    /\ EndedIsQuiet
    /\ RollbackProgress
    /\ TornOnlyInRollback
    /\ BackupIsOriginal
    /\ RollbackRestores

-----------------------------------------------------------------------------
(* The transaction starts in TxnInv.                                       *)
LEMMA InitEstablishesInv == TxnInit => TxnInv
<1> SUFFICES ASSUME TxnInit PROVE TxnInv
  OBVIOUS
<1> USE TextAssumption DEF TxnInit
<1>1. TxnTypeOK
  BY DEF TxnTypeOK, Content, WriteStep
<1>2. FirstSnapshot /\ ChangedIsSnapshotted /\ BackupIsOriginal
  BY DEF FirstSnapshot, ChangedIsSnapshotted, BackupIsOriginal
<1>3. CallHolds /\ EndedIsQuiet
  BY DEF CallHolds, EndedIsQuiet, InFlight
<1>4. RollbackProgress /\ TornOnlyInRollback /\ RollbackRestores
  BY DEF RollbackProgress, TornOnlyInRollback, RollbackRestores, Content
<1> QED
  BY <1>1, <1>2, <1>3, <1>4 DEF TxnInv

(* A step of write() before the file changes: the files stay, the snapshot *)
(* grows by the original at most, and the undo state stays.                *)
LEMMA CallWriteKeepsInv ==
  ASSUME TxnInv, NEW f \in File, NEW text \in Text, NEW before \in Content,
         txn = "open", CallWrite(f, text, before)
  PROVE  TxnInv'
<1> USE TextAssumption DEF TxnInv, CallWrite, WriteMoves, fileVars, undoVars, InFlight
<1>1. TxnTypeOK'
  BY DEF TxnTypeOK, WriteStep
<1>2. FirstSnapshot' /\ ChangedIsSnapshotted' /\ BackupIsOriginal'
  BY DEF FirstSnapshot, ChangedIsSnapshotted, BackupIsOriginal
<1>3. CallHolds'
  BY DEF CallHolds, TxnTypeOK
<1>4. EndedIsQuiet'
  BY DEF EndedIsQuiet
<1>5. RollbackProgress' /\ TornOnlyInRollback' /\ RollbackRestores'
  BY DEF RollbackProgress, TornOnlyInRollback, RollbackRestores, Snapshotted
<1> QED
  BY <1>1, <1>2, <1>3, <1>4, <1>5

LEMMA ReadAnchoredKeepsInv ==
  ASSUME TxnInv, NEW f \in File, ReadAnchored(f)
  PROVE  TxnInv'
<1> USE TextAssumption DEF TxnInv, ReadAnchored, WriteMoves, fileVars, undoVars, InFlight
<1>1. TxnTypeOK'
  BY DEF TxnTypeOK, WriteStep
<1>2. FirstSnapshot' /\ ChangedIsSnapshotted' /\ BackupIsOriginal'
  BY DEF FirstSnapshot, ChangedIsSnapshotted, BackupIsOriginal
<1>3. CallHolds'
  BY DEF CallHolds, TxnTypeOK
<1>4. EndedIsQuiet'
  BY DEF EndedIsQuiet, Quiescent
<1>5. RollbackProgress' /\ TornOnlyInRollback' /\ RollbackRestores'
  BY DEF RollbackProgress, TornOnlyInRollback, RollbackRestores, Snapshotted
<1> QED
  BY <1>1, <1>2, <1>3, <1>4, <1>5

LEMMA TakeSnapshotKeepsInv ==
  ASSUME TxnInv, NEW f \in File, TakeSnapshot(f)
  PROVE  TxnInv'
<1> USE TextAssumption DEF TxnInv, TakeSnapshot, WriteMoves, fileVars, undoVars, InFlight
<1>0. txn = "open" /\ cur[f] = disk[f]
  BY DEF EndedIsQuiet, Quiescent, CallHolds
<1>1. TxnTypeOK'
  BY DEF TxnTypeOK, WriteStep
<1>2. orig[f] = Nothing => cur[f] = Original[f]
  BY <1>0 DEF ChangedIsSnapshotted
<1>3. FirstSnapshot' /\ ChangedIsSnapshotted' /\ BackupIsOriginal'
  BY <1>0, <1>2 DEF FirstSnapshot, ChangedIsSnapshotted, BackupIsOriginal, TxnTypeOK
<1>4. CallHolds'
  BY <1>2, <1>3 DEF CallHolds, TxnTypeOK, Content
<1>5. EndedIsQuiet'
  BY <1>0 DEF EndedIsQuiet
<1>6. RollbackProgress' /\ TornOnlyInRollback' /\ RollbackRestores'
  BY <1>0 DEF RollbackProgress, TornOnlyInRollback, RollbackRestores
<1> QED
  BY <1>1, <1>3, <1>4, <1>5, <1>6

LEMMA SaveBackupKeepsInv ==
  ASSUME TxnInv, NEW f \in File, SaveBackup(f)
  PROVE  TxnInv'
<1> USE TextAssumption DEF TxnInv, SaveBackup, WriteMoves, undoVars, InFlight
<1>0. PICK copy \in {bak[f], cur[f], Torn} : bak' = [bak EXCEPT ![f] = copy]
  OBVIOUS
<1>1. TxnTypeOK'
  BY <1>0 DEF TxnTypeOK, WriteStep, Content
<1>2. cur[f] = Original[f]
  BY DEF CallHolds
<1>3. BackupIsOriginal'
  BY <1>0, <1>2 DEF BackupIsOriginal, TxnTypeOK
<1>4. FirstSnapshot' /\ ChangedIsSnapshotted'
  BY DEF FirstSnapshot, ChangedIsSnapshotted
<1>5. CallHolds'
  BY DEF CallHolds, TxnTypeOK
<1>6. EndedIsQuiet'
  BY DEF EndedIsQuiet, Quiescent
<1>7. RollbackProgress' /\ TornOnlyInRollback' /\ RollbackRestores'
  BY DEF RollbackProgress, TornOnlyInRollback, RollbackRestores, Snapshotted
<1> QED
  BY <1>1, <1>3, <1>4, <1>5, <1>6, <1>7

LEMMA ReplaceKeepsInv ==
  ASSUME TxnInv, NEW f \in File, Replace(f)
  PROVE  TxnInv'
<1> USE TextAssumption DEF TxnInv, Replace, WriteMoves, undoVars, InFlight
<1>0. txn = "open" /\ newText[f] \in Text /\ orig[f] # Nothing
  BY DEF EndedIsQuiet, Quiescent, CallHolds
<1>1. TxnTypeOK'
  BY <1>0 DEF TxnTypeOK, WriteStep, Content
<1>2. FirstSnapshot' /\ ChangedIsSnapshotted' /\ BackupIsOriginal'
  BY <1>0 DEF FirstSnapshot, ChangedIsSnapshotted, BackupIsOriginal, TxnTypeOK
<1>3. CallHolds'
  BY DEF CallHolds, TxnTypeOK
<1>4. EndedIsQuiet' /\ RollbackProgress' /\ RollbackRestores'
  BY <1>0 DEF EndedIsQuiet, RollbackProgress, RollbackRestores
<1>5. TornOnlyInRollback'
  BY <1>0 DEF TornOnlyInRollback, TxnTypeOK
<1> QED
  BY <1>1, <1>2, <1>3, <1>4, <1>5

LEMMA RaiseKeepsInv ==
  ASSUME TxnInv, NEW f \in File, RaiseApplyError(f)
  PROVE  TxnInv'
<1> USE TextAssumption DEF TxnInv, RaiseApplyError, WriteMoves, fileVars, undoVars, InFlight
<1>1. TxnTypeOK'
  BY DEF TxnTypeOK, WriteStep
<1>2. FirstSnapshot' /\ ChangedIsSnapshotted' /\ BackupIsOriginal'
  BY DEF FirstSnapshot, ChangedIsSnapshotted, BackupIsOriginal
<1>3. CallHolds'
  BY DEF CallHolds, TxnTypeOK
<1>4. EndedIsQuiet'
  BY DEF EndedIsQuiet, Quiescent
<1>5. RollbackProgress' /\ TornOnlyInRollback' /\ RollbackRestores'
  BY DEF RollbackProgress, TornOnlyInRollback, RollbackRestores, Snapshotted
<1> QED
  BY <1>1, <1>2, <1>3, <1>4, <1>5

LEMMA AbandonKeepsInv ==
  ASSUME TxnInv, NEW files \in SUBSET File,
         AbandonWrites(files), UNCHANGED <<fileVars, orig, undoVars>>
  PROVE  TxnInv'
<1> USE TextAssumption DEF TxnInv, AbandonWrites, fileVars, undoVars, InFlight
<1>1. TxnTypeOK'
  BY DEF TxnTypeOK, WriteStep
<1>2. FirstSnapshot' /\ ChangedIsSnapshotted' /\ BackupIsOriginal'
  BY DEF FirstSnapshot, ChangedIsSnapshotted, BackupIsOriginal
<1>3. CallHolds' /\ EndedIsQuiet'
  BY DEF CallHolds, EndedIsQuiet, Quiescent
<1>4. RollbackProgress' /\ TornOnlyInRollback' /\ RollbackRestores'
  BY DEF RollbackProgress, TornOnlyInRollback, RollbackRestores, Snapshotted
<1> QED
  BY <1>1, <1>2, <1>3, <1>4

-----------------------------------------------------------------------------
(* The steps of rollback() and commit().                                   *)
LEMMA BeginRollbackKeepsInv ==
  ASSUME TxnInv, Quiescent, BeginRollback
  PROVE  TxnInv'
<1> USE TextAssumption DEF TxnInv, BeginRollback, fileVars, callVars, InFlight
<1>1. TxnTypeOK'
  BY DEF TxnTypeOK, Snapshotted
<1>2. FirstSnapshot' /\ ChangedIsSnapshotted' /\ BackupIsOriginal' /\ CallHolds'
  BY DEF FirstSnapshot, ChangedIsSnapshotted, BackupIsOriginal, CallHolds
<1>3. EndedIsQuiet'
  BY DEF EndedIsQuiet, Quiescent
<1>4. RollbackProgress'
  BY DEF RollbackProgress, ChangedIsSnapshotted, Snapshotted, TxnTypeOK
<1>5. TornOnlyInRollback' /\ RollbackRestores'
  BY DEF TornOnlyInRollback, RollbackRestores
<1> QED
  BY <1>1, <1>2, <1>3, <1>4, <1>5

LEMMA TruncateKeepsInv ==
  ASSUME TxnInv, NEW f \in File, Truncate(f)
  PROVE  TxnInv'
<1> USE TextAssumption DEF TxnInv, Truncate, callVars, InFlight
<1>1. TxnTypeOK'
  BY DEF TxnTypeOK, Content
<1>2. FirstSnapshot' /\ ChangedIsSnapshotted' /\ BackupIsOriginal'
  BY DEF FirstSnapshot, ChangedIsSnapshotted, BackupIsOriginal
<1>3. CallHolds' /\ EndedIsQuiet'
  BY DEF CallHolds, EndedIsQuiet, Quiescent
<1>4. RollbackProgress'
  BY DEF RollbackProgress, Snapshotted, TxnTypeOK
<1>5. TornOnlyInRollback' /\ RollbackRestores'
  BY DEF TornOnlyInRollback, RollbackRestores, TxnTypeOK
<1> QED
  BY <1>1, <1>2, <1>3, <1>4, <1>5

LEMMA FillKeepsInv ==
  ASSUME TxnInv, NEW f \in File, Fill(f)
  PROVE  TxnInv'
<1> USE TextAssumption DEF TxnInv, Fill, callVars, InFlight
<1>0. /\ txn = "rolling" /\ f \in todo
      /\ orig[f] = Original[f] /\ orig[f] \in Text
  BY DEF RollbackProgress, Snapshotted, FirstSnapshot
<1>1. TxnTypeOK'
  BY <1>0 DEF TxnTypeOK, Content
<1>2. FirstSnapshot' /\ ChangedIsSnapshotted' /\ BackupIsOriginal'
  BY <1>0 DEF FirstSnapshot, ChangedIsSnapshotted, BackupIsOriginal
<1>3. CallHolds' /\ EndedIsQuiet'
  BY <1>0 DEF CallHolds, EndedIsQuiet, Quiescent
<1>4. RollbackProgress'
  BY <1>0 DEF RollbackProgress, Snapshotted, TxnTypeOK
<1>5. TornOnlyInRollback' /\ RollbackRestores'
  BY <1>0 DEF TornOnlyInRollback, RollbackRestores, TxnTypeOK, Content
<1> QED
  BY <1>1, <1>2, <1>3, <1>4, <1>5

LEMMA RestoreFailsKeepsInv ==
  ASSUME TxnInv, NEW f \in File, RestoreFails(f)
  PROVE  TxnInv'
<1> USE TextAssumption DEF TxnInv, RestoreFails, callVars, fileVars, InFlight
<1>1. TxnTypeOK'
  BY DEF TxnTypeOK
<1>2. FirstSnapshot' /\ ChangedIsSnapshotted' /\ BackupIsOriginal'
  BY DEF FirstSnapshot, ChangedIsSnapshotted, BackupIsOriginal
<1>3. CallHolds' /\ EndedIsQuiet'
  BY DEF CallHolds, EndedIsQuiet, Quiescent
<1>4. RollbackProgress'
  BY DEF RollbackProgress, Snapshotted, TxnTypeOK
<1>5. TornOnlyInRollback' /\ RollbackRestores'
  BY DEF TornOnlyInRollback, RollbackRestores, TxnTypeOK
<1> QED
  BY <1>1, <1>2, <1>3, <1>4, <1>5

LEMMA EndRollbackKeepsInv ==
  ASSUME TxnInv, EndRollback
  PROVE  TxnInv'
<1> USE TextAssumption DEF TxnInv, EndRollback, callVars, fileVars, InFlight
<1>1. TxnTypeOK'
  BY DEF TxnTypeOK
<1>2. FirstSnapshot' /\ ChangedIsSnapshotted' /\ BackupIsOriginal'
  BY DEF FirstSnapshot, ChangedIsSnapshotted, BackupIsOriginal
<1>3. CallHolds' /\ EndedIsQuiet'
  BY DEF CallHolds, EndedIsQuiet, Quiescent
<1>4. RollbackProgress' /\ TornOnlyInRollback' /\ RollbackRestores'
  BY DEF RollbackProgress, TornOnlyInRollback, RollbackRestores
<1> QED
  BY <1>1, <1>2, <1>3, <1>4

LEMMA CommitKeepsInv ==
  ASSUME TxnInv, Quiescent, Commit
  PROVE  TxnInv'
<1> USE TextAssumption DEF TxnInv, Commit, callVars, fileVars, InFlight
<1>1. TxnTypeOK'
  BY DEF TxnTypeOK
<1>2. FirstSnapshot' /\ ChangedIsSnapshotted' /\ BackupIsOriginal'
  BY DEF FirstSnapshot, ChangedIsSnapshotted, BackupIsOriginal
<1>3. CallHolds' /\ EndedIsQuiet'
  BY DEF CallHolds, EndedIsQuiet, Quiescent
<1>4. RollbackProgress' /\ TornOnlyInRollback' /\ RollbackRestores'
  BY DEF RollbackProgress, TornOnlyInRollback, RollbackRestores
<1> QED
  BY <1>1, <1>2, <1>3, <1>4

-----------------------------------------------------------------------------
LEMMA NextKeepsInv == TxnInv /\ [TxnNext]_txnVars => TxnInv'
<1> SUFFICES ASSUME TxnInv, [TxnNext]_txnVars PROVE TxnInv'
  OBVIOUS
<1>1. ASSUME NEW f \in File, FileStep(f) PROVE TxnInv'
  BY <1>1, CallWriteKeepsInv, ReadAnchoredKeepsInv, TakeSnapshotKeepsInv,
     SaveBackupKeepsInv, ReplaceKeepsInv, RaiseKeepsInv, TruncateKeepsInv,
     FillKeepsInv, RestoreFailsKeepsInv
     DEF FileStep
<1>2. ASSUME NEW files \in SUBSET File,
             AbandonWrites(files), UNCHANGED <<fileVars, orig, undoVars>>
      PROVE  TxnInv'
  BY <1>2, AbandonKeepsInv
<1>3. CASE Quiescent /\ (BeginRollback \/ Commit)
  BY <1>3, BeginRollbackKeepsInv, CommitKeepsInv
<1>4. CASE EndRollback
  BY <1>4, EndRollbackKeepsInv
<1>5. CASE UNCHANGED txnVars
  BY <1>5 DEF txnVars, TxnInv, TxnTypeOK, FirstSnapshot, ChangedIsSnapshotted,
     CallHolds, EndedIsQuiet, Quiescent, InFlight, RollbackProgress, Snapshotted,
     TornOnlyInRollback, BackupIsOriginal, RollbackRestores
<1> QED
  BY <1>1, <1>2, <1>3, <1>4, <1>5 DEF TxnNext

(* The inductive invariant holds in every state of the transaction.        *)
THEOREM TransactionInvariant == TxnSpec => []TxnInv
<1> QED
  BY InitEstablishesInv, NextKeepsInv, PTL DEF TxnSpec

(* Type correctness of the transaction.                                    *)
THEOREM TransactionTypes == TxnSpec => []TxnTypeOK
<1>1. TxnInv => TxnTypeOK
  BY DEF TxnInv
<1> QED
  BY <1>1, TransactionInvariant, PTL

(* apply_txn.py:68-79: whatever was written, however often and in whatever *)
(* interleaving, a finished rollback leaves every file whose restore did   *)
(* not fail at its original text.                                          *)
THEOREM RollbackIsComplete == TxnSpec => []RollbackRestores
<1>1. TxnInv => RollbackRestores
  BY DEF TxnInv
<1> QED
  BY <1>1, TransactionInvariant, PTL

(* apply_txn.py:52-56: the .bak copy is the original, never a later text.  *)
THEOREM BackupsAreOriginals == TxnSpec => []BackupIsOriginal
<1>1. TxnInv => BackupIsOriginal
  BY DEF TxnInv
<1> QED
  BY <1>1, TransactionInvariant, PTL

(* apply_txn.py:57-60: a write never leaves a torn file.                   *)
THEOREM WritesNeverTear == TxnSpec => []TornOnlyInRollback
<1>1. TxnInv => TornOnlyInRollback
  BY DEF TxnInv
<1> QED
  BY <1>1, TransactionInvariant, PTL

-----------------------------------------------------------------------------
(* The refinement of AtomicApply.  While the invariant holds, treeBar is   *)
(* the original tree until the commit, and what was staged is the disk.    *)
LEMMA InitRefines == TxnInit => Atomic!AtomicInit
<1> SUFFICES ASSUME TxnInit PROVE Atomic!AtomicInit
  OBVIOUS
<1>1. treeBar = Original
  BY TextAssumption DEF treeBar, TxnInit
<1>2. stagedBar = [f \in File |-> Nothing] /\ outcomeBar = "open" /\ failed = {}
  BY DEF stagedBar, outcomeBar, TxnInit
<1> QED
  BY <1>1, <1>2 DEF Atomic!AtomicInit

(* Any step of write() stages at most its own file.                        *)
LEMMA WriteStepRefines ==
  ASSUME TxnInv, TxnInv', NEW f \in File, txn = "open", UNCHANGED undoVars,
         \A g \in File \ {f} : disk'[g] = disk[g] /\ orig'[g] = orig[g],
         orig[f] # Nothing => orig'[f] = orig[f],
         orig'[f] = Nothing => disk'[f] = disk[f],
         orig[f] = Nothing => disk'[f] = disk[f]
  PROVE  Atomic!Stage(f) \/ UNCHANGED <<treeBar, stagedBar, outcomeBar, failed>>
<1> USE TextAssumption DEF undoVars
<1>1. UNCHANGED <<outcomeBar, failed>> /\ outcomeBar = "open"
  BY DEF outcomeBar
<1>2. treeBar' = treeBar
  <2>1. \A g \in File : orig'[g] # orig[g] => orig'[g] = disk[g] /\ g = f
    BY DEF TxnInv, FirstSnapshot, ChangedIsSnapshotted
  <2> QED
    BY <2>1 DEF treeBar, TxnInv, RollbackProgress
<1>3. CASE orig'[f] = Nothing
  <2>1. stagedBar' = stagedBar
    BY <1>3 DEF stagedBar
  <2> QED
    BY <1>1, <1>2, <2>1
<1>4. CASE orig'[f] # Nothing
  <2>1. disk'[f] \in Content
    BY DEF TxnInv, TxnTypeOK
  <2>2. stagedBar' = [stagedBar EXCEPT ![f] = disk'[f]]
    BY <1>4 DEF stagedBar
  <2> QED
    BY <1>1, <1>2, <2>1, <2>2 DEF Atomic!Stage
<1> QED
  BY <1>3, <1>4

LEMMA QuietStepRefines ==
  ASSUME UNCHANGED <<disk, orig, txn, failed>>
  PROVE  UNCHANGED <<treeBar, stagedBar, outcomeBar, failed>>
BY DEF treeBar, stagedBar, outcomeBar

(* Restoring a file is invisible: the tree was already what it restores.   *)
LEMMA RestoreStepRefines ==
  ASSUME TxnInv, NEW f \in File, Truncate(f) \/ Fill(f)
  PROVE  UNCHANGED <<treeBar, stagedBar, outcomeBar, failed>>
<1>1. txn = "rolling" /\ f \in todo
  BY TextAssumption DEF Truncate, Fill, TxnInv, RollbackProgress
<1>2. orig[f] # Nothing /\ f \notin failed
  BY <1>1 DEF TxnInv, RollbackProgress, Snapshotted
<1>3. /\ UNCHANGED <<orig, txn, failed>>
      /\ \A g \in File \ {f} : disk'[g] = disk[g]
  BY DEF Truncate, Fill, TxnInv, TxnTypeOK
<1>4. treeBar' = treeBar
  BY <1>2, <1>3 DEF treeBar
<1>5. stagedBar' = stagedBar /\ outcomeBar' = outcomeBar
  BY <1>1, <1>3 DEF stagedBar, outcomeBar
<1> QED
  BY <1>3, <1>4, <1>5

LEMMA RestoreFailsRefines ==
  ASSUME TxnInv, NEW f \in File, RestoreFails(f)
  PROVE  Atomic!Damage(f)
<1>1. txn = "rolling" /\ f \notin failed /\ UNCHANGED <<disk, orig, txn>>
  BY DEF RestoreFails, TxnInv, RollbackProgress, fileVars
<1>2. failed' = failed \cup {f}
  BY DEF RestoreFails
<1>3. treeBar' = [treeBar EXCEPT ![f] = disk[f]]
  BY <1>1, <1>2 DEF treeBar
<1>4. disk[f] \in Content
  BY DEF TxnInv, TxnTypeOK
<1>5. outcomeBar = "aborted" /\ UNCHANGED <<stagedBar, outcomeBar>>
  BY <1>1 DEF outcomeBar, stagedBar
<1> QED
  BY <1>1, <1>2, <1>3, <1>4, <1>5 DEF Atomic!Damage

LEMMA BeginRollbackRefines ==
  ASSUME TxnInv, BeginRollback
  PROVE  Atomic!AbortAll
<1>1. outcomeBar = "open" /\ outcomeBar' = "aborted"
  BY DEF BeginRollback, outcomeBar
<1>2. treeBar' = treeBar /\ failed' = failed
  BY DEF BeginRollback, treeBar, fileVars
<1>3. stagedBar' = [f \in File |-> Nothing]
  BY DEF BeginRollback, stagedBar
<1> QED
  BY <1>1, <1>2, <1>3 DEF Atomic!AbortAll

LEMMA EndRollbackRefines ==
  ASSUME TxnInv, EndRollback
  PROVE  UNCHANGED <<treeBar, stagedBar, outcomeBar, failed>>
<1>1. outcomeBar' = outcomeBar /\ stagedBar' = stagedBar /\ failed' = failed
  BY DEF EndRollback, outcomeBar, stagedBar
<1>2. \A f \in File : f \notin failed /\ orig[f] # Nothing => disk[f] = orig[f]
  BY DEF EndRollback, TxnInv, RollbackProgress, FirstSnapshot
<1>3. treeBar' = treeBar
  BY <1>2 DEF EndRollback, treeBar, fileVars
<1> QED
  BY <1>1, <1>3

LEMMA CommitRefines ==
  ASSUME TxnInv, Commit
  PROVE  Atomic!CommitAll
<1>1. outcomeBar = "open" /\ outcomeBar' = "committed" /\ failed' = failed
  BY DEF Commit, outcomeBar
<1>2. stagedBar' = [f \in File |-> Nothing]
  BY DEF Commit, stagedBar
<1>3. failed = {} /\ txn = "open"
  BY DEF Commit, TxnInv, RollbackProgress
<1>4. \A f \in File : disk[f] # Nothing
  BY TextAssumption DEF TxnInv, TxnTypeOK
<1>5. treeBar' = [f \in File |-> IF stagedBar[f] = Nothing THEN treeBar[f]
                                                        ELSE stagedBar[f]]
  BY <1>3, <1>4 DEF Commit, treeBar, stagedBar, fileVars
<1> QED
  BY <1>1, <1>2, <1>5 DEF Atomic!CommitAll

LEMMA NextRefines ==
  TxnInv /\ TxnInv' /\ [TxnNext]_txnVars => [Atomic!AtomicNext]_(Atomic!atomicVars)
<1> SUFFICES ASSUME TxnInv, TxnInv', [TxnNext]_txnVars
             PROVE  \/ Atomic!AtomicNext
                    \/ UNCHANGED <<treeBar, stagedBar, outcomeBar, failed>>
  BY DEF Atomic!atomicVars
<1>1. ASSUME NEW f \in File, FileStep(f)
      PROVE  \/ Atomic!Stage(f) \/ Atomic!Damage(f)
             \/ UNCHANGED <<treeBar, stagedBar, outcomeBar, failed>>
  <2>1. CASE TakeSnapshot(f)
    <3>1. txn = "open" /\ UNCHANGED <<disk, undoVars>>
      BY <2>1 DEF TakeSnapshot, TxnInv, EndedIsQuiet, Quiescent, InFlight, fileVars
    <3>2. /\ \A g \in File \ {f} : orig'[g] = orig[g]
          /\ orig[f] # Nothing => orig'[f] = orig[f]
      BY <2>1 DEF TakeSnapshot, TxnInv, TxnTypeOK
    <3> QED
      BY <3>1, <3>2, WriteStepRefines
  <2>2. CASE Replace(f)
    <3>1. txn = "open" /\ orig[f] # Nothing /\ UNCHANGED <<orig, undoVars>>
      BY <2>2 DEF Replace, TxnInv, EndedIsQuiet, Quiescent, InFlight, CallHolds
    <3>2. \A g \in File \ {f} : disk'[g] = disk[g]
      BY <2>2 DEF Replace, TxnInv, TxnTypeOK
    <3> QED
      BY <3>1, <3>2, WriteStepRefines
  <2>3. CASE Truncate(f) \/ Fill(f)
    BY <2>3, RestoreStepRefines
  <2>4. CASE RestoreFails(f)
    BY <2>4, RestoreFailsRefines
  <2>5. CASE \/ \E text \in Text, before \in Content : CallWrite(f, text, before)
             \/ ReadAnchored(f) \/ SaveBackup(f) \/ RaiseApplyError(f)
    <3>1. UNCHANGED <<disk, orig, txn, failed>>
      BY <2>5 DEF CallWrite, ReadAnchored, SaveBackup, RaiseApplyError, fileVars, undoVars
    <3> QED
      BY <3>1, QuietStepRefines
  <2> QED
    BY <1>1, <2>1, <2>2, <2>3, <2>4, <2>5 DEF FileStep
<1>2. CASE UNCHANGED <<fileVars, orig, undoVars>> \/ UNCHANGED txnVars
  BY <1>2, QuietStepRefines DEF fileVars, undoVars, txnVars
<1>3. CASE Quiescent /\ (BeginRollback \/ Commit)
  BY <1>3, BeginRollbackRefines, CommitRefines DEF Atomic!AtomicNext
<1>4. CASE EndRollback
  BY <1>4, EndRollbackRefines
<1> QED
  BY <1>1, <1>2, <1>3, <1>4 DEF TxnNext, Atomic!AtomicNext

(* "one transaction wraps a whole codebase --apply, so rollback() restores *)
(* ALL of them (all-or-nothing) and commit() keeps them"                   *)
(* (apply_txn.py:11-13): the transaction implements AtomicApply, whose     *)
(* tree changes only by a whole commit or by a named, failed restore.      *)
THEOREM AllOrNothing == TxnSpec => ImplementsAtomicApply
<1>1. TxnSpec => []TxnInv
  BY TransactionInvariant
<1> QED
  BY <1>1, InitRefines, NextRefines, PTL
     DEF TxnSpec, ImplementsAtomicApply, Atomic!AtomicSpec

-----------------------------------------------------------------------------
(***************************************************************************)
(* A codebase run, for any number of units, jobs and rounds, keeps the     *)
(* contract of the transaction, and so inherits what is proved of it: the  *)
(* join before the rollback and the results taken in order are what make   *)
(* the transaction quiescent when it ends.                                 *)
(***************************************************************************)

RunTypes ==
    /\ main \in {"results", "unwinding", "rollback", "raised", "returned"}
    /\ next \in 1..(NumTU + 1)
    /\ task \in [File -> TaskState]
    /\ seen \in [File -> Content \cup {Nothing}]

(* Only a task in its write has a write in flight.                         *)
WritesBelongToTasks == \A t \in File : InFlight(t) => task[t] = "write"

(* The transaction is open exactly until the main thread ends it.          *)
MainEndsTxn == (txn = "open") = (main \in {"results", "unwinding"})

TakenResultsEnded ==
    \A t \in File : t < next => task[t] \in {"ok", "error"}

NothingRunsAfterJoin ==
    /\ main # "results" => \A t \in File : task[t] # "queued"
    /\ main \notin {"results", "unwinding"} => \A t \in File : ~Live(t)

SeenIsText == \A t \in File : task[t] = "verify" => seen[t] \in Content

RunInv == /\ RunTypes /\ WritesBelongToTasks /\ MainEndsTxn
          /\ TakenResultsEnded /\ NothingRunsAfterJoin /\ SeenIsText

-----------------------------------------------------------------------------
LEMMA RunInitInv == RunInit => RunInv
<1> SUFFICES ASSUME RunInit PROVE RunInv
  OBVIOUS
<1> USE TextAssumption, RunAssumption DEF RunInit, TxnInit
<1>1. RunTypes /\ SeenIsText
  BY DEF RunTypes, TaskState, SeenIsText
<1>2. WritesBelongToTasks /\ MainEndsTxn
  BY DEF WritesBelongToTasks, MainEndsTxn, InFlight
<1>3. TakenResultsEnded /\ NothingRunsAfterJoin
  BY DEF TakenResultsEnded, NothingRunsAfterJoin
<1> QED
  BY <1>1, <1>2, <1>3 DEF RunInv

(* A task that is not inside its write leaves the transaction alone.       *)
LEMMA TaskStepKeepsInv ==
  ASSUME TxnTypeOK, RunInv, NEW t \in File,
         \/ Start(t) \/ Collect(t) \/ Finish(t) \/ Decline(t) \/ RecordFloor(t)
         \/ TaskFails(t) \/ BenchHangs(t)
  PROVE  RunInv' /\ UNCHANGED txnVars
<1> USE TextAssumption, RunAssumption DEF RunInv, TaskMoves, mainVars, txnVars
<1>1. UNCHANGED <<txnVars, main, next>>
  BY DEF Start, Collect, Finish, Decline, BenchHangs, RecordFloor, TaskFails
<1>2. \E s \in {"collect", "verify", "hung", "ok", "error"} :
         /\ task' = [task EXCEPT ![t] = s]
         /\ s = "verify" => seen' = [seen EXCEPT ![t] = disk[t]]
         /\ s # "verify" => seen' = seen
  BY DEF Start, Collect, Finish, Decline, BenchHangs, RecordFloor, TaskFails
<1>3. /\ main = "results" \/ Live(t)
      /\ task[t] \notin {"write", "ok", "error"}
  BY DEF Start, Collect, Finish, Decline, BenchHangs, RecordFloor, TaskFails, Live
<1>4. RunTypes'
  BY <1>1, <1>2 DEF RunTypes, TaskState, TxnTypeOK
<1>5. WritesBelongToTasks' /\ MainEndsTxn'
  BY <1>1, <1>2, <1>3 DEF WritesBelongToTasks, MainEndsTxn, InFlight, RunTypes
<1>6. TakenResultsEnded' /\ SeenIsText'
  BY <1>1, <1>2, <1>3 DEF TakenResultsEnded, SeenIsText, RunTypes, TxnTypeOK
<1>7. NothingRunsAfterJoin'
  BY <1>1, <1>2, <1>3 DEF NothingRunsAfterJoin, Live, RunTypes
<1> QED
  BY <1>1, <1>4, <1>5, <1>6, <1>7

(* A step of the task's write() is a step of the transaction.              *)
LEMMA WriteStepKeepsInv ==
  ASSUME TxnTypeOK, RunInv, NEW t \in File,
         Accept(t) \/ WriteProceeds(t) \/ WriteReturns(t) \/ WriteRaises(t)
  PROVE  RunInv' /\ FileStep(t)
<1> USE TextAssumption, RunAssumption DEF RunInv, TaskMoves, mainVars, taskVars
<1>1. UNCHANGED <<main, next, seen, txn>>
  BY DEF Accept, WriteProceeds, WriteReturns, WriteRaises, CallWrite, ReadAnchored,
     TakeSnapshot, SaveBackup, Replace, RaiseApplyError, undoVars
<1>2. Live(t) /\ task[t] \in {"verify", "write"}
  BY DEF Accept, WriteProceeds, WriteReturns, WriteRaises, Live
<1>3. txn = "open" /\ main \in {"results", "unwinding"}
  BY <1>2 DEF NothingRunsAfterJoin, MainEndsTxn, RunTypes
<1>4. \A u \in File \ {t} : wpc'[u] = wpc[u]
  BY DEF Accept, WriteProceeds, WriteReturns, WriteRaises, CallWrite, ReadAnchored,
     TakeSnapshot, SaveBackup, Replace, RaiseApplyError, WriteMoves, TxnTypeOK
<1>5. \E s \in {"write", "record", "apply_error"} :
         /\ task' = [task EXCEPT ![t] = s]
         /\ InFlight(t)' => s = "write"
  <2>1. CASE Accept(t)
    BY <2>1 DEF Accept
  <2>2. CASE WriteProceeds(t)
    BY <2>2 DEF WriteProceeds, RunTypes
  <2>3. CASE WriteReturns(t) \/ WriteRaises(t)
    BY <2>3 DEF WriteReturns, WriteRaises, Replace, RaiseApplyError, WriteMoves,
       InFlight, TxnTypeOK
  <2> QED
    BY <2>1, <2>2, <2>3
<1>6. FileStep(t)
  <2>1. CASE Accept(t)
    BY <1>3, <2>1 DEF Accept, SeenIsText, FileStep
  <2>2. CASE WriteProceeds(t) \/ WriteReturns(t) \/ WriteRaises(t)
    BY <2>2 DEF WriteProceeds, WriteReturns, WriteRaises, FileStep
  <2> QED
    BY <2>1, <2>2
<1>7. RunTypes' /\ MainEndsTxn' /\ SeenIsText'
  BY <1>1, <1>5 DEF RunTypes, TaskState, MainEndsTxn, SeenIsText
<1>8. WritesBelongToTasks'
  BY <1>4, <1>5 DEF WritesBelongToTasks, InFlight, RunTypes
<1>9. TakenResultsEnded' /\ NothingRunsAfterJoin'
  BY <1>1, <1>2, <1>3, <1>5 DEF TakenResultsEnded, NothingRunsAfterJoin, RunTypes, Live
<1> QED
  BY <1>6, <1>7, <1>8, <1>9

LEMMA UnwindKeepsInv ==
  ASSUME TxnTypeOK, RunInv, Unwind
  PROVE  RunInv' /\ [TxnNext]_txnVars
<1> USE TextAssumption, RunAssumption DEF RunInv
<1>1. /\ main = "results" /\ main' = "unwinding"
      /\ UNCHANGED <<next, seen, txn, fileVars, orig, undoVars>>
  BY DEF Unwind, undoVars
<1>2. /\ task' = [t \in File |-> IF task[t] = "queued" THEN "cancelled"
                               ELSE IF Inline /\ Live(t) THEN "interrupted"
                               ELSE task[t]]
      /\ IF Inline THEN AbandonWrites(File) ELSE UNCHANGED callVars
  BY DEF Unwind
<1>3. [TxnNext]_txnVars
  BY <1>1, <1>2 DEF TxnNext, txnVars, callVars, undoVars, fileVars
<1>4. \A t \in File : InFlight(t)' => InFlight(t) /\ ~Inline
  BY <1>2 DEF AbandonWrites, InFlight, callVars
<1>5. RunTypes'
  BY <1>1, <1>2 DEF RunTypes, TaskState
<1>6. WritesBelongToTasks' /\ MainEndsTxn'
  BY <1>1, <1>2, <1>4 DEF WritesBelongToTasks, MainEndsTxn
<1>7. TakenResultsEnded' /\ SeenIsText'
  BY <1>1, <1>2 DEF TakenResultsEnded, SeenIsText, Live, RunTypes
<1>8. NothingRunsAfterJoin'
  BY <1>1, <1>2 DEF NothingRunsAfterJoin
<1> QED
  BY <1>3, <1>5, <1>6, <1>7, <1>8

(* The transaction ends only when no task runs, hence no write.            *)
LEMMA MainStepKeepsInv ==
  ASSUME TxnTypeOK, RunInv,
         TakeResult \/ JoinThenRollback \/ RestoreStep \/ ReRaise \/ Return
  PROVE  RunInv' /\ [TxnNext]_txnVars
<1> USE TextAssumption, RunAssumption DEF RunInv, mainVars, taskVars
<1>1. CASE TakeResult
  <2>1. /\ UNCHANGED <<txnVars, main, task, seen>>
        /\ next' = next + 1 /\ next <= NumTU /\ task[next] \in {"ok", "error"}
    BY <1>1 DEF TakeResult
  <2>2. RunTypes' /\ MainEndsTxn' /\ SeenIsText' /\ NothingRunsAfterJoin'
        /\ WritesBelongToTasks'
    BY <2>1 DEF RunTypes, MainEndsTxn, SeenIsText, NothingRunsAfterJoin, Live,
       WritesBelongToTasks, InFlight, txnVars
  <2>3. TakenResultsEnded'
    BY <2>1 DEF TakenResultsEnded, RunTypes
  <2> QED
    BY <2>1, <2>2, <2>3
<1>2. ASSUME UNCHANGED <<next, task, seen, wpc>>,
             main' = main \/ \A t \in File : ~Live(t) /\ task[t] # "queued",
             main' \in {"rollback", "raised", "returned"}, txn' # "open"
      PROVE  RunInv'
  <2>1. RunTypes' /\ MainEndsTxn' /\ SeenIsText' /\ WritesBelongToTasks'
        /\ TakenResultsEnded'
    BY <1>2 DEF RunTypes, MainEndsTxn, SeenIsText, WritesBelongToTasks, InFlight,
       TakenResultsEnded
  <2>2. NothingRunsAfterJoin'
    BY <1>2 DEF NothingRunsAfterJoin, Live
  <2> QED
    BY <2>1, <2>2
<1>3. ASSUME \A t \in File : ~Live(t)
      PROVE  Quiescent
  BY <1>3 DEF Quiescent, WritesBelongToTasks, Live
<1>4. CASE JoinThenRollback
  <2>1. Quiescent /\ BeginRollback
    BY <1>3, <1>4 DEF JoinThenRollback
  <2>2. UNCHANGED <<next, task, seen, wpc>> /\ main' = "rollback" /\ txn' # "open"
    BY <1>4 DEF JoinThenRollback, BeginRollback, callVars
  <2>3. \A t \in File : ~Live(t) /\ task[t] # "queued"
    BY <1>4 DEF JoinThenRollback, NothingRunsAfterJoin
  <2> QED
    BY <1>2, <2>1, <2>2, <2>3 DEF TxnNext
<1>5. CASE RestoreStep
  <2>1. PICK f \in File : Truncate(f) \/ Fill(f) \/ RestoreFails(f)
    BY <1>5 DEF RestoreStep
  <2>2. TxnNext
    BY <2>1 DEF TxnNext, FileStep
  <2>3. /\ UNCHANGED <<next, task, seen, wpc, txn, main>>
        /\ main = "rollback"
    BY <1>5, <2>1 DEF RestoreStep, Truncate, Fill, RestoreFails, callVars
  <2>4. txn # "open"
    BY <2>3 DEF MainEndsTxn
  <2> QED
    BY <1>2, <2>2, <2>3, <2>4
<1>6. CASE ReRaise
  <2>1. /\ UNCHANGED <<next, task, seen, wpc>> /\ main' = "raised" /\ txn' # "open"
        /\ main = "rollback" /\ EndRollback
    BY <1>6 DEF ReRaise, EndRollback, callVars
  <2>2. \A t \in File : ~Live(t) /\ task[t] # "queued"
    BY <2>1 DEF NothingRunsAfterJoin
  <2> QED
    BY <1>2, <2>1, <2>2 DEF TxnNext
<1>7. CASE Return
  <2>1. /\ UNCHANGED <<next, task, seen, wpc>> /\ main' = "returned" /\ txn' # "open"
        /\ next = NumTU + 1 /\ Commit
    BY <1>7 DEF Return, Commit, callVars
  <2>2. \A t \in File : ~Live(t) /\ task[t] # "queued"
    BY <2>1 DEF TakenResultsEnded, Live
  <2> QED
    BY <1>2, <1>3, <2>1, <2>2 DEF TxnNext
<1> QED
  BY <1>1, <1>4, <1>5, <1>6, <1>7

LEMMA RunStepKeepsInv ==
  TxnTypeOK /\ RunInv /\ [RunNext]_runVars => RunInv' /\ [TxnNext]_txnVars
<1> SUFFICES ASSUME TxnTypeOK, RunInv, [RunNext]_runVars
             PROVE  RunInv' /\ [TxnNext]_txnVars
  OBVIOUS
<1>1. ASSUME NEW t \in File, TaskNext(t) PROVE RunInv' /\ [TxnNext]_txnVars
  BY <1>1, TaskStepKeepsInv, WriteStepKeepsInv DEF TaskNext, TxnNext
<1>2. CASE MainNext
  BY <1>2, MainStepKeepsInv, UnwindKeepsInv DEF MainNext, ResultRaises
<1>3. CASE Interrupt
  BY <1>3, UnwindKeepsInv DEF Interrupt
<1>4. CASE Stopped \/ UNCHANGED runVars
  <2>1. UNCHANGED runVars
    BY <1>4 DEF Stopped
  <2> QED
    BY <2>1 DEF runVars, txnVars, mainVars, taskVars, RunInv, RunTypes,
       WritesBelongToTasks, InFlight, MainEndsTxn, TakenResultsEnded,
       NothingRunsAfterJoin, Live, SeenIsText
<1> QED
  BY <1>1, <1>2, <1>3, <1>4 DEF RunNext

-----------------------------------------------------------------------------
(* api.py:102-117: however many units, workers and rounds, whichever of    *)
(* them fail, and whenever Ctrl-C is pressed once, the run uses its        *)
(* transaction lawfully: nothing is in flight when it ends it.             *)
THEOREM RunIsLawfulCaller == RunSpec => KeepsTxnContract
<1>1. RunInit => TxnInit /\ RunInv
  BY RunInitInv DEF RunInit
<1>2. TxnInv /\ [TxnNext]_txnVars => TxnInv'
  BY NextKeepsInv
<1>3. TxnInv => TxnTypeOK
  BY DEF TxnInv
<1> QED
  BY <1>1, <1>2, <1>3, InitEstablishesInv, RunStepKeepsInv, PTL
     DEF RunSpec, KeepsTxnContract, TxnSpec

(* A whole-codebase --apply is all-or-nothing.                             *)
THEOREM RunIsAllOrNothing == RunSpec => ImplementsAtomicApply
<1> QED
  BY RunIsLawfulCaller, AllOrNothing, PTL DEF KeepsTxnContract

(* After a rolled-back run every file whose restore did not fail is as the *)
(* run found it.                                                           *)
THEOREM RunRestores == RunSpec => []RollbackRestores
<1> QED
  BY RunIsLawfulCaller, RollbackIsComplete, PTL DEF KeepsTxnContract

-----------------------------------------------------------------------------
(* What a unit's verdicts say of its file.                                 *)
LastApplied(t) == IF reported[t] = Nothing THEN Original[t] ELSE reported[t]

BookTypes ==
    /\ jobs \in 1..MaxJobs
    /\ round \in [File -> 0..MaxRounds]
    /\ reported \in [File -> Text \cup {Nothing}]
    /\ armed \subseteq File

WritesText == \A t \in File : task[t] \in {"write", "record"} => newText[t] \in Text

(* Between its writes a unit's file holds what its verdicts say; after a   *)
(* write, until the verdict is marked, it holds the text just written.     *)
AppliedOnDisk ==
    main \notin {"rollback", "raised"} =>
        \A t \in File :
            /\ task[t] \in {"queued", "collect", "verify", "write", "ok"} =>
                  disk[t] = LastApplied(t)
            /\ task[t] = "record" => disk[t] = newText[t]

BookInv == BookTypes /\ WritesText /\ AppliedOnDisk

LEMMA InitBooks == RunInit => BookInv
BY RunAssumption, TextAssumption
   DEF RunInit, TxnInit, BookInv, BookTypes, WritesText, AppliedOnDisk, LastApplied

(* A step of a unit leaves the other units' files and verdicts alone.      *)
LEMMA TaskStepIsLocal ==
  ASSUME TxnTypeOK, RunInv, BookTypes, NEW t \in File, TaskNext(t)
  PROVE  /\ main' = main /\ jobs' = jobs /\ next' = next
         /\ \A u \in File \ {t} :
               /\ task'[u] = task[u] /\ disk'[u] = disk[u]
               /\ newText'[u] = newText[u] /\ reported'[u] = reported[u]
<1> USE DEF RunInv, RunTypes, TxnTypeOK, TaskMoves, mainVars, taskVars, fileVars
<1>1. CASE Start(t) \/ Collect(t) \/ Finish(t) \/ Decline(t) \/ BenchHangs(t)
  BY <1>1 DEF Start, Collect, Finish, Decline, BenchHangs, txnVars
<1>2. CASE RecordFloor(t) \/ TaskFails(t)
  BY <1>2 DEF RecordFloor, TaskFails, txnVars, BookTypes
<1>3. CASE Accept(t)
  BY <1>3 DEF Accept, CallWrite
<1>4. CASE WriteProceeds(t)
  BY <1>4 DEF WriteProceeds, ReadAnchored, TakeSnapshot, SaveBackup
<1>5. CASE WriteReturns(t) \/ WriteRaises(t)
  BY <1>5 DEF WriteReturns, WriteRaises, Replace, RaiseApplyError
<1> QED
  BY <1>1, <1>2, <1>3, <1>4, <1>5 DEF TaskNext

LEMMA TaskStepKeepsBooks ==
  ASSUME TxnTypeOK, RunInv, BookInv, NEW t \in File, TaskNext(t)
  PROVE  BookInv'
<1> USE TextAssumption, RunAssumption DEF TaskMoves, mainVars, taskVars, fileVars
<1> DEFINE Held == /\ task[t] \in {"queued", "collect", "verify", "write", "ok"} =>
                         disk[t] = LastApplied(t)
                   /\ task[t] = "record" => disk[t] = newText[t]
           Named == task[t] \in {"write", "record"} => newText[t] \in Text
<1>1. /\ Live(t) \/ main = "results"
      /\ main \notin {"rollback", "raised"}
  BY DEF TaskNext, Start, Collect, Finish, Decline, Accept, WriteProceeds, WriteReturns,
     WriteRaises, RecordFloor, TaskFails, BenchHangs, Live, RunInv, NothingRunsAfterJoin
<1>2. Held /\ Named
  BY <1>1 DEF BookInv, AppliedOnDisk, WritesText
<1>3. task \in [File -> TaskState] /\ disk \in [File -> Content]
      /\ newText \in [File -> Text \cup {Nothing}]
  BY DEF RunInv, RunTypes, TxnTypeOK
<1>4. jobs \in 1..MaxJobs /\ round \in [File -> 0..MaxRounds]
      /\ reported \in [File -> Text \cup {Nothing}] /\ armed \subseteq File
  BY DEF BookInv, BookTypes
<1>5. BookTypes' /\ Held' /\ Named'
  <2>1. CASE Start(t) \/ Finish(t) \/ Decline(t) \/ BenchHangs(t)
    BY <1>2, <1>3, <1>4, <2>1
       DEF Start, Finish, Decline, BenchHangs, txnVars, BookTypes, LastApplied
  <2>2. CASE Collect(t)
    <3>1. round' \in [File -> 0..MaxRounds]
      BY <1>4, <2>2 DEF Collect
    <3> QED
      BY <1>2, <1>3, <1>4, <2>2, <3>1 DEF Collect, txnVars, BookTypes, LastApplied
  <2>3. CASE Accept(t)
    BY <1>2, <1>3, <1>4, <2>3 DEF Accept, CallWrite, BookTypes, LastApplied
  <2>4. CASE WriteProceeds(t)
    BY <1>2, <1>3, <1>4, <2>4
       DEF WriteProceeds, ReadAnchored, TakeSnapshot, SaveBackup, BookTypes, LastApplied
  <2>5. CASE WriteReturns(t)
    BY <1>2, <1>3, <1>4, <2>5 DEF WriteReturns, Replace, BookTypes, LastApplied
  <2>6. CASE WriteRaises(t)
    BY <1>2, <1>3, <1>4, <2>6 DEF WriteRaises, RaiseApplyError, BookTypes, LastApplied
  <2>7. CASE RecordFloor(t)
    <3>1. newText[t] \in Text /\ disk[t] = newText[t]
      BY <1>2, <2>7 DEF RecordFloor
    <3> QED
      BY <1>3, <1>4, <2>7, <3>1 DEF RecordFloor, txnVars, BookTypes, LastApplied
  <2>8. CASE TaskFails(t)
    BY <1>3, <1>4, <2>8 DEF TaskFails, txnVars, BookTypes
  <2> QED
    BY <2>1, <2>2, <2>3, <2>4, <2>5, <2>6, <2>7, <2>8 DEF TaskNext
<1>6. /\ main' = main
      /\ \A u \in File \ {t} :
            /\ task'[u] = task[u] /\ disk'[u] = disk[u]
            /\ newText'[u] = newText[u] /\ reported'[u] = reported[u]
  BY TaskStepIsLocal DEF BookInv
<1>7. WritesText'
  BY <1>5, <1>6 DEF BookInv, WritesText
<1>8. AppliedOnDisk'
  BY <1>1, <1>5, <1>6 DEF BookInv, AppliedOnDisk, LastApplied
<1> QED
  BY <1>5, <1>7, <1>8 DEF BookInv

LEMMA MainStepKeepsBooks ==
  ASSUME TxnTypeOK, RunInv, BookInv, MainNext \/ Interrupt
  PROVE  BookInv'
<1> USE DEF mainVars, taskVars, fileVars, BookInv
<1>1. CASE TakeResult
  BY <1>1 DEF TakeResult, txnVars, BookTypes, WritesText, AppliedOnDisk, LastApplied
<1>2. CASE ResultRaises \/ Interrupt
  <2>1. /\ UNCHANGED <<disk, newText, reported, jobs, round, armed>>
        /\ main = "results"
        /\ \A t \in File : task'[t] \in {"cancelled", "interrupted", task[t]}
    BY <1>2 DEF ResultRaises, Interrupt, Unwind, AbandonWrites, callVars
  <2> QED
    BY <2>1 DEF BookTypes, WritesText, AppliedOnDisk, LastApplied
<1>3. CASE JoinThenRollback \/ ReRaise
  <2>1. /\ UNCHANGED <<newText, task, reported, jobs, round, armed>>
        /\ main' \in {"rollback", "raised"}
    BY <1>3 DEF JoinThenRollback, ReRaise, BeginRollback, EndRollback, callVars
  <2> QED
    BY <2>1 DEF BookTypes, WritesText, AppliedOnDisk
<1>4. CASE RestoreStep
  <2>1. /\ UNCHANGED <<newText, task, reported, jobs, round, armed>>
        /\ main' = "rollback"
    BY <1>4 DEF RestoreStep, Truncate, Fill, RestoreFails, callVars
  <2> QED
    BY <2>1 DEF BookTypes, WritesText, AppliedOnDisk
<1>5. CASE Return
  <2>1. /\ UNCHANGED <<disk, newText, task, reported, jobs, round, armed>>
        /\ main = "results"
    BY <1>5 DEF Return, Commit, callVars
  <2> QED
    BY <2>1 DEF BookTypes, WritesText, AppliedOnDisk, LastApplied
<1> QED
  BY <1>1, <1>2, <1>3, <1>4, <1>5 DEF MainNext

LEMMA StepKeepsBooks ==
  TxnTypeOK /\ RunInv /\ BookInv /\ [RunNext]_runVars => BookInv'
<1> SUFFICES ASSUME TxnTypeOK, RunInv, BookInv, [RunNext]_runVars
             PROVE  BookInv'
  OBVIOUS
<1>1. CASE \E t \in File : TaskNext(t)
  BY <1>1, TaskStepKeepsBooks
<1>2. CASE MainNext \/ Interrupt
  BY <1>2, MainStepKeepsBooks
<1>3. CASE Stopped \/ UNCHANGED runVars
  <2>1. UNCHANGED runVars
    BY <1>3 DEF Stopped
  <2> QED
    BY <2>1 DEF runVars, txnVars, mainVars, taskVars, BookInv, BookTypes, WritesText,
       AppliedOnDisk, LastApplied
<1> QED
  BY <1>1, <1>2, <1>3 DEF RunNext

LEMMA BooksAlwaysHold == RunSpec => [](TxnTypeOK /\ RunInv /\ BookInv)
<1>1. RunInit => TxnInit /\ RunInv /\ BookInv
  BY RunInitInv, InitBooks DEF RunInit
<1>2. TxnInv /\ [TxnNext]_txnVars => TxnInv'
  BY NextKeepsInv
<1>3. TxnInv => TxnTypeOK
  BY DEF TxnInv
<1> QED
  BY <1>1, <1>2, <1>3, InitEstablishesInv, RunStepKeepsInv, StepKeepsBooks, PTL
     DEF RunSpec

(* Every variable of a codebase run, its transaction included, keeps its   *)
(* kind.                                                                   *)
THEOREM RunIsTyped == RunSpec => []RunTypeOK
<1>1. TxnTypeOK /\ RunInv /\ BookInv => RunTypeOK
  BY DEF RunInv, RunTypes, BookInv, BookTypes, RunTypeOK
<1> QED
  BY <1>1, BooksAlwaysHold, PTL

(* api.py:115 and orchestrator.py: when a run returns, a unit without an   *)
(* error holds the last text its verdicts call applied, or its original,   *)
(* for any number of units, workers and rounds.                            *)
THEOREM ReportsHold == RunSpec => []ReportsTruthful
<1>1. TxnTypeOK /\ RunInv /\ BookInv => ReportsTruthful
  BY DEF BookInv, AppliedOnDisk, LastApplied, ReportsTruthful
<1> QED
  BY <1>1, BooksAlwaysHold, PTL

-----------------------------------------------------------------------------
(***************************************************************************)
(* Whatever happens around a codebase run (editor saves, a kill, Ctrl-C in *)
(* the join or in the rollback), for any units, texts, jobs and rounds: a  *)
(* write replaces only the text that was verified, unless the file was     *)
(* touched after the write had compared it.                                *)
(***************************************************************************)

(* Everything a write looks at is a table of all files.                    *)
Tables == /\ wpc \in [File -> WriteStep]
          /\ DOMAIN disk = File /\ DOMAIN expected = File
          /\ DOMAIN seen = File /\ DOMAIN task = File

(* A write in flight belongs to its unit's worker, which waits for it; it  *)
(* was called with the text the sensor read, and that was no torn one.     *)
WriterWaits == \A t \in File : InFlight(t) => task[t] = "write" /\ seen[t] # Torn
ExpectsSeen == \A t \in File : wpc[t] = "read" => expected[t] = seen[t]

(* Past the comparison, the file holds that text, if nobody touched it.    *)
Compared(t) == wpc[t] \in {"snapshot", "backup", "replace"}
HoldsSeen == \A t \in File : Compared(t) /\ t \notin touched => disk[t] = seen[t]

AnchorInv == Tables /\ WriterWaits /\ ExpectsSeen /\ HoldsSeen

-----------------------------------------------------------------------------
(* A step that leaves the files and the writes alone.                      *)
Aside ==
    /\ UNCHANGED <<disk, wpc, expected>> /\ touched \subseteq touched'
    /\ DOMAIN seen' = File /\ DOMAIN task' = File
    /\ \A t \in File : InFlight(t) => task'[t] = task[t] /\ seen'[t] = seen[t]

(* It keeps the invariant.                                                 *)
LEMMA AsideKeeps ==
    ASSUME AnchorInv, Aside
    PROVE  AnchorInv'
  <1>1. Tables'
    BY DEF AnchorInv, Tables, Aside
  <1>2. \A t \in File : InFlight(t)' = InFlight(t) /\ Compared(t)' = Compared(t)
    BY DEF Aside, InFlight, Compared
  <1>3. WriterWaits'
    BY <1>2 DEF AnchorInv, Aside, WriterWaits
  <1>4. ExpectsSeen'
    BY DEF AnchorInv, Aside, ExpectsSeen, InFlight
  <1>5. HoldsSeen'
    BY <1>2 DEF AnchorInv, Aside, HoldsSeen, Compared, InFlight
  <1> QED BY <1>1, <1>3, <1>4, <1>5 DEF AnchorInv

(* What a step of the program does to `touched`.                           *)
Cleared == {t \in File : wpc[t] = "read" /\ wpc'[t] # "read"}
LEMMA Touching ==
    ASSUME Program
    PROVE  /\ touched' = (touched \ Cleared) \cup {t \in File : restoring' = t}
           /\ wpc' = wpc => touched \subseteq touched'
  BY DEF Program, Cleared

(* The tasks outside their write, and the main thread, keep clear of it.   *)
LEMMA TasksAside ==
    ASSUME AnchorInv, Program, NEW t \in File,
           \/ Start(t) \/ Collect(t) \/ Finish(t) \/ Decline(t) \/ RecordFloor(t)
           \/ TaskFails(t) \/ BenchHangs(t)
    PROVE  AnchorInv'
  <1>1. UNCHANGED <<disk, wpc, expected>>
    BY DEF Start, Collect, Finish, Decline, BenchHangs, RecordFloor, TaskFails, txnVars
  <1>2. \E s \in TaskState : task' = [task EXCEPT ![t] = s] /\ task[t] # "write"
    BY DEF Start, Collect, Finish, Decline, BenchHangs, RecordFloor, TaskFails, TaskMoves, TaskState
  <1>3. seen' = seen \/ seen' = [seen EXCEPT ![t] = disk[t]]
    BY DEF Start, Collect, Finish, Decline, BenchHangs, RecordFloor, TaskFails
  <1>4. ~InFlight(t)
    BY <1>2 DEF AnchorInv, WriterWaits
  <1>5. DOMAIN seen' = File /\ DOMAIN task' = File
    BY <1>2, <1>3 DEF AnchorInv, Tables
  <1>6. \A u \in File : u # t => task'[u] = task[u] /\ seen'[u] = seen[u]
    BY <1>2, <1>3 DEF AnchorInv, Tables
  <1> QED BY <1>1, <1>4, <1>5, <1>6, Touching, AsideKeeps DEF Aside

(* Unwind: inline it abandons every write, in the pool none.               *)
LEMMA UnwindKeeps ==
    ASSUME AnchorInv, Program, Unwind
    PROVE  AnchorInv'
  <1>1. /\ UNCHANGED <<disk, seen>>
        /\ task' = [t \in File |-> IF task[t] = "queued" THEN "cancelled"
                                   ELSE IF Inline /\ Live(t) THEN "interrupted"
                                   ELSE task[t]]
    BY DEF Unwind, fileVars
  <1>2. CASE Inline
    <2>1. /\ wpc' = [f \in File |-> IF f \in File /\ InFlight(f) THEN "raised" ELSE wpc[f]]
          /\ expected' = expected
      BY <1>2 DEF Unwind, AbandonWrites
    <2>2. \A t \in File : wpc'[t] \in {"idle", "raised"}
      BY <2>1 DEF InFlight
    <2>3. Tables'
      BY <1>1, <2>1 DEF AnchorInv, Tables, WriteStep
    <2> QED BY <2>2, <2>3 DEF AnchorInv, WriterWaits, ExpectsSeen, HoldsSeen, InFlight, Compared
  <1>3. CASE ~Inline
    <2>1. UNCHANGED <<wpc, expected>>
      BY <1>3 DEF Unwind, callVars
    <2>2. \A t \in File : InFlight(t) => task'[t] = task[t]
      BY <1>1, <1>3 DEF AnchorInv, WriterWaits
    <2>3. DOMAIN seen' = File /\ DOMAIN task' = File
      BY <1>1 DEF AnchorInv, Tables
    <2> QED BY <1>1, <2>1, <2>2, <2>3, Touching, AsideKeeps DEF Aside
  <1> QED BY <1>2, <1>3

(* A step that changes no task, text read or write.                        *)
LEMMA MainAside ==
    ASSUME AnchorInv, UNCHANGED <<disk, wpc, expected, seen, task>>, touched \subseteq touched'
    PROVE  AnchorInv'
  BY AsideKeeps DEF Aside, AnchorInv, Tables

-----------------------------------------------------------------------------
(* Accept: the write is called with the text that was read.                *)
LEMMA AcceptKeeps ==
    ASSUME AnchorInv, Program, NEW t \in File, Accept(t)
    PROVE  AnchorInv'
  <1>1. /\ wpc' = [wpc EXCEPT ![t] = "read"] /\ ~InFlight(t)
        /\ expected' = [expected EXCEPT ![t] = seen[t]]
        /\ task' = [task EXCEPT ![t] = "write"] /\ seen[t] # Torn
        /\ UNCHANGED <<disk, seen>>
    BY DEF Accept, CallWrite, WriteMoves, TaskMoves, fileVars
  <1>2. Tables /\ Tables'
    BY <1>1 DEF AnchorInv, Tables, WriteStep
  <1>3. /\ wpc'[t] = "read" /\ expected'[t] = seen[t] /\ task'[t] = "write"
        /\ \A u \in File : u # t => /\ wpc'[u] = wpc[u] /\ expected'[u] = expected[u]
                                    /\ task'[u] = task[u]
    BY <1>1, <1>2 DEF Tables
  <1>4. \A u \in File : u # t => InFlight(u)' = InFlight(u) /\ Compared(u)' = Compared(u)
    BY <1>3 DEF InFlight, Compared
  <1>5. wpc[t] # "read"
    BY <1>1 DEF InFlight
  <1>6. touched \subseteq touched'
    BY <1>3, <1>5, Touching DEF Cleared
  <1>7. WriterWaits'
    BY <1>1, <1>3, <1>4 DEF AnchorInv, WriterWaits
  <1>8. ExpectsSeen'
    BY <1>1, <1>3 DEF AnchorInv, ExpectsSeen
  <1>9. ~Compared(t)'
    BY <1>3 DEF Compared
  <1>10. HoldsSeen'
    BY <1>1, <1>4, <1>6, <1>9 DEF AnchorInv, HoldsSeen
  <1> QED BY <1>2, <1>7, <1>8, <1>10 DEF AnchorInv

(* One step of one write that leaves its file alone.                       *)
LEMMA CallStepKeeps ==
    ASSUME AnchorInv, Program, NEW t \in File, NEW s \in WriteStep,
           wpc' = [wpc EXCEPT ![t] = s], UNCHANGED <<disk, expected, seen>>,
           InFlight(t), s # "read",
           \/ task' = task
           \/ task' = [task EXCEPT ![t] = "apply_error"] /\ s = "raised",
           wpc[t] = "read" /\ s # "raised" => disk[t] = seen[t]
    PROVE  AnchorInv'
  <1>1. Tables /\ Tables'
    BY DEF AnchorInv, Tables
  <1>2. /\ wpc'[t] = s
        /\ \A u \in File : u # t => wpc'[u] = wpc[u] /\ task'[u] = task[u]
        /\ s # "raised" => task'[t] = task[t]
    BY <1>1 DEF Tables
  <1>3. \A u \in File : u # t => InFlight(u)' = InFlight(u) /\ Compared(u)' = Compared(u)
    BY <1>2 DEF InFlight, Compared
  <1>4. WriterWaits'
    BY <1>2, <1>3 DEF AnchorInv, WriterWaits, InFlight
  <1>5. ExpectsSeen'
    BY <1>2 DEF AnchorInv, ExpectsSeen
  <1>6. \A u \in File : u # t /\ u \notin touched' => u \notin touched
    BY <1>2, Touching DEF Cleared
  <1>7. t \notin touched' /\ wpc[t] # "read" => t \notin touched
    BY Touching DEF Cleared
  <1>8. Compared(t)' /\ wpc[t] # "read" => Compared(t)
    BY <1>1 DEF Compared, InFlight, WriteStep, Tables
  <1>9. ~(s = "raised" /\ Compared(t)')
    BY <1>2 DEF Compared
  <1>10. HoldsSeen'
    BY <1>3, <1>6, <1>7, <1>8, <1>9 DEF AnchorInv, HoldsSeen
  <1> QED BY <1>1, <1>4, <1>5, <1>10 DEF AnchorInv

-----------------------------------------------------------------------------
(* The steps of a write between its call and its end: the comparison is    *)
(* what makes HoldsSeen true.                                              *)
LEMMA ProceedKeeps ==
    ASSUME AnchorInv, Program, NEW t \in File, WriteProceeds(t)
    PROVE  AnchorInv'
  <1>1. UNCHANGED <<disk, expected, seen, task>> /\ InFlight(t)
    BY DEF WriteProceeds, ReadAnchored, TakeSnapshot, SaveBackup, taskVars, fileVars, InFlight
  <1>2. CASE ReadAnchored(t)
    <2>1. wpc' = [wpc EXCEPT ![t] = "snapshot"] /\ disk[t] = seen[t]
      BY <1>2 DEF ReadAnchored, WriteMoves, AnchorInv, ExpectsSeen
    <2>2. "snapshot" \in WriteStep
      BY DEF WriteStep
    <2> QED BY <1>1, <2>1, <2>2, CallStepKeeps
  <1>3. CASE TakeSnapshot(t)
    <2>1. PICK s \in {"backup", "replace"} : wpc' = [wpc EXCEPT ![t] = s]
      BY <1>3 DEF TakeSnapshot, WriteMoves
    <2>2. s \in WriteStep /\ s # "read" /\ wpc[t] # "read"
      BY <1>3, <2>1 DEF WriteStep, TakeSnapshot
    <2> QED BY <1>1, <2>1, <2>2, CallStepKeeps
  <1>4. CASE SaveBackup(t)
    <2>1. wpc' = [wpc EXCEPT ![t] = "replace"] /\ wpc[t] # "read"
      BY <1>4 DEF SaveBackup, WriteMoves
    <2>2. "replace" \in WriteStep
      BY DEF WriteStep
    <2> QED BY <1>1, <2>1, <2>2, CallStepKeeps
  <1> QED BY <1>2, <1>3, <1>4 DEF WriteProceeds

(* A failed write leaves its file alone.                                   *)
LEMMA RaisesKeeps ==
    ASSUME AnchorInv, Program, NEW t \in File, WriteRaises(t)
    PROVE  AnchorInv'
  <1>1. /\ UNCHANGED <<disk, expected, seen>> /\ InFlight(t)
        /\ wpc' = [wpc EXCEPT ![t] = "raised"]
        /\ task' = [task EXCEPT ![t] = "apply_error"]
    BY DEF WriteRaises, RaiseApplyError, WriteMoves, TaskMoves, fileVars, InFlight
  <1>2. "raised" \in WriteStep
    BY DEF WriteStep
  <1> QED BY <1>1, <1>2, CallStepKeeps

(* A write that ends changes its own file, and is past every comparison.   *)
LEMMA ReturnsKeeps ==
    ASSUME AnchorInv, Program, NEW t \in File, WriteReturns(t)
    PROVE  AnchorInv'
  <1>1. /\ UNCHANGED <<expected, seen>> /\ wpc[t] = "replace"
        /\ wpc' = [wpc EXCEPT ![t] = "idle"]
        /\ disk' = [disk EXCEPT ![t] = newText[t]]
        /\ task' = [task EXCEPT ![t] = "record"]
    BY DEF WriteReturns, Replace, WriteMoves, TaskMoves
  <1>2. Tables /\ Tables'
    BY <1>1 DEF AnchorInv, Tables, WriteStep
  <1>3. /\ wpc'[t] = "idle"
        /\ \A u \in File : u # t => /\ wpc'[u] = wpc[u] /\ task'[u] = task[u]
                                    /\ disk'[u] = disk[u]
    BY <1>1, <1>2 DEF Tables
  <1>4. \A u \in File : u # t => InFlight(u)' = InFlight(u) /\ Compared(u)' = Compared(u)
    BY <1>3 DEF InFlight, Compared
  <1>5. ~InFlight(t)' /\ ~Compared(t)'
    BY <1>3 DEF InFlight, Compared
  <1>6. \A u \in File : u # t /\ u \notin touched' => u \notin touched
    BY <1>3, Touching DEF Cleared
  <1>7. WriterWaits'
    BY <1>1, <1>3, <1>4, <1>5 DEF AnchorInv, WriterWaits
  <1>8. ExpectsSeen'
    BY <1>1, <1>3 DEF AnchorInv, ExpectsSeen
  <1>9. HoldsSeen'
    BY <1>1, <1>3, <1>4, <1>5, <1>6 DEF AnchorInv, HoldsSeen
  <1> QED BY <1>2, <1>7, <1>8, <1>9 DEF AnchorInv

-----------------------------------------------------------------------------
(* rollback() truncates a file, which counts as touching it, and fills     *)
(* only a torn one: that is never the text a write has compared.           *)
LEMMA RestoreKeeps ==
    ASSUME AnchorInv, Program, RestoreStep
    PROVE  AnchorInv'
  <1>1. PICK f \in File : Truncate(f) \/ Fill(f) \/ RestoreFails(f)
    BY DEF RestoreStep
  <1>2. UNCHANGED <<wpc, expected, seen, task>>
    BY <1>1 DEF RestoreStep, taskVars, Truncate, Fill, RestoreFails, callVars
  <1>3. DOMAIN disk' = File /\ \A u \in File : u # f => disk'[u] = disk[u]
    BY <1>1 DEF AnchorInv, Tables, Truncate, Fill, RestoreFails, fileVars
  <1>4. touched \subseteq touched'
    BY <1>2, Touching
  <1>5. f \in touched' \/ disk[f] = Torn \/ disk'[f] = disk[f]
    <2>1. CASE Truncate(f)
      <3>1. restoring' = f
        BY <2>1 DEF Truncate
      <3> QED BY <3>1, Touching
    <2>2. CASE Fill(f)
      BY <2>2 DEF Fill, AnchorInv, Tables
    <2>3. CASE RestoreFails(f)
      BY <2>3 DEF RestoreFails, fileVars
    <2> QED BY <1>1, <2>1, <2>2, <2>3
  <1>6. \A u \in File : InFlight(u)' = InFlight(u) /\ Compared(u)' = Compared(u)
    BY <1>2 DEF InFlight, Compared
  <1>7. \A u \in File : Compared(u) => InFlight(u)
    BY DEF InFlight, Compared
  <1>8. Tables' /\ WriterWaits' /\ ExpectsSeen'
    BY <1>2, <1>3, <1>6 DEF AnchorInv, Tables, WriterWaits, ExpectsSeen
  <1>9. HoldsSeen'
    <2> SUFFICES ASSUME NEW u \in File, Compared(u)', u \notin touched'
                 PROVE  disk'[u] = seen'[u]
      BY DEF HoldsSeen
    <2>1. disk[u] = seen[u] /\ seen[u] # Torn
      BY <1>4, <1>6, <1>7 DEF AnchorInv, HoldsSeen, WriterWaits
    <2> QED BY <1>2, <1>3, <1>5, <2>1
  <1> QED BY <1>8, <1>9 DEF AnchorInv

(* The other steps of the main thread.                                     *)
LEMMA MainKeeps ==
    ASSUME AnchorInv, Program,
           TakeResult \/ JoinThenRollback \/ ReRaise \/ Return \/ Stopped
    PROVE  AnchorInv'
  <1>1. UNCHANGED <<disk, wpc, expected, seen, task>>
    BY DEF TakeResult, JoinThenRollback, ReRaise, Return, Stopped, BeginRollback,
           EndRollback, Commit, txnVars, taskVars, mainVars, runVars, callVars, fileVars
  <1> QED BY <1>1, Touching, MainAside

(* The steps of the program.                                               *)
LEMMA ProgramKeeps ==
    ASSUME AnchorInv, Program
    PROVE  AnchorInv'
  <1>1. RunNext
    BY DEF Program
  <1>2. ASSUME NEW t \in File, TaskNext(t) PROVE AnchorInv'
    BY <1>2, TasksAside, AcceptKeeps, ProceedKeeps, RaisesKeeps, ReturnsKeeps DEF TaskNext
  <1>3. ASSUME MainNext PROVE AnchorInv'
    BY <1>3, MainKeeps, RestoreKeeps, UnwindKeeps DEF MainNext, ResultRaises
  <1> QED BY <1>1, <1>2, <1>3, UnwindKeeps, MainKeeps DEF RunNext, Interrupt

(* An edit touches the file it changes.                                    *)
LEMMA EditKeeps ==
    ASSUME AnchorInv, NEW t \in File, SaveInEditor(t)
    PROVE  AnchorInv'
  <1>1. /\ UNCHANGED <<wpc, expected, seen, task>> /\ touched' = touched \cup {t}
        /\ DOMAIN disk' = File /\ \A u \in File : u # t => disk'[u] = disk[u]
    BY DEF SaveInEditor, callVars, taskVars, AnchorInv, Tables
  <1>2. \A u \in File : InFlight(u)' = InFlight(u) /\ Compared(u)' = Compared(u)
    BY <1>1 DEF InFlight, Compared
  <1> QED BY <1>1, <1>2 DEF AnchorInv, Tables, WriterWaits, ExpectsSeen, HoldsSeen

(* The other events leave the files and the writes alone.                  *)
LEMMA EventKeeps ==
    ASSUME AnchorInv,
           Crash \/ InterruptJoin \/ InterruptRollback \/ UNCHANGED allVars
    PROVE  AnchorInv'
  <1>1. UNCHANGED <<disk, wpc, expected, seen, task, touched>>
    BY DEF Crash, InterruptJoin, InterruptRollback, BeginRollback, runVars, txnVars,
           taskVars, callVars, fileVars, faultVars, allVars
  <1> QED BY <1>1, MainAside

-----------------------------------------------------------------------------
(* The anchor invariant holds throughout, whatever the environment does.   *)
THEOREM Anchored == FaultSpec => []AnchorInv
  <1>1. FaultInit => AnchorInv
    BY TextAssumption DEF FaultInit, RunInit, TxnInit, AnchorInv, Tables, WriterWaits,
       ExpectsSeen, HoldsSeen, InFlight, Compared, WriteStep
  <1>2. AnchorInv /\ [FaultNext]_allVars => AnchorInv'
    <2> SUFFICES ASSUME AnchorInv, [FaultNext]_allVars
                 PROVE  AnchorInv'
      OBVIOUS
    <2> QED BY ProgramKeeps, EditKeeps, EventKeeps DEF FaultNext
  <1> QED BY <1>1, <1>2, PTL DEF FaultSpec

(* A write replaces only the text the sensor read and the gate verified,   *)
(* unless the file was touched between the comparison and the replace      *)
(* (apply_txn.py:14-16 and 49-53).                                         *)
THEOREM WritesWhatWasVerified == FaultSpec => OverwritesOnlyWhatWasRead
  <1>1. AnchorInv =>
            \A t \in File : Replaced(t) /\ t \notin touched => disk[t] = seen[t]
    BY DEF AnchorInv, HoldsSeen, Compared, Replaced
  <1> QED BY <1>1, Anchored, PTL DEF FaultSpec, OverwritesOnlyWhatWasRead
=============================================================================
