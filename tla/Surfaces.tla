------------------------------ MODULE Surfaces ------------------------------
(***************************************************************************)
(* A developer's day: the file is optimized in the editor; once the editor *)
(* is closed, what is on disk is pushed to a pull request that the action  *)
(* checks, and pushed again while it does.                                 *)
(***************************************************************************)
EXTENDS Editor, Review

VARIABLE open       \* the editor's window

vars == <<editorVars, reviewVars, open>>

Init == EditorInit /\ ReviewInit /\ open = TRUE

(* What the extension knew dies with it; the file stays.                   *)
CloseEditor ==
    /\ open
    /\ open' = FALSE
    /\ buf' = disk
    /\ runs' = [r \in DOMAIN runs |-> None]
    /\ findings' = {} /\ base' = Original /\ shown' = None
    /\ edits' = 0 /\ started' = 0
    /\ UNCHANGED <<disk, reviewVars>>

PushDisk == ~open /\ PushText(disk) /\ UNCHANGED <<editorVars, open>>

Next ==
    \/ open /\ EditorNext /\ UNCHANGED <<reviewVars, open>>
    \/ CloseEditor
    \/ PushDisk
    \/ ~open /\ ActionNext /\ UNCHANGED <<editorVars, open>>

Spec == Init /\ [][Next]_vars

-----------------------------------------------------------------------------
(* Every variable of the two surfaces holds a value of its kind.           *)
SurfacesTypeOK == EditorTypeOK /\ ReviewTypeOK /\ open \in BOOLEAN
=============================================================================
