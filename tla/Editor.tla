------------------------------- MODULE Editor -------------------------------
(***************************************************************************)
(* The VS Code extension (editors/vscode/src/extension.ts, panel.ts): runs *)
(* of the command line over the file on disk, the findings they report,    *)
(* and applying a finding to the open document, whose text may have moved  *)
(* on.                                                                     *)
(***************************************************************************)
EXTENDS Patch

CONSTANTS
    Original,      \* the file's text
    MaxRuns,       \* bound: "Verify & Optimize" commands
    MaxEdits,      \* bound: lines the user types
    MaxLines       \* bound: lines of the document

ASSUME EditorAssumption ==
    /\ Original \in Seq(Nat) /\ MaxLines \in Nat /\ Len(Original) <= MaxLines
    /\ MaxRuns \in Nat /\ MaxEdits \in Nat

VARIABLES
    buf,        \* the open document
    disk,       \* the file
    runs,       \* boostopt processes: what each has read
    findings,   \* accepted verdicts of the report that came last
    base,       \* history: the text that report was about
    shown,      \* the verdict in the proof panel
    edits,      \* lines typed so far
    started     \* runs started so far

editorVars == <<buf, disk, runs, findings, base, shown, edits, started>>

Finding(t, f) == [func |-> f, hunks |-> Hunks(t, f)]

(* runOptimize: every command spawns a process of its own.                 *)
RunOptimize ==
    /\ started < MaxRuns
    /\ started' = started + 1
    /\ runs' = [runs EXCEPT ![started + 1] = <<>>]
    /\ UNCHANGED <<buf, disk, findings, base, shown, edits>>

(* The process reads the file, not the document.                           *)
ReadFile(r) ==
    /\ runs[r] = <<>>
    /\ runs' = [runs EXCEPT ![r] = disk]
    /\ UNCHANGED <<buf, disk, findings, base, shown, edits, started>>

(* As a bug would have it: the findings of a report are added to the rest. *)
ReportAdds(r) ==
    /\ runs[r] \notin {None, <<>>}
    /\ runs' = [runs EXCEPT ![r] = None]
    /\ \/ \E acc \in SUBSET Findable(runs[r]) :
            /\ findings' = findings \union {Finding(runs[r], f) : f \in acc}
            /\ base' = runs[r]
       \/ UNCHANGED <<findings, base>>
    /\ UNCHANGED <<buf, disk, shown, edits, started>>

(* Its report replaces all findings: those the gate accepted, or, if it    *)
(* does not parse, nothing changes.                                        *)
Report(r) ==
    /\ runs[r] \notin {None, <<>>}
    /\ runs' = [runs EXCEPT ![r] = None]
    /\ \/ \E acc \in SUBSET Findable(runs[r]) :
            /\ findings' = {Finding(runs[r], f) : f \in acc}
            /\ base' = runs[r]
       \/ UNCHANGED <<findings, base>>
    /\ UNCHANGED <<buf, disk, shown, edits, started>>

ShowProof(v) ==
    /\ shown # v
    /\ shown' = v
    /\ UNCHANGED <<buf, disk, runs, findings, base, edits, started>>

(* applyFinding, from a lens or from the panel, which keeps its verdict:   *)
(* the line numbers of the report are used on the document as it is.       *)
Apply(v) ==
    /\ buf' = ApplyHunks(buf, v.hunks)
    /\ Len(buf') <= MaxLines
    /\ findings' = findings \ {v}
    /\ UNCHANGED <<disk, runs, base, shown, edits, started>>

Type(i) ==
    /\ edits < MaxEdits /\ Len(buf) < MaxLines
    /\ buf' = SubSeq(buf, 1, i) \o <<0>> \o SubSeq(buf, i + 1, Len(buf))
    /\ edits' = edits + 1
    /\ UNCHANGED <<disk, runs, findings, base, shown, started>>

Save ==
    /\ disk # buf
    /\ disk' = buf
    /\ UNCHANGED <<buf, runs, findings, base, shown, edits, started>>

EditorInit ==
    /\ buf = Original /\ disk = Original
    /\ runs = [r \in 1 .. MaxRuns |-> None]
    /\ findings = {} /\ base = Original /\ shown = None
    /\ edits = 0 /\ started = 0

Verdicts == findings \union (IF shown = None THEN {} ELSE {shown})

EditorNext ==
    \/ RunOptimize
    \/ \E r \in DOMAIN runs : ReadFile(r) \/ Report(r)
    \/ \E v \in findings : ShowProof(v)
    \/ \E v \in Verdicts : Apply(v)
    \/ \E i \in 0 .. Len(buf) : Type(i)
    \/ Save

-----------------------------------------------------------------------------
(* The shape of the state: findings speak of the text they were found in.  *)
EditorTypeOK ==
    /\ buf \in Seq(Nat) /\ disk \in Seq(Nat) /\ Len(buf) <= MaxLines
    /\ \A v \in findings : v.func \in Findable(base) /\ v = Finding(base, v.func)

(* "Apply writes the verified change" (panel.ts:133), as long as the       *)
(* document still is what the run read, down to the finding's last line:   *)
(* then its lines, whatever lies below, become the text the gate verified, *)
(* for findings of several hunks that make the text longer or shorter too. *)
AppliesInPlace ==
    [][\A v \in findings :
         LET end == Max({h.end : h \in v.hunks}) IN
         Apply(v) /\ end <= Len(buf) /\ SubSeq(buf, 1, end) = SubSeq(base, 1, end)
         => buf' = Rewrite(base, v.func, 1, end) \o SubSeq(buf, end + 1, Len(buf))]_editorVars
=============================================================================
