------------------------------- MODULE Patch -------------------------------
(***************************************************************************)
(* A finding's unified diff as the surfaces use it: hunks of an old-side   *)
(* line range and its replacement, context lines included                  *)
(* (editors/vscode/src/core.ts, parseHunks and applyUdiff;                 *)
(* examples/github-action/comment.py, _parse_hunks).  A text is a sequence *)
(* of lines, a line a number; 0 is a line the user typed.                  *)
(***************************************************************************)
EXTENDS Naturals, Sequences, FiniteSetsExt, Functions

CONSTANTS
    Func,        \* functions of the file
    Sites,       \* the lines each function's rewrite replaces
    New,         \* what replaces each of them: a sequence of lines
    Context,     \* context lines around a change
    None         \* no run, no verdict

Line == UNION {Sites[f] : f \in Func}

ASSUME PatchAssumption ==
    /\ Context \in Nat
    /\ Sites \in [Func -> SUBSET (Nat \ {0})] /\ \A f \in Func : Sites[f] # {}
    /\ \A f, g \in Func : f # g => Sites[f] \intersect Sites[g] = {}
    /\ DOMAIN New = Line /\ \A l \in Line : New[l] \in Seq(Nat \ Line)

-----------------------------------------------------------------------------
(* Lines lo to hi of the text the gate verified: every line of f's sites   *)
(* is replaced.                                                            *)
Rewrite(t, f, lo, hi) ==
    LET upto[n \in 0 .. Len(t)] ==
          IF n < lo THEN <<>>
          ELSE upto[n - 1] \o (IF t[n] \in Sites[f] THEN New[t[n]] ELSE <<t[n]>>)
    IN upto[hi]

(* The functions a run over t can find: their lines are still there.       *)
Findable(t) == {f \in Func : Sites[f] \subseteq Range(t)}

(* Its unified diff: the changed lines and Context lines around them; what *)
(* is connected is one hunk.                                               *)
Covered(t, f) ==
    {i \in DOMAIN t : \E p \in DOMAIN t :
        t[p] \in Sites[f] /\ i <= p + Context /\ p <= i + Context}
Spans(t, f) ==
    {r \in Covered(t, f) \X Covered(t, f) :
        /\ r[1] .. r[2] \subseteq Covered(t, f) /\ r[1] <= r[2]
        /\ r[1] - 1 \notin Covered(t, f) /\ r[2] + 1 \notin Covered(t, f)}
Hunks(t, f) ==
    {[start |-> r[1], end |-> r[2], new |-> Rewrite(t, f, r[1], r[2])] : r \in Spans(t, f)}

-----------------------------------------------------------------------------
(* The span of a hunk, as far as the text goes, is replaced.               *)
Splice(t, h) ==
    SubSeq(t, 1, IF h.start - 1 < Len(t) THEN h.start - 1 ELSE Len(t))
        \o h.new \o SubSeq(t, h.end + 1, Len(t))

(* The hunk that starts at line i, if there is one.                        *)
SpliceAt(t, hs, i) ==
    IF \E h \in hs : h.start = i THEN Splice(t, CHOOSE h \in hs : h.start = i) ELSE t

LastStart(hs) == Max({h.start : h \in hs})

(* As a bug would have it: from the first hunk to the last.                *)
ApplyTopDown(t, hs) ==
    LET done[n \in 0 .. LastStart(hs)] ==
          IF n = 0 THEN t ELSE SpliceAt(done[n - 1], hs, n)
    IN done[LastStart(hs)]

(* Bottom-up, so that earlier line numbers stay valid.                     *)
ApplyHunks(t, hs) ==
    LET done[n \in 0 .. LastStart(hs)] ==
          IF n = 0 THEN t ELSE SpliceAt(done[n - 1], hs, LastStart(hs) + 1 - n)
    IN done[LastStart(hs)]
=============================================================================
