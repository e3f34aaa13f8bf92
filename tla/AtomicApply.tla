---------------------------- MODULE AtomicApply ----------------------------
(***************************************************************************)
(* What a whole-codebase --apply promises to a user who looks at the tree  *)
(* when it is over: either every verified change that was staged is in, or *)
(* the tree is what it was ("all-or-nothing", apply_txn.py:11-13).  The    *)
(* one exception the code makes is a file whose restore failed and was     *)
(* swallowed: it is named in `damaged`.                                    *)
(***************************************************************************)
CONSTANTS File,      \* the translation units of the run
          Content,   \* what a file can hold
          Nothing,   \* no staged change
          Original   \* the tree the run found

VARIABLES tree, staged, outcome, damaged

atomicVars == <<tree, staged, outcome, damaged>>

AtomicInit ==
    /\ tree = Original
    /\ staged = [f \in File |-> Nothing]
    /\ outcome = "open"
    /\ damaged = {}

(* A verified change of f is prepared; the tree does not move.             *)
Stage(f) ==
    /\ outcome = "open"
    /\ \E c \in Content : staged' = [staged EXCEPT ![f] = c]
    /\ UNCHANGED <<tree, outcome, damaged>>

CommitAll ==
    /\ outcome = "open"
    /\ tree' = [f \in File |-> IF staged[f] = Nothing THEN tree[f] ELSE staged[f]]
    /\ staged' = [f \in File |-> Nothing]
    /\ outcome' = "committed"
    /\ UNCHANGED damaged

AbortAll ==
    /\ outcome = "open"
    /\ staged' = [f \in File |-> Nothing]
    /\ outcome' = "aborted"
    /\ UNCHANGED <<tree, damaged>>

(* Restoring f failed: f alone escapes the promise, and never recovers.    *)
Damage(f) ==
    /\ outcome = "aborted"
    /\ f \notin damaged
    /\ damaged' = damaged \cup {f}
    /\ \E c \in Content : tree' = [tree EXCEPT ![f] = c]
    /\ UNCHANGED <<staged, outcome>>

AtomicNext == CommitAll \/ AbortAll \/ \E f \in File : Stage(f) \/ Damage(f)

AtomicSpec == AtomicInit /\ [][AtomicNext]_atomicVars
=============================================================================
