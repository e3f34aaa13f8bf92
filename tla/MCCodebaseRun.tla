---------------------------- MODULE MCCodebaseRun ----------------------------
(* Small instances of CodebaseRun for TLC.                                 *)
EXTENDS CodebaseRun
CONSTANTS src, v1

(* Every unit starts with the same text; only (in)equality matters.        *)
MCOriginal == [t \in File |-> src]
=============================================================================
