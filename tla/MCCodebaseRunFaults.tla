------------------------- MODULE MCCodebaseRunFaults -------------------------
(* Small instances of CodebaseRunFaults for TLC.                           *)
EXTENDS CodebaseRunFaults
CONSTANTS src, v1

(* Every unit starts with the same text; only (in)equality matters.        *)
MCOriginal == [t \in File |-> src]
=============================================================================
