------------------------------ MODULE MCDaemon ------------------------------
(* A small instance of Daemon for TLC.                                     *)
EXTENDS Daemon

CONSTANTS c1, c2

MCGain(c) == IF c = c1 THEN 2 ELSE 1
=============================================================================
