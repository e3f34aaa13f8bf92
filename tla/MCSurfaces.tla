----------------------------- MODULE MCSurfaces -----------------------------
(* A small instance of Surfaces for TLC: six lines, one function with two  *)
(* changes of different length and one with a change between them.         *)
EXTENDS Surfaces, TLC

MCOriginal == <<1, 2, 3, 4, 5, 6>>
MCSites == ("f" :> {1, 5}) @@ ("g" :> {3})
MCNew == (1 :> <<11, 12>>) @@ (5 :> <<15>>) @@ (3 :> <<>>)
=============================================================================
