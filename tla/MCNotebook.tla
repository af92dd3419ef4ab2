----------------------------- MODULE MCNotebook -----------------------------
(* Instances of Notebook for TLC. *)
EXTENDS Notebook, TLC

CONSTANTS c1, c2, c3, h1, h2

ThreeCells == {c1, c2, c3}
OneHandler == {h1}
TwoHandlers == {h1, h2}
FirstPlace == {1}
NoPlace == {}

Interchangeable == Permutations(ThreeCells) \cup Permutations(TwoHandlers)
=============================================================================
