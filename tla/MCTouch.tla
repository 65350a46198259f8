------------------------------ MODULE MCTouch ------------------------------
(***************************************************************************)
(* Instances of TouchWidget for TLC: the layouts of the buttons on a grid  *)
(* of two columns and two rows.                                            *)
(***************************************************************************)
EXTENDS TouchWidget, TLC

CONSTANTS c1, c2, r1, r2

Whole == Cell
Lower == {<<c1, r2>>, <<c2, r2>>}
Corner == Cell \ {<<c2, r1>>}
FirstOnly == {<<c1, r2>>}
Nothing == {}

Symmetry == Permutations(Column) \cup Permutations(Row)
===========================================================================
