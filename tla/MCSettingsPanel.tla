--------------------------- MODULE MCSettingsPanel ---------------------------
(* Small documents, and images of the shapes that matter, for TLC. *)
EXTENDS SettingsPanel, TLC

CONSTANT MaxPages

\* Different for every choice, and none the multiple of another.
SomeRates == [bwA4 |-> 7, colorA4 |-> 11, bwA3 |-> 13, colorA3 |-> 17,
              photo4x6 |-> 19, passport |-> 23]

\* 2:3, 3:4, 3:2, a square, and strips one pixel wide.
Shapes == {<<40, 60>>, <<41, 61>>, <<45, 60>>, <<60, 40>>, <<50, 50>>, <<1, 90>>, <<90, 1>>}

SomeUploads ==
  [kind : {"document"}, pages : 1..MaxPages, w : {0}, h : {0}] \cup
  {[kind |-> "photo", pages |-> 1, w |-> s[1], h |-> s[2]] : s \in Shapes}

SomeParts == (0..MaxPages + 1) \X (0..MaxPages + 1)
SomeMoves == {-7, -1, 3, 20}
==============================================================================
