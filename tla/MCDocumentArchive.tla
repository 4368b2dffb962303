------------------------- MODULE MCDocumentArchive -------------------------
(* Instances of DocumentArchive for TLC.                                   *)
EXTENDS DocumentArchive, TLC

CONSTANTS h1, h2, u1, u2, scan, text

TwoIds    == 1 .. 2
ThreeIds  == 1 .. 3
FourIds   == 1 .. 4
AllRoutes == Ops
Permuted  == Permutations(Handlers)
=============================================================================
