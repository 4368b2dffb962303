--------------------------- MODULE MCDocumentSync ---------------------------
(* Instances of DocumentSync for TLC.                                      *)
EXTENDS DocumentSync, TLC

CONSTANTS a1, a2, h1, u1, scan, text

TwoIds    == 1 .. 2
ThreeIds  == 1 .. 3
FourIds   == 1 .. 4
=============================================================================
