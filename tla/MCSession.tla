------------------------------ MODULE MCSession -----------------------------
(* Small instances of Session for TLC.                                     *)
EXTENDS Session, TLC

CONSTANTS p1, p2, c1, c2

\* Two calls of one page, and one of another.
TwoAndOne == {<<p1, c1>>, <<p1, c2>>, <<p2, c1>>}
=============================================================================
