---------------------------- MODULE MCTimeWheel ----------------------------
(* A wheel of two slots, delays of up to more than a rotation.             *)
EXTENDS TimeWheel

CONSTANTS e1, e2, e3, k1, g1, g2

MCElem2 == {e1, e2}
MCElem3 == {e1, e2, e3}
MCKey == {EmptyKey, k1}
MCScanner1 == {g1}
MCScanner2 == {g1, g2}
=============================================================================
