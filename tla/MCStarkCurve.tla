---------------------------- MODULE MCStarkCurve ----------------------------
(* StarkCurve over a field of 43 elements: y^2 = x^3 + x + 5 has 37 points, *)
(* and Max is 32.                                                           *)
EXTENDS StarkCurve

MCEcGen == <<2, 12>>
MCShift == <<22, 21>>

\* Both ends of the range, and some between.
MCMessages == {0, 1, 2, 5, 18, 30, 31, 32}

\* Two points of the curve, and one that is not on it.
MCPubKeys == {<<3, 11>>, <<15, 27>>, <<3, 12>>}
=============================================================================
