------------------------ MODULE MCMirrorUsagePoints ------------------------
(* Small instances of MirrorUsagePoints. *)
EXTENDS MirrorUsagePoints, TLC

CONSTANTS d1, d2, m1, m2, r1, r2, v1, v2

OwnMeter == [d \in Device |-> IF d = d1 THEN m1 ELSE m2]
R(m, t) == [mRID |-> m, kind |-> "meter", typed |-> t, value |-> v1]
\* Nothing, one reading with its type, one without, and two of which the first
\* or the second is refused.
Bundles == {<<>>, <<R(r1, TRUE)>>, <<R(r1, FALSE)>>,
            <<R(r1, FALSE), R(r2, TRUE)>>, <<R(r2, TRUE), R(r1, TRUE)>>}
OneReading == {<<>>, <<R(r1, TRUE)>>}
=============================================================================
