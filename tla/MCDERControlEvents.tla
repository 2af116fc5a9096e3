------------------------- MODULE MCDERControlEvents -------------------------
(* Small instances of DERControlEvents. *)
EXTENDS DERControlEvents, TLC

CONSTANTS c1, o1, o2, o3, a, b

Objects == {c1, o1, o2, o3}
Objects3 == {c1, o1, o2}
OneEmptyProgram == [p \in Program |-> IF p = 1 THEN <<c1>> ELSE <<>>]
\* Objects the administrator posts are interchangeable.
PostedObjects == Permutations({o1, o2, o3})
ControlHref == [o \in Obj |-> <<0, IF o = c1 THEN 0 ELSE 1>>]
W(s, d) == [start |-> s, duration |-> d]
Intervals == {W(1, 2), W(1, 3), W(1, 1), W(NoTime, 2), W(1, NoTime)}
FewIntervals == {W(0, 2), W(2, 2), W(0, NoTime)}
=============================================================================
