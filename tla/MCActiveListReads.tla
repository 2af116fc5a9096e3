------------------------- MODULE MCActiveListReads -------------------------
(* Small instances of ActiveListReads. *)
EXTENDS ActiveListReads, TLC

CONSTANTS c1, o1, o2, o3, a, b, c

Objects == {c1, o1, o2, o3}
OneProgram == [p \in Program |-> <<c1>>]
PostedObjects == Permutations({o1, o2, o3})
ControlHref == [o \in Obj |-> <<0, IF o = c1 THEN 0 ELSE 1>>]
W(s, d) == [start |-> s, duration |-> d]
\* One that ends before the others, two that overlap it and each other, and one
\* that ends the clock thread.
Overlapping == {W(0, 2), W(0, 4), W(1, 3), W(NoTime, 2)}
=============================================================================
