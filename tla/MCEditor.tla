------------------------------ MODULE MCEditor ------------------------------
EXTENDS Editor
CONSTANTS a, b

\* One whose program refers to a control that is not there.
Loadables == {[controls |-> <<[changed |-> FALSE]>>,
               devices |-> <<[changed |-> FALSE, id |-> a, settings |-> FALSE]>>,
               programs |-> <<[changed |-> FALSE, default |-> 1, controls |-> <<>>]>>]}
Bounds == [controls |-> 2, devices |-> 1, programs |-> 1]
=============================================================================
