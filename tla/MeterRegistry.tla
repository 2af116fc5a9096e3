--------------------------- MODULE MeterRegistry ---------------------------
(***************************************************************************)
(* What a device may rely on when it mirrors a meter: once registered, its *)
(* meter has a number nobody else gets and that never changes, and what is *)
(* kept of a reading only ever gives way to a newer value.  A restart of   *)
(* the server, and nothing else, forgets it all.                           *)
(***************************************************************************)
EXTENDS Naturals

CONSTANTS MRID, ReadingMRID, Value, None, NoValue

VARIABLES number, kept

vars == <<number, kept>>

Empty == [r \in ReadingMRID |-> NoValue]

Init == number = [m \in MRID |-> None] /\ kept = [m \in MRID |-> Empty]

Register(m) ==
  /\ number[m] = None
  /\ number'[m] \in Nat
  /\ \A x \in MRID \ {m} : number[x] # number'[m]
  /\ number' = [number EXCEPT ![m] = number'[m]]
  /\ UNCHANGED kept

Keep(m, r) ==
  /\ number[m] # None
  /\ kept'[m][r] \in Value
  /\ kept' = [kept EXCEPT ![m][r] = kept'[m][r]]
  /\ UNCHANGED number

Forget ==
  /\ number' = [m \in MRID |-> None]
  /\ kept' = [m \in MRID |-> Empty]

Next ==
  \/ \E m \in MRID : Register(m)
  \/ \E m \in MRID, r \in ReadingMRID : Keep(m, r)
  \/ Forget

Spec == Init /\ [][Next]_vars
=============================================================================
