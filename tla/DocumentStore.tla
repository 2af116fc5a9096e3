--------------------------- MODULE DocumentStore ---------------------------
(***************************************************************************)
(* What a client that reports to resources of a server may rely on: what   *)
(* was accepted at an address is kept until something newer is accepted at *)
(* that very address, and whoever reads the resource is answered with what *)
(* is kept at the address that was accepted first, for good.               *)
(***************************************************************************)
CONSTANTS Resource, Address, Document, None, AddressOf

VARIABLES
  kept, \* by resource and address: the latest document, or None
  shown \* by resource: the address a reader is answered from, or None

vars == <<kept, shown>>

Init ==
  /\ kept = [r \in Resource |-> [a \in Address |-> None]]
  /\ shown = [r \in Resource |-> None]

Accept(r, a) ==
  /\ kept'[r][a] \in Document
  /\ AddressOf[kept'[r][a]] = a
  /\ kept' = [kept EXCEPT ![r][a] = kept'[r][a]]
  /\ shown' = IF shown[r] = None THEN [shown EXCEPT ![r] = a] ELSE shown

Next == \E r \in Resource, a \in Address : Accept(r, a)

Spec == Init /\ [][Next]_vars
=============================================================================
