----------------------------- MODULE MCExchange -----------------------------
(* A client with the server, and two behind the proxy. *)
EXTENDS Exchange, TLC

CONSTANTS c1, c2, c3
Clients == {c1, c2, c3}
BehindProxy == {c2, c3}
Bounds == c1 :> 2 @@ c2 :> 3 @@ c3 :> 1
Uses == c1 :> {"POST"} @@ c2 :> Method @@ c3 :> {"GET"}
=============================================================================
