----------------------------- MODULE MCStartup -----------------------------
(* Small configuration files for Startup. *)
EXTENDS Startup

CONSTANTS x, y, z, d1, d2

UpTo(S, m, n) == UNION {[1 .. k -> S] : k \in m .. n}

\* Controls share a description or not; mentions of known, unknown and repeated
\* controls; an unknown default.
Controls == {<<x>>, <<x, y>>, <<x, x>>}
Sections == [name : {x, y}, default : {x, z},
             controls : {<<>>, <<y, x>>, <<x, x>>, <<z>>}]
\* Devices with an id of their own or a repeated one.
Owners == [id : {d1, d2}, programs : {<<>>, <<x>>, <<y, x>>}, ders : {<<>>, <<y, NoName>>}]
S(n) == [name |-> n, default |-> x, controls |-> <<>>]

Files ==
  [controls : Controls, programs : UpTo(Sections, 0, 2), devices : UpTo(Owners, 1, 1)] \cup
  [controls : {<<x>>}, programs : UpTo({S(x), S(y)}, 0, 2), devices : UpTo(Owners, 1, 3)]
=============================================================================
