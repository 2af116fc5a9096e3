--------------------------- MODULE MCResourceTree ---------------------------
(* Small configuration files and documents for ResourceTree. *)
EXTENDS ResourceTree, TLC

CONSTANTS x, y, z, d1, d2, d3

UpTo(S, m, n) == UNION {[1 .. k -> S] : k \in m .. n}

\* Controls share a description or not; mentions of known, unknown and repeated
\* controls; an unknown default.
Controls == {<<x>>, <<x, y>>, <<x, x>>}
Sections == [name : {x, y}, default : {x, z},
             controls : {<<>>, <<y, x>>, <<x, x>>, <<z>>}]
\* Devices with an id of their own or a repeated one; DERs with a program that
\* is there in time, with one that is not, and without one.
Owner(ids, ders) == [id : ids, programs : {<<>>, <<x>>, <<y, x>>}, ders : ders]
Alone(ders) == [1 .. 1 -> Owner({d1}, ders)]
S(n, cs) == [name |-> n, default |-> x, controls |-> cs]
Programs == UpTo({S(x, <<x>>), S(y, <<>>)}, 0, 2)
Both == {<<S(x, <<x>>), S(y, <<>>)>>}

Files ==
  [controls : Controls, programs : UpTo(Sections, 0, 2), devices : Alone({<<>>})] \cup
  [controls : {<<x>>}, programs : Programs, devices : UpTo(Owner({d1, d2, d3}, {<<>>}), 1, 3)] \cup
  [controls : {<<x>>}, programs : Both, devices : Alone({<<x, y>>})] \cup
  [controls : {<<x>>}, programs : Both,
   devices : {<<a, b>> : a \in Owner({d1}, {<<>>, <<y>>}), b \in Owner({d2}, {<<NoName>>})}]

\* What belongs there, once with an href of its own, and something else that
\* can be stored.
Elsewhere == {<<"elsewhere">>}
Doc(c, h) == [class |-> c, href |-> h, body |-> "body"]
Documents ==
  [dercap |-> {Doc("DERCapability", h) : h \in Elsewhere},
   ders |-> {Doc(c, NoHref) : c \in {"DERStatus", "DERControl"}},
   dera |-> {}, derg |-> {}]
=============================================================================
