-------------------------- MODULE MCTLSRepository --------------------------
(* Small instances of TLSRepository. *)
EXTENDS TLSRepository

CONSTANTS d1, d2

\* An id may be repeated.  The server and its proxy differ in the port only.
Subjects == [n \in Name |-> IF n \in {"server", "proxy"} THEN "host" ELSE n]
Cfg(ds, p, a, f) == [devices |-> ds, proxy |-> p, admin |-> a, fromFile |-> f]
Files == {Cfg(<<d1>>, FALSE, TRUE, FALSE), Cfg(<<d1, d2>>, FALSE, FALSE, TRUE),
          Cfg(<<d1>>, TRUE, FALSE, FALSE), Cfg(<<d1, d1>>, FALSE, FALSE, FALSE)}
=============================================================================
