------------------------------ MODULE Adapters ------------------------------
(***************************************************************************)
(* The list operations of adapters/__init__.py, class Adapter, on which    *)
(* every resource of the server is kept.  A child list is a sequence of    *)
(* object identities; what two objects share (href, mRID) is looked up in  *)
(* functions on objects, because the same Python object may sit in several *)
(* lists at once and is mutated in place.                                  *)
(***************************************************************************)
EXTENDS Naturals, Sequences

\* The positions of list whose object has value v under f: the loops of
\* add_replace_child (c.href == child.href) and fetch_child_index_by_mrid.
Positions(list, f, v) == {i \in DOMAIN list : f[list[i]] = v}

\* A loop over a list that stops at the first match.
First(S) == CHOOSE i \in S : \A j \in S : i <= j

Members(list) == {list[i] : i \in DOMAIN list}

InsertChild(list, child, href) == <<child>> \o list \* a fault: insert(0)

\* add_replace_child, once child.href is set: the first entry with the same
\* href is replaced, otherwise the child is appended.
AddReplaceChild(list, child, href) ==
  LET same == Positions(list, href, href[child])
  IN  IF same = {} THEN Append(list, child)
                   ELSE [list EXCEPT ![First(same)] = child]

\* replace_child: the entry at the index the caller found gives way.
ReplaceChild(list, index, child) == [list EXCEPT ![index] = child]

\* Faults, for the mutants: pop(0) instead of remove, and remove forgotten.
PopChild(list, child) == Tail(list)
KeepChild(list, child) == list

\* remove_child, when the child is in the list (list.remove: first occurrence).
RemoveChild(list, child) ==
  LET at == First({i \in DOMAIN list : list[i] = child})
  IN  SubSeq(list, 1, at - 1) \o SubSeq(list, at + 1, Len(list))
=============================================================================
