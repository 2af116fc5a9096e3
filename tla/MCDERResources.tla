--------------------------- MODULE MCDERResources ---------------------------
(* Small instances of DERResources over the whole data model. *)
EXTENDS DERResources, TLC

CONSTANTS d1, h1, v1, v2

DM == INSTANCE DataModel

Types == DM!ClassName
Lineage == UNION {{<<c, k>> : k \in DM!Kinds[c]} : c \in Types}
WithHref == {c \in Types : DM!HasHref(c)}
SubTypes == {"ders", "none"}

Doc(c, h, b) == [class |-> c, href |-> h, body |-> b]
\* Any document of the model, and one that belongs there, its kin, a stranger
\* and one that has no href, with hrefs of their own.
Kin == {"DERStatus", "SubscribableResource", "Resource", "DERControl", "ActivePower"}
Documents == [s \in SubTypes |->
  CASE s = "ders" -> {Doc(c, NoHref, v1) : c \in Types} \cup {Doc(c, h1, v1) : c \in Kin}
                         \cup {Doc("DERStatus", NoHref, v2)}
    [] s = "none" -> {Doc("DER", Path, v1)}]
=============================================================================
