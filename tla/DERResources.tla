---------------------------- MODULE DERResources ----------------------------
(***************************************************************************)
(* The resources below a DER, /edev_<i>_der_<j>_<subtype>, which devices   *)
(* PUT and GET (server/enddevicesfs.py).  Each is a child list of the DER  *)
(* in the adapter of the device, filled by add_replace_child and read at   *)
(* its first entry.  xml_to_dataclass makes an object of whatever class    *)
(* the document names, and the document may bring an href of its own.      *)
(* Without a subtype a PUT fills a child list of the DER as well, but the  *)
(* GET answers with the DER.                                               *)
(*                                                                         *)
(* The server handles one request at a time, and nothing else touches      *)
(* these lists: a PUT is one step.  A handler that raises has changed      *)
(* nothing, and is answered with 500.                                      *)
(***************************************************************************)
EXTENDS Adapters

CONSTANTS
  DERs,     \* the DERs of all devices
  SubType,  \* the values of DERSubType
  NoneAvailable, \* the one of a path that ends with the DER
  Type,     \* classes of the data model
  Subclass, \* pairs of a class and one it inherits from, or itself
  Addressed,\* the classes that declare an href
  Href,     \* hrefs documents bring along, and other paths that lead to the DER:
            \* put does not look at the edev_subtype
  Path,     \* stands for the path of the resource, an href as well
  NoHref,   \* a document without an href
  Body,     \* contents
  Offered,  \* by subtype: the documents that are PUT there
  Nobody    \* no request yet

VARIABLES
  slots, \* by DER and subtype: the child list
  answer \* the last request: where it was PUT, the status, the object

vars == <<slots, answer>>

Inherits == Subclass \cap (Type \X Type)
Resource == Addressed \cap Type \* what can be stored

Slot == DERs \X SubType
Readable == {s \in Slot : s[2] # NoneAvailable}
Document == [class : Type, href : Href \cup {Path, NoHref}, body : Body]
Object == [class : Resource, href : Href \cup {Path}, body : Body]

ASSUME InheritanceAssumption ==
  /\ \A c \in Type : <<c, c>> \in Inherits
  /\ \A a, b \in Inherits : a[2] = b[1] => <<a[1], b[2]>> \in Inherits
ASSUME HrefAssumption == NoHref \notin Href \cup {Path}
ASSUME OfferedAssumption == Offered \in [SubType -> SUBSET Document]
ASSUME NobodyAssumption == Nobody \notin Slot

Init ==
  /\ slots = [s \in Slot |-> <<>>]
  /\ answer = [slot |-> Nobody]
-----------------------------------------------------------------------------
(* EDevRequests.put. *)

hrefOf == [o \in Object |-> o.href]

\* mysubobj.href = request.path, when the document has none.
Placed(d) == [class |-> d.class, body |-> d.body,
              href |-> IF d.href = NoHref THEN Path ELSE d.href]

FitsLoosely(s, c) == \* a fault: isinstance the other way round
  slots[s] # <<>> => <<slots[s][1].class, c>> \in Inherits

\* isinstance(child, type(children[0])): only the first entry is looked at.
Fits(s, c) == slots[s] # <<>> => <<c, slots[s][1].class>> \in Inherits

StoredOnce(s, o) == \* a fault: a list that has the href is left alone
  IF Positions(slots[s], hrefOf, o.href) # {} THEN slots ELSE [slots EXCEPT ![s] = Append(@, o)]

\* add_replace_child; the child has its href by now.
Stored(s, o) == [slots EXCEPT ![s] = AddReplaceChild(@, o, hrefOf)]

\* The status is chosen before the object is stored, by whether there is one.
Accept(s, d) ==
  /\ d.class \in Resource /\ Fits(s, d.class)
  /\ slots' = Stored(s, Placed(d))
  /\ answer' = [slot |-> s, object |-> Placed(d),
                status |-> IF slots[s] = <<>> THEN 201 ELSE 204]

\* AttributeError in front of add_replace_child, or ValueError inside.
Refuse(s, d) ==
  /\ ~(d.class \in Resource /\ Fits(s, d.class))
  /\ answer' = [slot |-> s, status |-> 500]
  /\ UNCHANGED slots

Put(s, d) == Accept(s, d) \/ Refuse(s, d)

Next == \E s \in Slot : \E d \in Offered[s[2]] : Put(s, d)

Spec == Init /\ [][Next]_vars

GetLast(s) == IF s \in Readable /\ slots[s] = <<>> THEN [status |-> 500] \* a fault
              ELSE [status |-> 200, object |-> IF s \in Readable THEN slots[s][Len(slots[s])] ELSE s[1]]

\* EDevRequests.get: the DER itself, or fetch_child at index 0, which raises
\* when there is no child.
Get(s) == IF s \notin Readable THEN [status |-> 200, object |-> s[1]]
          ELSE IF slots[s] = <<>> THEN [status |-> 500]
          ELSE [status |-> 200, object |-> slots[s][1]]
-----------------------------------------------------------------------------
(* Properties. *)

Answer ==
  [slot : {Nobody}] \cup [slot : Slot, status : {500}]
    \cup [slot : Slot, status : {201, 204}, object : Object]

TypeOK ==
  /\ slots \in [Slot -> Seq(Object)]
  /\ answer \in Answer

\* A list holds one object for each href, however often and in whatever order
\* documents with and without hrefs come (adapters/__init__.py 139-145).
HrefsDistinct == \A s \in Slot : \A i, j \in DOMAIN slots[s] :
  slots[s][i].href = slots[s][j].href => i = j

\* What a client has just been told was stored below a DER is what it reads,
\* provided the resource answers with that address at all; and what it was told
\* was created it reads in any case.  What is PUT to the DER itself nobody reads.
ReadsWhatItWrote == LET a == answer IN
  a.slot \in Readable /\ a.status # 500 =>
    LET got == Get(a.slot) IN
    /\ got.status = 200
    /\ got.object.href = a.object.href => got.object = a.object
    /\ a.status = 201 => got.object = a.object
    /\ \E i \in DOMAIN slots[a.slot] : slots[a.slot][i] = a.object

\* What a resource below a DER answers with may only become more special: once a document
\* of some class is accepted, readers never get one that is not of this class,
\* and the resource is never empty again (adapters/__init__.py 128-130).
ServedNarrows == [][\A s \in Readable : slots[s] # <<>> =>
  /\ slots'[s] # <<>>
  /\ <<slots'[s][1].class, slots[s][1].class>> \in Inherits]_slots

\* The lists below a DER keep, for each address, what was accepted there last,
\* and readers are answered from the address accepted first.
At(s, h) == {i \in DOMAIN slots[s] : slots[s][i].href = h}
Store == INSTANCE DocumentStore WITH
  Resource <- Readable, Address <- Href \cup {Path}, Document <- Object, None <- NoHref,
  AddressOf <- hrefOf,
  kept <- [s \in Readable |-> [h \in Href \cup {Path} |->
             IF At(s, h) = {} THEN NoHref ELSE slots[s][First(At(s, h))]]],
  shown <- [s \in Readable |-> IF Get(s).status = 500 THEN NoHref ELSE Get(s).object.href]
StoreSpec == Store!Spec
=============================================================================
