------------------------- MODULE DERResourcesProofs -------------------------
(***************************************************************************)
(* Theorems about DERResources, for any data model, documents, hrefs and   *)
(* sequence of requests.                                                   *)
(***************************************************************************)
EXTENDS DERResources, AdapterLemmas

\* What the loop of add_replace_child finds by href is what Distinct speaks of.
LEMMA HrefOfObject ==
  ASSUME NEW list \in Seq(Object)
  PROVE  /\ \A i \in 1 .. Len(list) : list[i] \in Object /\ hrefOf[list[i]] = list[i].href
         /\ DOMAIN list = 1 .. Len(list)
BY LenProperties DEF hrefOf

\* The object that is stored has an href, the document's or the path.
LEMMA PlacedObject ==
  ASSUME NEW d \in Document, d.class \in Resource
  PROVE  /\ Placed(d) \in Object
         /\ Placed(d).class = d.class
BY DEF Placed, Object, Document

\* A document that is offered is one the parser may come up with.
LEMMA OfferedDocument ==
  ASSUME NEW s \in Slot, NEW d \in Offered[s[2]]
  PROVE  d \in Document
<1>1. s[2] \in SubType
  BY DEF Slot
<1> QED BY <1>1, OfferedAssumption

\* An accepted document leaves every other resource as it was.
LEMMA AcceptedList ==
  ASSUME TypeOK, NEW s \in Slot, NEW d \in Document, Accept(s, d)
  PROVE  /\ Placed(d) \in Object
         /\ slots'[s] = AddReplaceChild(slots[s], Placed(d), hrefOf)
         /\ \A t \in Slot : t # s => slots'[t] = slots[t]
         /\ slots' = [slots EXCEPT ![s] = AddReplaceChild(slots[s], Placed(d), hrefOf)]
BY PlacedObject DEF TypeOK, Accept, Stored

\* Whatever documents come, the lists hold objects that have hrefs, and the
\* client is told what happened (server/enddevicesfs.py 28-49).
THEOREM ResourcesTypeCorrect == Spec => []TypeOK
<1>1. Init => TypeOK
  <2> SUFFICES ASSUME Init PROVE TypeOK
    OBVIOUS
  <2>1. <<>> \in Seq(Object)
    BY EmptySeq
  <2>2. slots \in [Slot -> Seq(Object)]
    BY <2>1 DEF Init
  <2>3. answer \in Answer
    BY DEF Init, Answer
  <2> QED BY <2>2, <2>3 DEF TypeOK
<1>2. TypeOK /\ [Next]_vars => TypeOK'
  <2> SUFFICES ASSUME TypeOK, [Next]_vars PROVE TypeOK'
    OBVIOUS
  <2>1. CASE UNCHANGED vars
    BY <2>1 DEF vars, TypeOK
  <2>2. ASSUME NEW s \in Slot, NEW d \in Offered[s[2]], Accept(s, d)
        PROVE  TypeOK'
    <3>1. d \in Document
      BY OfferedDocument
    <3>2. Placed(d) \in Object
      BY <3>1, <2>2, AcceptedList
    <3>3. AddReplaceChild(slots[s], Placed(d), hrefOf) \in Seq(Object)
      BY <3>2, AddReplaceChildSeq DEF TypeOK
    <3>4. slots' = [slots EXCEPT ![s] = AddReplaceChild(slots[s], Placed(d), hrefOf)]
      BY <3>1, <2>2, AcceptedList
    <3>6. slots' \in [Slot -> Seq(Object)]
      BY <3>3, <3>4 DEF TypeOK
    <3>5. answer' \in Answer
      BY <3>2, <2>2 DEF Accept, Answer
    <3> QED BY <3>5, <3>6 DEF TypeOK
  <2>3. ASSUME NEW s \in Slot, NEW d \in Offered[s[2]], Refuse(s, d)
        PROVE  TypeOK'
    BY <2>3 DEF Refuse, TypeOK, Answer
  <2> QED BY <2>1, <2>2, <2>3 DEF Next, Put
<1> QED BY <1>1, <1>2, PTL DEF Spec

\* Each list keeps one object for each href, in whatever order documents with
\* and without hrefs come (adapters/__init__.py 139-145).
THEOREM OneObjectPerHref == Spec => []HrefsDistinct
<1> DEFINE Apart == \A s \in Slot : Distinct(slots[s], hrefOf)
<1>1. TypeOK => (HrefsDistinct <=> Apart)
  <2> SUFFICES ASSUME TypeOK PROVE HrefsDistinct <=> Apart
    OBVIOUS
  <2>1. \A s \in Slot : \A i \in DOMAIN slots[s] : hrefOf[slots[s][i]] = slots[s][i].href
    BY HrefOfObject DEF TypeOK
  <2> QED BY <2>1 DEF HrefsDistinct, Distinct
<1>2. Init => Apart
  BY DEF Init, Distinct
<1>3. TypeOK /\ Apart /\ [Next]_vars => Apart'
  <2> SUFFICES ASSUME TypeOK, Apart, [Next]_vars PROVE Apart'
    OBVIOUS
  <2>1. CASE UNCHANGED vars
    BY <2>1 DEF vars
  <2>2. ASSUME NEW s \in Slot, NEW d \in Offered[s[2]], Accept(s, d)
        PROVE  Apart'
    <3>1. d \in Document
      BY OfferedDocument
    <3>2. Distinct(slots'[s], hrefOf)
      BY <3>1, <2>2, AcceptedList, AddReplaceChildDistinct DEF TypeOK
    <3>3. \A t \in Slot : t # s => slots'[t] = slots[t]
      BY <3>1, <2>2, AcceptedList
    <3> QED BY <3>2, <3>3
  <2>3. ASSUME NEW s \in Slot, NEW d \in Offered[s[2]], Refuse(s, d)
        PROVE  Apart'
    BY <2>3 DEF Refuse
  <2> QED BY <2>1, <2>2, <2>3 DEF Next, Put
<1> HIDE DEF Apart
<1>4. Spec => []Apart
  BY <1>2, <1>3, ResourcesTypeCorrect, PTL DEF Spec
<1> QED BY <1>1, <1>4, ResourcesTypeCorrect, PTL

\* What add_replace_child makes of a list: the child takes the place k of the
\* entry with its href, or a new one at the end, and the others stay.
Entered(list, new, child, f, k) ==
  /\ Len(list) \in Nat /\ (list = <<>> <=> Len(list) = 0)
  /\ Len(new) = Len(list) \/ (Len(new) = Len(list) + 1 /\ k = Len(new))
  /\ k \in 1 .. Len(new) /\ new[k] = child
  /\ \A i \in 1 .. Len(list) : i # k => new[i] = list[i]
  /\ k <= Len(list) => f[list[k]] = f[child]

LEMMA StoredEntry ==
  ASSUME NEW T, NEW list \in Seq(T), NEW child \in T, NEW f
  PROVE  \E k \in Nat : Entered(list, AddReplaceChild(list, child, f), child, f, k)
<1> DEFINE same == Positions(list, f, f[child])
           new == AddReplaceChild(list, child, f)
<1>0. Len(list) \in Nat /\ (list = <<>> <=> Len(list) = 0)
  BY LenProperties, EmptySeq
<1>1. CASE same = {}
  <2>1. new = Append(list, child)
    BY <1>1 DEF AddReplaceChild
  <2>2. /\ new \in Seq(T) /\ Len(new) = Len(list) + 1
        /\ \A i \in 1 .. Len(list) : new[i] = list[i]
        /\ new[Len(list) + 1] = child
    BY <2>1, AppendProperties
  <2> HIDE DEF new
  <2>3. Entered(list, new, child, f, Len(list) + 1)
    BY <1>0, <2>2 DEF Entered
  <2> QED BY <1>0, <2>3 DEF new
<1>2. CASE same # {}
  <2> DEFINE k == First(same)
  <2>1. k \in 1 .. Len(list) /\ f[list[k]] = f[child]
    BY <1>2, PositionsInSeq
  <2>2. new = [list EXCEPT ![k] = child]
    BY <1>2 DEF AddReplaceChild
  <2> HIDE DEF k
  <2>3. /\ Len(new) = Len(list)
        /\ \A i \in 1 .. Len(list) : new[i] = IF i = k THEN child ELSE list[i]
    BY <2>1, <2>2, ExceptSeq
  <2> HIDE DEF new
  <2>4. Entered(list, new, child, f, k)
    BY <1>0, <2>1, <2>3 DEF Entered
  <2> QED BY <1>0, <2>1, <2>4 DEF new
<1> QED BY <1>1, <1>2

\* A resource below a DER answers as long as its list has an entry, with the
\* first one.
LEMMA GetFirst ==
  ASSUME TypeOK, NEW s \in Readable
  PROVE  /\ Len(slots[s]) \in Nat
         /\ slots[s] = <<>> <=> Len(slots[s]) = 0
         /\ slots[s] = <<>> => Get(s).status = 500
         /\ slots[s] # <<>> =>
              /\ 1 \in DOMAIN slots[s] /\ slots[s][1] \in Object
              /\ Get(s) = [status |-> 200, object |-> slots[s][1]]
<1>1. slots[s] \in Seq(Object)
  BY DEF TypeOK, Readable
<1>2. /\ Len(slots[s]) \in Nat /\ (slots[s] = <<>> <=> Len(slots[s]) = 0)
      /\ DOMAIN slots[s] = 1 .. Len(slots[s])
      /\ \A i \in 1 .. Len(slots[s]) : slots[s][i] \in Object
  BY <1>1, LenProperties, EmptySeq
<1> QED BY <1>2 DEF Get

\* Once a document of some class is accepted, readers never get one that is not
\* of this class (adapters/__init__.py 128-130).
THEOREM NarrowingCorrect == Spec => ServedNarrows
<1> DEFINE Kept(s) == slots[s] # <<>> =>
      /\ slots'[s] # <<>>
      /\ <<slots'[s][1].class, slots[s][1].class>> \in Inherits
<1>1. TypeOK /\ [Next]_vars => [\A s \in Readable : Kept(s)]_slots
  <2> SUFFICES ASSUME TypeOK, [Next]_vars, NEW s \in Readable, slots[s] # <<>>,
                      slots' # slots
               PROVE  /\ slots'[s] # <<>>
                      /\ <<slots'[s][1].class, slots[s][1].class>> \in Inherits
    OBVIOUS
  <2>1. slots[s][1].class \in Type /\ <<slots[s][1].class, slots[s][1].class>> \in Inherits
    BY GetFirst, InheritanceAssumption DEF Object, Resource
  <2> s \in Slot
    BY DEF Readable
  <2>2. PICK t \in Slot : \E d \in Offered[t[2]] : Accept(t, d)
    BY DEF Next, Put, Refuse, vars
  <2>3. PICK d \in Offered[t[2]] : Accept(t, d)
    BY <2>2
  <2>4. d \in Document
    BY OfferedDocument
  <2>5. /\ Placed(d) \in Object
        /\ slots'[t] = AddReplaceChild(slots[t], Placed(d), hrefOf)
        /\ \A u \in Slot : u # t => slots'[u] = slots[u]
    BY <2>3, <2>4, AcceptedList
  <2>6. CASE s # t
    BY <2>1, <2>5, <2>6
  <2>7. CASE s = t
    <3>1. slots[s] \in Seq(Object)
      BY DEF TypeOK
    <3>2. PICK k \in Nat : Entered(slots[s], slots'[s], Placed(d), hrefOf, k)
      BY <2>5, <2>7, <3>1, StoredEntry
    <3>3. slots'[s][1] = slots[s][1] \/ slots'[s][1] = Placed(d)
      BY <3>2 DEF Entered
    <3>4. slots'[s] # <<>>
      BY <3>2, EmptySeq DEF Entered
    <3>5. Placed(d).class = d.class /\ <<d.class, slots[s][1].class>> \in Inherits
      BY <2>3, <2>4, <2>7, PlacedObject DEF Accept, Fits
    <3> QED BY <2>1, <3>3, <3>4, <3>5
  <2> QED BY <2>6, <2>7
<1> QED BY <1>1, ResourcesTypeCorrect, PTL DEF Spec, ServedNarrows

\* What a client has just been told was stored below a DER is what it reads, when the
\* resource answers with that address at all, and in any case when it was told
\* that the resource was created (server/enddevicesfs.py 39-49).
THEOREM WrittenIsRead == Spec => []ReadsWhatItWrote
<1>1. Init => ReadsWhatItWrote
  BY NobodyAssumption DEF Init, ReadsWhatItWrote, Readable
<1>2. TypeOK /\ TypeOK' /\ HrefsDistinct' /\ ReadsWhatItWrote /\ [Next]_vars => ReadsWhatItWrote'
  <2> SUFFICES ASSUME TypeOK, TypeOK', HrefsDistinct', ReadsWhatItWrote, [Next]_vars
               PROVE  ReadsWhatItWrote'
    OBVIOUS
  <2>1. CASE UNCHANGED vars
    BY <2>1 DEF vars, ReadsWhatItWrote, Get
  <2>2. ASSUME NEW s \in Slot, NEW d \in Offered[s[2]], Accept(s, d)
        PROVE  ReadsWhatItWrote'
    <3> DEFINE o == Placed(d)
    <3>1. d \in Document /\ o \in Object
      BY <2>2, OfferedDocument, AcceptedList
    <3>2. slots[s] \in Seq(Object) /\ slots'[s] = AddReplaceChild(slots[s], o, hrefOf)
      BY <2>2, <3>1, AcceptedList DEF TypeOK
    <3>3. PICK k \in Nat : Entered(slots[s], slots'[s], o, hrefOf, k)
      BY <3>1, <3>2, StoredEntry
    <3>4. /\ slots'[s] # <<>>
          /\ 1 \in DOMAIN slots'[s] /\ k \in DOMAIN slots'[s] /\ slots'[s][k] = o
      <4>1. slots'[s] \in Seq(Object)
        BY <3>1, <3>2, AddReplaceChildSeq
      <4> QED BY <3>3, <4>1, LenProperties, EmptySeq DEF Entered
    <3>5. s \in Readable => Get(s)' = [status |-> 200, object |-> slots'[s][1]]
      BY <3>4 DEF Get
    <3>6. /\ answer'.slot = s /\ answer'.object = o
          /\ answer'.status = IF slots[s] = <<>> THEN 201 ELSE 204
      BY <2>2 DEF Accept
    <3>7. slots'[s][1].href = o.href => slots'[s][1] = o
      BY <3>4 DEF HrefsDistinct
    <3>8. slots[s] = <<>> => slots'[s][1] = o
      BY <3>3 DEF Entered
    <3> HIDE DEF o
    <3>9. answer'.status # 500 /\ (answer'.status = 201 => slots[s] = <<>>)
      BY <3>6
    <3> QED BY <3>4, <3>5, <3>6, <3>7, <3>8, <3>9 DEF ReadsWhatItWrote
  <2>3. ASSUME NEW s \in Slot, NEW d \in Offered[s[2]], Refuse(s, d)
        PROVE  ReadsWhatItWrote'
    BY <2>3 DEF Refuse, ReadsWhatItWrote
  <2> QED BY <2>1, <2>2, <2>3 DEF Next, Put
<1> QED BY <1>1, <1>2, ResourcesTypeCorrect, OneObjectPerHref, PTL DEF Spec
-----------------------------------------------------------------------------
(* The lists implement the store of DocumentStore. *)

KeptAt(s, h) == IF At(s, h) = {} THEN NoHref ELSE slots[s][First(At(s, h))]
ShownBy(s) == IF Get(s).status = 500 THEN NoHref ELSE Get(s).object.href
Address == Href \cup {Path}

\* An accepted document is kept at its address, and what is kept elsewhere stays.
LEMMA KeptAfterPut ==
  ASSUME TypeOK, TypeOK', HrefsDistinct', NEW s \in Slot, NEW d \in Document, Accept(s, d)
  PROVE  /\ Placed(d) \in Object /\ KeptAt(s, Placed(d).href)' = Placed(d)
         /\ \A t \in Slot, h \in Address :
              t # s \/ h # Placed(d).href => KeptAt(t, h)' = KeptAt(t, h)
<1> DEFINE o == Placed(d)
<1>1. /\ o \in Object
      /\ slots'[s] = AddReplaceChild(slots[s], o, hrefOf)
      /\ \A t \in Slot : t # s => slots'[t] = slots[t]
  BY AcceptedList
<1>2. slots[s] \in Seq(Object) /\ slots'[s] \in Seq(Object)
  BY DEF TypeOK
<1>3. PICK k \in Nat : Entered(slots[s], slots'[s], o, hrefOf, k)
  BY <1>1, <1>2, StoredEntry
<1>4. /\ DOMAIN slots[s] = 1 .. Len(slots[s]) /\ DOMAIN slots'[s] = 1 .. Len(slots'[s])
      /\ \A i \in 1 .. Len(slots[s]) : hrefOf[slots[s][i]] = slots[s][i].href
      /\ hrefOf[o] = o.href
  BY <1>1, <1>2, HrefOfObject DEF hrefOf
<1> HIDE DEF o
<1>5. KeptAt(s, o.href)' = o
  <2>1. k \in DOMAIN slots'[s] /\ slots'[s][k] = o /\ k \in Nat
    BY <1>3, <1>4 DEF Entered
  <2>2. At(s, o.href)' = {k}
    BY <2>1 DEF At, HrefsDistinct
  <2>3. First({k}) \in {k}
    BY <2>1, FirstLeast
  <2> QED BY <2>1, <2>2, <2>3 DEF KeptAt
<1>6. ASSUME NEW h \in Address, h # o.href
      PROVE  KeptAt(s, h)' = KeptAt(s, h)
  <2>1. \A i \in DOMAIN slots'[s] : slots'[s][i].href = h =>
          i \in DOMAIN slots[s] /\ slots'[s][i] = slots[s][i]
    BY <1>3, <1>4, <1>6 DEF Entered
  <2>2. \A i \in DOMAIN slots[s] : slots[s][i].href = h =>
          i \in DOMAIN slots'[s] /\ slots'[s][i] = slots[s][i]
    BY <1>3, <1>4, <1>6 DEF Entered
  <2>3. At(s, h)' = At(s, h)
    BY <2>1, <2>2 DEF At
  <2>4. At(s, h) \in SUBSET Nat
    BY <1>2, <1>4, LenProperties DEF At
  <2>5. At(s, h) # {} => First(At(s, h)) \in At(s, h)
    BY <2>4, FirstLeast
  <2> QED BY <2>2, <2>3, <2>5 DEF KeptAt, At
<1>7. ASSUME NEW t \in Slot, NEW h \in Address, t # s
      PROVE  KeptAt(t, h)' = KeptAt(t, h)
  BY <1>1, <1>7 DEF KeptAt, At
<1> QED BY <1>1, <1>5, <1>6, <1>7 DEF o

\* Readers are answered from the address that was accepted first.
LEMMA ShownAfterPut ==
  ASSUME TypeOK, NEW s \in Readable, NEW d \in Document, Accept(s, d)
  PROVE  /\ ShownBy(s) = NoHref => ShownBy(s)' = Placed(d).href
         /\ ShownBy(s) # NoHref => ShownBy(s)' = ShownBy(s)
         /\ \A t \in Readable : t # s => ShownBy(t)' = ShownBy(t)
<1> s \in Slot
  BY DEF Readable
<1> DEFINE o == Placed(d)
<1>1. /\ o \in Object
      /\ slots'[s] = AddReplaceChild(slots[s], o, hrefOf)
      /\ \A t \in Slot : t # s => slots'[t] = slots[t]
  BY AcceptedList
<1>2. slots[s] \in Seq(Object)
  BY DEF TypeOK
<1>3. PICK k \in Nat : Entered(slots[s], slots'[s], o, hrefOf, k)
  BY <1>1, <1>2, StoredEntry
<1>4. slots'[s] # <<>>
  BY <1>3, EmptySeq DEF Entered
<1>5. /\ hrefOf[o] = o.href /\ o.href # NoHref
      /\ slots[s] # <<>> => hrefOf[slots[s][1]] = slots[s][1].href /\ slots[s][1].href # NoHref
  BY <1>1, GetFirst, HrefAssumption DEF hrefOf, Object
<1> HIDE DEF o
<1>6. slots[s] = <<>> => slots'[s][1] = o
  BY <1>3 DEF Entered
<1>7. slots[s] # <<>> => slots'[s][1].href = slots[s][1].href
  BY <1>3, <1>5 DEF Entered
<1>8. ShownBy(s)' = slots'[s][1].href
  BY <1>4 DEF ShownBy, Get
<1>9. ShownBy(s) = IF slots[s] = <<>> THEN NoHref ELSE slots[s][1].href
  BY DEF ShownBy, Get
<1>10. \A t \in Readable : t # s => ShownBy(t)' = ShownBy(t)
  BY <1>1 DEF ShownBy, Get, Readable
<1> QED BY <1>5, <1>6, <1>7, <1>8, <1>9, <1>10 DEF o

\* add_replace_child and the read of the first entry implement the abstract store:
\* the newest document at each address, answers from the address accepted first.
THEOREM StoreImplemented == Spec => StoreSpec
<1> DEFINE kept == [s \in Readable |-> [h \in Address |-> KeptAt(s, h)]]
           shown == [s \in Readable |-> ShownBy(s)]
<1>1. Init => Store!Init
  <2> SUFFICES ASSUME Init PROVE Store!Init
    OBVIOUS
  <2>1. \A s \in Readable, h \in Address : KeptAt(s, h) = NoHref
    BY DEF Init, KeptAt, At, Readable
  <2>2. \A s \in Readable : ShownBy(s) = NoHref
    BY DEF Init, ShownBy, Get, Readable
  <2> QED BY <2>1, <2>2 DEF Store!Init, KeptAt, ShownBy, Address
<1>2. TypeOK /\ TypeOK' /\ HrefsDistinct' /\ [Next]_vars => [Store!Next]_Store!vars
  <2> SUFFICES ASSUME TypeOK, TypeOK', HrefsDistinct', [Next]_vars
               PROVE  [Store!Next]_Store!vars
    OBVIOUS
  <2>1. slots' = slots => UNCHANGED Store!vars
    BY DEF Store!vars, At, Get
  <2>3. ASSUME NEW s \in Slot, NEW d \in Offered[s[2]], Accept(s, d), s \notin Readable
        PROVE  UNCHANGED Store!vars
    <3>1. \A t \in Readable : slots'[t] = slots[t]
      BY <2>3, OfferedDocument, AcceptedList DEF Readable
    <3>2. \A t \in Readable, a \in Address : KeptAt(t, a)' = KeptAt(t, a)
      BY <3>1 DEF KeptAt, At
    <3>3. \A t \in Readable : ShownBy(t)' = ShownBy(t)
      BY <3>1 DEF ShownBy, Get
    <3>4. kept' = kept /\ shown' = shown
      BY <3>2, <3>3
    <3> QED BY <3>4 DEF Store!vars, KeptAt, ShownBy, Address
  <2>2. ASSUME NEW s \in Readable, NEW d \in Offered[s[2]], Accept(s, d)
        PROVE  Store!Next
    <3> s \in Slot
      BY DEF Readable
    <3> DEFINE h == Placed(d).href
    <3>1. d \in Document
      BY OfferedDocument
    <3>2. /\ Placed(d) \in Object /\ KeptAt(s, h)' = Placed(d)
          /\ \A t \in Readable, a \in Address : t # s \/ a # h => KeptAt(t, a)' = KeptAt(t, a)
      BY <2>2, <3>1, KeptAfterPut DEF Readable
    <3>3. h \in Address /\ hrefOf[Placed(d)] = h
      BY <3>2 DEF Object, Address, hrefOf
    <3>4. /\ ShownBy(s) = NoHref => ShownBy(s)' = h
          /\ ShownBy(s) # NoHref => ShownBy(s)' = ShownBy(s)
          /\ \A t \in Readable : t # s => ShownBy(t)' = ShownBy(t)
      BY <2>2, <3>1, ShownAfterPut
    <3> HIDE DEF h
    <3>5. /\ kept'[s][h] = Placed(d)
          /\ kept' = [kept EXCEPT ![s][h] = kept'[s][h]]
      BY <3>2, <3>3
    <3>6. shown' = IF shown[s] = NoHref THEN [shown EXCEPT ![s] = h] ELSE shown
      BY <3>4
    <3>7. Store!Accept(s, h)
      BY <3>2, <3>3, <3>5, <3>6 DEF Store!Accept, KeptAt, ShownBy, Address
    <3> QED BY <3>3, <3>7 DEF Store!Next, Address
  <2> QED BY <2>1, <2>2, <2>3 DEF Next, Put, Refuse, vars
<1> QED BY <1>1, <1>2, ResourcesTypeCorrect, OneObjectPerHref, PTL DEF Spec, StoreSpec, Store!Spec
=============================================================================
