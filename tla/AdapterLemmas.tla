--------------------------- MODULE AdapterLemmas ---------------------------
(***************************************************************************)
(* What the list operations of class Adapter do to the members of a list,  *)
(* whatever is in it: the facts the proofs about the components cite.      *)
(***************************************************************************)
EXTENDS Adapters, Integers, SequenceTheorems, WellFoundedInduction, TLAPS

\* No two entries of the list share a value of f (an href, an mRID).
Distinct(list, f) == \A i, j \in DOMAIN list : f[list[i]] = f[list[j]] => i = j

\* A loop that returns at the first match finds the least matching index.
LEMMA FirstLeast ==
  ASSUME NEW S \in SUBSET Nat, S # {}
  PROVE  First(S) \in S /\ \A j \in S : First(S) <= j
<1> DEFINE Less == {ss \in Nat \X Nat : ss[1] < ss[2]}
<1>1. IsWellFoundedOn(Less, Nat)
  BY NatLessThanWellFounded DEF OpToRel
<1>2. \A x, y \in Nat : y < x => <<y, x>> \in Less
  OBVIOUS
<1> HIDE DEF Less
<1>3. PICK x \in S : \A y \in S : ~(<<y, x>> \in Less)
  BY <1>1, WFMin
<1>4. ASSUME NEW y \in S PROVE x <= y
  <2>1. x \in Nat /\ y \in Nat
    OBVIOUS
  <2>2. ~(y < x)
    BY <1>2, <1>3, <2>1
  <2> QED BY <2>1, <2>2
<1> QED BY <1>4 DEF First

\* The members of a sequence are what its indices hold.
LEMMA MembersOfSeq ==
  ASSUME NEW T, NEW list \in Seq(T)
  PROVE  /\ Members(list) \subseteq T
         /\ \A x : x \in Members(list) <=> \E i \in 1 .. Len(list) : list[i] = x
BY LenProperties DEF Members

LEMMA PositionsInSeq ==
  ASSUME NEW T, NEW list \in Seq(T), NEW f, NEW v, Positions(list, f, v) # {}
  PROVE  /\ First(Positions(list, f, v)) \in 1 .. Len(list)
         /\ f[list[First(Positions(list, f, v))]] = v
<1>1. Positions(list, f, v) = {i \in 1 .. Len(list) : f[list[i]] = v}
  BY LenProperties DEF Positions
<1>2. Positions(list, f, v) \in SUBSET Nat
  BY <1>1, LenProperties
<1>3. First(Positions(list, f, v)) \in Positions(list, f, v)
  BY <1>2, FirstLeast
<1> QED BY <1>1, <1>3

LEMMA AppendMembers ==
  ASSUME NEW T, NEW list \in Seq(T), NEW child \in T
  PROVE  /\ Append(list, child) \in Seq(T)
         /\ Members(Append(list, child)) = Members(list) \cup {child}
<1> DEFINE longer == Append(list, child)
<1>1. /\ longer \in Seq(T)
      /\ Len(longer) = Len(list) + 1
      /\ \A i \in 1 .. Len(list) : longer[i] = list[i]
      /\ longer[Len(list) + 1] = child
  BY AppendProperties
<1>2. Len(list) \in Nat
  BY LenProperties
<1> HIDE DEF longer
<1>3. ASSUME NEW x PROVE x \in Members(longer) <=> x \in Members(list) \cup {child}
  <2>1. x \in Members(longer) <=> \E i \in 1 .. Len(list) + 1 : longer[i] = x
    BY <1>1, MembersOfSeq
  <2>2. (\E i \in 1 .. Len(list) + 1 : longer[i] = x)
          <=> (\E i \in 1 .. Len(list) : list[i] = x) \/ x = child
    BY <1>1, <1>2
  <2> QED BY <2>1, <2>2, MembersOfSeq
<1> QED BY <1>1, <1>3 DEF longer

\* Adapter.replace_child keeps the length and every other entry.
LEMMA ReplaceChildSeq ==
  ASSUME NEW T, NEW list \in Seq(T), NEW i \in 1 .. Len(list), NEW child \in T
  PROVE  /\ ReplaceChild(list, i, child) \in Seq(T)
         /\ Len(ReplaceChild(list, i, child)) = Len(list)
         /\ Members(ReplaceChild(list, i, child)) \subseteq Members(list) \cup {child}
<1>1. /\ ReplaceChild(list, i, child) \in Seq(T)
      /\ Len(ReplaceChild(list, i, child)) = Len(list)
      /\ \A j \in 1 .. Len(list) :
           ReplaceChild(list, i, child)[j] = IF j = i THEN child ELSE list[j]
  BY ExceptSeq DEF ReplaceChild
<1> QED BY <1>1, MembersOfSeq

\* Adapter.add_replace_child stores the child and invents nothing else.
LEMMA AddReplaceChildSeq ==
  ASSUME NEW T, NEW list \in Seq(T), NEW child \in T, NEW f
  PROVE  /\ AddReplaceChild(list, child, f) \in Seq(T)
         /\ Members(AddReplaceChild(list, child, f)) \subseteq Members(list) \cup {child}
<1> DEFINE same == Positions(list, f, f[child])
<1>1. CASE same = {}
  <2>1. AddReplaceChild(list, child, f) = Append(list, child)
    BY <1>1 DEF AddReplaceChild
  <2> QED BY <2>1, AppendMembers
<1>2. CASE same # {}
  <2>1. First(same) \in 1 .. Len(list)
    BY <1>2, PositionsInSeq
  <2>2. AddReplaceChild(list, child, f) = ReplaceChild(list, First(same), child)
    BY <1>2 DEF AddReplaceChild, ReplaceChild
  <2> QED BY <2>1, <2>2, ReplaceChildSeq
<1> QED BY <1>1, <1>2

\* An href that is new to the list makes add_replace_child append.
LEMMA AddReplaceChildAppends ==
  ASSUME NEW T, NEW list \in Seq(T), NEW child \in T, NEW f,
         Positions(list, f, f[child]) = {}
  PROVE  /\ AddReplaceChild(list, child, f) = Append(list, child)
         /\ Members(AddReplaceChild(list, child, f)) = Members(list) \cup {child}
<1>1. AddReplaceChild(list, child, f) = Append(list, child)
  BY DEF AddReplaceChild
<1> QED BY <1>1, AppendMembers

\* When nothing in the list but the child itself has the child's href,
\* add_replace_child leaves a list alone that has the child, and appends it
\* to one that has not.
LEMMA AddReplaceChildSame ==
  ASSUME NEW T, NEW list \in Seq(T), NEW child \in T, NEW f,
         \A x \in Members(list) : f[x] = f[child] => x = child
  PROVE  \/ child \in Members(list) /\ AddReplaceChild(list, child, f) = list
         \/ child \notin Members(list) /\ AddReplaceChild(list, child, f) = Append(list, child)
<1> DEFINE same == Positions(list, f, f[child])
<1>1. CASE same = {}
  <2>1. AddReplaceChild(list, child, f) = Append(list, child)
    BY <1>1, AddReplaceChildAppends
  <2>2. child \notin Members(list)
    BY <1>1 DEF Positions, Members
  <2> QED BY <2>1, <2>2
<1>2. CASE same # {}
  <2>1. First(same) \in 1 .. Len(list) /\ f[list[First(same)]] = f[child]
    BY <1>2, PositionsInSeq
  <2>2. list[First(same)] = child
    BY <2>1, MembersOfSeq
  <2>3. AddReplaceChild(list, child, f) = [list EXCEPT ![First(same)] = child]
    BY <1>2 DEF AddReplaceChild
  <2>4. \A j \in 1 .. Len(list) : [list EXCEPT ![First(same)] = child][j] = list[j]
    BY <2>1, <2>2, ExceptSeq
  <2>5. [list EXCEPT ![First(same)] = child] = list
    BY <2>1, <2>4, ExceptSeq, SeqEqual
  <2>6. child \in Members(list)
    BY <2>1, <2>2, MembersOfSeq
  <2> QED BY <2>3, <2>5, <2>6
<1> QED BY <1>1, <1>2

\* Then it displaces nobody.
LEMMA AddReplaceChildKeeps ==
  ASSUME NEW T, NEW list \in Seq(T), NEW child \in T, NEW f,
         \A x \in Members(list) : f[x] = f[child] => x = child
  PROVE  Members(AddReplaceChild(list, child, f)) = Members(list) \cup {child}
<1>1. CASE child \in Members(list) /\ AddReplaceChild(list, child, f) = list
  BY <1>1
<1>2. CASE AddReplaceChild(list, child, f) = Append(list, child)
  BY <1>2, AppendMembers
<1> QED BY <1>1, <1>2, AddReplaceChildSame

\* add_replace_child never puts two entries with one href in a list.
LEMMA AddReplaceChildDistinct ==
  ASSUME NEW T, NEW list \in Seq(T), NEW child \in T, NEW f, Distinct(list, f)
  PROVE  Distinct(AddReplaceChild(list, child, f), f)
<1> DEFINE same == Positions(list, f, f[child])
<1>0. \A i, j \in 1 .. Len(list) : f[list[i]] = f[list[j]] => i = j
  BY DEF Distinct
<1>1. CASE same = {}
  <2>1. /\ AddReplaceChild(list, child, f) = Append(list, child)
        /\ \A i \in 1 .. Len(list) : f[list[i]] # f[child]
    BY <1>1 DEF AddReplaceChild, Positions
  <2>2. /\ DOMAIN Append(list, child) = 1 .. Len(list) + 1
        /\ \A i \in 1 .. Len(list) : Append(list, child)[i] = list[i]
        /\ Append(list, child)[Len(list) + 1] = child
    BY AppendProperties, LenProperties
  <2> QED BY <1>0, <2>1, <2>2 DEF Distinct
<1>2. CASE same # {}
  <2>1. First(same) \in 1 .. Len(list) /\ f[list[First(same)]] = f[child]
    BY <1>2, PositionsInSeq
  <2>2. AddReplaceChild(list, child, f) = [list EXCEPT ![First(same)] = child]
    BY <1>2 DEF AddReplaceChild
  <2>3. \A j \in 1 .. Len(list) : [list EXCEPT ![First(same)] = child][j]
          = IF j = First(same) THEN child ELSE list[j]
    BY <2>1, ExceptSeq
  <2>4. DOMAIN [list EXCEPT ![First(same)] = child] = 1 .. Len(list)
    OBVIOUS
  <2>5. \A j \in 1 .. Len(list) : f[[list EXCEPT ![First(same)] = child][j]] = f[list[j]]
    BY <2>1, <2>3
  <2> QED BY <1>0, <2>2, <2>4, <2>5 DEF Distinct
<1> QED BY <1>1, <1>2

LEMMA RemoveChildType ==
  ASSUME NEW T, NEW list \in Seq(T), NEW child \in Members(list)
  PROVE  RemoveChild(list, child) \in Seq(T)
<1> DEFINE at == First({i \in DOMAIN list : list[i] = child})
<1>1. at \in 1 .. Len(list)
  <2>1. {i \in DOMAIN list : list[i] = child} \in SUBSET Nat
    OBVIOUS
  <2>2. {i \in DOMAIN list : list[i] = child} # {}
    BY DEF Members
  <2>3. at \in {i \in DOMAIN list : list[i] = child}
    BY <2>1, <2>2, FirstLeast
  <2> QED BY <2>3
<1> HIDE DEF at
<1>2. SubSeq(list, 1, at - 1) \in Seq(T)
  BY <1>1, SubSeqProperties, ElementOfSeq
<1>3. SubSeq(list, at + 1, Len(list)) \in Seq(T)
  BY <1>1, SubSeqProperties, ElementOfSeq
<1> QED BY <1>2, <1>3, ConcatProperties DEF RemoveChild, at

\* Adapter.remove_child: what stands behind the child moves up by one.
LEMMA RemoveChildShifts ==
  ASSUME NEW T, NEW list \in Seq(T), NEW child \in Members(list)
  PROVE  \E at \in 1 .. Len(list) :
           /\ list[at] = child
           /\ RemoveChild(list, child) \in Seq(T)
           /\ Len(RemoveChild(list, child)) = Len(list) - 1
           /\ \A i \in 1 .. Len(list) - 1 :
                RemoveChild(list, child)[i] = IF i < at THEN list[i] ELSE list[i + 1]
<1> DEFINE at == First({i \in DOMAIN list : list[i] = child})
           front == SubSeq(list, 1, at - 1)
           back == SubSeq(list, at + 1, Len(list))
           n == Len(list)
<1>1. at \in 1 .. n /\ list[at] = child
  <2>1. {i \in DOMAIN list : list[i] = child} \in SUBSET Nat
    OBVIOUS
  <2>2. {i \in DOMAIN list : list[i] = child} # {}
    BY DEF Members
  <2>3. at \in {i \in DOMAIN list : list[i] = child}
    BY <2>1, <2>2, FirstLeast
  <2> QED BY <2>3
<1> HIDE DEF at
<1>2. /\ front \in Seq(T)
      /\ Len(front) = at - 1
      /\ \A i \in 1 .. at - 1 : front[i] = list[i]
  BY <1>1, SubSeqProperties, ElementOfSeq
<1>3. /\ back \in Seq(T)
      /\ Len(back) = n - at
      /\ \A i \in 1 .. n - at : back[i] = list[at + i]
  BY <1>1, SubSeqProperties, ElementOfSeq
<1> HIDE DEF front, back
<1>4. RemoveChild(list, child) = front \o back
  BY DEF RemoveChild, at, front, back
<1>n. n \in Nat
  BY LenProperties
<1>c. /\ front \o back \in Seq(T)
      /\ Len(front \o back) = Len(front) + Len(back)
      /\ \A i \in 1 .. Len(front) + Len(back) : (front \o back)[i] =
           IF i <= Len(front) THEN front[i] ELSE back[i - Len(front)]
  BY <1>2, <1>3, ConcatProperties
<1> DEFINE rest == front \o back
<1> HIDE DEF rest, n
<1>5. /\ rest \in Seq(T)
      /\ Len(rest) = n - 1
      /\ \A i \in 1 .. n - 1 : rest[i] = IF i < at THEN list[i] ELSE list[i + 1]
  <2>1. Len(front) + Len(back) = n - 1
    BY <1>1, <1>2, <1>3, <1>n
  <2>2. ASSUME NEW i \in 1 .. n - 1, i < at PROVE rest[i] = list[i]
    BY <1>1, <1>2, <1>c, <1>n, <2>1, <2>2 DEF rest
  <2>3. ASSUME NEW i \in 1 .. n - 1, ~(i < at) PROVE rest[i] = list[i + 1]
    <3>1. i - (at - 1) \in 1 .. n - at /\ at + (i - (at - 1)) = i + 1
      BY <1>1, <1>n, <2>3
    <3>2. rest[i] = back[i - (at - 1)]
      BY <1>1, <1>2, <1>c, <1>n, <2>1, <2>3 DEF rest
    <3> QED BY <1>3, <3>1, <3>2
  <2> QED BY <1>c, <2>1, <2>2, <2>3 DEF rest
<1> QED BY <1>1, <1>4, <1>5 DEF rest, n

\* Adapter.remove_child takes out the child and nothing else.
LEMMA RemoveChildSeq ==
  ASSUME NEW T, NEW list \in Seq(T), NEW child \in Members(list), NEW f, Distinct(list, f)
  PROVE  /\ RemoveChild(list, child) \in Seq(T)
         /\ Members(RemoveChild(list, child)) = Members(list) \ {child}
         /\ Distinct(RemoveChild(list, child), f)
<1> DEFINE n == Len(list)
           rest == RemoveChild(list, child)
<1>n. n \in Nat
  BY LenProperties
<1>1. PICK at \in 1 .. n :
        /\ list[at] = child
        /\ rest \in Seq(T)
        /\ Len(rest) = n - 1
        /\ \A i \in 1 .. n - 1 : rest[i] = IF i < at THEN list[i] ELSE list[i + 1]
  BY RemoveChildShifts
<1> HIDE DEF rest, n
<1>5. /\ rest \in Seq(T)
      /\ Len(rest) = n - 1
      /\ \A i \in 1 .. n - 1 : rest[i] = IF i < at THEN list[i] ELSE list[i + 1]
  BY <1>1
<1>6. \A i, j \in 1 .. n : f[list[i]] = f[list[j]] => i = j
  BY LenProperties DEF Distinct, n
<1>7. Distinct(rest, f)
  <2>1. DOMAIN rest = 1 .. n - 1
    BY <1>5, LenProperties
  <2>2. ASSUME NEW i \in 1 .. n - 1, NEW j \in 1 .. n - 1, f[rest[i]] = f[rest[j]]
        PROVE  i = j
    <3> DEFINE was(k) == IF k < at THEN k ELSE k + 1
    <3>1. was(i) \in 1 .. n /\ was(j) \in 1 .. n
      BY <1>1, <1>n
    <3>2. rest[i] = list[was(i)] /\ rest[j] = list[was(j)]
      BY <1>5
    <3>3. was(i) = was(j)
      BY <1>6, <2>2, <3>1, <3>2
    <3> QED BY <1>1, <1>n, <3>3
  <2> QED BY <2>1, <2>2 DEF Distinct
<1>8. ASSUME NEW x PROVE x \in Members(rest) <=> x \in Members(list) /\ x # child
  <2>1. ASSUME NEW i \in 1 .. n - 1 PROVE rest[i] \in Members(list) \ {child}
    <3> DEFINE k == IF i < at THEN i ELSE i + 1
    <3>1. k \in 1 .. n /\ k # at
      BY <1>1, <1>n
    <3>2. rest[i] = list[k]
      BY <1>5
    <3>3. list[k] # child
      BY <1>1, <1>6, <3>1
    <3> QED BY <3>1, <3>2, <3>3, MembersOfSeq DEF n
  <2>2. ASSUME NEW k \in 1 .. n, k # at PROVE \E i \in 1 .. n - 1 : rest[i] = list[k]
    <3>1. CASE k < at
      <4>1. k \in 1 .. n - 1
        BY <1>1, <1>n, <3>1
      <4> QED BY <4>1, <1>5, <3>1
    <3>2. CASE k > at
      <4>1. k - 1 \in 1 .. n - 1 /\ ~(k - 1 < at) /\ (k - 1) + 1 = k
        BY <1>1, <1>n, <3>2
      <4>2. rest[k - 1] = list[k]
        BY <4>1, <1>5
      <4> QED BY <4>1, <4>2
    <3> QED BY <1>1, <1>n, <2>2, <3>1, <3>2
  <2>3. x \in Members(rest) <=> \E i \in 1 .. n - 1 : rest[i] = x
    BY <1>5, MembersOfSeq
  <2>4. x \in Members(list) <=> \E k \in 1 .. n : list[k] = x
    BY MembersOfSeq DEF n
  <2> QED BY <1>1, <2>1, <2>2, <2>3, <2>4
<1> QED BY <1>5, <1>7, <1>8 DEF rest
=============================================================================
