---------------------- MODULE MirrorUsagePointsProofs ----------------------
(***************************************************************************)
(* For any number of devices, usage points and readings, with lost answers *)
(* and restarts: the list of usage points and the list of mirrors stay     *)
(* parallel, and so do the two lists of readings of each point; an href    *)
(* leads to the same thing as long as the process runs, and to the         *)
(* device's own point; what a device was told is stored is what is stored; *)
(* and the server implements MeterRegistry.                                *)
(***************************************************************************)
EXTENDS MirrorUsagePoints, AdapterLemmas

-----------------------------------------------------------------------------
(* Types. *)

LEMMA FirstMatch ==
  ASSUME NEW T, NEW list \in Seq(T), NEW S \in SUBSET (DOMAIN list), S # {}
  PROVE  First(S) \in S /\ First(S) \in 1 .. Len(list) /\ list[First(S)] \in T
<1>1. S \in SUBSET Nat /\ DOMAIN list = 1 .. Len(list)
  BY LenProperties
<1>2. First(S) \in S
  BY <1>1, FirstLeast
<1> QED BY <1>1, <1>2, ElementOfSeq

\* Storing a reading leaves a wrapper, of the same usage point.
LEMMA ReadingTypes ==
  ASSUME NEW w \in Wrapper, NEW r \in Reading
  PROVE  /\ CreateOrReplaceReading(w, r) \in Wrapper
         /\ CreateOrReplaceReading(w, r).mRID = w.mRID
         /\ CreateOrReplaceReading(w, r).href = w.href
<1>1. w.meterReadings \in Seq(MeterReading) /\ w.readings \in Seq(Stored) /\ w.href \in UsagePoint
  BY DEF Wrapper
<1>2. CASE Answer(w, r) = "NO_CONTENT"
  <2> DEFINE j == First(ByReading(w, r.mRID))
  <2>1. ByReading(w, r.mRID) # {}
    BY <1>2 DEF Answer
  <2>2. j \in 1 .. Len(w.readings) /\ w.readings[j] \in Stored
    <3>1. ByReading(w, r.mRID) \in SUBSET (DOMAIN w.readings)
      BY DEF ByReading
    <3> QED BY <1>1, <2>1, <3>1, FirstMatch
  <2> HIDE DEF j
  <2> DEFINE new == [w.readings[j] EXCEPT !.reading = r]
             list == [w.readings EXCEPT ![j] = new]
  <2>3. new \in Stored
    BY <2>2 DEF Stored
  <2>4. list \in Seq(Stored)
    BY <1>1, <2>2, <2>3, ExceptSeq
  <2>5. ReplaceReading(w, r) = [w EXCEPT !.readings = list]
    BY DEF ReplaceReading, j, Wrapper
  <2>6. CreateOrReplaceReading(w, r) = [w EXCEPT !.readings = list]
    BY <1>2, <2>5 DEF CreateOrReplaceReading
  <2> HIDE DEF list
  <2> QED BY <2>4, <2>6 DEF Wrapper
<1>3. CASE Answer(w, r) = "CREATED"
  <2> DEFINE n == Len(w.meterReadings)
             link == ListItemHref(w.href, n)
             meter == [href |-> ListHref(w.href), typeLink |-> ReadingTypeHref(w.href, n),
                       link |-> link]
             meters == Append(w.meterReadings, meter)
             readings == Append(w.readings, [reading |-> r, href |-> link])
  <2>1. n \in Nat
    BY <1>1, LenProperties
  <2>2. link \in ReadingHref /\ ListHref(w.href) \in ReadingListHref
    BY <1>1, <2>1 DEF UsagePoint, ListItemHref, ListHref, ReadingHref, ReadingListHref
  <2>3. meter \in MeterReading /\ [reading |-> r, href |-> link] \in Stored
    BY <2>2 DEF MeterReading, Stored, ReadingTypeHref
  <2>4. meters \in Seq(MeterReading) /\ readings \in Seq(Stored)
    BY <1>1, <2>3, AppendProperties
  <2>5. CreateOrReplaceReading(w, r) = [w EXCEPT !.meterReadings = meters, !.readings = readings]
    BY <1>3 DEF CreateOrReplaceReading, NewReading, Wrapper
  <2> HIDE DEF meters, readings
  <2> QED BY <2>4, <2>5 DEF Wrapper
<1>4. CASE Answer(w, r) \notin {"NO_CONTENT", "CREATED"}
  BY <1>4 DEF CreateOrReplaceReading
<1> QED BY <1>2, <1>3, <1>4

\* A wrapper that gives way to another of the same usage point.
LEMMA UpdateWrapper ==
  ASSUME points \in Seq(Wrapper), NEW i \in 1 .. Len(points), NEW w \in Wrapper,
         w.mRID = points[i].mRID, w.href = points[i].href,
         points' = [points EXCEPT ![i] = w]
  PROVE  /\ points' \in Seq(Wrapper)
         /\ Len(points') = Len(points) /\ DOMAIN points' = DOMAIN points
         /\ \A j \in DOMAIN points : /\ points'[j].mRID = points[j].mRID
                                     /\ points'[j].href = points[j].href
<1>1. DOMAIN points = 1 .. Len(points)
  BY LenProperties
<1>2. /\ points' \in Seq(Wrapper) /\ Len(points') = Len(points)
      /\ \A j \in 1 .. Len(points) : points'[j] = IF j = i THEN w ELSE points[j]
  BY ExceptSeq
<1> QED BY <1>1, <1>2, LenProperties

\* The request that is being served: whose it is, and that its usage point is
\* in the list, at the end when it is new.
Asked == request # Idle =>
  LET m == request.mup.mRID IN
  /\ m = PointOf[request.device]
  /\ Contains(m)
  /\ request.created => points # <<>> /\ points[Len(points)].mRID = m

Inv == TypeOK /\ Lockstep /\ Asked

LEMMA InitInv == Init => Inv
<1> SUFFICES ASSUME Init PROVE Inv
  OBVIOUS
<1>1. TypeOK
  BY EmptySeq DEF Init, TypeOK
<1>2. Len(<<>>) = 0 /\ DOMAIN <<>> = {}
  BY EmptySeq, LenProperties
<1> QED BY <1>1, <1>2 DEF Init, Inv, Lockstep, Pending, Asked

\* A step that only updates wrappers keeps the lists parallel.
LEMMA SameLockstep ==
  ASSUME Inv, UNCHANGED mups, Pending' = Pending,
         Len(points') = Len(points), DOMAIN points' = DOMAIN points,
         \A j \in DOMAIN points : /\ points'[j].mRID = points[j].mRID
                                  /\ points'[j].href = points[j].href
  PROVE  /\ Lockstep'
         /\ \A m : ByMRID(points, m)' = ByMRID(points, m)
<1>1. Len(points) \in Nat /\ Len(mups) \in Nat
  BY LenProperties DEF Inv, TypeOK
<1>2. DOMAIN points = 1 .. Len(points) /\ DOMAIN mups = 1 .. Len(mups)
  BY LenProperties DEF Inv, TypeOK
<1>3. DOMAIN mups \subseteq DOMAIN points
  <2>1. Pending \in {0, 1}
    BY DEF Pending
  <2>2. Len(mups) <= Len(points)
    BY <1>1, <2>1 DEF Inv, Lockstep
  <2> QED BY <1>1, <1>2, <2>2
<1> QED BY <1>3 DEF Inv, Lockstep, ByMRID

LEMMA PostPointInv ==
  ASSUME Inv, NEW d \in Device, NEW e \in Embedded, NEW p \in Payload, PostPoint(d, e, p)
  PROVE  Inv'
<1> DEFINE m == PointOf[d]
           wrapper == [mRID |-> m, href |-> BaseHref(Len(points)), status |-> p,
                       description |-> p, meterReadings |-> <<>>, readings |-> <<>>]
<1>1. points \in Seq(Wrapper) /\ Len(points) \in Nat /\ DOMAIN points = 1 .. Len(points)
  BY LenProperties DEF Inv, TypeOK
<1>2. m \in MRID /\ e \in Seq(Reading)
  <2>1. {r \in Reading : r.kind = "meter"} \subseteq Reading
    OBVIOUS
  <2> QED BY <2>1, DeviceAssumption, EmbeddedAssumption, SeqMonotonic
<1>3. /\ request = Idle
      /\ request' = [device |-> d, mup |-> [mRID |-> m, payload |-> p, readings |-> e],
                     todo |-> e, created |-> ~Contains(m)]
      /\ UNCHANGED <<mups, location, current>>
  BY DEF PostPoint
<1>4. request' \in Request /\ request' # Idle
  <2>1. request' \in Request
    BY <1>2, <1>3 DEF Request
  <2> QED BY <2>1, NothingAssumption
<1>5. told' \in [Device -> [ReadingMRID -> Value \cup {NoValue}]]
  BY DEF PostPoint, Inv, TypeOK
<1>6. Pending = 0
  BY <1>3 DEF Pending
<1>7. CASE Contains(m)
  <2> DEFINE i == First(ByMRID(points, m))
             new == [points[i] EXCEPT !.description = <<p>>, !.status = p]
  <2>1. i \in 1 .. Len(points) /\ points[i] \in Wrapper
    <3>1. ByMRID(points, m) \in SUBSET (DOMAIN points)
      BY DEF ByMRID
    <3> QED BY <1>1, <1>7, <3>1, FirstMatch DEF Contains
  <2>2. points' = [points EXCEPT ![i] = new]
    BY <1>7 DEF PostPoint
  <2> HIDE DEF i
  <2>3. new \in Wrapper /\ new.mRID = points[i].mRID /\ new.href = points[i].href
    <3>1. <<p>> \in Seq(Payload)
      OBVIOUS
    <3> QED BY <2>1, <3>1 DEF Wrapper
  <2> HIDE DEF new
  <2>4. /\ points' \in Seq(Wrapper)
        /\ Len(points') = Len(points) /\ DOMAIN points' = DOMAIN points
        /\ \A j \in DOMAIN points : /\ points'[j].mRID = points[j].mRID
                                    /\ points'[j].href = points[j].href
    BY <1>1, <2>1, <2>2, <2>3, UpdateWrapper
  <2>5. Pending' = 0 /\ ~request'.created
    BY <1>3, <1>7 DEF Pending
  <2>6. Lockstep' /\ \A x : ByMRID(points, x)' = ByMRID(points, x)
    BY <1>3, <1>6, <2>4, <2>5, SameLockstep
  <2>7. Asked'
    BY <1>3, <1>7, <2>5, <2>6 DEF Asked, Contains
  <2> QED BY <1>3, <1>4, <1>5, <2>4, <2>6, <2>7 DEF Inv, TypeOK
<1>8. CASE ~Contains(m)
  <2> DEFINE n == Len(points)
  <2>1. wrapper \in Wrapper
    BY <1>1, <1>2, EmptySeq DEF Wrapper, BaseHref, UsagePoint
  <2>2. points' = Append(points, wrapper)
    BY <1>8 DEF PostPoint
  <2> HIDE DEF wrapper
  <2>3. /\ points' \in Seq(Wrapper) /\ Len(points') = n + 1
        /\ \A j \in 1 .. n : points'[j] = points[j]
        /\ points'[n + 1] = wrapper
    BY <1>1, <2>1, <2>2, AppendProperties
  <2>4. DOMAIN points' = 1 .. n + 1 /\ points' # <<>>
    BY <1>1, <2>1, <2>2, <2>3, LenProperties, AppendProperties
  <2>5. wrapper.mRID = m /\ wrapper.href = BaseHref(n)
    BY DEF wrapper
  <2>6. Pending' = 1 /\ request'.created
    BY <1>3, <1>4, <1>8 DEF Pending
  <2>7. \A j \in 1 .. n : points[j].mRID # m
    BY <1>1, <1>8 DEF Contains, ByMRID
  <2> HIDE DEF m
  <2>8. DOMAIN mups = 1 .. n /\ Len(mups) = n
    BY <1>1, <1>6, LenProperties DEF Inv, TypeOK, Lockstep
  <2>9. /\ \A i \in 1 .. n : points[i].href = BaseHref(i - 1)
        /\ \A i \in 1 .. n : mups[i].href = MirrorHref(points[i].href) /\ mups[i].mRID = points[i].mRID
        /\ \A i, j \in 1 .. n : points[i].mRID = points[j].mRID => i = j
    BY <1>1, <2>8 DEF Inv, Lockstep
  <2>10. \A i \in 1 .. n + 1 : points'[i].href = BaseHref(i - 1)
    <3> SUFFICES ASSUME NEW i \in 1 .. n + 1 PROVE points'[i].href = BaseHref(i - 1)
      OBVIOUS
    <3>1. CASE i \in 1 .. n
      BY <2>3, <2>9, <3>1
    <3>2. CASE i = n + 1
      <4>1. i - 1 = n
        BY <1>1, <3>2
      <4> QED BY <2>3, <2>5, <3>2, <4>1
    <3> QED BY <1>1, <3>1, <3>2
  <2>11. \A i, j \in 1 .. n + 1 : points'[i].mRID = points'[j].mRID => i = j
    <3>1. \A i \in 1 .. n + 1 : i \in 1 .. n \/ i = n + 1
      BY <1>1
    <3> QED BY <2>3, <2>5, <2>7, <2>9, <3>1
  <2>12. Lockstep'
    BY <1>1, <1>3, <2>3, <2>4, <2>6, <2>8, <2>9, <2>10, <2>11 DEF Lockstep
  <2>13. Asked'
    <3>1. n + 1 \in 1 .. n + 1
      BY <1>1
    <3>2. n + 1 \in ByMRID(points', m)
      BY <2>3, <2>4, <2>5, <3>1 DEF ByMRID
    <3>3. request'.device = d /\ request'.mup.mRID = m /\ m = PointOf[d]
      BY <1>3 DEF m
    <3>4. Contains(m)'
      BY <3>2 DEF Contains, ByMRID, m
    <3> QED BY <2>3, <2>4, <2>5, <3>2, <3>3, <3>4 DEF Asked, Contains
  <2> QED BY <1>3, <1>4, <1>5, <2>3, <2>12, <2>13 DEF Inv, TypeOK
<1> QED BY <1>7, <1>8

LEMMA EmbedReadingInv ==
  ASSUME Inv, EmbedReading
  PROVE  Inv'
<1> DEFINE m == request.mup.mRID
           i == First(ByMRID(points, m))
           new == CreateOrReplaceReading(points[i], Head(request.todo))
<1>1. points \in Seq(Wrapper)
  BY DEF Inv, TypeOK
<1>2. /\ request \in Request /\ request.todo \in Seq(Reading) /\ request.todo # <<>>
      /\ Contains(m)
  BY DEF EmbedReading, Inv, TypeOK, Asked, Request
<1>3. i \in 1 .. Len(points) /\ points[i] \in Wrapper
  <2>1. ByMRID(points, m) \in SUBSET (DOMAIN points)
    BY DEF ByMRID
  <2> QED BY <1>1, <1>2, <2>1, FirstMatch DEF Contains
<1>4. Head(request.todo) \in Reading /\ Tail(request.todo) \in Seq(Reading)
  BY <1>2, HeadTailProperties
<1>5. /\ points' = [points EXCEPT ![i] = new]
      /\ request' = [request EXCEPT !.todo = Tail(request.todo)]
      /\ UNCHANGED <<mups, location, current, told>>
  BY DEF EmbedReading
<1> HIDE DEF i
<1>6. new \in Wrapper /\ new.mRID = points[i].mRID /\ new.href = points[i].href
  BY <1>3, <1>4, ReadingTypes
<1> HIDE DEF new
<1>7. /\ points' \in Seq(Wrapper)
      /\ Len(points') = Len(points) /\ DOMAIN points' = DOMAIN points
      /\ \A j \in DOMAIN points : /\ points'[j].mRID = points[j].mRID
                                  /\ points'[j].href = points[j].href
  BY <1>1, <1>3, <1>5, <1>6, UpdateWrapper
<1>8. /\ request' \in Request /\ request' # Idle
      /\ request'.created = request.created /\ request'.mup = request.mup
      /\ request'.device = request.device
  BY <1>2, <1>4, <1>5, NothingAssumption DEF Request
<1>9. Pending' = Pending
  BY <1>8 DEF Pending, EmbedReading
<1>10. Lockstep' /\ \A x : ByMRID(points, x)' = ByMRID(points, x)
  BY <1>5, <1>7, <1>9, SameLockstep
<1>11. Asked'
  <2>1. Contains(request.mup.mRID)'
    <3>1. ByMRID(points', m) # {}
      BY <1>2, <1>10 DEF Contains, ByMRID
    <3> QED BY <1>8, <3>1 DEF Contains, ByMRID
  <2>2. request.created => points' # <<>> /\ points'[Len(points')].mRID = request.mup.mRID
    <3> SUFFICES ASSUME request.created
                 PROVE  points' # <<>> /\ points'[Len(points')].mRID = request.mup.mRID
      OBVIOUS
    <3>1. points # <<>> /\ points[Len(points)].mRID = request.mup.mRID
      BY DEF EmbedReading, Inv, Asked
    <3>2. Len(points) \in DOMAIN points /\ Len(points') # 0
      BY <1>1, <1>7, <3>1, EmptySeq, LenProperties
    <3> QED BY <1>7, <3>1, <3>2, EmptySeq
  <2>3. request.mup.mRID = PointOf[request.device]
    BY DEF EmbedReading, Inv, Asked
  <2> QED BY <1>8, <2>1, <2>2, <2>3 DEF Asked
<1> QED BY <1>5, <1>7, <1>8, <1>10, <1>11 DEF Inv, TypeOK

LEMMA PostReadingInv ==
  ASSUME Inv, NEW d \in Device, NEW r \in Reading, NEW heard \in BOOLEAN,
         PostReading(d, r, heard)
  PROVE  Inv'
<1> DEFINE at == ByHref(points, PointHref(location[d]))
           i == First(at)
           new == CreateOrReplaceReading(points[i], r)
<1>1. points \in Seq(Wrapper)
  BY DEF Inv, TypeOK
<1>2. i \in 1 .. Len(points) /\ points[i] \in Wrapper
  <2>1. at \in SUBSET (DOMAIN points) /\ at # {}
    BY DEF ByHref, PostReading
  <2> QED BY <1>1, <2>1, FirstMatch
<1>3. /\ points' = [points EXCEPT ![i] = new]
      /\ request = Idle /\ UNCHANGED <<mups, request, location, current>>
  BY DEF PostReading
<1>4. told' \in [Device -> [ReadingMRID -> Value \cup {NoValue}]]
  BY DEF PostReading, Inv, TypeOK, Reading
<1> HIDE DEF i
<1>5. new \in Wrapper /\ new.mRID = points[i].mRID /\ new.href = points[i].href
  BY <1>2, ReadingTypes
<1> HIDE DEF new
<1>6. /\ points' \in Seq(Wrapper)
      /\ Len(points') = Len(points) /\ DOMAIN points' = DOMAIN points
      /\ \A j \in DOMAIN points : /\ points'[j].mRID = points[j].mRID
                                  /\ points'[j].href = points[j].href
  BY <1>1, <1>2, <1>3, <1>5, UpdateWrapper
<1>7. Lockstep'
  BY <1>3, <1>6, SameLockstep DEF Pending
<1> QED BY <1>3, <1>4, <1>6, <1>7 DEF Inv, TypeOK, Asked

\* Answering: the mirror goes where its usage point is.
LEMMA FinishPointFacts ==
  ASSUME Inv, NEW heard \in BOOLEAN, FinishPoint(heard)
  PROVE  /\ mups' \in Seq(Mup) /\ Lockstep'
         /\ UNCHANGED <<points, told>> /\ request' = Idle
         /\ \E h \in Mirror :
              /\ location' = IF heard THEN [location EXCEPT ![request.device] = h] ELSE location
              /\ current' = IF heard THEN current \cup {request.device} ELSE current
              /\ \E j \in DOMAIN mups' : /\ mups'[j].href = h
                                         /\ mups'[j].mRID = PointOf[request.device]
         /\ DOMAIN mups \subseteq DOMAIN mups'
         /\ \A j \in DOMAIN mups : /\ mups'[j].href = mups[j].href
                                   /\ mups'[j].mRID = mups[j].mRID
         /\ \A j \in DOMAIN mups' :
              \/ j \in DOMAIN mups /\ mups'[j] = mups[j]
              \/ mups'[j].mRID = request.mup.mRID /\ mups'[j].readings = request.mup.readings
<1> DEFINE m == request.mup.mRID
           i == First(ByMRID(mups, m))
           h == IF request.created
                THEN MirrorHref(points[First(ByMRID(points, m))].href) ELSE mups[i].href
           mup == [mRID |-> m, href |-> h, payload |-> request.mup.payload,
                   readings |-> request.mup.readings]
           n == Len(mups)
<1>1. /\ points \in Seq(Wrapper) /\ mups \in Seq(Mup)
      /\ Len(points) \in Nat /\ n \in Nat
      /\ DOMAIN points = 1 .. Len(points) /\ DOMAIN mups = 1 .. n
  BY LenProperties DEF Inv, TypeOK
<1>2. /\ request # Idle /\ request \in Request /\ m \in MRID
      /\ request.mup \in [mRID : MRID, payload : Payload, readings : Seq(Reading)]
      /\ request.created \in BOOLEAN /\ Contains(m) /\ m = PointOf[request.device]
  BY DEF FinishPoint, Inv, TypeOK, Asked, Request
<1>3. /\ mups' = IF request.created THEN Append(mups, mup) ELSE [mups EXCEPT ![i] = mup]
      /\ location' = IF heard THEN [location EXCEPT ![request.device] = h] ELSE location
      /\ current' = IF heard THEN current \cup {request.device} ELSE current
      /\ UNCHANGED <<points, told>> /\ request' = Idle
  BY DEF FinishPoint
<1>4. Pending' = 0
  BY <1>3 DEF Pending
<1>5. /\ Len(points) = n + Pending
      /\ \A j \in 1 .. Len(points) : points[j].href = BaseHref(j - 1)
      /\ \A j \in 1 .. n : mups[j].href = MirrorHref(points[j].href) /\ mups[j].mRID = points[j].mRID
      /\ \A j, k \in 1 .. Len(points) : points[j].mRID = points[k].mRID => j = k
  BY <1>1 DEF Inv, Lockstep
<1>6. ByMRID(points, m) \in SUBSET (1 .. Len(points)) /\ ByMRID(mups, m) \in SUBSET (1 .. n)
  BY <1>1 DEF ByMRID
<1> HIDE DEF m
<1>7. CASE request.created
  <2>1. Pending = 1 /\ Len(points) = n + 1
    BY <1>2, <1>5, <1>7 DEF Pending
  <2>2. points[n + 1].mRID = m /\ n + 1 \in 1 .. Len(points)
    BY <1>1, <1>2, <1>7, <2>1 DEF Inv, Asked, m
  <2>3. ByMRID(points, m) = {n + 1}
    BY <1>1, <1>5, <2>2 DEF ByMRID
  <2>4. First(ByMRID(points, m)) = n + 1
    <3>1. First(ByMRID(points, m)) \in ByMRID(points, m)
      BY <1>1, <1>6, <2>3, FirstMatch
    <3> QED BY <2>3, <3>1
  <2>5. h = MirrorHref(points[n + 1].href) /\ h \in Mirror
    <3>1. points[n + 1] \in Wrapper
      BY <1>1, <2>2, ElementOfSeq
    <3> QED BY <1>7, <2>4, <3>1 DEF Wrapper, UsagePoint, MirrorHref, Mirror
  <2>6. mup \in Mup /\ mup.mRID = m /\ mup.href = h
    BY <1>2, <2>5 DEF Mup
  <2> HIDE DEF mup, h
  <2>7. /\ mups' \in Seq(Mup) /\ Len(mups') = n + 1 /\ DOMAIN mups' = 1 .. n + 1
        /\ \A j \in 1 .. n : mups'[j] = mups[j]
        /\ mups'[n + 1] = mup
    BY <1>1, <1>3, <1>7, <2>6, AppendProperties, LenProperties
  <2>8. \A j \in 1 .. n + 1 : mups'[j].href = MirrorHref(points[j].href) /\ mups'[j].mRID = points[j].mRID
    <3>1. \A j \in 1 .. n + 1 : j \in 1 .. n \/ j = n + 1
      BY <1>1
    <3> QED BY <1>5, <2>2, <2>5, <2>6, <2>7, <3>1
  <2>9. Lockstep'
    BY <1>1, <1>3, <1>4, <1>5, <2>1, <2>7, <2>8 DEF Lockstep
  <2>10. n + 1 \in DOMAIN mups' /\ mups'[n + 1].href = h /\ mups'[n + 1].mRID = m
    BY <1>1, <2>6, <2>7
  <2>11. \A j \in DOMAIN mups' : \/ j \in DOMAIN mups /\ mups'[j] = mups[j]
                                 \/ mups'[j].mRID = m /\ mups'[j].readings = request.mup.readings
    <3>1. mup.readings = request.mup.readings
      BY DEF mup
    <3> SUFFICES ASSUME NEW j \in 1 .. n + 1
                 PROVE  \/ j \in 1 .. n /\ mups'[j] = mups[j]
                        \/ mups'[j].mRID = m /\ mups'[j].readings = request.mup.readings
      BY <1>1, <2>7
    <3>2. CASE j \in 1 .. n
      BY <2>7, <3>2
    <3>3. CASE j = n + 1
      BY <2>6, <2>7, <3>1, <3>3
    <3> QED BY <1>1, <3>2, <3>3
  <2>12. \E g \in Mirror :
           /\ location' = IF heard THEN [location EXCEPT ![request.device] = g] ELSE location
           /\ current' = IF heard THEN current \cup {request.device} ELSE current
           /\ \E j \in DOMAIN mups' : /\ mups'[j].href = g
                                      /\ mups'[j].mRID = PointOf[request.device]
    BY <1>2, <1>3, <2>5, <2>10
  <2>13. /\ DOMAIN mups \subseteq DOMAIN mups'
         /\ \A j \in DOMAIN mups : mups'[j] = mups[j]
    BY <1>1, <2>7
  <2> QED BY <1>3, <2>7, <2>9, <2>11, <2>12, <2>13 DEF m
<1>8. CASE ~request.created
  <2>1. Pending = 0 /\ Len(points) = n
    BY <1>1, <1>5, <1>8 DEF Pending
  <2>2. ByMRID(mups, m) # {}
    BY <1>1, <1>2, <1>5, <2>1 DEF ByMRID, Contains
  <2>3. i \in 1 .. n /\ mups[i] \in Mup /\ mups[i].mRID = m
    <3>1. i \in ByMRID(mups, m) /\ i \in 1 .. n /\ mups[i] \in Mup
      BY <1>1, <1>6, <2>2, FirstMatch
    <3> QED BY <3>1 DEF ByMRID
  <2> HIDE DEF i
  <2>4. h = mups[i].href /\ h \in Mirror
    BY <1>8, <2>3 DEF Mup
  <2>5. mup \in Mup /\ mup.mRID = m /\ mup.href = h
    BY <1>2, <2>4 DEF Mup
  <2> HIDE DEF mup, h
  <2>6. /\ mups' \in Seq(Mup) /\ Len(mups') = n /\ DOMAIN mups' = 1 .. n
        /\ \A j \in 1 .. n : mups'[j] = IF j = i THEN mup ELSE mups[j]
    BY <1>1, <1>3, <1>8, <2>3, <2>5, ExceptSeq, LenProperties
  <2>7. \A j \in 1 .. n : mups'[j].href = mups[j].href /\ mups'[j].mRID = mups[j].mRID
    BY <2>3, <2>4, <2>5, <2>6
  <2>8. Lockstep'
    <3>1. points' = points /\ Len(points') = Len(mups') + Pending'
      <4>1. points' = points /\ Pending' = 0 /\ Len(mups') = n /\ n \in Nat
        BY <1>1, <1>3, <1>4, <2>6
      <4>2. Len(points') = n
        BY <2>1, <4>1
      <4> HIDE DEF n
      <4> QED BY <4>1, <4>2
    <3>2. \A j \in 1 .. n : /\ mups'[j].href = MirrorHref(points[j].href)
                            /\ mups'[j].mRID = points[j].mRID
      BY <1>5, <2>7
    <3> QED BY <1>1, <1>5, <2>6, <3>1, <3>2 DEF Lockstep
  <2>9. i \in DOMAIN mups' /\ mups'[i].href = h /\ mups'[i].mRID = m
    BY <2>3, <2>5, <2>6
  <2>10. \A j \in DOMAIN mups' : \/ j \in DOMAIN mups /\ mups'[j] = mups[j]
                                 \/ mups'[j].mRID = m /\ mups'[j].readings = request.mup.readings
    <3>1. mup.readings = request.mup.readings
      BY DEF mup
    <3> QED BY <1>1, <2>5, <2>6, <3>1
  <2>11. \E g \in Mirror :
           /\ location' = IF heard THEN [location EXCEPT ![request.device] = g] ELSE location
           /\ current' = IF heard THEN current \cup {request.device} ELSE current
           /\ \E j \in DOMAIN mups' : /\ mups'[j].href = g
                                      /\ mups'[j].mRID = PointOf[request.device]
    BY <1>2, <1>3, <2>4, <2>9
  <2>12. /\ DOMAIN mups \subseteq DOMAIN mups'
         /\ \A j \in DOMAIN mups : mups'[j].href = mups[j].href /\ mups'[j].mRID = mups[j].mRID
    BY <1>1, <2>6, <2>7
  <2> QED BY <1>3, <2>6, <2>8, <2>10, <2>11, <2>12 DEF m
<1> QED BY <1>2, <1>7, <1>8

LEMMA FinishPointInv ==
  ASSUME Inv, NEW heard \in BOOLEAN, FinishPoint(heard)
  PROVE  Inv'
<1>1. location' \in [Device -> Mirror \cup {NoHref}]
  BY FinishPointFacts DEF Inv, TypeOK
<1>2. request.device \in Device
  BY DEF FinishPoint, Inv, TypeOK, Request
<1>3. current' \subseteq Device
  BY <1>2, FinishPointFacts DEF Inv, TypeOK
<1> QED BY <1>1, <1>3, FinishPointFacts DEF Inv, TypeOK, Asked

LEMMA RestartInv ==
  ASSUME Inv, Restart
  PROVE  Inv'
<1>1. Len(<<>>) = 0 /\ DOMAIN <<>> = {}
  BY EmptySeq, LenProperties
<1>2. TypeOK'
  BY EmptySeq DEF Restart, Inv, TypeOK
<1> QED BY <1>1, <1>2 DEF Restart, Inv, Lockstep, Pending, Asked

LEMMA StepInv ==
  ASSUME Inv, [Next]_vars
  PROVE  Inv'
<1>1. CASE UNCHANGED vars
  BY <1>1 DEF vars, Inv, TypeOK, Lockstep, Pending, Asked, Contains, ByMRID
<1>2. CASE \E d \in Device : RefuseReading(d)
  BY <1>1, <1>2 DEF RefuseReading
<1> QED BY <1>1, <1>2, PostPointInv, EmbedReadingInv, FinishPointInv, PostReadingInv, RestartInv
        DEF Next

\* Every variable keeps its type.
THEOREM MirrorTypeCorrect == Spec => []TypeOK
<1>1. Init => Inv
  BY InitInv
<1>2. Inv /\ [Next]_vars => Inv'
  BY StepInv
<1>3. Inv => TypeOK
  BY DEF Inv
<1> QED BY <1>1, <1>2, <1>3, PTL DEF Spec

\* The usage points and their mirrors stay parallel (mupupt.py 229-243), for
\* any number of devices, with retries, lost answers and restarts.
THEOREM ListsParallel == Spec => []Lockstep
<1>1. Init => Inv
  BY InitInv
<1>2. Inv /\ [Next]_vars => Inv'
  BY StepInv
<1>3. Inv => Lockstep
  BY DEF Inv
<1> QED BY <1>1, <1>2, <1>3, PTL DEF Spec

-----------------------------------------------------------------------------
(* What a device was told by the running process. *)

Told == \A d \in current :
  \E j \in DOMAIN mups : mups[j].href = location[d] /\ mups[j].mRID = PointOf[d]

LEMMA ToldStep ==
  ASSUME Inv, Told, [Next]_vars
  PROVE  Told'
<1>1. CASE UNCHANGED <<mups, location, current>>
  BY <1>1 DEF Told
<1>2. ASSUME NEW heard \in BOOLEAN, FinishPoint(heard)
      PROVE  Told'
  <2>1. PICK h \in Mirror :
          /\ location' = IF heard THEN [location EXCEPT ![request.device] = h] ELSE location
          /\ current' = IF heard THEN current \cup {request.device} ELSE current
          /\ \E j \in DOMAIN mups' : /\ mups'[j].href = h
                                     /\ mups'[j].mRID = PointOf[request.device]
    BY <1>2, FinishPointFacts
  <2>2. /\ DOMAIN mups \subseteq DOMAIN mups'
        /\ \A j \in DOMAIN mups : /\ mups'[j].href = mups[j].href
                                  /\ mups'[j].mRID = mups[j].mRID
    BY <1>2, FinishPointFacts
  <2>3. location \in [Device -> Mirror \cup {NoHref}] /\ current \subseteq Device
        /\ request.device \in Device
    BY <1>2 DEF FinishPoint, Inv, TypeOK, Request
  <2> SUFFICES ASSUME NEW d \in current'
               PROVE  \E j \in DOMAIN mups' : /\ mups'[j].href = location'[d]
                                              /\ mups'[j].mRID = PointOf[d]
    BY DEF Told
  <2>4. CASE heard /\ d = request.device
    <3>1. location'[d] = h
      BY <2>1, <2>3, <2>4
    <3> QED BY <2>1, <2>4, <3>1
  <2>5. CASE ~(heard /\ d = request.device)
    <3>1. location'[d] = location[d] /\ d \in current
      BY <2>1, <2>3, <2>5
    <3> QED BY <2>2, <3>1 DEF Told
  <2> QED BY <2>4, <2>5
<1>3. CASE Restart
  BY <1>3 DEF Restart, Told
<1> QED BY <1>1, <1>2, <1>3 DEF Next, vars, PostPoint, EmbedReading, PostReading, RefuseReading

LEMMA ToldOwn == Inv /\ Told => OwnPoint
<1> SUFFICES ASSUME Inv, Told, NEW d \in current
             PROVE  LET at == ByHref(points, PointHref(location[d]))
                    IN  at # {} /\ points[First(at)].mRID = PointOf[d]
  BY DEF OwnPoint
<1> DEFINE at == ByHref(points, PointHref(location[d]))
<1>1. PICK j \in DOMAIN mups : mups[j].href = location[d] /\ mups[j].mRID = PointOf[d]
  BY DEF Told
<1>2. /\ points \in Seq(Wrapper) /\ Len(points) \in Nat /\ Len(mups) \in Nat
      /\ DOMAIN points = 1 .. Len(points) /\ DOMAIN mups = 1 .. Len(mups)
  BY LenProperties DEF Inv, TypeOK
<1>3. Len(mups) <= Len(points)
  <2>1. Pending \in {0, 1}
    BY DEF Pending
  <2> QED BY <1>2, <2>1 DEF Inv, Lockstep
<1>4. j \in DOMAIN points
  BY <1>2, <1>3
<1>5. /\ points[j].mRID = PointOf[d] /\ location[d] = MirrorHref(points[j].href)
      /\ \A i \in DOMAIN points : points[i].href = BaseHref(i - 1)
  BY <1>1 DEF Inv, Lockstep
<1>6. PointHref(location[d]) = BaseHref(j - 1)
  BY <1>4, <1>5 DEF PointHref, MirrorHref, BaseHref
<1>7. at = {j}
  <2>1. \A i \in DOMAIN points : BaseHref(i - 1) = BaseHref(j - 1) => i = j
    BY <1>2, <1>4 DEF BaseHref
  <2> QED BY <1>4, <1>5, <1>6, <2>1 DEF ByHref
<1>8. First(at) \in at
  BY <1>2, <1>4, <1>7, FirstMatch
<1> QED BY <1>5, <1>7, <1>8

\* The href a device was told by the running process leads to the usage point
\* it registered, whoever posted in between, whatever answers were lost and
\* whoever still uses an href from before a restart (mupupt.py 223-245, 267-269).
THEOREM OwnPointCorrect == Spec => []OwnPoint
<1>1. Init => Inv /\ Told
  BY InitInv DEF Init, Told
<1>2. Inv /\ Told /\ [Next]_vars => (Inv /\ Told)'
  BY StepInv, ToldStep
<1>3. Inv /\ Told => OwnPoint
  BY ToldOwn
<1> QED BY <1>1, <1>2, <1>3, PTL DEF Spec

-----------------------------------------------------------------------------
(* What create_or_replace_reading does to the readings of a usage point. *)

\* What a usage point holds of a reading.
ValueOf(w, m) ==
  IF ByReading(w, m) # {} THEN w.readings[First(ByReading(w, m))].reading.value ELSE NoValue

\* The readings and the MeterReadings of one usage point: the n-th has the href
\* number n - 1 of its list, and no mRID comes twice.
Parallel(w) ==
  /\ Len(w.meterReadings) = Len(w.readings)
  /\ \A j \in DOMAIN w.readings : /\ w.readings[j].href = ListItemHref(w.href, j - 1)
                                  /\ w.meterReadings[j].link = w.readings[j].href
  /\ \A j, k \in DOMAIN w.readings :
       w.readings[j].reading.mRID = w.readings[k].reading.mRID => j = k

\* Every reading of w is a reading of x, at its place and with its href.
Grows(w, x) == \A j \in DOMAIN w.readings :
  /\ j \in DOMAIN x.readings
  /\ x.readings[j].href = w.readings[j].href
  /\ x.readings[j].reading.mRID = w.readings[j].reading.mRID

\* A known mRID: its reading gives way to the new one and nothing else moves.
LEMMA ReadingReplaced ==
  ASSUME NEW w \in Wrapper, NEW r \in Reading, Answer(w, r) = "NO_CONTENT",
         NEW x, x = CreateOrReplaceReading(w, r)
  PROVE  /\ Grows(w, x)
         /\ \A m : ByReading(x, m) = ByReading(w, m)
         /\ \A m : m # r.mRID => ValueOf(x, m) = ValueOf(w, m)
         /\ ValueOf(x, r.mRID) = r.value
         /\ Parallel(w) => Parallel(x)
<1> DEFINE j == First(ByReading(w, r.mRID))
           new == [w.readings[j] EXCEPT !.reading = r]
           list == [w.readings EXCEPT ![j] = new]
<1>1. w.readings \in Seq(Stored) /\ DOMAIN w.readings = 1 .. Len(w.readings)
  BY LenProperties DEF Wrapper
<1>2. ByReading(w, r.mRID) # {}
  BY DEF Answer
<1>3. j \in 1 .. Len(w.readings) /\ w.readings[j] \in Stored /\ w.readings[j].reading.mRID = r.mRID
  <2>1. ByReading(w, r.mRID) \in SUBSET (DOMAIN w.readings)
    BY DEF ByReading
  <2>2. j \in ByReading(w, r.mRID) /\ j \in 1 .. Len(w.readings) /\ w.readings[j] \in Stored
    BY <1>1, <1>2, <2>1, FirstMatch
  <2> QED BY <2>2 DEF ByReading
<1>4. x = [w EXCEPT !.readings = list]
  BY DEF CreateOrReplaceReading, ReplaceReading, Wrapper
<1> HIDE DEF j
<1>5. new \in Stored /\ new.reading = r /\ new.href = w.readings[j].href
  BY <1>3 DEF Stored
<1> HIDE DEF new
<1>6. /\ Len(list) = Len(w.readings) /\ DOMAIN list = DOMAIN w.readings
      /\ \A k \in DOMAIN w.readings : list[k] = IF k = j THEN new ELSE w.readings[k]
  BY <1>1, <1>3, <1>5, ExceptSeq
<1> HIDE DEF list
<1>7. x.readings = list /\ x.meterReadings = w.meterReadings /\ x.href = w.href
  BY <1>4 DEF Wrapper
<1>8. \A k \in DOMAIN w.readings : /\ list[k].href = w.readings[k].href
                                   /\ list[k].reading.mRID = w.readings[k].reading.mRID
  BY <1>3, <1>5, <1>6
<1>9. \A m : ByReading(x, m) = ByReading(w, m)
  BY <1>6, <1>7, <1>8 DEF ByReading
<1>10. ASSUME NEW m, m # r.mRID PROVE ValueOf(x, m) = ValueOf(w, m)
  <2>1. CASE ByReading(w, m) = {}
    BY <1>9, <2>1 DEF ValueOf
  <2>2. CASE ByReading(w, m) # {}
    <3>1. ByReading(w, m) \in SUBSET (DOMAIN w.readings)
      BY DEF ByReading
    <3>2. First(ByReading(w, m)) \in ByReading(w, m)
      BY <1>1, <2>2, <3>1, FirstMatch
    <3>3. First(ByReading(w, m)) \in DOMAIN w.readings /\ First(ByReading(w, m)) # j
      BY <1>3, <1>10, <3>2 DEF ByReading
    <3> QED BY <1>6, <1>7, <1>9, <3>3 DEF ValueOf
  <2> QED BY <2>1, <2>2
<1>11. ValueOf(x, r.mRID) = r.value
  <2>1. First(ByReading(x, r.mRID)) = j /\ list[j] = new
    BY <1>1, <1>3, <1>6, <1>9 DEF j
  <2> QED BY <1>2, <1>5, <1>7, <1>9, <2>1 DEF ValueOf
<1>12. Grows(w, x)
  BY <1>6, <1>7, <1>8 DEF Grows
<1>13. Parallel(w) => Parallel(x)
  BY <1>6, <1>7, <1>8 DEF Parallel
<1> QED BY <1>9, <1>10, <1>11, <1>12, <1>13

\* A new mRID: a reading and its MeterReading are appended, with the next href.
LEMMA ReadingAppended ==
  ASSUME NEW w \in Wrapper, NEW r \in Reading, Answer(w, r) = "CREATED",
         NEW x, x = CreateOrReplaceReading(w, r)
  PROVE  /\ Grows(w, x)
         /\ \A m : m # r.mRID => ValueOf(x, m) = ValueOf(w, m)
         /\ ByReading(x, r.mRID) # {} /\ ValueOf(x, r.mRID) = r.value
         /\ Parallel(w) => Parallel(x)
<1> DEFINE n == Len(w.readings)
           q == Len(w.meterReadings)
           link == ListItemHref(w.href, q)
           meter == [href |-> ListHref(w.href), typeLink |-> ReadingTypeHref(w.href, q),
                     link |-> link]
           new == [reading |-> r, href |-> link]
           meters == Append(w.meterReadings, meter)
           list == Append(w.readings, new)
<1>1. /\ w.readings \in Seq(Stored) /\ n \in Nat /\ DOMAIN w.readings = 1 .. n
      /\ w.meterReadings \in Seq(MeterReading) /\ q \in Nat
      /\ w.href \in UsagePoint
  BY LenProperties DEF Wrapper
<1>2. ByReading(w, r.mRID) = {}
  BY DEF Answer
<1>3. x = [w EXCEPT !.meterReadings = meters, !.readings = list]
  BY DEF CreateOrReplaceReading, NewReading, Wrapper
<1>4. new \in Stored /\ meter \in MeterReading
  <2>1. link \in ReadingHref /\ ListHref(w.href) \in ReadingListHref
    BY <1>1 DEF UsagePoint, ListItemHref, ListHref, ReadingHref, ReadingListHref
  <2> QED BY <2>1 DEF MeterReading, Stored, ReadingTypeHref
<1>5. new.reading = r /\ new.href = link /\ meter.link = link
  OBVIOUS
<1> HIDE DEF new, meter
<1>6. /\ Len(list) = n + 1 /\ DOMAIN list = 1 .. n + 1
      /\ \A k \in 1 .. n : list[k] = w.readings[k]
      /\ list[n + 1] = new
  BY <1>1, <1>4, AppendProperties, LenProperties
<1>7. /\ Len(meters) = q + 1
      /\ \A k \in 1 .. q : meters[k] = w.meterReadings[k]
      /\ meters[q + 1] = meter
  BY <1>1, <1>4, AppendProperties
<1> HIDE DEF list, meters, n, q
<1>8. x.readings = list /\ x.meterReadings = meters /\ x.href = w.href
  BY <1>3 DEF Wrapper
<1>9. \A k \in 1 .. n + 1 : k \in 1 .. n \/ k = n + 1
  BY <1>1
<1>10. \A k \in 1 .. n : k \in 1 .. n + 1
  BY <1>1
<1>11. Grows(w, x)
  BY <1>1, <1>6, <1>8, <1>10 DEF Grows
<1>12. ASSUME NEW m, m # r.mRID PROVE ValueOf(x, m) = ValueOf(w, m)
  <2>1. ByReading(x, m) = ByReading(w, m)
    BY <1>1, <1>5, <1>6, <1>8, <1>9, <1>10, <1>12 DEF ByReading
  <2>2. CASE ByReading(w, m) = {}
    BY <2>1, <2>2 DEF ValueOf
  <2>3. CASE ByReading(w, m) # {}
    <3>1. ByReading(w, m) \in SUBSET (DOMAIN w.readings)
      BY DEF ByReading
    <3>2. First(ByReading(w, m)) \in 1 .. n
      BY <1>1, <2>3, <3>1, FirstMatch DEF n
    <3> QED BY <1>6, <1>8, <2>1, <3>2 DEF ValueOf
  <2> QED BY <2>2, <2>3
<1>13. ByReading(x, r.mRID) # {} /\ ValueOf(x, r.mRID) = r.value
  <2>1. n + 1 \in 1 .. n + 1
    BY <1>1
  <2>2. \A k \in 1 .. n : w.readings[k].reading.mRID # r.mRID
    BY <1>1, <1>2 DEF ByReading
  <2>3. ByReading(x, r.mRID) = {n + 1}
    BY <1>5, <1>6, <1>8, <1>9, <2>1, <2>2 DEF ByReading
  <2>4. First({n + 1}) = n + 1
    <3>1. {n + 1} \in SUBSET Nat
      BY <1>1
    <3>2. First({n + 1}) \in {n + 1}
      BY <3>1, FirstLeast
    <3> QED BY <3>2
  <2> QED BY <1>5, <1>6, <1>8, <2>3, <2>4 DEF ValueOf
<1>14. ASSUME Parallel(w) PROVE Parallel(x)
  <2>1. q = n
    BY <1>14 DEF Parallel, q, n
  <2>2. ASSUME NEW k \in 1 .. n + 1
        PROVE  /\ list[k].href = ListItemHref(w.href, k - 1)
               /\ meters[k].link = list[k].href
    <3>1. CASE k \in 1 .. n
      BY <1>1, <1>6, <1>7, <1>14, <2>1, <3>1 DEF Parallel
    <3>2. CASE k = n + 1
      <4>1. k - 1 = n
        BY <1>1, <3>2
      <4> QED BY <1>5, <1>6, <1>7, <2>1, <3>2, <4>1
    <3> QED BY <1>9, <3>1, <3>2
  <2>3. ASSUME NEW k \in 1 .. n + 1, NEW l \in 1 .. n + 1,
               list[k].reading.mRID = list[l].reading.mRID
        PROVE  k = l
    <3>1. \A i \in 1 .. n : w.readings[i].reading.mRID # r.mRID
      BY <1>1, <1>2 DEF ByReading
    <3>2. \A i, i2 \in 1 .. n :
            w.readings[i].reading.mRID = w.readings[i2].reading.mRID => i = i2
      BY <1>1, <1>14 DEF Parallel
    <3> QED BY <1>5, <1>6, <1>9, <2>3, <3>1, <3>2
  <2> QED BY <1>6, <1>7, <1>8, <2>1, <2>2, <2>3 DEF Parallel
<1> QED BY <1>11, <1>12, <1>13, <1>14

\* Both, and the answers that store nothing.
LEMMA ReadingStored ==
  ASSUME NEW w \in Wrapper, NEW r \in Reading, NEW x, x = CreateOrReplaceReading(w, r)
  PROVE  /\ Grows(w, x)
         /\ \A m : m # r.mRID => ValueOf(x, m) = ValueOf(w, m)
         /\ Answer(w, r) \in {"CREATED", "NO_CONTENT"} => ValueOf(x, r.mRID) = r.value
         /\ Answer(w, r) \notin {"CREATED", "NO_CONTENT"} => x = w
         /\ r.typed => ByReading(x, r.mRID) # {}
         /\ Parallel(w) => Parallel(x)
<1>1. CASE Answer(w, r) = "NO_CONTENT"
  <2>1. ByReading(w, r.mRID) # {}
    BY <1>1 DEF Answer
  <2> QED BY <1>1, <2>1, ReadingReplaced
<1>2. CASE Answer(w, r) = "CREATED"
  BY <1>2, ReadingAppended
<1>3. CASE Answer(w, r) \notin {"CREATED", "NO_CONTENT"}
  <2>1. x = w
    BY <1>3 DEF CreateOrReplaceReading
  <2>2. ~r.typed
    BY <1>3 DEF Answer, Reading, Kinds
  <2> QED BY <1>3, <2>1, <2>2 DEF Grows
<1> QED BY <1>1, <1>2, <1>3

-----------------------------------------------------------------------------
(* What a request does to the list of usage points. *)

AllParallel == \A i \in DOMAIN points : Parallel(points[i])

LEMMA PointPosted ==
  ASSUME Inv, NEW d \in Device, NEW e \in Embedded, NEW p \in Payload, PostPoint(d, e, p)
  PROVE  /\ DOMAIN points \subseteq DOMAIN points'
         /\ \A i \in DOMAIN points :
              /\ points'[i].mRID = points[i].mRID
              /\ points'[i].href = points[i].href
              /\ points'[i].readings = points[i].readings
              /\ points'[i].meterReadings = points[i].meterReadings
         /\ Contains(PointOf[d]) => DOMAIN points' = DOMAIN points
         /\ ~Contains(PointOf[d]) =>
              /\ DOMAIN points' = DOMAIN points \cup {Len(points) + 1}
              /\ Len(points) + 1 \notin DOMAIN points
              /\ points'[Len(points) + 1].mRID = PointOf[d]
              /\ points'[Len(points) + 1].readings = <<>>
              /\ points'[Len(points) + 1].meterReadings = <<>>
<1> DEFINE m == PointOf[d]
           n == Len(points)
<1>1. points \in Seq(Wrapper) /\ n \in Nat /\ DOMAIN points = 1 .. n
  BY LenProperties DEF Inv, TypeOK
<1>2. m \in MRID
  BY DeviceAssumption
<1>3. CASE Contains(m)
  <2> DEFINE i == First(ByMRID(points, m))
             new == [points[i] EXCEPT !.description = <<p>>, !.status = p]
  <2>1. i \in 1 .. n /\ points[i] \in Wrapper
    <3>1. ByMRID(points, m) \in SUBSET (DOMAIN points)
      BY DEF ByMRID
    <3> QED BY <1>1, <1>3, <3>1, FirstMatch DEF Contains
  <2>2. points' = [points EXCEPT ![i] = new]
    BY <1>3 DEF PostPoint
  <2> HIDE DEF i
  <2>3. /\ new \in Wrapper /\ new.mRID = points[i].mRID /\ new.href = points[i].href
        /\ new.readings = points[i].readings /\ new.meterReadings = points[i].meterReadings
    <3>1. <<p>> \in Seq(Payload)
      OBVIOUS
    <3> QED BY <2>1, <3>1 DEF Wrapper
  <2> HIDE DEF new
  <2>4. DOMAIN points' = 1 .. n /\ \A j \in 1 .. n : points'[j] = IF j = i THEN new ELSE points[j]
    BY <1>1, <2>1, <2>2, <2>3, ExceptSeq, LenProperties
  <2> QED BY <1>1, <1>3, <2>3, <2>4
<1>4. CASE ~Contains(m)
  <2> DEFINE wrapper == [mRID |-> m, href |-> BaseHref(n), status |-> p,
                         description |-> p, meterReadings |-> <<>>, readings |-> <<>>]
  <2>1. wrapper \in Wrapper
    BY <1>1, <1>2, EmptySeq DEF Wrapper, BaseHref, UsagePoint
  <2>2. points' = Append(points, wrapper)
    BY <1>4 DEF PostPoint
  <2>3. wrapper.mRID = m /\ wrapper.readings = <<>> /\ wrapper.meterReadings = <<>>
    OBVIOUS
  <2> HIDE DEF wrapper
  <2>4. /\ points' \in Seq(Wrapper) /\ Len(points') = n + 1
        /\ \A j \in 1 .. n : points'[j] = points[j]
        /\ points'[n + 1] = wrapper
    BY <1>1, <2>1, <2>2, AppendProperties
  <2>5. DOMAIN points' = 1 .. n + 1
    BY <2>4, LenProperties
  <2>6. 1 .. n + 1 = (1 .. n) \cup {n + 1} /\ n + 1 \notin 1 .. n
    BY <1>1
  <2> QED BY <1>1, <1>4, <2>3, <2>4, <2>5, <2>6
<1> QED BY <1>3, <1>4

\* A reading goes into one usage point, and leaves the others as they were.
LEMMA ReadingIn ==
  ASSUME points \in Seq(Wrapper), NEW i \in DOMAIN points, NEW r \in Reading,
         points' = [points EXCEPT ![i] = CreateOrReplaceReading(points[i], r)]
  PROVE  /\ DOMAIN points' = DOMAIN points
         /\ points[i] \in Wrapper
         /\ points'[i] = CreateOrReplaceReading(points[i], r)
         /\ \A k \in DOMAIN points : k # i => points'[k] = points[k]
         /\ \A k \in DOMAIN points : /\ points'[k].mRID = points[k].mRID
                                     /\ points'[k].href = points[k].href
                                     /\ Grows(points[k], points'[k])
         /\ AllParallel => AllParallel'
<1> DEFINE new == CreateOrReplaceReading(points[i], r)
<1>1. DOMAIN points = 1 .. Len(points) /\ points[i] \in Wrapper
  BY LenProperties, ElementOfSeq
<1>2. new \in Wrapper /\ new.mRID = points[i].mRID /\ new.href = points[i].href
  BY <1>1, ReadingTypes
<1>3. Grows(points[i], new) /\ (Parallel(points[i]) => Parallel(new))
  BY <1>1, ReadingStored
<1> HIDE DEF new
<1>4. DOMAIN points' = DOMAIN points /\ \A j \in DOMAIN points : points'[j] = IF j = i THEN new ELSE points[j]
  <2>1. points' = [points EXCEPT ![i] = new]
    BY DEF new
  <2> QED BY <1>1, <1>2, <2>1, ExceptSeq, LenProperties
<1>5. \A w : Grows(w, w)
  BY DEF Grows
<1>6. points'[i] = new /\ \A k \in DOMAIN points : k # i => points'[k] = points[k]
  BY <1>4
<1>7. ASSUME NEW k \in DOMAIN points
      PROVE  /\ points'[k].mRID = points[k].mRID
             /\ points'[k].href = points[k].href
             /\ Grows(points[k], points'[k])
             /\ Parallel(points[k]) => Parallel(points'[k])
  BY <1>2, <1>3, <1>5, <1>6
<1>8. AllParallel => AllParallel'
  BY <1>4, <1>7 DEF AllParallel
<1> QED BY <1>1, <1>4, <1>6, <1>7, <1>8 DEF new

\* The usage point and the reading of a request in the middle of its loop.
LEMMA EmbeddedIn ==
  ASSUME Inv, EmbedReading
  PROVE  \E i \in DOMAIN points :
           /\ points[i].mRID = request.mup.mRID
           /\ points[i].mRID = PointOf[request.device]
           /\ request.device \in Device /\ request.mup.mRID \in MRID
           /\ Head(request.todo) \in Reading
           /\ points' = [points EXCEPT ![i] = CreateOrReplaceReading(points[i], Head(request.todo))]
           /\ \A k \in DOMAIN points : points[k].mRID = request.mup.mRID => k = i
<1> DEFINE m == request.mup.mRID
           i == First(ByMRID(points, m))
<1>1. points \in Seq(Wrapper) /\ DOMAIN points = 1 .. Len(points)
  BY LenProperties DEF Inv, TypeOK
<1>2. /\ request \in Request /\ request.todo \in Seq(Reading) /\ request.todo # <<>>
      /\ request.device \in Device /\ m \in MRID
      /\ Contains(m) /\ m = PointOf[request.device]
  BY DEF EmbedReading, Inv, TypeOK, Asked, Request
<1>3. i \in DOMAIN points /\ points[i].mRID = m
  <2>1. ByMRID(points, m) \in SUBSET (DOMAIN points)
    BY DEF ByMRID
  <2>2. i \in ByMRID(points, m)
    BY <1>1, <1>2, <2>1, FirstMatch DEF Contains
  <2> QED BY <2>2 DEF ByMRID
<1>4. Head(request.todo) \in Reading
  BY <1>2, HeadTailProperties
<1>5. points' = [points EXCEPT ![i] = CreateOrReplaceReading(points[i], Head(request.todo))]
  BY DEF EmbedReading
<1>6. \A k \in DOMAIN points : points[k].mRID = m => k = i
  BY <1>3 DEF Inv, Lockstep
<1> HIDE DEF i
<1> QED BY <1>2, <1>3, <1>4, <1>5, <1>6

LEMMA PostedIn ==
  ASSUME Inv, NEW d \in Device, NEW r \in Reading, NEW heard \in BOOLEAN,
         PostReading(d, r, heard)
  PROVE  LET i == First(ByHref(points, PointHref(location[d])))
         IN  /\ i \in DOMAIN points
             /\ points' = [points EXCEPT ![i] = CreateOrReplaceReading(points[i], r)]
<1> DEFINE at == ByHref(points, PointHref(location[d]))
<1>1. points \in Seq(Wrapper) /\ DOMAIN points = 1 .. Len(points)
  BY LenProperties DEF Inv, TypeOK
<1>2. at \in SUBSET (DOMAIN points) /\ at # {}
  BY DEF ByHref, PostReading
<1>3. First(at) \in DOMAIN points
  BY <1>1, <1>2, FirstMatch
<1> QED BY <1>3 DEF PostReading

\* Short of a restart, no usage point leaves its place, and no reading its own.
LEMMA PointsGrow ==
  ASSUME Inv, Next, ~Restart
  PROVE  /\ DOMAIN points \subseteq DOMAIN points'
         /\ \A i \in DOMAIN points : /\ points'[i].mRID = points[i].mRID
                                     /\ points'[i].href = points[i].href
                                     /\ Grows(points[i], points'[i])
         /\ AllParallel => AllParallel'
<1>0. \A w : Grows(w, w)
  BY DEF Grows
<1>1. ASSUME NEW d \in Device, NEW e \in Embedded, NEW p \in Payload, PostPoint(d, e, p)
      PROVE  /\ DOMAIN points \subseteq DOMAIN points'
             /\ \A i \in DOMAIN points : /\ points'[i].mRID = points[i].mRID
                                         /\ points'[i].href = points[i].href
                                         /\ Grows(points[i], points'[i])
             /\ AllParallel => AllParallel'
  <2>1. /\ DOMAIN points \subseteq DOMAIN points'
        /\ \A i \in DOMAIN points :
             /\ points'[i].mRID = points[i].mRID
             /\ points'[i].href = points[i].href
             /\ points'[i].readings = points[i].readings
             /\ points'[i].meterReadings = points[i].meterReadings
        /\ \A i \in DOMAIN points' \ DOMAIN points :
             points'[i].readings = <<>> /\ points'[i].meterReadings = <<>>
    BY <1>1, PointPosted
  <2>2. \A i \in DOMAIN points : Grows(points[i], points'[i])
    BY <2>1 DEF Grows
  <2>3. ASSUME AllParallel PROVE AllParallel'
    <3>1. \A i \in DOMAIN points : Parallel(points'[i])
      BY <2>1, <2>3 DEF AllParallel, Parallel
    <3>2. DOMAIN <<>> = {}
      BY EmptySeq, LenProperties
    <3>3. \A i \in DOMAIN points' \ DOMAIN points : Parallel(points'[i])
      BY <2>1, <3>2 DEF Parallel
    <3> QED BY <3>1, <3>3 DEF AllParallel
  <2> QED BY <2>1, <2>2, <2>3
<1>2. CASE EmbedReading
  <2>1. PICK i \in DOMAIN points :
          /\ Head(request.todo) \in Reading
          /\ points' = [points EXCEPT ![i] = CreateOrReplaceReading(points[i], Head(request.todo))]
    BY <1>2, EmbeddedIn
  <2>2. points \in Seq(Wrapper)
    BY DEF Inv, TypeOK
  <2> QED BY <2>1, <2>2, ReadingIn
<1>3. ASSUME NEW d \in Device, NEW r \in Reading, NEW heard \in BOOLEAN, PostReading(d, r, heard)
      PROVE  /\ DOMAIN points \subseteq DOMAIN points'
             /\ \A i \in DOMAIN points : /\ points'[i].mRID = points[i].mRID
                                         /\ points'[i].href = points[i].href
                                         /\ Grows(points[i], points'[i])
             /\ AllParallel => AllParallel'
  <2>1. points \in Seq(Wrapper)
    BY DEF Inv, TypeOK
  <2> QED BY <1>3, <2>1, PostedIn, ReadingIn
<1>4. CASE UNCHANGED points
  BY <1>0, <1>4 DEF AllParallel
<1>5. ASSUME NEW heard \in BOOLEAN, FinishPoint(heard) PROVE UNCHANGED points
  BY <1>5, FinishPointFacts
<1>6. ASSUME NEW d \in Device, RefuseReading(d) PROVE UNCHANGED points
  BY <1>6 DEF RefuseReading, vars
<1> QED BY <1>1, <1>2, <1>3, <1>4, <1>5, <1>6 DEF Next

LEMMA ParallelStep ==
  ASSUME Inv, AllParallel, [Next]_vars
  PROVE  AllParallel'
<1>1. CASE UNCHANGED vars
  BY <1>1 DEF vars, AllParallel
<1>2. CASE Restart
  <2>1. DOMAIN <<>> = {}
    BY EmptySeq, LenProperties
  <2> QED BY <1>2, <2>1 DEF Restart, AllParallel
<1> QED BY <1>1, <1>2, PointsGrow

\* The readings of a usage point and its MeterReadings stay parallel: the n-th
\* link leads to the n-th reading, whatever was replaced, refused or failed in
\* between, and no mRID comes twice (mupupt.py 42-79).
THEOREM ReadingsStayParallel == Spec => []ReadingsParallel
<1>1. Init => Inv /\ AllParallel
  <2>1. DOMAIN <<>> = {}
    BY EmptySeq, LenProperties
  <2> QED BY <2>1, InitInv DEF Init, AllParallel
<1>2. Inv /\ AllParallel /\ [Next]_vars => (Inv /\ AllParallel)'
  BY StepInv, ParallelStep
<1>3. Inv /\ AllParallel => ReadingsParallel
  <2> SUFFICES ASSUME Inv, AllParallel, NEW i \in DOMAIN points
               PROVE  LET w == points[i] IN
                      /\ Len(w.meterReadings) = Len(w.readings)
                      /\ \A j \in DOMAIN w.readings : w.readings[j].href = w.meterReadings[j].link
                      /\ \A j, k \in DOMAIN w.readings :
                           \/ w.readings[j].reading.mRID = w.readings[k].reading.mRID
                           \/ w.readings[j].href = w.readings[k].href
                           => j = k
    BY DEF ReadingsParallel
  <2> DEFINE w == points[i]
  <2>1. Parallel(w) /\ w \in Wrapper
    BY ElementOfSeq, LenProperties DEF AllParallel, Inv, TypeOK
  <2>2. w.readings \in Seq(Stored) /\ DOMAIN w.readings = 1 .. Len(w.readings) /\ Len(w.readings) \in Nat
    BY <2>1, LenProperties DEF Wrapper
  <2> HIDE DEF w
  <2>3. ASSUME NEW j \in DOMAIN w.readings, NEW k \in DOMAIN w.readings,
               w.readings[j].href = w.readings[k].href
        PROVE  j = k
    <3>1. ListItemHref(w.href, j - 1) = ListItemHref(w.href, k - 1)
      BY <2>1, <2>3 DEF Parallel
    <3>2. j - 1 = k - 1
      BY <3>1 DEF ListItemHref
    <3> QED BY <2>2, <3>2
  <2>4. /\ Len(w.meterReadings) = Len(w.readings)
        /\ \A j \in DOMAIN w.readings : w.readings[j].href = w.meterReadings[j].link
        /\ \A j, k \in DOMAIN w.readings :
             w.readings[j].reading.mRID = w.readings[k].reading.mRID => j = k
    BY <2>1 DEF Parallel
  <2> QED BY <2>3, <2>4 DEF w
<1> QED BY <1>1, <1>2, <1>3, PTL DEF Spec

\* While the process runs, a usage point keeps its place, its href and its mRID,
\* and so does every reading in it: the links clients have followed stay good
\* (mupupt.py 42-79, 80-92).
THEOREM HrefsAreStable == Spec => HrefsStable
<1>1. Init => Inv
  BY InitInv
<1>2. Inv /\ [Next]_vars => Inv'
  BY StepInv
<1> DEFINE A == Restart \/ \A i \in DOMAIN points :
             /\ points'[i].href = points[i].href /\ points'[i].mRID = points[i].mRID
             /\ \A j \in DOMAIN points[i].readings :
                  /\ points'[i].readings[j].href = points[i].readings[j].href
                  /\ points'[i].readings[j].reading.mRID = points[i].readings[j].reading.mRID
<1>3. Inv /\ [Next]_vars => [A]_vars
  BY PointsGrow DEF Grows
<1>4. Spec => [][A]_vars
  BY <1>1, <1>2, <1>3, PTL DEF Spec
<1> QED BY <1>4 DEF HrefsStable

-----------------------------------------------------------------------------
(* A reading a device was told is stored. *)

\* While a usage point's readings are being worked off, its device has been
\* told nothing of those that are left.
Awaited == request # Idle =>
  \A n \in DOMAIN request.todo : told[request.device][request.todo[n].mRID] = NoValue

Remembered == \A d \in Device, m \in ReadingMRID : told[d][m] # NoValue =>
  \E i \in DOMAIN points : points[i].mRID = PointOf[d] /\ ValueOf(points[i], m) = told[d][m]

\* What is still to do after a step of the loop.
LEMMA TodoTail ==
  ASSUME Inv, EmbedReading
  PROVE  /\ request' # Idle /\ request'.device = request.device /\ request'.mup = request.mup
         /\ \A n \in DOMAIN request'.todo :
              n + 1 \in DOMAIN request.todo /\ request'.todo[n] = request.todo[n + 1]
         /\ \A n \in DOMAIN request.todo : n # 1 =>
              n - 1 \in DOMAIN request'.todo /\ request'.todo[n - 1] = request.todo[n]
         /\ 1 \in DOMAIN request.todo /\ Head(request.todo) = request.todo[1]
<1> DEFINE s == request.todo
<1>1. request \in Request /\ s \in Seq(Reading) /\ s # <<>>
  BY DEF EmbedReading, Inv, TypeOK, Request
<1>2. request' = [request EXCEPT !.todo = Tail(s)]
  BY DEF EmbedReading
<1> HIDE DEF s
<1>3. Tail(s) \in Seq(Reading)
  BY <1>1, HeadTailProperties
<1>4. /\ request'.todo = Tail(s) /\ request'.device = request.device
      /\ request'.mup = request.mup /\ request' \in Request
  BY <1>1, <1>2, <1>3 DEF Request
<1>5. request' # Idle
  BY <1>4, NothingAssumption
<1>6. /\ Len(s) \in Nat /\ DOMAIN s = 1 .. Len(s) /\ Len(s) # 0
      /\ Len(Tail(s)) = Len(s) - 1 /\ DOMAIN Tail(s) = 1 .. Len(s) - 1
      /\ \A n \in 1 .. Len(s) - 1 : Tail(s)[n] = s[n + 1]
      /\ Head(s) = s[1]
  BY <1>1, <1>3, HeadTailProperties, LenProperties, EmptySeq
<1>7. \A n \in 1 .. Len(s) - 1 : n + 1 \in 1 .. Len(s)
  BY <1>6
<1>8. ASSUME NEW n \in 1 .. Len(s), n # 1
      PROVE  n - 1 \in 1 .. Len(s) - 1 /\ Tail(s)[n - 1] = s[n]
  <2>1. n - 1 \in 1 .. Len(s) - 1 /\ (n - 1) + 1 = n
    BY <1>6, <1>8
  <2> QED BY <1>6, <2>1
<1>9. 1 \in 1 .. Len(s)
  BY <1>6
<1> QED BY <1>4, <1>5, <1>6, <1>7, <1>8, <1>9 DEF s

LEMMA AwaitedStep ==
  ASSUME Inv, Awaited, [Next]_vars
  PROVE  Awaited'
<1>1. CASE UNCHANGED <<request, told>>
  BY <1>1 DEF Awaited
<1>2. ASSUME NEW d \in Device, NEW e \in Embedded, NEW p \in Payload, PostPoint(d, e, p)
      PROVE  Awaited'
  <2>1. /\ request' = [device |-> d, mup |-> [mRID |-> PointOf[d], payload |-> p, readings |-> e],
                       todo |-> e, created |-> ~Contains(PointOf[d])]
        /\ told' = [told EXCEPT ![d] = [m2 \in ReadingMRID |->
                      IF \E i \in DOMAIN e : e[i].mRID = m2 THEN NoValue ELSE told[d][m2]]]
    BY <1>2 DEF PostPoint
  <2>2. e \in Seq(Reading)
    <3>1. {r \in Reading : r.kind = "meter"} \subseteq Reading
      OBVIOUS
    <3> QED BY <3>1, EmbeddedAssumption, SeqMonotonic
  <2>3. request'.todo = e /\ request'.device = d
    BY <2>1
  <2>4. told \in [Device -> [ReadingMRID -> Value \cup {NoValue}]]
    BY DEF Inv, TypeOK
  <2>5. \A m \in ReadingMRID : (\E i \in DOMAIN e : e[i].mRID = m) => told'[d][m] = NoValue
    BY <2>1, <2>4
  <2>6. \A n \in DOMAIN e : e[n].mRID \in ReadingMRID
    BY <2>2, ElementOfSeq, LenProperties DEF Reading
  <2> QED BY <2>3, <2>5, <2>6 DEF Awaited
<1>3. CASE EmbedReading
  <2>1. told' = told /\ request # Idle
    BY <1>3 DEF EmbedReading
  <2> QED BY <1>3, <2>1, TodoTail DEF Awaited
<1>4. ASSUME NEW heard \in BOOLEAN, FinishPoint(heard) PROVE Awaited'
  BY <1>4 DEF FinishPoint, Awaited
<1>5. ASSUME NEW d \in Device, NEW r \in Reading, NEW heard \in BOOLEAN, PostReading(d, r, heard)
      PROVE  Awaited'
  BY <1>5 DEF PostReading, Awaited
<1>6. CASE Restart
  BY <1>6 DEF Restart, Awaited
<1> QED BY <1>1, <1>2, <1>3, <1>4, <1>5, <1>6 DEF Next, vars, RefuseReading

\* Of one usage point, a step that stores r changes what is held of r alone.
LEMMA StoredValue ==
  ASSUME Inv, NEW i \in DOMAIN points, NEW r \in Reading,
         points' = [points EXCEPT ![i] = CreateOrReplaceReading(points[i], r)]
  PROVE  /\ DOMAIN points' = DOMAIN points
         /\ \A k \in DOMAIN points : points'[k].mRID = points[k].mRID
         /\ \A k \in DOMAIN points : \A m : (k # i \/ m # r.mRID)
              => ValueOf(points'[k], m) = ValueOf(points[k], m)
         /\ Answer(points[i], r) \in {"CREATED", "NO_CONTENT"}
              => ValueOf(points'[i], r.mRID) = r.value
         /\ Answer(points[i], r) \notin {"CREATED", "NO_CONTENT"} => points'[i] = points[i]
<1>1. points \in Seq(Wrapper)
  BY DEF Inv, TypeOK
<1>2. /\ DOMAIN points' = DOMAIN points
      /\ points[i] \in Wrapper
      /\ points'[i] = CreateOrReplaceReading(points[i], r)
      /\ \A k \in DOMAIN points : k # i => points'[k] = points[k]
      /\ \A k \in DOMAIN points : points'[k].mRID = points[k].mRID
  BY <1>1, ReadingIn
<1>3. /\ \A m : m # r.mRID => ValueOf(points'[i], m) = ValueOf(points[i], m)
      /\ Answer(points[i], r) \in {"CREATED", "NO_CONTENT"} => ValueOf(points'[i], r.mRID) = r.value
      /\ Answer(points[i], r) \notin {"CREATED", "NO_CONTENT"} => points'[i] = points[i]
  BY <1>2, ReadingStored
<1>4. ASSUME NEW k \in DOMAIN points, NEW m, k # i \/ m # r.mRID
      PROVE  ValueOf(points'[k], m) = ValueOf(points[k], m)
  BY <1>2, <1>3, <1>4
<1> QED BY <1>2, <1>3, <1>4

LEMMA RememberedStep ==
  ASSUME Inv, Told, Awaited, Remembered, [Next]_vars
  PROVE  Remembered'
<1>0. /\ told \in [Device -> [ReadingMRID -> Value \cup {NoValue}]]
      /\ points \in Seq(Wrapper)
  BY DEF Inv, TypeOK
<1>1. CASE UNCHANGED <<points, told>>
  BY <1>1 DEF Remembered
<1>2. ASSUME NEW d \in Device, NEW e \in Embedded, NEW p \in Payload, PostPoint(d, e, p)
      PROVE  Remembered'
  <2>1. told' = [told EXCEPT ![d] = [m2 \in ReadingMRID |->
                   IF \E i \in DOMAIN e : e[i].mRID = m2 THEN NoValue ELSE told[d][m2]]]
    BY <1>2 DEF PostPoint
  <2>2. \A f \in Device, m \in ReadingMRID : told'[f][m] # NoValue => told'[f][m] = told[f][m]
    BY <1>0, <2>1
  <2>3. /\ DOMAIN points \subseteq DOMAIN points'
        /\ \A i \in DOMAIN points : /\ points'[i].mRID = points[i].mRID
                                    /\ points'[i].readings = points[i].readings
    BY <1>2, PointPosted
  <2>4. \A i \in DOMAIN points : \A m : ValueOf(points'[i], m) = ValueOf(points[i], m)
    BY <2>3 DEF ValueOf, ByReading
  <2> QED BY <2>2, <2>3, <2>4 DEF Remembered
<1>3. CASE EmbedReading
  <2> DEFINE r == Head(request.todo)
  <2>1. PICK i \in DOMAIN points :
          /\ points[i].mRID = PointOf[request.device] /\ request.device \in Device
          /\ r \in Reading
          /\ points' = [points EXCEPT ![i] = CreateOrReplaceReading(points[i], r)]
    BY <1>3, EmbeddedIn
  <2>2. told' = told /\ told[request.device][r.mRID] = NoValue
    BY <1>3, TodoTail DEF Awaited, EmbedReading
  <2> HIDE DEF r
  <2> SUFFICES ASSUME NEW d \in Device, NEW m \in ReadingMRID, told[d][m] # NoValue
               PROVE  \E k \in DOMAIN points' :
                        points'[k].mRID = PointOf[d] /\ ValueOf(points'[k], m) = told[d][m]
    BY <2>2 DEF Remembered
  <2>3. PICK k \in DOMAIN points : points[k].mRID = PointOf[d] /\ ValueOf(points[k], m) = told[d][m]
    BY DEF Remembered
  <2>4. k # i \/ m # r.mRID
    BY <2>1, <2>2, <2>3, DeviceAssumption
  <2>5. /\ DOMAIN points' = DOMAIN points
        /\ \A l \in DOMAIN points : points'[l].mRID = points[l].mRID
        /\ \A l \in DOMAIN points : \A x : (l # i \/ x # r.mRID)
             => ValueOf(points'[l], x) = ValueOf(points[l], x)
    BY <2>1, StoredValue
  <2>6. ValueOf(points'[k], m) = ValueOf(points[k], m)
    BY <2>4, <2>5
  <2> QED BY <2>3, <2>5, <2>6
<1>4. ASSUME NEW heard \in BOOLEAN, FinishPoint(heard) PROVE UNCHANGED <<points, told>>
  BY <1>4, FinishPointFacts
<1>5. ASSUME NEW d \in Device, NEW r \in Reading, NEW heard \in BOOLEAN, PostReading(d, r, heard)
      PROVE  Remembered'
  <2> DEFINE i == First(ByHref(points, PointHref(location[d])))
             stored == Answer(points[i], r) \in {"CREATED", "NO_CONTENT"}
  <2>1. i \in DOMAIN points /\ points' = [points EXCEPT ![i] = CreateOrReplaceReading(points[i], r)]
    BY <1>5, PostedIn
  <2>2. told' = IF ~stored THEN told
                ELSE IF d \in current
                THEN [told EXCEPT ![d][r.mRID] = IF heard THEN r.value ELSE NoValue]
                ELSE [f \in Device |-> [told[f] EXCEPT ![r.mRID] = NoValue]]
    BY <1>5 DEF PostReading
  <2>3. r.mRID \in ReadingMRID
    BY DEF Reading
  <2>4. d \in current => points[i].mRID = PointOf[d]
    BY ToldOwn DEF OwnPoint
  <2> HIDE DEF i
  <2>5. /\ DOMAIN points' = DOMAIN points
        /\ \A k \in DOMAIN points : points'[k].mRID = points[k].mRID
        /\ \A k \in DOMAIN points : \A m : (k # i \/ m # r.mRID)
             => ValueOf(points'[k], m) = ValueOf(points[k], m)
        /\ stored => ValueOf(points'[i], r.mRID) = r.value
        /\ ~stored => points'[i] = points[i]
    BY <2>1, StoredValue
  <2> HIDE DEF stored
  <2> SUFFICES ASSUME NEW f \in Device, NEW m \in ReadingMRID, told'[f][m] # NoValue
               PROVE  \E k \in DOMAIN points' :
                        points'[k].mRID = PointOf[f] /\ ValueOf(points'[k], m) = told'[f][m]
    BY DEF Remembered
  <2>6. CASE stored /\ d \in current /\ f = d /\ m = r.mRID
    <3>1. told'[f][m] = r.value
      BY <1>0, <2>2, <2>3, <2>6
    <3> QED BY <2>1, <2>4, <2>5, <2>6, <3>1
  <2>7. CASE ~(stored /\ d \in current /\ f = d /\ m = r.mRID)
    <3>1. told'[f][m] = told[f][m]
      BY <1>0, <2>2, <2>3, <2>7
    <3>2. PICK k \in DOMAIN points : points[k].mRID = PointOf[f] /\ ValueOf(points[k], m) = told[f][m]
      BY <3>1 DEF Remembered
    <3>3. ValueOf(points'[k], m) = ValueOf(points[k], m)
      <4>1. CASE ~stored
        BY <2>5, <4>1
      <4>2. CASE stored /\ m # r.mRID
        BY <2>5, <4>2
      <4>3. CASE stored /\ m = r.mRID
        <5>1. d \in current
          BY <1>0, <2>2, <2>3, <4>3
        <5>2. k # i
          BY <2>4, <2>7, <3>2, <4>3, <5>1, DeviceAssumption
        <5> QED BY <2>5, <5>2
      <4> QED BY <4>1, <4>2, <4>3
    <3> QED BY <2>5, <3>1, <3>2, <3>3
  <2> QED BY <2>6, <2>7
<1>6. CASE Restart
  BY <1>6 DEF Restart, Remembered
<1> QED BY <1>1, <1>2, <1>3, <1>4, <1>5, <1>6 DEF Next, vars, RefuseReading

\* A device that was told its reading is stored finds that value, under that
\* mRID, in its own usage point, whatever the others posted since and whatever
\* answers were lost (mupupt.py 42-79, 94-121, 267-281).
THEOREM ToldIsStored == Spec => []ToldStored
<1> DEFINE J == Inv /\ Told /\ Awaited /\ Remembered
<1>1. Init => J
  BY InitInv DEF Init, Told, Awaited, Remembered
<1>2. J /\ [Next]_vars => J'
  BY StepInv, ToldStep, AwaitedStep, RememberedStep
<1>3. J => ToldStored
  <2> SUFFICES ASSUME J, NEW d \in Device, NEW m \in ReadingMRID, told[d][m] # NoValue
               PROVE  \E i \in DOMAIN points :
                        /\ points[i].mRID = PointOf[d]
                        /\ \E j \in DOMAIN points[i].readings :
                             /\ points[i].readings[j].reading.mRID = m
                             /\ points[i].readings[j].reading.value = told[d][m]
    BY DEF ToldStored
  <2>1. PICK i \in DOMAIN points : points[i].mRID = PointOf[d] /\ ValueOf(points[i], m) = told[d][m]
    BY DEF Remembered
  <2>2. points[i].readings \in Seq(Stored)
    <3>1. points[i] \in Wrapper
      BY ElementOfSeq, LenProperties DEF Inv, TypeOK
    <3> QED BY <3>1 DEF Wrapper
  <2> DEFINE j == First(ByReading(points[i], m))
  <2>3. ByReading(points[i], m) # {} /\ points[i].readings[j].reading.value = told[d][m]
    BY <2>1 DEF ValueOf
  <2>4. j \in ByReading(points[i], m)
    <3>1. ByReading(points[i], m) \in SUBSET (DOMAIN points[i].readings)
      BY DEF ByReading
    <3> QED BY <2>2, <2>3, <3>1, FirstMatch
  <2>5. j \in DOMAIN points[i].readings /\ points[i].readings[j].reading.mRID = m
    BY <2>4 DEF ByReading
  <2> QED BY <2>1, <2>3, <2>5
<1> QED BY <1>1, <1>2, <1>3, PTL DEF Spec

-----------------------------------------------------------------------------
(* The readings a mirror brought along. *)

\* A reading with a type that the request under way brought along is left to do
\* or known to its usage point.
Worked == request # Idle =>
  \A n \in DOMAIN request.mup.readings : request.mup.readings[n].typed =>
    \/ \E k \in DOMAIN request.todo : request.todo[k] = request.mup.readings[n]
    \/ \A i \in DOMAIN points : points[i].mRID = request.mup.mRID
         => ByReading(points[i], request.mup.readings[n].mRID) # {}

LEMMA GrowsKnows ==
  ASSUME NEW w, NEW x, NEW m, Grows(w, x), ByReading(w, m) # {}
  PROVE  ByReading(x, m) # {}
BY DEF Grows, ByReading

LEMMA WorkedStep ==
  ASSUME Inv, Worked, [Next]_vars
  PROVE  Worked'
<1>1. CASE UNCHANGED <<request, points>>
  BY <1>1 DEF Worked
<1>2. ASSUME NEW d \in Device, NEW e \in Embedded, NEW p \in Payload, PostPoint(d, e, p)
      PROVE  Worked'
  <2>1. request'.todo = request'.mup.readings
    BY <1>2 DEF PostPoint
  <2> QED BY <2>1 DEF Worked
<1>3. CASE EmbedReading
  <2> DEFINE r == Head(request.todo)
             m == request.mup.mRID
  <2>1. PICK i \in DOMAIN points :
          /\ r \in Reading
          /\ points' = [points EXCEPT ![i] = CreateOrReplaceReading(points[i], r)]
          /\ \A k \in DOMAIN points : points[k].mRID = m => k = i
    BY <1>3, EmbeddedIn
  <2>2. /\ request'.mup = request.mup
        /\ \A n \in DOMAIN request.todo : n # 1 =>
             n - 1 \in DOMAIN request'.todo /\ request'.todo[n - 1] = request.todo[n]
        /\ r = request.todo[1]
    BY <1>3, TodoTail
  <2>3. request # Idle
    BY <1>3 DEF EmbedReading
  <2> HIDE DEF r
  <2>4. points \in Seq(Wrapper)
    BY DEF Inv, TypeOK
  <2>5. /\ DOMAIN points' = DOMAIN points /\ points[i] \in Wrapper
        /\ points'[i] = CreateOrReplaceReading(points[i], r)
        /\ \A k \in DOMAIN points : /\ points'[k].mRID = points[k].mRID
                                    /\ Grows(points[k], points'[k])
    BY <2>1, <2>4, ReadingIn
  <2>6. r.typed => ByReading(points'[i], r.mRID) # {}
    BY <2>1, <2>5, ReadingStored
  <2> SUFFICES ASSUME NEW n \in DOMAIN request.mup.readings, request.mup.readings[n].typed,
                      ~\E k \in DOMAIN request'.todo : request'.todo[k] = request.mup.readings[n],
                      NEW l \in DOMAIN points, points[l].mRID = m
               PROVE  ByReading(points'[l], request.mup.readings[n].mRID) # {}
    BY <2>2, <2>5 DEF Worked
  <2>7. l = i
    BY <2>1
  <2>8. CASE request.mup.readings[n] = r
    BY <2>6, <2>7, <2>8
  <2>9. CASE request.mup.readings[n] # r
    <3>1. ~\E k \in DOMAIN request.todo : request.todo[k] = request.mup.readings[n]
      BY <2>2, <2>9
    <3>2. ByReading(points[l], request.mup.readings[n].mRID) # {}
      BY <2>3, <3>1 DEF Worked
    <3> QED BY <2>5, <3>2, GrowsKnows
  <2> QED BY <2>8, <2>9
<1>4. ASSUME NEW heard \in BOOLEAN, FinishPoint(heard) PROVE Worked'
  BY <1>4 DEF FinishPoint, Worked
<1>5. ASSUME NEW d \in Device, NEW r \in Reading, NEW heard \in BOOLEAN, PostReading(d, r, heard)
      PROVE  Worked'
  BY <1>5 DEF PostReading, Worked
<1>6. CASE Restart
  BY <1>6 DEF Restart, Worked
<1> QED BY <1>1, <1>2, <1>3, <1>4, <1>5, <1>6 DEF Next, vars, RefuseReading

LEMMA TypedStep ==
  ASSUME Inv, Worked, TypedElements, [Next]_vars
  PROVE  TypedElements'
<1>0. DOMAIN mups \subseteq DOMAIN points
  <2>1. Pending \in {0, 1}
    BY DEF Pending
  <2>2. /\ Len(points) \in Nat /\ Len(mups) \in Nat
        /\ DOMAIN points = 1 .. Len(points) /\ DOMAIN mups = 1 .. Len(mups)
    BY LenProperties DEF Inv, TypeOK
  <2>3. Len(mups) <= Len(points)
    BY <2>1, <2>2 DEF Inv, Lockstep
  <2> QED BY <2>2, <2>3
<1>1. CASE UNCHANGED vars
  BY <1>1 DEF vars, TypedElements
<1>2. CASE Restart
  <2>1. DOMAIN <<>> = {}
    BY EmptySeq, LenProperties
  <2> QED BY <1>2, <2>1 DEF Restart, TypedElements
<1>3. CASE Next /\ ~Restart /\ UNCHANGED mups
  <2> SUFFICES ASSUME NEW i \in DOMAIN mups, NEW j \in DOMAIN mups[i].readings,
                      mups[i].readings[j].typed
               PROVE  ByReading(points'[i], mups[i].readings[j].mRID) # {}
    BY <1>3 DEF TypedElements, ByReading
  <2>1. Grows(points[i], points'[i])
    BY <1>0, <1>3, PointsGrow
  <2>2. ByReading(points[i], mups[i].readings[j].mRID) # {}
    BY DEF TypedElements, ByReading
  <2> QED BY <2>1, <2>2, GrowsKnows
<1>4. ASSUME NEW heard \in BOOLEAN, FinishPoint(heard)
      PROVE  TypedElements'
  <2>1. /\ UNCHANGED points /\ Lockstep' /\ mups' \in Seq(Mup)
        /\ \A j \in DOMAIN mups' :
             \/ j \in DOMAIN mups /\ mups'[j] = mups[j]
             \/ mups'[j].mRID = request.mup.mRID /\ mups'[j].readings = request.mup.readings
        /\ request' = Idle
    BY <1>4, FinishPointFacts
  <2>2. request # Idle /\ DOMAIN request.todo = {}
    BY <1>4, EmptySeq, LenProperties DEF FinishPoint
  <2> SUFFICES ASSUME NEW i \in DOMAIN mups', NEW j \in DOMAIN mups'[i].readings,
                      mups'[i].readings[j].typed
               PROVE  ByReading(points[i], mups'[i].readings[j].mRID) # {}
    BY <2>1 DEF TypedElements, ByReading
  <2>3. CASE i \in DOMAIN mups /\ mups'[i] = mups[i]
    BY <2>3 DEF TypedElements, ByReading
  <2>4. CASE mups'[i].mRID = request.mup.mRID /\ mups'[i].readings = request.mup.readings
    <3>1. i \in DOMAIN points
      <4>1. Len(points) = Len(mups')
        BY <2>1, LenProperties DEF Lockstep, Pending
      <4> QED BY <2>1, <4>1, LenProperties DEF Inv, TypeOK
    <3>2. points[i].mRID = request.mup.mRID
      BY <2>1, <2>4 DEF Lockstep
    <3> QED BY <2>2, <2>4, <3>1, <3>2 DEF Worked
  <2> QED BY <2>1, <2>3, <2>4
<1>5. ASSUME NEW d \in Device, NEW e \in Embedded, NEW p \in Payload, PostPoint(d, e, p)
      PROVE  UNCHANGED mups
  BY <1>5 DEF PostPoint
<1>6. (EmbedReading => UNCHANGED mups) /\ \A d \in Device : RefuseReading(d) => UNCHANGED mups
  BY DEF EmbedReading, RefuseReading, vars
<1>7. ASSUME NEW d \in Device, NEW r \in Reading, NEW heard \in BOOLEAN, PostReading(d, r, heard)
      PROVE  UNCHANGED mups
  BY <1>7 DEF PostReading
<1> QED BY <1>1, <1>2, <1>3, <1>4, <1>5, <1>6, <1>7 DEF Next

\* Every reading with a ReadingType that a mirror brought along is known to its
\* usage point once the post was answered, although nobody looks at the answers
\* of the loop that stores them (mupupt.py 107-121).
THEOREM TypedElementsKnown == Spec => []TypedElements
<1> DEFINE J == Inv /\ Worked /\ TypedElements
<1>1. Init => J
  <2>1. DOMAIN <<>> = {}
    BY EmptySeq, LenProperties
  <2> QED BY <2>1, InitInv DEF Init, Worked, TypedElements
<1>2. J /\ [Next]_vars => J'
  BY StepInv, WorkedStep, TypedStep
<1>3. J => TypedElements
  OBVIOUS
<1> QED BY <1>1, <1>2, <1>3, PTL DEF Spec

-----------------------------------------------------------------------------
(* The two lists implement the registry. *)

\* What the refinement mapping makes of the state.
Numbers == [m \in MRID |-> Number(m)]
AllKept == [m \in MRID |-> [r \in ReadingMRID |-> Kept(m, r)]]

\* The usage point at i is the one its mRID finds.
LEMMA Found ==
  ASSUME Inv, NEW i \in DOMAIN points, NEW m, points[i].mRID = m
  PROVE  /\ m \in MRID
         /\ Contains(m)
         /\ Number(m) = i - 1 /\ i - 1 \in Nat
         /\ \A r : Kept(m, r) = ValueOf(points[i], r)
<1>1. points \in Seq(Wrapper) /\ DOMAIN points = 1 .. Len(points)
  BY LenProperties DEF Inv, TypeOK
<1>2. ByMRID(points, m) = {i}
  BY DEF Inv, Lockstep, ByMRID
<1>3. First({i}) = i
  <2>1. {i} \in SUBSET Nat
    BY <1>1
  <2>2. First({i}) \in {i}
    BY <2>1, FirstLeast
  <2> QED BY <2>2
<1>4. Contains(m)
  BY <1>2 DEF Contains
<1>5. Number(m) = i - 1
  <2>1. points[i].href = <<"upt", i - 1>>
    BY DEF Inv, Lockstep, BaseHref
  <2> QED BY <1>2, <1>3, <1>4, <2>1 DEF Number
<1>6. \A r : Kept(m, r) = ValueOf(points[i], r)
  BY <1>2, <1>3, <1>4 DEF Kept, ValueOf
<1>7. m \in MRID
  <2>1. points[i] \in Wrapper
    BY <1>1, ElementOfSeq
  <2> QED BY <2>1 DEF Wrapper
<1>8. i - 1 \in Nat
  BY <1>1
<1> QED BY <1>4, <1>5, <1>6, <1>7, <1>8

LEMMA Unknown ==
  ASSUME NEW m, ~Contains(m)
  PROVE  Number(m) = NoHref /\ \A r : Kept(m, r) = NoValue
BY DEF Number, Kept

LEMMA InitRegistry == Init => Registry!Init
<1> SUFFICES ASSUME Init PROVE Registry!Init
  OBVIOUS
<1>1. \A m : ~Contains(m)
  <2>1. DOMAIN <<>> = {}
    BY EmptySeq, LenProperties
  <2> QED BY <2>1 DEF Init, Contains, ByMRID
<1>2. \A m : Number(m) = NoHref /\ \A r : Kept(m, r) = NoValue
  BY <1>1, Unknown
<1> QED BY <1>2 DEF Registry!Init, Registry!Empty

\* The same in the next state.
LEMMA FoundNext ==
  ASSUME Inv', NEW i \in DOMAIN points', NEW m, points'[i].mRID = m
  PROVE  /\ Contains(m)'
         /\ Number(m)' = i - 1
         /\ \A r : Kept(m, r)' = ValueOf(points'[i], r)
<1>1. ByMRID(points', m) = {i}
  BY DEF Inv, Lockstep, ByMRID
<1>2. First({i}) = i
  <2>1. {i} \in SUBSET Nat
    BY LenProperties DEF Inv, TypeOK
  <2>2. First({i}) \in {i}
    BY <2>1, FirstLeast
  <2> QED BY <2>2
<1>3. points'[i].href = <<"upt", i - 1>>
  BY DEF Inv, Lockstep, BaseHref
<1>4. Contains(m)'
  BY <1>1 DEF Contains, ByMRID
<1>5. ByMRID(points, m)' = {i}
  BY <1>1 DEF ByMRID
<1>6. Number(m)' = i - 1
  BY <1>2, <1>3, <1>4, <1>5 DEF Number
<1>7. \A r : Kept(m, r)' = ValueOf(points'[i], r)
  BY <1>2, <1>4, <1>5 DEF Kept, ValueOf
<1> QED BY <1>4, <1>6, <1>7

\* A step after which every mRID finds what it found.
LEMMA SameRegistry ==
  ASSUME Inv, Inv', DOMAIN points' = DOMAIN points,
         \A i \in DOMAIN points : points'[i].mRID = points[i].mRID
  PROVE  /\ Numbers' = Numbers
         /\ \A m, r : ~Contains(m) => Kept(m, r)' = Kept(m, r)
         /\ \A i \in DOMAIN points : \A m, r : points[i].mRID = m
              => Kept(m, r) = ValueOf(points[i], r) /\ Kept(m, r)' = ValueOf(points'[i], r)
<1>1. \A m : Contains(m)' <=> Contains(m)
  BY DEF Contains, ByMRID
<1>2. ASSUME NEW i \in DOMAIN points, NEW m, points[i].mRID = m
      PROVE  /\ Number(m)' = Number(m)
             /\ \A r : Kept(m, r) = ValueOf(points[i], r) /\ Kept(m, r)' = ValueOf(points'[i], r)
  <2>1. Number(m) = i - 1 /\ \A r : Kept(m, r) = ValueOf(points[i], r)
    BY <1>2, Found
  <2>2. Number(m)' = i - 1 /\ \A r : Kept(m, r)' = ValueOf(points'[i], r)
    BY <1>2, FoundNext
  <2> QED BY <2>1, <2>2
<1>3. ASSUME NEW m PROVE Number(m)' = Number(m)
  <2>1. CASE Contains(m)
    <3>1. \E i \in DOMAIN points : points[i].mRID = m
      BY <2>1 DEF Contains, ByMRID
    <3> QED BY <1>2, <3>1
  <2>2. CASE ~Contains(m)
    BY <1>1, <2>2 DEF Number
  <2> QED BY <2>1, <2>2
<1>4. Numbers' = Numbers
  BY <1>3 DEF Numbers
<1>5. \A m, r : ~Contains(m) => Kept(m, r)' = Kept(m, r)
  BY <1>1 DEF Kept
<1> QED BY <1>2, <1>4, <1>5

\* A reading that is stored, or not, in one usage point: Keep, or a stutter.
LEMMA KeepStep ==
  ASSUME Inv, Inv', NEW i \in DOMAIN points, NEW r \in Reading,
         points' = [points EXCEPT ![i] = CreateOrReplaceReading(points[i], r)]
  PROVE  /\ Numbers' = Numbers
         /\ \/ AllKept' = AllKept
            \/ Registry!Keep(points[i].mRID, r.mRID)
<1> DEFINE m == points[i].mRID
<1>1. /\ DOMAIN points' = DOMAIN points
      /\ \A k \in DOMAIN points : points'[k].mRID = points[k].mRID
      /\ \A k \in DOMAIN points : \A x : (k # i \/ x # r.mRID)
           => ValueOf(points'[k], x) = ValueOf(points[k], x)
      /\ Answer(points[i], r) \in {"CREATED", "NO_CONTENT"} => ValueOf(points'[i], r.mRID) = r.value
      /\ Answer(points[i], r) \notin {"CREATED", "NO_CONTENT"} => points'[i] = points[i]
  BY StoredValue
<1>2. /\ Numbers' = Numbers
      /\ \A n, x : ~Contains(n) => Kept(n, x)' = Kept(n, x)
      /\ \A k \in DOMAIN points : \A n, x : points[k].mRID = n
           => Kept(n, x) = ValueOf(points[k], x) /\ Kept(n, x)' = ValueOf(points'[k], x)
  BY <1>1, SameRegistry
<1>3. \A n : Contains(n) => \E k \in DOMAIN points : points[k].mRID = n
  BY DEF Contains, ByMRID
<1>4. \A k \in DOMAIN points : points[k].mRID = m => k = i
  BY DEF Inv, Lockstep
<1>5. m \in MRID /\ r.mRID \in ReadingMRID /\ r.value \in Value /\ Numbers[m] # NoHref
  <2>1. m \in MRID /\ Number(m) \in Nat
    BY Found
  <2> QED BY <2>1, NothingAssumption DEF Reading, Numbers
<1>6. \A n, x : n # m \/ x # r.mRID => Kept(n, x)' = Kept(n, x)
  <2> SUFFICES ASSUME NEW n, NEW x, n # m \/ x # r.mRID PROVE Kept(n, x)' = Kept(n, x)
    OBVIOUS
  <2>1. CASE Contains(n)
    <3>1. PICK k \in DOMAIN points : points[k].mRID = n
      BY <1>3, <2>1
    <3>2. k # i \/ x # r.mRID
      BY <3>1
    <3>3. ValueOf(points'[k], x) = ValueOf(points[k], x)
      BY <1>1, <3>2
    <3> QED BY <1>2, <3>1, <3>3
  <2>2. CASE ~Contains(n)
    BY <1>2, <2>2
  <2> QED BY <2>1, <2>2
<1>7. CASE Answer(points[i], r) \in {"CREATED", "NO_CONTENT"}
  <2>2. AllKept' = [AllKept EXCEPT ![m][r.mRID] = r.value]
    <3>1. ASSUME NEW n \in MRID, NEW x \in ReadingMRID, n = m, x = r.mRID
          PROVE  Kept(n, x)' = r.value
      <4>1. Kept(n, x)' = ValueOf(points'[i], x)
        BY <1>2, <3>1
      <4> QED BY <1>1, <1>7, <3>1, <4>1
    <3> QED BY <1>5, <1>6, <3>1 DEF AllKept
  <2>3. AllKept'[m][r.mRID] = r.value
    BY <1>5, <2>2 DEF AllKept
  <2>4. Registry!Keep(m, r.mRID)
    BY <1>2, <1>5, <2>2, <2>3 DEF Registry!Keep, AllKept, Numbers
  <2> QED BY <1>2, <2>4
<1>8. CASE Answer(points[i], r) \notin {"CREATED", "NO_CONTENT"}
  <2>1. \A n, x : Kept(n, x)' = Kept(n, x)
    <3>1. \A n, x : n = m => Kept(n, x)' = Kept(n, x)
      BY <1>1, <1>2, <1>8
    <3> QED BY <1>6, <3>1
  <2> QED BY <1>2, <2>1 DEF AllKept
<1> QED BY <1>7, <1>8

\* A usage point with a new mRID is registered; one with a known mRID is not.
LEMMA RegisterStep ==
  ASSUME Inv, Inv', NEW d \in Device, NEW e \in Embedded, NEW p \in Payload, PostPoint(d, e, p)
  PROVE  \/ Numbers' = Numbers /\ AllKept' = AllKept
         \/ Registry!Register(PointOf[d])
<1> DEFINE m == PointOf[d]
           n == Len(points)
<1>1. /\ \A i \in DOMAIN points : /\ points'[i].mRID = points[i].mRID
                                  /\ points'[i].readings = points[i].readings
      /\ Contains(m) => DOMAIN points' = DOMAIN points
      /\ ~Contains(m) =>
           /\ DOMAIN points' = DOMAIN points \cup {n + 1}
           /\ n + 1 \notin DOMAIN points
           /\ points'[n + 1].mRID = m
           /\ points'[n + 1].readings = <<>>
  BY PointPosted
<1>2. \A i \in DOMAIN points : \A x : ValueOf(points'[i], x) = ValueOf(points[i], x)
  BY <1>1 DEF ValueOf, ByReading
<1>3. m \in MRID
  BY DeviceAssumption
<1>4. \A x : Contains(x) => \E i \in DOMAIN points : points[i].mRID = x
  BY DEF Contains, ByMRID
<1>5. n \in Nat /\ DOMAIN points = 1 .. n
  BY LenProperties DEF Inv, TypeOK
<1>6. CASE Contains(m)
  <2>1. /\ Numbers' = Numbers
        /\ \A x, r : ~Contains(x) => Kept(x, r)' = Kept(x, r)
        /\ \A i \in DOMAIN points : \A x, r : points[i].mRID = x
             => Kept(x, r) = ValueOf(points[i], r) /\ Kept(x, r)' = ValueOf(points'[i], r)
    BY <1>1, <1>6, SameRegistry
  <2>2. \A x, r : Kept(x, r)' = Kept(x, r)
    <3> SUFFICES ASSUME NEW x, NEW r, Contains(x) PROVE Kept(x, r)' = Kept(x, r)
      BY <2>1
    <3>1. PICK i \in DOMAIN points : points[i].mRID = x
      BY <1>4
    <3> QED BY <1>2, <2>1, <3>1
  <2> QED BY <2>1, <2>2 DEF AllKept
<1>7. CASE ~Contains(m)
  <2>1. ASSUME NEW x, Contains(x)
        PROVE  /\ Number(x)' = Number(x) /\ Number(x) # n
               /\ \A r : Kept(x, r)' = Kept(x, r)
    <3>1. PICK i \in DOMAIN points : points[i].mRID = x
      BY <1>4, <2>1
    <3>2. Number(x) = i - 1 /\ \A r : Kept(x, r) = ValueOf(points[i], r)
      BY <3>1, Found
    <3>3. i \in DOMAIN points' /\ points'[i].mRID = x
      BY <1>1, <1>7, <3>1
    <3>4. Number(x)' = i - 1 /\ \A r : Kept(x, r)' = ValueOf(points'[i], r)
      BY <3>3, FoundNext
    <3>5. i - 1 # n
      BY <1>5
    <3> QED BY <1>2, <3>2, <3>4, <3>5
  <2>2. ASSUME NEW x, x # m, ~Contains(x)
        PROVE  /\ Number(x)' = Number(x) /\ Number(x) # n
               /\ \A r : Kept(x, r)' = Kept(x, r)
    <3>1. ~Contains(x)'
      BY <1>1, <1>7, <2>2 DEF Contains, ByMRID
    <3>2. Number(x) = NoHref /\ Number(x)' = NoHref
      BY <2>2, <3>1 DEF Number
    <3>3. \A r : Kept(x, r)' = NoValue /\ Kept(x, r) = NoValue
      BY <2>2, <3>1 DEF Kept
    <3> QED BY <1>5, <3>2, <3>3, NothingAssumption
  <2>3. Number(m) = NoHref /\ \A r : Kept(m, r) = NoValue
    BY <1>7, Unknown
  <2>4. n + 1 \in DOMAIN points' /\ points'[n + 1].mRID = m
    BY <1>1, <1>7
  <2>5. ASSUME NEW x, x = m
        PROVE  Number(x)' = n /\ \A r : Kept(x, r)' = NoValue
    <3>1. Number(x)' = n + 1 - 1 /\ \A r : Kept(x, r)' = ValueOf(points'[n + 1], r)
      BY <2>4, <2>5, FoundNext
    <3>2. DOMAIN <<>> = {}
      BY EmptySeq, LenProperties
    <3>3. \A r : ValueOf(points'[n + 1], r) = NoValue
      BY <1>1, <1>7, <3>2 DEF ValueOf, ByReading
    <3>4. n + 1 - 1 = n
      BY <1>5
    <3> QED BY <3>1, <3>3, <3>4
  <2>6. AllKept' = AllKept
    <3> SUFFICES ASSUME NEW x, NEW r PROVE Kept(x, r)' = Kept(x, r)
      BY DEF AllKept
    <3>1. CASE x = m
      BY <2>3, <2>5, <3>1
    <3> QED BY <2>1, <2>2, <3>1
  <2>7. \A x \in MRID : Numbers'[x] = IF x = m THEN n ELSE Numbers[x]
    <3> SUFFICES ASSUME NEW x \in MRID PROVE Number(x)' = IF x = m THEN n ELSE Number(x)
      BY DEF Numbers
    <3> QED BY <2>1, <2>2, <2>5
  <2>8. \A x \in MRID \ {m} : Numbers[x] # n
    BY <2>1, <2>2 DEF Numbers
  <2>9. Numbers' = [Numbers EXCEPT ![m] = Numbers'[m]]
    BY <1>3, <2>7 DEF Numbers
  <2>10. Numbers[m] = NoHref /\ Numbers'[m] = n
    BY <1>3, <2>3, <2>7 DEF Numbers
  <2> QED BY <1>5, <2>6, <2>8, <2>9, <2>10 DEF Registry!Register, AllKept, Numbers
<1> QED BY <1>6, <1>7

LEMMA ForgetStep ==
  ASSUME Restart
  PROVE  Registry!Forget
<1>1. \A m : ~Contains(m)'
  <2>1. DOMAIN <<>> = {}
    BY EmptySeq, LenProperties
  <2> QED BY <2>1 DEF Restart, Contains, ByMRID
<1>2. \A m : Number(m)' = NoHref /\ \A r : Kept(m, r)' = NoValue
  BY <1>1 DEF Number, Kept
<1> QED BY <1>2 DEF Registry!Forget, Registry!Empty

LEMMA SamePoints ==
  ASSUME UNCHANGED points
  PROVE  Numbers' = Numbers /\ AllKept' = AllKept
BY DEF Numbers, AllKept, Number, Kept, Contains, ByMRID

LEMMA RegistryStep ==
  ASSUME Inv, Inv', [Next]_vars
  PROVE  [Registry!Next]_(Registry!vars)
<1>1. SUFFICES \/ Numbers' = Numbers /\ AllKept' = AllKept
               \/ \E m \in MRID : Registry!Register(m)
               \/ \E m \in MRID, r \in ReadingMRID : Registry!Keep(m, r)
               \/ Registry!Forget
  BY DEF Registry!Next, Registry!vars, Numbers, AllKept
<1>2. CASE UNCHANGED points
  BY <1>2, SamePoints
<1>3. ASSUME NEW d \in Device, NEW e \in Embedded, NEW p \in Payload, PostPoint(d, e, p)
      PROVE  \/ Numbers' = Numbers /\ AllKept' = AllKept
             \/ \E m \in MRID : Registry!Register(m)
  <2>1. PointOf[d] \in MRID
    BY DeviceAssumption
  <2> QED BY <1>3, <2>1, RegisterStep
<1>4. CASE EmbedReading
  <2>1. PICK i \in DOMAIN points :
          /\ Head(request.todo) \in Reading
          /\ points' = [points EXCEPT ![i] = CreateOrReplaceReading(points[i], Head(request.todo))]
    BY <1>4, EmbeddedIn
  <2>2. points[i].mRID \in MRID /\ Head(request.todo).mRID \in ReadingMRID
    BY <2>1, Found DEF Reading
  <2> QED BY <2>1, <2>2, KeepStep
<1>5. ASSUME NEW d \in Device, NEW r \in Reading, NEW heard \in BOOLEAN, PostReading(d, r, heard)
      PROVE  \/ Numbers' = Numbers /\ AllKept' = AllKept
             \/ \E m \in MRID, x \in ReadingMRID : Registry!Keep(m, x)
  <2>1. PICK i \in DOMAIN points : points' = [points EXCEPT ![i] = CreateOrReplaceReading(points[i], r)]
    BY <1>5, PostedIn
  <2>2. points[i].mRID \in MRID /\ r.mRID \in ReadingMRID
    BY Found DEF Reading
  <2> QED BY <2>1, <2>2, KeepStep
<1>6. ASSUME NEW heard \in BOOLEAN, FinishPoint(heard) PROVE UNCHANGED points
  BY <1>6, FinishPointFacts
<1>7. ASSUME NEW d \in Device, RefuseReading(d) PROVE UNCHANGED points
  BY <1>7 DEF RefuseReading, vars
<1>8. UNCHANGED vars => UNCHANGED points
  BY DEF vars
<1> QED BY <1>2, <1>3, <1>4, <1>5, <1>6, <1>7, <1>8, ForgetStep DEF Next

\* The server keeps what MeterRegistry promises the devices: a usage point gets
\* a number of its own, once, and keeps it; what is kept of a reading gives way
\* to a newer value and to nothing else; only a restart forgets (mupupt.py
\* 42-79, 80-121, 229-243), through updates, refused readings and lost answers.
THEOREM ImplementsRegistry == Spec => RegistrySpec
<1>1. Init => Inv /\ Registry!Init
  BY InitInv, InitRegistry
<1>2. Inv /\ [Next]_vars => Inv'
  BY StepInv
<1>3. Inv /\ Inv' /\ [Next]_vars => [Registry!Next]_(Registry!vars)
  BY RegistryStep
<1>4. Spec => Registry!Spec
  BY <1>1, <1>2, <1>3, PTL DEF Spec, Registry!Spec
<1> QED BY <1>4 DEF RegistrySpec
=============================================================================
