------------------------- MODULE MirrorUsagePoints -------------------------
(***************************************************************************)
(* Devices mirror their meters into the server (adapters/mupupt.py,        *)
(* server/meteringfs.py): a device posts a MirrorUsagePoint, learns its    *)
(* href from the Location header, and posts readings there.  The server    *)
(* keeps a usage point for each mirror, in a second list.  Everything is   *)
(* in memory, hrefs are list lengths, and a device that hears no answer    *)
(* posts again.                                                            *)
(*                                                                         *)
(* Requests are served one at a time; a MirrorUsagePoint that brings       *)
(* readings along is worked off reading by reading (request).              *)
(***************************************************************************)
EXTENDS Naturals, Sequences, Adapters

CONSTANTS
  Device,      \* clients; each knows the mRID of its own usage point
  MRID,        \* mRIDs of usage points
  PointOf,     \* device -> that mRID
  ReadingMRID, \* mRIDs of readings
  Value,       \* what a reading says
  Payload,     \* what a usage point says of itself
  Embedded,    \* the sequences of readings a MirrorUsagePoint may bring along
  NoHref,      \* a device that was told no href yet
  NoValue,     \* a device that was told nothing of a reading
  Idle         \* no request is being served

VARIABLES
  points,   \* __usage_points__ with their wrappers
  mups,     \* __mirror_usage_points__
  request,  \* the MirrorUsagePoint being worked off, or Idle
  location, \* device -> the href it was told
  current,  \* history: devices that were told it by the running process
  told      \* history: device -> reading mRID -> the last value the running
            \* process told it is stored

vars == <<points, mups, request, location, current, told>>

Kinds == {"meter", "set"} \* MirrorMeterReading, MirrorReadingSet
\* Only a MirrorMeterReading can have a ReadingType.
Reading == {r \in [mRID : ReadingMRID, kind : Kinds, typed : BOOLEAN, value : Value] :
              r.kind = "set" => ~r.typed}
Mirror == {"mup"} \X Nat
UsagePoint == {"upt"} \X Nat
ReadingHref == {"upt"} \X Nat \X {"mr"} \X Nat
ReadingListHref == {"upt"} \X Nat \X {"mr"}
Stored == [reading : Reading, href : ReadingHref]
MeterReading == [href : ReadingListHref, typeLink : ReadingListHref, link : ReadingHref]
\* description stands for the four fields of mupupt.py 87-90.
Wrapper == [mRID : MRID, href : UsagePoint, status : Payload,
            description : Payload \cup Seq(Payload),
            meterReadings : Seq(MeterReading), readings : Seq(Stored)]
Mup == [mRID : MRID, href : Mirror, payload : Payload, readings : Seq(Reading)]
Request == [device : Device, mup : [mRID : MRID, payload : Payload, readings : Seq(Reading)],
            todo : Seq(Reading), created : BOOLEAN]

ASSUME DeviceAssumption ==
  /\ PointOf \in [Device -> MRID]
  /\ \A d, e \in Device : PointOf[d] = PointOf[e] => d = e
ASSUME EmbeddedAssumption == Embedded \subseteq Seq({r \in Reading : r.kind = "meter"})
ASSUME NothingAssumption ==
  /\ NoHref \notin Mirror /\ NoHref \notin Nat
  /\ NoValue \notin Value
  /\ Idle \notin Request
-----------------------------------------------------------------------------
(* Hrefs. *)

\* hrefs.usage_point_href: the base is an index or an href; only the list and
\* its index show in the result, an index or a type of a reading does not.
FirstHref(index) == <<"upt", 0>> \* a fault
BaseHref(index) == <<"upt", index>>
ListHref(base) == <<base[1], base[2], "mr">>
ListItemHref(base, index) == <<base[1], base[2], "mr", index>>
ReadingTypeHref(base, index) == ListHref(base)

\* href.replace('upt', 'mup') and back.
SameHref(h) == h \* a fault
MirrorHref(h) == <<"mup", h[2]>>
PointHref(h) == <<"upt", h[2]>>
-----------------------------------------------------------------------------
(* Lookups: the first entry that matches. *)

ByMRID(list, m) == {i \in DOMAIN list : list[i].mRID = m}
ByHref(list, h) == {i \in DOMAIN list : list[i].href = h}
NoReading(w, m) == {} \* a fault
ByReading(w, m) == {j \in DOMAIN w.readings : w.readings[j].reading.mRID = m}

\* Faults, for the mutants: a lookup that finds nothing, a replacement that is
\* lost, and one that is given a new href.
ContainsNothing(m) == FALSE
KeepReading(w, r) == w
MoveReading(w, r) ==
  LET j == First(ByReading(w, r.mRID))
      h == ListItemHref(w.href, Len(w.readings))
  IN  [w EXCEPT !.readings[j] = [reading |-> r, href |-> h], !.meterReadings[j].link = h]

Contains(m) == ByMRID(points, m) # {}

\* A known mRID: the reading takes the place, and the href, of its elder.
ReplaceReading(w, r) ==
  [w EXCEPT !.readings[First(ByReading(w, r.mRID))].reading = r]

\* A new mRID: a MeterReading and the mirrored reading are appended.
NewReading(w, r) ==
  LET n == Len(w.meterReadings)
      meter == [href |-> ListHref(w.href), typeLink |-> ReadingTypeHref(w.href, n),
                link |-> ListItemHref(w.href, n)]
  IN  [w EXCEPT !.meterReadings = Append(@, meter),
                !.readings = Append(@, [reading |-> r, href |-> meter.link])]

\* create_or_replace_reading: what becomes of the wrapper, and the answer.  A
\* MirrorReadingSet has no attribute ReadingType: an unknown one is a 500.
Answer(w, r) ==
  IF ByReading(w, r.mRID) # {} THEN "NO_CONTENT"
  ELSE IF r.kind = "set" THEN "error"
  ELSE IF ~r.typed THEN "BAD_REQUEST" ELSE "CREATED"

CreateOrReplaceReading(w, r) ==
  IF Answer(w, r) = "NO_CONTENT" THEN ReplaceReading(w, r)
  ELSE IF Answer(w, r) = "CREATED" THEN NewReading(w, r) ELSE w
-----------------------------------------------------------------------------
Init ==
  /\ points = <<>> /\ mups = <<>> /\ request = Idle
  /\ location = [d \in Device |-> NoHref] /\ current = {}
  /\ told = [d \in Device |-> [m \in ReadingMRID |-> NoValue]]

\* POST of a MirrorUsagePoint, to any path under /mup: create_or_replace up to
\* its loop.  An update leaves one-element tuples behind (the commas of 87-90).
PostPoint(d, e, p) ==
  LET m == PointOf[d]
      wrapper == [mRID |-> m, href |-> BaseHref(Len(points)), status |-> p,
                  description |-> p, meterReadings |-> <<>>, readings |-> <<>>]
  IN  /\ request = Idle
      /\ points' = IF Contains(m)
                   THEN [points EXCEPT ![First(ByMRID(points, m))].description = <<p>>,
                                       ![First(ByMRID(points, m))].status = p]
                   ELSE Append(points, wrapper)
      /\ request' = [device |-> d, mup |-> [mRID |-> m, payload |-> p, readings |-> e],
                     todo |-> e, created |-> ~Contains(m)]
      \* what becomes of the readings brought along the device has yet to hear
      /\ told' = [told EXCEPT ![d] = [m2 \in ReadingMRID |->
                    IF \E i \in DOMAIN e : e[i].mRID = m2 THEN NoValue ELSE @[m2]]]
      /\ UNCHANGED <<mups, location, current>>

EmbedFirst == \* a fault: the loop ends after its first reading
  /\ request # Idle /\ request.todo # <<>>
  /\ LET i == First(ByMRID(points, request.mup.mRID))
     IN  points' = [points EXCEPT ![i] = CreateOrReplaceReading(@, Head(request.todo))]
  /\ request' = [request EXCEPT !.todo = <<>>]
  /\ UNCHANGED <<mups, location, current, told>>

\* The loop over mup.MirrorMeterReading: nobody looks at the answers.
EmbedReading ==
  /\ request # Idle /\ request.todo # <<>>
  /\ LET i == First(ByMRID(points, request.mup.mRID))
     IN  points' = [points EXCEPT ![i] = CreateOrReplaceReading(@, Head(request.todo))]
  /\ request' = [request EXCEPT !.todo = Tail(@)]
  /\ UNCHANGED <<mups, location, current, told>>

\* create after create_or_replace: 201 and a new mirror when the other list has
\* grown, otherwise 204 and the mirror with this mRID is replaced.
FinishPoint(heard) ==
  LET m == request.mup.mRID
      i == First(ByMRID(mups, m))
      h == IF request.created
           THEN MirrorHref(points[First(ByMRID(points, m))].href) ELSE mups[i].href
      mup == [mRID |-> m, href |-> h, payload |-> request.mup.payload,
              readings |-> request.mup.readings]
  IN  /\ request # Idle /\ request.todo = <<>>
      /\ mups' = IF request.created THEN Append(mups, mup) ELSE [mups EXCEPT ![i] = mup]
      /\ location' = IF heard THEN [location EXCEPT ![request.device] = h] ELSE location
      /\ current' = IF heard THEN current \cup {request.device} ELSE current
      /\ request' = Idle
      /\ UNCHANGED <<points, told>>

\* POST of a reading to the href the device was told: create_reading.
PostReading(d, r, heard) ==
  LET at == ByHref(points, PointHref(location[d]))
      i == First(at)
  IN  /\ request = Idle /\ location[d] # NoHref
      /\ at # {}
      /\ points' = [points EXCEPT ![i] = CreateOrReplaceReading(@, r)]
      /\ told' = IF Answer(points[i], r) \notin {"CREATED", "NO_CONTENT"} THEN told
                 ELSE IF d \in current
                 THEN [told EXCEPT ![d][r.mRID] = IF heard THEN r.value ELSE NoValue]
                 \* an href from before a restart: whose usage point it is nobody knows
                 ELSE [e \in Device |-> [told[e] EXCEPT ![r.mRID] = NoValue]]
      /\ UNCHANGED <<mups, request, location, current>>

\* No usage point has the href: 400, and nothing changes.
RefuseReading(d) ==
  /\ request = Idle /\ location[d] # NoHref
  /\ ByHref(points, PointHref(location[d])) = {}
  /\ UNCHANGED vars

\* The process ends, in the middle of a request or not, and starts again with
\* empty lists; the devices notice nothing.
Restart ==
  /\ points' = <<>> /\ mups' = <<>> /\ request' = Idle
  /\ current' = {}
  /\ told' = [d \in Device |-> [m \in ReadingMRID |-> NoValue]]
  /\ UNCHANGED location

Next ==
  \/ \E d \in Device, e \in Embedded, p \in Payload : PostPoint(d, e, p)
  \/ EmbedReading
  \/ \E heard \in BOOLEAN : FinishPoint(heard)
  \/ \E d \in Device, r \in Reading, heard \in BOOLEAN : PostReading(d, r, heard)
  \/ \E d \in Device : RefuseReading(d)
  \/ Restart

Spec == Init /\ [][Next]_vars
-----------------------------------------------------------------------------
(* Properties. *)

TypeOK ==
  /\ points \in Seq(Wrapper)
  /\ mups \in Seq(Mup)
  /\ request \in Request \cup {Idle}
  /\ location \in [Device -> Mirror \cup {NoHref}]
  /\ current \subseteq Device
  /\ told \in [Device -> [ReadingMRID -> Value \cup {NoValue}]]

\* The list of usage points and the list of mirrors stay parallel (mupupt.py
\* 229-243 only ever compares their lengths): the n-th of each have the hrefs
\* upt_n and mup_n and one mRID, no mRID comes twice, and only a usage point
\* whose request is not answered yet has no mirror.
Pending == IF request # Idle /\ request.created THEN 1 ELSE 0
Lockstep ==
  /\ Len(points) = Len(mups) + Pending
  /\ \A i \in DOMAIN points : points[i].href = BaseHref(i - 1)
  /\ \A i \in DOMAIN mups : /\ mups[i].href = MirrorHref(points[i].href)
                            /\ mups[i].mRID = points[i].mRID
  /\ \A i, j \in DOMAIN points : points[i].mRID = points[j].mRID => i = j

\* The readings of a usage point and its MeterReadings stay parallel as well
\* (mupupt.py 60-76): the n-th link leads to the n-th reading, whatever was
\* replaced, refused or failed in between, and no mRID comes twice.
ReadingsParallel == \A i \in DOMAIN points :
  LET w == points[i] IN
  /\ Len(w.meterReadings) = Len(w.readings)
  /\ \A j \in DOMAIN w.readings : w.readings[j].href = w.meterReadings[j].link
  /\ \A j, k \in DOMAIN w.readings :
       \/ w.readings[j].reading.mRID = w.readings[k].reading.mRID
       \/ w.readings[j].href = w.readings[k].href
       => j = k

\* The href a device was told by the running process leads to its own usage
\* point, however often it and the others have posted since, whatever answers
\* were lost and whatever devices still use hrefs from before a restart.
OwnPoint == \A d \in current :
  LET at == ByHref(points, PointHref(location[d]))
  IN  at # {} /\ points[First(at)].mRID = PointOf[d]

\* A reading a device was told is stored (201 or 204) is in its usage point;
\* only a device with an href from before a restart can put another there.
ToldStored == \A d \in Device, m \in ReadingMRID : told[d][m] # NoValue =>
  \E i \in DOMAIN points :
    /\ points[i].mRID = PointOf[d]
    /\ \E j \in DOMAIN points[i].readings :
         /\ points[i].readings[j].reading.mRID = m
         /\ points[i].readings[j].reading.value = told[d][m]

\* Every reading with a ReadingType that a mirror brought along is known to its
\* usage point under its mRID (mupupt.py 107-110), once create has answered.
TypedElements == \A i \in DOMAIN mups : \A j \in DOMAIN mups[i].readings :
  mups[i].readings[j].typed =>
    \E k \in DOMAIN points[i].readings :
      points[i].readings[k].reading.mRID = mups[i].readings[j].mRID

\* While the server is up, a reading keeps its place and its href: clients may
\* keep the links they have followed (mupupt.py 51-52).
HrefsStable == [][Restart \/ \A i \in DOMAIN points :
  /\ points'[i].href = points[i].href /\ points'[i].mRID = points[i].mRID
  /\ \A j \in DOMAIN points[i].readings :
       /\ points'[i].readings[j].href = points[i].readings[j].href
       /\ points'[i].readings[j].reading.mRID = points[i].readings[j].reading.mRID]_vars

\* What the devices may rely on, without lists and hrefs.
Number(m) == IF Contains(m) THEN points[First(ByMRID(points, m))].href[2] ELSE NoHref
Kept(m, r) ==
  LET w == points[First(ByMRID(points, m))]
  IN  IF Contains(m) /\ ByReading(w, r) # {}
      THEN w.readings[First(ByReading(w, r))].reading.value ELSE NoValue
Registry == INSTANCE MeterRegistry WITH
  number <- [m \in MRID |-> Number(m)],
  kept <- [m \in MRID |-> [r \in ReadingMRID |-> Kept(m, r)]],
  None <- NoHref
RegistrySpec == Registry!Spec
=============================================================================
