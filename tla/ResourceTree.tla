---------------------------- MODULE ResourceTree ----------------------------
(***************************************************************************)
(* The tree of resources a device reads once the server runs: what start-  *)
(* up left behind (Startup), and below each DER what devices PUT there     *)
(* (DERResources).  A path is the sequence hrefs.py splits it into at the  *)
(* separator, with indices from 0 on: /edev_0_der_1_ders is                *)
(* <<"edev", 0, "der", 1, "ders">>.                                        *)
(*                                                                         *)
(* What a GET answers is an operator on the state: a failure, or an object *)
(* with its class, its href and the links it gives away, its own or those  *)
(* of its items.  The number of items a link announces is left out.        *)
(***************************************************************************)
EXTENDS Startup, FiniteSets

CONSTANTS
  Offered, \* by subtype of a DER: the documents that are PUT there
  OwnHref, \* hrefs that are not the path of the resource (see DERResources)
  NoHref

VARIABLES
  slots, answer \* see DERResources

treeVars == <<vars, slots, answer>>

DM == INSTANCE DataModel
DERSubType == DOMAIN Offered \* without None_Available: what is PUT there nobody reads
\* Where a DER can be: the indices of its device and of the DER.
DERPlace == UNION {UNION {{<<n - 1, j - 1>> : j \in DOMAIN file.devices[n].ders} :
                             n \in DOMAIN file.devices} : file \in ConfigFile}
WithHref == {c \in DM!ClassName : DM!HasHref(c)}
Lineage == UNION {{<<c, k>> : k \in DM!Kinds[c]} : c \in DM!ClassName}
RS == INSTANCE DERResources WITH
  DERs <- DERPlace, SubType <- DERSubType, NoneAvailable <- "none",
  Type <- DM!ClassName, Addressed <- WithHref, Subclass <- Lineage,
  Href <- OwnHref, Path <- <<"path">>, Body <- {"body"}, Nobody <- "nobody"

\* What DataModel says of the classes the server answers with: nothing here is
\* a choice, the provers cannot compute it and TLC can.
ASSUME SchemaAssumption ==
  /\ \A c \in {"DeviceCapability", "Time", "EndDeviceList", "Registration", "DeviceInformation",
               "DeviceStatus", "FunctionSetAssignmentsList", "FunctionSetAssignments", "DERList",
               "DER", "DERProgramList", "DERControlList", "MirrorUsagePointList"} : DM!IsA(c, c)
  /\ ~DM!IsA("EndDeviceList", "EndDevice")
  /\ \A c \in {"EndDeviceList", "FunctionSetAssignmentsList", "DERList", "DERProgramList",
               "DERControlList", "MirrorUsagePointList"} : DM!AllRequired(c) = {"all", "results"}
  /\ \A c \in {"DeviceCapability", "DER"} : DM!AllRequired(c) = {}
  /\ DM!AllRequired("EndDevice") = {"changedTime", "sFDI"}
  /\ DM!AllRequired("Registration") = {"dateTimeRegistered", "pIN"}
  /\ DM!AllRequired("DeviceStatus") = {"changedTime"}
  /\ DM!AllRequired("FunctionSetAssignments") = {"mRID"}
  /\ DM!AllRequired("DERProgram") = {"mRID", "primacy"}
  /\ DM!AllRequired("Time") = {"currentTime", "dstEndTime", "dstOffset", "dstStartTime",
                              "quality", "tzOffset"}
  /\ {"ResponseSetListLink", "TimeLink", "EndDeviceListLink", "MirrorUsagePointListLink",
      "UsagePointListLink"} \subseteq DM!AllLinks("DeviceCapability")
  /\ {"RegistrationLink", "DeviceInformationLink", "DeviceStatusLink", "DERListLink",
      "FunctionSetAssignmentsListLink"} \subseteq DM!AllLinks("EndDevice")
  /\ {"DERAvailabilityLink", "DERCapabilityLink", "DERSettingsLink", "DERStatusLink",
      "CurrentDERProgramLink"} \subseteq DM!AllLinks("DER")
  /\ {"DERProgramListLink"} \subseteq DM!AllLinks("FunctionSetAssignments")
  /\ {"DefaultDERControlLink", "ActiveDERControlListLink", "DERControlListLink",
      "DERCurveListLink"} \subseteq DM!AllLinks("DERProgram")
  /\ "EndDevice" \in DM!AllLists("EndDeviceList") /\ "DER" \in DM!AllLists("DERList")
  /\ "FunctionSetAssignments" \in DM!AllLists("FunctionSetAssignmentsList")
  /\ "DERProgram" \in DM!AllLists("DERProgramList")
  /\ "DERControl" \in DM!AllLists("DERControlList")

\* What DERResources assumes of what it is given here.  Lineage is made of Kinds:
\* it is reflexive and transitive when Kinds is.
ASSUME ResourceAssumption ==
  /\ \A c \in DM!ClassName :
       c \in DM!Kinds[c] /\ \A k \in DM!Kinds[c] : DM!Kinds[k] \subseteq DM!Kinds[c]
  /\ NoHref \notin OwnHref \cup {<<"path">>} /\ <<"path">> \notin OwnHref
  /\ \A p \in DERPlace : \A s \in DERSubType : <<"edev", p[1], "der", p[2], s>> \notin OwnHref
  /\ Offered \in [DERSubType -> SUBSET RS!Document]
  /\ "nobody" \notin RS!Slot

TreeInit == Init /\ RS!Init

StartupStep == Next /\ UNCHANGED <<slots, answer>>

\* PUT /edev_<i>_der_<j>_<sub> of a DER that exists, or it raises.  Whose device
\* it is does not matter.  Nor does the word between the indices: through
\* /edev_0_rg_0_ders a document gets into the same list, with that path for an
\* href, which for the resource is one of OwnHref.
PutDER ==
  /\ pc = "running"
  /\ \E i \in DOMAIN devices : \E j \in DOMAIN devices[i].ders :
       \E s \in DERSubType : \E d \in Offered[s] : RS!Put(<<<<i - 1, j - 1>>, s>>, d)
  /\ UNCHANGED vars

TreeNext == StartupStep \/ PutDER
TreeSpec == TreeInit /\ [][TreeNext]_treeVars
-----------------------------------------------------------------------------
(* Answers.  d is the device that asks, by its place in devices. *)

Fails(status) == [status |-> status, links |-> {}]
Gives(class, at, links) ==
  [status |-> 200, class |-> class, href |-> at, links |-> links]
GivesOne(class, at, links) == Gives(class, at, {l \in links : l.by # class}) \* not as an item

Link(name, to, class) == [by |-> name, to |-> to, class |-> class]
Item(to, class) == [by |-> class, to |-> to, class |-> class]

PageThrough(items, start, limit) == \* a fault: the limit is taken for an end
  SubSeq(items, start + 1, IF limit = 0 \/ limit > Len(items) THEN Len(items) ELSE limit)
\* fetch_all with a container.
Page(items, start, limit) ==
  IF start > Len(items) THEN <<>>
  ELSE IF limit = 0 THEN SubSeq(items, start + 1, Len(items))
  ELSE SubSeq(items, start + 1, IF start + limit > Len(items) THEN Len(items) ELSE start + limit)

\* All a client sees of a list it reads item by item, l=1 being the default.
Seen(items) == UNION {Members(Page(items, s, 1)) : s \in 0 .. Len(items)}

\* The links of the objects start-up made, and of the items of lists.
DeviceLinks(d) == LET path == <<"edev", d - 1>> IN
  {Item(path, "EndDevice"),
   Link("RegistrationLink", path \o <<"rg">>, "Registration"),
   Link("DeviceInformationLink", path \o <<"di">>, "DeviceInformation"),
   Link("DeviceStatusLink", path \o <<"dstat">>, "DeviceStatus")}
  \cup (IF devices[d].assigned
        THEN {Link("FunctionSetAssignmentsListLink", path \o <<"fsa">>, "FunctionSetAssignmentsList")}
        ELSE {})
  \cup (IF devices[d].ders # <<>> THEN {Link("DERListLink", path \o <<"der">>, "DERList")} ELSE {})

DERLinks(d, j) == LET path == <<"edev", d - 1, "der", j>> IN
  {Item(path, "DER"),
   Link("DERAvailabilityLink", path \o <<"dera">>, "DERAvailability"),
   Link("DERCapabilityLink", path \o <<"dercap">>, "DERCapability"),
   Link("DERSettingsLink", path \o <<"derg">>, "DERSettings"),
   Link("DERStatusLink", path \o <<"ders">>, "DERStatus")}
  \cup (IF devices[d].ders[j + 1] = 0 THEN {}
        ELSE {Link("CurrentDERProgramLink", <<"derp", devices[d].ders[j + 1] - 1>>, "DERProgram")})

FSALinks(n) == {Item(<<"fsa", n>>, "FunctionSetAssignments"),
                Link("DERProgramListLink", <<"fsa", 0, "derp">>, "DERProgramList")}

ProgramLinksFrom(path) ==
  {Item(path, "DERProgram"),
   Link("DefaultDERControlLink", path \o <<"dderc">>, "DefaultDERControl"),
   Link("ActiveDERControlListLink", path \o <<"derca">>, "DERControlList"),
   Link("DERControlListLink", path \o <<"derc">>, "DERControlList"),
   Link("DERCurveListLink", path \o <<"dc">>, "DERCurveList")}
ProgramLinksBehind(k) == ProgramLinksFrom(<<"derp", k>>) \* a fault: counted from one
ProgramLinks(k) == ProgramLinksFrom(<<"derp", k - 1>>)

ControlPath(c) == <<"der", "derc", c - 1>> \* its href, split

\* Dcap.get: the links of get_default_dcap.
DcapAnswer == Gives("DeviceCapability", <<"dcap">>,
  {Link("ResponseSetListLink", <<"rsps">>, "ResponseSetList"),
   Link("TimeLink", <<"tm">>, "Time"),
   Link("EndDeviceListLink", <<"edev">>, "EndDeviceList"),
   Link("MirrorUsagePointListLink", <<"mup">>, "MirrorUsagePointList"),
   Link("UsagePointListLink", <<"upt">>, "UsagePointList")})

\* EDevRequests.get: the object is looked up by the certificate of the client,
\* and the index of the path only picks the adapter, of which a device has one.
FSAAnswer(d, path) ==
  IF path[2] # 0 \/ ~devices[d].assigned THEN Fails(500)
  ELSE IF Len(path) = 3
  THEN Gives("FunctionSetAssignmentsList", path,
             UNION {FSALinks(n) : n \in Seen([i \in DOMAIN fsas |-> i - 1])})
  ELSE IF path[4] + 1 \notin DOMAIN fsas THEN Fails(500)
  ELSE GivesOne("FunctionSetAssignments", <<"fsa", path[4]>>, FSALinks(path[4]))

SubAnswer(d, j, s, path) ==
  LET kept == slots[<<<<d - 1, j>>, s>>] IN
  IF kept = <<>> THEN Fails(500)
  ELSE Gives(kept[1].class, IF kept[1].href = <<"path">> THEN path ELSE kept[1].href, {})

DERAnswer(d, path) ==
  IF path[2] # 0 \/ devices[d].ders = <<>> THEN Fails(500)
  ELSE IF Len(path) = 3
  THEN Gives("DERList", path,
             UNION {DERLinks(d, j) : j \in Seen([n \in DOMAIN devices[d].ders |-> n - 1])})
  ELSE IF path[4] + 1 \notin DOMAIN devices[d].ders THEN Fails(500)
  ELSE IF Len(path) = 4 THEN GivesOne("DER", <<"edev", d - 1, "der", path[4]>>, DERLinks(d, path[4]))
  ELSE SubAnswer(d, path[4], path[5], <<"edev", d - 1, "der", path[4], path[5]>>)

EndDeviceAnswer(d, path) ==
  IF Len(path) <= 2 THEN Gives("EndDeviceList", path, DeviceLinks(d))
  ELSE CASE path[3] = "fsa" -> FSAAnswer(d, path)
         [] path[3] = "der" -> DERAnswer(d, path)
         [] path[3] = "rg" -> Gives("Registration", <<"edev", d - 1, "rg">>, {})
         [] path[3] = "di" -> Gives("DeviceInformation", <<"edev", d - 1, "di">>, {})
         [] path[3] = "dstat" -> Gives("DeviceStatus", <<"edev", d - 1, "dstat">>, {})
         [] OTHER -> Fails(500)

\* FSARequests.get: without an index fetch_all is given a word to start from;
\* the list of programs is built without an href.
FSARequest(path) ==
  IF Len(path) = 1 \/ path[2] + 1 \notin DOMAIN fsas THEN Fails(500)
  ELSE IF Len(path) = 3 /\ path[3] = "derp"
  THEN Gives("DERProgramList", NoHref, UNION {ProgramLinks(k) : k \in fsas[path[2] + 1]})
  ELSE GivesOne("FunctionSetAssignments", <<"fsa", path[2]>>, FSALinks(path[2]))

\* DERProgramRequests.get: a program by itself is not among the cases, and
\* DERProgramHref.parse does not know "dc".  The clock fills and empties derca.
ProgramAnswer(path) ==
  IF Len(path) = 1 THEN
    Gives("DERProgramList", path,
          UNION {ProgramLinks(k) : k \in Members(Page([i \in DOMAIN programs |-> i], 0, 1))})
  ELSE IF Len(path) = 2 \/ path[2] + 1 \notin DOMAIN programs THEN Fails(500)
  ELSE LET p == programs[path[2] + 1] IN
    CASE path[3] = "derc" /\ Len(path) = 3 ->
           Gives("DERControlList", path, {Item(ControlPath(c), "DERControl") : c \in Members(p.derc)})
      [] path[3] = "derc" /\ Len(path) = 4 /\ path[4] + 1 \in DOMAIN p.derc ->
           Gives("DERControl", ControlPath(p.derc[path[4] + 1]), {})
      [] path[3] = "derca" -> Gives("DERControlList", path, {})
      [] path[3] = "dderc" -> Gives("DERControl", ControlPath(p.dderc[1]), {})
      [] OTHER -> Fails(500)

\* The routes of ServerEndpoints.  Nothing is registered for /rsps, the list
\* of usage points is not among them, and DERRequests asks for an adapter
\* that does not exist.  The Time has no href.
Answer(d, path) ==
  CASE path[1] = "dcap" -> DcapAnswer
    [] path[1] = "tm" -> Gives("Time", NoHref, {})
    [] path[1] = "edev" -> EndDeviceAnswer(d, path)
    [] path[1] = "derp" -> ProgramAnswer(path)
    [] path[1] = "fsa" -> FSARequest(path)
    [] path[1] = "mup" -> Gives("MirrorUsagePointList", path, {})
    [] path[1] \in {"upt", "rsps"} -> Fails(404)
    [] OTHER -> Fails(500)

\* What start-up and the handlers fill in, links and items apart, with a section
\* for each program as in the README; DERControl is not among them, which has
\* what its section has.
Filled(class) ==
  CASE class = "EndDevice" -> {"lFDI", "sFDI", "deviceCategory", "enabled", "changedTime"}
    [] class = "Registration" -> {"pIN", "dateTimeRegistered"}
    [] class = "Time" -> {"currentTime", "dstEndTime", "dstOffset", "localTime", "tzOffset"}
    [] class = "DERProgram" -> {"description", "primacy"} \cup
         (IF \A k \in UNION Members(fsas) : programs[k].mRID # 0 THEN {"mRID"} ELSE {})
    [] class \in {"EndDeviceList", "FunctionSetAssignmentsList", "DERList", "DERProgramList",
                  "DERControlList", "MirrorUsagePointList"} -> {"all", "results"}
    [] OTHER -> {}
NeverFilled(class) ==
  CASE class = "Time" -> {"dstStartTime", "quality"}
    [] class = "FunctionSetAssignments" -> {"mRID"}
    [] class = "DeviceStatus" -> {"changedTime"}
    [] class = "DeviceInformation" -> DM!AllRequired(class)
    [] OTHER -> {}

\* Where a device starts, the links in what it is answered under others, and all
\* links it comes across in six answers; no more come with a seventh.
Entry == Link("", <<"dcap">>, "DeviceCapability")
Further(d, links) == UNION {{l} \cup Answer(d, l.to).links : l \in links}
Walk(d) == LET twice(links) == Further(d, Further(d, links))
           IN  twice(twice(twice({Entry})))
-----------------------------------------------------------------------------
(* Properties. *)

\* The lists of a device and its DERs are read with the index of its path, of
\* which only 0 gets through (enddevicesfs.py 124, 140); nothing answers a
\* program, a curve list or a control at its own href; a device has its href in
\* the list only; the default control is a DERControl; and below a DER there is
\* what was PUT first: nothing, or something else, or with an href of its own.
Excused(d, l) ==
  \/ l.by \in {"ResponseSetListLink", "UsagePointListLink", "EndDevice", "DERProgram",
              "CurrentDERProgramLink", "DERCurveListLink", "DERControl", "DefaultDERControlLink"}
  \/ d > 1 /\ l.by \in {"FunctionSetAssignmentsListLink", "DERListLink"}
  \/ Len(l.to) = 5 /\ LET kept == slots[<<<<l.to[2], l.to[4]>>, l.to[5]>>] IN
       \/ kept = <<>> \/ ~DM!IsA(kept[1].class, l.class)
       \/ kept[1].href \notin {<<"path">>, l.to}

\* The href of what a link leads to: the Time and the programs of an FSA have
\* none (timefs.py 34-39, enddevicesfs.py 211).
Promised(l) == IF l.by \in {"TimeLink", "DERProgramListLink"} THEN NoHref ELSE l.to

\* A device that follows its links from /dcap on, page by page, gets under each
\* an object of the class the link is for, with the href the link has or with
\* none where none is given out, but for the links that are excused, which lead
\* to nothing of the kind.
LinksLead == Running => \A d \in DOMAIN devices : \A l \in Walk(d) :
  LET got == Answer(d, l.to) IN
  Excused(d, l) <=> ~(got.status = 200 /\ DM!IsA(got.class, l.class) /\ got.href = Promised(l))

\* The classes of the objects in an answer: its own and those of the items of a
\* list.  What was PUT below a DER or configured is left to the device and to
\* the configuration.
Objects(a) == IF a.status # 200 THEN {}
  ELSE {a.class} \cup {i.class : i \in {l \in a.links : l.by = l.class}}
ByServer(l) == IF Len(l.to) = 5 THEN {} ELSE DM!ClassName \ {"DERControl"}

\* Whatever a device reads along its links has all that the data model requires
\* of its class, but for what the server never fills in, and carries links and
\* items by elements the class declares (others are not serialized).  In
\* particular a program that can be reached has its mRID, though it is made
\* without one and given it while devices are registered (enddevices.py 87-89).
AnswersComplete == Running => \A d \in DOMAIN devices : \A l \in Walk(d) :
  LET got == Answer(d, l.to) IN
  /\ \A c \in Objects(got) \cap ByServer(l) :
       DM!AllRequired(c) \ Filled(c) = NeverFilled(c)
  /\ got.status = 200 => \A i \in got.links :
       i.by \in DM!AllLinks(got.class) \cup DM!AllLists(got.class)
         \cup UNION {DM!AllLinks(c) : c \in Objects(got) \ {got.class}}

Covered(list) == \A start \in 0 .. Len(list) + 1 : \A limit \in 0 .. 4 :
  LET page == Page(list, start, limit)
      from(n) == SubSeq(list, n + 1, Len(list))
  IN  /\ page \o from(start + Len(page)) = from(start)
      /\ limit = 0 => page = from(start)
      /\ limit > 0 => Len(page) <= limit /\ (start < Len(list) => page # <<>>)

\* A client that goes through a list of FSAs or DERs page by page, with whatever
\* limits, gets every item once and in order; without a limit, all that is left
\* (adapters/__init__.py 199-212).
PagesCover == Covered(fsas) /\ \A d \in DOMAIN devices : Covered(devices[d].ders)
=============================================================================
