----------------------- MODULE DERControlEventsProofs -----------------------
(***************************************************************************)
(* Theorems about DERControlEvents and ActiveListReads, for any number of  *)
(* programs and controls, any intervals and any oversleeping of the clock  *)
(* thread.                                                                 *)
(*                                                                         *)
(* While the administrator only posts events that are new, FreshInv holds: *)
(* the active lists agree with the statuses, the clock thread dies only of *)
(* an interval without start or duration, a walk leaves what is on, the    *)
(* promises of EventLifecycle are kept; and whoever reads a list meanwhile *)
(* gets nothing twice, misses only what removals hide and is told no wrong *)
(* status.  When controls are replaced, PlaceInv and OrphanInv say what is *)
(* left of that: one listing per mRID, and the two ways for the clock      *)
(* thread to die.                                                          *)
(***************************************************************************)
EXTENDS ActiveListReads, AdapterLemmas, FiniteSetTheorems

InProgram(p) == Members(derc[p])

\* What posting keeps true of the lists of a program.
Lists ==
  \A p \in Program :
    /\ Distinct(derc[p], href)
    /\ \A o \in InProgram(p) : Used(o)
    /\ \A o, x \in InProgram(p) :
         HasInterval(o) /\ HasInterval(x) /\ mRID[o] = mRID[x] => o = x
    /\ \A q \in Program : \A o \in InProgram(p) \cap InProgram(q) :
         HasInterval(o) => p = q

\* What the clock thread keeps true of the active lists.
Actives ==
  \A p \in Program :
    /\ Listed(p) \subseteq InProgram(p)
    /\ \A o \in Listed(p) : HasInterval(o)
    /\ Distinct(derca[p], href)

\* What a status says of the clock.
Statuses ==
  \A o \in Obj :
    /\ status[o] # "Cancelled"
    /\ status[o] = "Active" => Started(o)
    /\ status[o] = "Complete" => Over(o)

\* Where the clock thread is says what it has in hand.
Hand ==
  /\ pc = "dead" => hand \in Obj /\ Used(hand) /\ Incomplete(hand)
  /\ pc \in {"event", "add", "remove"} => hand \in InProgram(prog)
  /\ pc = "add" => Inside(hand) /\ status[hand] = "Active"
  /\ pc = "remove" =>
       HasInterval(hand) /\ status[hand] = "Complete" /\ hand \in Listed(prog)

\* ActiveListed, one control at a time.
Agreement ==
  \A p \in Program, o \in Obj \ InHand :
    o \in Listed(p) <=> o \in InProgram(p) /\ status[o] = "Active"

\* Where the clock thread holds a control, it holds one of a program.
InStep ==
  /\ pc \in {"control", "event", "add", "remove"} => prog \in Program
  /\ pc \in {"event", "add", "remove"} => hand \in Obj

FreshInv == TypeOK /\ InStep /\ Lists /\ Actives /\ Statuses /\ Hand /\ Agreement
-----------------------------------------------------------------------------
(* Types. *)

LEMMA TypeFacts ==
  ASSUME TypeOK
  PROVE  /\ now \in Nat
         /\ href \in [Obj -> Href \cup {NoHref}]
         /\ \A p \in Program : Len(derc[p]) \in Nat
<1>1. \A p \in Program : derc[p] \in Seq(Obj)
  BY DEF TypeOK
<1> QED BY <1>1, ClockAssumption, LenProperties DEF TypeOK, href, Control

LEMMA ClockTypes ==
  ASSUME TypeOK, InStep, Clock
  PROVE  TypeOK' /\ InStep'
<1> USE ProgramAssumption DEF TypeOK, InStep, Program
<1>1. CASE Tick
  <2>1. now' \in 0 .. Horizon
    BY <1>1, ClockAssumption DEF Tick, Later
  <2> QED BY <1>1, <2>1 DEF Tick, store, Stages
<1>2. CASE EnterProgram
  <2>1. prog \in Program /\ prog + 1 \in 1 .. NumPrograms + 1
    BY <1>2 DEF EnterProgram
  <2>2. prog' \in {prog, prog + 1} /\ pc' \in {pc, "control"} /\ cursor' \in {cursor, 1}
    BY <1>2, Zenon DEF EnterProgram
  <2>3. live' \in BOOLEAN
    <3>1. live' = live \/ live' = (prog \in opened)
      BY <1>2, Zenon DEF EnterProgram
    <3>2. (prog \in opened) \in BOOLEAN
      BY SMT
    <3>3. live \in BOOLEAN
      OBVIOUS
    <3> HIDE DEF TypeOK
    <3> QED BY <3>1, <3>2, <3>3, Zenon
  <2>4. InStep'
    BY <1>2, <2>1 DEF EnterProgram
  <2>5. UNCHANGED <<now, ctl, status, derc, derca, opened, hand>>
    BY <1>2 DEF EnterProgram, store
  <2> QED BY <2>1, <2>2, <2>3, <2>4, <2>5 DEF Stages
<1>3. CASE EndPass
  <2>1. prog' \in 1 .. NumPrograms + 1 /\ cursor' \in Nat \ {0}
    BY <1>3 DEF EndPass
  <2> QED BY <1>3, <2>1 DEF EndPass, store, Stages
<1>4. CASE TakeControl
  <2>1. prog \in Program
    BY <1>4 DEF TakeControl
  <2>2. cursor \in 1 .. Len(derc[prog])
    BY <1>4, <2>1, LenProperties DEF TakeControl
  <2>3. hand' \in Obj
    BY <1>4, <2>1, <2>2, ElementOfSeq DEF TakeControl
  <2> QED BY <1>4, <2>1, <2>3 DEF TakeControl, store, Stages
<1>5. CASE EndProgram
  BY <1>5 DEF EndProgram, store, Stages
<1>6. CASE HandleEvent
  <2>1. hand \in Obj /\ Classified(hand) \in Status
    BY <1>6 DEF HandleEvent, Classified, Status
  <2>2. status' \in [Obj -> Status]
    BY <1>6, <2>1 DEF HandleEvent, Open, Close, Pass, Raise, Status
  <2>3. pc' \in Stages /\ hand' \in Obj \cup {NoObj}
    BY <1>6 DEF HandleEvent, Open, Close, Pass, Raise, NextControl, Stages
  <2>4. InStep'
    BY <1>6 DEF HandleEvent, Open, Close, Pass, Raise, NextControl
  <2> QED BY <1>6, <2>2, <2>3, <2>4 DEF HandleEvent
<1>7. CASE AddActive
  <2>1. prog \in Program /\ hand \in Obj
    BY <1>7 DEF AddActive
  <2>2. AddReplaceChild(derca[prog], hand, href) \in Seq(Obj)
    BY <2>1, AddReplaceChildSeq
  <2>3. derca' \in [Program -> Seq(Obj)]
    BY <1>7, <2>1, <2>2 DEF AddActive
  <2> QED BY <1>7, <2>1, <2>3 DEF AddActive, NextControl, Stages
<1>8. CASE RemoveActive
  <2>1. prog \in Program /\ hand \in Obj
    BY <1>8 DEF RemoveActive
  <2>2. hand \in Members(derca[prog]) => RemoveChild(derca[prog], hand) \in Seq(Obj)
    BY <2>1, RemoveChildType
  <2>3. derca' \in [Program -> Seq(Obj)]
    BY <1>8, <2>1, <2>2 DEF RemoveActive
  <2> QED BY <1>8, <2>1, <2>3 DEF RemoveActive, NextControl, Stages
<1> QED BY <1>1, <1>2, <1>3, <1>4, <1>5, <1>6, <1>7, <1>8 DEF Clock

LEMMA PostTypes ==
  ASSUME TypeOK, InStep, PostControl
  PROVE  TypeOK' /\ InStep'
<1>1. PICK p \in Program, o \in Obj, c \in Posted, s \in PostStatus :
        ReplaceControl(p, o, c, s) \/ AddControl(p, o, c, s)
  BY DEF PostControl
<1>2. derc[p] \in Seq(Obj) /\ href \in [Obj -> Href \cup {NoHref}]
  BY TypeFacts DEF TypeOK
<1>3. ASSUME NEW h \in Href \cup {NoHref}, Store(o, c, s, h)
      PROVE  ctl' \in [Obj -> Control] /\ status' \in [Obj -> Status]
  <2>1. [c EXCEPT !.href = h] \in Control
    BY <1>3 DEF Posted, Control
  <2> QED BY <1>3, <2>1, PostAssumption DEF Store, TypeOK, Status
<1>4. CASE ReplaceControl(p, o, c, s)
  <2> DEFINE index == First(Known(p, c.mRID))
             h == IF c.href = NoHref THEN href[derc[p][index]] ELSE c.href
  <2>1. index \in 1 .. Len(derc[p])
    BY <1>2, <1>4, PositionsInSeq DEF ReplaceControl, Known
  <2>2. derc[p][index] \in Obj
    BY <1>2, <2>1, ElementOfSeq
  <2>3. h \in Href \cup {NoHref}
    BY <1>2, <2>2, PostAssumption DEF Posted
  <2>4. ReplaceChild(derc[p], index, o) \in Seq(Obj)
    BY <1>2, <2>1, ReplaceChildSeq
  <2>5. derc' \in [Program -> Seq(Obj)]
    BY <1>4, <2>4 DEF ReplaceControl, TypeOK
  <2>6. Store(o, c, s, h)
    BY <1>4 DEF ReplaceControl
  <2> QED BY <1>3, <1>4, <2>3, <2>5, <2>6 DEF ReplaceControl, TypeOK, InStep, clock
<1>5. CASE AddControl(p, o, c, s)
  <2> DEFINE h == IF c.href = NoHref THEN <<p, Len(derc[p])>> ELSE c.href
  <2>1. h \in Href \cup {NoHref}
    BY TypeFacts, PostAssumption DEF Posted, Href, Program
  <2>2. AddReplaceChild(derc[p], o, [href EXCEPT ![o] = h]) \in Seq(Obj)
    BY <1>2, AddReplaceChildSeq
  <2>3. derc' \in [Program -> Seq(Obj)]
    BY <1>5, <2>2 DEF AddControl, TypeOK
  <2>4. Store(o, c, s, h)
    BY <1>5 DEF AddControl
  <2> QED BY <1>3, <1>5, <2>1, <2>3, <2>4 DEF AddControl, TypeOK, InStep, clock
<1> QED BY <1>1, <1>4, <1>5

LEMMA InitTypes == Init => TypeOK /\ InStep
<1> SUFFICES ASSUME Init PROVE TypeOK /\ InStep
  OBVIOUS
<1>1. ctl \in [Obj -> Control]
  BY ConfigurationAssumption DEF Init, Control, Unwritten, Href
<1>2. derca \in [Program -> Seq(Obj)]
  BY EmptySeq DEF Init
<1>3. now \in 0 .. Horizon /\ prog \in 1 .. NumPrograms + 1 /\ cursor \in Nat \ {0}
  BY ClockAssumption, ProgramAssumption DEF Init
<1> QED BY <1>1, <1>2, <1>3, ConfigurationAssumption
        DEF Init, TypeOK, InStep, Status, Stages

LEMMA StepTypes ==
  ASSUME TypeOK, InStep, [Next]_vars
  PROVE  TypeOK' /\ InStep'
<1>1. CASE Next
  BY <1>1, ClockTypes, PostTypes DEF Next
<1>2. CASE UNCHANGED vars
  BY <1>2 DEF vars, TypeOK, InStep
<1> QED BY <1>1, <1>2

\* Every variable keeps its type, whatever is posted and however the two
\* threads interleave: in particular the clock thread never works on anything
\* but a control of the store.
THEOREM TypeCorrect == Spec => []TypeOK
<1>1. Init => TypeOK /\ InStep
  BY InitTypes
<1>2. TypeOK /\ InStep /\ [Next]_vars => (TypeOK /\ InStep)'
  BY StepTypes
<1> QED BY <1>1, <1>2, PTL DEF Spec
-----------------------------------------------------------------------------
(* The active lists, while the administrator only posts new events. *)

\* A control without an interval has none to be inside of.
LEMMA NoWindow == NoInterval \notin Window
<1>1. Window \subseteq [start : Time, duration : Time]
  BY DEF Window, Time
<1> QED BY <1>1, NullAssumption

LEMMA FreshInit == Init => FreshInv
<1> SUFFICES ASSUME Init PROVE FreshInv
  OBVIOUS
<1>1. TypeOK /\ InStep
  BY InitTypes
<1>2. \A o \in Obj : ctl[o].interval = NoInterval /\ status[o] = "None"
  BY DEF Init, Unwritten
<1>3. \A p \in Program : Listed(p) = {}
  BY DEF Init, Listed, Members
<1>4. \A p \in Program : \A i \in DOMAIN derc[p] :
        derc[p][i] \in Obj /\ href[derc[p][i]] = ConfiguredHref[derc[p][i]]
  <2> SUFFICES ASSUME NEW p \in Program, NEW i \in DOMAIN derc[p]
               PROVE  derc[p][i] \in Obj /\ href[derc[p][i]] = ConfiguredHref[derc[p][i]]
    OBVIOUS
  <2>1. derc[p] = Configured[p] /\ derc[p] \in Seq(Obj)
    BY ConfigurationAssumption DEF Init
  <2>2. derc[p][i] \in Obj /\ derc[p][i] \in Members(Configured[p])
    BY <2>1 DEF Members
  <2> QED BY <2>2 DEF Init, InConfiguration, href, Unwritten
<1>5. Lists
  <2> SUFFICES ASSUME NEW p \in Program
               PROVE  Distinct(derc[p], href) /\ \A o \in InProgram(p) : Used(o)
    BY <1>1, <1>2, MembersOfSeq, NoWindow DEF Lists, HasInterval, InProgram, TypeOK
  <2>1. Distinct(derc[p], href)
    BY <1>4, ConfigurationAssumption DEF Init, Distinct
  <2>2. \A o \in InProgram(p) : href[o] \in Href
    BY <1>4, ConfigurationAssumption DEF InProgram, Members, Href
  <2>3. \A o \in InProgram(p) : o \in Obj
    BY <1>4 DEF InProgram, Members
  <2> QED BY <2>1, <2>2, <2>3, NullAssumption DEF Used, Unused, href
<1>6. \A p \in Program : Distinct(derca[p], href)
  BY DEF Init, Distinct
<1> QED BY <1>1, <1>2, <1>3, <1>5, <1>6
        DEF FreshInv, Init, Actives, Statuses, Hand, Agreement

\* In a program, the href tells the controls apart.
LEMMA SameHref ==
  ASSUME TypeOK, Lists, NEW p \in Program, NEW x \in InProgram(p), NEW o \in InProgram(p),
         href[x] = href[o]
  PROVE  x = o
<1>1. PICK i \in DOMAIN derc[p], j \in DOMAIN derc[p] : x = derc[p][i] /\ o = derc[p][j]
  BY DEF InProgram, Members
<1> QED BY <1>1 DEF Lists, Distinct

\* The intervals of controls are made of natural numbers.
LEMMA Windows ==
  ASSUME TypeOK, NEW o \in Obj, HasInterval(o)
  PROVE  ctl[o].interval.start \in Nat /\ ctl[o].interval.duration \in Nat
BY DEF HasInterval, Window

LEMMA SameLists ==
  ASSUME Lists, UNCHANGED <<ctl, derc>>
  PROVE  Lists'
<1>1. href' = href /\ mRID' = mRID
  BY DEF href, mRID
<1> QED BY <1>1 DEF Lists, Distinct, InProgram, Members, Used, Unused, HasInterval

LEMMA SameActives ==
  ASSUME Actives, UNCHANGED <<ctl, derc, derca>>
  PROVE  Actives'
<1>1. href' = href
  BY DEF href
<1> QED BY <1>1 DEF Actives, Distinct, InProgram, Listed, Members, HasInterval

\* The clock thread only moves: the store stays as it is.
LEMMA QuietFresh ==
  ASSUME FreshInv, UNCHANGED <<now, store>>, pc \notin {"add", "remove"},
         pc' \in {"sleep", "program", "control", "event"},
         pc' = "event" => prog' \in Program /\ hand' \in InProgram(prog')
  PROVE  Lists' /\ Actives' /\ Statuses' /\ Hand' /\ Agreement'
<1> USE DEF FreshInv, store
<1>1. Lists' /\ Actives'
  BY SameLists, SameActives
<1>2. Statuses'
  BY DEF HasInterval, Statuses, Started, Over
<1>3. Hand'
  BY DEF Hand, InProgram
<1>4. Agreement'
  BY DEF Agreement, InHand, Listed, InProgram
<1> QED BY <1>1, <1>2, <1>3, <1>4

LEMMA TickFresh ==
  ASSUME FreshInv, Tick
  PROVE  Lists' /\ Actives' /\ Statuses' /\ Hand' /\ Agreement'
<1> USE DEF FreshInv, Tick, store
<1>1. Lists' /\ Actives'
  BY SameLists, SameActives
<1>2. now \in Nat /\ now' \in Nat /\ now <= now'
  BY ClockAssumption DEF TypeOK, Later
<1>3. Statuses'
  <2> SUFFICES ASSUME NEW o \in Obj
               PROVE  /\ Started(o) => Started(o)'
                      /\ Over(o) => Over(o)'
    BY DEF Statuses
  <2> QED BY <1>2, Windows DEF Started, Over, HasInterval
<1>4. Hand' /\ Agreement'
  BY DEF Hand, Agreement, InHand, Listed, InProgram
<1> QED BY <1>1, <1>3, <1>4

\* Meeting a control: its status may change, and then it stays in hand until
\* its listing has changed as well.
LEMMA HandleFresh ==
  ASSUME FreshInv, HandleEvent
  PROVE  Lists' /\ Actives' /\ Statuses' /\ Hand' /\ Agreement'
<1> USE DEF FreshInv
<1>1. Lists' /\ Actives'
  BY SameLists, SameActives DEF HandleEvent
<1>2. /\ prog \in Program /\ hand \in Obj /\ hand \in InProgram(prog)
      /\ InHand = {} /\ status \in [Obj -> Status] /\ now \in Nat
  BY ClockAssumption DEF HandleEvent, InStep, Hand, InHand, TypeOK
<1>3. CASE Open
  <2>1. HasInterval(hand) /\ Started(hand) /\ ~Over(hand)
    BY <1>2, <1>3, Windows DEF Open, Inside, HasInterval, Started, Over
  <2>2. status'[hand] = "Active" /\ status' = [status EXCEPT ![hand] = "Active"]
    BY <1>2, <1>3, <2>1 DEF Open, Classified, Statuses, Status
  <2>3. Statuses'
    BY <1>2, <2>1, <2>2 DEF HasInterval, HandleEvent, Statuses, Started, Over
  <2>4. CASE mRID[hand] \in {mRID[o] : o \in CurrentActive}
    <3>1. PICK o \in Listed(prog) : mRID[o] = mRID[hand]
      BY <2>4 DEF CurrentActive, Listed
    <3>2. o = hand
      BY <1>2, <2>1, <3>1 DEF Lists, Actives
    <3>3. status' = status
      BY <1>2, <2>2, <3>1, <3>2 DEF Agreement
    <3> QED BY <1>1, <1>3, <2>3, <2>4, <3>3
            DEF HandleEvent, Open, NextControl, Hand, Agreement, InHand, Listed, InProgram
  <2>5. CASE mRID[hand] \notin {mRID[o] : o \in CurrentActive}
    <3>1. pc' = "add" /\ UNCHANGED <<now, ctl, derc, derca, prog, hand>>
      BY <1>3, <2>5 DEF HandleEvent, Open
    <3>2. Hand'
      BY <1>2, <1>3, <2>2, <3>1 DEF HasInterval, Hand, InProgram, Open, Inside
    <3>3. Agreement'
      BY <1>2, <2>2, <3>1 DEF Agreement, InHand, Listed, InProgram
    <3> QED BY <1>1, <2>3, <3>2, <3>3
  <2> QED BY <2>4, <2>5
<1>4. CASE Close
  <2>1. HasInterval(hand) /\ Over(hand) /\ ~Inside(hand)
    BY <1>2, <1>4, Windows DEF Close, Past, Inside, HasInterval, Over
  <2>2. status[hand] = "Active" /\ hand \in Listed(prog)
    BY <1>2, <1>4, <2>1 DEF Close, Classified, Agreement
  <2>3. /\ status' = [status EXCEPT ![hand] = "Complete"]
        /\ pc' = "remove" /\ UNCHANGED <<now, ctl, derc, derca, prog, hand>>
    BY <1>4 DEF HandleEvent, Close
  <2>4. Statuses'
    BY <1>2, <2>1, <2>3 DEF HasInterval, Statuses, Started, Over
  <2>5. Hand'
    BY <1>2, <2>1, <2>2, <2>3 DEF Hand, InProgram, Listed, HasInterval
  <2>6. Agreement'
    BY <1>2, <2>3 DEF Agreement, InHand, Listed, InProgram
  <2> QED BY <1>1, <2>4, <2>5, <2>6
<1>5. CASE Pass
  <2>1. /\ status' = [status EXCEPT ![hand] = Classified(hand)]
        /\ ~Inside(hand)
        /\ pc' = "control" /\ UNCHANGED <<now, ctl, derc, derca, prog>>
    BY <1>5 DEF HandleEvent, Pass, NextControl
  <2>2. status'[hand] = status[hand] \/ (status[hand] = "None" /\ status'[hand] = "Scheduled")
    BY <1>2, <2>1 DEF Classified
  <2>3. \A o \in Obj : /\ status'[o] = "Active" <=> status[o] = "Active"
                       /\ status'[o] = "Complete" <=> status[o] = "Complete"
                       /\ status'[o] = "Cancelled" <=> status[o] = "Cancelled"
    BY <1>2, <2>1, <2>2
  <2>4. Statuses'
    BY <2>1, <2>3 DEF HasInterval, Statuses, Started, Over
  <2>5. Agreement'
    BY <1>2, <2>1, <2>3 DEF Agreement, InHand, Listed, InProgram
  <2>6. Hand'
    BY <2>1 DEF Hand
  <2> QED BY <1>1, <2>4, <2>5, <2>6
<1>6. CASE Raise
  <2>1. /\ status' = [status EXCEPT ![hand] = status'[hand]]
        /\ status'[hand] = status[hand] \/ (status[hand] = "None" /\ status'[hand] = "Scheduled")
        /\ pc' = "dead" /\ Incomplete(hand) /\ UNCHANGED <<now, ctl, derc, derca, prog, hand>>
    BY <1>2, <1>6 DEF HandleEvent, Raise
  <2>2. \A o \in Obj : /\ status'[o] = "Active" <=> status[o] = "Active"
                       /\ status'[o] = "Complete" <=> status[o] = "Complete"
                       /\ status'[o] = "Cancelled" <=> status[o] = "Cancelled"
    BY <1>2, <2>1
  <2>3. Statuses'
    BY <2>1, <2>2 DEF Statuses, Started, Over, HasInterval
  <2>4. Agreement'
    BY <1>2, <2>1, <2>2 DEF Agreement, InHand, Listed, InProgram
  <2>5. Hand'
    BY <1>2, <2>1 DEF Hand, Lists, Used, Unused, Incomplete, HasInterval
  <2> QED BY <1>1, <2>3, <2>4, <2>5
<1> QED BY <1>3, <1>4, <1>5, <1>6 DEF HandleEvent

LEMMA AddActiveFresh ==
  ASSUME FreshInv, AddActive
  PROVE  Lists' /\ Actives' /\ Statuses' /\ Hand' /\ Agreement'
<1> USE DEF FreshInv
<1>1. /\ prog \in Program /\ hand \in Obj /\ hand \in InProgram(prog)
      /\ status[hand] = "Active" /\ HasInterval(hand) /\ InHand = {hand}
      /\ derca \in [Program -> Seq(Obj)] /\ Listed(prog) \subseteq InProgram(prog)
  BY DEF AddActive, InStep, Hand, InHand, TypeOK, Inside, HasInterval, Actives
<1>2. UNCHANGED <<now, ctl, status, derc, prog>> /\ pc' = "control" /\ InHand' = {}
  BY DEF AddActive, NextControl, InHand
<1>3. \A x \in Listed(prog) : href[x] = href[hand] => x = hand
  BY <1>1, SameHref
<1>4. /\ Members(AddReplaceChild(derca[prog], hand, href)) = Listed(prog) \cup {hand}
      /\ Distinct(AddReplaceChild(derca[prog], hand, href), href)
  BY <1>1, <1>3, AddReplaceChildKeeps, AddReplaceChildDistinct DEF Listed, Actives
<1>5. derca' = [derca EXCEPT ![prog] = AddReplaceChild(derca[prog], hand, href)]
  BY DEF AddActive
<1>6. \A p \in Program :
        /\ Listed(p)' = IF p = prog THEN Listed(p) \cup {hand} ELSE Listed(p)
        /\ p # prog => derca'[p] = derca[p]
  BY <1>1, <1>2, <1>4, <1>5 DEF Listed
<1>7. Lists' /\ Statuses' /\ Hand'
  BY <1>2, SameLists DEF HasInterval, Statuses, Started, Over, Hand
<1>8. ASSUME NEW p \in Program
      PROVE  /\ Listed(p)' \subseteq InProgram(p)'
             /\ \A o \in Listed(p)' : HasInterval(o)'
             /\ Distinct(derca[p], href)'
  <2>1. href' = href
    BY <1>2 DEF href
  <2>2. CASE p = prog
    BY <1>1, <1>2, <1>4, <1>5, <1>6, <2>1, <2>2
       DEF Actives, InProgram, HasInterval, Distinct, Listed
  <2>3. CASE p # prog
    BY <1>2, <1>6, <2>1, <2>3 DEF Actives, InProgram, HasInterval, Distinct, Listed
  <2> QED BY <2>2, <2>3
<1>9. ASSUME NEW p \in Program, NEW o \in Obj
      PROVE  o \in Listed(p)' <=> o \in InProgram(p)' /\ status'[o] = "Active"
  <2>1. CASE o # hand
    <3>1. o \in Listed(p)' <=> o \in Listed(p)
      BY <1>6, <2>1
    <3> QED BY <1>1, <1>2, <2>1, <3>1 DEF Agreement, InProgram
  <2>2. CASE o = hand /\ p = prog
    BY <1>1, <1>2, <1>6, <2>2 DEF InProgram
  <2>3. CASE o = hand /\ p # prog
    <3>1. hand \notin InProgram(p)
      BY <1>1, <2>3 DEF Lists
    <3> QED BY <1>2, <1>6, <2>3, <3>1 DEF Actives, Listed, InProgram
  <2> QED BY <2>1, <2>2, <2>3
<1>10. Actives'
  BY <1>8 DEF Actives
<1>11. Agreement'
  BY <1>9 DEF Agreement
<1> QED BY <1>7, <1>10, <1>11

LEMMA RemoveActiveFresh ==
  ASSUME FreshInv, RemoveActive
  PROVE  Lists' /\ Actives' /\ Statuses' /\ Hand' /\ Agreement'
<1> USE DEF FreshInv
<1>1. /\ prog \in Program /\ hand \in Obj /\ hand \in InProgram(prog)
      /\ hand \in Listed(prog) /\ status[hand] = "Complete" /\ HasInterval(hand)
      /\ InHand = {hand} /\ derca \in [Program -> Seq(Obj)]
  BY DEF RemoveActive, InStep, Hand, InHand, TypeOK
<1>2. UNCHANGED <<now, ctl, status, derc, prog>> /\ pc' = "control" /\ InHand' = {}
  BY <1>1 DEF RemoveActive, NextControl, InHand, Listed
<1>3. /\ Members(RemoveChild(derca[prog], hand)) = Listed(prog) \ {hand}
      /\ Distinct(RemoveChild(derca[prog], hand), href)
  BY <1>1, RemoveChildSeq DEF Listed, Actives
<1>4. derca' = [derca EXCEPT ![prog] = RemoveChild(derca[prog], hand)]
  BY <1>1 DEF RemoveActive, Listed
<1>5. \A p \in Program :
        /\ Listed(p)' = IF p = prog THEN Listed(p) \ {hand} ELSE Listed(p)
        /\ p # prog => derca'[p] = derca[p]
  BY <1>1, <1>3, <1>4 DEF Listed
<1>6. Lists' /\ Statuses' /\ Hand'
  BY <1>2, SameLists DEF HasInterval, Statuses, Started, Over, Hand
<1>7. ASSUME NEW p \in Program
      PROVE  /\ Listed(p)' \subseteq InProgram(p)'
             /\ \A o \in Listed(p)' : HasInterval(o)'
             /\ Distinct(derca[p], href)'
  <2>1. href' = href
    BY <1>2 DEF href
  <2>2. CASE p = prog
    BY <1>1, <1>2, <1>3, <1>4, <1>5, <2>1, <2>2
       DEF Actives, InProgram, HasInterval, Distinct, Listed
  <2>3. CASE p # prog
    BY <1>2, <1>5, <2>1, <2>3 DEF Actives, InProgram, HasInterval, Distinct, Listed
  <2> QED BY <2>2, <2>3
<1>8. ASSUME NEW p \in Program, NEW o \in Obj
      PROVE  o \in Listed(p)' <=> o \in InProgram(p)' /\ status'[o] = "Active"
  <2>1. CASE o # hand
    <3>1. o \in Listed(p)' <=> o \in Listed(p)
      BY <1>5, <2>1
    <3> QED BY <1>1, <1>2, <2>1, <3>1 DEF Agreement, InProgram
  <2>2. CASE o = hand /\ p = prog
    BY <1>1, <1>2, <1>5, <2>2 DEF InProgram
  <2>3. CASE o = hand /\ p # prog
    <3>1. hand \notin InProgram(p)
      BY <1>1, <2>3 DEF Lists
    <3> QED BY <1>1, <1>2, <1>5, <2>3, <3>1 DEF Actives, Listed, InProgram
  <2> QED BY <2>1, <2>2, <2>3
<1>9. Actives'
  BY <1>7 DEF Actives
<1>10. Agreement'
  BY <1>8 DEF Agreement
<1> QED BY <1>6, <1>9, <1>10

\* Posting a new event appends it to one program and touches nothing else.
LEMMA PostFresh ==
  ASSUME FreshInv, ~Replacing, PostControl
  PROVE  Lists' /\ Actives' /\ Statuses' /\ Hand' /\ Agreement'
<1> USE DEF FreshInv
<1>1. PICK p \in Program, o \in Obj, c \in Posted, s \in PostStatus : AddControl(p, o, c, s)
  BY DEF PostControl, ReplaceControl
<1> DEFINE h == IF c.href = NoHref THEN <<p, Len(derc[p])>> ELSE c.href
           hrefs == [href EXCEPT ![o] = h]
<1>2. /\ ctl \in [Obj -> Control] /\ status \in [Obj -> Status]
      /\ derc \in [Program -> Seq(Obj)] /\ derca \in [Program -> Seq(Obj)]
  BY DEF TypeOK
<1>3. /\ ctl' = [ctl EXCEPT ![o] = [c EXCEPT !.href = h]]
      /\ status' = [status EXCEPT ![o] = "None"]
      /\ derc' = [derc EXCEPT ![p] = AddReplaceChild(derc[p], o, hrefs)]
      /\ UNCHANGED <<now, derca, pc, prog, hand>>
      /\ Unused(o) /\ Positions(derc[p], href, h) = {}
  BY <1>1 DEF AddControl, Store, clock
<1>4. \A q \in Program : o \notin InProgram(q) /\ o \notin Listed(q)
  BY <1>3 DEF Lists, Actives, Used
<1>5. \A q \in Program : InProgram(q) \subseteq Obj /\ Listed(q) \subseteq InProgram(q)
  BY <1>2, MembersOfSeq DEF Actives, InProgram
<1>6. h \in Href
  <2>1. Len(derc[p]) \in Nat
    BY TypeFacts
  <2> QED BY <2>1, PostAssumption DEF Posted, Href, Program
<1>7. /\ hrefs[o] = h /\ \A x \in Obj \ {o} : hrefs[x] = href[x]
      /\ href' = hrefs
  <2>1. href \in [Obj -> Href \cup {NoHref}]
    BY TypeFacts
  <2>2. hrefs[o] = h /\ \A x \in Obj \ {o} : hrefs[x] = href[x]
    BY <2>1
  <2>3. [c EXCEPT !.href = h].href = h
    BY DEF Posted
  <2>4. \A x \in Obj : ctl'[x].href = hrefs[x]
    BY <1>2, <1>3, <2>2, <2>3 DEF href
  <2>5. href' = [x \in Obj |-> ctl'[x].href]
    BY DEF href
  <2> QED BY <2>1, <2>2, <2>4, <2>5
<1> HIDE DEF h, hrefs
<1>8. Positions(derc[p], hrefs, hrefs[o]) = {}
  <2>1. \A i \in DOMAIN derc[p] : derc[p][i] \in Obj \ {o}
    BY <1>4, <1>5 DEF InProgram, Members
  <2>2. \A i \in DOMAIN derc[p] : href[derc[p][i]] # h
    BY <1>3 DEF Positions
  <2> QED BY <1>7, <2>1, <2>2 DEF Positions
<1>9. \A q \in Program : InProgram(q)' = IF q = p THEN InProgram(q) \cup {o} ELSE InProgram(q)
  <2>1. Members(AddReplaceChild(derc[p], o, hrefs)) = InProgram(p) \cup {o}
    BY <1>2, <1>8, AddReplaceChildAppends DEF InProgram
  <2> QED BY <1>2, <1>3, <2>1 DEF InProgram
<1>10. /\ \A x \in Obj \ {o} : ctl'[x] = ctl[x] /\ status'[x] = status[x]
       /\ status'[o] = "None" /\ ctl'[o].href = h /\ ctl'[o].mRID = c.mRID
  BY <1>2, <1>3 DEF Posted
<1>11. \A q \in Program : Listed(q)' = Listed(q) /\ derca'[q] = derca[q]
  BY <1>3 DEF Listed
<1>12. Lists'
  <2>1. \A q \in Program : Distinct(derc[q], href)'
    <3> SUFFICES ASSUME NEW q \in Program PROVE Distinct(derc'[q], hrefs)
      BY <1>7 DEF Distinct
    <3>1. Distinct(derc[q], hrefs)
      <4>1. \A i \in DOMAIN derc[q] : derc[q][i] \in Obj \ {o}
        BY <1>4, <1>5 DEF InProgram, Members
      <4> QED BY <1>7, <4>1 DEF Lists, Distinct
    <3>2. Distinct(AddReplaceChild(derc[p], o, hrefs), hrefs) \/ q # p
      BY <1>2, <3>1, AddReplaceChildDistinct
    <3> QED BY <1>2, <1>3, <3>1, <3>2
  <2>2. \A q \in Program : \A x \in InProgram(q)' : Used(x)'
    <3>1. Used(o)'
      BY <1>6, <1>10, NullAssumption DEF Used, Unused
    <3> QED BY <1>5, <1>9, <1>10, <3>1 DEF Lists, Used, Unused
  <2>3. \A q \in Program : \A x, y \in InProgram(q)' :
          HasInterval(x)' /\ HasInterval(y)' /\ mRID'[x] = mRID'[y] => x = y
    <3>1. \A x \in InProgram(p) : mRID[x] # c.mRID
      BY <1>1, <1>2 DEF AddControl, Known, Positions, InProgram, Members
    <3>2. mRID'[o] = c.mRID /\ \A x \in Obj \ {o} : mRID'[x] = mRID[x]
      BY <1>10 DEF mRID
    <3> SUFFICES ASSUME NEW q \in Program, NEW x \in InProgram(q)', NEW y \in InProgram(q)',
                        HasInterval(x)', HasInterval(y)', mRID'[x] = mRID'[y]
                 PROVE  x = y
      OBVIOUS
    <3>3. CASE x # o /\ y # o
      BY <1>5, <1>9, <1>10, <3>2, <3>3 DEF Lists, HasInterval
    <3>4. CASE x = o \/ y = o
      BY <1>4, <1>5, <1>9, <3>1, <3>2, <3>4
    <3> QED BY <3>3, <3>4
  <2>4. \A q, r \in Program : \A x \in InProgram(q)' \cap InProgram(r)' :
          HasInterval(x)' => q = r
    BY <1>4, <1>5, <1>9, <1>10 DEF Lists, HasInterval
  <2> QED BY <2>1, <2>2, <2>3, <2>4 DEF Lists
<1>13. Actives'
  <2>1. \A q \in Program : Listed(q)' \subseteq InProgram(q)'
    BY <1>5, <1>9, <1>11
  <2>2. \A q \in Program : \A x \in Listed(q)' : HasInterval(x)'
    BY <1>4, <1>5, <1>10, <1>11 DEF Actives, HasInterval
  <2>3. \A q \in Program : Distinct(derca[q], href)'
    <3> SUFFICES ASSUME NEW q \in Program PROVE Distinct(derca[q], hrefs)
      BY <1>7, <1>11 DEF Distinct
    <3>1. \A i \in DOMAIN derca[q] : derca[q][i] \in Obj \ {o}
      BY <1>4, <1>5 DEF Listed, Members
    <3> QED BY <1>7, <3>1 DEF Actives, Distinct
  <2> QED BY <2>1, <2>2, <2>3 DEF Actives
<1>14. Statuses'
  BY <1>3, <1>10 DEF HasInterval, Statuses, Started, Over
<1>15. pc \in {"event", "add", "remove"} => hand \in Obj \ {o} /\ prog \in Program
  BY <1>4 DEF InStep, Hand
<1>16. Hand'
  <2>1. ASSUME NEW x \in Obj \ {o}
        PROVE  /\ Inside(x)' <=> Inside(x)
               /\ HasInterval(x)' <=> HasInterval(x)
               /\ Incomplete(x)' <=> Incomplete(x)
               /\ Used(x)' <=> Used(x)
    <3>1. ctl'[x] = ctl[x] /\ now' = now
      BY <1>3, <1>10
    <3> QED BY <3>1 DEF Inside, HasInterval, Incomplete, Used, Unused
  <2>2. pc = "dead" => hand \in Obj \ {o}
    BY <1>3 DEF Hand, Used
  <2>3. pc = "dead" => (hand \in Obj /\ Used(hand) /\ Incomplete(hand))'
    BY <1>3, <2>1, <2>2 DEF Hand, Incomplete, HasInterval, Used, Unused
  <2>4. pc = "add" => Inside(hand)' /\ status'[hand] = "Active"
    BY <1>3, <1>10, <1>15, <2>1 DEF Hand, Inside, HasInterval
  <2>5. pc = "remove" =>
          HasInterval(hand)' /\ status'[hand] = "Complete" /\ hand \in Listed(prog)'
    BY <1>3, <1>10, <1>11, <1>15, <2>1 DEF Hand, HasInterval
  <2>6. pc \in {"event", "add", "remove"} => hand \in InProgram(prog)'
    BY <1>3, <1>9, <1>15 DEF Hand
  <2>7. /\ pc' = pc /\ hand' = hand /\ prog' = prog
        /\ Listed(prog)' = Members(derca'[prog]) /\ InProgram(prog)' = Members(derc'[prog])
    BY <1>3 DEF Listed, InProgram
  <2> QED BY <2>3, <2>4, <2>5, <2>6, <2>7 DEF Hand, Listed, InProgram, Inside, HasInterval
<1>17. Agreement'
  <2> SUFFICES ASSUME NEW q \in Program, NEW x \in Obj \ InHand
               PROVE  x \in Listed(q)' <=> x \in InProgram(q)' /\ status'[x] = "Active"
    BY <1>3 DEF Agreement, InHand
  <2> QED BY <1>4, <1>9, <1>10, <1>11 DEF Agreement
<1> QED BY <1>12, <1>13, <1>14, <1>16, <1>17

LEMMA StepFresh ==
  ASSUME ~Replacing, FreshInv, [Next]_vars
  PROVE  FreshInv'
<1>1. CASE PostControl
  BY <1>1, PostTypes, PostFresh DEF FreshInv
<1>2. CASE Clock
  <2>1. TypeOK' /\ InStep'
    BY <1>2, ClockTypes DEF FreshInv
  <2>2. CASE EnterProgram \/ EndPass \/ TakeControl \/ EndProgram
    <3>1. UNCHANGED <<now, store>> /\ pc \notin {"add", "remove"}
          /\ pc' \in {"sleep", "program", "control", "event"}
      BY <2>2 DEF EnterProgram, EndPass, TakeControl, EndProgram, store
    <3>2. ASSUME pc' = "event" PROVE prog' \in Program /\ hand' \in InProgram(prog')
      <4>1. TakeControl
        BY <2>2, <3>2 DEF EnterProgram, EndPass, EndProgram
      <4>2. prog \in Program /\ derc[prog] \in Seq(Obj) /\ cursor \in 1 .. Len(derc[prog])
        BY <4>1, LenProperties DEF FreshInv, TypeOK, InStep, TakeControl
      <4>3. hand' \in InProgram(prog)
        BY <4>1, <4>2, MembersOfSeq DEF TakeControl, InProgram
      <4>4. prog' = prog /\ derc' = derc
        BY <4>1 DEF TakeControl, store
      <4> QED BY <4>2, <4>3, <4>4 DEF InProgram
    <3> QED BY <2>1, <3>1, <3>2, QuietFresh DEF FreshInv
  <2> QED BY <1>2, <2>1, <2>2, TickFresh, HandleFresh, AddActiveFresh, RemoveActiveFresh
          DEF FreshInv, Clock
<1>3. CASE UNCHANGED vars
  <2>1. UNCHANGED <<now, store>> /\ UNCHANGED clock
    BY <1>3 DEF vars, store, clock
  <2>2. Lists' /\ Actives'
    BY <2>1, SameLists, SameActives DEF FreshInv, store
  <2> QED BY <2>1, <2>2 DEF FreshInv, TypeOK, InStep, Statuses, Started, Over, Hand, Agreement,
             InHand, Listed, InProgram, HasInterval, Incomplete, Used, Unused, Inside, store, clock
<1> QED BY <1>1, <1>2, <1>3 DEF Next

LEMMA FreshInvariant == ~Replacing => (Spec => []FreshInv)
<1> SUFFICES ASSUME ~Replacing PROVE Spec => []FreshInv
  OBVIOUS
<1>1. Init => FreshInv
  BY FreshInit
<1>2. FreshInv /\ [Next]_vars => FreshInv'
  BY StepFresh
<1> QED BY <1>1, <1>2, PTL DEF Spec

\* While the administrator only posts new events, the active list of every
\* program agrees with the statuses of its controls between any two steps of
\* the clock thread (der.py 115-130), for any number of both.
THEOREM ActiveListCorrect == ~Replacing => (Spec => []ActiveListed)
<1>1. FreshInv => ActiveListed
  <2> SUFFICES ASSUME FreshInv, NEW p \in Program
               PROVE  Listed(p) \ InHand
                        = {o \in Members(derc[p]) : status[o] = "Active"} \ InHand
    BY DEF ActiveListed
  <2>1. derc[p] \in Seq(Obj)
    BY DEF FreshInv, TypeOK
  <2>2. Listed(p) \subseteq Obj /\ Members(derc[p]) \subseteq Obj
    BY <2>1, MembersOfSeq DEF FreshInv, Actives, InProgram
  <2> QED BY <2>2 DEF FreshInv, Agreement, InProgram
<1> QED BY <1>1, FreshInvariant, PTL

\* While the administrator only posts new events, time_updated finds every
\* control it takes off an active list there (der.py 130), so that nothing but a
\* posted interval without start or duration (der.py 104-125) ends the clock
\* thread (timeadapter.py 21-26).
THEOREM DiesOfIncompleteIntervals == ~Replacing => (Spec => []DeathIsIncomplete)
<1>1. FreshInv => DeathIsIncomplete
  BY DEF FreshInv, Hand, DeathIsIncomplete
<1> QED BY <1>1, FreshInvariant, PTL

\* When, besides, every interval that is posted has its start and its duration,
\* the clock thread lives as long as the server.
THEOREM ClockNeverDies ==
  ~Replacing /\ Interval \subseteq Window => (Spec => [](pc # "dead"))
<1> SUFFICES ASSUME ~Replacing, Interval \subseteq Window PROVE Spec => [](pc # "dead")
  OBVIOUS
<1>1. FreshInv => pc # "dead"
  BY DEF FreshInv, Hand, TypeOK, Control, Incomplete, HasInterval
<1> QED BY <1>1, FreshInvariant, PTL

\* While the administrator only posts new events, a control that is complete is
\* not on offer under its mRID (der.py 129-130): what fails once controls are
\* replaced holds as long as none is.
THEOREM FreshCompleteUnlisted == ~Replacing => (Spec => []CompleteUnlisted)
<1>1. FreshInv => CompleteUnlisted
  <2> SUFFICES ASSUME FreshInv, NEW p \in Program, NEW o \in Members(derc[p]) \ InHand,
                      status[o] = "Complete", NEW x \in Listed(p), mRID[o] = mRID[x]
               PROVE  FALSE
    BY DEF CompleteUnlisted
  <2>1. o \in Obj
    BY MembersOfSeq DEF FreshInv, TypeOK
  <2>2. HasInterval(o)
    BY <2>1 DEF FreshInv, Statuses, Over, HasInterval
  <2>3. x \in InProgram(p) /\ HasInterval(x)
    BY DEF FreshInv, Actives
  <2>4. x = o
    BY <2>2, <2>3 DEF FreshInv, Lists, InProgram
  <2>5. status[o] = "Active"
    BY <2>1, <2>4 DEF FreshInv, Agreement
  <2> QED BY <2>5
<1> QED BY <1>1, FreshInvariant, PTL

-----------------------------------------------------------------------------
(* Statuses only move forward. *)

LEMMA RankNat ==
  ASSUME NEW s \in Status
  PROVE  Rank(s) \in 0 .. 3
BY DEF Status, Rank

\* What meeting a control does to its status.
LEMMA HandleForward ==
  ASSUME TypeOK, InStep, HandleEvent
  PROVE  /\ hand \in Obj
         /\ \E s \in Status : status' = [status EXCEPT ![hand] = s] /\ Rank(s) >= Rank(status[hand])
<1>1. hand \in Obj /\ status[hand] \in Status
  BY DEF HandleEvent, InStep, TypeOK
<1>2. Classified(hand) \in Status /\ Rank(Classified(hand)) >= Rank(status[hand])
  BY <1>1 DEF Classified, Status, Rank
<1>3. CASE Open
  <2> DEFINE s == IF Classified(hand) = "Scheduled" THEN "Active" ELSE Classified(hand)
  <2>1. s \in Status /\ Rank(s) >= Rank(Classified(hand))
    BY <1>2 DEF Status, Rank
  <2>2. Rank(s) >= Rank(status[hand])
    BY <1>1, <1>2, <2>1, RankNat
  <2> QED BY <1>1, <1>3, <2>1, <2>2 DEF Open
<1>4. CASE Close
  <2>1. "Complete" \in Status /\ Rank("Complete") = 3
    BY DEF Status, Rank
  <2>2. Rank("Complete") >= Rank(status[hand])
    BY <1>1, <2>1, RankNat
  <2> QED BY <1>1, <1>4, <2>1, <2>2 DEF Close
<1>5. CASE Pass
  BY <1>1, <1>2, <1>5 DEF Pass
<1>6. CASE Raise
  <2>1. CASE status' = status
    <3>1. status' = [status EXCEPT ![hand] = status[hand]]
      BY <2>1 DEF TypeOK
    <3>2. Rank(status[hand]) \in 0 .. 3
      BY <1>1, RankNat
    <3>3. Rank(status[hand]) >= Rank(status[hand])
      BY <3>2
    <3> QED BY <1>1, <3>1, <3>3
  <2>2. CASE status[hand] = "None" /\ status' = [status EXCEPT ![hand] = "Scheduled"]
    BY <1>1, <2>2 DEF Status, Rank
  <2>3. status' = status \/ (status[hand] = "None" /\ status' = [status EXCEPT ![hand] = "Scheduled"])
    BY <1>1, <1>6 DEF Raise, TypeOK
  <2> QED BY <2>1, <2>2, <2>3
<1> QED BY <1>3, <1>4, <1>5, <1>6 DEF HandleEvent

\* The EventStatus of an object only goes None, Scheduled, Active, Complete
\* (der.py 101-129), for any number of controls, posted and replaced in any
\* order: no interleaving of the two threads reopens an event.
THEOREM StatusOnlyForward == Spec => StatusForward
<1> DEFINE A == \A o \in Obj : Used(o) => Rank(status'[o]) >= Rank(status[o])
<1>1. Init => TypeOK /\ InStep
  BY InitTypes
<1>2. TypeOK /\ InStep /\ [Next]_vars => (TypeOK /\ InStep)'
  BY StepTypes
<1>3. TypeOK /\ InStep /\ [Next]_vars => [A]_vars
  <2> SUFFICES ASSUME TypeOK, InStep, Next PROVE A
    OBVIOUS
  <2>0. ASSUME UNCHANGED status PROVE A
    BY <2>0, RankNat DEF TypeOK
  <2>1. CASE HandleEvent
    <3>1. PICK s \in Status :
            status' = [status EXCEPT ![hand] = s] /\ Rank(s) >= Rank(status[hand])
      BY <2>1, HandleForward
    <3>2. \A o \in Obj : Rank(status[o]) >= Rank(status[o])
      BY RankNat DEF TypeOK
    <3> QED BY <3>1, <3>2 DEF TypeOK
  <2>2. CASE PostControl
    <3>1. PICK o \in Obj, s \in PostStatus : Unused(o) /\ status' = [status EXCEPT ![o] = s]
      BY <2>2 DEF PostControl, ReplaceControl, AddControl, Store
    <3>2. \A x \in Obj : Rank(status[x]) >= Rank(status[x])
      BY RankNat DEF TypeOK
    <3> QED BY <3>1, <3>2 DEF TypeOK, Used
  <2>3. CASE Clock /\ ~HandleEvent
    BY <2>0, <2>3
       DEF Clock, Tick, EnterProgram, EndPass, TakeControl, EndProgram, AddActive, RemoveActive, store
  <2> QED BY <2>1, <2>2, <2>3 DEF Next
<1>4. Spec => [][A]_vars
  BY <1>1, <1>2, <1>3, PTL DEF Spec
<1> QED BY <1>4 DEF StatusForward

-----------------------------------------------------------------------------
(* A walk over the programs leaves the active lists exact. *)

\* A control a walk has met agrees with the clock until the next second.
Exact(o) ==
  /\ status[o] = "Active" => ~Over(o)
  /\ status[o] = "Scheduled" => ~Inside(o)

\* The positions this walk has left behind.
Visited(p, i) ==
  \/ pc = "sleep"
  \/ p < prog
  \/ p = prog /\ pc \in {"control", "add", "remove"} /\ i < cursor
  \/ p = prog /\ pc = "event" /\ i < cursor - 1

Walked == \A p \in Program : \A i \in DOMAIN derc[p] : Visited(p, i) => Exact(derc[p][i])

\* What the iterator has just returned is still where it was found.
AtHand == pc = "event" =>
  cursor - 1 \in DOMAIN derc[prog] /\ derc[prog][cursor - 1] = hand

\* A new event is appended to one program, in an object nothing refers to.
LEMMA NewEvent ==
  ASSUME FreshInv, ~Replacing, PostControl
  PROVE  \E p \in Program, o \in Obj, c \in Posted, h \in Href :
           /\ Unused(o) /\ \A q \in Program : o \notin InProgram(q)
           /\ ctl' = [ctl EXCEPT ![o] = [c EXCEPT !.href = h]]
           /\ status' = [status EXCEPT ![o] = "None"]
           /\ derc' = [derc EXCEPT ![p] = Append(derc[p], o)]
           /\ UNCHANGED <<now, derca, opened, clock>>
<1>1. PICK p \in Program, o \in Obj, c \in Posted, s \in PostStatus : AddControl(p, o, c, s)
  BY DEF PostControl, ReplaceControl
<1> DEFINE h == IF c.href = NoHref THEN <<p, Len(derc[p])>> ELSE c.href
           hrefs == [href EXCEPT ![o] = h]
<1>2. /\ ctl' = [ctl EXCEPT ![o] = [c EXCEPT !.href = h]]
      /\ status' = [status EXCEPT ![o] = "None"]
      /\ derc' = [derc EXCEPT ![p] = AddReplaceChild(derc[p], o, hrefs)]
      /\ UNCHANGED <<now, derca, opened, clock>>
      /\ Unused(o) /\ Positions(derc[p], href, h) = {}
  BY <1>1 DEF AddControl, Store
<1>3. \A q \in Program : o \notin InProgram(q)
  BY <1>2 DEF FreshInv, Lists, Used
<1>4. h \in Href
  <2>1. Len(derc[p]) \in Nat
    BY TypeFacts DEF FreshInv
  <2> QED BY <2>1, PostAssumption DEF Posted, Href, Program
<1>5. hrefs[o] = h /\ \A x \in Obj \ {o} : hrefs[x] = href[x]
  BY TypeFacts DEF FreshInv
<1> HIDE DEF h, hrefs
<1>6. Positions(derc[p], hrefs, hrefs[o]) = {}
  <2>1. derc[p] \in Seq(Obj)
    BY DEF FreshInv, TypeOK
  <2>2. \A i \in DOMAIN derc[p] : derc[p][i] \in Obj \ {o}
    BY <1>3, <2>1, MembersOfSeq DEF InProgram, Members
  <2>3. \A i \in DOMAIN derc[p] : href[derc[p][i]] # h
    BY <1>2 DEF Positions
  <2> QED BY <1>5, <2>2, <2>3 DEF Positions
<1>7. AddReplaceChild(derc[p], o, hrefs) = Append(derc[p], o)
  BY <1>6 DEF AddReplaceChild
<1> QED BY <1>2, <1>3, <1>4, <1>7

\* Steps that leave the second, the lists and the statuses alone.
LEMMA WalkedQuiet ==
  ASSUME Walked, UNCHANGED <<now, ctl, status, derc>>,
         \A p \in Program : \A i \in DOMAIN derc[p] : Visited(p, i)' => Visited(p, i) \/ Exact(derc[p][i])
  PROVE  Walked'
<1>1. \A o \in Obj : Exact(o)' <=> Exact(o)
  BY DEF HasInterval, Exact, Over, Inside
<1>2. ASSUME NEW p \in Program, NEW i \in DOMAIN derc[p], Visited(p, i)'
      PROVE  Exact(derc[p][i])'
  <2>1. Exact(derc[p][i])
    BY <1>2 DEF Walked
  <2> QED BY <2>1 DEF HasInterval, Exact, Over, Inside
<1> QED BY <1>2 DEF Walked

LEMMA WalkedStep ==
  ASSUME ~Replacing, FreshInv, Walked, AtHand, [Next]_vars
  PROVE  Walked' /\ AtHand'
<1>0. /\ now \in Nat /\ prog \in Nat \ {0} /\ cursor \in Nat \ {0} /\ Program = 1 .. NumPrograms
      /\ NumPrograms \in Nat /\ status \in [Obj -> Status] /\ ctl \in [Obj -> Control]
      /\ \A p \in Program : /\ derc[p] \in Seq(Obj) /\ Len(derc[p]) \in Nat
                            /\ DOMAIN derc[p] = 1 .. Len(derc[p])
                            /\ \A i \in DOMAIN derc[p] : derc[p][i] \in Obj
  BY ProgramAssumption, LenProperties, TypeFacts, ElementOfSeq DEF FreshInv, TypeOK, Program
<1>1. CASE UNCHANGED vars
  <2>1. Walked'
    BY <1>1, WalkedQuiet DEF vars, Visited, Walked
  <2> QED BY <1>1, <2>1 DEF vars, AtHand
<1>2. CASE Tick
  <2>1. \A p \in Program : \A i : ~Visited(p, i)'
    BY <1>0, <1>2 DEF Tick, Visited
  <2> QED BY <1>2, <2>1 DEF Tick, Walked, AtHand
<1>3. CASE EnterProgram
  <2>1. UNCHANGED <<now, ctl, status, derc>> /\ pc = "program" /\ prog \in Program /\ pc' # "event"
    BY <1>0, <1>3 DEF EnterProgram, store
  <2>2. ASSUME NEW p \in Program, NEW i \in DOMAIN derc[p], Visited(p, i)' PROVE Visited(p, i)
    <3>1. CASE derc[prog] = <<>>
      <4>1. DOMAIN derc[prog] = {} /\ prog' = prog + 1 /\ pc' = "program"
        BY <1>3, <2>1, <3>1, EmptySeq, LenProperties DEF EnterProgram
      <4>2. p # prog /\ p < prog + 1
        BY <2>1, <2>2, <4>1 DEF Visited
      <4> QED BY <1>0, <4>2 DEF Visited
    <3>2. CASE derc[prog] # <<>>
      <4>1. pc' = "control" /\ cursor' = 1 /\ prog' = prog
        BY <1>3, <3>2 DEF EnterProgram
      <4> QED BY <1>0, <2>1, <2>2, <4>1 DEF Visited
    <3> QED BY <3>1, <3>2
  <2>3. Walked'
    BY <2>1, <2>2, WalkedQuiet
  <2> QED BY <2>1, <2>3 DEF AtHand
<1>4. CASE EndPass
  <2>1. \A p \in Program : \A i : Visited(p, i)
    BY <1>0, <1>4 DEF EndPass, Visited
  <2>2. UNCHANGED <<now, ctl, status, derc>> /\ pc' # "event"
    BY <1>4 DEF EndPass, store
  <2>3. Walked'
    BY <2>1, <2>2, WalkedQuiet
  <2> QED BY <2>2, <2>3 DEF AtHand
<1>5. CASE TakeControl
  <2>1. /\ UNCHANGED <<now, ctl, status, derc, prog>>
        /\ pc = "control" /\ pc' = "event" /\ cursor' = cursor + 1
        /\ hand' = derc[prog][cursor] /\ cursor <= Len(derc[prog])
    BY <1>5 DEF TakeControl, store
  <2>2. prog \in Program
    BY <2>1 DEF FreshInv, InStep
  <2>3. cursor' - 1 = cursor /\ cursor \in DOMAIN derc[prog]
    BY <1>0, <2>1, <2>2
  <2>4. \A p \in Program : \A i \in DOMAIN derc[p] : Visited(p, i)' => Visited(p, i)
    BY <1>0, <2>1, <2>3 DEF Visited
  <2>5. Walked'
    BY <2>1, <2>4, WalkedQuiet
  <2> QED BY <2>1, <2>3, <2>5 DEF AtHand
<1>6. CASE EndProgram
  <2>1. /\ UNCHANGED <<now, ctl, status, derc, cursor>>
        /\ pc = "control" /\ pc' = "program" /\ prog' = prog + 1
        /\ cursor > Len(derc[prog])
    BY <1>6 DEF EndProgram, store
  <2>2. prog \in Program
    BY <2>1 DEF FreshInv, InStep
  <2>3. \A p \in Program : \A i \in DOMAIN derc[p] : Visited(p, i)' => Visited(p, i)
    <3> SUFFICES ASSUME NEW p \in Program, NEW i \in DOMAIN derc[p], Visited(p, i)'
                 PROVE  Visited(p, i)
      OBVIOUS
    <3>1. p < prog + 1
      BY <2>1 DEF Visited
    <3>2. CASE p < prog
      BY <3>2 DEF Visited
    <3>3. CASE p = prog
      <4>1. i < cursor
        BY <1>0, <2>1, <2>2, <3>3
      <4> QED BY <2>1, <3>3, <4>1 DEF Visited
    <3> QED BY <1>0, <3>1, <3>2, <3>3
  <2>4. Walked'
    BY <2>1, <2>3, WalkedQuiet
  <2> QED BY <2>1, <2>4 DEF AtHand
<1>7. CASE HandleEvent
  <2>1. /\ UNCHANGED <<now, ctl, derc, prog, cursor>> /\ pc = "event"
        /\ pc' \in {"control", "add", "remove", "dead"}
    BY <1>7 DEF HandleEvent, Open, Close, Pass, Raise, NextControl
  <2>2. prog \in Program /\ hand \in Obj /\ status[hand] # "Cancelled"
    BY <2>1 DEF FreshInv, InStep, Statuses
  <2>3. PICK s \in Status : status' = [status EXCEPT ![hand] = s]
    BY <1>7, HandleForward DEF FreshInv
  <2>4. ASSUME NEW x, x = hand PROVE Exact(x)'
    <3>1. CASE Open
      <4>1. ~Over(hand)
        BY <1>0, <2>2, <3>1, Windows DEF FreshInv, Open, Inside, Over, HasInterval
      <4>2. status'[hand] # "Scheduled"
        BY <1>0, <2>2, <3>1 DEF Open
      <4> QED BY <2>1, <2>4, <4>1, <4>2 DEF HasInterval, Exact, Over
    <3>2. CASE Close
      <4>1. status'[hand] = "Complete"
        BY <1>0, <2>2, <3>2 DEF Close
      <4> QED BY <2>4, <4>1 DEF Exact
    <3>3. CASE Pass
      <4>1. ~Inside(hand) /\ status'[hand] = Classified(hand)
            /\ (Past(hand) => Classified(hand) # "Active")
        BY <1>0, <2>2, <3>3 DEF Pass
      <4>2. Over(hand) <=> Past(hand)
        BY DEF Over, Past
      <4> QED BY <2>1, <2>4, <4>1, <4>2 DEF HasInterval, Exact, Over, Inside
    <3>4. CASE Raise
      BY <2>1, <2>4, <3>4 DEF Raise, Incomplete, Exact, Over, Inside, HasInterval
    <3> QED BY <1>7, <3>1, <3>2, <3>3, <3>4 DEF HandleEvent
  <2>5. ASSUME NEW p \in Program, NEW i \in DOMAIN derc[p], Visited(p, i)'
        PROVE  Exact(derc[p][i])'
    <3>1. CASE derc[p][i] = hand
      BY <2>1, <2>4, <3>1 DEF Exact, Over, Inside
    <3>2. CASE derc[p][i] # hand
      <4>1. Visited(p, i)
        <5>1. p < prog \/ (p = prog /\ i < cursor)
          BY <2>1, <2>5 DEF Visited
        <5>2. CASE p < prog
          BY <5>2 DEF Visited
        <5>3. CASE p = prog /\ i < cursor
          <6>1. i # cursor - 1
            BY <2>1, <3>2, <5>3 DEF AtHand
          <6>2. i < cursor - 1
            BY <1>0, <5>3, <6>1
          <6> QED BY <2>1, <5>3, <6>2 DEF Visited
        <5> QED BY <5>1, <5>2, <5>3
      <4>2. Exact(derc[p][i])
        BY <4>1 DEF Walked
      <4>3. status'[derc[p][i]] = status[derc[p][i]]
        BY <1>0, <2>2, <2>3, <3>2
      <4> QED BY <2>1, <4>2, <4>3 DEF HasInterval, Exact, Over, Inside
    <3> QED BY <3>1, <3>2
  <2> QED BY <2>1, <2>5 DEF Walked, AtHand
<1>8. CASE AddActive \/ RemoveActive
  <2>1. /\ UNCHANGED <<now, ctl, status, derc, prog, cursor>>
        /\ pc \in {"add", "remove"} /\ pc' \in {"control", "dead"}
    BY <1>8 DEF AddActive, RemoveActive, NextControl
  <2>2. \A p \in Program : \A i \in DOMAIN derc[p] : Visited(p, i)' => Visited(p, i)
    BY <2>1 DEF Visited
  <2>3. Walked'
    BY <2>1, <2>2, WalkedQuiet
  <2> QED BY <2>1, <2>3 DEF AtHand
<1>9. CASE PostControl
  <2>1. PICK q \in Program, o \in Obj, c \in Posted, h \in Href :
          /\ \A p \in Program : o \notin InProgram(p)
          /\ ctl' = [ctl EXCEPT ![o] = [c EXCEPT !.href = h]]
          /\ status' = [status EXCEPT ![o] = "None"]
          /\ derc' = [derc EXCEPT ![q] = Append(derc[q], o)]
          /\ UNCHANGED <<now, derca, opened, clock>>
    BY <1>9, NewEvent
  <2>2. UNCHANGED <<now, pc, prog, cursor, hand>>
    BY <2>1 DEF clock
  <2>3. ASSUME NEW p \in Program
        PROVE  /\ \A i \in DOMAIN derc[p] : i \in DOMAIN derc'[p] /\ derc'[p][i] = derc[p][i]
               /\ \A i \in DOMAIN derc'[p] : i \notin DOMAIN derc[p] => derc'[p][i] = o
    <3>1. CASE p # q
      BY <2>1, <3>1 DEF FreshInv, TypeOK
    <3>2. CASE p = q
      <4>1. derc'[p] = Append(derc[p], o)
        BY <2>1, <3>2 DEF FreshInv, TypeOK
      <4>2. /\ DOMAIN Append(derc[p], o) = 1 .. Len(derc[p]) + 1
            /\ \A i \in 1 .. Len(derc[p]) : Append(derc[p], o)[i] = derc[p][i]
            /\ Append(derc[p], o)[Len(derc[p]) + 1] = o
        BY <1>0, AppendProperties, LenProperties
      <4> QED BY <1>0, <4>1, <4>2
    <3> QED BY <3>1, <3>2
  <2>4. \A p \in Program : \A i \in DOMAIN derc[p] : derc[p][i] \in Obj \ {o}
    BY <1>0, <2>1 DEF InProgram, Members
  <2>5. ASSUME NEW p \in Program, NEW i \in DOMAIN derc'[p], Visited(p, i)'
        PROVE  Exact(derc[p][i])'
    <3>1. CASE i \in DOMAIN derc[p]
      <4> DEFINE x == derc[p][i]
      <4>1. Exact(x)
        BY <2>2, <2>5, <3>1 DEF Visited, Walked
      <4>2. status'[x] = status[x] /\ ctl'[x] = ctl[x] /\ x = derc'[p][i]
        BY <1>0, <2>1, <2>3, <2>4, <3>1
      <4> QED BY <2>2, <4>1, <4>2 DEF HasInterval, Exact, Over, Inside
    <3>2. CASE i \notin DOMAIN derc[p]
      <4>1. derc'[p][i] = o /\ status'[o] = "None"
        BY <1>0, <2>1, <2>3, <3>2
      <4> QED BY <4>1 DEF Exact
    <3> QED BY <3>1, <3>2
  <2>6. AtHand'
    <3> SUFFICES ASSUME pc = "event"
                 PROVE  cursor - 1 \in DOMAIN derc'[prog] /\ derc'[prog][cursor - 1] = hand
      BY <2>2 DEF AtHand
    <3>1. prog \in Program /\ cursor - 1 \in DOMAIN derc[prog] /\ derc[prog][cursor - 1] = hand
      BY DEF AtHand, FreshInv, InStep
    <3> QED BY <2>3, <3>1
  <2> QED BY <2>5, <2>6 DEF Walked
<1> QED BY <1>1, <1>2, <1>3, <1>4, <1>5, <1>6, <1>7, <1>8, <1>9 DEF Next, Clock

\* When a walk of time_updated is over, clients are offered the controls it has
\* met whose interval has started and is not over, and no others but those in
\* their very last second (der.py 90-130), for any number of programs and
\* controls, any interleaving with new posts, and however long the clock thread
\* oversleeps.
THEOREM WalkLeavesExact == ~Replacing => (Spec => []PassIsExact)
<1> SUFFICES ASSUME ~Replacing PROVE Spec => []PassIsExact
  OBVIOUS
<1> DEFINE J == FreshInv /\ Walked /\ AtHand
<1>1. Init => J
  <2> SUFFICES ASSUME Init PROVE J
    OBVIOUS
  <2>1. FreshInv
    BY FreshInit
  <2>2. ASSUME NEW p \in Program, NEW i \in DOMAIN derc[p] PROVE Exact(derc[p][i])
    <3>1. derc[p][i] \in Obj
      BY <2>1, LenProperties, ElementOfSeq DEF FreshInv, TypeOK
    <3> QED BY <3>1 DEF Init, Exact
  <2> QED BY <2>1, <2>2 DEF Init, Walked, AtHand
<1>2. J /\ [Next]_vars => J'
  BY StepFresh, WalkedStep
<1>3. J => PassIsExact
  <2> SUFFICES ASSUME J, pc = "sleep", NEW p \in Program
               PROVE  /\ \A o \in Listed(p) : Started(o) /\ ~Over(o)
                      /\ \A o \in Members(derc[p]) :
                           Started(o) /\ ~Over(o) /\ ~Ending(o) /\ status[o] # "None" => o \in Listed(p)
    BY DEF PassIsExact
  <2>1. /\ Members(derc[p]) \subseteq Obj /\ Listed(p) \subseteq Members(derc[p])
        /\ InHand = {} /\ now \in Nat /\ status \in [Obj -> Status]
    BY MembersOfSeq, ClockAssumption DEF FreshInv, TypeOK, Actives, InProgram, InHand
  <2>2. \A o \in Members(derc[p]) : Exact(o)
    BY DEF Members, Walked, Visited
  <2>3. \A o \in Members(derc[p]) : o \in Listed(p) <=> status[o] = "Active"
    BY <2>1 DEF FreshInv, Agreement, InProgram
  <2>4. ASSUME NEW o \in Listed(p) PROVE Started(o) /\ ~Over(o)
    BY <2>1, <2>2, <2>3 DEF Exact, FreshInv, Statuses
  <2>5. ASSUME NEW o \in Members(derc[p]),
               Started(o), ~Over(o), ~Ending(o), status[o] # "None"
        PROVE  o \in Listed(p)
    <3>1. o \in Obj /\ HasInterval(o)
      BY <2>1, <2>5 DEF Started, HasInterval
    <3>2. Inside(o)
      BY <2>1, <2>5, <3>1, Windows DEF FreshInv, Started, Over, Ending, Inside, HasInterval
    <3>3. status[o] # "Scheduled" /\ status[o] # "Complete" /\ status[o] # "Cancelled"
      BY <2>2, <2>5, <3>1, <3>2 DEF Exact, FreshInv, Statuses
    <3> QED BY <2>1, <2>3, <2>5, <3>1, <3>3 DEF Status
  <2> QED BY <2>4, <2>5
<1> QED BY <1>1, <1>2, <1>3, PTL DEF Spec

-----------------------------------------------------------------------------
(* The life cycle of an event: the abstract specification. *)

Offered == UNION {Listed(p) : p \in Program}
Ended == {o \in Obj : status[o] = "Complete"} \ Offered
Intervals == [o \in Obj |-> IF HasInterval(o) THEN ctl[o].interval ELSE NoInterval]

\* An object nothing refers to yet carries nothing.
Blank == \A o \in Obj : Unused(o) => ~HasInterval(o) /\ status[o] = "None"

LEMMA BlankStep ==
  ASSUME ~Replacing, FreshInv, Blank, [Next]_vars
  PROVE  Blank'
<1>0. ctl \in [Obj -> Control] /\ status \in [Obj -> Status]
  BY DEF FreshInv, TypeOK
<1>1. CASE UNCHANGED <<ctl, status>>
  BY <1>1 DEF Blank, Unused, HasInterval
<1>2. CASE HandleEvent
  <2>1. PICK s \in Status : status' = [status EXCEPT ![hand] = s]
    BY <1>2, HandleForward DEF FreshInv
  <2>2. ctl' = ctl /\ ~Unused(hand) /\ hand \in Obj
    BY <1>2 DEF HandleEvent, FreshInv, Lists, Hand, InStep, Used
  <2> QED BY <1>0, <2>1, <2>2 DEF Blank, Unused, HasInterval
<1>3. CASE PostControl
  <2>1. PICK o \in Obj, c \in Posted, h \in Href :
          /\ ctl' = [ctl EXCEPT ![o] = [c EXCEPT !.href = h]]
          /\ status' = [status EXCEPT ![o] = "None"]
    BY <1>3, NewEvent
  <2>2. ctl'[o].href = h /\ h # NoHref
    BY <1>0, <2>1, NullAssumption DEF Posted
  <2> QED BY <1>0, <2>1, <2>2 DEF Blank, Unused, HasInterval
<1> QED BY <1>1, <1>2, <1>3
        DEF Next, Clock, vars, Tick, EnterProgram, EndPass, TakeControl, EndProgram, AddActive,
            RemoveActive, store

\* An event with an interval is in one program: on its list of active controls
\* or on none.
LEMMA OfferedOnce ==
  ASSUME FreshInv, NEW p \in Program, NEW o \in InProgram(p), HasInterval(o)
  PROVE  \A q \in Program : o \in Listed(q) => q = p
BY DEF FreshInv, Actives, Lists

LEMMA AddActiveOffers ==
  ASSUME FreshInv, AddActive
  PROVE  /\ hand \in Obj /\ Offered' = Offered \cup {hand}
         /\ Ended' = Ended /\ Intervals' = Intervals /\ now' = now
         /\ HasInterval(hand) /\ Inside(hand) /\ hand \notin Ended
<1>1. /\ prog \in Program /\ hand \in Obj /\ hand \in InProgram(prog)
      /\ Inside(hand) /\ status[hand] = "Active" /\ HasInterval(hand)
      /\ derca \in [Program -> Seq(Obj)] /\ Listed(prog) \subseteq InProgram(prog)
  BY DEF FreshInv, AddActive, InStep, Hand, TypeOK, Inside, HasInterval, Actives
<1>2. UNCHANGED <<now, ctl, status>>
  BY DEF AddActive
<1>3. \A x \in Listed(prog) : href[x] = href[hand] => x = hand
  BY <1>1, SameHref DEF FreshInv
<1>4. Members(AddReplaceChild(derca[prog], hand, href)) = Listed(prog) \cup {hand}
  BY <1>1, <1>3, AddReplaceChildKeeps DEF Listed
<1>5. \A p \in Program : Listed(p)' = IF p = prog THEN Listed(p) \cup {hand} ELSE Listed(p)
  BY <1>1, <1>4 DEF AddActive, Listed
<1>6. Offered' = Offered \cup {hand}
  BY <1>1, <1>5 DEF Offered
<1> QED BY <1>1, <1>2, <1>6 DEF Ended, Intervals, HasInterval

LEMMA RemoveActiveWithdraws ==
  ASSUME FreshInv, RemoveActive
  PROVE  /\ hand \in Obj /\ hand \in Offered /\ Offered' = Offered \ {hand}
         /\ Ended' = Ended \cup {hand} /\ Intervals' = Intervals /\ now' = now
         /\ HasInterval(hand) /\ Over(hand)
<1>1. /\ prog \in Program /\ hand \in Obj /\ hand \in InProgram(prog)
      /\ hand \in Listed(prog) /\ status[hand] = "Complete" /\ HasInterval(hand)
      /\ derca \in [Program -> Seq(Obj)] /\ Over(hand)
  BY DEF FreshInv, RemoveActive, InStep, Hand, TypeOK, Statuses
<1>2. UNCHANGED <<now, ctl, status>>
  BY DEF RemoveActive
<1>3. Members(RemoveChild(derca[prog], hand)) = Listed(prog) \ {hand}
  BY <1>1, RemoveChildSeq DEF FreshInv, Listed, Actives
<1>4. \A p \in Program : Listed(p)' = IF p = prog THEN Listed(p) \ {hand} ELSE Listed(p)
  BY <1>1, <1>3 DEF RemoveActive, Listed
<1>5. \A q \in Program : hand \in Listed(q) => q = prog
  BY <1>1, OfferedOnce
<1>6. hand \in Offered /\ Offered' = Offered \ {hand}
  BY <1>1, <1>4, <1>5 DEF Offered
<1> QED BY <1>1, <1>2, <1>6 DEF Ended, Intervals, HasInterval

\* Meeting a control changes neither what is offered nor what has ended.
LEMMA HandleStutters ==
  ASSUME FreshInv, HandleEvent
  PROVE  UNCHANGED <<now, Intervals, Offered, Ended>>
<1>1. UNCHANGED <<now, ctl, derca>> /\ hand \in Obj /\ prog \in Program
  BY DEF HandleEvent, FreshInv, InStep
<1>2. Offered' = Offered /\ Intervals' = Intervals
  BY <1>1 DEF Offered, Listed, Intervals, HasInterval
<1>3. PICK s \in Status : status' = [status EXCEPT ![hand] = s]
  BY HandleForward DEF FreshInv
<1>4. status \in [Obj -> Status] /\ InHand = {}
  BY DEF FreshInv, TypeOK, HandleEvent, InHand
<1>5. CASE Close
  <2>1. status[hand] = "Active"
    <3>1. ~Inside(hand)
      BY <1>1, <1>5, Windows, TypeFacts DEF FreshInv, Close, Past, Inside, HasInterval
    <3> QED BY <1>5, <3>1 DEF Close, Classified
  <2>2. hand \in Offered
    BY <1>1, <1>4, <2>1 DEF FreshInv, Agreement, Hand, HandleEvent, Offered
  <2> QED BY <1>1, <1>2, <1>3, <1>4, <2>2 DEF Ended
<1>6. CASE Open \/ Pass \/ Raise
  <2>1. status'[hand] = "Complete" <=> status[hand] = "Complete"
    BY <1>1, <1>4, <1>6 DEF Open, Pass, Raise, Classified, Status
  <2>2. Ended' = Ended
    BY <1>1, <1>2, <1>3, <1>4, <2>1 DEF Ended
  <2> QED BY <1>1, <1>2, <2>2
<1> QED BY <1>5, <1>6 DEF HandleEvent

LEMMA PostAnnounces ==
  ASSUME ~Replacing, FreshInv, Blank, PostControl
  PROVE  /\ UNCHANGED <<now, Offered, Ended>>
         /\ \E o \in Obj : /\ ~HasInterval(o) /\ o \notin Offered \cup Ended
                           /\ Intervals' = [Intervals EXCEPT ![o] = Intervals'[o]]
                           /\ Intervals'[o] \in Window \cup {NoInterval}
<1>0. ctl \in [Obj -> Control] /\ status \in [Obj -> Status]
  BY DEF FreshInv, TypeOK
<1>1. PICK o \in Obj, c \in Posted, h \in Href :
        /\ Unused(o) /\ \A q \in Program : o \notin InProgram(q)
        /\ ctl' = [ctl EXCEPT ![o] = [c EXCEPT !.href = h]]
        /\ status' = [status EXCEPT ![o] = "None"]
        /\ UNCHANGED <<now, derca>>
  BY NewEvent
<1>2. Offered' = Offered
  BY <1>1 DEF Offered, Listed
<1>3. ~HasInterval(o) /\ status[o] = "None"
  BY <1>1 DEF Blank
<1>4. Ended' = Ended
  BY <1>0, <1>1, <1>2, <1>3 DEF Ended
<1>5. o \notin Offered
  BY <1>1 DEF Offered, FreshInv, Actives
<1>6. /\ Intervals'[o] = IF c.interval \in Window THEN c.interval ELSE NoInterval
      /\ \A x \in Obj : x # o => Intervals'[x] = Intervals[x]
  BY <1>0, <1>1 DEF Intervals, HasInterval, Posted
<1>7. Intervals' = [Intervals EXCEPT ![o] = Intervals'[o]]
  BY <1>6 DEF Intervals
<1>8. Intervals'[o] \in Window \cup {NoInterval}
  BY <1>6
<1> QED BY <1>1, <1>2, <1>3, <1>4, <1>5, <1>7, <1>8 DEF Ended

LEMMA LifecycleStep ==
  ASSUME ~Replacing, FreshInv, Blank, [Next]_vars
  PROVE  [Lifecycle!Next]_(Lifecycle!vars)
<1> USE DEF Lifecycle!vars
<1>0. SUFFICES \/ UNCHANGED <<now, Intervals, Offered, Ended>>
               \/ Lifecycle!Advance
               \/ \E o \in Obj : \/ Lifecycle!Announce(o) \/ Lifecycle!Offer(o)
                                 \/ Lifecycle!Withdraw(o)
  BY DEF Lifecycle!Next, Intervals, HasInterval, Offered, Ended
<1>1. UNCHANGED <<now, store>> => UNCHANGED <<now, Intervals, Offered, Ended>>
  BY DEF store, Intervals, HasInterval, Offered, Ended, Listed
<1>2. CASE UNCHANGED vars
  BY <1>1, <1>2 DEF vars, store
<1>3. CASE Tick
  <2>1. UNCHANGED <<Intervals, Offered, Ended>>
    BY <1>3 DEF Tick, store, Intervals, HasInterval, Offered, Ended, Listed
  <2>2. now' \in now .. Horizon
    BY <1>3, ClockAssumption DEF FreshInv, TypeOK, Tick, Later
  <2> QED BY <2>1, <2>2 DEF Lifecycle!Advance, Intervals, HasInterval, Offered, Ended
<1>4. CASE EnterProgram \/ EndPass \/ TakeControl \/ EndProgram
  BY <1>1, <1>4 DEF EnterProgram, EndPass, TakeControl, EndProgram
<1>5. CASE HandleEvent
  BY <1>5, HandleStutters
<1>6. CASE AddActive
  <2>1. /\ hand \in Obj /\ Offered' = Offered \cup {hand}
        /\ Ended' = Ended /\ Intervals' = Intervals /\ now' = now
        /\ HasInterval(hand) /\ Inside(hand) /\ hand \notin Ended
    BY <1>6, AddActiveOffers
  <2>2. CASE hand \in Offered
    BY <2>1, <2>2
  <2>3. CASE hand \notin Offered
    <3>1. Lifecycle!Offer(hand)
      BY <2>1, <2>3, NoWindow DEF Lifecycle!Offer, Lifecycle!Begins, Lifecycle!Ends,
                        Intervals, Offered, Ended, HasInterval, Inside
    <3> QED BY <2>1, <3>1
  <2> QED BY <2>2, <2>3
<1>7. CASE RemoveActive
  <2>1. /\ hand \in Obj /\ hand \in Offered /\ Offered' = Offered \ {hand}
        /\ Ended' = Ended \cup {hand} /\ Intervals' = Intervals /\ now' = now
        /\ HasInterval(hand) /\ Over(hand)
    BY <1>7, RemoveActiveWithdraws
  <2>2. PICK o \in Obj : o = hand
    BY <2>1
  <2>3. Lifecycle!Withdraw(o)
    BY <2>1, <2>2 DEF Lifecycle!Withdraw, Lifecycle!Ends, Intervals, Offered, Ended, HasInterval, Over
  <2> QED BY <2>3
<1>8. CASE PostControl
  <2>1. PICK o \in Obj : /\ ~HasInterval(o) /\ o \notin Offered \cup Ended
                         /\ Intervals' = [Intervals EXCEPT ![o] = Intervals'[o]]
                         /\ Intervals'[o] \in Window \cup {NoInterval}
    BY <1>8, PostAnnounces
  <2>2. UNCHANGED <<now, Offered, Ended>>
    BY <1>8, PostAnnounces
  <2>3. Intervals[o] = NoInterval /\ Intervals = [x \in Obj |-> Intervals[x]]
    BY <2>1 DEF Intervals
  <2>4. CASE Intervals'[o] = NoInterval
    <3>1. Intervals' = Intervals
      BY <2>1, <2>3, <2>4
    <3> QED BY <2>2, <3>1
  <2>5. CASE Intervals'[o] \in Window
    <3>1. Lifecycle!Announce(o)
      BY <2>1, <2>2, <2>3, <2>5 DEF Lifecycle!Announce, Intervals, HasInterval, Offered, Ended, Window
    <3> QED BY <3>1
  <2> QED BY <2>1, <2>4, <2>5
<1> QED BY <1>2, <1>3, <1>4, <1>5, <1>6, <1>7, <1>8 DEF Next, Clock

\* What a polling client may rely on, as long as no event is replaced: an event
\* is offered at most once, first inside its interval, and not withdrawn before
\* it is over (der.py 90-130, admin_endpoints.py 160-178).
THEOREM ImplementsLifecycle == ~Replacing => (Spec => LifecycleSpec)
<1> SUFFICES ASSUME ~Replacing PROVE Spec => LifecycleSpec
  OBVIOUS
<1>1. Init => FreshInv /\ Blank /\ Lifecycle!Init
  <2> SUFFICES ASSUME Init PROVE FreshInv /\ Blank /\ Lifecycle!Init
    OBVIOUS
  <2>1. \A o \in Obj : ctl[o].interval = NoInterval /\ status[o] = "None"
    BY DEF Init, Unwritten
  <2>2. Offered = {} /\ Ended = {}
    BY <2>1 DEF Init, Offered, Listed, Members, Ended
  <2>3. Lifecycle!Init
    BY <2>1, <2>2, NoWindow DEF Init, Lifecycle!Init, Offered, Ended, HasInterval
  <2> QED BY <2>1, <2>3, FreshInit, NoWindow DEF Blank, HasInterval
<1>2. FreshInv /\ Blank /\ [Next]_vars => (FreshInv /\ Blank)'
  BY StepFresh, BlankStep
<1>3. FreshInv /\ Blank /\ [Next]_vars => [Lifecycle!Next]_(Lifecycle!vars)
  BY LifecycleStep
<1> QED BY <1>1, <1>2, <1>3, PTL DEF Spec, LifecycleSpec, Lifecycle!Spec

-----------------------------------------------------------------------------
(* Controls that are replaced: what a post does to the lists. *)

\* A place in a program keeps its href and its mRID, whoever stands there: the
\* href is a configured one or the length of the list when the place was new,
\* and of the places with one mRID only the first can hold an interval.
Places == \A p \in Program :
  /\ \A o \in InProgram(p) : Used(o)
  /\ \A i \in DOMAIN derc[p] :
       \/ href[derc[p][i]] \in {0} \X Nat
       \/ \E k \in Nat : k < Len(derc[p]) /\ href[derc[p][i]] = <<p, k>>
  /\ Distinct(derc[p], href)
  /\ \A i, j \in DOMAIN derc[p] :
       i < j /\ mRID[derc[p][i]] = mRID[derc[p][j]] => ~HasInterval(derc[p][j])

Homes == \A p, q \in Program : \A o \in InProgram(p) \cap InProgram(q) :
  HasInterval(o) => p = q

\* o enters program p: it inherits the place of the first control with its mRID,
\* or gets a new one.
Enters(p, o) ==
  /\ Unused(o) /\ Used(o)'
  /\ \A x \in Obj \ {o} : /\ href'[x] = href[x] /\ mRID'[x] = mRID[x]
                          /\ status'[x] = status[x] /\ ctl'[x] = ctl[x]
  /\ status'[o] \in PostStatus
  /\ \A q \in Program : \A i \in DOMAIN derc[q] :
       /\ i \in DOMAIN derc'[q]
       /\ \/ derc'[q][i] = derc[q][i]
          \/ /\ q = p /\ derc'[q][i] = o
             /\ href'[o] = href[derc[q][i]] /\ mRID'[o] = mRID[derc[q][i]]
             /\ \A j \in DOMAIN derc[q] : j < i => mRID[derc[q][j]] # mRID'[o]
  /\ \A q \in Program : \A i \in DOMAIN derc'[q] : i \notin DOMAIN derc[q] =>
       /\ q = p /\ derc'[q][i] = o /\ i = Len(derc[q]) + 1
       /\ href'[o] = <<q, Len(derc[q])>>
       /\ \A j \in DOMAIN derc[q] : mRID[derc[q][j]] # mRID'[o]
  /\ \A q \in Program : Len(derc'[q]) \in {Len(derc[q]), Len(derc[q]) + 1}
  /\ \A q \in Program : \A i \in DOMAIN derc'[q] : i \notin DOMAIN derc[q]
       => Len(derc'[q]) = Len(derc[q]) + 1
  /\ UNCHANGED <<now, derca, opened, clock>>

\* The lists as sequences of objects.
LEMMA ListFacts ==
  ASSUME TypeOK, NEW p \in Program
  PROVE  /\ derc[p] \in Seq(Obj) /\ derca[p] \in Seq(Obj)
         /\ Len(derc[p]) \in Nat /\ DOMAIN derc[p] = 1 .. Len(derc[p])
         /\ \A i \in DOMAIN derc[p] : derc[p][i] \in Obj /\ derc[p][i] \in InProgram(p)
         /\ \A o \in InProgram(p) : o \in Obj /\ \E i \in DOMAIN derc[p] : derc[p][i] = o
         /\ Listed(p) \subseteq Obj
<1>1. derc[p] \in Seq(Obj) /\ derca[p] \in Seq(Obj)
  BY DEF TypeOK
<1>2. Listed(p) \subseteq Obj /\ InProgram(p) \subseteq Obj
  BY <1>1, MembersOfSeq DEF Listed, InProgram
<1> QED BY <1>1, <1>2, LenProperties DEF InProgram, Members

LEMMA WrittenControl ==
  ASSUME TypeOK, NEW o \in Obj, NEW c \in Posted, NEW s, NEW h \in Href, Store(o, c, s, h)
  PROVE  /\ Used(o)' /\ href'[o] = h /\ mRID'[o] = c.mRID /\ status'[o] = s
         /\ \A x \in Obj \ {o} : /\ href'[x] = href[x] /\ mRID'[x] = mRID[x]
                                 /\ status'[x] = status[x] /\ ctl'[x] = ctl[x]
<1>1. ctl \in [Obj -> Control] /\ status \in [Obj -> Status]
  BY DEF TypeOK
<1>2. ctl' = [ctl EXCEPT ![o] = [c EXCEPT !.href = h]] /\ status' = [status EXCEPT ![o] = s]
  BY DEF Store
<1>3. [c EXCEPT !.href = h].href = h /\ [c EXCEPT !.href = h].mRID = c.mRID
  BY DEF Posted
<1>4. /\ ctl'[o].href = h /\ ctl'[o].mRID = c.mRID /\ status'[o] = s
      /\ \A x \in Obj \ {o} : ctl'[x] = ctl[x] /\ status'[x] = status[x]
  BY <1>1, <1>2, <1>3
<1> QED BY <1>4, NullAssumption DEF href, mRID, Used, Unused

LEMMA PostEnters ==
  ASSUME PostHref = {}, TypeOK, Places, PostControl
  PROVE  \E p \in Program, o \in Obj : Enters(p, o)
<1>1. PICK p \in Program, o \in Obj, c \in Posted, s \in PostStatus :
        ReplaceControl(p, o, c, s) \/ AddControl(p, o, c, s)
  BY DEF PostControl
<1>2. /\ derc \in [Program -> Seq(Obj)] /\ href \in [Obj -> Href \cup {NoHref}]
      /\ Len(derc[p]) \in Nat /\ derc[p] \in Seq(Obj) /\ DOMAIN derc[p] = 1 .. Len(derc[p])
      /\ \A i \in DOMAIN derc[p] : derc[p][i] \in Obj /\ derc[p][i] \in InProgram(p)
  BY TypeFacts, ListFacts DEF TypeOK
<1>3. c.href = NoHref
  BY DEF Posted
<1>4. Unused(o) /\ UNCHANGED <<now, derca, opened, clock>>
  BY <1>1 DEF ReplaceControl, AddControl
<1>5. CASE ReplaceControl(p, o, c, s)
  <2> DEFINE index == First(Known(p, c.mRID))
             h == href[derc[p][index]]
  <2> DEFINE K == {i \in DOMAIN derc[p] : mRID[derc[p][i]] = c.mRID}
  <2>1. K # {} /\ K \in SUBSET Nat /\ index = First(K)
    BY <1>2, <1>5 DEF ReplaceControl, Known, Positions
  <2>2. First(K) \in K /\ \A j \in K : First(K) <= j
    <3> HIDE DEF K
    <3> QED BY <2>1, FirstLeast
  <2>3. /\ index \in DOMAIN derc[p] /\ mRID[derc[p][index]] = c.mRID
        /\ \A j \in DOMAIN derc[p] : j < index => mRID[derc[p][j]] # c.mRID
    <3>1. index \in K /\ \A j \in K : index <= j
      BY <2>1, <2>2
    <3> HIDE DEF index
    <3>2. index \in 1 .. Len(derc[p]) /\ mRID[derc[p][index]] = c.mRID
      BY <1>2, <3>1
    <3>3. ASSUME NEW j \in DOMAIN derc[p], j < index PROVE j \notin K
      BY <1>2, <3>1, <3>2, <3>3
    <3> QED BY <1>2, <3>2, <3>3
  <2> HIDE DEF K
  <2>4. derc' = [derc EXCEPT ![p] = ReplaceChild(derc[p], index, o)] /\ Store(o, c, s, h)
    BY <1>3, <1>5 DEF ReplaceControl
  <2>5. h \in Href
    <3>1. Used(derc[p][index]) /\ derc[p][index] \in Obj
      BY <1>2, <2>3 DEF Places
    <3> QED BY <1>2, <3>1 DEF Used, Unused, href
  <2> HIDE DEF index
  <2>6. /\ Len(derc'[p]) = Len(derc[p]) /\ DOMAIN derc'[p] = DOMAIN derc[p]
        /\ \A i \in DOMAIN derc[p] : derc'[p][i] = IF i = index THEN o ELSE derc[p][i]
    BY <1>2, <2>3, <2>4, ExceptSeq DEF ReplaceChild
  <2>7. \A q \in Program : q # p => derc'[q] = derc[q]
    BY <1>2, <2>4
  <2>8. /\ Used(o)' /\ href'[o] = h /\ mRID'[o] = c.mRID /\ status'[o] = s
        /\ \A x \in Obj \ {o} : /\ href'[x] = href[x] /\ mRID'[x] = mRID[x]
                                /\ status'[x] = status[x] /\ ctl'[x] = ctl[x]
    BY <2>4, <2>5, WrittenControl
  <2>9. \A q \in Program : \A i \in DOMAIN derc[q] :
          /\ i \in DOMAIN derc'[q]
          /\ \/ derc'[q][i] = derc[q][i]
             \/ /\ q = p /\ derc'[q][i] = o
                /\ href'[o] = href[derc[q][i]] /\ mRID'[o] = mRID[derc[q][i]]
                /\ \A j \in DOMAIN derc[q] : j < i => mRID[derc[q][j]] # mRID'[o]
    BY <2>3, <2>6, <2>7, <2>8
  <2>10. \A q \in Program : DOMAIN derc'[q] = DOMAIN derc[q] /\ Len(derc'[q]) = Len(derc[q])
    BY <2>6, <2>7
  <2>11. Enters(p, o)
    BY <1>4, <2>8, <2>9, <2>10 DEF Enters
  <2> QED BY <2>11
<1>6. CASE AddControl(p, o, c, s)
  <2> DEFINE n == Len(derc[p])
             h == <<p, n>>
             hrefs == [href EXCEPT ![o] = h]
  <2>1. /\ derc' = [derc EXCEPT ![p] = AddReplaceChild(derc[p], o, hrefs)]
        /\ Store(o, c, s, h)
        /\ \A j \in DOMAIN derc[p] : mRID[derc[p][j]] # c.mRID
    BY <1>3, <1>6 DEF AddControl, Known, Positions
  <2>2. h \in Href
    BY <1>2 DEF Href, Program
  <2>3. hrefs[o] = h /\ \A x \in Obj \ {o} : hrefs[x] = href[x]
    BY <1>2
  <2> HIDE DEF hrefs
  <2>4. \A i \in DOMAIN derc[p] : derc[p][i] # o
    BY <1>2, <1>4 DEF Places, Used
  <2>5. \A i \in DOMAIN derc[p] : href[derc[p][i]] # h
    <3> SUFFICES ASSUME NEW i \in DOMAIN derc[p], href[derc[p][i]] = <<p, n>> PROVE FALSE
      OBVIOUS
    <3>1. CASE href[derc[p][i]] \in {0} \X Nat
      BY <3>1 DEF Program
    <3>2. CASE \E k \in Nat : k < n /\ href[derc[p][i]] = <<p, k>>
      BY <1>2, <3>2
    <3> QED BY <3>1, <3>2 DEF Places
  <2>6. Positions(derc[p], hrefs, hrefs[o]) = {}
    BY <1>2, <2>3, <2>4, <2>5 DEF Positions
  <2>7. AddReplaceChild(derc[p], o, hrefs) = Append(derc[p], o)
    BY <2>6 DEF AddReplaceChild
  <2>8. derc'[p] = Append(derc[p], o) /\ \A q \in Program : q # p => derc'[q] = derc[q]
    BY <1>2, <2>1, <2>7
  <2>9. /\ Len(derc'[p]) = n + 1 /\ DOMAIN derc'[p] = 1 .. n + 1
        /\ \A i \in 1 .. n : derc'[p][i] = derc[p][i]
        /\ derc'[p][n + 1] = o
    BY <1>2, <2>8, AppendProperties, LenProperties
  <2>10. /\ Used(o)' /\ href'[o] = h /\ mRID'[o] = c.mRID /\ status'[o] = s
         /\ \A x \in Obj \ {o} : /\ href'[x] = href[x] /\ mRID'[x] = mRID[x]
                                 /\ status'[x] = status[x] /\ ctl'[x] = ctl[x]
    BY <2>1, <2>2, WrittenControl
  <2>11. \A q \in Program : \A i \in DOMAIN derc[q] :
           i \in DOMAIN derc'[q] /\ derc'[q][i] = derc[q][i]
    <3>1. \A i \in 1 .. n : i \in 1 .. n + 1
      BY <1>2
    <3> QED BY <1>2, <2>8, <2>9, <3>1
  <2>12. \A q \in Program : \A i \in DOMAIN derc'[q] : i \notin DOMAIN derc[q] =>
           /\ q = p /\ derc'[q][i] = o /\ i = n + 1
           /\ Len(derc'[q]) = Len(derc[q]) + 1
    <3> SUFFICES ASSUME NEW q \in Program, NEW i \in DOMAIN derc'[q], i \notin DOMAIN derc[q]
                 PROVE  q = p /\ derc'[q][i] = o /\ i = n + 1 /\ Len(derc'[q]) = Len(derc[q]) + 1
      OBVIOUS
    <3>1. q = p
      BY <2>8
    <3>2. i \in 1 .. n + 1 /\ i \notin 1 .. n
      BY <1>2, <2>9, <3>1
    <3>3. i = n + 1
      BY <1>2, <3>2
    <3> QED BY <2>9, <3>1, <3>3
  <2>13. \A q \in Program : Len(derc'[q]) \in {Len(derc[q]), Len(derc[q]) + 1}
    BY <2>8, <2>9
  <2>14. Enters(p, o)
    BY <1>4, <2>1, <2>10, <2>11, <2>12, <2>13 DEF Enters
  <2> QED BY <2>14
<1> QED BY <1>1, <1>5, <1>6

\* A place keeps its href and its mRID.
LEMMA PlacesStay ==
  ASSUME TypeOK, Places, NEW p \in Program, NEW o \in Obj, Enters(p, o)
  PROVE  /\ \A q \in Program : o \notin InProgram(q)
         /\ \A q \in Program : \A i \in DOMAIN derc[q] :
              /\ i \in DOMAIN derc'[q]
              /\ href'[derc'[q][i]] = href[derc[q][i]] /\ mRID'[derc'[q][i]] = mRID[derc[q][i]]
         /\ \A q \in Program : InProgram(q)' \subseteq InProgram(q) \cup {o}
         /\ \A q \in Program : o \in InProgram(q)' => q = p
         /\ \A x \in Obj \ {o} : (HasInterval(x)' <=> HasInterval(x)) /\ (Used(x)' <=> Used(x))
<1>1. \A q \in Program : o \notin InProgram(q)
  BY DEF Enters, Places, Used
<1>2. \A q \in Program : \A i \in DOMAIN derc[q] : derc[q][i] \in Obj \ {o}
  BY <1>1, ListFacts
<1>3. \A q \in Program : \A i \in DOMAIN derc[q] :
        /\ i \in DOMAIN derc'[q]
        /\ href'[derc'[q][i]] = href[derc[q][i]] /\ mRID'[derc'[q][i]] = mRID[derc[q][i]]
  BY <1>2 DEF Enters
<1>4. ASSUME NEW q \in Program, NEW x \in InProgram(q)'
      PROVE  x \in InProgram(q) \/ (x = o /\ q = p)
  <2>1. PICK i \in DOMAIN derc'[q] : x = derc'[q][i]
    BY DEF InProgram, Members
  <2>2. CASE i \in DOMAIN derc[q]
    BY <2>1, <2>2 DEF Enters, InProgram, Members
  <2>3. CASE i \notin DOMAIN derc[q]
    BY <2>1, <2>3 DEF Enters
  <2> QED BY <2>2, <2>3
<1>5. \A x \in Obj \ {o} : (HasInterval(x)' <=> HasInterval(x)) /\ (Used(x)' <=> Used(x))
  BY DEF Enters, HasInterval, Used, Unused
<1> QED BY <1>1, <1>3, <1>4, <1>5

LEMMA PostPlaces ==
  ASSUME TypeOK, TypeOK', Places, Homes, NEW p \in Program, NEW o \in Obj, Enters(p, o)
  PROVE  Places' /\ Homes'
<1>1. /\ \A q \in Program : o \notin InProgram(q)
      /\ \A q \in Program : \A i \in DOMAIN derc[q] :
           /\ i \in DOMAIN derc'[q]
           /\ href'[derc'[q][i]] = href[derc[q][i]] /\ mRID'[derc'[q][i]] = mRID[derc[q][i]]
      /\ \A q \in Program : InProgram(q)' \subseteq InProgram(q) \cup {o}
      /\ \A q \in Program : o \in InProgram(q)' => q = p
      /\ \A x \in Obj \ {o} : (HasInterval(x)' <=> HasInterval(x)) /\ (Used(x)' <=> Used(x))
  BY PlacesStay
<1>2. ASSUME NEW q \in Program
      PROVE  /\ Len(derc[q]) \in Nat /\ DOMAIN derc[q] = 1 .. Len(derc[q])
             /\ Len(derc'[q]) \in Nat /\ DOMAIN derc'[q] = 1 .. Len(derc'[q])
             /\ \A i \in DOMAIN derc[q] : derc[q][i] \in Obj \ {o} /\ derc[q][i] \in InProgram(q)
             /\ InProgram(q) \subseteq Obj
  <2>1. derc'[q] \in Seq(Obj)
    BY DEF TypeOK
  <2> QED BY <1>1, <2>1, ListFacts, LenProperties
<1>3. ASSUME NEW q \in Program, NEW x \in InProgram(q)' PROVE Used(x)'
  <2>1. CASE x = o
    BY <2>1 DEF Enters
  <2>2. CASE x # o
    BY <1>1, <1>2, <1>3, <2>2 DEF Places
  <2> QED BY <2>1, <2>2
<1>4. ASSUME NEW q \in Program, NEW i \in DOMAIN derc'[q]
      PROVE  \/ href'[derc'[q][i]] \in {0} \X Nat
             \/ \E k \in Nat : k < Len(derc'[q]) /\ href'[derc'[q][i]] = <<q, k>>
  <2>1. CASE i \in DOMAIN derc[q]
    <3>1. Len(derc[q]) <= Len(derc'[q])
      BY <1>2 DEF Enters
    <3>2. CASE href[derc[q][i]] \in {0} \X Nat
      BY <1>1, <2>1, <3>2
    <3>3. CASE \E k \in Nat : k < Len(derc[q]) /\ href[derc[q][i]] = <<q, k>>
      <4>1. PICK k \in Nat : k < Len(derc[q]) /\ href[derc[q][i]] = <<q, k>>
        BY <3>3
      <4>2. k < Len(derc'[q])
        BY <1>2, <3>1, <4>1
      <4> QED BY <1>1, <2>1, <4>1, <4>2
    <3> QED BY <2>1, <3>2, <3>3 DEF Places
  <2>2. CASE i \notin DOMAIN derc[q]
    <3>1. derc'[q][i] = o /\ href'[o] = <<q, Len(derc[q])>> /\ Len(derc'[q]) = Len(derc[q]) + 1
      BY <2>2 DEF Enters
    <3>2. Len(derc[q]) < Len(derc'[q])
      BY <1>2, <3>1
    <3> QED BY <1>2, <3>1, <3>2
  <2> QED BY <2>1, <2>2
<1>5. \A q \in Program : \A i \in DOMAIN derc[q] : href[derc[q][i]] # <<q, Len(derc[q])>>
  <2> SUFFICES ASSUME NEW q \in Program, NEW i \in DOMAIN derc[q],
                      href[derc[q][i]] = <<q, Len(derc[q])>>
               PROVE  FALSE
    OBVIOUS
  <2>1. CASE href[derc[q][i]] \in {0} \X Nat
    BY <2>1 DEF Program
  <2>2. CASE \E k \in Nat : k < Len(derc[q]) /\ href[derc[q][i]] = <<q, k>>
    BY <1>2, <2>2
  <2> QED BY <2>1, <2>2 DEF Places
<1>6. ASSUME NEW q \in Program, NEW i \in DOMAIN derc'[q], NEW j \in DOMAIN derc'[q],
             href'[derc'[q][i]] = href'[derc'[q][j]]
      PROVE  i = j
  <2>1. CASE i \in DOMAIN derc[q] /\ j \in DOMAIN derc[q]
    BY <1>1, <1>6, <2>1 DEF Places, Distinct
  <2>2. CASE i \notin DOMAIN derc[q] /\ j \in DOMAIN derc[q]
    BY <1>1, <1>5, <1>6, <2>2 DEF Enters
  <2>3. CASE i \in DOMAIN derc[q] /\ j \notin DOMAIN derc[q]
    BY <1>1, <1>5, <1>6, <2>3 DEF Enters
  <2>4. CASE i \notin DOMAIN derc[q] /\ j \notin DOMAIN derc[q]
    BY <2>4 DEF Enters
  <2> QED BY <2>1, <2>2, <2>3, <2>4
<1>7. ASSUME NEW q \in Program, NEW i \in DOMAIN derc'[q], NEW j \in DOMAIN derc'[q],
             i < j, mRID'[derc'[q][i]] = mRID'[derc'[q][j]]
      PROVE  ~HasInterval(derc[q][j])'
  <2>1. CASE j \notin DOMAIN derc[q]
    <3>1. /\ j = Len(derc[q]) + 1 /\ derc'[q][j] = o
          /\ \A k \in DOMAIN derc[q] : mRID[derc[q][k]] # mRID'[o]
      BY <2>1 DEF Enters
    <3>2. i \in DOMAIN derc[q]
      BY <1>2, <1>7, <3>1
    <3> QED BY <1>1, <1>7, <3>1, <3>2
  <2>2. CASE j \in DOMAIN derc[q]
    <3>1. i \in DOMAIN derc[q]
      BY <1>2, <1>7, <2>2
    <3>2. mRID[derc[q][i]] = mRID[derc[q][j]]
      BY <1>1, <1>7, <2>2, <3>1
    <3>3. ~HasInterval(derc[q][j])
      BY <1>7, <2>2, <3>1, <3>2 DEF Places
    <3>4. derc'[q][j] = derc[q][j]
      BY <1>1, <1>7, <2>2, <3>1, <3>2 DEF Enters
    <3>5. derc[q][j] \in Obj \ {o}
      BY <1>2, <2>2
    <3> QED BY <3>3, <3>4, <3>5 DEF Enters, HasInterval
  <2> QED BY <2>1, <2>2
<1>8. Places'
  <2>1. \A q \in Program : Distinct(derc[q], href)'
    BY <1>6 DEF Distinct
  <2> QED BY <1>3, <1>4, <1>7, <2>1 DEF Places
<1>9. Homes'
  <2> SUFFICES ASSUME NEW q \in Program, NEW r \in Program,
                      NEW x \in InProgram(q)' \cap InProgram(r)', HasInterval(x)'
               PROVE  q = r
    BY DEF Homes
  <2>1. CASE x = o
    BY <1>1, <2>1
  <2>2. CASE x # o
    <3>1. x \in InProgram(q) \cap InProgram(r) /\ x \in Obj \ {o}
      BY <1>1, <1>2, <2>2
    <3> QED BY <1>1, <3>1 DEF Homes
  <2> QED BY <2>1, <2>2
<1> QED BY <1>8, <1>9


Holds == pc \in {"event", "add", "remove"}

\* The positions of program p whose href and mRID the control x has.
PlaceOf(p, x) == {i \in DOMAIN derc[p] :
  href[x] = href[derc[p][i]] /\ mRID[x] = mRID[derc[p][i]]}

\* A control on offer has, or had, a place in its program.
Offers == \A p \in Program :
  /\ \A x \in Listed(p) : HasInterval(x) /\ Used(x) /\ PlaceOf(p, x) # {}
  /\ Distinct(derca[p], href)
  /\ p \notin opened => derca[p] = <<>>
  /\ \A x, y \in Listed(p) : mRID[x] = mRID[y] => x = y

\* The control in hand had the place the iterator has just left, whoever stands
\* there now.
Holding == Holds =>
  /\ cursor - 1 \in PlaceOf(prog, hand)
  /\ Used(hand)
  /\ HasInterval(hand) =>
       /\ \A j \in DOMAIN derc[prog] : j < cursor - 1 => mRID[derc[prog][j]] # mRID[hand]
       /\ \A q \in Program : hand \in InProgram(q) => q = prog
  /\ pc = "add" => HasInterval(hand) /\ \A x \in Listed(prog) : mRID[x] # mRID[hand]

\* While the walk holds a throw-away [] for the active list, that list only has
\* controls the same walk has put there.
Met == IF pc = "control" THEN cursor ELSE cursor - 1
NewList == pc = "control" \/ Holds =>
  live \/ \A x \in Listed(prog) :
            \E i \in DOMAIN derc[prog] : i < Met /\ mRID[derc[prog][i]] = mRID[x]

PlaceInv == TypeOK /\ InStep /\ Places /\ Homes /\ Offers /\ Holding /\ NewList

LEMMA SamePlaces ==
  ASSUME UNCHANGED <<ctl, derc>>
  PROVE  /\ href' = href /\ mRID' = mRID
         /\ Places => Places'
         /\ Homes => Homes'
         /\ \A p, x : PlaceOf(p, x)' = PlaceOf(p, x)
<1>1. href' = href /\ mRID' = mRID
  BY DEF href, mRID
<1>2. Places => Places'
  BY <1>1 DEF Places, InProgram, Members, Distinct, HasInterval, Used, Unused
<1>3. Homes => Homes'
  BY DEF Homes, InProgram, Members, HasInterval
<1>4. \A p, x : PlaceOf(p, x)' = PlaceOf(p, x)
  BY <1>1 DEF PlaceOf
<1> QED BY <1>1, <1>2, <1>3, <1>4

LEMMA SameOffers ==
  ASSUME Offers, UNCHANGED <<ctl, derc, derca, opened>>
  PROVE  Offers'
<1>1. href' = href /\ mRID' = mRID /\ \A p, x : PlaceOf(p, x)' = PlaceOf(p, x)
  BY SamePlaces
<1> QED BY <1>1 DEF Offers, Listed, Members, Distinct, HasInterval, Used, Unused

\* In a program two controls with an interval and one mRID are one control.
LEMMA OneInterval ==
  ASSUME TypeOK, Places, NEW p \in Program, NEW o \in InProgram(p), NEW x \in InProgram(p),
         HasInterval(o), HasInterval(x), mRID[o] = mRID[x]
  PROVE  o = x
<1>1. PICK i \in DOMAIN derc[p], j \in DOMAIN derc[p] : o = derc[p][i] /\ x = derc[p][j]
  BY DEF InProgram, Members
<1>2. i \in Nat /\ j \in Nat
  BY ListFacts
<1>3. ~(i < j) /\ ~(j < i)
  BY <1>1 DEF Places
<1> QED BY <1>1, <1>2, <1>3

LEMMA PlaceInit == Init => PlaceInv
<1> SUFFICES ASSUME Init PROVE PlaceInv
  OBVIOUS
<1>1. FreshInv
  BY FreshInit
<1>2. \A o \in Obj : ~HasInterval(o)
  BY NoWindow DEF Init, Unwritten, HasInterval
<1>3. \A p \in Program : \A i \in DOMAIN derc[p] : derc[p][i] \in Obj /\ derc[p][i] \in InProgram(p)
  BY <1>1, ListFacts DEF FreshInv
<1>4. \A p \in Program : \A i \in DOMAIN derc[p] : href[derc[p][i]] \in {0} \X Nat
  <2> SUFFICES ASSUME NEW p \in Program, NEW i \in DOMAIN derc[p]
               PROVE  href[derc[p][i]] \in {0} \X Nat
    OBVIOUS
  <2>1. derc[p] = Configured[p] /\ derc[p][i] \in Obj
    BY <1>3 DEF Init
  <2>2. InConfiguration(derc[p][i])
    BY <2>1 DEF InConfiguration, Members
  <2>3. href[derc[p][i]] = ConfiguredHref[derc[p][i]]
    BY <2>1, <2>2 DEF Init, href, Unwritten
  <2> QED BY <2>1, <2>3, ConfigurationAssumption
<1>5. Places
  BY <1>1, <1>2, <1>3, <1>4 DEF FreshInv, Lists, Places
<1>6. Homes
  BY <1>1, <1>2, MembersOfSeq DEF Homes, FreshInv, TypeOK, InProgram
<1>7. Offers
  BY DEF Init, Offers, Listed, Members, Distinct
<1>8. Holding /\ NewList
  BY DEF Init, Holding, NewList, Holds
<1> QED BY <1>1, <1>5, <1>6, <1>7, <1>8 DEF PlaceInv, FreshInv

\* The clock thread only moves.
LEMMA MovePlaces ==
  ASSUME PlaceInv, Tick \/ EnterProgram \/ EndPass \/ EndProgram
  PROVE  Places' /\ Homes' /\ Offers' /\ Holding' /\ NewList'
<1> USE DEF PlaceInv
<1>1. Places' /\ Homes' /\ Offers'
  BY SamePlaces, SameOffers DEF Tick, EnterProgram, EndPass, EndProgram, store
<1>2. pc' \in {"program", "control", "sleep"}
  BY DEF Tick, EnterProgram, EndPass, EndProgram
<1>3. pc' = "control" => pc = "program"
  BY DEF Tick, EnterProgram, EndPass, EndProgram
<1>4. NewList'
  <2>1. CASE pc' # "control"
    BY <1>2, <2>1 DEF NewList, Holds
  <2>2. CASE pc' = "control"
    <3>1. prog \in Program /\ prog' = prog /\ derca' = derca /\ live' = (prog \in opened)
      BY <1>3, <2>2, ProgramAssumption
         DEF Tick, EnterProgram, EndPass, EndProgram, store, TypeOK, Program
    <3>2. CASE prog \in opened
      BY <3>1, <3>2 DEF NewList
    <3>3. CASE prog \notin opened
      <4>1. derca[prog] = <<>>
        BY <3>1, <3>3 DEF Offers
      <4>2. Listed(prog)' = {}
        BY <3>1, <4>1 DEF Listed, Members
      <4> QED BY <3>1, <4>2 DEF NewList
    <3> QED BY <3>2, <3>3
  <2> QED BY <2>1, <2>2
<1> QED BY <1>1, <1>2, <1>4 DEF Holding, Holds

LEMMA TakePlaces ==
  ASSUME PlaceInv, TakeControl
  PROVE  Places' /\ Homes' /\ Offers' /\ Holding' /\ NewList'
<1> USE DEF PlaceInv
<1>1. Places' /\ Homes' /\ Offers' /\ href' = href /\ mRID' = mRID
      /\ \A p, x : PlaceOf(p, x)' = PlaceOf(p, x)
  BY SamePlaces, SameOffers DEF TakeControl, store
<1>2. /\ prog \in Program /\ prog' = prog /\ derc' = derc /\ ctl' = ctl /\ derca' = derca
      /\ pc = "control" /\ pc' = "event" /\ live' = live
      /\ cursor \in Nat /\ cursor' - 1 = cursor /\ hand' = derc[prog][cursor]
  BY DEF TakeControl, store, InStep, TypeOK
<1>3. cursor \in DOMAIN derc[prog] /\ hand' \in InProgram(prog)
  <2>1. cursor \in 1 .. Len(derc[prog])
    BY <1>2, ListFacts DEF TakeControl, TypeOK
  <2> QED BY <1>2, <2>1, ListFacts
<1>4. cursor \in PlaceOf(prog, hand')
  BY <1>2, <1>3 DEF PlaceOf
<1>5. Used(hand') /\ \A q \in Program : HasInterval(hand') /\ hand' \in InProgram(q) => q = prog
  BY <1>2, <1>3 DEF Places, Homes
<1>6. HasInterval(hand') => \A j \in DOMAIN derc[prog] : j < cursor => mRID[derc[prog][j]] # mRID[hand']
  BY <1>2, <1>3 DEF Places
<1>7. Holding'
  <2>1. PlaceOf(prog, hand)' = PlaceOf(prog, hand')
    BY <1>1, <1>2 DEF PlaceOf
  <2>2. /\ HasInterval(hand)' <=> HasInterval(hand')
        /\ Used(hand)' <=> Used(hand')
        /\ \A q \in Program : InProgram(q)' = InProgram(q)
    BY <1>2 DEF HasInterval, Used, Unused, InProgram
  <2> QED BY <1>1, <1>2, <1>4, <1>5, <1>6, <2>1, <2>2 DEF Holding
<1>8. NewList'
  BY <1>1, <1>2 DEF NewList, Met, Listed
<1> QED BY <1>1, <1>7, <1>8


\* The administrator's guard against two events under one mRID, der.py 115,
\* works on the walk's own copy of the list: what it does not see it has met.
LEMMA HandlePlaces ==
  ASSUME PlaceInv, HandleEvent
  PROVE  Places' /\ Homes' /\ Offers' /\ Holding' /\ NewList'
<1> USE DEF PlaceInv
<1>1. UNCHANGED <<ctl, derc, derca, opened, prog, cursor, live>>
  BY DEF HandleEvent
<1>2. Places' /\ Homes' /\ Offers' /\ href' = href /\ mRID' = mRID
      /\ \A p, x : PlaceOf(p, x)' = PlaceOf(p, x)
  BY <1>1, SamePlaces, SameOffers
<1>3. pc = "event" /\ prog \in Program /\ hand \in Obj /\ cursor \in Nat
  BY DEF HandleEvent, InStep, TypeOK
<1>4. \/ pc' \in {"control", "dead"}
      \/ pc' = "remove" /\ hand' = hand
      \/ /\ pc' = "add" /\ hand' = hand /\ Inside(hand)
         /\ mRID[hand] \notin {mRID[o] : o \in CurrentActive}
  BY DEF HandleEvent, Open, Close, Pass, Raise, NextControl
<1>5. NewList'
  <2>1. Met \in Nat \cup {-1} /\ Met' \in {Met, Met + 1}
    BY <1>1, <1>3, <1>4 DEF Met
  <2>2. live \/ \A x \in Listed(prog) :
          \E i \in DOMAIN derc[prog] : i < Met /\ mRID[derc[prog][i]] = mRID[x]
    BY <1>3 DEF NewList, Holds
  <2>3. \A i \in DOMAIN derc[prog] : i < Met => i < Met'
    BY <1>3, <2>1, ListFacts
  <2> QED BY <1>1, <1>2, <2>2, <2>3 DEF NewList, Listed
<1>6. CASE pc' = "add"
  <2>1. HasInterval(hand) /\ hand' = hand
    BY <1>4, <1>6 DEF Inside, HasInterval
  <2>2. \A x \in Listed(prog) : mRID[x] # mRID[hand]
    <3>1. CASE live
      BY <1>4, <1>6, <3>1 DEF CurrentActive, Listed
    <3>2. CASE ~live
      <4> SUFFICES ASSUME NEW x \in Listed(prog) PROVE mRID[x] # mRID[hand]
        OBVIOUS
      <4>1. PICK i \in DOMAIN derc[prog] : i < cursor - 1 /\ mRID[derc[prog][i]] = mRID[x]
        BY <1>3, <3>2 DEF NewList, Holds, Met
      <4>2. mRID[derc[prog][i]] # mRID[hand]
        BY <1>3, <2>1, <4>1 DEF Holding, Holds
      <4> QED BY <4>1, <4>2
    <3> QED BY <3>1, <3>2
  <2>3. Holding'
    BY <1>1, <1>2, <1>3, <2>1, <2>2 DEF Holding, Holds, Listed, InProgram, HasInterval, Used, Unused
  <2> QED BY <1>2, <1>5, <2>3
<1>7. CASE pc' # "add"
  <2>1. Holding'
    BY <1>1, <1>2, <1>3, <1>4, <1>7 DEF Holding, Holds, Listed, InProgram, HasInterval, Used, Unused
  <2> QED BY <1>2, <1>5, <2>1
<1> QED BY <1>6, <1>7

\* Controls with one href in a program's active list and in its hand had one
\* place, and so one mRID.
LEMMA OnePlace ==
  ASSUME TypeOK, Places, NEW p \in Program, NEW x, NEW y,
         PlaceOf(p, x) # {}, PlaceOf(p, y) # {}, href[x] = href[y]
  PROVE  mRID[x] = mRID[y]
<1>1. PICK i \in DOMAIN derc[p] : href[x] = href[derc[p][i]] /\ mRID[x] = mRID[derc[p][i]]
  BY DEF PlaceOf
<1>2. PICK j \in DOMAIN derc[p] : href[y] = href[derc[p][j]] /\ mRID[y] = mRID[derc[p][j]]
  BY DEF PlaceOf
<1>3. i = j
  BY <1>1, <1>2 DEF Places, Distinct
<1> QED BY <1>1, <1>2, <1>3

\* Putting a control on offer displaces none that is on offer.
LEMMA AddGrows ==
  ASSUME PlaceInv, AddActive
  PROVE  /\ prog \in Program /\ hand \in Obj
         /\ Listed(prog)' = Listed(prog) \cup {hand}
         /\ \A p \in Program : p # prog => derca'[p] = derca[p]
         /\ Distinct(derca'[prog], href)
<1> USE DEF PlaceInv
<1>1. prog \in Program /\ prog' = prog /\ hand \in Obj /\ derca \in [Program -> Seq(Obj)] /\ pc = "add"
  BY DEF AddActive, InStep, TypeOK
<1>2. derca[prog] \in Seq(Obj) /\ Distinct(derca[prog], href)
  BY <1>1 DEF Offers
<1>3. \A x \in Listed(prog) : href[x] = href[hand] => x = hand
  <2> SUFFICES ASSUME NEW x \in Listed(prog), href[x] = href[hand] PROVE x = hand
    OBVIOUS
  <2>1. PlaceOf(prog, x) # {} /\ PlaceOf(prog, hand) # {} /\ mRID[x] # mRID[hand]
    BY <1>1 DEF Holding, Holds, Offers
  <2>2. mRID[x] = mRID[hand]
    BY <1>1, <2>1, OnePlace
  <2> QED BY <2>1, <2>2
<1>4. /\ derca'[prog] = AddReplaceChild(derca[prog], hand, href)
      /\ \A p \in Program : p # prog => derca'[p] = derca[p]
  BY <1>1 DEF AddActive
<1>5. Members(AddReplaceChild(derca[prog], hand, href)) = Members(derca[prog]) \cup {hand}
  BY <1>1, <1>2, <1>3, AddReplaceChildKeeps DEF Listed
<1>6. Distinct(AddReplaceChild(derca[prog], hand, href), href)
  BY <1>1, <1>2, AddReplaceChildDistinct
<1> QED BY <1>1, <1>4, <1>5, <1>6 DEF Listed

LEMMA AddPlaces ==
  ASSUME PlaceInv, AddActive
  PROVE  Places' /\ Homes' /\ Offers' /\ Holding' /\ NewList'
<1> USE DEF PlaceInv
<1>1. /\ UNCHANGED <<ctl, derc, prog, cursor, live>> /\ pc = "add" /\ pc' = "control"
      /\ opened' = opened \cup {prog} /\ cursor \in Nat
  BY DEF AddActive, NextControl, TypeOK
<1>2. Places' /\ Homes' /\ href' = href /\ mRID' = mRID
      /\ \A p, x : PlaceOf(p, x)' = PlaceOf(p, x)
  BY <1>1, SamePlaces
<1>3. /\ prog \in Program /\ hand \in Obj
      /\ Listed(prog)' = Listed(prog) \cup {hand}
      /\ \A p \in Program : p # prog => derca'[p] = derca[p]
      /\ Distinct(derca'[prog], href)
  BY AddGrows
<1>4. /\ HasInterval(hand) /\ Used(hand) /\ cursor - 1 \in PlaceOf(prog, hand)
      /\ \A x \in Listed(prog) : mRID[x] # mRID[hand]
  BY <1>1 DEF Holding, Holds
<1>5. ASSUME NEW p \in Program
      PROVE  /\ \A x \in Listed(p)' : HasInterval(x)' /\ Used(x)' /\ PlaceOf(p, x)' # {}
             /\ Distinct(derca[p], href)'
             /\ p \notin opened' => derca'[p] = <<>>
             /\ \A x, y \in Listed(p)' : mRID'[x] = mRID'[y] => x = y
  <2>1. CASE p = prog
    BY <1>1, <1>2, <1>3, <1>4, <2>1 DEF Offers, HasInterval, Used, Unused, Distinct
  <2>2. CASE p # prog
    <3>1. derca'[p] = derca[p] /\ Listed(p)' = Listed(p)
      BY <1>3, <2>2 DEF Listed
    <3> QED BY <1>1, <1>2, <3>1, <2>2 DEF Offers, HasInterval, Used, Unused, Distinct
  <2> QED BY <2>1, <2>2
<1>6. Offers'
  BY <1>5 DEF Offers
<1>7. NewList'
  <2>1. CASE live
    BY <1>1, <2>1 DEF NewList
  <2>2. CASE ~live
    <3> SUFFICES ASSUME NEW x \in Listed(prog) \cup {hand}
                 PROVE  \E i \in DOMAIN derc[prog] : i < cursor /\ mRID[derc[prog][i]] = mRID[x]
      BY <1>1, <1>2, <1>3 DEF NewList, Met
    <3>1. CASE x = hand
      <4>1. cursor - 1 \in DOMAIN derc[prog] /\ mRID[derc[prog][cursor - 1]] = mRID[hand]
        BY <1>4 DEF PlaceOf
      <4>2. cursor - 1 < cursor
        BY <1>1
      <4> QED BY <3>1, <4>1, <4>2
    <3>2. CASE x \in Listed(prog)
      <4>1. PICK i \in DOMAIN derc[prog] : i < cursor - 1 /\ mRID[derc[prog][i]] = mRID[x]
        BY <1>1, <2>2, <3>2 DEF NewList, Holds, Met
      <4>2. i < cursor
        BY <1>1, <1>3, <4>1, ListFacts
      <4> QED BY <4>1, <4>2
    <3> QED BY <3>1, <3>2
  <2> QED BY <2>1, <2>2
<1> QED BY <1>1, <1>2, <1>6, <1>7 DEF Holding, Holds

\* Taking one off takes off no other.
LEMMA RemoveShrinks ==
  ASSUME PlaceInv, RemoveActive
  PROVE  /\ prog \in Program /\ hand \in Obj
         /\ \A p \in Program : p # prog => derca'[p] = derca[p]
         /\ \/ /\ hand \in Listed(prog) /\ Listed(prog)' = Listed(prog) \ {hand}
               /\ Distinct(derca'[prog], href) /\ pc' = "control"
            \/ /\ hand \notin Listed(prog) /\ derca' = derca /\ hand' = hand /\ pc' = "dead"
<1> USE DEF PlaceInv
<1>1. prog \in Program /\ prog' = prog /\ hand \in Obj /\ derca \in [Program -> Seq(Obj)]
  BY DEF RemoveActive, InStep, TypeOK
<1>2. derca[prog] \in Seq(Obj) /\ Distinct(derca[prog], href)
  BY <1>1 DEF Offers
<1>3. CASE hand \in Members(derca[prog])
  <2>1. derca' = [derca EXCEPT ![prog] = RemoveChild(derca[prog], hand)] /\ pc' = "control"
    BY <1>3 DEF RemoveActive, NextControl
  <2>2. /\ Members(RemoveChild(derca[prog], hand)) = Members(derca[prog]) \ {hand}
        /\ Distinct(RemoveChild(derca[prog], hand), href)
    BY <1>2, <1>3, RemoveChildSeq
  <2> QED BY <1>1, <1>3, <2>1, <2>2 DEF Listed
<1>4. CASE hand \notin Members(derca[prog])
  BY <1>1, <1>4 DEF RemoveActive, Listed
<1> QED BY <1>3, <1>4

LEMMA RemovePlaces ==
  ASSUME PlaceInv, RemoveActive
  PROVE  Places' /\ Homes' /\ Offers' /\ Holding' /\ NewList'
<1> USE DEF PlaceInv
<1>1. UNCHANGED <<ctl, derc, opened, prog, cursor, live>> /\ pc = "remove" /\ cursor \in Nat
  BY DEF RemoveActive, TypeOK
<1>2. Places' /\ Homes' /\ href' = href /\ mRID' = mRID
      /\ \A p, x : PlaceOf(p, x)' = PlaceOf(p, x)
  BY <1>1, SamePlaces
<1>3. /\ prog \in Program /\ hand \in Obj
      /\ \A p \in Program : p # prog => derca'[p] = derca[p]
      /\ \/ /\ hand \in Listed(prog) /\ Listed(prog)' = Listed(prog) \ {hand}
            /\ Distinct(derca'[prog], href) /\ pc' = "control"
         \/ /\ hand \notin Listed(prog) /\ derca' = derca /\ hand' = hand /\ pc' = "dead"
  BY RemoveShrinks
<1>4. CASE derca' = derca
  <2>1. Offers'
    BY <1>1, <1>4, SameOffers
  <2>2. pc' \in {"control", "dead"}
    BY <1>3
  <2>3. Holding'
    BY <2>2 DEF Holding, Holds
  <2>4. NewList'
    <3> SUFFICES ASSUME pc' = "control", ~live, NEW x \in Listed(prog)
                 PROVE  \E i \in DOMAIN derc[prog] : i < cursor /\ mRID[derc[prog][i]] = mRID[x]
      BY <1>1, <1>2, <1>4, <2>2 DEF NewList, Met, Listed, Holds
    <3>1. PICK i \in DOMAIN derc[prog] : i < cursor - 1 /\ mRID[derc[prog][i]] = mRID[x]
      BY <1>1 DEF NewList, Holds, Met
    <3>2. i < cursor
      BY <1>1, <1>3, <3>1, ListFacts
    <3> QED BY <3>1, <3>2
  <2> QED BY <1>2, <2>1, <2>3, <2>4
<1>5. CASE /\ hand \in Listed(prog) /\ Listed(prog)' = Listed(prog) \ {hand}
           /\ Distinct(derca'[prog], href) /\ pc' = "control"
  <2>1. ASSUME NEW p \in Program
        PROVE  /\ \A x \in Listed(p)' : HasInterval(x)' /\ Used(x)' /\ PlaceOf(p, x)' # {}
               /\ Distinct(derca[p], href)'
               /\ p \notin opened' => derca'[p] = <<>>
               /\ \A x, y \in Listed(p)' : mRID'[x] = mRID'[y] => x = y
    <3>1. CASE p = prog
      <4>1. prog \in opened
        BY <1>3, <1>5 DEF Offers, Listed, Members
      <4> QED BY <1>1, <1>2, <1>5, <3>1, <4>1 DEF Offers, HasInterval, Used, Unused, Distinct
    <3>2. CASE p # prog
      <4>1. derca'[p] = derca[p] /\ Listed(p)' = Listed(p)
        BY <1>3, <3>2 DEF Listed
      <4> QED BY <1>1, <1>2, <4>1 DEF Offers, HasInterval, Used, Unused, Distinct
    <3> QED BY <3>1, <3>2
  <2>2. Offers'
    BY <2>1 DEF Offers
  <2>3. NewList'
    <3> SUFFICES ASSUME ~live, NEW x \in Listed(prog)
                 PROVE  \E i \in DOMAIN derc[prog] : i < cursor /\ mRID[derc[prog][i]] = mRID[x]
      BY <1>1, <1>2, <1>5 DEF NewList, Met
    <3>1. PICK i \in DOMAIN derc[prog] : i < cursor - 1 /\ mRID[derc[prog][i]] = mRID[x]
      BY <1>1 DEF NewList, Holds, Met
    <3>2. i < cursor
      BY <1>1, <1>3, <3>1, ListFacts
    <3> QED BY <3>1, <3>2
  <2> QED BY <1>2, <1>5, <2>2, <2>3 DEF Holding, Holds
<1> QED BY <1>3, <1>4, <1>5


\* A posted control stands on no active list and in no hand yet.
LEMMA PostAside ==
  ASSUME PlaceInv, NEW p \in Program, NEW o \in Obj, Enters(p, o)
  PROVE  /\ \A q \in Program : Listed(q) \subseteq Obj \ {o}
         /\ Holds => hand \in Obj \ {o}
         /\ \A x \in Obj \ {o} : \A q \in Program : PlaceOf(q, x) \subseteq PlaceOf(q, x)'
<1>1. ~Used(o) /\ TypeOK /\ Places
  BY DEF Enters, Used, PlaceInv
<1>2. \A q \in Program : Listed(q) \subseteq Obj \ {o}
  BY <1>1, ListFacts DEF PlaceInv, Offers
<1>3. Holds => hand \in Obj \ {o}
  BY <1>1 DEF PlaceInv, Holding, InStep, Holds
<1>4. ASSUME NEW x \in Obj \ {o}, NEW q \in Program, NEW i \in PlaceOf(q, x)
      PROVE  i \in PlaceOf(q, x)'
  <2>1. i \in DOMAIN derc[q] /\ href[x] = href[derc[q][i]] /\ mRID[x] = mRID[derc[q][i]]
    BY DEF PlaceOf
  <2>2. /\ i \in DOMAIN derc'[q]
        /\ href'[derc'[q][i]] = href[derc[q][i]] /\ mRID'[derc'[q][i]] = mRID[derc[q][i]]
    BY <1>1, <2>1, PlacesStay
  <2>3. href'[x] = href[x] /\ mRID'[x] = mRID[x]
    BY DEF Enters
  <2> QED BY <2>1, <2>2, <2>3 DEF PlaceOf
<1> QED BY <1>2, <1>3, <1>4

LEMMA PostOffers ==
  ASSUME PlaceInv, TypeOK', NEW p \in Program, NEW o \in Obj, Enters(p, o)
  PROVE  Places' /\ Homes' /\ Offers' /\ Holding' /\ NewList'
<1> USE DEF PlaceInv
<1>1. Places' /\ Homes'
  BY PostPlaces
<1>2. /\ \A q \in Program : Listed(q) \subseteq Obj \ {o}
      /\ Holds => hand \in Obj \ {o}
      /\ \A x \in Obj \ {o} : \A q \in Program : PlaceOf(q, x) \subseteq PlaceOf(q, x)'
  BY PostAside
<1>3. UNCHANGED <<derca, opened, pc, prog, cursor, hand, live>>
  BY DEF Enters, clock
<1>4. /\ \A x \in Obj \ {o} : href'[x] = href[x] /\ mRID'[x] = mRID[x]
      /\ \A x \in Obj \ {o} : (HasInterval(x)' <=> HasInterval(x)) /\ (Used(x)' <=> Used(x))
      /\ \A q \in Program : \A i \in DOMAIN derc[q] :
           i \in DOMAIN derc'[q] /\ mRID'[derc'[q][i]] = mRID[derc[q][i]]
      /\ \A q \in Program : InProgram(q)' \subseteq InProgram(q) \cup {o}
  BY PlacesStay DEF Enters
<1>5. \A q \in Program : Listed(q)' = Listed(q)
  BY <1>3 DEF Listed
<1>6. ASSUME NEW q \in Program PROVE Distinct(derca[q], href)'
  <2>1. \A i \in DOMAIN derca[q] : derca[q][i] \in Obj \ {o}
    BY <1>2 DEF Listed, Members
  <2> QED BY <1>3, <1>4, <2>1 DEF Offers, Distinct
<1>7. Offers'
  <2> SUFFICES ASSUME NEW q \in Program
               PROVE  /\ \A x \in Listed(q) : HasInterval(x)' /\ Used(x)' /\ PlaceOf(q, x)' # {}
                      /\ q \notin opened => derca[q] = <<>>
                      /\ \A x, y \in Listed(q) : mRID'[x] = mRID'[y] => x = y
    BY <1>3, <1>5, <1>6 DEF Offers
  <2>1. \A x \in Listed(q) : x \in Obj \ {o}
    BY <1>2
  <2> QED BY <1>2, <1>4, <2>1 DEF Offers
<1>8. Holding'
  <2>1. CASE ~Holds
    BY <1>3, <2>1 DEF Holding, Holds
  <2>2. CASE Holds
    <3>1. prog \in Program /\ hand \in Obj \ {o} /\ cursor - 1 \in PlaceOf(prog, hand)
      BY <1>2, <2>2 DEF InStep, Holds, Holding
    <3>2. cursor - 1 \in DOMAIN derc[prog] /\ derc' \in [Program -> Seq(Obj)]
      BY <3>1 DEF PlaceOf, TypeOK
    <3>3. cursor - 1 \in PlaceOf(prog, hand)' /\ Used(hand)'
      BY <1>2, <1>3, <1>4, <2>2, <3>1 DEF Holding, Used, Unused, PlaceOf
    <3>4. ASSUME HasInterval(hand), NEW j \in DOMAIN derc'[prog], j < cursor - 1
          PROVE  mRID'[derc'[prog][j]] # mRID'[hand]
      <4>1. DOMAIN derc[prog] = 1 .. Len(derc[prog]) /\ Len(derc[prog]) \in Nat
        BY <3>1, ListFacts
      <4>2. derc'[prog] \in Seq(Obj)
        BY <3>1, <3>2
      <4>3. j \in 1 .. Len(derc'[prog]) /\ Len(derc'[prog]) \in Nat
        BY <4>2, LenProperties
      <4>4. j \in DOMAIN derc[prog]
        BY <3>2, <3>4, <4>1, <4>3
      <4>5. mRID[derc[prog][j]] # mRID[hand]
        BY <2>2, <3>4, <4>4 DEF Holding
      <4> QED BY <1>4, <3>1, <4>4, <4>5
    <3>5. \A q \in Program : HasInterval(hand) /\ hand \in InProgram(q)' => q = prog
      BY <1>4, <2>2, <3>1 DEF Holding
    <3>6. pc = "add" => HasInterval(hand) /\ \A x \in Listed(prog) : mRID'[x] # mRID'[hand]
      BY <1>2, <1>4, <2>2, <3>1 DEF Holding
    <3>7. HasInterval(hand)' <=> HasInterval(hand)
      BY <1>3, <1>4, <3>1 DEF HasInterval
    <3> QED BY <1>3, <1>5, <3>1, <3>3, <3>4, <3>5, <3>6, <3>7 DEF Holding
  <2> QED BY <2>1, <2>2
<1>9. NewList'
  <2> SUFFICES ASSUME pc = "control" \/ Holds, ~live, NEW x \in Listed(prog)
               PROVE  \E i \in DOMAIN derc'[prog] : i < Met /\ mRID'[derc'[prog][i]] = mRID'[x]
    BY <1>3 DEF NewList, Met, Listed, Holds
  <2>1. prog \in Program
    BY DEF InStep, Holds
  <2>2. PICK i \in DOMAIN derc[prog] : i < Met /\ mRID[derc[prog][i]] = mRID[x]
    BY DEF NewList
  <2>3. x \in Obj \ {o}
    BY <1>2, <2>1
  <2>4. i \in DOMAIN derc'[prog] /\ mRID'[derc'[prog][i]] = mRID'[x]
    BY <1>4, <2>1, <2>2, <2>3
  <2> QED BY <2>2, <2>4
<1> QED BY <1>1, <1>7, <1>8, <1>9

LEMMA PlaceStep ==
  ASSUME PostHref = {}, PlaceInv, [Next]_vars
  PROVE  PlaceInv'
<1>1. TypeOK' /\ InStep'
  BY StepTypes DEF PlaceInv
<1>2. CASE Tick \/ EnterProgram \/ EndPass \/ EndProgram
  BY <1>1, <1>2, MovePlaces DEF PlaceInv
<1>3. CASE TakeControl
  BY <1>1, <1>3, TakePlaces DEF PlaceInv
<1>4. CASE HandleEvent
  BY <1>1, <1>4, HandlePlaces DEF PlaceInv
<1>5. CASE AddActive
  BY <1>1, <1>5, AddPlaces DEF PlaceInv
<1>6. CASE RemoveActive
  BY <1>1, <1>6, RemovePlaces DEF PlaceInv
<1>7. CASE PostControl
  <2>1. PICK p \in Program, o \in Obj : Enters(p, o)
    BY <1>7, PostEnters DEF PlaceInv
  <2>2. Places' /\ Homes' /\ Offers' /\ Holding' /\ NewList'
    BY <1>1, <2>1, PostOffers
  <2> QED BY <1>1, <2>2 DEF PlaceInv
<1>8. CASE UNCHANGED vars
  <2>1. Places' /\ Homes' /\ Offers' /\ href' = href /\ mRID' = mRID
        /\ \A p, x : PlaceOf(p, x)' = PlaceOf(p, x)
    BY <1>8, SamePlaces, SameOffers DEF vars, PlaceInv
  <2>2. UNCHANGED <<ctl, derc, derca, pc, prog, cursor, hand, live>>
    BY <1>8 DEF vars
  <2>3. Holding'
    BY <2>1, <2>2 DEF PlaceInv, Holding, Holds, PlaceOf, Listed, InProgram, HasInterval, Used, Unused
  <2>4. NewList'
    BY <2>1, <2>2 DEF PlaceInv, NewList, Met, Holds, Listed
  <2> QED BY <1>1, <2>1, <2>3, <2>4 DEF PlaceInv
<1> QED BY <1>2, <1>3, <1>4, <1>5, <1>6, <1>7, <1>8 DEF Next, Clock

\* Even when controls are replaced while the clock thread walks over them, no
\* client is offered two controls of a program under one mRID: a control
\* inherits the place of the one it replaces, and of the places of one mRID only
\* the first can hold an event (admin_endpoints.py 160-178, der.py 90-121).
THEOREM OneOnOfferPerMrid == PostHref = {} => (Spec => []OneListingPerMrid)
<1> SUFFICES ASSUME PostHref = {} PROVE Spec => []OneListingPerMrid
  OBVIOUS
<1>1. PlaceInv /\ [Next]_vars => PlaceInv'
  BY PlaceStep
<1>2. PlaceInv => OneListingPerMrid
  BY DEF PlaceInv, Offers, OneListingPerMrid
<1> QED BY PlaceInit, <1>1, <1>2, PTL DEF Spec

-----------------------------------------------------------------------------
(* What the clock thread dies of. *)

\* Of a replaced control the listing stays, under the mRID of x.
Orphan(p, x) == \E o \in Listed(p) \ {x} : mRID[o] = mRID[x] /\ o \notin InProgram(p)

\* An active control that is not on offer was kept off by an orphan.
Displaced == \A p \in Program, x \in Obj \ InHand :
  status[x] = "Active" /\ (x \in InProgram(p) \/ (pc = "event" /\ x = hand /\ p = prog))
    => x \in Listed(p) \/ Orphan(p, x)

\* The place of the control in hand is still its own, or is held by a control
\* posted since, which is not active yet.
Taken ==
  /\ Holds => \/ derc[prog][cursor - 1] = hand
              \/ status[derc[prog][cursor - 1]] # "Active"
  /\ pc = "remove" => status[hand] = "Complete" /\ (hand \in Listed(prog) \/ Orphan(prog, hand))

ActiveWindow == \A o \in Obj : status[o] = "Active" => HasInterval(o)

Dead == pc = "dead" => /\ prog \in Program /\ hand \in Obj /\ Used(hand)
                       /\ Incomplete(hand) \/ Orphan(prog, hand)

OrphanInv == Displaced /\ Taken /\ ActiveWindow /\ Dead

LEMMA OrphanInit == Init => OrphanInv
BY DEF Init, OrphanInv, Displaced, Taken, ActiveWindow, Dead, Holds

LEMMA SameOrphans ==
  ASSUME UNCHANGED <<ctl, derc, derca>>
  PROVE  \A p, x : Orphan(p, x)' <=> Orphan(p, x)
<1>1. mRID' = mRID
  BY DEF mRID
<1> QED BY <1>1 DEF Orphan, Listed, InProgram

LEMMA MoveOrphans ==
  ASSUME PlaceInv, OrphanInv, Tick \/ EnterProgram \/ EndPass \/ EndProgram \/ TakeControl
  PROVE  OrphanInv'
<1> USE DEF PlaceInv, OrphanInv
<1>1. /\ UNCHANGED <<ctl, derc, derca, status>>
      /\ pc \in {"sleep", "program", "control"}
      /\ \/ pc' \in {"sleep", "program", "control"}
         \/ /\ pc = "control" /\ pc' = "event" /\ prog' = prog /\ hand' = derc[prog][cursor]
            /\ cursor' = cursor + 1
  BY DEF Tick, EnterProgram, EndPass, EndProgram, TakeControl, store
<1>2. \A p, x : Orphan(p, x)' <=> Orphan(p, x)
  BY <1>1, SameOrphans
<1>3. ActiveWindow'
  BY <1>1 DEF ActiveWindow, HasInterval
<1>4. InHand = {} /\ InHand' = {} /\ \A p : Listed(p)' = Listed(p) /\ InProgram(p)' = InProgram(p)
  BY <1>1 DEF InHand, Listed, InProgram
<1>5. pc' = "event" => /\ prog \in Program /\ prog' = prog /\ hand' = derc[prog][cursor]
                       /\ hand' \in InProgram(prog) /\ cursor' - 1 = cursor
  <2> SUFFICES ASSUME pc' = "event"
               PROVE  /\ prog \in Program /\ prog' = prog /\ hand' = derc[prog][cursor]
                      /\ hand' \in InProgram(prog) /\ cursor' - 1 = cursor
    OBVIOUS
  <2>1. pc = "control" /\ prog \in Program /\ cursor \in Nat \ {0}
    BY <1>1 DEF InStep, TypeOK
  <2>2. cursor \in 1 .. Len(derc[prog])
    BY <2>1, ListFacts DEF Tick, EnterProgram, EndPass, EndProgram, TakeControl
  <2> QED BY <1>1, <2>1, <2>2, ListFacts
<1>6. Displaced'
  BY <1>1, <1>2, <1>4, <1>5 DEF Displaced
<1>7. Taken'
  BY <1>1, <1>5 DEF Taken, Holds
<1>8. Dead'
  BY <1>1 DEF Dead
<1> QED BY <1>3, <1>6, <1>7, <1>8

LEMMA HandleOrphans ==
  ASSUME PlaceInv, OrphanInv, HandleEvent
  PROVE  OrphanInv'
<1> USE DEF PlaceInv, OrphanInv
<1>1. UNCHANGED <<ctl, derc, derca, prog, cursor, live>> /\ pc = "event" /\ prog \in Program
      /\ hand \in Obj /\ status \in [Obj -> Status] /\ InHand = {}
  BY DEF HandleEvent, InStep, TypeOK, InHand
<1>2. /\ \A p, x : Orphan(p, x)' <=> Orphan(p, x)
      /\ \A p : Listed(p)' = Listed(p) /\ InProgram(p)' = InProgram(p)
      /\ \A x : HasInterval(x)' <=> HasInterval(x)
  BY <1>1, SameOrphans DEF Listed, InProgram, HasInterval
<1>3. \A x \in Obj \ {hand} : status'[x] = status[x]
  BY <1>1 DEF HandleEvent, Open, Close, Pass, Raise
<1>4. status'[hand] = "Active" => HasInterval(hand)
  <2>1. CASE Open
    BY <2>1 DEF Open, Inside, HasInterval
  <2>2. CASE Close
    BY <1>1, <2>2 DEF Close
  <2>3. CASE Pass
    <3>1. status'[hand] = "Active" => status[hand] = "Active"
      BY <1>1, <2>3 DEF Pass, Classified
    <3> QED BY <1>1, <3>1 DEF ActiveWindow
  <2>4. CASE Raise
    <3>1. status'[hand] = "Active" => status[hand] = "Active"
      BY <1>1, <2>4 DEF Raise
    <3> QED BY <1>1, <3>1 DEF ActiveWindow
  <2> QED BY <2>1, <2>2, <2>3, <2>4 DEF HandleEvent
<1>5. ActiveWindow'
  BY <1>1, <1>2, <1>3, <1>4 DEF ActiveWindow
<1>6. \/ pc' = "add" /\ hand' = hand
      \/ pc' = "remove" /\ hand' = hand
      \/ pc' = "control" /\ hand' = NoObj
      \/ pc' = "dead" /\ hand' = hand /\ Incomplete(hand)
  BY DEF HandleEvent, Open, Close, Pass, Raise, NextControl
<1>7. ASSUME NEW p \in Program, hand \in InProgram(p), pc' \in {"control", "dead"},
             status'[hand] = "Active"
      PROVE  hand \in Listed(p) \/ Orphan(p, hand)
  <2>1. HasInterval(hand) /\ p = prog
    BY <1>1, <1>4, <1>7 DEF Holding, Holds
  <2>2. CASE Open
    <3>1. mRID[hand] \in {mRID[o] : o \in CurrentActive}
      BY <1>7, <2>2 DEF Open
    <3>2. PICK y \in Listed(prog) : mRID[y] = mRID[hand]
      BY <3>1 DEF CurrentActive, Listed
    <3>3. HasInterval(y)
      BY <1>1, <3>2 DEF Offers
    <3>4. y \in InProgram(prog) => y = hand
      BY <1>1, <1>7, <2>1, <3>2, <3>3, OneInterval
    <3> QED BY <2>1, <3>2, <3>4 DEF Orphan
  <2>3. CASE Pass
    <3>1. status[hand] = "Active"
      BY <1>1, <1>7, <2>3 DEF Pass, Classified
    <3> QED BY <1>1, <1>7, <3>1 DEF Displaced
  <2>4. CASE Close
    BY <1>7, <2>4 DEF Close
  <2>5. CASE Raise
    BY <2>1, <2>5 DEF Raise, Incomplete
  <2> QED BY <2>2, <2>3, <2>4, <2>5 DEF HandleEvent
<1>8. Displaced'
  <2> SUFFICES ASSUME NEW p \in Program, NEW x \in Obj \ InHand',
                      status'[x] = "Active", x \in InProgram(p)
               PROVE  x \in Listed(p) \/ Orphan(p, x)
    BY <1>2, <1>6 DEF Displaced
  <2>1. CASE x # hand
    BY <1>1, <1>3, <2>1 DEF Displaced
  <2>2. CASE x = hand
    <3>1. pc' \in {"control", "dead"}
      BY <1>6, <2>2 DEF InHand
    <3> QED BY <1>7, <2>2, <3>1
  <2> QED BY <2>1, <2>2
<1>9. Taken'
  <2>1. Holds' => \/ derc'[prog'][cursor' - 1] = hand'
                  \/ status'[derc'[prog'][cursor' - 1]] # "Active"
    <3> SUFFICES ASSUME Holds' PROVE \/ derc[prog][cursor - 1] = hand
                                     \/ status'[derc[prog][cursor - 1]] # "Active"
      BY <1>1, <1>6 DEF Holds
    <3>1. cursor - 1 \in DOMAIN derc[prog]
      BY <1>1 DEF Holding, Holds, PlaceOf
    <3>2. derc[prog][cursor - 1] \in Obj
      BY <1>1, <3>1, ListFacts
    <3> QED BY <1>1, <1>3, <3>2 DEF Taken, Holds
  <2>2. ASSUME pc' = "remove"
        PROVE  status'[hand] = "Complete" /\ (hand \in Listed(prog) \/ Orphan(prog, hand))
    <3>1. Close
      BY <2>2 DEF HandleEvent, Open, Pass, Raise, NextControl
    <3>2. status'[hand] = "Complete"
      BY <1>1, <3>1 DEF Close
    <3>3. status[hand] = "Active"
      <4>1. HasInterval(hand) /\ now \in Nat
        BY <3>1, TypeFacts DEF Close, Past, HasInterval
      <4>2. ~Inside(hand)
        BY <1>1, <3>1, <4>1, Windows DEF Close, Inside, Past
      <4> QED BY <3>1, <4>2 DEF Close, Classified
    <3> QED BY <1>1, <3>2, <3>3 DEF Displaced
  <2> QED BY <1>1, <1>2, <1>6, <2>1, <2>2 DEF Taken
<1>10. Dead'
  <2> SUFFICES ASSUME pc' = "dead"
               PROVE  Used(hand)' /\ Incomplete(hand)' /\ hand' \in Obj /\ prog' \in Program
    BY DEF Dead
  <2>1. hand' = hand /\ Incomplete(hand)
    BY <1>6
  <2>2. Used(hand)
    BY <1>1 DEF Holding, Holds
  <2> QED BY <1>1, <2>1, <2>2 DEF Used, Unused, Incomplete, HasInterval
<1> QED BY <1>5, <1>8, <1>9, <1>10

LEMMA AddOrphans ==
  ASSUME PlaceInv, OrphanInv, AddActive
  PROVE  OrphanInv'
<1> USE DEF PlaceInv, OrphanInv
<1>1. UNCHANGED <<ctl, derc, status, prog, cursor>> /\ pc = "add" /\ pc' = "control"
      /\ InHand = {hand} /\ InHand' = {}
  BY DEF AddActive, NextControl, InHand
<1>2. /\ prog \in Program /\ hand \in Obj
      /\ Listed(prog)' = Listed(prog) \cup {hand}
      /\ \A p \in Program : p # prog => derca'[p] = derca[p]
  BY AddGrows
<1>3. mRID' = mRID /\ \A p : InProgram(p)' = InProgram(p)
  BY <1>1 DEF mRID, InProgram
<1>4. \A p \in Program : Listed(p) \subseteq Listed(p)'
  BY <1>1, <1>2 DEF Listed
<1>5. \A p \in Program, x \in Obj : Orphan(p, x) => Orphan(p, x)'
  BY <1>3, <1>4 DEF Orphan
<1>6. \A p \in Program : hand \in InProgram(p) => p = prog
  BY <1>1 DEF Holding, Holds
<1>7. Displaced'
  <2> SUFFICES ASSUME NEW p \in Program, NEW x \in Obj, status[x] = "Active", x \in InProgram(p)
               PROVE  x \in Listed(p)' \/ Orphan(p, x)'
    BY <1>1, <1>3 DEF Displaced
  <2>1. CASE x = hand
    BY <1>1, <1>2, <1>6, <2>1
  <2>2. CASE x # hand
    BY <1>1, <1>4, <1>5, <2>2 DEF Displaced
  <2> QED BY <2>1, <2>2
<1>8. ActiveWindow'
  BY <1>1 DEF ActiveWindow, HasInterval
<1> QED BY <1>1, <1>7, <1>8 DEF Taken, Holds, Dead

\* The control in hand is the orphan of nobody: who stands in its place is not
\* active, and no one else in the program has its mRID and an interval.
LEMMA RemoveOrphans ==
  ASSUME PlaceInv, OrphanInv, RemoveActive
  PROVE  OrphanInv'
<1> USE DEF PlaceInv, OrphanInv
<1>1. UNCHANGED <<ctl, derc, status, prog, cursor>> /\ pc = "remove" /\ InHand = {hand}
  BY DEF RemoveActive, InHand
<1>2. /\ prog \in Program /\ hand \in Obj
      /\ \A p \in Program : p # prog => derca'[p] = derca[p]
      /\ \/ /\ hand \in Listed(prog) /\ Listed(prog)' = Listed(prog) \ {hand} /\ pc' = "control"
         \/ /\ hand \notin Listed(prog) /\ derca' = derca /\ hand' = hand /\ pc' = "dead"
  BY RemoveShrinks
<1>3. mRID' = mRID /\ InHand' = {} /\ \A p : InProgram(p)' = InProgram(p)
  BY <1>1, <1>2 DEF mRID, InProgram, InHand
<1>4. status[hand] # "Active"
  BY <1>1 DEF Taken
<1>5. ActiveWindow'
  BY <1>1 DEF ActiveWindow, HasInterval
<1>6. ASSUME NEW x \in InProgram(prog), status[x] = "Active", x # hand,
             hand \in Listed(prog), mRID[x] = mRID[hand]
      PROVE  hand \in InProgram(prog)
  <2>1. HasInterval(hand) /\ x \in Obj /\ HasInterval(x)
    BY <1>2, <1>6, ListFacts DEF Offers, ActiveWindow
  <2>2. PICK i \in DOMAIN derc[prog] : derc[prog][i] = x
    BY <1>2, ListFacts
  <2>3. /\ cursor - 1 \in DOMAIN derc[prog] /\ mRID[derc[prog][cursor - 1]] = mRID[hand]
        /\ \A j \in DOMAIN derc[prog] : j < cursor - 1 => mRID[derc[prog][j]] # mRID[hand]
    BY <1>1, <2>1 DEF Holding, Holds, PlaceOf
  <2>4. ~(i < cursor - 1)
    BY <1>6, <2>2, <2>3
  <2>5. ~(cursor - 1 < i)
    BY <1>2, <1>6, <2>1, <2>2, <2>3 DEF Places
  <2>6. i = cursor - 1
    BY <1>2, <2>3, <2>4, <2>5, ListFacts
  <2>7. derc[prog][cursor - 1] = hand
    BY <1>1, <1>6, <2>2, <2>6 DEF Taken, Holds
  <2> QED BY <1>2, <2>3, <2>7, ListFacts
<1>7. ASSUME NEW p \in Program, NEW x \in Obj, status[x] = "Active", x \in InProgram(p)
      PROVE  x \in Listed(p)' \/ Orphan(p, x)'
  <2>1. x # hand /\ (x \in Listed(p) \/ Orphan(p, x))
    BY <1>1, <1>4, <1>7 DEF Displaced
  <2>2. CASE Listed(p)' = Listed(p)
    BY <1>3, <2>1, <2>2 DEF Orphan
  <2>3. CASE p = prog /\ hand \in Listed(prog) /\ Listed(prog)' = Listed(prog) \ {hand}
    <3>1. CASE x \in Listed(p)
      BY <1>1, <2>1, <2>3, <3>1
    <3>2. CASE Orphan(p, x)
      <4>1. PICK o \in Listed(p) \ {x} : mRID[o] = mRID[x] /\ o \notin InProgram(p)
        BY <3>2 DEF Orphan
      <4>2. o # hand
        BY <1>6, <1>7, <2>1, <2>3, <4>1
      <4>3. o \in Listed(p)' \ {x}
        BY <1>1, <2>3, <4>1, <4>2
      <4> QED BY <1>3, <4>1, <4>3 DEF Orphan
    <3> QED BY <2>1, <3>1, <3>2
  <2>4. p # prog => Listed(p)' = Listed(p)
    BY <1>2 DEF Listed
  <2>5. derca' = derca => Listed(p)' = Listed(p)
    BY DEF Listed
  <2> QED BY <1>2, <2>2, <2>3, <2>4, <2>5
<1>8. Displaced'
  BY <1>1, <1>2, <1>3, <1>7 DEF Displaced
<1>9. Taken'
  BY <1>2 DEF Taken, Holds
<1>10. Dead'
  <2> SUFFICES ASSUME pc' = "dead" PROVE Used(hand)' /\ Orphan(prog, hand)' /\ hand' \in Obj
    BY <1>1, <1>2 DEF Dead
  <2>1. hand \notin Listed(prog) /\ derca' = derca /\ hand' = hand
    BY <1>2
  <2>2. Orphan(prog, hand) /\ Used(hand)
    BY <1>1, <2>1 DEF Taken, Holding, Holds
  <2>3. Orphan(prog, hand)'
    BY <1>1, <1>3, <2>1, <2>2 DEF Orphan, Listed
  <2> QED BY <1>1, <1>2, <2>1, <2>2, <2>3 DEF Used, Unused
<1> QED BY <1>5, <1>8, <1>9, <1>10

LEMMA PostOrphans ==
  ASSUME "Active" \notin PostStatus, PlaceInv, OrphanInv,
         NEW p \in Program, NEW o \in Obj, Enters(p, o)
  PROVE  OrphanInv'
<1> USE DEF PlaceInv, OrphanInv
<1>1. UNCHANGED <<derca, pc, prog, cursor, hand>> /\ status'[o] # "Active" /\ ~Used(o)
  BY DEF Enters, clock, Used
<1>2. /\ \A q \in Program : Listed(q) \subseteq Obj \ {o}
      /\ Holds => hand \in Obj \ {o}
  BY PostAside
<1>3. /\ \A x \in Obj \ {o} : mRID'[x] = mRID[x] /\ status'[x] = status[x]
      /\ \A x \in Obj \ {o} : (HasInterval(x)' <=> HasInterval(x)) /\ (Used(x)' <=> Used(x))
      /\ \A q \in Program : InProgram(q)' \subseteq InProgram(q) \cup {o}
  BY PlacesStay DEF Enters
<1>4. InHand' = InHand /\ \A q \in Program : Listed(q)' = Listed(q)
  BY <1>1 DEF Listed, InHand
<1>5. ASSUME NEW q \in Program, NEW x \in Obj \ {o}, Orphan(q, x) PROVE Orphan(q, x)'
  <2>1. PICK w \in Listed(q) \ {x} : mRID[w] = mRID[x] /\ w \notin InProgram(q)
    BY <1>5 DEF Orphan
  <2>2. w \in Obj \ {o}
    BY <1>2
  <2> QED BY <1>3, <1>4, <2>1, <2>2 DEF Orphan
<1>6. ActiveWindow'
  BY <1>1, <1>3 DEF ActiveWindow
<1>7. Displaced'
  <2> SUFFICES ASSUME NEW q \in Program, NEW x \in Obj \ InHand, status'[x] = "Active",
                      x \in InProgram(q)' \/ (pc = "event" /\ x = hand /\ q = prog)
               PROVE  x \in Listed(q) \/ Orphan(q, x)'
    BY <1>1, <1>4 DEF Displaced
  <2>1. x \in Obj \ {o} /\ status[x] = "Active"
    BY <1>1, <1>3
  <2>2. x \in InProgram(q) \/ (pc = "event" /\ x = hand /\ q = prog)
    BY <1>3, <2>1
  <2>3. x \in Listed(q) \/ Orphan(q, x)
    BY <2>1, <2>2 DEF Displaced
  <2> QED BY <1>5, <2>1, <2>3
<1>8. Taken'
  <2>1. ASSUME Holds
        PROVE  derc'[prog][cursor - 1] = hand \/ status'[derc'[prog][cursor - 1]] # "Active"
    <3>1. prog \in Program /\ cursor - 1 \in DOMAIN derc[prog]
      BY <2>1 DEF InStep, Holds, Holding, PlaceOf
    <3>2. derc'[prog][cursor - 1] = derc[prog][cursor - 1] \/ derc'[prog][cursor - 1] = o
      BY <3>1 DEF Enters
    <3>3. derc[prog][cursor - 1] \in Obj
      BY <3>1, ListFacts
    <3> QED BY <1>1, <1>3, <2>1, <3>2, <3>3 DEF Taken
  <2>2. ASSUME pc = "remove"
        PROVE  status'[hand] = "Complete" /\ (hand \in Listed(prog) \/ Orphan(prog, hand)')
    <3>1. PICK q \in Program, x \in Obj \ {o} : q = prog /\ x = hand
      BY <1>2, <2>2 DEF Holds, InStep
    <3>2. Orphan(q, x) => Orphan(q, x)'
      BY <1>5
    <3>3. Orphan(q, x)' <=> Orphan(prog, hand)'
      BY <1>1, <3>1 DEF Orphan, Listed, InProgram
    <3> QED BY <1>3, <2>2, <3>1, <3>2, <3>3 DEF Taken
  <2> QED BY <1>1, <2>1, <2>2 DEF Taken, Holds, Listed
<1>9. Dead'
  <2> SUFFICES ASSUME pc = "dead"
               PROVE  /\ Used(hand)' /\ hand \in Obj /\ prog \in Program
                      /\ Incomplete(hand)' \/ Orphan(prog, hand)'
    BY <1>1 DEF Dead
  <2>1. /\ prog \in Program /\ hand \in Obj \ {o} /\ Used(hand)
        /\ Incomplete(hand) \/ Orphan(prog, hand)
    BY <1>1 DEF Dead
  <2>2. PICK q \in Program, x \in Obj \ {o} : q = prog /\ x = hand
    BY <2>1
  <2>3. Orphan(q, x) => Orphan(q, x)'
    BY <1>5
  <2>4. Orphan(q, x)' <=> Orphan(prog, hand)'
    BY <1>1, <2>2 DEF Orphan, Listed, InProgram
  <2>5. Incomplete(hand) => Incomplete(hand)'
    BY <1>1, <2>1 DEF Enters, Incomplete, HasInterval
  <2>6. Used(hand)'
    BY <1>1, <1>3, <2>1 DEF Used, Unused
  <2> QED BY <2>1, <2>2, <2>3, <2>4, <2>5, <2>6
<1> QED BY <1>6, <1>7, <1>8, <1>9


LEMMA OrphanStep ==
  ASSUME PostHref = {}, "Active" \notin PostStatus, PlaceInv, OrphanInv, [Next]_vars
  PROVE  OrphanInv'
<1>1. CASE Tick \/ EnterProgram \/ EndPass \/ EndProgram \/ TakeControl
  BY <1>1, MoveOrphans
<1>2. CASE HandleEvent
  BY <1>2, HandleOrphans
<1>3. CASE AddActive
  BY <1>3, AddOrphans
<1>4. CASE RemoveActive
  BY <1>4, RemoveOrphans
<1>5. CASE PostControl
  <2>1. PICK p \in Program, o \in Obj : Enters(p, o)
    BY <1>5, PostEnters DEF PlaceInv
  <2> QED BY <2>1, PostOrphans
<1>6. CASE UNCHANGED vars
  <2>1. UNCHANGED <<ctl, status, derc, derca, pc, prog, cursor, hand>> /\ mRID' = mRID
    BY <1>6 DEF vars, mRID
  <2> QED BY <2>1 DEF OrphanInv, Displaced, Taken, ActiveWindow, Dead, Orphan, InHand, Holds,
                      Listed, InProgram, HasInterval, Incomplete, Used, Unused
<1> QED BY <1>1, <1>2, <1>3, <1>4, <1>5, <1>6 DEF Next, Clock

\* Two things end the clock thread: an interval posted without start or duration
\* (der.py 104, 115, 125), and a replaced control that still stands on the active
\* list under the mRID of the one that follows it, which makes list.remove raise
\* (der.py 115-130, timeadapter.py 21-26).
THEOREM DeathsHaveCauses ==
  PostHref = {} /\ "Active" \notin PostStatus => (Spec => []DeathHasCause)
<1> SUFFICES ASSUME PostHref = {}, "Active" \notin PostStatus PROVE Spec => []DeathHasCause
  OBVIOUS
<1>1. PlaceInv /\ OrphanInv /\ [Next]_vars => (PlaceInv /\ OrphanInv)'
  BY PlaceStep, OrphanStep
<1>2. PlaceInv /\ OrphanInv => DeathHasCause
  BY DEF OrphanInv, Dead, Orphan, InProgram, DeathHasCause
<1> QED BY PlaceInit, OrphanInit, <1>1, <1>2, PTL DEF Spec

-----------------------------------------------------------------------------
(* Reading the active list of a program while the clock thread changes it. *)

ReadTypes ==
  /\ reading \in Program \cup {NoProgram}
  /\ at \in Nat \ {0}
  /\ answer \in Seq(Obj)
  /\ told \in Seq(Status) /\ Len(told) \in {Len(answer), Len(answer) - 1}
  /\ stored \in BOOLEAN
  /\ steady \in SUBSET Obj
  /\ removals \in Nat

\* A control that was handed out does not stand before the iterator again: it is
\* behind it, or off the list for good.
Behind(p, o) ==
  /\ o \in InProgram(p) /\ HasInterval(o)
  /\ o \in Listed(p) \/ status[o] = "Complete"
  /\ \A k \in DOMAIN derca[p] : derca[p][k] = o => k < at
HandedOut ==
  /\ reading = NoProgram => answer = <<>>
  /\ \A o \in Answered : Behind(reading, o)
  /\ \A i, j \in DOMAIN answer : answer[i] = answer[j] => i = j

\* The iterator has passed a control without writing it at most as often as
\* the list was shortened.
Passed(list, n) == {list[k] : k \in {i \in DOMAIN list : i < n}}
Missed == (steady \ Answered) \cap Passed(derca[reading], at)
Misses ==
  /\ \A p \in Program \ opened : derca[p] = <<>>
  /\ reading # NoProgram =>
       /\ steady \subseteq Listed(reading)
       /\ ~stored => steady = {}
       /\ IsFiniteSet(Missed) /\ Cardinality(Missed) <= removals

\* A control of which -1 was written is complete for good.
ToldInv == \A i \in DOMAIN told :
  told[i] = "Active" \/ (told[i] = "Complete" /\ status[answer[i]] = "Complete")

ReadInv == FreshInv /\ ReadTypes /\ HandedOut /\ Misses /\ ToldInv

LEMMA ReadStepIsStep ==
  ASSUME [ReadNext]_allVars
  PROVE  [Next]_vars
BY DEF ReadNext, ClockStep, PostStep, StartRead, TakeItem, WriteItem, FinishRead, allVars, Next

\* The element under the iterator.
LEMMA ItemRead ==
  ASSUME FreshInv, ReadTypes, Remaining
  PROVE  /\ reading \in Program /\ derca[reading] \in Seq(Obj)
         /\ at \in DOMAIN derca[reading]
         /\ derca[reading][at] \in Listed(reading)
         /\ derca[reading][at] \in InProgram(reading)
         /\ derca[reading][at] \in Obj
         /\ HasInterval(derca[reading][at])
<1>1. reading \in Program /\ derca[reading] \in Seq(Obj)
  BY DEF Remaining, ReadTypes, FreshInv, TypeOK
<1>2. Len(derca[reading]) \in Nat /\ DOMAIN derca[reading] = 1 .. Len(derca[reading])
  BY <1>1, LenProperties
<1>3. at \in DOMAIN derca[reading]
  BY <1>2 DEF Remaining, ReadTypes
<1>4. derca[reading][at] \in Obj /\ derca[reading][at] \in Listed(reading)
  BY <1>1, <1>2, <1>3, ElementOfSeq DEF Listed, Members
<1> QED BY <1>1, <1>3, <1>4 DEF FreshInv, Actives

LEMMA TakeItemHands ==
  ASSUME FreshInv, ReadTypes, TakeItem
  PROVE  LET o == derca[reading][at]
         IN  /\ o \in Obj /\ answer' = Append(answer, o)
             /\ answer' \in Seq(Obj) /\ Len(answer') = Len(answer) + 1
             /\ answer'[Len(answer) + 1] = o
             /\ \A i \in 1 .. Len(answer) : answer'[i] = answer[i]
             /\ Len(answer) \in Nat
<1> DEFINE o == derca[reading][at]
<1>1. o \in Obj
  BY ItemRead DEF TakeItem
<1>2. answer' = Append(answer, o)
  BY DEF TakeItem
<1> HIDE DEF o
<1>3. answer \in Seq(Obj) /\ Len(answer) \in Nat
  BY LenProperties DEF ReadTypes
<1>4. /\ answer' \in Seq(Obj) /\ Len(answer') = Len(answer) + 1
      /\ answer'[Len(answer) + 1] = o
      /\ \A i \in 1 .. Len(answer) : answer'[i] = answer[i]
  BY <1>1, <1>2, <1>3, AppendProperties
<1> QED BY <1>1, <1>2, <1>3, <1>4 DEF o

LEMMA ToldAndAnswer ==
  ASSUME ReadTypes
  PROVE  /\ DOMAIN told = 1 .. Len(told) /\ DOMAIN answer = 1 .. Len(answer)
         /\ Len(told) \in Nat /\ Len(answer) \in Nat /\ Len(told) <= Len(answer)
         /\ Len(told) # Len(answer) => Len(told) + 1 = Len(answer)
         /\ DOMAIN told \subseteq DOMAIN answer
<1> DEFINE n == Len(told)
           m == Len(answer)
<1>1. /\ DOMAIN told = 1 .. n /\ DOMAIN answer = 1 .. m /\ n \in Nat /\ m \in Nat
      /\ n = m \/ n = m - 1
  BY LenProperties DEF ReadTypes
<1> HIDE DEF n, m
<1>2. n <= m /\ (n # m => n + 1 = m) /\ 1 .. n \subseteq 1 .. m
  BY <1>1
<1> QED BY <1>1, <1>2 DEF n, m

LEMMA WriteItemTells ==
  ASSUME FreshInv, ReadTypes, WriteItem
  PROVE  LET n == Len(told)
             e == status[answer[n + 1]]
         IN  /\ n + 1 \in DOMAIN answer /\ answer[n + 1] \in Obj /\ n \in Nat
             /\ told' \in Seq(Status) /\ Len(told') = n + 1
             /\ DOMAIN told' = 1 .. n + 1 /\ DOMAIN told = 1 .. n
             /\ told'[n + 1] = e
             /\ \A i \in 1 .. n : told'[i] = told[i]
<1> DEFINE n == Len(told)
           e == status[answer[n + 1]]
<1>1. /\ answer \in Seq(Obj) /\ Len(answer) \in Nat /\ DOMAIN answer = 1 .. Len(answer)
      /\ told \in Seq(Status) /\ n \in Nat /\ DOMAIN told = 1 .. n
  BY LenProperties DEF ReadTypes
<1>2. n + 1 = Len(answer)
  BY ToldAndAnswer DEF WriteItem, Written
<1>3. n + 1 \in DOMAIN answer /\ answer[n + 1] \in Obj
  BY <1>1, <1>2, ElementOfSeq
<1>4. e \in Status /\ told' = Append(told, e)
  BY <1>3 DEF WriteItem, FreshInv, TypeOK
<1> HIDE DEF e
<1>5. /\ told' \in Seq(Status) /\ Len(told') = n + 1 /\ told'[n + 1] = e
      /\ \A i \in 1 .. n : told'[i] = told[i]
  BY <1>1, <1>4, AppendProperties
<1>6. DOMAIN told' = 1 .. n + 1
  BY <1>5, LenProperties
<1> QED BY <1>1, <1>3, <1>5, <1>6 DEF e

LEMMA ReadTypesStep ==
  ASSUME FreshInv, ReadTypes, [ReadNext]_allVars
  PROVE  ReadTypes'
<1>1. CASE ClockStep
  <2>1. steady' \in SUBSET Obj /\ removals' \in Nat
    BY <1>1 DEF ClockStep, ReadTypes
  <2> QED BY <1>1, <2>1 DEF ClockStep, ReadTypes
<1>2. CASE PostStep
  BY <1>2 DEF PostStep, readVars, ReadTypes
<1>3. ASSUME NEW p \in Program, StartRead(p)
      PROVE  ReadTypes'
  <2>1. derca[p] \in Seq(Obj)
    BY DEF FreshInv, TypeOK
  <2>2. Members(derca[p]) \subseteq Obj
    BY <2>1, MembersOfSeq
  <2>3. answer' \in Seq(Obj) /\ told' \in Seq(Status) /\ Len(told') = Len(answer')
    BY <1>3, EmptySeq DEF StartRead
  <2> QED BY <1>3, <2>2, <2>3 DEF StartRead, ReadTypes
<1>4. CASE TakeItem
  <2>1. answer' \in Seq(Obj) /\ Len(answer') = Len(answer) + 1 /\ Len(answer) \in Nat
    BY <1>4, TakeItemHands
  <2>2. told' = told /\ Len(told) = Len(answer)
    BY <1>4 DEF TakeItem, Written
  <2> QED BY <1>4, <2>1, <2>2 DEF TakeItem, ReadTypes
<1>7. CASE WriteItem
  <2>1. told' \in Seq(Status) /\ Len(told') = Len(told) + 1 /\ Len(told) \in Nat
    BY <1>7, WriteItemTells
  <2>2. answer' = answer /\ Len(told) # Len(answer) /\ Len(answer) \in Nat
    BY <1>7, LenProperties DEF WriteItem, Written, ReadTypes
  <2> QED BY <1>7, <2>1, <2>2 DEF WriteItem, ReadTypes
<1>5. CASE FinishRead
  <2>1. answer' \in Seq(Obj) /\ told' \in Seq(Status) /\ Len(told') = Len(answer')
    BY <1>5, EmptySeq DEF FinishRead
  <2>2. stored' \in BOOLEAN
    BY <1>5, Zenon DEF FinishRead
  <2>3. reading' \in {NoProgram} /\ at' \in Nat \ {0} /\ steady' \in SUBSET Obj /\ removals' \in Nat
    BY <1>5 DEF FinishRead
  <2> QED BY <2>1, <2>2, <2>3 DEF ReadTypes
<1>6. CASE UNCHANGED allVars
  BY <1>6 DEF allVars, readVars, ReadTypes
<1> QED BY <1>1, <1>2, <1>3, <1>4, <1>5, <1>6, <1>7 DEF ReadNext

LEMMA ReadTypesInit == ReadInit => ReadTypes
<1> SUFFICES ASSUME ReadInit PROVE ReadTypes
  OBVIOUS
<1>1. answer \in Seq(Obj) /\ told \in Seq(Status) /\ Len(told) = Len(answer)
  BY EmptySeq DEF ReadInit
<1>2. stored \in BOOLEAN
  BY Zenon DEF ReadInit
<1>3. reading \in {NoProgram} /\ at \in Nat \ {0} /\ steady \in SUBSET Obj /\ removals \in Nat
  BY DEF ReadInit
<1> QED BY <1>1, <1>2, <1>3 DEF ReadTypes

\* What a step of the clock thread does to the list of a program: nothing, a
\* control that is active comes to its end, or one that is complete goes.
LEMMA ClockMoves ==
  ASSUME FreshInv, Clock, NEW p \in Program
  PROVE  /\ UNCHANGED <<ctl, derc>> /\ opened \subseteq opened'
         /\ \A o \in Obj : status[o] = "Complete" => status'[o] = "Complete"
         /\ \/ derca'[p] = derca[p]
            \/ /\ p \in opened' /\ hand \in Obj \ Listed(p)
               /\ status[hand] = "Active" /\ derca'[p] = Append(derca[p], hand)
            \/ /\ hand \in Listed(p) /\ status'[hand] = "Complete"
               /\ derca'[p] = RemoveChild(derca[p], hand)
<1> USE DEF FreshInv
<1>1. CASE Tick \/ EnterProgram \/ EndPass \/ TakeControl \/ EndProgram
  BY <1>1 DEF Tick, EnterProgram, EndPass, TakeControl, EndProgram, store
<1>2. CASE HandleEvent
  <2>1. hand \in Obj /\ status \in [Obj -> Status]
    BY <1>2 DEF HandleEvent, InStep, TypeOK
  <2>2. status' = [status EXCEPT ![hand] = "Complete"]
          \/ \E s : status' = [status EXCEPT ![hand] = s]
                      /\ (status[hand] = "Complete" => s = "Complete")
    BY <1>2 DEF HandleEvent, Open, Close, Pass, Raise, Classified
  <2>3. \A o \in Obj : status[o] = "Complete" => status'[o] = "Complete"
    BY <2>1, <2>2
  <2> QED BY <1>2, <2>3 DEF HandleEvent
<1>3. CASE AddActive
  <2>1. /\ prog \in Program /\ hand \in Obj /\ hand \in InProgram(prog)
        /\ status[hand] = "Active" /\ derca \in [Program -> Seq(Obj)]
        /\ Listed(prog) \subseteq InProgram(prog)
    BY <1>3 DEF AddActive, InStep, Hand, TypeOK, Actives
  <2>2. \A x \in Listed(prog) : href[x] = href[hand] => x = hand
    BY <2>1, SameHref
  <2>3. \/ AddReplaceChild(derca[prog], hand, href) = derca[prog]
        \/ hand \notin Listed(prog)
             /\ AddReplaceChild(derca[prog], hand, href) = Append(derca[prog], hand)
    BY <2>1, <2>2, AddReplaceChildSame DEF Listed
  <2>4. derca' = [derca EXCEPT ![prog] = AddReplaceChild(derca[prog], hand, href)]
    BY <1>3 DEF AddActive
  <2>5. UNCHANGED <<ctl, derc, status>> /\ opened' = opened \cup {prog}
    BY <1>3 DEF AddActive
  <2> QED BY <2>1, <2>3, <2>4, <2>5
<1>4. CASE RemoveActive
  <2>1. /\ prog \in Program /\ hand \in Listed(prog) /\ status[hand] = "Complete"
        /\ derca \in [Program -> Seq(Obj)]
    BY <1>4 DEF RemoveActive, InStep, Hand, TypeOK
  <2>2. derca' = [derca EXCEPT ![prog] = RemoveChild(derca[prog], hand)]
    BY <1>4, <2>1 DEF RemoveActive, Listed
  <2>3. UNCHANGED <<ctl, derc, status, opened>>
    BY <1>4 DEF RemoveActive
  <2> QED BY <2>1, <2>2, <2>3
<1> QED BY <1>1, <1>2, <1>3, <1>4 DEF Clock

\* However the list moves, what the iterator has written stays behind it.
LEMMA ClockBehind ==
  ASSUME FreshInv, Clock, UNCHANGED at, at \in Nat,
         NEW p \in Program, NEW o \in Obj, Behind(p, o)
  PROVE  Behind(p, o)'
<1> DEFINE old == derca[p]
           new == derca'[p]
<1>1. UNCHANGED <<ctl, derc>> /\ (status[o] = "Complete" => status'[o] = "Complete")
  BY ClockMoves
<1>2. /\ o \in InProgram(p)' /\ HasInterval(o)'
  BY <1>1 DEF Behind, InProgram, HasInterval
<1>3. old \in Seq(Obj) /\ Len(old) \in Nat /\ DOMAIN old = 1 .. Len(old)
  BY LenProperties DEF FreshInv, TypeOK
<1>4. \A k \in 1 .. Len(old) : old[k] = o => k < at
  BY <1>3 DEF Behind
<1>5. o \in Members(old) \/ status[o] = "Complete"
  BY DEF Behind, Listed
<1>6. (o \in Members(new) \/ status'[o] = "Complete") /\ \A k \in DOMAIN new : new[k] = o => k < at
  <2>1. CASE new = old
    BY <1>1, <1>3, <1>4, <1>5, <2>1
  <2>2. CASE hand \in Obj \ Listed(p) /\ status[hand] = "Active" /\ new = Append(old, hand)
    <3>1. /\ Members(new) = Members(old) \cup {hand}
          /\ DOMAIN new = 1 .. Len(old) + 1 /\ new[Len(old) + 1] = hand
          /\ \A k \in 1 .. Len(old) : new[k] = old[k]
      BY <1>3, <2>2, AppendMembers, AppendProperties, LenProperties
    <3>2. o # hand
      BY <1>5, <2>2 DEF Listed
    <3> QED BY <1>1, <1>3, <1>4, <1>5, <3>1, <3>2
  <2>3. CASE hand \in Listed(p) /\ status'[hand] = "Complete" /\ new = RemoveChild(old, hand)
    <3> HIDE DEF old, new
    <3>0. hand \in Members(old)
      BY <2>3 DEF Listed, old
    <3>1. PICK i \in 1 .. Len(old) :
            /\ old[i] = hand
            /\ new \in Seq(Obj)
            /\ Len(new) = Len(old) - 1
            /\ \A k \in 1 .. Len(old) - 1 : new[k] = IF k < i THEN old[k] ELSE old[k + 1]
      <4>1. \E i \in 1 .. Len(old) :
              /\ old[i] = hand
              /\ RemoveChild(old, hand) \in Seq(Obj)
              /\ Len(RemoveChild(old, hand)) = Len(old) - 1
              /\ \A k \in 1 .. Len(old) - 1 :
                   RemoveChild(old, hand)[k] = IF k < i THEN old[k] ELSE old[k + 1]
        BY <1>3, <3>0, RemoveChildShifts, ZenonT(30)
      <4> QED BY <2>3, <4>1
    <3>2. Members(new) = Members(old) \ {hand}
      <4>1. Distinct(old, href)
        BY DEF FreshInv, Actives, old
      <4> QED BY <1>3, <2>3, <3>0, <4>1, RemoveChildSeq
    <3>3. DOMAIN new = 1 .. Len(old) - 1
      BY <3>1, LenProperties
    <3>4. ASSUME NEW k \in 1 .. Len(old) - 1, new[k] = o PROVE k < at
      <4>1. k \in 1 .. Len(old) /\ k + 1 \in 1 .. Len(old)
        BY <1>3
      <4>2. old[k] = o \/ old[k + 1] = o
        BY <3>1, <3>4
      <4> QED BY <1>3, <1>4, <4>1, <4>2
    <3> QED BY <1>1, <1>5, <2>3, <3>2, <3>3, <3>4
  <2> QED BY <2>1, <2>2, <2>3, ClockMoves
<1> QED BY <1>2, <1>6 DEF Behind, Listed

LEMMA AnsweredObj ==
  ASSUME ReadTypes
  PROVE  /\ Answered \subseteq Obj
         /\ DOMAIN answer = 1 .. Len(answer) /\ Len(answer) \in Nat
<1>1. answer \in Seq(Obj) /\ DOMAIN answer = 1 .. Len(answer) /\ Len(answer) \in Nat
  BY LenProperties DEF ReadTypes
<1>2. \A i \in DOMAIN answer : answer[i] \in Obj
  BY <1>1, ElementOfSeq
<1> QED BY <1>1, <1>2 DEF Answered

LEMMA HandedOutStep ==
  ASSUME FreshInv, ReadTypes, HandedOut, [ReadNext]_allVars
  PROVE  HandedOut'
<1>1. CASE ClockStep
  <2>1. Clock /\ UNCHANGED <<reading, at, answer>>
    BY <1>1 DEF ClockStep
  <2>2. Answered' = Answered /\ at \in Nat
    BY <2>1 DEF Answered, ReadTypes
  <2>3. ASSUME NEW o \in Answered PROVE Behind(reading, o)'
    <3>1. reading \in Program
      <4>1. reading # NoProgram
        BY DEF HandedOut, Answered
      <4> QED BY <4>1 DEF ReadTypes
    <3>2. PICK p \in Program : p = reading
      BY <3>1
    <3>3. o \in Obj /\ Behind(p, o)
      BY <3>2, AnsweredObj DEF HandedOut
    <3>4. Behind(p, o)'
      BY <2>1, <2>2, <3>3, ClockBehind
    <3>5. reading' = p
      BY <2>1, <3>2
    <3> QED BY <3>4, <3>5 DEF Behind, InProgram, Listed
  <2> QED BY <2>1, <2>2, <2>3 DEF HandedOut
<1>2. CASE PostStep \/ FinishRead \/ \E p \in Program : StartRead(p)
  <2>1. answer' = <<>>
    BY <1>2 DEF PostStep, readVars, HandedOut, FinishRead, StartRead
  <2> QED BY <2>1 DEF HandedOut, Answered
<1>3. CASE TakeItem
  <2> DEFINE o == derca[reading][at]
             n == Len(answer)
  <2>1. /\ answer' \in Seq(Obj) /\ Len(answer') = n + 1
        /\ answer'[n + 1] = o
        /\ \A i \in 1 .. n : answer'[i] = answer[i]
        /\ n \in Nat
    BY <1>3, TakeItemHands
  <2>2. DOMAIN answer' = 1 .. n + 1 /\ DOMAIN answer = 1 .. n
    BY <2>1, LenProperties, AnsweredObj
  <2>3. UNCHANGED <<vars, reading>> /\ at' = at + 1 /\ at \in Nat
    BY <1>3 DEF TakeItem, ReadTypes
  <2>4. /\ reading \in Program /\ derca[reading] \in Seq(Obj) /\ at \in DOMAIN derca[reading]
        /\ o \in Listed(reading) /\ o \in InProgram(reading) /\ HasInterval(o)
    BY <1>3, ItemRead DEF TakeItem
  <2>5. o \notin Answered
    BY <2>3, <2>4 DEF HandedOut, Behind
  <2>6. Answered' = Answered \cup {o}
    <3>1. ASSUME NEW x PROVE x \in Answered' <=> x \in Answered \cup {o}
      <4>1. x \in Answered' <=> \E i \in 1 .. n + 1 : answer'[i] = x
        BY <2>2 DEF Answered
      <4>2. x \in Answered <=> \E i \in 1 .. n : answer[i] = x
        BY <2>2 DEF Answered
      <4>3. answer'[n + 1] = o
        BY <2>1
      <4> QED BY <2>1, <4>1, <4>2, <4>3
    <3> QED BY <3>1
  <2>7. \A k \in DOMAIN derca[reading] : derca[reading][k] = o => k = at
    BY <2>4 DEF FreshInv, Actives, Distinct
  <2> HIDE DEF o, n
  <2>8. ASSUME NEW x \in Answered \cup {o} PROVE Behind(reading, x)'
    <3>1. UNCHANGED <<ctl, status, derc, derca, reading>>
      BY <2>3 DEF vars
    <3>2. \A k \in DOMAIN derca[reading] : derca[reading][k] = x => k < at + 1
      <4>1. \A k \in DOMAIN derca[reading] : k \in Nat
        BY <2>4, LenProperties
      <4>2. CASE x \in Answered
        BY <2>3, <4>1, <4>2 DEF HandedOut, Behind
      <4>3. CASE x = o
        BY <2>3, <2>7, <4>3
      <4> QED BY <4>2, <4>3
    <3>3. x \in InProgram(reading) /\ HasInterval(x) /\ (x \in Listed(reading) \/ status[x] = "Complete")
      BY <2>4 DEF HandedOut, Behind
    <3> QED BY <2>3, <3>1, <3>2, <3>3 DEF Behind, InProgram, HasInterval, Listed
  <2>9. ASSUME NEW i \in 1 .. n + 1, NEW j \in 1 .. n + 1,
               answer'[i] = answer'[j]
        PROVE  i = j
    <3>1. answer'[n + 1] = o
      BY <2>1
    <3>2. \A k \in 1 .. n : answer'[k] # o /\ answer'[k] = answer[k]
      BY <2>1, <2>2, <2>5 DEF Answered
    <3>3. CASE i = n + 1 \/ j = n + 1
      BY <2>1, <2>9, <3>1, <3>2, <3>3
    <3>4. CASE i \in 1 .. n /\ j \in 1 .. n
      BY <2>2, <2>9, <3>2, <3>4 DEF HandedOut
    <3> QED BY <2>1, <3>3, <3>4
  <2>10. reading' # NoProgram
    BY <2>3, <2>4, NoProgramAssumption
  <2> QED BY <2>2, <2>6, <2>8, <2>9, <2>10 DEF HandedOut
<1>4. CASE WriteItem \/ UNCHANGED allVars
  BY <1>4 DEF WriteItem, allVars, vars, readVars, HandedOut, Answered, Behind, InProgram, Listed,
              HasInterval
<1> QED BY <1>1, <1>2, <1>3, <1>4 DEF ReadNext

\* What was written stays so; what is written is read off a control that was
\* listed when it was handed out, and has only been taken off since.
LEMMA ToldStep ==
  ASSUME FreshInv, ReadTypes, HandedOut, ToldInv, [ReadNext]_allVars
  PROVE  ToldInv'
<1>1. CASE ClockStep
  <2>1. Clock /\ UNCHANGED <<answer, told>>
    BY <1>1 DEF ClockStep
  <2>2. ASSUME NEW i \in DOMAIN told, status[answer[i]] = "Complete"
        PROVE  status'[answer[i]] = "Complete"
    <3>1. /\ DOMAIN told = 1 .. Len(told) /\ Len(told) \in Nat
          /\ answer \in Seq(Obj) /\ DOMAIN answer = 1 .. Len(answer) /\ Len(answer) \in Nat
      BY LenProperties DEF ReadTypes
    <3>2. i \in DOMAIN answer
      BY ToldAndAnswer
    <3>3. answer[i] \in Obj
      BY <3>1, <3>2, ElementOfSeq
    <3>4. PICK p \in Program : TRUE
      BY ProgramAssumption DEF Program
    <3> QED BY <2>1, <2>2, <3>3, <3>4, ClockMoves
  <2> QED BY <2>1, <2>2 DEF ToldInv
<1>2. CASE PostStep \/ FinishRead \/ \E p \in Program : StartRead(p)
  <2>1. told' = <<>>
    <3>1. ASSUME reading = NoProgram PROVE told = <<>>
      <4>1. answer = <<>>
        BY <3>1 DEF HandedOut
      <4>2. Len(told) \in Nat /\ Len(told) \in {0, -1}
        BY <4>1, LenProperties DEF ReadTypes
      <4> QED BY <4>2, EmptySeq DEF ReadTypes
    <3> QED BY <1>2, <3>1 DEF PostStep, readVars, FinishRead, StartRead
  <2> QED BY <2>1 DEF ToldInv
<1>3. CASE TakeItem
  <2>1. /\ UNCHANGED <<told, status>> /\ Len(told) = Len(answer)
        /\ \A i \in 1 .. Len(answer) : answer'[i] = answer[i]
    BY <1>3, TakeItemHands DEF TakeItem, Written, vars
  <2>2. DOMAIN told = 1 .. Len(told)
    BY LenProperties DEF ReadTypes
  <2> QED BY <2>1, <2>2 DEF ToldInv
<1>4. CASE WriteItem
  <2> DEFINE n == Len(told)
             o == answer[n + 1]
  <2>1. /\ n + 1 \in DOMAIN answer /\ o \in Obj /\ n \in Nat
        /\ DOMAIN told' = 1 .. n + 1 /\ DOMAIN told = 1 .. n
        /\ told'[n + 1] = status[o]
        /\ \A i \in 1 .. n : told'[i] = told[i]
        /\ UNCHANGED <<status, answer>>
    BY <1>4, WriteItemTells DEF WriteItem, vars
  <2>2. o \in Answered
    BY <2>1 DEF Answered
  <2>3. reading \in Program
    BY <2>2 DEF HandedOut, Answered, ReadTypes
  <2>4. status[o] = "Active" \/ status[o] = "Complete"
    <3>1. o \in Listed(reading) \/ status[o] = "Complete"
      BY <2>2 DEF HandedOut, Behind
    <3>2. CASE o \in Listed(reading) /\ o \notin InHand
      BY <2>1, <2>3, <3>2 DEF FreshInv, Agreement
    <3>3. CASE o \in InHand
      BY <3>3 DEF FreshInv, Hand, InHand
    <3> QED BY <3>1, <3>2, <3>3
  <2> HIDE DEF n, o
  <2>5. ASSUME NEW i \in DOMAIN told'
        PROVE  told'[i] = "Active" \/ (told'[i] = "Complete" /\ status[answer[i]] = "Complete")
    <3>1. CASE i = n + 1
      BY <2>1, <2>4, <3>1 DEF o
    <3>2. CASE i \in 1 .. n
      BY <2>1, <3>2 DEF ToldInv
    <3> QED BY <2>1, <3>1, <3>2
  <2> QED BY <2>1, <2>5 DEF ToldInv
<1>5. CASE UNCHANGED allVars
  BY <1>5 DEF allVars, vars, readVars, ToldInv
<1> QED BY <1>1, <1>2, <1>3, <1>4, <1>5 DEF ReadNext

\* Where nothing is passed that was not before, nothing more is missed.
LEMMA FewerMissed ==
  ASSUME NEW S, NEW T, NEW n \in Nat, IsFiniteSet(S), Cardinality(S) <= n, T \subseteq S
  PROVE  IsFiniteSet(T) /\ Cardinality(T) <= n
<1>1. T \in SUBSET S
  OBVIOUS
<1>2. IsFiniteSet(T) /\ Cardinality(T) <= Cardinality(S)
  BY <1>1, FS_Subset
<1>3. Cardinality(S) \in Nat /\ Cardinality(T) \in Nat
  BY <1>2, FS_CardinalityType
<1> QED BY <1>2, <1>3

LEMMA OneMoreMissed ==
  ASSUME NEW S, NEW T, NEW x, NEW n \in Nat, IsFiniteSet(S), Cardinality(S) <= n,
         T \subseteq S \cup {x}
  PROVE  IsFiniteSet(T) /\ Cardinality(T) <= n + 1
<1>1. /\ IsFiniteSet(S \cup {x})
      /\ Cardinality(S \cup {x}) = IF x \in S THEN Cardinality(S) ELSE Cardinality(S) + 1
  BY FS_AddElement
<1>2. Cardinality(S) \in Nat
  BY FS_CardinalityType
<1>3. Cardinality(S \cup {x}) <= n + 1
  BY <1>1, <1>2
<1>4. n + 1 \in Nat
  OBVIOUS
<1> QED BY <1>1, <1>3, <1>4, FewerMissed

\* A control that comes to the end of the list, behind the iterator or not,
\* was not there when the read began.
LEMMA PassedAfterAdd ==
  ASSUME NEW list \in Seq(Obj), NEW o \in Obj, NEW n
  PROVE  Passed(Append(list, o), n) \subseteq Passed(list, n) \cup {o}
<1> DEFINE longer == Append(list, o)
<1>1. /\ longer \in Seq(Obj) /\ Len(longer) = Len(list) + 1 /\ longer[Len(list) + 1] = o
      /\ \A k \in 1 .. Len(list) : longer[k] = list[k]
  BY AppendProperties
<1> HIDE DEF longer
<1>2. /\ Len(list) \in Nat /\ DOMAIN list = 1 .. Len(list)
      /\ DOMAIN longer = 1 .. Len(list) + 1
  BY <1>1, LenProperties
<1>3. ASSUME NEW k \in DOMAIN longer, k < n
      PROVE  longer[k] \in Passed(list, n) \cup {o}
  <2>1. CASE k = Len(list) + 1
    BY <1>1, <2>1
  <2>2. CASE k \in DOMAIN list
    BY <1>1, <1>2, <1>3, <2>2 DEF Passed
  <2> QED BY <1>2, <2>1, <2>2
<1>4. \A x \in Passed(longer, n) : \E k \in DOMAIN longer : k < n /\ x = longer[k]
  BY DEF Passed
<1> QED BY <1>3, <1>4 DEF longer

\* A removal moves one control, that under the iterator, to behind it.
LEMMA PassedAfterRemove ==
  ASSUME NEW list \in Seq(Obj), NEW o \in Members(list), NEW n \in Nat
  PROVE  Passed(RemoveChild(list, o), n) \subseteq Passed(list, n) \cup {list[n]}
<1> DEFINE rest == RemoveChild(list, o)
<1>1. \E at0 \in 1 .. Len(list) :
        /\ list[at0] = o
        /\ rest \in Seq(Obj)
        /\ Len(rest) = Len(list) - 1
        /\ \A i \in 1 .. Len(list) - 1 : rest[i] = IF i < at0 THEN list[i] ELSE list[i + 1]
  BY RemoveChildShifts, ZenonT(30)
<1> HIDE DEF rest
<1>2. /\ Len(list) \in Nat /\ DOMAIN list = 1 .. Len(list)
      /\ rest \in Seq(Obj) /\ Len(rest) = Len(list) - 1
  BY <1>1, LenProperties
<1>3. DOMAIN rest = 1 .. Len(list) - 1
  BY <1>2, LenProperties
<1>4. ASSUME NEW k \in 1 .. Len(list) - 1, k < n
      PROVE  rest[k] \in Passed(list, n) \cup {list[n]}
  <2>1. rest[k] = list[k] \/ rest[k] = list[k + 1]
    BY <1>1
  <2>2. k \in DOMAIN list /\ k + 1 \in DOMAIN list
    BY <1>2
  <2>3. list[k] \in Passed(list, n)
    BY <1>4, <2>2 DEF Passed
  <2>4. k + 1 = n \/ k + 1 < n
    BY <1>4
  <2>5. list[k + 1] \in Passed(list, n) \cup {list[n]}
    BY <2>2, <2>4 DEF Passed
  <2> QED BY <2>1, <2>3, <2>5
<1>5. \A x \in Passed(rest, n) : \E k \in DOMAIN rest : k < n /\ x = rest[k]
  BY DEF Passed
<1> QED BY <1>3, <1>4, <1>5 DEF rest

LEMMA MissesStep ==
  ASSUME FreshInv, ReadTypes, Misses, [ReadNext]_allVars
  PROVE  Misses'
<1>1. CASE ClockStep
  <2>1. Clock /\ UNCHANGED <<reading, at, stored, answer>>
    BY <1>1 DEF ClockStep
  <2>2. \A p \in Program \ opened' : derca'[p] = <<>>
    <3> SUFFICES ASSUME NEW p \in Program, p \notin opened' PROVE derca'[p] = <<>>
      OBVIOUS
    <3>1. p \notin opened
      BY <2>1, ClockMoves
    <3>2. derca[p] = <<>>
      BY <3>1 DEF Misses
    <3>3. Listed(p) = {}
      BY <3>2 DEF Listed, Members
    <3>4. derca'[p] = derca[p]
      BY <2>1, <3>3, ClockMoves
    <3> QED BY <3>2, <3>4
  <2>3. Answered' = Answered /\ at \in Nat
    BY <2>1 DEF Answered, ReadTypes
  <2>4. ASSUME reading # NoProgram
        PROVE  /\ steady' \subseteq Members(derca'[reading])
               /\ ~stored => steady' = {}
               /\ IsFiniteSet((steady' \ Answered) \cap Passed(derca'[reading], at))
               /\ Cardinality((steady' \ Answered) \cap Passed(derca'[reading], at)) <= removals'
    <3> DEFINE old == derca[reading]
               new == derca'[reading]
               before == (steady \ Answered) \cap Passed(old, at)
               after == (steady' \ Answered) \cap Passed(new, at)
    <3>1. reading \in Program /\ old \in Seq(Obj) /\ Len(old) \in Nat
      BY <2>4, LenProperties DEF ReadTypes, FreshInv, TypeOK
    <3>2. /\ steady' = steady \cap Members(new)
          /\ removals' = IF Len(new) < Len(old) THEN removals + 1 ELSE removals
      BY <1>1, <2>4 DEF ClockStep
    <3>3. /\ steady \subseteq Members(old) /\ (~stored => steady = {})
          /\ IsFiniteSet(before) /\ Cardinality(before) <= removals /\ removals \in Nat
      BY <2>4 DEF Misses, Missed, ReadTypes, Listed
    <3>4. steady' \subseteq Members(new) /\ (~stored => steady' = {})
      BY <3>2, <3>3
    <3>5. \/ new = old
          \/ hand \in Obj \ Members(old) /\ new = Append(old, hand)
          \/ hand \in Members(old) /\ new = RemoveChild(old, hand)
      BY <2>1, <3>1, ClockMoves DEF Listed
    <3> HIDE DEF old, new
    <3>6. IsFiniteSet(after) /\ Cardinality(after) <= removals'
      <4>1. CASE new = old
        <5>1. removals' = removals
          BY <3>1, <3>2, <4>1
        <5>2. after \subseteq before
          BY <3>2, <4>1
        <5> QED BY <3>3, <5>1, <5>2, FewerMissed
      <4>2. CASE hand \in Obj \ Members(old) /\ new = Append(old, hand)
        <5>1. Len(new) = Len(old) + 1
          BY <3>1, <4>2, AppendProperties
        <5>2. removals' = removals
          BY <3>1, <3>2, <5>1
        <5>3. Passed(new, at) \subseteq Passed(old, at) \cup {hand}
          BY <3>1, <4>2, PassedAfterAdd
        <5>4. after \subseteq before
          BY <3>2, <3>3, <4>2, <5>3
        <5> QED BY <3>3, <5>2, <5>4, FewerMissed
      <4>3. CASE hand \in Members(old) /\ new = RemoveChild(old, hand)
        <5>1. Len(new) = Len(old) - 1
          <6>1. Len(RemoveChild(old, hand)) = Len(old) - 1
            BY <3>1, <4>3, RemoveChildShifts
          <6> QED BY <4>3, <6>1
        <5>2. removals' = removals + 1
          BY <3>1, <3>2, <5>1
        <5>3. Passed(new, at) \subseteq Passed(old, at) \cup {old[at]}
          BY <2>3, <3>1, <4>3, PassedAfterRemove
        <5>4. after \subseteq before \cup {old[at]}
          BY <3>2, <5>3
        <5> HIDE DEF before, after
        <5> QED BY <3>3, <5>2, <5>4, OneMoreMissed
      <4> QED BY <3>5, <4>1, <4>2, <4>3
    <3> QED BY <3>4, <3>6 DEF old, new
  <2> QED BY <2>1, <2>2, <2>3, <2>4 DEF Misses, Missed, Listed
<1>2. CASE PostStep \/ FinishRead
  <2>1. CASE PostStep
    <3>1. reading' = NoProgram
      BY <2>1 DEF PostStep, readVars
    <3>2. UNCHANGED <<derca, opened>>
      BY <2>1 DEF PostStep, PostControl, ReplaceControl, AddControl
    <3> QED BY <3>1, <3>2 DEF Misses
  <2>2. CASE FinishRead
    <3>1. reading' = NoProgram /\ UNCHANGED <<derca, opened>>
      BY <2>2 DEF FinishRead, vars
    <3> QED BY <3>1 DEF Misses
  <2> QED BY <1>2, <2>1, <2>2
<1>3. ASSUME NEW p \in Program, StartRead(p)
      PROVE  Misses'
  <2>1. UNCHANGED <<derca, opened>> /\ reading' = p /\ at' = 1 /\ removals' = 0
        /\ steady' = Members(derca[p]) /\ stored' = (p \in opened)
    BY <1>3 DEF StartRead, vars
  <2>2. ~stored' => steady' = {}
    <3>1. p \notin opened => derca[p] = <<>>
      BY DEF Misses
    <3>2. derca[p] = <<>> => steady' = {}
      BY <2>1 DEF Members
    <3>3. ~stored' => p \notin opened
      BY <1>3, Zenon DEF StartRead
    <3> QED BY <3>1, <3>2, <3>3
  <2>3. derca[p] \in Seq(Obj)
    BY DEF FreshInv, TypeOK
  <2>4. Passed(derca[p], 1) = {}
    BY <2>3, LenProperties DEF Passed
  <2>5. Missed' = {}
    BY <2>1, <2>4 DEF Missed
  <2>6. IsFiniteSet(Missed') /\ Cardinality(Missed') <= removals'
    BY <2>1, <2>5, FS_EmptySet
  <2> QED BY <2>1, <2>2, <2>6 DEF Misses, Listed
<1>4. CASE TakeItem
  <2> DEFINE o == derca[reading][at]
  <2>1. UNCHANGED <<vars, reading, stored, steady, removals>> /\ at' = at + 1 /\ at \in Nat
    BY <1>4 DEF TakeItem, ReadTypes
  <2>2. UNCHANGED <<derca, opened>>
    BY <2>1 DEF vars
  <2>3. /\ reading \in Program /\ derca[reading] \in Seq(Obj) /\ at \in DOMAIN derca[reading]
    BY <1>4, ItemRead DEF TakeItem
  <2>4. Answered \subseteq Answered' /\ o \in Answered'
    <3>1. /\ answer' \in Seq(Obj) /\ Len(answer') = Len(answer) + 1
          /\ answer'[Len(answer) + 1] = o
          /\ \A i \in 1 .. Len(answer) : answer'[i] = answer[i]
          /\ Len(answer) \in Nat
      BY <1>4, TakeItemHands
    <3>2. DOMAIN answer' = 1 .. Len(answer) + 1 /\ DOMAIN answer = 1 .. Len(answer)
      BY <3>1, LenProperties, AnsweredObj
    <3> QED BY <3>1, <3>2 DEF Answered
  <2>5. Passed(derca[reading], at + 1) \subseteq Passed(derca[reading], at) \cup {o}
    <3>1. \A k \in DOMAIN derca[reading] : k < at + 1 => k < at \/ k = at
      BY <2>1, <2>3, LenProperties
    <3> QED BY <3>1 DEF Passed
  <2>6. Missed' \subseteq Missed
    BY <2>1, <2>2, <2>4, <2>5 DEF Missed
  <2>7. reading # NoProgram
    BY <2>3, NoProgramAssumption
  <2>8. IsFiniteSet(Missed') /\ Cardinality(Missed') <= removals
    BY <2>6, <2>7, FewerMissed DEF Misses, ReadTypes
  <2> QED BY <2>1, <2>2, <2>8 DEF Misses, Listed
<1>5. CASE WriteItem \/ UNCHANGED allVars
  BY <1>5 DEF WriteItem, allVars, vars, readVars, Misses, Missed, Answered, Listed
<1> QED BY <1>1, <1>2, <1>3, <1>4, <1>5 DEF ReadNext

LEMMA ReadInvariant == ~Replacing => (ReadSpec => []ReadInv)
<1> SUFFICES ASSUME ~Replacing PROVE ReadSpec => []ReadInv
  OBVIOUS
<1>1. ReadInit => ReadInv
  <2> SUFFICES ASSUME ReadInit PROVE ReadInv
    OBVIOUS
  <2>1. FreshInv /\ ReadTypes
    BY FreshInit, ReadTypesInit DEF ReadInit
  <2>2. answer = <<>> /\ told = <<>> /\ reading = NoProgram /\ \A p \in Program : derca[p] = <<>>
    BY DEF ReadInit, Init
  <2> QED BY <2>1, <2>2 DEF ReadInv, HandedOut, Misses, Answered, ToldInv
<1>2. ReadInv /\ [ReadNext]_allVars => ReadInv'
  BY ReadStepIsStep, StepFresh, ReadTypesStep, HandedOutStep, MissesStep, ToldStep DEF ReadInv
<1> QED BY <1>1, <1>2, PTL DEF ReadSpec

\* While the administrator only posts new events, no answer names an event
\* twice, under its identity or under its mRID (der.py 123, 130), however the
\* clock thread moves the list under the serializer.
THEOREM AnswersDistinct == ~Replacing => (ReadSpec => []AnswerDistinct)
<1>1. ReadInv => AnswerDistinct
  <2> SUFFICES ASSUME ReadInv, NEW i \in DOMAIN answer, NEW j \in DOMAIN answer,
                      mRID[answer[i]] = mRID[answer[j]]
               PROVE  i = j
    BY DEF AnswerDistinct
  <2> DEFINE o == answer[i]
             x == answer[j]
  <2>1. reading # NoProgram
    BY DEF ReadInv, HandedOut
  <2>2. reading \in Program
    BY <2>1 DEF ReadInv, ReadTypes
  <2>3. o \in Answered /\ x \in Answered
    BY DEF Answered
  <2>4. o \in InProgram(reading) /\ HasInterval(o) /\ x \in InProgram(reading) /\ HasInterval(x)
    BY <2>3 DEF ReadInv, HandedOut, Behind
  <2>5. o = x
    BY <2>2, <2>4 DEF ReadInv, FreshInv, Lists
  <2> QED BY <2>5 DEF ReadInv, HandedOut
<1> QED BY <1>1, ReadInvariant, PTL

\* While the administrator only posts new events, an answer misses at most one
\* control that was active all the time for every control the clock thread
\* took off the list meanwhile (der.py 130), and none if it took off none.
THEOREM MissesAreRemovals == ~Replacing => (ReadSpec => []MissedOnlyByRemovals)
<1>1. ReadInv => MissedOnlyByRemovals
  <2> SUFFICES ASSUME ReadInv, Read
               PROVE  Cardinality(steady \ Answered) <= removals
    BY DEF MissedOnlyByRemovals
  <2>1. /\ steady \subseteq Listed(reading) /\ (~stored => steady = {})
        /\ Cardinality(Missed) <= removals
    BY DEF Read, ReadInv, Misses
  <2>2. reading \in Program /\ derca[reading] \in Seq(Obj) /\ at \in Nat /\ removals \in Nat
    BY DEF Read, ReadInv, ReadTypes, FreshInv, TypeOK
  <2>3. CASE ~stored
    <3>1. steady \ Answered = {}
      BY <2>1, <2>3
    <3>2. Cardinality(steady \ Answered) = 0
      BY <3>1, FS_EmptySet
    <3> QED BY <2>2, <3>2
  <2>4. CASE stored
    <3>1. DOMAIN derca[reading] = 1 .. Len(derca[reading]) /\ Len(derca[reading]) \in Nat
      BY <2>2, LenProperties
    <3>2. at > Len(derca[reading])
      BY <2>2, <2>4, <3>1 DEF Read, Remaining
    <3>3. \A k \in DOMAIN derca[reading] : k < at
      BY <2>2, <3>1, <3>2
    <3>4. Listed(reading) \subseteq Passed(derca[reading], at)
      BY <3>3 DEF Listed, Members, Passed
    <3>5. steady \ Answered = Missed
      BY <2>1, <3>4 DEF Missed
    <3> QED BY <2>1, <3>5
  <2> QED BY <2>3, <2>4
<1> QED BY <1>1, ReadInvariant, PTL

\* While the administrator only posts new events, the status written for a
\* control is Active, or -1 of a control that is over and off the list, or in the
\* instant of being taken off it (der.py 128-130), however many walks come
\* between the iterator and the writing.
THEOREM ToldIsTrue == ~Replacing => (ReadSpec => []ToldTrue)
<1>1. ReadInv => ToldTrue
  <2> SUFFICES ASSUME ReadInv, NEW i \in DOMAIN told, told[i] # "Active"
               PROVE  /\ told[i] = "Complete" /\ Over(answer[i])
                      /\ answer[i] \in Listed(reading) => answer[i] \in InHand
    BY DEF ToldTrue
  <2> DEFINE o == answer[i]
  <2>1. told[i] = "Complete" /\ status[o] = "Complete"
    BY DEF ReadInv, ToldInv
  <2>3. i \in DOMAIN answer
    BY ToldAndAnswer DEF ReadInv
  <2>4. o \in Answered
    BY <2>3 DEF Answered
  <2>5. o \in Obj /\ reading \in Program
    BY <2>4, AnsweredObj DEF ReadInv, HandedOut, Answered, ReadTypes
  <2>6. Over(o)
    BY <2>1, <2>5 DEF ReadInv, FreshInv, Statuses
  <2>7. o \in Listed(reading) => o \in InHand
    BY <2>1, <2>5 DEF ReadInv, FreshInv, Agreement
  <2> QED BY <2>1, <2>6, <2>7
<1> QED BY <1>1, ReadInvariant, PTL
=============================================================================
