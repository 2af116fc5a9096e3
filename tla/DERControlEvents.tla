-------------------------- MODULE DERControlEvents --------------------------
(***************************************************************************)
(* The life of a DERControl: the administrator posts it into a program     *)
(* (server/admin_endpoints.py, request thread) and the clock thread        *)
(* (adapters/timeadapter.py) walks every program once a tick, classifies   *)
(* each control, and puts it on or takes it off the program's list of      *)
(* active controls (adapters/der.py, time_updated).  Flask serves one      *)
(* request at a time, so there are exactly two actors; they share the      *)
(* lists and nothing locks them.                                           *)
(*                                                                         *)
(* A Python object is an element of Obj.  Its data (ctl) never changes     *)
(* once it is in a list, its EventStatus (status) does.                    *)
(***************************************************************************)
EXTENDS Integers, Sequences, Adapters

CONSTANTS
  Obj,            \* identities of DERControl objects
  NumPrograms,    \* programs of the configuration, walked in order
  MRID,           \* mRIDs a posted control may carry ...
  NoMRID,         \* ... or none at all, as every configured control
  PostHref,       \* hrefs a posted control may name itself
  NoHref,         \* a posted control without href
  Interval,       \* the intervals posted, [start, duration]
  NoInterval,     \* a control without interval
  NoTime,         \* an interval's start or duration, when it is left out
  PostStatus,     \* EventStatus values a posted control may arrive with
  Configured,     \* per program, the controls it gets at start-up
  ConfiguredHref, \* their hrefs
  NoObj,          \* no control in hand
  MaxSkip,        \* most seconds between two ticks (the thread may oversleep)
  Horizon,        \* later instants are not told apart: every interval is over
  Replacing       \* FALSE: the administrator only posts events that are new

VARIABLES
  now,    \* the second last announced by the clock thread
  ctl,    \* object -> its mRID, href and interval
  status, \* object -> its EventStatus
  derc,   \* program -> controls, in order of arrival
  derca,  \* program -> controls offered to clients as active
  opened, \* programs whose active list has been created
  pc,     \* where the clock thread is in time_updated
  prog,   \* derp_index + 1
  cursor, \* position of the iterator over the program's controls
  hand,   \* ctrl, the object the iterator returned
  live    \* whether current_active is the stored list or a throw-away []

vars == <<now, ctl, status, derc, derca, opened, pc, prog, cursor, hand, live>>
clock == <<pc, prog, cursor, hand, live>>
store == <<ctl, status, derc, derca, opened>>

Program == 1 .. NumPrograms
Href == Nat \X Nat      \* <<program, n>>, or <<0, n>> for /der_derc_n
Window == [start : Nat, duration : Nat]
Time == Nat \cup {NoTime}
\* currentStatus None, 0, 1, -1; Cancelled stands for any other value a post can carry.
Status == {"None", "Scheduled", "Active", "Complete", "Cancelled"}
Control == [mRID : MRID \cup {NoMRID}, href : Href \cup {NoHref},
            interval : Interval \cup {NoInterval}]
Unwritten == [mRID |-> NoMRID, href |-> NoHref, interval |-> NoInterval]
Stages == {"sleep", "program", "control", "event", "add", "remove", "dead"}

ASSUME ProgramAssumption == NumPrograms \in Nat \ {0}
ASSUME ClockAssumption == MaxSkip \in Nat \ {0} /\ Horizon \in Nat
ASSUME WindowAssumption ==
  /\ Interval \subseteq [start : Time, duration : Time]
  /\ \A w \in Interval \cap Window : w.start + w.duration < Horizon
ASSUME PostAssumption ==
  /\ PostHref \subseteq Href
  /\ PostStatus \subseteq Status \ {"Complete"}
  /\ Replacing \in BOOLEAN
ASSUME NullAssumption ==
  /\ NoObj \notin Obj
  /\ NoMRID \notin MRID
  /\ NoHref \notin Href
  /\ NoTime \notin Nat
  /\ NoInterval \notin [start : Time, duration : Time]
\* Start-up numbers the configured controls and lists none twice in a program.
ASSUME ConfigurationAssumption ==
  /\ Configured \in [Program -> Seq(Obj)]
  /\ ConfiguredHref \in [Obj -> {0} \X Nat]
  /\ \A p \in Program : \A i, j \in DOMAIN Configured[p] :
       ConfiguredHref[Configured[p][i]] = ConfiguredHref[Configured[p][j]] => i = j
-----------------------------------------------------------------------------
href == [o \in Obj |-> ctl[o].href]
mRID == [o \in Obj |-> ctl[o].mRID]

\* Nothing checks that a posted interval has both its elements.
HasInterval(o) == ctl[o].interval \in Window
Incomplete(o) == ctl[o].interval # NoInterval /\ ~HasInterval(o)

\* Faults, for the mutants: an off-by-one in each of the tests.
InsideFromStart(o) ==
  /\ HasInterval(o)
  /\ now < ctl[o].interval.start + ctl[o].interval.duration
InsideShort(o) ==
  /\ HasInterval(o)
  /\ ctl[o].interval.start < now
  /\ now < ctl[o].interval.start + ctl[o].interval.duration - 1
PastLate(o) ==
  /\ HasInterval(o)
  /\ now > ctl[o].interval.start + ctl[o].interval.duration + 1

\* The tests of time_updated on ctrl.interval, at the announced second.
Inside(o) ==
  /\ HasInterval(o)
  /\ ctl[o].interval.start < now
  /\ now < ctl[o].interval.start + ctl[o].interval.duration
Past(o) ==
  /\ HasInterval(o)
  /\ now > ctl[o].interval.start + ctl[o].interval.duration

InConfiguration(o) == \E p \in Program : o \in Members(Configured[p])

\* What initialize_der_control_adapter and initialize_der_program_adapter
\* leave behind: configured controls have neither mRID nor interval.
Init ==
  /\ now = 0
  /\ ctl = [o \in Obj |-> IF InConfiguration(o)
                          THEN [Unwritten EXCEPT !.href = ConfiguredHref[o]]
                          ELSE Unwritten]
  /\ status = [o \in Obj |-> "None"]
  /\ derc = Configured
  /\ derca = [p \in Program |-> <<>>]
  /\ opened = {}
  /\ pc = "sleep" /\ prog = 1 /\ cursor = 1 /\ hand = NoObj /\ live = FALSE
-----------------------------------------------------------------------------
(* The clock thread. *)

\* run: sleep(1) separates two readings of the clock, so a second is never
\* announced twice, and may be passed over.
Later == {IF now + d < Horizon THEN now + d ELSE Horizon : d \in 1 .. MaxSkip}

Tick ==
  /\ pc = "sleep"
  /\ now' \in Later
  /\ pc' = "program" /\ prog' = 1
  /\ UNCHANGED <<store, cursor, hand, live>>

\* A program without controls is left at once; the active list is looked up
\* before the loop, and stands for a fresh [] when it does not exist yet.
EnterProgram ==
  /\ pc = "program" /\ prog <= NumPrograms
  /\ IF derc[prog] = <<>>
     THEN prog' = prog + 1 /\ UNCHANGED <<pc, cursor, live>>
     ELSE pc' = "control" /\ cursor' = 1 /\ live' = (prog \in opened) /\ UNCHANGED prog
  /\ UNCHANGED <<now, store, hand>>

EndPass ==
  /\ pc = "program" /\ prog > NumPrograms
  /\ pc' = "sleep" /\ prog' = 1 /\ cursor' = 1 /\ live' = FALSE
  /\ UNCHANGED <<now, store, hand>>

\* The iterator runs over the stored list itself: it meets what was replaced
\* or appended behind its back.
TakeControl ==
  /\ pc = "control" /\ cursor <= Len(derc[prog])
  /\ hand' = derc[prog][cursor]
  /\ cursor' = cursor + 1 /\ pc' = "event"
  /\ UNCHANGED <<now, store, prog, live>>

EndProgramSkipping == \* a fault: the next program is skipped
  /\ pc = "control" /\ cursor > Len(derc[prog])
  /\ prog' = prog + 2 /\ pc' = "program"
  /\ UNCHANGED <<now, store, cursor, hand, live>>

EndProgram ==
  /\ pc = "control" /\ cursor > Len(derc[prog])
  /\ prog' = prog + 1 /\ pc' = "program"
  /\ UNCHANGED <<now, store, cursor, hand, live>>

\* Faults: the upper bound, and the test for an earlier status, forgotten.
ClassifiedEager(o) ==
  IF status[o] # "None" THEN status[o]
  ELSE IF HasInterval(o) /\ ctl[o].interval.start < now
       THEN "Active" ELSE "Scheduled"
ClassifiedAgain(o) == IF Inside(o) THEN "Active" ELSE "Scheduled"

\* A control met for the first time is given a status.
Classified(o) ==
  IF status[o] # "None" THEN status[o]
  ELSE IF Inside(o) THEN "Active" ELSE "Scheduled"

CurrentActive == IF live THEN Members(derca[prog]) ELSE {}

NextControl == pc' = "control" /\ hand' = NoObj

Open ==
  /\ Inside(hand)
  /\ status' = [status EXCEPT ![hand] = IF Classified(hand) = "Scheduled"
                                         THEN "Active" ELSE Classified(hand)]
  /\ IF mRID[hand] \in {mRID[o] : o \in CurrentActive}
     THEN NextControl
     ELSE pc' = "add" /\ UNCHANGED hand

Close ==
  /\ Past(hand) /\ Classified(hand) = "Active"
  /\ status' = [status EXCEPT ![hand] = "Complete"]
  /\ pc' = "remove" /\ UNCHANGED hand

\* A comparison or a sum with None raises, at the latest in the test of the
\* end; the status is given before, if the start is there and not yet past.
Raise ==
  /\ Incomplete(hand)
  /\ LET start == ctl[hand].interval.start
     IN  status' = [status EXCEPT ![hand] =
           IF @ = "None" /\ start # NoTime /\ now <= start THEN "Scheduled" ELSE @]
  /\ pc' = "dead" /\ UNCHANGED hand

Pass ==
  /\ ~Incomplete(hand) /\ ~Inside(hand)
  /\ Past(hand) => Classified(hand) # "Active"
  /\ status' = [status EXCEPT ![hand] = Classified(hand)]
  /\ NextControl

HandleEvent ==
  /\ pc = "event"
  /\ Open \/ Close \/ Pass \/ Raise
  /\ UNCHANGED <<now, ctl, derc, derca, opened, prog, cursor, live>>

AddActive ==
  /\ pc = "add"
  /\ derca' = [derca EXCEPT ![prog] = AddReplaceChild(@, hand, href)]
  /\ opened' = opened \cup {prog}
  /\ NextControl
  /\ UNCHANGED <<now, ctl, status, derc, prog, cursor, live>>

\* list.remove compares the fields of the controls.  Only the control in hand
\* is Complete when it runs, so equality picks that object or none; with none
\* the ValueError leaves time_updated, and the clock thread with it.
RemoveActive ==
  /\ pc = "remove"
  /\ IF hand \in Members(derca[prog])
     THEN /\ derca' = [derca EXCEPT ![prog] = RemoveChild(@, hand)]
          /\ NextControl
     ELSE pc' = "dead" /\ UNCHANGED <<derca, hand>>
  /\ UNCHANGED <<now, ctl, status, derc, opened, prog, cursor, live>>

Clock == Tick \/ EnterProgram \/ EndPass \/ TakeControl \/ EndProgram
           \/ HandleEvent \/ AddActive \/ RemoveActive
-----------------------------------------------------------------------------
(* The request thread: POST /admin/derp/<p>/derc with a DERControl. *)

\* A Python object yet to be created: every control in a list has an href.
Unused(o) == ctl[o].href = NoHref

UnknownAlways(p, m) == {} \* a fault: the lookup finds nothing
Known(p, m) == Positions(derc[p], mRID, m)

Store(o, c, s, h) ==
  /\ ctl' = [ctl EXCEPT ![o] = [c EXCEPT !.href = h]]
  /\ status' = [status EXCEPT ![o] = s]

\* fetch_child_index_by_mrid found the mRID (None finds None): 204, and a
\* control without href inherits that of the control it replaces.
ReplaceControl(p, o, c, s) ==
  LET index == First(Known(p, c.mRID))
      h == IF c.href = NoHref THEN href[derc[p][index]] ELSE c.href
  IN  /\ Replacing
      /\ Unused(o)
      /\ Known(p, c.mRID) # {}
      /\ Store(o, c, s, h)
      /\ derc' = [derc EXCEPT ![p] = ReplaceChild(@, index, o)]
      /\ UNCHANGED <<now, derca, opened, clock>>

\* The mRID is unknown: 201, and add_replace_child makes up an href from the
\* length of the list, or replaces the control whose href is the same.
AddControl(p, o, c, s) ==
  LET h == IF c.href = NoHref THEN <<p, Len(derc[p])>> ELSE c.href
  IN  /\ Unused(o)
      /\ Known(p, c.mRID) = {}
      /\ ~Replacing => /\ Positions(derc[p], href, h) = {}
                       /\ s = "None"
      /\ Store(o, c, s, h)
      /\ derc' = [derc EXCEPT ![p] = AddReplaceChild(@, o, [href EXCEPT ![o] = h])]
      /\ UNCHANGED <<now, derca, opened, clock>>

Posted == [mRID : MRID \cup {NoMRID}, href : PostHref \cup {NoHref},
           interval : Interval \cup {NoInterval}]

PostControl ==
  \E p \in Program, o \in Obj, c \in Posted, s \in PostStatus :
    ReplaceControl(p, o, c, s) \/ AddControl(p, o, c, s)

Next == Clock \/ PostControl

Spec == Init /\ [][Next]_vars
\* The thread is a loop without blocking calls: while it lives it goes on.
FairSpec == Spec /\ WF_vars(Clock)
-----------------------------------------------------------------------------
(* Properties. *)

Listed(p) == Members(derca[p])
Used(o) == ~Unused(o)
\* The control whose status has changed and whose listing has not yet.
InHand == IF pc \in {"add", "remove"} THEN {hand} ELSE {}

TypeOK ==
  /\ now \in 0 .. Horizon
  /\ ctl \in [Obj -> Control]
  /\ status \in [Obj -> Status]
  /\ derc \in [Program -> Seq(Obj)]
  /\ derca \in [Program -> Seq(Obj)]
  /\ opened \subseteq Program
  /\ pc \in Stages
  /\ prog \in 1 .. NumPrograms + 1
  /\ cursor \in Nat \ {0}
  /\ hand \in Obj \cup {NoObj}
  /\ live \in BOOLEAN

\* The active list of a program holds exactly the controls of the program
\* whose status is Active, whatever the request thread does meanwhile (der.py
\* 115-130); only the control being moved at this instant may differ.
ActiveListed == \A p \in Program :
  Listed(p) \ InHand = {o \in Members(derc[p]) : status[o] = "Active"} \ InHand

\* While only new events are posted, nothing ends the clock thread of
\* timeadapter.py 21-26, which catches nothing, but an interval that was posted
\* without its start or duration (der.py 104, 115, 125): list.remove finds what
\* it is to take off (der.py 130).
DeathIsIncomplete == pc = "dead" => Incomplete(hand)

\* When a walk of time_updated over the programs is over, clients are offered
\* only controls that have started and have not expired, and all of those that
\* a walk has met; at the very last second of an interval it may be either.
Started(o) == HasInterval(o) /\ now > ctl[o].interval.start
Over(o) == HasInterval(o) /\ now > ctl[o].interval.start + ctl[o].interval.duration
Ending(o) == now = ctl[o].interval.start + ctl[o].interval.duration
PassIsExact == pc = "sleep" => \A p \in Program :
  /\ \A o \in Listed(p) : Started(o) /\ ~Over(o)
  /\ \A o \in Members(derc[p]) :
       Started(o) /\ ~Over(o) /\ ~Ending(o) /\ status[o] # "None" => o \in Listed(p)

\* The EventStatus of an object only goes None, Scheduled, Active, Complete
\* (der.py 101-129): no interleaving reopens an event that has been served.
Rank(s) == CASE s = "None" -> 0 [] s = "Scheduled" -> 1 [] s = "Active" -> 2
             [] s \in {"Complete", "Cancelled"} -> 3
StatusForward == [][\A o \in Obj : Used(o) => Rank(status'[o]) >= Rank(status[o])]_vars

\* A client never sees two controls of one program active under one mRID
\* even when controls are replaced under its feet (admin_endpoints.py 168-178).
OneListingPerMrid == \A p \in Program : \A o, x \in Listed(p) :
  mRID[o] = mRID[x] => o = x

\* A control the clock thread has marked -1, "for me this means complete"
\* (der.py 129), is not on offer any more under its mRID, except at the very
\* instant between the two assignments of der.py 129-130.
CompleteUnlisted == \A p \in Program : \A o \in Members(derc[p]) \ InHand :
  status[o] = "Complete" => mRID[o] \notin {mRID[x] : x \in Listed(p)}

\* The clock thread stops only on an interval without start or duration, or on
\* a control that was kept off the active list because a replaced control still
\* stands there under the same mRID.
DeathHasCause == pc = "dead" =>
  \/ Incomplete(hand)
  \/ \E o \in Listed(prog) \ {hand} : mRID[o] = mRID[hand] /\ o \notin Members(derc[prog])

\* An event that is on offer is eventually withdrawn, and complete, if the clock
\* thread does not meet an incomplete interval before.
Withdrawn == \A p \in Program, o \in Obj :
  o \in Listed(p) ~> ((o \notin Listed(p) /\ status[o] = "Complete") \/ pc = "dead")

\* An event posted before it starts is eventually on offer, when its interval
\* is longer than the clock thread may oversleep (both ends are tested strictly)
\* and the thread does not meet an incomplete interval before.
Announced(p, o) ==
  /\ o \in Members(derc[p]) /\ status[o] \in {"None", "Scheduled"}
  /\ HasInterval(o)
  /\ now <= ctl[o].interval.start /\ ctl[o].interval.duration > MaxSkip
Served == \A p \in Program, o \in Obj : Announced(p, o) ~> (o \in Listed(p) \/ pc = "dead")

\* What clients are promised about events, whoever the actors are.
Lifecycle == INSTANCE EventLifecycle WITH
  Event <- Obj,
  offered <- UNION {Listed(p) : p \in Program},
  ended <- {o \in Obj : status[o] = "Complete"} \ (UNION {Listed(p) : p \in Program}),
  interval <- [o \in Obj |-> IF HasInterval(o) THEN ctl[o].interval ELSE NoInterval]
LifecycleSpec == Lifecycle!Spec
=============================================================================
