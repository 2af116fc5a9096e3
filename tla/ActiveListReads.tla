-------------------------- MODULE ActiveListReads --------------------------
(***************************************************************************)
(* GET /derp_<p>_derca: the request thread answers with the active list of *)
(* a program (server/derfs.py, DERProgramRequests) while the clock thread  *)
(* of DERControlEvents adds to it and removes from it.  The container gets *)
(* the stored list itself (fetch_children), and the serializer iterates    *)
(* over that afterwards, lazily: it takes a control from the iterator and  *)
(* then writes its elements one by one, EventStatus among them.  The clock *)
(* thread may walk over the list in between; the counts all and results    *)
(* may be out of date by then.  Requests are served one at a time: nothing *)
(* is posted meanwhile.                                                    *)
(***************************************************************************)
EXTENDS DERControlEvents, FiniteSets

CONSTANT NoProgram \* no list is being read

VARIABLES
  reading,  \* the program whose active list is being written
  at,       \* position of the serializer's iterator
  stored,   \* whether the container holds the stored list or a fresh []
  answer,   \* the controls the iterator has handed out
  told,     \* the EventStatus written for each, but perhaps the last
  steady,   \* history: controls on the list ever since the read began
  removals  \* history: how often the list was shortened since

readVars == <<reading, at, stored, answer, told, steady, removals>>
allVars == <<vars, readVars>>

ASSUME NoProgramAssumption == NoProgram \notin Program

ReadInit ==
  /\ Init
  /\ reading = NoProgram /\ at = 1 /\ stored = FALSE
  /\ answer = <<>> /\ told = <<>> /\ steady = {} /\ removals = 0
-----------------------------------------------------------------------------
\* fetch_children: children = [] when the program has no such list yet.
StartRead(p) ==
  /\ reading = NoProgram
  /\ reading' = p /\ at' = 1 /\ answer' = <<>> /\ told' = <<>>
  /\ stored' = (p \in opened)
  /\ steady' = Members(derca[p]) /\ removals' = 0
  /\ UNCHANGED vars

Remaining == reading # NoProgram /\ stored /\ at <= Len(derca[reading])

\* The control handed out last is written as far as its EventStatus.
Written == Len(told) = Len(answer)

TakeItemSkipping == \* a fault: every other element
  /\ Remaining /\ Written
  /\ answer' = Append(answer, derca[reading][at])
  /\ at' = at + 2
  /\ UNCHANGED <<vars, reading, stored, told, steady, removals>>

TakeItem ==
  /\ Remaining /\ Written
  /\ answer' = Append(answer, derca[reading][at])
  /\ at' = at + 1
  /\ UNCHANGED <<vars, reading, stored, told, steady, removals>>

\* The status is the one the control has now, wherever it stands by now.
WriteItem ==
  /\ ~Written
  /\ told' = Append(told, status[answer[Len(told) + 1]])
  /\ UNCHANGED <<vars, reading, at, stored, answer, steady, removals>>

FinishRead ==
  /\ reading # NoProgram /\ ~Remaining /\ Written
  /\ reading' = NoProgram /\ at' = 1 /\ stored' = FALSE
  /\ answer' = <<>> /\ told' = <<>> /\ steady' = {} /\ removals' = 0
  /\ UNCHANGED vars

ClockStep ==
  /\ Clock
  /\ IF reading = NoProgram THEN UNCHANGED <<steady, removals>>
     ELSE /\ steady' = steady \cap Members(derca'[reading])
          /\ removals' = IF Len(derca'[reading]) < Len(derca[reading])
                         THEN removals + 1 ELSE removals
  /\ UNCHANGED <<reading, at, stored, answer, told>>

PostStep == reading = NoProgram /\ PostControl /\ UNCHANGED readVars

ReadNext ==
  \/ ClockStep
  \/ PostStep
  \/ \E p \in Program : StartRead(p)
  \/ TakeItem
  \/ WriteItem
  \/ FinishRead

ReadSpec == ReadInit /\ [][ReadNext]_allVars
-----------------------------------------------------------------------------
(* Properties. *)

Read == reading # NoProgram /\ ~Remaining
Answered == {answer[i] : i \in DOMAIN answer}

\* A client is never given one event twice in an answer, under its identity or
\* under its mRID, however the list moves under the iterator (der.py 123, 130).
AnswerDistinct == \A i, j \in DOMAIN answer :
  mRID[answer[i]] = mRID[answer[j]] => i = j

\* What a removal behind the iterator's back can do: each hides at most one
\* control that was active all the time, and without one none is missed.
MissedOnlyByRemovals == Read => Cardinality(steady \ Answered) <= removals

\* Whatever the clock thread does between taking a control from the iterator and
\* writing its status, a client is told Active or, of a control that is over by
\* then, -1: one that is off the list for good, or at this instant being taken
\* off it (der.py 128-130).  Never Scheduled, and never -1 of one still on offer.
ToldTrue == \A i \in DOMAIN told :
  \/ told[i] = "Active"
  \/ /\ told[i] = "Complete" /\ Over(answer[i])
     /\ answer[i] \in Listed(reading) => answer[i] \in InHand
=============================================================================
