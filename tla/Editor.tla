------------------------------- MODULE Editor -------------------------------
(***************************************************************************)
(* The configuration editor (control.py): a loop of commands over data,    *)
(* the configuration in memory, with loops for its sections inside.  After *)
(* each command, whether it succeeded, was refused or raised, a finally    *)
(* clause writes data to /tmp/.working_data, from which restore reads it   *)
(* back after a crash.                                                     *)
(*                                                                         *)
(* A section that is missing and one that is empty are not told apart, nor *)
(* what set writes: a text, under a key the editor reads, which it does    *)
(* not check, or under another.  The files that are loaded are             *)
(* configurations, whatever their programs refer to.  The global keys, and *)
(* files other than the working file, are left out.                        *)
(***************************************************************************)
EXTENDS Integers, Sequences

CONSTANTS
  Id,       \* of devices
  Loadable, \* the configurations load may read
  Absent,   \* no working file
  Empty,    \* a working file that is truncated and not yet written
  Unknown,
  None,     \* no default_control
  Text,     \* what set writes
  MaxItems  \* bound: items, by section

VARIABLES
  data,
  file,    \* /tmp/.working_data
  prompt,  \* the loop that waits for a command
  item,    \* the item current_item of that loop leads to, or 0: set raises
  storing, \* the finally clause: none, in front of open, in front of dump
  after,   \* the loop once it has run
  done,    \* a command has been completed in this run
  survives \* what a run without a completed command has to find, or Unknown

vars == <<data, file, prompt, item, storing, after, done, survives>>

Typed == -1 .. MaxItems.controls     \* bound: what is typed as an index
Control == [changed : BOOLEAN]
Device == [changed : BOOLEAN, id : Id, settings : BOOLEAN \cup {Text}]
Program == [changed : BOOLEAN, default : Int \cup {None, Text}, controls : Seq(Int) \cup {Text}]
Data == [controls : Seq(Control), devices : Seq(Device), programs : Seq(Program)]

Sections == {"controls", "devices", "programs"}
Prompts == Sections \cup {"main", "settings", "down"}
Blank == [s \in Sections |-> <<>>]

ASSUME LoadableAssumption == Loadable \subseteq Data
ASSUME BoundAssumption == MaxItems \in [Sections -> Nat]
ASSUME MarksAssumption == Absent # Empty /\ \A m \in {Absent, Empty, Unknown} : m \notin Data

Init ==
  /\ data = Blank /\ file = Absent /\ prompt = "main" /\ item = 0
  /\ storing = "no" /\ after = "main" /\ done = FALSE
  /\ survives = Unknown
-----------------------------------------------------------------------------
(* Commands. *)

Asked(at) == prompt = at /\ storing = "no"

FinallyAtMain(next) == \* a fault: the loops of sections do not store
  IF prompt = "main" THEN storing' = "open" /\ after' = next /\ UNCHANGED prompt
  ELSE prompt' = next /\ UNCHANGED <<storing, after>>

\* The command is over, its finally clauses run, and next follows.  Several in
\* a row write the same, and are taken for one.
Finally(next) == storing' = "open" /\ after' = next /\ UNCHANGED prompt

rest == <<file, done, survives>>

\* A command that changes nothing, one that is refused, q at the prompt of an
\* item, store config; q, which breaks out of the main loop through finally; and what raises, the end of the input in a section and
\* arguments that are missing or too many among it.
Nothing ==
  /\ \E at \in Sections \cup {"main"} : Asked(at) /\ (Finally(at) \/ Finally("down"))
  /\ UNCHANGED <<data, item, rest>>

\* The index -1 is that of the last item, where there is one.
At(items, index) ==
  LET n == IF index < 0 THEN Len(items) + index + 1 ELSE index + 1
  IN  IF n \in DOMAIN items THEN n ELSE 0

\* The loops of sections start with current_item = -1, and store nothing.
Enter(s) ==
  /\ Asked("main")
  /\ prompt' = s /\ item' = At(data[s], -1)
  /\ UNCHANGED <<data, storing, after, rest>>

Back ==
  /\ \E s \in Sections : Asked(s)
  /\ Finally("main")
  /\ UNCHANGED <<data, item, rest>>

\* An end of the input there; an interrupt ends the editor.
Quit ==
  /\ Asked("main") /\ prompt' = "down"
  /\ survives' = IF done THEN data ELSE survives
  /\ UNCHANGED <<data, item, storing, after, file, done>>

Load ==
  /\ Asked("main")
  /\ data' \in Loadable
  /\ Finally("main")
  /\ UNCHANGED <<item, rest>>

\* data.update: what is in both comes from the file.  A section of data is empty
\* or the same there whenever that of the file is empty.
Updated(d, f) == [s \in Sections |-> IF f[s] = <<>> THEN d[s] ELSE f[s]]

Restore ==
  /\ Asked("main")
  /\ CASE file = Absent -> UNCHANGED data /\ Finally("main")
       [] file = Empty -> UNCHANGED data /\ Finally("down") \* safe_load gives None
       [] OTHER -> data' = Updated(data, file) /\ Finally("main")
  /\ UNCHANGED <<item, rest>>

NewItem(s, new) ==
  /\ Asked(s) /\ Len(data[s]) < MaxItems[s]
  /\ data' = [data EXCEPT ![s] = Append(@, new)]
  /\ item' = Len(data'[s])
  /\ Finally(s)
  /\ UNCHANGED rest

Known(id) == \E i \in DOMAIN data.devices : data.devices[i].id = id

NewDevice(id) ==
  ~Known(id) /\ NewItem("devices", [changed |-> FALSE, id |-> id, settings |-> FALSE])

\* current_item = [found_at], which set cannot use.
OldDevice(id) ==
  /\ Asked("devices") /\ Known(id)
  /\ item' = 0
  /\ Finally("devices")
  /\ UNCHANGED <<data, rest>>

\* What a command makes of the current item of a section.
Current(s) == Asked(s) /\ item # 0
Change(s, new) ==
  /\ Current(s)
  /\ data' = [data EXCEPT ![s][item] = new]
  /\ Finally(s)
  /\ UNCHANGED <<item, rest>>

\* set, by the key: one the editor reads, or another.
SetControl == Change("controls", [changed |-> TRUE])

SetDevice == LET device == data.devices[item] IN
  \/ Change("devices", [device EXCEPT !.changed = TRUE])
  \/ Change("devices", [device EXCEPT !.settings = Text])
  \/ \E id \in Id : Change("devices", [device EXCEPT !.id = id])

SetProgram == LET program == data.programs[item] IN
  \/ Change("programs", [program EXCEPT !.changed = TRUE])
  \/ Change("programs", [program EXCEPT !.default = Text])
  \/ Change("programs", [program EXCEPT !.controls = Text])

\* control: only what is too large is refused.
InRange(i) == i < Len(data.controls)

SetDefault(i) ==
  /\ InRange(i)
  /\ Change("programs", [data.programs[item] EXCEPT !.default = i])

\* With a text, looking for an index in it raises.
AddControl(i) == LET program == data.programs[item] IN
  /\ Current("programs") /\ InRange(i)
  /\ program.controls # Text
  /\ \A n \in DOMAIN program.controls : program.controls[n] # i
  /\ Change("programs", [program EXCEPT !.controls = Append(@, i)])

\* handle_device_settings, which stores nothing itself.
EnterSettings(i) ==
  /\ Asked("devices") /\ i + 1 \in DOMAIN data.devices
  /\ prompt' = "settings" /\ item' = i + 1
  /\ UNCHANGED <<data, storing, after, rest>>

\* The index is assigned before it is refused.
RefuseSettings(i) ==
  /\ Asked("devices") /\ i + 1 \notin DOMAIN data.devices
  /\ item' = At(data.devices, i)
  /\ Finally("devices")
  /\ UNCHANGED <<data, rest>>

\* With a text in the place of the settings it raises, see LeaveSettings.
SetSetting ==
  /\ Asked("settings") /\ data.devices[item].settings # Text
  /\ data' = [data EXCEPT !.devices[item].settings = TRUE]
  /\ UNCHANGED <<prompt, item, storing, after, rest>>

\* q, or an empty line, whose ValueError the caller takes for a missing index;
\* an interrupt, or what raises, goes through all finally clauses.
LeaveSettings ==
  /\ Asked("settings")
  /\ Finally("devices") \/ Finally("down")
  /\ UNCHANGED <<data, item, rest>>
-----------------------------------------------------------------------------
(* store_working, crashes and starts. *)

Open ==
  /\ storing = "open"
  /\ file' = Empty /\ storing' = "dump"
  /\ UNCHANGED <<data, prompt, item, after, done, survives>>

\* The loops of sections leave current_item behind when they end.
Dump ==
  /\ storing = "dump"
  /\ file' = data /\ storing' = "no" /\ prompt' = after /\ done' = TRUE
  /\ item' = IF after \in Sections THEN item ELSE 0
  /\ survives' = IF after = "down" THEN data ELSE Unknown
  /\ UNCHANGED <<data, after>>

\* The process is killed.  What the last prompt showed has to survive, unless
\* settings were being made or the file was being written.
Crash ==
  /\ prompt # "down"
  /\ prompt' = "down" /\ storing' = "no"
  /\ survives' = IF storing # "no" \/ prompt = "settings" THEN Unknown
                 ELSE IF done THEN data ELSE survives
  /\ UNCHANGED <<data, file, item, after, done>>

StartsOver == storing' = "no" /\ file' = Blank \* a fault: with a new working file
Starts == storing' = "no" /\ UNCHANGED file

Start ==
  /\ prompt = "down"
  /\ prompt' = "main" /\ after' = "main"
  /\ data' = Blank /\ item' = 0 /\ done' = FALSE
  /\ Starts
  /\ UNCHANGED survives

Next ==
  \/ Nothing \/ Back \/ Quit \/ Load \/ Restore
  \/ \E s \in Sections : Enter(s)
  \/ NewItem("controls", [changed |-> FALSE]) \/ SetControl
  \/ NewItem("programs", [changed |-> FALSE, default |-> None, controls |-> <<>>]) \/ SetProgram
  \/ (\E id \in Id : NewDevice(id) \/ OldDevice(id)) \/ SetDevice
  \/ \E i \in Typed : SetDefault(i) \/ AddControl(i) \/ EnterSettings(i) \/ RefuseSettings(i)
  \/ SetSetting \/ LeaveSettings
  \/ Open \/ Dump \/ Crash \/ Start

Spec == Init /\ [][Next]_vars
-----------------------------------------------------------------------------
(* Properties. *)

TypeOK ==
  /\ data \in Data
  /\ file \in Data \cup {Absent, Empty}
  /\ prompt \in Prompts /\ after \in Prompts
  /\ item \in Nat
  /\ prompt \in Sections => item <= Len(data[prompt])
  /\ storing \in {"no", "open", "dump"}
  /\ done \in BOOLEAN
  /\ survives \in Data \cup {Unknown}

\* Whenever the editor waits for a command after the first one of a run, all that
\* was done is in the working file, but for the settings being made.
Journaled == storing = "no" /\ prompt # "down" /\ done =>
  IF prompt = "settings"
  THEN [data EXCEPT !.devices[item].settings = FALSE] =
         [file EXCEPT !.devices[item].settings = FALSE]
  ELSE file = data

\* "Restore from the cached config in case of a crash" (control.py 29), given as
\* the first command: the user gets back what there was at the last prompt of
\* the last run in which a command was completed, however often the editor came
\* and went in between, unless the end caught it while it was writing or in the
\* settings of a device.
RestoreRecovers ==
  [][Restore /\ ~done /\ survives # Unknown => data' = survives]_vars

\* restore merges the file into data section by section (control.py 278), while the
\* programs of one section refer to the controls of another by index: no sequence
\* of commands, crashes and starts lets it join the programs of one configuration
\* with the controls of another.  What it leaves is the configuration of the file
\* as a whole, or, where there is none, what was there.
RestoresWhole ==
  [][Restore => data' = IF file \in {Absent, Empty} THEN data ELSE file]_vars
=============================================================================
