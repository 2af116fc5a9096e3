---------------------------- MODULE EditorProofs ----------------------------
(***************************************************************************)
(* Theorems about Editor, for any configurations, identifiers and bounds,  *)
(* and any number of commands, crashes and starts.                         *)
(***************************************************************************)
EXTENDS Editor, SequenceTheorems, TLAPS

\* Where the loops are: settings are those of a device that exists, and a loop that
\* goes on after a command is the one it was given in.
LoopsInv ==
  /\ prompt = "settings" => item \in DOMAIN data.devices
  /\ storing # "no" =>
       /\ prompt # "down"
       /\ after \in Sections => prompt = after \/ (prompt = "settings" /\ after = "devices")
       /\ after # "settings"

\* What is in memory at a prompt: before the first command of a run nothing, and
\* after it what is in the working file.
PromptInv == storing = "no" /\ prompt # "down" =>
  IF done THEN file \in Data /\ (prompt # "settings" => file = data) ELSE data = Blank

\* The working file holds what has to survive, until the first command.
SurvivesInv == storing = "no" /\ (prompt = "down" \/ ~done) /\ survives # Unknown =>
  file = survives

IInv == TypeOK /\ LoopsInv /\ PromptInv /\ Journaled /\ SurvivesInv
-----------------------------------------------------------------------------
(* Configurations. *)

LEMMA BlankData == Blank \in Data
<1>1. Blank = [controls |-> <<>>, devices |-> <<>>, programs |-> <<>>]
  BY DEF Blank, Sections
<1> QED BY <1>1 DEF Data

LEMMA DataSections ==
  ASSUME NEW d \in Data
  PROVE  /\ d.controls \in Seq(Control)
         /\ d.devices \in Seq(Device)
         /\ d.programs \in Seq(Program)
         /\ DOMAIN d = Sections /\ d = [s \in Sections |-> d[s]]
         /\ \A s \in Sections : /\ Len(d[s]) \in Nat /\ DOMAIN d[s] = 1 .. Len(d[s])
                                /\ d[s] # <<>> => Len(d[s]) # 0
<1>1. /\ d.controls \in Seq(Control)
      /\ d.devices \in Seq(Device)
      /\ d.programs \in Seq(Program)
      /\ DOMAIN d = Sections /\ d = [s \in Sections |-> d[s]]
  BY DEF Data, Sections
<1>2. ASSUME NEW s \in Sections
      PROVE  /\ Len(d[s]) \in Nat /\ DOMAIN d[s] = 1 .. Len(d[s])
             /\ d[s] # <<>> => Len(d[s]) # 0
  BY <1>1 DEF Sections
<1> QED BY <1>1, <1>2

\* One section of a configuration is replaced.
LEMMA PutControls ==
  ASSUME NEW d \in Data, NEW q \in Seq(Control)
  PROVE  [d EXCEPT !["controls"] = q] \in Data
BY DEF Data

LEMMA PutDevices ==
  ASSUME NEW d \in Data, NEW q \in Seq(Device)
  PROVE  [d EXCEPT !["devices"] = q] \in Data
BY DEF Data

LEMMA PutPrograms ==
  ASSUME NEW d \in Data, NEW q \in Seq(Program)
  PROVE  [d EXCEPT !["programs"] = q] \in Data
BY DEF Data

LEMMA UpdatedData ==
  ASSUME NEW d \in Data, NEW f \in Data
  PROVE  /\ Updated(d, f) \in Data
         /\ Updated(d, d) = d
         /\ Updated(Blank, f) = f
<1>1. Updated(d, f) \in Data
  BY DataSections DEF Updated, Sections, Data
<1>2. Updated(d, d) = d
  BY DataSections DEF Updated
<1>3. Updated(Blank, f) = f
  <2>1. \A s \in Sections : Blank[s] = <<>>
    BY DEF Blank
  <2> QED BY <2>1, DataSections DEF Updated
<1> QED BY <1>1, <1>2, <1>3

\* The commands of the loops that replace one section.
LEMMA NewItemData ==
  ASSUME NEW d \in Data
  PROVE  /\ \A c \in Control : [d EXCEPT !["controls"] = Append(@, c)] \in Data
         /\ \A v \in Device : [d EXCEPT !["devices"] = Append(@, v)] \in Data
         /\ \A p \in Program : [d EXCEPT !["programs"] = Append(@, p)] \in Data
<1>1. ASSUME NEW v \in Device PROVE [d EXCEPT !["devices"] = Append(@, v)] \in Data
  <2>1. Append(d.devices, v) \in Seq(Device)
    BY DataSections
  <2> QED BY <2>1, PutDevices
<1>2. ASSUME NEW p \in Program PROVE [d EXCEPT !["programs"] = Append(@, p)] \in Data
  <2>1. Append(d.programs, p) \in Seq(Program)
    BY DataSections
  <2> QED BY <2>1, PutPrograms
<1>3. ASSUME NEW c \in Control PROVE [d EXCEPT !["controls"] = Append(@, c)] \in Data
  <2>1. Append(d.controls, c) \in Seq(Control)
    BY DataSections
  <2> QED BY <2>1, PutControls
<1> QED BY <1>1, <1>2, <1>3

\* One item of one section is replaced.
LEMMA ItemData ==
  ASSUME NEW d \in Data, NEW n
  PROVE  /\ \A new \in Control :
              n \in DOMAIN d.controls => [d EXCEPT !["controls"][n] = new] \in Data
         /\ \A new \in Device :
              n \in DOMAIN d.devices => [d EXCEPT !["devices"][n] = new] \in Data
         /\ \A new \in Program :
              n \in DOMAIN d.programs => [d EXCEPT !["programs"][n] = new] \in Data
<1>1. ASSUME NEW new \in Control, n \in DOMAIN d.controls PROVE [d EXCEPT !["controls"][n] = new] \in Data
  <2> DEFINE q == [d.controls EXCEPT ![n] = new]
  <2>1. n \in 1 .. Len(d.controls)
    BY <1>1, DataSections
  <2>2. q \in Seq(Control)
    BY <2>1, DataSections, ExceptSeq
  <2>3. [d EXCEPT !["controls"][n] = new] = [d EXCEPT !["controls"] = q]
    OBVIOUS
  <2> QED BY <2>2, <2>3, PutControls
<1>2. ASSUME NEW new \in Device, n \in DOMAIN d.devices PROVE [d EXCEPT !["devices"][n] = new] \in Data
  <2> DEFINE q == [d.devices EXCEPT ![n] = new]
  <2>1. n \in 1 .. Len(d.devices)
    BY <1>2, DataSections
  <2>2. q \in Seq(Device)
    BY <2>1, DataSections, ExceptSeq
  <2>3. [d EXCEPT !["devices"][n] = new] = [d EXCEPT !["devices"] = q]
    OBVIOUS
  <2> QED BY <2>2, <2>3, PutDevices
<1>3. ASSUME NEW new \in Program, n \in DOMAIN d.programs PROVE [d EXCEPT !["programs"][n] = new] \in Data
  <2> DEFINE q == [d.programs EXCEPT ![n] = new]
  <2>1. n \in 1 .. Len(d.programs)
    BY <1>3, DataSections
  <2>2. q \in Seq(Program)
    BY <2>1, DataSections, ExceptSeq
  <2>3. [d EXCEPT !["programs"][n] = new] = [d EXCEPT !["programs"] = q]
    OBVIOUS
  <2> QED BY <2>2, <2>3, PutPrograms
<1> QED BY <1>1, <1>2, <1>3
-----------------------------------------------------------------------------
(* Types, and where the loops are. *)

\* What an index leads to.
LEMMA AtRange ==
  ASSUME NEW d \in Data, NEW s \in Sections, NEW i \in Int
  PROVE  At(d[s], i) \in 0 .. Len(d[s])
BY DataSections DEF At

\* A command that is over, whose data is one of the program's.
LEMMA FinallyTyped ==
  ASSUME TypeOK, LoopsInv, prompt # "down", NEW next \in Prompts, Finally(next), rest' = rest,
         data' \in Data, item' \in Nat,
         prompt \in Sections => item' <= Len(data'[prompt]),
         prompt = "settings" => item' \in DOMAIN data'.devices,
         next \in {"main", "down", prompt} \/ (prompt = "settings" /\ next = "devices"),
         next # "settings"
  PROVE  TypeOK' /\ LoopsInv'
<1>1. TypeOK'
  BY DEF TypeOK, Finally, rest
<1>2. LoopsInv'
  BY DEF LoopsInv, Finally, Sections
<1> QED BY <1>1, <1>2

LEMMA TypedStep ==
  ASSUME TypeOK, LoopsInv, [Next]_vars
  PROVE  TypeOK' /\ LoopsInv'
<1> USE DEF Asked
<1>1. ASSUME Nothing PROVE TypeOK' /\ LoopsInv'
  <2> PICK at \in Sections \cup {"main"} : Asked(at) /\ (Finally(at) \/ Finally("down"))
    BY <1>1 DEF Nothing
  <2>1. UNCHANGED <<data, item, rest>> /\ at \in Prompts /\ "down" \in Prompts
        /\ at \notin {"down", "settings"}
    BY <1>1 DEF Nothing, Prompts, Sections
  <2> QED BY <2>1, FinallyTyped DEF TypeOK, LoopsInv
<1>2. ASSUME Back PROVE TypeOK' /\ LoopsInv'
  <2>1. prompt \in Sections /\ Finally("main") /\ UNCHANGED <<data, item, rest>>
    BY <1>2 DEF Back
  <2> QED BY <2>1, FinallyTyped DEF TypeOK, LoopsInv, Prompts, Sections
<1>3. ASSUME Quit PROVE TypeOK' /\ LoopsInv'
  BY <1>3 DEF Quit, TypeOK, LoopsInv, Prompts, Sections
<1>4. ASSUME Load PROVE TypeOK' /\ LoopsInv'
  <2>1. data' \in Data
    BY <1>4, LoadableAssumption DEF Load
  <2> QED BY <2>1, <1>4, FinallyTyped DEF Load, TypeOK, LoopsInv, Prompts, Sections
<1>5. ASSUME Restore PROVE TypeOK' /\ LoopsInv'
  <2>1. data' \in Data
    BY <1>5, UpdatedData DEF Restore, TypeOK
  <2>2. Finally("main") \/ Finally("down")
    BY <1>5 DEF Restore
  <2> QED BY <2>1, <2>2, <1>5, FinallyTyped DEF Restore, TypeOK, LoopsInv, Prompts, Sections
<1>6. ASSUME NEW s \in Sections, Enter(s) PROVE TypeOK' /\ LoopsInv'
  <2>1. At(data[s], -1) \in 0 .. Len(data[s])
    BY AtRange DEF TypeOK
  <2> QED BY <2>1, <1>6, DataSections DEF Enter, rest, TypeOK, LoopsInv, Prompts, Sections
<1>7. ASSUME NEW s \in Sections, NEW new, Change(s, new),
             item \in DOMAIN data[s] =>
               \/ s = "controls" /\ new \in Control
               \/ s = "devices" /\ new \in Device
               \/ s = "programs" /\ new \in Program
      PROVE  TypeOK' /\ LoopsInv'
  <2>1. prompt = s /\ item \in DOMAIN data[s]
    BY <1>7, DataSections DEF Change, Current, TypeOK
  <2>2. data \in Data /\ data' = [data EXCEPT ![s][item] = new]
    BY <1>7 DEF Change, TypeOK
  <2>3. data' \in Data
    <3>1. CASE s = "controls" /\ new \in Control
      BY <2>1, <2>2, <3>1, ItemData
    <3>2. CASE s = "devices" /\ new \in Device
      BY <2>1, <2>2, <3>2, ItemData
    <3>3. CASE s = "programs" /\ new \in Program
      BY <2>1, <2>2, <3>3, ItemData
    <3> QED BY <1>7, <2>1, <3>1, <3>2, <3>3
  <2>4. Len(data'[s]) = Len(data[s])
    <3>1. DOMAIN data'[s] = DOMAIN data[s]
      BY <2>1, <2>2, DataSections
    <3> QED BY <2>2, <2>3, <3>1, DataSections
  <2> QED BY <2>1, <2>3, <2>4, <1>7, FinallyTyped DEF Change, TypeOK, LoopsInv, Prompts, Sections
<1>8. ASSUME NEW s \in Sections, NEW new, NewItem(s, new),
             [data EXCEPT ![s] = Append(@, new)] \in Data
      PROVE  TypeOK' /\ LoopsInv'
  <2>1. Len(data'[s]) \in Nat
    BY <1>8, DataSections DEF NewItem
  <2> QED BY <2>1, <1>8, FinallyTyped DEF NewItem, TypeOK, LoopsInv, Prompts, Sections
<1>9. ASSUME Asked("devices"), Finally("devices"), item' \in 0 .. Len(data.devices),
             UNCHANGED <<data, rest>>
      PROVE  TypeOK' /\ LoopsInv'
  BY <1>9, FinallyTyped, DataSections DEF TypeOK, LoopsInv, Prompts, Sections
<1>22. ASSUME NEW id \in Id, OldDevice(id) PROVE TypeOK' /\ LoopsInv'
  BY <1>22, <1>9, DataSections DEF OldDevice, TypeOK, Sections
<1>23. ASSUME NEW i \in Typed, RefuseSettings(i) PROVE TypeOK' /\ LoopsInv'
  <2>1. At(data.devices, i) \in 0 .. Len(data.devices)
    BY AtRange, BoundAssumption DEF Typed, TypeOK, Sections
  <2> QED BY <2>1, <1>23, <1>9 DEF RefuseSettings
<1>24. ASSUME SetControl PROVE TypeOK' /\ LoopsInv'
  <2>1. [changed |-> TRUE] \in Control
    BY DEF Control
  <2> QED BY <2>1, <1>24, <1>7 DEF SetControl, Sections
<1>25. ASSUME SetDevice PROVE TypeOK' /\ LoopsInv'
  <2> DEFINE device == data.devices[item]
  <2>1. PICK new : /\ Change("devices", new)
                   /\ \/ new = [device EXCEPT !.changed = TRUE]
                      \/ new = [device EXCEPT !.settings = Text]
                      \/ \E id \in Id : new = [device EXCEPT !.id = id]
    BY <1>25 DEF SetDevice
  <2>2. item \in DOMAIN data.devices => device \in Device
    BY DataSections DEF TypeOK
  <2>3. item \in DOMAIN data.devices => new \in Device
    <3> HIDE DEF device
    <3> QED BY <2>1, <2>2 DEF Device
  <2> QED BY <2>1, <2>3, <1>7 DEF Sections
<1>26. ASSUME SetProgram \/ \E i \in Typed : SetDefault(i) \/ AddControl(i)
       PROVE  TypeOK' /\ LoopsInv'
  <2> DEFINE program == data.programs[item]
  <2>1. PICK new : /\ Change("programs", new)
                   /\ \/ new = [program EXCEPT !.changed = TRUE]
                      \/ \E v \in Int \cup {None, Text} : new = [program EXCEPT !.default = v]
                      \/ new = [program EXCEPT !.controls = Text]
                      \/ \E i \in Int : /\ program.controls # Text
                                        /\ new = [program EXCEPT !.controls = Append(@, i)]
    <3>1. CASE SetProgram
      BY <3>1 DEF SetProgram
    <3>2. CASE \E i \in Typed : SetDefault(i) \/ AddControl(i)
      <4>1. PICK i \in Typed : SetDefault(i) \/ AddControl(i)
        BY <3>2
      <4>2. i \in Int
        BY <4>1, BoundAssumption DEF Typed, Sections
      <4>3. CASE SetDefault(i)
        BY <4>2, <4>3 DEF SetDefault
      <4>4. CASE AddControl(i)
        <5>1. /\ program.controls # Text
              /\ Change("programs", [program EXCEPT !.controls = Append(@, i)])
          BY <4>4 DEF AddControl
        <5> HIDE DEF program
        <5> QED BY <4>2, <5>1
      <4> QED BY <4>1, <4>3, <4>4
    <3> QED BY <1>26, <3>1, <3>2
  <2>2. item \in DOMAIN data.programs => program \in Program
    BY DataSections DEF TypeOK
  <2>3. item \in DOMAIN data.programs => new \in Program
    <3> HIDE DEF program
    <3>1. CASE \E i \in Int : /\ program.controls # Text
                              /\ new = [program EXCEPT !.controls = Append(@, i)]
      <4>1. PICK i \in Int : /\ program.controls # Text
                             /\ new = [program EXCEPT !.controls = Append(@, i)]
        BY <3>1
      <4>2. item \in DOMAIN data.programs => Append(program.controls, i) \in Seq(Int)
        BY <4>1, <2>2 DEF Program
      <4> QED BY <4>1, <4>2, <2>2 DEF Program
    <3> QED BY <2>1, <2>2, <3>1 DEF Program
  <2> QED BY <2>1, <2>3, <1>7 DEF Sections
<1>11. ASSUME NEW i \in Typed, EnterSettings(i) PROVE TypeOK' /\ LoopsInv'
  <2>1. i + 1 \in Nat
    BY <1>11, BoundAssumption DEF Typed, Sections
  <2> QED BY <2>1, <1>11 DEF EnterSettings, rest, TypeOK, LoopsInv, Prompts, Sections
<1>12. ASSUME SetSetting PROVE TypeOK' /\ LoopsInv'
  <2> DEFINE new == [data.devices[item] EXCEPT !.settings = TRUE]
  <2>1. item \in DOMAIN data.devices
    BY <1>12 DEF SetSetting, LoopsInv
  <2>2. new \in Device
    <3>1. data.devices[item] \in Device
      BY <2>1, DataSections DEF TypeOK
    <3> QED BY <3>1 DEF Device
  <2>3. data' = [data EXCEPT !["devices"][item] = new]
    BY <1>12 DEF SetSetting
  <2> HIDE DEF new
  <2>4. data' \in Data
    BY <2>1, <2>2, <2>3, ItemData DEF TypeOK
  <2>5. DOMAIN data'.devices = DOMAIN data.devices
    BY <2>1, <2>3, DataSections DEF TypeOK
  <2> QED BY <2>1, <2>4, <2>5, <1>12 DEF SetSetting, rest, TypeOK, LoopsInv, Sections
<1>13. ASSUME LeaveSettings PROVE TypeOK' /\ LoopsInv'
  <2>1. Asked("settings") /\ (Finally("devices") \/ Finally("down")) /\ UNCHANGED <<data, item, rest>>
    BY <1>13 DEF LeaveSettings
  <2> QED BY <2>1, FinallyTyped DEF TypeOK, LoopsInv, Prompts, Sections
<1>14. ASSUME Open PROVE TypeOK' /\ LoopsInv'
  BY <1>14 DEF Open, TypeOK, LoopsInv
<1>15. ASSUME Dump PROVE TypeOK' /\ LoopsInv'
  <2>1. Len(data.devices) \in Nat /\ DOMAIN data.devices = 1 .. Len(data.devices)
    BY DataSections DEF TypeOK
  <2> QED BY <2>1, <1>15 DEF Dump, TypeOK, LoopsInv, Prompts, Sections
<1>16. ASSUME Crash PROVE TypeOK' /\ LoopsInv'
  BY <1>16 DEF Crash, TypeOK, LoopsInv, Prompts, Sections
<1>17. ASSUME Start PROVE TypeOK' /\ LoopsInv'
  <2>1. TypeOK'
    BY <1>17, BlankData DEF Start, Starts, TypeOK, Prompts, Sections
  <2>2. LoopsInv'
    BY <1>17 DEF Start, Starts, LoopsInv
  <2> QED BY <2>1, <2>2
<1>18. CASE UNCHANGED vars
  BY <1>18 DEF vars, TypeOK, LoopsInv
<1>19. ASSUME NewItem("controls", [changed |-> FALSE]) PROVE TypeOK' /\ LoopsInv'
  <2>1. [changed |-> FALSE] \in Control
    BY DEF Control
  <2>2. [data EXCEPT !["controls"] = Append(@, [changed |-> FALSE])] \in Data
    BY <2>1, NewItemData DEF TypeOK
  <2> QED BY <1>8, <1>19, <2>2 DEF Sections
<1>20. ASSUME NewItem("programs", [changed |-> FALSE, default |-> None, controls |-> <<>>]) PROVE TypeOK' /\ LoopsInv'
  <2>1. [changed |-> FALSE, default |-> None, controls |-> <<>>] \in Program
    BY DEF Program
  <2>2. [data EXCEPT !["programs"] = Append(@, [changed |-> FALSE, default |-> None, controls |-> <<>>])] \in Data
    BY <2>1, NewItemData DEF TypeOK
  <2> QED BY <1>8, <1>20, <2>2 DEF Sections
<1>21. ASSUME NEW id \in Id, NewDevice(id) PROVE TypeOK' /\ LoopsInv'
  <2> DEFINE new == [changed |-> FALSE, id |-> id, settings |-> FALSE]
  <2>1. new \in Device
    BY DEF Device
  <2>2. [data EXCEPT !["devices"] = Append(@, new)] \in Data
    BY <2>1, NewItemData DEF TypeOK
  <2>3. NewItem("devices", new)
    BY <1>21 DEF NewDevice
  <2> QED BY <1>8, <2>2, <2>3 DEF Sections
<1> QED
  BY <1>1, <1>2, <1>3, <1>4, <1>5, <1>6, <1>19, <1>20, <1>21, <1>22, <1>23, <1>24, <1>25, <1>26, <1>11, <1>12,
     <1>13, <1>14, <1>15, <1>16, <1>17, <1>18 DEF Next
-----------------------------------------------------------------------------
(* The working file. *)

\* While a command stores, nothing is said of the file.
LEMMA WhileStoring ==
  ASSUME storing' # "no"
  PROVE  PromptInv' /\ Journaled' /\ SurvivesInv'
BY DEF PromptInv, Journaled, SurvivesInv

LEMMA JournalStep ==
  ASSUME TypeOK, LoopsInv, PromptInv, Journaled, SurvivesInv, [Next]_vars
  PROVE  PromptInv' /\ Journaled' /\ SurvivesInv'
<1> USE DEF Asked
<1>1. ASSUME storing' = "open" PROVE PromptInv' /\ Journaled' /\ SurvivesInv'
  BY <1>1, WhileStoring
<1>2. ASSUME Quit PROVE PromptInv' /\ Journaled' /\ SurvivesInv'
  BY <1>2 DEF Quit, PromptInv, Journaled, SurvivesInv
<1>3. ASSUME NEW s \in Sections, Enter(s) PROVE PromptInv' /\ Journaled' /\ SurvivesInv'
  BY <1>3 DEF Enter, rest, PromptInv, Journaled, SurvivesInv, Sections
<1>4. ASSUME NEW i \in Typed, EnterSettings(i)
      PROVE  PromptInv' /\ Journaled' /\ SurvivesInv'
  BY <1>4 DEF EnterSettings, rest, PromptInv, Journaled, SurvivesInv
<1>5. ASSUME SetSetting PROVE PromptInv' /\ Journaled' /\ SurvivesInv'
  <2>1. prompt = "settings" /\ storing = "no" /\ item \in DOMAIN data.devices
        /\ UNCHANGED <<prompt, storing, item, file, done, survives>>
    BY <1>5 DEF SetSetting, rest, LoopsInv
  <2>2. Blank.devices = <<>>
    BY DEF Blank, Sections
  <2>3. done
    BY <2>1, <2>2 DEF PromptInv
  <2>4. [data' EXCEPT !["devices"][item].settings = FALSE] =
          [data EXCEPT !["devices"][item].settings = FALSE]
    BY <1>5 DEF SetSetting
  <2> QED BY <2>1, <2>3, <2>4 DEF PromptInv, Journaled, SurvivesInv
<1>6. ASSUME Dump PROVE PromptInv' /\ Journaled' /\ SurvivesInv'
  <2>1. after # "settings"
    BY <1>6 DEF Dump, LoopsInv
  <2> QED BY <2>1, <1>6 DEF Dump, TypeOK, PromptInv, Journaled, SurvivesInv
<1>7. ASSUME Crash PROVE PromptInv' /\ Journaled' /\ SurvivesInv'
  BY <1>7 DEF Crash, PromptInv, Journaled, SurvivesInv
<1>8. ASSUME Start PROVE PromptInv' /\ Journaled' /\ SurvivesInv'
  <2>1. storing = "no"
    BY <1>8 DEF Start, LoopsInv
  <2> QED BY <2>1, <1>8 DEF Start, Starts, PromptInv, Journaled, SurvivesInv
<1>9. CASE UNCHANGED vars
  BY <1>9 DEF vars, PromptInv, Journaled, SurvivesInv
<1>10. ASSUME Open PROVE PromptInv' /\ Journaled' /\ SurvivesInv'
  BY <1>10, WhileStoring DEF Open
<1>11. ASSUME Nothing \/ Back \/ Load \/ Restore \/ LeaveSettings
       PROVE  storing' = "open"
  BY <1>11 DEF Nothing, Back, Load, Restore, LeaveSettings, Finally
<1>12. ASSUME SetControl \/ SetDevice \/ SetProgram PROVE storing' = "open"
  BY <1>12 DEF SetControl, SetDevice, SetProgram, Change, Finally
<1>13. ASSUME NEW s, NEW new, NewItem(s, new) PROVE storing' = "open"
  BY <1>13 DEF NewItem, Finally
<1>14. ASSUME NEW id, NewDevice(id) \/ OldDevice(id) PROVE storing' = "open"
  BY <1>13, <1>14 DEF NewDevice, OldDevice, Finally
<1>15. ASSUME NEW i, SetDefault(i) \/ AddControl(i) \/ RefuseSettings(i) PROVE storing' = "open"
  BY <1>15 DEF SetDefault, AddControl, RefuseSettings, Change, Finally
<1> QED
  BY <1>1, <1>2, <1>3, <1>4, <1>5, <1>6, <1>7, <1>8, <1>9, <1>10, <1>11, <1>12, <1>13, <1>14,
     <1>15 DEF Next

\* What restore brings back, when nothing has been done yet.
LEMMA RestoredData ==
  ASSUME TypeOK, LoopsInv, PromptInv, SurvivesInv, Restore, ~done, survives # Unknown
  PROVE  data' = survives
<1>1. storing = "no" /\ prompt = "main"
  BY DEF Restore, Asked
<1>2. data = Blank /\ file = survives /\ survives \in Data
  BY <1>1 DEF PromptInv, SurvivesInv, TypeOK
<1>3. file # Absent /\ file # Empty
  BY <1>2, MarksAssumption
<1>4. data' = Updated(data, file)
  BY <1>3 DEF Restore
<1> QED BY <1>2, <1>4, UpdatedData
-----------------------------------------------------------------------------
(* The theorems. *)

THEOREM EditorInvariant == Spec => []IInv
<1>1. Init => IInv
  <2> SUFFICES ASSUME Init PROVE IInv
    OBVIOUS
  <2>1. TypeOK
    BY BlankData DEF Init, TypeOK, Prompts, Sections
  <2>2. LoopsInv
    BY DEF Init, LoopsInv
  <2>3. PromptInv /\ Journaled /\ SurvivesInv
    BY DEF Init, PromptInv, Journaled, SurvivesInv
  <2> QED BY <2>1, <2>2, <2>3 DEF IInv
<1>2. IInv /\ [Next]_vars => IInv'
  BY TypedStep, JournalStep DEF IInv
<1> QED BY <1>1, <1>2, PTL DEF Spec

\* After the first command of a run, whatever is done at a prompt is in the working
\* file before the next prompt (control.py 114-115, 197-198,
\* 263-264, 338-339).
THEOREM EverythingJournaled == Spec => []Journaled
<1>1. IInv => Journaled
  BY DEF IInv
<1> QED BY <1>1, EditorInvariant, PTL

\* A restore as the first command brings back what the user had (control.py 29,
\* 331-332), over any number of crashes and starts.
THEOREM CrashesRecovered == Spec => RestoreRecovers
<1>1. IInv /\ [Next]_vars => [Restore /\ ~done /\ survives # Unknown => data' = survives]_vars
  BY RestoredData DEF IInv
<1> QED BY <1>1, EditorInvariant, PTL DEF Spec, RestoreRecovers

\* What restore makes of the configuration: the one of the file, or the same.
LEMMA RestoredWhole ==
  ASSUME TypeOK, PromptInv, Restore
  PROVE  data' = IF file \in {Absent, Empty} THEN data ELSE file
<1>1. storing = "no" /\ prompt = "main"
  BY DEF Restore, Asked
<1>2. CASE file \in {Absent, Empty}
  BY <1>2 DEF Restore
<1>3. CASE file \notin {Absent, Empty}
  <2>1. file \in Data /\ data' = Updated(data, file)
    BY <1>3 DEF Restore, TypeOK
  <2>2. data = file \/ data = Blank
    BY <1>1 DEF PromptInv
  <2> QED BY <1>3, <2>1, <2>2, UpdatedData
<1> QED BY <1>2, <1>3

\* restore never joins parts of two configurations (control.py 273-278): it brings
\* back the one of the working file as a whole, over any commands, crashes and starts.
THEOREM NeverMixed == Spec => RestoresWhole
<1>1. IInv /\ [Next]_vars =>
        [Restore => data' = IF file \in {Absent, Empty} THEN data ELSE file]_vars
  BY RestoredWhole DEF IInv
<1> QED BY <1>1, EditorInvariant, PTL DEF Spec, RestoresWhole
=============================================================================
