------------------------------ MODULE Startup ------------------------------
(***************************************************************************)
(* Start-up is a chain of signals, each sent and received synchronously:   *)
(* BaseAdapter.initialize makes the curves, then the controls, then the    *)
(* programs one by one (adapters/der.py); after each program the end       *)
(* devices are initialised (adapters/enddevices.py) from the programs that *)
(* exist by then.  An unknown default control ends the process.            *)
(*                                                                         *)
(* The clock thread runs by then and follows tick once the first program   *)
(* is there; it changes nothing that start-up reads, and is the subject of *)
(* DERControlEvents.  Curves are put into programs as controls are, and    *)
(* are left out.                                                           *)
(***************************************************************************)
EXTENDS Naturals, Sequences, Adapters

CONSTANTS
  Name,         \* descriptions of controls and programs
  NoName,       \* a DER without a program
  Id,           \* ids of devices, and so their LFDIs and sFDIs
  ConfigFile \* the configuration files considered

VARIABLES
  config,   \* the configuration file
  programs, \* DERProgramAdapter with its children
  devices,  \* EndDeviceAdapter
  fsas,     \* FSAAdapter, one for all devices: the programs of each FSA
  uuid,     \* how many mRIDs have been made up
  pc,       \* what start-up does next
  mention,  \* position in the list of controls a program is configured for
  ctl,      \* position in the list of all controls
  di        \* the configured device in the making

vars == <<config, programs, devices, fsas, uuid, pc, mention, ctl, di>>

ProgramConfig == [name : Name, default : Name, controls : Seq(Name)]
DeviceConfig == [id : Id, programs : Seq(Name), ders : Seq(Name \cup {NoName})]
Program == [name : Name, mRID : Nat, derc : Seq(Nat), dderc : Seq(Nat)]
\* ders: for each DER the program its CurrentDERProgramLink leads to, 0 if none.
EndDevice == [id : Id, assigned : BOOLEAN, ders : Seq(Nat)]
Stages == {"create", "controls", "default", "devices", "running", "failed"}

ASSUME ConfigurationType ==
  ConfigFile \subseteq [controls : Seq(Name), programs : Seq(ProgramConfig),
                           devices : Seq(DeviceConfig)]
\* __main__.py asserts that a configuration has devices.
ASSUME DevicesAssumption == \A file \in ConfigFile : file.devices # <<>>
ASSUME NoNameAssumption == NoName \notin Name

Init ==
  /\ config \in ConfigFile
  /\ programs = <<>> /\ devices = <<>> /\ fsas = <<>> /\ uuid = 0
  /\ pc = "create" /\ mention = 1 /\ ctl = 1 /\ di = 1
-----------------------------------------------------------------------------
(* initialize_der_program_adapter. *)

\* The i-th configured control is object i, with the href /der_derc_<i-1>.
Control == DOMAIN config.controls
href == [c \in Control |-> <<"der_derc", c - 1>>]

Latest == Len(programs)
Section == config.programs[Latest] \* program_cfg

\* The section brings no mRID along, as in the configuration of the README.
CreateProgram ==
  /\ pc = "create" /\ Latest < Len(config.programs)
  /\ programs' = Append(programs, [name |-> config.programs[Latest + 1].name,
                                   mRID |-> 0, derc |-> <<>>, dderc |-> <<>>])
  /\ pc' = "controls" /\ mention' = 1 /\ ctl' = 1
  /\ UNCHANGED <<config, devices, fsas, uuid, di>>

AddAgain(list, c) == Append(list, c) \* a fault: no look at hrefs
Added(list, c) == AddReplaceChild(list, c, href)

\* Every control whose description is mentioned; controls may share one, and a
\* mention may be repeated or lead to nothing.
AddControl ==
  /\ pc = "controls" /\ mention <= Len(Section.controls) /\ ctl <= Len(config.controls)
  /\ programs' = IF config.controls[ctl] = Section.controls[mention]
                 THEN [programs EXCEPT ![Latest].derc = Added(@, ctl)] ELSE programs
  /\ ctl' = ctl + 1
  /\ UNCHANGED <<config, devices, fsas, uuid, pc, mention, di>>

NextMention ==
  /\ pc = "controls" /\ mention <= Len(Section.controls) /\ ctl > Len(config.controls)
  /\ mention' = mention + 1 /\ ctl' = 1
  /\ UNCHANGED <<config, programs, devices, fsas, uuid, pc, di>>

ControlsAdded ==
  /\ pc = "controls" /\ mention > Len(Section.controls)
  /\ pc' = "default" /\ ctl' = 1
  /\ UNCHANGED <<config, programs, devices, fsas, uuid, mention, di>>

AddDefault ==
  /\ pc = "default" /\ ctl <= Len(config.controls)
  /\ programs' = IF config.controls[ctl] = Section.default
                 THEN [programs EXCEPT ![Latest].dderc = Added(@, ctl)] ELSE programs
  /\ ctl' = ctl + 1
  /\ UNCHANGED <<config, devices, fsas, uuid, pc, mention, di>>

\* The ready signal is sent for each program, before the next one is made.
DefaultAdded ==
  /\ pc = "default" /\ ctl > Len(config.controls)
  /\ IF programs[Latest].dderc = <<>>
     THEN pc' = "failed" /\ UNCHANGED di
     ELSE pc' = "devices" /\ di' = 1
  /\ UNCHANGED <<config, programs, devices, fsas, uuid, mention, ctl>>

ProgramsReady ==
  /\ pc = "create" /\ Latest = Len(config.programs)
  /\ pc' = "running"
  /\ UNCHANGED <<config, programs, devices, fsas, uuid, mention, ctl, di>>
-----------------------------------------------------------------------------
(* initialize_end_device_adapter. *)

Device == config.devices[di] \* dev
Found(id) == \E i \in DOMAIN devices : devices[i].id = id

Named(d) == {k \in DOMAIN programs : programs[k].name = d}
FSAProgramsAll == DOMAIN programs \* a fault: without the comparison
FSAPrograms == UNION {Named(Device.programs[n]) : n \in DOMAIN Device.programs}
CurrentProgram(d) == IF Named(d) = {} THEN 0 ELSE First(Named(d))

Unidentified == programs \* a fault: no mRID is made

\* Each program a device is configured for gives every program a new mRID.
Identified ==
  IF Device.programs = <<>> THEN programs
  ELSE [k \in DOMAIN programs |-> [programs[k] EXCEPT
          !.mRID = uuid + (Len(Device.programs) - 1) * Latest + k]]

RegisterAgain == \* a fault: the look for the sFDI is forgotten
  /\ pc = "devices" /\ di <= Len(config.devices)
  /\ devices' = Append(devices,
       [id |-> Device.id, assigned |-> FSAPrograms # {},
        ders |-> [j \in DOMAIN Device.ders |-> CurrentProgram(Device.ders[j])]])
  /\ fsas' = IF FSAPrograms = {} THEN fsas ELSE Append(fsas, FSAPrograms)
  /\ programs' = Identified
  /\ uuid' = uuid + Len(Device.programs) * Latest
  /\ di' = di + 1
  /\ UNCHANGED <<config, pc, mention, ctl>>

RegisterDevice ==
  /\ pc = "devices" /\ di <= Len(config.devices) /\ ~Found(Device.id)
  /\ devices' = Append(devices,
       [id |-> Device.id, assigned |-> FSAPrograms # {},
        ders |-> [j \in DOMAIN Device.ders |-> CurrentProgram(Device.ders[j])]])
  /\ fsas' = IF FSAPrograms = {} THEN fsas ELSE Append(fsas, FSAPrograms)
  /\ programs' = Identified
  /\ uuid' = uuid + Len(Device.programs) * Latest
  /\ di' = di + 1
  /\ UNCHANGED <<config, pc, mention, ctl>>

\* A device that is there already ends the loop, and so does the last one.
DevicesReady ==
  /\ pc = "devices"
  /\ di <= Len(config.devices) => Found(Device.id)
  /\ pc' = "create"
  /\ UNCHANGED <<config, programs, devices, fsas, uuid, mention, ctl, di>>

Next == CreateProgram \/ AddControl \/ NextMention \/ ControlsAdded \/ AddDefault
          \/ DefaultAdded \/ ProgramsReady \/ RegisterDevice \/ DevicesReady

Spec == Init /\ [][Next]_vars
-----------------------------------------------------------------------------
(* What a device comes to by its links once the server runs. *)

\* GET /edev_<i>_fsa of a device: fetch_child takes the i-th of the FSA
\* adapters of the device, which has one at most, and raises when it has not
\* so many; a page is one FSA long by default.
FSAList(i) == IF i = 1 /\ devices[i].assigned THEN SubSeq(fsas, 1, 1) ELSE <<>>

\* DERProgramListLink of every FSA is /fsa_0_derp.
ProgramList(fsa) == fsas[1]

Reached(i) == UNION {ProgramList(FSAList(i)[k]) : k \in DOMAIN FSAList(i)}
-----------------------------------------------------------------------------
(* Properties. *)

TypeOK ==
  /\ config \in ConfigFile
  /\ programs \in Seq(Program)
  /\ devices \in Seq(EndDevice)
  /\ fsas \in Seq(SUBSET (1 .. Len(programs)))
  /\ uuid \in Nat
  /\ pc \in Stages
  /\ {mention, ctl, di} \subseteq Nat \ {0}

Running == pc = "running"
Configured(names) == {k \in DOMAIN config.programs :
  \E n \in DOMAIN names : config.programs[k].name = names[n]}

\* Though the devices are initialised once for each program, every configured
\* device is registered exactly once, at the index of the configuration (hrefs
\* are made of it), up to the first id that is repeated (enddevices.py 62-66).
DevicesRegistered ==
  LET ids == [i \in DOMAIN config.devices |-> config.devices[i].id]
  IN  /\ Len(devices) <= Len(ids)
      /\ \A i \in DOMAIN devices : devices[i].id = ids[i]
      /\ \A i, j \in DOMAIN devices : devices[i].id = devices[j].id => i = j
      /\ Running /\ programs # <<>> /\ Len(devices) < Len(ids)
           => \E i \in DOMAIN devices : devices[i].id = ids[Len(devices) + 1]

\* Each program has exactly the controls its section describes, none twice,
\* and its default (der.py 168-187): what DERControlEvents starts from.
ControlsAsConfigured == Running => \A k \in DOMAIN config.programs :
  LET section == config.programs[k] IN
  /\ Members(programs[k].derc) =
       {c \in Control : \E n \in DOMAIN section.controls :
                          config.controls[c] = section.controls[n]}
  /\ \A i, j \in DOMAIN programs[k].derc :
       href[programs[k].derc[i]] = href[programs[k].derc[j]] => i = j
  /\ programs[k].dderc # <<>>
  /\ config.controls[programs[k].dderc[1]] = section.default

\* The first device, when it is configured for the first program, comes by its
\* links (FSA list, FSA, program list) to the programs it is configured for
\* that existed in time: those with the name of the first (enddevices.py 84-109).
FirstDeviceServed == Running /\ devices # <<>> =>
  Reached(1) = IF 1 \in Configured(config.devices[1].programs) THEN {1} ELSE {}

\* "Each EndDevice will have the following sub-components initialized: ...
\* Either FSA or DemandResponseProgram" (enddevices.py 26-33).
ProgramsAssigned == Running => \A i \in DOMAIN devices :
  Configured(config.devices[i].programs) # {} => devices[i].assigned
=============================================================================
