--------------------------- MODULE StartupProofs ---------------------------
(***************************************************************************)
(* Theorems about Startup and ResourceTree: whatever the configuration     *)
(* file says, every device is registered once, at its own place, although  *)
(* the devices are initialised again after each program; every program     *)
(* gets the controls its section describes; the first device comes by its  *)
(* links to the programs it can come to; no page of a list leaves anything *)
(* out; and whatever device follows its links, and whatever is PUT below   *)
(* the DERs, a link leads to what it is for or is one of those that never  *)
(* do, and answers have what their classes require.                        *)
(***************************************************************************)
EXTENDS ResourceTree, AdapterLemmas

ids(i) == config.devices[i].id

\* There is a program to work on where start-up works on one.
Stage ==
  /\ Latest <= Len(config.programs)
  /\ pc \in {"controls", "default", "devices", "failed"} => Latest >= 1

\* The devices that are there are the first of the configuration.
Prefix ==
  /\ Len(devices) <= Len(config.devices)
  /\ \A i \in 1 .. Len(devices) : devices[i].id = ids(i)
  /\ \A i, j \in 1 .. Len(devices) : devices[i].id = devices[j].id => i = j

\* The devices are made in one pass over the configuration, after the first program ...
FirstPass ==
  /\ Latest = 0 \/ (Latest = 1 /\ pc \in {"controls", "default"}) => devices = <<>>
  /\ pc = "devices" => di = (IF Latest = 1 THEN Len(devices) + 1 ELSE 1)

\* ... and when it is over the first device is there, and whoever comes next
\* in the configuration is there already.
PassOver ==
  \/ Latest = 0
  \/ Latest = 1 /\ pc \in {"controls", "default", "devices", "failed"}
  \/ /\ devices # <<>>
     /\ Len(devices) < Len(config.devices) => Found(ids(Len(devices) + 1))

StartupInv == TypeOK /\ Stage /\ Prefix /\ FirstPass /\ PassOver
-----------------------------------------------------------------------------
(* What the types say of the parts the steps use. *)

LEMMA ConfigFacts ==
  ASSUME TypeOK
  PROVE  /\ config.programs \in Seq(ProgramConfig) /\ Len(config.programs) \in Nat
         /\ config.devices \in Seq(DeviceConfig) /\ Len(config.devices) \in Nat \ {0}
         /\ config.controls \in Seq(Name) /\ Len(config.controls) \in Nat
         /\ Len(programs) \in Nat /\ DOMAIN programs = 1 .. Len(programs)
         /\ Len(devices) \in Nat /\ DOMAIN devices = 1 .. Len(devices)
<1>1. /\ config \in [controls : Seq(Name), programs : Seq(ProgramConfig),
                     devices : Seq(DeviceConfig)]
      /\ config.devices # <<>>
  BY ConfigurationType, DevicesAssumption DEF TypeOK
<1>2. /\ config.programs \in Seq(ProgramConfig)
      /\ config.devices \in Seq(DeviceConfig)
      /\ config.controls \in Seq(Name)
  BY <1>1
<1> QED BY <1>1, <1>2, LenProperties, EmptySeq DEF TypeOK

\* A child is put into one list of the program that is being made.
LEMMA ListTypes ==
  ASSUME TypeOK, Latest >= 1, ctl <= Len(config.controls)
  PROVE  /\ [programs EXCEPT ![Latest].derc = Added(@, ctl)] \in Seq(Program)
         /\ Len([programs EXCEPT ![Latest].derc = Added(@, ctl)]) = Len(programs)
         /\ [programs EXCEPT ![Latest].dderc = Added(@, ctl)] \in Seq(Program)
         /\ Len([programs EXCEPT ![Latest].dderc = Added(@, ctl)]) = Len(programs)
<1>1. Latest \in 1 .. Len(programs)
  BY ConfigFacts DEF Latest
<1>2. programs[Latest] \in Program
  BY <1>1, ElementOfSeq DEF TypeOK
<1> DEFINE old == programs[Latest]
           derc == Added(old.derc, ctl)
           dderc == Added(old.dderc, ctl)
<1>3. ctl \in Nat
  BY DEF TypeOK
<1>4. derc \in Seq(Nat) /\ dderc \in Seq(Nat)
  <2>1. old.derc \in Seq(Nat) /\ old.dderc \in Seq(Nat)
    BY <1>2 DEF Program
  <2> QED BY <1>3, <2>1, AddReplaceChildSeq DEF Added
<1> HIDE DEF derc, dderc
<1>5. /\ [old EXCEPT !.derc = derc] \in Program
      /\ [old EXCEPT !.dderc = dderc] \in Program
  BY <1>2, <1>4 DEF Program
<1>6. /\ [programs EXCEPT ![Latest].derc = Added(@, ctl)]
           = [programs EXCEPT ![Latest] = [old EXCEPT !.derc = derc]]
      /\ [programs EXCEPT ![Latest].dderc = Added(@, ctl)]
           = [programs EXCEPT ![Latest] = [old EXCEPT !.dderc = dderc]]
  BY DEF derc, dderc
<1> HIDE DEF old
<1>7. ASSUME NEW r \in Program
      PROVE  /\ [programs EXCEPT ![Latest] = r] \in Seq(Program)
             /\ Len([programs EXCEPT ![Latest] = r]) = Len(programs)
  <2> DEFINE n == Latest
  <2>1. programs \in Seq(Program) /\ n \in 1 .. Len(programs)
    BY <1>1 DEF TypeOK
  <2> HIDE DEF n
  <2>2. /\ [programs EXCEPT ![n] = r] \in Seq(Program)
        /\ Len([programs EXCEPT ![n] = r]) = Len(programs)
    BY <2>1, ExceptSeq
  <2> QED BY <2>2 DEF n
<1>8. /\ [programs EXCEPT ![Latest] = [old EXCEPT !.derc = derc]] \in Seq(Program)
      /\ Len([programs EXCEPT ![Latest] = [old EXCEPT !.derc = derc]]) = Len(programs)
  BY <1>5, <1>7
<1>9. /\ [programs EXCEPT ![Latest] = [old EXCEPT !.dderc = dderc]] \in Seq(Program)
      /\ Len([programs EXCEPT ![Latest] = [old EXCEPT !.dderc = dderc]]) = Len(programs)
  BY <1>5, <1>7
<1> QED BY <1>6, <1>8, <1>9, Zenon

\* What a new device is made of.
LEMMA DeviceTypes ==
  ASSUME TypeOK, di <= Len(config.devices)
  PROVE  /\ Device \in DeviceConfig
         /\ FSAPrograms \subseteq 1 .. Len(programs)
         /\ [j \in DOMAIN Device.ders |-> CurrentProgram(Device.ders[j])] \in Seq(Nat)
         /\ Identified \in Seq(Program) /\ Len(Identified) = Len(programs)
         /\ uuid + Len(Device.programs) * Latest \in Nat
<1>1. Device \in DeviceConfig
  BY ConfigFacts, ElementOfSeq DEF Device, TypeOK
<1>2. Device.ders \in Seq(Name \cup {NoName}) /\ Device.programs \in Seq(Name)
  BY <1>1 DEF DeviceConfig
<1>3. \A d : Named(d) \subseteq 1 .. Len(programs)
  BY ConfigFacts DEF Named
<1>4. FSAPrograms \subseteq 1 .. Len(programs)
  BY <1>3 DEF FSAPrograms
<1>5. \A d : CurrentProgram(d) \in Nat
  <2>1. ASSUME NEW d PROVE CurrentProgram(d) \in Nat
    <3>1. Named(d) \in SUBSET Nat
      BY <1>3, ConfigFacts
    <3>2. Named(d) # {} => First(Named(d)) \in Nat
      BY <3>1, FirstLeast
    <3> QED BY <3>2 DEF CurrentProgram
  <2> QED BY <2>1
<1>6. [j \in DOMAIN Device.ders |-> CurrentProgram(Device.ders[j])] \in Seq(Nat)
  <2> DEFINE n == Len(Device.ders)
             e == [j \in 1 .. n |-> CurrentProgram(Device.ders[j])]
  <2>1. n \in Nat /\ DOMAIN Device.ders = 1 .. n
    BY <1>2, LenProperties
  <2>2. \A j \in 1 .. n : CurrentProgram(Device.ders[j]) \in Nat
    BY <1>5
  <2> HIDE DEF n
  <2>3. e \in Seq(Nat)
    BY <2>1, <2>2
  <2> QED BY <2>1, <2>3
<1>7. uuid \in Nat /\ Latest \in Nat /\ Len(Device.programs) \in Nat
  BY <1>2, ConfigFacts, LenProperties DEF TypeOK, Latest
<1>8. uuid + Len(Device.programs) * Latest \in Nat
  BY <1>7
<1>9. Identified \in Seq(Program) /\ Len(Identified) = Len(programs)
  <2>1. CASE Device.programs = <<>>
    BY <2>1 DEF Identified, TypeOK
  <2>2. CASE Device.programs # <<>>
    <3> DEFINE base == uuid + (Len(Device.programs) - 1) * Latest
               n == Len(programs)
               named(k) == [programs[k] EXCEPT !.mRID = base + k]
               e == [k \in 1 .. n |-> named(k)]
    <3>1. base \in Nat
      <4>1. Len(Device.programs) - 1 \in Nat
        BY <1>2, <2>2, EmptySeq
      <4> HIDE DEF Latest
      <4> QED BY <1>7, <4>1
    <3> HIDE DEF base
    <3>2. n \in Nat /\ DOMAIN programs = 1 .. n
      BY ConfigFacts
    <3>3. \A k \in 1 .. n : named(k) \in Program
      <4>1. ASSUME NEW k \in 1 .. n PROVE named(k) \in Program
        <5>1. programs[k] \in Program
          BY ElementOfSeq DEF TypeOK
        <5>2. base + k \in Nat
          BY <3>1, <3>2
        <5>3. ASSUME NEW r \in Program, NEW m \in Nat
              PROVE  [r EXCEPT !.mRID = m] \in Program
          BY DEF Program
        <5> QED BY <5>1, <5>2, <5>3
      <4> QED BY <4>1
    <3>4. Identified = e
      BY <2>2, <3>2 DEF Identified, base
    <3> HIDE DEF n, named
    <3>5. e \in Seq(Program) /\ Len(e) = n
      BY <3>2, <3>3
    <3> QED BY <3>4, <3>5 DEF n
  <2> QED BY <2>1, <2>2
<1> QED BY <1>1, <1>4, <1>6, <1>8, <1>9
-----------------------------------------------------------------------------
(* The steps. *)

LEMMA InitEstablishes == Init => StartupInv
<1> SUFFICES ASSUME Init PROVE StartupInv
  OBVIOUS
<1>1. programs = <<>> /\ devices = <<>> /\ fsas = <<>> /\ Latest = 0
  BY EmptySeq DEF Init, Latest
<1>2. TypeOK
  BY <1>1, EmptySeq DEF Init, TypeOK, Stages
<1>3. Len(config.programs) \in Nat /\ Len(config.devices) \in Nat /\ Len(devices) = 0
  BY <1>1, <1>2, ConfigFacts, EmptySeq
<1> QED BY <1>1, <1>2, <1>3
        DEF Init, StartupInv, Stage, Prefix, FirstPass, PassOver

\* A new program starts a new pass; what is there stays.
LEMMA CreateProgramKeeps ==
  ASSUME StartupInv, CreateProgram
  PROVE  StartupInv'
<1> USE DEF StartupInv, CreateProgram
<1> DEFINE new == [name |-> config.programs[Latest + 1].name,
                   mRID |-> 0, derc |-> <<>>, dderc |-> <<>>]
           n == Len(programs)
<1>1. n \in Nat /\ Latest = n /\ n + 1 \in 1 .. Len(config.programs)
  BY ConfigFacts DEF Latest
<1>2. new \in Program
  <2>1. config.programs[n + 1] \in ProgramConfig
    BY <1>1, ConfigFacts, ElementOfSeq
  <2> QED BY <1>1, <2>1, EmptySeq DEF ProgramConfig, Program
<1> HIDE DEF new
<1>3. programs' \in Seq(Program) /\ Len(programs') = n + 1
  <2>1. programs' = Append(programs, new) /\ programs \in Seq(Program)
    BY DEF new, TypeOK
  <2> QED BY <1>2, <2>1, AppendProperties
<1>4. fsas \in Seq(SUBSET (1 .. n + 1))
  <2>1. fsas \in Seq(SUBSET (1 .. n)) /\ SUBSET (1 .. n) \subseteq SUBSET (1 .. n + 1)
    BY <1>1 DEF TypeOK
  <2> QED BY <2>1, SeqMonotonic
<1>5. Latest' = n + 1
  BY <1>3 DEF Latest
<1>6. TypeOK'
  BY <1>3, <1>4 DEF TypeOK, Stages
<1>7. Stage' /\ Prefix'
  BY <1>1, <1>5 DEF Stage, Prefix, ids
<1>8. FirstPass' /\ PassOver'
  BY <1>1, <1>5 DEF FirstPass, PassOver, Found, ids
<1> QED BY <1>6, <1>7, <1>8

\* A control is looked at: at most the lists of the latest program change.
LEMMA AddControlKeeps ==
  ASSUME StartupInv, AddControl \/ AddDefault
  PROVE  StartupInv'
<1> USE DEF StartupInv
<1>1. Latest >= 1 /\ ctl <= Len(config.controls)
  BY DEF AddControl, AddDefault, Stage
<1>2. programs' \in Seq(Program) /\ Len(programs') = Len(programs)
  <2>1. \/ programs' = programs
        \/ programs' = [programs EXCEPT ![Latest].derc = Added(@, ctl)]
        \/ programs' = [programs EXCEPT ![Latest].dderc = Added(@, ctl)]
    BY Zenon DEF AddControl, AddDefault
  <2> QED BY <1>1, <2>1, ListTypes, Zenon DEF TypeOK
<1>3. /\ ctl' = ctl + 1
      /\ UNCHANGED <<config, devices, fsas, uuid, pc, mention, di>>
  BY DEF AddControl, AddDefault
<1>4. Latest' = Latest
  BY <1>2 DEF Latest
<1>5. TypeOK'
  BY <1>2, <1>3 DEF TypeOK
<1>6. Stage' /\ Prefix' /\ FirstPass' /\ PassOver'
  BY <1>3, <1>4 DEF Stage, Prefix, FirstPass, PassOver, Found, ids
<1> QED BY <1>5, <1>6

\* The loops over mentions and controls go on or end; the signal is sent.
LEMMA LoopKeeps ==
  ASSUME StartupInv, NextMention \/ ControlsAdded \/ DefaultAdded \/ ProgramsReady
  PROVE  StartupInv'
<1> USE DEF StartupInv
<1>1. UNCHANGED <<config, programs, devices, fsas, uuid>>
  BY DEF NextMention, ControlsAdded, DefaultAdded, ProgramsReady
<1>2. Latest' = Latest /\ Latest \in Nat
  BY <1>1, ConfigFacts DEF Latest
<1>3. TypeOK'
  BY <1>1 DEF NextMention, ControlsAdded, DefaultAdded, ProgramsReady, TypeOK, Stages
<1>4. Prefix'
  BY <1>1 DEF Prefix, ids
<1>5. Stage' /\ FirstPass' /\ PassOver'
  <2>1. CASE NextMention \/ ControlsAdded
    BY <1>1, <1>2, <2>1
       DEF NextMention, ControlsAdded, Stage, FirstPass, PassOver, Found, ids
  <2>2. CASE DefaultAdded
    <3>1. Latest = 1 => devices = <<>>
      BY <2>2 DEF DefaultAdded, FirstPass
    <3>2. devices = <<>> => Len(devices) + 1 = 1
      BY EmptySeq
    <3> QED BY <1>1, <1>2, <2>2, <3>1, <3>2
            DEF DefaultAdded, Stage, FirstPass, PassOver, Found, ids
  <2>3. CASE ProgramsReady
    BY <1>1, <1>2, <2>3 DEF ProgramsReady, Stage, FirstPass, PassOver, Found, ids
  <2> QED BY <2>1, <2>2, <2>3
<1> QED BY <1>3, <1>4, <1>5

\* A device is only made while the first program is alone: later the first
\* device of the configuration is there already.
LEMMA RegisterFirst ==
  ASSUME StartupInv, RegisterDevice
  PROVE  Latest = 1 /\ di = Len(devices) + 1
<1> USE DEF StartupInv
<1>1. pc = "devices" /\ Len(devices) \in Nat /\ DOMAIN devices = 1 .. Len(devices)
  BY ConfigFacts DEF RegisterDevice
<1>2. Latest = 1
  <2>1. SUFFICES ASSUME Latest # 1 PROVE FALSE
    OBVIOUS
  <2>2. di = 1 /\ devices # <<>>
    BY <1>1, <2>1, ConfigFacts DEF FirstPass, PassOver, Latest, Stage
  <2>3. 1 \in DOMAIN devices
    BY <1>1, <2>2, EmptySeq DEF TypeOK
  <2>4. Found(Device.id)
    BY <1>1, <2>2, <2>3 DEF Prefix, ids, Found, Device
  <2> QED BY <2>4 DEF RegisterDevice
<1>3. di = Len(devices) + 1
  BY <1>1, <1>2 DEF FirstPass
<1> QED BY <1>2, <1>3

LEMMA RegisterKeeps ==
  ASSUME StartupInv, RegisterDevice
  PROVE  StartupInv'
<1> USE DEF StartupInv
<1> DEFINE n == Len(devices)
           new == [id |-> Device.id, assigned |-> FSAPrograms # {},
                   ders |-> [j \in DOMAIN Device.ders |-> CurrentProgram(Device.ders[j])]]
<1>0. n \in Nat /\ DOMAIN devices = 1 .. n
  BY ConfigFacts
<1>1. pc = "devices" /\ di <= Len(config.devices) /\ Latest >= 1
  BY DEF RegisterDevice, Stage
<1>2. Latest = 1 /\ di = n + 1
  BY RegisterFirst
<1>3. di = n + 1
  BY <1>2
<1>4. new \in EndDevice
  <2>1. Device.id \in Id
    BY <1>1, DeviceTypes DEF DeviceConfig
  <2>2. (FSAPrograms # {}) \in BOOLEAN
    OBVIOUS
  <2>3. new.ders \in Seq(Nat)
    BY <1>1, DeviceTypes
  <2> QED BY <2>1, <2>2, <2>3 DEF EndDevice
<1> DEFINE longer == Append(devices, new)
<1>5. devices' = longer
  BY DEF RegisterDevice
<1>i. new.id = ids(n + 1)
  BY <1>3 DEF Device, ids
<1> HIDE DEF new
<1>6. /\ longer \in Seq(EndDevice) /\ Len(longer) = n + 1
      /\ \A i \in 1 .. n : longer[i] = devices[i]
      /\ longer[n + 1] = new
  BY <1>4, AppendProperties DEF TypeOK
<1> HIDE DEF longer
<1>7. /\ config' = config /\ pc' = pc /\ di' = di + 1
      /\ mention' = mention /\ ctl' = ctl
  BY DEF RegisterDevice
<1>8. programs' \in Seq(Program) /\ Len(programs') = Len(programs) /\ uuid' \in Nat
  BY <1>1, DeviceTypes DEF RegisterDevice
<1>9. fsas' \in Seq(SUBSET (1 .. Len(programs')))
  <2>1. fsas \in Seq(SUBSET (1 .. Len(programs)))
    BY DEF TypeOK
  <2>2. FSAPrograms \in SUBSET (1 .. Len(programs))
    BY <1>1, DeviceTypes
  <2>3. Append(fsas, FSAPrograms) \in Seq(SUBSET (1 .. Len(programs)))
    BY <2>1, <2>2, AppendProperties
  <2> QED BY <1>8, <2>1, <2>3 DEF RegisterDevice
<1>10. TypeOK'
  BY <1>5, <1>6, <1>7, <1>8, <1>9 DEF TypeOK
<1>11. Latest' = Latest
  BY <1>8 DEF Latest
<1>12. Stage' /\ FirstPass' /\ PassOver'
  BY <1>0, <1>1, <1>2, <1>3, <1>5, <1>6, <1>7, <1>11 DEF Stage, FirstPass, PassOver
<1>13. Prefix'
  <2>1. \A i \in 1 .. n + 1 : longer[i].id = ids(i)
    BY <1>0, <1>6, <1>i DEF Prefix
  <2>2. \A i \in 1 .. n : longer[i].id # longer[n + 1].id
    BY <1>0, <1>6, <1>i, <1>3 DEF RegisterDevice, Found, Device, ids
  <2>3. \A i, j \in 1 .. n : longer[i].id = longer[j].id => i = j
    BY <1>6 DEF Prefix
  <2>4. \A i, j \in 1 .. n + 1 : longer[i].id = longer[j].id => i = j
    BY <1>0, <2>2, <2>3
  <2>5. n + 1 <= Len(config.devices)
    BY <1>1, <1>3
  <2> QED BY <1>5, <1>6, <1>7, <2>1, <2>4, <2>5 DEF Prefix, ids
<1> QED BY <1>10, <1>12, <1>13

LEMMA ReadyKeeps ==
  ASSUME StartupInv, DevicesReady
  PROVE  StartupInv'
<1> USE DEF StartupInv
<1>1. /\ UNCHANGED <<config, programs, devices, fsas, uuid, mention, ctl, di>>
      /\ pc = "devices" /\ pc' = "create"
      /\ di <= Len(config.devices) => Found(Device.id)
  BY DEF DevicesReady
<1>2. Latest' = Latest /\ Latest \in Nat /\ Latest >= 1
  BY <1>1, ConfigFacts DEF Latest, Stage
<1>3. TypeOK' /\ Stage' /\ Prefix' /\ FirstPass'
  BY <1>1, <1>2 DEF TypeOK, Stages, Stage, Prefix, FirstPass, ids
<1>4. PassOver'
  <2>1. CASE Latest # 1
    BY <1>1, <1>2, <2>1 DEF PassOver, Found, ids
  <2>2. CASE Latest = 1
    <3>1. di = Len(devices) + 1
      BY <1>1, <2>2 DEF FirstPass
    <3>2. Len(devices) < Len(config.devices) => Found(ids(Len(devices) + 1))
      BY <1>1, <3>1, ConfigFacts DEF Device, ids
    <3>3. devices # <<>>
      <4>1. SUFFICES ASSUME devices = <<>> PROVE FALSE
        OBVIOUS
      <4>2. Len(devices) = 0 /\ DOMAIN devices = {}
        BY <4>1, ConfigFacts, EmptySeq
      <4>3. ~Found(ids(1))
        BY <4>2 DEF Found
      <4> QED BY <3>2, <4>2, <4>3, ConfigFacts
    <3> QED BY <1>1, <1>2, <3>2, <3>3 DEF PassOver, Found, ids
  <2> QED BY <2>1, <2>2
<1> QED BY <1>3, <1>4

LEMMA StepPreserves == StartupInv /\ [Next]_vars => StartupInv'
<1> SUFFICES ASSUME StartupInv, [Next]_vars PROVE StartupInv'
  OBVIOUS
<1>1. CASE CreateProgram
  BY <1>1, CreateProgramKeeps
<1>2. CASE AddControl \/ AddDefault
  BY <1>2, AddControlKeeps
<1>3. CASE NextMention \/ ControlsAdded \/ DefaultAdded \/ ProgramsReady
  BY <1>3, LoopKeeps
<1>4. CASE RegisterDevice
  BY <1>4, RegisterKeeps
<1>5. CASE DevicesReady
  BY <1>5, ReadyKeeps
<1>6. CASE UNCHANGED vars
  BY <1>6 DEF vars, StartupInv, TypeOK, Stage, Prefix, FirstPass, PassOver,
              Latest, Found, ids
<1> QED BY <1>1, <1>2, <1>3, <1>4, <1>5, <1>6 DEF Next
-----------------------------------------------------------------------------
(* The theorems. *)

LEMMA StartupInvariant == Spec => []StartupInv
BY InitEstablishes, StepPreserves, PTL DEF Spec

\* Start-up keeps its types for every configuration file: every FSA is a set of
\* programs that exist, every current program of a DER is one or none.
THEOREM StartupTypeCorrect == Spec => []TypeOK
BY StartupInvariant, PTL DEF StartupInv

\* However many programs send the ready signal (der.py:199), each configured
\* device is registered once and at its own index, up to the first repeated id.
THEOREM EveryDeviceRegistered == Spec => []DevicesRegistered
<1>1. StartupInv => DevicesRegistered
  <2> SUFFICES ASSUME StartupInv PROVE DevicesRegistered
    OBVIOUS
  <2>1. /\ Len(devices) \in Nat /\ DOMAIN devices = 1 .. Len(devices)
        /\ Len(config.devices) \in Nat /\ DOMAIN config.devices = 1 .. Len(config.devices)
        /\ Len(programs) \in Nat /\ Latest = Len(programs)
    BY ConfigFacts, LenProperties DEF StartupInv, Latest
  <2> DEFINE of == [i \in DOMAIN config.devices |-> config.devices[i].id]
  <2>2. Len(of) = Len(config.devices)
    BY <2>1
  <2>3. \A i \in 1 .. Len(config.devices) : of[i] = ids(i)
    BY <2>1 DEF ids
  <2> HIDE DEF of
  <2>4. /\ Len(devices) <= Len(of)
        /\ \A i \in DOMAIN devices : devices[i].id = of[i]
        /\ \A i, j \in DOMAIN devices : devices[i].id = devices[j].id => i = j
    BY <2>1, <2>2, <2>3 DEF StartupInv, Prefix
  <2>5. ASSUME Running, programs # <<>>, Len(devices) < Len(of)
        PROVE  \E i \in DOMAIN devices : devices[i].id = of[Len(devices) + 1]
    <3>1. Latest >= 1
      BY <2>1, <2>5, EmptySeq DEF StartupInv, TypeOK
    <3>2. Found(ids(Len(devices) + 1))
      BY <2>1, <2>2, <2>5, <3>1 DEF StartupInv, PassOver, Running
    <3> QED BY <2>1, <2>2, <2>3, <2>5, <3>2 DEF Found
  <2> QED BY <2>4, <2>5 DEF DevicesRegistered, of
<1> QED BY <1>1, StartupInvariant, PTL

-----------------------------------------------------------------------------
(* The controls of the programs. *)

Described(k) == {c \in Control :
  \E n \in DOMAIN config.programs[k].controls : config.controls[c] = config.programs[k].controls[n]}

\* What has been described before mention m and control c of the two loops.
Mentioned(k, m, c) == {x \in Control : \E n \in DOMAIN config.programs[k].controls :
  (n < m \/ (n = m /\ x < c)) /\ config.controls[x] = config.programs[k].controls[n]}

HasControls(k) == Members(programs[k].derc) = Described(k) /\ Distinct(programs[k].derc, href)
Defaulting(k) == \A c \in Members(programs[k].dderc) :
  c \in Control /\ config.controls[c] = config.programs[k].default
Defaulted(k) == programs[k].dderc # <<>> /\ Defaulting(k)

\* The programs before the latest are done; the latest is as far as the loops are.
ControlLists ==
  /\ \A k \in 1 .. Latest :
       k < Latest \/ pc \in {"create", "devices", "running"} => HasControls(k) /\ Defaulted(k)
  /\ pc = "controls" =>
       /\ Members(programs[Latest].derc) = Mentioned(Latest, mention, ctl)
       /\ Distinct(programs[Latest].derc, href)
       /\ programs[Latest].dderc = <<>>
  /\ pc = "default" => HasControls(Latest) /\ Defaulting(Latest)
  /\ pc = "running" => Latest = Len(config.programs)

\* One program changes, in its list derc or dderc; the others stay.
LEMMA OneProgram ==
  ASSUME TypeOK, Latest >= 1, NEW r,
         programs' = [programs EXCEPT ![Latest] = r]
  PROVE  /\ Latest' = Latest /\ Latest \in 1 .. Latest
         /\ programs'[Latest] = r
         /\ \A k \in 1 .. Latest : k < Latest => programs'[k] = programs[k]
<1>1. programs \in Seq(Program) /\ Latest \in 1 .. Len(programs) /\ Latest = Len(programs)
      /\ DOMAIN programs = 1 .. Len(programs) /\ Len(programs) \in Nat
  BY ConfigFacts DEF Latest, TypeOK
<1> DEFINE n == Latest
<1>2. \A k \in 1 .. n : programs'[k] = IF k = n THEN r ELSE programs[k]
  BY <1>1
<1>3. DOMAIN programs' = 1 .. n
  BY <1>1
<1>4. Len(programs') = n
  <2> DEFINE m == Len(programs)
  <2>1. m \in Nat /\ n = m /\ programs' = [programs EXCEPT ![m] = r]
    BY <1>1
  <2>2. programs' = [i \in 1 .. m |-> IF i = m THEN r ELSE programs[i]]
    BY <1>1, <2>1
  <2> HIDE DEF m, n
  <2>3. Len([i \in 1 .. m |-> IF i = m THEN r ELSE programs[i]]) = m
    BY <2>1
  <2> QED BY <2>1, <2>2, <2>3
<1>5. Latest' = Len(programs')
  BY DEF Latest
<1> QED BY <1>1, <1>2, <1>4, <1>5

LEMMA SameConfig ==
  ASSUME config' = config
  PROVE  /\ Control' = Control /\ href' = href
         /\ \A k : Described(k)' = Described(k)
         /\ \A k, m, c : Mentioned(k, m, c)' = Mentioned(k, m, c)
<1>1. Control' = Control
  BY DEF Control
<1>2. href' = href
  BY <1>1 DEF href
<1> QED BY <1>1, <1>2 DEF Described, Mentioned

\* A program that keeps its two lists is as done as it was.
LEMMA SameProgram ==
  ASSUME config' = config, NEW k, programs'[k].derc = programs[k].derc,
         programs'[k].dderc = programs[k].dderc
  PROVE  (HasControls(k)' <=> HasControls(k)) /\ (Defaulting(k)' <=> Defaulting(k))
         /\ (Defaulted(k)' <=> Defaulted(k))
BY SameConfig DEF HasControls, Defaulting, Defaulted

LEMMA CreateLists ==
  ASSUME StartupInv, ControlLists, CreateProgram
  PROVE  ControlLists'
<1> DEFINE new == [name |-> config.programs[Latest + 1].name,
                   mRID |-> 0, derc |-> <<>>, dderc |-> <<>>]
<1>0. PICK n \in Nat : n = Latest
  BY ConfigFacts DEF Latest, StartupInv
<1>1. /\ programs' = Append(programs, new) /\ config' = config /\ pc = "create"
      /\ pc' = "controls" /\ mention' = 1 /\ ctl' = 1
  BY DEF CreateProgram
<1>2. n \in Nat /\ n = Len(programs) /\ DOMAIN programs = 1 .. n
  BY <1>0, ConfigFacts DEF Latest, StartupInv
<1>3. /\ \A k \in 1 .. n : programs'[k] = programs[k]
      /\ programs'[n + 1] = new /\ Latest' = n + 1
  <2>1. programs \in Seq(Program) /\ new \in {new} \cup Program /\ programs \in Seq({new} \cup Program)
    BY SeqMonotonic DEF StartupInv, TypeOK
  <2> HIDE DEF new
  <2>2. /\ Len(Append(programs, new)) = Len(programs) + 1
        /\ \A k \in 1 .. Len(programs) : Append(programs, new)[k] = programs[k]
        /\ Append(programs, new)[Len(programs) + 1] = new
    BY <2>1, AppendProperties
  <2> QED BY <1>1, <1>2, <2>2 DEF Latest
<1>4. new.derc = <<>> /\ new.dderc = <<>>
  OBVIOUS
<1>5. \A k \in 1 .. n : HasControls(k)' /\ Defaulted(k)'
  BY <1>0, <1>1, <1>3, SameProgram DEF ControlLists
<1>6. Mentioned(n + 1, 1, 1) = {}
  <2>1. config.programs \in Seq(ProgramConfig) /\ n + 1 \in 1 .. Len(config.programs)
        /\ DOMAIN config.controls = 1 .. Len(config.controls) /\ Len(config.controls) \in Nat
    BY <1>0, <1>2, ConfigFacts, LenProperties DEF StartupInv, CreateProgram
  <2>2. config.programs[n + 1] \in ProgramConfig
    BY <2>1, ElementOfSeq
  <2>3. config.programs[n + 1].controls \in Seq(Name)
    BY <2>2 DEF ProgramConfig
  <2>4. /\ DOMAIN config.programs[n + 1].controls = 1 .. Len(config.programs[n + 1].controls)
        /\ Len(config.programs[n + 1].controls) \in Nat
    BY <2>3, LenProperties
  <2> QED BY <2>1, <2>4 DEF Mentioned, Control
<1> HIDE DEF new
<1>7. Members(programs'[n + 1].derc) = {} /\ Distinct(programs'[n + 1].derc, href')
  BY <1>3, <1>4 DEF Members, Distinct
<1>8. \A k \in 1 .. n + 1 : k < n + 1 => k \in 1 .. n
  BY <1>2
<1>9. Mentioned(n + 1, 1, 1)' = {}
  BY <1>1, <1>6, SameConfig
<1>10. Members(programs[n + 1].derc)' = {} /\ Distinct(programs[n + 1].derc, href)'
  BY <1>7 DEF Members, Distinct
<1> QED BY <1>1, <1>3, <1>4, <1>5, <1>8, <1>9, <1>10 DEF ControlLists

\* The href of a control tells it from all others.
LEMMA ControlAdded ==
  ASSUME NEW list \in Seq(Nat), Members(list) \subseteq Control, NEW c \in Control, c \in Nat,
         Distinct(list, href), Control \subseteq Nat
  PROVE  Members(Added(list, c)) = Members(list) \cup {c} /\ Distinct(Added(list, c), href)
<1>1. \A x \in Members(list) : href[x] = href[c] => x = c
  <2> SUFFICES ASSUME NEW x \in Members(list), href[x] = href[c] PROVE x = c
    OBVIOUS
  <2>1. x \in Control /\ x \in Nat
    OBVIOUS
  <2>2. <<"der_derc", x - 1>> = <<"der_derc", c - 1>>
    BY <2>1 DEF href
  <2> QED BY <2>1, <2>2
<1>2. Members(AddReplaceChild(list, c, href)) = Members(list) \cup {c}
  <2>1. PICK f : f = href
    OBVIOUS
  <2>2. \A x \in Members(list) : f[x] = f[c] => x = c
    BY <1>1, <2>1
  <2>3. Members(AddReplaceChild(list, c, f)) = Members(list) \cup {c}
    <3>1. \A T : list \in Seq(T) /\ c \in T =>
            Members(AddReplaceChild(list, c, f)) = Members(list) \cup {c}
      BY <2>2, AddReplaceChildKeeps
    <3> QED BY <3>1
  <2> QED BY <2>1, <2>3
<1>3. Distinct(AddReplaceChild(list, c, href), href)
  BY AddReplaceChildDistinct
<1> QED BY <1>2, <1>3 DEF Added


\* The section of program k and the controls of the file are lists.
LEMMA SectionFacts ==
  ASSUME TypeOK, NEW k \in 1 .. Latest, Latest <= Len(config.programs)
  PROVE  /\ programs[k] \in Program
         /\ DOMAIN config.programs[k].controls = 1 .. Len(config.programs[k].controls)
         /\ Len(config.programs[k].controls) \in Nat
         /\ Control = 1 .. Len(config.controls) /\ Len(config.controls) \in Nat
         /\ Control \subseteq Nat
<1>1. k \in 1 .. Len(programs) /\ k \in 1 .. Len(config.programs)
  BY ConfigFacts DEF Latest
<1>2. programs[k] \in Program /\ config.programs[k] \in ProgramConfig
  BY <1>1, ConfigFacts, ElementOfSeq DEF TypeOK
<1>3. config.programs[k].controls \in Seq(Name) /\ config.controls \in Seq(Name)
  BY <1>2, ConfigFacts DEF ProgramConfig
<1> QED BY <1>2, <1>3, LenProperties DEF Control

\* What the next control adds to those that have been looked at.
LEMMA MentionedMore ==
  ASSUME NEW n, NEW m \in Nat, NEW c \in Nat, c \in Control, Control \subseteq Nat,
         m \in DOMAIN config.programs[n].controls,
         DOMAIN config.programs[n].controls \subseteq Nat
  PROVE  /\ config.controls[c] = config.programs[n].controls[m]
              => Mentioned(n, m, c + 1) = Mentioned(n, m, c) \cup {c}
         /\ config.controls[c] # config.programs[n].controls[m]
              => Mentioned(n, m, c + 1) = Mentioned(n, m, c)
<1> DEFINE before(x, y) == \E k \in DOMAIN config.programs[n].controls :
             (k < m \/ (k = m /\ x < y)) /\ config.controls[x] = config.programs[n].controls[k]
<1>1. \A x \in Control : x < c + 1 <=> x < c \/ x = c
  <2> SUFFICES ASSUME NEW x \in Control, x \in Nat PROVE x < c + 1 <=> x < c \/ x = c
    OBVIOUS
  <2> QED OBVIOUS
<1>2. \A x \in Control : x # c => (before(x, c + 1) <=> before(x, c))
  BY <1>1
<1>3. config.controls[c] = config.programs[n].controls[m] => before(c, c + 1)
  OBVIOUS
<1>4. config.controls[c] # config.programs[n].controls[m] => (before(c, c + 1) <=> before(c, c))
  OBVIOUS
<1>5. \A y : Mentioned(n, m, y) = {x \in Control : before(x, y)}
  BY DEF Mentioned
<1> HIDE DEF before
<1>6. \A x \in Control : x \in Mentioned(n, m, c + 1) =>
        \/ x \in Mentioned(n, m, c)
        \/ x = c /\ config.controls[c] = config.programs[n].controls[m]
  BY <1>2, <1>4, <1>5
<1>7. Mentioned(n, m, c) \subseteq Mentioned(n, m, c + 1)
  <2>1. before(c, c) => before(c, c + 1)
    BY DEF before
  <2> QED BY <1>2, <1>5, <2>1
<1>8. config.controls[c] = config.programs[n].controls[m] => c \in Mentioned(n, m, c + 1)
  BY <1>3, <1>5
<1>9. Mentioned(n, m, c + 1) \subseteq Control
  BY <1>5
<1> QED BY <1>6, <1>7, <1>8, <1>9

LEMMA AddControlLists ==
  ASSUME StartupInv, ControlLists, AddControl
  PROVE  ControlLists'
<1> USE DEF StartupInv
<1>1. PICK n \in Nat : n = Latest /\ n \in 1 .. Latest /\ n <= Len(config.programs)
  BY ConfigFacts DEF Latest, Stage, AddControl
<1>2. PICK c \in Nat : c = ctl /\ c \in Control
  BY <1>1, SectionFacts DEF AddControl, TypeOK
<1>3. PICK m \in Nat : m = mention /\ m \in DOMAIN config.programs[n].controls
  <2>1. mention \in Nat \ {0} /\ mention <= Len(config.programs[n].controls)
    BY <1>1 DEF AddControl, TypeOK, Section
  <2>2. /\ DOMAIN config.programs[n].controls = 1 .. Len(config.programs[n].controls)
        /\ Len(config.programs[n].controls) \in Nat
    BY <1>1, SectionFacts
  <2> QED BY <2>1, <2>2
<1>4. /\ config' = config /\ pc = "controls" /\ pc' = pc /\ mention' = m /\ ctl' = c + 1
      /\ Section = config.programs[n]
  BY <1>1, <1>2, <1>3 DEF AddControl, Section
<1> DEFINE list == programs[n].derc
<1>5. /\ list \in Seq(Nat) /\ Members(list) = Mentioned(n, m, c)
      /\ Distinct(list, href) /\ programs[n].dderc = <<>>
  BY <1>1, <1>2, <1>3, <1>4, SectionFacts DEF ControlLists, Program
<1>6. ASSUME NEW k \in 1 .. n, k < n PROVE HasControls(k) /\ Defaulted(k)
  BY <1>1, <1>6 DEF ControlLists
<1>7. Control \subseteq Nat
  BY <1>1, SectionFacts
<1>10. DOMAIN config.programs[n].controls \subseteq Nat
  BY <1>1, SectionFacts
<1>8. CASE config.controls[ctl] = Section.controls[mention]
  <2>0. PICK r : r = [programs[n] EXCEPT !.derc = Added(list, c)]
    OBVIOUS
  <2>1. programs' = [programs EXCEPT ![Latest] = r]
    <3>1. programs' = [programs EXCEPT ![Latest].derc = Added(@, ctl)]
      BY <1>8 DEF AddControl
    <3> QED BY <1>1, <1>2, <2>0, <3>1
  <2>2. /\ Latest' = n /\ programs'[n] = r
        /\ \A k \in 1 .. n : k < n => programs'[k] = programs[k]
    <3>1. TypeOK /\ Latest >= 1
      BY <1>1
    <3>2. /\ Latest' = Latest /\ programs'[Latest] = r
          /\ \A k \in 1 .. Latest : k < Latest => programs'[k] = programs[k]
      BY <2>1, <3>1, OneProgram
    <3> QED BY <1>1, <3>2
  <2>3. programs'[n].derc = Added(list, c) /\ programs'[n].dderc = <<>>
    BY <1>1, <1>5, <2>0, <2>2, SectionFacts DEF Program
  <2>4. Members(list) \subseteq Control
    BY <1>5 DEF Mentioned
  <2>5. Members(Added(list, c)) = Members(list) \cup {c} /\ Distinct(Added(list, c), href)
    BY <1>2, <1>5, <1>7, <2>4, ControlAdded
  <2>6. Mentioned(n, m, c + 1) = Mentioned(n, m, c) \cup {c}
    <3>1. config.controls[c] = config.programs[n].controls[m]
      BY <1>2, <1>3, <1>4, <1>8
    <3> QED BY <1>2, <1>3, <1>7, <1>10, <3>1, MentionedMore
  <2>7. /\ Members(programs[n].derc)' = Mentioned(n, m, c + 1)'
        /\ Distinct(programs[n].derc, href)'
    <3>1. href' = href /\ Mentioned(n, m, c + 1)' = Mentioned(n, m, c + 1)
      BY <1>4, SameConfig
    <3>2. Members(programs'[n].derc) = Mentioned(n, m, c + 1)
      BY <1>5, <2>3, <2>5, <2>6
    <3>3. Distinct(programs'[n].derc, href)
      BY <2>3, <2>5
    <3>4. /\ Members(programs[n].derc)' = Members(programs'[n].derc)
          /\ Distinct(programs[n].derc, href)' <=> Distinct(programs'[n].derc, href)
      BY <3>1 DEF Members, Distinct
    <3> QED BY <3>1, <3>2, <3>3, <3>4
  <2>8. \A k \in 1 .. n : k < n => HasControls(k)' /\ Defaulted(k)'
    BY <1>4, <1>6, <2>2, SameProgram
  <2> QED BY <1>1, <1>4, <2>2, <2>3, <2>7, <2>8 DEF ControlLists
<1>9. CASE config.controls[ctl] # Section.controls[mention]
  <2>1. programs' = programs /\ Latest' = Latest
    BY <1>9 DEF AddControl, Latest
  <2>2. Mentioned(n, m, c + 1) = Mentioned(n, m, c)
    <3>1. config.controls[c] # config.programs[n].controls[m]
      BY <1>2, <1>3, <1>4, <1>9
    <3> QED BY <1>2, <1>3, <1>7, <1>10, <3>1, MentionedMore
  <2>3. /\ Members(programs[n].derc)' = Mentioned(n, m, c + 1)'
        /\ Distinct(programs[n].derc, href)' /\ programs'[n].dderc = <<>>
    BY <1>4, <1>5, <2>1, <2>2, SameConfig DEF Members, Distinct
  <2>4. \A k \in 1 .. n : k < n => HasControls(k)' /\ Defaulted(k)'
    BY <1>4, <1>6, <2>1, SameProgram
  <2> QED BY <1>1, <1>4, <2>1, <2>3, <2>4 DEF ControlLists
<1> QED BY <1>8, <1>9

LEMMA AddDefaultLists ==
  ASSUME StartupInv, ControlLists, AddDefault
  PROVE  ControlLists'
<1> USE DEF StartupInv
<1>1. PICK n \in Nat : n = Latest /\ n \in 1 .. Latest /\ n <= Len(config.programs)
  BY ConfigFacts DEF Latest, Stage, AddDefault
<1>2. PICK c \in Nat : c = ctl /\ c \in Control
  BY <1>1, SectionFacts DEF AddDefault, TypeOK
<1>4. /\ config' = config /\ pc = "default" /\ pc' = pc /\ Section = config.programs[n]
  BY <1>1 DEF AddDefault, Section
<1> DEFINE list == programs[n].dderc
<1>5. list \in Seq(Nat) /\ HasControls(n) /\ Defaulting(n)
  BY <1>1, <1>4, SectionFacts DEF ControlLists, Program
<1>6. ASSUME NEW k \in 1 .. n, k < n PROVE HasControls(k) /\ Defaulted(k)
  BY <1>1, <1>6 DEF ControlLists
<1>8. CASE config.controls[ctl] = Section.default
  <2>0. PICK r : r = [programs[n] EXCEPT !.dderc = Added(list, c)]
    OBVIOUS
  <2>1. programs' = [programs EXCEPT ![Latest] = r]
    <3>1. programs' = [programs EXCEPT ![Latest].dderc = Added(@, ctl)]
      BY <1>8 DEF AddDefault
    <3> QED BY <1>1, <1>2, <2>0, <3>1
  <2>2. /\ Latest' = n /\ programs'[n] = r
        /\ \A k \in 1 .. n : k < n => programs'[k] = programs[k]
    <3>1. TypeOK /\ Latest >= 1
      BY <1>1
    <3>2. /\ Latest' = Latest /\ programs'[Latest] = r
          /\ \A k \in 1 .. Latest : k < Latest => programs'[k] = programs[k]
      BY <2>1, <3>1, OneProgram
    <3> QED BY <1>1, <3>2
  <2>3. programs'[n].derc = programs[n].derc /\ programs'[n].dderc = Added(list, c)
    BY <1>1, <1>5, <2>0, <2>2, SectionFacts DEF Program
  <2>4. Members(Added(list, c)) \subseteq Members(list) \cup {c}
    <3> HIDE DEF list, href
    <3>1. list \in Seq(Nat) /\ c \in Nat
      BY <1>2, <1>5
    <3>2. Members(AddReplaceChild(list, c, href)) \subseteq Members(list) \cup {c}
      BY <3>1, AddReplaceChildSeq
    <3> QED BY <3>2 DEF Added
  <2>5. \A x \in Members(Added(list, c)) :
          x \in Control /\ config.controls[x] = config.programs[n].default
    BY <1>2, <1>4, <1>5, <1>8, <2>4 DEF Defaulting
  <2>6. Defaulting(n)'
    <3>1. Members(programs[n].dderc)' = Members(Added(list, c))
      BY <2>3 DEF Members
    <3> QED BY <1>4, <2>5, <3>1 DEF Defaulting, Control
  <2>7. HasControls(n)'
    BY <1>4, <1>5, <2>3, SameConfig DEF HasControls
  <2>8. \A k \in 1 .. n : k < n => HasControls(k)' /\ Defaulted(k)'
    BY <1>4, <1>6, <2>2, SameProgram
  <2> QED BY <1>1, <1>4, <2>2, <2>6, <2>7, <2>8 DEF ControlLists
<1>9. CASE config.controls[ctl] # Section.default
  <2>1. programs' = programs /\ Latest' = Latest
    BY <1>9 DEF AddDefault, Latest
  <2>2. HasControls(n)' /\ Defaulting(n)'
    BY <1>4, <1>5, <2>1, SameProgram
  <2>4. \A k \in 1 .. n : k < n => HasControls(k)' /\ Defaulted(k)'
    BY <1>4, <1>6, <2>1, SameProgram
  <2> QED BY <1>1, <1>4, <2>1, <2>2, <2>4 DEF ControlLists
<1> QED BY <1>8, <1>9

\* The loops go on or end, the signal is sent, a device is made: the lists stay.
LEMMA LoopLists ==
  ASSUME StartupInv, ControlLists,
         NextMention \/ ControlsAdded \/ DefaultAdded \/ ProgramsReady \/ DevicesReady
  PROVE  ControlLists'
<1> USE DEF StartupInv
<1>1. config' = config /\ programs' = programs
  BY DEF NextMention, ControlsAdded, DefaultAdded, ProgramsReady, DevicesReady
<1>2. /\ Latest' = Latest /\ Latest \in Nat
      /\ \A k : (HasControls(k)' <=> HasControls(k)) /\ (Defaulting(k)' <=> Defaulting(k))
                 /\ (Defaulted(k)' <=> Defaulted(k))
  BY <1>1, SameProgram, ConfigFacts DEF Latest
<1>3. CASE NextMention \/ ControlsAdded
  <2>1. PICK n \in Nat : n = Latest /\ n \in 1 .. Latest /\ n <= Len(config.programs)
    <3>1. pc = "controls"
      BY <1>3 DEF NextMention, ControlsAdded
    <3> QED BY <1>2, <3>1 DEF Stage
  <2>2. /\ pc = "controls" /\ Section = config.programs[n]
        /\ mention \in Nat \ {0} /\ ctl \in Nat \ {0}
    BY <1>3, <2>1 DEF NextMention, ControlsAdded, Section, TypeOK
  <2>3. /\ DOMAIN config.programs[n].controls = 1 .. Len(config.programs[n].controls)
        /\ Len(config.programs[n].controls) \in Nat
        /\ Control = 1 .. Len(config.controls) /\ Len(config.controls) \in Nat
    BY <2>1, SectionFacts
  <2>4. /\ Members(programs[n].derc) = Mentioned(n, mention, ctl)
        /\ Distinct(programs[n].derc, href) /\ programs[n].dderc = <<>>
    BY <2>1, <2>2 DEF ControlLists
  <2>5. CASE NextMention
    <3>1. PICK m \in Nat : m = mention
      BY <2>2
    <3>2. PICK c \in Nat : c = ctl /\ c > Len(config.controls)
      BY <2>2, <2>5 DEF NextMention
    <3>3. Mentioned(n, m, c) = Mentioned(n, m + 1, 1)
      <4>1. /\ Control \subseteq Nat /\ \A x \in Control : x < c /\ ~(x < 1)
            /\ DOMAIN config.programs[n].controls \subseteq Nat
        BY <2>3, <3>2
      <4>2. \A x \in Control, k \in DOMAIN config.programs[n].controls :
              k < m \/ (k = m /\ x < c) <=> k < m + 1 \/ (k = m + 1 /\ x < 1)
        BY <4>1
      <4> QED BY <4>2 DEF Mentioned
    <3>4. pc' = "controls" /\ mention' = m + 1 /\ ctl' = 1
      BY <2>5, <3>1 DEF NextMention
    <3>5. /\ Members(programs[n].derc)' = Mentioned(n, m + 1, 1)'
          /\ Distinct(programs[n].derc, href)' /\ programs'[n].dderc = <<>>
      BY <1>1, <2>4, <3>1, <3>2, <3>3, SameConfig DEF Members, Distinct
    <3> QED BY <1>2, <2>1, <2>2, <3>4, <3>5 DEF ControlLists
  <2>6. CASE ControlsAdded
    <3>1. mention > Len(config.programs[n].controls) /\ pc' = "default"
      BY <2>2, <2>6 DEF ControlsAdded
    <3>2. Mentioned(n, mention, ctl) = Described(n)
      BY <2>2, <2>3, <3>1 DEF Mentioned, Described
    <3>3. HasControls(n) /\ Defaulting(n)
      BY <2>4, <3>2 DEF HasControls, Defaulting, Members
    <3> QED BY <1>2, <2>1, <2>2, <3>1, <3>3 DEF ControlLists
  <2> QED BY <1>3, <2>5, <2>6
<1>4. CASE DefaultAdded
  <2>1. CASE programs[Latest].dderc = <<>>
    BY <1>2, <1>4, <2>1 DEF DefaultAdded, ControlLists
  <2>2. CASE programs[Latest].dderc # <<>>
    <3>1. Defaulted(Latest) /\ HasControls(Latest)
      BY <1>4, <2>2 DEF DefaultAdded, ControlLists, Defaulted
    <3>2. \A k \in 1 .. Latest : k < Latest \/ k = Latest
      BY <1>2
    <3>3. \A k \in 1 .. Latest : HasControls(k) /\ Defaulted(k)
      BY <3>1, <3>2 DEF ControlLists
    <3> QED BY <1>2, <1>4, <2>2, <3>3 DEF DefaultAdded, ControlLists
  <2> QED BY <2>1, <2>2
<1>5. CASE ProgramsReady
  BY <1>1, <1>2, <1>5 DEF ProgramsReady, ControlLists
<1>6. CASE DevicesReady
  BY <1>2, <1>6 DEF DevicesReady, ControlLists
<1> QED BY <1>3, <1>4, <1>5, <1>6


\* The mRIDs a device gives change nothing else in the programs.
LEMMA IdentifiedKeeps ==
  ASSUME StartupInv, RegisterDevice
  PROVE  /\ Latest' = Latest /\ config' = config /\ pc' = pc
         /\ \A k \in 1 .. Latest : /\ programs'[k].derc = programs[k].derc
                                   /\ programs'[k].dderc = programs[k].dderc
                                   /\ programs'[k].name = programs[k].name
                                   /\ \/ Device.programs # <<>>
                                      \/ programs[k].mRID # 0
                                      => programs'[k].mRID # 0
<1> USE DEF StartupInv
<1>1. programs' = Identified /\ config' = config /\ pc' = pc /\ di <= Len(config.devices)
  BY DEF RegisterDevice
<1>2. Latest' = Latest
  BY <1>1, DeviceTypes DEF Latest
<1>3. ASSUME NEW k \in 1 .. Latest
      PROVE  /\ programs'[k].derc = programs[k].derc
             /\ programs'[k].dderc = programs[k].dderc
             /\ programs'[k].name = programs[k].name
             /\ Device.programs # <<>> \/ programs[k].mRID # 0 => programs'[k].mRID # 0
  <2>1. programs[k] \in Program /\ k \in DOMAIN programs
    BY SectionFacts, ConfigFacts DEF Stage, Latest
  <2>2. CASE Device.programs = <<>>
    BY <1>1, <2>2 DEF Identified
  <2>3. CASE Device.programs # <<>>
    <3>1. PICK m : m = uuid + (Len(Device.programs) - 1) * Latest + k
      OBVIOUS
    <3>2. programs'[k] = [programs[k] EXCEPT !.mRID = m]
      BY <1>1, <2>1, <2>3, <3>1 DEF Identified
    <3>3. m # 0
      <4>1. /\ Len(Device.programs) - 1 \in Nat /\ Latest \in Nat
            /\ uuid \in Nat /\ k \in Nat /\ k # 0
        <5>1. Device.programs \in Seq(Name)
          BY <1>1, DeviceTypes DEF DeviceConfig
        <5> QED BY <2>3, <5>1, EmptySeq, LenProperties, ConfigFacts DEF Latest, TypeOK
      <4>2. \A a, b \in Nat : a * b \in Nat
        OBVIOUS
      <4>3. (Len(Device.programs) - 1) * Latest \in Nat
        BY <4>1, <4>2
      <4> QED BY <3>1, <4>1, <4>3
    <3> QED BY <2>1, <3>2, <3>3 DEF Program
  <2> QED BY <2>2, <2>3
<1> QED BY <1>1, <1>2, <1>3

LEMMA RegisterLists ==
  ASSUME StartupInv, ControlLists, RegisterDevice
  PROVE  ControlLists'
<1>1. /\ Latest' = Latest /\ config' = config /\ pc' = pc /\ pc = "devices"
      /\ \A k \in 1 .. Latest : /\ programs'[k].derc = programs[k].derc
                                /\ programs'[k].dderc = programs[k].dderc
  BY IdentifiedKeeps DEF RegisterDevice
<1>2. \A k \in 1 .. Latest : (HasControls(k)' <=> HasControls(k)) /\ (Defaulted(k)' <=> Defaulted(k))
  BY <1>1, SameProgram
<1> QED BY <1>1, <1>2 DEF ControlLists

LEMMA ListsStep == StartupInv /\ ControlLists /\ [Next]_vars => ControlLists'
<1> SUFFICES ASSUME StartupInv, ControlLists, [Next]_vars PROVE ControlLists'
  OBVIOUS
<1>1. CASE UNCHANGED vars
  <2>1. /\ config' = config /\ programs' = programs /\ pc' = pc /\ mention' = mention
        /\ ctl' = ctl /\ Latest' = Latest /\ href' = href
    BY <1>1, SameConfig DEF vars, Latest
  <2> QED BY <2>1 DEF ControlLists, HasControls, Defaulted, Defaulting, Described, Mentioned,
                      Control, Distinct, Members
<1>2. CASE CreateProgram
  BY <1>2, CreateLists
<1>3. CASE AddControl
  BY <1>3, AddControlLists
<1>4. CASE AddDefault
  BY <1>4, AddDefaultLists
<1>5. CASE RegisterDevice
  BY <1>5, RegisterLists
<1>6. CASE NextMention \/ ControlsAdded \/ DefaultAdded \/ ProgramsReady \/ DevicesReady
  BY <1>6, LoopLists
<1> QED BY <1>1, <1>2, <1>3, <1>4, <1>5, <1>6 DEF Next
-----------------------------------------------------------------------------
(* The programs the first device comes to. *)

\* The first program is the only one an FSA can lead to, as devices are only
\* made while it is alone; it has an mRID once one does.
Links ==
  /\ \A k \in 1 .. Latest : programs[k].name = config.programs[k].name
  /\ \A i \in DOMAIN fsas : fsas[i] = {1}
  /\ fsas # <<>> => programs[1].mRID # 0
  /\ \A i \in DOMAIN devices :
       /\ devices[i].assigned <=> 1 \in Configured(config.devices[i].programs)
       /\ devices[i].assigned => fsas # <<>>
       /\ DOMAIN devices[i].ders = DOMAIN config.devices[i].ders

\* What the first program has to do with a device that is configured for names.
LEMMA FirstProgram ==
  ASSUME StartupInv, Links, Latest = 1, di <= Len(config.devices)
  PROVE  /\ FSAPrograms \in {{}, {1}}
         /\ FSAPrograms # {} <=> 1 \in Configured(Device.programs)
<1>1. DOMAIN programs = {1} /\ programs[1].name = config.programs[1].name
      /\ 1 \in DOMAIN config.programs
  <2>1. Latest <= Len(config.programs) /\ DOMAIN config.programs = 1 .. Len(config.programs)
        /\ DOMAIN programs = 1 .. Latest /\ Len(config.programs) \in Nat
    BY ConfigFacts, LenProperties DEF StartupInv, Stage, Latest
  <2> QED BY <2>1 DEF Links
<1>2. \A d : Named(d) = {k \in {1} : config.programs[1].name = d}
  BY <1>1 DEF Named
<1>3. \A k : k \in FSAPrograms <=> \E n \in DOMAIN Device.programs :
        k = 1 /\ config.programs[1].name = Device.programs[n]
  BY <1>2 DEF FSAPrograms
<1>4. 1 \in Configured(Device.programs)
        <=> \E n \in DOMAIN Device.programs : config.programs[1].name = Device.programs[n]
  BY <1>1 DEF Configured
<1>5. FSAPrograms \subseteq {1} /\ (1 \in FSAPrograms <=> 1 \in Configured(Device.programs))
  BY <1>3, <1>4
<1> QED BY <1>5

LEMMA RegisterLinks ==
  ASSUME StartupInv, Links, RegisterDevice
  PROVE  Links'
<1> USE DEF StartupInv
<1>1. Latest = 1 /\ di = Len(devices) + 1 /\ di <= Len(config.devices)
  BY RegisterFirst DEF RegisterDevice
<1>2. /\ FSAPrograms \in {{}, {1}}
      /\ FSAPrograms # {} <=> 1 \in Configured(Device.programs)
  BY <1>1, FirstProgram
<1>3. /\ Latest' = Latest /\ config' = config
      /\ \A k \in 1 .. Latest : programs'[k].name = programs[k].name
  BY IdentifiedKeeps
<1>4. \A k \in 1 .. Latest' : programs'[k].name = config'.programs[k].name
  BY <1>3 DEF Links
<1>5. fsas \in Seq(SUBSET (1 .. Len(programs))) /\ devices \in Seq(EndDevice)
  BY DEF TypeOK
<1>6. /\ \A i \in DOMAIN fsas' : fsas'[i] = {1}
      /\ FSAPrograms # {} => fsas' # <<>>
      /\ fsas # <<>> => fsas' # <<>>
  <2>1. CASE FSAPrograms = {}
    BY <2>1 DEF RegisterDevice, Links
  <2>2. CASE FSAPrograms # {}
    <3>1. fsas' = Append(fsas, FSAPrograms) /\ FSAPrograms = {1}
      BY <1>2, <2>2 DEF RegisterDevice
    <3>2. {1} \in SUBSET (1 .. Len(programs))
      BY <1>1, <3>1, DeviceTypes
    <3>3. /\ DOMAIN Append(fsas, {1}) = 1 .. Len(fsas) + 1 /\ Len(fsas) \in Nat
          /\ DOMAIN fsas = 1 .. Len(fsas)
          /\ \A i \in 1 .. Len(fsas) : Append(fsas, {1})[i] = fsas[i]
          /\ Append(fsas, {1})[Len(fsas) + 1] = {1}
      BY <1>5, <3>2, AppendProperties, LenProperties
    <3>4. Append(fsas, {1}) # <<>>
      BY <3>3
    <3>5. ASSUME NEW i \in DOMAIN fsas' PROVE fsas'[i] = {1}
      <4>1. CASE i = Len(fsas) + 1
        BY <3>1, <3>3, <4>1
      <4>2. CASE i # Len(fsas) + 1
        BY <3>1, <3>3, <4>2 DEF Links
      <4> QED BY <4>1, <4>2
    <3> QED BY <3>1, <3>4, <3>5
  <2> QED BY <2>1, <2>2
<1> DEFINE new == [id |-> Device.id, assigned |-> FSAPrograms # {},
                   ders |-> [j \in DOMAIN Device.ders |-> CurrentProgram(Device.ders[j])]]
<1>7. devices' = Append(devices, new)
  BY DEF RegisterDevice
<1>8. /\ new.assigned <=> FSAPrograms # {}
      /\ DOMAIN new.ders = DOMAIN Device.ders
  OBVIOUS
<1> HIDE DEF new
<1>9. /\ DOMAIN devices' = 1 .. Len(devices) + 1 /\ Len(devices) \in Nat
      /\ DOMAIN devices = 1 .. Len(devices)
      /\ \A i \in 1 .. Len(devices) : devices'[i] = devices[i]
      /\ devices'[Len(devices) + 1] = new
  <2>1. devices \in Seq(EndDevice \cup {new})
    BY <1>5, SeqMonotonic
  <2> QED BY <1>7, <2>1, AppendProperties, LenProperties
<1>10. \A names : Configured(names)' = Configured(names)
  BY <1>3 DEF Configured
<1>11. fsas' # <<>> => programs'[1].mRID # 0
  <2>1. 1 \in 1 .. Latest
    BY <1>1
  <2>2. CASE FSAPrograms = {}
    <3>1. fsas' = fsas
      BY <2>2 DEF RegisterDevice
    <3> QED BY <2>1, <3>1, IdentifiedKeeps DEF Links
  <2>3. CASE FSAPrograms # {}
    <3>1. DOMAIN Device.programs # {}
      BY <2>3 DEF FSAPrograms
    <3>2. Device.programs # <<>>
      BY <3>1, EmptySeq
    <3> QED BY <2>1, <3>2, IdentifiedKeeps
  <2> QED BY <2>2, <2>3
<1>12. ASSUME NEW i \in DOMAIN devices'
       PROVE  /\ devices'[i].assigned <=> 1 \in Configured(config.devices[i].programs)
              /\ devices'[i].assigned => fsas' # <<>>
              /\ DOMAIN devices'[i].ders = DOMAIN config.devices[i].ders
  <2>1. CASE i = Len(devices) + 1
    <3>1. Device = config.devices[i] /\ devices'[i] = new
      BY <1>1, <1>9, <2>1 DEF Device
    <3> QED BY <1>2, <1>6, <1>8, <3>1, Zenon
  <2>2. CASE i # Len(devices) + 1
    <3>1. i \in DOMAIN devices /\ devices'[i] = devices[i]
      BY <1>9, <2>2
    <3> QED BY <1>6, <3>1, Zenon DEF Links
  <2> QED BY <2>1, <2>2
<1> QED BY <1>3, <1>4, <1>6, <1>10, <1>11, <1>12 DEF Links

LEMMA LinksStep == StartupInv /\ Links /\ [Next]_vars => Links'
<1> SUFFICES ASSUME StartupInv, Links, [Next]_vars PROVE Links'
  OBVIOUS
<1>1. CASE RegisterDevice
  BY <1>1, RegisterLinks
<1>2. ASSUME UNCHANGED <<config, devices, fsas>>,
             \A k \in 1 .. Latest' : programs'[k].name = config.programs[k].name,
             fsas # <<>> => programs'[1].mRID # 0
      PROVE  Links'
  BY <1>2 DEF Links, Configured
<1>3. CASE \/ NextMention \/ ControlsAdded \/ DefaultAdded \/ ProgramsReady \/ DevicesReady
           \/ UNCHANGED vars
  <2>1. UNCHANGED <<config, programs, devices, fsas>> /\ Latest' = Latest
    BY <1>3 DEF NextMention, ControlsAdded, DefaultAdded, ProgramsReady, DevicesReady, vars, Latest
  <2> QED BY <1>2, <2>1 DEF Links
<1>4. CASE CreateProgram
  <2> DEFINE new == [name |-> config.programs[Latest + 1].name,
                     mRID |-> 0, derc |-> <<>>, dderc |-> <<>>]
  <2>0. PICK n \in Nat : n = Latest /\ n = Len(programs)
    BY ConfigFacts DEF Latest, StartupInv
  <2>1. programs' = Append(programs, new) /\ UNCHANGED <<config, devices, fsas>>
    BY <1>4 DEF CreateProgram
  <2>2. new.name = config.programs[n + 1].name
    BY <2>0
  <2> HIDE DEF new
  <2>3. programs \in Seq({new} \cup Program)
    BY SeqMonotonic DEF StartupInv, TypeOK
  <2>4. /\ Len(programs') = n + 1 /\ programs'[n + 1] = new
        /\ \A k \in 1 .. n : programs'[k] = programs[k]
    BY <2>0, <2>1, <2>3, AppendProperties
  <2>5. ASSUME NEW k \in 1 .. n + 1 PROVE programs'[k].name = config.programs[k].name
    <3>1. CASE k = n + 1
      BY <2>2, <2>4, <3>1
    <3>2. CASE k # n + 1
      BY <2>0, <2>4, <3>2 DEF Links
    <3> QED BY <3>1, <3>2
  <2>6. fsas # <<>> => 1 \in 1 .. n
    <3> SUFFICES ASSUME fsas # <<>> PROVE 1 \in 1 .. n
      OBVIOUS
    <3>1. fsas \in Seq(SUBSET (1 .. n))
      BY <2>0 DEF StartupInv, TypeOK
    <3>2. 1 \in DOMAIN fsas
      BY <3>1, EmptySeq, LenProperties
    <3>3. fsas[1] = {1} /\ fsas[1] \in SUBSET (1 .. n)
      BY <3>1, <3>2, ElementOfSeq, LenProperties DEF Links
    <3> QED BY <3>3
  <2>7. fsas # <<>> => programs'[1].mRID # 0
    BY <2>4, <2>6 DEF Links
  <2> QED BY <1>2, <2>1, <2>4, <2>5, <2>7 DEF Latest
<1>5. CASE AddControl \/ AddDefault
  <2>0. PICK n \in Nat : n = Latest /\ n \in 1 .. Latest
    BY <1>5, ConfigFacts DEF Latest, StartupInv, Stage, AddControl, AddDefault
  <2>1. PICK r : /\ r.name = programs[n].name /\ r.mRID = programs[n].mRID
                 /\ programs' = programs \/ programs' = [programs EXCEPT ![Latest] = r]
    <3>1. \/ programs' = programs
          \/ programs' = [programs EXCEPT ![Latest].derc = Added(@, ctl)]
          \/ programs' = [programs EXCEPT ![Latest].dderc = Added(@, ctl)]
      BY <1>5, Zenon DEF AddControl, AddDefault
    <3>2. programs[n] \in Program
      BY <2>0, SectionFacts DEF StartupInv, Stage
    <3>3. \A list : /\ [programs[n] EXCEPT !.derc = list].name = programs[n].name
                    /\ [programs[n] EXCEPT !.dderc = list].name = programs[n].name
                    /\ [programs[n] EXCEPT !.derc = list].mRID = programs[n].mRID
                    /\ [programs[n] EXCEPT !.dderc = list].mRID = programs[n].mRID
      BY <3>2 DEF Program
    <3> QED BY <2>0, <3>1, <3>3
  <2>2. CASE programs' = programs
    BY <1>2, <1>5, <2>2 DEF Links, AddControl, AddDefault, Latest
  <2>3. CASE programs' = [programs EXCEPT ![Latest] = r]
    <3>1. TypeOK /\ Latest >= 1
      BY <2>0 DEF StartupInv
    <3>2. /\ Latest' = Latest /\ programs'[Latest] = r
          /\ \A k \in 1 .. Latest : k < Latest => programs'[k] = programs[k]
      BY <2>3, <3>1, OneProgram
    <3>3. \A k \in 1 .. Latest : programs'[k].name = config.programs[k].name
      BY <2>0, <2>1, <3>2 DEF Links
    <3>4. fsas # <<>> => programs'[1].mRID # 0
      <4>1. programs'[1].mRID = programs[1].mRID
        BY <2>0, <2>1, <3>2
      <4> QED BY <4>1 DEF Links
    <3>5. UNCHANGED <<config, devices, fsas>>
      BY <1>5 DEF AddControl, AddDefault
    <3> QED BY <1>2, <3>2, <3>3, <3>4, <3>5
  <2> QED BY <2>1, <2>2, <2>3
<1> QED BY <1>1, <1>3, <1>4, <1>5 DEF Next

-----------------------------------------------------------------------------
(* The theorems about the links start-up makes. *)

LEMMA ListsInit == Init => ControlLists /\ Links
<1> SUFFICES ASSUME Init PROVE ControlLists /\ Links
  OBVIOUS
<1>1. Latest = 0 /\ pc = "create" /\ fsas = <<>> /\ devices = <<>>
  BY EmptySeq DEF Init, Latest
<1> QED BY <1>1, EmptySeq DEF ControlLists, Links

LEMMA LinksInvariant == Spec => [](StartupInv /\ ControlLists /\ Links)
<1>1. Init => StartupInv /\ ControlLists /\ Links
  BY InitEstablishes, ListsInit
<1>2. StartupInv /\ ControlLists /\ Links /\ [Next]_vars => (StartupInv /\ ControlLists /\ Links)'
  BY StepPreserves, ListsStep, LinksStep
<1> QED BY <1>1, <1>2, PTL DEF Spec

\* Whatever descriptions the controls share, and however often a section of the
\* configuration repeats one, each program ends up with exactly the controls it
\* names, none twice, and with its default (der.py 168-187).
THEOREM ControlsFollowConfiguration == Spec => []ControlsAsConfigured
<1>1. StartupInv /\ ControlLists => ControlsAsConfigured
  <2> SUFFICES ASSUME StartupInv, ControlLists, Running, NEW k \in DOMAIN config.programs
               PROVE  /\ Members(programs[k].derc) = Described(k)
                      /\ Distinct(programs[k].derc, href)
                      /\ programs[k].dderc # <<>>
                      /\ config.controls[programs[k].dderc[1]] = config.programs[k].default
    BY DEF ControlsAsConfigured, Described, Distinct
  <2>1. k \in 1 .. Latest
    BY ConfigFacts, LenProperties DEF StartupInv, ControlLists, Running
  <2>2. HasControls(k) /\ Defaulted(k)
    BY <2>1 DEF ControlLists, Running
  <2>3. programs[k].dderc \in Seq(Nat) /\ programs[k].dderc # <<>>
    BY <2>1, <2>2, SectionFacts DEF StartupInv, Stage, Program, Defaulted
  <2>4. 1 \in DOMAIN programs[k].dderc
    BY <2>3, EmptySeq, LenProperties
  <2>5. programs[k].dderc[1] \in Members(programs[k].dderc)
    BY <2>4 DEF Members
  <2> QED BY <2>2, <2>3, <2>5 DEF HasControls, Defaulted, Defaulting
<1> QED BY <1>1, LinksInvariant, PTL

\* The first device comes by its links to the first program when it is
\* configured for it, and to none otherwise, however many devices and programs
\* there are: every FSA is made while that program is alone (enddevices.py
\* 62-109, der.py 199).
THEOREM FirstDeviceFollowsLinks == Spec => []FirstDeviceServed
<1>1. StartupInv /\ Links => FirstDeviceServed
  <2> SUFFICES ASSUME StartupInv, Links, devices # <<>>
               PROVE  Reached(1) = IF 1 \in Configured(config.devices[1].programs)
                                   THEN {1} ELSE {}
    BY DEF FirstDeviceServed
  <2>0. 1 \in DOMAIN devices
    BY ConfigFacts, EmptySeq DEF StartupInv, TypeOK
  <2>1. CASE devices[1].assigned
    <3>1. fsas # <<>> /\ 1 \in Configured(config.devices[1].programs)
      BY <2>0, <2>1 DEF Links
    <3>2. fsas \in Seq(SUBSET (1 .. Len(programs)))
      BY DEF StartupInv, TypeOK
    <3>3. 1 \in 1 .. Len(fsas) /\ DOMAIN fsas = 1 .. Len(fsas)
      BY <3>1, <3>2, EmptySeq, LenProperties
    <3>4. fsas[1] = {1}
      BY <3>3 DEF Links
    <3>5. DOMAIN FSAList(1) = {1}
      <4>1. FSAList(1) = SubSeq(fsas, 1, 1)
        BY <2>1 DEF FSAList
      <4>2. /\ SubSeq(fsas, 1, 1) \in Seq(SUBSET (1 .. Len(programs)))
            /\ Len(SubSeq(fsas, 1, 1)) = 1
        BY <3>2, <3>3, SubSeqProperties
      <4>3. DOMAIN SubSeq(fsas, 1, 1) = 1 .. 1
        BY <4>2, LenProperties
      <4> QED BY <4>1, <4>3
    <3>6. Reached(1) = {1}
      BY <3>4, <3>5 DEF Reached, ProgramList
    <3> QED BY <3>1, <3>6
  <2>2. CASE ~devices[1].assigned
    <3>1. 1 \notin Configured(config.devices[1].programs) /\ FSAList(1) = <<>>
      BY <2>0, <2>2 DEF Links, FSAList
    <3>2. Reached(1) = {}
      BY <3>1 DEF Reached
    <3> QED BY <3>1, <3>2
  <2> QED BY <2>1, <2>2
<1> QED BY <1>1, LinksInvariant, PTL

\* A device is assigned to FSAs exactly when it is configured for the name of
\* the first program, wherever it stands in the configuration: what is left of
\* the promise that every device has one (enddevices.py 26-33, 84-109).
THEOREM AssignedAreTheFirst ==
  Spec => [](\A i \in DOMAIN devices :
               devices[i].assigned <=> 1 \in Configured(config.devices[i].programs))
<1>1. Links => \A i \in DOMAIN devices :
                 devices[i].assigned <=> 1 \in Configured(config.devices[i].programs)
  BY DEF Links
<1> QED BY <1>1, LinksInvariant, PTL

\* What start-up hands over to the clock thread is what DERControlEvents assumes
\* of it: each program has a list of configured controls, told apart by their
\* hrefs (der.py 168-182).
THEOREM ControlsHandedOver ==
  Spec => [](Running => LET configured == [k \in DOMAIN config.programs |-> programs[k].derc] IN
               /\ configured \in [DOMAIN config.programs -> Seq(Control)]
               /\ \A k \in DOMAIN config.programs : \A i, j \in DOMAIN configured[k] :
                    href[configured[k][i]] = href[configured[k][j]] => i = j)
<1> DEFINE configured == [k \in DOMAIN config.programs |-> programs[k].derc]
           Handed == /\ configured \in [DOMAIN config.programs -> Seq(Control)]
                     /\ \A k \in DOMAIN config.programs : \A i, j \in DOMAIN configured[k] :
                          href[configured[k][i]] = href[configured[k][j]] => i = j
<1>1. StartupInv /\ ControlLists /\ Running => Handed
  <2> SUFFICES ASSUME StartupInv, ControlLists, Running, NEW k \in DOMAIN config.programs
               PROVE  programs[k].derc \in Seq(Control) /\ Distinct(programs[k].derc, href)
    BY DEF Distinct
  <2>1. k \in 1 .. Latest /\ Latest <= Len(config.programs)
    BY ConfigFacts, LenProperties DEF StartupInv, ControlLists, Running
  <2>2. HasControls(k)
    BY <2>1 DEF ControlLists, Running
  <2>3. programs[k].derc \in Seq(Nat)
    BY <2>1, SectionFacts DEF StartupInv, Program
  <2>4. \A i \in 1 .. Len(programs[k].derc) : programs[k].derc[i] \in Control
    <3>1. Members(programs[k].derc) \subseteq Control
      BY <2>2 DEF HasControls, Described
    <3> QED BY <2>3, <3>1, MembersOfSeq
  <2>5. programs[k].derc \in Seq(Control)
    BY <2>3, <2>4, LenProperties, IsASeq
  <2> QED BY <2>2, <2>5 DEF HasControls
<1> QED BY <1>1, LinksInvariant, PTL

-----------------------------------------------------------------------------
(* The tree of resources that stands on what start-up left. *)

\* What devices do once the server runs changes nothing start-up made: every
\* theorem above holds of the tree as well.
LEMMA TreeExtendsStartup == TreeSpec => Spec
<1>1. TreeInit => Init
  BY DEF TreeInit
<1>2. [TreeNext]_treeVars => [Next]_vars
  BY DEF TreeNext, StartupStep, PutDER, treeVars
<1> QED BY <1>1, <1>2, PTL DEF TreeSpec, Spec

\* A page is a stretch of the list from start on, as long as limit and the
\* list allow (adapters/__init__.py 199-212).
LEMMA PageIsStretch ==
  ASSUME NEW T, NEW list \in Seq(T), NEW start \in Nat, NEW limit \in Nat
  PROVE  LET page == Page(list, start, limit)
             rest == SubSeq(list, start + 1, Len(list))
         IN  /\ page \o SubSeq(list, start + Len(page) + 1, Len(list)) = rest
             /\ limit = 0 => page = rest
             /\ limit > 0 => Len(page) <= limit /\ (start < Len(list) => page # <<>>)
<1> DEFINE n == Len(list)
           page == Page(list, start, limit)
<1>1. n \in Nat /\ \A i \in 1 .. n : list[i] \in T
  BY LenProperties, ElementOfSeq
<1>2. CASE start >= n
  <2>1. \A k \in Nat : SubSeq(list, start + k + 1, n) = <<>>
    BY <1>1, <1>2, SubSeqEmpty
  <2>2. page = <<>>
    <3>1. ASSUME start = n, limit # 0
          PROVE  page = SubSeq(list, start + 1, IF start + limit > n THEN n ELSE start + limit)
      BY <1>1, <3>1 DEF Page
    <3>2. CASE start = n /\ limit # 0
      BY <1>1, <3>1, <3>2, SubSeqEmpty
    <3>3. CASE start = n /\ limit = 0
      BY <1>1, <3>3, SubSeqEmpty DEF Page
    <3>4. CASE start > n
      BY <3>4 DEF Page
    <3> QED BY <1>1, <1>2, <3>2, <3>3, <3>4
  <2>3. SubSeq(list, start + 1, n) = <<>> /\ SubSeq(list, start + Len(page) + 1, n) = <<>>
    <3>1. Len(page) = 0 /\ start + 1 = start + 0 + 1 /\ start + Len(page) + 1 = start + 0 + 1
      BY <2>2, EmptySeq
    <3> QED BY <2>1, <3>1
  <2>4. <<>> \o <<>> = <<>>
    BY EmptySeq, ConcatEmptySeq
  <2> QED BY <1>1, <1>2, <2>2, <2>3, <2>4, EmptySeq
<1>3. CASE start < n
  <2> DEFINE last == IF limit = 0 \/ start + limit > n THEN n ELSE start + limit
  <2>1. last \in start + 1 .. n /\ start + 1 \in 1 .. n
    BY <1>1, <1>3
  <2>2. page = SubSeq(list, start + 1, last)
    BY <1>1, <1>3 DEF Page
  <2>3. limit = 0 => last = n
    OBVIOUS
  <2>4. limit > 0 => last - start <= limit
    BY <1>1
  <2> HIDE DEF last, page, n
  <2>5. Len(page) = last - start
    <3>1. \A i \in start + 1 .. last : list[i] \in T
      BY <1>1, <2>1
    <3>2. Len(SubSeq(list, start + 1, last))
            = IF start + 1 <= last THEN last - (start + 1) + 1 ELSE 0
      BY <1>1, <2>1, <3>1, SubSeqProperties
    <3> QED BY <1>1, <2>1, <2>2, <3>2
  <2>6. page \o SubSeq(list, last + 1, n) = SubSeq(list, start + 1, n)
    BY <1>1, <2>1, <2>2, ConcatAdjacentSubSeq DEF n
  <2>7. start + Len(page) + 1 = last + 1
    BY <1>1, <2>1, <2>5
  <2>8. page # <<>>
    <3>1. Len(page) # 0
      BY <1>1, <2>1, <2>5
    <3> QED BY <3>1, EmptySeq
  <2> QED BY <2>2, <2>3, <2>4, <2>5, <2>6, <2>7, <2>8 DEF n, page
<1> QED BY <1>1, <1>2, <1>3

LEMMA ListsCovered ==
  ASSUME NEW T, NEW list \in Seq(T)
  PROVE  Covered(list)
<1> SUFFICES ASSUME NEW start \in 0 .. Len(list) + 1, NEW limit \in 0 .. 4
             PROVE  LET page == Page(list, start, limit)
                        from(n) == SubSeq(list, n + 1, Len(list))
                    IN  /\ page \o from(start + Len(page)) = from(start)
                        /\ limit = 0 => page = from(start)
                        /\ limit > 0 => Len(page) <= limit /\ (start < Len(list) => page # <<>>)
  BY DEF Covered
<1>1. start \in Nat /\ limit \in Nat
  BY LenProperties
<1> QED BY <1>1, PageIsStretch

\* Whatever the configuration file says, a client that goes through the FSAs
\* or the DERs of a device page by page gets every item once and in order
\* (adapters/__init__.py 199-212).
THEOREM PagesAreComplete == TreeSpec => []PagesCover
<1>1. StartupInv => PagesCover
  <2> SUFFICES ASSUME StartupInv PROVE PagesCover
    OBVIOUS
  <2>1. Covered(fsas)
    BY ListsCovered DEF StartupInv, TypeOK
  <2>2. ASSUME NEW d \in DOMAIN devices PROVE Covered(devices[d].ders)
    <3>1. devices[d] \in EndDevice
      BY LenProperties, ElementOfSeq DEF StartupInv, TypeOK
    <3>2. devices[d].ders \in Seq(Nat)
      BY <3>1 DEF EndDevice
    <3> QED BY <3>2, ListsCovered
  <2> QED BY <2>1, <2>2 DEF PagesCover
<1>2. Spec => []StartupInv
  BY LinksInvariant, PTL
<1> QED BY <1>1, <1>2, TreeExtendsStartup, PTL

\* Below the DERs the tree is a DERResources, whose theorems hold of it: devices
\* PUT only into lists start-up made room for (enddevicesfs.py 24-75).
THEOREM TreeKeepsResources == TreeSpec => RS!Spec
<1>1. TreeInit => RS!Init
  BY DEF TreeInit
<1>2. StartupInv /\ Links /\ [TreeNext]_treeVars => [RS!Next]_(RS!vars)
  <2> SUFFICES ASSUME StartupInv, Links, [TreeNext]_treeVars PROVE [RS!Next]_(RS!vars)
    OBVIOUS
  <2>1. CASE StartupStep \/ UNCHANGED treeVars
    BY <2>1 DEF StartupStep, treeVars, RS!vars
  <2>2. CASE PutDER
    <3>0. PICK i \in DOMAIN devices : \E j \in DOMAIN devices[i].ders :
                 \E s \in DERSubType : \E d \in Offered[s] : RS!Put(<<<<i - 1, j - 1>>, s>>, d)
      BY <2>2 DEF PutDER
    <3>1. PICK j \in DOMAIN devices[i].ders : \E s \in DERSubType : \E d \in Offered[s] :
                 RS!Put(<<<<i - 1, j - 1>>, s>>, d)
      BY <3>0
    <3>s. PICK s \in DERSubType : \E d \in Offered[s] : RS!Put(<<<<i - 1, j - 1>>, s>>, d)
      BY <3>1
    <3>d. PICK d \in Offered[s] : RS!Put(<<<<i - 1, j - 1>>, s>>, d)
      BY <3>s
    <3>2. <<i - 1, j - 1>> \in DERPlace
      <4>1. config \in ConfigFile /\ i \in DOMAIN config.devices
        <5>1. DOMAIN config.devices = 1 .. Len(config.devices)
          BY ConfigFacts, LenProperties DEF StartupInv
        <5> QED BY <5>1, ConfigFacts DEF StartupInv, TypeOK, Prefix
      <4>2. j \in DOMAIN config.devices[i].ders
        BY DEF Links
      <4> DEFINE Below(file, n) == {<<n - 1, m - 1>> : m \in DOMAIN file.devices[n].ders}
                 Places(file) == UNION {Below(file, n) : n \in DOMAIN file.devices}
      <4>3. <<i - 1, j - 1>> \in Below(config, i)
        BY <4>2
      <4>4. DERPlace = UNION {Places(file) : file \in ConfigFile}
        BY DEF DERPlace
      <4> HIDE DEF Below
      <4>5. <<i - 1, j - 1>> \in Places(config)
        BY <4>1, <4>3
      <4> HIDE DEF Places
      <4> QED BY <4>1, <4>4, <4>5
    <3>3. <<<<i - 1, j - 1>>, s>> \in RS!Slot /\ d \in Offered[<<<<i - 1, j - 1>>, s>>[2]]
      BY <3>2 DEF RS!Slot
    <3>4. RS!Next
      BY <3>d, <3>3, Zenon DEF RS!Next
    <3> QED BY <3>4
  <2> QED BY <2>1, <2>2 DEF TreeNext
<1>3. Spec => [](StartupInv /\ Links)
  BY LinksInvariant, PTL
<1> QED BY <1>1, <1>2, <1>3, TreeExtendsStartup, PTL DEF TreeSpec, RS!Spec

-----------------------------------------------------------------------------
(* The answers a device comes across. *)

\* A path with one more part.
LEMMA Two == ASSUME NEW a, NEW b, NEW c PROVE <<a, b>> \o <<c>> = <<a, b, c>>
<1>1. <<a, b>> \in Seq({a, b, c}) /\ <<c>> \in Seq({a, b, c}) /\ <<a, b, c>> \in Seq({a, b, c})
  OBVIOUS
<1>2. /\ <<a, b>> \o <<c>> \in Seq({a, b, c}) /\ Len(<<a, b>> \o <<c>>) = 3
      /\ \A i \in 1 .. 3 : (<<a, b>> \o <<c>>)[i] = IF i <= 2 THEN <<a, b>>[i] ELSE <<c>>[i - 2]
  BY <1>1, ConcatProperties
<1>3. \A i \in 1 .. 3 : (<<a, b>> \o <<c>>)[i] = <<a, b, c>>[i]
  BY <1>2
<1> QED BY <1>1, <1>2, <1>3, SeqEqual

LEMMA Four == ASSUME NEW a, NEW b, NEW c, NEW d, NEW e
              PROVE  <<a, b, c, d>> \o <<e>> = <<a, b, c, d, e>>
<1> DEFINE T == {a, b, c, d, e}
<1>1. <<a, b, c, d>> \in Seq(T) /\ <<e>> \in Seq(T) /\ <<a, b, c, d, e>> \in Seq(T)
  OBVIOUS
<1> HIDE DEF T
<1>2. /\ <<a, b, c, d>> \o <<e>> \in Seq(T) /\ Len(<<a, b, c, d>> \o <<e>>) = 5
      /\ \A i \in 1 .. 5 :
           (<<a, b, c, d>> \o <<e>>)[i] = IF i <= 4 THEN <<a, b, c, d>>[i] ELSE <<e>>[i - 4]
  BY <1>1, ConcatProperties
<1>3. \A i \in 1 .. 5 : (<<a, b, c, d>> \o <<e>>)[i] = <<a, b, c, d, e>>[i]
  BY <1>2
<1> QED BY <1>1, <1>2, <1>3, SeqEqual

\* A client that reads a list item by item sees nothing that is not in it.
LEMMA SeenAreMembers ==
  ASSUME NEW T, NEW list \in Seq(T)
  PROVE  Seen(list) \subseteq Members(list)
<1> SUFFICES ASSUME NEW s \in 0 .. Len(list), NEW x \in Members(Page(list, s, 1))
             PROVE  x \in Members(list)
  BY DEF Seen
<1>1. Len(list) \in Nat /\ \A i \in 1 .. Len(list) : list[i] \in T
  BY LenProperties, ElementOfSeq
<1> DEFINE last == IF s + 1 > Len(list) THEN Len(list) ELSE s + 1
<1>2. Page(list, s, 1) = SubSeq(list, s + 1, last)
  BY <1>1 DEF Page
<1>3. last \in Nat /\ last <= Len(list) /\ s + 1 \in Nat /\ s + 1 >= 1
  BY <1>1
<1> HIDE DEF last
<1>4. \A i \in s + 1 .. last : list[i] \in T
  BY <1>1, <1>3
<1>5. /\ SubSeq(list, s + 1, last) \in Seq(T)
      /\ Len(SubSeq(list, s + 1, last)) = IF s + 1 <= last THEN last - (s + 1) + 1 ELSE 0
      /\ \A i \in 1 .. last - (s + 1) + 1 : SubSeq(list, s + 1, last)[i] = list[s + 1 + i - 1]
  BY <1>1, <1>3, <1>4, SubSeqProperties
<1>6. PICK i \in 1 .. Len(SubSeq(list, s + 1, last)) : SubSeq(list, s + 1, last)[i] = x
  <2> DEFINE page == SubSeq(list, s + 1, last)
  <2>1. x \in Members(page) /\ page \in Seq(T)
    BY <1>2, <1>5
  <2> HIDE DEF page
  <2>2. \E i \in 1 .. Len(page) : page[i] = x
    BY <2>1, MembersOfSeq
  <2> QED BY <2>2 DEF page
<1>7. s + i \in 1 .. Len(list) /\ list[s + i] = x
  BY <1>1, <1>3, <1>5, <1>6
<1> QED BY <1>7, MembersOfSeq

\* The links with their paths spelled out.
LEMMA DeviceLinksAt ==
  ASSUME NEW d, NEW l \in DeviceLinks(d)
  PROVE  \/ l = Item(<<"edev", d - 1>>, "EndDevice")
         \/ l = Link("RegistrationLink", <<"edev", d - 1, "rg">>, "Registration")
         \/ l = Link("DeviceInformationLink", <<"edev", d - 1, "di">>, "DeviceInformation")
         \/ l = Link("DeviceStatusLink", <<"edev", d - 1, "dstat">>, "DeviceStatus")
         \/ /\ devices[d].assigned
            /\ l = Link("FunctionSetAssignmentsListLink", <<"edev", d - 1, "fsa">>,
                        "FunctionSetAssignmentsList")
         \/ /\ devices[d].ders # <<>>
            /\ l = Link("DERListLink", <<"edev", d - 1, "der">>, "DERList")
<1>1. \A s : <<"edev", d - 1>> \o <<s>> = <<"edev", d - 1, s>>
  BY Two
<1> QED BY <1>1, Zenon DEF DeviceLinks

LEMMA DERLinksAt ==
  ASSUME NEW d, NEW j, NEW l \in DERLinks(d, j)
  PROVE  \/ l = Item(<<"edev", d - 1, "der", j>>, "DER")
         \/ l = Link("DERAvailabilityLink", <<"edev", d - 1, "der", j, "dera">>, "DERAvailability")
         \/ l = Link("DERCapabilityLink", <<"edev", d - 1, "der", j, "dercap">>, "DERCapability")
         \/ l = Link("DERSettingsLink", <<"edev", d - 1, "der", j, "derg">>, "DERSettings")
         \/ l = Link("DERStatusLink", <<"edev", d - 1, "der", j, "ders">>, "DERStatus")
         \/ l = Link("CurrentDERProgramLink", <<"derp", devices[d].ders[j + 1] - 1>>, "DERProgram")
<1>1. \A s : <<"edev", d - 1, "der", j>> \o <<s>> = <<"edev", d - 1, "der", j, s>>
  BY Four
<1> QED BY <1>1, Zenon DEF DERLinks

LEMMA ProgramLinksAt ==
  ASSUME NEW k, NEW l \in ProgramLinks(k)
  PROVE  \/ l = Item(<<"derp", k - 1>>, "DERProgram")
         \/ l = Link("DefaultDERControlLink", <<"derp", k - 1, "dderc">>, "DefaultDERControl")
         \/ l = Link("ActiveDERControlListLink", <<"derp", k - 1, "derca">>, "DERControlList")
         \/ l = Link("DERControlListLink", <<"derp", k - 1, "derc">>, "DERControlList")
         \/ l = Link("DERCurveListLink", <<"derp", k - 1, "dc">>, "DERCurveList")
<1>1. \A s : <<"derp", k - 1>> \o <<s>> = <<"derp", k - 1, s>>
  BY Two
<1> QED BY <1>1, Zenon DEF ProgramLinks, ProgramLinksFrom

\* Everything device d can come across: the DERs of the first device only.
Met(d) ==
  {Entry} \cup DcapAnswer.links \cup DeviceLinks(d)
    \cup (UNION {DERLinks(d, n - 1) : n \in {m \in DOMAIN devices[d].ders : d = 1}})
    \cup (UNION {FSALinks(n - 1) : n \in DOMAIN fsas})
    \cup (UNION {ProgramLinks(k) : k \in DOMAIN programs})
    \cup {Item(ControlPath(c), "DERControl") : c \in Nat}

\* What the two properties ask of the answer a to the link l.
Leads(l, a) == a.status = 200 /\ DM!IsA(a.class, l.class) /\ a.href = Promised(l)
Complete(a) ==
  /\ \A c \in Objects(a) \ {"DERControl"} : DM!AllRequired(c) \ Filled(c) = NeverFilled(c)
  /\ a.status = 200 => \A i \in a.links :
       i.by \in DM!AllLinks(a.class) \cup DM!AllLists(a.class)
         \cup UNION {DM!AllLinks(c) : c \in Objects(a) \ {a.class}}

\* What LinksLead and AnswersComplete ask of a link, and that its answer leads
\* to nothing new.
Sound(d, l) == LET got == Answer(d, l.to) IN
  /\ got.links \subseteq Met(d)
  /\ Excused(d, l) <=> ~Leads(l, got)
  /\ IF Len(l.to) = 5 THEN got.links = {} ELSE Complete(got)

\* Answers that fail, that have no links, that are one object, or a list of some.
LEMMA FailsComplete == \A s : s # 200 => Complete(Fails(s))
BY DEF Complete, Objects, Fails

LEMMA FailsSound ==
  ASSUME NEW d, NEW l, Len(l.to) # 5, NEW s, s # 200, Answer(d, l.to) = Fails(s), Excused(d, l)
  PROVE  Sound(d, l)
<1>1. Fails(s).links = {} /\ Fails(s).status = s
  BY DEF Fails
<1> QED BY <1>1, FailsComplete DEF Sound, Leads

LEMMA PlainComplete ==
  ASSUME NEW class, NEW at, DM!AllRequired(class) \ Filled(class) = NeverFilled(class)
  PROVE  Complete(Gives(class, at, {}))
BY DEF Complete, Gives, Objects

LEMMA OneComplete ==
  ASSUME NEW class, NEW at, NEW links,
         class # "DERControl" => DM!AllRequired(class) \ Filled(class) = NeverFilled(class),
         \A l \in links : l.by = class \/ (l.by # l.class /\ l.by \in DM!AllLinks(class))
  PROVE  Complete(GivesOne(class, at, links))
<1> DEFINE a == GivesOne(class, at, links)
<1>1. a.status = 200 /\ a.class = class /\ a.links = {l \in links : l.by # class}
  BY DEF GivesOne, Gives
<1> HIDE DEF a
<1>2. Objects(a) = {class}
  BY <1>1 DEF Objects
<1>3. \A c \in Objects(a) \ {"DERControl"} : DM!AllRequired(c) \ Filled(c) = NeverFilled(c)
  BY <1>2
<1>4. \A i \in a.links : i.by \in DM!AllLinks(a.class)
  BY <1>1
<1> QED BY <1>3, <1>4, Zenon DEF Complete, a

LEMMA ListComplete ==
  ASSUME NEW list, NEW class, NEW at, NEW links, list # class,
         DM!AllRequired(list) \ Filled(list) = NeverFilled(list),
         class # "DERControl" => DM!AllRequired(class) \ Filled(class) = NeverFilled(class),
         class \in DM!AllLists(list),
         \A l \in links : \/ l.by = class /\ l.class = class
                          \/ l.by # l.class /\ l.by \in DM!AllLinks(class),
         links # {} => \E l \in links : l.by = class /\ l.class = class
  PROVE  Complete(Gives(list, at, links))
<1> DEFINE a == Gives(list, at, links)
<1>1. a.status = 200 /\ a.class = list /\ a.links = links
  BY DEF Gives
<1> HIDE DEF a
<1>2. Objects(a) \subseteq {list, class} /\ (links # {} => class \in Objects(a))
  BY <1>1 DEF Objects
<1>3. \A i \in links : i.by \in DM!AllLists(list) \/ i.by \in UNION {DM!AllLinks(c) : c \in Objects(a) \ {list}}
  BY <1>2
<1>4. \A c \in Objects(a) \ {"DERControl"} : DM!AllRequired(c) \ Filled(c) = NeverFilled(c)
  BY <1>2
<1>5. \A i \in a.links :
       i.by \in DM!AllLinks(a.class) \cup DM!AllLists(a.class)
         \cup UNION {DM!AllLinks(c) : c \in Objects(a) \ {a.class}}
  BY <1>1, <1>3
<1> QED BY <1>4, <1>5, Zenon DEF Complete, a

\* The server fills in of a class what it is known to fill in.
Sufficient(class) == DM!AllRequired(class) \ Filled(class) = NeverFilled(class)

LEMMA FilledIn ==
  /\ \A c \in {"DeviceCapability", "Time", "EndDeviceList", "EndDevice", "Registration",
               "DeviceInformation", "DeviceStatus", "FunctionSetAssignmentsList",
               "FunctionSetAssignments", "DERList", "DER", "DERProgramList", "DERControlList",
               "MirrorUsagePointList"} :
       Sufficient(c)
  /\ (\A k \in UNION Members(fsas) : programs[k].mRID # 0) => Sufficient("DERProgram")
<1>1. \A c \in {"EndDeviceList", "FunctionSetAssignmentsList", "DERList", "DERProgramList",
                "DERControlList", "MirrorUsagePointList"} : Sufficient(c)
  BY SchemaAssumption DEF Sufficient, Filled, NeverFilled
<1>2. Sufficient("DeviceCapability") /\ Sufficient("DER")
  BY SchemaAssumption DEF Sufficient, Filled, NeverFilled
<1>3. Sufficient("Time")
  BY SchemaAssumption DEF Sufficient, Filled, NeverFilled
<1>4. Sufficient("EndDevice")
  BY SchemaAssumption DEF Sufficient, Filled, NeverFilled
<1>5. Sufficient("Registration")
  BY SchemaAssumption DEF Sufficient, Filled, NeverFilled
<1>6. Sufficient("DeviceInformation")
  BY SchemaAssumption DEF Sufficient, Filled, NeverFilled
<1>7. Sufficient("DeviceStatus") /\ Sufficient("FunctionSetAssignments")
  BY SchemaAssumption DEF Sufficient, Filled, NeverFilled
<1>8. (\A k \in UNION Members(fsas) : programs[k].mRID # 0) => Sufficient("DERProgram")
  BY SchemaAssumption DEF Sufficient, Filled, NeverFilled
<1> QED BY <1>1, <1>2, <1>3, <1>4, <1>5, <1>6, <1>7, <1>8

\* The items of a list of FSAs or DERs are named by their indices from 0 on.
LEMMA IndexesSeen ==
  ASSUME NEW T, NEW list \in Seq(T), NEW n \in Seen([i \in DOMAIN list |-> i - 1])
  PROVE  n + 1 \in DOMAIN list /\ n = (n + 1) - 1
<1> DEFINE indexes == [i \in 1 .. Len(list) |-> i - 1]
<1>1. DOMAIN list = 1 .. Len(list) /\ Len(list) \in Nat
  BY LenProperties
<1>2. indexes \in Seq(Int) /\ Len(indexes) = Len(list)
  BY <1>1
<1>3. n \in Members(indexes)
  BY <1>1, <1>2, SeenAreMembers
<1>4. PICK i \in 1 .. Len(list) : i - 1 = n
  BY <1>1, <1>2, <1>3 DEF Members
<1> QED BY <1>1, <1>4

\* What the invariants say of the lists answers are made of.
LEMMA Ground ==
  ASSUME StartupInv, Links
  PROVE  /\ DOMAIN programs = 1 .. Len(programs) /\ Len(programs) \in Nat
         /\ DOMAIN devices = 1 .. Len(devices) /\ Len(devices) \in Nat
         /\ fsas \in Seq(SUBSET (1 .. Len(programs)))
         /\ DOMAIN fsas = 1 .. Len(fsas) /\ Len(fsas) \in Nat
         /\ \A i \in DOMAIN fsas : fsas[i] \subseteq DOMAIN programs
         /\ \A d \in DOMAIN devices : devices[d].ders \in Seq(Nat)
         /\ \A k \in DOMAIN programs : Members(programs[k].derc) \subseteq Nat
         /\ \A k \in UNION Members(fsas) : programs[k].mRID # 0
<1>1. /\ DOMAIN programs = 1 .. Len(programs) /\ Len(programs) \in Nat
      /\ DOMAIN devices = 1 .. Len(devices) /\ Len(devices) \in Nat
      /\ fsas \in Seq(SUBSET (1 .. Len(programs)))
      /\ DOMAIN fsas = 1 .. Len(fsas) /\ Len(fsas) \in Nat
  BY ConfigFacts, LenProperties DEF StartupInv, TypeOK
<1>2. \A i \in DOMAIN fsas : fsas[i] \subseteq DOMAIN programs
  BY <1>1, ElementOfSeq
<1>3. ASSUME NEW d \in DOMAIN devices PROVE devices[d].ders \in Seq(Nat)
  <2>1. devices[d] \in EndDevice
    BY <1>1, ElementOfSeq DEF StartupInv, TypeOK
  <2> QED BY <2>1 DEF EndDevice
<1>4. ASSUME NEW k \in DOMAIN programs PROVE Members(programs[k].derc) \subseteq Nat
  <2>1. programs[k] \in Program
    BY <1>1, ElementOfSeq DEF StartupInv, TypeOK
  <2>2. programs[k].derc \in Seq(Nat)
    BY <2>1 DEF Program
  <2> QED BY <2>2, MembersOfSeq
<1>5. ASSUME NEW k \in UNION Members(fsas) PROVE programs[k].mRID # 0
  <2>1. PICK i \in DOMAIN fsas : k \in fsas[i]
    BY DEF Members
  <2>2. fsas # <<>>
    BY <2>1, EmptySeq
  <2>3. k = 1
    BY <2>1 DEF Links
  <2> QED BY <2>2, <2>3 DEF Links
<1> QED BY <1>1, <1>2, <1>3, <1>4, <1>5

LEMMA SoundWhen ==
  ASSUME NEW d, NEW l, Len(l.to) # 5, Answer(d, l.to).links \subseteq Met(d),
         Complete(Answer(d, l.to)), Excused(d, l) <=> ~Leads(l, Answer(d, l.to))
  PROVE  Sound(d, l)
BY DEF Sound

\* A link to an object without links.
LEMMA PlainSound ==
  ASSUME NEW d, NEW l, Len(l.to) # 5, ~Excused(d, l),
         Answer(d, l.to) = Gives(l.class, Promised(l), {}),
         Sufficient(l.class), DM!IsA(l.class, l.class)
  PROVE  Sound(d, l)
<1> DEFINE a == Gives(l.class, Promised(l), {})
<1>1. a.links = {} /\ Leads(l, a)
  BY DEF Gives, Leads
<1>2. Complete(a)
  BY PlainComplete DEF Sufficient
<1> QED BY <1>1, <1>2, SoundWhen

\* The list of devices, at whatever place, has the one device that asks.
LEMMA DeviceListComplete ==
  ASSUME NEW d, NEW at
  PROVE  /\ Complete(Gives("EndDeviceList", at, DeviceLinks(d)))
         /\ Gives("EndDeviceList", at, DeviceLinks(d)).links \subseteq Met(d)
<1>1. ASSUME NEW l \in DeviceLinks(d)
      PROVE  \/ l.by = "EndDevice" /\ l.class = "EndDevice"
             \/ l.by # l.class /\ l.by \in DM!AllLinks("EndDevice")
  BY DeviceLinksAt, SchemaAssumption DEF Item, Link
<1>2. \E l \in DeviceLinks(d) : l.by = "EndDevice" /\ l.class = "EndDevice"
  <2>1. Item(<<"edev", d - 1>>, "EndDevice") \in DeviceLinks(d)
    BY DEF DeviceLinks
  <2> QED BY <2>1 DEF Item
<1>3. Sufficient("EndDevice") /\ Sufficient("EndDeviceList")
  BY FilledIn
<1>4. "EndDevice" \in DM!AllLists("EndDeviceList")
  BY SchemaAssumption
<1>5. Complete(Gives("EndDeviceList", at, DeviceLinks(d)))
  BY <1>1, <1>2, <1>3, <1>4, ListComplete DEF Sufficient
<1>6. Gives("EndDeviceList", at, DeviceLinks(d)).links = DeviceLinks(d)
  BY DEF Gives
<1> QED BY <1>5, <1>6 DEF Met

\* The links of the device capability, and the way there.
LEMMA EntrySound ==
  ASSUME NEW d
  PROVE  \A l \in {Entry} \cup DcapAnswer.links : Sound(d, l)
<1>1. Sound(d, Entry)
  <2>1. Answer(d, Entry.to) = DcapAnswer /\ Len(Entry.to) # 5 /\ ~Excused(d, Entry)
    BY DEF Entry, Link, Answer, Excused
  <2>2. DcapAnswer.links \subseteq Met(d)
    BY DEF Met
  <2>3. Leads(Entry, DcapAnswer)
    BY SchemaAssumption DEF Leads, DcapAnswer, Gives, Entry, Link, Promised
  <2>4. Complete(DcapAnswer)
    <3>1. Objects(DcapAnswer) = {"DeviceCapability"}
      BY DEF Objects, DcapAnswer, Gives, Link
    <3>2. \A c \in Objects(DcapAnswer) : DM!AllRequired(c) \ Filled(c) = NeverFilled(c)
      BY <3>1, FilledIn DEF Sufficient
    <3>3. \A i \in DcapAnswer.links : i.by \in DM!AllLinks(DcapAnswer.class)
      BY SchemaAssumption DEF DcapAnswer, Gives, Link
    <3> QED BY <3>2, <3>3 DEF Complete
  <2> QED BY <2>1, <2>2, <2>3, <2>4, SoundWhen
<1>2. Sound(d, Link("ResponseSetListLink", <<"rsps">>, "ResponseSetList"))
  <2> DEFINE l == Link("ResponseSetListLink", <<"rsps">>, "ResponseSetList")
  <2>1. Len(l.to) # 5 /\ Answer(d, l.to) = Fails(404) /\ Excused(d, l)
    BY DEF Link, Answer, Excused, Promised
  <2> QED BY <2>1, FailsSound
<1>3. Sound(d, Link("UsagePointListLink", <<"upt">>, "UsagePointList"))
  <2> DEFINE l == Link("UsagePointListLink", <<"upt">>, "UsagePointList")
  <2>1. Len(l.to) # 5 /\ Answer(d, l.to) = Fails(404) /\ Excused(d, l)
    BY DEF Link, Answer, Excused, Promised
  <2> QED BY <2>1, FailsSound
<1>4. Sound(d, Link("TimeLink", <<"tm">>, "Time"))
  <2> DEFINE l == Link("TimeLink", <<"tm">>, "Time")
  <2>1. /\ Len(l.to) # 5 /\ Answer(d, l.to) = Gives(l.class, Promised(l), {}) /\ ~Excused(d, l)
        /\ l.class = "Time"
    BY DEF Link, Answer, Excused, Promised
  <2> QED BY <2>1, PlainSound, FilledIn, SchemaAssumption
<1>5. Sound(d, Link("MirrorUsagePointListLink", <<"mup">>, "MirrorUsagePointList"))
  <2> DEFINE l == Link("MirrorUsagePointListLink", <<"mup">>, "MirrorUsagePointList")
  <2>1. /\ Len(l.to) # 5 /\ Answer(d, l.to) = Gives(l.class, Promised(l), {}) /\ ~Excused(d, l)
        /\ l.class = "MirrorUsagePointList"
    BY DEF Link, Answer, Excused, Promised
  <2> QED BY <2>1, PlainSound, FilledIn, SchemaAssumption
<1>6. Sound(d, Link("EndDeviceListLink", <<"edev">>, "EndDeviceList"))
  <2> DEFINE l == Link("EndDeviceListLink", <<"edev">>, "EndDeviceList")
             a == Gives("EndDeviceList", <<"edev">>, DeviceLinks(d))
  <2>1. Len(l.to) # 5 /\ Answer(d, l.to) = a /\ ~Excused(d, l)
    BY DEF Link, Answer, EndDeviceAnswer, Excused, Promised
  <2>2. Leads(l, a)
    BY SchemaAssumption DEF Leads, Gives, Link, Promised
  <2> QED BY <2>1, <2>2, DeviceListComplete, SoundWhen
<1> QED BY <1>1, <1>2, <1>3, <1>4, <1>5, <1>6 DEF DcapAnswer, Gives

\* The links of an FSA, a DER, a program are among those its class declares, and
\* each is there as an item of its list.
LEMMA FSALinksAt ==
  ASSUME NEW n
  PROVE  /\ \A l \in FSALinks(n) :
              \/ l.by = "FunctionSetAssignments" /\ l.class = "FunctionSetAssignments"
              \/ l.by # l.class /\ l.by \in DM!AllLinks("FunctionSetAssignments")
         /\ \E l \in FSALinks(n) :
              l.by = "FunctionSetAssignments" /\ l.class = "FunctionSetAssignments"
BY SchemaAssumption DEF FSALinks, Item, Link

LEMMA DERLinksLead ==
  ASSUME NEW d, NEW j
  PROVE  /\ \A l \in DERLinks(d, j) :
              \/ l.by = "DER" /\ l.class = "DER"
              \/ l.by # l.class /\ l.by \in DM!AllLinks("DER")
         /\ \E l \in DERLinks(d, j) : l.by = "DER" /\ l.class = "DER"
<1>1. ASSUME NEW l \in DERLinks(d, j)
      PROVE  \/ l.by = "DER" /\ l.class = "DER"
             \/ l.by # l.class /\ l.by \in DM!AllLinks("DER")
  BY DERLinksAt, SchemaAssumption DEF Item, Link
<1>2. \E l \in DERLinks(d, j) : l.by = "DER" /\ l.class = "DER"
  <2>1. Item(<<"edev", d - 1, "der", j>>, "DER") \in DERLinks(d, j)
    BY DEF DERLinks
  <2> QED BY <2>1 DEF Item
<1> QED BY <1>1, <1>2

\* The links of the device, one by one; only the first has its lists.
LEMMA DeviceLinksSound ==
  ASSUME StartupInv, Links, NEW d \in DOMAIN devices
  PROVE  \A l \in DeviceLinks(d) : Sound(d, l)
<1>0. d \in Nat /\ d >= 1
  BY Ground
<1>1. ASSUME NEW l, l = Item(<<"edev", d - 1>>, "EndDevice") PROVE Sound(d, l)
  <2> DEFINE a == Gives("EndDeviceList", <<"edev", d - 1>>, DeviceLinks(d))
  <2>1. Len(l.to) # 5 /\ Answer(d, l.to) = a /\ Excused(d, l)
    BY <1>1 DEF Item, Answer, EndDeviceAnswer, Excused
  <2>2. ~Leads(l, a)
    BY <1>1, SchemaAssumption DEF Leads, Gives, Item, Promised
  <2> QED BY <2>1, <2>2, DeviceListComplete, SoundWhen
<1>2. ASSUME NEW l, l = Link("RegistrationLink", <<"edev", d - 1, "rg">>, "Registration")
      PROVE  Sound(d, l)
  <2>1. /\ Len(l.to) # 5 /\ Answer(d, l.to) = Gives(l.class, Promised(l), {}) /\ ~Excused(d, l)
        /\ l.class = "Registration"
    BY <1>2 DEF Link, Answer, EndDeviceAnswer, Excused, Promised
  <2> QED BY <2>1, PlainSound, FilledIn, SchemaAssumption
<1>3. ASSUME NEW l, l = Link("DeviceInformationLink", <<"edev", d - 1, "di">>, "DeviceInformation")
      PROVE  Sound(d, l)
  <2>1. /\ Len(l.to) # 5 /\ Answer(d, l.to) = Gives(l.class, Promised(l), {}) /\ ~Excused(d, l)
        /\ l.class = "DeviceInformation"
    BY <1>3 DEF Link, Answer, EndDeviceAnswer, Excused, Promised
  <2> QED BY <2>1, PlainSound, FilledIn, SchemaAssumption
<1>4. ASSUME NEW l, l = Link("DeviceStatusLink", <<"edev", d - 1, "dstat">>, "DeviceStatus")
      PROVE  Sound(d, l)
  <2>1. /\ Len(l.to) # 5 /\ Answer(d, l.to) = Gives(l.class, Promised(l), {}) /\ ~Excused(d, l)
        /\ l.class = "DeviceStatus"
    BY <1>4 DEF Link, Answer, EndDeviceAnswer, Excused, Promised
  <2> QED BY <2>1, PlainSound, FilledIn, SchemaAssumption
<1>5. ASSUME NEW l, devices[d].assigned,
             l = Link("FunctionSetAssignmentsListLink", <<"edev", d - 1, "fsa">>,
                      "FunctionSetAssignmentsList")
      PROVE  Sound(d, l)
  <2> DEFINE path == <<"edev", d - 1, "fsa">>
             links == UNION {FSALinks(n) : n \in Seen([i \in DOMAIN fsas |-> i - 1])}
             a == Gives("FunctionSetAssignmentsList", path, links)
  <2>1. CASE d = 1
    <3>1. /\ Len(l.to) # 5 /\ Answer(d, l.to) = a /\ ~Excused(d, l) /\ l.to = path
          /\ l.class = "FunctionSetAssignmentsList"
      BY <1>5, <2>1 DEF Link, Answer, EndDeviceAnswer, FSAAnswer, Excused, Promised
    <3>2. links \subseteq Met(d)
      <4> SUFFICES ASSUME NEW n \in Seen([i \in DOMAIN fsas |-> i - 1])
                   PROVE  FSALinks(n) \subseteq Met(d)
        OBVIOUS
      <4>1. n + 1 \in DOMAIN fsas /\ n = (n + 1) - 1
        BY Ground, IndexesSeen
      <4>2. FSALinks(n) \in {FSALinks(m - 1) : m \in DOMAIN fsas}
        BY <4>1
      <4> QED BY <4>2 DEF Met
    <3>3. Complete(a)
      <4>1. /\ \A x \in links :
                 \/ x.by = "FunctionSetAssignments" /\ x.class = "FunctionSetAssignments"
                 \/ x.by # x.class /\ x.by \in DM!AllLinks("FunctionSetAssignments")
            /\ links # {} => \E x \in links :
                 x.by = "FunctionSetAssignments" /\ x.class = "FunctionSetAssignments"
        BY FSALinksAt
      <4>2. Sufficient("FunctionSetAssignmentsList") /\ Sufficient("FunctionSetAssignments")
        BY FilledIn
      <4>3. "FunctionSetAssignments" \in DM!AllLists("FunctionSetAssignmentsList")
        BY SchemaAssumption
      <4> HIDE DEF links
      <4> QED BY <4>1, <4>2, <4>3, ListComplete DEF Sufficient
    <3>4. a.links = links /\ Leads(l, a)
      BY <1>5, <3>1, SchemaAssumption DEF Leads, Gives, Promised, Link
    <3> QED BY <3>1, <3>2, <3>3, <3>4, SoundWhen
  <2>2. CASE d # 1
    <3>1. Len(l.to) # 5 /\ Answer(d, l.to) = Fails(500) /\ Excused(d, l)
      BY <1>0, <1>5, <2>2 DEF Link, Answer, EndDeviceAnswer, FSAAnswer, Excused, Promised
    <3> QED BY <3>1, FailsSound
  <2> QED BY <2>1, <2>2
<1>6. ASSUME NEW l, devices[d].ders # <<>>,
             l = Link("DERListLink", <<"edev", d - 1, "der">>, "DERList")
      PROVE  Sound(d, l)
  <2> DEFINE path == <<"edev", d - 1, "der">>
             links == UNION {DERLinks(d, j) : j \in Seen([n \in DOMAIN devices[d].ders |-> n - 1])}
             a == Gives("DERList", path, links)
  <2>1. CASE d = 1
    <3>1. /\ Len(l.to) # 5 /\ Answer(d, l.to) = a /\ ~Excused(d, l) /\ l.to = path
          /\ l.class = "DERList"
      BY <1>6, <2>1 DEF Link, Answer, EndDeviceAnswer, DERAnswer, Excused, Promised
    <3>2. links \subseteq Met(d)
      <4> SUFFICES ASSUME NEW j \in Seen([n \in DOMAIN devices[d].ders |-> n - 1])
                   PROVE  DERLinks(d, j) \subseteq Met(d)
        OBVIOUS
      <4>1. j + 1 \in DOMAIN devices[d].ders /\ j = (j + 1) - 1
        BY Ground, IndexesSeen
      <4> QED BY <2>1, <4>1 DEF Met
    <3>3. Complete(a)
      <4>1. /\ \A x \in links : \/ x.by = "DER" /\ x.class = "DER"
                                \/ x.by # x.class /\ x.by \in DM!AllLinks("DER")
            /\ links # {} => \E x \in links : x.by = "DER" /\ x.class = "DER"
        <5>1. \A j :
                /\ \A x \in DERLinks(d, j) :
                     \/ x.by = "DER" /\ x.class = "DER"
                     \/ x.by # x.class /\ x.by \in DM!AllLinks("DER")
                /\ \E x \in DERLinks(d, j) : x.by = "DER" /\ x.class = "DER"
          BY DERLinksLead
        <5> QED BY <5>1
      <4>2. Sufficient("DERList") /\ Sufficient("DER")
        BY FilledIn
      <4>3. "DER" \in DM!AllLists("DERList")
        BY SchemaAssumption
      <4> HIDE DEF links
      <4> QED BY <4>1, <4>2, <4>3, ListComplete DEF Sufficient
    <3>4. a.links = links /\ Leads(l, a)
      BY <1>6, <3>1, SchemaAssumption DEF Leads, Gives, Promised, Link
    <3> QED BY <3>1, <3>2, <3>3, <3>4, SoundWhen
  <2>2. CASE d # 1
    <3>1. Len(l.to) # 5 /\ Answer(d, l.to) = Fails(500) /\ Excused(d, l)
      BY <1>0, <1>6, <2>2 DEF Link, Answer, EndDeviceAnswer, DERAnswer, Excused, Promised
    <3> QED BY <3>1, FailsSound
  <2> QED BY <2>1, <2>2
<1>7. ASSUME NEW l \in DeviceLinks(d) PROVE Sound(d, l)
  <2>1. \/ l = Item(<<"edev", d - 1>>, "EndDevice")
        \/ l = Link("RegistrationLink", <<"edev", d - 1, "rg">>, "Registration")
        \/ l = Link("DeviceInformationLink", <<"edev", d - 1, "di">>, "DeviceInformation")
        \/ l = Link("DeviceStatusLink", <<"edev", d - 1, "dstat">>, "DeviceStatus")
        \/ /\ devices[d].assigned
           /\ l = Link("FunctionSetAssignmentsListLink", <<"edev", d - 1, "fsa">>,
                       "FunctionSetAssignmentsList")
        \/ /\ devices[d].ders # <<>>
           /\ l = Link("DERListLink", <<"edev", d - 1, "der">>, "DERList")
    BY DeviceLinksAt
  <2> QED BY <1>1, <1>2, <1>3, <1>4, <1>5, <1>6, <2>1, Zenon
<1> QED BY <1>7

\* Below a DER a device gets what was PUT there, if anything: whether it is what
\* the link is for is the excuse.
LEMMA PutSound ==
  ASSUME NEW d, d = 1, NEW j, j + 1 \in DOMAIN devices[d].ders, devices[d].ders # <<>>,
         NEW s, NEW class, NEW l,
         NEW name \in {"DERAvailabilityLink", "DERCapabilityLink", "DERSettingsLink",
                       "DERStatusLink"},
         l = Link(name, <<"edev", d - 1, "der", j, s>>, class)
  PROVE  Sound(d, l)
<1> DEFINE at == <<"edev", d - 1, "der", j, s>>
           kept == slots[<<<<d - 1, j>>, s>>]
<1>1. /\ Len(l.to) = 5 /\ l.to = at /\ l.class = class /\ l.by = name
      /\ l.to[2] = d - 1 /\ l.to[4] = j /\ l.to[5] = s
  BY DEF Link
<1>2. Answer(d, l.to) = SubAnswer(d, j, s, at)
  <2>1. Answer(d, at) = DERAnswer(d, at)
    BY DEF Answer, EndDeviceAnswer
  <2>2. DERAnswer(d, at) = SubAnswer(d, j, s, at)
    BY DEF DERAnswer
  <2> QED BY <1>1, <2>1, <2>2
<1>3. Excused(d, l) <=> \/ kept = <<>> \/ ~DM!IsA(kept[1].class, class)
                        \/ kept[1].href \notin {<<"path">>, at}
  BY <1>1 DEF Excused
<1> HIDE DEF at, kept
<1>4. CASE kept = <<>>
  <2>1. SubAnswer(d, j, s, at) = Fails(500)
    BY <1>4 DEF SubAnswer, kept
  <2>2. Fails(500).links = {} /\ ~Leads(l, Fails(500))
    BY DEF Fails, Leads
  <2> QED BY <1>1, <1>2, <1>3, <1>4, <2>1, <2>2 DEF Sound
<1>5. CASE kept # <<>>
  <2> DEFINE address == IF kept[1].href = <<"path">> THEN at ELSE kept[1].href
  <2>1. SubAnswer(d, j, s, at) = Gives(kept[1].class, address, {})
    BY <1>5 DEF SubAnswer, kept
  <2>2. /\ Gives(kept[1].class, address, {}).links = {}
        /\ Leads(l, Gives(kept[1].class, address, {})) <=>
             DM!IsA(kept[1].class, class) /\ address = l.to
    BY <1>1 DEF Gives, Leads, Promised
  <2>3. address = l.to <=> kept[1].href \in {<<"path">>, at}
    BY <1>1
  <2> HIDE DEF address
  <2> QED BY <1>1, <1>2, <1>3, <1>5, <2>1, <2>2, <2>3 DEF Sound
<1> QED BY <1>4, <1>5

\* The links of the DERs the first device comes to.
LEMMA DERLinksSound ==
  ASSUME StartupInv, Links, NEW d \in DOMAIN devices, d = 1, NEW n \in DOMAIN devices[d].ders
  PROVE  \A l \in DERLinks(d, n - 1) : Sound(d, l)
<1>0. n \in Nat /\ devices[d].ders # <<>> /\ (n - 1) + 1 = n
  BY Ground, EmptySeq, LenProperties
<1>1. PICK j : j = n - 1 /\ j + 1 \in DOMAIN devices[d].ders
  BY <1>0
<1>2. ASSUME NEW l, l = Item(<<"edev", d - 1, "der", j>>, "DER") PROVE Sound(d, l)
  <2> DEFINE a == GivesOne("DER", <<"edev", d - 1, "der", j>>, DERLinks(d, j))
  <2>1. Len(l.to) # 5 /\ ~Excused(d, l)
    BY <1>2 DEF Item, Excused
  <2>2. Answer(d, l.to) = a
    <3>1. Answer(d, l.to) = DERAnswer(d, <<"edev", d - 1, "der", j>>)
      BY <1>2 DEF Item, Answer, EndDeviceAnswer
    <3> QED BY <1>0, <1>1, <3>1 DEF DERAnswer
  <2>3. Leads(l, a)
    BY <1>2, SchemaAssumption DEF Leads, GivesOne, Gives, Item, Promised
  <2>4. a.links \subseteq Met(d)
    <3>1. a.links \subseteq DERLinks(d, n - 1)
      BY <1>1 DEF GivesOne, Gives
    <3> HIDE DEF a
    <3> QED BY <3>1 DEF Met
  <2>5. Complete(a)
    <3>1. \A x \in DERLinks(d, j) : x.by = "DER" \/ (x.by # x.class /\ x.by \in DM!AllLinks("DER"))
      BY DERLinksLead
    <3> QED BY <3>1, FilledIn, OneComplete DEF Sufficient
  <2> QED BY <2>1, <2>2, <2>3, <2>4, <2>5, SoundWhen
<1>3. ASSUME NEW l, NEW to, l = Link("CurrentDERProgramLink", <<"derp", to>>, "DERProgram")
      PROVE  Sound(d, l)
  <2>1. Len(l.to) # 5 /\ Answer(d, l.to) = Fails(500) /\ Excused(d, l)
    BY <1>3 DEF Link, Answer, ProgramAnswer, Excused, Promised
  <2> QED BY <2>1, FailsSound
<1>4. ASSUME NEW l \in DERLinks(d, j) PROVE Sound(d, l)
  <2>1. \/ l = Item(<<"edev", d - 1, "der", j>>, "DER")
        \/ l = Link("DERAvailabilityLink", <<"edev", d - 1, "der", j, "dera">>, "DERAvailability")
        \/ l = Link("DERCapabilityLink", <<"edev", d - 1, "der", j, "dercap">>, "DERCapability")
        \/ l = Link("DERSettingsLink", <<"edev", d - 1, "der", j, "derg">>, "DERSettings")
        \/ l = Link("DERStatusLink", <<"edev", d - 1, "der", j, "ders">>, "DERStatus")
        \/ l = Link("CurrentDERProgramLink", <<"derp", devices[d].ders[j + 1] - 1>>, "DERProgram")
    BY DERLinksAt
  <2>2. CASE l = Link("DERAvailabilityLink", <<"edev", d - 1, "der", j, "dera">>, "DERAvailability")
    BY <1>0, <1>1, <2>2, PutSound
  <2>3. CASE l = Link("DERCapabilityLink", <<"edev", d - 1, "der", j, "dercap">>, "DERCapability")
    BY <1>0, <1>1, <2>3, PutSound
  <2>4. CASE l = Link("DERSettingsLink", <<"edev", d - 1, "der", j, "derg">>, "DERSettings")
    BY <1>0, <1>1, <2>4, PutSound
  <2>5. CASE l = Link("DERStatusLink", <<"edev", d - 1, "der", j, "ders">>, "DERStatus")
    BY <1>0, <1>1, <2>5, PutSound
  <2> QED BY <1>2, <1>3, <2>1, <2>2, <2>3, <2>4, <2>5, Zenon
<1> QED BY <1>1, <1>4

LEMMA ProgramLinksLead ==
  ASSUME NEW k
  PROVE  /\ \A l \in ProgramLinks(k) :
              \/ l.by = "DERProgram" /\ l.class = "DERProgram"
              \/ l.by # l.class /\ l.by \in DM!AllLinks("DERProgram")
         /\ \E l \in ProgramLinks(k) : l.by = "DERProgram" /\ l.class = "DERProgram"
<1>1. ASSUME NEW l \in ProgramLinks(k)
      PROVE  \/ l.by = "DERProgram" /\ l.class = "DERProgram"
             \/ l.by # l.class /\ l.by \in DM!AllLinks("DERProgram")
  BY ProgramLinksAt, SchemaAssumption DEF Item, Link
<1>2. Item(<<"derp", k - 1>>, "DERProgram") \in ProgramLinks(k)
  BY DEF ProgramLinks, ProgramLinksFrom
<1> QED BY <1>1, <1>2 DEF Item

\* The links of an FSA: itself, and the one list of programs there is.
LEMMA FSALinksSound ==
  ASSUME StartupInv, Links, NEW d, NEW n \in DOMAIN fsas
  PROVE  \A l \in FSALinks(n - 1) : Sound(d, l)
<1>0. n \in Nat /\ 1 \in DOMAIN fsas
  BY Ground
<1>1. PICK i : i = n - 1 /\ i + 1 \in DOMAIN fsas
  BY <1>0
<1>2. ASSUME NEW l, l = Item(<<"fsa", i>>, "FunctionSetAssignments") PROVE Sound(d, l)
  <2> DEFINE a == GivesOne("FunctionSetAssignments", <<"fsa", i>>, FSALinks(i))
  <2>1. Len(l.to) # 5 /\ Answer(d, l.to) = a /\ ~Excused(d, l)
    BY <1>1, <1>2 DEF Item, Answer, FSARequest, Excused
  <2>2. Leads(l, a)
    BY <1>2, SchemaAssumption DEF Leads, GivesOne, Gives, Item, Promised
  <2>3. a.links \subseteq Met(d)
    <3>1. a.links \subseteq FSALinks(n - 1)
      BY <1>1 DEF GivesOne, Gives
    <3> HIDE DEF a
    <3> QED BY <3>1 DEF Met
  <2>4. Complete(a)
    <3>1. \A x \in FSALinks(i) : \/ x.by = "FunctionSetAssignments"
                                 \/ x.by # x.class /\ x.by \in DM!AllLinks("FunctionSetAssignments")
      BY FSALinksAt
    <3> QED BY <3>1, FilledIn, OneComplete DEF Sufficient
  <2> QED BY <2>1, <2>2, <2>3, <2>4, SoundWhen
<1>3. ASSUME NEW l, l = Link("DERProgramListLink", <<"fsa", 0, "derp">>, "DERProgramList")
      PROVE  Sound(d, l)
  <2> DEFINE path == <<"fsa", 0, "derp">>
             links == UNION {ProgramLinks(k) : k \in fsas[1]}
             a == Gives("DERProgramList", NoHref, links)
  <2>1. /\ Len(l.to) # 5 /\ Answer(d, l.to) = a /\ ~Excused(d, l) /\ l.to = path
        /\ l.class = "DERProgramList"
    BY <1>0, <1>3 DEF Link, Answer, FSARequest, Excused, Promised
  <2>2. links \subseteq Met(d)
    <3>1. fsas[1] \subseteq DOMAIN programs
      BY <1>0, Ground
    <3> QED BY <3>1 DEF Met
  <2>3. Complete(a)
    <3>1. /\ \A x \in links :
               \/ x.by = "DERProgram" /\ x.class = "DERProgram"
               \/ x.by # x.class /\ x.by \in DM!AllLinks("DERProgram")
          /\ links # {} => \E x \in links : x.by = "DERProgram" /\ x.class = "DERProgram"
      BY ProgramLinksLead
    <3>2. Sufficient("DERProgramList") /\ Sufficient("DERProgram")
      BY FilledIn, Ground
    <3>3. "DERProgram" \in DM!AllLists("DERProgramList")
      BY SchemaAssumption
    <3> HIDE DEF links
    <3> QED BY <3>1, <3>2, <3>3, ListComplete DEF Sufficient
  <2>4. a.links = links /\ Leads(l, a)
    BY <1>3, <2>1, SchemaAssumption DEF Leads, Gives, Promised, Link
  <2> QED BY <2>1, <2>2, <2>3, <2>4, SoundWhen
<1> QED BY <1>1, <1>2, <1>3 DEF FSALinks

\* The links of a program.
LEMMA ProgramLinksSound ==
  ASSUME StartupInv, Links, NEW d, NEW k \in DOMAIN programs
  PROVE  \A l \in ProgramLinks(k) : Sound(d, l)
<1>0. k \in Nat
  BY Ground
<1>1. PICK i : i = k - 1 /\ i + 1 = k
  BY <1>0
<1>2. ASSUME NEW l, l = Item(<<"derp", i>>, "DERProgram") PROVE Sound(d, l)
  <2>1. Len(l.to) # 5 /\ Answer(d, l.to) = Fails(500) /\ Excused(d, l)
    BY <1>2 DEF Item, Answer, ProgramAnswer, Excused
  <2> QED BY <2>1, FailsSound
<1>3. ASSUME NEW l, l = Link("DERCurveListLink", <<"derp", i, "dc">>, "DERCurveList")
      PROVE  Sound(d, l)
  <2>1. Len(l.to) # 5 /\ Answer(d, l.to) = Fails(500) /\ Excused(d, l)
    BY <1>1, <1>3 DEF Link, Answer, ProgramAnswer, Excused, Promised
  <2> QED BY <2>1, FailsSound
<1>4. ASSUME NEW l, l = Link("DefaultDERControlLink", <<"derp", i, "dderc">>, "DefaultDERControl")
      PROVE  Sound(d, l)
  <2> DEFINE at == ControlPath(programs[k].dderc[1])
  <2>1. Len(l.to) # 5 /\ Answer(d, l.to) = Gives("DERControl", at, {}) /\ Excused(d, l)
    BY <1>1, <1>4 DEF Link, Answer, ProgramAnswer, Excused, Promised
  <2>2. ~Leads(l, Gives("DERControl", at, {})) /\ Gives("DERControl", at, {}).links = {}
    BY <1>4 DEF Leads, Gives, ControlPath, Link, Promised
  <2>3. Complete(Gives("DERControl", at, {}))
    BY DEF Complete, Gives, Objects
  <2> QED BY <2>1, <2>2, <2>3, SoundWhen
<1>5. ASSUME NEW l, l = Link("ActiveDERControlListLink", <<"derp", i, "derca">>, "DERControlList")
      PROVE  Sound(d, l)
  <2>1. /\ Len(l.to) # 5 /\ Answer(d, l.to) = Gives(l.class, Promised(l), {}) /\ ~Excused(d, l)
        /\ l.class = "DERControlList"
    BY <1>1, <1>5 DEF Link, Answer, ProgramAnswer, Excused, Promised
  <2> QED BY <2>1, PlainSound, FilledIn, SchemaAssumption
<1>6. ASSUME NEW l, l = Link("DERControlListLink", <<"derp", i, "derc">>, "DERControlList")
      PROVE  Sound(d, l)
  <2> DEFINE path == <<"derp", i, "derc">>
             links == {Item(ControlPath(c), "DERControl") : c \in Members(programs[k].derc)}
             a == Gives("DERControlList", path, links)
  <2>1. /\ Len(l.to) # 5 /\ Answer(d, l.to) = a /\ ~Excused(d, l) /\ l.to = path
        /\ l.class = "DERControlList"
    BY <1>1, <1>6 DEF Link, Answer, ProgramAnswer, Excused, Promised
  <2>2. links \subseteq Met(d)
    <3>1. Members(programs[k].derc) \subseteq Nat
      BY Ground
    <3> QED BY <3>1 DEF Met
  <2>3. Complete(a)
    <3>1. \A x \in links : x.by = "DERControl" /\ x.class = "DERControl"
      BY DEF Item
    <3>2. Sufficient("DERControlList") /\ "DERControl" \in DM!AllLists("DERControlList")
      BY FilledIn, SchemaAssumption
    <3> HIDE DEF links
    <3> QED BY <3>1, <3>2, ListComplete DEF Sufficient
  <2>4. a.links = links /\ Leads(l, a)
    BY <1>6, <2>1, SchemaAssumption DEF Leads, Gives, Promised, Link
  <2> QED BY <2>1, <2>2, <2>3, <2>4, SoundWhen
<1> QED BY <1>1, <1>2, <1>3, <1>4, <1>5, <1>6, ProgramLinksAt

\* A control has no route of its own.
LEMMA ControlSound ==
  ASSUME NEW d, NEW c
  PROVE  Sound(d, Item(ControlPath(c), "DERControl"))
<1> DEFINE l == Item(ControlPath(c), "DERControl")
<1>1. Len(l.to) # 5 /\ Answer(d, l.to) = Fails(500) /\ Excused(d, l)
  BY DEF Item, ControlPath, Answer, Excused
<1> QED BY <1>1, FailsSound

\* All the links a device can come across.
LEMMA MetSound ==
  ASSUME StartupInv, Links, NEW d \in DOMAIN devices
  PROVE  \A l \in Met(d) : Sound(d, l)
<1> SUFFICES ASSUME NEW l \in Met(d) PROVE Sound(d, l)
  OBVIOUS
<1>1. CASE l \in {Entry} \cup DcapAnswer.links
  BY <1>1, EntrySound
<1>2. CASE l \in DeviceLinks(d)
  BY <1>2, DeviceLinksSound
<1>3. CASE \E n \in DOMAIN devices[d].ders : d = 1 /\ l \in DERLinks(d, n - 1)
  BY <1>3, DERLinksSound
<1>4. CASE \E n \in DOMAIN fsas : l \in FSALinks(n - 1)
  BY <1>4, FSALinksSound
<1>5. CASE \E k \in DOMAIN programs : l \in ProgramLinks(k)
  BY <1>5, ProgramLinksSound
<1>6. CASE \E c \in Nat : l = Item(ControlPath(c), "DERControl")
  BY <1>6, ControlSound
<1> QED BY <1>1, <1>2, <1>3, <1>4, <1>5, <1>6 DEF Met

\* Following the links of what has been met leads to nothing else.
LEMMA WalkStays ==
  ASSUME StartupInv, Links, NEW d \in DOMAIN devices
  PROVE  Walk(d) \subseteq Met(d)
<1>1. ASSUME NEW links \in SUBSET Met(d) PROVE Further(d, links) \in SUBSET Met(d)
  <2>1. \A l \in links : Answer(d, l.to).links \subseteq Met(d)
    BY MetSound DEF Sound
  <2> QED BY <2>1 DEF Further
<1>2. {Entry} \in SUBSET Met(d)
  BY DEF Met
<1> DEFINE twice(links) == Further(d, Further(d, links))
<1>3. \A links \in SUBSET Met(d) : twice(links) \in SUBSET Met(d)
  BY <1>1
<1>4. Walk(d) = twice(twice(twice({Entry})))
  BY DEF Walk
<1> HIDE DEF twice
<1> QED BY <1>2, <1>3, <1>4

\* Whatever the configuration file says and whatever is PUT below the DERs, with
\* an href of its own or without: what a device is given links to is what it
\* finds there, with the href of the link (the Time and the programs of an FSA
\* with none), but for the links that are excused, and those never lead there
\* (hrefs.py; enddevicesfs.py 47, 124, 140, 211; timefs.py; server_endpoints.py).
THEOREM LinksAlwaysLead == TreeSpec => []LinksLead
<1>1. StartupInv /\ Links => LinksLead
  <2> SUFFICES ASSUME StartupInv, Links, NEW d \in DOMAIN devices, NEW l \in Walk(d)
               PROVE  Excused(d, l) <=> ~Leads(l, Answer(d, l.to))
    BY DEF LinksLead, Leads
  <2>1. Sound(d, l)
    BY MetSound, WalkStays
  <2> QED BY <2>1 DEF Sound
<1>2. Spec => [](StartupInv /\ Links)
  BY LinksInvariant, PTL
<1> QED BY <1>1, <1>2, TreeExtendsStartup, PTL

\* Whatever the configuration file says: what a device reads along its links has
\* all its class requires but what is never filled in, and carries nothing its
\* class does not declare.  A program that can be reached is the first, and has
\* its mRID since an FSA leads to it (enddevices.py 87-97).
THEOREM AnswersAreComplete == TreeSpec => []AnswersComplete
<1>1. StartupInv /\ Links => AnswersComplete
  <2> SUFFICES ASSUME StartupInv, Links, NEW d \in DOMAIN devices, NEW l \in Walk(d)
               PROVE  LET got == Answer(d, l.to) IN
                      /\ \A c \in Objects(got) \cap ByServer(l) :
                           DM!AllRequired(c) \ Filled(c) = NeverFilled(c)
                      /\ got.status = 200 => \A i \in got.links :
                           i.by \in DM!AllLinks(got.class) \cup DM!AllLists(got.class)
                             \cup UNION {DM!AllLinks(c) : c \in Objects(got) \ {got.class}}
    BY Zenon DEF AnswersComplete
  <2>1. Sound(d, l)
    BY MetSound, WalkStays
  <2>2. CASE Len(l.to) = 5
    <3>1. ByServer(l) = {} /\ Answer(d, l.to).links = {}
      BY <2>1, <2>2 DEF ByServer, Sound
    <3> QED BY <3>1
  <2>3. CASE Len(l.to) # 5
    <3>1. Complete(Answer(d, l.to)) /\ ByServer(l) = DM!ClassName \ {"DERControl"}
      BY <2>1, <2>3 DEF ByServer, Sound
    <3> QED BY <3>1, Zenon DEF Complete
  <2> QED BY <2>2, <2>3
<1>2. Spec => [](StartupInv /\ Links)
  BY LinksInvariant, PTL
<1> QED BY <1>1, <1>2, TreeExtendsStartup, PTL
=============================================================================
