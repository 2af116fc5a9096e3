------------------------ MODULE TLSRepositoryProofs ------------------------
(***************************************************************************)
(* Theorems about TLSRepository: what a completed start with clear has     *)
(* handed out stays good, and only who has it is served, for any devices,  *)
(* configurations and number of faults.                                    *)
(***************************************************************************)
EXTENDS TLSRepository, SequenceTheorems, TLAPS

Making == {"ca", "admin", "devices"}
Good(n) == n \in paired /\ n \in trusted

\* The call that makes the certificate of a name.
Signs(j, n) == j.name = n /\ j.op = (IF n = "ca" THEN "selfsign" ELSE "sign")

\* A key is made before its certificate, and the CA before the server.
Ordered(list) == \A k \in 1 .. Len(list) :
  /\ list[k].op \in {"key", "ensure"}
       => \E l \in k + 1 .. Len(list) : Signs(list[l], list[k].name)
  /\ list[k].op = "selfsign"
       => /\ list[k].name = "ca" /\ \E l \in k + 1 .. Len(list) : Signs(list[l], "server")
          /\ k <= 2 /\ (k = 2 => list[1] = J("key", "ca"))

\* Whose files a stage works on.
Named(stage) == IF stage = "ca" THEN {"ca", "server", "proxy"}
                ELSE IF stage = "admin" THEN {"admin"} ELSE Device
Calls ==
  /\ pc \notin Making => jobs = <<>>
  /\ pc \notin {"devices", "running", "stopped"} => made = 0
  /\ pc # "stopped" => made <= Len(config.devices)
  /\ \A k \in 1 .. Len(jobs) : jobs[k].name \in Named(pc)
  /\ pc = "devices" /\ jobs # <<>> => clear
  /\ Ordered(jobs)
  /\ jobs # <<>> /\ jobs[1].op = "selfsign" => key["ca"] = "whole"

\* In a start with clear, whoever is to have a certificate has a good one or a
\* call ahead that makes it, and nobody else has any.
Due(n) == Good(n) \/ \E k \in 1 .. Len(jobs) : Signs(jobs[k], n)
MadeSoFar == {config.devices[i] : i \in 1 .. made}
Holders == {d \in Device : cert[d] # "none" \/ d \in combined}
Progress == clear /\ pc \in Making =>
  /\ Due("ca") /\ Due("server")
  /\ \A d \in MadeSoFar : Due(d)
  /\ pc = "devices" => \A k \in 1 .. Len(jobs) : jobs[k].name \in MadeSoFar
  /\ Holders \subseteq MadeSoFar

\* While what was issued counts, nothing is made that could spoil it.
Kept == issued # {} =>
  /\ Good("ca") /\ Good("server") /\ \A d \in issued : Good(d)
  /\ Holders \subseteq issued
  /\ pc \in Making => ~clear
  /\ pc = "ca" => jobs = <<>>
  /\ pc = "running" => Configured \subseteq issued

RepositoryInv == TypeOK /\ Calls /\ Progress /\ Kept
-----------------------------------------------------------------------------
(* Lists of calls. *)

LEMMA TailPositions ==
  ASSUME NEW S, NEW s \in Seq(S), s # <<>>
  PROVE  /\ Len(s) \in Nat \ {0}
         /\ Head(s) = s[1] /\ s[1] \in S
         /\ Tail(s) \in Seq(S) /\ Len(Tail(s)) = Len(s) - 1
         /\ \A k \in 1 .. Len(s) - 1 : Tail(s)[k] = s[k + 1]
<1>1. Len(s) \in Nat /\ Len(s) # 0
  BY EmptySeq, LenProperties
<1> QED BY <1>1, HeadTailProperties

\* What is ordered stays so when the first call is done, and what is ahead
\* behind it is still ahead.
LEMMA TailCalls ==
  ASSUME NEW list \in Seq(Job), list # <<>>, Ordered(list)
  PROVE  /\ Ordered(Tail(list))
         /\ \A n \in Name : (\E k \in 2 .. Len(list) : Signs(list[k], n))
              => \E k \in 1 .. Len(Tail(list)) : Signs(Tail(list)[k], n)
<1> DEFINE rest == Tail(list)
<1>1. /\ Len(list) \in Nat \ {0} /\ Len(rest) = Len(list) - 1
      /\ \A k \in 1 .. Len(rest) : rest[k] = list[k + 1]
  BY TailPositions
<1>2. ASSUME NEW n, NEW k \in 1 .. Len(list), NEW l \in k + 1 .. Len(list), k > 1,
             Signs(list[l], n)
      PROVE  \E m \in (k - 1) + 1 .. Len(rest) : Signs(rest[m], n)
  <2>1. l - 1 \in (k - 1) + 1 .. Len(rest) /\ rest[l - 1] = list[l]
    BY <1>1, <1>2
  <2> QED BY <2>1, <1>2
<1>3. ASSUME NEW k \in 1 .. Len(rest)
      PROVE  /\ rest[k].op \in {"key", "ensure"}
                  => \E l \in k + 1 .. Len(rest) : Signs(rest[l], rest[k].name)
             /\ rest[k].op = "selfsign"
                  => /\ rest[k].name = "ca"
                     /\ \E l \in k + 1 .. Len(rest) : Signs(rest[l], "server")
                     /\ k <= 2 /\ (k = 2 => rest[1] = J("key", "ca"))
  <2>1. k + 1 \in 1 .. Len(list) /\ k + 1 > 1 /\ (k + 1) - 1 = k /\ rest[k] = list[k + 1]
    BY <1>1, <1>3
  <2>2. CASE rest[k].op \in {"key", "ensure"}
    <3>1. PICK l \in (k + 1) + 1 .. Len(list) : Signs(list[l], list[k + 1].name)
      BY <2>1, <2>2 DEF Ordered
    <3> QED BY <1>2, <2>1, <2>2, <3>1
  <2>3. CASE rest[k].op = "selfsign"
    <3>1. /\ list[k + 1].name = "ca" /\ k + 1 <= 2
          /\ \E l \in (k + 1) + 1 .. Len(list) : Signs(list[l], "server")
      BY <2>1, <2>3 DEF Ordered
    <3>2. PICK l \in (k + 1) + 1 .. Len(list) : Signs(list[l], "server")
      BY <3>1
    <3>3. \E m \in ((k + 1) - 1) + 1 .. Len(rest) : Signs(rest[m], "server")
      BY <1>2, <2>1, <3>2
    <3> QED BY <2>1, <2>3, <3>1, <3>3
  <2> QED BY <2>2, <2>3
<1>4. Ordered(rest)
  BY <1>3 DEF Ordered
<1>5. ASSUME NEW n \in Name, NEW k \in 2 .. Len(list), Signs(list[k], n)
      PROVE  \E m \in 1 .. Len(rest) : Signs(rest[m], n)
  <2>1. k - 1 \in 1 .. Len(rest) /\ rest[k - 1] = list[k]
    BY <1>1, <1>5
  <2> QED BY <2>1, <1>5
<1> QED BY <1>4, <1>5

LEMMA CreateCertCalls ==
  ASSUME NEW n \in Name, n # "ca"
  PROVE  /\ CreateCert(n) \in Seq(Job) /\ Len(CreateCert(n)) = 3
         /\ CreateCert(n)[1] = J("ensure", n) /\ CreateCert(n)[2] = J("sign", n)
         /\ CreateCert(n)[3] = J("combine", n)
         /\ Ordered(CreateCert(n))
         /\ \A k \in 1 .. 3 : CreateCert(n)[k].name = n
         /\ \E k \in 1 .. 3 : Signs(CreateCert(n)[k], n)
<1>1. /\ J("ensure", n) \in Job /\ J("sign", n) \in Job /\ J("combine", n) \in Job
  BY DEF J, Job
<1>2. /\ CreateCert(n) \in Seq(Job) /\ Len(CreateCert(n)) = 3
      /\ CreateCert(n)[1] = J("ensure", n) /\ CreateCert(n)[2] = J("sign", n)
      /\ CreateCert(n)[3] = J("combine", n)
  BY <1>1 DEF CreateCert
<1> DEFINE list == CreateCert(n)
<1>3. Signs(list[2], n) /\ \A k \in 1 .. 3 : list[k].name = n
  BY <1>2 DEF Signs, J
<1>4. \A k \in 1 .. 3 : list[k].op \in {"key", "ensure"} => k = 1
  BY <1>2 DEF J
<1>5. \A k \in 1 .. 3 : list[k].op # "selfsign"
  BY <1>2 DEF J
<1> HIDE DEF list
<1>6. Ordered(list)
  <2>1. Len(list) = 3
    BY <1>2 DEF list
  <2> QED BY <1>3, <1>4, <1>5, <2>1 DEF Ordered
<1> QED BY <1>2, <1>3, <1>6 DEF list
LEMMA AdminCalls ==
  LET list == <<J("key", "admin")>> \o CreateCert("admin") IN
  /\ list \in Seq(Job) /\ Ordered(list)
  /\ \A k \in 1 .. Len(list) : list[k].name = "admin"
  /\ list[1].op # "selfsign"
<1> DEFINE a == <<J("key", "admin")>>
           b == CreateCert("admin")
           list == a \o b
<1>1. /\ a \in Seq(Job) /\ Len(a) = 1 /\ a[1] = J("key", "admin")
  BY DEF J, Job, Name
<1>2. /\ b \in Seq(Job) /\ Len(b) = 3
      /\ b[1] = J("ensure", "admin") /\ b[2] = J("sign", "admin") /\ b[3] = J("combine", "admin")
  BY CreateCertCalls DEF Name
<1> HIDE DEF a, b
<1>3. /\ list \in Seq(Job) /\ Len(list) = 4
      /\ \A k \in 1 .. 4 : list[k] = IF k <= 1 THEN a[k] ELSE b[k - 1]
  BY <1>1, <1>2, ConcatProperties
<1>4. /\ list[1] = J("key", "admin") /\ list[2] = J("ensure", "admin")
      /\ list[3] = J("sign", "admin") /\ list[4] = J("combine", "admin")
  BY <1>1, <1>2, <1>3
<1> HIDE DEF list
<1>5. Signs(list[3], "admin")
  BY <1>4 DEF Signs, J
<1>6. /\ \A k \in 1 .. 4 : list[k].name = "admin"
      /\ \A k \in 1 .. 4 : list[k].op \in {"key", "ensure"} => k <= 2
      /\ \A k \in 1 .. 4 : list[k].op # "selfsign"
  BY <1>4 DEF J
<1>7. Ordered(list)
  BY <1>3, <1>5, <1>6 DEF Ordered
<1> QED BY <1>3, <1>6, <1>7 DEF list, a, b

\* Calls of their own may follow.
LEMMA ConcatOrdered ==
  ASSUME NEW a \in Seq(Job), NEW b \in Seq(Job), Ordered(a), Ordered(b),
         \A k \in 1 .. Len(b) : b[k].op # "selfsign"
  PROVE  Ordered(a \o b)
<1> DEFINE c == a \o b
<1>1. /\ Len(a) \in Nat /\ Len(b) \in Nat /\ Len(c) = Len(a) + Len(b)
      /\ \A k \in 1 .. Len(c) : c[k] = IF k <= Len(a) THEN a[k] ELSE b[k - Len(a)]
  BY ConcatProperties, LenProperties
<1> HIDE DEF c
<1>2. ASSUME NEW k \in 1 .. Len(c), k <= Len(a)
      PROVE  /\ c[k].op \in {"key", "ensure"}
                  => \E l \in k + 1 .. Len(c) : Signs(c[l], c[k].name)
             /\ c[k].op = "selfsign"
                  => /\ c[k].name = "ca" /\ \E l \in k + 1 .. Len(c) : Signs(c[l], "server")
                     /\ k <= 2 /\ (k = 2 => c[1] = J("key", "ca"))
  <2>1. /\ k \in 1 .. Len(a) /\ c[k] = a[k]
        /\ \A l \in k + 1 .. Len(a) : l \in k + 1 .. Len(c) /\ c[l] = a[l]
        /\ c[1] = a[1]
    BY <1>1, <1>2
  <2> QED BY <2>1 DEF Ordered
<1>3. ASSUME NEW k \in 1 .. Len(c), ~(k <= Len(a))
      PROVE  /\ c[k].op \in {"key", "ensure"}
                  => \E l \in k + 1 .. Len(c) : Signs(c[l], c[k].name)
             /\ c[k].op # "selfsign"
  <2> DEFINE i == k - Len(a)
  <2>1. i \in 1 .. Len(b) /\ c[k] = b[i]
    BY <1>1, <1>3
  <2>2. ASSUME NEW l \in i + 1 .. Len(b)
        PROVE  l + Len(a) \in k + 1 .. Len(c) /\ c[l + Len(a)] = b[l]
    BY <1>1, <1>3, <2>2
  <2> HIDE DEF i
  <2>3. c[k].op \in {"key", "ensure"} => \E l \in i + 1 .. Len(b) : Signs(b[l], b[i].name)
    BY <2>1 DEF Ordered
  <2> QED BY <2>1, <2>2, <2>3
<1>4. Ordered(c)
  BY <1>2, <1>3 DEF Ordered
<1> QED BY <1>4 DEF c

LEMMA CreateCACalls ==
  ASSUME TypeOK
  PROVE  /\ CreateCA \in Seq(Job) /\ Ordered(CreateCA)
         /\ \A k \in 1 .. Len(CreateCA) : CreateCA[k].name \in {"ca", "server", "proxy"}
         /\ CreateCA[1].op # "selfsign"
         /\ \A n \in {"ca", "server"} :
              \E k \in 1 .. Len(CreateCA) : Signs(CreateCA[k], n)
<1> DEFINE a == <<J("key", "ca"), J("selfsign", "ca"), J("combine", "ca"), J("key", "server")>>
           b == CreateCert("server")
           s == a \o b
           p == IF config.proxy THEN CreateCert("proxy") ELSE <<>>
<1>1. /\ a \in Seq(Job) /\ Len(a) = 4
      /\ a[1] = J("key", "ca") /\ a[2] = J("selfsign", "ca")
      /\ a[3] = J("combine", "ca") /\ a[4] = J("key", "server")
  BY DEF J, Job, Name
<1>2. /\ b \in Seq(Job) /\ Len(b) = 3
      /\ b[1] = J("ensure", "server") /\ b[2] = J("sign", "server") /\ b[3] = J("combine", "server")
  BY CreateCertCalls DEF Name
<1>3. /\ p \in Seq(Job) /\ Ordered(p)
      /\ \A k \in 1 .. Len(p) : p[k].name = "proxy" /\ p[k].op # "selfsign"
  <2>1. CASE config.proxy
    <3>1. CreateCert("proxy") = p
      BY <2>1
    <3> DEFINE c == CreateCert("proxy")
    <3>2. /\ c \in Seq(Job) /\ Len(c) = 3 /\ Ordered(c) /\ \A k \in 1 .. 3 : c[k].name = "proxy"
          /\ c[1] = J("ensure", "proxy") /\ c[2] = J("sign", "proxy") /\ c[3] = J("combine", "proxy")
      BY CreateCertCalls DEF Name
    <3> HIDE DEF c
    <3>3. c[1].op # "selfsign" /\ c[2].op # "selfsign" /\ c[3].op # "selfsign"
      BY <3>2 DEF J
    <3>4. \A k \in 1 .. 3 : c[k].op # "selfsign"
      BY <3>3
    <3> HIDE DEF p
    <3> QED BY <3>1, <3>2, <3>4 DEF c
  <2>2. CASE ~config.proxy
    BY <2>2 DEF Ordered
  <2> QED BY <2>1, <2>2
<1> HIDE DEF a, b, p
<1>4. /\ s \in Seq(Job) /\ Len(s) = 7
      /\ \A k \in 1 .. 7 : s[k] = IF k <= 4 THEN a[k] ELSE b[k - 4]
  <2>1. /\ s \in Seq(Job) /\ Len(s) = Len(a) + Len(b)
        /\ \A k \in 1 .. Len(a) + Len(b) : s[k] = IF k <= Len(a) THEN a[k] ELSE b[k - Len(a)]
    BY <1>1, <1>2, ConcatProperties
  <2> HIDE DEF s
  <2> QED BY <1>1, <1>2, <2>1
<1>5. /\ s[1] = J("key", "ca") /\ s[2] = J("selfsign", "ca") /\ s[3] = J("combine", "ca")
      /\ s[4] = J("key", "server") /\ s[5] = J("ensure", "server")
      /\ s[6] = J("sign", "server") /\ s[7] = J("combine", "server")
  BY <1>1, <1>2, <1>4
<1> HIDE DEF s
<1>6. /\ Signs(s[2], "ca") /\ Signs(s[6], "server")
      /\ s[1].op # "selfsign" /\ s[2].name = "ca"
  BY <1>5 DEF Signs, J
<1>6a. \A k \in 1 .. 7 : k = 1 \/ k = 2 \/ k = 3 \/ k = 4 \/ k = 5 \/ k = 6 \/ k = 7
  OBVIOUS
<1>6b. \A k \in 1 .. 7 : s[k].name \in {"ca", "server"}
  BY <1>5, <1>6a DEF J
<1>6c. \A k \in 1 .. 7 : s[k].op = "selfsign" => k = 2
  BY <1>5, <1>6a DEF J
<1>6d. \A k \in 1 .. 7 : s[k].op \in {"key", "ensure"} =>
          (k = 1 /\ s[k].name = "ca") \/ (k \in 4 .. 5 /\ s[k].name = "server")
  BY <1>5, <1>6a DEF J
<1>7. Ordered(s)
  BY <1>4, <1>5, <1>6, <1>6c, <1>6d DEF Ordered
<1>8. /\ s \o p \in Seq(Job) /\ Len(s \o p) = 7 + Len(p) /\ Len(p) \in Nat
      /\ \A k \in 1 .. 7 + Len(p) : (s \o p)[k] = IF k <= 7 THEN s[k] ELSE p[k - 7]
  <2>1. /\ s \o p \in Seq(Job) /\ Len(s \o p) = Len(s) + Len(p) /\ Len(p) \in Nat
        /\ \A k \in 1 .. Len(s) + Len(p) :
             (s \o p)[k] = IF k <= Len(s) THEN s[k] ELSE p[k - Len(s)]
    BY <1>3, <1>4, ConcatProperties, LenProperties
  <2> QED BY <1>4, <2>1
<1>9. CreateCA = s \o p
  BY DEF CreateCA, s, p, a, b
<1>10. Ordered(CreateCA)
  BY <1>3, <1>4, <1>7, <1>9, ConcatOrdered
<1>11. CreateCA[1] = s[1] /\ CreateCA[2] = s[2] /\ CreateCA[6] = s[6]
  BY <1>8, <1>9
<1>12. 2 \in 1 .. Len(CreateCA) /\ 6 \in 1 .. Len(CreateCA)
  BY <1>8, <1>9
<1>13. \A n \in {"ca", "server"} : \E k \in 1 .. Len(CreateCA) : Signs(CreateCA[k], n)
  BY <1>6, <1>11, <1>12
<1>14. \A k \in 1 .. Len(CreateCA) : CreateCA[k].name \in {"ca", "server", "proxy"}
  BY <1>3, <1>6b, <1>8, <1>9
<1> QED BY <1>6, <1>8, <1>9, <1>10, <1>11, <1>13, <1>14
-----------------------------------------------------------------------------
(* Types. *)

LEMMA ConfigFacts ==
  ASSUME TypeOK
  PROVE  /\ config.devices \in Seq(Device) /\ Len(config.devices) \in Nat
         /\ DOMAIN config.devices = 1 .. Len(config.devices)
         /\ \A i \in 1 .. Len(config.devices) : config.devices[i] \in Device
<1>1. config.devices \in Seq(Device)
  BY ConfigurationType DEF TypeOK
<1> QED BY <1>1, LenProperties

LEMMA HeadJob ==
  ASSUME TypeOK, jobs # <<>>
  PROVE  /\ Job1 \in Job /\ Job1.name \in Name /\ Job1 = jobs[1]
         /\ Len(jobs) \in Nat \ {0} /\ 1 \in 1 .. Len(jobs)
         /\ Tail(jobs) \in Seq(Job)
<1>1. /\ Job1 \in Job /\ Job1 = jobs[1] /\ Len(jobs) \in Nat \ {0} /\ Tail(jobs) \in Seq(Job)
  BY TailPositions DEF TypeOK, Job1
<1> QED BY <1>1 DEF Job

LEMMA InitType == Init => TypeOK /\ Calls /\ Progress /\ Kept
<1> SUFFICES ASSUME Init PROVE TypeOK /\ Calls /\ Progress /\ Kept
  OBVIOUS
<1>1. TypeOK
  <2>1. jobs \in Seq(Job)
    BY EmptySeq DEF Init
  <2> QED BY <2>1 , MaxFaultsAssumption DEF Init, TypeOK, Stage
<1>2. Calls
  BY EmptySeq DEF Init, Calls, Making, Ordered
<1> QED BY <1>1, <1>2 DEF Init, Progress, Kept, Making
LEMMA TypeStep == TypeOK /\ Calls /\ [Next]_vars => TypeOK'
<1> SUFFICES ASSUME TypeOK, Calls, [Next]_vars PROVE TypeOK'
  OBVIOUS
<1> USE DEF Goes, Ends
<1>0. <<>> \in Seq(Job)
  BY EmptySeq
<1>1. CASE vars' = vars
  BY <1>1 DEF vars, files, TypeOK
<1>2. ASSUME NEW c \in Configuration, NEW b \in BOOLEAN, Start(c, b) PROVE TypeOK'
  BY <1>0, <1>2 DEF Start, files, TypeOK, Stage
<1>3. CASE Reload \/ Stop \/ CheckDirectories \/ Refused \/ AdminReady
  <2>1. CASE Reload
    BY <1>0, <2>1 DEF Reload, files, TypeOK, Stage
  <2>2. CASE Stop
    BY <1>0, <2>2 DEF Stop, files, TypeOK, Stage
  <2>3. CASE CheckDirectories
    BY <1>0, <2>3 DEF CheckDirectories, files, TypeOK, Stage, Directory
  <2>4. CASE Refused
    BY <1>0, <2>4 DEF Refused, files, TypeOK, Stage
  <2>5. CASE AdminReady
    BY <1>0, <2>5 DEF AdminReady, files, TypeOK, Stage
  <2> QED BY <1>3, <2>1, <2>2, <2>3, <2>4, <2>5
<1>4. CASE MakeDirectory
  <2>1. NextDirectory[pc] \in Stage
    BY <1>4 DEF MakeDirectory, NextDirectory, Directory, Stage
  <2>2. /\ jobs' = <<>> /\ pc' \in Stage /\ dirs' \subseteq Directory
    BY <1>4, <2>1 DEF MakeDirectory, TypeOK, Stage
  <2> QED BY <1>0, <1>4, <2>2 DEF MakeDirectory, files, TypeOK
<1>5. ASSUME NEW n \in Name, UnlinkKey(n) \/ UnlinkCert(n) \/ UnlinkCombined(n) PROVE TypeOK'
  BY <1>5 DEF UnlinkKey, UnlinkCert, UnlinkCombined, NoKeys, TypeOK
<1>6. CASE Cleared
  <2>1. jobs' \in Seq(Job)
    BY <1>0, <1>6, CreateCACalls DEF Cleared
  <2> QED BY <1>6, <2>1 DEF Cleared, TypeOK, Stage
<1>7. CASE CAReady
  <2>1. jobs' \in Seq(Job)
    BY <1>0, <1>7, AdminCalls DEF CAReady
  <2> QED BY <1>7, <2>1 DEF CAReady, files, TypeOK, Stage
<1>8. CASE MakeDevice
  <2>1. config.devices[made + 1] \in Device
    BY <1>8, ConfigFacts DEF MakeDevice, TypeOK
  <2>2. jobs' \in Seq(Job)
    BY <1>8, <2>1, CreateCertCalls, DeviceAssumption DEF MakeDevice, Name
  <2> QED BY <1>8, <2>2 DEF MakeDevice, files, TypeOK, Stage
<1>9. CASE DevicesReady
  <2>1. Configured \subseteq Device
    BY ConfigFacts DEF Configured
  <2> QED BY <1>0, <1>9, <2>1 DEF DevicesReady, files, TypeOK, Stage
<1>10. CASE Crash
  BY <1>0, <1>10, MaxFaultsAssumption DEF Crash, files, TypeOK, Stage
<1>11. CASE CreateKey
  <2>1. jobs # <<>>
    BY <1>11 DEF CreateKey, Called
  <2> QED BY <1>11, <2>1, HeadJob DEF CreateKey, TypeOK
<1>12. CASE KeepKey
  <2>1. jobs # <<>>
    BY <1>12 DEF KeepKey, Called
  <2> QED BY <1>12, <2>1, HeadJob DEF KeepKey, files, TypeOK
<1>13. CASE CreateCACertificate
  <2>1. jobs # <<>>
    BY <1>13 DEF CreateCACertificate, Called
  <2>2. key["ca"] = "whole"
    BY <1>13, <2>1, HeadJob DEF CreateCACertificate, Called, Calls
  <2>3. "ca" \in Name
    BY DEF Name
  <2> QED BY <1>13, <2>1, <2>2, <2>3, HeadJob DEF CreateCACertificate, TypeOK
<1>14. CASE SignCertificate
  <2>1. jobs # <<>>
    BY <1>14 DEF SignCertificate, Called
  <2> QED BY <1>14, <2>1, HeadJob DEF SignCertificate, Signable, TypeOK
<1>15. CASE Combine
  <2>1. jobs # <<>>
    BY <1>15 DEF Combine, Called
  <2> QED BY <1>15, <2>1, HeadJob DEF Combine, TypeOK
<1>16. CASE CutKey
  <2>1. jobs # <<>>
    BY <1>16 DEF CutKey, Called
  <2> QED BY <1>0, <1>16, <2>1, HeadJob, MaxFaultsAssumption DEF CutKey, TypeOK, Stage
<1>17. ASSUME NEW left \in {"broken", "whole"}, CutCert(left) PROVE TypeOK'
  <2>1. jobs # <<>>
    BY <1>17 DEF CutCert, Called
  <2>2. Job1.op = "selfsign" => Job1.name = "ca"
    BY <2>1, HeadJob DEF Calls, Ordered
  <2>3. key[Job1.name] = "whole"
    BY <1>17, <2>1, <2>2, HeadJob DEF CutCert, Called, Signable, Calls
  <2>4. cert' \in [Name -> {"none", "broken", "whole"}] /\ cert'[Job1.name] = left
        /\ \A n \in Name : n # Job1.name => cert'[n] = cert[n]
    BY <1>17, <2>1, HeadJob DEF CutCert, TypeOK
  <2> DEFINE good == IF left = "whole" THEN {Job1.name} ELSE {}
  <2>5. /\ paired' = (paired \ {Job1.name}) \cup good
        /\ trusted' = (IF Job1.name = "ca" THEN {} ELSE trusted \ {Job1.name}) \cup good
    BY <1>17 DEF CutCert
  <2>6. /\ paired' \subseteq {n \in Name : key[n] = "whole" /\ cert'[n] = "whole"}
        /\ trusted' \subseteq {n \in Name : cert'[n] = "whole"}
    BY <2>1, <2>3, <2>4, <2>5, HeadJob DEF TypeOK
  <2> QED BY <1>0, <1>17, <2>4, <2>6, MaxFaultsAssumption DEF CutCert, TypeOK, Stage
<1> QED
  BY <1>1, <1>2, <1>3, <1>4, <1>5, <1>6, <1>7, <1>8, <1>9, <1>10, <1>11, <1>12, <1>13,
     <1>14, <1>15, <1>16, <1>17 DEF Next, Work
-----------------------------------------------------------------------------
(* The calls ahead. *)

LEMMA NothingAhead ==
  ASSUME jobs' = <<>>, pc' \notin {"devices", "running", "stopped"} => made' = 0,
         pc' # "stopped" => made' <= Len(config'.devices)
  PROVE  Calls'
<1>1. Len(<<>>) = 0
  BY EmptySeq
<1> QED BY <1>1 DEF Calls, Ordered

LEMMA CallDone ==
  ASSUME TypeOK, Calls, jobs # <<>>, jobs' = Tail(jobs),
         pc' = pc, made' = made, config' = config, clear' = clear,
         key["ca"] = "whole" \/ Job1 = J("key", "ca") => key'["ca"] = "whole"
  PROVE  Calls'
<1>1. /\ Len(jobs) \in Nat \ {0} /\ Len(Tail(jobs)) = Len(jobs) - 1 /\ Job1 = jobs[1]
      /\ \A k \in 1 .. Len(jobs) - 1 : Tail(jobs)[k] = jobs[k + 1]
  BY TailPositions DEF TypeOK, Job1
<1>2. Ordered(Tail(jobs))
  BY TailCalls DEF TypeOK, Calls
<1>3. \A k \in 1 .. Len(Tail(jobs)) : Tail(jobs)[k].name \in Named(pc)
  BY <1>1 DEF Calls
<1>4. ASSUME Tail(jobs) # <<>>, Tail(jobs)[1].op = "selfsign" PROVE key'["ca"] = "whole"
  <2>1. Len(Tail(jobs)) # 0
    BY <1>4, <1>1, EmptySeq, TailPositions DEF TypeOK
  <2>2. 2 \in 1 .. Len(jobs) /\ jobs[2].op = "selfsign"
    BY <1>1, <1>4, <2>1
  <2>3. jobs[1] = J("key", "ca")
    BY <2>2 DEF Calls, Ordered
  <2> QED BY <1>1, <2>3
<1>5. pc \in Making
  BY DEF Calls
<1> HIDE DEF Ordered
<1>6. Ordered(jobs')
  BY <1>2
<1>7. \A k \in 1 .. Len(jobs') : jobs'[k].name \in Named(pc)
  BY <1>3
<1> QED BY <1>4, <1>5, <1>6, <1>7 DEF Calls

LEMMA CallsAhead ==
  ASSUME NEW list \in Seq(Job), jobs' = list, pc' \in Making, Ordered(list),
         \A k \in 1 .. Len(list) : list[k].name \in Named(pc'),
         list # <<>> => list[1].op # "selfsign",
         pc' = "devices" /\ list # <<>> => clear',
         pc' # "devices" => made' = 0, made' <= Len(config'.devices)
  PROVE  Calls'
BY DEF Calls, Making

LEMMA CallsStep == TypeOK /\ Calls /\ [Next]_vars => Calls'
<1> SUFFICES ASSUME TypeOK, Calls, [Next]_vars PROVE Calls'
  OBVIOUS
<1> USE DEF Goes, Ends
<1>0. made = 0 => made <= Len(config.devices)
  BY ConfigFacts
<1>1. CASE vars' = vars
  BY <1>1 DEF vars, files, Calls, Ordered, Named, Signs, J
<1>2. ASSUME NEW c \in Configuration, NEW b \in BOOLEAN, Start(c, b) PROVE Calls'
  <2>1. 0 <= Len(c.devices)
    BY ConfigurationType, LenProperties
  <2> QED BY <1>2, <2>1, NothingAhead DEF Start, files
<1>3. CASE Reload
  <2>1. 0 <= Len(config.devices)
    BY ConfigFacts
  <2> QED BY <1>3, <2>1, NothingAhead DEF Reload, files
<1>4. CASE Stop \/ Refused \/ Crash \/ CutKey
  BY <1>4, NothingAhead DEF Stop, Refused, Crash, CutKey, files
<1>5. ASSUME NEW left, CutCert(left) PROVE Calls'
  BY <1>5, NothingAhead DEF CutCert
<1>6. CASE CheckDirectories
  BY <1>6, <1>0, NothingAhead DEF CheckDirectories, files, Calls
<1>7. CASE MakeDirectory
  <2>1. pc' \in {"stopped", "private", "combined", "clear"} /\ jobs' = <<>>
    BY <1>7 DEF MakeDirectory, NextDirectory, Directory
  <2>2. made = 0
    BY <1>7 DEF MakeDirectory, Directory, Calls
  <2> QED BY <1>7, <1>0, <2>1, <2>2, NothingAhead DEF MakeDirectory, files
<1>8. ASSUME NEW n \in Name, UnlinkKey(n) \/ UnlinkCert(n) \/ UnlinkCombined(n) PROVE Calls'
  <2>1. /\ pc = "clear" /\ UNCHANGED <<config, pc, jobs, made>>
    BY <1>8 DEF UnlinkKey, UnlinkCert, UnlinkCombined
  <2>2. jobs = <<>> /\ made = 0
    BY <2>1 DEF Calls, Making
  <2> QED BY <1>0, <2>1, <2>2, NothingAhead
<1>9. CASE Cleared
  <2>1. made = 0
    BY <1>9 DEF Cleared, Calls
  <2>2. CASE jobs' = <<>>
    BY <1>9, <1>0, <2>1, <2>2, NothingAhead DEF Cleared
  <2>3. CASE jobs' = CreateCA
    BY <1>9, <1>0, <2>1, <2>3, CreateCACalls, CallsAhead DEF Cleared, Named, Making
  <2> QED BY <1>9, <2>2, <2>3 DEF Cleared
<1>10. CASE CAReady
  <2>1. made = 0
    BY <1>10 DEF CAReady, Calls
  <2>2. CASE jobs' = <<>>
    BY <1>10, <1>0, <2>1, <2>2, NothingAhead DEF CAReady, files
  <2>3. CASE pc' = "admin" /\ jobs' = <<J("key", "admin")>> \o CreateCert("admin")
    BY <1>10, <1>0, <2>1, <2>3, AdminCalls, CallsAhead DEF CAReady, files, Named, Making
  <2> QED BY <1>10, <2>2, <2>3 DEF CAReady
<1>11. CASE AdminReady
  BY <1>11, <1>0, NothingAhead DEF AdminReady, files, Calls
<1>12. CASE MakeDevice
  <2> DEFINE d == config.devices[made + 1]
  <2>1. d \in Device /\ d \in Name /\ d # "ca"
    BY <1>12, ConfigFacts, DeviceAssumption DEF MakeDevice, TypeOK, Name
  <2>2. /\ made' <= Len(config'.devices)
        /\ jobs' = CreateCert(d) /\ pc' = "devices" /\ clear'
    BY <1>12, ConfigFacts DEF MakeDevice, TypeOK, files
  <2> HIDE DEF d
  <2>3. CreateCert(d)[1].op # "selfsign"
    <3>1. CreateCert(d)[1] = J("ensure", d)
      BY <2>1, CreateCertCalls
    <3> QED BY <3>1 DEF J
  <2> QED BY <2>1, <2>2, <2>3, CreateCertCalls, CallsAhead DEF Named, Making
<1>13. CASE DevicesReady
  BY <1>13, NothingAhead DEF DevicesReady, files, Calls
<1>14. CASE CreateKey
  <2>1. jobs # <<>>
    BY <1>14 DEF CreateKey, Called
  <2>2. key["ca"] = "whole" \/ Job1 = J("key", "ca") => key'["ca"] = "whole"
    BY <1>14, <2>1, HeadJob DEF CreateKey, TypeOK, J, Name
  <2> QED BY <1>14, <2>1, <2>2, CallDone DEF CreateKey
<1>15. CASE KeepKey \/ CreateCACertificate \/ SignCertificate \/ Combine
  <2>1. jobs # <<>> /\ jobs' = Tail(jobs) /\ UNCHANGED <<pc, made, config, clear, key>>
    BY <1>15 DEF KeepKey, CreateCACertificate, SignCertificate, Combine, Called, files
  <2>2. Job1 # J("key", "ca")
    BY <1>15 DEF KeepKey, CreateCACertificate, SignCertificate, Combine, Called, J
  <2> QED BY <2>1, <2>2, CallDone
<1> QED
  BY <1>1, <1>2, <1>3, <1>4, <1>5, <1>6, <1>7, <1>8, <1>9, <1>10, <1>11, <1>12, <1>13,
     <1>14, <1>15 DEF Next, Work
-----------------------------------------------------------------------------
(* A start with clear makes what it has to. *)

LEMMA DueKept ==
  ASSUME TypeOK, jobs # <<>>, Ordered(jobs), jobs' = Tail(jobs), NEW n \in Name, Due(n),
         Signs(Job1, n) => Good(n)',
         Good(n) => Good(n)' \/ \E k \in 2 .. Len(jobs) : Signs(jobs[k], n)
  PROVE  Due(n)'
<1>1. Job1 = jobs[1] /\ Len(jobs) \in Nat \ {0}
  BY HeadJob
<1>2. Good(n)' \/ \E k \in 2 .. Len(jobs) : Signs(jobs[k], n)
  BY <1>1 DEF Due
<1>3. CASE \E k \in 2 .. Len(jobs) : Signs(jobs[k], n)
  <2>1. \E k \in 1 .. Len(Tail(jobs)) : Signs(Tail(jobs)[k], n)
    BY <1>3, TailCalls DEF TypeOK
  <2> QED BY <2>1 DEF Due, Signs
<1> QED BY <1>2, <1>3 DEF Due

\* With nothing ahead, who is due has a good certificate.
LEMMA DueNow ==
  ASSUME jobs = <<>>, NEW n, Due(n)
  PROVE  Good(n)
<1>1. Len(<<>>) = 0
  BY EmptySeq
<1> QED BY <1>1 DEF Due

LEMMA StillMaking ==
  ASSUME TypeOK, Calls, Progress, jobs # <<>>, jobs' = Tail(jobs),
         pc' = pc, made' = made, config' = config, clear' = clear, clear,
         Holders' \subseteq Holders \cup {Job1.name},
         \A n \in {"ca", "server"} \cup MadeSoFar :
           /\ Signs(Job1, n) => Good(n)'
           /\ Good(n) => Good(n)' \/ \E k \in 2 .. Len(jobs) : Signs(jobs[k], n)
  PROVE  Progress'
<1>1. pc \in Making /\ Ordered(jobs)
  BY DEF Calls
<1>2. MadeSoFar \subseteq Device /\ MadeSoFar' = MadeSoFar
  BY <1>1, ConfigFacts DEF MadeSoFar, Calls, Making, TypeOK
<1>3. \A n \in {"ca", "server"} \cup MadeSoFar : n \in Name /\ Due(n)
  BY <1>1, <1>2 DEF Progress, Name
<1>4. \A n \in {"ca", "server"} \cup MadeSoFar : Due(n)'
  BY <1>1, <1>3, DueKept
<1>5. Len(jobs) \in Nat \ {0} /\ Job1 = jobs[1] /\ 1 \in 1 .. Len(jobs)
  BY HeadJob
<1>6. Holders' \subseteq MadeSoFar
  <2>1. Holders \subseteq MadeSoFar
    BY <1>1 DEF Progress
  <2>2. CASE pc = "devices"
    BY <1>1, <1>5, <2>1, <2>2 DEF Progress
  <2>3. CASE pc # "devices"
    <3>1. Job1.name \notin Device
      BY <1>1, <1>5, <2>3, DeviceAssumption DEF Calls, Named, Making
    <3> QED BY <2>1, <3>1 DEF Holders
  <2> QED BY <2>2, <2>3
<1>7. pc' = "devices" => \A k \in 1 .. Len(jobs') : jobs'[k].name \in MadeSoFar
  <2>1. /\ Len(Tail(jobs)) = Len(jobs) - 1
        /\ \A k \in 1 .. Len(jobs) - 1 : Tail(jobs)[k] = jobs[k + 1]
    BY TailPositions DEF TypeOK
  <2> QED BY <1>1, <1>5, <2>1 DEF Progress
<1> QED BY <1>2, <1>4, <1>6, <1>7 DEF Progress

LEMMA ProgressStep == TypeOK /\ Calls /\ Progress /\ [Next]_vars => Progress'
<1> SUFFICES ASSUME TypeOK, Calls, Progress, [Next]_vars, clear', pc' \in Making PROVE Progress'
  BY DEF Progress
<1> USE DEF Goes, Ends
<1>1. CASE vars' = vars
  BY <1>1 DEF vars, files, Progress, Due, Good, Signs, MadeSoFar, Holders
<1>2. ASSUME NEW c \in Configuration, NEW b \in BOOLEAN, Start(c, b) PROVE Progress'
  BY <1>2 DEF Start, Making
<1>3. CASE Reload \/ Stop \/ CheckDirectories \/ MakeDirectory \/ Refused \/ Crash
             \/ CutKey \/ DevicesReady
  <2>1. CASE MakeDirectory
    <3>1. pc' \in {"stopped", "private", "combined", "clear"}
      BY <2>1 DEF MakeDirectory, NextDirectory, Directory
    <3> QED BY <3>1 DEF Making
  <2>2. CASE CheckDirectories
    BY <2>2 DEF CheckDirectories, Making
  <2>3. CASE ~(MakeDirectory \/ CheckDirectories)
    <3>1. pc' \in {"check", "stopped", "running"}
      BY <1>3, <2>3 DEF Reload, Stop, Refused, Crash, CutKey, DevicesReady
    <3> QED BY <3>1 DEF Making
  <2> QED BY <2>1, <2>2, <2>3
<1>4. ASSUME NEW left, CutCert(left) PROVE Progress'
  BY <1>4 DEF CutCert, Making
<1>5. ASSUME NEW n \in Name, UnlinkKey(n) \/ UnlinkCert(n) \/ UnlinkCombined(n) PROVE Progress'
  BY <1>5 DEF UnlinkKey, UnlinkCert, UnlinkCombined, Making
<1>6. CASE Cleared
  <2>1. /\ clear /\ made = 0 /\ made' = 0 /\ pc' = "ca"
        /\ NoKeys /\ NoCerts /\ combined = {} /\ cert' = cert /\ combined' = combined
    BY <1>6 DEF Cleared, Calls, Making
  <2>2. jobs' = CreateCA
    BY <1>6, <2>1 DEF Cleared, NoKeys, Name
  <2>3. MadeSoFar' = {}
    BY <2>1 DEF MadeSoFar
  <2>4. Holders' = {}
    BY <2>1 DEF Holders, NoCerts, Name
  <2>5. \A n \in {"ca", "server"} : Due(n)'
    BY <2>2, CreateCACalls DEF Due, Signs
  <2> QED BY <2>1, <2>3, <2>4, <2>5 DEF Progress
<1>7. CASE CAReady \/ AdminReady
  <2>1. /\ clear /\ pc \in Making /\ jobs = <<>> /\ (pc' = "devices" => jobs' = <<>>)
        /\ UNCHANGED <<paired, trusted, cert, combined, made, config>>
    BY <1>7 DEF CAReady, AdminReady, files, Making
  <2>2. \A n \in {"ca", "server"} \cup MadeSoFar : Good(n)
    BY <2>1, DueNow DEF Progress
  <2>3. MadeSoFar' = MadeSoFar /\ Holders' = Holders /\ Holders \subseteq MadeSoFar
    BY <2>1 DEF MadeSoFar, Holders, Progress
  <2>4. \A n \in {"ca", "server"} \cup MadeSoFar : Due(n)'
    BY <2>1, <2>2 DEF Due, Good
  <2>5. pc' = "devices" => 1 .. Len(jobs') = {}
    BY <2>1, EmptySeq
  <2>6. Due("ca")' /\ Due("server")' /\ \A n \in MadeSoFar' : Due(n)'
    BY <2>3, <2>4
  <2> HIDE DEF Due, MadeSoFar, Holders
  <2> QED BY <2>3, <2>5, <2>6 DEF Progress
<1>8. CASE MakeDevice
  <2> DEFINE d == config.devices[made + 1]
  <2>1. /\ clear /\ pc = "devices" /\ jobs = <<>> /\ made' = made + 1 /\ jobs' = CreateCert(d)
        /\ UNCHANGED <<paired, trusted, cert, combined, config>>
    BY <1>8 DEF MakeDevice, files
  <2>2. d \in Device /\ d \in Name /\ d # "ca"
    BY <1>8, ConfigFacts, DeviceAssumption DEF MakeDevice, TypeOK, Name
  <2>3. \A n \in {"ca", "server"} \cup MadeSoFar : Good(n)
    BY <2>1, DueNow DEF Progress, Making
  <2>4. MadeSoFar' = MadeSoFar \cup {d}
    <3>1. 1 .. made + 1 = (1 .. made) \cup {made + 1}
      BY DEF TypeOK
    <3> QED BY <2>1, <3>1 DEF MadeSoFar
  <2>5. Holders' \subseteq MadeSoFar
    BY <2>1 DEF Holders, Progress, Making
  <2> HIDE DEF d
  <2>6. \A n \in {"ca", "server"} \cup MadeSoFar : Due(n)'
    BY <2>1, <2>3 DEF Due, Good
  <2>7. ASSUME NEW n, n = d PROVE Due(n)'
    <3>1. Len(CreateCert(d)) = 3 /\ \E k \in 1 .. 3 : Signs(CreateCert(d)[k], d)
      BY <2>2, CreateCertCalls
    <3>2. PICK k \in 1 .. 3 : Signs(CreateCert(d)[k], d)
      BY <3>1
    <3>3. k \in 1 .. Len(jobs') /\ Signs(jobs'[k], n)
      BY <2>1, <2>7, <3>1, <3>2
    <3> QED BY <3>3 DEF Due, Signs
  <2>8. \A k \in 1 .. Len(jobs') : jobs'[k].name = d
    BY <2>1, <2>2, CreateCertCalls
  <2> QED BY <2>4, <2>5, <2>6, <2>7, <2>8 DEF Progress
<1>9. CASE CreateKey
  <2>1. /\ jobs # <<>> /\ Job1.op \in {"key", "ensure"} /\ clear
        /\ paired' = paired \ {Job1.name} /\ jobs' = Tail(jobs)
        /\ UNCHANGED <<pc, made, config, clear, cert, combined, trusted>>
    BY <1>9 DEF CreateKey, Called
  <2>2. \A n : n # Job1.name => (Good(n) => Good(n)')
    BY <2>1 DEF Good
  <2>3. \A n : ~Signs(Job1, n)
    BY <2>1 DEF Signs
  <2>4. \E k \in 2 .. Len(jobs) : Signs(jobs[k], Job1.name)
    BY <2>1, HeadJob DEF Calls, Ordered
  <2>5. Holders' = Holders
    BY <2>1 DEF Holders
  <2> QED BY <2>1, <2>2, <2>3, <2>4, <2>5, StillMaking
<1>10. CASE KeepKey \/ Combine
  <2>1. /\ jobs # <<>> /\ Job1.op \in {"ensure", "combine"} /\ clear
        /\ jobs' = Tail(jobs) /\ combined' \subseteq combined \cup {Job1.name}
        /\ UNCHANGED <<pc, made, config, clear, cert, trusted, paired>>
    BY <1>10 DEF KeepKey, Combine, Called, files
  <2>2. \A n : Good(n) => Good(n)'
    BY <2>1 DEF Good
  <2>3. \A n : ~Signs(Job1, n)
    BY <2>1 DEF Signs
  <2>4. Holders' \subseteq Holders \cup {Job1.name}
    BY <2>1 DEF Holders
  <2> QED BY <2>1, <2>2, <2>3, <2>4, StillMaking
<1>11. CASE CreateCACertificate
  <2>1. /\ jobs # <<>> /\ Job1.op = "selfsign" /\ clear
        /\ jobs' = Tail(jobs) /\ combined' = combined /\ cert' = [cert EXCEPT !["ca"] = "whole"]
        /\ paired' = paired \cup {"ca"} /\ trusted' = {"ca"}
        /\ UNCHANGED <<pc, made, config, clear>>
    BY <1>11 DEF CreateCACertificate, Called
  <2>2. Job1.name = "ca" /\ \E k \in 2 .. Len(jobs) : Signs(jobs[k], "server")
    BY <2>1, HeadJob DEF Calls, Ordered
  <2>3. pc = "ca"
    BY <2>1, <2>2, HeadJob, DeviceAssumption DEF Calls, Named, Making
  <2>4. MadeSoFar = {}
    BY <2>3 DEF Calls, MadeSoFar
  <2>5. Good("ca")'
    BY <2>1 DEF Good
  <2>6. ~Signs(Job1, "server")
    BY <2>2 DEF Signs
  <2>7. Holders' \subseteq Holders \cup {Job1.name}
    BY <2>1, <2>2 DEF Holders, TypeOK
  <2> QED BY <2>1, <2>2, <2>4, <2>5, <2>6, <2>7, StillMaking
<1>12. CASE SignCertificate
  <2>1. /\ jobs # <<>> /\ clear
        /\ jobs' = Tail(jobs) /\ combined' = combined
        /\ cert' = [cert EXCEPT ![Job1.name] = "whole"]
        /\ paired' = paired \cup {Job1.name} /\ trusted' = trusted \cup {Job1.name}
        /\ UNCHANGED <<pc, made, config, clear>>
    BY <1>12 DEF SignCertificate, Called
  <2>2. \A n : Good(n) => Good(n)'
    BY <2>1 DEF Good
  <2>3. \A n : Signs(Job1, n) => Good(n)'
    BY <2>1 DEF Good, Signs
  <2>4. Holders' \subseteq Holders \cup {Job1.name}
    BY <2>1 DEF Holders, TypeOK
  <2> QED BY <2>1, <2>2, <2>3, <2>4, StillMaking
<1> QED
  BY <1>1, <1>2, <1>3, <1>4, <1>5, <1>6, <1>7, <1>8, <1>9, <1>10, <1>11, <1>12
     DEF Next, Work
-----------------------------------------------------------------------------
(* What was issued. *)

\* While it counts, the only calls are those for the administrator.
LEMMA OnlyAdmin ==
  ASSUME TypeOK, Calls, Kept, issued # {}, jobs # <<>>
  PROVE  pc = "admin" /\ ~clear /\ Job1.name = "admin"
<1>1. pc = "admin" /\ ~clear
  BY DEF Calls, Kept, Making
<1> QED BY <1>1, HeadJob DEF Calls, Named

LEMMA KeptByCalls ==
  ASSUME TypeOK, Calls, Kept, jobs # <<>>, UNCHANGED <<config, clear, issued>>,
         pc' = pc \/ pc' = "stopped",
         paired \ {Job1.name} \subseteq paired', trusted \ {Job1.name} \subseteq trusted',
         Holders' \subseteq Holders \cup {Job1.name}
  PROVE  Kept'
<1> SUFFICES ASSUME issued # {} PROVE Kept'
  BY DEF Kept
<1>1. pc = "admin" /\ ~clear /\ Job1.name = "admin"
  BY OnlyAdmin
<1>2. \A n \in {"ca", "server"} \cup issued : n # "admin" /\ Good(n)
  BY DeviceAssumption DEF Kept, TypeOK
<1>3. \A n \in {"ca", "server"} \cup issued : Good(n)'
  BY <1>1, <1>2 DEF Good
<1>4. Good("ca")' /\ Good("server")'
  BY <1>3
<1>5. Holders' \subseteq issued
  <2>1. Holders \subseteq issued /\ "admin" \notin Device
    BY DeviceAssumption DEF Kept
  <2> QED BY <1>1, <2>1 DEF Holders
<1> HIDE DEF Good, Holders
<1> QED BY <1>1, <1>3, <1>4, <1>5 DEF Kept

\* A step that leaves certificates, keys and what was issued alone.
LEMMA KeptByMoves ==
  ASSUME Kept, UNCHANGED <<issued, paired, trusted, cert, combined>>,
         issued # {} => /\ pc' \in Making => ~clear'
                        /\ pc' = "ca" => jobs' = <<>>
                        /\ pc' = "running" => (Configured \subseteq issued)'
  PROVE  Kept'
<1>1. \A n : Good(n) => Good(n)'
  BY DEF Good
<1>2. Holders' = Holders
  BY DEF Holders
<1> QED BY <1>1, <1>2 DEF Kept, Good

LEMMA KeptStep == TypeOK /\ Calls /\ Progress /\ Kept /\ [Next]_vars => Kept'
<1> SUFFICES ASSUME TypeOK, Calls, Progress, Kept, [Next]_vars PROVE Kept'
  OBVIOUS
<1> USE DEF Goes, Ends
<1>1. CASE vars' = vars
  BY <1>1 DEF vars, files, Kept, Good, Holders, Configured
<1>2. ASSUME NEW c \in Configuration, NEW b \in BOOLEAN, Start(c, b) PROVE Kept'
  BY <1>2, KeptByMoves DEF Start, files, Making
<1>3. CASE Reload \/ Stop \/ CheckDirectories \/ Refused \/ Crash
  <2>1. /\ pc' \in {"check", "stopped", "clear", "certs"}
        /\ UNCHANGED <<issued, paired, trusted, cert, combined>>
    BY <1>3 DEF Reload, Stop, CheckDirectories, Refused, Crash, files
  <2> QED BY <2>1, KeptByMoves DEF Making
<1>4. CASE MakeDirectory
  <2>1. pc' \in {"stopped", "private", "combined", "clear"}
    BY <1>4 DEF MakeDirectory, NextDirectory, Directory
  <2> QED BY <1>4, <2>1, KeptByMoves DEF MakeDirectory, files, Making
<1>5. ASSUME NEW n \in Name, UnlinkKey(n) \/ UnlinkCert(n) PROVE Kept'
  BY <1>5 DEF UnlinkKey, UnlinkCert, Kept
<1>6. ASSUME NoKeys, issued # {} PROVE FALSE
  BY <1>6 DEF NoKeys, Kept, Good, TypeOK, Name
<1>7. ASSUME NEW n \in Name, UnlinkCombined(n) PROVE Kept'
  BY <1>6, <1>7 DEF UnlinkCombined, Kept
<1>8. CASE Cleared
  <2>1. issued # {} => ~clear /\ key["ca"] = "whole"
    BY <1>6, <1>8 DEF Cleared, Kept, Good, TypeOK
  <2> QED BY <1>8, <2>1, KeptByMoves DEF Cleared
<1>9. CASE CAReady \/ AdminReady \/ MakeDevice
  <2>1. /\ pc \in Making /\ (pc' \in {"admin", "devices"} \/ pc' = "stopped")
        /\ UNCHANGED <<clear, issued, paired, trusted, cert, combined>>
    BY <1>9 DEF CAReady, AdminReady, MakeDevice, files, Making
  <2>2. issued # {} => ~clear
    BY <2>1 DEF Kept
  <2> QED BY <2>1, <2>2, KeptByMoves
<1>10. CASE DevicesReady
  <2>1. CASE pc' = "stopped"
    BY <1>10, <2>1, KeptByMoves DEF DevicesReady, files, Making
  <2>2. CASE pc' = "running" /\ ~clear
    <3>1. /\ UNCHANGED <<issued, paired, trusted, cert, combined, config>>
          /\ \A d \in Configured : Identified(d)
      BY <1>10, <2>2 DEF DevicesReady, files
    <3>2. Configured \subseteq Holders
      BY <3>1, ConfigFacts DEF Configured, Identified, Holders
    <3>3. issued # {} => (Configured \subseteq issued)'
      BY <3>1, <3>2 DEF Kept, Configured
    <3> QED BY <2>2, <3>1, <3>3, KeptByMoves DEF Making
  <2>3. CASE pc' = "running" /\ clear
    <3>1. /\ pc = "devices" /\ jobs = <<>> /\ made = Len(config.devices) /\ issued' = Configured
          /\ UNCHANGED <<paired, trusted, cert, combined, config>>
      BY <1>10, <2>3 DEF DevicesReady, files
    <3>2. MadeSoFar = Configured
      BY <3>1, ConfigFacts DEF MadeSoFar, Configured
    <3>3. \A n \in {"ca", "server"} \cup Configured : Good(n)
      BY <2>3, <3>1, <3>2, DueNow DEF Progress, Making
    <3>4. Holders \subseteq Configured
      BY <2>3, <3>1, <3>2 DEF Progress, Making
    <3>5. Configured' = Configured /\ Holders' = Holders
      BY <3>1 DEF Configured, Holders
    <3>6. Good("ca")' /\ Good("server")' /\ \A d \in issued' : Good(d)'
      BY <3>1, <3>3 DEF Good
    <3> HIDE DEF Good, Holders, Configured
    <3> QED BY <2>3, <3>1, <3>4, <3>5, <3>6 DEF Kept, Making
  <2> QED BY <1>10, <2>1, <2>2, <2>3 DEF DevicesReady
<1>11. CASE CreateKey \/ KeepKey \/ SignCertificate \/ Combine \/ CutKey
  <2>1. jobs # <<>>
    BY <1>11 DEF CreateKey, KeepKey, SignCertificate, Combine, CutKey, Called
  <2>2. /\ UNCHANGED <<config, clear, issued>> /\ (pc' = pc \/ pc' = "stopped")
        /\ paired \ {Job1.name} \subseteq paired' /\ trusted \ {Job1.name} \subseteq trusted'
    BY <1>11 DEF CreateKey, KeepKey, SignCertificate, Combine, CutKey, files
  <2>3. /\ combined' \subseteq combined \cup {Job1.name}
        /\ \A n \in Name : n # Job1.name => cert'[n] = cert[n]
    BY <1>11 DEF CreateKey, KeepKey, SignCertificate, Combine, CutKey, files, TypeOK
  <2>4. Holders' \subseteq Holders \cup {Job1.name}
    BY <2>3 DEF Holders, Name
  <2> QED BY <2>1, <2>2, <2>4, KeptByCalls
<1>12. CASE CreateCACertificate
  <2>1. jobs # <<>> /\ Job1.op = "selfsign" /\ issued' = issued
    BY <1>12 DEF CreateCACertificate, Called
  <2>2. Job1.name = "ca"
    BY <2>1, HeadJob DEF Calls, Ordered
  <2>3. issued = {}
    BY <2>1, <2>2, OnlyAdmin
  <2> QED BY <2>1, <2>3 DEF Kept
<1>13. ASSUME NEW left \in {"broken", "whole"}, CutCert(left) PROVE Kept'
  <2>1. jobs # <<>>
    BY <1>13 DEF CutCert, Called
  <2>2. CASE issued = {}
    BY <1>13, <2>2 DEF CutCert, Kept
  <2>3. CASE issued # {}
    <3>1. Job1.name = "admin"
      BY <2>1, <2>3, OnlyAdmin
    <3>2. /\ UNCHANGED <<config, clear, issued>> /\ pc' = "stopped"
          /\ paired \ {Job1.name} \subseteq paired' /\ trusted \ {Job1.name} \subseteq trusted'
          /\ combined' = combined
      BY <1>13, <3>1 DEF CutCert
    <3>3. \A n \in Name : n # Job1.name => cert'[n] = cert[n]
      BY <1>13 DEF CutCert, TypeOK
    <3>4. Holders' \subseteq Holders \cup {Job1.name}
      BY <3>2, <3>3 DEF Holders, Name
    <3> QED BY <2>1, <3>2, <3>4, KeptByCalls
  <2> QED BY <2>2, <2>3
<1> QED
  BY <1>1, <1>2, <1>3, <1>4, <1>5, <1>7, <1>8, <1>9, <1>10, <1>11, <1>12, <1>13
     DEF Next, Work
-----------------------------------------------------------------------------
LEMMA RepositoryInvariant == Spec => []RepositoryInv
<1>1. Init => RepositoryInv
  BY InitType DEF RepositoryInv
<1>2. RepositoryInv /\ [Next]_vars => RepositoryInv'
  BY TypeStep, CallsStep, ProgressStep, KeptStep DEF RepositoryInv
<1> QED BY <1>1, <1>2, PTL DEF Spec

\* The files keep their types: a certificate that counts for its key or for the
\* CA is there and whole, however many starts, crashes and faults there were.
THEOREM RepositoryTypeCorrect == Spec => []TypeOK
<1>1. RepositoryInv => TypeOK
  BY DEF RepositoryInv
<1> QED BY <1>1, RepositoryInvariant, PTL

\* What a start with clear has handed out stays good until such a start removes
\* it: none without clear, no crash and no configuration spoils it.
THEOREM IssuedStaySound == Spec => []IssuedSound
<1>1. RepositoryInv => IssuedSound
  BY DEF RepositoryInv, Kept, Good, IssuedSound
<1> QED BY <1>1, RepositoryInvariant, PTL

\* From then on a server that runs has issued what its devices hold.
THEOREM OnlyIssuedServed == Spec => []ServesIssued
<1>1. RepositoryInv => ServesIssued
  BY DEF RepositoryInv, Kept, ServesIssued
<1> QED BY <1>1, RepositoryInvariant, PTL
=============================================================================
