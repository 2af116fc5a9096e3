--------------------------- MODULE TLSRepository ---------------------------
(***************************************************************************)
(* The repository of keys and certificates (certs.py) over starts of the   *)
(* server (__main__.py).  Files are written one after the other by         *)
(* openssl; the process may end between two of them, or openssl within     *)
(* one, and what is then on disk is what the next start finds.  A start    *)
(* with clear (the default) removes every file and makes all keys and      *)
(* certificates anew; one with --no-create-certs takes what it finds.      *)
(*                                                                         *)
(* Keys and certificates are told apart by what matters to TLS: whether a  *)
(* certificate belongs to the key beside it and to the CA certificate.     *)
(***************************************************************************)
EXTENDS Naturals, Sequences

CONSTANTS
  Device,        \* ids of devices
  Configuration, \* the configurations a start may be given
  SubjectOf,     \* common_name.split(":")[0]
  MaxFaults      \* bound: crashes, and openssl calls cut short

VARIABLES
  config,   \* the configuration of this start
  clear,    \* not --no-create-certs
  pc,       \* where the start is
  jobs,     \* the openssl calls ahead
  made,     \* how many of the devices this start has begun to make
  dirs,     \* directories that exist
  key,      \* <private>/<name>.pem
  cert,     \* <certs>/<name>.pem
  combined, \* names with a combined file
  paired,   \* names whose certificate is for the key in place
  trusted,  \* names whose certificate the CA certificate in place signed
  index,    \* index.txt: subjects openssl ca has signed
  issued,   \* history: devices of the last start with clear that ran, until
            \* a file is removed
  faults

files == <<key, cert, combined, paired, trusted, index>>
vars == <<config, clear, pc, jobs, made, dirs, files, issued, faults>>

Name == {"ca", "server", "proxy", "admin"} \cup Device
Directory == {"certs", "private", "combined"}
Stage == {"stopped", "check", "clear", "ca", "admin", "devices", "running"} \cup Directory
Job == [op : {"key", "ensure", "selfsign", "sign", "combine"}, name : Name]

ASSUME MaxFaultsAssumption == MaxFaults \in Nat
ASSUME DeviceAssumption == {"ca", "server", "proxy", "admin"} \cap Device = {}
ASSUME ConfigurationType ==
  Configuration \subseteq [devices : Seq(Device) \ {<<>>}, proxy : BOOLEAN,
                           admin : BOOLEAN, fromFile : BOOLEAN]

Init ==
  /\ config \in Configuration /\ clear \in BOOLEAN
  /\ pc = "stopped" /\ jobs = <<>> /\ made = 0 /\ dirs = {}
  /\ key = [n \in Name |-> "none"] /\ cert = [n \in Name |-> "none"]
  /\ combined = {} /\ paired = {} /\ trusted = {} /\ index = {}
  /\ issued = {} /\ faults = 0
-----------------------------------------------------------------------------
(* Processes.  Whatever ends one leaves the files as they are. *)

Ends == pc' = "stopped" /\ jobs' = <<>>
Goes(stage, calls) == pc' = stage /\ jobs' = calls

Start(c, b) ==
  /\ pc = "stopped" /\ Goes("check", <<>>)
  /\ config' = c /\ clear' = b /\ made' = 0
  /\ UNCHANGED <<dirs, files, issued, faults>>

\* use_reloader: once the first process serves, a second one does it all again,
\* and so whenever a source file changes.
Reload == pc = "running" /\ Goes("check", <<>>) /\ made' = 0
          /\ UNCHANGED <<config, clear, dirs, files, issued, faults>>
Stop == pc = "running" /\ Ends
        /\ UNCHANGED <<config, clear, made, dirs, files, issued, faults>>

\* All three directories are made when one is missing; mkdir raises when a
\* directory is there.
CheckDirectories ==
  /\ pc = "check"
  /\ Goes(IF dirs = Directory THEN "clear" ELSE "certs", <<>>)
  /\ UNCHANGED <<config, clear, made, dirs, files, issued, faults>>

NextDirectory == [certs |-> "private", private |-> "combined", combined |-> "clear"]
MakeDirectory ==
  /\ pc \in Directory
  /\ IF pc \in dirs THEN Ends /\ UNCHANGED dirs
     ELSE dirs' = dirs \cup {pc} /\ Goes(NextDirectory[pc], <<>>)
  /\ UNCHANGED <<config, clear, made, files, issued, faults>>
-----------------------------------------------------------------------------
(* Clearing: the private files, then the certificates, then the combined   *)
(* ones, each in any order, then index.txt.                                *)

NoKeys == \A n \in Name : key[n] = "none"
NoCerts == \A n \in Name : cert[n] = "none"

UnlinkKey(n) ==
  /\ pc = "clear" /\ clear /\ key[n] # "none"
  /\ key' = [key EXCEPT ![n] = "none"]
  /\ paired' = paired \ {n}
  /\ issued' = {}
  /\ UNCHANGED <<config, clear, pc, jobs, made, dirs, cert, combined, trusted, index, faults>>

UnlinkCertFirst(n) == \* a fault: certificates go before keys
  /\ pc = "clear" /\ clear /\ cert[n] # "none"
  /\ cert' = [cert EXCEPT ![n] = "none"]
  /\ trusted' = IF n = "ca" THEN {} ELSE trusted \ {n}
  /\ issued' = {}
  /\ UNCHANGED <<config, clear, pc, jobs, made, dirs, key, combined, paired, index, faults>>

UnlinkCert(n) ==
  /\ pc = "clear" /\ clear /\ NoKeys /\ cert[n] # "none"
  /\ cert' = [cert EXCEPT ![n] = "none"]
  /\ trusted' = IF n = "ca" THEN {} ELSE trusted \ {n}
  /\ issued' = {}
  /\ UNCHANGED <<config, clear, pc, jobs, made, dirs, key, combined, paired, index, faults>>

UnlinkCombined(n) ==
  /\ pc = "clear" /\ clear /\ NoKeys /\ NoCerts /\ n \in combined
  /\ combined' = combined \ {n}
  /\ UNCHANGED <<config, clear, pc, jobs, made, dirs, key, cert, paired, trusted, index,
                 issued, faults>>

J(o, n) == [op |-> o, name |-> n]
CreateCert(n) == <<J("ensure", n), J("sign", n), J("combine", n)>> \* create_cert
CreateCA == <<J("key", "ca"), J("selfsign", "ca"), J("combine", "ca"),
              J("key", "server")>> \o CreateCert("server")
              \o (IF config.proxy THEN CreateCert("proxy") ELSE <<>>)

ClearedAlways == \* a fault: no look for the CA's key
  /\ pc = "clear" /\ (clear => NoKeys /\ NoCerts /\ combined = {})
  /\ index' = IF clear THEN {} ELSE index
  /\ Goes("ca", CreateCA)
  /\ UNCHANGED <<config, clear, made, dirs, key, cert, combined, paired, trusted, issued, faults>>

ClearedKeys == \* a fault: certificates stay
  /\ pc = "clear" /\ (clear => NoKeys)
  /\ index' = IF clear THEN {} ELSE index
  /\ Goes("ca", IF key["ca"] = "none" THEN CreateCA ELSE <<>>)
  /\ UNCHANGED <<config, clear, made, dirs, key, cert, combined, paired, trusted, issued, faults>>

ClearedPems == \* a fault: index.txt stays
  /\ pc = "clear" /\ (clear => NoKeys /\ NoCerts /\ combined = {})
  /\ Goes("ca", IF key["ca"] = "none" THEN CreateCA ELSE <<>>)
  /\ UNCHANGED <<config, clear, made, dirs, files, issued, faults>>

\* Whether the CA and the server's certificate are made depends on the CA's
\* key file, broken or not.
Cleared ==
  /\ pc = "clear" /\ (clear => NoKeys /\ NoCerts /\ combined = {})
  /\ index' = IF clear THEN {} ELSE index
  /\ Goes("ca", IF key["ca"] = "none" THEN CreateCA ELSE <<>>)
  /\ UNCHANGED <<config, clear, made, dirs, key, cert, combined, paired, trusted, issued, faults>>
-----------------------------------------------------------------------------
(* openssl. *)

Job1 == Head(jobs)
Called(o) == jobs # <<>> /\ Job1.op = o

\* tls_create_private_key overwrites; create_cert calls it for a missing file.
CreateKey ==
  /\ Called("key") \/ (Called("ensure") /\ key[Job1.name] = "none")
  /\ key' = [key EXCEPT ![Job1.name] = "whole"]
  /\ paired' = paired \ {Job1.name}
  /\ jobs' = Tail(jobs)
  /\ UNCHANGED <<config, clear, pc, made, dirs, cert, combined, trusted, index, issued, faults>>

KeepKey ==
  /\ Called("ensure") /\ key[Job1.name] # "none"
  /\ jobs' = Tail(jobs)
  /\ UNCHANGED <<config, clear, pc, made, dirs, files, issued, faults>>

CreateCACertificate ==
  /\ Called("selfsign")
  /\ cert' = [cert EXCEPT !["ca"] = "whole"]
  /\ paired' = paired \cup {"ca"} /\ trusted' = {"ca"}
  /\ jobs' = Tail(jobs)
  /\ UNCHANGED <<config, clear, pc, made, dirs, key, combined, index, issued, faults>>

\* openssl req needs a key, openssl ca a CA certificate for the CA's key and a
\* subject that is not in index.txt (unique_subject = yes).
Signable(n) == /\ "ca" \in paired /\ key[n] = "whole" /\ SubjectOf[n] \notin index

SignCertificate ==
  /\ Called("sign") /\ Signable(Job1.name)
  /\ cert' = [cert EXCEPT ![Job1.name] = "whole"]
  /\ paired' = paired \cup {Job1.name} /\ trusted' = trusted \cup {Job1.name}
  /\ index' = index \cup {SubjectOf[Job1.name]}
  /\ jobs' = Tail(jobs)
  /\ UNCHANGED <<config, clear, pc, made, dirs, key, combined, issued, faults>>

Refused == /\ Called("sign") /\ ~Signable(Job1.name) /\ Ends
           /\ UNCHANGED <<config, clear, made, dirs, files, issued, faults>>

Combine ==
  /\ Called("combine")
  /\ combined' = combined \cup {Job1.name}
  /\ jobs' = Tail(jobs)
  /\ UNCHANGED <<config, clear, pc, made, dirs, key, cert, paired, trusted, index, issued, faults>>
-----------------------------------------------------------------------------
(* The stages behind. *)

\* Without clear, the certificate beside every key is read for its name.
CAReady ==
  /\ pc = "ca" /\ jobs = <<>>
  /\ IF clear \/ \A n \in Name : key[n] # "none" => cert[n] = "whole"
     THEN Goes("admin", IF config.admin /\ key["admin"] = "none"
                        THEN <<J("key", "admin")>> \o CreateCert("admin") ELSE <<>>)
     ELSE Ends
  /\ UNCHANGED <<config, clear, made, dirs, files, issued, faults>>

\* get_tls_repository, one device after the other.
AdminReady ==
  /\ pc = "admin" /\ jobs = <<>>
  /\ Goes("devices", <<>>)
  /\ UNCHANGED <<config, clear, made, dirs, files, issued, faults>>

MakeDevice ==
  /\ pc = "devices" /\ jobs = <<>> /\ clear /\ made < Len(config.devices)
  /\ Goes("devices", CreateCert(config.devices[made + 1]))
  /\ made' = made + 1
  /\ UNCHANGED <<config, clear, dirs, files, issued, faults>>

Configured == {config.devices[i] : i \in DOMAIN config.devices}
Identified(d) == IF config.fromFile THEN d \in combined ELSE cert[d] = "whole" \* lfdi
\* load_verify_locations and load_cert_chain.
ContextLoads == cert["ca"] = "whole" /\ "server" \in paired

\* The devices are registered with their LFDI, then the server starts to serve.
DevicesReady ==
  /\ pc = "devices" /\ jobs = <<>> /\ (clear => made = Len(config.devices))
  /\ IF ContextLoads /\ \A d \in Configured : Identified(d)
     THEN Goes("running", <<>>) /\ issued' = (IF clear THEN Configured ELSE issued)
     ELSE Ends /\ UNCHANGED issued
  /\ UNCHANGED <<config, clear, made, dirs, files, faults>>
-----------------------------------------------------------------------------
(* Faults. *)

Crash ==
  /\ pc \notin {"stopped", "running"} /\ faults < MaxFaults
  /\ Ends /\ faults' = faults + 1
  /\ UNCHANGED <<config, clear, made, dirs, files, issued>>

\* An openssl call that is cut short, or fails, within the file it writes.
CutKey ==
  /\ Called("key") \/ (Called("ensure") /\ key[Job1.name] = "none")
  /\ faults < MaxFaults
  /\ key' = [key EXCEPT ![Job1.name] = "broken"]
  /\ paired' = paired \ {Job1.name}
  /\ Ends /\ faults' = faults + 1
  /\ UNCHANGED <<config, clear, made, dirs, cert, combined, trusted, index, issued>>

\* openssl ca writes the file, then index.txt.
CutCert(left) ==
  /\ Called("selfsign") \/ (Called("sign") /\ Signable(Job1.name))
  /\ faults < MaxFaults
  /\ cert' = [cert EXCEPT ![Job1.name] = left]
  /\ LET good == IF left = "whole" THEN {Job1.name} ELSE {} IN
     /\ paired' = (paired \ {Job1.name}) \cup good
     /\ trusted' = (IF Job1.name = "ca" THEN {} ELSE trusted \ {Job1.name}) \cup good
  /\ Ends /\ faults' = faults + 1
  /\ UNCHANGED <<config, clear, made, dirs, key, combined, index, issued>>

Work ==
  \/ CheckDirectories \/ MakeDirectory
  \/ \E n \in Name : UnlinkKey(n) \/ UnlinkCert(n) \/ UnlinkCombined(n)
  \/ Cleared \/ CAReady \/ AdminReady \/ MakeDevice \/ DevicesReady
  \/ CreateKey \/ KeepKey \/ CreateCACertificate \/ SignCertificate \/ Refused \/ Combine

Next ==
  \/ Work
  \/ \E c \in Configuration, b \in BOOLEAN : Start(c, b)
  \/ Reload \/ Stop
  \/ Crash \/ CutKey \/ CutCert("broken") \/ CutCert("whole")

Spec == Init /\ [][Next]_vars
FairSpec == Spec /\ WF_vars(Work)
-----------------------------------------------------------------------------
(* Properties. *)

TypeOK ==
  /\ config \in Configuration /\ clear \in BOOLEAN
  /\ pc \in Stage /\ jobs \in Seq(Job) /\ made \in Nat
  /\ dirs \subseteq Directory
  /\ key \in [Name -> {"none", "broken", "whole"}]
  /\ cert \in [Name -> {"none", "broken", "whole"}]
  /\ combined \subseteq Name
  /\ paired \subseteq {n \in Name : key[n] = "whole" /\ cert[n] = "whole"}
  /\ trusted \subseteq {n \in Name : cert[n] = "whole"}
  /\ issued \subseteq Device /\ faults \in 0 .. MaxFaults

\* What a start with clear has handed out stays good until a start with clear
\* removes it, whatever starts without clear, crashes, failing calls and changes
\* of the configuration come in between: the CA and the devices' certificates
\* are neither lost nor overtaken by a new key (certs.py 104, 129, 149).
IssuedSound == issued # {} =>
  {"ca", "server"} \cup issued \subseteq paired \cap trusted

\* Once a start with clear has run, a server never runs for a device that holds
\* no certificate of its: nothing a start with clear finds survives it, and a
\* device that is configured later keeps the server from starting until the
\* next one (__main__.py 90-97).
ServesIssued == pc = "running" /\ issued # {} => Configured \subseteq issued

DistinctSubjects ==
  LET needed == {"server"} \cup Configured \cup (IF config.admin THEN {"admin"} ELSE {})
                 \cup (IF config.proxy THEN {"proxy"} ELSE {})
  IN  /\ \A m, n \in needed : SubjectOf[m] = SubjectOf[n] => m = n
      /\ \A i, j \in DOMAIN config.devices : config.devices[i] = config.devices[j] => i = j

\* Whatever earlier starts have left of files, a start with clear that has its
\* directories and is not disturbed repairs it: it comes to serve, unless two
\* names have one subject (certs.py 68-109; README.md 31-32).
ClearRepairs ==
  (pc = "clear" /\ clear /\ faults = MaxFaults /\ DistinctSubjects) ~> pc = "running"
=============================================================================
