------------------------- MODULE StationSetup_proofs -------------------------
(* Proofs about stations, keys and the PCs that run agents, for any number  *)
(* of PCs, stations, keys, installs and faults.                             *)
EXTENDS StationSetup, TLAPS

-----------------------------------------------------------------------------
(* The inductive invariant. *)

\* What the installer has in hand at each of its steps, and an admin in the dialog.
InHand(run) ==
  /\ run.at \in {"create", "pair", "stop", "extract", "configure"} => run.printer \in Printers
  /\ run.at \in {"pair", "stop", "extract", "configure"} => run.station \in Stations
  /\ run.at \in {"stop", "extract", "configure"} => run.key # 0
  /\ run.at \in {"create", "pair"} => run.key = 0
InstallersInHand ==
  /\ \A m \in Machines : InHand(installer[m])
  /\ \A k \in shown : k[2] # 0

\* Once the program is unpacked the old process is gone: an agent that lives when the
\* configuration is about to be written was started since, by itself.
Quiet == \A m \in Machines : At(m, "configure") /\ Alive(m) => agent[m].early

\* RunsWithItsPairing, under the installer's hands too.
LoadedPairing == \A m \in Machines :
  Alive(m) /\ Readable(m) /\ ~agent[m].early =>
    agent[m].config # None /\ agent[m].config.key = disk[m].key

\* A key k that somebody has for station s.
Known(s, k) ==
  \/ table[s].key = k
  \/ <<s, k>> \in shown
  \/ \E m \in Machines : installer[m].station = s /\ installer[m].key = k
  \/ \E m \in Machines : Readable(m) /\ disk[m].station = s /\ disk[m].key = k
\* Every key was issued, and for one station.
KeysIssued == \A s \in Stations, k \in Keys \ {0} : Known(s, k) => k <= issued
OneStation == \A s, t \in Stations, k \in Keys \ {0} : Known(s, k) /\ Known(t, k) => s = t

\* A station that an install has created and is about to pair is that install's, and
\* has no key but one that an admin has seen.
AboutToPair == \A m \in Machines : At(m, "pair") =>
  /\ table[installer[m].station].status # "none"
  /\ \/ table[installer[m].station].key = 0
     \/ <<installer[m].station, table[installer[m].station].key>> \in shown
  /\ \A n \in Machines : n # m /\ At(n, "pair") => installer[n].station # installer[m].station

SetupInv ==
  /\ TypeOK /\ InstallersInHand /\ Quiet /\ LoadedPairing
  /\ KeysIssued /\ OneStation /\ AboutToPair

-----------------------------------------------------------------------------
(* Types, and what the installers have in hand. *)

\* At the start nothing is there.
LEMMA InitInv == Init => SetupInv
<1> SUFFICES ASSUME Init PROVE SetupInv
    OBVIOUS
<1> USE StationSetupAssumption DEF Init
<1>1. TypeOK
      BY DEF TypeOK, Station, Keys, Installer, Closed, Steps, File, Services
<1>2. InstallersInHand /\ Quiet /\ LoadedPairing /\ AboutToPair
      BY DEF InstallersInHand, InHand, Quiet, LoadedPairing, AboutToPair, Alive, Closed, At
<1>3. \A s \in Stations, k \in Keys \ {0} : ~Known(s, k)
      BY DEF Known, Readable, Closed
<1> QED BY <1>1, <1>2, <1>3 DEF SetupInv, KeysIssued, OneStation

\* The server's requests touch no PC.
LEMMA ServerTypes ==
  ASSUME TypeOK, InstallersInHand, NEW s \in Stations,
         CreateStation(s) \/ PairStation(s) \/ DeleteStation(s)
  PROVE  TypeOK' /\ InstallersInHand'
<1> USE StationSetupAssumption DEF TypeOK, Station, Keys, pc
<1>1. CASE CreateStation(s)
      BY <1>1 DEF CreateStation, Created, InstallersInHand
<1>2. CASE PairStation(s)
      BY <1>2 DEF PairStation, Paired, InstallersInHand
<1>3. CASE DeleteStation(s)
  <2>1. table' = [table EXCEPT ![s] = [@ EXCEPT !.status = "deleted", !.key = 0]]
        BY <1>3 DEF DeleteStation
  <2>2. table[s] \in Station /\ 0 \in Keys
        OBVIOUS
  <2>3. [table[s] EXCEPT !.status = "deleted", !.key = 0] \in Station
    <3> HIDE DEF Keys, TypeOK
    <3> QED BY <2>2
  <2> DEFINE row == [table[s] EXCEPT !.status = "deleted", !.key = 0]
  <2>4. row \in Station
        BY <2>3
  <2> HIDE DEF row, Station
  <2>5. table' = [table EXCEPT ![s] = row]
        BY <2>1 DEF row
  <2>6. table' \in [Stations -> Station]
        BY <2>4, <2>5
  <2>7. UNCHANGED <<issued, shown, installer, disk, service, agent, installs, faults>>
        BY <1>3 DEF DeleteStation
  <2> HIDE DEF Keys
  <2> QED BY <2>6, <2>7 DEF InstallersInHand
<1> QED BY <1>1, <1>2, <1>3

\* Starting a process, and its end.
LEMMA StartedTypes ==
  ASSUME TypeOK, NEW m \in Machines, Started(m)
  PROVE  agent' \in [Machines -> Process \cup {None}] /\ faults' \in 0 .. MaxFaults
<1> USE StationSetupAssumption
<1>1. TryLoad(m) \in Config \cup {None}
      BY DEF TryLoad, Readable, File, TypeOK
<1>2. PICK listening \in BOOLEAN :
        /\ agent' = [agent EXCEPT ![m] = [config |-> TryLoad(m), reachable |-> FALSE,
                                    listening |-> listening, early |-> At(m, "configure")]]
        /\ IF listening THEN UNCHANGED faults ELSE Fault
      BY DEF Started
<1>3. [config |-> TryLoad(m), reachable |-> FALSE,
       listening |-> listening, early |-> At(m, "configure")] \in Process
      BY <1>1 DEF Process, At
<1>4. agent' \in [Machines -> Process \cup {None}]
      BY <1>2, <1>3 DEF TypeOK
<1>5. faults' \in 0 .. MaxFaults
      BY <1>2 DEF TypeOK, Fault
<1> QED BY <1>4, <1>5

LEMMA EndedTypes ==
  ASSUME TypeOK, NEW m \in Machines, NEW next \in {"running", "stopped"}, Ended(m, next)
  PROVE  agent' \in [Machines -> Process \cup {None}] /\ service' \in [Machines -> Services]
<1>1. Without(m, next) \in Services
      BY DEF Without, Services
<1> QED BY <1>1 DEF Ended, TypeOK

\* Neither do the agent and what is done on its PC beside the installer change
\* what an installer has in hand.
LEMMA AgentTypes ==
  ASSUME TypeOK, InstallersInHand, NEW m \in Machines,
         Agent(m) \/ Local(m) \/ PollFails(m) \/ AgentCrashes(m) \/ EndpointFails(m)
  PROVE  TypeOK' /\ InstallersInHand'
<1> USE StationSetupAssumption DEF TypeOK, server
<1>2. CASE ServiceStarts(m)
  <2>1. agent' \in [Machines -> Process \cup {None}] /\ faults' \in 0 .. MaxFaults
        BY <1>2, StartedTypes DEF ServiceStarts
  <2> QED BY <1>2, <2>1 DEF ServiceStarts, InstallersInHand
<1>3. CASE ServiceStops(m)
  <2>1. agent' \in [Machines -> Process \cup {None}] /\ service' \in [Machines -> Services]
        BY <1>3, EndedTypes DEF ServiceStops
  <2> QED BY <1>3, <2>1 DEF ServiceStops, InstallersInHand
<1>4. CASE Poll(m)
      BY <1>4, ZenonT(60) DEF Poll, Reached, Alive, Process, Answered, Accepts, InstallersInHand
<1>5. CASE SetLocal(m)
      BY <1>5 DEF SetLocal, Readable, File, Config, InstallersInHand
<1>6. CASE RestartService(m)
  <2>1. agent' \in [Machines -> Process \cup {None}] /\ faults' \in 0 .. MaxFaults
        BY <1>6, StartedTypes DEF RestartService
  <2>2. service' \in [Machines -> Services]
        BY <1>6 DEF RestartService, Services
  <2> QED BY <1>6, <2>1, <2>2 DEF RestartService, InstallersInHand
<1>7. CASE PollFails(m)
  <2>1. agent' \in [Machines -> Process \cup {None}]
        BY <1>7 DEF PollFails, Reached, Alive, Process
  <2>2. faults' \in 0 .. MaxFaults
        BY <1>7 DEF PollFails
  <2> QED BY <1>7, <2>1, <2>2 DEF PollFails, Reached, InstallersInHand
<1>8. CASE AgentCrashes(m) \/ EndpointFails(m)
  <2>1. agent' \in [Machines -> Process \cup {None}] /\ service' \in [Machines -> Services]
        BY <1>8, EndedTypes DEF AgentCrashes, EndpointFails
  <2>2. faults' \in 0 .. MaxFaults
        BY <1>8 DEF AgentCrashes, EndpointFails, Fault
  <2> QED BY <1>8, <2>1, <2>2 DEF AgentCrashes, EndpointFails, InstallersInHand
<1> QED BY <1>2, <1>3, <1>4, <1>5, <1>6, <1>7, <1>8 DEF Agent, Local

\* Starting the installer or the uninstaller, and ending either.
LEMMA OpenTypes ==
  ASSUME TypeOK, InstallersInHand, NEW m \in Machines,
         InstallAuto(m) \/ InstallManual(m) \/ Uninstall(m)
  PROVE  TypeOK' /\ InstallersInHand'
<1> USE StationSetupAssumption DEF TypeOK, server, Open
<1>1. CASE InstallAuto(m)
      BY <1>1 DEF InstallAuto, Installer, Steps, Keys, InstallersInHand, InHand
<1>2. CASE InstallManual(m)
  <2>1. PICK k \in shown, printer \in Printers :
          Open(m, [at |-> "stop", station |-> k[1], key |-> k[2], printer |-> printer])
        BY <1>2 DEF InstallManual
  <2>2. k[1] \in Stations /\ k[2] \in Keys /\ k[2] # 0
        BY DEF InstallersInHand
  <2> DEFINE run == [at |-> "stop", station |-> k[1], key |-> k[2], printer |-> printer]
  <2>3. run \in Installer /\ InHand(run)
        BY <2>2 DEF Installer, Steps, InHand
  <2> HIDE DEF run
  <2>4. installs' \in 0 .. MaxInstalls
        BY <2>1
  <2>5. UNCHANGED <<table, issued, shown, disk, service, agent, faults>>
        BY <2>1
  <2>6. installer' = [installer EXCEPT ![m] = run]
        BY <2>1 DEF run
  <2>7. installer' \in [Machines -> Installer]
        BY <2>3, <2>6
  <2>8. InstallersInHand'
        BY <2>3, <2>5, <2>6 DEF InstallersInHand
  <2> HIDE DEF Open
  <2> QED BY <2>4, <2>5, <2>7, <2>8
<1>3. CASE Uninstall(m)
      BY <1>3 DEF Uninstall, Closed, Installer, Steps, Keys, InstallersInHand, InHand
<1> QED BY <1>1, <1>2, <1>3

\* Requests to the server on behalf of an install.
LEMMA RequestTypes ==
  ASSUME TypeOK, InstallersInHand, NEW m \in Machines, InstallCreate(m) \/ InstallPair(m)
  PROVE  TypeOK' /\ InstallersInHand'
<1> USE StationSetupAssumption DEF TypeOK, InstallOnly, At, Gives
<1>0. Closed \in Installer /\ InHand(Closed)
      BY DEF Closed, Installer, InHand, Steps, Keys
<1>1. CASE InstallCreate(m)
  <2>1. PICK n \in Names, s \in Stations :
          \/ /\ MayTake(s, n) /\ Created(s, n, "usb_agent")
             /\ installer' = [installer EXCEPT ![m].at = "pair", ![m].station = s]
          \/ ~NameFree(n) /\ Gives(m) /\ UNCHANGED table
        BY <1>1 DEF InstallCreate
  <2>2. [installer[m] EXCEPT !.at = "pair", !.station = s] \in Installer
        BY ZenonT(60) DEF Installer, Steps
  <2>3. InHand([installer[m] EXCEPT !.at = "pair", !.station = s])
        BY <1>1 DEF InstallCreate, InstallersInHand, InHand, Installer
  <2>4. CASE Created(s, n, "usb_agent")
             /\ installer' = [installer EXCEPT ![m].at = "pair", ![m].station = s]
    <3>1. installer' = [installer EXCEPT ![m] = [installer[m] EXCEPT !.at = "pair", !.station = s]]
          BY <2>4
    <3>2. installer' \in [Machines -> Installer] /\ InstallersInHand'
          BY <1>1, <2>2, <2>3, <3>1 DEF InstallCreate, InstallersInHand
    <3>3. table' \in [Stations -> Station]
          BY <2>4 DEF Created, Station, Keys
    <3> QED BY <1>1, <3>2, <3>3 DEF InstallCreate
  <2>5. CASE Gives(m) /\ UNCHANGED table
        BY <1>0, <1>1, <2>5 DEF InstallCreate, InstallersInHand
  <2> QED BY <2>1, <2>4, <2>5
<1>2. CASE InstallPair(m)
  <2> DEFINE run == [installer[m] EXCEPT !.at = "stop", !.key = issued + 1]
  <2>1. CASE Paired(installer[m].station)
             /\ installer' = [installer EXCEPT ![m].at = "stop", ![m].key = issued + 1]
    <3>1. installer' = [installer EXCEPT ![m] = run]
          BY <2>1
    <3>2. issued + 1 \in Keys /\ issued + 1 # 0 /\ issued' = issued + 1
          BY <2>1 DEF Paired, Keys
    <3>3. run \in Installer
          BY <3>2, ZenonT(60) DEF Installer, Steps
    <3>4. InHand(run)
          BY <1>2, <3>2 DEF InstallPair, InstallersInHand, InHand, Installer
    <3>5. table' \in [Stations -> Station]
          BY <2>1, <3>2, ZenonT(60) DEF Paired, Station
    <3> HIDE DEF run
    <3> QED BY <1>2, <3>1, <3>2, <3>3, <3>4, <3>5 DEF InstallPair, InstallersInHand
  <2>2. CASE Gives(m) /\ UNCHANGED <<table, issued>>
        BY <1>0, <1>2, <2>2 DEF InstallPair, InstallersInHand
  <2> QED BY <1>2, <2>1, <2>2 DEF InstallPair
<1> QED BY <1>1, <1>2

\* The installer goes on to a step that needs no more than it has in hand, or closes.
Onward(m) ==
  \/ Gives(m)
  \/ \E step \in Steps : /\ Goto(m, step)
                         /\ step \in {"create", "pair", "stop"} => At(m, step)
                         /\ step = "extract" => At(m, "stop") \/ At(m, "extract")
                         /\ step = "configure" => At(m, "extract") \/ At(m, "configure")
LEMMA OnwardTypes ==
  ASSUME TypeOK, InstallersInHand, NEW m \in Machines, Onward(m), UNCHANGED shown
  PROVE  installer' \in [Machines -> Installer] /\ InstallersInHand'
<1> USE StationSetupAssumption DEF TypeOK
<1>1. CASE Gives(m)
      BY <1>1 DEF Gives, Closed, Installer, InstallersInHand, InHand, Steps, Keys
<1>2. ASSUME NEW step \in Steps, Goto(m, step),
             step \in {"create", "pair", "stop"} => At(m, step),
             step = "extract" => At(m, "stop") \/ At(m, "extract"),
             step = "configure" => At(m, "extract") \/ At(m, "configure")
      PROVE  installer' \in [Machines -> Installer] /\ InstallersInHand'
  <2> DEFINE run == [installer[m] EXCEPT !.at = step]
  <2>1. installer' = [installer EXCEPT ![m] = run]
        BY <1>2 DEF Goto
  <2>2. run \in Installer
        BY DEF Installer
  <2>3. InHand(run)
        BY <1>2 DEF InstallersInHand, InHand, At, Installer
  <2> HIDE DEF run
  <2> QED BY <2>1, <2>2, <2>3 DEF InstallersInHand
<1> QED BY <1>1, <1>2 DEF Onward

\* The other steps of the installer and the uninstaller.
LEMMA StepTypes ==
  ASSUME TypeOK, InstallersInHand, NEW m \in Machines,
         \/ InstallStop(m) \/ InstallExtract(m) \/ InstallConfigure(m) \/ InstallRegister(m)
         \/ InstallStart(m) \/ UninstallStop(m) \/ UninstallDelete(m) \/ UninstallRemove(m)
         \/ UninstallPurge(m) \/ InstallFails(m)
  PROVE  TypeOK' /\ InstallersInHand'
<1> USE StationSetupAssumption DEF server, InstallOnly
<1>1. Onward(m) /\ UNCHANGED shown
      BY DEF InstallStop, InstallExtract, InstallConfigure, InstallRegister, InstallStart,
             UninstallStop, UninstallDelete, UninstallRemove, UninstallPurge, InstallFails,
             Onward, Steps
<1>2. installer' \in [Machines -> Installer] /\ InstallersInHand'
      BY <1>1, OnwardTypes
<1>3. disk' \in [Machines -> File]
  <2>1. CASE InstallConfigure(m)
    <3>1. NewFile(m) \in Config
          BY <2>1 DEF InstallConfigure, NewFile, Config, InstallersInHand, InHand, At, TypeOK,
                      Installer
    <3> QED BY <2>1, <3>1 DEF InstallConfigure, File, TypeOK
  <2>2. CASE UninstallPurge(m)
        BY <2>2 DEF UninstallPurge, TypeOK, File
  <2>3. CASE InstallFails(m)
        BY <2>3 DEF InstallFails, TypeOK, File
  <2> QED BY <2>1, <2>2, <2>3 DEF TypeOK, InstallStop, InstallExtract, InstallRegister,
             InstallStart, UninstallStop, UninstallDelete, UninstallRemove
<1>4. service' \in [Machines -> Services]
      BY DEF TypeOK, Services, Stopping, InstallStop, InstallExtract, InstallConfigure,
             InstallRegister, InstallStart, UninstallStop, UninstallDelete, UninstallRemove,
             UninstallPurge, InstallFails
<1>5. agent' \in [Machines -> Process \cup {None}]
  <2>1. Started(m) \/ UNCHANGED agent
        BY DEF InstallStop, InstallExtract, InstallConfigure, InstallRegister, InstallStart,
               UninstallStop, UninstallDelete, UninstallRemove, UninstallPurge, InstallFails
  <2> QED BY <2>1, StartedTypes DEF TypeOK
<1>6. table' = table /\ issued' = issued /\ shown' = shown /\ installs' = installs
      BY DEF InstallStop, InstallExtract, InstallConfigure,
             InstallRegister, InstallStart, UninstallStop, UninstallDelete, UninstallRemove,
             UninstallPurge, InstallFails
<1>7. faults' \in 0 .. MaxFaults
      BY StartedTypes DEF TypeOK, Fault, InstallStop, InstallExtract, InstallConfigure,
             InstallRegister, InstallStart, UninstallStop, UninstallDelete, UninstallRemove,
             UninstallPurge, InstallFails
<1> QED BY <1>2, <1>3, <1>4, <1>5, <1>6, <1>7 DEF TypeOK

LEMMA RebootTypes ==
  ASSUME TypeOK, InstallersInHand, NEW m \in Machines, Reboot(m)
  PROVE  TypeOK' /\ InstallersInHand'
<1> USE StationSetupAssumption DEF Reboot, server
<1>1. Onward(m) /\ UNCHANGED shown
      BY DEF Onward
<1>2. installer' \in [Machines -> Installer] /\ InstallersInHand'
      BY <1>1, OnwardTypes
<1>3. service' \in [Machines -> Services]
      BY DEF TypeOK, Services, Without
<1>4. agent' \in [Machines -> Process \cup {None}]
      BY DEF TypeOK
<1>5. faults' \in 0 .. MaxFaults
      BY DEF TypeOK, Fault
<1> QED BY <1>2, <1>3, <1>4, <1>5 DEF TypeOK

\* All steps together.
LEMMA TypesStep ==
  ASSUME TypeOK, InstallersInHand, [Next]_vars
  PROVE  TypeOK' /\ InstallersInHand'
<1>1. CASE UNCHANGED vars
      BY <1>1 DEF vars, server, pc, TypeOK, InstallersInHand
<1>2. ASSUME NEW m \in Machines, Install(m) PROVE TypeOK' /\ InstallersInHand'
      BY <1>2, OpenTypes, RequestTypes, StepTypes DEF Install
<1>3. ASSUME NEW m \in Machines, Faults(m) PROVE TypeOK' /\ InstallersInHand'
      BY <1>3, AgentTypes, StepTypes, RebootTypes DEF Faults
<1> QED BY <1>1, <1>2, <1>3, ServerTypes, AgentTypes DEF Next, Server

-----------------------------------------------------------------------------
(* The process and its configuration. *)

\* What the two parts say of one PC.
PcQuiet(m) == At(m, "configure") /\ Alive(m) => agent[m].early
PcLoaded(m) == Alive(m) /\ Readable(m) /\ ~agent[m].early =>
                 agent[m].config # None /\ agent[m].config.key = disk[m].key

\* A step that does not bring an installer to its configuring.
NotYet(m) == installer'[m].at = "configure" => At(m, "configure")

LEMMA SamePairing ==
  ASSUME NEW m \in Machines, PcQuiet(m), PcLoaded(m), NotYet(m),
         agent'[m] = agent[m], disk'[m] = disk[m]
  PROVE  PcQuiet(m)' /\ PcLoaded(m)'
BY DEF PcQuiet, PcLoaded, NotYet, At, Alive, Readable

\* A process that starts has loaded what is on the disk, and one that starts while the
\* configuration is about to be written is early.
LEMMA StartedPairing ==
  ASSUME TypeOK, NEW m \in Machines, PcQuiet(m), PcLoaded(m), Started(m), NotYet(m),
         disk'[m] = disk[m]
  PROVE  PcQuiet(m)' /\ PcLoaded(m)'
<1>1. PICK listening \in BOOLEAN :
        agent' = [agent EXCEPT ![m] = [config |-> TryLoad(m), reachable |-> FALSE,
                                    listening |-> listening, early |-> At(m, "configure")]]
      BY DEF Started
<1>2. agent'[m] = [config |-> TryLoad(m), reachable |-> FALSE,
                   listening |-> listening, early |-> At(m, "configure")]
      BY <1>1 DEF TypeOK
<1>3. PcQuiet(m)'
  <2>1. agent'[m].early = At(m, "configure")
    <3> HIDE DEF At
    <3> QED BY <1>2
  <2>2. At(m, "configure")' => At(m, "configure")
        BY DEF NotYet, At
  <2> HIDE DEF At, Alive
  <2> QED BY <2>1, <2>2, Zenon DEF PcQuiet
<1>4. ASSUME Readable(m)'
      PROVE  agent'[m].config # None /\ agent'[m].config.key = disk'[m].key
  <2>1. Readable(m) /\ disk[m] # None
        BY <1>4 DEF Readable
  <2>2. agent'[m].config = disk[m]
        BY <1>2, <2>1 DEF TryLoad
  <2> QED BY <2>1, <2>2
<1>5. PcLoaded(m)'
      BY <1>4 DEF PcLoaded
<1> QED BY <1>3, <1>5

\* No process, no claim.
LEMMA NoProcess ==
  ASSUME NEW m \in Machines, agent'[m] = None
  PROVE  PcQuiet(m)' /\ PcLoaded(m)'
BY DEF PcQuiet, PcLoaded, Alive

\* Of the other PCs' state a step on one PC changes nothing.
OthersAlone(m) == \A q \in Machines \ {m} :
  agent'[q] = agent[q] /\ disk'[q] = disk[q] /\ installer'[q] = installer[q]

LEMMA InstallAlone ==
  ASSUME TypeOK, NEW m \in Machines, Install(m)
  PROVE  OthersAlone(m)
<1> USE DEF TypeOK, OthersAlone
<1>1. CASE InstallAuto(m) \/ InstallManual(m) \/ Uninstall(m)
      BY <1>1 DEF InstallAuto, InstallManual, Uninstall, Open
<1>2. CASE InstallCreate(m) \/ InstallPair(m)
  <2>1. UNCHANGED <<disk, agent>>
        BY <1>2 DEF InstallCreate, InstallPair
  <2>2. CASE InstallCreate(m)
    <3>1. PICK s \in Stations :
            \/ installer' = [installer EXCEPT ![m].at = "pair", ![m].station = s]
            \/ installer' = [installer EXCEPT ![m] = Closed]
      <4>1. PICK s \in Stations, n \in Names :
              \/ installer' = [installer EXCEPT ![m].at = "pair", ![m].station = s]
              \/ Gives(m)
            BY <2>2 DEF InstallCreate
      <4> QED BY <4>1 DEF Gives
    <3> QED BY <2>1, <3>1
  <2>3. CASE InstallPair(m)
    <3>1. \/ installer' = [installer EXCEPT ![m].at = "stop", ![m].key = issued + 1]
          \/ installer' = [installer EXCEPT ![m] = Closed]
          BY <2>3 DEF InstallPair, Gives
    <3> QED BY <2>1, <3>1
  <2> QED BY <1>2, <2>2, <2>3
<1>3. CASE InstallStop(m) \/ UninstallStop(m)
      BY <1>3 DEF InstallStop, UninstallStop, Goto
<1>4. CASE InstallExtract(m) \/ UninstallRemove(m)
      BY <1>4 DEF InstallExtract, UninstallRemove, Goto, Gives
<1>5. CASE InstallConfigure(m)
      BY <1>5 DEF InstallConfigure, Goto
<1>6. CASE InstallRegister(m) \/ UninstallDelete(m)
      BY <1>6 DEF InstallRegister, UninstallDelete, Goto
<1>7. CASE InstallStart(m)
      BY <1>7 DEF InstallStart, Gives, Started
<1>8. CASE UninstallPurge(m)
      BY <1>8 DEF UninstallPurge, Gives
<1> QED BY <1>1, <1>2, <1>3, <1>4, <1>5, <1>6, <1>7, <1>8 DEF Install

\* What the requests and the steps of the installer do to process and file.
LEMMA InstallPairing ==
  ASSUME TypeOK, NEW m \in Machines, PcQuiet(m), PcLoaded(m), Install(m)
  PROVE  PcQuiet(m)' /\ PcLoaded(m)'
<1> USE DEF TypeOK
<1>1. CASE InstallAuto(m) \/ InstallManual(m) \/ Uninstall(m)
  <2>1. UNCHANGED <<disk, agent>> /\ NotYet(m)
        BY <1>1 DEF InstallAuto, InstallManual, Uninstall, Open, Closed, NotYet
  <2> QED BY <2>1, SamePairing
<1>2. CASE InstallCreate(m) \/ InstallPair(m)
  <2>1. UNCHANGED <<disk, agent>>
        BY <1>2 DEF InstallCreate, InstallPair
  <2>2. \/ \E s \in Stations : installer' = [installer EXCEPT ![m].at = "pair", ![m].station = s]
        \/ installer' = [installer EXCEPT ![m].at = "stop", ![m].key = issued + 1]
        \/ installer' = [installer EXCEPT ![m] = Closed]
        BY <1>2 DEF InstallCreate, InstallPair, Gives
  <2>3. installer'[m].at # "configure"
        BY <2>2 DEF Installer, Closed
  <2> QED BY <2>1, <2>3, SamePairing DEF NotYet
<1>3. CASE InstallStop(m) \/ UninstallStop(m)
  <2>1. UNCHANGED <<disk, agent>>
        BY <1>3 DEF InstallStop, UninstallStop
  <2>2. installer'[m].at # "configure"
        BY <1>3 DEF InstallStop, UninstallStop, Goto, Installer
  <2> QED BY <2>1, <2>2, SamePairing DEF NotYet
<1>4. CASE InstallExtract(m) \/ UninstallRemove(m)
  <2>1. UNCHANGED <<disk, agent>>
        BY <1>4 DEF InstallExtract, UninstallRemove
  <2>2. CASE Alive(m)
    <3>1. installer'[m].at # "configure"
          BY <1>4, <2>2 DEF InstallExtract, UninstallRemove, Extracts, Gives, Closed
    <3> QED BY <2>1, <3>1, SamePairing DEF NotYet
  <2>3. CASE ~Alive(m)
        BY <2>1, <2>3, NoProcess DEF Alive
  <2> QED BY <2>2, <2>3
<1>5. CASE InstallConfigure(m)
  <2>1. UNCHANGED agent /\ At(m, "configure") /\ installer'[m].at = "register"
        BY <1>5 DEF InstallConfigure, Goto, Installer
  <2>2. Alive(m) => agent'[m].early
        BY <2>1 DEF PcQuiet
  <2> QED BY <2>1, <2>2 DEF PcQuiet, PcLoaded, At, Alive
<1>6. CASE InstallRegister(m) \/ UninstallDelete(m)
  <2>1. UNCHANGED <<disk, agent>>
        BY <1>6 DEF InstallRegister, UninstallDelete
  <2>2. installer'[m].at # "configure"
        BY <1>6 DEF InstallRegister, UninstallDelete, Goto, Installer
  <2> QED BY <2>1, <2>2, SamePairing DEF NotYet
<1>7. CASE InstallStart(m)
  <2>1. UNCHANGED disk /\ NotYet(m)
        BY <1>7 DEF InstallStart, Gives, Closed, NotYet
  <2>2. Started(m) \/ UNCHANGED agent
        BY <1>7 DEF InstallStart
  <2> QED BY <2>1, <2>2, SamePairing, StartedPairing
<1>8. CASE UninstallPurge(m)
  <2>1. UNCHANGED agent /\ installer'[m].at # "configure"
        BY <1>8 DEF UninstallPurge, Gives, Closed
  <2>2. disk'[m] \in {None, disk[m]}
        BY <1>8 DEF UninstallPurge
  <2> QED BY <2>1, <2>2 DEF PcQuiet, PcLoaded, At, Alive, Readable
<1> QED BY <1>1, <1>2, <1>3, <1>4, <1>5, <1>6, <1>7, <1>8 DEF Install

\* The other steps on a PC.
LEMMA RunPairing ==
  ASSUME TypeOK, NEW m \in Machines, PcQuiet(m), PcLoaded(m),
         Agent(m) \/ Local(m) \/ Faults(m)
  PROVE  PcQuiet(m)' /\ PcLoaded(m)' /\ OthersAlone(m)
<1> USE DEF TypeOK, OthersAlone
<1>1. CASE ServiceStarts(m) \/ RestartService(m)
  <2>1. Started(m) /\ UNCHANGED <<installer, disk>>
        BY <1>1 DEF ServiceStarts, RestartService
  <2>2. NotYet(m)
        BY <2>1 DEF NotYet, At
  <2>3. \A q \in Machines \ {m} : agent'[q] = agent[q]
        BY <2>1 DEF Started
  <2> QED BY <2>1, <2>2, <2>3, StartedPairing
<1>2. CASE ServiceStops(m) \/ AgentCrashes(m) \/ EndpointFails(m)
  <2>1. /\ agent' = [agent EXCEPT ![m] = None] /\ UNCHANGED <<installer, disk>>
        BY <1>2 DEF ServiceStops, AgentCrashes, EndpointFails, Ended
  <2> QED BY <2>1, NoProcess
<1>3. CASE Poll(m) \/ PollFails(m)
  <2>1. PICK yes : /\ agent' = [agent EXCEPT ![m].reachable = yes]
                   /\ Alive(m) /\ UNCHANGED <<installer, disk>>
        BY <1>3 DEF Poll, PollFails, Reached
  <2>2. agent[m] \in Process
        BY <2>1 DEF Alive
  <2>3. agent'[m] = [agent[m] EXCEPT !.reachable = yes]
        BY <2>1
  <2>4. agent'[m].early = agent[m].early /\ agent'[m].config = agent[m].config
        BY <2>2, <2>3 DEF Process
  <2>5. PcQuiet(m)' /\ PcLoaded(m)'
        BY <2>1, <2>4 DEF PcQuiet, PcLoaded, At, Alive, Readable
  <2> QED BY <2>1, <2>5
<1>4. CASE SetLocal(m)
  <2>1. PICK printer \in Printers : disk' = [disk EXCEPT ![m].printer = printer]
        BY <1>4 DEF SetLocal
  <2>2. disk[m] \in Config
        BY <1>4 DEF SetLocal, Readable, File
  <2>3. disk'[m].key = disk[m].key
        BY <2>1, <2>2 DEF Config
  <2>4. Readable(m) /\ UNCHANGED <<installer, agent>>
        BY <1>4 DEF SetLocal
  <2>5. PcQuiet(m)' /\ PcLoaded(m)'
        BY <2>3, <2>4 DEF PcQuiet, PcLoaded, At, Alive
  <2> QED BY <2>1, <2>4, <2>5
<1>5. CASE InstallFails(m)
  <2>1. UNCHANGED agent /\ installer' = [installer EXCEPT ![m] = Closed]
        BY <1>5 DEF InstallFails, Gives
  <2>2. disk'[m] \in {Unreadable, disk[m]} /\ \A q \in Machines \ {m} : disk'[q] = disk[q]
        BY <1>5 DEF InstallFails
  <2>3. installer'[m].at # "configure"
        BY <2>1 DEF Closed
  <2> QED BY <2>1, <2>2, <2>3 DEF PcQuiet, PcLoaded, At, Alive, Readable
<1>6. CASE Reboot(m)
  <2>1. /\ agent' = [agent EXCEPT ![m] = None] /\ disk' = disk
        /\ installer' = [installer EXCEPT ![m] = Closed]
        BY <1>6 DEF Reboot, Gives
  <2> QED BY <2>1, NoProcess
<1> QED BY <1>1, <1>2, <1>3, <1>4, <1>5, <1>6 DEF Agent, Local, Faults

LEMMA PairingStep ==
  ASSUME TypeOK, Quiet, LoadedPairing, [Next]_vars
  PROVE  Quiet' /\ LoadedPairing'
<1> SUFFICES ASSUME NEW q \in Machines PROVE PcQuiet(q)' /\ PcLoaded(q)'
    BY DEF Quiet, LoadedPairing, PcQuiet, PcLoaded
<1>0. \A m \in Machines : PcQuiet(m) /\ PcLoaded(m)
      BY DEF Quiet, LoadedPairing, PcQuiet, PcLoaded
<1>1. CASE UNCHANGED <<installer, disk, agent>>
      BY <1>0, <1>1, SamePairing DEF NotYet, At
<1>2. ASSUME NEW m \in Machines, OthersAlone(m), q # m PROVE PcQuiet(q)' /\ PcLoaded(q)'
      BY <1>0, <1>2, SamePairing DEF OthersAlone, NotYet, At
<1>3. ASSUME NEW m \in Machines, Install(m) \/ Agent(m) \/ Local(m) \/ Faults(m)
      PROVE  PcQuiet(q)' /\ PcLoaded(q)'
  <2>1. PcQuiet(m)' /\ PcLoaded(m)' /\ OthersAlone(m)
        BY <1>0, <1>3, InstallPairing, InstallAlone, RunPairing
  <2> QED BY <1>2, <2>1
<1>4. UNCHANGED vars \/ Server => UNCHANGED <<installer, disk, agent>>
      BY DEF vars, pc, Server, CreateStation, PairStation, DeleteStation
<1> QED BY <1>1, <1>3, <1>4 DEF Next

-----------------------------------------------------------------------------
(* The keys. *)

\* A request that pairs station s.
Pairs(s) == issued' = issued + 1 /\ \A t \in Stations, k \in Keys \ {0} :
              Known(t, k)' => Known(t, k) \/ (t = s /\ k = issued + 1)
\* Any other step.
PairsNone == issued' = issued /\ \A t \in Stations, k \in Keys \ {0} : Known(t, k)' => Known(t, k)

LEMMA KeysByPairs ==
  ASSUME TypeOK, KeysIssued, OneStation, PairsNone \/ \E s \in Stations : Pairs(s)
  PROVE  KeysIssued' /\ OneStation'
BY DEF TypeOK, KeysIssued, OneStation, PairsNone, Pairs, Keys

LEMMA ServerKeys ==
  ASSUME TypeOK, NEW s \in Stations, CreateStation(s) \/ PairStation(s) \/ DeleteStation(s)
  PROVE  PairsNone \/ Pairs(s)
<1> USE DEF TypeOK, Known, Readable, pc
<1>1. CASE CreateStation(s)
      BY <1>1 DEF CreateStation, Created, PairsNone
<1>2. CASE PairStation(s)
      BY <1>2 DEF PairStation, Paired, Pairs, Station
<1>3. CASE DeleteStation(s)
      BY <1>3 DEF DeleteStation, PairsNone, Station
<1> QED BY <1>1, <1>2, <1>3

\* The steps that leave the table alone and copy keys at most.
LEMMA CopiesKeys ==
  ASSUME TypeOK, InstallersInHand, NEW m \in Machines,
         UNCHANGED <<table, issued, shown>>,
         \A n \in Machines : installer'[n].key # 0 =>
           \E p \in Machines : \/ installer'[n].station = installer[p].station
                                  /\ installer'[n].key = installer[p].key
                               \/ <<installer'[n].station, installer'[n].key>> \in shown,
         \A n \in Machines : Readable(n)' =>
           \E p \in Machines : \/ Readable(p) /\ disk'[n].station = disk[p].station
                                              /\ disk'[n].key = disk[p].key
                               \/ disk'[n].station = installer[p].station
                                  /\ disk'[n].key = installer[p].key
  PROVE  PairsNone
<1> SUFFICES ASSUME NEW t \in Stations, NEW k \in Keys \ {0}, Known(t, k)' PROVE Known(t, k)
    BY DEF PairsNone
<1>1. CASE table'[t].key = k \/ <<t, k>> \in shown'
      BY <1>1 DEF Known
<1>2. CASE \E n \in Machines : installer'[n].station = t /\ installer'[n].key = k
      BY <1>2 DEF Known
<1>3. CASE \E n \in Machines : Readable(n)' /\ disk'[n].station = t /\ disk'[n].key = k
      BY <1>3 DEF Known
<1> QED BY <1>1, <1>2, <1>3 DEF Known

LEMMA RequestKeys ==
  ASSUME TypeOK, InstallersInHand, NEW m \in Machines, InstallCreate(m) \/ InstallPair(m)
  PROVE  PairsNone \/ \E s \in Stations : Pairs(s)
<1> USE DEF TypeOK, Known, Readable, At, Gives
<1>1. CASE InstallCreate(m)
  <2>1. installer[m].key = 0
        BY <1>1 DEF InstallCreate, InstallersInHand, InHand
  <2>2. \A n \in Machines : installer'[n].key # 0 => installer'[n] = installer[n]
        BY <1>1, <2>1 DEF InstallCreate, Closed, Installer
  <2>3. \A t \in Stations : table'[t].key # 0 => table'[t].key = table[t].key
        BY <1>1 DEF InstallCreate, Created
  <2>4. UNCHANGED <<issued, shown, disk>>
        BY <1>1 DEF InstallCreate
  <2> QED BY <2>2, <2>3, <2>4 DEF PairsNone
<1>2. CASE InstallPair(m)
  <2>1. CASE Gives(m) /\ UNCHANGED <<table, issued>>
    <3>1. UNCHANGED <<table, issued, shown, disk>>
          BY <1>2, <2>1 DEF InstallPair
    <3>2. \A n \in Machines : installer'[n].key # 0 => installer'[n] = installer[n]
          BY <2>1 DEF Closed
    <3> QED BY <3>1, <3>2 DEF PairsNone
  <2>2. CASE Paired(installer[m].station)
             /\ installer' = [installer EXCEPT ![m].at = "stop", ![m].key = issued + 1]
    <3>0. PICK s \in Stations : s = installer[m].station
          BY <1>2, <2>2 DEF InstallPair, InstallersInHand, InHand
    <3>1. issued' = issued + 1
          BY <2>2 DEF Paired
    <3>2. \A t \in Stations : table'[t].key = table[t].key \/ (t = s /\ table'[t].key = issued + 1)
          BY <2>2, <3>0 DEF Paired, Station
    <3>3. \A n \in Machines : \/ installer'[n] = installer[n]
                              \/ installer'[n].station = s /\ installer'[n].key = issued + 1
          BY <2>2, <3>0 DEF Installer
    <3>4. UNCHANGED <<shown, disk>>
          BY <1>2 DEF InstallPair
    <3>5. Pairs(s)
          BY <3>1, <3>2, <3>3, <3>4 DEF Pairs
    <3> QED BY <3>5
  <2> QED BY <1>2, <2>1, <2>2 DEF InstallPair
<1> QED BY <1>1, <1>2

\* All the other steps on a PC.
LEMMA PcKeys ==
  ASSUME TypeOK, InstallersInHand, NEW m \in Machines,
         Install(m) \/ Agent(m) \/ Local(m) \/ Faults(m), ~InstallCreate(m), ~InstallPair(m)
  PROVE  PairsNone
<1> USE DEF TypeOK, server, At, Gives, Goto
<1>1. UNCHANGED <<table, issued, shown>>
      BY DEF Install, InstallAuto, InstallManual, InstallStop, InstallExtract, InstallConfigure,
             InstallRegister, InstallStart, Uninstall, UninstallStop, UninstallDelete,
             UninstallRemove, UninstallPurge, Open, Agent, ServiceStarts, ServiceStops, Poll, Reached,
             Local, SetLocal, RestartService, Faults, PollFails, InstallFails,
               AgentCrashes, EndpointFails, Ended, Reboot
<1>2. \A n \in Machines : installer'[n].key # 0 =>
        \E p \in Machines : \/ installer'[n].station = installer[p].station
                               /\ installer'[n].key = installer[p].key
                            \/ <<installer'[n].station, installer'[n].key>> \in shown
  <2>1. CASE InstallManual(m)
    <3>1. PICK k \in shown, printer \in Printers :
            Open(m, [at |-> "stop", station |-> k[1], key |-> k[2], printer |-> printer])
          BY <2>1 DEF InstallManual
    <3>2. k = <<k[1], k[2]>>
          OBVIOUS
    <3> QED BY <3>1, <3>2 DEF Open
  <2>2. CASE InstallAuto(m) \/ Uninstall(m)
        BY <2>2 DEF InstallAuto, Uninstall, Open, Closed
  <2>3. CASE \E step \in Steps : Goto(m, step)
        BY <2>3 DEF Installer
  <2>4. CASE Gives(m)
        BY <2>4 DEF Closed
  <2>5. CASE UNCHANGED installer
        BY <2>5
  <2> HIDE DEF Gives, Goto
  <2>6. InstallManual(m) \/ InstallAuto(m) \/ Uninstall(m) \/ (\E step \in Steps : Goto(m, step))
          \/ Gives(m) \/ UNCHANGED installer
        BY DEF Install, InstallStop, InstallExtract, InstallConfigure,
               InstallRegister, InstallStart, UninstallStop, UninstallDelete,
               UninstallRemove, UninstallPurge, Agent, ServiceStarts, ServiceStops, Poll, Reached,
               Local, SetLocal, RestartService, Faults, PollFails, InstallFails,
               AgentCrashes, EndpointFails, Ended, Reboot,
               Steps
  <2> QED BY <2>1, <2>2, <2>3, <2>4, <2>5, <2>6
<1>3. \A n \in Machines : Readable(n)' =>
        \E p \in Machines : \/ Readable(p) /\ disk'[n].station = disk[p].station
                                           /\ disk'[n].key = disk[p].key
                            \/ disk'[n].station = installer[p].station
                               /\ disk'[n].key = installer[p].key
  <2>1. CASE UNCHANGED disk
        BY <2>1 DEF Readable
  <2>2. CASE InstallConfigure(m)
        BY <2>2 DEF InstallConfigure, NewFile, Readable
  <2>3. CASE SetLocal(m)
    <3>1. disk[m] \in Config /\ Readable(m)
          BY <2>3 DEF SetLocal, Readable, File
    <3>2. PICK printer \in Printers : disk' = [disk EXCEPT ![m].printer = printer]
          BY <2>3 DEF SetLocal
    <3>3. disk'[m].station = disk[m].station /\ disk'[m].key = disk[m].key
          BY <3>1, <3>2 DEF Config
    <3> QED BY <3>1, <3>2, <3>3 DEF Readable
  <2>4. CASE UninstallPurge(m) \/ InstallFails(m)
        BY <2>4 DEF UninstallPurge, InstallFails, Readable
  <2> QED BY <2>1, <2>2, <2>3, <2>4
          DEF Install, InstallAuto, InstallManual, InstallStop, InstallExtract,
              InstallRegister, InstallStart, Uninstall, UninstallStop, UninstallDelete,
              UninstallRemove, Open, Agent, ServiceStarts, ServiceStops, Poll, Reached,
              Local, RestartService, Faults, PollFails, AgentCrashes, EndpointFails, Ended, Reboot
<1> QED BY <1>1, <1>2, <1>3, CopiesKeys

LEMMA KeysStep ==
  ASSUME TypeOK, InstallersInHand, KeysIssued, OneStation, [Next]_vars
  PROVE  KeysIssued' /\ OneStation'
<1>1. CASE UNCHANGED vars
      BY <1>1 DEF vars, server, pc, KeysIssued, OneStation, Known, Readable
<1>2. CASE Server
      BY <1>2, ServerKeys, KeysByPairs DEF Server
<1>3. ASSUME NEW m \in Machines, Install(m) \/ Agent(m) \/ Local(m) \/ Faults(m)
      PROVE  KeysIssued' /\ OneStation'
      BY <1>3, RequestKeys, PcKeys, KeysByPairs, SMTT(40)
<1> QED BY <1>1, <1>2, <1>3 DEF Next

\* A station that an install is about to pair.
LEMMA AboutToPairStep ==
  ASSUME TypeOK, InstallersInHand, AboutToPair, [Next]_vars
  PROVE  AboutToPair'
<1> USE DEF TypeOK, AboutToPair, At
<1>0. ASSUME UNCHANGED <<table, shown>>,
             \A n \in Machines : installer'[n].at = "pair" => installer'[n] = installer[n]
      PROVE  AboutToPair'
      BY <1>0
<1>1. CASE UNCHANGED vars
      BY <1>1 DEF vars, server, pc
<1>2. ASSUME NEW s \in Stations, CreateStation(s) PROVE AboutToPair'
  <2>1. installer' = installer /\ shown' = shown
        BY <1>2 DEF CreateStation, pc
  <2>2. \A n \in Machines : installer[n].at = "pair" => installer[n].station # s
        BY <1>2 DEF CreateStation, NextId
  <2>3. \A t \in Stations : t # s => table'[t] = table[t]
        BY <1>2 DEF CreateStation, Created
  <2>4. \A n \in Machines : installer[n].at = "pair" => installer[n].station \in Stations
        BY DEF InstallersInHand, InHand
  <2> QED BY <2>1, <2>2, <2>3, <2>4
<1>3. ASSUME NEW s \in Stations, PairStation(s) PROVE AboutToPair'
  <2>1. installer' = installer /\ shown' = shown \cup {<<s, table'[s].key>>}
        BY <1>3 DEF PairStation, Paired, pc, Station
  <2>2. \A t \in Stations : /\ table'[t].status = table[t].status
                            /\ t # s => table'[t].key = table[t].key
        BY <1>3 DEF PairStation, Paired, Station
  <2>3. \A n \in Machines : installer[n].at = "pair" => installer[n].station \in Stations
        BY DEF InstallersInHand, InHand
  <2> QED BY <2>1, <2>2, <2>3, ZenonT(60)
<1>4. ASSUME NEW s \in Stations, DeleteStation(s) PROVE AboutToPair'
  <2>1. installer' = installer /\ shown' = shown
        BY <1>4 DEF DeleteStation, pc
  <2>2. \A t \in Stations : /\ table[t].status # "none" => table'[t].status # "none"
                            /\ table'[t].key \in {0, table[t].key}
        BY <1>4 DEF DeleteStation, Station
  <2>3. \A n \in Machines : installer[n].at = "pair" => installer[n].station \in Stations
        BY DEF InstallersInHand, InHand
  <2> QED BY <2>1, <2>2, <2>3
<1>5. ASSUME NEW m \in Machines, InstallCreate(m) PROVE AboutToPair'
  <2>1. CASE Gives(m) /\ UNCHANGED table
        BY <1>0, <1>5, <2>1 DEF InstallCreate, Gives, Closed
  <2>2. ASSUME NEW n \in Names, NEW s \in Stations, MayTake(s, n), Created(s, n, "usb_agent"),
               installer' = [installer EXCEPT ![m].at = "pair", ![m].station = s]
        PROVE  AboutToPair'
    <3>1. \A p \in Machines : installer[p].at = "pair" =>
            installer[p].station \in Stations /\ installer[p].station # s
          BY <2>2 DEF InstallersInHand, InHand, MayTake, NextId
    <3>2. /\ table'[s].status = "there" /\ table'[s].key = 0
          /\ \A t \in Stations : t # s => table'[t] = table[t]
          BY <2>2 DEF Created
    <3>3. installer'[m].station = s /\ \A p \in Machines : p # m => installer'[p] = installer[p]
          BY <2>2 DEF Installer
    <3>4. shown' = shown
          BY <1>5 DEF InstallCreate
    <3> QED BY <3>1, <3>2, <3>3, <3>4
  <2> QED BY <1>5, <2>1, <2>2 DEF InstallCreate
<1>6. ASSUME NEW m \in Machines, InstallPair(m) PROVE AboutToPair'
  <2>1. CASE Gives(m) /\ UNCHANGED <<table, issued>>
        BY <1>0, <1>6, <2>1 DEF InstallPair, Gives, Closed
  <2>2. CASE Paired(installer[m].station)
             /\ installer' = [installer EXCEPT ![m].at = "stop", ![m].key = issued + 1]
    <3>1. installer'[m].at = "stop" /\ \A p \in Machines : p # m => installer'[p] = installer[p]
          BY <2>2 DEF Installer
    <3>2. \A p \in Machines : p # m /\ installer[p].at = "pair" =>
            installer[p].station \in Stations /\ installer[p].station # installer[m].station
          BY <1>6 DEF InstallPair, InstallersInHand, InHand
    <3>3. \A t \in Stations : t # installer[m].station => table'[t] = table[t]
          BY <2>2 DEF Paired
    <3>4. shown' = shown
          BY <1>6 DEF InstallPair
    <3> QED BY <3>1, <3>2, <3>3, <3>4
  <2> QED BY <1>6, <2>1, <2>2 DEF InstallPair
<1>7. ASSUME NEW m \in Machines, Install(m) \/ Agent(m) \/ Local(m) \/ Faults(m),
             ~InstallCreate(m), ~InstallPair(m)
      PROVE  AboutToPair'
  <2>1. UNCHANGED <<table, shown>>
        BY <1>7 DEF Install, InstallAuto, InstallManual, InstallStop, InstallExtract,
               InstallConfigure, InstallRegister, InstallStart, Uninstall, UninstallStop,
               UninstallDelete, UninstallRemove, UninstallPurge, Open, Agent, ServiceStarts,
               ServiceStops, Poll, Reached, Local, SetLocal, RestartService, Faults, PollFails,
               InstallFails,
               AgentCrashes, EndpointFails, Ended, Reboot, server
  <2>2. CASE InstallManual(m) \/ InstallAuto(m) \/ Uninstall(m)
        BY <1>0, <2>1, <2>2 DEF InstallManual, InstallAuto, Uninstall, Open, Closed
  <2>3. CASE Gives(m)
        BY <1>0, <2>1, <2>3 DEF Gives, Closed
  <2>4. ASSUME NEW step \in Steps \ {"pair"}, Goto(m, step) PROVE AboutToPair'
        BY <1>0, <2>1, <2>4 DEF Goto, Installer
  <2>5. CASE UNCHANGED installer
        BY <1>0, <2>1, <2>5
  <2>6. InstallManual(m) \/ InstallAuto(m) \/ Uninstall(m)
          \/ (\E step \in Steps \ {"pair"} : Goto(m, step)) \/ Gives(m) \/ UNCHANGED installer
        BY <1>7 DEF Install, InstallStop, InstallExtract, InstallConfigure,
               InstallRegister, InstallStart, UninstallStop, UninstallDelete,
               UninstallRemove, UninstallPurge, Agent, ServiceStarts, ServiceStops, Poll, Reached,
               Local, SetLocal, RestartService, Faults, PollFails, InstallFails,
               AgentCrashes, EndpointFails, Ended, Reboot,
               Steps
  <2> QED BY <2>2, <2>3, <2>4, <2>5, <2>6
<1> QED BY <1>1, <1>2, <1>3, <1>4, <1>5, <1>6, <1>7 DEF Next, Server

-----------------------------------------------------------------------------
(* The theorems. *)

LEMMA StepInv ==
  ASSUME SetupInv, [Next]_vars
  PROVE  SetupInv'
BY TypesStep, PairingStep, KeysStep, AboutToPairStep DEF SetupInv

\* The inductive invariant holds in every reachable state.
THEOREM SetupInvariant == Spec => []SetupInv
<1>1. Init => SetupInv
      BY InitInv
<1>2. SetupInv /\ [Next]_vars => SetupInv'
      BY StepInv
<1> QED BY <1>1, <1>2, PTL DEF Spec

\* The table, the installers, the PCs and their agents hold what these programs put there.
THEOREM TypeCorrect == Spec => []TypeOK
<1>1. SetupInv => TypeOK
      BY DEF SetupInv
<1> QED BY <1>1, SetupInvariant, PTL

\* No install, however it ended, leaves an agent running with another pairing than the
\* PC's configuration has, save one that was started by itself between the install's
\* unpacking and its configuring.
THEOREM RunsWithItsPairingHolds == Spec => []RunsWithItsPairing
<1>1. SetupInv => RunsWithItsPairing
      BY DEF SetupInv, LoadedPairing, RunsWithItsPairing
<1> QED BY <1>1, SetupInvariant, PTL

\* If a PC's key stops being accepted, its own station was paired again or deleted.
LEMMA OwnStationLoses ==
  ASSUME SetupInv, [Next]_vars, NEW m \in Machines,
         Readable(m), Accepts(disk[m].key), disk'[m] = disk[m],
         <<disk[m].station, disk[m].key>> \notin shown, ~Accepts(disk[m].key)'
  PROVE  PairStation(disk[m].station) \/ DeleteStation(disk[m].station)
<1> USE DEF SetupInv, TypeOK
<1>1. disk[m] \in Config
      BY DEF Readable, File
<1>2. PICK s \in Stations : There(s) /\ table[s].type = "usb_agent" /\ table[s].key = disk[m].key
      BY DEF Accepts
<1>3. s = disk[m].station
      BY <1>1, <1>2 DEF OneStation, Known, Config
<1>4. ~(table'[s].status = "there" /\ table'[s].type = "usb_agent" /\ table'[s].key = disk[m].key)
      BY <1>1 DEF Accepts, There, Config
<1>5. table'[s] # table[s]
      BY <1>2, <1>4 DEF There
<1>6. ASSUME NEW t \in Stations, CreateStation(t) PROVE FALSE
      BY <1>2, <1>5, <1>6 DEF CreateStation, Created, NextId, There
<1>7. ASSUME NEW t \in Stations, PairStation(t) \/ DeleteStation(t) PROVE t = s
      BY <1>5, <1>7 DEF PairStation, Paired, DeleteStation
<1>8. ASSUME NEW n \in Machines, InstallCreate(n) PROVE FALSE
      BY <1>2, <1>5, <1>8 DEF InstallCreate, MayTake, Created, NextId, There
<1>9. ASSUME NEW n \in Machines, InstallPair(n) PROVE FALSE
  <2>1. installer[n].station = s
        BY <1>5, <1>9 DEF InstallPair, Paired
  <2>2. <<s, disk[m].key>> \in shown
        BY <1>1, <1>2, <1>9, <2>1 DEF AboutToPair, InstallPair, Config
  <2> QED BY <1>3, <2>2
<1>10. ASSUME NEW n \in Machines, Install(n) \/ Agent(n) \/ Local(n) \/ Faults(n),
              ~InstallCreate(n), ~InstallPair(n)
       PROVE  FALSE
  <2>1. UNCHANGED table
        BY <1>10 DEF Install, InstallAuto, InstallManual, InstallStop, InstallExtract,
               InstallConfigure, InstallRegister, InstallStart, Uninstall, UninstallStop,
               UninstallDelete, UninstallRemove, UninstallPurge, Open, Agent, ServiceStarts,
               ServiceStops, Poll, Reached, Local, SetLocal, RestartService, Faults, PollFails,
               InstallFails,
               AgentCrashes, EndpointFails, Ended, Reboot, server
  <2> QED BY <1>5, <2>1
<1>11. CASE UNCHANGED vars
       BY <1>5, <1>11 DEF vars, server
<1> QED BY <1>3, <1>6, <1>7, <1>8, <1>9, <1>10, <1>11 DEF Next, Server

\* An install takes no key away from a PC that was installed with the admin's PIN.
THEOREM InstallsDontUnpairOthersHolds == Spec => InstallsDontUnpairOthers
<1>1. SetupInv /\ [Next]_vars =>
        [\A m \in Machines :
           /\ Readable(m) /\ Accepts(disk[m].key) /\ disk'[m] = disk[m]
           /\ <<disk[m].station, disk[m].key>> \notin shown
           /\ ~Accepts(disk[m].key)'
           => PairStation(disk[m].station) \/ DeleteStation(disk[m].station)]_vars
      BY OwnStationLoses
<1> QED BY <1>1, SetupInvariant, PTL DEF Spec, InstallsDontUnpairOthers
=============================================================================
