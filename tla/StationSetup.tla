---------------------------- MODULE StationSetup ----------------------------
(***************************************************************************)
(* Print stations and the PCs behind them: creating, pairing and deleting  *)
(* a station (routers/stations.py, the stations page of admin_ui.py), the  *)
(* key a poll carries (deps.require_station_key), the installer            *)
(* (InstallerForm.cs), the start and the configuration of the agent        *)
(* (ResaPrint.Agent/Program.cs, DpapiConfigStore.cs), and the tray icon    *)
(* that shows its status (StatusEndpoint.cs, TrayContext.cs).              *)
(*                                                                         *)
(* The server's requests are one step each.  The installer is a sequence   *)
(* of HTTP calls and child processes, any of which may fail and end it;    *)
(* sc.exe stop returns while the service is still stopping, and it fails   *)
(* on a service that is down, without taking back the start that the       *)
(* service manager has in mind for it (after a boot or a crash).           *)
(***************************************************************************)
EXTENDS Naturals, FiniteSets

CONSTANTS
  Machines,    \* PCs with a USB printer
  Stations,    \* ids of print_stations
  Names,       \* station names, which are unique
  Printers,    \* Windows printer queues
  MaxKeys,     \* bound: keys issued
  MaxInstalls, \* bound: runs of the installer
  MaxFaults,   \* bound: failing steps, crashes and reboots
  Unreadable,  \* a file that DPAPI cannot decrypt
  None

ASSUME StationSetupAssumption ==
  /\ MaxKeys \in Nat /\ MaxInstalls \in Nat /\ MaxFaults \in Nat
  /\ None \notin Machines \cup Stations \cup Names \cup Printers

Keys == 0 .. MaxKeys \* 0: not paired

VARIABLES
  table,    \* the table print_stations
  issued,   \* keys issued so far
  shown,    \* the keys an admin has seen in the pairing dialog
  installer,\* the installer on each PC
  disk,     \* agent-config.dat on each PC
  service,  \* the Windows service ResaPrintAgent on each PC
  agent,    \* the agent's process on each PC: what it loaded, and its status
  installs, \* runs of the installer so far
  faults    \* faults so far

server == <<table, issued, shown>>
pc == <<installer, disk, service, agent>>
vars == <<server, pc, installs, faults>>

Station == [status : {"none", "there", "deleted"}, name : Names \cup {None},
            type : {"usb_agent", "lan_escpos"}, key : Keys]
Config == [station : Stations, key : Keys \ {0}, printer : Printers]
\* A config file that was not written to its end cannot be decrypted.
File == Config \cup {None, Unreadable}
Steps == {"idle", "create", "pair", "stop", "extract", "configure", "register", "start",
          "unstop", "delete", "remove", "purge"}
Installer == [at : Steps, station : Stations \cup {None}, key : Keys, printer : Printers \cup {None}]
\* As the service manager means it to be: a service that is "running" without a process
\* has a start to come; one that is "marked" or "doomed" (while it stops) goes with
\* its process.
Services == {"absent", "stopped", "running", "stopping", "marked", "doomed"}
\* What a process has loaded, its AgentStatus, and whether its endpoint has the port;
\* history: early, if it was started by itself in the middle of an install, between
\* the unpacking and the configuring.
Process == [config : Config \cup {None}, reachable : BOOLEAN, listening : BOOLEAN,
            early : BOOLEAN]

Closed == [at |-> "idle", station |-> None, key |-> 0, printer |-> None]

Init ==
  /\ table = [s \in Stations |-> [status |-> "none", name |-> None, type |-> "usb_agent", key |-> 0]]
  /\ issued = 0 /\ shown = {}
  /\ installer = [m \in Machines |-> Closed]
  /\ disk = [m \in Machines |-> None] /\ service = [m \in Machines |-> "absent"]
  /\ agent = [m \in Machines |-> None]
  /\ installs = 0 /\ faults = 0

-----------------------------------------------------------------------------
(* The server. *)

There(s) == table[s].status = "there"
NameFree(n) == \A s \in Stations : There(s) => table[s].name # n
\* ids come from a sequence.
NextId(s) == table[s].status = "none"

Created(s, n, t) ==
  table' = [table EXCEPT ![s] = [status |-> "there", name |-> n, type |-> t, key |-> 0]]
\* A second station of that name breaks the unique constraint and is a 500.
CreateStation(s) == \E n \in Names, t \in {"usb_agent", "lan_escpos"} :
  /\ NextId(s) /\ NameFree(n) /\ Created(s, n, t)
  /\ UNCHANGED <<issued, shown, pc, installs, faults>>

\* A new key replaces the hash of the old one.
Paired(s) ==
  /\ There(s) /\ issued < MaxKeys /\ issued' = issued + 1
  /\ table' = [table EXCEPT ![s].key = issued + 1]
PairStation(s) ==
  /\ Paired(s) /\ shown' = shown \cup {<<s, issued + 1>>}
  /\ UNCHANGED <<pc, installs, faults>>
DeleteStation(s) ==
  /\ There(s) /\ table' = [table EXCEPT ![s].status = "deleted", ![s].key = 0]
  /\ UNCHANGED <<issued, shown, pc, installs, faults>>

\* require_station_key: some agent station has this key's hash.
Accepts(key) == \E s \in Stations : /\ There(s) /\ table[s].type = "usb_agent"
                                    /\ key # 0 /\ table[s].key = key

At(m, step) == installer[m].at = step
Fault == faults < MaxFaults /\ faults' = faults + 1

-----------------------------------------------------------------------------
(* The agent: Program.cs, started by the service manager. *)

Readable(m) == disk[m] \notin {None, Unreadable}
\* DpapiConfigStore.TryLoad: a file that cannot be decrypted counts as none.
TryLoad(m) == IF Readable(m) THEN disk[m] ELSE None
\* The endpoint gives up for good when another program has its port, and the agent
\* goes on without it.
Started(m) == \E listening \in BOOLEAN :
  /\ agent' = [agent EXCEPT ![m] = [config |-> TryLoad(m), reachable |-> FALSE,
                                    listening |-> listening, early |-> At(m, "configure")]]
  /\ IF listening THEN UNCHANGED faults ELSE Fault
Alive(m) == agent[m] # None
\* What is left of a service whose process is gone.
Without(m, next) == IF service[m] \in {"marked", "doomed"} THEN "absent" ELSE next
Ended(m, next) ==
  /\ agent' = [agent EXCEPT ![m] = None]
  /\ service' = [service EXCEPT ![m] = Without(m, next)]

\* The delayed start after a boot, and the restart after a crash, installer or not.
ServiceStarts(m) ==
  /\ service[m] = "running" /\ ~Alive(m) /\ Started(m)
  /\ UNCHANGED <<server, installer, disk, service, installs>>

\* sc stop has returned before the process has ended.
ServiceStops(m) ==
  /\ service[m] \in {"stopping", "doomed"} /\ Ended(m, "stopped")
  /\ UNCHANGED <<server, installer, disk, installs, faults>>

\* Worker: a poll that is answered, with 401 or not at all.
Reached(m, yes) ==
  /\ Alive(m) /\ agent[m].config # None /\ agent[m].reachable # yes
  /\ agent' = [agent EXCEPT ![m].reachable = yes]
  /\ UNCHANGED <<server, installer, disk, service, installs>>
\* Mutant: a poll that succeeds does not say so.
AnsweredNever(m) == FALSE
Answered(m) == Accepts(agent[m].config.key)
Poll(m) ==
  /\ Alive(m) /\ agent[m].config # None
  /\ Reached(m, Answered(m)) /\ UNCHANGED faults
PollFails(m) == Reached(m, FALSE) /\ faults < MaxFaults /\ faults' = faults + 1

\* --set-printer-name and its like write the file; the process has read it before.
SetLocal(m) == \E printer \in Printers :
  /\ Readable(m) /\ disk[m].printer # printer
  /\ disk' = [disk EXCEPT ![m].printer = printer]
  /\ UNCHANGED <<server, installer, service, agent, installs, faults>>
\* Restart-Service, at the end of update-local-config.ps1; not under the installer's hands.
RestartService(m) ==
  /\ service[m] \in {"running", "stopped"} /\ installer[m].at = "idle"
  /\ service' = [service EXCEPT ![m] = "running"]
  /\ Started(m)
  /\ (service[m] # "running" \/ agent'[m] # agent[m])
  /\ UNCHANGED <<server, installer, disk, installs>>

\* What the tray icon shows once its timer has asked the status endpoint: "service not
\* running" too when nobody listens there.
Answers(m) == Alive(m) /\ agent[m].listening
Colour(m) ==
  CASE ~Answers(m) -> "red"
    [] Answers(m) /\ agent[m].config = None -> "orange"
    [] Answers(m) /\ agent[m].config # None /\ agent[m].reachable -> "green"
    [] OTHER -> "gold"

-----------------------------------------------------------------------------
(* The installer: OnInstallClick and InstallServiceAndTrayAsync. *)

Goto(m, step) == installer' = [installer EXCEPT ![m].at = step]
Gives(m) == installer' = [installer EXCEPT ![m] = Closed]
InstallOnly == UNCHANGED <<installs, faults>>

Open(m, run) ==
  /\ At(m, "idle") /\ installs < MaxInstalls /\ installs' = installs + 1
  /\ installer' = [installer EXCEPT ![m] = run]
  /\ UNCHANGED <<server, disk, service, agent, faults>>
\* With the admin PIN, and with a station's id and key typed in.
InstallAuto(m) == \E printer \in Printers :
  Open(m, [at |-> "create", station |-> None, key |-> 0, printer |-> printer])
InstallManual(m) == \E k \in shown, printer \in Printers :
  Open(m, [at |-> "stop", station |-> k[1], key |-> k[2], printer |-> printer])

\* Mutant: a station of that name is taken over.
MayTakeAny(s, n) == NextId(s) \/ (There(s) /\ table[s].name = n)
MayTake(s, n) == NextId(s) /\ NameFree(n)
InstallCreate(m) ==
  /\ At(m, "create")
  /\ \E n \in Names, s \in Stations :
       \/ /\ MayTake(s, n) /\ Created(s, n, "usb_agent")
          /\ installer' = [installer EXCEPT ![m].at = "pair", ![m].station = s]
       \/ ~NameFree(n) /\ Gives(m) /\ UNCHANGED table
  /\ InstallOnly /\ UNCHANGED <<issued, shown, disk, service, agent>>
InstallPair(m) ==
  /\ At(m, "pair")
  /\ \/ /\ Paired(installer[m].station)
        /\ installer' = [installer EXCEPT ![m].at = "stop", ![m].key = issued + 1]
     \/ ~There(installer[m].station) /\ Gives(m) /\ UNCHANGED <<table, issued>>
  /\ InstallOnly /\ UNCHANGED <<shown, disk, service, agent>>

\* Nobody looks at what sc stop answers when there is no process to stop.
Stopping(m) ==
  service' = [service EXCEPT ![m] = IF ~Alive(m) THEN @ ELSE
                                    IF @ = "running" THEN "stopping" ELSE
                                    IF @ = "marked" THEN "doomed" ELSE @]
InstallStop(m) ==
  /\ At(m, "stop") /\ Goto(m, "extract") /\ Stopping(m)
  /\ UNCHANGED <<server, disk, agent, installs, faults>>
\* File.Create cannot replace the program of a process that runs, and throws.
\* Mutant: that is not noticed, like the exit codes of sc.exe.
ExtractsAnyhow(m) == TRUE
Extracts(m) == ~Alive(m)
InstallExtract(m) ==
  /\ At(m, "extract")
  /\ IF Extracts(m) THEN Goto(m, "configure") ELSE Gives(m)
  /\ InstallOnly /\ UNCHANGED <<server, disk, service, agent>>

\* --configure.
\* Mutant: the printer is left out, as the command line allows.
NewFileBare(m) == [station |-> installer[m].station, key |-> installer[m].key, printer |-> None]
NewFile(m) == [station |-> installer[m].station, key |-> installer[m].key,
               printer |-> installer[m].printer]
InstallConfigure(m) ==
  /\ At(m, "configure") /\ Goto(m, "register")
  /\ disk' = [disk EXCEPT ![m] = NewFile(m)]
  /\ InstallOnly /\ UNCHANGED <<server, service, agent>>

\* sc query finds a service that is marked for deletion as well.
InstallRegister(m) ==
  /\ At(m, "register") /\ Goto(m, "start")
  /\ service' = [service EXCEPT ![m] = IF @ = "absent" THEN "stopped" ELSE @]
  /\ InstallOnly /\ UNCHANGED <<server, disk, agent>>
\* Nobody looks at what sc start answers to a service that runs, or stops; the installer
\* reports success.
InstallStart(m) ==
  /\ At(m, "start") /\ Gives(m)
  /\ IF service[m] \in {"stopped", "running"} /\ ~Alive(m)
     THEN service' = [service EXCEPT ![m] = "running"] /\ Started(m)
     ELSE UNCHANGED <<service, agent, faults>>
  /\ UNCHANGED <<server, disk, installs>>

(* OnUninstallClick. *)
Uninstall(m) == Open(m, [Closed EXCEPT !.at = "unstop"])
UninstallStop(m) ==
  /\ At(m, "unstop") /\ Goto(m, "delete") /\ Stopping(m)
  /\ InstallOnly /\ UNCHANGED <<server, disk, agent>>
\* A service whose process still runs goes when the process ends.
UninstallDelete(m) ==
  /\ At(m, "delete") /\ Goto(m, "remove")
  /\ service' = [service EXCEPT ![m] = IF ~Alive(m) THEN "absent" ELSE
                                       IF @ = "running" THEN "marked" ELSE "doomed"]
  /\ InstallOnly /\ UNCHANGED <<server, disk, agent>>
\* The directory of a running program cannot be removed; nor is the config purged then.
UninstallRemove(m) ==
  /\ At(m, "remove")
  /\ IF Alive(m) THEN Gives(m) ELSE Goto(m, "purge")
  /\ UNCHANGED <<server, disk, service, agent, installs, faults>>
UninstallPurge(m) ==
  /\ At(m, "purge") /\ Gives(m)
  /\ \E purge \in BOOLEAN : disk' = [disk EXCEPT ![m] = IF purge THEN None ELSE @]
  /\ InstallOnly /\ UNCHANGED <<server, service, agent>>

-----------------------------------------------------------------------------
(* Faults. *)

\* An HTTP call or a child process of the installer fails, and the installer ends
\* where it is; whatever it did before stays, a half-written configuration included.
InstallFails(m) ==
  /\ installer[m].at \notin {"idle", "start"} /\ Fault /\ Gives(m)
  /\ disk' = [disk EXCEPT ![m] = IF At(m, "configure") THEN Unreadable ELSE @]
  /\ UNCHANGED <<server, service, agent, installs>>
\* A process that ends without a word is to be restarted, asked to stop or not.
AgentCrashes(m) ==
  /\ Alive(m) /\ Fault /\ Ended(m, "running")
  /\ UNCHANGED <<server, installer, disk, installs>>
\* An answer that cannot be written (HandleAsync is not async) ends the endpoint's task
\* and with it the host, in order: the service counts as stopped, not as failed.
EndpointFails(m) ==
  /\ Answers(m) /\ Fault /\ Ended(m, "stopped")
  /\ UNCHANGED <<server, installer, disk, installs>>
\* Every service that is there is started again at boot.
Reboot(m) ==
  /\ Fault /\ agent' = [agent EXCEPT ![m] = None] /\ Gives(m)
  /\ service' = [service EXCEPT ![m] = IF @ = "absent" THEN "absent" ELSE Without(m, "running")]
  /\ UNCHANGED <<server, disk, installs>>

-----------------------------------------------------------------------------
Server == \E s \in Stations : CreateStation(s) \/ PairStation(s) \/ DeleteStation(s)
Install(m) ==
  \/ InstallAuto(m) \/ InstallManual(m) \/ InstallCreate(m) \/ InstallPair(m)
  \/ InstallStop(m) \/ InstallExtract(m) \/ InstallConfigure(m) \/ InstallRegister(m)
  \/ InstallStart(m)
  \/ Uninstall(m) \/ UninstallStop(m) \/ UninstallDelete(m) \/ UninstallRemove(m)
  \/ UninstallPurge(m)
Agent(m) == ServiceStarts(m) \/ ServiceStops(m) \/ Poll(m)
Local(m) == SetLocal(m) \/ RestartService(m)
Faults(m) ==
  PollFails(m) \/ InstallFails(m) \/ AgentCrashes(m) \/ EndpointFails(m) \/ Reboot(m)

Next ==
  \/ Server
  \/ \E m \in Machines : Install(m) \/ Agent(m) \/ Local(m) \/ Faults(m)

Spec == Init /\ [][Next]_vars

\* The service manager and the poll loop go on by themselves.
Fairness == \A m \in Machines :
  WF_vars(ServiceStarts(m)) /\ WF_vars(ServiceStops(m)) /\ WF_vars(Poll(m))
FairSpec == Spec /\ Fairness

-----------------------------------------------------------------------------
(* Properties. *)

\* The table and the PCs hold what these programs put there.
TypeOK ==
  /\ table \in [Stations -> Station] /\ issued \in Keys /\ shown \subseteq Stations \X Keys
  /\ installer \in [Machines -> Installer] /\ disk \in [Machines -> File]
  /\ service \in [Machines -> Services] /\ agent \in [Machines -> Process \cup {None}]
  /\ installs \in 0 .. MaxInstalls /\ faults \in 0 .. MaxFaults

\* Outside the installer, an agent that runs on a PC runs with the pairing in the
\* PC's configuration: no install, however it ended, leaves the old process behind
\* a new configuration (the service is stopped first, and sc stop does not wait).  The
\* one way to is a start that the service manager had to come when the installer
\* stopped the service, after a crash or a boot: if it falls between the unpacking and
\* the configuring, the agent has the old pairing and sc start leaves it alone.
RunsWithItsPairing ==
  \A m \in Machines : At(m, "idle") /\ Alive(m) /\ Readable(m) /\ ~agent[m].early =>
    agent[m].config # None /\ agent[m].config.key = disk[m].key

\* A key that an install with the admin's PIN fetched for its own PC stops being
\* accepted only because an admin paired or deleted that station: an install elsewhere
\* does not take it away, not even one under the same station name.  (A key typed in
\* by hand may be: of a station that an install has created and is about to pair.)
InstallsDontUnpairOthers ==
  [][\A m \in Machines :
       /\ Readable(m) /\ Accepts(disk[m].key) /\ disk'[m] = disk[m]
       /\ <<disk[m].station, disk[m].key>> \notin shown
       /\ ~Accepts(disk[m].key)'
       => PairStation(disk[m].station) \/ DeleteStation(disk[m].station)]_vars

\* A PC whose service runs with an accepted key has its icon turn green, after any
\* crash or reboot, unless its pairing or its service is touched, or its agent found
\* the endpoint's port taken: that agent polls and prints, but its icon stays red.
Working(m) ==
  /\ service[m] = "running" /\ At(m, "idle") /\ Readable(m) /\ Accepts(disk[m].key)
  /\ Alive(m) => /\ agent[m].listening
                 /\ agent[m].config # None /\ agent[m].config.key = disk[m].key
EventuallyGreen == \A m \in Machines : []<>(~Working(m) \/ Colour(m) = "green")
=============================================================================
