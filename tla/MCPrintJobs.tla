---------------------------- MODULE MCPrintJobs ----------------------------
(* Instances of PrintJobs for TLC. *)
EXTENDS PrintJobs, TLC

CONSTANTS usb1, usb2, lan1, j1

\* Every job is for the first USB station; the first job is for that station
\* and the others for the LAN one; each USB station has jobs.
AllUsb == [j \in Jobs |-> usb1]
UsbAndLan == [j \in Jobs |-> IF j = j1 THEN usb1 ELSE lan1]
PerStation == [j \in Jobs |-> IF j = j1 THEN usb1 ELSE usb2]

HandlerSymmetry == Permutations(Handlers)
JobHandlerSymmetry == Permutations(Handlers) \cup Permutations(Jobs)
=============================================================================
