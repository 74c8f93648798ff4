----------------------------- MODULE PrintJobs -----------------------------
(***************************************************************************)
(* The print-job queue of the backend together with the printers behind    *)
(* it: the print_jobs table, the request handlers that read and write it   *)
(* (routers/print_jobs.py, services/printing.py), the LAN printers the     *)
(* backend dials itself, and the Windows agents that poll for the jobs of  *)
(* a USB station (client/ResaPrint.Agent/Worker.cs).                       *)
(*                                                                         *)
(* Every handler runs in a database session of its own at READ COMMITTED:  *)
(* it loads rows, changes the objects in memory, and its commit emits an   *)
(* UPDATE of just the columns whose value differs from the loaded one.     *)
(* Between the load and the commit the handler awaits, and the handlers    *)
(* of other requests run.  `txn' holds what the sessions have in memory.   *)
(***************************************************************************)
EXTENDS Naturals, FiniteSets

CONSTANTS
  Jobs,          \* the ids the print_jobs sequence hands out
  UsbStations,   \* stations of connection_type usb_agent, one agent each
  LanStations,   \* stations of connection_type lan_escpos
  StationOf,     \* the station a job is created for; never updated
  Handlers,      \* request handlers the api process runs at a time
  MaxOrders,     \* bound: how often one job may be queued or dispatched
  NoHandler, NoStation, NoJob

Stations == UsbStations \cup LanStations

ASSUME StationAssumption ==
  /\ StationOf \in [Jobs -> Stations]
  /\ UsbStations \cap LanStations = {}
  /\ NoStation \notin Stations
ASSUME HandlerAssumption ==
  NoHandler \notin Handlers /\ NoJob \notin Jobs /\ IsFiniteSet(Handlers)
ASSUME BoundAssumption == MaxOrders \in Nat

UsbJobs == {j \in Jobs : StationOf[j] \in UsbStations}
LanJobs == {j \in Jobs : StationOf[j] \in LanStations}

VARIABLES
  stations,  \* ids in the print_stations table
  row,       \* the committed print_jobs row of every id
  txn,       \* what each request handler has loaded and means to write
  agent,     \* the state of the poll loop of each USB station's agent
  orders,    \* history: times a job was put on the queue, or dispatched
  paper      \* history: times the job's bytes reached its printer

vars == <<stations, row, txn, agent, orders, paper>>

-----------------------------------------------------------------------------
(* The table and the sessions. *)

PrintJobStatus == {"queued", "sent", "printed", "failed", "cancelled"}
Result == {"printed", "failed"}

Row == [status : PrintJobStatus \cup {"absent"}, attempts : Nat]
NoRow == [status |-> "absent", attempts |-> 0]

\* A session: what request it serves, how far it is, the rows it loaded, the
\* status it loaded (from) and will write (to), and the value it will write to
\* attempts (0: the column is not touched).
Txn == [kind : {"none", "poll", "ack", "retry", "cancel", "enqueue"},
        at : {"none", "arrived", "loaded", "dispatching"},
        station : Stations \cup {NoStation},
        jobs : SUBSET Jobs,
        from : PrintJobStatus \cup {"absent"},
        to : PrintJobStatus \cup {"absent"},
        att : Nat]
Session(kind, at, station, jobs, from, to, att) ==
  [kind |-> kind, at |-> at, station |-> station, jobs |-> jobs,
   from |-> from, to |-> to, att |-> att]
NoTxn == Session("none", "none", NoStation, {}, "absent", "absent", 0)

\* The poll loop: waiting out the interval, awaiting the poll's response, going
\* through the fetched jobs, holding a print result, awaiting the ack's response.
Agent == [pc : {"idle", "polling", "fetched", "printed", "acking"},
          todo : SUBSET Jobs, cur : Jobs \cup {NoJob}, result : Result,
          via : Handlers \cup {NoHandler}]
Loop(pc, todo, cur, result, via) ==
  [pc |-> pc, todo |-> todo, cur |-> cur, result |-> result, via |-> via]
IdleAgent == Loop("idle", {}, NoJob, "failed", NoHandler)

Exists(j) == row[j].status # "absent"
Free(h) == txn[h].kind = "none"
In(h, kind, at) == txn[h].kind = kind /\ txn[h].at = at

\* The station whose agent is still waiting for the answer of handler h.
Caller(h) == {s \in UsbStations : agent[s].via = h}

\* The agent after its foreach has dealt with one more job.
NextJob(todo) == IF todo = {} THEN IdleAgent
                 ELSE Loop("fetched", todo, NoJob, "failed", NoHandler)

\* What an agent reports of a job it has handed to the printer.
\* Mutants: a failure is reported as a success; only receipt is acknowledged.
AckStatusHardcoded(a) == "printed"
AckStatusReceipt(a) == "sent"
AckStatus(a) == a.result

\* Mutants: the poll hands out sent jobs again, failed jobs too, the queued jobs of
\* every station, or only those that were never tried.
PollableAgain(s, j) == StationOf[j] = s /\ row[j].status \in {"queued", "sent"}
PollableFailed(s, j) == StationOf[j] = s /\ row[j].status \in {"queued", "failed"}
PollableAnywhere(s, j) == row[j].status = "queued"
PollableUntried(s, j) ==
  StationOf[j] = s /\ row[j].status = "queued" /\ row[j].attempts = 0
\* The filter of the poll's SELECT.
Pollable(s, j) == StationOf[j] = s /\ row[j].status = "queued"

\* Mutants: an attempt is counted by the dispatch and again by its outcome, or
\* attempts counts those that are left.
CountedTwice(r) == r.attempts + 2
CountedDown(r) == r.attempts - 1
\* The value attempts gets after one more attempt.
Counted(r) == r.attempts + 1

\* The row after the session's flush: only columns that changed are written.
Written(r, t) ==
  [status   |-> IF t.to = t.from THEN r.status ELSE t.to,
   attempts |-> IF t.att = 0 THEN r.attempts ELSE t.att]

\* The flush and commit of a session that loaded these rows; an UPDATE that
\* meets no row raises, so the rows must still be there.
Commit(h) ==
  /\ \A j \in txn[h].jobs : Exists(j)
  /\ row' = [j \in Jobs |-> IF j \in txn[h].jobs THEN Written(row[j], txn[h])
                            ELSE row[j]]
  /\ txn' = [txn EXCEPT ![h] = NoTxn]

Init ==
  /\ stations = Stations
  /\ row = [j \in Jobs |-> NoRow]
  /\ txn = [h \in Handlers |-> NoTxn]
  /\ agent = [s \in UsbStations |-> IdleAgent]
  /\ orders = [j \in Jobs |-> 0]
  /\ paper = [j \in Jobs |-> 0]

-----------------------------------------------------------------------------
(* Creating jobs. *)

\* A receipt or a manual print for a USB station: one INSERT and its commit.
EnqueueUsb(j) ==
  /\ j \in UsbJobs /\ StationOf[j] \in stations
  /\ orders[j] = 0 /\ orders[j] < MaxOrders
  /\ row' = [row EXCEPT ![j] = [status |-> "queued", attempts |-> 0]]
  /\ orders' = [orders EXCEPT ![j] = 1]
  /\ UNCHANGED <<stations, txn, agent, paper>>

\* The same for a LAN station: the INSERT is flushed, not committed, when the
\* handler goes on to dial the printer.
EnqueueLan(h, j) ==
  /\ Free(h) /\ j \in LanJobs /\ StationOf[j] \in stations
  /\ orders[j] = 0 /\ orders[j] < MaxOrders
  /\ \A g \in Handlers : j \notin txn[g].jobs
  /\ txn' = [txn EXCEPT ![h] =
               Session("enqueue", "dispatching", StationOf[j], {j}, "absent",
                       "absent", Counted(NoRow))]
  /\ UNCHANGED <<stations, row, agent, orders, paper>>

\* dispatch_lan_job: a connection error or timeout leaves the job failed, and
\* one that breaks while the bytes are drained may still have delivered them.
LanSend(h) ==
  /\ txn[h].at = "dispatching"
  /\ \E to \in Result, delivered \in {0, 1}, j \in txn[h].jobs :
       /\ to = "printed" => delivered = 1
       /\ txn' = [txn EXCEPT ![h] = [@ EXCEPT !.at = "loaded", !.to = to]]
       /\ orders' = [orders EXCEPT ![j] = @ + 1]
       /\ paper' = [paper EXCEPT ![j] = @ + delivered]
  /\ UNCHANGED <<stations, row, agent>>

\* The commit that makes the LAN job's row visible, with its outcome in it.
EnqueueCommit(h) ==
  /\ In(h, "enqueue", "loaded")
  /\ \E j \in txn[h].jobs : row' = [row EXCEPT ![j] = Written(NoRow, txn[h])]
  /\ txn' = [txn EXCEPT ![h] = NoTxn]
  /\ UNCHANGED <<stations, agent, orders, paper>>

-----------------------------------------------------------------------------
(* The agent's poll loop and the two endpoints it calls. *)

\* PollJobsAsync: the request leaves for the api, which takes a handler for it.
AgentPoll(s, h) ==
  /\ agent[s].pc = "idle" /\ Free(h)
  /\ agent' = [agent EXCEPT ![s] = Loop("polling", {}, NoJob, "failed", h)]
  /\ txn' = [txn EXCEPT ![h] =
               Session("poll", "arrived", s, {}, "absent", "absent", 0)]
  /\ UNCHANGED <<stations, row, orders, paper>>

\* The station's key is accepted and its queued jobs are selected.
PollRead(h) ==
  /\ In(h, "poll", "arrived") /\ txn[h].station \in stations
  /\ txn' = [txn EXCEPT ![h] =
               Session("poll", "loaded", @.station,
                       {j \in Jobs : Pollable(txn[h].station, j)},
                       "queued", "sent", 0)]
  /\ UNCHANGED <<stations, row, agent, orders, paper>>

\* The selected jobs become sent, and whoever still waits gets all of them.
PollCommit(h) ==
  /\ In(h, "poll", "loaded")
  /\ Commit(h)
  /\ agent' = [s \in UsbStations |->
                 IF s \in Caller(h)
                 THEN NextJob(txn[h].jobs)
                 ELSE agent[s]]
  /\ UNCHANGED <<stations, orders, paper>>

\* PrintAsync on the next fetched job; a failure may leave paper behind.
AgentPrint(s) ==
  /\ agent[s].pc = "fetched"
  /\ \E j \in agent[s].todo, result \in Result, delivered \in {0, 1} :
       /\ result = "printed" => delivered = 1
       /\ agent' = [agent EXCEPT ![s] =
                      Loop("printed", @.todo \ {j}, j, result, NoHandler)]
       /\ paper' = [paper EXCEPT ![j] = @ + delivered]
  /\ UNCHANGED <<stations, row, txn, orders>>

\* AckJobAsync: the result leaves for the api.
AgentAck(s, h) ==
  /\ agent[s].pc = "printed" /\ Free(h)
  /\ agent' = [agent EXCEPT ![s] = [@ EXCEPT !.pc = "acking", !.via = h]]
  /\ txn' = [txn EXCEPT ![h] =
               Session("ack", "arrived", s, {agent[s].cur}, "absent",
                       AckStatus(agent[s]), 0)]
  /\ UNCHANGED <<stations, row, orders, paper>>

\* The key is accepted, the job is this station's, and its row is loaded.
AckRead(h) ==
  /\ In(h, "ack", "arrived") /\ txn[h].station \in stations
  /\ \E j \in txn[h].jobs :
       /\ Exists(j) /\ StationOf[j] = txn[h].station
       /\ txn' = [txn EXCEPT ![h] =
                    Session("ack", "loaded", @.station, {j}, row[j].status, @.to,
                            Counted(row[j]))]
  /\ UNCHANGED <<stations, row, agent, orders, paper>>

\* The result is stored, and an agent that still waits goes on to its next job.
AckCommit(h) ==
  /\ In(h, "ack", "loaded")
  /\ Commit(h)
  /\ agent' = [s \in UsbStations |-> IF s \in Caller(h) THEN NextJob(agent[s].todo)
                                     ELSE agent[s]]
  /\ UNCHANGED <<stations, orders, paper>>

\* An exception out of PollOnceAsync (a timeout, a lost response, a status that
\* is not 2xx) or a restart of the service: whatever was fetched is forgotten.
\* A request already on its way is still served.
AgentDropsOut(s) ==
  /\ agent[s].pc # "idle"
  /\ agent' = [agent EXCEPT ![s] = IdleAgent]
  /\ UNCHANGED <<stations, row, txn, orders, paper>>

-----------------------------------------------------------------------------
(* What an operator does to a job. *)

\* MaxOrders bounds the retries asked for.
RetryRead(h, j) ==
  /\ Free(h) /\ Exists(j)
  /\ orders[j] + Cardinality({g \in Handlers : txn[g].kind = "retry" /\ j \in txn[g].jobs})
       < MaxOrders
  /\ txn' = [txn EXCEPT ![h] =
       IF j \in LanJobs
       THEN Session("retry", "dispatching", NoStation, {j}, row[j].status,
                    "absent", Counted(row[j]))
       ELSE Session("retry", "loaded", NoStation, {j}, row[j].status,
                    "queued", 0)]
  /\ UNCHANGED <<stations, row, agent, orders, paper>>

\* A retry of a USB job puts it back on the queue, and that is an order, unless
\* the session had loaded a queued job: then it writes no status at all.
RetryCommit(h) ==
  /\ In(h, "retry", "loaded")
  /\ Commit(h)
  /\ orders' = [j \in Jobs |->
                  IF /\ j \in txn[h].jobs \cap UsbJobs
                     /\ txn[h].from # "queued"
                  THEN orders[j] + 1 ELSE orders[j]]
  /\ UNCHANGED <<stations, agent, paper>>

CancelRead(h, j) ==
  /\ Free(h) /\ Exists(j)
  /\ txn' = [txn EXCEPT ![h] = Session("cancel", "loaded", NoStation, {j},
                                       row[j].status, "cancelled", 0)]
  /\ UNCHANGED <<stations, row, agent, orders, paper>>

CancelCommit(h) ==
  /\ In(h, "cancel", "loaded")
  /\ Commit(h)
  /\ UNCHANGED <<stations, agent, orders, paper>>

\* delete_station: the jobs go with the station.  The DELETE waits for a flushed
\* INSERT that references the station.
DeleteStation(s) ==
  /\ s \in stations
  /\ \A h \in Handlers : ~(txn[h].kind = "enqueue" /\ txn[h].station = s)
  /\ stations' = stations \ {s}
  /\ row' = [j \in Jobs |-> IF StationOf[j] = s THEN NoRow ELSE row[j]]
  /\ UNCHANGED <<txn, agent, orders, paper>>

\* The session is rolled back and its caller, if one still waits, gets an
\* exception and forgets what it had fetched.
Rollback(h) ==
  /\ txn' = [txn EXCEPT ![h] = NoTxn]
  /\ agent' = [s \in UsbStations |-> IF s \in Caller(h) THEN IdleAgent ELSE agent[s]]
  /\ UNCHANGED <<stations, row, orders, paper>>

\* 401 for the key of a deleted station, 404 for a job that is gone, or the
\* error of an UPDATE that meets no row.
Refuse(h) ==
  /\ \/ txn[h].at = "arrived" /\ txn[h].station \notin stations
     \/ txn[h].at = "arrived" /\ \E j \in txn[h].jobs : ~Exists(j)
     \/ txn[h].at = "loaded" /\ txn[h].kind # "enqueue"
          /\ \E j \in txn[h].jobs : ~Exists(j)
  /\ Rollback(h)

\* The database fails the session, or the api process dies under it.
HandlerFails(h) == ~Free(h) /\ Rollback(h)

-----------------------------------------------------------------------------
Enqueue(h, j) == EnqueueUsb(j) \/ EnqueueLan(h, j)
Read(h, j) == RetryRead(h, j) \/ CancelRead(h, j)
Serve(h) == PollRead(h) \/ PollCommit(h) \/ AckRead(h) \/ AckCommit(h)
Finish(h) == EnqueueCommit(h) \/ RetryCommit(h) \/ CancelCommit(h) \/ Refuse(h)
AgentCall(s, h) == AgentPoll(s, h) \/ AgentAck(s, h)

\* Steps of a system in which no request and no process fails.
Work ==
  \/ \E h \in Handlers, j \in Jobs : Enqueue(h, j) \/ Read(h, j)
  \/ \E h \in Handlers : Serve(h) \/ Finish(h) \/ LanSend(h)
  \/ \E s \in UsbStations : AgentPrint(s) \/ \E h \in Handlers : AgentCall(s, h)
  \/ \E s \in Stations : DeleteStation(s)

Faults ==
  \/ \E s \in UsbStations : AgentDropsOut(s)
  \/ \E h \in Handlers : HandlerFails(h)

Next == Work \/ Faults

Spec == Init /\ [][Next]_vars
-----------------------------------------------------------------------------
(* Properties. *)

\* The variables hold values of the table's columns, sessions that have loaded
\* rows of one kind of request, and agents that are where their loop can be.
TypeOK ==
  /\ stations \subseteq Stations
  /\ row \in [Jobs -> Row]
  /\ txn \in [Handlers -> Txn]
  /\ agent \in [UsbStations -> Agent]
  /\ orders \in [Jobs -> Nat]
  /\ paper \in [Jobs -> Nat]

\* A USB job comes out of the printer at most once per time it was put on the
\* queue: polls, lost answers, repeated polls of a restarted agent, late commits
\* and retries never make the agent print a job nobody ordered (poll_print_jobs
\* hands a queued job to one waiting caller only).
NoUnorderedPaper ==
  \A j \in UsbJobs : paper[j] <= orders[j]

\* Jobs stay with the station they were created for: an agent gets hold of no
\* other station's job, even when polls of several stations overlap, so no
\* receipt comes out at the wrong desk (the station filter of poll_print_jobs).
OwnStationOnly ==
  \A s \in UsbStations :
    /\ \A j \in agent[s].todo : StationOf[j] = s
    /\ agent[s].cur \in Jobs => StationOf[agent[s].cur] = s

\* A job shown as printed has really reached its printer, whatever acks arrive
\* late or out of order and whichever sessions overwrite each other
\* (ack_print_job, dispatch_lan_job).
PrintedMeansPaper ==
  \A j \in Jobs : row[j].status = "printed" => paper[j] > 0

\* The attempts column never claims more attempts than were ordered: the
\* read-modify-write of attempts can lose counts, it cannot invent one.
AttemptsWithinOrders ==
  \A j \in Jobs : row[j].attempts <= orders[j]

\* Nobody can print the job any more or put it back to sent: it has an outcome,
\* no agent has it in hand, and no poll has loaded it.
Settled(j) ==
  /\ row[j].status \in {"printed", "failed", "cancelled"}
  /\ \A s \in UsbStations : j \notin agent[s].todo
  /\ \A h \in Handlers : ~(txn[h].kind = "poll" /\ j \in txn[h].jobs)

\* A settled job stays settled and prints nothing until somebody orders it
\* again: acks, cancels and polls in flight cannot reopen it.
SettledUntilOrdered ==
  [][\A j \in Jobs :
       Settled(j) /\ orders'[j] = orders[j]
         => /\ paper'[j] = paper[j]
            /\ Settled(j)' \/ ~Exists(j)']_vars

\* An ack that will not write the status it reports: it loaded that same status,
\* and what others have made of the row since then stays.
Mute(h) == In(h, "ack", "loaded") /\ txn[h].from = txn[h].to

\* A job shown as sent that nobody will report on.
Stranded(j) ==
  /\ row[j].status = "sent"
  /\ \A s \in UsbStations :
       /\ j \notin agent[s].todo
       /\ j = agent[s].cur => agent[s].via \in Handlers /\ Mute(agent[s].via)
  /\ \A h \in Handlers : txn[h].kind = "ack" /\ j \in txn[h].jobs => Mute(h)

\* A sent job is stranded only by a fault, or by the late answer to a poll that
\* nobody waits for any more: no order of polls, acks, retries and cancels by
\* itself leaves a job that the agent and the api have both forgotten.
StrandedByFault ==
  [][\A j \in UsbJobs : ~Stranded(j) /\ Stranded(j)'
       => Faults \/ \E h \in Handlers : PollCommit(h) /\ Caller(h) = {}]_vars

\* The queue keeps what PrintOrders promises.
Shown == {j \in Jobs : row[j].status = "printed"}
Promise == INSTANCE PrintOrders WITH shown <- Shown
KeepsPromise == Promise!Spec

\* docs/API.md on poll: it returns the station's queued jobs and marks them
\* sent.  So no job an operator has cancelled is marked sent.
PollMarksOnlyQueued ==
  [][\A j \in Jobs : row[j].status = "cancelled" => row'[j].status # "sent"]_vars

-----------------------------------------------------------------------------
(* The inductive invariant behind NoUnorderedPaper and PrintedMeansPaper. *)

\* Where an agent is in its loop says what it has in hand, and all of that is
\* its own station's.
AgentInv(s) ==
  /\ agent[s].pc \in {"idle", "fetched", "printed"} => agent[s].via = NoHandler
  /\ agent[s].pc \in {"idle", "polling"} => agent[s].todo = {}
  /\ agent[s].pc \in {"printed", "acking"} <=> agent[s].cur \in Jobs
  /\ \A j \in agent[s].todo : StationOf[j] = s
  /\ agent[s].cur \in Jobs => StationOf[agent[s].cur] = s

\* A waiting agent waits for a handler that serves its own request.
CallInv(s) ==
  agent[s].via \in Handlers =>
    /\ txn[agent[s].via].station = s
    /\ txn[agent[s].via].kind = IF agent[s].pc = "polling" THEN "poll" ELSE "ack"

\* What a session has loaded fits the request it serves: only a retry writes
\* queued, only LAN jobs are dispatched.
SessionInv(h) ==
  /\ txn[h].kind = "poll" =>
       /\ \A j \in txn[h].jobs : StationOf[j] = txn[h].station
       /\ txn[h].jobs # {} => txn[h].from = "queued" /\ txn[h].to = "sent"
       /\ txn[h].at = "arrived" => txn[h].jobs = {}
  /\ txn[h].to = "queued" => txn[h].kind = "retry"
  /\ txn[h].kind = "retry" => \E j \in Jobs : txn[h].jobs = {j}
  /\ txn[h].at = "dispatching" => txn[h].kind \in {"enqueue", "retry"}
  /\ txn[h].kind = "enqueue" \/ txn[h].at = "dispatching" =>
       \E j \in LanJobs : txn[h].jobs = {j}

InHand(j) == \E s \in UsbStations : j \in agent[s].todo

\* A waiting agent may yet be given the job: it is queued, or a poll that is
\* still awaited has loaded it.
Claimable(j) ==
  \/ row[j].status = "queued"
  \/ \E s \in UsbStations : /\ agent[s].pc = "polling"
                            /\ agent[s].via \in Handlers
                            /\ j \in txn[agent[s].via].jobs

\* Every copy that may still come out is covered by an order of its own: one for
\* the copy an agent has in hand, one for the copy it may yet be given.
OrderInv(j) ==
  /\ paper[j] <= orders[j]
  /\ InHand(j) \/ Claimable(j) => paper[j] + 1 <= orders[j]
  /\ InHand(j) /\ Claimable(j) => paper[j] + 2 <= orders[j]

\* Whoever is about to say printed has seen the paper.
ReportInv ==
  /\ \A h \in Handlers : txn[h].to = "printed" =>
       \A j \in txn[h].jobs : paper[j] > 0
  /\ \A s \in UsbStations :
       agent[s].result = "printed" /\ agent[s].cur \in Jobs
         => paper[agent[s].cur] > 0
  /\ PrintedMeansPaper

StructureInv ==
  /\ TypeOK
  /\ \A s \in UsbStations : AgentInv(s) /\ CallInv(s)
  /\ \A h \in Handlers : SessionInv(h)

\* NoUnorderedPaper is not inductive: it needs to know who can still print.
PaperInv ==
  /\ StructureInv
  /\ \A j \in UsbJobs : OrderInv(j)
  /\ ReportInv

-----------------------------------------------------------------------------
(* Liveness. *)

\* A request that reached a handler is served or refused, but a LAN dispatch may
\* hang: only its connect has a timeout.  The agent's loop takes its next step,
\* the service being restarted when it stops; and among the polls an agent makes
\* again and again not every one is cut off before it has read, or before it has
\* committed.
Fairness ==
  /\ \A h \in Handlers : WF_vars(Serve(h) \/ Finish(h))
  /\ \A s \in UsbStations :
       /\ WF_vars(AgentPrint(s))
       /\ SF_vars(\E h \in Handlers : AgentCall(s, h))
       /\ SF_vars(\E h \in Handlers : txn[h].station = s /\ PollRead(h))
       /\ SF_vars(\E h \in Handlers : txn[h].station = s /\ PollCommit(h))

FairSpec == Spec /\ Fairness

\* However often the agent restarts, requests are cut off and operators retry or
\* cancel in the middle of them, a queued USB job gets an outcome, is deleted, or
\* is stranded.
QueuedGetsOutcome ==
  \A j \in UsbJobs :
    (row[j].status = "queued")
      ~> \/ row[j].status \in {"printed", "failed", "cancelled", "absent"}
         \/ Stranded(j)
=============================================================================
