-------------------------- MODULE PrintJobs_proofs --------------------------
(* Proofs about the print queue, for any jobs, stations and handlers. *)
EXTENDS PrintJobs, TLAPS

-----------------------------------------------------------------------------
(* The values the actions write have the types of the columns and fields. *)

\* An idle session, an idle agent and a missing row have their types.
LEMMA IdleTypes ==
  NoTxn \in Txn /\ IdleAgent \in Agent /\ NoRow \in Row
BY DEF NoTxn, Session, Txn, IdleAgent, Loop, Agent, NoRow, Row, Result

\* A flush turns a row into a row, and writes the session's status or none.
LEMMA WrittenType ==
  ASSUME NEW r \in Row, NEW t \in Txn
  PROVE  /\ Written(r, t) \in Row
         /\ Written(r, t).status \in {r.status, t.to}
BY DEF Written, Row, Txn

\* So a commit keeps the table and the sessions well-formed.
LEMMA CommitType ==
  ASSUME TypeOK, NEW h \in Handlers, Commit(h)
  PROVE  /\ row' \in [Jobs -> Row]
         /\ txn' \in [Handlers -> Txn]
         /\ txn'[h] = NoTxn
         /\ \A g \in Handlers : g # h => txn'[g] = txn[g]
         /\ \A j \in Jobs : row'[j].status \in {row[j].status, txn[h].to}
         /\ \A j \in Jobs \ txn[h].jobs : row'[j] = row[j]
<1>1. \A j \in Jobs : Written(row[j], txn[h]) \in Row
                     /\ Written(row[j], txn[h]).status \in {row[j].status, txn[h].to}
  BY WrittenType DEF TypeOK
<1> QED
  BY <1>1, IdleTypes DEF Commit, TypeOK

-----------------------------------------------------------------------------
(* The structure of sessions and agents. *)

LEMMA InitStructure == Init => StructureInv
<1> SUFFICES ASSUME Init PROVE StructureInv
  OBVIOUS
<1>1. TypeOK
  BY IdleTypes DEF Init, TypeOK, Stations
<1>2. \A s \in UsbStations : AgentInv(s) /\ CallInv(s)
  BY HandlerAssumption DEF Init, AgentInv, CallInv, IdleAgent, Loop
<1>3. \A h \in Handlers : SessionInv(h)
  BY DEF Init, SessionInv, NoTxn, Session
<1> QED
  BY <1>1, <1>2, <1>3 DEF StructureInv

\* A handler that is done, or rolled back, leaves the other sessions alone.
LEMMA FreedSession ==
  ASSUME StructureInv, NEW h \in Handlers, txn'[h] = NoTxn,
         \A g \in Handlers : g # h => txn'[g] = txn[g]
  PROVE  \A g \in Handlers : SessionInv(g)'
<1> TAKE g \in Handlers
<1>1. CASE g = h
  BY <1>1 DEF SessionInv, NoTxn, Session
<1>2. CASE g # h
  <2>1. txn'[g] = txn[g] /\ SessionInv(g)
    BY <1>2 DEF StructureInv
  <2> QED BY <2>1 DEF SessionInv
<1> QED BY <1>1, <1>2

\* An agent that is done waiting is the only one to notice that.
LEMMA FreedCall ==
  ASSUME StructureInv, NEW h \in Handlers,
         \A g \in Handlers : g # h => txn'[g] = txn[g],
         \A s \in UsbStations :
           \/ agent'[s].via = NoHandler
           \/ agent'[s] = agent[s] /\ agent[s].via # h
  PROVE  \A s \in UsbStations : CallInv(s)'
BY HandlerAssumption DEF StructureInv, CallInv

LEMMA NextStructure == StructureInv /\ [Next]_vars => StructureInv'
<1> SUFFICES ASSUME StructureInv, [Next]_vars PROVE StructureInv'
  OBVIOUS
<1> USE StationAssumption, HandlerAssumption, IdleTypes DEF StructureInv
<1>0. CASE UNCHANGED vars
  BY <1>0 DEF vars, TypeOK, AgentInv, CallInv, SessionInv
<1>1. ASSUME NEW j \in Jobs, EnqueueUsb(j) PROVE StructureInv'
  <2>1. TypeOK'
    BY <1>1
       DEF EnqueueUsb, TypeOK, UsbJobs, Stations, Result, PrintJobStatus, Txn, Row,
           Agent
  <2>2. \A t \in UsbStations : AgentInv(t)'
    BY <1>1 DEF EnqueueUsb, AgentInv
  <2>3. \A t \in UsbStations : CallInv(t)'
    BY <1>1 DEF EnqueueUsb, CallInv
  <2>4. \A g \in Handlers : SessionInv(g)'
    BY <1>1 DEF EnqueueUsb, SessionInv
  <2> QED BY <2>1, <2>2, <2>3, <2>4
<1>2. ASSUME NEW h \in Handlers, NEW j \in Jobs, EnqueueLan(h, j) PROVE StructureInv'
  <2>1. TypeOK'
    BY <1>2 DEF EnqueueLan, TypeOK, Session, Free, LanJobs, Counted, NoRow, Txn
  <2>2. \A t \in UsbStations : AgentInv(t)'
    BY <1>2 DEF EnqueueLan, AgentInv
  <2>3. \A t \in UsbStations : CallInv(t)'
    BY <1>2 DEF EnqueueLan, CallInv, TypeOK, Session, Free
  <2>4. \A g \in Handlers : SessionInv(g)'
    BY <1>2 DEF EnqueueLan, SessionInv, TypeOK, Session
  <2> QED BY <2>1, <2>2, <2>3, <2>4
<1>3. ASSUME NEW h \in Handlers, LanSend(h) PROVE StructureInv'
  <2>0. PICK to \in Result, delivered \in {0, 1}, j \in txn[h].jobs :
          /\ txn' = [txn EXCEPT ![h] = [@ EXCEPT !.at = "loaded", !.to = to]]
          /\ orders' = [orders EXCEPT ![j] = @ + 1]
          /\ paper' = [paper EXCEPT ![j] = @ + delivered]
    BY <1>3 DEF LanSend
  <2>1. TypeOK'
    <3>1. [txn[h] EXCEPT !.at = "loaded", !.to = to] \in Txn
      BY ZenonT(60) DEF TypeOK, Txn, Result, PrintJobStatus
    <3>2. txn' \in [Handlers -> Txn]
      BY <2>0, <3>1 DEF TypeOK
    <3>3. j \in Jobs
      BY DEF TypeOK, Txn
    <3>4. orders' \in [Jobs -> Nat] /\ paper' \in [Jobs -> Nat]
      BY <2>0, <3>3 DEF TypeOK
    <3> QED BY <1>3, <3>2, <3>4 DEF LanSend, TypeOK
  <2>2. \A t \in UsbStations : AgentInv(t)'
    BY <1>3 DEF LanSend, AgentInv
  <2>3. \A t \in UsbStations : CallInv(t)'
    BY <1>3 DEF LanSend, CallInv
  <2>4. \A g \in Handlers : SessionInv(g)'
    <3>1. \E k \in LanJobs : txn[h].jobs = {k}
      BY <1>3 DEF LanSend, SessionInv
    <3>2. txn[h].kind \in {"enqueue", "retry"}
      BY <1>3 DEF LanSend, SessionInv
    <3> QED BY <2>0, <3>1, <3>2 DEF TypeOK, Txn, SessionInv, Result
  <2> QED BY <2>1, <2>2, <2>3, <2>4
<1>4. ASSUME NEW h \in Handlers, EnqueueCommit(h) PROVE StructureInv'
  <2>1. TypeOK'
    <3>1. Written(NoRow, txn[h]) \in Row
      BY WrittenType DEF TypeOK
    <3> QED BY <1>4, <3>1, ZenonT(60) DEF EnqueueCommit, TypeOK
  <2>2. \A t \in UsbStations : AgentInv(t)'
    BY <1>4 DEF EnqueueCommit, AgentInv
  <2>3. \A t \in UsbStations : CallInv(t)'
    BY <1>4 DEF EnqueueCommit, CallInv, TypeOK, NoTxn, Session, In
  <2>4. \A g \in Handlers : SessionInv(g)'
    BY <1>4 DEF EnqueueCommit, SessionInv, TypeOK, NoTxn, Session, In
  <2> QED BY <2>1, <2>2, <2>3, <2>4
<1>5. ASSUME NEW s \in UsbStations, NEW h \in Handlers, AgentPoll(s, h) PROVE StructureInv'
  <2>1. TypeOK'
    BY <1>5
       DEF AgentPoll, TypeOK, Session, Loop, Free, Stations, Result, PrintJobStatus,
           Txn, Row, Agent
  <2>2. \A t \in UsbStations : AgentInv(t)'
    BY <1>5 DEF AgentPoll, AgentInv, TypeOK, Session, Loop
  <2>3. \A t \in UsbStations : CallInv(t)'
    BY <1>5 DEF AgentPoll, CallInv, TypeOK, Session, Loop, Free
  <2>4. \A g \in Handlers : SessionInv(g)'
    BY <1>5 DEF AgentPoll, SessionInv, TypeOK, Session, Loop
  <2> QED BY <2>1, <2>2, <2>3, <2>4
<1>6. ASSUME NEW h \in Handlers, PollRead(h) PROVE StructureInv'
  <2>1. TypeOK'
    BY <1>6
       DEF PollRead, TypeOK, Session, In, Stations, Result, PrintJobStatus, Txn,
           Row, Agent, Pollable
  <2>2. \A t \in UsbStations : AgentInv(t)'
    BY <1>6 DEF PollRead, AgentInv
  <2>3. \A t \in UsbStations : CallInv(t)'
    BY <1>6 DEF PollRead, CallInv, TypeOK, Session, In
  <2>4. \A g \in Handlers : SessionInv(g)'
    BY <1>6 DEF PollRead, TypeOK, SessionInv, Session, In, LanJobs, Pollable, Agent
  <2> QED BY <2>1, <2>2, <2>3, <2>4
<1>7. ASSUME NEW h \in Handlers, PollCommit(h) PROVE StructureInv'
  <2>0. /\ txn'[h] = NoTxn
        /\ \A g \in Handlers : g # h => txn'[g] = txn[g]
    BY <1>7, CommitType DEF PollCommit
  <2>1. TypeOK'
    BY <1>7, CommitType
       DEF PollCommit, TypeOK, NoTxn, Session, IdleAgent, Loop, NextJob, In, Caller,
           Stations, Result, PrintJobStatus, Exists, Txn, Row, Agent
  <2>2. \A t \in UsbStations : AgentInv(t)'
    BY <1>7, CommitType
       DEF PollCommit, TypeOK, AgentInv, CallInv, SessionInv, NoTxn, Session,
           IdleAgent, Loop, NextJob, In, Caller, LanJobs, Exists, Agent
  <2>3. \A t \in UsbStations : CallInv(t)'
    BY <1>7, CommitType
       DEF PollCommit, CallInv, TypeOK, NoTxn, Session, IdleAgent, Loop, NextJob,
           In, Caller
  <2>4. \A g \in Handlers : SessionInv(g)'
    BY <2>0, FreedSession
  <2> QED BY <2>1, <2>2, <2>3, <2>4
<1>8. ASSUME NEW s \in UsbStations, AgentPrint(s) PROVE StructureInv'
  <2>1. TypeOK'
    BY <1>8
       DEF AgentPrint, TypeOK, Loop, Stations, Result, PrintJobStatus, Txn, Row, Agent
  <2>2. \A t \in UsbStations : AgentInv(t)'
    BY <1>8
       DEF AgentPrint, TypeOK, AgentInv, CallInv, SessionInv, Loop, LanJobs, Result,
           Agent
  <2>3. \A t \in UsbStations : CallInv(t)'
    BY <1>8 DEF AgentPrint, CallInv, TypeOK, Loop
  <2>4. \A g \in Handlers : SessionInv(g)'
    BY <1>8 DEF AgentPrint, SessionInv
  <2> QED BY <2>1, <2>2, <2>3, <2>4
<1>9. ASSUME NEW s \in UsbStations, NEW h \in Handlers, AgentAck(s, h) PROVE StructureInv'
  <2>0. agent[s].cur \in Jobs /\ StationOf[agent[s].cur] = s
    BY <1>9 DEF AgentAck, AgentInv
  <2>1. TypeOK'
    <3>1. agent' \in [UsbStations -> Agent]
      BY <1>9, ZenonT(60) DEF AgentAck, TypeOK, Agent
    <3>2. Session("ack", "arrived", s, {agent[s].cur}, "absent", AckStatus(agent[s]), 0) \in Txn
      BY <2>0
         DEF Session, Txn, TypeOK, Agent, AckStatus, Result, PrintJobStatus, Stations
    <3> QED BY <1>9, <3>1, <3>2 DEF AgentAck, TypeOK
  <2>2. \A t \in UsbStations : AgentInv(t)'
    BY <1>9 DEF AgentAck, AgentInv
  <2>3. \A t \in UsbStations : CallInv(t)'
    BY <1>9 DEF AgentAck, CallInv, TypeOK, Session, Free
  <2>4. \A g \in Handlers : SessionInv(g)'
    <3>1. AckStatus(agent[s]) \in Result
      BY DEF TypeOK, Agent, AckStatus
    <3> QED BY <1>9, <3>1 DEF AgentAck, TypeOK, SessionInv, Session, Result
  <2> QED BY <2>1, <2>2, <2>3, <2>4
<1>10. ASSUME NEW h \in Handlers, AckRead(h) PROVE StructureInv'
  <2>1. TypeOK'
    BY <1>10 DEF AckRead, TypeOK, Session, In, Counted, Exists, Txn, Row
  <2>2. \A t \in UsbStations : AgentInv(t)'
    BY <1>10 DEF AckRead, AgentInv
  <2>3. \A t \in UsbStations : CallInv(t)'
    BY <1>10 DEF AckRead, CallInv, TypeOK, Session, In
  <2>4. \A g \in Handlers : SessionInv(g)'
    BY <1>10 DEF AckRead, SessionInv, TypeOK, Session, In
  <2> QED BY <2>1, <2>2, <2>3, <2>4
<1>11. ASSUME NEW h \in Handlers, AckCommit(h) PROVE StructureInv'
  <2>0. /\ txn'[h] = NoTxn
        /\ \A g \in Handlers : g # h => txn'[g] = txn[g]
    BY <1>11, CommitType DEF AckCommit
  <2>1. TypeOK'
    BY <1>11, CommitType
       DEF AckCommit, TypeOK, NoTxn, Session, IdleAgent, Loop, NextJob, In, Caller,
           Stations, Result, PrintJobStatus, Exists, Txn, Row, Agent
  <2>2. \A t \in UsbStations : AgentInv(t)'
    BY <1>11, CommitType
       DEF AckCommit, AgentInv, TypeOK, CallInv, NoTxn, Session, IdleAgent, Loop,
           NextJob, In, Caller
  <2>3. \A t \in UsbStations : CallInv(t)'
    BY <1>11, CommitType
       DEF AckCommit, CallInv, TypeOK, NoTxn, Session, IdleAgent, Loop, NextJob, In,
           Caller
  <2>4. \A g \in Handlers : SessionInv(g)'
    BY <2>0, FreedSession
  <2> QED BY <2>1, <2>2, <2>3, <2>4
<1>12. ASSUME NEW s \in UsbStations, AgentDropsOut(s) PROVE StructureInv'
  <2>1. TypeOK'
    BY <1>12 DEF AgentDropsOut, TypeOK, IdleAgent, Loop
  <2>2. \A t \in UsbStations : AgentInv(t)'
    BY <1>12 DEF AgentDropsOut, AgentInv, TypeOK, CallInv, IdleAgent, Loop
  <2>3. \A t \in UsbStations : CallInv(t)'
    BY <1>12 DEF AgentDropsOut, CallInv, TypeOK, IdleAgent, Loop
  <2>4. \A g \in Handlers : SessionInv(g)'
    BY <1>12 DEF AgentDropsOut, SessionInv
  <2> QED BY <2>1, <2>2, <2>3, <2>4
<1>13. ASSUME NEW h \in Handlers, NEW j \in Jobs, RetryRead(h, j) PROVE StructureInv'
  <2>1. TypeOK'
    BY <1>13
       DEF RetryRead, TypeOK, Session, Free, LanJobs, Counted, Stations, Result,
           PrintJobStatus, Exists, Txn, Row, Agent
  <2>2. \A t \in UsbStations : AgentInv(t)'
    BY <1>13 DEF RetryRead, AgentInv
  <2>3. \A t \in UsbStations : CallInv(t)'
    BY <1>13 DEF RetryRead, CallInv, TypeOK, Session, Free
  <2>4. \A g \in Handlers : SessionInv(g)'
    <3>1. CASE j \in LanJobs
      BY <1>13, <3>1 DEF RetryRead, TypeOK, SessionInv, Session
    <3>2. CASE j \notin LanJobs
      BY <1>13, <3>2 DEF RetryRead, TypeOK, SessionInv, Session
    <3> QED BY <3>1, <3>2
  <2> QED BY <2>1, <2>2, <2>3, <2>4
<1>14. ASSUME NEW h \in Handlers, RetryCommit(h) PROVE StructureInv'
  <2>0. /\ txn'[h] = NoTxn
        /\ \A g \in Handlers : g # h => txn'[g] = txn[g]
    BY <1>14, CommitType DEF RetryCommit
  <2>1. TypeOK'
    BY <1>14, CommitType DEF RetryCommit, TypeOK, NoTxn, Session, In, UsbJobs, Exists
  <2>2. \A t \in UsbStations : AgentInv(t)'
    BY <1>14, CommitType DEF RetryCommit, AgentInv
  <2>3. \A t \in UsbStations : CallInv(t)'
    BY <2>0, <1>14, FreedCall DEF RetryCommit, CallInv, In
  <2>4. \A g \in Handlers : SessionInv(g)'
    BY <2>0, FreedSession
  <2> QED BY <2>1, <2>2, <2>3, <2>4
<1>15. ASSUME NEW h \in Handlers, NEW j \in Jobs, CancelRead(h, j) PROVE StructureInv'
  <2>1. TypeOK'
    BY <1>15
       DEF CancelRead, TypeOK, Session, Free, Stations, Result, PrintJobStatus,
           Exists, Txn, Row, Agent
  <2>2. \A t \in UsbStations : AgentInv(t)'
    BY <1>15 DEF CancelRead, AgentInv
  <2>3. \A t \in UsbStations : CallInv(t)'
    BY <1>15 DEF CancelRead, CallInv, TypeOK, Session, Free
  <2>4. \A g \in Handlers : SessionInv(g)'
    BY <1>15 DEF CancelRead, SessionInv, TypeOK, Session
  <2> QED BY <2>1, <2>2, <2>3, <2>4
<1>16. ASSUME NEW h \in Handlers, CancelCommit(h) PROVE StructureInv'
  <2>0. /\ txn'[h] = NoTxn
        /\ \A g \in Handlers : g # h => txn'[g] = txn[g]
    BY <1>16, CommitType DEF CancelCommit
  <2>1. TypeOK'
    BY <1>16, CommitType DEF CancelCommit, TypeOK, NoTxn, Session, In, Exists
  <2>2. \A t \in UsbStations : AgentInv(t)'
    BY <1>16, CommitType DEF CancelCommit, AgentInv
  <2>3. \A t \in UsbStations : CallInv(t)'
    BY <2>0, <1>16, FreedCall DEF CancelCommit, CallInv, In
  <2>4. \A g \in Handlers : SessionInv(g)'
    BY <2>0, FreedSession
  <2> QED BY <2>1, <2>2, <2>3, <2>4
<1>17. ASSUME NEW s \in Stations, DeleteStation(s) PROVE StructureInv'
  <2>1. TypeOK'
    BY <1>17 DEF DeleteStation, TypeOK, NoRow
  <2>2. \A t \in UsbStations : AgentInv(t)'
    BY <1>17 DEF DeleteStation, AgentInv
  <2>3. \A t \in UsbStations : CallInv(t)'
    BY <1>17 DEF DeleteStation, CallInv
  <2>4. \A g \in Handlers : SessionInv(g)'
    BY <1>17 DEF DeleteStation, SessionInv
  <2> QED BY <2>1, <2>2, <2>3, <2>4
<1>18. ASSUME NEW h \in Handlers, Rollback(h) PROVE StructureInv'
  <2>1. TypeOK'
    BY <1>18 DEF Rollback, TypeOK, NoTxn, Session, IdleAgent, Loop, Caller
  <2>2. \A t \in UsbStations : AgentInv(t)'
    BY <1>18
       DEF Rollback, AgentInv, TypeOK, CallInv, NoTxn, Session, IdleAgent, Loop, Caller
  <2>3. \A t \in UsbStations : CallInv(t)'
    BY <1>18 DEF Rollback, CallInv, TypeOK, NoTxn, Session, IdleAgent, Loop, Caller
  <2>4. \A g \in Handlers : SessionInv(g)'
    BY <1>18 DEF Rollback, SessionInv, TypeOK, NoTxn, Session, IdleAgent, Loop, Caller
  <2> QED BY <2>1, <2>2, <2>3, <2>4
<1> QED
  BY <1>0, <1>1, <1>2, <1>3, <1>4, <1>5, <1>6, <1>7, <1>8, <1>9, <1>10, <1>11, <1>12, <1>13, <1>14, <1>15, <1>16, <1>17, <1>18
     DEF Next, Work, Faults, Enqueue, Read, Serve, Finish, AgentCall, Refuse,
         HandlerFails
-----------------------------------------------------------------------------
(* Every copy that may come out is ordered. *)

\* A session that writes a status other than queued, or had loaded a queued row,
\* cannot put a job on the queue.
LEMMA WrittenQueued ==
  ASSUME NEW r \in Row, NEW t \in Txn, Written(r, t).status = "queued"
  PROVE  r.status = "queued" \/ (t.to = "queued" /\ t.from # "queued")
BY DEF Written, Row, Txn

\* A step of a handler that serves no poll gives no agent a new claim unless it
\* queues the job.
LEMMA ClaimKept ==
  ASSUME StructureInv, NEW h \in Handlers, txn[h].kind # "poll",
         \A g \in Handlers : g # h => txn'[g] = txn[g],
         \A s \in UsbStations : agent'[s] = agent[s] \/ agent'[s].pc # "polling",
         NEW j \in Jobs, row'[j].status = "queued" => row[j].status = "queued",
         Claimable(j)'
  PROVE  Claimable(j)
<1>1. CASE row'[j].status = "queued"
  BY <1>1 DEF Claimable
<1>2. ASSUME NEW s \in UsbStations, agent'[s].pc = "polling",
             agent'[s].via \in Handlers, j \in txn'[agent'[s].via].jobs
      PROVE  Claimable(j)
  <2>1. agent'[s] = agent[s]
    BY <1>2
  <2>2. agent[s].via # h
    BY <1>2, <2>1 DEF StructureInv, CallInv
  <2> QED BY <1>2, <2>1, <2>2 DEF Claimable
<1> QED BY <1>1, <1>2 DEF Claimable

\* With no new paper, order, job in hand or claim the account stays balanced.
LEMMA OrderKept ==
  ASSUME NEW j \in Jobs, OrderInv(j),
         paper'[j] = paper[j], orders'[j] = orders[j],
         InHand(j)' => InHand(j), Claimable(j)' => Claimable(j)
  PROVE  OrderInv(j)'
BY DEF OrderInv

\* The steps that neither queue a USB job nor print it or give it to an agent.
NoNewCopy ==
  \/ \E h \in Handlers, k \in Jobs : EnqueueLan(h, k) \/ RetryRead(h, k) \/ CancelRead(h, k)
  \/ \E h \in Handlers : \/ LanSend(h) \/ EnqueueCommit(h) \/ PollRead(h) \/ AckRead(h)
                        \/ AckCommit(h) \/ CancelCommit(h) \/ Rollback(h)
  \/ \E s \in UsbStations : AgentDropsOut(s) \/ \E h \in Handlers : AgentPoll(s, h) \/ AgentAck(s, h)
  \/ \E s \in Stations : DeleteStation(s)

\* After these nobody can print a job who could not before.
LEMMA NoNewCopyKeeps ==
  ASSUME StructureInv, NEW j \in UsbJobs, NoNewCopy
  PROVE  /\ InHand(j)' => InHand(j)
         /\ Claimable(j)' => Claimable(j)
         /\ paper'[j] = paper[j] /\ orders'[j] = orders[j]
<1> DEFINE Kept == /\ InHand(j)' => InHand(j)
                   /\ Claimable(j)' => Claimable(j)
                   /\ paper'[j] = paper[j] /\ orders'[j] = orders[j]
<1> USE StationAssumption, HandlerAssumption
<1>a. j \in Jobs /\ StationOf[j] \in UsbStations /\ j \notin LanJobs
  BY DEF UsbJobs, LanJobs
<1>b. TypeOK
  BY DEF StructureInv
<1>1. ASSUME NEW h \in Handlers, NEW k \in Jobs, EnqueueLan(h, k) PROVE Kept
  <2>1. Claimable(j)' => Claimable(j)
    BY <1>1, <1>a, <1>b, ClaimKept DEF EnqueueLan, Free, TypeOK
  <2>2. InHand(j)' => InHand(j)
    BY <1>1 DEF EnqueueLan, InHand
  <2> QED BY <1>1, <2>1, <2>2 DEF EnqueueLan
<1>2. ASSUME NEW h \in Handlers, LanSend(h) PROVE Kept
  <2>1. PICK to \in Result, delivered \in {0, 1}, k \in txn[h].jobs :
          /\ txn' = [txn EXCEPT ![h] = [@ EXCEPT !.at = "loaded", !.to = to]]
          /\ orders' = [orders EXCEPT ![k] = @ + 1]
          /\ paper' = [paper EXCEPT ![k] = @ + delivered]
    BY <1>2 DEF LanSend
  <2>2. k # j /\ k \in Jobs /\ txn[h].kind # "poll"
    BY <1>2, <1>a, <1>b DEF LanSend, StructureInv, SessionInv, TypeOK, Txn
  <2>3. paper'[j] = paper[j] /\ orders'[j] = orders[j]
    BY <1>a, <1>b, <2>1, <2>2 DEF TypeOK
  <2>4. Claimable(j)' => Claimable(j)
    BY <1>2, <1>a, <1>b, <2>1, <2>2, ClaimKept DEF LanSend, TypeOK
  <2>5. InHand(j)' => InHand(j)
    BY <1>2 DEF LanSend, InHand
  <2> QED BY <2>3, <2>4, <2>5
<1>3. ASSUME NEW h \in Handlers, EnqueueCommit(h) PROVE Kept
  <2>1. Claimable(j)' => Claimable(j)
    BY <1>3, <1>a, <1>b, ClaimKept
       DEF EnqueueCommit, In, TypeOK, SessionInv, StructureInv
  <2>2. InHand(j)' => InHand(j)
    BY <1>3 DEF EnqueueCommit, InHand
  <2> QED BY <1>3, <2>1, <2>2 DEF EnqueueCommit
<1>4. ASSUME NEW s \in UsbStations, NEW h \in Handlers, AgentPoll(s, h) PROVE Kept
  <2>1. InHand(j)' => InHand(j)
    BY <1>4, <1>b DEF AgentPoll, InHand, TypeOK, Agent, Loop
  <2>2. ASSUME NEW t \in UsbStations, agent'[t].pc = "polling",
               agent'[t].via \in Handlers, j \in txn'[agent'[t].via].jobs
        PROVE  Claimable(j)
    <3>1. t # s
      BY <1>4, <1>b, <2>2 DEF AgentPoll, TypeOK, Agent, Loop, Session
    <3>2. agent'[t] = agent[t]
      BY <1>4, <1>b, <3>1 DEF AgentPoll, TypeOK
    <3>3. agent[t].via # h
      BY <1>4, <2>2, <3>2 DEF AgentPoll, Free, StructureInv, CallInv
    <3> QED BY <1>4, <1>b, <2>2, <3>2, <3>3 DEF AgentPoll, Claimable, TypeOK
  <2>3. Claimable(j)' => Claimable(j)
    BY <1>4, <2>2 DEF AgentPoll, Claimable
  <2> QED BY <1>4, <2>1, <2>3 DEF AgentPoll
<1>5. ASSUME NEW h \in Handlers, PollRead(h) PROVE Kept
  <2>1. InHand(j)' => InHand(j)
    BY <1>5 DEF PollRead, InHand
  <2>2. ASSUME NEW t \in UsbStations, agent[t].pc = "polling",
               agent[t].via \in Handlers, j \in txn'[agent[t].via].jobs
        PROVE  Claimable(j)
    <3>1. CASE agent[t].via = h
      BY <1>5, <1>a, <1>b, <2>2, <3>1 DEF PollRead, Claimable, Pollable, Session, TypeOK
    <3>2. CASE agent[t].via # h
      BY <1>5, <1>b, <2>2, <3>2 DEF PollRead, Claimable, TypeOK
    <3> QED BY <3>1, <3>2
  <2>3. Claimable(j)' => Claimable(j)
    BY <1>5, <2>2 DEF PollRead, Claimable
  <2> QED BY <1>5, <2>1, <2>3 DEF PollRead
<1>6. ASSUME NEW s \in UsbStations, NEW h \in Handlers, AgentAck(s, h) PROVE Kept
  <2>1. InHand(j)' => InHand(j)
    BY <1>6, <1>b DEF AgentAck, InHand, TypeOK, Agent, Loop
  <2>2. ASSUME NEW t \in UsbStations, agent'[t].pc = "polling",
               agent'[t].via \in Handlers, j \in txn'[agent'[t].via].jobs
        PROVE  Claimable(j)
    <3>1. t # s
      BY <1>6, <1>b, <2>2 DEF AgentAck, TypeOK, Agent, Loop, Session
    <3>2. agent'[t] = agent[t]
      BY <1>6, <1>b, <3>1 DEF AgentAck, TypeOK
    <3>3. agent[t].via # h
      BY <1>6, <2>2, <3>2 DEF AgentAck, Free, StructureInv, CallInv
    <3> QED BY <1>6, <1>b, <2>2, <3>2, <3>3 DEF AgentAck, Claimable, TypeOK
  <2>3. Claimable(j)' => Claimable(j)
    BY <1>6, <2>2 DEF AgentAck, Claimable
  <2> QED BY <1>6, <2>1, <2>3 DEF AgentAck
<1>7. ASSUME NEW h \in Handlers, AckRead(h) PROVE Kept
  <2>1. Claimable(j)' => Claimable(j)
    BY <1>7, <1>a, <1>b, ClaimKept DEF AckRead, In, TypeOK
  <2>2. InHand(j)' => InHand(j)
    BY <1>7 DEF AckRead, InHand
  <2> QED BY <1>7, <2>1, <2>2 DEF AckRead
<1>8. ASSUME NEW h \in Handlers, AckCommit(h) PROVE Kept
  <2>1. row'[j].status = "queued" => row[j].status = "queued"
    BY <1>8, <1>a, <1>b, CommitType DEF AckCommit, In, StructureInv, SessionInv
  <2>2. Claimable(j)' => Claimable(j)
    BY <1>8, <1>a, <1>b, <2>1, ClaimKept, CommitType
       DEF AckCommit, In, NextJob, Loop, IdleAgent
  <2>3. InHand(j)' => InHand(j)
    BY <1>8 DEF AckCommit, InHand, NextJob, Loop, IdleAgent
  <2> QED BY <1>8, <2>2, <2>3 DEF AckCommit
<1>9. ASSUME NEW s \in UsbStations, AgentDropsOut(s) PROVE Kept
  <2>1. Claimable(j)' => Claimable(j)
    BY <1>9, <1>b DEF AgentDropsOut, Claimable, TypeOK, IdleAgent, Loop
  <2>2. InHand(j)' => InHand(j)
    BY <1>9, <1>b DEF AgentDropsOut, InHand, TypeOK, IdleAgent, Loop
  <2> QED BY <1>9, <2>1, <2>2 DEF AgentDropsOut
<1>10. ASSUME NEW h \in Handlers, NEW k \in Jobs, RetryRead(h, k) PROVE Kept
  <2>1. Claimable(j)' => Claimable(j)
    BY <1>10, <1>a, <1>b, ClaimKept DEF RetryRead, Free, TypeOK
  <2>2. InHand(j)' => InHand(j)
    BY <1>10 DEF RetryRead, InHand
  <2> QED BY <1>10, <2>1, <2>2 DEF RetryRead
<1>11. ASSUME NEW h \in Handlers, NEW k \in Jobs, CancelRead(h, k) PROVE Kept
  <2>1. Claimable(j)' => Claimable(j)
    BY <1>11, <1>a, <1>b, ClaimKept DEF CancelRead, Free, TypeOK
  <2>2. InHand(j)' => InHand(j)
    BY <1>11 DEF CancelRead, InHand
  <2> QED BY <1>11, <2>1, <2>2 DEF CancelRead
<1>12. ASSUME NEW h \in Handlers, CancelCommit(h) PROVE Kept
  <2>1. row'[j].status = "queued" => row[j].status = "queued"
    BY <1>12, <1>a, <1>b, CommitType DEF CancelCommit, In, StructureInv, SessionInv
  <2>2. Claimable(j)' => Claimable(j)
    BY <1>12, <1>a, <1>b, <2>1, ClaimKept, CommitType
       DEF CancelCommit, In, NextJob, Loop, IdleAgent
  <2>3. InHand(j)' => InHand(j)
    BY <1>12 DEF CancelCommit, InHand, NextJob, Loop, IdleAgent
  <2> QED BY <1>12, <2>2, <2>3 DEF CancelCommit
<1>13. ASSUME NEW s \in Stations, DeleteStation(s) PROVE Kept
  <2>1. Claimable(j)' => Claimable(j)
    BY <1>13, <1>a DEF DeleteStation, Claimable, NoRow
  <2>2. InHand(j)' => InHand(j)
    BY <1>13 DEF DeleteStation, InHand
  <2> QED BY <1>13, <2>1, <2>2 DEF DeleteStation
<1>14. ASSUME NEW h \in Handlers, Rollback(h) PROVE Kept
  <2>1. \A t \in UsbStations :
          \/ agent'[t] = agent[t] /\ agent[t].via # h
          \/ agent'[t].todo = {} /\ agent'[t].pc = "idle"
    BY <1>14 DEF Rollback, Caller, IdleAgent, Loop
  <2>2. Claimable(j)' => Claimable(j)
    BY <1>14, <1>b, <2>1 DEF Rollback, Claimable, TypeOK
  <2>3. InHand(j)' => InHand(j)
    BY <2>1 DEF InHand
  <2> QED BY <1>14, <2>2, <2>3 DEF Rollback
<1> HIDE DEF Kept
<1>15. Kept
  BY <1>1, <1>2, <1>3, <1>4, <1>5, <1>6, <1>7, <1>8, <1>9, <1>10, <1>11, <1>12, <1>13, <1>14 DEF NoNewCopy
<1> QED
  BY <1>15 DEF Kept

\* The answer of a poll turns a claim into a copy in hand, or changes neither.
LEMMA PollHandsOver ==
  ASSUME StructureInv, NEW j \in UsbJobs, NEW h \in Handlers, PollCommit(h)
  PROVE  /\ paper'[j] = paper[j] /\ orders'[j] = orders[j]
         /\ Claimable(j)' => Claimable(j)
         /\ (InHand(j)' => InHand(j)) \/ (Claimable(j) /\ ~Claimable(j)')
<1> USE StationAssumption, HandlerAssumption
<1>a. j \in Jobs /\ StationOf[j] \in UsbStations /\ j \notin LanJobs
  BY DEF UsbJobs, LanJobs
<1>b. TypeOK
  BY DEF StructureInv
<1>1. paper'[j] = paper[j] /\ orders'[j] = orders[j]
  BY DEF PollCommit
<1>2. /\ \A g \in Handlers : g # h => txn'[g] = txn[g]
      /\ txn'[h] = NoTxn
      /\ j \notin txn[h].jobs => row'[j] = row[j]
      /\ row'[j].status \in {row[j].status, txn[h].to}
  BY <1>a, <1>b, CommitType DEF PollCommit
<1>3. \A t \in UsbStations : agent[t].via = h => agent[t].pc = "polling" /\ txn[h].station = t
  BY DEF PollCommit, In, StructureInv, CallInv
<1>4. \A t \in UsbStations : agent[t].via = h =>
        agent'[t].todo = txn[h].jobs /\ agent'[t].pc # "polling"
  BY DEF PollCommit, Caller, NextJob, IdleAgent, Loop
<1>5. \A t \in UsbStations : agent[t].via # h => agent'[t] = agent[t]
  BY DEF PollCommit, Caller
<1>6. row'[j].status = "queued" => row[j].status = "queued" /\ j \notin txn[h].jobs
  <2>1. CASE j \in txn[h].jobs
    <3>1. txn[h].from = "queued" /\ txn[h].to = "sent"
      BY <2>1 DEF PollCommit, In, StructureInv, SessionInv
    <3>2. row'[j].status = "sent"
      BY <1>a, <2>1, <3>1 DEF PollCommit, Commit, Written
    <3> QED BY <3>2
  <2> QED BY <1>2, <2>1
<1>7. ASSUME NEW t \in UsbStations, agent'[t].pc = "polling",
             agent'[t].via \in Handlers, j \in txn'[agent'[t].via].jobs
      PROVE  /\ agent'[t] = agent[t] /\ agent[t].via # h
             /\ txn[agent[t].via].station = StationOf[j]
             /\ j \in txn[agent[t].via].jobs
             /\ txn[agent[t].via].station = t
  <2>1. agent'[t] = agent[t] /\ agent[t].via # h
    BY <1>4, <1>5, <1>7
  <2>2. txn[agent[t].via].kind = "poll" /\ txn[agent[t].via].station = t
    BY <1>7, <2>1 DEF StructureInv, CallInv
  <2> QED BY <1>2, <1>7, <2>1, <2>2 DEF StructureInv, SessionInv
<1>8. Claimable(j)' => Claimable(j)
  BY <1>6, <1>7 DEF Claimable
<1>9. CASE \E s \in UsbStations : agent[s].via = h /\ j \in txn[h].jobs
  <2>1. PICK s \in UsbStations : agent[s].via = h /\ j \in txn[h].jobs
    BY <1>9
  <2>2. Claimable(j)
    BY <1>3, <2>1 DEF Claimable
  <2>3. StationOf[j] = s
    BY <1>3, <2>1 DEF PollCommit, In, StructureInv, SessionInv
  <2>4. ~Claimable(j)'
    BY <1>6, <1>7, <2>1, <2>3 DEF Claimable
  <2> QED BY <1>1, <1>8, <2>2, <2>4
<1>10. CASE ~\E s \in UsbStations : agent[s].via = h /\ j \in txn[h].jobs
  <2>1. InHand(j)' => InHand(j)
    BY <1>4, <1>5, <1>10 DEF InHand
  <2> QED BY <1>1, <1>8, <2>1
<1> QED BY <1>9, <1>10

\* A copy that is printed leaves the agent's hand.
LEMMA PrintTakesFromHand ==
  ASSUME StructureInv, NEW j \in UsbJobs, NEW s \in UsbStations, AgentPrint(s)
  PROVE  /\ orders'[j] = orders[j]
         /\ Claimable(j)' => Claimable(j)
         /\ \/ InHand(j) /\ ~InHand(j)' /\ paper'[j] \in {paper[j], paper[j] + 1}
            \/ (InHand(j)' => InHand(j)) /\ paper'[j] = paper[j] /\ agent'[s].cur # j
<1> USE StationAssumption, HandlerAssumption
<1>a. j \in Jobs /\ StationOf[j] \in UsbStations /\ j \notin LanJobs
  BY DEF UsbJobs, LanJobs
<1>b. TypeOK
  BY DEF StructureInv
<1>c. paper[j] \in Nat /\ orders[j] \in Nat
  BY <1>a, <1>b DEF TypeOK
<1>1. PICK k \in agent[s].todo, result \in Result, delivered \in {0, 1} :
        /\ agent' = [agent EXCEPT ![s] =
                       Loop("printed", @.todo \ {k}, k, result, NoHandler)]
        /\ paper' = [paper EXCEPT ![k] = @ + delivered]
  BY DEF AgentPrint
<1>2. k \in Jobs /\ StationOf[k] = s
  BY <1>b DEF TypeOK, Agent, StructureInv, AgentInv
<1>3. Claimable(j)' => Claimable(j)
  BY <1>b, <1>1 DEF AgentPrint, Claimable, TypeOK, Agent, Loop
<1>4. InHand(j)' => InHand(j)
  BY <1>b, <1>1 DEF InHand, TypeOK, Loop
<1>5. CASE j = k
  <2>1. InHand(j)
    BY <1>5 DEF InHand
  <2>2. ~InHand(j)'
    BY <1>b, <1>1, <1>2, <1>5 DEF InHand, TypeOK, Loop, StructureInv, AgentInv
  <2>3. paper'[j] \in {paper[j], paper[j] + 1} /\ orders'[j] = orders[j]
    BY <1>a, <1>b, <1>c, <1>1, <1>5 DEF AgentPrint, TypeOK
  <2> QED BY <1>3, <2>1, <2>2, <2>3
<1>6. CASE j # k
  <2>1. paper'[j] = paper[j] /\ orders'[j] = orders[j] /\ agent'[s].cur # j
    BY <1>a, <1>b, <1>1, <1>6 DEF AgentPrint, TypeOK, Loop
  <2> QED BY <1>3, <1>4, <2>1
<1> QED BY <1>5, <1>6

LEMMA NextOrders ==
  StructureInv /\ (\A j \in UsbJobs : OrderInv(j)) /\ [Next]_vars
    => (\A j \in UsbJobs : OrderInv(j))'
<1> SUFFICES ASSUME StructureInv, \A k \in UsbJobs : OrderInv(k), [Next]_vars,
                    NEW j \in UsbJobs
             PROVE  OrderInv(j)'
  BY DEF UsbJobs
<1> USE StationAssumption, HandlerAssumption
<1>a. j \in Jobs /\ StationOf[j] \in UsbStations /\ j \notin LanJobs
  BY DEF UsbJobs, LanJobs
<1>b. OrderInv(j) /\ TypeOK
  BY DEF StructureInv
<1>c. paper[j] \in Nat /\ orders[j] \in Nat
  BY <1>a, <1>b DEF TypeOK
<1>0. CASE UNCHANGED vars
  BY <1>0, <1>b DEF vars, OrderInv, InHand, Claimable
<1>1. ASSUME NEW k \in Jobs, EnqueueUsb(k) PROVE OrderInv(j)'
  <2>1. CASE j = k
    <3>1. paper[j] = 0 /\ ~InHand(j)
      BY <1>1, <2>1, <1>b, <1>c DEF EnqueueUsb, OrderInv
    <3>2. orders'[j] = 1 /\ paper'[j] = 0 /\ ~InHand(j)'
      BY <1>1, <2>1, <3>1, <1>a, <1>b DEF EnqueueUsb, InHand, TypeOK
    <3> QED BY <3>2 DEF OrderInv
  <2>2. CASE j # k
    <3>1. InHand(j)' => InHand(j)
      BY <1>1 DEF EnqueueUsb, InHand
    <3>2. Claimable(j)' => Claimable(j)
      BY <1>1, <2>2, <1>a, <1>b DEF EnqueueUsb, Claimable, TypeOK
    <3> QED BY <1>1, <2>2, <1>a, <1>b, <3>1, <3>2, OrderKept DEF EnqueueUsb, TypeOK
  <2> QED BY <2>1, <2>2
<1>2. ASSUME NEW h \in Handlers, PollCommit(h) PROVE OrderInv(j)'
  BY <1>2, <1>b, <1>c, PollHandsOver DEF OrderInv
<1>3. ASSUME NEW s \in UsbStations, AgentPrint(s) PROVE OrderInv(j)'
  BY <1>3, <1>b, <1>c, PrintTakesFromHand DEF OrderInv
<1>4. ASSUME NEW h \in Handlers, RetryCommit(h) PROVE OrderInv(j)'
  <2>1. InHand(j)' <=> InHand(j)
    BY <1>4 DEF RetryCommit, InHand
  <2>2. CASE j \in txn[h].jobs /\ txn[h].from # "queued"
    <3>1. orders'[j] = orders[j] + 1 /\ paper'[j] = paper[j]
      BY <1>4, <1>a, <2>2 DEF RetryCommit
    <3> QED BY <1>b, <1>c, <2>1, <3>1 DEF OrderInv
  <2>3. CASE ~(j \in txn[h].jobs /\ txn[h].from # "queued")
    <3>1. orders'[j] = orders[j] /\ paper'[j] = paper[j]
      BY <1>4, <1>a, <2>3 DEF RetryCommit
    <3>2. row'[j].status = "queued" => row[j].status = "queued"
      BY <1>4, <1>a, <1>b, <2>3, WrittenQueued DEF RetryCommit, Commit, TypeOK
    <3>3. Claimable(j)' => Claimable(j)
      BY <1>4, <1>a, <1>b, <3>2, ClaimKept, CommitType DEF RetryCommit, In
    <3> QED BY <1>a, <1>b, <2>1, <3>1, <3>3, OrderKept
  <2> QED BY <2>2, <2>3
<1>5. CASE NoNewCopy
  BY <1>5, <1>a, <1>b, NoNewCopyKeeps, OrderKept, SMTT(40)
<1> QED
  BY <1>0, <1>1, <1>2, <1>3, <1>4, <1>5
     DEF Next, Work, Faults, Enqueue, Read, Serve, Finish, AgentCall, Refuse,
         HandlerFails, NoNewCopy
-----------------------------------------------------------------------------
(* Whoever says printed has paper to show. *)

\* Paper does not go back into a printer.
LEMMA PaperGrows ==
  StructureInv /\ [Next]_vars => \A j \in Jobs : paper'[j] >= paper[j]
<1> SUFFICES ASSUME StructureInv, [Next]_vars, NEW j \in Jobs
             PROVE  paper'[j] >= paper[j]
  OBVIOUS
<1>a. paper \in [Jobs -> Nat]
  BY DEF StructureInv, TypeOK
<1>1. ASSUME NEW h \in Handlers, LanSend(h) PROVE paper'[j] >= paper[j]
  BY <1>a, <1>1 DEF LanSend
<1>2. ASSUME NEW s \in UsbStations, AgentPrint(s) PROVE paper'[j] >= paper[j]
  BY <1>a, <1>2 DEF AgentPrint
<1>3. CASE UNCHANGED paper
  BY <1>a, <1>3
<1> QED
  BY <1>1, <1>2, <1>3
     DEF Next, vars, Work, Faults, Enqueue, Read, Serve, Finish, AgentCall,
     Refuse, HandlerFails, EnqueueUsb, EnqueueLan, EnqueueCommit, AgentPoll, PollRead,
     PollCommit, AgentAck, AckRead, AckCommit, AgentDropsOut, RetryRead, RetryCommit,
     CancelRead, CancelCommit, DeleteStation, Rollback

LEMMA NextReports ==
  StructureInv /\ ReportInv /\ [Next]_vars => ReportInv'
<1> SUFFICES ASSUME StructureInv, ReportInv, [Next]_vars PROVE ReportInv'
  OBVIOUS
<1> DEFINE Shows(j) == paper'[j] > 0
<1> USE StationAssumption, HandlerAssumption
<1>a. TypeOK
  BY DEF StructureInv
<1>b. \A j \in Jobs : paper[j] > 0 => Shows(j)
  BY <1>a, PaperGrows, NextStructure DEF TypeOK, StructureInv
<1>c. ASSUME \A g \in Handlers : txn'[g].to = "printed" => \A j \in txn'[g].jobs : Shows(j),
             \A t \in UsbStations : agent'[t].result = "printed" /\ agent'[t].cur \in Jobs
                => Shows(agent'[t].cur),
             \A j \in Jobs : row'[j].status = "printed" => Shows(j)
      PROVE  ReportInv'
  BY <1>c DEF ReportInv, PrintedMeansPaper
<1>d. /\ \A g \in Handlers : txn[g].to = "printed" => \A j \in txn[g].jobs : Shows(j)
      /\ \A t \in UsbStations : agent[t].result = "printed" /\ agent[t].cur \in Jobs
            => Shows(agent[t].cur)
      /\ \A j \in Jobs : row[j].status = "printed" => Shows(j)
  BY <1>a, <1>b DEF ReportInv, PrintedMeansPaper, TypeOK, Txn
<1> HIDE DEF Shows
<1>0. CASE UNCHANGED vars
  BY <1>0, <1>c, <1>d DEF vars
<1>1. ASSUME NEW j \in Jobs, EnqueueUsb(j) PROVE ReportInv'
  <2>1. \A g \in Handlers : txn'[g].to = "printed" => \A i \in txn'[g].jobs : Shows(i)
    BY <1>1, <1>a, <1>d DEF EnqueueUsb, TypeOK
  <2>2. \A t \in UsbStations : agent'[t].result = "printed" /\ agent'[t].cur \in Jobs
           => Shows(agent'[t].cur)
    BY <1>1, <1>a, <1>d DEF EnqueueUsb, TypeOK
  <2>3. \A i \in Jobs : row'[i].status = "printed" => Shows(i)
    BY <1>1, <1>a, <1>d DEF EnqueueUsb, TypeOK
  <2> QED BY <1>c, <2>1, <2>2, <2>3
<1>2. ASSUME NEW h \in Handlers, NEW j \in Jobs, EnqueueLan(h, j) PROVE ReportInv'
  <2>1. \A g \in Handlers : txn'[g].to = "printed" => \A i \in txn'[g].jobs : Shows(i)
    BY <1>2, <1>a, <1>d DEF EnqueueLan, TypeOK, Session
  <2>2. \A t \in UsbStations : agent'[t].result = "printed" /\ agent'[t].cur \in Jobs
           => Shows(agent'[t].cur)
    BY <1>2, <1>a, <1>d DEF EnqueueLan, TypeOK, Session
  <2>3. \A i \in Jobs : row'[i].status = "printed" => Shows(i)
    BY <1>2, <1>a, <1>d DEF EnqueueLan, TypeOK, Session
  <2> QED BY <1>c, <2>1, <2>2, <2>3
<1>3. ASSUME NEW h \in Handlers, LanSend(h) PROVE ReportInv'
  <2>1. PICK to \in Result, delivered \in {0, 1}, j \in txn[h].jobs :
          /\ to = "printed" => delivered = 1
          /\ txn' = [txn EXCEPT ![h] = [@ EXCEPT !.at = "loaded", !.to = to]]
          /\ paper' = [paper EXCEPT ![j] = @ + delivered]
    BY <1>3 DEF LanSend
  <2>2. txn[h].jobs = {j} /\ j \in Jobs
    BY <1>3 DEF LanSend, StructureInv, SessionInv, LanJobs
  <2>3. to = "printed" => Shows(j)
    BY <1>a, <2>1, <2>2 DEF Shows, TypeOK
  <2>4. \A g \in Handlers : txn'[g].to = "printed" => \A i \in txn'[g].jobs : Shows(i)
    BY <1>a, <1>d, <2>1, <2>2, <2>3 DEF TypeOK, Txn
  <2> QED BY <1>3, <1>c, <1>d, <2>4 DEF LanSend
<1>4. ASSUME NEW h \in Handlers, EnqueueCommit(h) PROVE ReportInv'
  <2>1. PICK j \in txn[h].jobs : row' = [row EXCEPT ![j] = Written(NoRow, txn[h])]
    BY <1>4 DEF EnqueueCommit
  <2>2. Written(NoRow, txn[h]).status \in {"absent", txn[h].to}
    BY <1>a, WrittenType, IdleTypes DEF TypeOK, NoRow
  <2>3. \A i \in Jobs : row'[i].status = "printed" => Shows(i)
    BY <1>a, <1>d, <2>1, <2>2 DEF TypeOK
  <2>4. \A g \in Handlers : txn'[g].to = "printed" => \A i \in txn'[g].jobs : Shows(i)
    BY <1>4, <1>a, <1>d DEF EnqueueCommit, NoTxn, Session, TypeOK
  <2> QED BY <1>4, <1>c, <1>d, <2>3, <2>4 DEF EnqueueCommit
<1>5. ASSUME NEW s \in UsbStations, NEW h \in Handlers, AgentPoll(s, h) PROVE ReportInv'
  <2>1. \A g \in Handlers : txn'[g].to = "printed" => \A i \in txn'[g].jobs : Shows(i)
    BY <1>5, <1>a, <1>d DEF AgentPoll, TypeOK, Session, Loop
  <2>2. \A t \in UsbStations : agent'[t].result = "printed" /\ agent'[t].cur \in Jobs
           => Shows(agent'[t].cur)
    BY <1>5, <1>a, <1>d DEF AgentPoll, TypeOK, Session, Loop
  <2>3. \A i \in Jobs : row'[i].status = "printed" => Shows(i)
    BY <1>5, <1>a, <1>d DEF AgentPoll, TypeOK, Session, Loop
  <2> QED BY <1>c, <2>1, <2>2, <2>3
<1>6. ASSUME NEW h \in Handlers, PollRead(h) PROVE ReportInv'
  <2>1. \A g \in Handlers : txn'[g].to = "printed" => \A i \in txn'[g].jobs : Shows(i)
    BY <1>6, <1>a, <1>d DEF PollRead, TypeOK, Session
  <2>2. \A t \in UsbStations : agent'[t].result = "printed" /\ agent'[t].cur \in Jobs
           => Shows(agent'[t].cur)
    BY <1>6, <1>a, <1>d DEF PollRead, TypeOK, Session
  <2>3. \A i \in Jobs : row'[i].status = "printed" => Shows(i)
    BY <1>6, <1>a, <1>d DEF PollRead, TypeOK, Session
  <2> QED BY <1>c, <2>1, <2>2, <2>3
<1>7. ASSUME NEW h \in Handlers, PollCommit(h) PROVE ReportInv'
  <2>1. /\ txn'[h] = NoTxn
        /\ \A g \in Handlers : g # h => txn'[g] = txn[g]
        /\ \A j \in Jobs : row'[j].status \in {row[j].status, txn[h].to}
        /\ \A j \in Jobs \ txn[h].jobs : row'[j] = row[j]
    BY <1>7, <1>a, CommitType DEF PollCommit
  <2>2. \A t \in UsbStations : agent'[t] = agent[t] \/ agent'[t].result = "failed"
    BY <1>7 DEF PollCommit, NextJob, IdleAgent, Loop
  <2>3. \A j \in Jobs : row'[j].status = "printed" => Shows(j)
    BY <1>d, <2>1
  <2>4. \A g \in Handlers : txn'[g].to = "printed" => \A j \in txn'[g].jobs : Shows(j)
    BY <1>d, <2>1 DEF NoTxn, Session
  <2> QED BY <1>c, <1>d, <2>2, <2>3, <2>4
<1>8. ASSUME NEW s \in UsbStations, AgentPrint(s) PROVE ReportInv'
  <2>1. PICK j \in agent[s].todo, result \in Result, delivered \in {0, 1} :
          /\ result = "printed" => delivered = 1
          /\ agent' = [agent EXCEPT ![s] =
                         Loop("printed", @.todo \ {j}, j, result, NoHandler)]
          /\ paper' = [paper EXCEPT ![j] = @ + delivered]
    BY <1>8 DEF AgentPrint
  <2>2. j \in Jobs
    BY <1>a DEF TypeOK, Agent
  <2>3. result = "printed" => Shows(j)
    BY <1>a, <2>1, <2>2 DEF Shows, TypeOK
  <2>4. \A t \in UsbStations : agent'[t].result = "printed" /\ agent'[t].cur \in Jobs
           => Shows(agent'[t].cur)
    BY <1>a, <1>d, <2>1, <2>3 DEF TypeOK, Loop
  <2> QED BY <1>8, <1>c, <1>d, <2>4 DEF AgentPrint
<1>9. ASSUME NEW s \in UsbStations, NEW h \in Handlers, AgentAck(s, h) PROVE ReportInv'
  <2>1. agent[s].cur \in Jobs
    BY <1>9 DEF AgentAck, StructureInv, AgentInv
  <2>2. \A g \in Handlers : txn'[g].to = "printed" => \A j \in txn'[g].jobs : Shows(j)
    BY <1>9, <1>a, <1>d, <2>1 DEF AgentAck, AckStatus, Session, TypeOK
  <2>3. \A t \in UsbStations : agent'[t].result = agent[t].result /\ agent'[t].cur = agent[t].cur
    BY <1>9, <1>a DEF AgentAck, TypeOK, Agent
  <2> QED BY <1>9, <1>c, <1>d, <2>2, <2>3 DEF AgentAck
<1>10. ASSUME NEW h \in Handlers, AckRead(h) PROVE ReportInv'
  <2>1. \A g \in Handlers : txn'[g].to = "printed" => \A i \in txn'[g].jobs : Shows(i)
    BY <1>10, <1>a, <1>d DEF AckRead, TypeOK, Session, SessionInv, StructureInv, In, Txn
  <2>2. \A t \in UsbStations : agent'[t].result = "printed" /\ agent'[t].cur \in Jobs
           => Shows(agent'[t].cur)
    BY <1>10, <1>a, <1>d DEF AckRead, TypeOK, Session
  <2>3. \A i \in Jobs : row'[i].status = "printed" => Shows(i)
    BY <1>10, <1>a, <1>d DEF AckRead, TypeOK, Session
  <2> QED BY <1>c, <2>1, <2>2, <2>3
<1>11. ASSUME NEW h \in Handlers, AckCommit(h) PROVE ReportInv'
  <2>1. /\ txn'[h] = NoTxn
        /\ \A g \in Handlers : g # h => txn'[g] = txn[g]
        /\ \A j \in Jobs : row'[j].status \in {row[j].status, txn[h].to}
        /\ \A j \in Jobs \ txn[h].jobs : row'[j] = row[j]
    BY <1>11, <1>a, CommitType DEF AckCommit
  <2>2. \A t \in UsbStations : agent'[t] = agent[t] \/ agent'[t].result = "failed"
    BY <1>11 DEF AckCommit, NextJob, IdleAgent, Loop
  <2>3. \A j \in Jobs : row'[j].status = "printed" => Shows(j)
    BY <1>d, <2>1
  <2>4. \A g \in Handlers : txn'[g].to = "printed" => \A j \in txn'[g].jobs : Shows(j)
    BY <1>d, <2>1 DEF NoTxn, Session
  <2> QED BY <1>c, <1>d, <2>2, <2>3, <2>4
<1>12. ASSUME NEW s \in UsbStations, AgentDropsOut(s) PROVE ReportInv'
  <2>1. \A g \in Handlers : txn'[g].to = "printed" => \A i \in txn'[g].jobs : Shows(i)
    BY <1>12, <1>a, <1>d DEF AgentDropsOut, TypeOK, IdleAgent, Loop
  <2>2. \A t \in UsbStations : agent'[t].result = "printed" /\ agent'[t].cur \in Jobs
           => Shows(agent'[t].cur)
    BY <1>12, <1>a, <1>d DEF AgentDropsOut, TypeOK, IdleAgent, Loop
  <2>3. \A i \in Jobs : row'[i].status = "printed" => Shows(i)
    BY <1>12, <1>a, <1>d DEF AgentDropsOut, TypeOK, IdleAgent, Loop
  <2> QED BY <1>c, <2>1, <2>2, <2>3
<1>13. ASSUME NEW h \in Handlers, NEW j \in Jobs, RetryRead(h, j) PROVE ReportInv'
  <2>1. \A g \in Handlers : txn'[g].to = "printed" => \A i \in txn'[g].jobs : Shows(i)
    BY <1>13, <1>a, <1>d DEF RetryRead, TypeOK, Session
  <2>2. \A t \in UsbStations : agent'[t].result = "printed" /\ agent'[t].cur \in Jobs
           => Shows(agent'[t].cur)
    BY <1>13, <1>a, <1>d DEF RetryRead, TypeOK, Session
  <2>3. \A i \in Jobs : row'[i].status = "printed" => Shows(i)
    BY <1>13, <1>a, <1>d DEF RetryRead, TypeOK, Session
  <2> QED BY <1>c, <2>1, <2>2, <2>3
<1>14. ASSUME NEW h \in Handlers, RetryCommit(h) PROVE ReportInv'
  <2>1. /\ txn'[h] = NoTxn
        /\ \A g \in Handlers : g # h => txn'[g] = txn[g]
        /\ \A j \in Jobs : row'[j].status \in {row[j].status, txn[h].to}
        /\ \A j \in Jobs \ txn[h].jobs : row'[j] = row[j]
    BY <1>14, <1>a, CommitType DEF RetryCommit
  <2>2. \A t \in UsbStations : agent'[t] = agent[t] \/ agent'[t].result = "failed"
    BY <1>14 DEF RetryCommit, NextJob, IdleAgent, Loop
  <2>3. \A j \in Jobs : row'[j].status = "printed" => Shows(j)
    BY <1>d, <2>1
  <2>4. \A g \in Handlers : txn'[g].to = "printed" => \A j \in txn'[g].jobs : Shows(j)
    BY <1>d, <2>1 DEF NoTxn, Session
  <2> QED BY <1>c, <1>d, <2>2, <2>3, <2>4
<1>15. ASSUME NEW h \in Handlers, NEW j \in Jobs, CancelRead(h, j) PROVE ReportInv'
  <2>1. \A g \in Handlers : txn'[g].to = "printed" => \A i \in txn'[g].jobs : Shows(i)
    BY <1>15, <1>a, <1>d DEF CancelRead, TypeOK, Session
  <2>2. \A t \in UsbStations : agent'[t].result = "printed" /\ agent'[t].cur \in Jobs
           => Shows(agent'[t].cur)
    BY <1>15, <1>a, <1>d DEF CancelRead, TypeOK, Session
  <2>3. \A i \in Jobs : row'[i].status = "printed" => Shows(i)
    BY <1>15, <1>a, <1>d DEF CancelRead, TypeOK, Session
  <2> QED BY <1>c, <2>1, <2>2, <2>3
<1>16. ASSUME NEW h \in Handlers, CancelCommit(h) PROVE ReportInv'
  <2>1. /\ txn'[h] = NoTxn
        /\ \A g \in Handlers : g # h => txn'[g] = txn[g]
        /\ \A j \in Jobs : row'[j].status \in {row[j].status, txn[h].to}
        /\ \A j \in Jobs \ txn[h].jobs : row'[j] = row[j]
    BY <1>16, <1>a, CommitType DEF CancelCommit
  <2>2. \A t \in UsbStations : agent'[t] = agent[t] \/ agent'[t].result = "failed"
    BY <1>16 DEF CancelCommit, NextJob, IdleAgent, Loop
  <2>3. \A j \in Jobs : row'[j].status = "printed" => Shows(j)
    BY <1>d, <2>1
  <2>4. \A g \in Handlers : txn'[g].to = "printed" => \A j \in txn'[g].jobs : Shows(j)
    BY <1>d, <2>1 DEF NoTxn, Session
  <2> QED BY <1>c, <1>d, <2>2, <2>3, <2>4
<1>17. ASSUME NEW s \in Stations, DeleteStation(s) PROVE ReportInv'
  <2>1. \A g \in Handlers : txn'[g].to = "printed" => \A i \in txn'[g].jobs : Shows(i)
    BY <1>17, <1>a, <1>d DEF DeleteStation, TypeOK, NoRow
  <2>2. \A t \in UsbStations : agent'[t].result = "printed" /\ agent'[t].cur \in Jobs
           => Shows(agent'[t].cur)
    BY <1>17, <1>a, <1>d DEF DeleteStation, TypeOK, NoRow
  <2>3. \A i \in Jobs : row'[i].status = "printed" => Shows(i)
    BY <1>17, <1>a, <1>d DEF DeleteStation, TypeOK, NoRow
  <2> QED BY <1>c, <2>1, <2>2, <2>3
<1>18. ASSUME NEW h \in Handlers, Rollback(h) PROVE ReportInv'
  <2>1. \A g \in Handlers : txn'[g].to = "printed" => \A i \in txn'[g].jobs : Shows(i)
    BY <1>18, <1>a, <1>d DEF Rollback, TypeOK, NoTxn, Session, IdleAgent, Loop
  <2>2. \A t \in UsbStations : agent'[t].result = "printed" /\ agent'[t].cur \in Jobs
           => Shows(agent'[t].cur)
    BY <1>18, <1>a, <1>d DEF Rollback, TypeOK, NoTxn, Session, IdleAgent, Loop
  <2>3. \A i \in Jobs : row'[i].status = "printed" => Shows(i)
    BY <1>18, <1>a, <1>d DEF Rollback, TypeOK, NoTxn, Session, IdleAgent, Loop
  <2> QED BY <1>c, <2>1, <2>2, <2>3
<1> QED
  BY <1>0, <1>1, <1>2, <1>3, <1>4, <1>5, <1>6, <1>7, <1>8, <1>9, <1>10, <1>11, <1>12, <1>13, <1>14, <1>15, <1>16, <1>17, <1>18
     DEF Next, Work, Faults, Enqueue, Read, Serve, Finish, AgentCall, Refuse,
         HandlerFails

-----------------------------------------------------------------------------
(* The theorems. *)

LEMMA InitPaper == Init => PaperInv
<1> SUFFICES ASSUME Init PROVE PaperInv
  OBVIOUS
<1>1. StructureInv
  BY InitStructure
<1>2. \A j \in UsbJobs : OrderInv(j)
  BY HandlerAssumption
     DEF Init, OrderInv, InHand, Claimable, IdleAgent, Loop, NoRow, UsbJobs
<1>3. ReportInv
  BY HandlerAssumption
     DEF Init, ReportInv, PrintedMeansPaper, NoTxn, Session, IdleAgent, Loop, NoRow
<1> QED
  BY <1>1, <1>2, <1>3 DEF PaperInv

\* The invariant is inductive: it holds in every state the queue can reach.
THEOREM PaperInvariant == Spec => []PaperInv
<1>1. Init => PaperInv
  BY InitPaper
<1>2. PaperInv /\ [Next]_vars => PaperInv'
  BY NextStructure, NextOrders, NextReports DEF PaperInv
<1> QED
  BY <1>1, <1>2, PTL DEF Spec

\* The table, sessions and agents are well-formed in every reachable state.
THEOREM TypeCorrect == Spec => []TypeOK
<1>1. PaperInv => TypeOK
  BY DEF PaperInv, StructureInv
<1> QED
  BY <1>1, PaperInvariant, PTL

\* However polls, acks, retries, cancels, deletions, restarts and failures
\* interleave, a USB job is printed at most once per time it was queued.
THEOREM NoUnorderedPaperHolds == Spec => []NoUnorderedPaper
<1>1. PaperInv => NoUnorderedPaper
  BY DEF PaperInv, OrderInv, NoUnorderedPaper
<1> QED
  BY <1>1, PaperInvariant, PTL

\* A job shown as printed has reached its printer.
THEOREM PrintedMeansPaperHolds == Spec => []PrintedMeansPaper
<1>1. PaperInv => PrintedMeansPaper
  BY DEF PaperInv, ReportInv
<1> QED
  BY <1>1, PaperInvariant, PTL

\* No agent gets hold of another station's job.
THEOREM OwnStationOnlyHolds == Spec => []OwnStationOnly
<1>1. PaperInv => OwnStationOnly
  BY SMTT(40) DEF PaperInv, StructureInv, AgentInv, OwnStationOnly
<1> QED
  BY <1>1, PaperInvariant, PTL
-----------------------------------------------------------------------------
(* The queue implements PrintOrders. *)

LEMMA StepKeepsPromise ==
  PaperInv /\ [Next]_vars => [Promise!Next]_<<orders, paper, Shown>>
<1> SUFFICES ASSUME PaperInv, [Next]_vars
             PROVE  [Promise!Next]_<<orders, paper, Shown>>
  OBVIOUS
<1> DEFINE Abs == Promise!Next \/ UNCHANGED <<orders, paper, Shown>>
<1>a. TypeOK /\ ReportInv /\ (\A g \in Handlers : SessionInv(g))
  BY DEF PaperInv, StructureInv
\* A flush shows as printed only what has been printed.
<1>b. ASSUME NEW h \in Handlers, Commit(h) PROVE Promise!Honest
  BY <1>a, <1>b, CommitType DEF Promise!Honest, Shown, ReportInv
<1>0. CASE UNCHANGED vars
  BY <1>0 DEF vars, Shown
<1>1. ASSUME NEW j \in Jobs, EnqueueUsb(j) PROVE Promise!Order(j)
  BY <1>a, <1>1 DEF EnqueueUsb, Promise!Order, Promise!Honest, Shown, TypeOK, OrderInv
<1>2. ASSUME NEW h \in Handlers, LanSend(h) PROVE Promise!Next
  BY <1>a, <1>2 DEF LanSend, Promise!Next, Promise!Dispatch, Shown, TypeOK, Txn
<1>3. ASSUME NEW h \in Handlers, EnqueueCommit(h) PROVE Promise!Report
  <2>1. Written(NoRow, txn[h]).status \in {"absent", txn[h].to}
    BY <1>a, WrittenType, IdleTypes DEF TypeOK, NoRow
  <2> QED BY <1>a, <1>3, <2>1
       DEF EnqueueCommit, Promise!Report, Promise!Honest, Shown, TypeOK, ReportInv
<1>4. ASSUME NEW s \in UsbStations, AgentPrint(s) PROVE Abs
  <2>1. PICK j \in agent[s].todo, delivered \in {0, 1} :
          paper' = [paper EXCEPT ![j] = @ + delivered]
    BY <1>4 DEF AgentPrint
  <2>2. j \in Jobs /\ j \in UsbJobs /\ paper[j] < orders[j]
    <3>1. j \in Jobs /\ j \in UsbJobs
      BY <1>a DEF TypeOK, Agent, UsbJobs, PaperInv, StructureInv, AgentInv
    <3>2. InHand(j)
      BY DEF InHand
    <3> QED BY <1>a, <3>1, <3>2 DEF PaperInv, OrderInv, TypeOK
  <2>3. CASE delivered = 1
    BY <1>4, <2>1, <2>2, <2>3 DEF AgentPrint, Promise!Next, Promise!Deliver, Shown
  <2>4. CASE delivered = 0
    <3>1. paper' = paper
      BY <1>a, <2>1, <2>2, <2>4 DEF TypeOK
    <3> QED BY <1>4, <3>1 DEF AgentPrint, Shown
  <2> QED BY <2>3, <2>4
<1>5. ASSUME NEW h \in Handlers, RetryCommit(h) PROVE Abs
  <2>1. PICK j \in Jobs : txn[h].jobs = {j}
    BY <1>5, <1>a DEF RetryCommit, In, SessionInv
  <2>2. Promise!Honest
    BY <1>5, <1>b DEF RetryCommit
  <2>3. CASE j \in UsbJobs /\ txn[h].from # "queued"
    <3>1. orders' = [orders EXCEPT ![j] = @ + 1]
      BY <1>5, <1>a, <2>1, <2>3 DEF RetryCommit, TypeOK
    <3> QED BY <1>5, <2>2, <3>1 DEF RetryCommit, Promise!Next, Promise!Order
  <2>4. CASE ~(j \in UsbJobs /\ txn[h].from # "queued")
    <3>1. orders' = orders
      BY <1>5, <1>a, <2>1, <2>4 DEF RetryCommit, TypeOK
    <3> QED BY <1>5, <2>2, <3>1 DEF RetryCommit, Promise!Next, Promise!Report
  <2> QED BY <2>3, <2>4
<1>6. ASSUME NEW h \in Handlers, PollCommit(h) \/ AckCommit(h) \/ CancelCommit(h)
      PROVE  Promise!Report
  BY <1>6, <1>b DEF PollCommit, AckCommit, CancelCommit, Promise!Report
<1>7. ASSUME NEW s \in Stations, DeleteStation(s) PROVE Promise!Report
  BY <1>7 DEF DeleteStation, Promise!Report, Promise!Honest, Shown, NoRow
<1>8. CASE UNCHANGED <<row, orders, paper>>
  BY <1>8 DEF Shown
<1> QED
  BY <1>0, <1>1, <1>2, <1>3, <1>4, <1>5, <1>6, <1>7, <1>8
     DEF Next, Work, Faults, Enqueue, Read, Serve, Finish, AgentCall, Refuse,
         HandlerFails,
     EnqueueLan, AgentPoll, PollRead, AgentAck, AckRead, AgentDropsOut, RetryRead,
     CancelRead, Rollback, Promise!Next

\* Every behaviour of the queue is one PrintOrders allows.
THEOREM KeepsPromiseHolds == Spec => KeepsPromise
<1>1. Init => Promise!Init
  BY DEF Init, Promise!Init, Shown, NoRow
<1>2. PaperInv /\ [Next]_vars => [Promise!Next]_(Promise!vars)
  BY StepKeepsPromise DEF Promise!vars
<1> QED
  BY <1>1, <1>2, PaperInvariant, PTL DEF Spec, KeepsPromise, Promise!Spec
=============================================================================
