----------------------- MODULE PrintHistory_proofs -----------------------
(* Proofs about what is in flight in the print queue: attempts that acks  *)
(* will count, requests that could reopen a settled job, and those that   *)
(* still report on a sent one.                                            *)
EXTENDS PrintJobs_proofs, FiniteSetTheorems

-----------------------------------------------------------------------------
(* The inductive invariant behind AttemptsWithinOrders. *)

\* What a session will write to a job's columns.
WritesInv(h) ==
  /\ txn[h].kind = "ack" => txn[h].jobs \subseteq UsbJobs /\ txn[h].to \in Result
  /\ txn[h].kind = "cancel" => txn[h].to = "cancelled"
  /\ txn[h].kind \in {"enqueue", "retry"} /\ txn[h].at = "loaded" =>
       \/ txn[h].jobs \subseteq LanJobs /\ txn[h].to \in Result
       \/ txn[h].jobs \subseteq UsbJobs /\ txn[h].to = "queued" /\ txn[h].kind = "retry"
  /\ txn[h].kind \notin {"ack", "enqueue", "retry"} => txn[h].att = 0
  /\ txn[h].att # 0 => In(h, "ack", "loaded") \/ txn[h].jobs \subseteq LanJobs

\* The acks of the job that have not counted their attempt yet, and the copies whose
\* ack is still to come.
ArrivedAcks(j) == {h \in Handlers : In(h, "ack", "arrived") /\ j \in txn[h].jobs}
PrintedBy(j) == \E s \in UsbStations : agent[s].pc = "printed" /\ agent[s].cur = j
One(b) == IF b THEN 1 ELSE 0
Pending(j) ==
  Cardinality(ArrivedAcks(j)) + One(PrintedBy(j)) + One(InHand(j)) + One(Claimable(j))

\* Each of them has an order of its own, beside those behind the value in the row or
\* behind one that an ack has computed and may yet write.
UsbAttempts(j) ==
  /\ row[j].attempts + Pending(j) <= orders[j]
  /\ \A h \in Handlers : In(h, "ack", "loaded") /\ j \in txn[h].jobs =>
       txn[h].att + Pending(j) <= orders[j]
\* A dispatch is ordered when it is sent.
LanAttempts(j) ==
  /\ row[j].attempts <= orders[j]
  /\ \A h \in Handlers : j \in txn[h].jobs =>
       txn[h].att <= orders[j] + One(txn[h].at = "dispatching")

AttemptsInv ==
  /\ \A h \in Handlers : WritesInv(h)
  /\ \A j \in UsbJobs : UsbAttempts(j)
  /\ \A j \in LanJobs : LanAttempts(j)

-----------------------------------------------------------------------------
(* What the sessions write. *)

\* A session that is done writes nothing.
LEMMA IdleWrites == ASSUME NEW h \in Handlers, txn'[h] = NoTxn PROVE WritesInv(h)'
BY DEF WritesInv, NoTxn, Session, In

LEMMA OneSession ==
  ASSUME \A g \in Handlers : WritesInv(g), NEW h \in Handlers, WritesInv(h)',
         \A g \in Handlers : g # h => txn'[g] = txn[g]
  PROVE  \A g \in Handlers : WritesInv(g)'
BY DEF WritesInv, In

LEMMA NextWrites ==
  StructureInv /\ (\A h \in Handlers : WritesInv(h)) /\ [Next]_vars
    => (\A h \in Handlers : WritesInv(h))'
<1> SUFFICES ASSUME StructureInv, \A h \in Handlers : WritesInv(h), [Next]_vars
             PROVE  \A h \in Handlers : WritesInv(h)'
  OBVIOUS
<1> USE StationAssumption, HandlerAssumption
<1> DEFINE Kept == \A g \in Handlers : WritesInv(g)'
<1>a. TypeOK
  BY DEF StructureInv
<1>b. \A j \in Jobs : j \in UsbJobs <=> j \notin LanJobs
  BY DEF UsbJobs, LanJobs, Stations
<1>1. ASSUME UNCHANGED txn PROVE Kept
  BY <1>1 DEF WritesInv, In
<1>2. ASSUME NEW h \in Handlers, txn' = [txn EXCEPT ![h] = NoTxn] PROVE Kept
  BY <1>2, <1>a, IdleWrites, OneSession DEF TypeOK
<1>3. ASSUME NEW h \in Handlers, Commit(h) PROVE Kept
  BY <1>2, <1>3 DEF Commit
<1>4. ASSUME NEW h \in Handlers, NEW j \in Jobs, EnqueueLan(h, j) PROVE Kept
  <2>1. WritesInv(h)'
    BY <1>4, <1>a DEF EnqueueLan, TypeOK, WritesInv, Session, In
  <2> QED BY <1>4, <1>a, <2>1, OneSession DEF EnqueueLan, TypeOK
<1>5. ASSUME NEW h \in Handlers, LanSend(h) PROVE Kept
  <2>1. PICK to \in Result : txn' = [txn EXCEPT ![h] = [@ EXCEPT !.at = "loaded", !.to = to]]
    BY <1>5 DEF LanSend
  <2>2. txn[h].kind \in {"enqueue", "retry"} /\ txn[h].jobs \subseteq LanJobs
    BY <1>5 DEF LanSend, StructureInv, SessionInv
  <2>3. txn'[h] = [txn[h] EXCEPT !.at = "loaded", !.to = to] /\ txn[h] \in Txn
    BY <1>a, <2>1 DEF TypeOK
  <2>4. WritesInv(h)'
    BY <2>2, <2>3 DEF WritesInv, Txn
  <2> QED BY <1>a, <2>1, <2>4, OneSession DEF TypeOK
<1>6. ASSUME NEW s \in UsbStations, NEW h \in Handlers, AgentPoll(s, h) PROVE Kept
  <2>1. WritesInv(h)'
    BY <1>6, <1>a DEF AgentPoll, TypeOK, WritesInv, Session, In
  <2> QED BY <1>6, <1>a, <2>1, OneSession DEF AgentPoll, TypeOK
<1>7. ASSUME NEW h \in Handlers, PollRead(h) PROVE Kept
  <2>1. WritesInv(h)'
    BY <1>7, <1>a DEF PollRead, TypeOK, WritesInv, Session, In
  <2> QED BY <1>7, <1>a, <2>1, OneSession DEF PollRead, TypeOK
<1>8. ASSUME NEW s \in UsbStations, NEW h \in Handlers, AgentAck(s, h) PROVE Kept
  <2>1. agent[s].cur \in UsbJobs
    BY <1>8 DEF AgentAck, StructureInv, AgentInv, UsbJobs
  <2>2. AckStatus(agent[s]) \in Result
    BY <1>a DEF TypeOK, Agent, AckStatus
  <2>3. WritesInv(h)'
    BY <1>8, <1>a, <2>1, <2>2 DEF AgentAck, TypeOK, WritesInv, Session, In
  <2> QED BY <1>8, <1>a, <2>3, OneSession DEF AgentAck, TypeOK
<1>9. ASSUME NEW h \in Handlers, AckRead(h) PROVE Kept
  <2>1. WritesInv(h)'
    BY <1>9, <1>a DEF AckRead, TypeOK, WritesInv, Session, In
  <2> QED BY <1>9, <1>a, <2>1, OneSession DEF AckRead, TypeOK
<1>10. ASSUME NEW h \in Handlers, NEW j \in Jobs, RetryRead(h, j) PROVE Kept
  <2>1. CASE j \in LanJobs
    <3>1. WritesInv(h)'
      BY <1>10, <1>a, <2>1 DEF RetryRead, TypeOK, WritesInv, Session, In
    <3> QED BY <1>10, <1>a, <3>1, OneSession DEF RetryRead, TypeOK
  <2>2. CASE j \notin LanJobs
    <3>1. WritesInv(h)'
      BY <1>10, <1>a, <1>b, <2>2 DEF RetryRead, TypeOK, WritesInv, Session, In
    <3> QED BY <1>10, <1>a, <3>1, OneSession DEF RetryRead, TypeOK
  <2> QED BY <2>1, <2>2
<1>11. ASSUME NEW h \in Handlers, NEW j \in Jobs, CancelRead(h, j) PROVE Kept
  <2>1. WritesInv(h)'
    BY <1>11, <1>a DEF CancelRead, TypeOK, WritesInv, Session, In
  <2> QED BY <1>11, <1>a, <2>1, OneSession DEF CancelRead, TypeOK
<1> HIDE DEF Kept
<1>12. ASSUME UNCHANGED vars PROVE Kept
  BY <1>1, <1>12 DEF vars
<1>13. ASSUME NEW h \in Handlers, NEW j \in Jobs, Enqueue(h, j) \/ Read(h, j) PROVE Kept
  <2>1. ASSUME EnqueueUsb(j) PROVE Kept
    BY <1>1, <2>1 DEF EnqueueUsb
  <2> QED BY <1>4, <1>10, <1>11, <1>13, <2>1 DEF Enqueue, Read
<1>14. ASSUME NEW h \in Handlers, Serve(h) \/ Finish(h) \/ LanSend(h) \/ HandlerFails(h)
      PROVE  Kept
  BY <1>2, <1>3, <1>5, <1>7, <1>9, <1>14
     DEF Serve, Finish, PollCommit, AckCommit, RetryCommit, CancelCommit, EnqueueCommit,
         Refuse, HandlerFails, Rollback
<1>15. ASSUME NEW s \in UsbStations, AgentPrint(s) \/ AgentDropsOut(s) PROVE Kept
  BY <1>1, <1>15 DEF AgentPrint, AgentDropsOut
<1>16. ASSUME NEW s \in UsbStations, NEW h \in Handlers, AgentCall(s, h) PROVE Kept
  BY <1>6, <1>8, <1>16 DEF AgentCall
<1>17. ASSUME NEW s \in Stations, DeleteStation(s) PROVE Kept
  BY <1>1, <1>17 DEF DeleteStation
<1>18. Kept
  BY <1>12, <1>13, <1>14, <1>15, <1>16, <1>17 DEF Next, Work, Faults
<1> QED
  BY <1>18 DEF Kept

-----------------------------------------------------------------------------
(* Every attempt that will be counted is ordered. *)

LEMMA PendingType ==
  ASSUME NEW j PROVE IsFiniteSet(ArrivedAcks(j)) /\ Cardinality(ArrivedAcks(j)) \in Nat /\ Pending(j) \in Nat
<1>1. IsFiniteSet(ArrivedAcks(j))
  BY HandlerAssumption, FS_Subset DEF ArrivedAcks
<1>2. Cardinality(ArrivedAcks(j)) \in Nat
  BY <1>1, FS_CardinalityType
<1> QED
  BY <1>1, <1>2 DEF Pending, One

\* The same of the next state.
LEMMA PendingTypeNext ==
  ASSUME NEW j
  PROVE  IsFiniteSet(ArrivedAcks(j)') /\ Cardinality(ArrivedAcks(j)') \in Nat /\ Pending(j)' \in Nat
<1>1. IsFiniteSet(ArrivedAcks(j)')
  BY HandlerAssumption, FS_Subset DEF ArrivedAcks
<1>2. Cardinality(ArrivedAcks(j)') \in Nat
  BY <1>1, FS_CardinalityType
<1> QED
  BY <1>1, <1>2 DEF Pending, One

\* Less is pending when no ack arrives and nobody gets a copy.
LEMMA PendingKept ==
  ASSUME NEW j, ArrivedAcks(j)' \subseteq ArrivedAcks(j), PrintedBy(j)' => PrintedBy(j),
         InHand(j)' => InHand(j), Claimable(j)' => Claimable(j)
  PROVE  Pending(j)' <= Pending(j)
<1>1. Cardinality(ArrivedAcks(j)') <= Cardinality(ArrivedAcks(j))
  BY PendingType, FS_Subset
<1> QED
  BY <1>1, PendingType, PendingTypeNext DEF Pending, One

\* A step that makes the row's count smaller, or that of an ack about to write it.
LEMMA UsbKept ==
  ASSUME TypeOK, NEW j \in UsbJobs, UsbAttempts(j), orders'[j] = orders[j], Pending(j)' <= Pending(j),
         \/ row'[j].attempts = row[j].attempts
         \/ row'[j].attempts = 0
         \/ \E h \in Handlers : /\ In(h, "ack", "loaded") /\ j \in txn[h].jobs
                                /\ row'[j].attempts = txn[h].att,
         \A h \in Handlers : In(h, "ack", "loaded")' /\ j \in txn'[h].jobs => txn'[h] = txn[h]
  PROVE  UsbAttempts(j)'
<1>1. Pending(j) \in Nat /\ Pending(j)' \in Nat
  BY PendingType, PendingTypeNext
<1>2. orders[j] \in Nat /\ row[j].attempts \in Nat /\ \A h \in Handlers : txn[h].att \in Nat
  BY DEF TypeOK, Row, Txn, UsbJobs
<1>3. row'[j].attempts + Pending(j)' <= orders'[j]
  <2>1. CASE row'[j].attempts = row[j].attempts
    BY <1>1, <1>2, <2>1 DEF UsbAttempts
  <2>2. CASE row'[j].attempts = 0
    BY <1>1, <1>2, <2>2 DEF UsbAttempts
  <2>3. ASSUME NEW h \in Handlers, In(h, "ack", "loaded"), j \in txn[h].jobs,
               row'[j].attempts = txn[h].att
        PROVE  row'[j].attempts + Pending(j)' <= orders'[j]
    <3>1. txn[h].att + Pending(j) <= orders[j]
      BY <2>3 DEF UsbAttempts
    <3> QED BY <1>1, <1>2, <2>3, <3>1
  <2> QED BY <2>1, <2>2, <2>3
<1>4. ASSUME NEW h \in Handlers, In(h, "ack", "loaded")', j \in txn'[h].jobs
      PROVE  txn'[h].att + Pending(j)' <= orders'[j]
  <2>1. txn'[h] = txn[h]
    BY <1>4
  <2>2. txn[h].att + Pending(j) <= orders[j]
    BY <1>4, <2>1 DEF UsbAttempts, In
  <2> QED BY <1>1, <1>2, <2>1, <2>2
<1> QED
  BY <1>3, <1>4 DEF UsbAttempts

\* What a commit does to attempts.
LEMMA WrittenAttempts ==
  ASSUME TypeOK, NEW h \in Handlers, WritesInv(h), Commit(h), NEW j \in UsbJobs
  PROVE  \/ row'[j].attempts = row[j].attempts
         \/ In(h, "ack", "loaded") /\ j \in txn[h].jobs /\ row'[j].attempts = txn[h].att
<1>1. j \in Jobs /\ j \notin LanJobs
  BY StationAssumption DEF UsbJobs, LanJobs
<1>2. CASE j \in txn[h].jobs
  <2>1. row'[j].attempts = IF txn[h].att = 0 THEN row[j].attempts ELSE txn[h].att
    BY <1>1, <1>2 DEF Commit, Written
  <2> QED BY <1>1, <1>2, <2>1 DEF WritesInv
<1>3. CASE j \notin txn[h].jobs
  BY <1>1, <1>3 DEF Commit
<1> QED
  BY <1>2, <1>3

\* A step that changes one session, which neither was an ack on its way nor has become
\* one.
LEMMA OneSessionQuiet ==
  ASSUME NEW h \in Handlers, ~In(h, "ack", "arrived")', ~In(h, "ack", "loaded")',
         \A g \in Handlers : g # h => txn'[g] = txn[g], NEW j
  PROVE  /\ ArrivedAcks(j)' \subseteq ArrivedAcks(j)
         /\ \A g \in Handlers : In(g, "ack", "loaded")' /\ j \in txn'[g].jobs => txn'[g] = txn[g]
BY DEF ArrivedAcks, In

\* The account of a USB job stays balanced over a step that gives nobody a new copy,
\* brings no ack, and changes the row's count to less, or to what an ack computed.
LEMMA UsbQuiet ==
  ASSUME TypeOK, NEW j \in UsbJobs, UsbAttempts(j), orders'[j] = orders[j],
         InHand(j)' => InHand(j), Claimable(j)' => Claimable(j), PrintedBy(j)' => PrintedBy(j),
         NEW h \in Handlers, ~In(h, "ack", "arrived")', ~In(h, "ack", "loaded")',
         \A g \in Handlers : g # h => txn'[g] = txn[g],
         \/ row'[j].attempts = row[j].attempts
         \/ In(h, "ack", "loaded") /\ j \in txn[h].jobs /\ row'[j].attempts = txn[h].att
  PROVE  UsbAttempts(j)'
<1>1. Pending(j)' <= Pending(j)
  BY OneSessionQuiet, PendingKept
<1>2. \A g \in Handlers : In(g, "ack", "loaded")' /\ j \in txn'[g].jobs => txn'[g] = txn[g]
  BY OneSessionQuiet
<1> QED
  BY <1>1, <1>2, UsbKept

\* The same over a step that leaves the sessions alone.
LEMMA UsbStill ==
  ASSUME TypeOK, NEW j \in UsbJobs, UsbAttempts(j), orders'[j] = orders[j], txn' = txn,
         InHand(j)' => InHand(j), Claimable(j)' => Claimable(j), PrintedBy(j)' => PrintedBy(j),
         row'[j].attempts \in {row[j].attempts, 0}
  PROVE  UsbAttempts(j)'
<1>1. ArrivedAcks(j)' = ArrivedAcks(j)
  BY DEF ArrivedAcks, In
<1>2. Pending(j)' <= Pending(j)
  BY <1>1, PendingKept
<1>3. \A g \in Handlers : In(g, "ack", "loaded")' /\ j \in txn'[g].jobs => txn'[g] = txn[g]
  OBVIOUS
<1> QED
  BY <1>2, <1>3, UsbKept

\* An ack that sets out takes the place of the copy it reports on.
LEMMA AckSetsOut ==
  ASSUME StructureInv, NEW j \in UsbJobs, UsbAttempts(j),
         NEW s \in UsbStations, NEW h \in Handlers, AgentAck(s, h)
  PROVE  UsbAttempts(j)'
<1>a. TypeOK /\ j \in Jobs
  BY DEF StructureInv, UsbJobs
<1>b. /\ orders'[j] = orders[j] /\ row'[j] = row[j]
      /\ InHand(j)' => InHand(j)
      /\ Claimable(j)' => Claimable(j)
  BY NoNewCopyKeeps DEF NoNewCopy, AgentAck
<1>c. /\ agent[s].pc = "printed" /\ txn[h].kind = "none"
      /\ \A t \in UsbStations : t # s => agent'[t] = agent[t]
      /\ agent'[s].pc = "acking"
      /\ \A g \in Handlers : g # h => txn'[g] = txn[g]
      /\ txn'[h] = Session("ack", "arrived", s, {agent[s].cur}, "absent", AckStatus(agent[s]), 0)
  BY <1>a DEF AgentAck, TypeOK, Free, Agent
<1>d. PrintedBy(j)' => PrintedBy(j)
  BY <1>c DEF PrintedBy
<1>e. \A g \in Handlers : In(g, "ack", "loaded")' /\ j \in txn'[g].jobs => txn'[g] = txn[g]
  BY <1>c DEF In, Session
<1>1. CASE agent[s].cur = j
  <2>1. PrintedBy(j)
    BY <1>1, <1>c DEF PrintedBy
  <2>2. \A t \in UsbStations : agent[t].cur = j => t = s
    BY <1>1, <1>a DEF StructureInv, AgentInv
  <2>3. ~PrintedBy(j)'
    BY <1>c, <2>2 DEF PrintedBy
  <2>4. h \notin ArrivedAcks(j) /\ ArrivedAcks(j)' = ArrivedAcks(j) \cup {h}
    BY <1>1, <1>c DEF ArrivedAcks, In, Session
  <2>5. Cardinality(ArrivedAcks(j)') = Cardinality(ArrivedAcks(j)) + 1
    BY <2>4, PendingType, FS_AddElement
  <2>6. Pending(j)' <= Pending(j)
    BY <1>b, <2>1, <2>3, <2>5, PendingType, PendingTypeNext DEF Pending, One
  <2> QED BY <1>a, <1>b, <1>e, <2>6, UsbKept
<1>2. CASE agent[s].cur # j
  <2>1. ArrivedAcks(j)' \subseteq ArrivedAcks(j)
    BY <1>2, <1>c DEF ArrivedAcks, In, Session
  <2>2. Pending(j)' <= Pending(j)
    BY <1>b, <1>d, <2>1, PendingKept
  <2> QED BY <1>a, <1>b, <1>e, <2>2, UsbKept
<1> QED
  BY <1>1, <1>2

\* An ack that counts its attempt is pending no more.
LEMMA AckCounts ==
  ASSUME StructureInv, NEW j \in UsbJobs, UsbAttempts(j), NEW h \in Handlers, AckRead(h)
  PROVE  UsbAttempts(j)'
<1>a. TypeOK /\ j \in Jobs
  BY DEF StructureInv, UsbJobs
<1>b. /\ orders'[j] = orders[j] /\ row'[j] = row[j] /\ agent' = agent
      /\ InHand(j)' => InHand(j)
      /\ Claimable(j)' => Claimable(j)
  BY NoNewCopyKeeps DEF NoNewCopy, AckRead
<1>c. PrintedBy(j)' => PrintedBy(j)
  BY <1>b DEF PrintedBy
<1>d. PICK k \in txn[h].jobs :
        txn' = [txn EXCEPT ![h] = Session("ack", "loaded", @.station, {k}, row[k].status, @.to,
                                          Counted(row[k]))]
  BY DEF AckRead
<1>e. /\ In(h, "ack", "arrived")
      /\ \A g \in Handlers : g # h => txn'[g] = txn[g]
      /\ txn'[h].kind = "ack" /\ txn'[h].at = "loaded" /\ txn'[h].jobs = {k}
      /\ txn'[h].att = row[k].attempts + 1
  BY <1>a, <1>d DEF AckRead, TypeOK, Session, Counted
<1>1. CASE k = j
  <2>1. h \in ArrivedAcks(j) /\ ArrivedAcks(j)' = ArrivedAcks(j) \ {h}
    BY <1>1, <1>e DEF ArrivedAcks, In
  <2>2. Cardinality(ArrivedAcks(j)') = Cardinality(ArrivedAcks(j)) - 1
    BY <2>1, PendingType, FS_RemoveElement
  <2>3. Pending(j)' + 1 <= Pending(j)
    BY <1>b, <1>c, <2>2, PendingType, PendingTypeNext DEF Pending, One
  <2>4. /\ orders[j] \in Nat /\ row[j].attempts \in Nat
        /\ Pending(j) \in Nat /\ Pending(j)' \in Nat
        /\ \A g \in Handlers : txn[g].att \in Nat
    BY <1>a, PendingType, PendingTypeNext DEF TypeOK, Row, Txn
  <2>5. row'[j].attempts + Pending(j)' <= orders'[j]
    BY <1>b, <2>3, <2>4 DEF UsbAttempts
  <2>6. ASSUME NEW g \in Handlers, In(g, "ack", "loaded")', j \in txn'[g].jobs
        PROVE  txn'[g].att + Pending(j)' <= orders'[j]
    <3>1. CASE g = h
      <4>1. row[j].attempts + Pending(j) <= orders[j]
        BY DEF UsbAttempts
      <4> QED BY <1>1, <1>b, <1>e, <2>3, <2>4, <3>1, <4>1
    <3>2. CASE g # h
      <4>1. txn'[g] = txn[g]
        BY <1>e, <3>2
      <4>2. txn[g].att + Pending(j) <= orders[j]
        BY <2>6, <4>1 DEF UsbAttempts, In
      <4> QED BY <1>b, <2>3, <2>4, <4>1, <4>2
    <3> QED BY <3>1, <3>2
  <2> QED BY <2>5, <2>6 DEF UsbAttempts
<1>2. CASE k # j
  <2>1. ArrivedAcks(j)' \subseteq ArrivedAcks(j)
    BY <1>2, <1>e DEF ArrivedAcks, In
  <2>2. Pending(j)' <= Pending(j)
    BY <1>b, <1>c, <2>1, PendingKept
  <2>3. \A g \in Handlers : In(g, "ack", "loaded")' /\ j \in txn'[g].jobs => txn'[g] = txn[g]
    BY <1>2, <1>e
  <2> QED BY <1>a, <1>b, <2>2, <2>3, UsbKept
<1> QED
  BY <1>1, <1>2

\* Requests that are neither acks on their way nor polls being answered change nothing
\* in the account, and an ack that is stored writes what it had computed.
LEMMA QuietSession ==
  ASSUME StructureInv, NEW j \in UsbJobs, UsbAttempts(j), NoNewCopy,
         NEW h \in Handlers, WritesInv(h),
         \/ \E k \in Jobs : EnqueueLan(h, k) \/ RetryRead(h, k) \/ CancelRead(h, k)
         \/ LanSend(h) \/ EnqueueCommit(h) \/ PollRead(h) \/ AckCommit(h)
         \/ CancelCommit(h) \/ Rollback(h)
         \/ \E s \in UsbStations : AgentPoll(s, h)
  PROVE  UsbAttempts(j)'
<1> DEFINE Stored == /\ ~In(h, "ack", "arrived")' /\ ~In(h, "ack", "loaded")'
                     /\ \A g \in Handlers : g # h => txn'[g] = txn[g]
                     /\ \/ row'[j].attempts = row[j].attempts
                        \/ /\ In(h, "ack", "loaded") /\ j \in txn[h].jobs
                           /\ row'[j].attempts = txn[h].att
<1> DEFINE Quiet == (PrintedBy(j)' => PrintedBy(j)) /\ Stored
<1> USE StationAssumption, HandlerAssumption
<1>a. TypeOK /\ j \in Jobs /\ j \notin LanJobs
  BY DEF StructureInv, UsbJobs, LanJobs
<1>b. UNCHANGED agent => (PrintedBy(j)' => PrintedBy(j))
  BY DEF PrintedBy
<1>1. ASSUME NEW k \in Jobs, EnqueueLan(h, k) PROVE Quiet
  BY <1>1, <1>a, <1>b DEF EnqueueLan, TypeOK, Session, In
<1>2. ASSUME NEW k \in Jobs, RetryRead(h, k) PROVE Quiet
  BY <1>2, <1>a, <1>b DEF RetryRead, TypeOK, Session, In
<1>3. ASSUME NEW k \in Jobs, CancelRead(h, k) PROVE Quiet
  BY <1>3, <1>a, <1>b DEF CancelRead, TypeOK, Session, In
<1>4. ASSUME LanSend(h) PROVE Quiet
  <2>1. PICK to \in Result : txn' = [txn EXCEPT ![h] = [@ EXCEPT !.at = "loaded", !.to = to]]
    BY <1>4 DEF LanSend
  <2>2. txn[h].kind \in {"enqueue", "retry"}
    BY <1>4 DEF LanSend, StructureInv, SessionInv
  <2>3. txn'[h].kind = txn[h].kind /\ \A g \in Handlers : g # h => txn'[g] = txn[g]
    BY <1>a, <2>1 DEF TypeOK, Txn
  <2> QED BY <1>4, <1>b, <2>2, <2>3 DEF LanSend, In
<1>5. ASSUME EnqueueCommit(h) PROVE Quiet
  <2>1. PICK k \in txn[h].jobs : row' = [row EXCEPT ![k] = Written(NoRow, txn[h])]
    BY <1>5 DEF EnqueueCommit
  <2>2. k \in LanJobs
    BY <1>5, <2>1 DEF EnqueueCommit, In, StructureInv, SessionInv
  <2>3. row'[j] = row[j]
    BY <1>a, <2>1, <2>2 DEF TypeOK
  <2> QED BY <1>5, <1>a, <1>b, <2>3 DEF EnqueueCommit, TypeOK, NoTxn, Session, In
<1>6. ASSUME PollRead(h) PROVE Quiet
  BY <1>6, <1>a, <1>b DEF PollRead, TypeOK, Session, In
<1>7. ASSUME Commit(h) PROVE Stored
  <2>1. txn'[h] = NoTxn /\ \A g \in Handlers : g # h => txn'[g] = txn[g]
    BY <1>7, <1>a, CommitType
  <2> QED BY <1>7, <1>a, <2>1, WrittenAttempts DEF NoTxn, Session, In
<1>8. ASSUME AckCommit(h) PROVE Quiet
  <2>1. \A t \in UsbStations : agent'[t] = agent[t] \/ agent'[t].pc # "printed"
    BY <1>8 DEF AckCommit, NextJob, IdleAgent, Loop
  <2>2. PrintedBy(j)' => PrintedBy(j)
    BY <2>1 DEF PrintedBy
  <2>3. Commit(h)
    BY <1>8 DEF AckCommit
  <2>4. Stored
    BY <1>7, <2>3
  <2> HIDE DEF Stored
  <2> QED BY <2>2, <2>4
<1>9. ASSUME CancelCommit(h) PROVE Quiet
  <2>1. PrintedBy(j)' => PrintedBy(j)
    BY <1>9, <1>b DEF CancelCommit
  <2>2. Stored
    BY <1>7, <1>9 DEF CancelCommit
  <2> HIDE DEF Stored
  <2> QED BY <2>1, <2>2
<1>10. ASSUME Rollback(h) PROVE Quiet
  <2>1. PrintedBy(j)' => PrintedBy(j)
    BY <1>10 DEF Rollback, PrintedBy, IdleAgent, Loop
  <2> QED BY <1>10, <1>a, <2>1 DEF Rollback, TypeOK, NoTxn, Session, In
<1>11. ASSUME NEW s \in UsbStations, AgentPoll(s, h) PROVE Quiet
  <2>1. PrintedBy(j)' => PrintedBy(j)
    BY <1>11, <1>a DEF AgentPoll, PrintedBy, TypeOK, Loop
  <2> QED BY <1>11, <1>a, <2>1 DEF AgentPoll, TypeOK, Session, In
<1> HIDE DEF Quiet
<1>12. Quiet
  BY <1>1, <1>2, <1>3, <1>4, <1>5, <1>6, <1>8, <1>9, <1>10, <1>11
<1> QED
  BY <1>12, <1>a, NoNewCopyKeeps, UsbQuiet DEF Quiet

\* The answer of a poll turns the claim into a copy in hand.
LEMMA PollGives ==
  ASSUME StructureInv, NEW j \in UsbJobs, UsbAttempts(j), NEW h \in Handlers, WritesInv(h),
         PollCommit(h)
  PROVE  UsbAttempts(j)'
<1> USE StationAssumption, HandlerAssumption
<1>a. TypeOK /\ j \in Jobs
  BY DEF StructureInv, UsbJobs
<1>b. In(h, "poll", "loaded") /\ Commit(h)
  BY DEF PollCommit
<1>c. txn'[h] = NoTxn /\ \A g \in Handlers : g # h => txn'[g] = txn[g]
  BY <1>a, <1>b, CommitType
<1>d. row'[j].attempts = row[j].attempts
  BY <1>b, <1>a, WrittenAttempts DEF In
<1>e. /\ ArrivedAcks(j)' \subseteq ArrivedAcks(j)
      /\ \A g \in Handlers : In(g, "ack", "loaded")' /\ j \in txn'[g].jobs => txn'[g] = txn[g]
  <2>1. ~In(h, "ack", "arrived")' /\ ~In(h, "ack", "loaded")'
    BY <1>c DEF NoTxn, Session, In
  <2> QED BY <1>c, <2>1, OneSessionQuiet
<1>f. PrintedBy(j)' => PrintedBy(j)
  <2>1. \A t \in UsbStations : agent'[t] = agent[t] \/ agent'[t].pc # "printed"
    BY DEF PollCommit, NextJob, IdleAgent, Loop
  <2> QED BY <2>1 DEF PrintedBy
<1>1. Cardinality(ArrivedAcks(j)') <= Cardinality(ArrivedAcks(j))
  BY <1>e, PendingType, FS_Subset
<1>2. /\ orders'[j] = orders[j]
      /\ Claimable(j)' => Claimable(j)
      /\ (InHand(j)' => InHand(j)) \/ (Claimable(j) /\ ~Claimable(j)')
  BY PollHandsOver
<1>3. Pending(j)' <= Pending(j)
  BY <1>f, <1>1, <1>2, PendingType, PendingTypeNext DEF Pending, One
<1> QED
  BY <1>a, <1>d, <1>e, <1>2, <1>3, UsbKept

\* Printing turns the copy in hand into a printed one.
LEMMA PrintGives ==
  ASSUME StructureInv, NEW j \in UsbJobs, UsbAttempts(j), NEW s \in UsbStations, AgentPrint(s)
  PROVE  UsbAttempts(j)'
<1>a. TypeOK /\ row' = row /\ txn' = txn
  BY DEF StructureInv, AgentPrint
<1>b. /\ orders'[j] = orders[j]
      /\ Claimable(j)' => Claimable(j)
      /\ \/ InHand(j) /\ ~InHand(j)'
         \/ (InHand(j)' => InHand(j)) /\ agent'[s].cur # j
  BY PrintTakesFromHand
<1>c. \A t \in UsbStations : t # s => agent'[t] = agent[t]
  BY <1>a DEF AgentPrint, TypeOK
<1>d. agent'[s].cur # j => (PrintedBy(j)' => PrintedBy(j))
  BY <1>c DEF PrintedBy
<1>1. ArrivedAcks(j)' = ArrivedAcks(j)
  BY <1>a DEF ArrivedAcks, In
<1>2. Pending(j)' <= Pending(j)
  BY <1>b, <1>d, <1>1, PendingType, PendingTypeNext DEF Pending, One
<1>3. \A g \in Handlers : In(g, "ack", "loaded")' /\ j \in txn'[g].jobs => txn'[g] = txn[g]
  BY <1>a
<1> QED
  BY <1>a, <1>b, <1>2, <1>3, UsbKept

\* A retry makes at most one more attempt possible, and is an order when it does.
LEMMA RetryOrders ==
  ASSUME StructureInv, NEW j \in UsbJobs, UsbAttempts(j), NEW h \in Handlers, WritesInv(h),
         RetryCommit(h)
  PROVE  UsbAttempts(j)'
<1> USE StationAssumption, HandlerAssumption
<1>a. TypeOK /\ j \in Jobs /\ j \notin LanJobs
  BY DEF StructureInv, UsbJobs, LanJobs
<1>b. In(h, "retry", "loaded") /\ Commit(h) /\ agent' = agent
  BY DEF RetryCommit
<1>c. txn'[h] = NoTxn /\ \A g \in Handlers : g # h => txn'[g] = txn[g]
  BY <1>a, <1>b, CommitType
<1>d. row'[j].attempts = row[j].attempts
  BY <1>b, <1>a, WrittenAttempts DEF In
<1>e. ~In(h, "ack", "arrived")' /\ ~In(h, "ack", "loaded")'
  BY <1>c DEF NoTxn, Session, In
<1>f. (InHand(j)' => InHand(j)) /\ (PrintedBy(j)' => PrintedBy(j))
  BY <1>b DEF InHand, PrintedBy
<1>1. CASE j \in txn[h].jobs /\ txn[h].from # "queued"
  <2>1. orders'[j] = orders[j] + 1
    BY <1>1, <1>a DEF RetryCommit
  <2>2. /\ ArrivedAcks(j)' \subseteq ArrivedAcks(j)
        /\ \A g \in Handlers : In(g, "ack", "loaded")' /\ j \in txn'[g].jobs => txn'[g] = txn[g]
    BY <1>c, <1>e, OneSessionQuiet
  <2>3. Cardinality(ArrivedAcks(j)') <= Cardinality(ArrivedAcks(j))
    BY <2>2, PendingType, FS_Subset
  <2>4. Pending(j)' <= Pending(j) + 1
    BY <1>f, <2>3, PendingType, PendingTypeNext DEF Pending, One
  <2>5. /\ orders[j] \in Nat /\ row[j].attempts \in Nat /\ Pending(j) \in Nat /\ Pending(j)' \in Nat
        /\ \A g \in Handlers : txn[g].att \in Nat
    BY <1>a, PendingType, PendingTypeNext DEF TypeOK, Row, Txn
  <2>6. row'[j].attempts + Pending(j)' <= orders'[j]
    BY <1>d, <2>1, <2>4, <2>5 DEF UsbAttempts
  <2>7. ASSUME NEW g \in Handlers, In(g, "ack", "loaded")', j \in txn'[g].jobs
        PROVE  txn'[g].att + Pending(j)' <= orders'[j]
    <3>1. txn'[g] = txn[g]
      BY <2>2, <2>7
    <3>2. txn[g].att + Pending(j) <= orders[j]
      BY <2>7, <3>1 DEF UsbAttempts, In
    <3> QED BY <2>1, <2>4, <2>5, <3>1, <3>2
  <2> QED BY <2>6, <2>7 DEF UsbAttempts
<1>2. CASE ~(j \in txn[h].jobs /\ txn[h].from # "queued")
  <2>1. orders'[j] = orders[j]
    BY <1>2, <1>a DEF RetryCommit
  <2>2. row'[j].status = "queued" => row[j].status = "queued"
    BY <1>2, <1>a, <1>b, WrittenQueued DEF Commit, TypeOK
  <2>3. Claimable(j)' => Claimable(j)
    BY <1>a, <1>b, <1>c, <2>2, ClaimKept DEF In
  <2> QED BY <1>a, <1>c, <1>d, <1>e, <1>f, <2>1, <2>3, UsbQuiet
<1> QED
  BY <1>1, <1>2

\* A job is new when it is queued, and nobody has it.
LEMMA NewJobOrdered ==
  ASSUME StructureInv, NEW j \in UsbJobs, UsbAttempts(j), NEW k \in Jobs, EnqueueUsb(k)
  PROVE  UsbAttempts(j)'
<1>a. TypeOK /\ j \in Jobs
  BY DEF StructureInv, UsbJobs
<1>b. txn' = txn /\ agent' = agent
  BY DEF EnqueueUsb
<1>c. (InHand(j)' <=> InHand(j)) /\ (PrintedBy(j)' <=> PrintedBy(j))
  BY <1>b DEF InHand, PrintedBy
<1>1. CASE j = k
  <2>1. orders[j] = 0 /\ orders'[j] = 1 /\ row'[j].attempts = 0
    BY <1>1, <1>a DEF EnqueueUsb, TypeOK
  <2>2. Pending(j) = 0
    <3>1. row[j].attempts \in Nat /\ Pending(j) \in Nat
      BY <1>a, PendingType DEF TypeOK, Row
    <3>2. row[j].attempts + Pending(j) <= 0
      BY <2>1 DEF UsbAttempts
    <3> QED BY <3>1, <3>2
  <2>3. Cardinality(ArrivedAcks(j)) = 0 /\ ~InHand(j) /\ ~PrintedBy(j)
    BY <2>2, PendingType DEF Pending, One
  <2>4. ArrivedAcks(j)' = ArrivedAcks(j)
    BY <1>b DEF ArrivedAcks, In
  <2>5. Pending(j)' <= 1
    BY <1>c, <2>3, <2>4, PendingType, PendingTypeNext DEF Pending, One
  <2>6. \A g \in Handlers : In(g, "ack", "loaded") /\ j \in txn[g].jobs => txn[g].att = 0
    BY <1>a, <2>1, <2>2 DEF UsbAttempts, TypeOK, Txn
  <2> QED BY <1>b, <2>1, <2>5, <2>6, PendingTypeNext DEF UsbAttempts, In
<1>2. CASE j # k
  <2>1. row'[j] = row[j] /\ orders'[j] = orders[j]
    BY <1>2, <1>a DEF EnqueueUsb, TypeOK
  <2>2. Claimable(j)' => Claimable(j)
    BY <1>b, <2>1 DEF Claimable
  <2> QED BY <1>a, <1>b, <1>c, <2>1, <2>2, UsbStill
<1> QED
  BY <1>1, <1>2

LEMMA NextUsbAttempts ==
  ASSUME StructureInv, [Next]_vars, \A h \in Handlers : WritesInv(h),
         NEW j \in UsbJobs, UsbAttempts(j)
  PROVE  UsbAttempts(j)'
<1> USE StationAssumption
<1>a. TypeOK /\ j \in Jobs
  BY DEF StructureInv, UsbJobs
<1>1. CASE UNCHANGED vars
  BY <1>1, <1>a, UsbStill DEF vars, InHand, Claimable, PrintedBy
<1>2. ASSUME NEW h \in Handlers, NEW k \in Jobs, Enqueue(h, k) \/ Read(h, k)
      PROVE  UsbAttempts(j)'
  <2>1. ASSUME EnqueueLan(h, k) \/ RetryRead(h, k) \/ CancelRead(h, k) PROVE UsbAttempts(j)'
    BY <2>1, QuietSession DEF NoNewCopy
  <2> QED BY <1>2, <2>1, NewJobOrdered DEF Enqueue, Read
<1>3. ASSUME NEW h \in Handlers, Serve(h) \/ Finish(h) \/ LanSend(h) \/ HandlerFails(h)
      PROVE  UsbAttempts(j)'
  <2>1. ASSUME \/ LanSend(h) \/ EnqueueCommit(h) \/ PollRead(h) \/ AckCommit(h)
               \/ CancelCommit(h) \/ Rollback(h)
        PROVE  UsbAttempts(j)'
    BY <2>1, QuietSession DEF NoNewCopy
  <2> QED BY <1>3, <2>1, PollGives, AckCounts, RetryOrders DEF Serve, Finish, Refuse, HandlerFails
<1>4. ASSUME NEW s \in UsbStations, AgentPrint(s) PROVE UsbAttempts(j)'
  BY <1>4, PrintGives
<1>5. ASSUME NEW s \in UsbStations, NEW h \in Handlers, AgentCall(s, h) PROVE UsbAttempts(j)'
  <2>1. ASSUME AgentPoll(s, h) PROVE UsbAttempts(j)'
    BY <2>1, QuietSession DEF NoNewCopy
  <2> QED BY <1>5, <2>1, AckSetsOut DEF AgentCall
<1>6. ASSUME NEW s \in UsbStations, AgentDropsOut(s) PROVE UsbAttempts(j)'
  <2>1. PrintedBy(j)' => PrintedBy(j)
    BY <1>6, <1>a DEF AgentDropsOut, PrintedBy, TypeOK, IdleAgent, Loop
  <2>2. txn' = txn /\ row' = row
    BY <1>6 DEF AgentDropsOut
  <2> QED BY <1>6, <1>a, <2>1, <2>2, NoNewCopyKeeps, UsbStill DEF NoNewCopy
<1>7. ASSUME NEW s \in Stations, DeleteStation(s) PROVE UsbAttempts(j)'
  <2>1. txn' = txn /\ agent' = agent /\ row'[j].attempts \in {row[j].attempts, 0}
    BY <1>7, <1>a DEF DeleteStation, NoRow
  <2>2. PrintedBy(j)' => PrintedBy(j)
    BY <2>1 DEF PrintedBy
  <2> QED BY <1>7, <1>a, <2>1, <2>2, NoNewCopyKeeps, UsbStill DEF NoNewCopy
<1> QED
  BY <1>1, <1>2, <1>3, <1>4, <1>5, <1>6, <1>7 DEF Next, Work, Faults

\* A commit writes no more than was ordered.
LEMMA LanWritten ==
  ASSUME TypeOK, NEW j \in LanJobs, LanAttempts(j), NEW h \in Handlers,
         txn[h].at = "loaded", Commit(h)
  PROVE  row'[j].attempts <= orders[j]
<1>1. j \in Jobs
  BY DEF LanJobs
<1>2. CASE j \in txn[h].jobs
  <2>1. row'[j].attempts \in {row[j].attempts, txn[h].att}
    BY <1>1, <1>2 DEF Commit, Written
  <2>2. orders[j] \in Nat /\ txn[h].att \in Nat
    BY <1>1 DEF TypeOK, Txn
  <2> QED BY <1>2, <2>1, <2>2 DEF LanAttempts, One
<1>3. CASE j \notin txn[h].jobs
  BY <1>1, <1>3 DEF Commit, LanAttempts
<1> QED
  BY <1>2, <1>3

LEMMA NextLanAttempts ==
  ASSUME StructureInv, [Next]_vars, \A h \in Handlers : WritesInv(h),
         NEW j \in LanJobs, LanAttempts(j)
  PROVE  LanAttempts(j)'
<1> USE StationAssumption
<1> DEFINE Kept == LanAttempts(j)'
<1>a. TypeOK /\ j \in Jobs /\ j \notin UsbJobs
  BY DEF StructureInv, UsbJobs, LanJobs
<1>b. /\ orders[j] \in Nat /\ row[j].attempts \in Nat
      /\ row[j].attempts <= orders[j] /\ \A h \in Handlers : txn[h].att \in Nat
  BY <1>a DEF TypeOK, Row, Txn, LanAttempts
<1>1. ASSUME NEW h \in Handlers, \A g \in Handlers : g # h => txn'[g] = txn[g],
             orders'[j] = orders[j], row'[j].attempts <= orders[j],
             j \in txn'[h].jobs => txn'[h].att <= orders[j] + One(txn'[h].at = "dispatching")
      PROVE  Kept
  BY <1>1 DEF LanAttempts
<1>2. ASSUME txn' = txn, orders'[j] = orders[j], row'[j].attempts <= orders[j] PROVE Kept
  BY <1>2 DEF LanAttempts
<1> HIDE DEF Kept
<1>3. ASSUME UNCHANGED vars PROVE Kept
  BY <1>2, <1>3, <1>b DEF vars
<1>4. ASSUME NEW h \in Handlers, NEW k \in Jobs, Enqueue(h, k) \/ Read(h, k) PROVE Kept
  <2>1. ASSUME EnqueueUsb(k) PROVE Kept
    <3>1. row'[j] = row[j] /\ orders'[j] = orders[j] /\ txn' = txn
      BY <1>a, <2>1 DEF EnqueueUsb, TypeOK
    <3> QED BY <1>2, <1>b, <3>1
  <2>2. ASSUME EnqueueLan(h, k) PROVE Kept
    <3>1. /\ \A g \in Handlers : g # h => txn'[g] = txn[g]
          /\ txn'[h].att = 1 /\ txn'[h].at = "dispatching"
      BY <1>a, <2>2 DEF EnqueueLan, TypeOK, Session, Counted, NoRow
    <3>2. row' = row /\ orders' = orders
      BY <2>2 DEF EnqueueLan
    <3> QED BY <1>1, <1>b, <3>1, <3>2 DEF One
  <2>3. ASSUME RetryRead(h, k) PROVE Kept
    <3>1. \A g \in Handlers : g # h => txn'[g] = txn[g]
      BY <1>a, <2>3 DEF RetryRead, TypeOK
    <3>2. row' = row /\ orders' = orders
      BY <2>3 DEF RetryRead
    <3>3. j \in txn'[h].jobs => /\ txn'[h].at = "dispatching"
                               /\ txn'[h].att = row[j].attempts + 1
      BY <1>a, <2>3 DEF RetryRead, TypeOK, Session, Counted
    <3> QED BY <1>1, <1>b, <3>1, <3>2, <3>3 DEF One
  <2>4. ASSUME CancelRead(h, k) PROVE Kept
    <3>1. (\A g \in Handlers : g # h => txn'[g] = txn[g]) /\ txn'[h].att = 0
      BY <1>a, <2>4 DEF CancelRead, TypeOK, Session
    <3>2. row' = row /\ orders' = orders
      BY <2>4 DEF CancelRead
    <3> QED BY <1>1, <1>b, <3>1, <3>2 DEF One
  <2> QED BY <1>4, <2>1, <2>2, <2>3, <2>4 DEF Enqueue, Read
<1>5. ASSUME NEW h \in Handlers, txn[h].at = "loaded", Commit(h), orders'[j] = orders[j]
      PROVE  Kept
  <2>1. /\ \A g \in Handlers : g # h => txn'[g] = txn[g]
        /\ txn'[h] = NoTxn
    BY <1>5, <1>a, CommitType
  <2> QED BY <1>1, <1>5, <1>a, <2>1, LanWritten DEF NoTxn, Session
<1>6. ASSUME NEW h \in Handlers, Serve(h) PROVE Kept
  <2>1. ASSUME PollRead(h) PROVE Kept
    <3>1. (\A g \in Handlers : g # h => txn'[g] = txn[g]) /\ txn'[h].att = 0
      BY <1>a, <2>1 DEF PollRead, TypeOK, Session
    <3>2. row' = row /\ orders' = orders
      BY <2>1 DEF PollRead
    <3> QED BY <1>1, <1>b, <3>1, <3>2 DEF One
  <2>2. ASSUME PollCommit(h) \/ AckCommit(h) PROVE Kept
    BY <1>5, <2>2 DEF PollCommit, AckCommit, In
  <2>3. ASSUME AckRead(h) PROVE Kept
    <3>1. /\ \A g \in Handlers : g # h => txn'[g] = txn[g]
          /\ txn'[h].jobs \subseteq txn[h].jobs
      BY <1>a, <2>3 DEF AckRead, TypeOK, Session
    <3>2. txn[h].jobs \subseteq UsbJobs
      BY <2>3 DEF AckRead, In, WritesInv
    <3>3. row' = row /\ orders' = orders
      BY <2>3 DEF AckRead
    <3> QED BY <1>1, <1>a, <1>b, <3>1, <3>2, <3>3
  <2> QED BY <1>6, <2>1, <2>2, <2>3 DEF Serve
<1>7. ASSUME NEW h \in Handlers, Rollback(h) PROVE Kept
  <2>1. (\A g \in Handlers : g # h => txn'[g] = txn[g]) /\ txn'[h].att = 0
    BY <1>a, <1>7 DEF Rollback, TypeOK, NoTxn, Session
  <2>2. row' = row /\ orders' = orders
    BY <1>7 DEF Rollback
  <2> QED BY <1>1, <1>b, <2>1, <2>2 DEF One
<1>8. ASSUME NEW h \in Handlers, EnqueueCommit(h) PROVE Kept
  <2>1. PICK k \in txn[h].jobs : row' = [row EXCEPT ![k] = Written(NoRow, txn[h])]
    BY <1>8 DEF EnqueueCommit
  <2>2. row'[j].attempts \in {row[j].attempts, 0} \/ (k = j /\ row'[j].attempts = txn[h].att)
    BY <1>a, <2>1 DEF TypeOK, Written, NoRow
  <2>3. txn[h].at = "loaded"
    BY <1>8 DEF EnqueueCommit, In
  <2>4. row'[j].attempts <= orders[j]
    BY <1>b, <2>2, <2>3 DEF LanAttempts, One
  <2>5. (\A g \in Handlers : g # h => txn'[g] = txn[g]) /\ txn'[h].jobs = {}
    BY <1>a, <1>8 DEF EnqueueCommit, TypeOK, NoTxn, Session
  <2>6. orders' = orders
    BY <1>8 DEF EnqueueCommit
  <2> QED BY <1>1, <2>4, <2>5, <2>6
<1>9. ASSUME NEW h \in Handlers, Finish(h) \/ HandlerFails(h) PROVE Kept
  <2>1. ASSUME RetryCommit(h) PROVE Kept
    BY <1>5, <1>a, <2>1 DEF RetryCommit, In
  <2>2. ASSUME CancelCommit(h) PROVE Kept
    BY <1>5, <2>2 DEF CancelCommit, In
  <2> QED BY <1>7, <1>8, <1>9, <2>1, <2>2 DEF Finish, HandlerFails, Refuse
<1>10. ASSUME NEW h \in Handlers, LanSend(h) PROVE Kept
  <2>1. PICK to \in Result, k \in txn[h].jobs :
          /\ txn' = [txn EXCEPT ![h] = [@ EXCEPT !.at = "loaded", !.to = to]]
          /\ orders' = [orders EXCEPT ![k] = @ + 1]
    BY <1>10 DEF LanSend
  <2>2. /\ \A g \in Handlers : g # h => txn'[g] = txn[g]
        /\ txn'[h].att = txn[h].att /\ txn'[h].jobs = txn[h].jobs /\ txn'[h].at = "loaded"
    BY <1>a, <2>1 DEF TypeOK, Txn
  <2>3. row' = row /\ txn[h].at = "dispatching"
    BY <1>10 DEF LanSend
  <2>4. CASE k = j
    <3>1. orders'[j] = orders[j] + 1
      BY <1>a, <2>1, <2>4 DEF TypeOK
    <3>2. ASSUME NEW g \in Handlers, j \in txn'[g].jobs
          PROVE  txn'[g].att <= orders'[j] + One(txn'[g].at = "dispatching")
      <4>1. CASE g = h
        BY <1>b, <2>2, <2>3, <3>1, <3>2, <4>1 DEF LanAttempts, One
      <4>2. CASE g # h
        BY <1>b, <2>2, <3>1, <3>2, <4>2 DEF LanAttempts, One
      <4> QED BY <4>1, <4>2
    <3>3. row'[j].attempts <= orders'[j]
      BY <1>b, <2>3, <3>1
    <3> QED BY <3>2, <3>3 DEF Kept, LanAttempts
  <2>5. CASE k # j
    <3>1. txn[h].jobs = {k}
      BY <1>10, <2>1 DEF LanSend, StructureInv, SessionInv
    <3>2. orders'[j] = orders[j] /\ j \notin txn'[h].jobs
      BY <1>a, <2>1, <2>2, <2>5, <3>1 DEF TypeOK
    <3> QED BY <1>1, <1>b, <2>2, <2>3, <3>2
  <2> QED BY <2>4, <2>5
<1>11. ASSUME NEW s \in UsbStations, AgentPrint(s) \/ AgentDropsOut(s) PROVE Kept
  BY <1>2, <1>11, <1>b DEF AgentPrint, AgentDropsOut
<1>12. ASSUME NEW s \in UsbStations, NEW h \in Handlers, AgentCall(s, h) PROVE Kept
  <2>1. (\A g \in Handlers : g # h => txn'[g] = txn[g]) /\ txn'[h].att = 0
    BY <1>a, <1>12 DEF AgentCall, AgentPoll, AgentAck, TypeOK, Session
  <2>2. row' = row /\ orders' = orders
    BY <1>12 DEF AgentCall, AgentPoll, AgentAck
  <2> QED BY <1>1, <1>b, <2>1, <2>2 DEF One
<1>13. ASSUME NEW s \in Stations, DeleteStation(s) PROVE Kept
  BY <1>2, <1>13, <1>a, <1>b DEF DeleteStation, NoRow
<1>14. Kept
  BY <1>3, <1>4, <1>6, <1>9, <1>10, <1>11, <1>12, <1>13 DEF Next, Work, Faults
<1> QED
  BY <1>14 DEF Kept

-----------------------------------------------------------------------------
(* Attempts are ordered. *)

LEMMA InitAttempts == Init => AttemptsInv
<1> SUFFICES ASSUME Init PROVE AttemptsInv
  OBVIOUS
<1>1. \A h \in Handlers : txn[h] = NoTxn
  BY DEF Init
<1>2. \A h \in Handlers : WritesInv(h)
  BY <1>1 DEF WritesInv, NoTxn, Session, In
<1>3. ASSUME NEW j \in UsbJobs PROVE UsbAttempts(j)
  <2>1. j \in Jobs
    BY DEF UsbJobs
  <2>2. ArrivedAcks(j) = {}
    BY <1>1 DEF ArrivedAcks, NoTxn, Session, In
  <2>3. Cardinality(ArrivedAcks(j)) = 0
    BY <2>2, FS_EmptySet
  <2>4. ~PrintedBy(j) /\ ~InHand(j) /\ ~Claimable(j)
    BY <2>1 DEF Init, PrintedBy, InHand, Claimable, IdleAgent, Loop, NoRow
  <2>5. row[j].attempts = 0 /\ orders[j] = 0
    BY <2>1 DEF Init, NoRow
  <2>6. row[j].attempts + Pending(j) <= orders[j]
    BY <2>3, <2>4, <2>5 DEF Pending, One
  <2> QED BY <1>1, <2>6 DEF UsbAttempts, NoTxn, Session, In
<1>4. ASSUME NEW j \in LanJobs PROVE LanAttempts(j)
  BY <1>1 DEF Init, LanAttempts, LanJobs, NoTxn, NoRow, Session, One
<1> QED
  BY <1>2, <1>3, <1>4 DEF AttemptsInv

LEMMA NextAttempts == StructureInv /\ AttemptsInv /\ [Next]_vars => AttemptsInv'
BY NextWrites, NextUsbAttempts, NextLanAttempts DEF AttemptsInv, UsbJobs, LanJobs

\* What the account says of the rows.
LEMMA AttemptsOrdered == StructureInv /\ AttemptsInv => AttemptsWithinOrders
<1> SUFFICES ASSUME StructureInv, AttemptsInv, NEW j \in Jobs PROVE row[j].attempts <= orders[j]
  BY DEF AttemptsWithinOrders
<1>1. row[j].attempts \in Nat /\ orders[j] \in Nat
  BY DEF StructureInv, TypeOK, Row
<1>2. CASE j \in UsbJobs
  BY <1>1, <1>2, PendingType DEF AttemptsInv, UsbAttempts
<1>3. CASE j \in LanJobs
  BY <1>3 DEF AttemptsInv, LanAttempts
<1> QED
  BY <1>2, <1>3, StationAssumption DEF UsbJobs, LanJobs, Stations

\* In every state each job's row, the acks that are being stored and the copies that
\* will still be acknowledged have between them no more attempts than orders.
THEOREM AttemptsInvariant == Spec => [](StructureInv /\ AttemptsInv)
<1>1. Init => StructureInv /\ AttemptsInv
  BY InitStructure, InitAttempts
<1>2. StructureInv /\ AttemptsInv /\ [Next]_vars => (StructureInv /\ AttemptsInv)'
  BY NextStructure, NextAttempts
<1> QED
  BY <1>1, <1>2, PTL DEF Spec

\* The attempts column never claims more attempts than were ordered, however acks,
\* retries and dispatches overwrite each other's count.
THEOREM AttemptsWithinOrdersHolds == Spec => []AttemptsWithinOrders
BY AttemptsInvariant, AttemptsOrdered, PTL

-----------------------------------------------------------------------------
(* A settled job. *)

\* It stays settled while its row gets only outcomes, and no agent and no poll gets it.
LEMMA SettledKept ==
  ASSUME NEW j, Settled(j),
         row'[j].status \in {row[j].status, "printed", "failed", "cancelled"},
         \A s \in UsbStations : j \in agent'[s].todo => j \in agent[s].todo,
         \A h \in Handlers : txn'[h].kind = "poll" /\ j \in txn'[h].jobs
           => txn[h].kind = "poll" /\ j \in txn[h].jobs
  PROVE  Settled(j)'
BY DEF Settled

\* What the commit of a request other than a poll writes over an outcome: an outcome,
\* unless it is a retry that puts the job back on the queue.
LEMMA OutcomeWritten ==
  ASSUME TypeOK, NEW h \in Handlers, WritesInv(h), Commit(h),
         txn[h].kind \in {"ack", "retry", "cancel"}, txn[h].at = "loaded", NEW j \in Jobs,
         ~(txn[h].kind = "retry" /\ j \in txn[h].jobs \cap UsbJobs /\ txn[h].from # "queued")
  PROVE  row'[j].status \in {row[j].status, "printed", "failed", "cancelled"}
<1>1. CASE j \notin txn[h].jobs
  BY <1>1 DEF Commit
<1>2. CASE j \in txn[h].jobs
  <2>1. row'[j].status = IF txn[h].to = txn[h].from THEN row[j].status ELSE txn[h].to
    BY <1>2 DEF Commit, Written
  <2>2. txn[h].to \in {"printed", "failed", "cancelled"} \/ txn[h].to = txn[h].from
    BY <1>2, StationAssumption DEF WritesInv, Result, UsbJobs, LanJobs
  <2> QED BY <2>1, <2>2
<1> QED
  BY <1>1, <1>2

LEMMA StepKeepsSettled ==
  ASSUME StructureInv, AttemptsInv, [Next]_vars, NEW j \in Jobs, Settled(j),
         orders'[j] = orders[j]
  PROVE  paper'[j] = paper[j] /\ (Settled(j)' \/ ~Exists(j)')
<1> USE StationAssumption
<1> DEFINE Kept == paper'[j] = paper[j] /\ (Settled(j)' \/ ~Exists(j)')
<1>a. TypeOK /\ \A h \in Handlers : WritesInv(h)
  BY DEF StructureInv, AttemptsInv
<1>b. orders[j] \in Nat
  BY <1>a DEF TypeOK
<1>c. row[j].status \notin {"queued", "absent"} /\ \A s \in UsbStations : j \notin agent[s].todo
  BY DEF Settled
<1>1. ASSUME row' = row, paper' = paper,
             \A s \in UsbStations : j \in agent'[s].todo => j \in agent[s].todo,
             \A h \in Handlers : txn'[h].kind = "poll" /\ j \in txn'[h].jobs
               => txn[h].kind = "poll" /\ j \in txn[h].jobs
      PROVE  Kept
  BY <1>1, SettledKept
<1>2. ASSUME NEW h \in Handlers, Commit(h), txn[h].kind \in {"ack", "retry", "cancel"},
             txn[h].at = "loaded",
             ~(txn[h].kind = "retry" /\ j \in txn[h].jobs \cap UsbJobs /\ txn[h].from # "queued"),
             paper' = paper, \A s \in UsbStations : j \in agent'[s].todo => j \in agent[s].todo
      PROVE  Kept
  <2>1. txn'[h] = NoTxn /\ \A g \in Handlers : g # h => txn'[g] = txn[g]
    BY <1>2, <1>a, CommitType
  <2>2. \A g \in Handlers : txn'[g].kind = "poll" => txn'[g] = txn[g]
    BY <2>1 DEF NoTxn, Session
  <2> QED BY <1>2, <1>a, <2>2, OutcomeWritten, SettledKept
<1> HIDE DEF Kept
<1>3. ASSUME UNCHANGED vars PROVE Kept
  BY <1>1, <1>3 DEF vars
<1>4. ASSUME NEW h \in Handlers, NEW k \in Jobs, Enqueue(h, k) \/ Read(h, k) PROVE Kept
  <2>1. ASSUME EnqueueUsb(k) PROVE Kept
    <3>1. k # j
      BY <1>a, <1>b, <2>1 DEF EnqueueUsb, TypeOK
    <3>2. row'[j] = row[j] /\ UNCHANGED <<txn, agent, paper>>
      BY <1>a, <2>1, <3>1 DEF EnqueueUsb, TypeOK
    <3> QED BY <3>2, SettledKept DEF Kept
  <2>2. ASSUME EnqueueLan(h, k) PROVE Kept
    BY <1>1, <1>a, <2>2 DEF EnqueueLan, TypeOK, Session
  <2>3. ASSUME RetryRead(h, k) PROVE Kept
    <3>1. \A g \in Handlers : txn'[g].kind = "poll" => txn'[g] = txn[g]
      BY <1>a, <2>3 DEF RetryRead, TypeOK, Session
    <3> QED BY <1>1, <2>3, <3>1 DEF RetryRead
  <2>4. ASSUME CancelRead(h, k) PROVE Kept
    BY <1>1, <1>a, <2>4 DEF CancelRead, TypeOK, Session
  <2> QED BY <1>4, <2>1, <2>2, <2>3, <2>4 DEF Enqueue, Read
<1>5. ASSUME NEW h \in Handlers, Serve(h) PROVE Kept
  <2>1. ASSUME PollRead(h) PROVE Kept
    <3>1. /\ \A g \in Handlers : g # h => txn'[g] = txn[g]
          /\ j \notin txn'[h].jobs
      BY <1>a, <1>c, <2>1 DEF PollRead, TypeOK, Session, Pollable
    <3> QED BY <1>1, <2>1, <3>1 DEF PollRead
  <2>2. ASSUME PollCommit(h) PROVE Kept
    <3>1. j \notin txn[h].jobs
      BY <2>2 DEF PollCommit, In, Settled
    <3>2. \A s \in UsbStations : j \in agent'[s].todo => j \in agent[s].todo
      BY <2>2, <3>1 DEF PollCommit, NextJob, IdleAgent, Loop
    <3>3. row'[j] = row[j] /\ txn'[h] = NoTxn /\ \A g \in Handlers : g # h => txn'[g] = txn[g]
      BY <1>a, <2>2, <3>1, CommitType DEF PollCommit
    <3>4. \A g \in Handlers : txn'[g].kind = "poll" => txn'[g] = txn[g]
      BY <3>3 DEF NoTxn, Session
    <3>5. paper' = paper
      BY <2>2 DEF PollCommit
    <3> QED BY <3>2, <3>3, <3>4, <3>5, SettledKept DEF Kept
  <2>3. ASSUME AckRead(h) PROVE Kept
    <3>1. \A g \in Handlers : txn'[g].kind = "poll" => txn'[g] = txn[g]
      BY <1>a, <2>3 DEF AckRead, TypeOK, Session
    <3> QED BY <1>1, <2>3, <3>1 DEF AckRead
  <2>4. ASSUME AckCommit(h) PROVE Kept
    <3>1. \A s \in UsbStations : j \in agent'[s].todo => j \in agent[s].todo
      BY <2>4 DEF AckCommit, NextJob, IdleAgent, Loop
    <3> QED BY <1>2, <2>4, <3>1 DEF AckCommit, In
  <2> QED BY <1>5, <2>1, <2>2, <2>3, <2>4 DEF Serve
<1>6. ASSUME NEW h \in Handlers, Rollback(h) PROVE Kept
  <2>1. \A s \in UsbStations : j \in agent'[s].todo => j \in agent[s].todo
    BY <1>6 DEF Rollback, IdleAgent, Loop
  <2>2. \A g \in Handlers : txn'[g].kind = "poll" => txn'[g] = txn[g]
    BY <1>6, <1>a DEF Rollback, TypeOK, NoTxn, Session
  <2> QED BY <1>1, <1>6, <2>1, <2>2 DEF Rollback
<1>7. ASSUME NEW h \in Handlers, EnqueueCommit(h) PROVE Kept
  <2>1. PICK k \in txn[h].jobs : row' = [row EXCEPT ![k] = Written(NoRow, txn[h])]
    BY <1>7 DEF EnqueueCommit
  <2>2. txn[h].to \in Result
    BY <1>7, <1>a, <2>1 DEF EnqueueCommit, In, WritesInv
  <2>3. row'[j].status \in {row[j].status, "absent", "printed", "failed"}
    BY <1>a, <2>1, <2>2 DEF TypeOK, Written, NoRow, Result
  <2>4. \A g \in Handlers : txn'[g].kind = "poll" => txn'[g] = txn[g]
    BY <1>7, <1>a DEF EnqueueCommit, TypeOK, NoTxn, Session
  <2>5. UNCHANGED <<agent, paper>>
    BY <1>7 DEF EnqueueCommit
  <2>6. CASE row'[j].status = "absent"
    BY <2>5, <2>6 DEF Kept, Exists
  <2>7. CASE row'[j].status # "absent"
    BY <2>3, <2>4, <2>5, <2>7, SettledKept DEF Kept
  <2> QED BY <2>6, <2>7
<1>8. ASSUME NEW h \in Handlers, Finish(h) \/ HandlerFails(h) PROVE Kept
  <2>1. ASSUME RetryCommit(h) PROVE Kept
    <3>1. ~(j \in txn[h].jobs \cap UsbJobs /\ txn[h].from # "queued")
      BY <2>1, <1>b DEF RetryCommit
    <3> QED BY <1>2, <2>1, <3>1 DEF RetryCommit, In
  <2>2. ASSUME CancelCommit(h) PROVE Kept
    BY <1>2, <2>2 DEF CancelCommit, In
  <2> QED BY <1>6, <1>7, <1>8, <2>1, <2>2 DEF Finish, HandlerFails, Refuse
<1>9. ASSUME NEW h \in Handlers, LanSend(h) PROVE Kept
  <2>1. PICK to \in Result, delivered \in {0, 1}, k \in txn[h].jobs :
          /\ txn' = [txn EXCEPT ![h] = [@ EXCEPT !.at = "loaded", !.to = to]]
          /\ orders' = [orders EXCEPT ![k] = @ + 1]
          /\ paper' = [paper EXCEPT ![k] = @ + delivered]
    BY <1>9 DEF LanSend
  <2>2. k # j
    BY <1>a, <1>b, <2>1 DEF TypeOK
  <2>3. paper'[j] = paper[j]
    BY <1>a, <2>1, <2>2 DEF TypeOK
  <2>4. \A g \in Handlers : txn'[g].kind = txn[g].kind /\ txn'[g].jobs = txn[g].jobs
    BY <1>a, <2>1 DEF TypeOK, Txn
  <2>5. row' = row /\ agent' = agent
    BY <1>9 DEF LanSend
  <2> QED BY <2>3, <2>4, <2>5, SettledKept DEF Kept
<1>10. ASSUME NEW s \in UsbStations, AgentPrint(s) PROVE Kept
  <2>1. PICK k \in agent[s].todo, result \in Result, delivered \in {0, 1} :
          /\ agent' = [agent EXCEPT ![s] =
                         Loop("printed", @.todo \ {k}, k, result, NoHandler)]
          /\ paper' = [paper EXCEPT ![k] = @ + delivered]
    BY <1>10 DEF AgentPrint
  <2>2. paper'[j] = paper[j]
    BY <1>a, <1>c, <2>1 DEF TypeOK
  <2>3. \A t \in UsbStations : j \in agent'[t].todo => j \in agent[t].todo
    BY <1>a, <2>1 DEF TypeOK, Loop
  <2>4. row' = row /\ txn' = txn
    BY <1>10 DEF AgentPrint
  <2> QED BY <2>2, <2>3, <2>4, SettledKept DEF Kept
<1>11. ASSUME NEW s \in UsbStations, AgentDropsOut(s) PROVE Kept
  BY <1>1, <1>11, <1>a DEF AgentDropsOut, TypeOK, IdleAgent, Loop
<1>12. ASSUME NEW s \in UsbStations, NEW h \in Handlers, AgentCall(s, h) PROVE Kept
  <2>1. ASSUME AgentPoll(s, h) PROVE Kept
    BY <1>1, <1>a, <2>1 DEF AgentPoll, TypeOK, Loop, Session
  <2>2. ASSUME AgentAck(s, h) PROVE Kept
    BY <1>1, <1>a, <2>2 DEF AgentAck, TypeOK, Agent, Session
  <2> QED BY <1>12, <2>1, <2>2 DEF AgentCall
<1>13. ASSUME NEW s \in Stations, DeleteStation(s) PROVE Kept
  <2>1. UNCHANGED <<txn, agent, paper>> /\ row'[j] \in {row[j], NoRow}
    BY <1>13 DEF DeleteStation
  <2> QED BY <2>1, SettledKept DEF Kept, Exists, NoRow
<1>14. Kept
  BY <1>3, <1>4, <1>5, <1>8, <1>9, <1>10, <1>11, <1>12, <1>13 DEF Next, Work, Faults
<1> QED
  BY <1>14 DEF Kept

\* A job with an outcome that nobody has in hand stays that way and prints nothing until
\* it is ordered again: acks, cancels and polls in flight cannot reopen it.
THEOREM SettledUntilOrderedHolds == Spec => SettledUntilOrdered
<1>1. StructureInv /\ AttemptsInv /\ [Next]_vars
        => [\A j \in Jobs :
              Settled(j) /\ orders'[j] = orders[j]
                => /\ paper'[j] = paper[j]
                   /\ Settled(j)' \/ ~Exists(j)']_vars
  BY StepKeepsSettled
<1> QED
  BY <1>1, AttemptsInvariant, PTL DEF Spec, SettledUntilOrdered

-----------------------------------------------------------------------------
(* Who still reports on a sent job. *)

\* An agent that waits for an ack's answer waits for the ack of the job it printed.
AckedInv(s) ==
  agent[s].pc = "acking" => agent[s].via \in Handlers /\ txn[agent[s].via].jobs = {agent[s].cur}
\* An ack is of one job, of its station, that was ordered.
ReportedInv(h) ==
  txn[h].kind = "ack" =>
    \A j \in txn[h].jobs : /\ orders[j] > 0 /\ StationOf[j] = txn[h].station
                           /\ txn[h].jobs = {j}
\* Rows go with their station, and only with it.
RowInv(j) == (StationOf[j] \in stations => (orders[j] > 0 => Exists(j)))
             /\ (StationOf[j] \notin stations => ~Exists(j))

TrackInv ==
  /\ \A s \in UsbStations : AckedInv(s)
  /\ \A h \in Handlers : ReportedInv(h)
  /\ \A j \in UsbJobs : RowInv(j)

LEMMA InitTrack == Init => TrackInv
<1> SUFFICES ASSUME Init PROVE TrackInv
  OBVIOUS
<1>1. \A s \in UsbStations : AckedInv(s)
  BY DEF Init, AckedInv, IdleAgent, Loop
<1>2. \A h \in Handlers : ReportedInv(h)
  BY DEF Init, ReportedInv, NoTxn, Session
<1>3. \A j \in UsbJobs : RowInv(j)
  BY StationAssumption DEF Init, RowInv, UsbJobs, Stations, Exists, NoRow
<1> QED
  BY <1>1, <1>2, <1>3 DEF TrackInv

\* The answer to a session reaches its caller, who goes on; other agents still wait for
\* the sessions they waited for.
LEMMA AnsweredAcked ==
  ASSUME StructureInv, \A s \in UsbStations : AckedInv(s), NEW h \in Handlers,
         \A g \in Handlers : g # h => txn'[g] = txn[g],
         \A s \in UsbStations : \/ agent'[s].pc # "acking"
                                \/ agent'[s] = agent[s] /\ (agent[s].via = h => txn[h].kind # "ack")
  PROVE  \A s \in UsbStations : AckedInv(s)'
<1> SUFFICES ASSUME NEW s \in UsbStations, agent'[s].pc = "acking"
             PROVE  agent'[s].via \in Handlers /\ txn'[agent'[s].via].jobs = {agent'[s].cur}
  BY DEF AckedInv
<1>1. agent'[s] = agent[s] /\ (agent[s].via = h => txn[h].kind # "ack")
  OBVIOUS
<1>2. agent[s].via \in Handlers /\ txn[agent[s].via].jobs = {agent[s].cur}
  BY <1>1 DEF AckedInv
<1>3. txn[agent[s].via].kind = "ack"
  BY <1>1, <1>2 DEF StructureInv, CallInv
<1> QED
  BY <1>1, <1>2, <1>3

LEMMA NextAcked ==
  ASSUME StructureInv, [Next]_vars, \A s \in UsbStations : AckedInv(s)
  PROVE  \A s \in UsbStations : AckedInv(s)'
<1> DEFINE Kept == \A s \in UsbStations : AckedInv(s)'
<1>a. TypeOK
  BY DEF StructureInv
<1>1. ASSUME txn' = txn, \A s \in UsbStations : agent'[s].pc = "acking" => agent'[s] = agent[s]
      PROVE  Kept
  BY <1>1 DEF AckedInv
<1>2. ASSUME NEW h \in Handlers, \A g \in Handlers : g # h => txn'[g] = txn[g],
             \A s \in UsbStations : \/ agent'[s].pc # "acking"
                                    \/ agent'[s] = agent[s] /\ (agent[s].via = h => txn[h].kind # "ack")
      PROVE  Kept
  BY <1>2, AnsweredAcked
<1>3. ASSUME NEW h \in Handlers, \A g \in Handlers : g # h => txn'[g] = txn[g],
             \A s \in UsbStations : agent'[s].pc # "acking" \/ (agent'[s] = agent[s] /\ agent[s].via # h)
      PROVE  Kept
  BY <1>2, <1>3
<1> HIDE DEF Kept
<1>4. ASSUME UNCHANGED vars PROVE Kept
  BY <1>1, <1>4 DEF vars
<1>5. ASSUME NEW h \in Handlers, NEW k \in Jobs, Enqueue(h, k) \/ Read(h, k) PROVE Kept
  <2>1. ASSUME EnqueueUsb(k) PROVE Kept
    BY <1>1, <2>1 DEF EnqueueUsb
  <2>2. ASSUME EnqueueLan(h, k) \/ RetryRead(h, k) \/ CancelRead(h, k) PROVE Kept
    <3>1. (\A g \in Handlers : g # h => txn'[g] = txn[g]) /\ agent' = agent /\ txn[h].kind = "none"
      BY <1>a, <2>2 DEF EnqueueLan, RetryRead, CancelRead, TypeOK, Free
    <3> QED BY <1>2, <3>1
  <2> QED BY <1>5, <2>1, <2>2 DEF Enqueue, Read
<1>6. ASSUME NEW h \in Handlers, Rollback(h) PROVE Kept
  <2>1. \A s \in UsbStations : agent'[s].pc # "acking" \/ (agent'[s] = agent[s] /\ agent[s].via # h)
    BY <1>6 DEF Rollback, Caller, IdleAgent, Loop
  <2>2. \A g \in Handlers : g # h => txn'[g] = txn[g]
    BY <1>6, <1>a DEF Rollback, TypeOK
  <2> QED BY <1>3, <2>1, <2>2
<1>7. ASSUME NEW h \in Handlers, PollCommit(h) \/ AckCommit(h) PROVE Kept
  <2>1. \A s \in UsbStations : agent'[s].pc # "acking" \/ (agent'[s] = agent[s] /\ agent[s].via # h)
    BY <1>7 DEF PollCommit, AckCommit, Caller, NextJob, IdleAgent, Loop
  <2>2. \A g \in Handlers : g # h => txn'[g] = txn[g]
    BY <1>7, <1>a, CommitType DEF PollCommit, AckCommit
  <2> QED BY <1>3, <2>1, <2>2
<1>8. ASSUME NEW h \in Handlers, PollRead(h) \/ LanSend(h) \/ EnqueueCommit(h) PROVE Kept
  <2>1. (\A g \in Handlers : g # h => txn'[g] = txn[g]) /\ agent' = agent
    BY <1>8, <1>a, ZenonT(60) DEF PollRead, LanSend, EnqueueCommit, TypeOK
  <2>2. txn[h].kind # "ack"
    BY <1>8 DEF PollRead, LanSend, EnqueueCommit, In, StructureInv, SessionInv
  <2> QED BY <1>2, <2>1, <2>2, SMTT(40)
<1>9. ASSUME NEW h \in Handlers, RetryCommit(h) \/ CancelCommit(h) PROVE Kept
  <2>1. \A g \in Handlers : g # h => txn'[g] = txn[g]
    BY <1>9, <1>a, CommitType DEF RetryCommit, CancelCommit
  <2>2. txn[h].kind # "ack" /\ agent' = agent
    BY <1>9 DEF RetryCommit, CancelCommit, In
  <2> QED BY <1>2, <2>1, <2>2
<1>10. ASSUME NEW h \in Handlers, AckRead(h) PROVE Kept
  <2>1. PICK k \in txn[h].jobs :
          txn' = [txn EXCEPT ![h] = Session("ack", "loaded", @.station, {k}, row[k].status, @.to,
                                            Counted(row[k]))]
    BY <1>10 DEF AckRead
  <2>2. (\A g \in Handlers : g # h => txn'[g] = txn[g]) /\ txn'[h].jobs = {k} /\ agent' = agent
    BY <1>10, <1>a, <2>1 DEF AckRead, TypeOK, Session
  <2> QED BY <2>2 DEF Kept, AckedInv
<1>11. ASSUME NEW s \in UsbStations, NEW h \in Handlers, AgentCall(s, h) PROVE Kept
  <2>1. ASSUME AgentPoll(s, h) PROVE Kept
    <3>1. (\A g \in Handlers : g # h => txn'[g] = txn[g]) /\ txn[h].kind = "none"
      BY <2>1, <1>a DEF AgentPoll, TypeOK, Free
    <3>2. \A t \in UsbStations : agent'[t].pc # "acking" \/ agent'[t] = agent[t]
      BY <2>1, <1>a DEF AgentPoll, TypeOK, Loop
    <3> QED BY <1>2, <3>1, <3>2
  <2>2. ASSUME AgentAck(s, h) PROVE Kept
    <3>1. /\ \A g \in Handlers : g # h => txn'[g] = txn[g]
          /\ txn'[h].jobs = {agent[s].cur} /\ txn[h].kind = "none"
      BY <2>2, <1>a DEF AgentAck, TypeOK, Session, Free
    <3>2. /\ agent'[s].via = h /\ agent'[s].cur = agent[s].cur
          /\ \A t \in UsbStations : t # s => agent'[t] = agent[t]
      BY <2>2, <1>a DEF AgentAck, TypeOK, Agent
    <3>3. ASSUME NEW t \in UsbStations, t # s PROVE AckedInv(t)'
      BY <3>1, <3>2, <3>3 DEF AckedInv, StructureInv, CallInv
    <3>4. AckedInv(s)'
      BY <3>1, <3>2 DEF AckedInv
    <3> QED BY <3>3, <3>4 DEF Kept
  <2> QED BY <1>11, <2>1, <2>2 DEF AgentCall
<1>12. ASSUME NEW s \in UsbStations, AgentPrint(s) \/ AgentDropsOut(s) PROVE Kept
  <2>1. txn' = txn /\ \A t \in UsbStations : agent'[t].pc = "acking" => agent'[t] = agent[t]
    BY <1>12, <1>a DEF AgentPrint, AgentDropsOut, TypeOK, IdleAgent, Loop
  <2> QED BY <1>1, <2>1
<1>13. ASSUME NEW s \in Stations, DeleteStation(s) PROVE Kept
  BY <1>1, <1>13 DEF DeleteStation
<1>14. Kept
  BY <1>4, <1>5, <1>6, <1>7, <1>8, <1>9, <1>10, <1>11, <1>12, <1>13, SMTT(40)
     DEF Next, Work, Faults, Serve, Finish, Refuse, HandlerFails
<1> QED
  BY <1>14 DEF Kept

LEMMA OrdersGrow ==
  ASSUME StructureInv, [Next]_vars, NEW j \in Jobs
  PROVE  orders'[j] \in Nat /\ orders'[j] >= orders[j]
<1>a. orders \in [Jobs -> Nat]
  BY DEF StructureInv, TypeOK
<1>1. ASSUME NEW h \in Handlers, LanSend(h) PROVE orders'[j] \in Nat /\ orders'[j] >= orders[j]
  BY <1>a, <1>1 DEF LanSend
<1>2. ASSUME NEW h \in Handlers, RetryCommit(h)
      PROVE  orders'[j] \in Nat /\ orders'[j] >= orders[j]
  BY <1>a, <1>2 DEF RetryCommit
<1>3. ASSUME NEW k \in Jobs, EnqueueUsb(k) PROVE orders'[j] \in Nat /\ orders'[j] >= orders[j]
  BY <1>a, <1>3 DEF EnqueueUsb
<1>4. CASE UNCHANGED orders
  BY <1>a, <1>4
<1> QED
  BY <1>1, <1>2, <1>3, <1>4
     DEF Next, vars, Work, Faults, Enqueue, Read, Serve, Finish, AgentCall, Refuse, HandlerFails,
         EnqueueLan, EnqueueCommit, AgentPoll, PollRead, PollCommit, AgentPrint, AgentAck, AckRead,
         AckCommit, AgentDropsOut, RetryRead, CancelRead, CancelCommit, DeleteStation, Rollback

LEMMA NextReported ==
  ASSUME StructureInv, AttemptsInv, [Next]_vars, \A h \in Handlers : ReportedInv(h)
  PROVE  \A h \in Handlers : ReportedInv(h)'
<1> DEFINE Kept == \A h \in Handlers : ReportedInv(h)'
<1>a. TypeOK
  BY DEF StructureInv
<1>b. ASSUME NEW h \in Handlers, NEW j \in txn[h].jobs, orders[j] > 0 PROVE orders'[j] > 0
  <2>1. j \in Jobs
    BY <1>a DEF TypeOK, Txn
  <2>2. orders[j] \in Nat
    BY <1>a, <2>1 DEF TypeOK
  <2> QED BY <1>b, <2>1, <2>2, OrdersGrow
<1>1. ASSUME \A h \in Handlers : txn'[h].kind = "ack" =>
               /\ txn[h].kind = "ack" /\ txn'[h].station = txn[h].station
               /\ txn'[h].jobs = txn[h].jobs
      PROVE  Kept
  BY <1>1, <1>b DEF ReportedInv
<1> HIDE DEF Kept
<1>2. ASSUME UNCHANGED txn PROVE Kept
  BY <1>1, <1>2
<1>3. ASSUME NEW h \in Handlers, Commit(h) \/ Rollback(h) \/ EnqueueCommit(h) PROVE Kept
  BY <1>1, <1>3, <1>a DEF Commit, Rollback, EnqueueCommit, TypeOK, NoTxn, Session
<1>4. ASSUME NEW h \in Handlers, NEW k \in Jobs, EnqueueLan(h, k) \/ RetryRead(h, k) \/ CancelRead(h, k)
      PROVE  Kept
  BY <1>1, <1>4, <1>a DEF EnqueueLan, RetryRead, CancelRead, TypeOK, Session
<1>5. ASSUME NEW h \in Handlers, PollRead(h) PROVE Kept
  BY <1>1, <1>5, <1>a DEF PollRead, TypeOK, Session
<1>6. ASSUME NEW h \in Handlers, LanSend(h) PROVE Kept
  <2>1. PICK to \in Result : txn' = [txn EXCEPT ![h] = [@ EXCEPT !.at = "loaded", !.to = to]]
    BY <1>6 DEF LanSend
  <2> QED BY <1>1, <1>a, <2>1 DEF TypeOK, Txn
<1>7. ASSUME NEW h \in Handlers, AckRead(h) PROVE Kept
  <2>1. PICK k \in txn[h].jobs :
          txn' = [txn EXCEPT ![h] = Session("ack", "loaded", @.station, {k}, row[k].status, @.to,
                                            Counted(row[k]))]
    BY <1>7 DEF AckRead
  <2>2. txn[h].kind = "ack" /\ txn[h].jobs = {k}
    BY <1>7 DEF AckRead, In, ReportedInv
  <2> QED BY <1>1, <1>a, <2>1, <2>2 DEF TypeOK, Session
<1>8. ASSUME NEW s \in UsbStations, NEW h \in Handlers, AgentPoll(s, h) PROVE Kept
  BY <1>1, <1>8, <1>a DEF AgentPoll, TypeOK, Session
<1>9. ASSUME NEW s \in UsbStations, NEW h \in Handlers, AgentAck(s, h) PROVE Kept
  <2>1. /\ \A g \in Handlers : g # h => txn'[g] = txn[g]
        /\ txn'[h].jobs = {agent[s].cur} /\ txn'[h].station = s
    BY <1>9, <1>a DEF AgentAck, TypeOK, Session
  <2>2. agent[s].cur \in UsbJobs /\ StationOf[agent[s].cur] = s
    BY <1>9 DEF AgentAck, StructureInv, AgentInv, UsbJobs
  <2>3. PrintedBy(agent[s].cur)
    BY <1>9 DEF AgentAck, PrintedBy
  <2>4. Pending(agent[s].cur) >= 1
    BY <2>3, PendingType DEF Pending, One
  <2>5. orders[agent[s].cur] \in Nat /\ row[agent[s].cur].attempts \in Nat
    BY <1>a, <2>2 DEF TypeOK, Row, UsbJobs
  <2>6. row[agent[s].cur].attempts + Pending(agent[s].cur) <= orders[agent[s].cur]
    BY <2>2 DEF AttemptsInv, UsbAttempts
  <2>7. orders[agent[s].cur] > 0
    BY <2>4, <2>5, <2>6, PendingType
  <2>8. orders' = orders
    BY <1>9 DEF AgentAck
  <2> QED BY <2>1, <2>2, <2>7, <2>8 DEF Kept, ReportedInv
<1>10. Kept
  BY <1>2, <1>3, <1>4, <1>5, <1>6, <1>7, <1>8, <1>9
     DEF Next, vars, Work, Faults, Enqueue, Read, Serve, Finish, AgentCall, Refuse, HandlerFails,
         EnqueueUsb, PollCommit, AckCommit, RetryCommit, CancelCommit, AgentPrint, AgentDropsOut,
         DeleteStation
<1> QED
  BY <1>10 DEF Kept

\* A commit leaves every row where it is.
LEMMA CommitKeepsRows ==
  ASSUME StructureInv, NEW h \in Handlers, WritesInv(h), Commit(h),
         txn[h].kind \in {"poll", "ack", "retry", "cancel"}, txn[h].at = "loaded",
         NEW j \in Jobs
  PROVE  Exists(j)' <=> Exists(j)
<1>1. CASE j \notin txn[h].jobs
  BY <1>1 DEF Commit, Exists
<1>2. CASE j \in txn[h].jobs
  <2>1. Exists(j)
    BY <1>2 DEF Commit
  <2>2. row'[j].status = IF txn[h].to = txn[h].from THEN row[j].status ELSE txn[h].to
    BY <1>2 DEF Commit, Written
  <2>3. txn[h].to # "absent"
    BY <1>2 DEF WritesInv, StructureInv, SessionInv, Result
  <2> QED BY <2>1, <2>2, <2>3 DEF Exists
<1> QED
  BY <1>1, <1>2

LEMMA NextRows ==
  ASSUME StructureInv, AttemptsInv, [Next]_vars, NEW j \in UsbJobs, RowInv(j)
  PROVE  RowInv(j)'
<1> USE StationAssumption
<1> DEFINE Kept == RowInv(j)'
<1>a. TypeOK /\ j \in Jobs /\ j \notin LanJobs /\ \A h \in Handlers : WritesInv(h)
  BY DEF StructureInv, AttemptsInv, UsbJobs, LanJobs
<1>b. orders[j] \in Nat
  BY <1>a DEF TypeOK
<1>1. ASSUME stations' = stations, orders'[j] = orders[j], Exists(j)' <=> Exists(j) PROVE Kept
  BY <1>1 DEF RowInv
<1> HIDE DEF Kept
<1>2. ASSUME stations' = stations, orders'[j] = orders[j], row'[j] = row[j] PROVE Kept
  BY <1>1, <1>2 DEF Exists
<1>3. ASSUME NEW k \in Jobs, EnqueueUsb(k) PROVE Kept
  <2>1. CASE k = j
    <3>1. stations' = stations /\ StationOf[j] \in stations /\ row'[j].status = "queued"
      BY <1>3, <1>a, <2>1 DEF EnqueueUsb, TypeOK
    <3> QED BY <3>1 DEF Kept, RowInv, Exists
  <2>2. CASE k # j
    BY <1>2, <1>3, <1>a, <2>2 DEF EnqueueUsb, TypeOK
  <2> QED BY <2>1, <2>2
<1>4. ASSUME NEW h \in Handlers, LanSend(h) PROVE Kept
  <2>1. PICK k \in txn[h].jobs : orders' = [orders EXCEPT ![k] = @ + 1]
    BY <1>4 DEF LanSend
  <2>2. k # j
    BY <1>4, <1>a, <2>1 DEF LanSend, StructureInv, SessionInv
  <2>3. orders'[j] = orders[j]
    BY <1>a, <2>1, <2>2 DEF TypeOK
  <2> QED BY <1>2, <1>4, <2>3 DEF LanSend
<1>5. ASSUME NEW h \in Handlers, EnqueueCommit(h) PROVE Kept
  <2>1. PICK k \in txn[h].jobs : row' = [row EXCEPT ![k] = Written(NoRow, txn[h])]
    BY <1>5 DEF EnqueueCommit
  <2>2. k # j
    BY <1>5, <1>a, <2>1 DEF EnqueueCommit, In, StructureInv, SessionInv
  <2>3. row'[j] = row[j]
    BY <1>a, <2>1, <2>2 DEF TypeOK
  <2> QED BY <1>2, <1>5, <2>3 DEF EnqueueCommit
<1>6. ASSUME NEW h \in Handlers, PollCommit(h) \/ AckCommit(h) \/ CancelCommit(h) PROVE Kept
  <2>1. /\ Commit(h) /\ txn[h].kind \in {"poll", "ack", "retry", "cancel"} /\ txn[h].at = "loaded"
        /\ stations' = stations /\ orders' = orders
    BY <1>6 DEF PollCommit, AckCommit, CancelCommit, In
  <2>2. Exists(j)' <=> Exists(j)
    BY <1>a, <2>1, CommitKeepsRows
  <2> QED BY <1>1, <2>1, <2>2
<1>7. ASSUME NEW h \in Handlers, RetryCommit(h) PROVE Kept
  <2>1. /\ Commit(h) /\ txn[h].kind \in {"poll", "ack", "retry", "cancel"} /\ txn[h].at = "loaded"
        /\ stations' = stations
    BY <1>7 DEF RetryCommit, In
  <2>2. Exists(j)' <=> Exists(j)
    BY <1>a, <2>1, CommitKeepsRows
  <2>3. CASE j \in txn[h].jobs
    <3>1. Exists(j)
      BY <2>1, <2>3 DEF Commit
    <3> QED BY <2>1, <2>2, <3>1 DEF Kept, RowInv
  <2>4. CASE j \notin txn[h].jobs
    <3>1. orders'[j] = orders[j]
      BY <1>7, <1>a, <2>4 DEF RetryCommit
    <3> QED BY <1>1, <2>1, <2>2, <3>1
  <2> QED BY <2>3, <2>4
<1>8. ASSUME NEW s \in Stations, DeleteStation(s) PROVE Kept
  <2>1. stations' = stations \ {s} /\ orders' = orders
    BY <1>8 DEF DeleteStation
  <2>2. row'[j] = IF StationOf[j] = s THEN NoRow ELSE row[j]
    BY <1>8, <1>a DEF DeleteStation
  <2> QED BY <2>1, <2>2 DEF Kept, RowInv, Exists, NoRow
<1>9. ASSUME UNCHANGED <<stations, row, orders>> PROVE Kept
  BY <1>2, <1>9, SMTT(40)
<1>10. Kept
  BY <1>3, <1>4, <1>5, <1>6, <1>7, <1>8, <1>9
     DEF Next, vars, Work, Faults, Enqueue, Read, Serve, Finish, AgentCall, Refuse, HandlerFails,
         EnqueueLan, AgentPoll, PollRead, AgentPrint, AgentAck, AckRead, AgentDropsOut, RetryRead,
         CancelRead, Rollback
<1> QED
  BY <1>10 DEF Kept

\* Somebody will still report on the job.
HeldBy(s, j) ==
  \/ j \in agent[s].todo
  \/ agent[s].cur = j /\ ~(agent[s].via \in Handlers /\ Mute(agent[s].via))
Tracked(j) ==
  \/ \E s \in UsbStations : HeldBy(s, j)
  \/ \E h \in Handlers : txn[h].kind = "ack" /\ j \in txn[h].jobs /\ ~Mute(h)

LEMMA StrandedUntracked ==
  ASSUME NEW j PROVE Stranded(j) <=> row[j].status = "sent" /\ ~Tracked(j)
BY DEF Stranded, Tracked, HeldBy

LEMMA StrandedUntrackedNext ==
  ASSUME NEW j PROVE Stranded(j)' <=> row'[j].status = "sent" /\ ~Tracked(j)'
BY DEF Stranded, Tracked, HeldBy, Mute, In

\* Who reports is not disturbed by a session that serves no ack.
LEMMA OtherSessionTracks ==
  ASSUME StructureInv, NEW j \in Jobs, Tracked(j), NEW h \in Handlers, txn[h].kind # "ack",
         \A g \in Handlers : g # h => txn'[g] = txn[g],
         \A s \in UsbStations :
           agent'[s] = agent[s] \/ (agent[s].todo = {} /\ agent[s].cur \notin Jobs)
  PROVE  Tracked(j)'
<1>1. ASSUME NEW s \in UsbStations, HeldBy(s, j) PROVE Tracked(j)'
  <2>1. agent'[s] = agent[s]
    BY <1>1 DEF HeldBy
  <2>2. CASE j \in agent[s].todo
    BY <2>1, <2>2, SMTT(40) DEF Tracked, HeldBy
  <2>3. CASE agent[s].cur = j /\ ~(agent[s].via \in Handlers /\ Mute(agent[s].via))
    <3>1. agent[s].pc # "polling"
      BY <2>3 DEF StructureInv, AgentInv
    <3>2. agent[s].via # h
      BY <3>1 DEF StructureInv, CallInv
    <3>3. ~(agent'[s].via \in Handlers /\ Mute(agent[s].via)')
      BY <2>1, <2>3, <3>2 DEF Mute, In
    <3> QED BY <2>1, <2>3, <3>3 DEF Tracked, HeldBy, Mute, In
  <2> QED BY <1>1, <2>2, <2>3 DEF HeldBy
<1>2. ASSUME NEW g \in Handlers, txn[g].kind = "ack", j \in txn[g].jobs, ~Mute(g)
      PROVE  Tracked(j)'
  <2>1. txn'[g] = txn[g]
    BY <1>2
  <2> QED BY <1>2, <2>1 DEF Tracked, Mute, In
<1> QED
  BY <1>1, <1>2 DEF Tracked

\* Nor by an agent that still has what it had, or has handed it to a session.
LEMMA SameSessionsTrack ==
  ASSUME NEW j, Tracked(j), txn' = txn,
         \A s \in UsbStations : HeldBy(s, j) => HeldBy(s, j)'
  PROVE  Tracked(j)'
BY DEF Tracked, Mute, In

\* An ack that sets out reports on the job its agent had printed.
LEMMA AckTracks ==
  ASSUME StructureInv, NEW j \in Jobs, Tracked(j),
         NEW s \in UsbStations, NEW h \in Handlers, AgentAck(s, h)
  PROVE  Tracked(j)'
<1>a. TypeOK
  BY DEF StructureInv
<1>b. /\ agent[s].pc = "printed" /\ txn[h].kind = "none"
      /\ \A t \in UsbStations : t # s => agent'[t] = agent[t]
      /\ agent'[s].todo = agent[s].todo /\ agent'[s].cur = agent[s].cur /\ agent'[s].via = h
      /\ \A g \in Handlers : g # h => txn'[g] = txn[g]
      /\ txn'[h].kind = "ack" /\ txn'[h].at = "arrived" /\ txn'[h].jobs = {agent[s].cur}
  BY <1>a DEF AgentAck, TypeOK, Free, Agent, Session
<1>c. ~Mute(h)'
  BY <1>b DEF Mute, In
<1>1. CASE j \in agent[s].todo \/ agent[s].cur = j
  BY <1>1, <1>b, <1>c DEF Tracked, HeldBy
<1>2. ASSUME NEW t \in UsbStations, t # s, HeldBy(t, j) PROVE Tracked(j)'
  <2>1. agent'[t] = agent[t] /\ agent[t].via # h
    BY <1>2, <1>b DEF StructureInv, CallInv
  <2>2. HeldBy(t, j)'
    BY <1>2, <1>b, <2>1 DEF HeldBy, Mute, In
  <2> QED BY <2>2 DEF Tracked
<1>3. ASSUME NEW g \in Handlers, txn[g].kind = "ack", j \in txn[g].jobs, ~Mute(g)
      PROVE  Tracked(j)'
  <2>1. txn'[g] = txn[g]
    BY <1>3, <1>b
  <2> QED BY <1>3, <2>1 DEF Tracked, Mute, In
<1> QED
  BY <1>1, <1>2, <1>3 DEF Tracked, HeldBy

\* An ack that loads a sent job will write another status.
LEMMA AckReadTracks ==
  ASSUME StructureInv, NEW j \in Jobs, Tracked(j), row[j].status = "sent",
         NEW h \in Handlers, WritesInv(h), ReportedInv(h), AckRead(h),
         \A s \in UsbStations : AckedInv(s)
  PROVE  Tracked(j)'
<1>a. TypeOK
  BY DEF StructureInv
<1>1. PICK k \in txn[h].jobs :
        txn' = [txn EXCEPT ![h] = Session("ack", "loaded", @.station, {k}, row[k].status, @.to,
                                          Counted(row[k]))]
  BY DEF AckRead
<1>2. /\ \A g \in Handlers : g # h => txn'[g] = txn[g]
      /\ txn'[h].kind = "ack" /\ txn'[h].jobs = {k} /\ txn'[h].from = row[k].status
      /\ txn'[h].to = txn[h].to /\ agent' = agent /\ txn[h].kind = "ack" /\ ~Mute(h)
  BY <1>a, <1>1 DEF AckRead, TypeOK, Session, In, Mute
<1>3. txn[h].to # "sent"
  BY <1>2 DEF WritesInv, Result
<1>4. CASE k = j
  <2>1. ~Mute(h)'
    BY <1>2, <1>3, <1>4 DEF Mute
  <2> QED BY <1>2, <1>4, <2>1 DEF Tracked
<1>5. CASE k # j
  <2>1. ASSUME NEW s \in UsbStations, HeldBy(s, j) PROVE HeldBy(s, j)'
    <3>1. CASE j \in agent[s].todo
      BY <1>2, <3>1 DEF HeldBy
    <3>2. CASE agent[s].cur = j /\ agent[s].via = h
      <4>1. agent[s].pc \notin {"idle", "fetched", "printed", "polling"}
        BY <1>2, <3>2, HandlerAssumption DEF StructureInv, AgentInv, CallInv
      <4>2. agent[s].pc = "acking"
        BY <1>a, <4>1 DEF TypeOK, Agent
      <4>3. txn[h].jobs = {j}
        BY <3>2, <4>2 DEF AckedInv
      <4> QED BY <1>5, <4>3
    <3>3. CASE agent[s].cur = j /\ agent[s].via # h
      BY <1>2, <2>1, <3>3 DEF HeldBy, Mute, In
    <3> QED BY <2>1, <3>1, <3>2, <3>3 DEF HeldBy
  <2>2. ASSUME NEW g \in Handlers, txn[g].kind = "ack", j \in txn[g].jobs, ~Mute(g)
        PROVE  Tracked(j)'
    <3>1. CASE g = h
      BY <1>1, <1>5, <2>2, <3>1 DEF ReportedInv
    <3>2. CASE g # h
      BY <1>2, <2>2, <3>2 DEF Tracked, Mute, In
    <3> QED BY <3>1, <3>2
  <2> QED BY <2>1, <2>2 DEF Tracked
<1> QED
  BY <1>4, <1>5

\* The answer to an ack: other reports of the job are not touched by it.
LEMMA AnswerTracks ==
  ASSUME StructureInv, NEW j \in Jobs, Tracked(j), NEW h \in Handlers,
         \A g \in Handlers : g # h => txn'[g] = txn[g],
         \A s \in UsbStations : agent[s].via # h => agent'[s] = agent[s],
         ~(txn[h].kind = "ack" /\ j \in txn[h].jobs /\ ~Mute(h)),
         \A s \in UsbStations : agent[s].via = h /\ HeldBy(s, j) => HeldBy(s, j)'
  PROVE  Tracked(j)'
<1>1. ASSUME NEW s \in UsbStations, HeldBy(s, j) PROVE Tracked(j)'
  <2>1. CASE agent[s].via = h
    BY <1>1, <2>1 DEF Tracked
  <2>2. CASE agent[s].via # h
    <3>1. HeldBy(s, j)'
      BY <1>1, <2>2 DEF HeldBy, Mute, In
    <3> QED BY <3>1 DEF Tracked
  <2> QED BY <2>1, <2>2
<1>2. ASSUME NEW g \in Handlers, txn[g].kind = "ack", j \in txn[g].jobs, ~Mute(g)
      PROVE  Tracked(j)'
  <2>1. txn'[g] = txn[g]
    BY <1>2
  <2> QED BY <1>2, <2>1 DEF Tracked, Mute, In
<1> QED
  BY <1>1, <1>2 DEF Tracked

\* An ack that is stored has reported on its job.
LEMMA AckCommitTracks ==
  ASSUME StructureInv, TrackInv, NEW j \in Jobs, NEW h \in Handlers, WritesInv(h), AckCommit(h),
         row[j].status = "sent" => Tracked(j), row'[j].status = "sent"
  PROVE  Tracked(j)'
<1>a. TypeOK /\ In(h, "ack", "loaded") /\ Commit(h)
  BY DEF StructureInv, AckCommit
<1>b. txn'[h] = NoTxn /\ \A g \in Handlers : g # h => txn'[g] = txn[g]
  BY <1>a, CommitType
<1>c. \A s \in UsbStations : agent[s].via # h => agent'[s] = agent[s]
  BY DEF AckCommit, Caller
<1>1. row[j].status = "sent" /\ (j \in txn[h].jobs => Mute(h))
  <2>1. CASE j \in txn[h].jobs
    <3>1. row'[j].status = IF txn[h].to = txn[h].from THEN row[j].status ELSE txn[h].to
      BY <1>a, <2>1 DEF Commit, Written
    <3>2. txn[h].to # "sent"
      BY <1>a, <2>1 DEF WritesInv, In, Result
    <3> QED BY <1>a, <3>1, <3>2 DEF Mute
  <2>2. CASE j \notin txn[h].jobs
    BY <1>a, <2>2 DEF Commit
  <2> QED BY <2>1, <2>2
<1>2. ASSUME NEW s \in UsbStations, agent[s].via = h, HeldBy(s, j) PROVE HeldBy(s, j)'
  <2>1. agent[s].pc = "acking"
    <3>1. agent[s].pc \notin {"idle", "fetched", "printed", "polling"}
      BY <1>2, <1>a, HandlerAssumption DEF StructureInv, AgentInv, CallInv, In
    <3> QED BY <1>a, <3>1 DEF TypeOK, Agent
  <2>2. txn[h].jobs = {agent[s].cur}
    BY <1>2, <2>1 DEF TrackInv, AckedInv
  <2>3. j \in agent[s].todo
    BY <1>1, <1>2, <2>2 DEF HeldBy
  <2>4. agent'[s].todo = agent[s].todo
    BY <1>2, <2>3 DEF AckCommit, Caller, NextJob, Loop
  <2> QED BY <2>3, <2>4 DEF HeldBy
<1>3. ~(txn[h].kind = "ack" /\ j \in txn[h].jobs /\ ~Mute(h))
  BY <1>1
<1> QED
  BY <1>1, <1>2, <1>3, <1>b, <1>c, AnswerTracks

\* An ack is refused only when its station is gone, and the rows of its jobs with it.
LEMMA RefuseTracks ==
  ASSUME StructureInv, TrackInv, NEW j \in UsbJobs, NEW h \in Handlers, WritesInv(h), Refuse(h),
         row[j].status = "sent", Tracked(j)
  PROVE  Tracked(j)'
<1>a. TypeOK /\ j \in Jobs /\ Rollback(h)
  BY DEF StructureInv, UsbJobs, Refuse
<1>b. txn'[h] = NoTxn /\ \A g \in Handlers : g # h => txn'[g] = txn[g]
  BY <1>a DEF Rollback, TypeOK
<1>c. \A s \in UsbStations : agent[s].via # h => agent'[s] = agent[s]
  BY <1>a DEF Rollback, Caller
<1>1. CASE txn[h].kind = "ack"
  <2>1. txn[h].station \notin stations
    <3>1. ASSUME NEW k \in txn[h].jobs, ~Exists(k) PROVE txn[h].station \notin stations
      <4>1. k \in UsbJobs
        BY <1>1, <3>1 DEF WritesInv
      <4> QED BY <1>1, <3>1, <4>1 DEF TrackInv, ReportedInv, RowInv
    <3> QED BY <3>1 DEF Refuse
  <2>2. StationOf[j] # txn[h].station
    BY <2>1 DEF TrackInv, RowInv, Exists
  <2>3. j \notin txn[h].jobs
    BY <1>1, <2>2 DEF TrackInv, ReportedInv
  <2>4. ASSUME NEW s \in UsbStations, agent[s].via = h, HeldBy(s, j) PROVE FALSE
    <3>1. txn[h].station = s
      BY <2>4 DEF StructureInv, CallInv
    <3>2. StationOf[j] = s
      BY <1>a, <2>4 DEF HeldBy, StructureInv, AgentInv
    <3> QED BY <2>2, <3>1, <3>2
  <2> QED BY <1>a, <1>b, <1>c, <2>3, <2>4, AnswerTracks
<1>2. CASE txn[h].kind # "ack"
  <2>1. \A s \in UsbStations :
          agent'[s] = agent[s] \/ (agent[s].todo = {} /\ agent[s].cur \notin Jobs)
    <3>1. ASSUME NEW s \in UsbStations, agent[s].via = h
          PROVE  agent[s].todo = {} /\ agent[s].cur \notin Jobs
      BY <1>2, <3>1 DEF StructureInv, AgentInv, CallInv
    <3> QED BY <1>c, <3>1
  <2> QED BY <1>2, <1>a, <1>b, <2>1, OtherSessionTracks
<1> QED
  BY <1>1, <1>2

\* The answer of a poll puts the jobs it marked into the hand of whoever waits.
LEMMA PollCommitTracks ==
  ASSUME StructureInv, NEW j \in Jobs, NEW h \in Handlers, PollCommit(h), Caller(h) # {},
         row[j].status = "sent" => Tracked(j), row'[j].status = "sent"
  PROVE  Tracked(j)'
<1>a. TypeOK /\ In(h, "poll", "loaded") /\ Commit(h)
  BY DEF StructureInv, PollCommit
<1>b. \A g \in Handlers : g # h => txn'[g] = txn[g]
  BY <1>a, CommitType
<1>1. CASE j \in txn[h].jobs
  <2>1. PICK s \in UsbStations : agent[s].via = h
    BY DEF Caller
  <2>2. agent'[s].todo = txn[h].jobs
    BY <1>1, <2>1 DEF PollCommit, Caller, NextJob, Loop
  <2> QED BY <1>1, <2>2 DEF Tracked, HeldBy
<1>2. CASE j \notin txn[h].jobs
  <2>1. Tracked(j)
    BY <1>a, <1>2 DEF Commit
  <2>2. ASSUME NEW s \in UsbStations
        PROVE  agent'[s] = agent[s] \/ (agent[s].todo = {} /\ agent[s].cur \notin Jobs)
    <3>1. CASE agent[s].via = h
      BY <1>a, <3>1 DEF StructureInv, AgentInv, CallInv, In
    <3>2. CASE agent[s].via # h
      BY <3>2 DEF PollCommit, Caller
    <3> QED BY <3>1, <3>2
  <2> QED BY <1>a, <1>b, <2>1, <2>2, OtherSessionTracks DEF In
<1> QED
  BY <1>1, <1>2

LEMMA WorkTracks ==
  ASSUME StructureInv, AttemptsInv, TrackInv, Work, NEW j \in UsbJobs,
         \A h \in Handlers : ~(PollCommit(h) /\ Caller(h) = {}),
         row[j].status = "sent" => Tracked(j), row'[j].status = "sent"
  PROVE  Tracked(j)'
<1> USE StationAssumption
<1> DEFINE Kept == Tracked(j)'
<1>a. TypeOK /\ j \in Jobs /\ j \notin LanJobs /\ \A h \in Handlers : WritesInv(h)
  BY DEF StructureInv, AttemptsInv, UsbJobs, LanJobs
<1>1. ASSUME NEW h \in Handlers, txn[h].kind # "ack", row[j].status = "sent",
             \A g \in Handlers : g # h => txn'[g] = txn[g], agent' = agent
      PROVE  Kept
  BY <1>1, <1>a, OtherSessionTracks
<1>2. ASSUME row[j].status = "sent", txn' = txn,
             \A s \in UsbStations : HeldBy(s, j) => HeldBy(s, j)'
      PROVE  Kept
  BY <1>2, SameSessionsTrack
<1>3. ASSUME row[j].status = "sent", txn' = txn, agent' = agent PROVE Kept
  BY <1>3 DEF Tracked, HeldBy, Mute, In
<1> HIDE DEF Kept
<1>4. ASSUME NEW h \in Handlers, NEW k \in Jobs, Enqueue(h, k) \/ Read(h, k) PROVE Kept
  <2>1. ASSUME EnqueueUsb(k) PROVE Kept
    <3>1. row[j].status = "sent"
      BY <2>1, <1>a DEF EnqueueUsb, TypeOK
    <3> QED BY <1>3, <2>1, <3>1 DEF EnqueueUsb
  <2>2. ASSUME EnqueueLan(h, k) \/ RetryRead(h, k) \/ CancelRead(h, k) PROVE Kept
    <3>1. /\ \A g \in Handlers : g # h => txn'[g] = txn[g]
          /\ UNCHANGED <<row, agent>> /\ txn[h].kind = "none"
      BY <1>a, <2>2 DEF EnqueueLan, RetryRead, CancelRead, TypeOK, Free
    <3> QED BY <1>1, <3>1
  <2> QED BY <1>4, <2>1, <2>2 DEF Enqueue, Read
<1>5. ASSUME NEW h \in Handlers, Serve(h) PROVE Kept
  <2>1. ASSUME PollRead(h) PROVE Kept
    <3>1. /\ \A g \in Handlers : g # h => txn'[g] = txn[g]
          /\ UNCHANGED <<row, agent>> /\ txn[h].kind = "poll"
      BY <1>a, <2>1 DEF PollRead, TypeOK, In
    <3> QED BY <1>1, <3>1
  <2>2. ASSUME PollCommit(h) PROVE Kept
    BY <1>a, <2>2, PollCommitTracks DEF Kept
  <2>3. ASSUME AckRead(h) PROVE Kept
    BY <1>a, <2>3, AckReadTracks DEF Kept, AckRead, TrackInv
  <2>4. ASSUME AckCommit(h) PROVE Kept
    BY <1>a, <2>4, AckCommitTracks DEF Kept
  <2> QED BY <1>5, <2>1, <2>2, <2>3, <2>4 DEF Serve
<1>6. ASSUME NEW h \in Handlers, Finish(h) PROVE Kept
  <2>1. ASSUME EnqueueCommit(h) PROVE Kept
    <3>1. PICK k \in txn[h].jobs : row' = [row EXCEPT ![k] = Written(NoRow, txn[h])]
      BY <2>1 DEF EnqueueCommit
    <3>2. k # j /\ txn[h].kind # "ack"
      BY <2>1, <1>a, <3>1 DEF EnqueueCommit, In, StructureInv, SessionInv
    <3>3. row'[j] = row[j] /\ agent' = agent /\ \A g \in Handlers : g # h => txn'[g] = txn[g]
      BY <2>1, <1>a, <3>1, <3>2 DEF EnqueueCommit, TypeOK
    <3> QED BY <1>1, <3>2, <3>3
  <2>2. ASSUME RetryCommit(h) \/ CancelCommit(h) PROVE Kept
    <3>1. /\ Commit(h) /\ agent' = agent /\ txn[h].at = "loaded" /\ txn[h].kind \in {"retry", "cancel"}
      BY <2>2 DEF RetryCommit, CancelCommit, In
    <3>2. \A g \in Handlers : g # h => txn'[g] = txn[g]
      BY <1>a, <3>1, CommitType
    <3>3. row[j].status = "sent"
      <4>1. j \notin txn[h].jobs => row'[j] = row[j]
        BY <1>a, <3>1 DEF Commit
      <4>2. j \in txn[h].jobs => txn[h].to \in {"queued", "cancelled"}
        BY <1>a, <3>1 DEF WritesInv
      <4>3. row'[j].status \in {row[j].status, txn[h].to}
        BY <1>a, <3>1, CommitType
      <4> QED BY <4>1, <4>2, <4>3
    <3> QED BY <1>1, <3>1, <3>2, <3>3
  <2>3. ASSUME Refuse(h) PROVE Kept
    BY <1>a, <2>3, RefuseTracks DEF Kept, Refuse, Rollback
  <2> QED BY <1>6, <2>1, <2>2, <2>3 DEF Finish
<1>7. ASSUME NEW h \in Handlers, LanSend(h) PROVE Kept
  <2>1. /\ \A g \in Handlers : g # h => txn'[g] = txn[g]
        /\ UNCHANGED <<row, agent>> /\ txn[h].kind # "ack"
    BY <1>7, <1>a DEF LanSend, TypeOK, StructureInv, SessionInv
  <2> QED BY <1>1, <2>1
<1>8. ASSUME NEW s \in UsbStations, AgentPrint(s) PROVE Kept
  <2>1. PICK k \in agent[s].todo, result \in Result :
          agent' = [agent EXCEPT ![s] = Loop("printed", @.todo \ {k}, k, result, NoHandler)]
    BY <1>8 DEF AgentPrint
  <2>2. agent[s].cur \notin Jobs
    BY <1>8 DEF AgentPrint, StructureInv, AgentInv
  <2>3. /\ agent'[s].todo = agent[s].todo \ {k} /\ agent'[s].cur = k /\ agent'[s].via = NoHandler
        /\ \A t \in UsbStations : t # s => agent'[t] = agent[t]
    BY <1>a, <2>1 DEF TypeOK, Loop
  <2>4. txn' = txn /\ row' = row
    BY <1>8 DEF AgentPrint
  <2>5. ASSUME NEW t \in UsbStations, HeldBy(t, j) PROVE HeldBy(t, j)'
    <3>1. CASE t = s
      BY <1>a, <2>2, <2>3, <2>5, <3>1, HandlerAssumption DEF HeldBy
    <3>2. CASE t # s
      BY <2>3, <2>4, <2>5, <3>2 DEF HeldBy, Mute, In
    <3> QED BY <3>1, <3>2
  <2> QED BY <1>2, <2>4, <2>5
<1>9. ASSUME NEW s \in UsbStations, NEW h \in Handlers, AgentCall(s, h) PROVE Kept
  <2>1. ASSUME AgentPoll(s, h) PROVE Kept
    <3>1. /\ \A g \in Handlers : g # h => txn'[g] = txn[g]
          /\ row' = row /\ txn[h].kind = "none"
      BY <1>a, <2>1 DEF AgentPoll, TypeOK, Free
    <3>2. \A t \in UsbStations : t # s => agent'[t] = agent[t]
      BY <1>a, <2>1 DEF AgentPoll, TypeOK
    <3>3. agent[s].todo = {} /\ agent[s].cur \notin Jobs
      BY <2>1 DEF AgentPoll, StructureInv, AgentInv
    <3>4. Tracked(j)
      BY <3>1
    <3> QED BY <1>a, <3>1, <3>2, <3>3, <3>4, OtherSessionTracks DEF Kept
  <2>2. ASSUME AgentAck(s, h) PROVE Kept
    BY <1>a, <2>2, AckTracks DEF Kept, AgentAck
  <2> QED BY <1>9, <2>1, <2>2 DEF AgentCall
<1>10. ASSUME NEW s \in Stations, DeleteStation(s) PROVE Kept
  <2>1. UNCHANGED <<txn, agent>> /\ row[j].status = "sent"
    BY <1>10, <1>a DEF DeleteStation, NoRow
  <2> QED BY <1>3, <2>1
<1>11. Kept
  BY <1>4, <1>5, <1>6, <1>7, <1>8, <1>9, <1>10 DEF Work
<1> QED
  BY <1>11 DEF Kept

\* In every state the queue's structure, its account of attempts and its record of who
\* reports on what agree.
THEOREM HistoryInvariant == Spec => [](StructureInv /\ AttemptsInv /\ TrackInv)
<1>1. Init => StructureInv /\ AttemptsInv /\ TrackInv
  BY InitStructure, InitAttempts, InitTrack
<1>2. StructureInv /\ AttemptsInv /\ TrackInv /\ [Next]_vars
        => (StructureInv /\ AttemptsInv /\ TrackInv)'
  BY NextStructure, NextAttempts, NextAcked, NextReported, NextRows DEF TrackInv, UsbJobs
<1> QED
  BY <1>1, <1>2, PTL DEF Spec

\* A sent job loses the last one who would report on it only by a fault, or by the late
\* answer to a poll that nobody waits for: no order of polls, acks, retries, cancels and
\* deletions leaves a job that both sides have forgotten.
THEOREM StrandedByFaultHolds == Spec => StrandedByFault
<1>1. StructureInv /\ AttemptsInv /\ TrackInv /\ [Next]_vars
        => [\A j \in UsbJobs : ~Stranded(j) /\ Stranded(j)'
              => Faults \/ \E h \in Handlers : PollCommit(h) /\ Caller(h) = {}]_vars
  BY WorkTracks, StrandedUntracked, StrandedUntrackedNext DEF Next
<1> QED
  BY <1>1, HistoryInvariant, PTL DEF Spec, StrandedByFault
=============================================================================
