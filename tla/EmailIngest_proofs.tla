------------------------- MODULE EmailIngest_proofs -------------------------
(* Proofs about the ingest-worker, for any mails, arrivals and faults. *)
EXTENDS EmailIngest, FiniteSetTheorems, TLAPS

-----------------------------------------------------------------------------
(* Sequence numbers. *)

LEMMA InboxFinite == ASSUME TypeOK PROVE IsFiniteSet(inbox)
<1>1. IsFiniteSet(1 .. uidnext - 1)
  BY BoundAssumption, FS_Interval DEF TypeOK
<1> QED
  BY <1>1, FS_Subset DEF TypeOK

\* A mail's sequence number is a positive number.
LEMMA SeqNumType ==
  ASSUME TypeOK, NEW u \in inbox
  PROVE  SeqNum(u) \in Nat /\ SeqNum(u) > 0
<1> DEFINE S == {v \in inbox : v <= u}
<1>1. IsFiniteSet(S)
  BY InboxFinite, FS_Subset
<1>2. u \in S
  BY BoundAssumption DEF TypeOK
<1> HIDE DEF S
<1>3. Cardinality(S) \in Nat /\ Cardinality(S) # 0
  BY <1>1, <1>2, FS_CardinalityType, FS_EmptySet
<1> QED
  BY <1>3 DEF SeqNum, S

\* A number that stands for a mail stands for the same one after an arrival.
LEMMA ArrivalKeepsNumbers ==
  ASSUME TypeOK, NEW c \in Contents, Arrive(c), NEW n, At(n) # {}
  PROVE  At(n)' = At(n)
<1> PICK u : u = uidnext
  OBVIOUS
<1>1. /\ inbox' = inbox \cup {u}
      /\ u \in Nat /\ inbox \subseteq Nat
      /\ \A v \in inbox : v < u
  BY BoundAssumption DEF Arrive, TypeOK
<1>2. ASSUME NEW v \in inbox PROVE SeqNum(v)' = SeqNum(v)
  <2>1. {w \in inbox' : w <= v} = {w \in inbox : w <= v}
    BY <1>1
  <2> QED BY <2>1 DEF SeqNum
<1>3. ASSUME NEW v \in inbox PROVE SeqNum(v) # SeqNum(u)'
  <2>1. Cardinality(inbox') = Cardinality(inbox) + 1 /\ Cardinality(inbox) \in Nat
    BY <1>1, InboxFinite, FS_AddElement, FS_CardinalityType
  <2>2. Cardinality({w \in inbox : w <= v}) <= Cardinality(inbox)
    BY InboxFinite, FS_Subset
  <2>3. {w \in inbox' : w <= u} = inbox'
    <3>1. ASSUME NEW w \in inbox' PROVE w <= u
      BY <1>1, w \in Nat
    <3> QED BY <3>1
  <2>4. SeqNum(v) \in Nat
    BY SeqNumType
  <2> QED BY <2>1, <2>2, <2>3, <2>4 DEF SeqNum
<1> QED
  BY <1>1, <1>2, <1>3 DEF At

-----------------------------------------------------------------------------
(* Type correctness. *)

LEMMA InitIngest == Init => IngestInv
<1> SUFFICES ASSUME Init PROVE IngestInv
  OBVIOUS
<1>1. TypeOK
  <2>1. 1 \in 1 .. MaxMails + 1 /\ \A u \in Uids : ~(u < 1)
    BY BoundAssumption DEF Uids
  <2>2. <<>> \in Seq(Reservation)
    OBVIOUS
  <2> QED BY <2>1, <2>2 DEF Init, TypeOK, Pcs, Uids
<1>2. WorkerInv /\ MarkInv /\ BatchInv
  BY <1>1 DEF Init, WorkerInv, MarkInv, BatchInv, Left
<1>3. NothingDroppedUnlessSlipped
  BY BoundAssumption DEF Init, NothingDroppedUnlessSlipped, Uids
<1> QED
  BY <1>1, <1>2, <1>3 DEF IngestInv

\* Advancing keeps the types of what it changes.
LEMMA AdvanceType ==
  ASSUME TypeOK, NEW u \in Uids, NEW after \in SUBSET Losses, Advance(u, after)
  PROVE  /\ fetched' \in [Uids -> Nat] /\ cur' \in Uids \cup {0}
         /\ pc' \in Pcs /\ lost' \subseteq Losses
BY DEF Advance, TypeOK, Pcs

LEMMA NextType == IngestInv /\ [Next]_vars => TypeOK'
<1> SUFFICES ASSUME IngestInv, [Next]_vars PROVE TypeOK'
  OBVIOUS
<1> USE DEF IngestInv, mailbox, database, worker
<1>0. CASE UNCHANGED vars
  BY <1>0 DEF vars, TypeOK
<1>1. ASSUME NEW c \in Contents, Arrive(c) PROVE TypeOK'
  <2>1. c # NoContent
    BY ContentAssumption DEF NoContent, Kinds
  <2>2. uidnext' \in 1 .. MaxMails + 1 /\ uidnext \in Uids
    BY <1>1, BoundAssumption DEF Arrive, TypeOK, Uids
  <2>3. content' \in [Uids -> Contents \cup {NoContent}]
        /\ \A u \in Uids : u < uidnext' <=> content'[u] # NoContent
    BY <1>1, <2>1, <2>2, BoundAssumption DEF Arrive, TypeOK, Uids
  <2>4. inbox' \subseteq 1 .. uidnext' - 1
    BY <1>1, <2>2, BoundAssumption DEF Arrive, TypeOK, Uids
  <2> QED BY <1>1, <2>2, <2>3, <2>4 DEF Arrive, TypeOK
<1>2. CASE FetchUnseen
  <2>0. PICK batch \in SUBSET (inbox \ seen) : Fetch(batch)
    BY <1>2 DEF FetchUnseen, Unseen
  <2>1. fetched' \in [Uids -> Nat]
    <3>1. [u \in Uids |-> IF u \in batch THEN SeqNum(u) ELSE 0] \in [Uids -> Nat]
      BY SeqNumType
    <3> QED BY <2>0, <3>1 DEF Fetch, TypeOK
  <2>2. faults' \in Nat
    <3>1. Cardinality((inbox \ seen) \ batch) \in Nat
      BY InboxFinite, FS_Subset, FS_CardinalityType
    <3> QED BY <2>0, <3>1 DEF Fetch, Unseen, TypeOK
  <2>3. pc' \in Pcs
    BY <2>0 DEF Fetch, Pcs
  <2> QED BY <2>0, <2>1, <2>2, <2>3 DEF Fetch, SeenByFetch, TypeOK
<1>3. ASSUME NEW u \in Uids, Skip(u) PROVE TypeOK'
  BY <1>3, AdvanceType DEF Skip, TypeOK
<1>4. ASSUME NEW u \in Uids, NEW then \in Pcs, NEW outcome \in Outcomes,
             Process(u, then), Audit(u, outcome), lost' \subseteq Losses, faults' \in Nat,
             reservations' \in Seq(Reservation)
      PROVE  TypeOK'
  BY <1>4 DEF Process, Audit, TypeOK
<1>5. ASSUME NEW u \in Uids, RecordUnparsed(u) PROVE TypeOK'
  <2>1. "flagging" \in Pcs /\ "unparsed" \in Outcomes
    BY DEF Pcs, Outcomes
  <2>2. lost' \subseteq Losses /\ faults' \in Nat /\ reservations' \in Seq(Reservation)
    BY <1>5 DEF RecordUnparsed, TypeOK, Losses
  <2> QED BY <1>4, <1>5, <2>1, <2>2 DEF RecordUnparsed
<1>6. ASSUME NEW u \in Uids, RecordFailed(u) PROVE TypeOK'
  <2>1. "flagging" \in Pcs /\ "unparsed" \in Outcomes
    BY DEF Pcs, Outcomes
  <2>2. lost' \subseteq Losses /\ faults' \in Nat /\ reservations' \in Seq(Reservation)
    BY <1>6 DEF RecordFailed, TypeOK, Losses
  <2> QED BY <1>4, <1>6, <2>1, <2>2 DEF RecordFailed
<1>7. ASSUME NEW u \in Uids, content[u].kind \in Kinds, NEW status \in {"confirmed", "cancelled"}
      PROVE  Row(u, status) \in Reservation
  <2>1. content[u] \in Contents
    BY <1>7 DEF TypeOK, NoContent, Kinds
  <2> QED BY <2>1, ContentAssumption DEF Row, Reservation
<1>8. ASSUME NEW u \in Uids, RecordBooking(u) PROVE TypeOK'
  <2>1. "printing" \in Pcs /\ "ingested" \in Outcomes
    BY DEF Pcs, Outcomes
  <2>2. Row(u, "confirmed") \in Reservation
    BY <1>7, <1>8 DEF RecordBooking, Kinds
  <2>3. reservations' \in Seq(Reservation)
    BY <1>8, <2>2 DEF RecordBooking, TypeOK
  <2> QED BY <1>4, <1>8, <2>1, <2>3 DEF RecordBooking, TypeOK
<1>9. ASSUME NEW u \in Uids, ApplyCancellation(u) PROVE TypeOK'
  <2>1. "printing" \in Pcs /\ "cancelled" \in Outcomes
    BY DEF Pcs, Outcomes
  <2>2. Row(u, "cancelled") \in Reservation
    BY <1>7, <1>9 DEF ApplyCancellation, Kinds
  <2>3. reservations' \in Seq(Reservation)
    <3>1. CASE reservations' = Append(reservations, Row(u, "cancelled"))
      BY <2>2, <3>1 DEF TypeOK
    <3>2. ASSUME NEW i \in OfRef(content[u].ref),
                 reservations' = [reservations EXCEPT ![i].status = "cancelled"]
          PROVE  reservations' \in Seq(Reservation)
      <4>1. i \in DOMAIN reservations /\ reservations[i] \in Reservation
        BY <3>2 DEF OfRef, TypeOK
      <4>2. [reservations[i] EXCEPT !.status = "cancelled"] \in Reservation
        BY <4>1 DEF Reservation
      <4> QED BY <3>2, <4>1, <4>2 DEF TypeOK
    <3> QED BY <1>9, <3>1, <3>2 DEF ApplyCancellation
  <2> QED BY <1>4, <1>9, <2>1, <2>3 DEF ApplyCancellation, TypeOK
<1>10. CASE AutoPrint
  <2>1. cur \in Uids
    BY <1>10 DEF AutoPrint, WorkerInv, TypeOK
  <2>2. lost' \subseteq Losses
    BY <1>10 DEF AutoPrint, TypeOK, Losses
  <2>4. faults' \in Nat
    BY <1>10 DEF AutoPrint, TypeOK
  <2>3. pc' \in Pcs /\ printed' \subseteq Uids
    BY <1>10, <2>1 DEF AutoPrint, TypeOK, Pcs
  <2> QED BY <1>10, <2>2, <2>3, <2>4 DEF AutoPrint, TypeOK
<1>11. CASE MarkSeen \/ MoveExpunge \/ NoSuchNumber
  <2>1. cur \in Uids /\ Advance(cur, lost) /\ Claimed \subseteq inbox
    BY <1>11 DEF MarkSeen, MoveExpunge, NoSuchNumber, Marks, WorkerInv, TypeOK, Claimed, At
  <2>2. /\ fetched' \in [Uids -> Nat] /\ cur' \in Uids \cup {0}
        /\ pc' \in Pcs /\ lost' \subseteq Losses
    BY <2>1, AdvanceType DEF TypeOK
  <2>3. inbox \subseteq Uids
    BY BoundAssumption DEF TypeOK, Uids
  <2> QED BY <1>11, <2>1, <2>2, <2>3
       DEF MarkSeen, MoveExpunge, NoSuchNumber, Marks, Flagged, TypeOK
<1>12. CASE MoveSeen \/ MoveCopy \/ MoveDelete
  <2>1. Claimed \subseteq inbox /\ inbox \subseteq Uids
    BY BoundAssumption DEF Claimed, At, TypeOK, Uids
  <2> QED BY <1>12, <2>1 DEF MoveSeen, MoveCopy, MoveDelete, Marks, Flagged, TypeOK, Pcs
<1>13. CASE MailFails
  <2>1. PICK u \in Uids, after \in SUBSET Losses : Advance(u, after)
    BY <1>13 DEF MailFails
  <2>2. after \in SUBSET Losses
    BY DEF TypeOK
  <2> QED BY <1>13, <2>1, <2>2, AdvanceType, SMTT(40) DEF MailFails, TypeOK
<1>14. CASE Restart
  <2>1. /\ pc' \in Pcs /\ cur' \in Uids \cup {0} /\ fetched' \in [Uids -> Nat]
        /\ faults' \in Nat
    BY <1>14 DEF Restart, TypeOK, Pcs
  <2>2. lost' \subseteq Losses
    BY <1>14, Zenon DEF Restart
  <2> QED BY <1>14, <2>1, <2>2 DEF Restart, TypeOK
<1> QED
  BY <1>0, <1>1, <1>2, <1>3, <1>5, <1>6, <1>8, <1>9, <1>10, <1>11, <1>12, <1>13, <1>14
     DEF Next, Handle, Mark, Fault

-----------------------------------------------------------------------------
(* Where the worker is, and what it has in hand. *)

\* After advancing the worker has nothing in hand, and is only between mails if
\* there is another one.
LEMMA AdvanceWorker ==
  ASSUME TypeOK, NEW u \in Left, NEW after, Advance(u, after)
  PROVE  WorkerInv'
<1>1. cur' = 0 /\ pc' \in {"idle", "next"}
  BY DEF Advance
<1>2. ASSUME pc' = "next" PROVE Left' # {}
  <2>1. PICK v \in Left : v # u
    BY <1>2 DEF Advance
  <2>2. v \in Left'
    BY <2>1 DEF Left, Advance, TypeOK
  <2> QED BY <2>2
<1> QED
  BY <1>1, <1>2 DEF WorkerInv

LEMMA NextWorker == IngestInv /\ [Next]_vars => WorkerInv'
<1> SUFFICES ASSUME IngestInv, [Next]_vars PROVE WorkerInv'
  OBVIOUS
<1> USE DEF IngestInv, mailbox, database, worker
<1>a. cur # 0 => cur \in Left /\ cur \in Uids
  BY DEF WorkerInv, TypeOK, Left
<1>0. CASE UNCHANGED <<pc, cur, fetched, audit>>
  BY <1>0 DEF WorkerInv, Left, Recorded
<1>1. ASSUME NEW c \in Contents, Arrive(c) PROVE UNCHANGED <<pc, cur, fetched, audit>>
  BY <1>1 DEF Arrive
<1>2. CASE FetchUnseen
  <2>0. PICK batch \in SUBSET (inbox \ seen) : Fetch(batch)
    BY <1>2 DEF FetchUnseen, Unseen
  <2>a. CASE ~Decodable(batch)
    BY <1>0, <2>0, <2>a DEF Fetch
  <2>1. CASE Decodable(batch)
    <3>1. /\ fetched' = [u \in Uids |-> IF u \in batch THEN SeqNum(u) ELSE 0]
          /\ pc' = IF batch = {} THEN "idle" ELSE "next"
      BY <2>0, <2>1 DEF Fetch
    <3>2. cur' = 0
      BY <2>0 DEF Fetch, WorkerInv
    <3>3. ASSUME NEW u \in batch PROVE u \in Left'
      <4>1. SeqNum(u) > 0 /\ u \in inbox
        BY SeqNumType
      <4>2. u \in Uids
        BY <4>1, BoundAssumption DEF TypeOK, Uids
      <4> QED BY <3>1, <4>1, <4>2 DEF Left
    <3> QED BY <3>1, <3>2, <3>3 DEF WorkerInv
  <2> QED BY <2>a, <2>1
<1>3. ASSUME NEW u \in Uids, Skip(u) PROVE WorkerInv'
  BY <1>3, AdvanceWorker DEF Skip, IsNext
<1>4. ASSUME NEW u \in Uids, RecordUnparsed(u) \/ RecordFailed(u) \/ RecordBooking(u)
                              \/ ApplyCancellation(u)
      PROVE  WorkerInv'
  <2>1. PICK then \in {"flagging", "printing"}, outcome \in Outcomes :
          Process(u, then) /\ Audit(u, outcome)
    BY <1>4 DEF Outcomes, RecordUnparsed, RecordFailed, RecordBooking, ApplyCancellation
  <2>2. u # 0 /\ u \in Left
    BY <2>1, BoundAssumption DEF Process, IsNext, Uids
  <2>3. audit'[u] # {}
    BY <2>1 DEF Audit, TypeOK
  <2> QED BY <2>1, <2>2, <2>3 DEF Process, WorkerInv, Recorded, Left
<1>5. CASE AutoPrint \/ MoveSeen \/ MoveCopy \/ MoveDelete
  BY <1>5 DEF AutoPrint, MoveSeen, MoveCopy, MoveDelete, Marks, WorkerInv, Recorded
<1>6. CASE MarkSeen \/ MoveExpunge \/ NoSuchNumber
  <2>1. cur # 0 /\ Advance(cur, lost)
    BY <1>6 DEF MarkSeen, MoveExpunge, NoSuchNumber, Marks, WorkerInv
  <2> QED BY <1>a, <2>1, AdvanceWorker
<1>7. CASE MailFails
  <2>1. PICK u \in Uids, after \in SUBSET Losses :
          (u = cur \/ (pc = "next" /\ IsNext(u))) /\ Advance(u, after)
    BY <1>7 DEF MailFails
  <2>2. u \in Left
    BY <1>a, <2>1, BoundAssumption DEF IsNext, Uids
  <2> QED BY <2>1, <2>2, AdvanceWorker
<1>8. CASE Restart
  BY <1>8 DEF Restart, WorkerInv
<1> QED
  BY <1>0, <1>1, <1>2, <1>3, <1>4, <1>5, <1>6, <1>7, <1>8
     DEF Next, Handle, Mark, Fault, vars

-----------------------------------------------------------------------------
(* The marks. *)

LEMMA NextMark == IngestInv /\ [Next]_vars => MarkInv'
<1> SUFFICES ASSUME IngestInv, [Next]_vars PROVE MarkInv'
  OBVIOUS
<1> USE DEF IngestInv, mailbox, database, worker
<1>0. CASE UNCHANGED <<inbox, seen, deleted, pc, cur, fetched>>
  BY <1>0 DEF MarkInv, Claimed, At, SeqNum
<1>1. ASSUME NEW c \in Contents, Arrive(c) PROVE MarkInv'
  <2> PICK n : n = fetched[cur]
    OBVIOUS
  <2>1. At(n) # {} => At(n)' = At(n)
    BY <1>1, ArrivalKeepsNumbers
  <2>2. Claimed = At(n) /\ Claimed' = At(n)'
    BY <1>1 DEF Claimed, At, Arrive
  <2> QED BY <1>1, <2>1, <2>2 DEF Arrive, MarkInv
<1>2. CASE FetchUnseen
  BY <1>2 DEF FetchUnseen, Fetch, SeenByFetch, MarkInv, Claimed
<1>3. CASE /\ pc' \notin {"copying", "deleting"}
           /\ UNCHANGED <<inbox, seen, deleted>>
  BY <1>3 DEF MarkInv
<1>4. ASSUME NEW u \in Uids, NEW after, Advance(u, after)
      PROVE  pc' \notin {"copying", "deleting"}
  BY <1>4 DEF Advance
<1>5. ASSUME NEW u \in Uids, RecordUnparsed(u) \/ RecordFailed(u) \/ RecordBooking(u)
                              \/ ApplyCancellation(u)
      PROVE  /\ pc' \notin {"copying", "deleting"}
             /\ UNCHANGED <<inbox, seen, deleted>>
  BY <1>5 DEF RecordUnparsed, RecordFailed, RecordBooking, ApplyCancellation, Process
<1>6. CASE MarkSeen
  BY <1>6 DEF MarkSeen, Marks, Flagged, MarkInv, Advance
<1>7. CASE MoveSeen
  <2>1. Claimed' = Claimed
    BY <1>7 DEF MoveSeen, Claimed, At, SeqNum
  <2> QED BY <1>7, <2>1 DEF MoveSeen, Marks, Flagged, MarkInv
<1>8. CASE MoveCopy
  <2>1. Claimed' = Claimed
    BY <1>8 DEF MoveCopy, Claimed, At, SeqNum
  <2> QED BY <1>8, <2>1 DEF MoveCopy, Marks, MarkInv
<1>9. CASE MoveDelete
  BY <1>9 DEF MoveDelete, Marks, MarkInv
<1>10. CASE MoveExpunge
  BY <1>10 DEF MoveExpunge, MarkInv, Advance
<1>11. CASE NoSuchNumber \/ MailFails \/ AutoPrint \/ Restart
            \/ \E u \in Uids : Skip(u)
  BY <1>11, <1>3 DEF NoSuchNumber, MailFails, AutoPrint, Restart, Skip, Advance
<1> QED
  BY <1>0, <1>1, <1>2, <1>3, <1>5, <1>6, <1>7, <1>8, <1>9, <1>10, <1>11
     DEF Next, Handle, Mark, Fault, vars

-----------------------------------------------------------------------------
(* What is left of the batch. *)

\* Advancing takes one mail out of the batch.
LEMMA AdvanceLeft ==
  ASSUME TypeOK, NEW u \in Uids, NEW after, Advance(u, after)
  PROVE  cur' = 0 /\ Left' = Left \ {u}
BY DEF Advance, Left, TypeOK

LEMMA NextBatch == IngestInv /\ [Next]_vars => BatchInv'
<1> SUFFICES ASSUME IngestInv, [Next]_vars PROVE BatchInv'
  OBVIOUS
<1> USE DEF IngestInv, mailbox, database, worker
<1>a. cur # 0 => cur \in Uids
  BY DEF TypeOK
\* Whose turn is over is out of the batch, and who is marked with it has slipped.
<1>b. ASSUME Left' \subseteq Left \ {cur}, seen' \cap inbox' \subseteq seen \cup slipped' \cup {cur},
             inbox \ seen \subseteq inbox', slipped \subseteq slipped', uidnext' = uidnext
      PROVE  BatchInv'
  BY <1>b DEF BatchInv, Waiting
<1>0. CASE UNCHANGED <<uidnext, inbox, seen, cur, fetched, slipped>>
  BY <1>0 DEF BatchInv, Left, Waiting
<1>1. ASSUME NEW c \in Contents, Arrive(c) PROVE BatchInv'
  <2>1. uidnext \in Nat /\ uidnext' = uidnext + 1 /\ \A u \in Uids : u \in Nat
    BY <1>1, BoundAssumption DEF Arrive, TypeOK, Uids
  <2> QED BY <1>1, <2>1 DEF Arrive, BatchInv, Left, Waiting
<1>2. CASE FetchUnseen
  <2>0. PICK batch \in SUBSET (inbox \ seen) : Fetch(batch)
    BY <1>2 DEF FetchUnseen, Unseen
  <2>a. CASE ~Decodable(batch)
    BY <1>0, <2>0, <2>a DEF Fetch, SeenByFetch
  <2>1. CASE Decodable(batch)
    <3>1. fetched' = [u \in Uids |-> IF u \in batch THEN SeqNum(u) ELSE 0]
      BY <2>0, <2>1 DEF Fetch
    <3>2. Left' \subseteq batch
      BY <3>1 DEF Left
    <3>3. \A u \in batch : u < uidnext
      BY BoundAssumption DEF TypeOK
    <3> QED BY <2>0, <3>2, <3>3 DEF Fetch, SeenByFetch, BatchInv, Waiting
  <2> QED BY <2>a, <2>1
<1>3. ASSUME NEW u \in Uids, Skip(u) PROVE BatchInv'
  <2>1. Left' \subseteq Left /\ cur = 0
    BY <1>3, AdvanceLeft DEF Skip, WorkerInv
  <2>2. 0 \notin Left
    BY BoundAssumption DEF Left, Uids
  <2> QED BY <1>3, <2>1, <2>2 DEF Skip, BatchInv, Waiting
<1>4. ASSUME NEW u \in Uids, RecordUnparsed(u) \/ RecordFailed(u) \/ RecordBooking(u)
                              \/ ApplyCancellation(u)
      PROVE  BatchInv'
  <2>1. /\ cur = 0 /\ UNCHANGED <<uidnext, inbox, seen, fetched, slipped>>
    BY <1>4 DEF RecordUnparsed, RecordFailed, RecordBooking, ApplyCancellation, Process, WorkerInv
  <2>2. 0 \notin Left
    BY BoundAssumption DEF Left, Uids
  <2> QED BY <2>1, <2>2 DEF BatchInv, Left, Waiting
<1>5. CASE MarkSeen
  <2>1. cur \in Uids /\ Advance(cur, lost)
    BY <1>5, <1>a DEF MarkSeen, Marks, WorkerInv
  <2>2. Left' = Left \ {cur}
    BY <2>1, AdvanceLeft
  <2>3. /\ seen' = seen \cup Claimed /\ slipped' = slipped \cup (Claimed \ {cur})
        /\ inbox' = inbox /\ uidnext' = uidnext
    BY <1>5 DEF MarkSeen, Marks, Flagged
  <2>4. seen' \cap inbox' \subseteq seen \cup slipped' \cup {cur}
    BY <2>3
  <2> QED BY <1>b, <2>2, <2>3, <2>4
<1>6. CASE MoveSeen
  <2>1. /\ seen' = seen \cup Claimed /\ slipped' = slipped \cup (Claimed \ {cur})
        /\ inbox' = inbox /\ uidnext' = uidnext /\ cur' = cur /\ fetched' = fetched
    BY <1>6 DEF MoveSeen, Marks, Flagged
  <2>2. Left' = Left
    BY <2>1 DEF Left
  <2> QED BY <2>1, <2>2 DEF BatchInv, Waiting
<1>7. CASE MoveExpunge \/ NoSuchNumber
  <2>1. cur \in Uids /\ Advance(cur, lost)
    BY <1>7, <1>a DEF MoveExpunge, NoSuchNumber, WorkerInv
  <2>2. Left' = Left \ {cur}
    BY <2>1, AdvanceLeft
  <2> QED BY <1>7, <1>b, <2>2 DEF MoveExpunge, NoSuchNumber, MarkInv
<1>8. CASE MailFails
  <2>1. PICK u \in Uids, after \in SUBSET Losses :
          (u = cur \/ (pc = "next" /\ IsNext(u))) /\ Advance(u, after)
    BY <1>8 DEF MailFails
  <2>2. Left' = Left \ {u}
    BY <2>1, AdvanceLeft
  <2>3. cur \notin Left \ {u}
    BY <2>1, BoundAssumption DEF WorkerInv, Left, Uids
  <2> QED BY <1>8, <2>2, <2>3 DEF MailFails, BatchInv, Waiting
<1>9. CASE Restart
  <2>1. Left' = {}
    BY <1>9 DEF Restart, Left
  <2> QED BY <2>1 DEF BatchInv
<1>10. CASE AutoPrint \/ MoveCopy \/ MoveDelete
  BY <1>0, <1>10 DEF AutoPrint, MoveCopy, MoveDelete, Marks
<1> QED
  BY <1>0, <1>1, <1>2, <1>3, <1>4, <1>5, <1>6, <1>7, <1>8, <1>9, <1>10
     DEF Next, Handle, Mark, Fault, vars

-----------------------------------------------------------------------------
(* Nothing is dropped. *)

LEMMA NextDropped == IngestInv /\ [Next]_vars => NothingDroppedUnlessSlipped'
<1> SUFFICES ASSUME IngestInv, [Next]_vars, NEW u \in Uids, u < uidnext'
             PROVE  Waiting(u)' \/ Recorded(u)' \/ u \in slipped'
  BY DEF NothingDroppedUnlessSlipped
<1> USE DEF IngestInv, mailbox, database, worker
<1>1. ASSUME NEW c \in Contents, Arrive(c) PROVE Waiting(u)' \/ Recorded(u)' \/ u \in slipped'
  <2>1. CASE u = uidnext
    <3>1. u \notin seen
      BY <2>1, BoundAssumption DEF TypeOK
    <3> QED BY <1>1, <2>1, <3>1 DEF Arrive, Waiting
  <2>2. CASE u # uidnext
    <3>1. u < uidnext
      BY <1>1, <2>2, BoundAssumption DEF Arrive, TypeOK, Uids
    <3> QED BY <1>1, <2>2, <3>1 DEF Arrive, Waiting, Recorded, NothingDroppedUnlessSlipped
  <2> QED BY <2>1, <2>2
<1>2. CASE /\ UNCHANGED <<uidnext, inbox, seen, slipped>>
           /\ Recorded(u) => Recorded(u)'
  BY <1>2 DEF Waiting, NothingDroppedUnlessSlipped
<1>3. CASE UNCHANGED vars
  BY <1>2, <1>3 DEF vars, Recorded
<1>4. CASE FetchUnseen
  BY <1>2, <1>4 DEF FetchUnseen, Fetch, SeenByFetch, Recorded
<1>5. ASSUME NEW v \in Uids, RecordUnparsed(v) \/ RecordFailed(v) \/ RecordBooking(v)
                              \/ ApplyCancellation(v)
      PROVE  Waiting(u)' \/ Recorded(u)' \/ u \in slipped'
  <2>1. PICK then, outcome : Process(v, then) /\ Audit(v, outcome)
    BY <1>5 DEF RecordUnparsed, RecordFailed, RecordBooking, ApplyCancellation
  <2>2. Recorded(u) => Recorded(u)'
    BY <2>1 DEF Audit, Recorded, TypeOK
  <2>3. UNCHANGED <<uidnext, inbox, seen, slipped>>
    BY <2>1 DEF Process
  <2> QED BY <1>2, <2>2, <2>3
<1>6. CASE MarkSeen \/ MoveSeen
  <2>1. /\ seen' = seen \cup Claimed /\ slipped' = slipped \cup (Claimed \ {cur})
        /\ UNCHANGED <<uidnext, inbox, audit>>
    BY <1>6 DEF MarkSeen, MoveSeen, Marks, Flagged
  <2>2. Recorded(cur) \/ cur # u
    BY <1>6, BoundAssumption DEF MarkSeen, MoveSeen, Marks, WorkerInv, Uids
  <2> QED BY <2>1, <2>2 DEF Waiting, Recorded, NothingDroppedUnlessSlipped
<1>7. CASE MoveExpunge
  BY <1>7 DEF MoveExpunge, MarkInv, Waiting, Recorded, NothingDroppedUnlessSlipped
<1>8. CASE \/ MoveCopy \/ MoveDelete \/ NoSuchNumber \/ MailFails \/ AutoPrint \/ Restart
           \/ \E v \in Uids : Skip(v)
  <2>1. UNCHANGED <<uidnext, inbox, seen, slipped, audit>>
    BY <1>8 DEF MoveCopy, MoveDelete, NoSuchNumber, MailFails, AutoPrint, Restart,
                Skip, Marks
  <2> QED BY <1>2, <2>1 DEF Recorded
<1> QED
  BY <1>1, <1>3, <1>4, <1>5, <1>6, <1>7, <1>8 DEF Next, Handle, Mark, Fault

-----------------------------------------------------------------------------
(* The theorems. *)

\* The invariant of the worker: types, what it has in hand, what it has marked,
\* and that a mail's outcome is committed before the mail is marked.
THEOREM IngestInvariant == Spec => []IngestInv
<1>1. IngestInv /\ [Next]_vars => IngestInv'
  BY NextType, NextWorker, NextMark, NextBatch, NextDropped DEF IngestInv
<1> QED
  BY <1>1, InitIngest, PTL DEF Spec

\* No fault and no restart drops a mail that did not get another mail's mark.
THEOREM NothingDroppedUnlessSlippedHolds == Spec => []NothingDroppedUnlessSlipped
<1>1. IngestInv => NothingDroppedUnlessSlipped
  BY DEF IngestInv
<1> QED
  BY <1>1, IngestInvariant, PTL

-----------------------------------------------------------------------------
(* Cancellations are idempotent. *)

\* Every row comes from a mail that has arrived, so what that mail says is fixed.
RowsArrived == \A i \in DOMAIN reservations : content[reservations[i].from] # NoContent

\* A new row keeps CancelOnce unless it repeats a cancellation.
LEMMA AppendedOnce ==
  ASSUME TypeOK, RowsArrived, CancelOnce, NEW u \in Uids, NEW status,
         content[u] # NoContent,
         content[u].kind # "cancellation" \/ OfRef(content[u].ref) = {},
         reservations' = Append(reservations, Row(u, status)), content' = content
  PROVE  CancelOnce' /\ RowsArrived'
<1> DEFINE n == Len(reservations)
<1>1. /\ n \in Nat /\ DOMAIN reservations = 1 .. n /\ DOMAIN reservations' = 1 .. n + 1
      /\ reservations'[n + 1] = Row(u, status)
      /\ \A i \in 1 .. n : reservations'[i] = reservations[i]
  BY DEF TypeOK
<1>2. RowsArrived'
  <2> SUFFICES ASSUME NEW i \in 1 .. n + 1 PROVE content[reservations'[i].from] # NoContent
    BY <1>1 DEF RowsArrived
  <2>1. CASE i = n + 1
    BY <1>1, <2>1 DEF Row
  <2>2. CASE i \in 1 .. n
    BY <1>1, <2>2 DEF RowsArrived
  <2> QED BY <1>1, <2>1, <2>2
<1>3. CancelOnce'
  <2> SUFFICES ASSUME NEW i \in 1 .. n + 1, NEW k \in 1 .. n + 1,
                      content[reservations'[i].from].kind = "cancellation",
                      content[reservations'[k].from].kind = "cancellation",
                      reservations'[i].ref = reservations'[k].ref
               PROVE  i = k
    BY <1>1 DEF CancelOnce
  <2>1. CASE i \in 1 .. n /\ k \in 1 .. n
    BY <1>1, <2>1 DEF CancelOnce
  <2>2. ASSUME NEW m \in 1 .. n, content[u].kind = "cancellation",
               reservations[m].ref = content[u].ref
        PROVE  FALSE
    BY <1>1, <2>2 DEF OfRef
  <2>3. CASE i = n + 1 /\ k \in 1 .. n
    BY <1>1, <2>2, <2>3 DEF Row
  <2>4. CASE i \in 1 .. n /\ k = n + 1
    BY <1>1, <2>2, <2>4 DEF Row
  <2> QED BY <1>1, <2>1, <2>3, <2>4
<1> QED
  BY <1>2, <1>3

LEMMA NextCancelOnce ==
  IngestInv /\ RowsArrived /\ CancelOnce /\ [Next]_vars => RowsArrived' /\ CancelOnce'
<1> SUFFICES ASSUME IngestInv, RowsArrived, CancelOnce, [Next]_vars
             PROVE  RowsArrived' /\ CancelOnce'
  OBVIOUS
<1> USE DEF IngestInv, mailbox, database, worker
<1>1. CASE UNCHANGED <<content, reservations>>
  BY <1>1 DEF RowsArrived, CancelOnce
<1>2. ASSUME NEW c \in Contents, Arrive(c) PROVE RowsArrived' /\ CancelOnce'
  <2>1. ASSUME NEW i \in DOMAIN reservations
        PROVE  content'[reservations[i].from] = content[reservations[i].from]
    <3>1. reservations[i].from \in Uids
      <4>1. reservations[i] \in Reservation
        BY DEF TypeOK
      <4> QED BY <4>1 DEF Reservation
    <3>2. reservations[i].from # uidnext
      BY <3>1, BoundAssumption DEF RowsArrived, TypeOK
    <3> QED BY <1>2, <3>1, <3>2 DEF Arrive, TypeOK
  <2> QED BY <1>2, <2>1 DEF Arrive, RowsArrived, CancelOnce
<1>3. ASSUME NEW u \in Uids, RecordBooking(u) PROVE RowsArrived' /\ CancelOnce'
  BY <1>3, AppendedOnce DEF RecordBooking, Process, NoContent
<1>4. ASSUME NEW u \in Uids, ApplyCancellation(u) PROVE RowsArrived' /\ CancelOnce'
  <2>1. content[u] # NoContent /\ content' = content
    BY <1>4 DEF ApplyCancellation, Process, NoContent
  <2>2. CASE /\ OfRef(content[u].ref) = {}
             /\ reservations' = Append(reservations, Row(u, "cancelled"))
    BY <2>1, <2>2, AppendedOnce
  <2>3. ASSUME NEW m \in OfRef(content[u].ref),
               reservations' = [reservations EXCEPT ![m].status = "cancelled"]
        PROVE  RowsArrived' /\ CancelOnce'
    <3>1. DOMAIN reservations' = DOMAIN reservations
      BY <2>3 DEF TypeOK
    <3>2. ASSUME NEW i \in DOMAIN reservations
          PROVE  /\ reservations'[i].from = reservations[i].from
                 /\ reservations'[i].ref = reservations[i].ref
      BY <2>3 DEF TypeOK, Reservation
    <3> QED BY <2>1, <3>1, <3>2 DEF RowsArrived, CancelOnce
  <2> QED BY <1>4, <2>2, <2>3 DEF ApplyCancellation
<1>5. CASE Mark \/ FetchUnseen \/ AutoPrint \/ MailFails \/ Restart
           \/ \E u \in Uids : Skip(u) \/ RecordUnparsed(u) \/ RecordFailed(u)
  <2>1. UNCHANGED <<content, reservations>>
    BY <1>5 DEF Mark, MarkSeen, MoveSeen, MoveCopy, MoveDelete, MoveExpunge, NoSuchNumber,
                Marks, FetchUnseen, Fetch, AutoPrint, MailFails, Restart, Skip,
                RecordUnparsed, RecordFailed, Process
  <2> QED BY <1>1, <2>1
<1> QED
  BY <1>1, <1>2, <1>3, <1>4, <1>5 DEF Next, Handle, Fault, vars

\* However often cancellation mails are repeated, or taken in again, there is one
\* row at most that a cancellation created for a reference.
THEOREM CancelOnceHolds == Spec => []CancelOnce
<1>1. Init => RowsArrived /\ CancelOnce
  BY DEF Init, RowsArrived, CancelOnce
<1> QED
  BY <1>1, NextCancelOnce, IngestInvariant, PTL DEF Spec

\* Type correctness of the worker.
THEOREM IngestTypeCorrect == Spec => []TypeOK
<1>1. IngestInv => TypeOK
  BY DEF IngestInv
<1> QED
  BY <1>1, IngestInvariant, PTL

-----------------------------------------------------------------------------
(* The worker implements MailIntake. *)

\* A number stands for one mail at most.
LEMMA NumbersApart ==
  ASSUME TypeOK, NEW u \in inbox, NEW v \in inbox, SeqNum(u) = SeqNum(v)
  PROVE  u = v
<1>0. inbox \subseteq Nat
  BY BoundAssumption DEF TypeOK
<1>1. ASSUME NEW a \in inbox, NEW b \in inbox, a < b, SeqNum(a) = SeqNum(b) PROVE FALSE
  <2> DEFINE A == {w \in inbox : w <= a}
             B == {w \in inbox : w <= b}
  <2>0. a \in Nat /\ b \in Nat
    BY <1>0
  <2>1. A \subseteq B /\ b \in B /\ b \notin A
    <3>1. \A w \in Nat : w <= a => w <= b
      BY <1>1, <2>0
    <3>2. b <= b /\ ~(b <= a)
      BY <1>1, <2>0
    <3> QED BY <1>0, <3>1, <3>2
  <2>2. IsFiniteSet(B)
    BY InboxFinite, FS_Subset
  <2>3. Cardinality(A) = Cardinality(B)
    BY <1>1 DEF SeqNum
  <2> HIDE DEF A, B
  <2> QED BY <2>1, <2>2, <2>3, FS_Subset
<1> QED
  BY <1>0, <1>1

\* A mark is made on one mail: on the one in hand, or on another one in its place.
LEMMA MarkIsIntake ==
  ASSUME IngestInv, pc \in {"flagging", "moving"}, Claimed # {},
         seen' = seen \cup Claimed, slipped' = slipped \cup (Claimed \ {cur}),
         UNCHANGED <<uidnext, inbox, audit>>
  PROVE  Intake!Next
<1> USE DEF IngestInv
<1>1. cur \in Uids /\ audit[cur] # {}
  BY DEF WorkerInv, TypeOK, Recorded
<1>2. PICK v : Claimed = {v} /\ v \in inbox
  <2>1. PICK v : v \in Claimed
    OBVIOUS
  <2>2. ASSUME NEW w \in Claimed PROVE w = v
    BY <2>1, NumbersApart DEF Claimed, At
  <2> QED BY <2>1, <2>2 DEF Claimed, At
<1>3. v \in Uids /\ v \in 1 .. uidnext - 1
  BY <1>2, BoundAssumption DEF TypeOK, Uids
<1>4. (inbox \ seen)' = (inbox \ seen) \ {v}
  BY <1>2
<1>5. CASE v = cur
  <2>1. slipped' = slipped
    BY <1>2, <1>5
  <2>2. Intake!PutAside(v)
    BY <1>1, <1>4, <1>5, <2>1 DEF Intake!PutAside
  <2> QED BY <1>3, <2>2 DEF Intake!Next
<1>6. CASE v # cur
  <2>1. slipped' = slipped \cup {v}
    BY <1>2, <1>6
  <2>2. cur \in 1 .. uidnext - 1
    <3>1. cur \in Left
      BY <1>1 DEF WorkerInv, Left
    <3> QED BY <1>1, <3>1, BoundAssumption DEF BatchInv, TypeOK, Uids
  <2>3. Intake!Misplace(v)
    BY <1>1, <1>3, <1>4, <1>6, <2>1, <2>2 DEF Intake!Misplace
  <2> QED BY <1>3, <2>3 DEF Intake!Next
<1> QED
  BY <1>5, <1>6

\* Taking in a mail of the batch.
LEMMA RecordIsIntake ==
  ASSUME IngestInv, NEW u \in Uids, NEW then, NEW outcome \in Outcomes,
         Process(u, then), Audit(u, outcome)
  PROVE  Intake!Next
<1> USE DEF IngestInv
<1>1. u \in Left /\ u # cur
  BY BoundAssumption DEF Process, IsNext, WorkerInv, Uids
<1>2. u \in (inbox \ seen) \cup slipped
  BY <1>1 DEF BatchInv, Waiting
<1>3. /\ UNCHANGED <<uidnext, inbox, seen, slipped>>
      /\ audit' = [audit EXCEPT ![u] = @ \cup {outcome}]
  BY DEF Process, Audit, mailbox
<1>4. Intake!TakeIn(u)
  BY <1>2, <1>3 DEF Intake!TakeIn
<1> QED
  BY <1>4 DEF Intake!Next

LEMMA StepKeepsIntake == IngestInv /\ [Next]_vars => [Intake!Next]_(Intake!vars)
<1> SUFFICES ASSUME IngestInv, [Next]_vars PROVE Intake!Next \/ UNCHANGED Intake!vars
  OBVIOUS
<1> USE DEF mailbox, database, worker
<1>0. CASE UNCHANGED <<uidnext, inbox, seen, audit, slipped>>
  BY <1>0 DEF Intake!vars
<1>1. ASSUME NEW c \in Contents, Arrive(c) PROVE Intake!Next
  <2>1. /\ uidnext \in Uids /\ uidnext' = uidnext + 1 /\ inbox' = inbox \cup {uidnext}
        /\ UNCHANGED <<seen, audit, slipped>> /\ seen \subseteq inbox
        /\ inbox \subseteq 1 .. uidnext - 1 /\ uidnext \in Nat /\ uidnext >= 1
    BY <1>1, BoundAssumption DEF Arrive, IngestInv, TypeOK, Uids
  <2>2. (inbox \ seen)' = (inbox \ seen) \cup {uidnext}
    BY <2>1
  <2>3. (1 .. uidnext - 1)' = (1 .. uidnext - 1) \cup {uidnext} /\ uidnext \notin 1 .. uidnext - 1
    BY <2>1
  <2>4. Intake!Arrive(uidnext)
    BY <2>1, <2>2, <2>3 DEF Intake!Arrive
  <2> QED BY <2>1, <2>4 DEF Intake!Next
<1>2. CASE FetchUnseen \/ AutoPrint \/ MoveCopy \/ MoveDelete \/ NoSuchNumber \/ MailFails
           \/ Restart \/ \E u \in Uids : Skip(u)
  <2>1. UNCHANGED <<uidnext, inbox, seen, audit, slipped>>
    BY <1>2 DEF FetchUnseen, Fetch, SeenByFetch, AutoPrint, MoveCopy, MoveDelete, NoSuchNumber,
                MailFails, Restart, Skip, Marks
  <2> QED BY <1>0, <2>1
<1>3. ASSUME NEW u \in Uids, RecordUnparsed(u) \/ RecordFailed(u) \/ RecordBooking(u)
                              \/ ApplyCancellation(u)
      PROVE  Intake!Next
  <2>0. "unparsed" \in Outcomes /\ "ingested" \in Outcomes /\ "cancelled" \in Outcomes
    BY DEF Outcomes
  <2>1. CASE RecordUnparsed(u)
    <3>1. Process(u, "flagging") /\ Audit(u, "unparsed")
      BY <2>1 DEF RecordUnparsed
    <3> QED BY <2>0, <3>1, RecordIsIntake
  <2>2. CASE RecordFailed(u)
    <3>1. Process(u, "flagging") /\ Audit(u, "unparsed")
      BY <2>2 DEF RecordFailed
    <3> QED BY <2>0, <3>1, RecordIsIntake
  <2>3. CASE RecordBooking(u)
    <3>1. Process(u, "printing") /\ Audit(u, "ingested")
      BY <2>3 DEF RecordBooking
    <3> QED BY <2>0, <3>1, RecordIsIntake
  <2>4. CASE ApplyCancellation(u)
    <3>1. Process(u, "printing") /\ Audit(u, "cancelled")
      BY <2>4 DEF ApplyCancellation
    <3> QED BY <2>0, <3>1, RecordIsIntake
  <2> QED BY <1>3, <2>1, <2>2, <2>3, <2>4
<1>4. CASE MarkSeen \/ MoveSeen
  BY <1>4, MarkIsIntake DEF MarkSeen, MoveSeen, Marks, Flagged
<1>5. CASE MoveExpunge
  <2>1. (inbox \ seen)' = inbox \ seen /\ UNCHANGED <<uidnext, audit, slipped>>
    BY <1>5 DEF MoveExpunge, IngestInv, MarkInv
  <2> QED BY <2>1 DEF Intake!vars
<1> QED
  BY <1>0, <1>1, <1>2, <1>3, <1>4, <1>5 DEF Next, Handle, Mark, Fault, vars

\* Whatever fails and whenever the worker dies, its marks and its records are those of an
\* at-least-once intake: every behaviour of the worker is one MailIntake allows.
THEOREM KeepsIntakeHolds == Spec => KeepsIntake
<1>1. Init => Intake!Init
  <2> SUFFICES ASSUME Init PROVE Intake!Init
    OBVIOUS
  <2>1. 1 .. uidnext - 1 = {}
    BY DEF Init
  <2> QED BY <2>1 DEF Init, Intake!Init
<1>2. IngestInv /\ [Next]_vars => [Intake!Next]_(Intake!vars)
  BY StepKeepsIntake
<1> QED
  BY <1>1, <1>2, IngestInvariant, PTL DEF Spec, KeepsIntake, Intake!Spec
=============================================================================
