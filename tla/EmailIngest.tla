---------------------------- MODULE EmailIngest ----------------------------
(***************************************************************************)
(* The ingest-worker (backend/worker.py, services/email_ingest.py): a loop *)
(* that fetches the unseen mails of one IMAP folder, turns each into a     *)
(* reservation, a cancellation or an entry of the unparsed mails, and then *)
(* marks the mail in the folder.                                           *)
(*                                                                         *)
(* A mail is identified by its UID, which the server hands out in order    *)
(* and which never changes.  The worker does not use it: SEARCH, FETCH,    *)
(* STORE and COPY of imaplib speak of sequence numbers, the places of the  *)
(* mails in the folder at that moment, and every mark is made over a new   *)
(* connection.                                                             *)
(***************************************************************************)
EXTENDS Naturals, FiniteSets, Sequences

CONSTANTS
  MaxMails,   \* bound: mails that arrive
  MaxFaults,  \* bound: failing steps and restarts of the worker
  Refs,       \* values of external_ref
  NoRef,      \* a booking mail without a reference
  Contents    \* the mails that may arrive

\* What the registry makes of a mail: a parser claims it and parses it as a
\* booking or a cancellation, claims it and fails on it, no parser claims it, or
\* a mapping's match_subject_regex is no regular expression and the search raises.
\* It never gets a mail that names a charset Python does not know.
Kinds == {"booking", "cancellation", "unreadable", "unmatched", "unsearchable", "undecodable"}

ASSUME ContentAssumption ==
  /\ Contents \subseteq [kind : Kinds, ref : Refs \cup {NoRef}, builtIn : BOOLEAN]
  /\ \A c \in Contents : c.kind = "cancellation" => c.ref # NoRef
  /\ \A c \in Contents : c.builtIn => c.kind \in {"booking", "unreadable"}
  /\ NoRef \notin Refs
ASSUME BoundAssumption == MaxMails \in Nat /\ MaxFaults \in Nat

Uids == 1 .. MaxMails
NoContent == [kind |-> "none", ref |-> NoRef, builtIn |-> FALSE]

VARIABLES
  content,       \* what each UID's mail says; NoContent before it arrives
  uidnext,       \* the UID of the next arrival
  inbox,         \* the mails in the polled folder
  seen,          \* those flagged \Seen
  deleted,       \* those flagged \Deleted
  processed,     \* the mails copied to the processed folder
  reservations,  \* rows of the reservations table in the order of creation
  audit,         \* the audit log's outcomes for each mail
  printed,       \* the mails whose reservation got an auto-print job
  pc,            \* where the worker is
  cur,           \* the mail it is dealing with, or 0
  fetched,       \* the sequence number under which each mail of the batch came; 0: none
  lost,          \* what the batch's session has lost
  faults,        \* history: failing steps so far
  slipped        \* history: mails that got another mail's mark

mailbox == <<inbox, seen, deleted, processed>>
database == <<reservations, audit, printed>>
worker == <<pc, cur, fetched, lost>>
vars == <<content, uidnext, mailbox, database, worker, faults, slipped>>

Reservation == [ref : Refs \cup {NoRef}, status : {"confirmed", "cancelled"}, from : Uids]
Outcomes == {"ingested", "cancelled", "unparsed"}
\* A rollback expires the mappings' attributes, and reading them raises from then
\* on; after an error of the database no statement succeeds before a rollback.
Losses == {"mappings", "transaction"}
Pcs == {"idle", "next", "printing", "flagging", "moving", "copying", "deleting", "expunging"}

\* The sequence number of a mail, and the mail a number stands for.
SeqNum(u) == Cardinality({v \in inbox : v <= u})
At(n) == {u \in inbox : SeqNum(u) = n}

Claimed == At(fetched[cur])
Left == {u \in Uids : fetched[u] > 0}
IsNext(u) == u \in Left /\ \A v \in Left : u <= v

\* The worker is done with mail u, one way or another, and goes on to the next
\* one or closes its session and sleeps.
Advance(u, after) ==
  /\ fetched' = [fetched EXCEPT ![u] = 0]
  /\ cur' = 0
  /\ \/ Left = {u} /\ pc' = "idle" /\ lost' = {}
     \/ Left # {u} /\ pc' = "next" /\ lost' = after

Init ==
  /\ content = [u \in Uids |-> NoContent] /\ uidnext = 1
  /\ inbox = {} /\ seen = {} /\ deleted = {} /\ processed = {}
  /\ reservations = <<>> /\ audit = [u \in Uids |-> {}] /\ printed = {}
  /\ pc = "idle" /\ cur = 0 /\ fetched = [u \in Uids |-> 0] /\ lost = {}
  /\ faults = 0 /\ slipped = {}

-----------------------------------------------------------------------------
(* Polling. *)

Arrive(c) ==
  /\ uidnext \in Uids
  /\ content' = [content EXCEPT ![uidnext] = c]
  /\ inbox' = inbox \cup {uidnext}
  /\ uidnext' = uidnext + 1
  /\ UNCHANGED <<seen, deleted, processed, database, worker, faults, slipped>>

\* Mutant: the bodies are fetched without PEEK.
SeenByFetchNoPeek(batch) == seen \cup batch
\* FETCH BODY.PEEK[] leaves the flags alone.
SeenByFetch(batch) == seen

\* Mutant: the search is for ALL.
UnseenAll == inbox
Unseen == inbox \ seen
\* decode raises LookupError for it, errors="replace" or not.
Decodable(batch) == \A u \in batch : content[u].kind # "undecodable"
\* One connection searches UNSEEN and fetches what it finds; a FETCH that is
\* answered NO leaves its mail for the next poll, and one mail that cannot be
\* decoded takes the whole batch with it.  The session and the registry of
\* mappings are new.
Fetch(batch) ==
  /\ pc = "idle"
  /\ faults' = faults + Cardinality(Unseen \ batch)
  /\ faults' <= MaxFaults
  /\ seen' = SeenByFetch(batch)
  /\ IF Decodable(batch)
     THEN /\ fetched' = [u \in Uids |-> IF u \in batch THEN SeqNum(u) ELSE 0]
          /\ pc' = IF batch = {} THEN "idle" ELSE "next"
     ELSE UNCHANGED <<fetched, pc>>
  /\ UNCHANGED <<content, uidnext, inbox, deleted, processed, database, cur,
                 lost, slipped>>
FetchUnseen == \E batch \in SUBSET Unseen : Fetch(batch)

-----------------------------------------------------------------------------
(* What becomes of a mail: one transaction each. *)

\* registry.find asks every mapping before it knows that none claims the mail.
FindRaises(u) ==
  ~content[u].builtIn /\ ("mappings" \in lost \/ content[u].kind = "unsearchable")

\* So does recording an unmatched mail, without a working transaction.
Raises(u) ==
  FindRaises(u) \/ (content[u].kind = "unmatched" /\ "transaction" \in lost)

\* Nothing catches that but the loop over the batch, which goes on.
Skip(u) ==
  /\ pc = "next" /\ IsNext(u) /\ Raises(u)
  /\ Advance(u, lost)
  /\ UNCHANGED <<content, uidnext, mailbox, database, faults, slipped>>

\* _process_email for a mail it can at least record as unparsed.
Process(u, then) ==
  /\ pc = "next" /\ IsNext(u) /\ ~Raises(u)
  /\ cur' = u /\ pc' = then
  /\ UNCHANGED <<content, uidnext, mailbox, printed, fetched, slipped>>

Audit(u, outcome) == audit' = [audit EXCEPT ![u] = @ \cup {outcome}]

\* A failing parse is rolled back first.
RecordUnparsed(u) ==
  /\ content[u].kind \in {"unmatched", "unreadable"}
  /\ Process(u, "flagging")
  /\ Audit(u, "unparsed")
  /\ lost' = IF content[u].kind = "unreadable" THEN {"mappings"} ELSE lost
  /\ UNCHANGED <<reservations, faults>>

\* Any error of the database while the reservation is created ends there too,
\* be it one that is left over from the mail before.
RecordFailed(u) ==
  /\ content[u].kind \in {"booking", "cancellation"}
  /\ \/ "transaction" \in lost /\ UNCHANGED faults
     \/ faults < MaxFaults /\ faults' = faults + 1
  /\ Process(u, "flagging")
  /\ Audit(u, "unparsed")
  /\ lost' = {"mappings"}
  /\ UNCHANGED reservations

Row(u, status) == [ref |-> content[u].ref, status |-> status, from |-> u]

RecordBooking(u) ==
  /\ content[u].kind = "booking" /\ "transaction" \notin lost
  /\ Process(u, "printing")
  /\ reservations' = Append(reservations, Row(u, "confirmed"))
  /\ Audit(u, "ingested")
  /\ UNCHANGED <<lost, faults>>

\* Mutant: a reservation that is cancelled already does not count as found.
OfRefActive(r) == {i \in DOMAIN reservations : reservations[i].ref = r
                                     /\ reservations[i].status # "cancelled"}
OfRef(r) == {i \in DOMAIN reservations : reservations[i].ref = r}

\* The newest reservation of that reference is cancelled, or one is created.
ApplyCancellation(u) ==
  /\ content[u].kind = "cancellation" /\ "transaction" \notin lost
  /\ Process(u, "printing")
  /\ \/ /\ OfRef(content[u].ref) = {}
        /\ reservations' = Append(reservations, Row(u, "cancelled"))
     \/ \E i \in OfRef(content[u].ref) :
          /\ \A k \in OfRef(content[u].ref) : k <= i
          /\ reservations' = [reservations EXCEPT ![i].status = "cancelled"]
  /\ Audit(u, "cancelled")
  /\ UNCHANGED <<lost, faults>>

\* maybe_auto_print: enabled or not, whatever the outcome, the ingestion goes on.
\* (An error that rolls the session back does not get that far: the handler's
\* log statement reads reservation.id, which raises then.  See MailFails.)
AutoPrint ==
  /\ pc = "printing" /\ pc' = "moving"
  /\ printed' \in {printed, printed \cup {cur}}
  /\ \/ UNCHANGED <<lost, faults>>
     \/ /\ faults < MaxFaults /\ faults' = faults + 1
        /\ lost' = lost \cup {"transaction"}
  /\ UNCHANGED <<content, uidnext, mailbox, reservations, audit, cur, fetched, slipped>>

-----------------------------------------------------------------------------
(* Marking the mail, over a connection of its own. *)

Marks(at) == pc = at /\ Claimed # {}
          /\ UNCHANGED <<content, uidnext, database, faults>>

\* Mutant: the mail is not flagged.
FlaggedNot == seen
\* STORE +FLAGS \Seen.
Flagged == seen \cup Claimed

\* _mark_seen_sync.
MarkSeen ==
  /\ Marks("flagging")
  /\ seen' = Flagged
  /\ slipped' = slipped \cup (Claimed \ {cur})
  /\ Advance(cur, lost)
  /\ UNCHANGED <<inbox, deleted, processed>>

\* _mark_processed_sync, command by command.
MoveSeen ==
  /\ Marks("moving")
  /\ seen' = Flagged
  /\ slipped' = slipped \cup (Claimed \ {cur})
  /\ pc' = "copying"
  /\ UNCHANGED <<inbox, deleted, processed, cur, fetched, lost>>

\* A COPY answered NO does not raise, and its answer is not looked at.
MoveCopy ==
  /\ Marks("copying")
  /\ processed' \in {processed, processed \cup Claimed}
  /\ pc' = "deleting"
  /\ UNCHANGED <<inbox, seen, deleted, cur, fetched, lost, slipped>>

MoveDelete ==
  /\ Marks("deleting")
  /\ deleted' = deleted \cup Claimed
  /\ pc' = "expunging"
  /\ UNCHANGED <<inbox, seen, processed, cur, fetched, lost, slipped>>

\* EXPUNGE removes whatever is flagged \Deleted, and the numbers close up.
MoveExpunge ==
  /\ pc = "expunging"
  /\ inbox' = inbox \ deleted
  /\ seen' = seen \ deleted
  /\ deleted' = {}
  /\ Advance(cur, lost)
  /\ UNCHANGED <<content, uidnext, processed, database, faults, slipped>>

\* No mail has that number any more: the STORE is answered BAD, which raises.
NoSuchNumber ==
  /\ pc \in {"flagging", "moving"} /\ Claimed = {}
  /\ Advance(cur, lost)
  /\ UNCHANGED <<content, uidnext, mailbox, database, faults, slipped>>

-----------------------------------------------------------------------------
(* Faults. *)

\* An exception out of _process_email: of the database, whose flush rolls the
\* session back, or of the connection that makes the mark.  The batch goes on.
MailFails ==
  /\ faults < MaxFaults /\ faults' = faults + 1
  /\ \E u \in Uids, after \in SUBSET Losses :
       /\ u = cur \/ (pc = "next" /\ IsNext(u))
       /\ IF pc \in {"next", "printing"}
          THEN "transaction" \in after /\ lost \subseteq after
          ELSE after = lost
       /\ Advance(u, after)
  /\ UNCHANGED <<content, uidnext, mailbox, database, slipped>>

\* The worker dies and is started again.
Restart ==
  /\ faults < MaxFaults /\ faults' = faults + 1
  /\ pc # "idle"
  /\ pc' = "idle" /\ cur' = 0 /\ fetched' = [u \in Uids |-> 0] /\ lost' = {}
  /\ UNCHANGED <<content, uidnext, mailbox, database, slipped>>

-----------------------------------------------------------------------------
Handle ==
  \/ \E u \in Uids : \/ Skip(u) \/ RecordUnparsed(u) \/ RecordFailed(u)
                     \/ RecordBooking(u) \/ ApplyCancellation(u)
  \/ AutoPrint
Mark == MarkSeen \/ MoveSeen \/ MoveCopy \/ MoveDelete \/ MoveExpunge \/ NoSuchNumber
Fault == MailFails \/ Restart

Next ==
  \/ \E c \in Contents : Arrive(c)
  \/ FetchUnseen
  \/ Handle
  \/ Mark
  \/ Fault

Spec == Init /\ [][Next]_vars

-----------------------------------------------------------------------------
(* Properties. *)

\* The mailbox holds mails that arrived, the tables hold rows the worker writes,
\* and the worker is where its loop can be.
TypeOK ==
  /\ content \in [Uids -> Contents \cup {NoContent}]
  /\ uidnext \in 1 .. MaxMails + 1
  /\ \A u \in Uids : u < uidnext <=> content[u] # NoContent
  /\ inbox \subseteq 1 .. uidnext - 1 /\ processed \subseteq Uids
  /\ seen \subseteq inbox /\ deleted \subseteq inbox
  /\ reservations \in Seq(Reservation)
  /\ audit \in [Uids -> SUBSET Outcomes]
  /\ printed \subseteq Uids /\ slipped \subseteq Uids
  /\ pc \in Pcs /\ cur \in Uids \cup {0}
  /\ fetched \in [Uids -> Nat] /\ lost \subseteq Losses /\ faults \in Nat

Recorded(u) == audit[u] # {}
Waiting(u) == u \in inbox \ seen

\* At least once: a mail that has arrived is still unseen in the folder, where
\* the next poll finds it, or its outcome is committed, wherever the worker was
\* when it died or an exception ended the mail's turn.  The one way to lose a
\* mail is to be given the mark of another one (_process_email commits before
\* it marks).
NothingDroppedUnlessSlipped ==
  \A u \in Uids : u < uidnext => Waiting(u) \/ Recorded(u) \/ u \in slipped

\* docs/BACKEND.md on cancellations: a repeated notice creates no second phantom
\* booking, however often the worker takes in the same mail again, and whatever
\* duplicates of the booking itself there are (apply_cancellation_email).
CancelOnce ==
  \A i, k \in DOMAIN reservations :
    /\ content[reservations[i].from].kind = "cancellation"
    /\ content[reservations[k].from].kind = "cancellation"
    /\ reservations[i].ref = reservations[k].ref
    => i = k

\* The module's own account: unseen messages are dispatched to the parsers and
\* become a reservation or an unparsed entry.  So no mail goes by without one.
NothingDropped ==
  \A u \in Uids : u < uidnext => Waiting(u) \/ Recorded(u)

\* The worker keeps what MailIntake promises: a mail waits while it is unseen in the
\* folder, no mail is put aside but by a mark of its own after its outcome is committed
\* or by another mail's mark, and once it is put aside by its own, no poll, retry or
\* restart ever gives it another outcome.
Intake == INSTANCE MailIntake WITH Mails <- Uids, arrived <- 1 .. uidnext - 1,
            waiting <- inbox \ seen, outcome <- audit, misplaced <- slipped
KeepsIntake == Intake!Spec

-----------------------------------------------------------------------------
(* The inductive invariant behind NothingDroppedUnlessSlipped and KeepsIntake. *)

\* The worker has a mail in hand exactly while it prints and marks, and by then
\* its outcome is committed.
WorkerInv ==
  /\ cur = 0 <=> pc \in {"idle", "next"}
  /\ cur # 0 => fetched[cur] > 0 /\ Recorded(cur)
  /\ pc = "next" => Left # {}

\* What is flagged \Deleted was flagged \Seen before, over the same connection.
MarkInv ==
  /\ deleted \subseteq seen
  /\ pc \in {"copying", "deleting"} => Claimed # {} /\ Claimed \subseteq seen

\* A mail of the batch has arrived, and while its turn is to come it is not put aside,
\* unless in another one's place.
BatchInv == \A u \in Left : u < uidnext /\ (u = cur \/ Waiting(u) \/ u \in slipped)

IngestInv ==
  /\ TypeOK
  /\ WorkerInv
  /\ MarkInv
  /\ BatchInv
  /\ NothingDroppedUnlessSlipped

-----------------------------------------------------------------------------
(* Liveness. *)

\* The loop of the worker goes on, and compose restarts it; MaxFaults says that
\* the faults come to an end, and no FETCH has to be answered NO.
Fairness == WF_vars(Fetch(Unseen) \/ Handle \/ Mark)

FairSpec == Spec /\ Fairness

\* No poll gets past an unseen mail that cannot be decoded.
Jammed == ~Decodable(Unseen)

=============================================================================
