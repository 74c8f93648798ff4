------------------------------ MODULE Reparse ------------------------------
(***************************************************************************)
(* Parser profiles and the unparsed mails (services/parser_registry.py,    *)
(* routers/parsers.py and the same pages of routers/admin_ui.py): an       *)
(* operator edits the field mappings of a profile, tries them in a dry     *)
(* run, and then reparses or ignores the mails that no parser could read.  *)
(*                                                                         *)
(* Every request is a session of PostgreSQL at READ COMMITTED.  A reparse  *)
(* reads the entry, then the profiles, then their fields, in statements of *)
(* their own; it holds the entry's row lock from the flush that resolves   *)
(* it until its commit, which a slow printer may put off.                  *)
(***************************************************************************)
EXTENDS Naturals, FiniteSets

CONSTANTS
  Entries,    \* ids of unparsed mails
  Res,        \* ids of reservations
  Profiles,   \* values of profile_slug, which is unique
  Mails,      \* mails that may be among the unparsed ones
  Fields,     \* field mappings that a profile may have
  Subjects,   \* the subjects that match_subject_regex tells apart
  Formats,    \* the bodies that the patterns tell apart
  Refs,       \* values of external_ref
  Handlers,   \* requests that may be open at the same time
  MaxRequests,\* bound: reparses and ignores in a behaviour
  MaxEdits,   \* bound: changes of profiles in a behaviour
  MaxStaff,   \* bound: changes of reservations in a behaviour
  Profile0,   \* profiles that may be there at the start
  Patches,    \* what a PATCH of a profile may set
  None

\* match_subject_regex: absent, for one subject, or no regular expression.
Regexes == {"any", "broken"} \cup Subjects
\* room_line_pattern: absent or sound, or no regular expression.
Patterns == {"sound", "broken"}
Profile == [status : {"none", "active", "inactive"}, subject : Regexes, lines : Patterns,
            kind : {"reservation", "cancellation"}, fields : SUBSET Fields]

\* A field mapping finds its value in some bodies and can transform it in some of
\* those; "guest" stands for guest_name, checkin and checkout, which
\* ParsedReservation requires, "unknown" for a target it does not have.
\* The parser that comes with the program claims no such mail, cannot read the one it
\* claims, or reads it: then it was the insert that failed when the mail came in.
BuiltIn == {"no", "fails", "reads"}
ASSUME ReparseAssumption ==
  /\ Mails \subseteq [subject : Subjects, format : Formats, ref : Refs, builtIn : BuiltIn]
  /\ Fields \subseteq [target : {"guest", "ref", "unknown"}, finds : SUBSET Formats,
                       converts : SUBSET Formats, required : BOOLEAN, valid : BOOLEAN]
  /\ Profile0 \subseteq Profile
  /\ Patches \subseteq [status : {"active", "inactive"}, subject : Regexes, lines : Patterns]
  /\ {"any", "broken"} \cap Subjects = {} /\ None \notin Refs \cup Res \cup Entries \cup Profiles
  /\ MaxRequests \in Nat /\ MaxEdits \in Nat /\ MaxStaff \in Nat

VARIABLES
  profiles, \* the tables parser_field_mappings and parser_field_mapping_fields
  entries,  \* the table unparsed_emails
  rows,     \* the table reservations
  txn,      \* the open request of each handler
  tested,   \* history: the dry runs that succeeded, until their profile is changed
  again,    \* history: entries reparsed when resolved, or twice at a time
  requests, \* reparses and ignores so far
  edits,    \* changes of profiles so far
  staff     \* changes of reservations so far

vars == <<profiles, entries, rows, txn, tested, again, requests, edits, staff>>

Entry == [status : {"none", "pending", "resolved", "gone"}, mail : Mails,
          link : Res \cup {None}, reason : {"live", "no parser", "failed"}]
Row == [status : {"none", "confirmed", "cancelled", "deleted"}, ref : Refs \cup {None},
        from : Entries \cup {None}]
Steps == {"none", "ignore", "reparse", "fields", "fails", "books", "cancels", "printing"}
Writes == {"none", "insert", "update"}
Session == [step : Steps, entry : Entries \cup {None}, found : Profiles \cup {None},
            row : Profile, res : Res \cup {None}, ref : Refs \cup {None}, writes : Writes,
            trust : SUBSET (Profiles \X Subjects \X Formats)]

NoProfile == [status |-> "none", subject |-> "any", lines |-> "sound",
              kind |-> "reservation", fields |-> {}]
Idle == [step |-> "none", entry |-> None, found |-> None, row |-> NoProfile, res |-> None,
         ref |-> None, writes |-> "none", trust |-> {}]

Present(e) == entries[e].status \in {"pending", "resolved"}
InTable(r) == rows[r].status \in {"confirmed", "cancelled"}
Mail(h) == entries[txn[h].entry].mail
\* Between the flush of an entry and the commit its row is locked.
Locked(e) == \E h \in Handlers : txn[h].step = "printing" /\ txn[h].entry = e

Init ==
  /\ profiles \in [Profiles -> Profile0 \cup {NoProfile}]
  /\ entries \in [Entries -> [status : {"none", "pending"}, mail : Mails,
                              link : {None}, reason : {"live"}]]
  /\ rows = [r \in Res |-> [status |-> "none", ref |-> None, from |-> None]]
  /\ txn = [h \in Handlers |-> Idle]
  /\ tested = {} /\ again = {} /\ requests = 0 /\ edits = 0 /\ staff = 0

-----------------------------------------------------------------------------
(* What a profile makes of a mail. *)

\* GenericFieldMappingParser.can_parse, and where it raises.
Claims(row, mail) == row.status = "active" /\ row.subject \in {"any", mail.subject}
Raises(row) == row.status = "active" /\ row.subject = "broken"

FieldsParse(row, mail) ==
  /\ \A f \in row.fields : /\ f.valid /\ f.target # "unknown"
                           /\ mail.format \in f.finds => mail.format \in f.converts
                           /\ f.required => mail.format \in f.finds
  /\ \E f \in row.fields : f.target = "guest" /\ mail.format \in f.finds
\* parse: every field is known, found if required, and transformed if found; the
\* guest's name and the dates have to be among them.
Parses(row, mail) == FieldsParse(row, mail) /\ row.lines = "sound"

\* A cancellation needs the reference it looks for.
\* Mutant: a field that is not found is an empty string.
RefOfEmpty(row, mail) ==
  IF \E f \in row.fields : f.target = "ref" /\ mail.format \in f.finds THEN mail.ref ELSE ""
RefOf(row, mail) ==
  IF \E f \in row.fields : f.target = "ref" /\ mail.format \in f.finds THEN mail.ref ELSE None
Readable(row, mail) ==
  Parses(row, mail) /\ (row.kind = "cancellation" => RefOf(row, mail) # None)

-----------------------------------------------------------------------------
(* The operator's pages: each is one short transaction. *)

\* Whatever a dry run said of a profile holds until the profile is changed.
Changes(p, row) ==
  /\ edits < MaxEdits /\ edits' = edits + 1
  /\ row # profiles[p] /\ profiles' = [profiles EXCEPT ![p] = row]
  /\ tested' = {t \in tested : t[1] # p}
  /\ txn' = [h \in Handlers |-> [txn[h] EXCEPT !.trust = {t \in @ : t[1] # p}]]
  /\ UNCHANGED <<entries, rows, again, requests, staff>>

\* A new profile is active at once, with no field yet.
CreateParser(p) == \E subject \in Regexes, kind \in {"reservation", "cancellation"} :
  /\ profiles[p].status = "none"
  /\ Changes(p, [NoProfile EXCEPT !.status = "active", !.subject = subject, !.kind = kind])

\* PATCH: the columns that the payload has; it knows no kind.
UpdateParser(p) == \E patch \in Patches :
  /\ profiles[p].status # "none"
  /\ Changes(p, [profiles[p] EXCEPT !.status = patch.status, !.subject = patch.subject,
                                    !.lines = patch.lines])
UpdateKind(p) == \E kind \in {"reservation", "cancellation"} :
  profiles[p].status # "none" /\ Changes(p, [profiles[p] EXCEPT !.kind = kind])
UpdateRoomLinePattern(p) == \E lines \in Patterns :
  profiles[p].status # "none" /\ Changes(p, [profiles[p] EXCEPT !.lines = lines])
DeleteParser(p) == profiles[p].status # "none" /\ Changes(p, NoProfile)

AddField(p) == \E f \in Fields :
  profiles[p].status # "none" /\ Changes(p, [profiles[p] EXCEPT !.fields = @ \cup {f}])
UpdateField(p) == \E f \in profiles[p].fields, g \in Fields :
  Changes(p, [profiles[p] EXCEPT !.fields = (@ \ {f}) \cup {g}])
DeleteField(p) == \E f \in profiles[p].fields :
  Changes(p, [profiles[p] EXCEPT !.fields = @ \ {f}])

\* The Test parse panel: this profile alone, active or not, and nothing is kept.
\* Mutant: the room lines are not tried.
DryRunFieldsOnly(row, mail) == row.subject \in {"any", mail.subject} /\ FieldsParse(row, mail)
DryRun(row, mail) == row.subject \in {"any", mail.subject} /\ Parses(row, mail)
TestParse(p) == \E mail \in Mails :
  /\ profiles[p].status # "none" /\ DryRun(profiles[p], mail)
  /\ tested' = tested \cup {<<p, mail.subject, mail.format>>}
  /\ UNCHANGED <<profiles, entries, rows, txn, again, requests, edits, staff>>

-----------------------------------------------------------------------------
(* The unparsed mails. *)

\* _record_unparsed of the worker: a mail that its registry could not read.
RecordUnparsed(e) ==
  /\ entries[e].status = "none"
  /\ entries' = [entries EXCEPT ![e].status = "pending"]
  /\ UNCHANGED <<profiles, rows, txn, tested, again, requests, edits, staff>>

Open(h, e, step) ==
  /\ txn[h].step = "none" /\ requests < MaxRequests /\ requests' = requests + 1
  /\ txn' = [txn EXCEPT ![h] = [Idle EXCEPT !.step = step, !.entry = e]]
  /\ UNCHANGED <<profiles, entries, rows, tested, edits, staff>>
Close(h) == txn' = [txn EXCEPT ![h] = Idle]
Go(h, step) == txn' = [txn EXCEPT ![h].step = step]

IgnoreBegin(h, e) == entries[e].status = "pending" /\ Open(h, e, "ignore") /\ UNCHANGED again
\* The DELETE names the id alone; nothing looks at the status again.
IgnoreCommit(h) ==
  /\ txn[h].step = "ignore" /\ ~Locked(txn[h].entry)
  /\ entries' = [entries EXCEPT ![txn[h].entry].status = "gone"]
  /\ Close(h)
  /\ UNCHANGED <<profiles, rows, tested, again, requests, edits, staff>>

\* A resolved entry, in the archive, can be reparsed as well.
ReparseBegin(h, e) ==
  /\ Present(e) /\ Open(h, e, "reparse")
  /\ again' = IF entries[e].status = "resolved" \/ \E k \in Handlers : txn[k].entry = e
              THEN again \cup {e} ELSE again

Fresh(r) == rows[r].status = "none" /\ \A h \in Handlers : txn[h].res # r

\* load_registry asks for the active profiles, in no order, and the registry has
\* the built-in parser before them; the first that claims the mail has it, and
\* one whose regex is broken raises if it is asked before that.
LoadProfiles(h) ==
  /\ txn[h].step = "reparse"
  /\ \/ \E p \in Profiles :
          /\ Mail(h).builtIn = "no" /\ Claims(profiles[p], Mail(h))
          /\ txn' = [txn EXCEPT ![h] = [@ EXCEPT !.step = "fields", !.found = p,
                                                 !.row = profiles[p], !.trust = tested]]
     \/ \E r \in Res : \* the built-in parser's own reservation
          /\ Mail(h).builtIn = "reads" /\ Fresh(r)
          /\ txn' = [txn EXCEPT ![h] = [@ EXCEPT !.step = "books", !.res = r,
                                                 !.ref = Mail(h).ref, !.writes = "insert"]]
     \/ /\ \/ Mail(h).builtIn = "fails"
           \/ Mail(h).builtIn = "no" /\ \E p \in Profiles : Raises(profiles[p])
           \/ Mail(h).builtIn = "no" /\ \A p \in Profiles : ~Claims(profiles[p], Mail(h))
        /\ Go(h, "fails")
  /\ UNCHANGED <<profiles, entries, rows, tested, again, requests, edits, staff>>

\* The newest of the reservations with that reference; they are numbered in order.
Newest(r, ref) ==
  /\ InTable(r) /\ rows[r].ref = ref
  /\ \A s \in Res : InTable(s) /\ rows[s].ref = ref => s <= r

\* selectinload reads the fields of the profiles in a statement of its own; then
\* the mail is parsed, and booked or looked up by its reference.  To cancel what
\* was read as cancelled writes nothing.
LoadFields(h) ==
  LET row == [txn[h].row EXCEPT !.fields = profiles[txn[h].found].fields]
      ref == RefOf(row, Mail(h))
      With(step, r, writes) ==
        txn' = [txn EXCEPT ![h] = [@ EXCEPT !.step = step, !.row = row, !.res = r, !.ref = ref,
                                            !.writes = writes]]
  IN  /\ txn[h].step = "fields"
      /\ \/ ~Readable(row, Mail(h)) /\ With("fails", None, "none")
         \/ /\ Readable(row, Mail(h)) /\ row.kind = "cancellation"
            /\ \E r \in Res :
                 /\ Newest(r, ref)
                 /\ With("cancels", r, IF rows[r].status = "cancelled" THEN "none" ELSE "update")
         \/ /\ Readable(row, Mail(h))
            /\ row.kind = "cancellation" => ~\E r \in Res : Newest(r, ref)
            /\ \E r \in Res : Fresh(r) /\ With("books", r, "insert")
      /\ UNCHANGED <<profiles, entries, rows, tested, again, requests, edits, staff>>

\* Mutant: the session is not rolled back, and what was flushed is committed.
FailedKept(h) ==
  IF txn[h].step # "books" THEN rows
  ELSE [rows EXCEPT ![txn[h].res] = [status |-> "confirmed", ref |-> txn[h].ref,
                                     from |-> txn[h].entry]]
Failed(h) == rows
\* Any exception before that, one of the database included, is recorded on the
\* entry; an entry that has gone since makes it a 500.
ReparseFails(h) ==
  /\ txn[h].step \in {"fails", "books"} /\ ~Locked(txn[h].entry)
  /\ rows' = Failed(h)
  /\ entries' = IF Present(txn[h].entry)
                THEN [entries EXCEPT ![txn[h].entry].reason =
                        IF txn[h].found = None /\ Mail(h).builtIn = "no" THEN "no parser"
                        ELSE "failed"]
                ELSE entries
  /\ Close(h)
  /\ UNCHANGED <<profiles, tested, again, requests, edits, staff>>

\* The flush updates the entry, and a reservation that is to be cancelled: a row
\* that has gone since is a StaleDataError, or breaks the foreign key of the
\* entry, before anything is printed.
\* Mutant: the entry is updated by a statement that nobody counts the rows of.
StaleEntryNot(h) == FALSE
StaleEntry(h) == ~Present(txn[h].entry)
Stale(h) == StaleEntry(h) \/ (txn[h].step = "cancels" /\ ~InTable(txn[h].res))
Resolve(h) ==
  /\ txn[h].step \in {"books", "cancels"} /\ ~Locked(txn[h].entry)
  /\ IF Stale(h) THEN Close(h) ELSE Go(h, "printing")
  /\ UNCHANGED <<profiles, entries, rows, tested, again, requests, edits, staff>>

\* Mutant: the entry is left pending.
ResolvedNot(h) == [entries[txn[h].entry] EXCEPT !.link = txn[h].res]
Resolved(h) == [entries[txn[h].entry] EXCEPT !.status = "resolved", !.link = txn[h].res]
Written(h) ==
  CASE txn[h].writes = "insert" ->
         [status |-> IF txn[h].row.kind = "cancellation" THEN "cancelled" ELSE "confirmed",
          ref |-> txn[h].ref, from |-> txn[h].entry]
    [] txn[h].writes = "update" -> [rows[txn[h].res] EXCEPT !.status = "cancelled"]
    [] OTHER -> rows[txn[h].res]
\* maybe_auto_print, and the commit of both.
Commit(h) ==
  /\ txn[h].step = "printing"
  /\ rows' = [rows EXCEPT ![txn[h].res] = Written(h)]
  /\ entries' = [entries EXCEPT ![txn[h].entry] = Resolved(h)]
  /\ Close(h)
  /\ UNCHANGED <<profiles, tested, again, requests, edits, staff>>
\* An error of the database from there on, or the end of the process.
Abort(h) ==
  /\ txn[h].step # "none" /\ Close(h)
  /\ UNCHANGED <<profiles, entries, rows, tested, again, requests, edits, staff>>

-----------------------------------------------------------------------------
(* What staff does to a reservation meanwhile. *)

\* A request that has flushed locks the reservation, against its deletion at least.
Staff(r, row, links, kept) ==
  /\ InTable(r) /\ staff < MaxStaff /\ staff' = staff + 1
  /\ \A h \in Handlers : ~(txn[h].step = "printing" /\ txn[h].res = r /\ txn[h].writes \in kept)
  /\ rows' = [rows EXCEPT ![r] = row] /\ entries' = links
  /\ UNCHANGED <<profiles, txn, tested, again, requests, edits>>
SetStatus(r) == \E s \in {"confirmed", "cancelled"} :
  Staff(r, [rows[r] EXCEPT !.status = s], entries, {"update"})

\* Mutant: resolved_reservation_id has no ON DELETE.
UnlinkedNot(r) == entries
Unlinked(r) == [e \in Entries |-> IF entries[e].link = r THEN [entries[e] EXCEPT !.link = None]
                                                         ELSE entries[e]]
Delete(r) ==
  /\ rows[r].status = "cancelled"
  /\ Staff(r, [rows[r] EXCEPT !.status = "deleted"], Unlinked(r), Writes)

-----------------------------------------------------------------------------
Operator(p) ==
  \/ CreateParser(p) \/ UpdateParser(p) \/ UpdateKind(p) \/ UpdateRoomLinePattern(p)
  \/ DeleteParser(p) \/ AddField(p) \/ UpdateField(p) \/ DeleteField(p)
Request(h) ==
  \/ \E e \in Entries : IgnoreBegin(h, e) \/ ReparseBegin(h, e)
  \/ IgnoreCommit(h) \/ LoadProfiles(h) \/ LoadFields(h) \/ ReparseFails(h)
  \/ Resolve(h) \/ Commit(h) \/ Abort(h)

Next ==
  \/ \E p \in Profiles : Operator(p) \/ TestParse(p)
  \/ \E e \in Entries : RecordUnparsed(e)
  \/ \E h \in Handlers : Request(h)
  \/ \E r \in Res : SetStatus(r) \/ Delete(r)

Spec == Init /\ [][Next]_vars

-----------------------------------------------------------------------------
(* Properties. *)

\* The tables hold rows the pages write, and each request is where it can be.
TypeOK ==
  /\ profiles \in [Profiles -> Profile]
  /\ entries \in [Entries -> Entry] /\ rows \in [Res -> Row]
  /\ txn \in [Handlers -> Session]
  /\ tested \subseteq Profiles \X Subjects \X Formats /\ again \subseteq Entries
  /\ requests \in 0 .. MaxRequests /\ edits \in 0 .. MaxEdits /\ staff \in 0 .. MaxStaff

Booked(e) == {r \in Res : rows[r].from = e}

\* A reservation comes from an unparsed mail together with the mail's resolution
\* or not at all, whatever fails on the way: no entry stays pending, to be
\* reparsed once more, when it has its reservation (_reparse_unparsed_email).
ResolvedWithItsReservation ==
  \A e \in Entries : Booked(e) # {} /\ Present(e) => entries[e].status = "resolved"

\* A resolved entry leads to a reservation that is there, and that was made from
\* its mail or has the reference the mail names; a deleted one leaves no link
\* (resolved_reservation_id, ON DELETE SET NULL).
LinkLeadsSomewhere ==
  \A e \in Entries : entries[e].link # None =>
    /\ InTable(entries[e].link)
    /\ \/ rows[entries[e].link].from = e
       \/ rows[entries[e].link].ref = entries[e].mail.ref

\* An unparsed mail becomes two reservations only if the operator asks for it
\* again: when it is resolved already, or while another request is at it.
BookedOnceUnlessAgain ==
  \A e \in Entries : Cardinality(Booked(e)) > 1 => e \in again

\* A mail that was ignored is not booked any more, not even by a reparse that had
\* read it before: its flush finds no row and takes the reservation back.
IgnoredStaysUnbooked ==
  [][\A e \in Entries : entries[e].status = "gone" => Booked(e)' = Booked(e)]_vars

\* What the Test parse panel reported holds: if nobody changed the profile since,
\* a reparse that the profile gets does not fail to parse (test_parser_action, of
\* which docs/BACKEND.md says to confirm extraction with it), except a
\* cancellation for want of a reference, which the panel does not look at.
DryRunHolds ==
  \A h \in Handlers : txn[h].step = "fails" /\ txn[h].found # None =>
    \/ <<txn[h].found, Mail(h).subject, Mail(h).format>> \notin txn[h].trust
    \/ txn[h].row.kind = "cancellation" /\ txn[h].ref = None
=============================================================================
