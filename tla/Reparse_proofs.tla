--------------------------- MODULE Reparse_proofs ---------------------------
(* Proofs about parser profiles and unparsed mails, for any number of      *)
(* mails, profiles, reservations, requests and changes.                    *)
EXTENDS Reparse, FiniteSetTheorems, TLAPS

-----------------------------------------------------------------------------
(* The inductive invariant. *)

\* What a request has read and will write at each of its steps.
ShapeOf(t) ==
  /\ t.step = "none" <=> t.entry = None
  /\ t.step \in {"none", "ignore", "reparse"} => t.found = None
  /\ t.step = "fields" => t.found # None
  /\ t.step \in {"none", "ignore", "reparse", "fields", "fails"} => t.res = None /\ t.writes = "none"
  /\ t.step \in {"books", "cancels", "printing"} => t.res # None
  /\ t.step = "books" => t.writes = "insert"
  /\ t.step = "cancels" => t.writes # "insert"
Shape == \A h \in Handlers : ShapeOf(txn[h])

\* Its entry has been recorded; the reservation it inserts is its own; the one it
\* cancels has the mail's reference.
InsertsOwn == \A h \in Handlers : txn[h].writes = "insert" =>
  /\ rows[txn[h].res].status = "none"
  /\ \A k \in Handlers : k # h => txn[k].res # txn[h].res
FindsByRef == \A h \in Handlers : txn[h].step \in {"cancels", "printing"} /\ txn[h].writes # "insert" =>
  /\ rows[txn[h].res].status # "none"
  /\ rows[txn[h].res].ref = Mail(h).ref
Recorded == \A h \in Handlers : txn[h].step # "none" => entries[txn[h].entry].status # "none"

\* The locks: between flush and commit the entry is there and nobody else's, and the
\* reservation is not deleted.
Locks == \A h \in Handlers : txn[h].step = "printing" =>
  /\ Present(txn[h].entry)
  /\ txn[h].writes # "insert" => InTable(txn[h].res)
  /\ \A k \in Handlers : txn[k].step = "printing" /\ txn[k].entry = txn[h].entry => k = h

\* A reservation from a mail has its mail recorded.
RowsFrom == \A r \in Res :
  /\ rows[r].status = "none" => rows[r].from = None
  /\ \A e \in Entries : rows[r].from = e => entries[e].status # "none"

\* Unless the operator asks again, one reparse at most is at a mail, and then
\* nothing was booked from it yet.
Reparsing(h, e) == txn[h].entry = e /\ txn[h].step # "ignore"
Once == \A e \in Entries \ again :
  /\ \A r, s \in Booked(e) : r = s
  /\ \A h, k \in Handlers : Reparsing(h, e) /\ Reparsing(k, e) => h = k
  /\ \A h \in Handlers : Reparsing(h, e) => Booked(e) = {}

\* A dry run still says what the profile does, and a reparse that trusts it has
\* read the profile as it is.
TestedHolds == \A p \in Profiles, mail \in Mails :
  <<p, mail.subject, mail.format>> \in tested => DryRun(profiles[p], mail)
Trusts(h) == <<txn[h].found, Mail(h).subject, Mail(h).format>> \in txn[h].trust
TrustedHolds == \A h \in Handlers : txn[h].step = "fields" /\ Trusts(h) =>
  txn[h].row = profiles[txn[h].found] /\ DryRun(txn[h].row, Mail(h))

Sessions == Shape /\ InsertsOwn /\ FindsByRef /\ Recorded /\ Locks
Tables == RowsFrom /\ ResolvedWithItsReservation /\ LinkLeadsSomewhere /\ Once
Tests == TestedHolds /\ TrustedHolds /\ DryRunHolds
ReparseInv == TypeOK /\ Sessions /\ Tables /\ Tests

-----------------------------------------------------------------------------
(* Facts about the pieces of a step. *)

LEMMA IdleType == Idle \in Session /\ ShapeOf(Idle)
BY ReparseAssumption DEF Idle, Session, Steps, Writes, NoProfile, Profile, Regexes, Patterns, ShapeOf

\* The editor's requests change one profile to another row of the table.
LEMMA OperatorChanges ==
  ASSUME TypeOK, NEW p \in Profiles, Operator(p)
  PROVE  \E row \in Profile : Changes(p, row)
<1> USE ReparseAssumption DEF TypeOK
<1>0. profiles[p] \in Profile /\ NoProfile \in Profile
      BY DEF Profile, NoProfile, Regexes, Patterns
<1>1. CASE CreateParser(p)
      BY <1>0, <1>1 DEF CreateParser, Profile
<1>2. CASE UpdateParser(p)
  <2>1. PICK patch \in Patches :
          Changes(p, [profiles[p] EXCEPT !.status = patch.status, !.subject = patch.subject,
                                         !.lines = patch.lines])
        BY <1>2 DEF UpdateParser
  <2>2. patch \in [status : {"active", "inactive"}, subject : Regexes, lines : Patterns]
        OBVIOUS
  <2> QED BY <1>0, <2>1, <2>2 DEF Profile
<1>3. CASE UpdateKind(p)
      BY <1>0, <1>3 DEF UpdateKind, Profile
<1>4. CASE UpdateRoomLinePattern(p)
      BY <1>0, <1>4 DEF UpdateRoomLinePattern, Profile
<1>5. CASE DeleteParser(p)
      BY <1>0, <1>5 DEF DeleteParser
<1>6. CASE AddField(p)
  <2>1. PICK f \in Fields : Changes(p, [profiles[p] EXCEPT !.fields = @ \cup {f}])
        BY <1>6 DEF AddField
  <2>2. [profiles[p] EXCEPT !.fields = @ \cup {f}] \in Profile
        BY <1>0 DEF Profile
  <2> QED BY <2>1, <2>2
<1>7. CASE UpdateField(p)
  <2>1. PICK f \in profiles[p].fields, g \in Fields :
          Changes(p, [profiles[p] EXCEPT !.fields = (@ \ {f}) \cup {g}])
        BY <1>7 DEF UpdateField
  <2>2. [profiles[p] EXCEPT !.fields = (@ \ {f}) \cup {g}] \in Profile
        BY <1>0 DEF Profile
  <2> QED BY <2>1, <2>2
<1>8. CASE DeleteField(p)
  <2>1. PICK f \in profiles[p].fields : Changes(p, [profiles[p] EXCEPT !.fields = @ \ {f}])
        BY <1>8 DEF DeleteField
  <2>2. [profiles[p] EXCEPT !.fields = @ \ {f}] \in Profile
        BY <1>0 DEF Profile
  <2> QED BY <2>1, <2>2
<1> QED BY <1>1, <1>2, <1>3, <1>4, <1>5, <1>6, <1>7, <1>8 DEF Operator

\* A change of a profile leaves every request as it is, but for its trust.
SameBut(t, s) ==
  /\ t.step = s.step /\ t.entry = s.entry /\ t.found = s.found /\ t.row = s.row
  /\ t.res = s.res /\ t.ref = s.ref /\ t.writes = s.writes
LEMMA ChangesKeep ==
  ASSUME TypeOK, NEW p \in Profiles, NEW row \in Profile, Changes(p, row)
  PROVE  /\ txn' \in [Handlers -> Session]
         /\ \A h \in Handlers : /\ SameBut(txn'[h], txn[h])
                                /\ txn'[h].trust = {t \in txn[h].trust : t[1] # p}
<1>1. ASSUME NEW h \in Handlers
      PROVE  /\ txn'[h] \in Session /\ SameBut(txn'[h], txn[h])
             /\ txn'[h].trust = {t \in txn[h].trust : t[1] # p}
  <2>1. txn[h] \in Session
        BY DEF TypeOK
  <2>2. txn'[h] = [txn[h] EXCEPT !.trust = {t \in @ : t[1] # p}]
        BY DEF Changes
  <2> QED BY <2>1, <2>2 DEF Session, SameBut
<1>2. txn' = [h \in Handlers |-> [txn[h] EXCEPT !.trust = {t \in @ : t[1] # p}]]
      BY SMTT(40) DEF Changes
<1> QED BY <1>1, <1>2

\* A request's step leaves the others alone.
LEMMA RequestSteps ==
  ASSUME TypeOK, NEW h \in Handlers, Request(h)
  PROVE  \E s : txn' = [txn EXCEPT ![h] = s]
BY DEF Request, IgnoreBegin, ReparseBegin, Open, IgnoreCommit, Close, LoadProfiles, Go,
       LoadFields, ReparseFails, Resolve, Commit, Abort

\* What the second read of a profile leads to.
Merged(h) == [txn[h].row EXCEPT !.fields = profiles[txn[h].found].fields]
FieldsLead(h, s) ==
  /\ s.entry = txn[h].entry /\ s.found = txn[h].found /\ s.trust = txn[h].trust
  /\ s.row = Merged(h) /\ s.ref = RefOf(Merged(h), Mail(h))
  /\ \/ /\ s.step = "fails" /\ s.res = None /\ s.writes = "none"
        /\ ~Readable(Merged(h), Mail(h))
     \/ /\ s.step = "cancels" /\ s.writes \in {"none", "update"}
        /\ Readable(Merged(h), Mail(h)) /\ Merged(h).kind = "cancellation"
        /\ s.res \in Res /\ Newest(s.res, s.ref)
     \/ /\ s.step = "books" /\ s.writes = "insert"
        /\ s.res \in Res /\ Fresh(s.res)
LEMMA LoadFieldsLeads ==
  ASSUME TypeOK, Shape, NEW h \in Handlers, LoadFields(h)
  PROVE  \E s \in Session : txn' = [txn EXCEPT ![h] = s] /\ FieldsLead(h, s) /\ ShapeOf(s)
<1> USE ReparseAssumption
<1> DEFINE ref == RefOf(Merged(h), Mail(h))
           With(step, r, writes) == [txn[h] EXCEPT !.step = step, !.row = Merged(h), !.res = r,
                                                   !.ref = ref, !.writes = writes]
<1>1. /\ txn[h].step = "fields" /\ txn[h] \in Session /\ txn[h].found \in Profiles
      /\ txn[h].entry \in Entries
      BY DEF LoadFields, TypeOK, Shape, ShapeOf, Session
<1>2. Merged(h) \in Profile
      BY <1>1 DEF Merged, TypeOK, Profile, Session
<1>3. ref \in Refs \cup {None}
  <2>1. Mail(h) \in Mails
        BY <1>1 DEF Mail, TypeOK, Entry
  <2> QED BY <2>1 DEF RefOf
<1>4. ASSUME NEW step \in Steps, NEW r \in Res \cup {None}, NEW writes \in Writes
      PROVE  /\ With(step, r, writes) \in Session
             /\ With(step, r, writes).step = step /\ With(step, r, writes).row = Merged(h)
             /\ With(step, r, writes).res = r /\ With(step, r, writes).ref = ref
             /\ With(step, r, writes).writes = writes
             /\ With(step, r, writes).entry = txn[h].entry
             /\ With(step, r, writes).found = txn[h].found
             /\ With(step, r, writes).trust = txn[h].trust
      BY <1>1, <1>2, <1>3 DEF Session
<1> HIDE DEF With, ref
<1>5. \/ ~Readable(Merged(h), Mail(h)) /\ txn' = [txn EXCEPT ![h] = With("fails", None, "none")]
      \/ /\ Readable(Merged(h), Mail(h)) /\ Merged(h).kind = "cancellation"
         /\ \E r \in Res : \E writes \in {"none", "update"} :
              Newest(r, ref) /\ txn' = [txn EXCEPT ![h] = With("cancels", r, writes)]
      \/ \E r \in Res : Fresh(r) /\ txn' = [txn EXCEPT ![h] = With("books", r, "insert")]
      BY DEF LoadFields, Merged, With, ref
<1>6. CASE ~Readable(Merged(h), Mail(h)) /\ txn' = [txn EXCEPT ![h] = With("fails", None, "none")]
  <2> DEFINE s == With("fails", None, "none")
  <2>1. s \in Session /\ FieldsLead(h, s) /\ ShapeOf(s)
        BY <1>1, <1>4, <1>6 DEF FieldsLead, ShapeOf, Steps, Writes, ref
  <2> QED BY <1>6, <2>1
<1>7. ASSUME NEW r \in Res, NEW writes \in {"none", "update"}, Newest(r, ref),
             Readable(Merged(h), Mail(h)), Merged(h).kind = "cancellation",
             txn' = [txn EXCEPT ![h] = With("cancels", r, writes)]
      PROVE  \E s \in Session : txn' = [txn EXCEPT ![h] = s] /\ FieldsLead(h, s) /\ ShapeOf(s)
  <2> DEFINE s == With("cancels", r, writes)
  <2>1. s \in Session /\ FieldsLead(h, s) /\ ShapeOf(s)
        BY <1>1, <1>4, <1>7 DEF FieldsLead, ShapeOf, Steps, Writes, ref
  <2> QED BY <1>7, <2>1
<1>8. ASSUME NEW r \in Res, Fresh(r), txn' = [txn EXCEPT ![h] = With("books", r, "insert")]
      PROVE  \E s \in Session : txn' = [txn EXCEPT ![h] = s] /\ FieldsLead(h, s) /\ ShapeOf(s)
  <2> DEFINE s == With("books", r, "insert")
  <2>1. s \in Session /\ FieldsLead(h, s) /\ ShapeOf(s)
        BY <1>1, <1>4, <1>8 DEF FieldsLead, ShapeOf, Steps, Writes, ref
  <2> QED BY <1>8, <2>1
<1> QED BY <1>5, <1>6, <1>7, <1>8

\* What the other steps make of a request.
BeginLeads(s, e, step) ==
  s.step = step /\ s.entry = e /\ s.found = None /\ s.res = None /\ s.writes = "none"
LEMMA OpenLeads ==
  ASSUME TypeOK, NEW h \in Handlers, NEW e \in Entries, NEW step \in {"ignore", "reparse"},
         Open(h, e, step)
  PROVE  \E s \in Session : txn' = [txn EXCEPT ![h] = s] /\ BeginLeads(s, e, step) /\ ShapeOf(s)
<1> USE ReparseAssumption
<1> DEFINE s == [Idle EXCEPT !.step = step, !.entry = e]
<1>1. s \in Session
      BY IdleType DEF Session, Steps
<1>2. BeginLeads(s, e, step)
      BY DEF Idle, BeginLeads
<1>3. ShapeOf(s)
      BY <1>2 DEF BeginLeads, ShapeOf
<1>4. txn' = [txn EXCEPT ![h] = s]
      BY DEF Open
<1> HIDE DEF s
<1> QED BY <1>1, <1>2, <1>3, <1>4

ProfilesLead(h, s) ==
  /\ s.entry = txn[h].entry
  /\ \/ /\ s.step = "fields" /\ s.res = None /\ s.writes = "none"
        /\ s.found \in Profiles /\ s.row = profiles[s.found] /\ s.trust = tested
     \/ s.step = "fails" /\ s.res = None /\ s.writes = "none" /\ s.found = None
     \/ s.step = "books" /\ s.writes = "insert" /\ s.res \in Res /\ Fresh(s.res)
LEMMA LoadProfilesLeads ==
  ASSUME TypeOK, Shape, NEW h \in Handlers, LoadProfiles(h)
  PROVE  \E s \in Session : txn' = [txn EXCEPT ![h] = s] /\ ProfilesLead(h, s) /\ ShapeOf(s)
<1> USE ReparseAssumption
<1>1. /\ txn[h].step = "reparse" /\ txn[h] \in Session /\ txn[h].entry # None
      /\ txn[h].found = None /\ txn[h].res = None /\ txn[h].writes = "none"
      BY DEF LoadProfiles, TypeOK, Shape, ShapeOf
<1>2. ASSUME NEW p \in Profiles,
             txn' = [txn EXCEPT ![h] = [@ EXCEPT !.step = "fields", !.found = p,
                                                 !.row = profiles[p], !.trust = tested]]
      PROVE  \E s \in Session : txn' = [txn EXCEPT ![h] = s] /\ ProfilesLead(h, s) /\ ShapeOf(s)
  <2> DEFINE s == [txn[h] EXCEPT !.step = "fields", !.found = p, !.row = profiles[p],
                                 !.trust = tested]
  <2>1. s \in Session
        BY <1>1 DEF Session, Steps, TypeOK
  <2>2. ProfilesLead(h, s)
        BY <1>1 DEF ProfilesLead, Session
  <2>3. ShapeOf(s)
        BY <1>1 DEF ShapeOf, Session
  <2>4. txn' = [txn EXCEPT ![h] = s]
        BY <1>2
  <2> HIDE DEF s
  <2> QED BY <2>1, <2>2, <2>3, <2>4
<1>3. ASSUME NEW r \in Res, Fresh(r),
             txn' = [txn EXCEPT ![h] = [@ EXCEPT !.step = "books", !.res = r,
                                                 !.ref = Mail(h).ref, !.writes = "insert"]]
      PROVE  \E s \in Session : txn' = [txn EXCEPT ![h] = s] /\ ProfilesLead(h, s) /\ ShapeOf(s)
  <2> DEFINE ref == Mail(h).ref
             s == [txn[h] EXCEPT !.step = "books", !.res = r, !.ref = ref, !.writes = "insert"]
  <2>1. txn[h].entry \in Entries
        BY <1>1 DEF Session
  <2>2. Mail(h) \in Mails
        BY <2>1 DEF Mail, TypeOK, Entry
  <2>3. ref \in Refs
        BY <2>2
  <2>4. txn' = [txn EXCEPT ![h] = s]
        BY <1>3
  <2> HIDE DEF ref
  <2>5. s \in Session
        BY <1>1, <2>3 DEF Session, Steps, Writes
  <2>6. s.step = "books" /\ s.res = r /\ s.writes = "insert" /\ s.entry = txn[h].entry
        BY <1>1 DEF Session
  <2> HIDE DEF s
  <2>7. ProfilesLead(h, s)
        BY <1>3, <2>6 DEF ProfilesLead
  <2>8. ShapeOf(s)
        BY <1>1, <2>6 DEF ShapeOf
  <2> QED BY <2>4, <2>5, <2>7, <2>8
<1>4. CASE Go(h, "fails")
  <2> DEFINE s == [txn[h] EXCEPT !.step = "fails"]
  <2>1. s \in Session
        BY <1>1 DEF Session, Steps
  <2>2. ProfilesLead(h, s)
        BY <1>1 DEF ProfilesLead, Session
  <2>3. ShapeOf(s)
        BY <1>1 DEF ShapeOf, Session
  <2>4. txn' = [txn EXCEPT ![h] = s]
        BY <1>4 DEF Go
  <2> HIDE DEF s
  <2> QED BY <2>1, <2>2, <2>3, <2>4
<1> QED BY <1>2, <1>3, <1>4 DEF LoadProfiles

ResolveLeads(h, s) ==
  /\ s.step = "printing" /\ s.entry = txn[h].entry /\ s.found = txn[h].found
  /\ s.res = txn[h].res /\ s.ref = txn[h].ref /\ s.row = txn[h].row /\ s.writes = txn[h].writes
  /\ ~Stale(h)
LEMMA ResolveTo ==
  ASSUME TypeOK, Shape, NEW h \in Handlers, Resolve(h)
  PROVE  \/ Close(h)
         \/ \E s \in Session : txn' = [txn EXCEPT ![h] = s] /\ ResolveLeads(h, s) /\ ShapeOf(s)
<1> SUFFICES ASSUME ~Stale(h), Go(h, "printing")
             PROVE  \E s \in Session : txn' = [txn EXCEPT ![h] = s] /\ ResolveLeads(h, s) /\ ShapeOf(s)
    BY DEF Resolve
<1>1. txn[h] \in Session /\ txn[h].step \in {"books", "cancels"} /\ ShapeOf(txn[h])
      BY DEF Resolve, TypeOK, Shape
<1> DEFINE s == [txn[h] EXCEPT !.step = "printing"]
<1>2. s \in Session
      BY <1>1 DEF Session, Steps
<1>3. ResolveLeads(h, s)
      BY <1>1 DEF ResolveLeads, Session
<1>4. ShapeOf(s)
      BY <1>1 DEF ShapeOf, Session
<1>5. txn' = [txn EXCEPT ![h] = s]
      BY DEF Go
<1> HIDE DEF s
<1> QED BY <1>2, <1>3, <1>4, <1>5

\* What a commit writes.
LEMMA CommitWrites ==
  ASSUME TypeOK, Shape, NEW h \in Handlers, Commit(h)
  PROVE  /\ txn[h].step = "printing" /\ txn[h].entry \in Entries /\ txn[h].res \in Res
         /\ Written(h) \in Row
         /\ Resolved(h) \in Entry /\ Resolved(h).status = "resolved"
         /\ Resolved(h).link = txn[h].res /\ Resolved(h).mail = Mail(h)
         /\ txn[h].writes = "insert" => /\ Written(h).status \in {"confirmed", "cancelled"}
                                        /\ Written(h).from = txn[h].entry
         /\ txn[h].writes # "insert" => /\ Written(h).from = rows[txn[h].res].from
                                        /\ Written(h).ref = rows[txn[h].res].ref
                                        /\ Written(h).status \in {"cancelled", rows[txn[h].res].status}
<1> USE ReparseAssumption
<1>1. /\ txn[h].step = "printing" /\ txn[h].entry \in Entries /\ txn[h].res \in Res
      /\ txn[h].ref \in Refs \cup {None} /\ txn[h].writes \in Writes
      BY DEF Commit, TypeOK, Shape, ShapeOf, Session
<1>2. rows[txn[h].res] \in Row /\ entries[txn[h].entry] \in Entry
      BY <1>1 DEF TypeOK
<1>3. Resolved(h) \in Entry /\ Resolved(h).status = "resolved"
         /\ Resolved(h).link = txn[h].res /\ Resolved(h).mail = Mail(h)
      BY <1>1, <1>2 DEF Resolved, Entry, Mail
<1>4. CASE txn[h].writes = "insert"
      BY <1>1, <1>3, <1>4 DEF Written, Row
<1>5. CASE txn[h].writes = "update"
      BY <1>1, <1>2, <1>3, <1>5 DEF Written, Row
<1>6. CASE txn[h].writes = "none"
      BY <1>1, <1>2, <1>3, <1>6 DEF Written, Row
<1> QED BY <1>1, <1>4, <1>5, <1>6 DEF Writes

-----------------------------------------------------------------------------
(* Types and shapes. *)

LEMMA EntryWith ==
  ASSUME NEW entry \in Entry
  PROVE  /\ [entry EXCEPT !.status = "gone"] \in Entry
         /\ \A reason \in {"no parser", "failed"} : [entry EXCEPT !.reason = reason] \in Entry
BY DEF Entry

LEMMA RequestTypes ==
  ASSUME TypeOK, Shape, NEW h \in Handlers, Request(h)
  PROVE  TypeOK' /\ Shape'
<1> USE ReparseAssumption
<1>0. ASSUME NEW s \in Session, ShapeOf(s), txn' = [txn EXCEPT ![h] = s]
      PROVE  txn' \in [Handlers -> Session] /\ Shape'
      BY <1>0 DEF TypeOK, Shape
<1>1. ASSUME Close(h) PROVE txn' \in [Handlers -> Session] /\ Shape'
      BY <1>0, <1>1, IdleType DEF Close
<1>2. ASSUME NEW e \in Entries, IgnoreBegin(h, e) \/ ReparseBegin(h, e) PROVE TypeOK' /\ Shape'
  <2>1. PICK step \in {"ignore", "reparse"} : Open(h, e, step)
        BY <1>2 DEF IgnoreBegin, ReparseBegin
  <2>2. txn' \in [Handlers -> Session] /\ Shape'
        BY <1>0, <2>1, OpenLeads
  <2>3. again' \subseteq Entries
        BY <1>2 DEF IgnoreBegin, ReparseBegin, TypeOK
  <2> QED BY <2>1, <2>2, <2>3 DEF Open, TypeOK
<1>3. CASE IgnoreCommit(h)
  <2>1. txn[h].entry \in Entries
        BY <1>3 DEF IgnoreCommit, TypeOK, Shape, ShapeOf, Session
  <2> DEFINE entry == [entries[txn[h].entry] EXCEPT !.status = "gone"]
  <2>2. entry \in Entry
        BY <2>1, EntryWith DEF TypeOK
  <2>3. entries' = [entries EXCEPT ![txn[h].entry] = entry]
        BY <1>3 DEF IgnoreCommit
  <2> HIDE DEF entry
  <2>4. entries' \in [Entries -> Entry]
        BY <2>2, <2>3 DEF TypeOK
  <2> QED BY <1>1, <1>3, <2>4 DEF IgnoreCommit, TypeOK
<1>4. CASE LoadProfiles(h)
      BY <1>0, <1>4, LoadProfilesLeads, ZenonT(60) DEF LoadProfiles, TypeOK
<1>5. CASE LoadFields(h)
      BY <1>0, <1>5, LoadFieldsLeads DEF LoadFields, TypeOK
<1>6. CASE ReparseFails(h)
  <2>1. entries' \in [Entries -> Entry]
    <3>1. txn[h].entry \in Entries
          BY <1>6 DEF ReparseFails, TypeOK, Shape, ShapeOf, Session
    <3> DEFINE reason == IF txn[h].found = None /\ Mail(h).builtIn = "no" THEN "no parser" ELSE "failed"
               entry == [entries[txn[h].entry] EXCEPT !.reason = reason]
    <3>2. entries[txn[h].entry] \in Entry /\ reason \in {"no parser", "failed"}
          BY <3>1 DEF TypeOK
    <3> HIDE DEF reason
    <3>4. entry \in Entry
          BY <3>2, EntryWith
    <3>3. entries' = entries \/ entries' = [entries EXCEPT ![txn[h].entry] = entry]
          BY <1>6 DEF ReparseFails, reason
    <3> HIDE DEF entry
    <3> QED BY <3>3, <3>4 DEF TypeOK
  <2> QED BY <1>1, <1>6, <2>1 DEF ReparseFails, Failed, TypeOK
<1>7. CASE Resolve(h)
  <2>1. txn' \in [Handlers -> Session] /\ Shape'
        BY <1>0, <1>1, <1>7, ResolveTo
  <2> QED BY <1>7, <2>1 DEF Resolve, TypeOK
<1>8. CASE Commit(h)
  <2>1. rows' \in [Res -> Row] /\ entries' \in [Entries -> Entry]
        BY <1>8, CommitWrites DEF Commit, TypeOK
  <2> QED BY <1>1, <1>8, <2>1 DEF Commit, TypeOK
<1>9. CASE Abort(h)
      BY <1>1, <1>9 DEF Abort, TypeOK
<1> QED BY <1>2, <1>3, <1>4, <1>5, <1>6, <1>7, <1>8, <1>9 DEF Request

\* Staff changes one row that is there, and a deletion its links.
StaffLeads(r) ==
  /\ InTable(r) /\ UNCHANGED <<txn, profiles, tested, again>>
  /\ \E row \in Row :
       /\ rows' = [rows EXCEPT ![r] = row] /\ row.status # "none"
       /\ row.from = rows[r].from /\ row.ref = rows[r].ref
       /\ \/ row.status \in {"confirmed", "cancelled"} /\ entries' = entries
          \/ /\ entries' = Unlinked(r)
             /\ \A h \in Handlers : ~(txn[h].step = "printing" /\ txn[h].res = r)
LEMMA StaffSteps ==
  ASSUME TypeOK, NEW r \in Res, SetStatus(r) \/ Delete(r)
  PROVE  StaffLeads(r)
<1> USE DEF TypeOK, Staff
<1>1. rows[r] \in Row
      OBVIOUS
<1>2. CASE SetStatus(r)
  <2>1. PICK t \in {"confirmed", "cancelled"} :
          Staff(r, [rows[r] EXCEPT !.status = t], entries, {"update"})
        BY <1>2 DEF SetStatus
  <2> DEFINE row == [rows[r] EXCEPT !.status = t]
  <2>2. row \in Row /\ row.status = t /\ row.from = rows[r].from /\ row.ref = rows[r].ref
        BY <1>1 DEF Row
  <2>3. InTable(r) /\ UNCHANGED <<txn, profiles, tested, again>>
          /\ rows' = [rows EXCEPT ![r] = row] /\ entries' = entries
        BY <2>1
  <2> HIDE DEF row
  <2> QED BY <2>2, <2>3 DEF StaffLeads
<1>3. CASE Delete(r)
  <2> DEFINE row == [rows[r] EXCEPT !.status = "deleted"]
  <2>2. row \in Row /\ row.status = "deleted" /\ row.from = rows[r].from /\ row.ref = rows[r].ref
        BY <1>1 DEF Row
  <2>3. InTable(r) /\ UNCHANGED <<txn, profiles, tested, again>>
          /\ rows' = [rows EXCEPT ![r] = row] /\ entries' = Unlinked(r)
        BY <1>3 DEF Delete
  <2>4. \A h \in Handlers : ~(txn[h].step = "printing" /\ txn[h].res = r)
        BY <1>3 DEF Delete, Session
  <2> HIDE DEF row
  <2> QED BY <2>2, <2>3, <2>4 DEF StaffLeads
<1> QED BY <1>2, <1>3

\* A deletion takes links away and leaves the rest of the entries.
LEMMA UnlinkedKeeps ==
  ASSUME TypeOK, NEW r \in Res
  PROVE  /\ Unlinked(r) \in [Entries -> Entry]
         /\ \A e \in Entries : /\ Unlinked(r)[e].status = entries[e].status
                               /\ Unlinked(r)[e].mail = entries[e].mail
                               /\ Unlinked(r)[e].link # r
                               /\ Unlinked(r)[e].link \in {entries[e].link, None}
<1>1. ASSUME NEW e \in Entries
      PROVE  /\ Unlinked(r)[e] \in Entry
             /\ Unlinked(r)[e].status = entries[e].status /\ Unlinked(r)[e].mail = entries[e].mail
             /\ Unlinked(r)[e].link # r /\ Unlinked(r)[e].link \in {entries[e].link, None}
  <2>1. entries[e] \in Entry
        BY DEF TypeOK
  <2>2. Unlinked(r)[e] = IF entries[e].link = r THEN [entries[e] EXCEPT !.link = None] ELSE entries[e]
        BY DEF Unlinked
  <2> QED BY <2>1, <2>2, ReparseAssumption, ZenonT(60) DEF Entry
<1> QED BY <1>1 DEF Unlinked

LEMMA TypesStep ==
  ASSUME TypeOK, Shape, [Next]_vars
  PROVE  TypeOK' /\ Shape'
<1> USE ReparseAssumption
<1>1. CASE UNCHANGED vars
      BY <1>1 DEF vars, TypeOK, Shape
<1>2. ASSUME NEW p \in Profiles, Operator(p) PROVE TypeOK' /\ Shape'
  <2>1. PICK row \in Profile : Changes(p, row)
        BY <1>2, OperatorChanges
  <2>2. txn' \in [Handlers -> Session] /\ \A h \in Handlers : SameBut(txn'[h], txn[h])
        BY <2>1, ChangesKeep
  <2>3. Shape'
        BY <2>2 DEF Shape, ShapeOf, SameBut
  <2>4. profiles' \in [Profiles -> Profile] /\ tested' \subseteq Profiles \X Subjects \X Formats
          /\ edits' \in 0 .. MaxEdits
        BY <2>1 DEF Changes, TypeOK
  <2> QED BY <2>1, <2>2, <2>3, <2>4 DEF Changes, TypeOK
<1>3. ASSUME NEW p \in Profiles, TestParse(p) PROVE TypeOK' /\ Shape'
  <2>1. PICK mail \in Mails : tested' = tested \cup {<<p, mail.subject, mail.format>>}
        BY <1>3 DEF TestParse
  <2>2. <<p, mail.subject, mail.format>> \in Profiles \X Subjects \X Formats
        OBVIOUS
  <2> QED BY <1>3, <2>1, <2>2 DEF TestParse, TypeOK, Shape
<1>4. ASSUME NEW e \in Entries, RecordUnparsed(e) PROVE TypeOK' /\ Shape'
      BY <1>4, ZenonT(60) DEF RecordUnparsed, TypeOK, Entry, Shape
<1>5. ASSUME NEW r \in Res, SetStatus(r) \/ Delete(r) PROVE TypeOK' /\ Shape'
  <2>1. StaffLeads(r)
        BY <1>5, StaffSteps
  <2>2. rows' \in [Res -> Row] /\ entries' \in [Entries -> Entry]
        BY <2>1, UnlinkedKeeps DEF StaffLeads, TypeOK
  <2>3. UNCHANGED <<requests, edits>> /\ staff' \in 0 .. MaxStaff
        BY <1>5 DEF SetStatus, Delete, Staff, TypeOK
  <2> QED BY <2>1, <2>2, <2>3 DEF StaffLeads, TypeOK, Shape
<1> QED BY <1>1, <1>2, <1>3, <1>4, <1>5, RequestTypes DEF Next

-----------------------------------------------------------------------------
(* The sessions against the tables. *)

\* Ending a request, whatever its end does to other columns of its entry.
LEMMA CloseSessions ==
  ASSUME TypeOK, Shape, Sessions, NEW h \in Handlers, Close(h), rows' = rows,
         \A e \in Entries : /\ entries'[e].mail = entries[e].mail
                            /\ entries'[e].status = entries[e].status
  PROVE  Sessions'
<1> USE ReparseAssumption DEF TypeOK, Sessions
<1>1. txn'[h] = Idle /\ \A k \in Handlers : k # h => txn'[k] = txn[k]
      BY DEF Close
<1>2. \A k \in Handlers : k # h /\ txn[k].step # "none" => txn[k].entry \in Entries
      BY DEF Shape, ShapeOf, Session
<1>3. Shape'
      BY <1>1, IdleType DEF Shape
<1>4. InsertsOwn'
  <2>1. \A k \in Handlers : txn[k].writes = "insert" => txn[k].res \in Res
        BY DEF Shape, ShapeOf, Session, Steps
  <2>2. Idle.res = None /\ Idle.writes = "none"
        BY DEF Idle
  <2> QED BY <1>1, <2>1, <2>2 DEF InsertsOwn
<1>5. FindsByRef'
      BY <1>1, <1>2 DEF FindsByRef, Idle, Mail
<1>6. Recorded'
      BY <1>1, <1>2 DEF Recorded, Idle
<1>7. Locks'
      BY <1>1, <1>2 DEF Locks, Idle, Present, InTable
<1> QED BY <1>3, <1>4, <1>5, <1>6, <1>7

\* The steps before the commit: a session reads, flushes or ends, and the tables stay.
LEMMA ReadSessions ==
  ASSUME TypeOK, Sessions, NEW h \in Handlers, NEW s \in Session,
         txn' = [txn EXCEPT ![h] = s], ShapeOf(s), rows' = rows, entries' = entries,
         s.step # "none" => entries[s.entry].status # "none",
         s.writes = "insert" => \/ Fresh(s.res)
                                \/ txn[h].writes = "insert" /\ txn[h].res = s.res,
         s.writes # "insert" /\ s.step \in {"cancels", "printing"} =>
           InTable(s.res) /\ rows[s.res].ref = entries[s.entry].mail.ref,
         s.step = "printing" => Present(s.entry) /\ ~Locked(s.entry)
  PROVE  Sessions'
<1> USE ReparseAssumption DEF TypeOK, Sessions
<1>1. txn'[h] = s /\ \A k \in Handlers : k # h => txn'[k] = txn[k]
      OBVIOUS
<1>2. Shape'
      BY <1>1 DEF Shape
<1>3. InsertsOwn'
  <2>1. ASSUME s.writes = "insert"
        PROVE  /\ rows[s.res].status = "none"
               /\ \A k \in Handlers : k # h => txn[k].res # s.res
        BY <2>1 DEF InsertsOwn, Fresh
  <2>2. ASSUME NEW k \in Handlers, k # h, txn[k].writes = "insert" PROVE s.res # txn[k].res
    <3>1. rows[txn[k].res].status = "none" /\ txn[k].res # txn[h].res /\ txn[k].res # None
          BY <2>2 DEF InsertsOwn, Shape, ShapeOf, Session, Steps
    <3>2. CASE s.writes = "insert"
          BY <2>2, <3>1, <3>2 DEF Fresh
    <3>3. CASE s.writes # "insert"
      <4>1. s.res = None \/ InTable(s.res)
            BY <3>3 DEF ShapeOf, Session, Steps
      <4> QED BY <3>1, <4>1 DEF InTable
    <3> QED BY <3>2, <3>3
  <2> QED BY <1>1, <2>1, <2>2 DEF InsertsOwn
<1>4. FindsByRef'
      BY <1>1 DEF FindsByRef, Mail, InTable
<1>5. Recorded'
      BY <1>1 DEF Recorded
<1>6. Locks'
      BY <1>1 DEF Locks, Present, InTable, Locked
<1> QED BY <1>2, <1>3, <1>4, <1>5, <1>6

\* A failure is noted in the entry's reason alone.
LEMMA ReasonKeeps ==
  ASSUME TypeOK, NEW h \in Handlers, ReparseFails(h)
  PROVE  \A e \in Entries : entries'[e].mail = entries[e].mail /\ entries'[e].link = entries[e].link
                              /\ entries'[e].status = entries[e].status
<1> SUFFICES ASSUME NEW e \in Entries
             PROVE  entries'[e].mail = entries[e].mail /\ entries'[e].link = entries[e].link
                    /\ entries'[e].status = entries[e].status
    OBVIOUS
<1> DEFINE reason == IF txn[h].found = None /\ Mail(h).builtIn = "no" THEN "no parser" ELSE "failed"
           entry == [entries[txn[h].entry] EXCEPT !.reason = reason]
<1>1. entries' = entries \/ entries' = [entries EXCEPT ![txn[h].entry] = entry]
      BY DEF ReparseFails
<1>2. entries[e] \in Entry /\ entries \in [Entries -> Entry]
      BY DEF TypeOK
<1>3. e = txn[h].entry => entry.mail = entries[e].mail /\ entry.link = entries[e].link
                          /\ entry.status = entries[e].status
      BY <1>2 DEF Entry
<1> HIDE DEF entry
<1> QED BY <1>1, <1>2, <1>3

LEMMA RequestSessions ==
  ASSUME TypeOK, Sessions, NEW h \in Handlers, Request(h), ~Commit(h)
  PROVE  Sessions'
<1> USE ReparseAssumption
<1>0. Shape
      BY DEF Sessions
<1>1. ASSUME NEW e \in Entries, IgnoreBegin(h, e) \/ ReparseBegin(h, e) PROVE Sessions'
  <2>1. PICK step \in {"ignore", "reparse"} : Open(h, e, step)
        BY <1>1 DEF IgnoreBegin, ReparseBegin
  <2>2. PICK s \in Session : txn' = [txn EXCEPT ![h] = s] /\ BeginLeads(s, e, step) /\ ShapeOf(s)
        BY <2>1, OpenLeads
  <2>3. entries[e].status # "none"
        BY <1>1 DEF IgnoreBegin, ReparseBegin, Present
  <2> QED BY <2>1, <2>2, <2>3, ReadSessions DEF Open, BeginLeads
<1>2. CASE IgnoreCommit(h)
  <2> USE DEF TypeOK
  <2>1. txn[h].entry \in Entries
        BY <1>0, <1>2 DEF IgnoreCommit, Shape, ShapeOf, Session
  <2>2. /\ \A e \in Entries : entries'[e].mail = entries[e].mail
        /\ \A e \in Entries : e # txn[h].entry => entries'[e] = entries[e]
        /\ entries'[txn[h].entry].status = "gone"
    <3> DEFINE entry == [entries[txn[h].entry] EXCEPT !.status = "gone"]
    <3>1. entries' = [entries EXCEPT ![txn[h].entry] = entry]
          BY <1>2 DEF IgnoreCommit
    <3>2. entries[txn[h].entry] \in Entry
          BY <2>1
    <3>3. entry.status = "gone" /\ entry.mail = entries[txn[h].entry].mail
          BY <3>2 DEF Entry
    <3> HIDE DEF entry
    <3> QED BY <2>1, <3>1, <3>3
  <2>3. txn'[h] = Idle /\ \A k \in Handlers : k # h => txn'[k] = txn[k]
        BY <1>2 DEF IgnoreCommit, Close
  <2>4. \A k \in Handlers : txn[k].step # "none" => txn[k].entry \in Entries
        BY <1>0 DEF Shape, ShapeOf, Session
  <2>5. rows' = rows
        BY <1>2 DEF IgnoreCommit
  <2>6. Shape'
        BY <2>3, IdleType, <1>0 DEF Shape
  <2>7. InsertsOwn'
    <3>1. \A k \in Handlers : txn[k].writes = "insert" => txn[k].res \in Res
          BY <1>0 DEF Shape, ShapeOf, Session, Steps
    <3>2. Idle.res = None /\ Idle.writes = "none"
          BY DEF Idle
    <3> QED BY <2>3, <2>5, <3>1, <3>2 DEF Sessions, InsertsOwn
  <2>8. FindsByRef'
        BY <2>2, <2>3, <2>4, <2>5 DEF Sessions, FindsByRef, Idle, Mail
  <2>9. Recorded'
        BY <2>2, <2>3, <2>4 DEF Sessions, Recorded, Idle
  <2>10. Locks'
    <3>1. \A k \in Handlers : txn[k].step = "printing" => txn[k].entry # txn[h].entry
          BY <1>2 DEF IgnoreCommit, Locked
    <3> QED BY <2>2, <2>3, <2>4, <2>5, <3>1 DEF Sessions, Locks, Idle, Present, InTable
  <2> QED BY <2>6, <2>7, <2>8, <2>9, <2>10 DEF Sessions
<1>3. CASE LoadProfiles(h)
  <2>1. PICK s \in Session : txn' = [txn EXCEPT ![h] = s] /\ ProfilesLead(h, s) /\ ShapeOf(s)
        BY <1>0, <1>3, LoadProfilesLeads
  <2>2. entries[txn[h].entry].status # "none" /\ UNCHANGED <<rows, entries>>
        BY <1>3 DEF LoadProfiles, Sessions, Recorded
  <2>3. s.writes = "insert" => Fresh(s.res)
        BY <2>1 DEF ProfilesLead
  <2>4. s.step \notin {"cancels", "printing"} /\ s.entry = txn[h].entry
        BY <2>1 DEF ProfilesLead
  <2> QED BY <2>1, <2>2, <2>3, <2>4, ReadSessions
<1>4. CASE LoadFields(h)
  <2>1. PICK s \in Session : txn' = [txn EXCEPT ![h] = s] /\ FieldsLead(h, s) /\ ShapeOf(s)
        BY <1>0, <1>4, LoadFieldsLeads
  <2>2. /\ entries[txn[h].entry].status # "none" /\ UNCHANGED <<rows, entries>>
        /\ txn[h].step = "fields"
        BY <1>4 DEF LoadFields, Sessions, Recorded
  <2>3. s.step = "cancels" => s.ref = entries[s.entry].mail.ref
        BY <2>1 DEF FieldsLead, Readable, RefOf, Mail
  <2>4. s.writes # "insert" /\ s.step \in {"cancels", "printing"} =>
          InTable(s.res) /\ rows[s.res].ref = entries[s.entry].mail.ref
        BY <2>1, <2>3 DEF FieldsLead, Newest
  <2>5. s.writes = "insert" => Fresh(s.res)
        BY <2>1 DEF FieldsLead
  <2>6. s.step # "printing" /\ s.entry = txn[h].entry
        BY <2>1 DEF FieldsLead
  <2> QED BY <2>1, <2>2, <2>4, <2>5, <2>6, ReadSessions
<1>5. CASE ReparseFails(h)
  <2>1. Close(h) /\ rows' = rows
        BY <1>5 DEF ReparseFails, Failed
  <2>2. \A e \in Entries : /\ entries'[e].mail = entries[e].mail
                           /\ entries'[e].status = entries[e].status
        BY <1>5, ReasonKeeps
  <2> QED BY <1>0, <2>1, <2>2, CloseSessions
<1>6. CASE Resolve(h)
  <2>1. CASE Close(h)
        BY <1>0, <1>6, <2>1, CloseSessions DEF Resolve
  <2>2. ASSUME NEW s \in Session, txn' = [txn EXCEPT ![h] = s], ResolveLeads(h, s), ShapeOf(s)
        PROVE  Sessions'
    <3>1. /\ txn[h].step \in {"books", "cancels"} /\ ~Locked(txn[h].entry)
          /\ UNCHANGED <<rows, entries>>
          BY <1>6 DEF Resolve
    <3>2. Present(s.entry) /\ (txn[h].step = "cancels" => InTable(s.res))
          BY <2>2 DEF ResolveLeads, Stale, StaleEntry
    <3>3. s.writes # "insert" => txn[h].step = "cancels"
          BY <2>2, <3>1 DEF ResolveLeads, Sessions, Shape, ShapeOf
    <3>4. s.writes # "insert" => rows[s.res].ref = entries[s.entry].mail.ref
          BY <2>2, <3>3 DEF ResolveLeads, Sessions, FindsByRef, Mail
    <3>5. s.writes = "insert" => txn[h].writes = "insert" /\ txn[h].res = s.res
          BY <2>2 DEF ResolveLeads
    <3>6. entries[s.entry].status # "none" /\ s.step = "printing" /\ s.entry = txn[h].entry
          BY <2>2, <3>2 DEF Present, ResolveLeads
    <3> QED BY <2>2, <3>1, <3>2, <3>3, <3>4, <3>5, <3>6, ReadSessions
  <2> QED BY <1>0, <1>6, <2>1, <2>2, ResolveTo
<1>7. CASE Abort(h)
      BY <1>0, <1>7, CloseSessions DEF Abort
<1> QED BY <1>1, <1>2, <1>3, <1>4, <1>5, <1>6, <1>7 DEF Request

\* The commit: the others keep what they hold.
LEMMA CommitSessions ==
  ASSUME TypeOK, Sessions, NEW h \in Handlers, Commit(h)
  PROVE  Sessions'
<1> USE ReparseAssumption DEF TypeOK, Sessions
<1> DEFINE r == txn[h].res
           e == txn[h].entry
<1>1. /\ txn[h].step = "printing" /\ e \in Entries /\ r \in Res
      /\ Written(h) \in Row /\ Resolved(h).status = "resolved" /\ Resolved(h).mail = Mail(h)
      /\ txn[h].writes = "insert" => Written(h).status \in {"confirmed", "cancelled"}
      /\ txn[h].writes # "insert" => /\ Written(h).ref = rows[r].ref
                                     /\ Written(h).status \in {"cancelled", rows[r].status}
      BY CommitWrites
<1>2. txn'[h] = Idle /\ \A k \in Handlers : k # h => txn'[k] = txn[k]
      BY DEF Commit, Close
<1>3. \A k \in Handlers : txn[k].step # "none" => txn[k].entry \in Entries
      BY DEF Shape, ShapeOf, Session
<1>4. /\ \A f \in Entries : entries'[f].mail = entries[f].mail
      /\ \A f \in Entries : f # e => entries'[f] = entries[f]
      /\ entries'[e].status = "resolved"
      BY <1>1 DEF Commit, Mail
<1>5. rows'[r] = Written(h) /\ \A q \in Res : q # r => rows'[q] = rows[q]
      BY <1>1 DEF Commit
<1> HIDE DEF r, e
<1>6. \A k \in Handlers : txn[k].res \in Res \cup {None}
      BY DEF Session
<1>7. \A k \in Handlers : txn[k].writes = "insert" => txn[k].res \in Res
      BY DEF Shape, ShapeOf, Session, Steps
<1>8. Shape'
      BY <1>2, IdleType DEF Shape
<1>9. InsertsOwn'
  <2>1. \A k \in Handlers : k # h /\ txn[k].writes = "insert" => txn[k].res # r
        BY DEF InsertsOwn, r
  <2>2. Idle.res = None /\ Idle.writes = "none"
        BY DEF Idle
  <2> QED BY <1>2, <1>5, <1>7, <2>1, <2>2 DEF InsertsOwn
<1>10. FindsByRef'
  <2>1. ASSUME NEW k \in Handlers, k # h, txn[k].step \in {"cancels", "printing"},
               txn[k].writes # "insert"
        PROVE  rows'[txn[k].res].status # "none" /\ rows'[txn[k].res].ref = entries'[txn[k].entry].mail.ref
    <3>1. /\ txn[k].res \in Res /\ rows[txn[k].res].status # "none"
          /\ rows[txn[k].res].ref = entries[txn[k].entry].mail.ref /\ txn[k].entry \in Entries
          BY <1>3, <2>1 DEF FindsByRef, Mail, Shape, ShapeOf, Session
    <3>2. CASE txn[k].res = r
      <4>1. txn[h].writes # "insert"
            BY <2>1, <3>2 DEF InsertsOwn, r
      <4> QED BY <1>1, <1>4, <1>5, <3>1, <3>2, <4>1
    <3>3. CASE txn[k].res # r
          BY <1>4, <1>5, <3>1, <3>3
    <3> QED BY <3>2, <3>3
  <2>2. Idle.step = "none"
        BY DEF Idle
  <2> QED BY <1>2, <2>1, <2>2 DEF FindsByRef, Mail
<1>11. Recorded'
  <2>1. \A k \in Handlers : k # h /\ txn[k].step # "none" => entries'[txn[k].entry].status # "none"
        BY <1>3, <1>4 DEF Recorded
  <2> QED BY <1>2, <2>1 DEF Recorded, Idle
<1>12. Locks'
  <2>1. ASSUME NEW k \in Handlers, k # h, txn[k].step = "printing"
        PROVE  /\ entries'[txn[k].entry].status \in {"pending", "resolved"}
               /\ txn[k].writes # "insert" =>
                    rows'[txn[k].res].status \in {"confirmed", "cancelled"}
    <3>1. txn[k].entry \in Entries /\ txn[k].entry # e
          BY <1>1, <1>3, <2>1 DEF Locks, e
    <3>2. txn[k].res \in Res
          BY <2>1 DEF Shape, ShapeOf, Session
    <3>3. txn[k].writes # "insert" =>
            rows[txn[k].res].status \in {"confirmed", "cancelled"}
          BY <2>1 DEF Locks, InTable
    <3>4. txn[k].writes # "insert" =>
            rows'[txn[k].res].status \in {"confirmed", "cancelled"}
          BY <1>1, <1>5, <3>2, <3>3
    <3>5. entries[txn[k].entry].status \in {"pending", "resolved"}
          BY <2>1 DEF Locks, Present
    <3> QED BY <1>4, <3>1, <3>4, <3>5
  <2> QED BY <1>2, <2>1 DEF Locks, Idle, Present, InTable
<1> QED BY <1>8, <1>9, <1>10, <1>11, <1>12

LEMMA StaffSessions ==
  ASSUME TypeOK, Sessions, NEW r \in Res, StaffLeads(r)
  PROVE  Sessions'
<1> USE ReparseAssumption DEF TypeOK, Sessions
<1>1. PICK row \in Row :
        /\ rows' = [rows EXCEPT ![r] = row] /\ row.status # "none"
        /\ row.from = rows[r].from /\ row.ref = rows[r].ref
        /\ \/ row.status \in {"confirmed", "cancelled"} /\ entries' = entries
           \/ /\ entries' = Unlinked(r)
              /\ \A h \in Handlers : ~(txn[h].step = "printing" /\ txn[h].res = r)
      BY DEF StaffLeads
<1>2. txn' = txn /\ InTable(r)
      BY DEF StaffLeads
<1>3. \A e \in Entries : entries'[e].status = entries[e].status /\ entries'[e].mail = entries[e].mail
      BY <1>1, UnlinkedKeeps
<1>4. rows'[r] = row /\ \A q \in Res : q # r => rows'[q] = rows[q]
      BY <1>1
<1>5. \A k \in Handlers : txn[k].step # "none" => txn[k].entry \in Entries
      BY DEF Shape, ShapeOf, Session
<1>6. \A k \in Handlers : txn[k].step \in {"books", "cancels", "printing"} => txn[k].res \in Res
      BY DEF Shape, ShapeOf, Session
<1>7. Shape'
      BY <1>2 DEF Shape
<1>8. InsertsOwn'
  <2>1. \A k \in Handlers : txn[k].writes = "insert" => txn[k].res \in Res /\ txn[k].res # r
        BY <1>2, <1>6 DEF InsertsOwn, InTable, Shape, ShapeOf, Session, Steps
  <2> QED BY <1>2, <1>4, <2>1 DEF InsertsOwn
<1>9. FindsByRef'
      BY <1>1, <1>2, <1>3, <1>4, <1>5, <1>6 DEF FindsByRef, Mail
<1>10. Recorded'
      BY <1>2, <1>3, <1>5 DEF Recorded
<1>11. Locks'
  <2>1. ASSUME NEW k \in Handlers, txn[k].step = "printing", txn[k].writes # "insert"
        PROVE  rows'[txn[k].res].status \in {"confirmed", "cancelled"}
    <3>1. txn[k].res \in Res /\ rows[txn[k].res].status \in {"confirmed", "cancelled"}
          BY <1>6, <2>1 DEF Locks, InTable
    <3> QED BY <1>1, <1>4, <2>1, <3>1
  <2> QED BY <1>2, <1>3, <1>5, <2>1 DEF Locks, Present, InTable
<1> QED BY <1>7, <1>8, <1>9, <1>10, <1>11

LEMMA SessionsStep ==
  ASSUME TypeOK, Sessions, [Next]_vars
  PROVE  Sessions'
<1> USE ReparseAssumption
<1>1. CASE UNCHANGED vars
      BY <1>1 DEF vars, Sessions, Shape, InsertsOwn, FindsByRef, Recorded, Locks, Mail, Present,
                  InTable
<1>2. ASSUME NEW p \in Profiles, Operator(p) PROVE Sessions'
  <2>1. PICK row \in Profile : Changes(p, row)
        BY <1>2, OperatorChanges
  <2>2. \A h \in Handlers : SameBut(txn'[h], txn[h])
        BY <2>1, ChangesKeep
  <2>3. rows' = rows /\ entries' = entries
        BY <2>1 DEF Changes
  <2>4. Shape'
        BY <2>2 DEF Sessions, Shape, ShapeOf, SameBut
  <2>5. InsertsOwn'
        BY <2>2, <2>3 DEF Sessions, InsertsOwn, SameBut
  <2>6. FindsByRef'
        BY <2>2, <2>3 DEF Sessions, FindsByRef, Mail, SameBut
  <2>7. Recorded'
        BY <2>2, <2>3 DEF Sessions, Recorded, SameBut
  <2>8. Locks'
        BY <2>2, <2>3 DEF Sessions, Locks, Present, InTable, SameBut
  <2> QED BY <2>4, <2>5, <2>6, <2>7, <2>8 DEF Sessions
<1>3. ASSUME NEW p \in Profiles, TestParse(p) PROVE Sessions'
      BY <1>3 DEF TestParse, Sessions, Shape, InsertsOwn, FindsByRef, Recorded, Locks, Mail,
                  Present, InTable
<1>4. ASSUME NEW e \in Entries, RecordUnparsed(e) PROVE Sessions'
  <2>1. txn' = txn /\ rows' = rows
        BY <1>4 DEF RecordUnparsed
  <2>2. /\ \A f \in Entries : f # e => entries'[f] = entries[f]
        /\ entries'[e].status = "pending" /\ entries[e].status = "none"
        BY <1>4 DEF RecordUnparsed, TypeOK, Entry
  <2>3. \A k \in Handlers : txn[k].step # "none" => txn[k].entry \in Entries /\ txn[k].entry # e
        BY <2>2 DEF Sessions, Recorded, Shape, ShapeOf, Session, TypeOK
  <2> QED BY <2>1, <2>2, <2>3 DEF Sessions, Shape, InsertsOwn, FindsByRef, Recorded, Locks, Mail,
                                  Present, InTable
<1>5. ASSUME NEW r \in Res, SetStatus(r) \/ Delete(r) PROVE Sessions'
      BY <1>5, StaffSteps, StaffSessions
<1> QED BY <1>1, <1>2, <1>3, <1>4, <1>5, RequestSessions, CommitSessions DEF Next

-----------------------------------------------------------------------------
(* The tables. *)

\* As long as no reservation is written, and no reparse begins.
LEMMA TablesFrame ==
  ASSUME TypeOK, Sessions, Tables, rows' = rows,
         \A e \in Entries :
           /\ entries'[e].mail = entries[e].mail /\ entries'[e].link = entries[e].link
           /\ \/ entries'[e].status = entries[e].status
              \/ entries'[e].status = "gone"
              \/ entries[e].status = "none" /\ entries'[e].status = "pending"
  PROVE  RowsFrom' /\ ResolvedWithItsReservation' /\ LinkLeadsSomewhere'
<1>1. RowsFrom'
      BY DEF Tables, RowsFrom
<1>2. \A e \in Entries : Booked(e)' = Booked(e)
      BY DEF Booked
<1>3. \A e \in Entries : entries[e].status = "none" => Booked(e) = {}
      BY DEF Tables, RowsFrom, Booked
<1>4. ResolvedWithItsReservation'
      BY <1>2, <1>3 DEF Tables, ResolvedWithItsReservation, Present
<1>5. LinkLeadsSomewhere'
      BY DEF Tables, LinkLeadsSomewhere, InTable
<1> QED BY <1>1, <1>4, <1>5

LEMMA OnceFrame ==
  ASSUME Once, rows' = rows, again \subseteq again',
         \A k \in Handlers, e \in Entries : Reparsing(k, e)' => Reparsing(k, e)
  PROVE  Once'
<1>1. \A e \in Entries : Booked(e)' = Booked(e)
      BY DEF Booked
<1> QED BY <1>1 DEF Once

LEMMA BeginTables ==
  ASSUME TypeOK, Sessions, Tables, NEW h \in Handlers, NEW e \in Entries,
         IgnoreBegin(h, e) \/ ReparseBegin(h, e)
  PROVE  Tables'
<1> USE ReparseAssumption
<1>1. PICK step \in {"ignore", "reparse"} : Open(h, e, step) /\ (step = "reparse" => ReparseBegin(h, e))
      BY DEF IgnoreBegin, ReparseBegin
<1>2. PICK s \in Session : txn' = [txn EXCEPT ![h] = s] /\ BeginLeads(s, e, step)
      BY <1>1, OpenLeads
<1>3. rows' = rows /\ entries' = entries /\ again \subseteq again'
      BY DEF IgnoreBegin, ReparseBegin, Open
<1>4. RowsFrom' /\ ResolvedWithItsReservation' /\ LinkLeadsSomewhere'
      BY <1>3, TablesFrame
<1>5. \A k \in Handlers, f \in Entries : (k # h \/ f # e) /\ Reparsing(k, f)' => Reparsing(k, f)
      BY <1>2 DEF Reparsing, BeginLeads, TypeOK
<1>6. CASE step = "ignore"
  <2>1. ~Reparsing(h, e)'
        BY <1>2, <1>6 DEF Reparsing, BeginLeads, TypeOK
  <2> QED BY <1>3, <1>4, <1>5, <2>1, OnceFrame DEF Tables
<1>7. CASE step = "reparse" /\ e \in again'
  <2>1. \A f \in Entries : Booked(f)' = Booked(f)
        BY <1>3 DEF Booked
  <2>2. Once'
        BY <1>3, <1>5, <1>7, <2>1 DEF Tables, Once
  <2> QED BY <1>4, <2>2 DEF Tables
<1>8. CASE step = "reparse" /\ e \notin again'
  <2>1. Present(e) /\ entries[e].status # "resolved" /\ \A k \in Handlers : txn[k].entry # e
        BY <1>1, <1>8 DEF ReparseBegin
  <2>2. Booked(e) = {}
        BY <2>1 DEF Tables, ResolvedWithItsReservation
  <2>3. \A f \in Entries : Booked(f)' = Booked(f)
        BY <1>3 DEF Booked
  <2>4. \A k \in Handlers : Reparsing(k, e)' => k = h
        BY <1>2, <2>1 DEF Reparsing, TypeOK
  <2>5. Once'
        BY <1>3, <1>5, <2>2, <2>3, <2>4 DEF Tables, Once
  <2> QED BY <1>4, <2>5 DEF Tables
<1> QED BY <1>6, <1>7, <1>8

LEMMA RequestTables ==
  ASSUME TypeOK, Sessions, Tables, NEW h \in Handlers, Request(h), ~Commit(h)
  PROVE  Tables'
<1> USE ReparseAssumption
<1>0. ASSUME Close(h) PROVE \A k \in Handlers, e \in Entries : Reparsing(k, e)' => Reparsing(k, e)
  <2>1. Idle.entry = None /\ None \notin Entries
        BY DEF Idle
  <2> QED BY <1>0, <2>1 DEF Close, Reparsing, TypeOK
<1>1. ASSUME NEW s, txn' = [txn EXCEPT ![h] = s], s.entry = txn[h].entry, txn[h].step # "ignore"
      PROVE  \A k \in Handlers, e \in Entries : Reparsing(k, e)' => Reparsing(k, e)
      BY <1>1 DEF Reparsing, TypeOK
<1>2. ASSUME rows' = rows, entries' = entries, again' = again,
             \A k \in Handlers, e \in Entries : Reparsing(k, e)' => Reparsing(k, e)
      PROVE  Tables'
      BY <1>2, TablesFrame, OnceFrame DEF Tables
<1>3. Shape
      BY DEF Sessions
<1>4. CASE IgnoreCommit(h)
  <2>1. \A e \in Entries :
           /\ entries'[e].mail = entries[e].mail /\ entries'[e].link = entries[e].link
           /\ entries'[e].status = entries[e].status \/ entries'[e].status = "gone"
    <3> SUFFICES ASSUME NEW e \in Entries
                 PROVE  /\ entries'[e].mail = entries[e].mail /\ entries'[e].link = entries[e].link
                        /\ entries'[e].status = entries[e].status \/ entries'[e].status = "gone"
        OBVIOUS
    <3>1. entries[e] \in Entry /\ entries \in [Entries -> Entry]
          BY DEF TypeOK
    <3>2. entries' = [entries EXCEPT ![txn[h].entry] = [@ EXCEPT !.status = "gone"]]
          BY <1>4 DEF IgnoreCommit
    <3>3. /\ [entries[e] EXCEPT !.status = "gone"].mail = entries[e].mail
          /\ [entries[e] EXCEPT !.status = "gone"].link = entries[e].link
          /\ [entries[e] EXCEPT !.status = "gone"].status = "gone"
          BY <3>1 DEF Entry
    <3> QED BY <3>1, <3>2, <3>3
  <2>2. rows' = rows /\ again' = again /\ Close(h)
        BY <1>4 DEF IgnoreCommit
  <2> QED BY <1>0, <2>1, <2>2, TablesFrame, OnceFrame DEF Tables
<1>5. CASE LoadProfiles(h)
  <2>1. PICK s \in Session : txn' = [txn EXCEPT ![h] = s] /\ ProfilesLead(h, s)
        BY <1>3, <1>5, LoadProfilesLeads
  <2> QED BY <1>1, <1>2, <1>5, <2>1 DEF LoadProfiles, ProfilesLead
<1>6. CASE LoadFields(h)
  <2>1. PICK s \in Session : txn' = [txn EXCEPT ![h] = s] /\ FieldsLead(h, s)
        BY <1>3, <1>6, LoadFieldsLeads
  <2>2. s.entry = txn[h].entry
        BY <2>1 DEF FieldsLead
  <2>3. txn[h].step # "ignore" /\ UNCHANGED <<rows, entries, again>>
        BY <1>6 DEF LoadFields
  <2> QED BY <1>1, <1>2, <2>1, <2>2, <2>3
<1>7. CASE ReparseFails(h)
  <2>1. rows' = rows /\ again' = again /\ Close(h)
        BY <1>7 DEF ReparseFails, Failed
  <2> QED BY <1>0, <1>7, <2>1, ReasonKeeps, TablesFrame, OnceFrame DEF Tables
<1>8. CASE Resolve(h)
  <2>1. UNCHANGED <<rows, entries, again>> /\ txn[h].step # "ignore"
        BY <1>8 DEF Resolve
  <2>2. CASE Close(h)
        BY <1>0, <1>2, <2>1, <2>2
  <2>3. ASSUME NEW s \in Session, txn' = [txn EXCEPT ![h] = s], ResolveLeads(h, s)
        PROVE  Tables'
        BY <1>1, <1>2, <2>1, <2>3 DEF ResolveLeads
  <2> QED BY <1>3, <1>8, <2>2, <2>3, ResolveTo
<1>9. CASE Abort(h)
      BY <1>0, <1>2, <1>9 DEF Abort
<1> QED BY <1>4, <1>5, <1>6, <1>7, <1>8, <1>9, BeginTables DEF Request

\* The commit writes a reservation and the resolution of its mail at once.
LEMMA CommitTables ==
  ASSUME TypeOK, Sessions, Tables, NEW h \in Handlers, Commit(h)
  PROVE  Tables'
<1> USE ReparseAssumption
<1>0. Shape
      BY DEF Sessions
<1>own. PICK r \in Res, e \in Entries : r = txn[h].res /\ e = txn[h].entry
      BY <1>0, CommitWrites
<1>1. /\ txn[h].step = "printing"
      /\ Resolved(h).status = "resolved" /\ Resolved(h).link = r
      /\ Resolved(h).mail = entries[e].mail
      /\ txn[h].writes = "insert" => /\ Written(h).status \in {"confirmed", "cancelled"}
                                     /\ Written(h).from = e
      /\ txn[h].writes # "insert" => /\ Written(h).from = rows[r].from
                                     /\ Written(h).ref = rows[r].ref
                                     /\ Written(h).status \in {"cancelled", rows[r].status}
      BY <1>0, <1>own, CommitWrites DEF Mail
<1>2. txn'[h] = Idle /\ \A k \in Handlers : k # h => txn'[k] = txn[k]
      BY DEF Commit, Close, TypeOK
<1>3. entries'[e] = Resolved(h) /\ \A f \in Entries : f # e => entries'[f] = entries[f]
      BY <1>own DEF Commit, TypeOK
<1>4. rows'[r] = Written(h) /\ \A q \in Res : q # r => rows'[q] = rows[q]
      BY <1>own DEF Commit, TypeOK
<1>5. txn[h].writes = "insert" => rows[r].status = "none" /\ rows[r].from = None
      BY <1>own DEF Sessions, InsertsOwn, Tables, RowsFrom
<1>6. txn[h].writes # "insert" =>
        rows[r].status \in {"confirmed", "cancelled"} /\ rows[r].ref = entries[e].mail.ref
      BY <1>1, <1>own DEF Sessions, Locks, InTable, FindsByRef, Mail
<1>7. Reparsing(h, e)
      BY <1>1, <1>own DEF Reparsing
<1>8. again' = again
      BY DEF Commit
<1>9. \A f \in Entries : f # e => Booked(f)' = Booked(f)
  <2>1. ASSUME NEW f \in Entries, f # e, NEW q \in Res PROVE rows'[q].from = f <=> rows[q].from = f
        BY <1>1, <1>4, <1>5, <2>1
  <2> QED BY <2>1 DEF Booked
<1>10. Booked(e)' = IF txn[h].writes = "insert" THEN Booked(e) \cup {r} ELSE Booked(e)
      BY <1>1, <1>4 DEF Booked
<1>11. RowsFrom'
      BY <1>1, <1>3, <1>4, <1>6 DEF Tables, RowsFrom
<1>12. ResolvedWithItsReservation'
      BY <1>1, <1>3, <1>9 DEF Tables, ResolvedWithItsReservation, Present
<1>13. LinkLeadsSomewhere'
  <2>1. rows'[r].status \in {"confirmed", "cancelled"}
        BY <1>1, <1>4, <1>6 DEF InTable
  <2>2. rows'[r].from = e \/ rows'[r].ref = entries'[e].mail.ref
        BY <1>1, <1>3, <1>4, <1>6
  <2>3. ASSUME NEW f \in Entries, f # e, entries[f].link # None
        PROVE  /\ rows'[entries[f].link].status \in {"confirmed", "cancelled"}
               /\ \/ rows'[entries[f].link].from = f
                  \/ rows'[entries[f].link].ref = entries[f].mail.ref
    <3>1. /\ InTable(entries[f].link) /\ entries[f].link \in Res
          /\ \/ rows[entries[f].link].from = f
             \/ rows[entries[f].link].ref = entries[f].mail.ref
          BY <2>3 DEF Tables, LinkLeadsSomewhere, TypeOK, Entry
    <3>2. entries'[f].link = entries[f].link
          BY <1>3, <2>3
    <3>3. CASE entries[f].link # r
          BY <1>4, <3>1, <3>2, <3>3 DEF InTable
    <3>4. CASE entries[f].link = r
      <4>1. txn[h].writes # "insert"
            BY <1>5, <3>1, <3>4 DEF InTable
      <4> QED BY <1>1, <1>4, <2>1, <3>1, <3>2, <3>4, <4>1 DEF InTable
    <3> QED BY <3>3, <3>4
  <2> QED BY <1>1, <1>3, <2>1, <2>2, <2>3 DEF LinkLeadsSomewhere, InTable
<1>14. Once'
  <2>1. \A k \in Handlers, f \in Entries : Reparsing(k, f)' => Reparsing(k, f) /\ k # h
    <3>1. Idle.entry = None
          BY DEF Idle
    <3> QED BY <1>2, <3>1 DEF Reparsing
  <2>2. ASSUME NEW f \in Entries \ again, f # e
        PROVE  /\ \A q, p \in Booked(f)' : q = p
               /\ \A k, l \in Handlers : Reparsing(k, f)' /\ Reparsing(l, f)' => k = l
               /\ \A k \in Handlers : Reparsing(k, f)' => Booked(f)' = {}
        BY <1>9, <2>1, <2>2 DEF Tables, Once
  <2>3. ASSUME e \notin again
        PROVE  /\ \A q, p \in Booked(e)' : q = p
               /\ \A k \in Handlers : ~Reparsing(k, e)'
    <3>1. Booked(e) = {} /\ \A k \in Handlers : Reparsing(k, e) => k = h
          BY <1>1, <1>7, <2>3 DEF Tables, Once
    <3>2. \A k \in Handlers : ~Reparsing(k, e)'
          BY <1>1, <2>1, <3>1
    <3>3. \A q, p \in Booked(e)' : q = p
          BY <1>10, <3>1
    <3> QED BY <3>2, <3>3
  <2> QED BY <1>1, <1>8, <2>2, <2>3 DEF Once
<1> QED BY <1>11, <1>12, <1>13, <1>14 DEF Tables

LEMMA StaffTables ==
  ASSUME TypeOK, Sessions, Tables, NEW r \in Res, StaffLeads(r)
  PROVE  Tables'
<1> USE ReparseAssumption
<1>1. PICK row \in Row :
        /\ rows' = [rows EXCEPT ![r] = row] /\ row.status # "none"
        /\ row.from = rows[r].from /\ row.ref = rows[r].ref
        /\ \/ row.status \in {"confirmed", "cancelled"} /\ entries' = entries
           \/ entries' = Unlinked(r)
      BY DEF StaffLeads
<1>2. txn' = txn /\ again' = again /\ InTable(r)
      BY DEF StaffLeads
<1>3. \A e \in Entries : entries'[e].status = entries[e].status /\ entries'[e].mail = entries[e].mail
      BY <1>1, UnlinkedKeeps
<1>4. rows'[r] = row /\ \A q \in Res : q # r => rows'[q] = rows[q]
      BY <1>1 DEF TypeOK
<1>5. \A e \in Entries : Booked(e)' = Booked(e)
      BY <1>1, <1>4 DEF Booked
<1>6. RowsFrom'
      BY <1>1, <1>3, <1>4 DEF Tables, RowsFrom
<1>7. ResolvedWithItsReservation'
      BY <1>3, <1>5 DEF Tables, ResolvedWithItsReservation, Present
<1>8. LinkLeadsSomewhere'
  <2>1. ASSUME NEW e \in Entries, entries'[e].link # None
        PROVE  /\ rows'[entries'[e].link].status \in {"confirmed", "cancelled"}
               /\ \/ rows'[entries'[e].link].from = e
                  \/ rows'[entries'[e].link].ref = entries'[e].mail.ref
    <3>1. entries'[e].link = entries[e].link
          BY <1>1, <2>1, UnlinkedKeeps
    <3>2. /\ InTable(entries[e].link) /\ entries[e].link \in Res
          /\ \/ rows[entries[e].link].from = e
             \/ rows[entries[e].link].ref = entries[e].mail.ref
          BY <2>1, <3>1 DEF Tables, LinkLeadsSomewhere, TypeOK, Entry
    <3>3. CASE entries[e].link # r
          BY <1>3, <1>4, <3>1, <3>2, <3>3 DEF InTable
    <3>4. CASE entries[e].link = r
      <4>1. row.status \in {"confirmed", "cancelled"}
            BY <1>1, <3>1, <3>4, UnlinkedKeeps
      <4> QED BY <1>1, <1>3, <1>4, <3>1, <3>2, <3>4, <4>1 DEF InTable
    <3> QED BY <3>3, <3>4
  <2> QED BY <2>1 DEF LinkLeadsSomewhere, InTable
<1>9. Once'
      BY <1>2, <1>5 DEF Tables, Once, Reparsing
<1> QED BY <1>6, <1>7, <1>8, <1>9 DEF Tables

LEMMA TablesStep ==
  ASSUME TypeOK, Sessions, Tables, [Next]_vars
  PROVE  Tables'
<1>0. ASSUME rows' = rows, entries' = entries, again' = again,
             \A h \in Handlers : txn'[h].step = txn[h].step /\ txn'[h].entry = txn[h].entry
      PROVE  Tables'
      BY <1>0, TablesFrame, OnceFrame DEF Tables, Reparsing
<1>1. CASE UNCHANGED vars
      BY <1>0, <1>1 DEF vars
<1>2. ASSUME NEW p \in Profiles, Operator(p) PROVE Tables'
  <2>1. PICK row \in Profile : Changes(p, row)
        BY <1>2, OperatorChanges
  <2>2. \A h \in Handlers : SameBut(txn'[h], txn[h])
        BY <2>1, ChangesKeep
  <2> QED BY <1>0, <2>1, <2>2 DEF Changes, SameBut
<1>3. ASSUME NEW p \in Profiles, TestParse(p) PROVE Tables'
      BY <1>0, <1>3 DEF TestParse
<1>4. ASSUME NEW e \in Entries, RecordUnparsed(e) PROVE Tables'
  <2>1. txn' = txn /\ rows' = rows /\ again' = again
        BY <1>4 DEF RecordUnparsed
  <2>2. /\ \A f \in Entries : f # e => entries'[f] = entries[f]
        /\ entries'[e].status = "pending" /\ entries[e].status = "none"
        /\ entries'[e].mail = entries[e].mail /\ entries'[e].link = entries[e].link
        BY <1>4 DEF RecordUnparsed, TypeOK, Entry
  <2>3. \A f \in Entries :
           /\ entries'[f].mail = entries[f].mail /\ entries'[f].link = entries[f].link
           /\ \/ entries'[f].status = entries[f].status
              \/ entries[f].status = "none" /\ entries'[f].status = "pending"
        BY <2>2
  <2> QED BY <2>1, <2>3, TablesFrame, OnceFrame DEF Tables, Reparsing
<1>5. ASSUME NEW r \in Res, SetStatus(r) \/ Delete(r) PROVE Tables'
      BY <1>5, StaffSteps, StaffTables
<1> QED BY <1>1, <1>2, <1>3, <1>4, <1>5, RequestTables, CommitTables DEF Next

-----------------------------------------------------------------------------
(* The dry run. *)

\* Mails do not change.
LEMMA MailsKept ==
  ASSUME TypeOK, Sessions, [Next]_vars
  PROVE  \A e \in Entries : entries'[e].mail = entries[e].mail
<1>0. Shape
      BY SMTT(40) DEF Sessions
<1>1. ASSUME NEW h \in Handlers, Request(h)
      PROVE  \A e \in Entries : entries'[e].mail = entries[e].mail
  <2>1. CASE IgnoreCommit(h)
        BY <2>1 DEF IgnoreCommit, TypeOK, Entry
  <2>2. CASE Commit(h)
    <3>1. Resolved(h).mail = Mail(h) /\ txn[h].entry \in Entries
          BY <1>0, <2>2, CommitWrites
    <3> QED BY <2>2, <3>1 DEF Commit, Mail, TypeOK
  <2>3. CASE ReparseFails(h)
        BY <2>3, ReasonKeeps
  <2> QED BY <1>1, <2>1, <2>2, <2>3 DEF Request, IgnoreBegin, ReparseBegin, Open, LoadProfiles,
          LoadFields, Resolve, Abort
<1>2. ASSUME NEW r \in Res, SetStatus(r) \/ Delete(r)
      PROVE  \A e \in Entries : entries'[e].mail = entries[e].mail
      BY <1>2, StaffSteps, UnlinkedKeeps DEF StaffLeads
<1>3. ASSUME NEW p \in Profiles, Operator(p) PROVE entries' = entries
      BY <1>3, OperatorChanges DEF Changes
<1>4. ASSUME NEW e \in Entries, RecordUnparsed(e)
      PROVE  \A f \in Entries : entries'[f].mail = entries[f].mail
      BY <1>4 DEF RecordUnparsed, TypeOK, Entry
<1> QED BY <1>1, <1>2, <1>3, <1>4 DEF Next, TestParse, vars

\* A request's step that leaves it neither reading fields nor failing needs nothing.
LEMMA TestsFrame ==
  ASSUME TypeOK, Sessions, Tests, NEW h \in Handlers, NEW s,
         txn' = [txn EXCEPT ![h] = s], profiles' = profiles, tested' = tested,
         \A e \in Entries : entries'[e].mail = entries[e].mail,
         s.step = "fields" /\ <<s.found, entries[s.entry].mail.subject,
                                entries[s.entry].mail.format>> \in s.trust =>
           s.row = profiles[s.found] /\ DryRun(s.row, entries[s.entry].mail),
         s.step = "fails" /\ s.found # None =>
           \/ <<s.found, entries[s.entry].mail.subject, entries[s.entry].mail.format>> \notin s.trust
           \/ s.row.kind = "cancellation" /\ s.ref = None,
         s.step # "none" => s.entry \in Entries
  PROVE  Tests'
<1>1. txn'[h] = s /\ \A k \in Handlers : k # h => txn'[k] = txn[k]
      BY DEF TypeOK
<1>2. \A k \in Handlers : txn[k].step # "none" => txn[k].entry \in Entries
      BY DEF Sessions, Shape, ShapeOf, Session, TypeOK
<1>3. TestedHolds'
      BY DEF Tests, TestedHolds
<1>4. TrustedHolds'
      BY <1>1, <1>2 DEF Tests, TrustedHolds, Trusts, Mail
<1>5. DryRunHolds'
      BY <1>1, <1>2 DEF Tests, DryRunHolds, Mail
<1> QED BY <1>3, <1>4, <1>5 DEF Tests

LEMMA RequestTests ==
  ASSUME TypeOK, Sessions, Tests, NEW h \in Handlers, Request(h), [Next]_vars
  PROVE  Tests'
<1> USE ReparseAssumption
<1>0. Shape /\ \A e \in Entries : entries'[e].mail = entries[e].mail
      BY MailsKept, SMTT(40) DEF Sessions
<1>1. profiles' = profiles /\ tested' = tested
      BY DEF Request, IgnoreBegin, ReparseBegin, Open, IgnoreCommit, LoadProfiles, LoadFields,
             ReparseFails, Resolve, Commit, Abort
<1>2. ASSUME Close(h) PROVE Tests'
  <2>1. txn' = [txn EXCEPT ![h] = Idle] /\ Idle.step = "none"
        BY <1>2 DEF Close, Idle
  <2> QED BY <1>0, <1>1, <2>1, TestsFrame
<1>3. ASSUME NEW e \in Entries, IgnoreBegin(h, e) \/ ReparseBegin(h, e) PROVE Tests'
  <2>1. PICK step \in {"ignore", "reparse"} : Open(h, e, step)
        BY <1>3 DEF IgnoreBegin, ReparseBegin
  <2>2. PICK s \in Session : txn' = [txn EXCEPT ![h] = s] /\ BeginLeads(s, e, step)
        BY <2>1, OpenLeads
  <2>3. s.step \in {"ignore", "reparse"} /\ s.entry \in Entries
        BY <2>2 DEF BeginLeads
  <2> QED BY <1>0, <1>1, <2>2, <2>3, TestsFrame
<1>4. CASE LoadProfiles(h)
  <2>1. PICK s \in Session : txn' = [txn EXCEPT ![h] = s] /\ ProfilesLead(h, s)
        BY <1>0, <1>4, LoadProfilesLeads
  <2>2. txn[h].entry \in Entries /\ s.entry = txn[h].entry
        BY <1>0, <1>4, <2>1 DEF LoadProfiles, ProfilesLead, Shape, ShapeOf, Session, TypeOK
  <2>3. entries[txn[h].entry].mail \in Mails
        BY <2>2 DEF TypeOK, Entry
  <2>4. s.step = "fields" /\ <<s.found, entries[s.entry].mail.subject,
                              entries[s.entry].mail.format>> \in s.trust =>
          s.row = profiles[s.found] /\ DryRun(s.row, entries[s.entry].mail)
        BY <2>1, <2>2, <2>3 DEF ProfilesLead, Tests, TestedHolds
  <2>5. s.step = "fails" => s.found = None
        BY <2>1 DEF ProfilesLead
  <2> QED BY <1>0, <1>1, <2>1, <2>2, <2>4, <2>5, TestsFrame
<1>5. CASE LoadFields(h)
  <2>1. PICK s \in Session : txn' = [txn EXCEPT ![h] = s] /\ FieldsLead(h, s)
        BY <1>0, <1>5, LoadFieldsLeads
  <2>2. /\ txn[h].entry \in Entries /\ txn[h].found \in Profiles /\ txn[h].row \in Profile
        /\ txn[h].step = "fields"
        BY <1>0, <1>5 DEF LoadFields, Shape, ShapeOf, Session, TypeOK
  <2>3. ASSUME s.step = "fails", Trusts(h) PROVE s.row.kind = "cancellation" /\ s.ref = None
    <3>1. txn[h].row = profiles[txn[h].found] /\ DryRun(txn[h].row, Mail(h))
          BY <2>2, <2>3 DEF Tests, TrustedHolds
    <3>2. Merged(h) = txn[h].row
          BY <2>2, <3>1 DEF Merged, Profile
    <3>3. Parses(Merged(h), Mail(h)) /\ ~Readable(Merged(h), Mail(h))
          BY <2>1, <2>3, <3>1, <3>2 DEF DryRun, Parses, FieldsLead
    <3> QED BY <2>1, <3>3 DEF Readable, FieldsLead
  <2>4. s.step # "fields" /\ s.entry = txn[h].entry /\ s.found = txn[h].found /\ s.trust = txn[h].trust
        BY <2>1 DEF FieldsLead
  <2>5. s.step = "fails" /\ s.found # None =>
           \/ <<s.found, entries[s.entry].mail.subject, entries[s.entry].mail.format>> \notin s.trust
           \/ s.row.kind = "cancellation" /\ s.ref = None
        BY <2>3, <2>4 DEF Trusts, Mail
  <2> QED BY <1>0, <1>1, <2>1, <2>2, <2>4, <2>5, TestsFrame
<1>6. CASE Resolve(h)
  <2>1. ASSUME NEW s \in Session, txn' = [txn EXCEPT ![h] = s], ResolveLeads(h, s) PROVE Tests'
    <3>1. s.step = "printing" /\ s.entry = txn[h].entry /\ txn[h].entry \in Entries
          BY <1>0, <1>6, <2>1 DEF ResolveLeads, Resolve, Shape, ShapeOf, Session, TypeOK
    <3> QED BY <1>0, <1>1, <2>1, <3>1, TestsFrame
  <2> QED BY <1>0, <1>2, <1>6, <2>1, ResolveTo
<1> QED BY <1>2, <1>3, <1>4, <1>5, <1>6 DEF Request, IgnoreCommit, ReparseFails, Commit, Abort

LEMMA TestsStep ==
  ASSUME TypeOK, Sessions, Tests, [Next]_vars
  PROVE  Tests'
<1> USE ReparseAssumption
<1>0. \A e \in Entries : entries'[e].mail = entries[e].mail
      BY MailsKept
<1>1. \A k \in Handlers : txn[k].step # "none" => txn[k].entry \in Entries
      BY DEF Sessions, Shape, ShapeOf, Session, TypeOK
<1>2. ASSUME UNCHANGED <<txn, profiles, tested>> PROVE Tests'
      BY <1>0, <1>1, <1>2 DEF Tests, TestedHolds, TrustedHolds, DryRunHolds, Trusts, Mail
<1>3. ASSUME NEW p \in Profiles, Operator(p) PROVE Tests'
  <2>1. PICK row \in Profile : Changes(p, row)
        BY <1>3, OperatorChanges
  <2>2. \A h \in Handlers : /\ SameBut(txn'[h], txn[h])
                            /\ txn'[h].trust = {t \in txn[h].trust : t[1] # p}
        BY <2>1, ChangesKeep
  <2>3. /\ entries' = entries /\ tested' = {t \in tested : t[1] # p}
        /\ \A q \in Profiles : q # p => profiles'[q] = profiles[q]
        BY <2>1 DEF Changes, TypeOK
  <2>4. TestedHolds'
        BY <2>3 DEF Tests, TestedHolds
  <2>5. TrustedHolds'
    <3> SUFFICES ASSUME NEW h \in Handlers, txn'[h].step = "fields", Trusts(h)'
                 PROVE  txn'[h].row = profiles'[txn'[h].found] /\ DryRun(txn'[h].row, Mail(h)')
        BY DEF TrustedHolds
    <3>1. txn[h].step = "fields" /\ Trusts(h) /\ txn[h].found # p /\ Mail(h)' = Mail(h)
          BY <2>2, <2>3 DEF SameBut, Trusts, Mail
    <3>2. txn[h].found \in Profiles
          BY <3>1 DEF Sessions, Shape, ShapeOf, Session, TypeOK
    <3> QED BY <2>2, <2>3, <3>1, <3>2 DEF Tests, TrustedHolds, SameBut
  <2>6. DryRunHolds'
        BY <2>2, <2>3 DEF Tests, DryRunHolds, SameBut, Mail
  <2> QED BY <2>4, <2>5, <2>6 DEF Tests
<1>4. ASSUME NEW p \in Profiles, TestParse(p) PROVE Tests'
  <2>1. PICK mail \in Mails : /\ DryRun(profiles[p], mail)
                              /\ tested' = tested \cup {<<p, mail.subject, mail.format>>}
        BY <1>4 DEF TestParse
  <2>2. UNCHANGED <<txn, profiles, entries>>
        BY <1>4 DEF TestParse
  <2>3. ASSUME NEW m \in Mails, m.subject = mail.subject, m.format = mail.format
        PROVE  DryRun(profiles[p], m)
        BY <2>1, <2>3 DEF DryRun, Parses, FieldsParse
  <2>4. TestedHolds'
        BY <2>1, <2>2, <2>3 DEF Tests, TestedHolds
  <2> QED BY <2>2, <2>4 DEF Tests, TrustedHolds, DryRunHolds, Trusts, Mail
<1>5. ASSUME NEW r \in Res, SetStatus(r) \/ Delete(r) PROVE Tests'
      BY <1>2, <1>5, StaffSteps DEF StaffLeads
<1> QED BY <1>2, <1>3, <1>4, <1>5, RequestTests DEF Next, RecordUnparsed, vars

-----------------------------------------------------------------------------
(* The theorems. *)

LEMMA InitInv == Init => ReparseInv
<1> SUFFICES ASSUME Init PROVE ReparseInv
    OBVIOUS
<1> USE ReparseAssumption
<1>1. txn = [h \in Handlers |-> Idle] /\ Idle.step = "none" /\ Idle.writes = "none"
        /\ Idle.entry = None
      BY DEF Init, Idle
<1>2. NoProfile \in Profile
      BY DEF NoProfile, Profile, Regexes, Patterns
<1>3. profiles \in [Profiles -> Profile]
      BY <1>2 DEF Init
<1>4. entries \in [Entries -> Entry] /\ \A e \in Entries : entries[e].link = None
  <2>1. [status : {"none", "pending"}, mail : Mails, link : {None}, reason : {"live"}] \subseteq Entry
        BY DEF Entry
  <2> QED BY <2>1 DEF Init
<1>5. rows \in [Res -> Row] /\ \A r \in Res : rows[r].from = None
      BY DEF Init, Row
<1>6. TypeOK
      BY <1>1, <1>3, <1>4, <1>5, IdleType DEF Init, TypeOK
<1>7. Sessions
      BY <1>1, IdleType DEF Sessions, Shape, InsertsOwn, FindsByRef, Recorded, Locks
<1>8. \A e \in Entries : Booked(e) = {}
      BY <1>5 DEF Booked
<1>9. \A h \in Handlers, e \in Entries : ~Reparsing(h, e)
      BY <1>1 DEF Reparsing
<1>10. Tables
      BY <1>4, <1>5, <1>8, <1>9 DEF Tables, RowsFrom, ResolvedWithItsReservation,
         LinkLeadsSomewhere, Once
<1>11. Tests
      BY <1>1 DEF Init, Tests, TestedHolds, TrustedHolds, DryRunHolds
<1> QED BY <1>6, <1>7, <1>10, <1>11 DEF ReparseInv

LEMMA StepInv ==
  ASSUME ReparseInv, [Next]_vars
  PROVE  ReparseInv'
BY TypesStep, SessionsStep, TablesStep, TestsStep DEF ReparseInv, Sessions

\* The inductive invariant holds in every reachable state.
THEOREM ReparseInvariant == Spec => []ReparseInv
<1>1. ReparseInv /\ [Next]_vars => ReparseInv'
      BY StepInv
<1> QED BY <1>1, InitInv, PTL DEF Spec

\* Profiles, unparsed mails, reservations and requests are what the pages make of them.
THEOREM TypeCorrect == Spec => []TypeOK
<1>1. ReparseInv => TypeOK
      BY DEF ReparseInv
<1> QED BY <1>1, ReparseInvariant, PTL

\* A reservation comes with the resolution of its mail or not at all.
THEOREM ResolvedWithItsReservationHolds == Spec => []ResolvedWithItsReservation
<1>1. ReparseInv => ResolvedWithItsReservation
      BY DEF ReparseInv, Tables
<1> QED BY <1>1, ReparseInvariant, PTL

\* The link of a resolved mail leads to a reservation that is there and belongs to it.
THEOREM LinkLeadsSomewhereHolds == Spec => []LinkLeadsSomewhere
<1>1. ReparseInv => LinkLeadsSomewhere
      BY DEF ReparseInv, Tables
<1> QED BY <1>1, ReparseInvariant, PTL

\* Two reservations of one mail take an operator who asks again.
THEOREM BookedOnceUnlessAgainHolds == Spec => []BookedOnceUnlessAgain
<1>1. ASSUME ReparseInv, NEW e \in Entries, e \notin again PROVE ~(Cardinality(Booked(e)) > 1)
  <2>1. \A r, s \in Booked(e) : r = s
        BY <1>1 DEF ReparseInv, Tables, Once
  <2>2. CASE Booked(e) = {}
        BY <2>2, FS_EmptySet
  <2>3. ASSUME NEW r \in Booked(e) PROVE ~(Cardinality(Booked(e)) > 1)
    <3>1. Booked(e) = {r}
          BY <2>1, <2>3
    <3> QED BY <3>1, FS_Singleton
  <2> QED BY <2>2, <2>3
<1>2. ReparseInv => BookedOnceUnlessAgain
      BY <1>1 DEF BookedOnceUnlessAgain
<1> QED BY <1>2, ReparseInvariant, PTL

\* What a dry run promised of an unchanged profile, the reparse keeps.
THEOREM DryRunHoldsAlways == Spec => []DryRunHolds
<1>1. ReparseInv => DryRunHolds
      BY DEF ReparseInv, Tests
<1> QED BY <1>1, ReparseInvariant, PTL

\* Only a commit books, and it holds the lock of an entry that is there.
LEMMA IgnoredKeeps ==
  ASSUME ReparseInv, [Next]_vars, NEW e \in Entries, entries[e].status = "gone"
  PROVE  Booked(e)' = Booked(e)
<1> USE ReparseAssumption
<1>1. ASSUME rows' = rows PROVE Booked(e)' = Booked(e)
      BY <1>1 DEF Booked
<1>2. ASSUME NEW h \in Handlers, Commit(h) PROVE Booked(e)' = Booked(e)
  <2>1. /\ txn[h].step = "printing" /\ txn[h].res \in Res
        /\ txn[h].writes = "insert" => Written(h).from = txn[h].entry
        /\ txn[h].writes # "insert" => Written(h).from = rows[txn[h].res].from
        BY <1>2, CommitWrites DEF ReparseInv, Sessions
  <2>2. txn[h].entry # e
        BY <2>1 DEF ReparseInv, Sessions, Locks, Present
  <2>3. txn[h].writes = "insert" => rows[txn[h].res].from = None
        BY <2>1 DEF ReparseInv, Sessions, InsertsOwn, Tables, RowsFrom
  <2>4. \A r \in Res : rows'[r].from = e <=> rows[r].from = e
        BY <1>2, <2>1, <2>2, <2>3 DEF Commit, ReparseInv, TypeOK
  <2> QED BY <2>4 DEF Booked
<1>3. ASSUME NEW r \in Res, SetStatus(r) \/ Delete(r) PROVE Booked(e)' = Booked(e)
  <2>1. \A q \in Res : rows'[q].from = rows[q].from
        BY <1>3, StaffSteps DEF StaffLeads, ReparseInv, TypeOK
  <2> QED BY <2>1 DEF Booked
<1>4. ASSUME NEW p \in Profiles, Operator(p) PROVE rows' = rows
      BY <1>4, OperatorChanges, SMTT(40) DEF Changes, ReparseInv
<1>5. ASSUME NEW h \in Handlers, Request(h), ~Commit(h) PROVE rows' = rows
      BY <1>5 DEF Request, IgnoreBegin, ReparseBegin, Open, IgnoreCommit, LoadProfiles, LoadFields,
             ReparseFails, Failed, Resolve, Abort
<1> QED BY <1>1, <1>2, <1>3, <1>4, <1>5 DEF Next, TestParse, RecordUnparsed, vars

\* A mail that was ignored is not booked any more.
THEOREM IgnoredStaysUnbookedHolds == Spec => IgnoredStaysUnbooked
<1>1. ReparseInv /\ [Next]_vars =>
        [\A e \in Entries : entries[e].status = "gone" => Booked(e)' = Booked(e)]_vars
      BY IgnoredKeeps
<1> QED BY <1>1, ReparseInvariant, PTL DEF Spec, IgnoredStaysUnbooked
=============================================================================
