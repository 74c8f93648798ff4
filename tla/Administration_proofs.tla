----------------------- MODULE Administration_proofs -----------------------
(* Proofs about users, PIN login and settings, for any PINs, thresholds and *)
(* requests.                                                               *)
EXTENDS Administration, FiniteSetTheorems, TLAPS

-----------------------------------------------------------------------------
(* The inductive invariant. *)

Txn == [op : Ops, of : Pins \cup {None}, got : Database \cup {None}, new : Database \cup {None},
        meant : SUBSET {"layout", "password", "pin"}, over : BOOLEAN]
Types ==
  /\ db \in Database
  /\ page \in [Handlers -> [layout : Values \cup {None}, old : BOOLEAN]]
  /\ txn \in [Handlers -> Txn]
  /\ requests \in 0 .. MaxRequests /\ misses \in [Pins -> Nat]
  /\ raced \in BOOLEAN /\ lowered \in BOOLEAN

HasAdmin(d) == \E p \in Pins : IsAdmin(d.pins[p])

\* What a request of each kind may do to the rows it loaded.
PinsShape(op, of, got, new, meant) ==
  /\ op = "login" /\ of = None => \A p \in Pins :
       \/ new.pins[p] = got.pins[p]
       \/ /\ got.pins[p].status = "there" /\ got.pins[p].lock # "on"
          /\ new.pins[p] = Failed(got.pins[p])
  /\ op # "login" \/ of # None => \A p \in Pins : p # of => new.pins[p] = got.pins[p]
  /\ op = "login" /\ of # None => got.pins[of].lock # "on" /\ new.pins[of] = Reset(got.pins[of])
  /\ op = "update" /\ "pin" \in meant => new.pins[of].failed = 0 /\ new.pins[of].lock = "no"
  /\ op = "update" /\ "pin" \notin meant => /\ new.pins[of].failed = got.pins[of].failed
                                            /\ new.pins[of].lock = got.pins[of].lock
  /\ op = "update" => new.pins[of].status = got.pins[of].status
  /\ op = "remove" => new.pins[of].status = "deleted" /\ new.pins[of].lock = got.pins[of].lock
  /\ op = "create" => got.pins[of].lock = "no"
  /\ op \in {"create", "script"} => new.pins[of].status = "there" /\ new.pins[of].failed = 0
                                    /\ new.pins[of].lock = "no"
  /\ op \in {"update", "remove", "create", "script"} => of \in Pins
  /\ op \in {"seed", "conf"} => of = None
KeepsAdmin(op, of, got, new) ==
  HasAdmin(got) /\ ~HasAdmin(new) => op = "script" /\ new.pins[of].role # "admin"
ConfShape(op, got, new, meant, old) ==
  \A f \in Fields : got.conf[f] # new.conf[f] =>
    op = "conf" /\ (f \in meant \/ (f = "layout" /\ old))
Allowed(op, of, got, new, meant, old) ==
  /\ got \in Database /\ new \in Database
  /\ PinsShape(op, of, got, new, meant) /\ KeepsAdmin(op, of, got, new)
  /\ ConfShape(op, got, new, meant, old)

Opened == \A h \in Handlers : LET t == txn[h] IN
  t.op # "none" => Allowed(t.op, t.of, t.got, t.new, t.meant, page[h].old)

\* Until another request commits a change, what was loaded is what is there, apart
\* from locks that have expired.
SamePin(a, b) ==
  /\ a.status = b.status /\ a.role = b.role /\ a.active = b.active /\ a.failed = b.failed
  /\ a.lock = b.lock \/ (a.lock = "on" /\ b.lock = "past")
Current == \A h \in Handlers : txn[h].op # "none" /\ ~txn[h].over =>
  \A p \in Pins : SamePin(txn[h].got.pins[p], db.pins[p])

\* A form that nobody has outdated shows what is there.
FreshPages == \A h \in Handlers :
  page[h].layout # None /\ ~page[h].old => page[h].layout = db.conf.layout

\* An unlocked PIN has as many failures as misses, a locked one has none.
Counted == raced \/ \A p \in Pins : db.pins[p].status = "there" =>
  IF db.pins[p].lock = "on" THEN db.pins[p].failed = 0 /\ misses[p] >= Threshold
                            ELSE db.pins[p].failed = misses[p]
\* A row that is not there yet is not locked.
NewRowsOpen == \A p \in Pins : db.pins[p].status = "none" => db.pins[p].lock = "no"

AdminInv == /\ Types /\ Opened /\ Current /\ FreshPages /\ Counted /\ NewRowsOpen /\ AdminLeft

-----------------------------------------------------------------------------
(* Writing the changed columns. *)

LEMMA MergedPin ==
  ASSUME NEW got \in PinRow, NEW new \in PinRow, NEW now \in PinRow
  PROVE  LET m == Merged(got, new, now) IN
         /\ m \in PinRow
         /\ m.status = IF got.status # new.status THEN new.status ELSE now.status
         /\ m.role = IF got.role # new.role THEN new.role ELSE now.role
         /\ m.active = IF got.active # new.active THEN new.active ELSE now.active
         /\ m.failed = IF got.failed # new.failed THEN new.failed ELSE now.failed
         /\ m.lock = IF got.lock # new.lock THEN new.lock ELSE now.lock
<1>1. DOMAIN now = {"status", "role", "active", "secret", "failed", "lock"}
  BY DEF PinRow
<1> QED
  BY <1>1 DEF Merged, PinRow

LEMMA MergedConf ==
  ASSUME NEW got \in Settings, NEW new \in Settings, NEW now \in Settings
  PROVE  LET m == Merged(got, new, now) IN
         /\ m \in Settings
         /\ \A f \in Fields : m[f] = IF got[f] # new[f] THEN new[f] ELSE now[f]
<1>1. DOMAIN now = {"there", "layout", "password"}
  BY DEF Settings
<1> QED
  BY <1>1 DEF Merged, Settings, Fields

LEMMA RowTypes ==
  ASSUME NEW row \in PinRow
  PROVE  Failed(row) \in PinRow /\ Reset(row) \in PinRow
<1>1. 0 \in 0 .. Threshold - 1 /\ row.failed \in 0 .. Threshold - 1
  BY AdministrationAssumption DEF PinRow
<1>2. Reset(row) \in PinRow
  BY <1>1 DEF PinRow, Reset
<1>3. CASE row.failed + 1 >= Threshold
  BY <1>1, <1>2, <1>3 DEF PinRow, Failed
<1>4. CASE ~(row.failed + 1 >= Threshold)
  <2>1. row.failed + 1 \in 0 .. Threshold - 1
    BY <1>1, <1>4, AdministrationAssumption
  <2>2. Failed(row) = [row EXCEPT !.failed = row.failed + 1]
    BY <1>4 DEF Failed
  <2> QED
    BY <1>2, <2>1, <2>2 DEF PinRow
<1> QED
  BY <1>2, <1>3, <1>4

\* The two columns that the count is about, after a failed and a matching login.
LEMMA RowCounts ==
  ASSUME NEW row \in PinRow
  PROVE  /\ Failed(row).status = row.status /\ Failed(row).role = row.role
         /\ Failed(row).active = row.active
         /\ IF row.failed + 1 >= Threshold
            THEN Failed(row).failed = 0 /\ Failed(row).lock = "on"
            ELSE Failed(row).failed = row.failed + 1 /\ Failed(row).lock = row.lock
         /\ Reset(row).status = row.status /\ Reset(row).role = row.role
         /\ Reset(row).active = row.active /\ Reset(row).failed = 0 /\ Reset(row).lock = "no"
  BY DEF PinRow, Failed, Reset

\* _count_other_active_admins finds one only if there is one.
LEMMA OthersExist ==
  ASSUME db \in Database, NEW p, OtherActiveAdmins(p) > 0
  PROVE  \E q \in Pins : q # p /\ IsAdmin(db.pins[q])
<1>1. IsFiniteSet(ActiveAdmins \ {p})
  BY AdministrationAssumption, FS_Subset DEF ActiveAdmins
<1>2. ActiveAdmins \ {p} # {}
  BY <1>1, FS_EmptySet DEF OtherActiveAdmins
<1> QED
  BY <1>2 DEF ActiveAdmins

-----------------------------------------------------------------------------
(* Requests that open. *)

LEMMA BeginKeeps ==
  ASSUME AdminInv, NEW h \in Handlers, NEW op \in Ops \ {"none"}, NEW of \in Pins \cup {None},
         NEW new, NEW meant \in SUBSET {"layout", "password", "pin"},
         Begin(h, op, of, new, meant), Allowed(op, of, db, new, meant, page[h].old)
  PROVE  AdminInv'
<1> DEFINE t == [op |-> op, of |-> of, got |-> db, new |-> new, meant |-> meant, over |-> FALSE]
<1>1. /\ txn' = [txn EXCEPT ![h] = t] /\ requests' = requests + 1 /\ requests < MaxRequests
      /\ UNCHANGED <<db, page, misses, raced, lowered>>
  BY DEF Begin
<1>2. t \in Txn
  BY DEF Txn, Allowed
<1>3. Types'
  <2>1. requests' \in 0 .. MaxRequests
    BY <1>1, AdministrationAssumption DEF AdminInv, Types
  <2> QED
    BY <1>1, <1>2, <2>1 DEF AdminInv, Types
<1>4. txn'[h] = t /\ \A g \in Handlers : g # h => txn'[g] = txn[g]
  BY <1>1 DEF AdminInv, Types
<1>5. Opened'
  <2> SUFFICES ASSUME NEW g \in Handlers, txn'[g].op # "none"
               PROVE Allowed(txn'[g].op, txn'[g].of, txn'[g].got, txn'[g].new, txn'[g].meant, page[g].old)
    BY <1>1 DEF Opened
  <2>1. CASE g = h
    BY <2>1, <1>4
  <2>2. CASE g # h
    BY <2>2, <1>4 DEF AdminInv, Opened
  <2> QED BY <2>1, <2>2
<1>6. Current'
  BY <1>1, <1>4 DEF AdminInv, Current, SamePin
<1>7. FreshPages' /\ Counted' /\ NewRowsOpen' /\ AdminLeft'
  BY <1>1 DEF AdminInv, FreshPages, Counted, NewRowsOpen, AdminLeft, ActiveAdmins
<1> QED
  BY <1>3, <1>5, <1>6, <1>7 DEF AdminInv

\* One row changed, in a request that has nothing to do with the settings.
LEMMA BeginPinKeeps ==
  ASSUME AdminInv, NEW h \in Handlers, NEW op \in {"login", "update", "remove", "create", "script"},
         NEW p \in Pins, NEW row \in PinRow, NEW meant \in SUBSET {"pin"},
         Begin(h, op, p, [db EXCEPT !.pins[p] = row], meant),
         op = "login" => db.pins[p].lock # "on" /\ row = Reset(db.pins[p]),
         op = "update" => row.status = db.pins[p].status,
         op = "update" /\ "pin" \in meant => row.failed = 0 /\ row.lock = "no",
         op = "update" /\ "pin" \notin meant => /\ row.failed = db.pins[p].failed
                                                /\ row.lock = db.pins[p].lock,
         op = "remove" => row.status = "deleted" /\ row.lock = db.pins[p].lock,
         op = "create" => db.pins[p].lock = "no",
         op \in {"create", "script"} => row.status = "there" /\ row.failed = 0 /\ row.lock = "no",
         IsAdmin(db.pins[p]) => \/ IsAdmin(row)
                                \/ \E q \in Pins : q # p /\ IsAdmin(db.pins[q])
                                \/ op = "script" /\ row.role # "admin"
  PROVE  AdminInv'
<1> DEFINE new == [db EXCEPT !.pins[p] = row]
<1>1. /\ db \in Database /\ new \in Database /\ new.conf = db.conf /\ new.pins[p] = row
      /\ \A q \in Pins : q # p => new.pins[q] = db.pins[q]
  BY DEF AdminInv, Types, Database
<1>2. p # None
  BY AdministrationAssumption
<1> HIDE DEF new
<1>3. PinsShape(op, p, db, new, meant)
  BY <1>1, <1>2 DEF PinsShape
<1>4. KeepsAdmin(op, p, db, new)
  BY <1>1 DEF KeepsAdmin, HasAdmin
<1>5. ConfShape(op, db, new, meant, page[h].old)
  BY <1>1 DEF ConfShape
<1>6. Allowed(op, p, db, new, meant, page[h].old)
  BY <1>1, <1>3, <1>4, <1>5 DEF Allowed
<1> QED
  BY <1>6, BeginKeeps DEF new, Ops
LEMMA LoginKeeps ==
  ASSUME AdminInv, NEW h \in Handlers, Login(h)
  PROVE  AdminInv'
<1>0. db \in Database /\ \A p \in Pins : db.pins[p] \in PinRow
  BY DEF AdminInv, Types, Database
<1> PICK secret \in Secrets :
      \/ \E p \in Matching(secret) : BeginPin(h, "login", p, Reset(db.pins[p]))
      \/ /\ Matching(secret) = {}
         /\ Begin(h, "login", None, [db EXCEPT !.pins =
                  [p \in Pins |-> IF p \in Candidates THEN Failed(@[p]) ELSE @[p]]], {})
  BY DEF Login
<1>1. ASSUME NEW p \in Matching(secret), BeginPin(h, "login", p, Reset(db.pins[p]))
      PROVE AdminInv'
  <2>1. p \in Pins /\ db.pins[p].lock # "on"
    BY DEF Matching, Candidates
  <2>2. Reset(db.pins[p]) \in PinRow
    BY <1>0, <2>1, RowTypes
  <2>3. IsAdmin(db.pins[p]) => IsAdmin(Reset(db.pins[p]))
    BY <1>0, <2>1, RowCounts DEF IsAdmin
  <2> QED
    BY <1>1, <2>1, <2>2, <2>3, BeginPinKeeps DEF BeginPin
<1>2. ASSUME Begin(h, "login", None, [db EXCEPT !.pins =
                     [p \in Pins |-> IF p \in Candidates THEN Failed(@[p]) ELSE @[p]]], {})
      PROVE AdminInv'
  <2> DEFINE rows == [p \in Pins |-> IF p \in Candidates THEN Failed(db.pins[p]) ELSE db.pins[p]]
             new == [db EXCEPT !.pins = rows]
  <2>1. rows \in [Pins -> PinRow]
    BY <1>0, RowTypes
  <2>2. new \in Database /\ new.conf = db.conf
    BY <1>0, <2>1 DEF Database
  <2>3. \A p \in Pins :
           \/ new.pins[p] = db.pins[p]
           \/ /\ db.pins[p].status = "there" /\ db.pins[p].lock # "on"
              /\ new.pins[p] = Failed(db.pins[p])
    BY <1>0 DEF Candidates, There, Database
  <2>4. Begin(h, "login", None, new, {})
    BY <1>2
  <2> HIDE DEF new
  <2>5. PinsShape("login", None, db, new, {})
    BY <2>3 DEF PinsShape
  <2>6. KeepsAdmin("login", None, db, new)
    BY <1>0, <2>3, RowCounts, SMTT(40) DEF KeepsAdmin, HasAdmin, IsAdmin
  <2>7. ConfShape("login", db, new, {}, page[h].old)
    BY <2>2 DEF ConfShape
  <2> QED
    BY <1>0, <2>2, <2>4, <2>5, <2>6, <2>7, BeginKeeps DEF Allowed, Ops
<1> QED
  BY <1>1, <1>2

LEMMA UserRequestsKeep ==
  ASSUME AdminInv, NEW h \in Handlers,
         UpdateUser(h) \/ UpdatePin(h) \/ ToggleActive(h) \/ DeleteUser(h)
  PROVE  AdminInv'
<1>0. db \in Database /\ \A p \in Pins : db.pins[p] \in PinRow
  BY DEF AdminInv, Types, Database
<1>1. ASSUME NEW p \in Pins, NEW role \in {"admin", "reception"}, NEW active \in BOOLEAN,
             LET row == [db.pins[p] EXCEPT !.role = role, !.active = active] IN
             MayUpdate(p, row) /\ BeginPin(h, "update", p, row)
      PROVE AdminInv'
  <2> DEFINE row == [db.pins[p] EXCEPT !.role = role, !.active = active]
  <2>1. row \in PinRow /\ row.status = db.pins[p].status /\ row.failed = db.pins[p].failed
        /\ row.lock = db.pins[p].lock /\ row.role = role /\ row.active = active
    BY <1>0 DEF PinRow
  <2>2. MayUpdate(p, row) /\ Begin(h, "update", p, [db EXCEPT !.pins[p] = row], {})
    BY <1>1 DEF BeginPin
  <2> HIDE DEF row
  <2>3. IsAdmin(db.pins[p]) => IsAdmin(row) \/ \E q \in Pins : q # p /\ IsAdmin(db.pins[q])
    BY <1>0, <2>1, <2>2, OthersExist DEF MayUpdate, IsAdmin
  <2> QED
    BY <2>1, <2>2, <2>3, BeginPinKeeps
<1>2. ASSUME NEW p \in Pins, NEW secret \in Secrets,
             Begin(h, "update", p, [db EXCEPT !.pins[p] = [Reset(@) EXCEPT !.secret = secret]], {"pin"})
      PROVE AdminInv'
  <2> DEFINE row == [Reset(db.pins[p]) EXCEPT !.secret = secret]
  <2>1. Reset(db.pins[p]) \in PinRow
    BY <1>0, RowTypes
  <2>2. /\ row \in PinRow /\ row.failed = Reset(db.pins[p]).failed
        /\ row.status = Reset(db.pins[p]).status /\ row.lock = Reset(db.pins[p]).lock
        /\ row.role = Reset(db.pins[p]).role /\ row.active = Reset(db.pins[p]).active
    BY <2>1 DEF PinRow
  <2>3. [db EXCEPT !.pins[p] = [Reset(@) EXCEPT !.secret = secret]] = [db EXCEPT !.pins[p] = row]
    BY <1>0 DEF Database
  <2>4. Begin(h, "update", p, [db EXCEPT !.pins[p] = row], {"pin"})
    BY <1>2, <2>3
  <2> HIDE DEF row
  <2>5. /\ row.status = db.pins[p].status /\ row.failed = 0 /\ row.lock = "no"
        /\ IsAdmin(db.pins[p]) => IsAdmin(row)
    BY <1>0, <2>2, RowCounts DEF IsAdmin
  <2> QED
    BY <2>2, <2>4, <2>5, BeginPinKeeps
<1>3. ASSUME NEW p \in Pins, MayToggle(p),
             BeginPin(h, "update", p, [db.pins[p] EXCEPT !.active = ~@])
      PROVE AdminInv'
  <2> DEFINE row == [db.pins[p] EXCEPT !.active = ~@]
  <2>1. row \in PinRow /\ row.status = db.pins[p].status /\ row.failed = db.pins[p].failed
        /\ row.lock = db.pins[p].lock
    BY <1>0 DEF PinRow
  <2>2. Begin(h, "update", p, [db EXCEPT !.pins[p] = row], {})
    BY <1>3 DEF BeginPin
  <2> HIDE DEF row
  <2>3. IsAdmin(db.pins[p]) => \E q \in Pins : q # p /\ IsAdmin(db.pins[q])
    BY <1>0, <1>3, OthersExist DEF MayToggle, IsAdmin
  <2> QED
    BY <2>1, <2>2, <2>3, BeginPinKeeps
<1>4. ASSUME NEW p \in Pins, MayDelete(p),
             BeginPin(h, "remove", p, [db.pins[p] EXCEPT !.status = "deleted"])
      PROVE AdminInv'
  <2> DEFINE row == [db.pins[p] EXCEPT !.status = "deleted"]
  <2>1. row \in PinRow /\ row.status = "deleted" /\ row.lock = db.pins[p].lock
    BY <1>0 DEF PinRow
  <2>2. Begin(h, "remove", p, [db EXCEPT !.pins[p] = row], {})
    BY <1>4 DEF BeginPin
  <2> HIDE DEF row
  <2>3. IsAdmin(db.pins[p]) => \E q \in Pins : q # p /\ IsAdmin(db.pins[q])
    BY <1>0, <1>4, OthersExist DEF MayDelete, IsAdmin
  <2> QED
    BY <2>1, <2>2, <2>3, BeginPinKeeps
<1> QED
  BY <1>1, <1>2, <1>3, <1>4 DEF UpdateUser, UpdatePin, ToggleActive, DeleteUser

LEMMA NewRowsKeep ==
  ASSUME AdminInv, NEW h \in Handlers, CreateUser(h) \/ RunScript(h)
  PROVE  AdminInv'
<1>1. ASSUME NEW p \in Pins, NEW role \in {"admin", "reception"}, NEW secret \in Secrets,
             \/ Fresh(p) /\ BeginPin(h, "create", p, NewRow(role, secret))
             \/ There(p) /\ BeginPin(h, "script", p, NewRow(role, secret))
      PROVE AdminInv'
  <2>1. 0 \in 0 .. Threshold - 1
    BY AdministrationAssumption
  <2>2. /\ NewRow(role, secret) \in PinRow
        /\ NewRow(role, secret).status = "there" /\ NewRow(role, secret).failed = 0
        /\ NewRow(role, secret).lock = "no" /\ NewRow(role, secret).active
        /\ NewRow(role, secret).role = role
    BY <2>1 DEF NewRow, PinRow
  <2>3. CASE Fresh(p) /\ BeginPin(h, "create", p, NewRow(role, secret))
    <3>1. db.pins[p].lock = "no" /\ ~IsAdmin(db.pins[p])
      BY <2>3 DEF Fresh, AdminInv, NewRowsOpen, IsAdmin
    <3> QED
      BY <2>2, <2>3, <3>1, BeginPinKeeps DEF BeginPin
  <2>4. CASE There(p) /\ BeginPin(h, "script", p, NewRow(role, secret))
    <3>1. IsAdmin(NewRow(role, secret)) \/ NewRow(role, secret).role # "admin"
      BY <2>2 DEF IsAdmin
    <3> QED
      BY <2>2, <2>4, <3>1, BeginPinKeeps DEF BeginPin
  <2> QED
    BY <1>1, <2>3, <2>4
<1> QED
  BY <1>1 DEF CreateUser, RunScript

LEMMA SettingsRequestsKeep ==
  ASSUME AdminInv, NEW h \in Handlers, SeedSettings(h) \/ PatchSettings(h) \/ SubmitSettings(h)
  PROVE  AdminInv'
<1>0. db \in Database /\ db.conf \in Settings /\ page[h].layout \in Values \cup {None}
  BY DEF AdminInv, Types, Database
<1>1. ASSUME NEW op \in {"seed", "conf"}, NEW conf \in Settings,
             NEW meant \in SUBSET {"layout", "password"},
             Begin(h, op, None, [db EXCEPT !.conf = conf], meant),
             \A f \in Fields : db.conf[f] # conf[f] =>
               op = "conf" /\ (f \in meant \/ (f = "layout" /\ page[h].old))
      PROVE AdminInv'
  <2> DEFINE new == [db EXCEPT !.conf = conf]
  <2>1. new \in Database /\ new.pins = db.pins /\ new.conf = conf
    BY <1>0 DEF Database
  <2>2. Begin(h, op, None, new, meant)
    BY <1>1
  <2> HIDE DEF new
  <2>3. PinsShape(op, None, db, new, meant)
    BY <2>1 DEF PinsShape
  <2>4. KeepsAdmin(op, None, db, new)
    BY <2>1 DEF KeepsAdmin, HasAdmin
  <2>5. ConfShape(op, db, new, meant, page[h].old)
    BY <1>1, <2>1 DEF ConfShape
  <2>6. meant \in SUBSET {"layout", "password", "pin"}
    OBVIOUS
  <2> QED
    BY <1>0, <2>1, <2>2, <2>3, <2>4, <2>5, <2>6, BeginKeeps DEF Allowed, Ops
<1>2. CASE SeedSettings(h)
  <2> DEFINE conf == [db.conf EXCEPT !.there = TRUE]
  <2>1. conf \in Settings /\ \A f \in Fields : conf[f] = db.conf[f]
    BY <1>0 DEF Settings, Fields
  <2>2. [db EXCEPT !.conf.there = TRUE] = [db EXCEPT !.conf = conf]
    BY <1>0 DEF Database
  <2>3. Begin(h, "seed", None, [db EXCEPT !.conf = conf], {})
    BY <1>2, <2>2 DEF SeedSettings
  <2> HIDE DEF conf
  <2>4. {} \in SUBSET {"layout", "password"} /\ \A f \in Fields : ~(db.conf[f] # conf[f])
    BY <2>1
  <2> QED
    BY <1>1, <2>1, <2>3, <2>4
<1>3. CASE PatchSettings(h)
  <2> PICK f \in Fields, v \in Values : Begin(h, "conf", None, [db EXCEPT !.conf[f] = v], {f})
    BY <1>3 DEF PatchSettings
  <2> DEFINE conf == [db.conf EXCEPT ![f] = v]
  <2>1. conf \in Settings /\ \A g \in Fields : g # f => conf[g] = db.conf[g]
    BY <1>0 DEF Settings, Fields
  <2>2. [db EXCEPT !.conf[f] = v] = [db EXCEPT !.conf = conf]
    BY <1>0 DEF Database
  <2>3. Begin(h, "conf", None, [db EXCEPT !.conf = conf], {f})
    BY <2>2
  <2>4. {f} \in SUBSET {"layout", "password"}
    BY DEF Fields
  <2> QED
    BY <1>1, <2>1, <2>3, <2>4
<1>4. CASE SubmitSettings(h)
  <2> PICK layout \in Values \cup {None}, password \in Values \cup {None} :
        /\ page[h].layout # None
        /\ Begin(h, "conf", None,
                 [db EXCEPT !.conf.layout = IF layout # None THEN layout ELSE page[h].layout,
                            !.conf.password = IF password # None THEN password ELSE @],
                 (IF layout # None THEN {"layout"} ELSE {}) \cup
                 (IF password # None THEN {"password"} ELSE {}))
    BY <1>4 DEF SubmitSettings
  <2> DEFINE l == IF layout # None THEN layout ELSE page[h].layout
             w == IF password # None THEN password ELSE db.conf.password
             conf == [db.conf EXCEPT !.layout = l, !.password = w]
             meant == (IF layout # None THEN {"layout"} ELSE {}) \cup
                      (IF password # None THEN {"password"} ELSE {})
  <2>1. l \in Values /\ w \in Values
    BY <1>0 DEF Settings
  <2>2. conf \in Settings /\ conf.layout = l /\ conf.password = w
    BY <1>0, <2>1 DEF Settings
  <2>3. [db EXCEPT !.conf.layout = l, !.conf.password = IF password # None THEN password ELSE @]
          = [db EXCEPT !.conf = conf]
    BY <1>0 DEF Database, Settings
  <2>4. Begin(h, "conf", None, [db EXCEPT !.conf = conf], meant)
    BY <2>3
  <2>5. layout = None => page[h].old \/ page[h].layout = db.conf.layout
    BY DEF AdminInv, FreshPages
  <2>6. db.conf.layout # conf.layout => "layout" \in meant \/ page[h].old
    BY <2>2, <2>5
  <2>7. db.conf.password # conf.password => "password" \in meant
    BY <2>2
  <2>8. meant \in SUBSET {"layout", "password"}
    OBVIOUS
  <2> HIDE DEF conf, meant
  <2>9. \A f \in Fields : db.conf[f] # conf[f] =>
          f \in meant \/ (f = "layout" /\ page[h].old)
    BY <2>6, <2>7 DEF Fields
  <2> QED
    BY <1>1, <2>2, <2>4, <2>8, <2>9, SMTT(40)
<1> QED
  BY <1>2, <1>3, <1>4
-----------------------------------------------------------------------------
(* Requests that commit. *)

\* What a commit does to one row of admin_pins.
LEMMA CommittedPin ==
  ASSUME AdminInv, NEW h \in Handlers, Commit(h), NEW p \in Pins
  PROVE  LET got == txn[h].got.pins[p]
             new == txn[h].new.pins[p]
             now == db.pins[p]
             m == db'.pins[p] IN
         /\ {got, new, now, m} \subseteq PinRow
         /\ m.status = IF got.status # new.status THEN new.status ELSE now.status
         /\ m.role = IF got.role # new.role THEN new.role ELSE now.role
         /\ m.active = IF got.active # new.active THEN new.active ELSE now.active
         /\ m.failed = IF got.failed # new.failed THEN new.failed ELSE now.failed
         /\ m.lock = IF got.lock # new.lock THEN new.lock ELSE now.lock
<1> DEFINE got == txn[h].got.pins[p]
           new == txn[h].new.pins[p]
           now == db.pins[p]
<1>1. txn[h].op # "none"
  BY DEF Commit
<1>2. got \in PinRow /\ new \in PinRow /\ now \in PinRow
  BY <1>1, SMTT(40) DEF AdminInv, Types, Opened, Allowed, Database
<1> DEFINE m == db'.pins[p]
<1>3. m = Merged(got, new, now)
  BY DEF Commit
<1> HIDE DEF got, new, now, m
<1>4. /\ m \in PinRow
      /\ m.status = IF got.status # new.status THEN new.status ELSE now.status
      /\ m.role = IF got.role # new.role THEN new.role ELSE now.role
      /\ m.active = IF got.active # new.active THEN new.active ELSE now.active
      /\ m.failed = IF got.failed # new.failed THEN new.failed ELSE now.failed
      /\ m.lock = IF got.lock # new.lock THEN new.lock ELSE now.lock
  BY <1>2, <1>3, MergedPin, SMTT(40)
<1> QED
  BY <1>2, <1>4, SMTT(40) DEF got, new, now, m

\* A request that locks, unlocks or counts on a row has found it there, and takes only
\* what it changed of it.
LEMMA Written ==
  ASSUME AdminInv, NEW h \in Handlers, Commit(h), NEW p \in Pins
  PROVE  LET t == txn[h]
             got == t.got.pins[p]
             new == t.new.pins[p] IN
         \/ new = got /\ (t.of # p \/ t.op \in {"login", "update", "script", "create", "remove"})
         \/ /\ t.op = "login" /\ t.of = None /\ There(p) /\ new # got
            /\ got.status = "there" /\ got.lock # "on" /\ new = Failed(got)
         \/ t.of = p /\ t.op \in {"login", "update", "script"} /\ There(p)
         \/ t.of = p /\ t.op \in {"create", "remove"}
<1> DEFINE t == txn[h]
           got == t.got.pins[p]
           new == t.new.pins[p]
<1>1. t.op # "none" /\ Sound(t) /\ t \in Txn
  BY DEF Commit, AdminInv, Types
<1>2. PinsShape(t.op, t.of, t.got, t.new, t.meant)
  BY <1>1 DEF AdminInv, Opened, Allowed
<1>3. t.op \in {"login", "update", "remove", "create", "script", "seed", "conf"} /\ p # None
  BY <1>1, AdministrationAssumption DEF Txn, Ops
<1>4. t.op \in {"login", "update", "script"} /\ (got # new \/ p = t.of) => There(p)
  BY <1>1 DEF Sound, Touched
<1> QED
  BY <1>2, <1>3, <1>4, SMTT(40) DEF PinsShape

LEMMA CommitCounts ==
  ASSUME AdminInv, NEW h \in Handlers, Commit(h)
  PROVE  Counted'
<1> DEFINE t == txn[h]
<1>1. /\ t.op # "none" /\ t \in Txn /\ misses \in [Pins -> Nat]
      /\ raced' = (raced \/ t.over) /\ misses' = [p \in Pins |-> Missed(t, p)]
  BY DEF Commit, AdminInv, Types
<1>2. PinsShape(t.op, t.of, t.got, t.new, t.meant)
  BY <1>1 DEF AdminInv, Opened, Allowed
<1> SUFFICES ASSUME ~raced, ~t.over, NEW p \in Pins, db'.pins[p].status = "there"
             PROVE IF db'.pins[p].lock = "on"
                   THEN db'.pins[p].failed = 0 /\ misses'[p] >= Threshold
                   ELSE db'.pins[p].failed = misses'[p]
  BY <1>1 DEF Counted
<1> DEFINE got == t.got.pins[p]
           new == t.new.pins[p]
           now == db.pins[p]
           m == db'.pins[p]
<1>3. /\ {got, new, now, m} \subseteq PinRow
      /\ m.status = IF got.status # new.status THEN new.status ELSE now.status
      /\ m.failed = IF got.failed # new.failed THEN new.failed ELSE now.failed
      /\ m.lock = IF got.lock # new.lock THEN new.lock ELSE now.lock
  BY CommittedPin
<1>4. SamePin(got, now)
  BY <1>1 DEF AdminInv, Current
<1>5. now.status = "there" => IF now.lock = "on" THEN now.failed = 0 /\ misses[p] >= Threshold
                                                 ELSE now.failed = misses[p]
  BY DEF AdminInv, Counted
<1>6. misses'[p] = Missed(t, p) /\ misses[p] \in Nat
  BY <1>1
<1>7. got.failed \in 0 .. Threshold - 1 /\ Threshold \in Nat \ {0} /\ p # None
  BY <1>3, AdministrationAssumption DEF PinRow
<1>8. /\ got.status = now.status /\ got.failed = now.failed
      /\ got.lock = now.lock \/ (got.lock = "on" /\ now.lock = "past")
  BY <1>4 DEF SamePin
<1>9. t.op \in {"login", "update", "remove", "create", "script", "seed", "conf"}
  BY <1>1 DEF Txn, Ops
<1> HIDE DEF got, new, now, m, t
<1>10. CASE t.op = "login" /\ t.of = None /\ new = got
  <2>1. misses'[p] = misses[p]
    BY <1>6, <1>7, <1>10 DEF Missed, Touched, got, new
  <2> QED
    BY <1>3, <1>5, <1>10, <2>1 DEF m
<1>11. CASE t.op = "login" /\ t.of = None /\ new # got
  <2>1. got.status = "there" /\ got.lock # "on" /\ new = Failed(got)
    BY <1>2, <1>11 DEF PinsShape, got, new
  <2>2. misses'[p] = misses[p] + 1
    BY <1>6, <1>7, <1>11 DEF Missed, Touched, got, new
  <2>3. now.failed = misses[p] /\ now.lock = got.lock
    BY <1>5, <1>8, <2>1
  <2>4. CASE got.failed + 1 >= Threshold
    <3>1. new.failed = 0 /\ new.lock = "on"
      BY <1>3, <2>1, <2>4, RowCounts
    <3>2. m.lock = "on" /\ m.failed = 0
      BY <1>3, <1>8, <2>1, <3>1
    <3> QED
      BY <1>6, <1>7, <1>8, <2>2, <2>3, <2>4, <3>2 DEF m
  <2>5. CASE ~(got.failed + 1 >= Threshold)
    <3>1. new.failed = got.failed + 1 /\ new.lock = got.lock
      BY <1>3, <2>1, <2>5, RowCounts
    <3>2. m.lock # "on" /\ m.failed = got.failed + 1
      BY <1>3, <1>7, <2>1, <2>3, <3>1
    <3> QED
      BY <1>6, <1>8, <2>2, <2>3, <3>2 DEF m
  <2> QED BY <2>4, <2>5
<1>12. CASE t.of = p /\ (t.op \in {"login", "create", "script"} \/ (t.op = "update" /\ "pin" \in t.meant))
  <2>1. new.failed = 0 /\ new.lock = "no"
    BY <1>2, <1>3, <1>7, <1>12, RowCounts DEF PinsShape, got, new
  <2>2. new = Reset(new)
    BY <1>3, <2>1 DEF Reset, PinRow
  <2>3. misses'[p] = 0
    BY <1>6, <1>7, <1>12, <2>2 DEF Missed, new
  <2>4. m.failed = 0 /\ m.lock # "on"
    BY <1>3, <1>8, <2>1
  <2> QED
    BY <2>3, <2>4 DEF m
<1>13. CASE t.of = p /\ t.op = "update" /\ "pin" \notin t.meant
  <2>1. new.failed = got.failed /\ new.lock = got.lock /\ new.status = got.status
    BY <1>2, <1>13 DEF PinsShape, got, new
  <2>2. misses'[p] = misses[p]
    BY <1>6, <1>13 DEF Missed
  <2> QED
    BY <1>3, <1>5, <2>1, <2>2 DEF m
<1>14. CASE t.of = p /\ t.op = "remove"
  <2>1. new.status = "deleted"
    BY <1>2, <1>14 DEF PinsShape, new
  <2> QED
    BY <1>3, <1>8, <2>1 DEF m
<1>15. CASE t.of # p /\ ~(t.op = "login" /\ t.of = None)
  <2>1. new = got
    BY <1>2, <1>15 DEF PinsShape, got, new
  <2>2. misses'[p] = misses[p]
    BY <1>6, <1>15 DEF Missed
  <2> QED
    BY <1>3, <1>5, <2>1, <2>2 DEF m
<1>16. t.op \in {"seed", "conf"} => t.of = None
  BY <1>2 DEF PinsShape
<1> QED
  BY <1>7, <1>9, <1>10, <1>11, <1>12, <1>13, <1>14, <1>15, <1>16, SMTT(40)

LEMMA CommitLeavesAdmin ==
  ASSUME AdminInv, NEW h \in Handlers, Commit(h)
  PROVE  AdminLeft'
<1> DEFINE t == txn[h]
<1>1. /\ t.op # "none" /\ raced' = (raced \/ t.over)
      /\ lowered' = (lowered \/ (t.op = "script" /\ t.new.pins[t.of].role # "admin"))
  BY DEF Commit
<1>2. CASE raced \/ t.over \/ lowered
  BY <1>1, <1>2 DEF AdminLeft
<1>3. CASE ~raced /\ ~t.over /\ ~lowered
  <2>1. PICK p \in Pins : IsAdmin(db.pins[p])
    BY <1>3 DEF AdminInv, AdminLeft, ActiveAdmins
  <2>2. \A q \in Pins : SamePin(t.got.pins[q], db.pins[q])
    BY <1>1, <1>3 DEF AdminInv, Current
  <2>3. HasAdmin(t.got)
    BY <2>1, <2>2 DEF HasAdmin, IsAdmin, SamePin
  <2>4. KeepsAdmin(t.op, t.of, t.got, t.new)
    BY <1>1 DEF AdminInv, Opened, Allowed
  <2>5. CASE HasAdmin(t.new)
    <3>1. PICK q \in Pins : IsAdmin(t.new.pins[q])
      BY <2>5 DEF HasAdmin
    <3>2. /\ db'.pins[q].status = t.new.pins[q].status
          /\ db'.pins[q].role = t.new.pins[q].role
          /\ db'.pins[q].active = t.new.pins[q].active
      BY <2>2, CommittedPin DEF SamePin
    <3>3. IsAdmin(db'.pins[q])
      BY <3>1, <3>2 DEF IsAdmin
    <3> QED
      BY <3>3 DEF AdminLeft, ActiveAdmins
  <2>6. CASE ~HasAdmin(t.new)
    BY <1>1, <2>3, <2>4, <2>6 DEF KeepsAdmin, AdminLeft
  <2> QED BY <2>5, <2>6
<1> QED BY <1>2, <1>3, SMTT(40)
LEMMA CommitKeeps ==
  ASSUME AdminInv, NEW h \in Handlers, Commit(h)
  PROVE  AdminInv'
<1> DEFINE t == txn[h]
<1>0. t.op # "none" /\ t \in Txn /\ Sound(t)
  BY DEF Commit, AdminInv, Types
<1>1. Allowed(t.op, t.of, t.got, t.new, t.meant, page[h].old)
  BY <1>0, SMTT(40) DEF AdminInv, Opened
<1>2. /\ db' = [pins |-> [p \in Pins |-> Merged(t.got.pins[p], t.new.pins[p], db.pins[p])],
                conf |-> Merged(t.got.conf, t.new.conf, db.conf)]
      /\ txn' = [g \in Handlers |-> IF g = h THEN Idle
                   ELSE [txn[g] EXCEPT !.over = @ \/ (txn[g].op # "none" /\ db' # db)]]
      /\ page' = [g \in Handlers |->
                   [page[g] EXCEPT !.layout = IF t.op = "conf" /\ g = h THEN None ELSE @,
                                   !.old = @ \/ db'.conf # db.conf]]
      /\ misses' = [p \in Pins |-> Missed(t, p)]
      /\ raced' = (raced \/ t.over)
      /\ lowered' = (lowered \/ (t.op = "script" /\ t.new.pins[t.of].role # "admin"))
      /\ requests' = requests
  BY ZenonT(60) DEF Commit
<1>3. db' \in Database
  <2>1. db'.conf \in Settings
    BY <1>1, <1>2, MergedConf DEF Allowed, AdminInv, Types, Database
  <2>2. \A p \in Pins : db'.pins[p] \in PinRow
    BY CommittedPin
  <2> QED
    BY <1>2, <2>1, <2>2, ZenonT(60) DEF Database
<1>4. \A g \in Handlers :
        /\ txn'[g].op # "none" => /\ g # h /\ txn[g].op # "none"
                                  /\ txn'[g].op = txn[g].op /\ txn'[g].of = txn[g].of
                                  /\ txn'[g].got = txn[g].got /\ txn'[g].new = txn[g].new
                                  /\ txn'[g].meant = txn[g].meant
                                  /\ ~txn'[g].over => ~txn[g].over /\ db' = db
        /\ txn'[g] \in Txn
  <2> SUFFICES ASSUME NEW g \in Handlers
               PROVE  /\ txn'[g].op # "none" =>
                           /\ g # h /\ txn[g].op # "none"
                           /\ txn'[g].op = txn[g].op /\ txn'[g].of = txn[g].of
                           /\ txn'[g].got = txn[g].got /\ txn'[g].new = txn[g].new
                           /\ txn'[g].meant = txn[g].meant
                           /\ ~txn'[g].over => ~txn[g].over /\ db' = db
                      /\ txn'[g] \in Txn
    BY SMTT(40)
  <2>1. CASE g = h
    BY <1>2, <2>1 DEF Idle, Txn, Ops
  <2>2. CASE g # h
    <3> DEFINE o == txn[g].over \/ (txn[g].op # "none" /\ db' # db)
    <3>1. txn[g] \in Txn /\ o \in BOOLEAN
      BY DEF AdminInv, Types, Txn
    <3>2. txn'[g] = [txn[g] EXCEPT !.over = o]
      BY <1>2, <2>2
    <3> HIDE DEF o
    <3>3. /\ txn'[g].op = txn[g].op /\ txn'[g].of = txn[g].of
          /\ txn'[g].got = txn[g].got /\ txn'[g].new = txn[g].new
          /\ txn'[g].meant = txn[g].meant /\ txn'[g].over = o
          /\ txn'[g] \in Txn
      BY <3>1, <3>2 DEF Txn
    <3> QED
      BY <2>2, <3>3 DEF o
  <2> QED BY <2>1, <2>2
<1>5. \A g \in Handlers :
        /\ page'[g] \in [layout : Values \cup {None}, old : BOOLEAN]
        /\ page[g].old => page'[g].old
        /\ page'[g].layout # None => page'[g].layout = page[g].layout
        /\ ~page'[g].old => db'.conf = db.conf /\ ~page[g].old
  <2> SUFFICES ASSUME NEW g \in Handlers
               PROVE  /\ page'[g] \in [layout : Values \cup {None}, old : BOOLEAN]
                      /\ page[g].old => page'[g].old
                      /\ page'[g].layout # None => page'[g].layout = page[g].layout
                      /\ ~page'[g].old => db'.conf = db.conf /\ ~page[g].old
    OBVIOUS
  <2> DEFINE l == IF t.op = "conf" /\ g = h THEN None ELSE page[g].layout
             o == page[g].old \/ db'.conf # db.conf
  <2>1. page[g] \in [layout : Values \cup {None}, old : BOOLEAN]
    BY DEF AdminInv, Types
  <2>2. l \in Values \cup {None} /\ o \in BOOLEAN
    BY <2>1, SMTT(40)
  <2>3. page'[g] = [page[g] EXCEPT !.layout = l, !.old = o]
    BY <1>2
  <2> HIDE DEF l, o
  <2>4. page'[g] \in [layout : Values \cup {None}, old : BOOLEAN]
        /\ page'[g].layout = l /\ page'[g].old = o
    BY <2>1, <2>2, <2>3
  <2> QED
    BY <2>4 DEF l, o
<1>6. Types'
  <2>1. \A p \in Pins : Missed(t, p) \in Nat
    BY SMTT(40) DEF AdminInv, Types, Missed
  <2>2. raced' \in BOOLEAN /\ lowered' \in BOOLEAN
    BY <1>0, <1>2, ZenonT(60) DEF AdminInv, Types, Txn
  <2>3. misses' \in [Pins -> Nat]
    BY <1>2, <2>1, ZenonT(60)
  <2>4. txn' \in [Handlers -> Txn]
    BY <1>2, <1>4, ZenonT(60)
  <2>5. page' \in [Handlers -> [layout : Values \cup {None}, old : BOOLEAN]]
    BY <1>2, <1>5
  <2> QED
    BY <1>2, <1>3, <2>2, <2>3, <2>4, <2>5 DEF AdminInv, Types
<1>7. Opened'
  <2> SUFFICES ASSUME NEW g \in Handlers, txn'[g].op # "none"
               PROVE Allowed(txn'[g].op, txn'[g].of, txn'[g].got, txn'[g].new, txn'[g].meant, page'[g].old)
    BY DEF Opened
  <2>1. Allowed(txn[g].op, txn[g].of, txn[g].got, txn[g].new, txn[g].meant, page[g].old)
    BY <1>4 DEF AdminInv, Opened
  <2>2. Allowed(txn[g].op, txn[g].of, txn[g].got, txn[g].new, txn[g].meant, page'[g].old)
    BY <1>5, <2>1 DEF Allowed, ConfShape
  <2> QED
    BY <1>4, <2>2
<1>8. Current'
  BY <1>4 DEF AdminInv, Current
<1>9. FreshPages'
  BY <1>5 DEF AdminInv, FreshPages
<1>10. NewRowsOpen'
  <2> SUFFICES ASSUME NEW p \in Pins, db'.pins[p].status = "none"
               PROVE db'.pins[p].lock = "no"
    BY DEF NewRowsOpen
  <2> DEFINE got == t.got.pins[p]
             new == t.new.pins[p]
             now == db.pins[p]
  <2>1. /\ {got, new, now} \subseteq PinRow
        /\ db'.pins[p].status = IF got.status # new.status THEN new.status ELSE now.status
        /\ db'.pins[p].lock = IF got.lock # new.lock THEN new.lock ELSE now.lock
    BY CommittedPin
  <2>2. now.status = "none" => now.lock = "no"
    BY DEF AdminInv, NewRowsOpen
  <2>3. PinsShape(t.op, t.of, t.got, t.new, t.meant)
    BY <1>1 DEF Allowed
  <2>4. t.op \in {"login", "update", "remove", "create", "script", "seed", "conf"} /\ p # None
    BY <1>0, AdministrationAssumption DEF Txn, Ops
  <2>5. t.op \in {"login", "update", "script"} /\ (got # new \/ p = t.of) => now.status = "there"
    BY <1>0, SMTT(40) DEF Sound, Touched, There
  <2>6. \/ new = got
        \/ t.op = "login" /\ t.of = None /\ new # got /\ new.status = got.status
        \/ t.of = p
    <3>1. CASE t.op = "login" /\ t.of = None
      <4>1. new = got \/ new = Failed(got)
        BY <2>3, <3>1 DEF PinsShape
      <4>2. Failed(got).status = got.status
        BY <2>1, RowCounts
      <4> QED BY <3>1, <4>1, <4>2
    <3>2. CASE ~(t.op = "login" /\ t.of = None)
      <4>1. p # t.of => new = got
        BY <2>3, <3>2 DEF PinsShape
      <4> QED BY <4>1
    <3> QED BY <3>1, <3>2
  <2>7. t.of = p => \/ t.op = "login" /\ new.status = got.status
                    \/ t.op = "update" /\ new.status = got.status
                    \/ t.op = "remove" /\ new.status = "deleted" /\ new.lock = got.lock
                    \/ t.op \in {"create", "script"} /\ new.status = "there"
    <3>1. CASE t.of = p /\ t.op = "login"
      <4>1. new = Reset(got)
        BY <2>3, <2>4, <3>1 DEF PinsShape
      <4>2. Reset(got).status = got.status
        BY <2>1, RowCounts
      <4> QED BY <3>1, <4>1, <4>2
    <3>2. CASE t.of = p /\ t.op # "login"
      BY <2>3, <2>4, <3>2 DEF PinsShape
    <3> QED BY <3>1, <3>2
  <2> HIDE DEF got, new, now
  <2>8. now.status = "none"
    BY <2>1, <2>6, <2>7
  <2>9. got.lock = new.lock \/ (t.op = "create" /\ new.lock = "no")
    <3>1. t.of = p /\ t.op = "create" => new.lock = "no"
      BY <2>3 DEF PinsShape, new
    <3> QED
      BY <2>1, <2>5, <2>6, <2>7, <2>8, <3>1
  <2> QED
    BY <2>1, <2>2, <2>8, <2>9
<1> QED
  BY <1>6, <1>7, <1>8, <1>9, <1>10, CommitCounts, CommitLeavesAdmin DEF AdminInv
-----------------------------------------------------------------------------
(* The other steps. *)

LEMMA ShowKeeps ==
  ASSUME AdminInv, NEW h \in Handlers, ShowSettings(h)
  PROVE  AdminInv'
<1>1. /\ page' = [page EXCEPT ![h] = [layout |-> db.conf.layout, old |-> FALSE]]
      /\ txn[h].op = "none" /\ UNCHANGED <<db, txn, requests, misses, raced, lowered>>
  BY DEF ShowSettings
<1>2. page \in [Handlers -> [layout : Values \cup {None}, old : BOOLEAN]]
      /\ db.conf.layout \in Values
  BY DEF AdminInv, Types, Database, Settings
<1>3. page'[h] = [layout |-> db.conf.layout, old |-> FALSE]
      /\ \A g \in Handlers : g # h => page'[g] = page[g]
  BY <1>1, <1>2
<1>4. Types'
  BY <1>1, <1>2 DEF AdminInv, Types
<1>5. Opened'
  BY <1>1, <1>3 DEF AdminInv, Opened
<1>6. FreshPages'
  BY <1>1, <1>3 DEF AdminInv, FreshPages
<1>7. Current' /\ Counted' /\ NewRowsOpen' /\ AdminLeft'
  BY <1>1 DEF AdminInv, Current, Counted, NewRowsOpen, AdminLeft, ActiveAdmins
<1> QED
  BY <1>4, <1>5, <1>6, <1>7 DEF AdminInv

LEMMA FailKeeps ==
  ASSUME AdminInv, NEW h \in Handlers, Fail(h)
  PROVE  AdminInv'
<1>1. txn' = [txn EXCEPT ![h] = Idle] /\ UNCHANGED <<db, page, requests, misses, raced, lowered>>
  BY DEF Fail
<1>2. Idle \in Txn /\ Idle.op = "none" /\ txn \in [Handlers -> Txn]
  BY DEF Idle, Txn, Ops, AdminInv, Types
<1>3. txn'[h] = Idle /\ \A g \in Handlers : g # h => txn'[g] = txn[g]
  BY <1>1, <1>2
<1>4. Types'
  BY <1>1, <1>2 DEF AdminInv, Types
<1>5. Opened'
  BY <1>1, <1>2, <1>3 DEF AdminInv, Opened
<1>6. Current'
  BY <1>1, <1>2, <1>3 DEF AdminInv, Current
<1>7. FreshPages' /\ Counted' /\ NewRowsOpen' /\ AdminLeft'
  BY <1>1 DEF AdminInv, FreshPages, Counted, NewRowsOpen, AdminLeft, ActiveAdmins
<1> QED
  BY <1>4, <1>5, <1>6, <1>7 DEF AdminInv

LEMMA LockExpiresKeeps ==
  ASSUME AdminInv, NEW p \in Pins, LockExpires(p)
  PROVE  AdminInv'
<1> DEFINE row == [db.pins[p] EXCEPT !.lock = "past"]
<1>1. /\ db.pins[p].lock = "on" /\ db' = [db EXCEPT !.pins[p].lock = "past"]
      /\ misses' = [misses EXCEPT ![p] = 0]
      /\ UNCHANGED <<page, txn, requests, raced, lowered>>
  BY DEF LockExpires
<1>2. db \in Database /\ db.pins[p] \in PinRow /\ misses \in [Pins -> Nat]
  BY DEF AdminInv, Types, Database
<1>3. /\ row \in PinRow /\ row.status = db.pins[p].status /\ row.role = db.pins[p].role
      /\ row.active = db.pins[p].active /\ row.failed = db.pins[p].failed /\ row.lock = "past"
  BY <1>2 DEF PinRow
<1>4. /\ db' \in Database /\ db'.conf = db.conf /\ db'.pins[p] = row
      /\ \A q \in Pins : q # p => db'.pins[q] = db.pins[q]
  BY <1>1, <1>2, <1>3 DEF Database
<1>5. misses'[p] = 0 /\ misses' \in [Pins -> Nat] /\ \A q \in Pins : q # p => misses'[q] = misses[q]
  BY <1>1, <1>2
<1> HIDE DEF row
<1>6. Types'
  BY <1>1, <1>4, <1>5 DEF AdminInv, Types
<1>7. Opened' /\ FreshPages'
  BY <1>1, <1>4 DEF AdminInv, Opened, FreshPages
<1>8. Current'
  <2> SUFFICES ASSUME NEW h \in Handlers, txn[h].op # "none", ~txn[h].over, NEW q \in Pins
               PROVE SamePin(txn[h].got.pins[q], db'.pins[q])
    BY <1>1 DEF Current
  <2>1. SamePin(txn[h].got.pins[q], db.pins[q])
    BY DEF AdminInv, Current
  <2> QED
    BY <1>1, <1>3, <1>4, <2>1 DEF SamePin
<1>9. Counted'
  <2>1. ~raced => \A q \in Pins : db.pins[q].status = "there" =>
          IF db.pins[q].lock = "on" THEN db.pins[q].failed = 0 /\ misses[q] >= Threshold
                                    ELSE db.pins[q].failed = misses[q]
    BY DEF AdminInv, Counted
  <2> QED
    BY <1>1, <1>3, <1>4, <1>5, <2>1 DEF Counted
<1>10. NewRowsOpen'
  BY <1>1, <1>3, <1>4 DEF AdminInv, NewRowsOpen
<1>11. AdminLeft'
  BY <1>1, <1>3, <1>4 DEF AdminInv, AdminLeft, ActiveAdmins, IsAdmin
<1> QED
  BY <1>6, <1>7, <1>8, <1>9, <1>10, <1>11 DEF AdminInv

LEMMA InitKeeps == ASSUME Init PROVE AdminInv
<1>1. /\ db.pins \in FirstPins /\ db.conf = NoConf /\ db = [pins |-> db.pins, conf |-> db.conf]
      /\ page = [h \in Handlers |-> NoPage] /\ txn = [h \in Handlers |-> Idle]
      /\ requests = 0 /\ misses = [p \in Pins |-> db.pins[p].failed]
      /\ raced = FALSE /\ lowered = FALSE
  BY DEF Init
<1>2. NoConf \in Settings
  BY AdministrationAssumption DEF NoConf, Settings
<1>3. /\ db.pins \in [Pins -> PinRow] /\ \E p \in Pins : IsAdmin(db.pins[p])
      /\ \A p \in Pins : /\ db.pins[p].lock # "on"
                         /\ db.pins[p].status = "none" => db.pins[p].lock = "no"
  BY <1>1, AdministrationAssumption
<1>4. db \in Database
  BY <1>1, <1>2, <1>3 DEF Database
<1>5. misses \in [Pins -> Nat]
  BY <1>1, <1>3, AdministrationAssumption DEF PinRow
<1>6. Types
  <2>1. Idle \in Txn
    BY DEF Idle, Txn, Ops
  <2>2. NoPage \in [layout : Values \cup {None}, old : BOOLEAN]
    BY DEF NoPage
  <2>3. requests \in 0 .. MaxRequests
    BY <1>1, AdministrationAssumption
  <2> QED
    BY <1>1, <1>4, <1>5, <2>1, <2>2, <2>3 DEF Types
<1>7. Opened /\ Current
  BY <1>1 DEF Opened, Current, Idle
<1>8. FreshPages
  BY <1>1 DEF FreshPages, NoPage
<1>9. Counted
  BY <1>1, <1>3 DEF Counted
<1>10. NewRowsOpen /\ AdminLeft
  BY <1>3 DEF NewRowsOpen, AdminLeft, ActiveAdmins
<1> QED
  BY <1>6, <1>7, <1>8, <1>9, <1>10 DEF AdminInv

LEMMA StepKeeps == ASSUME AdminInv, [Next]_vars PROVE AdminInv'
<1>1. CASE UNCHANGED vars
  BY <1>1 DEF vars, AdminInv, Types, Opened, Current, FreshPages, Counted, NewRowsOpen,
              AdminLeft, ActiveAdmins
<1>2. CASE Next
  <2>1. ASSUME NEW h \in Handlers,
               \/ Login(h) \/ UpdateUser(h) \/ UpdatePin(h) \/ ToggleActive(h) \/ DeleteUser(h)
               \/ CreateUser(h) \/ RunScript(h)
               \/ SeedSettings(h) \/ PatchSettings(h) \/ ShowSettings(h) \/ SubmitSettings(h)
               \/ Commit(h) \/ Fail(h)
        PROVE AdminInv'
    BY <2>1, LoginKeeps, UserRequestsKeep, NewRowsKeep, SettingsRequestsKeep, ShowKeeps,
       CommitKeeps, FailKeeps
  <2>2. ASSUME NEW p \in Pins, LockExpires(p) PROVE AdminInv'
    BY <2>2, LockExpiresKeeps
  <2> QED
    BY <1>2, <2>1, <2>2 DEF Next
<1> QED
  BY <1>1, <1>2

-----------------------------------------------------------------------------
(* Theorems. *)

(* Every open request writes what its kind may write, and what it loaded is current
   until another one commits; with the counts of failures and the active admin, this
   is kept by every step. *)
THEOREM AdminInvariant == Spec => []AdminInv
  BY InitKeeps, StepKeeps, PTL DEF Spec

(* The tables, the open requests and the history have their types. *)
THEOREM TypeCorrect == Spec => []TypeOK
<1>1. AdminInv => TypeOK
  BY DEF AdminInv, Types, TypeOK, Txn, Opened, Allowed
<1> QED
  BY <1>1, AdminInvariant, PTL

(* Whatever the admins do to each other one after the other, an active admin is left
   (the refusals of users.py and of the users page). *)
THEOREM AdminLeftHolds == Spec => []AdminLeft
<1>1. AdminInv => AdminLeft
  BY DEF AdminInv
<1> QED
  BY <1>1, AdminInvariant, PTL

(* A PIN is locked exactly from its Threshold-th failure on, for every threshold
   (attempt_login), unless concurrent logins lost counts. *)
THEOREM LocksAtThresholdHolds == Spec => []LocksAtThreshold
<1>1. ASSUME AdminInv PROVE LocksAtThreshold
  <2> SUFFICES ASSUME ~raced, NEW p \in Pins, There(p)
               PROVE db.pins[p].lock = "on" <=> misses[p] >= Threshold
    BY DEF LocksAtThreshold
  <2>1. db.pins[p].failed \in 0 .. Threshold - 1 /\ Threshold \in Nat
    BY <1>1, AdministrationAssumption DEF AdminInv, Types, Database, PinRow
  <2>2. IF db.pins[p].lock = "on" THEN misses[p] >= Threshold ELSE db.pins[p].failed = misses[p]
    BY <1>1 DEF AdminInv, Counted, There
  <2> QED
    BY <2>1, <2>2
<1> QED
  BY <1>1, AdminInvariant, PTL

\* Only a commit or the clock changes a row or a setting.
LEMMA OnlyCommitsWrite ==
  ASSUME [Next]_vars, db' # db
  PROVE  (\E h \in Handlers : Commit(h)) \/ (\E p \in Pins : LockExpires(p))
<1>1. ASSUME NEW h \in Handlers,
             \/ Login(h) \/ UpdateUser(h) \/ UpdatePin(h) \/ ToggleActive(h) \/ DeleteUser(h)
             \/ CreateUser(h) \/ RunScript(h)
      PROVE  db' = db
  <2>1. ASSUME Login(h) PROVE db' = db
    BY <2>1 DEF Login, BeginPin, Begin
  <2>2. ASSUME UpdateUser(h) \/ UpdatePin(h) PROVE db' = db
    BY <2>2 DEF UpdateUser, UpdatePin, BeginPin, Begin
  <2>3. ASSUME ToggleActive(h) \/ DeleteUser(h) PROVE db' = db
    BY <2>3 DEF ToggleActive, DeleteUser, BeginPin, Begin
  <2>4. ASSUME CreateUser(h) \/ RunScript(h) PROVE db' = db
    BY <2>4 DEF CreateUser, RunScript, BeginPin, Begin
  <2> QED BY <1>1, <2>1, <2>2, <2>3, <2>4
<1>2. ASSUME NEW h \in Handlers,
             SeedSettings(h) \/ PatchSettings(h) \/ ShowSettings(h) \/ SubmitSettings(h) \/ Fail(h)
      PROVE  db' = db
  <2>1. ASSUME SeedSettings(h) \/ PatchSettings(h) \/ SubmitSettings(h) PROVE db' = db
    BY <2>1 DEF SeedSettings, PatchSettings, SubmitSettings, Begin
  <2> QED BY <1>2, <2>1 DEF ShowSettings, Fail
<1> QED
  BY <1>1, <1>2 DEF Next, vars

(* A failed login, or anything else that is committed over a lock, leaves it in place:
   who lifts it has set a new PIN or was let in before (attempt_login). *)
THEOREM LocksStickHolds == Spec => LocksStick
<1> DEFINE A == \A p \in Pins : db.pins[p].lock = "on" /\ db'.pins[p].lock = "no" =>
       \E h \in Handlers : LET t == txn[h] IN
         /\ t.of = p /\ txn'[h] = Idle
         /\ \/ t.op = "script" \/ "pin" \in t.meant
            \/ t.op = "login" /\ t.got.pins[p].lock = "past"
<1>1. ASSUME AdminInv, [Next]_vars PROVE A
  <2> SUFFICES ASSUME NEW p \in Pins, db.pins[p].lock = "on", db'.pins[p].lock = "no"
               PROVE \E h \in Handlers : LET t == txn[h] IN
                       /\ t.of = p /\ txn'[h] = Idle
                       /\ \/ t.op = "script" \/ "pin" \in t.meant
                          \/ t.op = "login" /\ t.got.pins[p].lock = "past"
    OBVIOUS
  <2>1. ~\E q \in Pins : LockExpires(q)
    <3> SUFFICES ASSUME NEW q \in Pins, LockExpires(q) PROVE FALSE
      OBVIOUS
    <3>1. db \in Database /\ db.pins[p] \in PinRow
      BY <1>1 DEF AdminInv, Types, Database
    <3> QED
      BY <3>1 DEF LockExpires, Database, PinRow
  <2>2. PICK h \in Handlers : Commit(h)
    BY <1>1, <2>1, OnlyCommitsWrite, SMTT(40)
  <2> DEFINE t == txn[h]
             got == t.got.pins[p]
             new == t.new.pins[p]
  <2>3. t.op # "none" /\ t \in Txn /\ txn'[h] = Idle
    BY <1>1, <2>2 DEF Commit, AdminInv, Types
  <2>4. {got, new} \subseteq PinRow /\ got.lock # new.lock /\ new.lock = "no"
    BY <1>1, <2>2, CommittedPin
  <2>5. PinsShape(t.op, t.of, t.got, t.new, t.meant)
    BY <1>1, <2>3 DEF AdminInv, Opened, Allowed
  <2>6. t.op \in {"login", "update", "remove", "create", "script", "seed", "conf"} /\ p # None
    BY <2>3, AdministrationAssumption, SMTT(40) DEF Txn, Ops
  <2>7. ~(t.op = "login" /\ t.of = None)
    <3> SUFFICES ASSUME t.op = "login", t.of = None PROVE FALSE
      OBVIOUS
    <3>1. new = got \/ new = Failed(got)
      BY <2>5 DEF PinsShape
    <3>2. Failed(got).lock \in {"on", got.lock}
      BY <2>4, RowCounts
    <3> QED BY <2>4, <3>1, <3>2
  <2>8. t.of = p
    BY <2>4, <2>5, <2>7 DEF PinsShape
  <2>9. t.op = "login" => got.lock = "past"
    BY <2>4, <2>5, <2>6, <2>8 DEF PinsShape, PinRow
  <2>10. t.op = "update" => "pin" \in t.meant
    BY <2>4, <2>5, <2>8 DEF PinsShape
  <2>11. t.op \notin {"remove", "create", "seed", "conf"}
    BY <2>4, <2>5, <2>6, <2>8 DEF PinsShape
  <2> QED
    BY <2>3, <2>6, <2>8, <2>9, <2>10, <2>11
<1> QED
  BY <1>1, AdminInvariant, PTL DEF Spec, LocksStick

(* Every change of a setting was meant by who sent it, or was sent by a form opened
   before the change it takes back (settings_save). *)
THEOREM SettingsTakenBackOnlyByOldFormHolds == Spec => SettingsTakenBackOnlyByOldForm
<1> DEFINE A == \A f \in Fields : db.conf.there /\ db'.conf[f] # db.conf[f] =>
       \E h \in Handlers : /\ txn[h].op = "conf" /\ txn'[h] = Idle
                           /\ f \in txn[h].meant \/ (f = "layout" /\ page[h].old)
<1>1. ASSUME AdminInv, [Next]_vars PROVE A
  <2> SUFFICES ASSUME NEW f \in Fields, db'.conf[f] # db.conf[f]
               PROVE \E h \in Handlers : /\ txn[h].op = "conf" /\ txn'[h] = Idle
                                         /\ f \in txn[h].meant \/ (f = "layout" /\ page[h].old)
    OBVIOUS
  <2>1. ~\E q \in Pins : LockExpires(q)
    BY <1>1 DEF LockExpires, AdminInv, Types, Database
  <2>2. PICK h \in Handlers : Commit(h)
    BY <1>1, <2>1, OnlyCommitsWrite, SMTT(40)
  <2>3. txn[h].op # "none" /\ txn'[h] = Idle
    BY <2>2 DEF Commit
  <2>4. Allowed(txn[h].op, txn[h].of, txn[h].got, txn[h].new, txn[h].meant, page[h].old)
    BY <1>1, <2>3, SMTT(40) DEF AdminInv, Opened
  <2>5. db'.conf = Merged(txn[h].got.conf, txn[h].new.conf, db.conf)
    BY <2>2 DEF Commit
  <2>6. txn[h].got.conf[f] # txn[h].new.conf[f]
    <3> DEFINE got == txn[h].got.conf
               new == txn[h].new.conf
    <3>1. got \in Settings /\ new \in Settings /\ db.conf \in Settings
      BY <1>1, <2>4 DEF Allowed, Database, AdminInv, Types
    <3> HIDE DEF got, new
    <3>2. Merged(got, new, db.conf)[f] = IF got[f] # new[f] THEN new[f] ELSE db.conf[f]
      BY <3>1, MergedConf
    <3> QED
      BY <2>5, <3>2 DEF got, new
  <2> QED
    BY <2>3, <2>4, <2>6 DEF Allowed, ConfShape
<1> QED
  BY <1>1, AdminInvariant, PTL DEF Spec, SettingsTakenBackOnlyByOldForm
=============================================================================
