--------------------------- MODULE Administration ---------------------------
(***************************************************************************)
(* Users, PIN login and settings (routers/users.py, routers/config.py,     *)
(* services/auth_service.py, services/app_settings.py, deps.py, the users  *)
(* and settings pages of routers/admin_ui.py, scripts/create_admin_pin.py).*)
(*                                                                         *)
(* A request loads rows, decides on them, and commits the columns whose    *)
(* values it changed; another request may commit in between.               *)
(***************************************************************************)
EXTENDS Naturals, FiniteSets

CONSTANTS
  Pins,        \* ids of admin_pins
  Secrets,     \* PINs that are set or typed
  Threshold,   \* pin_lockout_threshold
  Values,      \* values of a setting
  Handlers,    \* requests that may be open at the same time
  MaxRequests, \* bound: requests in a behaviour
  FirstPins,   \* the tables admin_pins may start from
  None

PinRow == [status : {"none", "there", "deleted"}, role : {"admin", "reception"},
           active : BOOLEAN, secret : Secrets, failed : 0 .. Threshold - 1,
           lock : {"no", "on", "past"}]
IsAdmin(row) == row.status = "there" /\ row.active /\ row.role = "admin"

\* There is an active admin at the start: the script made one.  A row that is not there
\* yet is as new.
ASSUME AdministrationAssumption ==
  /\ Threshold \in Nat \ {0} /\ MaxRequests \in Nat /\ IsFiniteSet(Pins)
  /\ None \notin Pins \cup Values /\ Values # {}
  /\ FirstPins \subseteq [Pins -> PinRow]
  /\ \A pins \in FirstPins :
       /\ \E p \in Pins : IsAdmin(pins[p])
       /\ \A p \in Pins : /\ pins[p].lock # "on"
                          /\ pins[p].status = "none" => pins[p].lock = "no"

VARIABLES
  db,       \* the tables admin_pins and app_settings
  page,     \* the settings form open in the browser behind each handler
  txn,      \* the open request of each handler
  requests, \* requests made so far
  misses,   \* history: failed logins a PIN took since its last reset or expired lock
  raced,    \* history: a request committed over another one's commit
  lowered   \* history: the script took the admin role from a PIN

vars == <<db, page, txn, requests, misses, raced, lowered>>

\* The one row of app_settings: what the form carries, and what it leaves out if blank.
Settings == [there : BOOLEAN, layout : Values, password : Values]
Fields == {"layout", "password"}
Database == [pins : [Pins -> PinRow], conf : Settings]

NoConf == [there |-> FALSE, layout |-> CHOOSE v \in Values : TRUE,
           password |-> CHOOSE v \in Values : TRUE]
NoPage == [layout |-> None, old |-> FALSE]
Idle == [op |-> "none", of |-> None, got |-> None, new |-> None, meant |-> {}, over |-> FALSE]
Ops == {"none", "login", "update", "remove", "create", "script", "seed", "conf"}

Init ==
  /\ db \in [pins : FirstPins, conf : {NoConf}]
  /\ page = [h \in Handlers |-> NoPage]
  /\ txn = [h \in Handlers |-> Idle]
  /\ requests = 0 /\ misses = [p \in Pins |-> db.pins[p].failed] /\ raced = FALSE /\ lowered = FALSE

There(p) == db.pins[p].status = "there"
ActiveAdmins == {p \in Pins : IsAdmin(db.pins[p])}
\* require_admin_role: some active admin sends the request.
Admin == ActiveAdmins # {}
\* _count_other_active_admins
OtherActiveAdmins(p) == Cardinality(ActiveAdmins \ {p})

Begin(h, op, p, new, meant) ==
  /\ txn[h].op = "none" /\ requests < MaxRequests
  /\ txn' = [txn EXCEPT ![h] = [op |-> op, of |-> p, got |-> db, new |-> new,
                                meant |-> meant, over |-> FALSE]]
  /\ requests' = requests + 1
  /\ UNCHANGED <<db, page, misses, raced, lowered>>
BeginPin(h, op, p, row) == Begin(h, op, p, [db EXCEPT !.pins[p] = row], {})

\* attempt_login: any unlocked active PIN that matches is reset; if none does, every
\* unlocked active PIN takes a failure, and the last one it can take locks it.
Candidates == {p \in Pins : There(p) /\ db.pins[p].active /\ db.pins[p].lock # "on"}
\* Mutants: the failures are not reset by the lock they cause; the lock comes one early.
FailedGrows(row) ==
  [row EXCEPT !.failed = @ + 1, !.lock = IF row.failed + 1 >= Threshold THEN "on" ELSE @]
FailedEarly(row) ==
  IF row.failed + 2 >= Threshold THEN [row EXCEPT !.failed = 0, !.lock = "on"]
                                 ELSE [row EXCEPT !.failed = @ + 1]
Failed(row) ==
  IF row.failed + 1 >= Threshold THEN [row EXCEPT !.failed = 0, !.lock = "on"]
                                 ELSE [row EXCEPT !.failed = @ + 1]
Reset(row) == [row EXCEPT !.failed = 0, !.lock = "no"]
Matching(secret) == {p \in Candidates : db.pins[p].secret = secret}
Login(h) == \E secret \in Secrets :
  \/ \E p \in Matching(secret) : BeginPin(h, "login", p, Reset(db.pins[p]))
  \/ /\ Matching(secret) = {}
     /\ Begin(h, "login", None, [db EXCEPT !.pins =
              [p \in Pins |-> IF p \in Candidates THEN Failed(@[p]) ELSE @[p]]], {})

(* PATCH of role, is_active or PIN; the toggle button is a PATCH of is_active. *)
\* Mutant: only demotion is guarded.
MayUpdateInactive(p, row) ==
  OtherActiveAdmins(p) > 0 \/ ~(db.pins[p].role = "admin" /\ row.role # "admin")
MayUpdate(p, row) ==
  \/ OtherActiveAdmins(p) > 0
  \/ /\ ~(db.pins[p].role = "admin" /\ row.role # "admin")
     /\ ~(db.pins[p].active /\ ~row.active)
\* toggle_user_active_action looks at the role first.
MayToggle(p) ==
  OtherActiveAdmins(p) > 0 \/ ~(db.pins[p].role = "admin" /\ db.pins[p].active)
UpdateUser(h) == \E p \in Pins, role \in {"admin", "reception"}, active \in BOOLEAN :
  LET row == [db.pins[p] EXCEPT !.role = role, !.active = active] IN
  Admin /\ There(p) /\ MayUpdate(p, row) /\ BeginPin(h, "update", p, row)
UpdatePin(h) == \E p \in Pins, secret \in Secrets :
  /\ Admin /\ There(p)
  /\ Begin(h, "update", p, [db EXCEPT !.pins[p] = [Reset(@) EXCEPT !.secret = secret]], {"pin"})
ToggleActive(h) == \E p \in Pins :
  /\ Admin /\ There(p) /\ MayToggle(p)
  /\ BeginPin(h, "update", p, [db.pins[p] EXCEPT !.active = ~@])
MayDelete(p) == db.pins[p].role # "admin" \/ OtherActiveAdmins(p) > 0
DeleteUser(h) == \E p \in Pins :
  /\ Admin /\ There(p) /\ MayDelete(p)
  /\ BeginPin(h, "remove", p, [db.pins[p] EXCEPT !.status = "deleted"])

NewRow(role, secret) == [status |-> "there", role |-> role, active |-> TRUE,
                         secret |-> secret, failed |-> 0, lock |-> "no"]
Fresh(p) == db.pins[p].status = "none" /\ \A h \in Handlers : txn[h].of # p
CreateUser(h) == \E p \in Pins, role \in {"admin", "reception"}, secret \in Secrets :
  Admin /\ Fresh(p) /\ BeginPin(h, "create", p, NewRow(role, secret))
\* create_admin_pin.py, on the shell of the server: needs no login.
RunScript(h) == \E p \in Pins, role \in {"admin", "reception"}, secret \in Secrets :
  \/ Fresh(p) /\ BeginPin(h, "create", p, NewRow(role, secret))
  \/ There(p) /\ BeginPin(h, "script", p, NewRow(role, secret))

\* get_or_create_settings, which every use of the settings begins with; what follows
\* the insert in the same request is a request of its own here.
SeedSettings(h) ==
  ~db.conf.there /\ Begin(h, "seed", None, [db EXCEPT !.conf.there = TRUE], {})
PatchSettings(h) == \E f \in Fields, v \in Values :
  /\ Admin /\ db.conf.there
  /\ Begin(h, "conf", None, [db EXCEPT !.conf[f] = v], {f})
ShowSettings(h) ==
  /\ Admin /\ db.conf.there /\ txn[h].op = "none"
  /\ page' = [page EXCEPT ![h] = [layout |-> db.conf.layout, old |-> FALSE]]
  /\ page' # page
  /\ UNCHANGED <<db, txn, requests, misses, raced, lowered>>
(* The form sends every field but a blank password, edited or not. *)
SubmitSettings(h) == \E layout, password \in Values \cup {None} :
  /\ Admin /\ page[h].layout # None
  /\ Begin(h, "conf", None,
           [db EXCEPT !.conf.layout = IF layout # None THEN layout ELSE page[h].layout,
                      !.conf.password = IF password # None THEN password ELSE @],
           (IF layout # None THEN {"layout"} ELSE {}) \cup
           (IF password # None THEN {"password"} ELSE {}))

\* The columns of a row that the session changed, over those of the row as it is.
\* Mutant: the whole row is written, as loaded.
MergedRow(got, new, now) == IF got = new THEN now ELSE new
Merged(got, new, now) == [c \in DOMAIN now |-> IF got[c] # new[c] THEN new[c] ELSE now[c]]
Touched(t) == {p \in Pins : t.got.pins[p] # t.new.pins[p] \/ p = t.of}
\* A second INSERT of the settings row and an UPDATE of a deleted PIN raise.
Sound(t) ==
  /\ t.op = "seed" => ~db.conf.there
  /\ t.op \in {"login", "update", "script"} => \A p \in Touched(t) : There(p)
\* What the history counts: a failed login is one miss more, and a matching login, a
\* new PIN or a new row none.
Missed(t, p) ==
  CASE t.op = "login" /\ t.of = None /\ p \in Touched(t) -> misses[p] + 1
    [] p = t.of /\ t.new.pins[p] = Reset(t.new.pins[p])
         /\ (t.op = "update" => "pin" \in t.meant) -> 0
    [] OTHER -> misses[p]

Commit(h) == LET t == txn[h] IN
  /\ t.op # "none" /\ Sound(t)
  /\ db' = [pins |-> [p \in Pins |-> Merged(t.got.pins[p], t.new.pins[p], db.pins[p])],
            conf |-> Merged(t.got.conf, t.new.conf, db.conf)]
  /\ txn' = [g \in Handlers |-> IF g = h THEN Idle
                                ELSE [txn[g] EXCEPT !.over = @ \/ (txn[g].op # "none" /\ db' # db)]]
  /\ page' = [g \in Handlers |-> [page[g] EXCEPT !.layout = IF t.op = "conf" /\ g = h THEN None ELSE @,
                                                 !.old = @ \/ db'.conf # db.conf]]
  /\ misses' = [p \in Pins |-> Missed(t, p)]
  /\ raced' = (raced \/ t.over)
  /\ lowered' = (lowered \/ (t.op = "script" /\ t.new.pins[t.of].role # "admin"))
  /\ UNCHANGED requests
Fail(h) ==
  /\ txn[h].op # "none" /\ ~Sound(txn[h])
  /\ txn' = [txn EXCEPT ![h] = Idle]
  /\ UNCHANGED <<db, page, requests, misses, raced, lowered>>

\* locked_until passes.
LockExpires(p) ==
  /\ db.pins[p].lock = "on" /\ db' = [db EXCEPT !.pins[p].lock = "past"]
  /\ misses' = [misses EXCEPT ![p] = 0]
  /\ UNCHANGED <<page, txn, requests, raced, lowered>>

Next ==
  \/ \E h \in Handlers :
       \/ Login(h) \/ UpdateUser(h) \/ UpdatePin(h) \/ ToggleActive(h) \/ DeleteUser(h)
       \/ CreateUser(h) \/ RunScript(h)
       \/ SeedSettings(h) \/ PatchSettings(h) \/ ShowSettings(h) \/ SubmitSettings(h)
       \/ Commit(h) \/ Fail(h)
  \/ \E p \in Pins : LockExpires(p)

Spec == Init /\ [][Next]_vars

-----------------------------------------------------------------------------
(* Types of the tables, the open requests and the history. *)
TypeOK ==
  /\ db \in Database
  /\ \A h \in Handlers :
       /\ page[h].layout \in Values \cup {None} /\ page[h].old \in BOOLEAN
       /\ txn[h].op \in Ops /\ txn[h].of \in Pins \cup {None} /\ txn[h].over \in BOOLEAN
       /\ txn[h].op # "none" => {txn[h].got, txn[h].new} \subseteq Database
  /\ requests \in 0 .. MaxRequests /\ misses \in [Pins -> Nat] /\ raced \in BOOLEAN /\ lowered \in BOOLEAN

(* There is always an active admin, as users.py and the users page promise, unless a
   request committed over another (two admins who remove each other) or the script
   was run for the last one with the role reception, which it does not refuse. *)
AdminLeft == raced \/ lowered \/ ActiveAdmins # {}

(* A PIN is locked exactly from its Threshold-th failed login since the last reset
   until the lock expires, unless concurrent logins lost counts. *)
LocksAtThreshold ==
  raced \/ \A p \in Pins : There(p) => (db.pins[p].lock = "on" <=> misses[p] >= Threshold)

(* Whatever is committed over whatever, a lock ends early only by a new PIN, the
   script, the row's deletion, or a login with the right PIN that was let in before
   the lock; a failed login never ends it (attempt_login writes changed columns). *)
LocksStick ==
  [][\A p \in Pins : db.pins[p].lock = "on" /\ db'.pins[p].lock = "no" =>
       \E h \in Handlers : LET t == txn[h] IN
         /\ t.of = p /\ txn'[h] = Idle
         /\ \/ t.op = "script" \/ "pin" \in t.meant
            \/ t.op = "login" /\ t.got.pins[p].lock = "past"]_vars

(* A setting changes only when somebody changes it, or when a form is sent that was
   opened before the change it takes back; the password, which the form does not
   carry, is never taken back. *)
SettingsTakenBackOnlyByOldForm ==
  [][\A f \in Fields : db.conf.there /\ db'.conf[f] # db.conf[f] =>
       \E h \in Handlers : /\ txn[h].op = "conf" /\ txn'[h] = Idle
                           /\ f \in txn[h].meant \/ (f = "layout" /\ page[h].old)]_vars
=============================================================================
