----------------------------- MODULE FrontDesk -----------------------------
(***************************************************************************)
(* Reservations, their rooms and the walk-in numbers                       *)
(* (routers/reservations.py, routers/rooms.py, services/room_assignment.py *)
(* and the same operations in routers/admin_ui.py).                        *)
(*                                                                         *)
(* Every request is a session of PostgreSQL at READ COMMITTED: it loads a  *)
(* reservation, may look for free rooms with further statements, and then  *)
(* commits the columns it changed.  A room is wanted by a unit: unit 0 is  *)
(* the reservation itself, unit 1, 2, ... its room lines.  Row locks are   *)
(* left out: a session whose room or row is gone fails at its commit.      *)
(***************************************************************************)
EXTENDS Integers, FiniteSets

CONSTANTS
  Res,        \* ids of reservations
  RoomNumbers,\* rooms, named by their room_number
  Categories, \* values of Room.category and of room_type
  Days,       \* check-in and check-out days
  LastDay,    \* bound: the last value of today
  WeekLength, \* days from Monday to Sunday
  MaxLines,   \* bound: room lines of a reservation
  Plans,      \* the room types, by unit, and the channel that a booking may have
  Stays,      \* the pairs of check-in and check-out that are entered
  Handlers,   \* requests that may be open at the same time
  MaxRequests,\* bound: requests in a behaviour
  Built,      \* rooms that are there at the start
  FirstRows,  \* what the table reservations may hold at the start
  None

Units == 0 .. MaxLines
Week(day) == day \div WeekLength

NoRooms == [u \in Units |-> None]
NoRef == <<0, 0>>
\* source_channel: "01" is what a walk-in has, and what a form or a mail may have too.
Channels == {"01", "other"}
Row == [status : {"none", "active", "cancelled", "deleted"}, stay : Days \X Days,
        cats : [Units -> Categories \cup {None}],
        room : [Units -> RoomNumbers \cup {None}], ref : (Days \cup {0}) \X Nat,
        channel : Channels]

\* No reservation that is there at the start has a walk-in number.
ASSUME FrontDeskAssumption ==
  /\ RoomNumbers \subseteq Nat /\ IsFiniteSet(Res)
  /\ Days \subseteq Nat /\ Stays \subseteq Days \X Days /\ Stays # {}
  /\ LastDay \in Nat \ {0} /\ 1 .. LastDay \subseteq Days
  /\ WeekLength \in Nat \ {0} /\ MaxLines \in Nat /\ MaxRequests \in Nat
  /\ Plans \subseteq [cats : [Units -> Categories \cup {None}], channel : Channels]
  /\ FirstRows \subseteq [Res -> {row \in Row : row.ref = NoRef}]
  /\ None \notin RoomNumbers \cup Categories \cup Res

VARIABLES
  rows,     \* the table reservations with its room lines
  rooms,    \* the table rooms
  today,    \* date.today()
  txn,      \* the open request of each handler
  requests, \* requests made so far
  loose,    \* history: the units whose room was not chosen by an undisturbed search
  dropped   \* history: a row of channel "01" left its week, or two walk-ins met

vars == <<rows, rooms, today, txn, requests, loose, dropped>>

Room == [status : {"none", "active", "inactive", "deleted"}, cat : Categories]
Ops == {"none", "book", "walkin", "edit", "assign", "sheet", "reassign", "delete"}

Exists(r) == rows[r].status \in {"active", "cancelled"}
RoomExists(x) == rooms[x].status \in {"active", "inactive"}
Lines(row) == {u \in Units \ {0} : row.cats[u] # None}
\* The units assign_rooms_for_reservation looks for rooms for.
Targets(row) ==
  IF Lines(row) # {} THEN Lines(row) ELSE {u \in {0} : row.cats[u] # None}

Overlaps(s, t) == s[1] < t[2] /\ s[2] > t[1]
\* _occupied_room_ids: the reservation-level rooms and those of the room lines.
Occupied(stay, own) ==
  {x \in RoomNumbers : \E r \in Res \ {own}, u \in Units :
     /\ rows[r].status = "active" /\ Overlaps(rows[r].stay, stay)
     /\ u \in Lines(rows[r]) \cup {0} /\ rows[r].room[u] = x}
\* find_free_room for one unit of a session; assigned_this_call are its other units.
\* Mutant: assigned_this_call is forgotten.
TakenNone(t) == {}
Taken(t) == {t.new.room[u] : u \in Lines(t.new)}
Free(t, u) ==
  {x \in RoomNumbers : /\ rooms[x].status = "active" /\ rooms[x].cat = t.new.cats[u]
                       /\ x \notin Occupied(t.new.stay, t.res) \cup Taken(t)}
\* Mutant: a room id of 0 for no room.
FirstZero(xs) == IF xs = {} THEN 0 ELSE CHOOSE x \in xs : \A y \in xs : x <= y
First(xs) == IF xs = {} THEN None ELSE CHOOSE x \in xs : \A y \in xs : x <= y

NoRow == [status |-> "none", stay |-> CHOOSE s \in Stays : TRUE, cats |-> NoRooms,
          room |-> NoRooms, ref |-> NoRef, channel |-> "other"]
Idle == [op |-> "none", res |-> None, got |-> NoRow, new |-> NoRow, todo |-> {}, over |-> FALSE]

Init ==
  /\ rows \in FirstRows
  /\ rooms \in [RoomNumbers -> [status : {"none", "active"}, cat : Categories]]
  /\ \A x \in Built : rooms[x].status = "active"
  /\ today = 1
  /\ txn = [h \in Handlers |-> Idle]
  /\ requests = 0 /\ loose = Res \X Units /\ dropped = FALSE

Begin(h, op, r, new, todo) ==
  /\ txn[h].op = "none" /\ requests < MaxRequests
  /\ txn' = [txn EXCEPT ![h] = [op |-> op, res |-> r, got |-> rows[r], new |-> new,
                                todo |-> todo, over |-> FALSE]]
  /\ requests' = requests + 1
  /\ UNCHANGED <<rows, rooms, today, loose, dropped>>

\* The next value of the id sequence.
Fresh(r) == rows[r].status = "none" /\ \A h \in Handlers : txn[h].res # r

(* A booking by mail, form or API; room_auto_assign_enabled is either. *)
Book(h) == \E r \in Res, plan \in Plans, stay \in Stays, auto \in BOOLEAN :
  LET new == [NoRow EXCEPT !.status = "active", !.stay = stay, !.cats = plan.cats,
                       !.channel = plan.channel]
  IN  Fresh(r) /\ Begin(h, "book", r, new, IF auto THEN Targets(new) ELSE {})

\* _next_walkin_ref: the day and one more than this week's rows of channel "01".
\* Mutant: cancelled walk-ins are not counted.
WalkinsActive(week) ==
  {r \in Res : rows[r].status = "active" /\ rows[r].channel = "01" /\ Week(rows[r].stay[1]) = week}
Walkins(week) ==
  {r \in Res : Exists(r) /\ rows[r].channel = "01" /\ Week(rows[r].stay[1]) = week}
NextRef == <<today, Cardinality(Walkins(Week(today))) + 1>>
(* A walk-in takes the room it is given; a room that is not there leaves it without. *)
Walkin(h) == \E r \in Res, x \in RoomNumbers, out \in Days :
  LET cat == IF RoomExists(x) THEN rooms[x].cat ELSE None
      room == IF RoomExists(x) THEN x ELSE None
  IN  /\ Fresh(r) /\ out > today /\ rooms[x].status # "none"
      /\ Begin(h, "walkin", r,
               [status |-> "active", stay |-> <<today, out>>, cats |-> [NoRooms EXCEPT ![0] = cat],
                room |-> [NoRooms EXCEPT ![0] = room], ref |-> NextRef, channel |-> "01"], {})

(* PATCH with other dates, another room_type or both, and the three ways to set the status. *)
EditStay(h) ==
  \E r \in Res : \E stay \in Stays \cup {rows[r].stay}, cat \in Categories \cup {None} :
    Exists(r) /\ Begin(h, "edit", r, [rows[r] EXCEPT !.stay = stay, !.cats[0] = cat], {})
SetStatus(h) == \E r \in Res, s \in {"active", "cancelled"} :
  Exists(r) /\ Begin(h, "edit", r, [rows[r] EXCEPT !.status = s], {})

(* A room set by hand: assign-room looks whether it exists, the sheet does not. *)
AssignRoom(h) == \E r \in Res, u \in Units, x \in RoomNumbers \cup {None} :
  /\ Exists(r) /\ u \in Lines(rows[r]) \cup {0}
  /\ x # None => RoomExists(x)
  /\ Begin(h, "assign", r, [rows[r] EXCEPT !.room[u] = x], {})
AssignAndPrint(h) == \E r \in Res, u \in Units, x \in RoomNumbers \cup {None} :
  /\ Exists(r) /\ u \in Lines(rows[r]) \cup {0}
  /\ x # None => rooms[x].status # "none"
  /\ Begin(h, "sheet", r, [rows[r] EXCEPT !.room[u] = x], {})

ReassignRooms(h) == \E r \in Res :
  Exists(r) /\ Begin(h, "reassign", r, [rows[r] EXCEPT !.room = NoRooms], Targets(rows[r]))

(* The delete button: only what was loaded as cancelled. *)
\* Mutant: the server-side guard of the delete button is gone.
DeleteUnguarded(h) == \E r \in Res :
  Exists(r) /\ Begin(h, "delete", r, [rows[r] EXCEPT !.status = "deleted"], {})
Delete(h) == \E r \in Res :
  rows[r].status = "cancelled" /\ Begin(h, "delete", r, [rows[r] EXCEPT !.status = "deleted"], {})

FindFreeRoom(h) == LET t == txn[h] IN
  /\ t.todo # {}
  /\ LET u == First(t.todo) IN
     txn' = [txn EXCEPT ![h].todo = t.todo \ {u}, ![h].new.room[u] = First(Free(t, u))]
  /\ UNCHANGED <<rows, rooms, today, requests, loose, dropped>>

\* The columns the session writes: those whose value differs from the loaded one;
\* a reassignment has flushed its cleared rooms before it found others.
Writes(t, u) ==
  \/ t.got.room[u] # t.new.room[u]
  \/ t.op = "reassign" /\ t.got.room[u] # None
Changes(t) == t.got # t.new \/ \E u \in Units : Writes(t, u)
Written(t, row) ==
  [row EXCEPT !.status = IF t.got.status # t.new.status THEN t.new.status ELSE @,
              !.stay = IF t.got.stay # t.new.stay THEN t.new.stay ELSE @,
              !.cats[0] = IF t.got.cats[0] # t.new.cats[0] THEN t.new.cats[0] ELSE @,
              !.room = [u \in Units |-> IF Writes(t, u) THEN t.new.room[u] ELSE @[u]]]
Inserts(t) == t.op \in {"book", "walkin"}
\* An UPDATE that meets no row and a foreign key that meets no room raise.
Sound(t) ==
  /\ \A u \in Units : Writes(t, u) /\ t.new.room[u] # None => RoomExists(t.new.room[u])
  /\ Inserts(t) \/ t.op = "delete" \/ Exists(t.res) \/ ~Changes(t)
\* The units whose rooms stay or become the choice of a search nobody disturbed: a
\* search sets all units anew, anything else takes its choice from what it changes.
Searching(t) == t.op \in {"book", "reassign"}
Unsearched(t) ==
  CASE Searching(t) -> {u \in Units : t.over \/ u \notin Targets(t.new)}
    [] t.got.stay # t.new.stay \/ t.got.status # t.new.status -> Units
    [] OTHER -> {u \in Units : Writes(t, u)}

Commit(h) == LET t == txn[h] r == t.res IN
  /\ t.op # "none" /\ t.todo = {} /\ Sound(t)
  /\ rows' = [rows EXCEPT ![r] = IF Inserts(t) THEN t.new ELSE Written(t, @)]
  /\ txn' = [g \in Handlers |-> IF g = h THEN Idle
                                ELSE [txn[g] EXCEPT !.over = txn[g].op # "none"]]
  /\ loose' = {p \in loose : Searching(t) => p[1] # r} \cup ({r} \X Unsearched(t))
  /\ dropped' = (dropped \/ (t.op = "walkin" /\ t.over)
                   \/ (rows[r].channel = "01" /\ rows'[r].status = "deleted")
                   \/ (rows[r].channel = "01" /\ Week(rows'[r].stay[1]) # Week(rows[r].stay[1])))
  /\ UNCHANGED <<rooms, today, requests>>

Fail(h) ==
  /\ txn[h].op # "none" /\ txn[h].todo = {} /\ ~Sound(txn[h])
  /\ txn' = [txn EXCEPT ![h] = Idle]
  /\ UNCHANGED <<rows, rooms, today, requests, loose, dropped>>

(* The rooms page and routers/rooms.py; each request is one step here. *)
SetRoom(x, from, to, cat) ==
  /\ requests < MaxRequests /\ requests' = requests + 1
  /\ rooms[x].status \in from
  /\ rooms' = [rooms EXCEPT ![x] = [status |-> to, cat |-> cat]]
  /\ UNCHANGED <<today, txn, dropped>>
CreateRoom(x) == \E c \in Categories :
  SetRoom(x, {"none"}, "active", c) /\ UNCHANGED <<rows, loose>>
UpdateRoom(x) == \E c \in Categories, to \in {"active", "inactive"} :
  /\ [status |-> to, cat |-> c] # rooms[x]
  /\ SetRoom(x, {"active", "inactive"}, to, c) /\ UNCHANGED <<rows, loose>>
\* ON DELETE SET NULL.
DeleteRoom(x) ==
  /\ SetRoom(x, {"active", "inactive"}, "deleted", rooms[x].cat)
  /\ rows' = [r \in Res |-> [rows[r] EXCEPT !.room =
                 [u \in Units |-> IF @[u] = x THEN None ELSE @[u]]]]
  /\ UNCHANGED loose

NextDay == today < LastDay /\ today' = today + 1
           /\ UNCHANGED <<rows, rooms, txn, requests, loose, dropped>>

Next ==
  \/ \E h \in Handlers :
       \/ Book(h) \/ Walkin(h) \/ EditStay(h) \/ SetStatus(h) \/ AssignRoom(h)
       \/ AssignAndPrint(h) \/ ReassignRooms(h) \/ Delete(h)
       \/ FindFreeRoom(h) \/ Commit(h) \/ Fail(h)
  \/ \E x \in RoomNumbers : CreateRoom(x) \/ UpdateRoom(x) \/ DeleteRoom(x)
  \/ NextDay

Spec == Init /\ [][Next]_vars

-----------------------------------------------------------------------------
(* Views over the assignments, each from a query of its own. *)
Assigned == {p \in Res \X Units : /\ rows[p[1]].status = "active"
                                 /\ rows[p[1]].room[p[2]] # None
                                 /\ p[2] \in Lines(rows[p[1]]) \cup {0}}
\* rooms_occupied_on_date, for the sheet's list of rooms.
OccupiedOn(day) == {rows[p[1]].room[p[2]] : p \in
  {q \in Assigned : rows[q[1]].stay[1] <= day /\ rows[q[1]].stay[2] > day}}
\* room_plan_grid: the days from max(checkin, start) to before min(checkout, end)
\* of every row; of several reservations the last row stays, and lines come last.
\* Mutant: the day of departure is shown as occupied.
PlanDaysInclusive(stay, start, end) ==
  (IF stay[1] > start THEN stay[1] ELSE start) .. (IF stay[2] < end THEN stay[2] ELSE end)
PlanDays(stay, start, end) ==
  (IF stay[1] > start THEN stay[1] ELSE start) .. (IF stay[2] < end THEN stay[2] ELSE end) - 1
Cell(x, day, start, end) ==
  LET here == {p \in Assigned : /\ rows[p[1]].room[p[2]] = x
                                /\ rows[p[1]].stay[1] < end /\ rows[p[1]].stay[2] > start
                                /\ day \in PlanDays(rows[p[1]].stay, start, end)}
      last == {p \in here : p[2] > 0}
  IN  {p[1] : p \in IF last # {} THEN last ELSE here}
\* printing.build_reservation_receipt reads the relationship assigned_room, which
\* was loaded with the reservation; setting assigned_room_id does not change it.
ReceiptRoom(t, u) == t.got.room[u]

-----------------------------------------------------------------------------
(* Types of the tables and the open requests. *)
TypeOK ==
  /\ rows \in [Res -> Row] /\ rooms \in [RoomNumbers -> Room] /\ today \in 1 .. LastDay
  /\ \A h \in Handlers :
       /\ txn[h].op \in Ops /\ txn[h].res \in Res \cup {None}
       /\ txn[h].got \in Row /\ txn[h].new \in Row
       /\ txn[h].todo \subseteq Units /\ txn[h].over \in BOOLEAN
  /\ requests \in 0 .. MaxRequests /\ loose \subseteq Res \X Units /\ dropped \in BOOLEAN

(* Two units of active reservations that share a room on a common night have it
   not both from a search: one was set by hand, or its reservation was moved or
   confirmed again afterwards, or another request committed under its search.
   Otherwise _occupied_room_ids and assigned_this_call keep them apart. *)
NoDoubleBooking ==
  \A p, q \in Assigned :
    /\ p # q /\ rows[p[1]].room[p[2]] = rows[q[1]].room[q[2]]
    /\ p[1] # q[1] => Overlaps(rows[p[1]].stay, rows[q[1]].stay)
    => p \in loose \/ q \in loose

(* Walk-in numbers, the week's count of channel "01" plus one, do not repeat as long as
   no reservation of that channel, walk-in or typed into a form, is deleted or moved to
   another week and nothing commits while a walk-in is entered (_next_walkin_ref). *)
WalkinRefsUnique ==
  dropped \/ \A r, s \in Res : /\ Exists(r) /\ Exists(s) /\ r # s
                              /\ rows[r].ref = rows[s].ref
                              => rows[r].ref = NoRef

(* The three queries agree: the plan has a cell where the sheet calls the room
   occupied, whatever the window, and names an active guest of that day; and a room
   is occupied for a stay exactly when one of the stay's nights has a cell (as long
   as no reservation's dates were edited to an empty stay). *)
ViewsAgree ==
  /\ \A day, start, end \in Days : start <= day /\ day < end =>
       OccupiedOn(day) = {x \in RoomNumbers : Cell(x, day, start, end) # {}}
  /\ \A stay \in Stays : stay[1] < stay[2] =>
       LET nights == stay[1] .. stay[2] - 1 IN
       (\A r \in Res : rows[r].stay[1] < rows[r].stay[2]) =>
       Occupied(stay, None) =
         {x \in RoomNumbers : \E d \in nights : Cell(x, d, stay[1], stay[2]) # {}}

(* An active reservation disappears only under a delete that had loaded it as
   cancelled before another request committed (admin_ui.delete_reservation_action). *)
DeletesOnlyCancelled ==
  [][\A r \in Res : rows[r].status = "active" /\ rows'[r].status = "deleted" =>
       \E h \in Handlers : txn[h].op = "delete" /\ txn[h].res = r /\ txn[h].over]_vars

(* The receipt of Assign & print names the room that was just assigned, as
   docs/API.md says of the button ("does both in one action"). *)
SheetPrintsAssignedRoom ==
  [][\A h \in Handlers : LET t == txn[h] IN
       t.op = "sheet" /\ Commit(h) =>
         \A u \in Units : Writes(t, u) => ReceiptRoom(t, u) = rows'[t.res].room[u]]_vars
=============================================================================
