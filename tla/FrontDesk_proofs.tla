-------------------------- MODULE FrontDesk_proofs --------------------------
(* Proofs about the front desk, for any reservations, rooms, stays and      *)
(* requests.                                                               *)
EXTENDS FrontDesk, FiniteSetTheorems, WellFoundedInduction, TLAPS

-----------------------------------------------------------------------------
(* The inductive invariant. *)

Txn == [op : Ops, res : Res \cup {None}, got : Row, new : Row, todo : SUBSET Units, over : BOOLEAN]
Types ==
  /\ rows \in [Res -> Row] /\ rooms \in [RoomNumbers -> Room] /\ today \in 1 .. LastDay
  /\ txn \in [Handlers -> Txn]
  /\ requests \in 0 .. MaxRequests /\ loose \subseteq Res \X Units /\ dropped \in BOOLEAN

\* What a request of each kind may have loaded and may want to write.
Shape(t) ==
  /\ t.res \in Res
  /\ Inserts(t) => t.new.status = "active"
  /\ ~Inserts(t) => t.new.status # "none" /\ t.new.ref = t.got.ref
  /\ t.op = "walkin" => /\ t.got.status = "none" /\ t.todo = {} /\ t.new.channel = "01"
                        /\ t.new.ref[1] = t.new.stay[1] /\ t.new.ref # NoRef
  /\ t.op = "book" => t.new.ref = NoRef
  /\ t.op = "delete" => t.got.status = "cancelled"
  /\ t.new.status = "deleted" <=> t.op = "delete"
  /\ t.op = "reassign" => t.new.stay = t.got.stay /\ t.new.status = t.got.status
  /\ Searching(t) =>
       /\ t.todo \subseteq Targets(t.new)
       /\ \A u \in Units : t.new.room[u] # None => u \in Targets(t.new)
       /\ \A u, v \in Units : u # v /\ t.new.room[u] # None => t.new.room[u] # t.new.room[v]
  /\ ~Searching(t) => t.todo = {}
Shaped == \A h \in Handlers : txn[h].op # "none" => Shape(txn[h])

\* Until another request commits, what was loaded is what is there, apart from rooms
\* that are gone; what the search chose is free; and the walk-in's number is the next.
Fits(t) ==
  /\ ~Inserts(t) => /\ rows[t.res].status = t.got.status /\ rows[t.res].stay = t.got.stay
                    /\ \A u \in Units : rows[t.res].room[u] \in {t.got.room[u], None}
  /\ Searching(t) => \A u \in Units : t.new.room[u] \notin Occupied(t.new.stay, t.res)
  /\ t.op = "walkin" => t.new.ref[2] = Cardinality(Walkins(Week(t.new.ref[1]))) + 1
Current == \A h \in Handlers : txn[h].op # "none" /\ ~txn[h].over => Fits(txn[h])

\* An id that is being inserted is nobody else's.
FreshIds == \A h \in Handlers : txn[h].op # "none" /\ Inserts(txn[h]) =>
  /\ rows[txn[h].res].status = "none"
  /\ \A g \in Handlers : g # h => txn[g].res # txn[h].res
IdleHasNone == \A h \in Handlers : txn[h].op = "none" => txn[h].res = None /\ txn[h].todo = {}
\* A row that is written keeps its number and is there.
Kept == \A h \in Handlers : txn[h].op # "none" /\ ~Inserts(txn[h]) =>
  /\ rows[txn[h].res].ref = txn[h].got.ref
  /\ rows[txn[h].res].status # "none"

\* A walk-in that was not moved is counted in the week of its number.
Counted == dropped \/ \A r \in Res : \A w :
  Exists(r) /\ rows[r].ref # NoRef /\ w = Week(rows[r].ref[1]) =>
    Week(rows[r].stay[1]) = w /\ rows[r].ref[2] <= Cardinality(Walkins(w))

\* A row that is not there yet has no number, and who has one is a walk-in.
Numbered == \A r \in Res :
  /\ rows[r].status = "none" => rows[r].ref = NoRef
  /\ rows[r].ref # NoRef => rows[r].channel = "01"

DeskInv == /\ Types /\ Shaped /\ Current /\ FreshIds /\ IdleHasNone /\ Kept /\ Counted /\ Numbered
           /\ NoDoubleBooking /\ WalkinRefsUnique

-----------------------------------------------------------------------------
(* The operators. *)

\* The least of a set of numbers is one of them.
LEMMA FirstIn ==
  ASSUME NEW xs \in SUBSET Nat, xs # {}
  PROVE  First(xs) \in xs /\ \A y \in xs : First(xs) <= y
<1>1. IsWellFoundedOn({ss \in Nat \X Nat : ss[1] < ss[2]}, Nat)
  BY NatLessThanWellFounded DEF OpToRel
<1>2. PICK x \in xs : \A y \in xs : ~(<<y, x>> \in {ss \in Nat \X Nat : ss[1] < ss[2]})
  BY <1>1, WFMin
<1>3. ASSUME NEW y \in xs PROVE x <= y
  <2>1. x \in Nat /\ y \in Nat /\ <<y, x>> \in Nat \X Nat
    OBVIOUS
  <2>2. ~(<<y, x>>[1] < <<y, x>>[2])
    BY <1>2, <2>1
  <2> QED
    BY <2>1, <2>2
<1> QED
  BY <1>3 DEF First

LEMMA RowConst == NoRow \in Row /\ NoRow.ref = NoRef /\ NoRow.room = NoRooms /\ NoRow.cats = NoRooms
                  /\ NoRow.status = "none"
<1>1. (CHOOSE s \in Stays : TRUE) \in Days \X Days
  BY FrontDeskAssumption
<1>2. NoRef \in (Days \cup {0}) \X Nat
  BY DEF NoRef
<1>3. NoRooms \in [Units -> Categories \cup {None}] /\ NoRooms \in [Units -> RoomNumbers \cup {None}]
  BY DEF NoRooms
<1> QED
  BY <1>1, <1>2, <1>3 DEF NoRow, Row, Channels

LEMMA IdleType == Idle \in Txn /\ Idle.op = "none" /\ Idle.res = None /\ Idle.todo = {}
  BY RowConst DEF Idle, Txn, Ops

LEMMA TargetsIn ==
  ASSUME NEW row \in Row
  PROVE  /\ Targets(row) \subseteq Units /\ Units \subseteq Nat
         /\ \A u, v \in Targets(row) : u # v => u \in Lines(row) /\ v \in Lines(row)
         /\ \A u \in Targets(row) : u \in Lines(row) \cup {0}
  BY FrontDeskAssumption DEF Targets, Lines, Units
-----------------------------------------------------------------------------
(* Requests that open. *)

LEMMA BeginKeeps ==
  ASSUME DeskInv, NEW h \in Handlers, NEW op \in Ops \ {"none"}, NEW r \in Res,
         NEW new \in Row, NEW todo \in SUBSET Units, Begin(h, op, r, new, todo),
         LET t == [op |-> op, res |-> r, got |-> rows[r], new |-> new, todo |-> todo, over |-> FALSE]
         IN  Shape(t) /\ Fits(t),
         op \in {"book", "walkin"} => Fresh(r),
         op \notin {"book", "walkin"} => Exists(r)
  PROVE  DeskInv'
<1> DEFINE t == [op |-> op, res |-> r, got |-> rows[r], new |-> new, todo |-> todo, over |-> FALSE]
<1>1. /\ txn' = [txn EXCEPT ![h] = t] /\ requests' = requests + 1 /\ requests < MaxRequests
      /\ UNCHANGED <<rows, rooms, today, loose, dropped>> /\ txn[h].op = "none"
  BY DEF Begin
<1>2. t \in Txn /\ t.op = op /\ t.res = r /\ t.got = rows[r]
  BY DEF Txn, DeskInv, Types
<1>3. Shape(t) /\ Fits(t)
  OBVIOUS
<1> HIDE DEF t
<1>4. txn'[h] = t /\ \A g \in Handlers : g # h => txn'[g] = txn[g]
  BY <1>1 DEF DeskInv, Types
<1>5. Types'
  <2>1. requests' \in 0 .. MaxRequests
    BY <1>1, FrontDeskAssumption DEF DeskInv, Types
  <2> QED
    BY <1>1, <1>2, <2>1 DEF DeskInv, Types
<1>6. Shaped'
  BY <1>3, <1>4, SMTT(40) DEF DeskInv, Shaped
<1>7. Current'
  <2> SUFFICES ASSUME NEW g \in Handlers, txn'[g].op # "none", ~txn'[g].over
               PROVE Fits(txn[g])'
    BY DEF Current
  <2>1. Fits(txn'[g])
    BY <1>3, <1>4 DEF DeskInv, Current
  <2> QED
    BY <1>1, <2>1 DEF Fits, Occupied, Walkins, Exists
<1>8. FreshIds'
  <2> SUFFICES ASSUME NEW g \in Handlers, txn'[g].op # "none", Inserts(txn'[g])
               PROVE /\ rows[txn'[g].res].status = "none"
                     /\ \A f \in Handlers : f # g => txn'[f].res # txn'[g].res
    BY <1>1 DEF FreshIds
  <2>1. CASE g = h
    BY <1>2, <1>4, <2>1 DEF Fresh, Inserts
  <2>2. CASE g # h
    <3>1. /\ rows[txn[g].res].status = "none"
          /\ \A f \in Handlers : f # g => txn[f].res # txn[g].res
      BY <1>4, <2>2 DEF DeskInv, FreshIds
    <3>2. r # txn[g].res
      BY <3>1 DEF Fresh, Exists
    <3> QED
      BY <1>2, <1>4, <2>2, <3>1, <3>2
  <2> QED BY <2>1, <2>2
<1>9. IdleHasNone'
  BY <1>2, <1>4 DEF DeskInv, IdleHasNone
<1>10. Kept'
  <2>1. ~Inserts(t) => rows[r].status # "none"
    BY <1>2, SMTT(40) DEF Inserts, Exists
  <2> QED
    BY <1>1, <1>2, <1>4, <2>1 DEF DeskInv, Kept
<1>11. Counted' /\ Numbered' /\ NoDoubleBooking' /\ WalkinRefsUnique'
  BY <1>1 DEF DeskInv, Counted, Numbered, NoDoubleBooking, WalkinRefsUnique, Assigned, Exists, Walkins
<1> QED
  BY <1>5, <1>6, <1>7, <1>8, <1>9, <1>10, <1>11 DEF DeskInv

\* No request has chosen a room yet.
LEMMA NoneTaken == \A u \in Units : NoRooms[u] = None
  BY DEF NoRooms
LEMMA OccupiedRooms == \A stay, own : None \notin Occupied(stay, own)
  BY FrontDeskAssumption DEF Occupied

LEMMA BookKeeps ==
  ASSUME DeskInv, NEW h \in Handlers, Book(h)
  PROVE  DeskInv'
<1> PICK r \in Res, plan \in Plans, stay \in Stays, auto \in BOOLEAN :
      LET new == [NoRow EXCEPT !.status = "active", !.stay = stay, !.cats = plan.cats,
                              !.channel = plan.channel]
      IN  Fresh(r) /\ Begin(h, "book", r, new, IF auto THEN Targets(new) ELSE {})
  BY DEF Book
<1> DEFINE new == [NoRow EXCEPT !.status = "active", !.stay = stay, !.cats = plan.cats,
                              !.channel = plan.channel]
           todo == IF auto THEN Targets(new) ELSE {}
           t == [op |-> "book", res |-> r, got |-> rows[r], new |-> new, todo |-> todo, over |-> FALSE]
<1>1. new \in Row /\ new.status = "active" /\ new.room = NoRooms /\ new.ref = NoRef
  BY RowConst, FrontDeskAssumption DEF Row
<1>2. Fresh(r) /\ Begin(h, "book", r, new, todo)
  OBVIOUS
<1> HIDE DEF new
<1>3. todo \in SUBSET Units /\ todo \subseteq Targets(new)
  BY <1>1, TargetsIn
<1>4. Shape(t)
  BY <1>1, <1>3, NoneTaken DEF Shape, Inserts, Searching
<1>5. Fits(t)
  BY <1>1, NoneTaken, OccupiedRooms DEF Fits, Inserts, Searching
<1> QED
  BY <1>1, <1>2, <1>3, <1>4, <1>5, BeginKeeps DEF Ops

LEMMA WalkinKeeps ==
  ASSUME DeskInv, NEW h \in Handlers, Walkin(h)
  PROVE  DeskInv'
<1> PICK r \in Res, x \in RoomNumbers, out \in Days :
      LET cat == IF RoomExists(x) THEN rooms[x].cat ELSE None
          room == IF RoomExists(x) THEN x ELSE None
      IN  /\ Fresh(r) /\ out > today
          /\ Begin(h, "walkin", r,
                   [status |-> "active", stay |-> <<today, out>>, cats |-> [NoRooms EXCEPT ![0] = cat],
                    room |-> [NoRooms EXCEPT ![0] = room], ref |-> NextRef, channel |-> "01"], {})
  BY DEF Walkin
<1> DEFINE cat == IF RoomExists(x) THEN rooms[x].cat ELSE None
           room == IF RoomExists(x) THEN x ELSE None
           new == [status |-> "active", stay |-> <<today, out>>, cats |-> [NoRooms EXCEPT ![0] = cat],
                   room |-> [NoRooms EXCEPT ![0] = room], ref |-> NextRef,
                   channel |-> "01"]
           t == [op |-> "walkin", res |-> r, got |-> rows[r], new |-> new, todo |-> {}, over |-> FALSE]
<1>1. today \in Days /\ today \in Nat
  BY FrontDeskAssumption DEF DeskInv, Types
<1>2. IsFiniteSet(Walkins(Week(today)))
  BY FrontDeskAssumption, FS_Subset DEF Walkins
<1>3. Cardinality(Walkins(Week(today))) \in Nat
  BY <1>2, FS_CardinalityType
<1>4. NextRef \in (Days \cup {0}) \X Nat /\ NextRef[1] = today
      /\ NextRef[2] = Cardinality(Walkins(Week(today))) + 1 /\ NextRef # NoRef
  BY <1>1, <1>3 DEF NextRef, NoRef
<1>5. cat \in Categories \cup {None} /\ room \in RoomNumbers \cup {None}
  BY DEF DeskInv, Types, Room
<1>6. [NoRooms EXCEPT ![0] = cat] \in [Units -> Categories \cup {None}]
      /\ [NoRooms EXCEPT ![0] = room] \in [Units -> RoomNumbers \cup {None}]
  BY <1>5 DEF NoRooms
<1>7. new \in Row /\ new.status = "active" /\ new.stay[1] = today /\ new.ref = NextRef
      /\ new.channel = "01"
  BY <1>1, <1>4, <1>6 DEF Row, Channels
<1>8. Fresh(r) /\ Begin(h, "walkin", r, new, {}) /\ rows[r].status = "none"
  BY DEF Fresh
<1> HIDE DEF new
<1>9. Shape(t)
  BY <1>4, <1>7, <1>8 DEF Shape, Inserts, Searching
<1>10. Fits(t)
  BY <1>4, <1>7 DEF Fits, Inserts, Searching
<1>11. {} \in SUBSET Units /\ "walkin" \in Ops \ {"none"}
  BY DEF Ops
<1> QED
  BY <1>7, <1>8, <1>9, <1>10, <1>11, BeginKeeps

\* Requests on a reservation that is there, other than a search.
LEMMA UpdateKeeps ==
  ASSUME DeskInv, NEW h \in Handlers, NEW r \in Res, NEW op \in {"edit", "assign", "sheet", "delete"},
         NEW new \in Row, Begin(h, op, r, new, {}), Exists(r),
         new.status # "none", new.ref = rows[r].ref,
         op = "delete" => rows[r].status = "cancelled", new.status = "deleted" <=> op = "delete"
  PROVE  DeskInv'
<1> DEFINE t == [op |-> op, res |-> r, got |-> rows[r], new |-> new, todo |-> {}, over |-> FALSE]
<1>1. Shape(t)
  BY DEF Shape, Inserts, Searching
<1>2. Fits(t)
  BY DEF Fits, Inserts, Searching
<1> QED
  BY <1>1, <1>2, BeginKeeps DEF Ops

LEMMA UpdatesKeep ==
  ASSUME DeskInv, NEW h \in Handlers,
         EditStay(h) \/ SetStatus(h) \/ AssignRoom(h) \/ AssignAndPrint(h) \/ Delete(h)
  PROVE  DeskInv'
<1>0. \A r \in Res : rows[r] \in Row
  BY DEF DeskInv, Types
<1>1. CASE EditStay(h)
  <2> PICK r \in Res : \E stay \in Stays \cup {rows[r].stay}, cat \in Categories \cup {None} :
        Exists(r) /\ Begin(h, "edit", r, [rows[r] EXCEPT !.stay = stay, !.cats[0] = cat], {})
    BY <1>1 DEF EditStay
  <2> PICK stay \in Stays \cup {rows[r].stay}, cat \in Categories \cup {None} :
        Exists(r) /\ Begin(h, "edit", r, [rows[r] EXCEPT !.stay = stay, !.cats[0] = cat], {})
    OBVIOUS
  <2> DEFINE cats == [rows[r].cats EXCEPT ![0] = cat]
             new == [rows[r] EXCEPT !.stay = stay, !.cats = cats]
  <2>1. rows[r] \in Row /\ stay \in Days \X Days
    BY <1>0, FrontDeskAssumption DEF Row
  <2>2. cats \in [Units -> Categories \cup {None}]
    BY <2>1 DEF Row
  <2>3. [rows[r] EXCEPT !.stay = stay, !.cats[0] = cat] = new
    OBVIOUS
  <2> HIDE DEF cats
  <2>4. new \in Row /\ new.status = rows[r].status /\ new.ref = rows[r].ref
    BY <2>1, <2>2 DEF Row
  <2>5. Begin(h, "edit", r, new, {}) /\ Exists(r)
    BY <2>3
  <2> QED
    BY <2>4, <2>5, UpdateKeeps DEF Exists
<1>2. CASE SetStatus(h)
  <2> PICK r \in Res, s \in {"active", "cancelled"} :
        Exists(r) /\ Begin(h, "edit", r, [rows[r] EXCEPT !.status = s], {})
    BY <1>2 DEF SetStatus
  <2> DEFINE new == [rows[r] EXCEPT !.status = s]
  <2>1. new \in Row /\ new.status = s /\ new.ref = rows[r].ref
    BY <1>0 DEF Row
  <2> QED
    BY <2>1, UpdateKeeps
<1>3. CASE AssignRoom(h) \/ AssignAndPrint(h)
  <2> PICK op \in {"assign", "sheet"}, r \in Res, u \in Units, x \in RoomNumbers \cup {None} :
        Exists(r) /\ Begin(h, op, r, [rows[r] EXCEPT !.room[u] = x], {})
    BY <1>3 DEF AssignRoom, AssignAndPrint
  <2> DEFINE new == [rows[r] EXCEPT !.room[u] = x]
  <2>1. new \in Row /\ new.status = rows[r].status /\ new.ref = rows[r].ref
    BY <1>0 DEF Row
  <2> QED
    BY <2>1, UpdateKeeps DEF Exists
<1>4. CASE Delete(h)
  <2> PICK r \in Res : /\ rows[r].status = "cancelled"
                       /\ Begin(h, "delete", r, [rows[r] EXCEPT !.status = "deleted"], {})
    BY <1>4 DEF Delete
  <2> DEFINE new == [rows[r] EXCEPT !.status = "deleted"]
  <2>1. new \in Row /\ new.status = "deleted" /\ new.ref = rows[r].ref
    BY <1>0 DEF Row
  <2> QED
    BY <2>1, UpdateKeeps DEF Exists
<1> QED
  BY <1>1, <1>2, <1>3, <1>4

LEMMA ReassignKeeps ==
  ASSUME DeskInv, NEW h \in Handlers, ReassignRooms(h)
  PROVE  DeskInv'
<1> PICK r \in Res : Exists(r) /\ Begin(h, "reassign", r, [rows[r] EXCEPT !.room = NoRooms], Targets(rows[r]))
  BY DEF ReassignRooms
<1> DEFINE new == [rows[r] EXCEPT !.room = NoRooms]
           t == [op |-> "reassign", res |-> r, got |-> rows[r], new |-> new, todo |-> Targets(rows[r]),
                 over |-> FALSE]
<1>1. rows[r] \in Row /\ NoRooms \in [Units -> RoomNumbers \cup {None}]
  BY DEF DeskInv, Types, NoRooms
<1>2. new \in Row /\ new.status = rows[r].status /\ new.ref = rows[r].ref /\ new.cats = rows[r].cats
      /\ new.room = NoRooms /\ new.stay = rows[r].stay
  BY <1>1 DEF Row
<1>3. Begin(h, "reassign", r, new, Targets(rows[r])) /\ Exists(r)
  OBVIOUS
<1> HIDE DEF new
<1>4. Targets(new) = Targets(rows[r]) /\ Targets(new) \in SUBSET Units
  BY <1>2, TargetsIn DEF Targets, Lines
<1>5. Shape(t)
  BY <1>2, <1>3, <1>4, NoneTaken DEF Shape, Inserts, Searching, Exists
<1>6. Fits(t)
  BY <1>2, NoneTaken, OccupiedRooms DEF Fits, Inserts, Searching
<1> QED
  BY <1>2, <1>3, <1>4, <1>5, <1>6, BeginKeeps DEF Ops
-----------------------------------------------------------------------------
(* A search takes the next room. *)

LEMMA FindKeeps ==
  ASSUME DeskInv, NEW h \in Handlers, FindFreeRoom(h)
  PROVE  DeskInv'
<1> DEFINE t == txn[h]
           u == First(t.todo)
           x == First(Free(t, u))
           s == [t EXCEPT !.todo = t.todo \ {u}, !.new.room[u] = x]
<1>1. /\ t \in Txn /\ t.todo # {} /\ t.op # "none" /\ Shape(t)
      /\ t.new \in Row /\ t.todo \subseteq Units
  BY DEF FindFreeRoom, DeskInv, Types, IdleHasNone, Shaped, Txn
<1>2. Searching(t)
  BY <1>1 DEF Shape
<1>3. u \in t.todo /\ u \in Units /\ u \in Targets(t.new)
  BY <1>1, <1>2, TargetsIn, FirstIn DEF Shape
<1>4. x = None \/ x \in Free(t, u)
  <2>1. Free(t, u) \subseteq Nat
    BY FrontDeskAssumption DEF Free
  <2> QED
    BY <2>1, FirstIn DEF First
<1>5. /\ txn' = [txn EXCEPT ![h] = s]
      /\ UNCHANGED <<rows, rooms, today, requests, loose, dropped>>
  BY DEF FindFreeRoom, DeskInv, Types, Txn
<1>6. /\ x \in RoomNumbers \cup {None}
      /\ x # None => x \notin Occupied(t.new.stay, t.res) /\ x \notin Taken(t)
  BY <1>4 DEF Free
<1> HIDE DEF u, x
<1>7. /\ s \in Txn /\ s.op = t.op /\ s.res = t.res /\ s.got = t.got /\ s.over = t.over
      /\ s.todo = t.todo \ {u} /\ s.new.status = t.new.status /\ s.new.stay = t.new.stay
      /\ s.new.cats = t.new.cats /\ s.new.ref = t.new.ref /\ s.new.room[u] = x
      /\ \A v \in Units : v # u => s.new.room[v] = t.new.room[v]
  BY <1>1, <1>3, <1>6, ZenonT(60) DEF Txn, Row
<1> HIDE DEF s
<1>8. Targets(s.new) = Targets(t.new)
  BY <1>7 DEF Targets, Lines
<1>9. \A v, w \in Units : v # w /\ s.new.room[v] # None => s.new.room[v] # s.new.room[w]
  <2> SUFFICES ASSUME NEW v \in Units, NEW w \in Units, v # w, s.new.room[v] # None,
                      s.new.room[v] = s.new.room[w]
               PROVE FALSE
    OBVIOUS
  <2>1. \A a \in Units : a # u /\ t.new.room[a] # None => t.new.room[a] \in Taken(t)
    <3> SUFFICES ASSUME NEW a \in Units, a # u, t.new.room[a] # None
                 PROVE t.new.room[a] \in Taken(t)
      OBVIOUS
    <3>1. a \in Targets(t.new)
      BY <1>1, <1>2 DEF Shape
    <3>2. a \in Lines(t.new)
      BY <1>1, <1>3, <3>1, TargetsIn
    <3> QED
      BY <3>2 DEF Taken
  <2>2. CASE v = u
    BY <1>6, <1>7, <2>1, <2>2
  <2>3. CASE w = u
    BY <1>6, <1>7, <2>1, <2>3
  <2>4. CASE v # u /\ w # u
    BY <1>1, <1>2, <1>7, <2>4 DEF Shape
  <2> QED BY <2>2, <2>3, <2>4
<1>10. Shape(s)
  <2>1. \A v \in Units : s.new.room[v] # None => v \in Targets(s.new)
    BY <1>1, <1>2, <1>3, <1>7, <1>8 DEF Shape
  <2>2. s.todo \subseteq Targets(s.new)
    BY <1>1, <1>2, <1>7, <1>8, SMTT(40) DEF Shape
  <2> QED
    BY <1>1, <1>2, <1>7, <1>9, <2>1, <2>2 DEF Shape, Inserts, Searching
<1>11. ~s.over => Fits(s)
  <2> SUFFICES ASSUME ~s.over PROVE Fits(s)
    OBVIOUS
  <2>1. Fits(t)
    BY <1>1, <1>7 DEF DeskInv, Current
  <2>2. \A v \in Units : s.new.room[v] \notin Occupied(s.new.stay, s.res)
    BY <1>2, <1>6, <1>7, <2>1, OccupiedRooms DEF Fits
  <2> QED
    BY <1>2, <1>7, <2>1, <2>2 DEF Fits, Inserts, Searching
<1>12. txn'[h] = s /\ \A g \in Handlers : g # h => txn'[g] = txn[g]
  BY <1>5 DEF DeskInv, Types
<1>13. Types'
  BY <1>5, <1>7 DEF DeskInv, Types
<1>14. Shaped'
  BY <1>10, <1>12, SMTT(40) DEF DeskInv, Shaped
<1>15. Current'
  <2> SUFFICES ASSUME NEW g \in Handlers, txn'[g].op # "none", ~txn'[g].over
               PROVE Fits(txn[g])'
    BY DEF Current
  <2>1. Fits(txn'[g])
    BY <1>11, <1>12 DEF DeskInv, Current
  <2> QED
    BY <1>5, <2>1 DEF Fits, Occupied, Walkins, Exists
<1>16. FreshIds'
  BY <1>5, <1>7, <1>12 DEF DeskInv, FreshIds, Inserts
<1>17. IdleHasNone'
  BY <1>1, <1>7, <1>12 DEF DeskInv, IdleHasNone
<1>18. Kept'
  BY <1>5, <1>7, <1>12, SMTT(40) DEF DeskInv, Kept, Inserts
<1>19. Counted' /\ Numbered' /\ NoDoubleBooking' /\ WalkinRefsUnique'
  BY <1>5, SMTT(40) DEF DeskInv, Counted, Numbered, NoDoubleBooking, WalkinRefsUnique, Assigned, Exists, Walkins
<1> QED
  BY <1>13, <1>14, <1>15, <1>16, <1>17, <1>18, <1>19 DEF DeskInv

-----------------------------------------------------------------------------
(* A request commits. *)

\* What it does to its row.
LEMMA CommittedRow ==
  ASSUME DeskInv, NEW h \in Handlers, Commit(h)
  PROVE  LET t == txn[h]
             r == t.res
             now == rows[r]
             n == rows'[r] IN
         /\ r \in Res /\ t \in Txn /\ t.op # "none" /\ Shape(t) /\ Sound(t) /\ t.todo = {}
         /\ rows' \in [Res -> Row] /\ \A q \in Res : q # r => rows'[q] = rows[q]
         /\ Inserts(t) => n = t.new
         /\ ~Inserts(t) =>
              /\ n.status = IF t.got.status # t.new.status THEN t.new.status ELSE now.status
              /\ n.stay = IF t.got.stay # t.new.stay THEN t.new.stay ELSE now.stay
              /\ \A u \in Units : n.room[u] = IF Writes(t, u) THEN t.new.room[u] ELSE now.room[u]
              /\ Lines(n) = Lines(now) /\ n.ref = now.ref /\ n.channel = now.channel
<1> DEFINE t == txn[h]
           r == t.res
           now == rows[r]
<1>1. t \in Txn /\ t.op # "none" /\ Sound(t) /\ t.todo = {}
      /\ rows' = [rows EXCEPT ![r] = IF Inserts(t) THEN t.new ELSE Written(t, now)]
  BY DEF Commit, DeskInv, Types
<1>2. Shape(t) /\ r \in Res
  BY <1>1 DEF DeskInv, Shaped, Shape
<1>3. now \in Row /\ t.got \in Row /\ t.new \in Row /\ rows \in [Res -> Row]
  BY <1>1, <1>2 DEF DeskInv, Types, Txn
<1> DEFINE status == IF t.got.status # t.new.status THEN t.new.status ELSE now.status
           stay == IF t.got.stay # t.new.stay THEN t.new.stay ELSE now.stay
           room == [u \in Units |-> IF Writes(t, u) THEN t.new.room[u] ELSE now.room[u]]
           cat == IF t.got.cats[0] # t.new.cats[0] THEN t.new.cats[0] ELSE now.cats[0]
           cats == [now.cats EXCEPT ![0] = cat]
<1>4. /\ status \in {"none", "active", "cancelled", "deleted"} /\ stay \in Days \X Days
      /\ room \in [Units -> RoomNumbers \cup {None}]
  BY <1>3 DEF Row
<1>5. cats \in [Units -> Categories \cup {None}] /\ \A u \in Units \ {0} : cats[u] = now.cats[u]
  <2>1. 0 \in Units
    BY FrontDeskAssumption DEF Units
  <2>2. cat \in Categories \cup {None} /\ now.cats \in [Units -> Categories \cup {None}]
    BY <1>3, <2>1 DEF Row
  <2> HIDE DEF cat
  <2> QED
    BY <2>2
<1>6. Written(t, now) = [now EXCEPT !.status = status, !.stay = stay, !.cats = cats, !.room = room]
  BY DEF Written
<1>7. \A u \in Units : room[u] = IF Writes(t, u) THEN t.new.room[u] ELSE now.room[u]
  OBVIOUS
<1> HIDE DEF status, stay, room, cats
<1> DEFINE other == [now EXCEPT !.status = status, !.stay = stay, !.cats = cats, !.room = room]
<1>8. /\ other \in Row /\ other.status = status /\ other.stay = stay /\ other.cats = cats
       /\ other.room = room /\ other.ref = now.ref /\ other.channel = now.channel
  <2> DEFINE a == [now EXCEPT !.status = status]
             b == [a EXCEPT !.stay = stay]
             c == [b EXCEPT !.cats = cats]
             d == [c EXCEPT !.room = room]
  <2>1. now \in Row
    BY <1>3
  <2>2. other = d
    OBVIOUS
  <2> HIDE DEF now, other
  <2>3. a \in Row /\ a.status = status /\ a.ref = now.ref /\ a.channel = now.channel
    BY <1>4, <2>1 DEF Row
  <2> HIDE DEF a
  <2>4. b \in Row /\ b.status = a.status /\ b.stay = stay /\ b.ref = a.ref /\ b.channel = a.channel
    BY <1>4, <2>3 DEF Row
  <2> HIDE DEF b
  <2>5. /\ c \in Row /\ c.status = b.status /\ c.stay = b.stay /\ c.cats = cats
        /\ c.ref = b.ref /\ c.channel = b.channel
    BY <1>5, <2>4 DEF Row
  <2> HIDE DEF c
  <2>6. /\ d \in Row /\ d.status = c.status /\ d.stay = c.stay /\ d.cats = c.cats /\ d.room = room
        /\ d.ref = c.ref /\ d.channel = c.channel
    BY <1>4, <2>5 DEF Row
  <2> HIDE DEF d
  <2> QED
    BY <2>2, <2>3, <2>4, <2>5, <2>6
<1>9. Written(t, now) = other
  BY <1>6
<1> HIDE DEF other
<1>10. /\ Written(t, now) \in Row /\ Written(t, now).status = status /\ Written(t, now).stay = stay
      /\ Written(t, now).room = room /\ Written(t, now).cats = cats
      /\ Written(t, now).ref = now.ref /\ Written(t, now).channel = now.channel
  BY <1>8, <1>9
<1>11. Lines(Written(t, now)) = Lines(now)
  BY <1>5, <1>10 DEF Lines
<1>12. rows' \in [Res -> Row] /\ \A q \in Res : q # r => rows'[q] = rows[q]
  BY <1>1, <1>2, <1>3, <1>10
<1>13. Inserts(t) => rows'[r] = t.new
  BY <1>1, <1>2, <1>3
<1>14. ~Inserts(t) => rows'[r] = Written(t, now)
  BY <1>1, <1>2, <1>3
<1> QED
  BY <1>1, <1>2, <1>7, <1>10, <1>11, <1>12, <1>13, <1>14 DEF status, stay

\* What an undisturbed search commits: exactly the rooms it chose.
LEMMA SearchedRow ==
  ASSUME DeskInv, NEW h \in Handlers, Commit(h), Searching(txn[h]), ~txn[h].over
  PROVE  LET t == txn[h]
             n == rows'[t.res] IN
         n.stay = t.new.stay /\ \A u \in Units : n.room[u] = t.new.room[u]
<1> DEFINE t == txn[h]
           r == t.res
           now == rows[r]
<1>1. /\ r \in Res /\ t \in Txn /\ t.op # "none" /\ Shape(t)
      /\ Inserts(t) => rows'[r] = t.new
      /\ ~Inserts(t) =>
           /\ rows'[r].stay = IF t.got.stay # t.new.stay THEN t.new.stay ELSE now.stay
           /\ \A u \in Units : rows'[r].room[u] = IF Writes(t, u) THEN t.new.room[u] ELSE now.room[u]
  BY CommittedRow
<1>2. Fits(t)
  BY <1>1 DEF DeskInv, Current
<1>3. CASE Inserts(t)
  BY <1>1, <1>3
<1>4. CASE ~Inserts(t)
  <2>1. t.op = "reassign"
    BY <1>4 DEF Searching, Inserts
  <2>2. t.new.stay = t.got.stay /\ now.stay = t.got.stay
        /\ \A u \in Units : now.room[u] \in {t.got.room[u], None}
    BY <1>1, <1>2, <1>4, <2>1 DEF Shape, Fits
  <2>3. \A u \in Units : ~Writes(t, u) => t.got.room[u] = t.new.room[u] /\ t.got.room[u] = None
    BY <2>1 DEF Writes
  <2> QED
    BY <1>1, <1>4, <2>2, <2>3, SMTT(40)
<1> QED
  BY <1>3, <1>4

LEMMA CommitBooksOnce ==
  ASSUME DeskInv, NEW h \in Handlers, Commit(h)
  PROVE  NoDoubleBooking'
<1> DEFINE t == txn[h]
           r == t.res
<1>1. /\ r \in Res /\ t \in Txn /\ t.op # "none" /\ Shape(t)
      /\ rows' \in [Res -> Row] /\ \A q \in Res : q # r => rows'[q] = rows[q]
      /\ Inserts(t) => rows'[r] = t.new
      /\ ~Inserts(t) =>
           /\ rows'[r].status = IF t.got.status # t.new.status THEN t.new.status ELSE rows[r].status
           /\ rows'[r].stay = IF t.got.stay # t.new.stay THEN t.new.stay ELSE rows[r].stay
           /\ \A u \in Units : rows'[r].room[u] =
                IF Writes(t, u) THEN t.new.room[u] ELSE rows[r].room[u]
           /\ Lines(rows'[r]) = Lines(rows[r])
  BY CommittedRow
<1>2. loose' = {p \in loose : Searching(t) => p[1] # r} \cup ({r} \X Unsearched(t))
  BY DEF Commit
<1>3. \A p \in Res \X Units : /\ p[1] # r /\ p \in loose => p \in loose'
                              /\ ~Searching(t) /\ p \in loose => p \in loose'
                              /\ p[1] = r /\ p[2] \in Unsearched(t) => p \in loose'
  BY <1>2
<1> SUFFICES ASSUME NEW p \in Assigned', NEW q \in Assigned', p # q,
                    rows'[p[1]].room[p[2]] = rows'[q[1]].room[q[2]],
                    p[1] # q[1] => Overlaps(rows'[p[1]].stay, rows'[q[1]].stay),
                    p \notin loose', q \notin loose'
             PROVE FALSE
  BY DEF NoDoubleBooking, Overlaps
<1>4. /\ p \in Res \X Units /\ q \in Res \X Units
      /\ rows'[p[1]].status = "active" /\ rows'[p[1]].room[p[2]] # None
      /\ p[2] \in Lines(rows'[p[1]]) \cup {0}
      /\ rows'[q[1]].status = "active" /\ rows'[q[1]].room[q[2]] # None
      /\ q[2] \in Lines(rows'[q[1]]) \cup {0}
  BY DEF Assigned, Lines
<1>5. \A a \in Res \X Units :
        a[1] # r /\ rows'[a[1]].status = "active" /\ rows'[a[1]].room[a[2]] # None
        /\ a[2] \in Lines(rows'[a[1]]) \cup {0} => a \in Assigned
  BY <1>1 DEF Assigned
<1>6. ASSUME NEW a \in Assigned, NEW b \in Assigned, a # b, a \notin loose, b \notin loose,
             rows[a[1]].room[a[2]] = rows[b[1]].room[b[2]],
             a[1] # b[1] => Overlaps(rows[a[1]].stay, rows[b[1]].stay)
      PROVE FALSE
  BY <1>6, SMTT(40) DEF DeskInv, NoDoubleBooking
<1>7. CASE p[1] # r /\ q[1] # r
  BY <1>1, <1>3, <1>4, <1>5, <1>6, <1>7
<1>8. CASE Searching(t) /\ (p[1] = r \/ q[1] = r)
  <2>1. ~t.over /\ (p[1] = r => p[2] \in Targets(t.new)) /\ (q[1] = r => q[2] \in Targets(t.new))
    BY <1>3, <1>4, <1>8 DEF Unsearched
  <2>2. rows'[r].stay = t.new.stay /\ \A u \in Units : rows'[r].room[u] = t.new.room[u]
    BY <1>8, <2>1, SearchedRow
  <2>3. Fits(t)
    BY <1>1, <2>1 DEF DeskInv, Current
  <2>4. CASE p[1] = r /\ q[1] = r
    <3>1. p[2] # q[2]
      BY <1>4, <2>4, SMTT(40)
    <3>2. t.new.room[p[2]] # t.new.room[q[2]]
      BY <1>1, <1>4, <1>8, <2>2, <2>4, <3>1 DEF Shape
    <3> QED
      BY <1>4, <2>2, <2>4, <3>2
  <2>5. ASSUME NEW a \in Res \X Units, NEW b \in Res \X Units, a[1] = r, b[1] # r,
               rows'[a[1]].room[a[2]] = rows'[b[1]].room[b[2]],
               Overlaps(rows'[b[1]].stay, rows'[a[1]].stay),
               rows'[b[1]].status = "active", rows'[b[1]].room[b[2]] # None,
               b[2] \in Lines(rows'[b[1]]) \cup {0}
        PROVE FALSE
    <3>1. rows'[b[1]] = rows[b[1]] /\ rows[b[1]] \in Row
      BY <1>1, <2>5 DEF DeskInv, Types
    <3>2. rows[b[1]].room[b[2]] \in RoomNumbers
      BY <2>5, <3>1, SMTT(40) DEF Row
    <3>3. rows[b[1]].room[b[2]] \in Occupied(t.new.stay, r)
      BY <2>2, <2>5, <3>1, <3>2, SMTT(40) DEF Occupied
    <3>4. t.new.room[a[2]] \notin Occupied(t.new.stay, r)
      BY <1>8, <2>3 DEF Fits
    <3> QED
      BY <2>2, <2>5, <3>1, <3>3, <3>4
  <2>6. Overlaps(rows'[p[1]].stay, rows'[q[1]].stay) => Overlaps(rows'[q[1]].stay, rows'[p[1]].stay)
    <3>1. \A a, b \in Days \X Days : Overlaps(a, b) => Overlaps(b, a)
      BY FrontDeskAssumption DEF Overlaps
    <3>2. rows'[p[1]].stay \in Days \X Days /\ rows'[q[1]].stay \in Days \X Days
      BY <1>1, <1>4, SMTT(40) DEF Row
    <3> QED BY <3>1, <3>2
  <2>7. CASE p[1] = r /\ q[1] # r
    BY <1>4, <2>5, <2>6, <2>7, SMTT(40)
  <2>8. CASE p[1] # r /\ q[1] = r
    BY <1>4, <2>5, <2>8
  <2> QED BY <1>8, <2>4, <2>7, <2>8
<1>9. CASE ~Searching(t) /\ (p[1] = r \/ q[1] = r)
  <2>1. p \notin loose /\ q \notin loose
    BY <1>3, <1>4, <1>9
  <2>2. PICK a \in Res \X Units : a[1] = r /\ a[2] \notin Unsearched(t)
    BY <1>3, <1>4, <1>9
  <2>3. t.got.stay = t.new.stay /\ t.got.status = t.new.status
        /\ \A u \in Units : u \notin Unsearched(t) => ~Writes(t, u)
    BY <1>9, <2>2, SMTT(40) DEF Unsearched
  <2>4. ~Inserts(t)
    BY <1>1, <1>9, <2>3, SMTT(40) DEF Shape, Inserts, Searching
  <2>5. rows'[r].status = rows[r].status /\ rows'[r].stay = rows[r].stay /\ Lines(rows'[r]) = Lines(rows[r])
        /\ \A u \in Units : u \notin Unsearched(t) => rows'[r].room[u] = rows[r].room[u]
    BY <1>1, <2>3, <2>4, SMTT(40)
  <2>6. \A b \in Res \X Units : b \notin loose' =>
          /\ rows'[b[1]].status = rows[b[1]].status /\ rows'[b[1]].stay = rows[b[1]].stay
          /\ Lines(rows'[b[1]]) = Lines(rows[b[1]]) /\ rows'[b[1]].room[b[2]] = rows[b[1]].room[b[2]]
    BY <1>1, <1>3, <2>5, SMTT(40)
  <2>7. p \in Assigned /\ q \in Assigned
    BY <1>4, <2>6 DEF Assigned
  <2> QED
    BY <1>4, <1>6, <2>1, <2>6, <2>7
<1> QED
  BY <1>7, <1>8, <1>9
LEMMA WalkinsFinite == \A w : IsFiniteSet(Walkins(w)) /\ Cardinality(Walkins(w)) \in Nat
<1> TAKE w
<1>1. IsFiniteSet(Walkins(w))
  BY FrontDeskAssumption, FS_Subset DEF Walkins
<1> QED
  BY <1>1, FS_CardinalityType

\* As long as no row of channel "01" leaves its week and no number is given, the count
\* covers the numbers and they do not repeat.
LEMMA WalkinsStay ==
  ASSUME Counted, Numbered, WalkinRefsUnique, dropped => dropped',
         ~dropped' => \A q \in Res :
           /\ Exists(q) /\ rows[q].channel = "01" =>
                /\ Exists(q)' /\ rows'[q].channel = "01"
                /\ Week(rows'[q].stay[1]) = Week(rows[q].stay[1])
           /\ Exists(q)' /\ rows'[q].ref # NoRef => Exists(q) /\ rows'[q].ref = rows[q].ref,
         \A q \in Res : rows[q].ref[2] \in Nat
  PROVE  Counted' /\ WalkinRefsUnique'
<1> SUFFICES ASSUME ~dropped' PROVE Counted' /\ WalkinRefsUnique'
  BY DEF Counted, WalkinRefsUnique
<1>1. ASSUME NEW w PROVE Walkins(w) \subseteq Walkins(w)'
  BY DEF Walkins
<1>2. ASSUME NEW w
      PROVE /\ Cardinality(Walkins(w)) \in Nat /\ Cardinality(Walkins(w)') \in Nat
            /\ Cardinality(Walkins(w)) <= Cardinality(Walkins(w)')
  <2>1. Walkins(w)' \subseteq Res
    BY DEF Walkins
  <2>2. IsFiniteSet(Walkins(w)')
    BY <2>1, FrontDeskAssumption, FS_Subset
  <2>3. Cardinality(Walkins(w)) <= Cardinality(Walkins(w)')
    BY <1>1, <2>2, FS_Subset
  <2>4. Cardinality(Walkins(w)') \in Nat
    BY <2>2, FS_CardinalityType
  <2> QED
    BY <2>3, <2>4, WalkinsFinite
<1>3. ASSUME NEW q \in Res, Exists(q)', rows'[q].ref # NoRef
      PROVE /\ Exists(q) /\ rows'[q].ref = rows[q].ref
            /\ Week(rows'[q].stay[1]) = Week(rows[q].stay[1])
  BY <1>3 DEF Numbered
<1>4. Counted'
  <2> SUFFICES ASSUME NEW q \in Res, NEW w, Exists(q)', rows'[q].ref # NoRef,
                      w = Week(rows'[q].ref[1])
               PROVE Week(rows'[q].stay[1]) = w /\ rows'[q].ref[2] <= Cardinality(Walkins(w)')
    BY DEF Counted
  <2>1. /\ Exists(q) /\ rows'[q].ref = rows[q].ref /\ rows[q].ref # NoRef
        /\ w = Week(rows[q].ref[1]) /\ Week(rows'[q].stay[1]) = Week(rows[q].stay[1])
    BY <1>3
  <2>2. Week(rows[q].stay[1]) = w /\ rows[q].ref[2] <= Cardinality(Walkins(w))
    BY <2>1 DEF Counted
  <2>3. /\ Cardinality(Walkins(w)) \in Nat /\ Cardinality(Walkins(w)') \in Nat
        /\ Cardinality(Walkins(w)) <= Cardinality(Walkins(w)')
    BY <1>2
  <2>4. rows[q].ref[2] <= Cardinality(Walkins(w)')
    BY <2>2, <2>3
  <2> QED
    BY <2>1, <2>2, <2>4
<1>5. WalkinRefsUnique'
  BY <1>3 DEF WalkinRefsUnique
<1> QED
  BY <1>4, <1>5

LEMMA CommitNumbersOnce ==
  ASSUME DeskInv, NEW h \in Handlers, Commit(h)
  PROVE  Counted' /\ WalkinRefsUnique'
<1> DEFINE t == txn[h]
           r == t.res
           n == rows'[r]
<1>1. /\ r \in Res /\ t \in Txn /\ t.op # "none" /\ Shape(t) /\ Sound(t)
      /\ n \in Row /\ rows[r] \in Row /\ \A q \in Res : q # r => rows'[q] = rows[q]
      /\ Inserts(t) => n = t.new
      /\ ~Inserts(t) =>
           /\ n.status = IF t.got.status # t.new.status THEN t.new.status ELSE rows[r].status
           /\ n.ref = rows[r].ref /\ n.channel = rows[r].channel
  <2>1. r \in Res
    BY CommittedRow
  <2> QED
    BY <2>1, CommittedRow DEF DeskInv, Types
<1>2. dropped' = (dropped \/ (t.op = "walkin" /\ t.over)
                   \/ (rows[r].channel = "01" /\ n.status = "deleted")
                   \/ (rows[r].channel = "01" /\ Week(n.stay[1]) # Week(rows[r].stay[1])))
  BY DEF Commit
<1>3. Inserts(t) => rows[r].status = "none"
  BY <1>1 DEF DeskInv, FreshIds
<1>4. CASE t.op # "walkin"
  <2>1. Inserts(t) => n.ref = NoRef
    BY <1>1, <1>4 DEF Inserts, Shape
  <2>2. ASSUME ~dropped', ~Inserts(t), rows[r].channel = "01"
        PROVE /\ n.status \in {"active", "cancelled"} <=> rows[r].status \in {"active", "cancelled"}
              /\ n.ref = rows[r].ref /\ Week(n.stay[1]) = Week(rows[r].stay[1])
    <3>1. n.status # "deleted" /\ Week(n.stay[1]) = Week(rows[r].stay[1])
      BY <1>2, <2>2
    <3>2. rows[r].status # "none" /\ t.new.status # "none"
      BY <1>1, <2>2 DEF DeskInv, Kept, Shape
    <3>3. n.status \in {"active", "cancelled"}
      BY <1>1, <2>2, <3>1, <3>2 DEF Row
    <3>4. rows[r].status \in {"active", "cancelled"}
      <4> SUFFICES ASSUME rows[r].status = "deleted" PROVE FALSE
        BY <1>1, <3>2 DEF Row
      <4>1. t.op = "delete" \/ ~Changes(t)
        BY <1>1, <2>2 DEF Sound, Exists
      <4>2. t.got.status # t.new.status => t.op = "delete"
        BY <4>1 DEF Changes
      <4>3. n.status = "deleted"
        BY <1>1, <2>2, <4>2 DEF Shape
      <4> QED BY <3>1, <4>3
    <3> QED
      BY <1>1, <2>2, <3>1, <3>3, <3>4, SMTT(40)
  <2>3. ASSUME ~dropped', NEW q \in Res
        PROVE /\ Exists(q) /\ rows[q].channel = "01" =>
                   /\ Exists(q)' /\ rows'[q].channel = "01"
                   /\ Week(rows'[q].stay[1]) = Week(rows[q].stay[1])
              /\ Exists(q)' /\ rows'[q].ref # NoRef => Exists(q) /\ rows'[q].ref = rows[q].ref
    <3>1. CASE q # r
      BY <1>1, <3>1 DEF Exists
    <3>2. CASE q = r /\ ~Inserts(t)
      <4>1. rows'[q].ref # NoRef => rows[q].channel = "01" /\ rows'[q].ref = rows[q].ref
        BY <1>1, <3>2 DEF DeskInv, Numbered
      <4>2. rows[q].channel = "01" =>
              /\ Exists(q)' <=> Exists(q)
              /\ rows'[q].channel = "01" /\ Week(rows'[q].stay[1]) = Week(rows[q].stay[1])
        BY <1>1, <2>2, <2>3, <3>2 DEF Exists
      <4> QED BY <4>1, <4>2
    <3>3. CASE q = r /\ Inserts(t)
      BY <1>3, <2>1, <3>3 DEF Exists
    <3> QED BY <3>1, <3>2, <3>3
  <2>4. dropped => dropped'
    BY <1>2
  <2>5. \A q \in Res : rows[q].ref[2] \in Nat
    BY DEF DeskInv, Types, Row
  <2> QED
    BY <2>3, <2>4, <2>5, WalkinsStay DEF DeskInv
<1>5. CASE t.op = "walkin"
  <2> SUFFICES ASSUME ~dropped' PROVE Counted' /\ WalkinRefsUnique'
    BY DEF Counted, WalkinRefsUnique
  <2>1. ~dropped /\ ~t.over
    BY <1>2, <1>5
  <2> DEFINE w0 == Week(t.new.ref[1])
             c == Cardinality(Walkins(w0))
  <2>2. /\ n = t.new /\ n.ref[2] = c + 1 /\ n.ref # NoRef /\ n.status = "active"
        /\ n.channel = "01" /\ Week(n.stay[1]) = w0 /\ n.ref[1] = t.new.ref[1]
    BY <1>1, <1>5, <2>1 DEF Inserts, Shape, DeskInv, Current, Fits
  <2>3. \A w : r \notin Walkins(w)
    BY <1>3, <1>5 DEF Walkins, Exists, Inserts
  <2> HIDE DEF w0, c
  <2>4. ASSUME NEW w PROVE Walkins(w)' = IF w = w0 THEN Walkins(w) \cup {r} ELSE Walkins(w)
    BY <1>1, <2>2, <2>3 DEF Walkins, Exists
  <2>5. c \in Nat /\ \A w : Cardinality(Walkins(w)) \in Nat
    BY WalkinsFinite DEF c
  <2>6. Cardinality(Walkins(w0) \cup {r}) = c + 1
    BY <2>3, WalkinsFinite, FS_AddElement DEF c
  <2>7. ASSUME NEW w
        PROVE Cardinality(Walkins(w)') >= Cardinality(Walkins(w)) /\ Cardinality(Walkins(w)') \in Nat
    <3>1. CASE w = w0
      <4>1. Walkins(w)' = Walkins(w) \cup {r}
        BY <2>4, <3>1
      <4>2. Cardinality(Walkins(w) \cup {r}) = Cardinality(Walkins(w)) + 1
        BY <2>3, WalkinsFinite, FS_AddElement
      <4> QED BY <2>5, <4>1, <4>2
    <3>2. CASE w # w0
      BY <2>4, <2>5, <3>2
    <3> QED BY <3>1, <3>2
  <2>8. ASSUME NEW q \in Res, NEW w, Exists(q), rows[q].ref # NoRef, w = Week(rows[q].ref[1])
        PROVE Week(rows[q].stay[1]) = w /\ rows[q].ref[2] <= Cardinality(Walkins(w))
    BY <2>1, <2>8 DEF DeskInv, Counted
  <2>9. \A q \in Res : rows[q].ref[2] \in Nat
    BY DEF DeskInv, Types, Row
  <2>10. Counted'
    <3> SUFFICES ASSUME NEW q \in Res, NEW w, Exists(q)', rows'[q].ref # NoRef,
                        w = Week(rows'[q].ref[1])
                 PROVE Week(rows'[q].stay[1]) = w /\ rows'[q].ref[2] <= Cardinality(Walkins(w)')
      BY DEF Counted
    <3>1. CASE q = r
      <4>1. w = w0
        BY <2>2, <3>1 DEF w0
      <4>2. Cardinality(Walkins(w)') = c + 1
        <5>1. Walkins(w)' = Walkins(w) \cup {r} /\ Walkins(w) = Walkins(w0)
          BY <2>4, <4>1
        <5> QED BY <2>6, <5>1
      <4> QED BY <2>2, <2>5, <3>1, <4>1, <4>2
    <3>2. CASE q # r
      <4>1. rows'[q] = rows[q] /\ Exists(q)
        BY <1>1, <3>2 DEF Exists
      <4>2. Week(rows[q].stay[1]) = w /\ rows[q].ref[2] <= Cardinality(Walkins(w))
        BY <2>8, <4>1
      <4>3. Cardinality(Walkins(w)') >= Cardinality(Walkins(w)) /\ Cardinality(Walkins(w)') \in Nat
        BY <2>7
      <4> QED BY <2>5, <2>9, <4>1, <4>2, <4>3
    <3> QED BY <3>1, <3>2
  <2>11. ASSUME NEW q \in Res, q # r, Exists(q), rows[q].ref = n.ref PROVE FALSE
    <3>1. w0 = Week(rows[q].ref[1]) /\ rows[q].ref # NoRef
      BY <2>2, <2>11 DEF w0
    <3>2. rows[q].ref[2] <= c
      BY <2>8, <2>11, <3>1 DEF c
    <3> QED BY <2>2, <2>5, <2>9, <2>11, <3>2
  <2>12. WalkinRefsUnique'
    <3> SUFFICES ASSUME NEW q \in Res, NEW s \in Res, Exists(q)', Exists(s)', q # s,
                        rows'[q].ref = rows'[s].ref
                 PROVE rows'[q].ref = NoRef
      BY DEF WalkinRefsUnique
    <3>1. CASE q # r /\ s # r
      BY <1>1, <2>1, <3>1 DEF DeskInv, WalkinRefsUnique, Exists
    <3>2. CASE q = r
      BY <1>1, <2>11, <3>2 DEF Exists
    <3>3. CASE s = r
      BY <1>1, <2>11, <3>3 DEF Exists
    <3> QED BY <3>1, <3>2, <3>3
  <2> QED BY <2>10, <2>12
<1> QED BY <1>4, <1>5
LEMMA CommitKeeps ==
  ASSUME DeskInv, NEW h \in Handlers, Commit(h)
  PROVE  DeskInv'
<1> DEFINE t == txn[h]
           r == t.res
           n == rows'[r]
<1>1. /\ r \in Res /\ t \in Txn /\ t.op # "none" /\ Shape(t)
      /\ rows' \in [Res -> Row] /\ \A q \in Res : q # r => rows'[q] = rows[q]
      /\ Inserts(t) => n = t.new
      /\ ~Inserts(t) =>
           /\ n.status = IF t.got.status # t.new.status THEN t.new.status ELSE rows[r].status
           /\ n.ref = rows[r].ref /\ n.channel = rows[r].channel
  BY CommittedRow
<1>2. /\ txn' = [g \in Handlers |-> IF g = h THEN Idle
                                    ELSE [txn[g] EXCEPT !.over = txn[g].op # "none"]]
      /\ loose' = {p \in loose : Searching(t) => p[1] # r} \cup ({r} \X Unsearched(t))
      /\ dropped' = (dropped \/ (t.op = "walkin" /\ t.over)
                   \/ (rows[r].channel = "01" /\ n.status = "deleted")
                   \/ (rows[r].channel = "01" /\ Week(n.stay[1]) # Week(rows[r].stay[1])))
      /\ UNCHANGED <<rooms, today, requests>>
  BY DEF Commit
<1>3. \A g \in Handlers : g # h =>
        /\ txn'[g] \in Txn /\ txn'[g].op = txn[g].op /\ txn'[g].res = txn[g].res
        /\ txn'[g].got = txn[g].got /\ txn'[g].new = txn[g].new /\ txn'[g].todo = txn[g].todo
        /\ txn'[g].over = (txn[g].op # "none")
  <2> SUFFICES ASSUME NEW g \in Handlers, g # h
               PROVE /\ txn'[g] \in Txn /\ txn'[g].op = txn[g].op /\ txn'[g].res = txn[g].res
                     /\ txn'[g].got = txn[g].got /\ txn'[g].new = txn[g].new
                     /\ txn'[g].todo = txn[g].todo
                     /\ txn'[g].over = (txn[g].op # "none")
    OBVIOUS
  <2> DEFINE o == txn[g].op # "none"
  <2>1. txn'[g] = [txn[g] EXCEPT !.over = o] /\ txn[g] \in Txn /\ o \in BOOLEAN
    BY <1>2 DEF DeskInv, Types
  <2> HIDE DEF o
  <2>2. /\ txn'[g] \in Txn /\ txn'[g].op = txn[g].op /\ txn'[g].res = txn[g].res
        /\ txn'[g].got = txn[g].got /\ txn'[g].new = txn[g].new
        /\ txn'[g].todo = txn[g].todo /\ txn'[g].over = o
    BY <2>1 DEF Txn
  <2> QED BY <2>2 DEF o
<1>4. txn'[h] = Idle /\ Idle \in Txn /\ Idle.op = "none" /\ Idle.res = None /\ Idle.todo = {}
  BY <1>2, IdleType, SMTT(40)
<1>5. Types'
  <2>1. loose' \subseteq Res \X Units
    BY <1>1, <1>2 DEF DeskInv, Types, Unsearched
  <2>2. dropped' \in BOOLEAN
    BY <1>1, <1>2 DEF DeskInv, Types, Txn
  <2>3. txn' \in [Handlers -> Txn]
    BY <1>2, <1>3, <1>4
  <2> QED
    BY <1>1, <1>2, <2>1, <2>2, <2>3, SMTT(40) DEF DeskInv, Types
<1>6. Shaped'
  <2> SUFFICES ASSUME NEW g \in Handlers, txn'[g].op # "none" PROVE Shape(txn'[g])
    BY DEF Shaped
  <2>1. g # h /\ Shape(txn[g])
    BY <1>3, <1>4 DEF DeskInv, Shaped
  <2> QED
    BY <1>3, <2>1 DEF Shape, Inserts, Searching
<1>7. Current'
  BY <1>3, <1>4 DEF Current
<1>8. FreshIds'
  <2> SUFFICES ASSUME NEW g \in Handlers, txn'[g].op # "none", Inserts(txn'[g])
               PROVE /\ rows'[txn'[g].res].status = "none"
                     /\ \A f \in Handlers : f # g => txn'[f].res # txn'[g].res
    BY DEF FreshIds
  <2>1. g # h /\ txn[g].op # "none" /\ Inserts(txn[g])
    BY <1>3, <1>4 DEF Inserts
  <2>2. /\ rows[txn[g].res].status = "none" /\ txn[g].res \in Res
        /\ \A f \in Handlers : f # g => txn[f].res # txn[g].res
    BY <2>1 DEF DeskInv, FreshIds, Shaped, Shape
  <2>3. None \notin Res
    BY FrontDeskAssumption
  <2> QED
    BY <1>1, <1>3, <1>4, <2>1, <2>2, <2>3
<1>9. IdleHasNone'
  BY <1>3, <1>4 DEF DeskInv, IdleHasNone
<1>10. Kept'
  <2> SUFFICES ASSUME NEW g \in Handlers, txn'[g].op # "none", ~Inserts(txn'[g])
               PROVE /\ rows'[txn'[g].res].ref = txn'[g].got.ref
                     /\ rows'[txn'[g].res].status # "none"
    BY DEF Kept
  <2>1. g # h /\ txn[g].op # "none" /\ ~Inserts(txn[g]) /\ txn[g].res \in Res
    BY <1>3, <1>4 DEF Inserts, DeskInv, Shaped, Shape
  <2>2. /\ rows[txn[g].res].ref = txn[g].got.ref
        /\ rows[txn[g].res].status # "none"
    BY <2>1 DEF DeskInv, Kept
  <2>3. CASE txn[g].res # r
    BY <1>1, <1>3, <2>1, <2>2, <2>3
  <2>4. CASE txn[g].res = r
    <3>1. ~Inserts(t)
      BY <1>1, <2>1, <2>4 DEF DeskInv, FreshIds
    <3>2. t.new.status # "none"
      BY <1>1, <3>1 DEF Shape
    <3> QED
      BY <1>1, <1>3, <2>1, <2>2, <2>4, <3>1, <3>2
  <2> QED BY <2>3, <2>4
<1>11. Numbered'
  <2> SUFFICES ASSUME NEW q \in Res
               PROVE /\ rows'[q].status = "none" => rows'[q].ref = NoRef
                     /\ rows'[q].ref # NoRef => rows'[q].channel = "01"
    BY DEF Numbered
  <2>1. CASE q # r
    BY <1>1, <2>1 DEF DeskInv, Numbered
  <2>2. CASE q = r /\ Inserts(t)
    BY <1>1, <2>2 DEF Shape, Inserts
  <2>3. CASE q = r /\ ~Inserts(t)
    <3>1. t.new.status # "none"
      BY <1>1, <2>3 DEF Shape
    <3>2. rows[r].status # "none"
      BY <1>1, <2>3 DEF DeskInv, Kept
    <3> QED
      BY <1>1, <2>3, <3>1, <3>2 DEF DeskInv, Numbered
  <2> QED BY <2>1, <2>2, <2>3
<1> QED
  BY <1>5, <1>6, <1>7, <1>8, <1>9, <1>10, <1>11, CommitBooksOnce, CommitNumbersOnce DEF DeskInv
-----------------------------------------------------------------------------
(* The other steps. *)

LEMMA FailKeeps ==
  ASSUME DeskInv, NEW h \in Handlers, Fail(h)
  PROVE  DeskInv'
<1>1. txn' = [txn EXCEPT ![h] = Idle] /\ UNCHANGED <<rows, rooms, today, requests, loose, dropped>>
  BY DEF Fail
<1>2. txn'[h] = Idle /\ \A g \in Handlers : g # h => txn'[g] = txn[g]
  BY <1>1 DEF DeskInv, Types
<1>3. Types'
  BY <1>1, IdleType DEF DeskInv, Types
<1>4. Shaped' /\ IdleHasNone' /\ Kept'
  BY <1>1, <1>2, IdleType DEF DeskInv, Shaped, IdleHasNone, Kept
<1>5. FreshIds'
  <2> SUFFICES ASSUME NEW g \in Handlers, txn'[g].op # "none", Inserts(txn'[g])
               PROVE /\ rows[txn'[g].res].status = "none"
                     /\ \A f \in Handlers : f # g => txn'[f].res # txn'[g].res
    BY <1>1 DEF FreshIds
  <2>1. g # h /\ txn[g].res \in Res /\ None \notin Res
    BY <1>2, IdleType, FrontDeskAssumption DEF DeskInv, Shaped, Shape
  <2>2. /\ rows[txn[g].res].status = "none"
        /\ \A f \in Handlers : f # g => txn[f].res # txn[g].res
    BY <1>2, <2>1, SMTT(40) DEF DeskInv, FreshIds
  <2> QED
    BY <1>2, <2>1, <2>2, IdleType
<1>6. Current'
  <2> SUFFICES ASSUME NEW g \in Handlers, txn'[g].op # "none", ~txn'[g].over
               PROVE Fits(txn[g])'
    BY DEF Current
  <2>1. Fits(txn'[g])
    BY <1>2, IdleType, SMTT(40) DEF DeskInv, Current
  <2> QED
    BY <1>1, <2>1 DEF Fits, Occupied, Walkins, Exists
<1>7. Counted' /\ Numbered' /\ NoDoubleBooking' /\ WalkinRefsUnique'
  BY <1>1 DEF DeskInv, Counted, Numbered, NoDoubleBooking, WalkinRefsUnique, Assigned, Exists, Walkins
<1> QED
  BY <1>3, <1>4, <1>5, <1>6, <1>7 DEF DeskInv

\* The invariant is about neither rooms nor the day.
LEMMA RoomsKeep ==
  ASSUME DeskInv, UNCHANGED <<rows, txn, loose, dropped>>,
         rooms' \in [RoomNumbers -> Room], today' \in 1 .. LastDay, requests' \in 0 .. MaxRequests
  PROVE  DeskInv'
<1>1. Types' /\ Shaped' /\ FreshIds' /\ IdleHasNone' /\ Kept'
  BY SMTT(40) DEF DeskInv, Types, Shaped, FreshIds, IdleHasNone, Kept
<1>2. Current'
  <2> SUFFICES ASSUME NEW g \in Handlers, txn[g].op # "none", ~txn[g].over
               PROVE Fits(txn[g])'
    BY DEF Current
  <2>1. Fits(txn[g])
    BY SMTT(40) DEF DeskInv, Current
  <2> QED
    BY <2>1 DEF Fits, Occupied, Walkins, Exists
<1>3. Counted' /\ Numbered' /\ NoDoubleBooking' /\ WalkinRefsUnique'
  BY DEF DeskInv, Counted, Numbered, NoDoubleBooking, WalkinRefsUnique, Assigned, Exists, Walkins
<1> QED
  BY <1>1, <1>2, <1>3 DEF DeskInv

LEMMA SetRoomTypes ==
  ASSUME DeskInv, NEW x \in RoomNumbers, NEW from, NEW to \in {"active", "inactive", "deleted"},
         NEW cat \in Categories, SetRoom(x, from, to, cat)
  PROVE  rooms' \in [RoomNumbers -> Room] /\ today' \in 1 .. LastDay /\ requests' \in 0 .. MaxRequests
         /\ UNCHANGED <<txn, dropped>>
<1>1. [status |-> to, cat |-> cat] \in Room
  BY DEF Room
<1>2. requests' \in 0 .. MaxRequests
  BY FrontDeskAssumption DEF SetRoom, DeskInv, Types
<1> QED
  BY <1>1, <1>2 DEF SetRoom, DeskInv, Types

LEMMA DeleteRoomKeeps ==
  ASSUME DeskInv, NEW x \in RoomNumbers, DeleteRoom(x)
  PROVE  DeskInv'
<1>1. /\ rows' = [r \in Res |-> [rows[r] EXCEPT !.room =
                     [u \in Units |-> IF @[u] = x THEN None ELSE @[u]]]]
      /\ loose' = loose
      /\ rooms' \in [RoomNumbers -> Room] /\ today' \in 1 .. LastDay /\ requests' \in 0 .. MaxRequests
      /\ UNCHANGED <<txn, dropped>>
  <2>1. rooms[x].cat \in Categories
    BY DEF DeskInv, Types, Room
  <2> QED
    BY <2>1, SetRoomTypes DEF DeleteRoom
<1>2. \A r \in Res :
        /\ rows'[r] \in Row /\ rows'[r].status = rows[r].status /\ rows'[r].stay = rows[r].stay
        /\ rows'[r].cats = rows[r].cats /\ rows'[r].ref = rows[r].ref
        /\ rows'[r].channel = rows[r].channel
        /\ \A u \in Units : rows'[r].room[u] = IF rows[r].room[u] = x THEN None ELSE rows[r].room[u]
  <2> SUFFICES ASSUME NEW r \in Res
               PROVE /\ rows'[r] \in Row /\ rows'[r].status = rows[r].status
                     /\ rows'[r].stay = rows[r].stay
                     /\ rows'[r].cats = rows[r].cats /\ rows'[r].ref = rows[r].ref
                     /\ rows'[r].channel = rows[r].channel
                     /\ \A u \in Units :
                          rows'[r].room[u] = IF rows[r].room[u] = x THEN None ELSE rows[r].room[u]
    OBVIOUS
  <2> DEFINE room == [u \in Units |-> IF rows[r].room[u] = x THEN None ELSE rows[r].room[u]]
  <2>1. rows[r] \in Row /\ room \in [Units -> RoomNumbers \cup {None}]
    BY DEF DeskInv, Types, Row
  <2>2. rows'[r] = [rows[r] EXCEPT !.room = room]
    BY <1>1
  <2>3. \A u \in Units : room[u] = IF rows[r].room[u] = x THEN None ELSE rows[r].room[u]
    OBVIOUS
  <2> HIDE DEF room
  <2> QED
    BY <2>1, <2>2, <2>3 DEF Row
<1>3. rows' \in [Res -> Row]
  BY <1>1, <1>2
<1>4. Types'
  BY <1>1, <1>3 DEF DeskInv, Types
<1>5. Shaped' /\ IdleHasNone'
  BY <1>1 DEF DeskInv, Shaped, IdleHasNone
<1>6. FreshIds' /\ Kept'
  BY <1>1, <1>2 DEF DeskInv, FreshIds, Kept, Shaped, Shape
<1>7. ASSUME NEW w PROVE Walkins(w)' = Walkins(w)
  BY <1>2 DEF Walkins, Exists
<1>8. ASSUME NEW stay, NEW own PROVE Occupied(stay, own)' \subseteq Occupied(stay, own)
  <2> SUFFICES ASSUME NEW y \in Occupied(stay, own)' PROVE y \in Occupied(stay, own)
    OBVIOUS
  <2>1. y \in RoomNumbers /\ y # None
    BY FrontDeskAssumption DEF Occupied
  <2>2. PICK r \in Res \ {own}, u \in Units :
          /\ rows'[r].status = "active" /\ Overlaps(rows'[r].stay, stay)
          /\ u \in Lines(rows'[r]) \cup {0} /\ rows'[r].room[u] = y
    BY DEF Occupied, Overlaps, Lines
  <2>3. /\ rows[r].status = "active" /\ Overlaps(rows[r].stay, stay)
        /\ u \in Lines(rows[r]) \cup {0} /\ rows[r].room[u] = y
    BY <1>2, <2>1, <2>2, SMTT(40) DEF Overlaps, Lines
  <2> QED
    BY <2>1, <2>3 DEF Occupied
<1>9. Current'
  <2> SUFFICES ASSUME NEW g \in Handlers, txn[g].op # "none", ~txn[g].over
               PROVE Fits(txn[g])'
    BY <1>1 DEF Current
  <2> DEFINE t == txn[g]
  <2>1. Fits(t) /\ Shape(t) /\ t.res \in Res
    BY DEF DeskInv, Current, Shaped, Shape
  <2>2. ~Inserts(t) => /\ rows'[t.res].status = t.got.status /\ rows'[t.res].stay = t.got.stay
                       /\ \A u \in Units : rows'[t.res].room[u] \in {t.got.room[u], None}
    BY <1>2, <2>1 DEF Fits
  <2>3. Searching(t) => \A u \in Units : t.new.room[u] \notin Occupied(t.new.stay, t.res)'
    <3>1. ASSUME NEW stay, NEW own, stay = t.new.stay, own = t.res
          PROVE Searching(t) => \A u \in Units : t.new.room[u] \notin Occupied(stay, own)'
      <4>1. Occupied(stay, own)' \subseteq Occupied(stay, own)
        BY <1>8
      <4>2. Searching(t) => \A u \in Units : t.new.room[u] \notin Occupied(stay, own)
        BY <2>1, <3>1 DEF Fits
      <4> QED BY <4>1, <4>2
    <3> QED BY <1>1, <3>1
  <2>4. t.op = "walkin" => t.new.ref[2] = Cardinality(Walkins(Week(t.new.ref[1]))') + 1
    <3>1. ASSUME NEW w, w = Week(t.new.ref[1])
          PROVE t.op = "walkin" => t.new.ref[2] = Cardinality(Walkins(w)') + 1
      BY <1>7, <2>1, <3>1 DEF Fits
    <3> QED BY <1>1, <3>1
  <2> QED
    BY <1>1, <2>2, <2>3, <2>4 DEF Fits, Inserts, Searching
<1>10. Counted' /\ WalkinRefsUnique'
  <2>1. \A q \in Res : rows[q].ref[2] \in Nat
    BY DEF DeskInv, Types, Row
  <2> QED
    BY <1>1, <1>2, <2>1, WalkinsStay DEF DeskInv, Exists
<1>11. Numbered'
  BY <1>2 DEF DeskInv, Numbered
<1>12. NoDoubleBooking'
  <2>1. ASSUME NEW p \in Assigned'
        PROVE p \in Assigned /\ rows'[p[1]].room[p[2]] = rows[p[1]].room[p[2]] /\ p[1] \in Res
    BY <1>2, SMTT(40) DEF Assigned, Lines
  <2> SUFFICES ASSUME NEW p \in Assigned', NEW q \in Assigned', p # q,
                      rows'[p[1]].room[p[2]] = rows'[q[1]].room[q[2]],
                      p[1] # q[1] => Overlaps(rows'[p[1]].stay, rows'[q[1]].stay)
               PROVE p \in loose \/ q \in loose
    BY <1>1 DEF NoDoubleBooking, Overlaps
  <2> QED
    BY <1>2, <2>1 DEF DeskInv, NoDoubleBooking
<1> QED
  BY <1>4, <1>5, <1>6, <1>9, <1>10, <1>11, <1>12 DEF DeskInv
LEMMA InitKeeps == ASSUME Init PROVE DeskInv
<1>1. /\ rows \in FirstRows /\ today = 1
      /\ rooms \in [RoomNumbers -> [status : {"none", "active"}, cat : Categories]]
      /\ txn = [h \in Handlers |-> Idle]
      /\ requests = 0 /\ loose = Res \X Units /\ dropped = FALSE
  BY DEF Init
<1>2. \A r \in Res : rows[r] \in Row /\ rows[r].ref = NoRef
  BY <1>1, RowConst, FrontDeskAssumption
<1>3. rooms \in [RoomNumbers -> Room]
  BY <1>1 DEF Room
<1>4. today \in 1 .. LastDay /\ requests \in 0 .. MaxRequests
  BY <1>1, FrontDeskAssumption
<1>5. rows \in [Res -> Row]
  BY <1>1, FrontDeskAssumption
<1>6. Types
  BY <1>1, <1>3, <1>4, <1>5, IdleType DEF Types
<1>7. Shaped /\ Current /\ FreshIds /\ IdleHasNone /\ Kept
  BY <1>1, IdleType DEF Shaped, Current, FreshIds, IdleHasNone, Kept
<1>8. Counted /\ Numbered /\ WalkinRefsUnique
  BY <1>2 DEF Counted, Numbered, WalkinRefsUnique
<1>9. NoDoubleBooking
  BY <1>1 DEF NoDoubleBooking, Assigned
<1> QED
  BY <1>6, <1>7, <1>8, <1>9 DEF DeskInv

LEMMA StepKeeps == ASSUME DeskInv, [Next]_vars PROVE DeskInv'
<1>1. CASE UNCHANGED vars
  BY <1>1, RoomsKeep DEF vars, DeskInv, Types
<1>2. CASE Next
  <2>1. ASSUME NEW h \in Handlers,
               \/ Book(h) \/ Walkin(h) \/ EditStay(h) \/ SetStatus(h) \/ AssignRoom(h)
               \/ AssignAndPrint(h) \/ ReassignRooms(h) \/ Delete(h)
               \/ FindFreeRoom(h) \/ Commit(h) \/ Fail(h)
        PROVE DeskInv'
    BY <2>1, BookKeeps, WalkinKeeps, UpdatesKeep, ReassignKeeps, FindKeeps, CommitKeeps, FailKeeps
  <2>2. ASSUME NEW x \in RoomNumbers, CreateRoom(x) \/ UpdateRoom(x) \/ DeleteRoom(x)
        PROVE DeskInv'
    <3>1. CASE CreateRoom(x)
      BY <3>1, SetRoomTypes, RoomsKeep DEF CreateRoom
    <3>2. CASE UpdateRoom(x)
      BY <3>2, SetRoomTypes, RoomsKeep DEF UpdateRoom
    <3> QED BY <2>2, <3>1, <3>2, DeleteRoomKeeps
  <2>3. ASSUME NextDay PROVE DeskInv'
    <3>1. today' \in 1 .. LastDay
      BY <2>3, FrontDeskAssumption DEF NextDay, DeskInv, Types
    <3> QED
      BY <2>3, <3>1, RoomsKeep DEF NextDay, DeskInv, Types
  <2> QED BY <1>2, <2>1, <2>2, <2>3 DEF Next
<1> QED BY <1>1, <1>2

-----------------------------------------------------------------------------
(* Theorems. *)

(* What an undisturbed search chose stays free until it is committed, what was loaded
   is current until another request commits, and walk-ins are counted by their week:
   every step keeps this. *)
THEOREM DeskInvariant == Spec => []DeskInv
  BY InitKeeps, StepKeeps, PTL DEF Spec

(* The tables and the open requests have their types. *)
THEOREM TypeCorrect == Spec => []TypeOK
<1>1. DeskInv => TypeOK
  BY DEF DeskInv, Types, TypeOK, Txn
<1> QED
  BY <1>1, DeskInvariant, PTL

(* The automatic assignment never gives one room to two guests of one night, for any
   number of reservations, rooms and requests at the same time, unless another request
   committed under its search (assign_rooms_for_reservation). *)
THEOREM NoDoubleBookingHolds == Spec => []NoDoubleBooking
<1>1. DeskInv => NoDoubleBooking
  BY DEF DeskInv
<1> QED
  BY <1>1, DeskInvariant, PTL

(* Two walk-ins have the same number only if a reservation of channel "01" left its week
   or something committed while a walk-in was entered (_next_walkin_ref). *)
THEOREM WalkinRefsUniqueHolds == Spec => []WalkinRefsUnique
<1>1. DeskInv => WalkinRefsUnique
  BY DEF DeskInv
<1> QED
  BY <1>1, DeskInvariant, PTL

\* Only a commit or the deletion of a room changes a reservation.
LEMMA OnlyCommitsWrite ==
  ASSUME [Next]_vars, rows' # rows
  PROVE  (\E h \in Handlers : Commit(h)) \/ (\E x \in RoomNumbers : DeleteRoom(x))
<1>1. ASSUME NEW h \in Handlers,
             \/ Book(h) \/ Walkin(h) \/ EditStay(h) \/ SetStatus(h) \/ AssignRoom(h)
             \/ AssignAndPrint(h) \/ ReassignRooms(h) \/ Delete(h)
      PROVE rows' = rows
  BY <1>1 DEF Book, Walkin, EditStay, SetStatus, AssignRoom, AssignAndPrint, ReassignRooms, Delete, Begin
<1>2. ASSUME NEW h \in Handlers, FindFreeRoom(h) \/ Fail(h) PROVE rows' = rows
  BY <1>2 DEF FindFreeRoom, Fail
<1>3. ASSUME NEW x \in RoomNumbers, CreateRoom(x) \/ UpdateRoom(x) PROVE rows' = rows
  BY <1>3 DEF CreateRoom, UpdateRoom
<1>4. NextDay \/ UNCHANGED vars => rows' = rows
  BY DEF NextDay, vars
<1> QED
  BY <1>1, <1>2, <1>3, <1>4 DEF Next

(* The delete button takes no reservation that was active when it looked
   (delete_reservation_action). *)
THEOREM DeletesOnlyCancelledHolds == Spec => DeletesOnlyCancelled
<1> DEFINE A == \A r \in Res : rows[r].status = "active" /\ rows'[r].status = "deleted" =>
       \E h \in Handlers : txn[h].op = "delete" /\ txn[h].res = r /\ txn[h].over
<1>1. ASSUME DeskInv, [Next]_vars PROVE A
  <2> SUFFICES ASSUME NEW r \in Res, rows[r].status = "active", rows'[r].status = "deleted"
               PROVE \E h \in Handlers : txn[h].op = "delete" /\ txn[h].res = r /\ txn[h].over
    OBVIOUS
  <2>1. ~\E x \in RoomNumbers : DeleteRoom(x)
    <3> SUFFICES ASSUME NEW x \in RoomNumbers, DeleteRoom(x) PROVE FALSE
      OBVIOUS
    <3>1. rows[r] \in Row
      BY <1>1 DEF DeskInv, Types
    <3>2. rows'[r].status = rows[r].status
      BY <3>1 DEF DeleteRoom, Row
    <3> QED BY <3>2
  <2>2. PICK h \in Handlers : Commit(h)
    <3>1. rows' # rows
      OBVIOUS
    <3> QED
      BY <1>1, <2>1, <3>1, OnlyCommitsWrite
  <2> DEFINE t == txn[h]
  <2>3. /\ t.res \in Res /\ t \in Txn /\ t.op # "none" /\ Shape(t)
        /\ \A q \in Res : q # t.res => rows'[q] = rows[q]
        /\ Inserts(t) => rows'[t.res] = t.new
        /\ ~Inserts(t) => rows'[t.res].status =
             IF t.got.status # t.new.status THEN t.new.status ELSE rows[t.res].status
    BY <1>1, <2>2, CommittedRow
  <2>4. t.res = r
    BY <2>3
  <2>5. ~Inserts(t) /\ t.new.status = "deleted"
    BY <2>3, <2>4 DEF Shape
  <2>6. t.op = "delete" /\ t.got.status = "cancelled"
    BY <2>3, <2>5 DEF Shape
  <2>7. t.over
    BY <1>1, <2>3, <2>4, <2>5, <2>6 DEF DeskInv, Current, Fits
  <2> QED
    BY <2>4, <2>6, <2>7
<1> QED
  BY <1>1, DeskInvariant, PTL DEF Spec, DeletesOnlyCancelled

\* A cell of the plan is shown for the nights of the stay that are in the window.
LEMMA CellShown ==
  ASSUME DeskInv, NEW x \in RoomNumbers, NEW day \in Days, NEW start \in Days, NEW end \in Days,
         start <= day, day < end
  PROVE  Cell(x, day, start, end) # {} <=>
           \E p \in Assigned : /\ rows[p[1]].room[p[2]] = x
                              /\ rows[p[1]].stay[1] <= day /\ day < rows[p[1]].stay[2]
<1> DEFINE here == {p \in Assigned : /\ rows[p[1]].room[p[2]] = x
                                     /\ rows[p[1]].stay[1] < end /\ rows[p[1]].stay[2] > start
                                     /\ day \in PlanDays(rows[p[1]].stay, start, end)}
<1>1. \A p \in Assigned : rows[p[1]].stay[1] \in Nat /\ rows[p[1]].stay[2] \in Nat
  BY FrontDeskAssumption DEF DeskInv, Types, Row, Assigned
<1>2. ASSUME NEW p \in Assigned
      PROVE (/\ rows[p[1]].stay[1] < end /\ rows[p[1]].stay[2] > start
             /\ day \in PlanDays(rows[p[1]].stay, start, end)) <=>
            rows[p[1]].stay[1] <= day /\ day < rows[p[1]].stay[2]
  <2>1. day \in Nat /\ start \in Nat /\ end \in Nat
    BY FrontDeskAssumption
  <2> QED
    BY <1>1, <2>1 DEF PlanDays
<1>3. here # {} <=>
        \E p \in Assigned : /\ rows[p[1]].room[p[2]] = x
                           /\ rows[p[1]].stay[1] <= day /\ day < rows[p[1]].stay[2]
  BY <1>2
<1>4. Cell(x, day, start, end) # {} <=> here # {}
  BY DEF Cell
<1> QED
  BY <1>3, <1>4

(* The room plan, the sheet's list and the search for a free room agree about who
   sleeps where, for every day, window and stay (room_plan_grid,
   rooms_occupied_on_date, _occupied_room_ids). *)
THEOREM ViewsAgreeHolds == Spec => []ViewsAgree
<1>1. ASSUME DeskInv PROVE ViewsAgree
  <2>1. ASSUME NEW p \in Assigned
        PROVE /\ rows[p[1]].room[p[2]] \in RoomNumbers
              /\ rows[p[1]].stay[1] \in Days /\ rows[p[1]].stay[2] \in Days
              /\ p[1] \in Res /\ p[2] \in Units /\ rows[p[1]].status = "active"
              /\ p[2] \in Lines(rows[p[1]]) \cup {0}
    BY <1>1 DEF DeskInv, Types, Row, Assigned
  <2>2. ASSUME NEW day \in Days, NEW start \in Days, NEW end \in Days, start <= day, day < end
        PROVE OccupiedOn(day) = {x \in RoomNumbers : Cell(x, day, start, end) # {}}
    <3>1. Days \subseteq Nat
      BY FrontDeskAssumption
    <3>2. \A x : x \in OccupiedOn(day) <=>
            \E p \in Assigned : /\ rows[p[1]].room[p[2]] = x
                               /\ rows[p[1]].stay[1] <= day /\ day < rows[p[1]].stay[2]
      BY <2>1, <3>1 DEF OccupiedOn
    <3> QED
      BY <1>1, <2>1, <2>2, <3>2, CellShown
  <2>3. ASSUME NEW stay \in Stays, stay[1] < stay[2],
               \A r \in Res : rows[r].stay[1] < rows[r].stay[2]
        PROVE Occupied(stay, None) =
                {x \in RoomNumbers : \E d \in stay[1] .. stay[2] - 1 : Cell(x, d, stay[1], stay[2]) # {}}
    <3>1. stay[1] \in Days /\ stay[2] \in Days /\ Days \subseteq Nat /\ None \notin Res
      BY FrontDeskAssumption
    <3>2. ASSUME NEW x \in Occupied(stay, None)
          PROVE \E d \in stay[1] .. stay[2] - 1 : Cell(x, d, stay[1], stay[2]) # {}
      <4>1. PICK r \in Res, u \in Units :
              /\ rows[r].status = "active" /\ Overlaps(rows[r].stay, stay)
              /\ u \in Lines(rows[r]) \cup {0} /\ rows[r].room[u] = x /\ x \in RoomNumbers
        BY DEF Occupied
      <4>2. <<r, u>> \in Assigned
        BY <4>1, FrontDeskAssumption DEF Assigned
      <4> DEFINE d == IF rows[r].stay[1] > stay[1] THEN rows[r].stay[1] ELSE stay[1]
      <4>3. rows[r].stay[1] \in Days /\ rows[r].stay[2] \in Days
        BY <2>1, <4>2
      <4>4. /\ d \in Days /\ stay[1] <= d /\ d < stay[2] /\ d \in stay[1] .. stay[2] - 1
            /\ rows[r].stay[1] <= d /\ d < rows[r].stay[2]
        <5>1. /\ rows[r].stay[1] < stay[2] /\ rows[r].stay[2] > stay[1] /\ stay[1] < stay[2]
              /\ rows[r].stay[1] < rows[r].stay[2]
          BY <2>3, <4>1 DEF Overlaps
        <5>2. /\ rows[r].stay[1] \in Nat /\ rows[r].stay[2] \in Nat
              /\ stay[1] \in Nat /\ stay[2] \in Nat
          BY <3>1, <4>3
        <5>3. CASE rows[r].stay[1] > stay[1]
          BY <3>1, <4>3, <5>1, <5>2, <5>3
        <5>4. CASE ~(rows[r].stay[1] > stay[1])
          BY <3>1, <4>3, <5>1, <5>2, <5>4
        <5> QED BY <5>3, <5>4
      <4> HIDE DEF d
      <4>5. /\ rows[<<r, u>>[1]].room[<<r, u>>[2]] = x
            /\ rows[<<r, u>>[1]].stay[1] <= d /\ d < rows[<<r, u>>[1]].stay[2]
        BY <4>1, <4>4
      <4>6. \E p \in Assigned : /\ rows[p[1]].room[p[2]] = x
                               /\ rows[p[1]].stay[1] <= d /\ d < rows[p[1]].stay[2]
        BY <4>2, <4>5
      <4>7. x \in RoomNumbers
        BY <4>1
      <4>8. Cell(x, d, stay[1], stay[2]) # {}
        <5>1. d \in Days /\ stay[1] \in Days /\ stay[2] \in Days /\ stay[1] <= d /\ d < stay[2]
          BY <3>1, <4>4
        <5>2. Cell(x, d, stay[1], stay[2]) # {} <=>
                \E p \in Assigned : /\ rows[p[1]].room[p[2]] = x
                                   /\ rows[p[1]].stay[1] <= d /\ d < rows[p[1]].stay[2]
          BY <1>1, <4>7, <5>1, CellShown, Zenon
        <5> QED BY <4>6, <5>2, Zenon
      <4> QED BY <4>4, <4>8
    <3>3. ASSUME NEW x \in RoomNumbers, NEW d \in stay[1] .. stay[2] - 1,
                 Cell(x, d, stay[1], stay[2]) # {}
          PROVE x \in Occupied(stay, None)
      <4>1. PICK p \in {p \in Assigned : rows[p[1]].room[p[2]] = x} :
              /\ rows[p[1]].stay[1] < stay[2] /\ rows[p[1]].stay[2] > stay[1]
        BY <3>3 DEF Cell
      <4>2. Overlaps(rows[p[1]].stay, stay) /\ p[1] \in Res \ {None}
        BY <2>1, <3>1, <4>1 DEF Overlaps
      <4> QED
        BY <2>1, <4>1, <4>2 DEF Occupied
    <3> QED
      BY <3>2, <3>3 DEF Occupied
  <2> QED
    BY <2>2, <2>3 DEF ViewsAgree
<1> QED
  BY <1>1, DeskInvariant, PTL
=============================================================================
