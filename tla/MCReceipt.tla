----------------------------- MODULE MCReceipt -----------------------------
(* Instances of Receipt for TLC. *)
EXTENDS Receipt

Lengths == ("Gost:" :> 5) @@ ("Sobe:" :> 5) @@ ("Nights:" :> 9) @@ ("Per night:" :> 12)
             @@ ("Line total:" :> 13) @@ ("From:" :> 5) @@ ("To:" :> 3) @@ ("SKUPAJ:" :> 7)
             @@ ("Povp./noc:" :> 10) @@ ("Reservation nr.:" :> 16)

\* "A Very Long Room Category Name Indeed", "Suite", nothing but blanks, and a word longer
\* than the paper, behind words that fill a line of 20 to its last column or leave some of it.
Types == {<<Word(1), Space, Word(4), Space, Word(4), Space, Word(4), Space, Word(8), Space,
            Word(4), Space, Word(6)>>,
          <<Word(5)>>, <<[Space EXCEPT !.len = 25]>>, <<Word(7), Space, Word(47)>>,
          <<Word(9), Space, Word(9), Space, Word(25)>>}

LinesOf(type) ==
  LET line == [type |-> type, assigned |-> None, nights |-> 2, per_night |-> 5000, total |-> 10000]
  IN  {<<>>, <<line>>,
       <<[line EXCEPT !.assigned = 3, !.per_night = None],
         [line EXCEPT !.nights = None, !.total = None]>>}

Plainly == [status |-> "confirmed", guest_name |-> 8, room_type |-> <<Word(5)>>, assigned |-> None,
            room_lines |-> <<>>, checkin |-> 10, checkout |-> 12, guests |-> 2,
            price_total |-> 10000, external_ref |-> 10, letters |-> "ascii"]

\* cp437 has the western letters, cp852 has the Slovene ones and no dash, and cp1250 has all
\* but the Cyrillic ones.  A dash and the Slovene letters have look-alikes, the others none.
Pages == ("cp437" :> {"ascii", "western"}) @@ ("cp852" :> {"ascii", "slovene"})
           @@ ("cp1250" :> {"ascii", "western", "slovene", "dash"})
Written == {"ascii", "western", "slovene", "dash", "cyrillic"}
AllAlphabets == Written \cup {"look-alikes", "?"}
ManyReservations ==
  \* rooms
  {[Plainly EXCEPT !.status = s, !.room_type = t, !.assigned = a, !.room_lines = l] :
     <<s, t, a, l>> \in UNION {{"confirmed", "cancelled"} \X {t} \X {None, 3} \X LinesOf(t) :
                               t \in Types \cup {<<>>}}}
  \* nights, prices and long values
  \cup {[Plainly EXCEPT !.status = s, !.guest_name = g, !.checkout = c, !.price_total = p] :
          s \in {"confirmed", "cancelled"}, g \in {8, 15, 60}, c \in {9, 10, 11, 13, 14},
          p \in {None, -10001, 0, 9999, 10002}}
  \* letters
  \cup {[Plainly EXCEPT !.status = s, !.letters = a] :
          s \in {"confirmed", "cancelled"}, a \in Written}

\* Every layout, and everything that may be hidden.
Shown == [width |-> 20, codepage |-> "cp437", font_size |-> "normal", bold_labels |-> FALSE,
          show_channel |-> TRUE, show_guests |-> TRUE, show_nights |-> TRUE]
SomeSettings ==
  {[Shown EXCEPT !.width = w, !.font_size = f, !.bold_labels = b] :
     w \in {20, 42}, f \in {"normal", "large", "xlarge"}, b \in BOOLEAN}
  \cup {[Shown EXCEPT !.show_channel = x, !.show_guests = g, !.show_nights = n] :
          x \in BOOLEAN, g \in BOOLEAN, n \in BOOLEAN}
  \cup {[Shown EXCEPT !.codepage = c] : c \in DOMAIN Pages}
=============================================================================
