------------------------------ MODULE Receipt ------------------------------
(***************************************************************************)
(* The receipt of a reservation (services/printing.py): the ESC/POS bytes  *)
(* for a LAN printer and the plain text for a station's agent, built side  *)
(* by side, section by section, with the byte builder of escpos_builder.py *)
(* and its port EscposBuilder.cs, and what the two printers make of them.  *)
(*                                                                         *)
(* A text is a sequence of pieces: what it says, its length in characters, *)
(* for a number the number (amounts are in cents), and the alphabet of its *)
(* letters, which a code page has or has not.  A text that is wrapped is a *)
(* sequence of chunks, words and the blanks between them.                  *)
(***************************************************************************)
EXTENDS Integers, SequencesExt

CONSTANTS
  Reservations, \* reservations to be printed
  Settings,     \* app_settings and the station's paper width
  LabelLen,     \* the length of each label
  AmountLen,    \* the length of "EUR" and an amount
  Alphabets,    \* what letters are of; "?" and "look-alikes" are put in place of others
  CodePages,    \* the alphabets of each code page a station may have
  BestFit,      \* the alphabets that .NET writes in plain letters when a code page has them not
  None

\* A word or a run of blanks, and the lines of a receipt that may repeat.
Chunk == [len : Nat, space : BOOLEAN]
OrNone(S) == S \cup {None}
RoomLines == [type : Seq(Chunk), assigned : OrNone(Nat), nights : OrNone(Int),
              per_night : OrNone(Int), total : OrNone(Int)]

ASSUME ReceiptAssumption ==
  /\ None \notin Int /\ AmountLen \in Nat
  /\ \A l \in DOMAIN LabelLen : LabelLen[l] \in Nat
  /\ {"Gost:", "Sobe:", "Nights:", "Per night:", "Line total:", "From:", "To:", "SKUPAJ:",
      "Povp./noc:", "Reservation nr.:"} \subseteq DOMAIN LabelLen
  /\ {"ascii", "slovene", "dash", "look-alikes", "?"} \cup BestFit \subseteq Alphabets
  /\ CodePages \in [DOMAIN CodePages -> SUBSET Alphabets] /\ "cp437" \in DOMAIN CodePages
  /\ \A page \in DOMAIN CodePages : "ascii" \in CodePages[page]
  /\ Reservations \subseteq
       [status : {"pending", "confirmed", "cancelled"}, guest_name : Nat, external_ref : Nat,
        letters : Alphabets, \* of what guests and portals have written
        room_type : Seq(Chunk), assigned : OrNone(Nat), room_lines : Seq(RoomLines),
        checkin : Int, checkout : Int, guests : Int, price_total : OrNone(Int)]
  /\ Settings \subseteq
       [width : Nat \ {0}, codepage : DOMAIN CodePages, font_size : {"normal", "large", "xlarge"},
        bold_labels : BOOLEAN, show_channel : BOOLEAN, show_guests : BOOLEAN, show_nights : BOOLEAN]

VARIABLES
  reservation, settings, \* what is printed, and how
  buf,                   \* the builder's commands
  text,                  \* text_lines
  section                \* how far build_reservation_receipt has come

vars == <<reservation, settings, buf, text, section>>

Sections == <<"header", "guest", "rooms", "dates", "summary", "total", "number", "footer", "cut">>

-----------------------------------------------------------------------------
(* Pieces, and the room label's word wrap. *)

Piece(kind, what, len, n) ==
  [kind |-> kind, what |-> what, len |-> len, n |-> n, letters |-> "ascii"]
In(letters, p) == [p EXCEPT !.letters = letters]
Label(l) == Piece("label", l, LabelLen[l], 0)
Value(what, len) == Piece("value", what, len, 0)
Mailed(what, len) == In(reservation.letters, Value(what, len))
Number(what, n) == Piece("value", what, AmountLen, n)
Gap(len) == Piece("gap", "blanks", len, 0)
Total(pieces) == FoldLeft(LAMBDA sum, p : sum + p.len, 0, pieces)
Letters(chunks) == Total([i \in DOMAIN chunks |-> IF chunks[i].space THEN [chunks[i] EXCEPT !.len = 0]
                                                  ELSE chunks[i]])

Word(len) == [len |-> len, space |-> FALSE]
Space == [len |-> 1, space |-> TRUE]
\* "<room type> (Soba <number>)" once a room is assigned.
RoomLabel(type, assigned) ==
  IF assigned = None THEN type ELSE type \o <<Space, Word(5), Space, Word(assigned + 1)>>

\* The most chunks that fit on a line.
\* Mutant: the blank before the word that overflows is not counted.
FittingLoose(chunks, width) ==
  CHOOSE n \in 0 .. Len(chunks) :
    /\ Total(SubSeq(chunks, 1, n)) <= width + 1
    /\ n = Len(chunks) \/ Total(SubSeq(chunks, 1, n + 1)) > width + 1
Fitting(chunks, width) ==
  CHOOSE n \in 0 .. Len(chunks) :
    /\ Total(SubSeq(chunks, 1, n)) <= width
    /\ n = Len(chunks) \/ Total(SubSeq(chunks, 1, n + 1)) > width
Blank(chunk) == chunk.space \/ chunk.len = 0
DropLast(line) == IF line # <<>> /\ Blank(Last(line)) THEN Front(line) ELSE line
DropFirst(chunks) == IF chunks # <<>> /\ Blank(Head(chunks)) THEN Tail(chunks) ELSE chunks
\* The next line, filled as far as it goes, and what is left of the text; a word that is
\* longer than a line is broken where the line ends.
NextLine(chunks, width) ==
  LET n == Fitting(chunks, width)
      fits == SubSeq(chunks, 1, n)
      rest == SubSeq(chunks, n + 1, Len(chunks))
      room == width - Total(fits)
      broken == rest # <<>> /\ Head(rest).len > width
  IN  [line |-> DropLast(IF broken THEN Append(fits, [Head(rest) EXCEPT !.len = room]) ELSE fits),
       left |-> DropFirst(IF broken THEN <<[Head(rest) EXCEPT !.len = @ - room]>> \o Tail(rest)
                                    ELSE rest)]
\* textwrap.wrap, for every text.
Lines(width) ==
  LET lines[chunks \in Seq(Chunk)] ==
        IF chunks = <<>> THEN <<>> ELSE
          LET next == NextLine(chunks, width) IN
          (IF next.line = <<>> THEN <<>> ELSE <<next.line>>) \o lines[next.left]
  IN  lines
Wrap(chunks, width) ==
  LET lines == Lines(width)[chunks] IN IF lines = <<>> THEN <<chunks>> ELSE lines

-----------------------------------------------------------------------------
(* The builder: EscposBuilder and ReceiptBuilder.  A builder has one encoding, which its *)
(* first command holds; all its texts are encoded with it, letter by letter.             *)

\* Python's errors="replace", and the agent's code page 437 with .NET's best fit.  (No
\* command tells a printer the code page: it is taken to be set to that of the bytes.)
StationEncoding == [has |-> CodePages[settings.codepage], fits |-> {}]
AgentEncoding == [has |-> CodePages["cp437"], fits |-> BestFit]
Encoded(encoding, line) ==
  [k \in DOMAIN line |->
    CASE line[k].letters \in encoding.has -> line[k]
      [] line[k].letters \in encoding.fits \ encoding.has -> In("look-alikes", line[k])
      [] OTHER -> In("?", line[k])]

Cmd(op, arg) == <<[op |-> op, arg |-> arg]>>
Line(pieces) == Cmd("text", pieces) \o Cmd("newline", 1)
BoldLine(pieces) == Cmd("bold", TRUE) \o Line(pieces) \o Cmd("bold", FALSE)
Divider == Line(<<Piece("divider", "-", settings.width, 0)>>)

GapLen(label, value) == LET left == settings.width - label.len - value.len IN
                        IF left > 1 THEN left ELSE 1
KvLine(label, value) ==
  LET spread == <<Gap(GapLen(label, value)), value>> IN
  IF settings.bold_labels
  THEN Cmd("bold", TRUE) \o Cmd("text", <<label>>) \o Cmd("bold", FALSE) \o Line(spread)
  ELSE Line(<<label>> \o spread)

-----------------------------------------------------------------------------
(* build_reservation_receipt. *)

Nights == IF reservation.checkout > reservation.checkin
          THEN reservation.checkout - reservation.checkin ELSE 0
Cancelled == reservation.status = "cancelled"
BaseSize == CASE settings.font_size = "large" -> 2
              [] settings.font_size = "xlarge" -> 3
              [] OTHER -> 1

Init ==
  /\ reservation \in Reservations /\ settings \in Settings
  /\ buf = Cmd("init", StationEncoding) \o Cmd("font", 0) \o Cmd("size", BaseSize)
  /\ text = <<>> /\ section = "header"

\* One section: what it adds to the bytes and to the text.
Emit(name, cmds, lines) ==
  /\ section = name
  /\ buf' = buf \o cmds /\ text' = text \o lines
  /\ \E i \in 1 .. Len(Sections) - 1 : Sections[i] = name /\ section' = Sections[i + 1]
  /\ UNCHANGED <<reservation, settings>>

\* A label and a value on both.
Kv(label, value) == [cmds |-> KvLine(label, value), lines |-> <<<<label, Gap(1), value>>>>]
Plain(pieces) == [cmds |-> Line(pieces), lines |-> <<pieces>>]
Nothing == [cmds |-> <<>>, lines |-> <<>>]
Both(parts) == [cmds |-> FlattenSeq([i \in 1 .. Len(parts) |-> parts[i].cmds]),
                lines |-> FlattenSeq([i \in 1 .. Len(parts) |-> parts[i].lines])]
EmitBoth(name, parts) == LET both == Both(parts) IN Emit(name, both.cmds, both.lines)
When(condition, part) == IF condition THEN part ELSE Nothing

Banner == <<Value("*** PREKLICANO ***", 18)>>
\* Mutants: the banner leaves its size behind; it is as small as the rest.
CancelledBannerStays == Cmd("size", 3) \o BoldLine(Banner)
CancelledBannerSmall == BoldLine(Banner)
CancelledBanner == Cmd("size", 3) \o BoldLine(Banner) \o Cmd("size", BaseSize)
HeaderLine ==
  (IF settings.show_channel THEN <<Mailed("channel REZERVACIJA", 19)>>
                            ELSE <<Value("REZERVACIJA", 11)>>)
    \o (IF Cancelled THEN <<In("dash", Value("PREKLICANO", 13))>> ELSE <<>>)
Header ==
  Emit("header",
       Cmd("align", "center") \o BoldLine(HeaderLine)
         \o (IF Cancelled THEN CancelledBanner ELSE <<>>)
         \o Divider \o Cmd("align", "left"),
       <<HeaderLine>> \o (IF Cancelled THEN <<Banner>> ELSE <<>>))

Guest == EmitBoth("guest", <<Kv(Label("Gost:"), Mailed("guest_name", reservation.guest_name))>>)

\* The first line of a label as it is, the others set in by two.
LabelLines(chunks) ==
  LET wrapped == Wrap(chunks, settings.width) IN
  Both([i \in 1 .. Len(wrapped) |->
    Plain((IF i = 1 THEN <<>> ELSE <<Piece("indent", "blanks", 2, 0)>>)
            \o <<In(reservation.letters,
                     Piece("room", "label", Total(wrapped[i]), Letters(wrapped[i])))>>)])
RoomLine(l) == Both(<<
  LabelLines(RoomLabel(l.type, l.assigned)),
  When(l.nights # None, Kv(Label("Nights:"), Number("nights", l.nights))),
  When(l.per_night # None, Kv(Label("Per night:"), Number("per_night", l.per_night))),
  When(l.total # None, Kv(Label("Line total:"), Number("line_total", l.total)))>>)
Rooms ==
  LET lines == reservation.room_lines IN
  EmitBoth("rooms",
    CASE lines # <<>> ->
           <<Plain(<<Label("Sobe:")>>)>> \o [i \in 1 .. Len(lines) |-> RoomLine(lines[i])]
      [] lines = <<>> /\ reservation.room_type # <<>> ->
           <<Plain(<<Label("Sobe:")>>),
             LabelLines(RoomLabel(reservation.room_type, reservation.assigned))>>
      [] OTHER -> <<>>)

Dates == EmitBoth("dates", <<Kv(Label("From:"), Value("checkin", 10)),
                             Kv(Label("To:"), Value("checkout", 10))>>)

\* Guests and nights, each as the settings say.
SummaryLine ==
  (IF settings.show_guests THEN <<Number("GOSTI", reservation.guests)>> ELSE <<>>)
    \o (IF settings.show_nights THEN <<In("slovene", Number("NOCI", Nights))>> ELSE <<>>)
Summary == EmitBoth("summary", <<When(SummaryLine # <<>>, Plain(SummaryLine)),
                                 [cmds |-> Divider, lines |-> <<<<Piece("divider", "-", settings.width, 0)>>>>]>>)

\* Decimal's format to cents: round half even.
\* Mutant: cut off.
AverageCut(total, nights) == total \div nights
Average(total, nights) ==
  LET q == total \div nights
      twice == 2 * (total % nights)
  IN  IF twice > nights \/ (twice = nights /\ q % 2 = 1) THEN q + 1 ELSE q
PriceLines == <<
  Kv(Label("SKUPAJ:"), Number("total", reservation.price_total)),
  IF Nights > 0
  THEN Kv(In("slovene", Label("Povp./noc:")),
          Number("average", Average(reservation.price_total, Nights)))
  ELSE Nothing,
  [cmds |-> Divider, lines |-> <<<<Piece("divider", "-", settings.width, 0)>>>>]>>
TotalLines == EmitBoth("total", IF reservation.price_total # None THEN PriceLines ELSE <<>>)

NumberLine ==
  LET number == Kv(Label("Reservation nr.:"), Mailed("external_ref", reservation.external_ref)) IN
  Emit("number", number.cmds \o Divider, number.lines)

\* Mutant: the banner at the bottom is left out of the text.
ClosingTextNone == <<>>
ClosingText == IF Cancelled THEN <<Banner>> ELSE <<>>
Footer ==
  Emit("footer",
       (IF Cancelled THEN Cmd("align", "center") \o CancelledBanner \o Cmd("align", "left")
                     ELSE <<>>)
         \o Line(<<Value("Printed", 28)>>) \o Cmd("newline", 3) \o Cmd("cut", 0),
       ClosingText)

Next == Header \/ Guest \/ Rooms \/ Dates \/ Summary \/ TotalLines \/ NumberLine \/ Footer

Spec == Init /\ [][Next]_vars

-----------------------------------------------------------------------------
(* The printers. *)

\* Worker.RenderJob: the agent's builder knows neither size, font nor bold lines, and
\* the text ends with a newline, so that its last line is an empty one.
RenderJob == Cmd("init", AgentEncoding) \o FlattenSeq([i \in 1 .. Len(text) |-> Line(text[i])])
               \o Line(<<>>) \o Cmd("newline", 3) \o Cmd("cut", 0)

\* An ESC/POS printer: a line is printed in the size, alignment and boldness of its text.
Fresh == [size |-> 1, align |-> "left", bold |-> FALSE, marks |-> {}, line |-> <<>>, paper |-> <<>>]
Marks(p) == [size |-> p.size, align |-> p.align, bold |-> p.bold]
Does(p, cmd) ==
  CASE cmd.op = "size" -> [p EXCEPT !.size = cmd.arg]
    [] cmd.op = "align" -> [p EXCEPT !.align = cmd.arg]
    [] cmd.op = "bold" -> [p EXCEPT !.bold = cmd.arg]
    [] cmd.op = "text" -> [p EXCEPT !.line = @ \o cmd.arg, !.marks = @ \cup {Marks(p)}]
    [] cmd.op = "newline" ->
         [p EXCEPT !.paper = Append(@, [line |-> p.line, marks |-> p.marks]),
                   !.line = <<>>, !.marks = {}]
    [] OTHER -> p
\* What the builder's encoding has left of each line.
Paper(cmds) ==
  LET paper == FoldLeft(Does, Fresh, cmds).paper IN
  [i \in 1 .. Len(paper) |-> [paper[i] EXCEPT !.line = Encoded(cmds[1].arg, @)]]

-----------------------------------------------------------------------------
(* Properties. *)

\* What a line says, however wide its blanks; dividers say nothing.
Says(line) == [k \in DOMAIN line |-> IF line[k].kind = "gap" THEN Gap(1) ELSE line[k]]
Silent(line) == \A k \in DOMAIN line : line[k].kind \in {"gap", "divider"}
TimeOfPrinting == <<Value("Printed", 28)>>
Content(lines) ==
  FlattenSeq([i \in 1 .. Len(lines) |->
    IF Silent(lines[i]) \/ lines[i] = TimeOfPrinting THEN <<>> ELSE <<Says(lines[i])>>])
PaperLines(cmds) == LET paper == Paper(cmds) IN [i \in 1 .. Len(paper) |-> paper[i].line]

\* Two pieces that say the same, unless letters in them are lost on one of the printers.
SamePiece(p, q) ==
  /\ In(q.letters, p) = q
  /\ p.letters = q.letters \/ p.letters = "?" \/ q.letters \in {"?", "look-alikes"}

\* The LAN printer and the agent print the same receipt, apart from the letters: the same
\* lines in the same order, if dividers are left out (the text has fewer of them) and the
\* time of printing (the text has none).  Letters are the same too, unless the station's
\* code page has them not, which makes them "?", or code page 437 has them not, in which
\* the agent prints for every station: there they are look-alikes or "?".  So two
\* printers that say "NO?I" and "NOCI" do print the same receipt.
SameOnBothPrinters ==
  section = "cut" =>
    LET lan == Content(PaperLines(buf))
        agent == Content(PaperLines(RenderJob))
    IN  /\ Len(lan) = Len(agent)
        /\ \A i \in 1 .. Len(lan) : /\ Len(lan[i]) = Len(agent[i])
                                    /\ \A k \in DOMAIN lan[i] : SamePiece(lan[i][k], agent[i][k])

\* A cancelled reservation has its banner at the top and at the bottom of the content,
\* huge and bold on the LAN printer; no other reservation has one.
CancelledIsUnmistakable ==
  section = "cut" =>
    LET lan == Paper(buf)
        agent == Content(PaperLines(RenderJob))
        banners == {i \in DOMAIN lan : lan[i].line = Banner}
    IN  IF Cancelled
        THEN /\ agent[2] = Banner /\ agent[Len(agent)] = Banner /\ 2 \in banners
             /\ \E i \in banners : i > 2 /\ \A k \in i + 1 .. Len(lan) :
                  Silent(lan[k].line) \/ lan[k].line = TimeOfPrinting
             /\ \A i \in banners : lan[i].marks = {[size |-> 3, align |-> "center", bold |-> TRUE]}
        ELSE banners = {} /\ \A i \in DOMAIN agent : agent[i] # Banner

\* Every other line comes out in the size of the settings, and everything with a label
\* on the left margin and bold at most in its label: no banner leaks its layout.
LayoutIsRestored ==
  section = "cut" =>
    LET paper == Paper(buf) IN
    \A i \in DOMAIN paper : \A mark \in paper[i].marks :
      LET line == paper[i].line IN
      line # Banner =>
        /\ mark.size = BaseSize
        /\ ~Silent(line) /\ i > 1 => mark.align = "left"
        /\ mark.bold /\ i > 1 => settings.bold_labels /\ line[1].kind = "label"

\* In letters of the normal size, a value stands at the right edge, or is too long and
\* follows its label after one blank, and the lines of a wrapped room label fit the
\* paper, but for the two blanks by which all but the first are set in, and unless there
\* is no letter in it at all.  (Lines are filled for that size whatever the settings say:
\* in letters of two or three columns a full line is two or three times as wide as the
\* paper.)  In every size, a room label loses no letter when it is wrapped.
LinesFit ==
  section = "cut" =>
    LET paper == Paper(buf)
        label == RoomLabel(reservation.room_type, 3)
    IN  /\ settings.font_size = "normal" =>
             \A i \in DOMAIN paper : LET line == paper[i].line IN \A k \in DOMAIN line :
               /\ line[k].kind = "gap" =>
                    line[k].len >= 1 /\ (Total(line) = settings.width \/ line[k].len = 1)
               /\ line[k].kind = "room" /\ line[k].n > 0 => line[k].len <= settings.width
        /\ Letters(FlattenSeq(Wrap(label, settings.width))) = Letters(label)

\* The average that is shown, times the nights, is the total up to half a cent a night;
\* without a night or a price there is none.  The nights that are shown are never
\* negative, whatever the dates.
AverageIsFair ==
  /\ \A i \in DOMAIN text : \A k \in DOMAIN text[i] :
       text[i][k].what = "NOCI" => text[i][k].n \in Nat
  /\ \A i \in DOMAIN text : \A k \in DOMAIN text[i] :
       text[i][k].what = "average" =>
         LET off == 2 * (Nights * text[i][k].n - reservation.price_total) IN
         Nights > 0 /\ off <= Nights /\ -off <= Nights
  /\ (section = "cut" /\ Nights > 0 /\ reservation.price_total # None) =>
       \E i \in DOMAIN text : \E k \in DOMAIN text[i] : text[i][k].what = "average"
=============================================================================
