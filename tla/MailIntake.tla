----------------------------- MODULE MailIntake -----------------------------
(***************************************************************************)
(* What the ingest-worker promises of each mail, with the folder's flags,  *)
(* the sequence numbers, the sessions, the faults and the restarts left    *)
(* out: a mail waits until it has an outcome, and it is then put aside for *)
(* good, with the outcomes it has.  What it does not promise is to put the *)
(* right mail aside: another one may go in its place, and that one may not *)
(* have an outcome yet, and may get one later.                             *)
(***************************************************************************)
CONSTANTS Mails, Outcomes

VARIABLES
  arrived,    \* the mails that have come
  waiting,    \* those that the next poll will find
  outcome,    \* what each mail has become, of every time it was taken in
  misplaced   \* those put aside in the place of another

vars == <<arrived, waiting, outcome, misplaced>>

Init ==
  /\ arrived = {} /\ waiting = {} /\ misplaced = {}
  /\ outcome = [m \in Mails |-> {}]

Arrive(m) ==
  /\ m \notin arrived
  /\ arrived' = arrived \cup {m} /\ waiting' = waiting \cup {m}
  /\ UNCHANGED <<outcome, misplaced>>

\* A mail is taken in, for the first time or again.
TakeIn(m) ==
  /\ m \in waiting \cup misplaced
  /\ \E o \in Outcomes : outcome' = [outcome EXCEPT ![m] = @ \cup {o}]
  /\ UNCHANGED <<arrived, waiting, misplaced>>

PutAside(m) ==
  /\ outcome[m] # {}
  /\ waiting' = waiting \ {m}
  /\ UNCHANGED <<arrived, outcome, misplaced>>

\* Only a mail that has an outcome can be mistaken for another one.
Misplace(m) ==
  /\ m \in arrived /\ \E other \in arrived \ {m} : outcome[other] # {}
  /\ waiting' = waiting \ {m} /\ misplaced' = misplaced \cup {m}
  /\ UNCHANGED <<arrived, outcome>>

Next == \E m \in Mails : Arrive(m) \/ TakeIn(m) \/ PutAside(m) \/ Misplace(m)

Spec == Init /\ [][Next]_vars
=============================================================================
