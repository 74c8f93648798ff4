---------------------------- MODULE PrintOrders ----------------------------
(***************************************************************************)
(* What the print queue promises the front desk, with the table, the       *)
(* sessions and the agents left out: paper comes out of a printer only on  *)
(* an order, at most once per order, and a job is shown as printed only if *)
(* its bytes reached the printer at some time.                             *)
(***************************************************************************)
EXTENDS Naturals

CONSTANT Jobs

VARIABLES
  orders,  \* times each job was ordered
  paper,   \* times each job's bytes reached its printer
  shown    \* the jobs the operator is shown as printed

vars == <<orders, paper, shown>>

Init ==
  /\ orders = [j \in Jobs |-> 0]
  /\ paper = [j \in Jobs |-> 0]
  /\ shown = {}

\* What the operator is shown may change with any step, but a job is newly
\* shown as printed only if paper came out.
Honest == shown' \subseteq Jobs /\ \A j \in shown' \ shown : paper[j] > 0

\* A job is put on the queue (again).
Order(j) ==
  /\ orders' = [orders EXCEPT ![j] = @ + 1]
  /\ Honest
  /\ UNCHANGED paper

\* An order that is still open is carried out.
Deliver(j) ==
  /\ paper[j] < orders[j]
  /\ paper' = [paper EXCEPT ![j] = @ + 1]
  /\ UNCHANGED <<orders, shown>>

\* An order that the backend tries to carry out on the spot.
Dispatch(j) ==
  /\ orders' = [orders EXCEPT ![j] = @ + 1]
  /\ \E delivered \in {0, 1} : paper' = [paper EXCEPT ![j] = @ + delivered]
  /\ UNCHANGED shown

\* Printed, failed, cancelled, sent again by a late poll, or deleted.
Report == Honest /\ UNCHANGED <<orders, paper>>

Next ==
  \/ \E j \in Jobs : Order(j) \/ Deliver(j) \/ Dispatch(j)
  \/ Report

Spec == Init /\ [][Next]_vars
=============================================================================
