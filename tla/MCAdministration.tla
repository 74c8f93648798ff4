-------------------------- MODULE MCAdministration --------------------------
(* Instances of Administration for TLC. *)
EXTENDS Administration, TLC

CONSTANTS p1, p2, s1, s2, wrong, h1, h2

Unused == [NewRow("reception", s1) EXCEPT !.status = "none"]
\* A first admin, whose PIN is as new or was locked once and has been mistyped since,
\* and perhaps a second user, an admin or at reception.
TwoUsers == {[p \in Pins |-> IF p = p1 THEN first ELSE second] :
  first \in {NewRow("admin", s1), [NewRow("admin", s1) EXCEPT !.failed = 1, !.lock = "past"]},
  second \in {NewRow("admin", s2), NewRow("reception", s2), Unused}}
HandlerSymmetry == Permutations({h1, h2})
=============================================================================
