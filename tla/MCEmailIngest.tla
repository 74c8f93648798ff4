--------------------------- MODULE MCEmailIngest ---------------------------
(* Instances of EmailIngest for TLC. *)
EXTENDS EmailIngest

CONSTANTS r1

Mail(kind, ref, builtIn) == [kind |-> kind, ref |-> ref, builtIn |-> builtIn]

\* One booking and its cancellation, a mail for the built-in parser, and the
\* four ways not to become a reservation.
EveryKind == {Mail("booking", r1, FALSE), Mail("cancellation", r1, FALSE),
              Mail("booking", NoRef, TRUE), Mail("unreadable", NoRef, FALSE),
              Mail("unmatched", NoRef, FALSE), Mail("unsearchable", NoRef, FALSE),
              Mail("undecodable", NoRef, FALSE)}
Bookings == {Mail("booking", r1, FALSE)}
=============================================================================
