---------------------------- MODULE MCFrontDesk ----------------------------
(* Instances of FrontDesk for TLC. *)
EXTENDS FrontDesk, TLC

CONSTANTS single, r1, r2, h1, h2

Ask(a, b, c) == [u \in Units |-> CASE u = 0 -> a [] u = 1 -> b [] OTHER -> c]
\* One room by room_type, of the channel that is counted as a walk-in's, and two rooms of
\* one category by lines, of another.
OneOrTwo == {[cats |-> Ask(single, None, None), channel |-> "01"],
             [cats |-> Ask(None, single, single), channel |-> "other"]}
\* Touching; the booking there overlaps both.
TwoStays == {<<1, 2>>, <<2, 3>>}
\* A cancelled booking of two rooms that kept them, or nothing.
Cancelled ==
  [status |-> "cancelled", stay |-> <<1, 3>>, cats |-> Ask(None, single, single),
   room |-> Ask(None, 101, 102), ref |-> NoRef, channel |-> "other"]
CancelledOrNone ==
  {[r \in Res |-> IF r = q THEN first ELSE NoRow] : q \in Res, first \in {Cancelled, NoRow}}
Symmetry == Permutations({h1, h2}) \cup Permutations({r1, r2})
=============================================================================
