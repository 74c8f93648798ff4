----------------------------- MODULE MCReparse -----------------------------
(* Instances of Reparse for TLC. *)
EXTENDS Reparse, TLC

CONSTANTS p1, p2, h1, h2, e1, e2, html, fromOta, oldRef

Guest(finds, converts) == [target |-> "guest", finds |-> finds, converts |-> converts,
                           required |-> TRUE, valid |-> TRUE]
Ref == [target |-> "ref", finds |-> {html}, converts |-> {html}, required |-> FALSE, valid |-> TRUE]
\* The guest, whose dates can be read or not, and the reference.
ThreeFields == {Guest({html}, {html}), Guest({html}, {}), Ref}

ThreeMails == {[subject |-> fromOta, format |-> html, ref |-> oldRef, builtIn |-> b] : b \in BuiltIn}
Complete(kind) == [status |-> "active", subject |-> "any", lines |-> "sound", kind |-> kind,
                   fields |-> {Guest({html}, {html}), Ref}]
Ready == {Complete("reservation"), Complete("cancellation")}
Patch(status, subject, lines) == [status |-> status, subject |-> subject, lines |-> lines]
TwoPatches == {Patch("inactive", "any", "sound"), Patch("active", "broken", "sound")}
Symmetry == Permutations({h1, h2}) \cup Permutations({e1, e2}) \cup Permutations({p1, p2})
=============================================================================
