-------------------------------- MODULE PegEdits -------------------------------
(***************************************************************************)
(* What survives an edit of the text (peg/src/incremental_edits.rs and      *)
(* cache_transforms.rs): the changed region between two texts, and whether  *)
(* an interval of the old text is before it, after it or touched by it.     *)
(* Positions count bytes from 0; an interval is half open.                  *)
(***************************************************************************)
EXTENDS Integers, Sequences

\* The bytes of an interval.
Piece(text, lo, hi) == SubSeq(text, lo + 1, hi)

Smaller(m, n) == IF m <= n THEN m ELSE n

\* take_while over two texts from the front: the lengths at which it may stop.
PrefixStops(old, new) ==
  {n \in 0..Smaller(Len(old), Len(new)) :
     n = Smaller(Len(old), Len(new)) \/ old[n + 1] # new[n + 1]}

\* ... and from the back, not reaching into the prefix.
SuffixStops(old, new, prefix) ==
  {n \in 0..(Smaller(Len(old), Len(new)) - prefix) :
     n = Smaller(Len(old), Len(new)) - prefix \/ old[Len(old) - n] # new[Len(new) - n]}

Least(S) == CHOOSE n \in S : \A m \in S : n <= m

\* boundary_plan_for_changed_text
boundary_plan(old, new) ==
  LET prefix == Least(PrefixStops(old, new))
      suffix == Least(SuffixStops(old, new, prefix))
  IN [prefix |-> prefix, old_edit_end |-> Len(old) - suffix, delta |-> Len(new) - Len(old)]

\* cache_interval_zone for an interval with lo <= hi.
cache_interval_zone(lo, hi, prefix, old_edit_end) ==
  IF hi <= prefix THEN "prefix" ELSE IF lo >= old_edit_end THEN "suffix" ELSE "none"

\* How far an interval of that zone moves.
Shift(zone, delta) == IF zone = "suffix" THEN delta ELSE 0
=============================================================================
