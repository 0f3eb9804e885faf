-------------------------------- MODULE PegCache -------------------------------
(***************************************************************************)
(* What the position cache of the PEG library promises                      *)
(* (docs/peg/SPECIFICATION.md, section 11.1), apart from parsing: an entry  *)
(* is moved with its text by each edit and is dropped when the edit touches *)
(* what it examined.  An entry carries the bytes examined when it was       *)
(* recorded, a history the code does not have, so that they can be compared *)
(* with the bytes there now.                                                *)
(***************************************************************************)
EXTENDS PegEdits

CONSTANTS
  Chars,     \* characters
  RuleNames  \* the rules of the grammar

VARIABLES
  cached_text,   \* PositionCache.text
  entries        \* PositionCache.memo: a set of entries

cacheVars == <<cached_text, entries>>

Entry == [rule : RuleNames, start : Nat, end : Nat, lo : Nat, hi : Nat, seen : Seq(Chars)]

\* The matched span of an entry lies in its examined interval, and that in a text.
Inside(e, text) ==
  e \in Entry /\ e.lo <= e.start /\ e.start <= e.end /\ e.end <= e.hi /\ e.hi <= Len(text)

\* An entry recorded by a parse of a text.
Recorded(e, text) == Inside(e, text) /\ e.seen = Piece(text, e.lo, e.hi)

\* build_transformed_rule_cache_fast, one entry: it moves as a whole.  (The
\* code drops an entry that would move below 0; EntriesIntact says there is none.)
Moved(e, delta) == [e EXCEPT !.start = @ + delta, !.end = @ + delta, !.lo = @ + delta, !.hi = @ + delta]

ZoneOf(e, plan) == cache_interval_zone(e.lo, e.hi, plan.prefix, plan.old_edit_end)

\* The entries that survive an edit, where they are after it.
Rebased(old, new, S) ==
  LET plan == boundary_plan(old, new)
  IN {Moved(e, Shift(ZoneOf(e, plan), plan.delta)) : e \in {e \in S : ZoneOf(e, plan) # "none"}}

Init == cached_text = <<>> /\ entries = {}

\* A parse that succeeds: what it records is added to what survives, and anything may be
\* dropped (overwritten entries, the global limit).
Next ==
  /\ cached_text' \in Seq(Chars)
  /\ \A e \in entries' : \/ e \in Rebased(cached_text, cached_text', entries)
                         \/ Recorded(e, cached_text')

Spec == Init /\ [][Next]_cacheVars

\* Every entry lies in the text, and what it examined has not changed since it was
\* recorded, however many edits moved it.
EntriesIntact == \A e \in entries : Recorded(e, cached_text)
=============================================================================
