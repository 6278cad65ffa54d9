------------------------------ MODULE CvAudit -------------------------------
(***************************************************************************)
(* What cvreview makes of the audit that the language model writes: lists  *)
(* are cut to a length, items get new numbers, scores are pressed into     *)
(* their range, and an audit of which something is missing is refused.     *)
(*                                                                         *)
(* An item of a list is given by a name, by whether it is an object (or    *)
(* null), and by whether its required fields are there and valid.  A list  *)
(* that is no list counts as one of which an item is no object, strings    *)
(* that are no list of strings as none, a blank string as "".  The number  *)
(* of an item is its id, but for grammar issues, which have none and go by *)
(* their place.                                                            *)
(***************************************************************************)
EXTENDS Integers, Sequences

CONSTANT Caps \* how many items are kept of each list

Lists == {"grammar_issues", "recommendations", "strengths_detail"}
Keys  == {"key_strengths", "key_improvements"}

ASSUME CvAuditAssumption == Caps \in [Lists \cup Keys -> Nat \ {0}]

clampInt(n) == IF n < 0 THEN 0 ELSE IF n > 100 THEN 100 ELSE n

Reading == [ok |-> TRUE, full |-> FALSE, out |-> <<>>]

\* Slip: the list is cut one item late.
LateFull(out, cap) == Len(out) > cap

Full(out, cap) == Len(out) >= cap

\* One round of the loop over a list: an incomplete item ends it, and so does the
\* last one that there is room for.
ReadItem(r, item, cap) ==
  IF ~r.ok \/ r.full THEN r
  ELSE IF ~item.complete THEN [r EXCEPT !.ok = FALSE]
  ELSE LET out == Append(r.out, [id |-> Len(r.out) + 1, name |-> item.name])
       IN [ok |-> TRUE, full |-> Full(out, cap), out |-> out]

\* The loop over a list.
ReadList(list, cap) ==
  LET read[i \in 0 .. Len(list)] ==
        IF i = 0 THEN Reading ELSE ReadItem(read[i - 1], list[i], cap)
  IN read[Len(list)]

\* normalizeGrammarIssues, normalizeRecommendations, normalizeStrengthsDetail: the
\* whole list is unmarshalled before the first item is looked at.
NormalizedList(list, cap) ==
  IF \E i \in DOMAIN list : ~list[i].object THEN [Reading EXCEPT !.ok = FALSE]
  ELSE ReadList(list, cap)

ReadString(r, s, cap) ==
  IF r.full \/ s = "" THEN r
  ELSE LET out == Append(r.out, s) IN [ok |-> TRUE, full |-> Full(out, cap), out |-> out]

\* normalizeStringSlice.
NormalizedStrings(list, cap) ==
  LET read[i \in 0 .. Len(list)] ==
        IF i = 0 THEN Reading ELSE ReadString(read[i - 1], list[i], cap)
  IN read[Len(list)].out

\* NormalizeCvOutput refuses this.
Unusable(said) ==
  \/ said.form # "json" \/ ~said.summary \/ ~said.metrics
  \/ \E l \in Lists : ~NormalizedList(said.lists[l], Caps[l]).ok

\* What it makes of the rest.
Audit(said) ==
  [score        |-> clampInt(said.score),
   format_score |-> clampInt(said.format_score),
   lists        |-> [l \in Lists |-> NormalizedList(said.lists[l], Caps[l]).out],
   keys         |-> [k \in Keys |-> NormalizedStrings(said.keys[k], Caps[k])]]
=============================================================================
