---------------------------- MODULE MatchScores -----------------------------
(***************************************************************************)
(* What match makes of the scores that the language model gives the three  *)
(* majors: shares of 100.  Scores are whole numbers here, since the shares *)
(* depend on their proportions alone, or the string NaN, which             *)
(* strconv.ParseFloat takes for a number.                                  *)
(***************************************************************************)
EXTENDS Integers

CONSTANTS NaN,     \* the score that is not a number
          NaNAsInt \* int(math.NaN()): 0 or the least int, by the processor

ASSUME MatchScoresAssumption == NaN \notin Int /\ NaNAsInt \in Int

Majors == {"pplg", "akuntansi", "hotel"}

Numbers(s) == \A m \in Majors : s[m] \in Int

Total(s) == s["pplg"] + s["akuntansi"] + s["hotel"]

\* A score that is missing fails the same checks as one below zero, as does a
\* string that does not parse; null is 0.  NaN passes: it is neither below 0
\* nor above 100, and a total with it is not below 0 either.
Acceptable(s) ==
  /\ \A m \in Majors : s[m] = NaN \/ s[m] \in 0 .. 100
  /\ Numbers(s) => Total(s) > 0

\* math.Round(s[m] * 100 / total).
Rounded(s) == [m \in Majors |-> (200 * s[m] + Total(s)) \div (2 * Total(s))]

\* The first of the largest.
Largest(r) ==
  IF r["hotel"] > r["pplg"] /\ r["hotel"] > r["akuntansi"] THEN "hotel"
  ELSE IF r["akuntansi"] > r["pplg"] THEN "akuntansi" ELSE "pplg"

\* Slip: what rounding left over always goes to the same major.
HotelPays(r) == [r EXCEPT !["hotel"] = @ + (100 - Total(r))]

\* The largest gets what rounding left over, or pays what it took too much.
Corrected(r) == [r EXCEPT ![Largest(r)] = @ + (100 - Total(r))]

\* One NaN makes a total that is none, and all three shares int(NaN).  Of these v
\* the first gets v + (100 - 3v), which is 100 in 64 bits.
Shares(s) ==
  IF Numbers(s) THEN Corrected(Rounded(s))
  ELSE [m \in Majors |-> IF m = "pplg" THEN 100 ELSE NaNAsInt]
=============================================================================
