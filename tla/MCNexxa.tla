------------------------------ MODULE MCNexxa -------------------------------
(* Small instances of Nexxa.                                               *)
EXTENDS Nexxa, TLC

Symmetry == Permutations(Ips) \cup Permutations(Callers)

MCCaps == [l \in Lists |-> IF l = "recommendations" THEN 2 ELSE 1] @@ [k \in Keys |-> 2]

\* The least int, as far as TLC's integers go.
LeastInt == -2147483647 - 1

\* Scores that add up to nothing, that are out of range, that are no numbers, and
\* whose shares round to 99, to 100 and to 101.
Scores ==
  {[pplg |-> s[1], akuntansi |-> s[2], hotel |-> s[3]] :
     s \in {<<0, 0, 0>>, <<-1, 50, 50>>, <<101, 0, 0>>, <<1, 1, 1>>, <<0, 1, 1>>,
            <<100, 99, 1>>, <<95, 95, 10>>, <<1, 99, 100>>, <<1, 7, 0>>, <<1, 1, 58>>,
            <<NaN, 50, 50>>, <<0, NaN, 101>>}}

MatchOutputs ==
  [form : {"json"}, major : {"pplg"}, scores : Scores]
    \cup {[form |-> f, major |-> m, scores |-> [pplg |-> 1, akuntansi |-> 0, hotel |-> 2]] :
            <<f, m>> \in {<<"json", "hotel">>, <<"json", "design">>, <<"prose", "hotel">>}}

Item(n, ok) == [name |-> n, object |-> TRUE, complete |-> ok]

NoObject == [name |-> "", object |-> FALSE, complete |-> FALSE]

Audits(form, summary, metrics, scores, items) ==
  {[form |-> form, summary |-> summary, metrics |-> metrics, score |-> n, format_score |-> 100,
    lists |-> [l \in Lists |-> IF l = "recommendations" THEN i ELSE <<Item("d", TRUE)>>],
    keys |-> [key_strengths |-> <<"", "x", "y", "z">>, key_improvements |-> <<"x">>]] :
     n \in scores, i \in items}

\* Lists that end before the cap, at it, and after it, with incomplete items on
\* either side of it, and with one that is no object after it.
CvOutputs ==
  Audits("json", TRUE, TRUE, {-5, 101},
         {<<Item("a", FALSE)>>, <<Item("a", TRUE), Item("b", FALSE)>>,
          <<Item("a", TRUE), Item("b", TRUE), Item("c", FALSE)>>,
          <<Item("b", TRUE), Item("a", TRUE), Item("c", TRUE)>>,
          <<Item("a", TRUE), Item("b", TRUE), NoObject>>})
    \cup Audits("prose", TRUE, TRUE, {70}, {<<>>}) \cup Audits("json", FALSE, TRUE, {70}, {<<>>})
    \cup Audits("json", TRUE, FALSE, {70}, {<<>>})

MCOutputs == [chat |-> {"text"}, match |-> MatchOutputs, cv |-> CvOutputs]
=============================================================================
