--------------------------- MODULE MCResumeTailor ---------------------------
EXTENDS ResumeTailor
CONSTANTS sql, python, other

\* Two experiences that share the bullet "b"; "both" is a merged quotation.  A
\* plan of the one may quote a bullet of the other.
MCExperiences  == {1, 2}
MCBullets      == 1 :> {"a", "b"} @@ 2 :> {"c", "b"}
MCDocument     == <<"a", "b", "c", "b">>
MCMultiLine    == {"c"}
MCCapabilities == {sql, python, other}
MCRequirements == {{sql}, {sql, python}}
MCFactSets     == {<<>>, <<1, 2>>}
MCMatches == {sql :> "direct" @@ python :> "gap" @@ other :> None,
              sql :> "adjacent" @@ python :> "direct" @@ other :> "weak",
              sql :> None @@ python :> "supporting" @@ other :> None}
MCStrategies ==
  {[decided |-> {<<sql, "foreground">>}, budget |-> 1],
   [decided |-> {<<sql, "bridge">>, <<python, "foreground">>}, budget |-> 1],
   [decided |-> {<<sql, "foreground">>, <<sql, "ask_candidate">>, <<other, "bridge">>}, budget |-> 3],
   [decided |-> {<<python, "minimal_mention">>}, budget |-> 1]}

B(e, t, c, s, i) == [exp |-> e, text |-> t, serves |-> c, strength |-> s, cites |-> i]
S(e, bs) == [exp |-> e, bullets |-> bs]
MCPlans ==
  {<<>>,
   <<S(1, <<B(1, "b", sql, "direct", {1}), B(1, "a", Breadth, "adjacent", {})>>)>>,
   <<S(1, <<B(1, "a", sql, "direct", {2})>>), S(2, <<B(2, "c", python, "direct", {2})>>)>>,
   <<S(1, <<B(1, "a", python, "direct", {1})>>), S(1, <<B(1, "b", sql, "adjacent", {1, 3})>>)>>,
   <<S(1, <<B(1, "both", sql, "supporting", {1})>>), S(3, <<B(3, "c", other, "direct", {})>>)>>,
   <<S(2, <<B(2, "a", sql, "direct", {1})>>), S(1, <<B(1, "a", sql, "direct", {1})>>)>>}
MCVerdicts ==
  {[passed |-> TRUE, fixes |-> {}], [passed |-> FALSE, fixes |-> {}],
   [passed |-> FALSE, fixes |-> {"writing"}], [passed |-> FALSE, fixes |-> {"strategy"}]}
=============================================================================
