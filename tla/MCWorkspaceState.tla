--------------------------- MODULE MCWorkspaceState ---------------------------
(***************************************************************************)
(* Small instances of WorkspaceState: two settings, three patch files that *)
(* touch the same list, category and searches, and two that do not apply.  *)
(***************************************************************************)
EXTENDS WorkspaceState

CONSTANTS a, b, on, off, topic, weak, strong, timezone, rest_days

MCDefaults == [x \in {timezone, rest_days} |-> off]
MCSaves == {(timezone :> on @@ rest_days :> None), (timezone :> None @@ rest_days :> on),
            (timezone :> on @@ rest_days :> Bad)}

Op(field, items, c, level) == [field |-> field, items |-> items, about |-> c, level |-> level]
MCFiles == {
  [form |-> "nested", ops |-> <<Op("key_learnings", {a}, None, None), Op("key_learnings", {b}, None, None),
                                Op("coverage_by_role_category", {}, topic, weak),
                                Op("coverage_by_role_category", {}, topic, strong)>>],
  [form |-> "flat",   ops |-> <<Op("key_learnings", {a}, None, None),
                                Op("coverage_by_role_category", {}, topic, weak),
                                Op("recommended_next_searches", {b}, None, None)>>],
  [form |-> "flat",   ops |-> <<Op("avoid_sources", {a}, None, None),
                                Op("recommended_next_searches", {a}, None, None)>>],
  [form |-> "nested", ops |-> <<Op("key_learnings", {a}, None, None), Op("sources", {b}, None, None)>>],
  [form |-> "absent", ops |-> <<>>]}

TabsAndRunsAreAlike == Permutations(Clients) \cup Permutations(Reflections)
===============================================================================
