------------------------------- MODULE MCPlanner -------------------------------
(***************************************************************************)
(* Small instances of Planner: two ticks to a day and two days to a        *)
(* week, so that a sweep crosses midnight and a history crosses a week.    *)
(***************************************************************************)
EXTENDS Planner

\* Rest on the last day of the week, and on every day.
MCRestChoices == {{1}, {0, 1}}
SweepsAreAlike == Permutations(Sweeps)
=============================================================================
