------------------------ MODULE MCCalendarRefinement ------------------------
(***************************************************************************)
(* A calendar of three instants for TLC: a rule for the last two of them,  *)
(* with an RDATE on one of its own days, another RDATE that is excluded,   *)
(* and an EXDATE; checked against CalendarView too.  Names of components   *)
(* and types may be exchanged.                                             *)
(***************************************************************************)
EXTENDS CalendarRefinement, TLC

MCTimes == 0..2
MCRecurrences == {[rdate |-> {0, 1}, exdate |-> {0}, rrule |-> {1, 2}]}
Perms == Permutations(Uids) \cup Permutations(Types)
=============================================================================
