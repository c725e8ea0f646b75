----------------------------- MODULE Recurrence -----------------------------
(***************************************************************************)
(* The occurrences of one component and how they are produced a piece at a *)
(* time: struct recurrence of src/src/common/libical_iface.c and the       *)
(* expansion half of struct comp in src/src/common/calendar.c.             *)
(*                                                                         *)
(* A component is a record whose fields carry the names of the C struct.   *)
(* The rule iterator of libical is `left`, the set of times it has yet to  *)
(* return: it returns them in increasing order, so a call of               *)
(* icalrecur_iterator_next removes the least one.  `ritr` says whether     *)
(* recur->ritr is non-NULL.  -1 stands for "no time", as in the code.      *)
(***************************************************************************)
EXTENDS Integers, FiniteSets, FiniteSetsExt

CONSTANTS
    Times,          \* the instants a component can mention
    Recurrences,    \* the recurrence rules the calendar files contain
    NoRecur         \* comp.recur = NULL

\* `ts` is a machine integer: there are finitely many instants.
ASSUME TimesAssumption == Times \subseteq Nat /\ IsFiniteSet(Times)

RecurrenceType == [rdate : SUBSET Times, exdate : SUBSET Times,
                   rrule : SUBSET Times]

ASSUME RecurrencesAssumption ==
    /\ Recurrences \subseteq RecurrenceType
    /\ NoRecur \notin Recurrences

(***************************************************************************)
(* struct recurrence                                                       *)
(***************************************************************************)

\* MUTANT of Cleared: recurrence_reset forgets to drop the time kept back.
Cleared_KeepsLast(c) ==
    [c EXCEPT !.ritr = FALSE, !.left = {}, !.recur_cache = {},
              !.all_expanded = FALSE]

\* recurrence_reset, with vec_clear(recur_cache) and all_expanded = false,
\* which calendar_expand_instances_to always performs together.
Cleared(c) ==
    [c EXCEPT !.ritr = FALSE, !.left = {}, !.last = -1,
              !.recur_cache = {}, !.all_expanded = FALSE]

\* The RDATEs are reported by the call that opens the iterator, whatever
\* its `to`; an EXDATE suppresses an RDATE and nothing else.
RdatesOut(c) == IF c.ritr THEN {} ELSE c.recur.rdate \ c.recur.exdate

\* What the iterator has yet to return when the loop begins.
Unread(c) == IF c.ritr THEN c.left ELSE c.recur.rrule

\* The time kept back by an earlier call is still too late.
Blocked(c, to) == c.last # -1 /\ c.last > to

RruleOut(c, to) ==
    IF Blocked(c, to) THEN {}
    ELSE ({c.last} \ {-1}) \cup {t \in Unread(c) : t <= to}

Beyond(c, to) == {t \in Unread(c) : t > to}

\* MUTANT of recurrence_expand: when the rule ends, the time reported last is
\* not cleared, and is reported again by the next call.
recurrence_expand_RepeatsLast(c, to) ==
    IF Blocked(c, to) THEN [c EXCEPT !.ritr = TRUE, !.left = Unread(c)]
    ELSE IF Beyond(c, to) = {}
         THEN [c EXCEPT !.ritr = TRUE, !.left = {}]
         ELSE [c EXCEPT !.ritr = TRUE,
                        !.last = Min(Beyond(c, to)),
                        !.left = Beyond(c, to) \ {Min(Beyond(c, to))}]

\* MUTANT of recurrence_expand: it keeps the end of the horizon instead of the
\* time it has read too far.
recurrence_expand_KeepsHorizon(c, to) ==
    [c EXCEPT !.ritr = TRUE, !.last = to + 1, !.left = Beyond(c, to)]

\* The state recurrence_expand leaves: everything up to `to` is read, and so
\* is the first time after it, which waits in `last`.
recurrence_expand(c, to) ==
    IF Blocked(c, to) THEN [c EXCEPT !.ritr = TRUE, !.left = Unread(c)]
    ELSE IF Beyond(c, to) = {}
         THEN [c EXCEPT !.ritr = TRUE, !.left = {}, !.last = -1]
         ELSE [c EXCEPT !.ritr = TRUE,
                        !.last = Min(Beyond(c, to)),
                        !.left = Beyond(c, to) \ {Min(Beyond(c, to))}]

(***************************************************************************)
(* struct comp                                                             *)
(*                                                                         *)
(* An occurrence is [recurrence_id, via]; `via` says which source of       *)
(* times reported it, so that a time that is both an RDATE and a rule time *)
(* (which the code reports twice) counts as two occurrences.               *)
(***************************************************************************)
Occ(t, via) == [recurrence_id |-> t, via |-> via]

\* The occurrences that comp_recur_expand reports to its callback.
Reported(c, to) ==
    IF c.recur # NoRecur
    THEN {Occ(t, "rdate") : t \in RdatesOut(c)}
             \cup {Occ(t, "rrule") : t \in RruleOut(c, to)}
    ELSE IF c.all_expanded THEN {} ELSE {Occ(-1, "single")}

\* rdp.start of an occurrence (comp_recur_expand, recur_cb_fn): the start of
\* the recurrence instance with this id, if there is one.
OccStart(c, o) ==
    IF o.recurrence_id = -1 THEN c.start
    ELSE IF o.recurrence_id \in DOMAIN c.recur_insts
         THEN c.recur_insts[o.recurrence_id]
         ELSE o.recurrence_id

\* MUTANT of comp_recur_expand: each call starts the cache afresh.
comp_recur_expand_FreshCache(c, to) ==
    LET cache == {OccStart(c, o) : o \in Reported(c, to)}
    IN  IF c.recur # NoRecur
        THEN [recurrence_expand(c, to) EXCEPT !.recur_cache = cache]
        ELSE [c EXCEPT !.recur_cache = cache, !.all_expanded = TRUE]

comp_recur_expand(c, to) ==
    LET cache == c.recur_cache \cup {OccStart(c, o) : o \in Reported(c, to)}
    IN  IF c.recur # NoRecur
        THEN [recurrence_expand(c, to) EXCEPT !.recur_cache = cache]
        ELSE [c EXCEPT !.recur_cache = cache, !.all_expanded = TRUE]

\* comp_get_recur_point finds something for this id.
comp_get_recur_point(c, t) == t \in DOMAIN c.recur_insts \cup c.recur_cache

\* Appending to recur_insts: every reader takes the first entry with the id,
\* so a second entry with the same id is never seen.
WithRecurInst(c, t, start) ==
    IF t \in DOMAIN c.recur_insts THEN c
    ELSE [c EXCEPT !.recur_insts =
              [u \in DOMAIN c.recur_insts \cup {t} |->
                  IF u = t THEN start ELSE c.recur_insts[u]]]

(***************************************************************************)
(* What the expansion should come to: the occurrences a component has up   *)
(* to a horizon, read off its properties alone.                            *)
(***************************************************************************)
OccurrencesUpTo(c, horizon) ==
    IF c.recur = NoRecur THEN {Occ(-1, "single")}
    ELSE {Occ(t, "rdate") : t \in c.recur.rdate \ c.recur.exdate}
             \cup {Occ(t, "rrule") : t \in {u \in c.recur.rrule : u <= horizon}}
=============================================================================
