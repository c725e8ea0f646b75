------------------------- MODULE CalendarRefinement -------------------------
(***************************************************************************)
(* Calendar implements CalendarView: the live component of a uid is the    *)
(* table's entry, and the instances of the tree and of the application,    *)
(* named by uid instead of by index, are the instances shown.              *)
(***************************************************************************)
EXTENDS Calendar

CONSTANT Absent

\* What an entry of the table shows of a component.
RowType ==
    [type : Types, start : Times, recur : Recurrences \cup {NoRecur},
     recur_insts : UNION {[D -> Times] : D \in SUBSET Times}]

ASSUME AbsentAssumption == Absent \notin RowType

LiveIndices == {i \in Indices : ~comps_vec[i].deleted}

tableBar ==
    [u \in Uids |->
        IF \E i \in LiveIndices : comps_vec[i].uid = u
        THEN LET c == comps_vec[CHOOSE i \in LiveIndices : comps_vec[i].uid = u]
             IN  [type |-> c.type, start |-> c.start, recur |-> c.recur,
                  recur_insts |-> c.recur_insts]
        ELSE Absent]

knownBar == {u \in Uids : comps_map[u] # NotFound}

settledBar == [ty \in Types |-> Current(ty)]

shownBar ==
    [ty \in Types |->
        IF Current(ty)
        THEN {[uid |-> comps_vec[ci.comp_idx].uid,
               recurrence_id |-> ci.recurrence_id,
               via |-> ci.via, start |-> ci.start] : ci \in cis[ty] \cup taken[ty]}
        ELSE {}]

Promise == INSTANCE CalendarView WITH
    table <- tableBar, known <- knownBar, settled <- settledBar, shown <- shownBar

\* Seen from outside, every call of the calendar changes the table for one
\* uid or brings the instances of a type up to date, and nothing else
\* (calendar.c and apply_to_memory of editor.c).
Implements == Promise!View
=============================================================================
