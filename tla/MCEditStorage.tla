--------------------------- MODULE MCEditStorage ---------------------------
(***************************************************************************)
(* Calendar directories for TLC: the files other programs write and the    *)
(* edits users make, small enough to try every order of the two.           *)
(***************************************************************************)
EXTENDS EditStorage

Entry(rid, recurs, p) == [rid |-> rid, type |-> "event", recurs |-> recurs, p |-> p]
EditSpec(method, rid, p, rem) ==
    [method |-> method, type |-> "event", rid |-> rid, p |-> p, rem |-> rem]

At(t) == [start |-> t, end |-> t + 1]
Marked(t) == [start |-> t, end |-> t + 1, status |-> "cancelled"]
MarkOnly == [status |-> "confirmed"]
Until(t) == [end |-> t]
Related(t) == [start |-> t, end |-> t + 1, related_to |-> "parent"]

MCTimes == 1..3
MCOffsets == {0, 1}

\* Two versions of an event and one that is not valid, a todo instead of it,
\* and an event that has become recurring.
MCContents == {<<Entry(-1, FALSE, At(1))>>, <<Entry(-1, FALSE, Marked(2))>>,
               <<Entry(-1, FALSE, MarkOnly)>>,
               <<[Entry(-1, FALSE, NoProps) EXCEPT !.type = "todo"]>>,
               <<Entry(-1, TRUE, At(1))>>}

MCEdits == {EditSpec("update", -1, MarkOnly, {}),
            EditSpec("update", -1, Related(2), {"status"}),
            EditSpec("update", -1, NoProps, {"start"}),
            EditSpec("update", 2, Until(2), {}),
            EditSpec("create", -1, At(3), {}),
            EditSpec("create", -1, [related_to |-> "parent"], {}),
            EditSpec("delete", -1, NoProps, {})}

\* A daily event, and what a key press does to one day of it.
RuleContents == {<<Entry(-1, TRUE, At(1))>>}
InstanceEdits == {EditSpec("update", 2, MarkOnly, {})}

\* An end that is one of the first day, for the second.
EndEdits == {EditSpec("update", 2, Until(2), {})}
=============================================================================
