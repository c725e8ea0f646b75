-------------------------- MODULE MCEditorSession --------------------------
(***************************************************************************)
(* A calendar with events and todos, days of four minutes of two seconds,  *)
(* a clock that is set back by a minute at the tenth second, and the texts *)
(* that lead app_cmd_editor to each of its ends.                           *)
(***************************************************************************)
EXTENDS EditorSession

MCDays == {0, 1}

\* An event and a todo that a text can hold, and an event in the minute that comes
\* again, with a second too many and a comma in the name of its category.
Event == [type |-> "event", p |-> [start |-> 2, end |-> 4, summary |-> "s"]]
Later == [type |-> "event", p |-> [start |-> 8, end |-> 13,
                                   cats |-> [parts |-> <<"a", "b">>, commas |-> {1}]]]
Todo == [type |-> "todo", p |-> [due |-> 12, status |-> "needsaction"]]

\* The second uid is for the components that are made here.
MCContents == [u1 |-> {Event, Later, Todo}, u2 |-> {}]

At(day, time) == [day |-> day, time |-> time]
Text(method, type, lines) ==
    [method |-> method, type |-> type, newline |-> TRUE, lines |-> lines]

\* An event of today, written in two ways: first with the end before the start,
\* and a relation.
Backwards == Text("create", "event",
    <<Line("start", At(-1, 2)), Line("end", At(-1, 1)), Line("related_to", "parent"),
      Line("calendar", 1)>>)
Today == Text("create", "event",
    <<Line("start", At(-1, 2)), Line("end", At(-1, 3)), Line("calendar", 1), Comment>>)
\* A date that is incomplete, a calendar that is missing, and no last newline.
Unplaced == Text("update", "event", <<Line("start", At(0, 0)), Line("uid", "u1")>>)
Moved == Text("update", "event",
    <<Line("end", At(1, 1)), Line("status", "confirmed"), Line("uid", "u1"), Line("calendar", 1)>>)
Cleared == Text("update", "todo",
    <<Line("due", Removal), Line("related_to", "parent"), Line("status", "completed"),
      Line("uid", "u1"), Line("calendar", 1)>>)
Deleted == Text("delete", "event", <<Line("uid", "u1"), Line("calendar", 1)>>)
Unfinished == [Text("create", "todo", <<Line("calendar", 2), Comment>>) EXCEPT !.newline = FALSE]

MCDrafts == {Backwards, Today, Unplaced, Moved, Cleared, Deleted, Unfinished}
=============================================================================
