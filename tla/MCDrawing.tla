------------------------------ MODULE MCDrawing ------------------------------
(***************************************************************************)
(* Two years of two months, of two days and one, of three hours each; one  *)
(* day has an hour less, one an hour more, and one begins an hour late.    *)
(* Four events, and three bits for the columns: more events may overlap    *)
(* than there are columns.  One span ends before it begins, as an edit of  *)
(* an instance may leave it.  A view of days, one of months, one of years, *)
(* and one of the late day.                                                *)
(***************************************************************************)
EXTENDS Drawing, TodoSchedule

MCDays == [ym \in (1..3) \X (1..2) |-> IF ym[2] = 1 THEN 2 ELSE 1]
Of(y, m, d, hours) == [k \in DOMAIN hours |-> <<y, m, d, hours[k]>>]
MCClock ==
    Of(1, 1, 1, <<0, 1, 2>>) \o Of(1, 1, 2, <<0, 2>>) \o Of(1, 2, 1, <<0, 1, 1, 2>>)
        \o Of(2, 1, 1, <<0, 1, 2>>) \o Of(2, 1, 2, <<1, 2>>) \o Of(2, 2, 1, <<0, 1, 2>>)

MCViews == {Ran(1, 5), Ran(2, 9), Ran(4, 15), Ran(12, 14)}
MCSpans == {Ran(1, 4), Ran(2, 4), Ran(2, 5), Ran(4, 5), Ran(0, 11), Ran(4, 8), Ran(9, 13), Ran(3, 2)}
\* The events are the indices of an array in no particular order.
Perms == Permutations(Events)

\* Two todos between two events, in every order; and the test of test_main.c.
MCTodos == [start : {-1, 1, 3}, estimated_duration : 0..2]
MCEvents == {Ran(0, 1), Ran(0, 3), Ran(1, 2), Ran(2, 3), Ran(2, 4)}

ASSUME TodosScheduled ==
    /\ \A base \in 0..3, E \in [1..2 -> MCEvents], T \in [1..2 -> MCTodos] :
         Scheduled(base, E, T)
    /\ LET todo(n) == [start |-> 0, estimated_duration |-> n]
       IN  todo_schedule(0, <<Ran(3, 8), Ran(6, 10), Ran(13, 15)>>,
                         <<todo(3), todo(2), todo(1), todo(2)>>)
               = <<Ran(0, 3), Ran(10, 12), Ran(12, 13), Ran(15, 17)>>
=============================================================================
