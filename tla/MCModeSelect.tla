---------------------------- MODULE MCModeSelect ----------------------------
(***************************************************************************)
(* Five hours, the first of two days of three hours and the second of two; *)
(* events before, across and after the border; two filters; three keys, so *)
(* that four todos need codes of two keys and the events codes of one.     *)
(***************************************************************************)
EXTENDS ModeSelect, TodoOrder

Ran(a, b) == [fr |-> a, to |-> b]

MCSpan == [e \in 1..3 |-> CASE e = 1 -> Ran(0, 2) [] e = 2 -> Ran(1, 4) [] e = 3 -> Ran(3, 5)]
MCViews == {Ran(0, 1), Ran(3, 4), Ran(2, 4)}
MCBounds == [v \in MCViews |-> CASE v = Ran(0, 1) -> Ran(0, 3) [] v = Ran(3, 4) -> Ran(3, 5)
                                 [] v = Ran(2, 4) -> Ran(0, 5)]
MCFilters == {-1, 0}
MCShows == [f \in MCFilters |-> IF f = -1 THEN 1..3 ELSE {1, 3}]
MCCalendars == {{1, 2, 3}, {2}}
MCTodoLists == {{}, {11, 12, 13, 14}}
MCMin == -1
MCMax == 6

\* struct key_gen gives the codes that ModeSelect counts, in the same order, and
\* perm.c does what it says for up to five elements.
ASSUME KeyCodes ==
    /\ \A k \in 1..Cardinality(Keys) :
         LET gen == KeyGen(Cardinality(Keys), k)
         IN  /\ Cardinality(KPerms(k)) = num_k_perm(Cardinality(Keys), k)
             /\ \A i \in DOMAIN gen : SubSeq(gen[i], 1, k) = key_gen_get(k, i - 1)
    /\ \A n \in 1..5 : \A k \in 1..n : Lexicographic(n, k)

\* todo_priority_cmp is an order, at a time when some todos have started, and
\* the todo list is sorted by it: all lists of up to five out of five todos, two
\* of them alike.
SomeTodos ==
    {[start |-> -1, due |-> -1, inprocess |-> TRUE, short |-> FALSE],
     [start |-> 1, due |-> 0, inprocess |-> FALSE, short |-> TRUE],
     [start |-> 1, due |-> 1, inprocess |-> FALSE, short |-> FALSE],
     [start |-> 0, due |-> 1, inprocess |-> FALSE, short |-> FALSE],
     [start |-> 2, due |-> 2, inprocess |-> FALSE, short |-> TRUE]}

ASSUME TodoListOrder ==
    /\ WeakOrder(TodoKeys({0, 2}), 1)
    /\ \A n \in 0..5 : \A v \in [1..n -> SomeTodos] : SortedFrom(heapsort(v, 1), v, 1)
=============================================================================
