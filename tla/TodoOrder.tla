------------------------------ MODULE TodoOrder ------------------------------
(***************************************************************************)
(* The order of the todo list: todo_priority_cmp of application.c, and     *)
(* heapsort.c, with which proj_active_todos_done sorts by it.              *)
(***************************************************************************)
EXTENDS Integers, SequencesExt

\* What the comparison reads of a todo; -1 stands for no time.
TodoKeys(times) ==
    [start : times \cup {-1}, due : times \cup {-1}, inprocess : BOOLEAN, short : BOOLEAN]

todo_priority_cmp(a, b, now) ==
    LET started(x) == x.start = -1 \/ x.start <= now
    IN  \/ a.inprocess /\ ~b.inprocess
        \/ /\ a.inprocess = b.inprocess
           /\ \/ started(a) /\ ~started(b)
              \/ /\ started(a) = started(b)
                 /\ \/ a.short /\ ~b.short
                    \/ /\ a.short = b.short
                       /\ a.due # -1 /\ (b.due = -1 \/ a.due < b.due)

(***************************************************************************)
(* Heapsort: the children of place i are 2i and 2i + 1                     *)
(***************************************************************************)
Swap(v, i, j) == [v EXCEPT ![i] = v[j], ![j] = v[i]]

RECURSIVE siftDown(_, _, _, _)
siftDown(v, root, end, now) ==
    LET lt(i, j) == todo_priority_cmp(v[i], v[j], now)
        child == IF 2 * root <= end /\ lt(root, 2 * root) THEN 2 * root ELSE root
        swap == IF 2 * root + 1 <= end /\ lt(child, 2 * root + 1) THEN 2 * root + 1 ELSE child
    IN  IF swap = root THEN v ELSE siftDown(Swap(v, root, swap), swap, end, now)

heapify(v, now) ==
    FoldRight(LAMBDA root, w : siftDown(w, root, Len(v), now),
              [i \in 1..(Len(v) \div 2) |-> i], v)

heapsort(v, now) ==
    FoldRight(LAMBDA end, w : siftDown(Swap(w, 1, end), 1, end - 1, now),
              [i \in 1..(Len(v) - 1) |-> i + 1], heapify(v, now))

(***************************************************************************)
(* What a list needs of its order                                          *)
(***************************************************************************)
\* A strict order in which todos that are not before one another are alike.
WeakOrder(S, now) ==
    LET lt(a, b) == todo_priority_cmp(a, b, now)
        alike(a, b) == ~lt(a, b) /\ ~lt(b, a)
    IN  \A a, b, c \in S :
          /\ ~lt(a, a)
          /\ lt(a, b) /\ lt(b, c) => lt(a, c)
          /\ alike(a, b) /\ alike(b, c) => alike(a, c)

\* The same todos, none after one that it precedes.
SortedFrom(w, v, now) ==
    /\ \A x \in Range(v) \cup Range(w) :
         Cardinality({i \in DOMAIN v : v[i] = x}) = Cardinality({i \in DOMAIN w : w[i] = x})
    /\ \A i, j \in DOMAIN w : i < j => ~todo_priority_cmp(w[j], w[i], now)
=============================================================================
