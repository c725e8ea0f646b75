---------------------------- MODULE CalendarView ----------------------------
(***************************************************************************)
(* What a calendar promises the rest of the program: a table from uid to   *)
(* component that edits and files change one uid at a time, and, per type, *)
(* the instances of every component in the table up to some horizon.       *)
(* Module Calendar keeps superseded and deleted components, a map that     *)
(* never forgets, and instances that it adds to piece by piece;            *)
(* CalendarRefinement shows that none of this can be seen from outside.    *)
(***************************************************************************)
EXTENDS Recurrence

CONSTANTS Uids, Types, Starts, InstIds, Absent

VARIABLES
    table,      \* uid -> the component, or Absent
    known,      \* the uids ever used: none of them can be created again
    settled,    \* per type: `shown` can be relied on
    shown       \* per type: the instances the calendar stands for

viewVars == <<table, known, settled, shown>>

Entry(ty, s, r) ==
    [type |-> ty, start |-> s, recur |-> r, recur_insts |-> [t \in {} |-> 0]]

Present == {u \in Uids : table[u] # Absent}

\* Everything the table contains, instance by instance.
Due(ty, horizon) ==
    UNION {{[uid |-> u, recurrence_id |-> o.recurrence_id, via |-> o.via,
             start |-> OccStart(table[u], o)] :
                o \in OccurrencesUpTo(table[u], horizon)} :
           u \in {v \in Present : table[v].type = ty}}

ViewInit ==
    /\ table = [u \in Uids |-> Absent]
    /\ known = {}
    /\ settled = [ty \in Types |-> FALSE]
    /\ shown = [ty \in Types |-> {}]

\* While a type is not settled its instances mean nothing.
Unsettle(tys) ==
    /\ settled' = [ty \in Types |-> settled[ty] /\ ty \notin tys]
    /\ shown' = [ty \in Types |-> IF ty \in tys THEN {} ELSE shown[ty]]

\* A component replaces whatever the uid stood for.
Put(u, ty, s, r) ==
    /\ table' = [table EXCEPT ![u] = Entry(ty, s, r)]
    /\ known' = known \cup {u}
    /\ Unsettle({ty} \cup (IF u \in Present THEN {table[u].type} ELSE {}))

\* The start of the base component, or of one recurrence instance, changes.
Change(u, c) ==
    /\ u \in Present
    /\ table' = [table EXCEPT ![u] = c]
    /\ Unsettle({table[u].type})
    /\ UNCHANGED known

SetStart(u, s) == Change(u, [table[u] EXCEPT !.start = s])

SetInst(u, t, s) ==
    Change(u, [WithRecurInst(table[u], t, t) EXCEPT !.recur_insts[t] = s])

ReadInst(u, t, s) == Change(u, WithRecurInst(table[u], t, s))

\* Whoever removes a component may name another type than its own.
Remove(u, ty) ==
    /\ u \in Present
    /\ table' = [table EXCEPT ![u] = Absent]
    /\ Unsettle({table[u].type, ty})
    /\ UNCHANGED known

\* Files are about to be read, a filter changed, or an entry that no longer
\* shows was touched: some types have to be expanded again.
Disturb ==
    /\ \E tys \in SUBSET Types : Unsettle(tys)
    /\ UNCHANGED <<table, known>>

\* The instances of some types become exactly those of the table.
Settle ==
    /\ \E tys \in SUBSET Types, horizon \in Times \cup {0} :
           /\ settled' = [ty \in Types |-> settled[ty] \/ ty \in tys]
           /\ shown' = [ty \in Types |->
                           IF ty \in tys THEN Due(ty, horizon) ELSE shown[ty]]
    /\ UNCHANGED <<table, known>>

ViewNext ==
    \/ \E u \in Uids, ty \in Types, s \in Starts, r \in Recurrences \cup {NoRecur} :
           Put(u, ty, s, r)
    \/ \E u \in Uids, s \in Starts : SetStart(u, s)
    \/ \E u \in Uids, ty \in Types : Remove(u, ty)
    \/ \E u \in Uids, t \in InstIds, s \in Starts :
           SetInst(u, t, s) \/ ReadInst(u, t, s)
    \/ Disturb
    \/ Settle

View == ViewInit /\ [][ViewNext]_viewVars
=============================================================================
