---------------------------- MODULE TodoSchedule ----------------------------
(***************************************************************************)
(* todo_schedule.c: todos, in the order given, are put into the time that  *)
(* events leave free.  A time range is a record, an event has one.  The    *)
(* application has the call commented out; a test of the repository makes  *)
(* it.                                                                     *)
(***************************************************************************)
EXTENDS Integers, SequencesExt, TLC

Unscheduled == [fr |-> -1, to |-> -1]
max_ts(a, b) == IF a < b THEN b ELSE a

\* cmp_point: by time, ends before starts.
Points(E) ==
    LET ends == [i \in 1..(2 * Len(E)) |->
                    IF i <= Len(E) THEN [v |-> E[i].fr, s |-> TRUE]
                    ELSE [v |-> E[i - Len(E)].to, s |-> FALSE]]
    IN  SortSeq(ends, LAMBDA p, q : p.v < q.v \/ (p.v = q.v /\ ~p.s /\ q.s))

\* Events that overlap the time between two points.
Depth(p, i) == Cardinality({j \in 1..i : p[j].s}) - Cardinality({j \in 1..i : ~p[j].s})

\* The slots, in order: before the first event, between events, after the last
\* (b = -1 is no end).
Slots(base, E) ==
    LET p == Points(E)
        n == Len(p)
        between(i) == [a |-> max_ts(p[i].v, base), b |-> p[i + 1].v]
        free(i) == Depth(p, i) = 0 /\ between(i).a <= between(i).b
        first == IF base < p[1].v THEN <<[a |-> base, b |-> p[1].v]>> ELSE <<>>
        places == SelectSeq([i \in 1..(n - 1) |-> i], free)
    IN  first \o [k \in DOMAIN places |-> between(places[k])] \o <<[a |-> p[n].v, b |-> -1]>>

\* next_todo and schedule_slot: each todo is looked at once for each slot, from
\* where the one before it ends.
schedule_slot(G, slot, T) ==
    LET step(st, j) ==
            LET fr == max_ts(st.a, T[j].start)
                to == fr + T[j].estimated_duration
            IN  IF /\ st.G[j] = Unscheduled
                   /\ T[j].estimated_duration > 0
                   /\ slot.b = -1 \/ to <= slot.b
                THEN [a |-> to, G |-> [st.G EXCEPT ![j] = [fr |-> fr, to |-> to]]]
                ELSE st
    IN  FoldLeftDomain(step, [a |-> slot.a, G |-> G], T).G

todo_schedule(base, E, T) ==
    FoldLeft(LAMBDA G, slot : schedule_slot(G, slot, T),
             [j \in DOMAIN T |-> Unscheduled], Slots(base, E))

(***************************************************************************)
(* What is promised: "Schedule todos into the free spaces between events"  *)
(***************************************************************************)
Apart(x, y) == x.to <= y.fr \/ y.to <= x.fr

\* Whatever has a duration gets that long, not before its start, when there is
\* no event and no other todo; and not before base, unless all events are over.
Scheduled(base, E, T) ==
    LET G == todo_schedule(base, E, T)
    IN  \A j \in DOMAIN T :
          IF T[j].estimated_duration <= 0
          THEN G[j] = Unscheduled
          ELSE /\ G[j].to - G[j].fr = T[j].estimated_duration
               /\ G[j].fr >= T[j].start
               /\ \A e \in DOMAIN E : Apart(G[j], E[e])
               /\ \A h \in DOMAIN T \ {j} :
                    T[h].estimated_duration > 0 => Apart(G[j], G[h])
               /\ (\E e \in DOMAIN E : E[e].to >= base) => G[j].fr >= base
=============================================================================
