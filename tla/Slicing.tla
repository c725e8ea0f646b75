------------------------------- MODULE Slicing -------------------------------
(***************************************************************************)
(* struct slicing of src/src/gui-calendar/views.c: the years, months, days *)
(* and hours of the calendar view, found once and then kept.  An item of   *)
(* one level refers to its parts on the next by their index.               *)
(*                                                                         *)
(* To iterate runs a callback for each slice.  The one of the calendar     *)
(* view, render_ran, iterates over the parts of its slice: in the middle   *)
(* of the loop that first finds the slices of a year or a month, whose     *)
(* indices then read as the zero they were initialised to.  Calls of       *)
(* iter_items nest one in each level, and iterations two deep; the model   *)
(* takes one step for each turn of a loop and for each call.               *)
(*                                                                         *)
(* libical's conversion between dates and times is external: the hours of  *)
(* the clock are the constant Clock.                                       *)
(***************************************************************************)
EXTENDS Integers, Sequences, FiniteSetsExt

CONSTANTS
    Months,         \* 12 in the code
    Days,           \* <<year, month>> -> its number of days
    Hours,          \* 24 in the code
    Clock           \* the dates <<year, month, day, hour>>, one for each hour

YEAR == 1
MONTH == 2
DAY == 3
HOUR == 4

MaxSubs == 31       \* the length of item->subs

LastYear == Clock[Len(Clock)][YEAR]

Later(d, e) == \E k \in YEAR..HOUR : d[k] > e[k] /\ \A j \in YEAR..(k - 1) : d[j] = e[j]

\* A date of the calendar.
IsDate(d) ==
    /\ d = [k \in YEAR..HOUR |-> d[k]]
    /\ d[YEAR] \in 1..LastYear /\ d[MONTH] \in 1..Months
    /\ d[DAY] \in 1..Days[<<d[YEAR], d[MONTH]>>] /\ d[HOUR] \in 0..(Hours - 1)

LeftOut(y, m, d, h) == \A t \in DOMAIN Clock : Clock[t] # <<y, m, d, h>>

\* Whole years, in order.  A clock goes forward or back by one hour, at most
\* once in a day, and not so that a day begins twice.
ASSUME ClockAssumption ==
    /\ Months \in Nat \ {0} /\ Hours \in Nat \ {0, 1}
    /\ Len(Clock) \in Nat \ {0} /\ DOMAIN Clock = 1..Len(Clock)
    /\ LastYear \in Nat \ {0}
    /\ Days \in [(1..(LastYear + 1)) \X (1..Months) -> 1..MaxSubs]
    /\ \A t \in DOMAIN Clock : IsDate(Clock[t])
    /\ \A t, u \in DOMAIN Clock :
           /\ t < u => ~Later(Clock[t], Clock[u])
           /\ t # u /\ Clock[t][HOUR] = 0 => Clock[t] # Clock[u]
    /\ \A y \in 1..LastYear, m \in 1..Months : \A d \in 1..Days[<<y, m>>] :
           \A h, i \in 0..(Hours - 1) : LeftOut(y, m, d, h) /\ LeftOut(y, m, d, i) => h = i

Ran(fr, to) == [fr |-> fr, to |-> to]
ts_ran_overlap(a, b) == a.fr < b.to /\ a.to > b.fr

VARIABLES
    items,          \* struct slicing: level -> the slices found, in the order they were
    iter,           \* struct iter, and the loops of iter_items: 1 of the frame's
                    \* iteration, 0 of the one inside its callback
    calls,          \* the slices that render_ran has drawn
    failed          \* an assertion of views.c ended the program

slicingVars == <<items, iter, calls, failed>>

(***************************************************************************)
(* Dates and times                                                         *)
(***************************************************************************)
\* Months and days are counted from 1, hours from 0.
FirstPart(lev) == IF lev = DAY THEN 0 ELSE 1

simple_date_from_ts(t) == Clock[t + 1]

\* simple_date_normalize, of a date one past the end of a unit.
Carried(d, lev, last) ==
    IF d[lev] > last THEN [d EXCEPT ![lev] = FirstPart(lev - 1), ![lev - 1] = @ + 1] ELSE d
NormalMonth(d) == Carried(d, MONTH, Months)
NormalDay(d) == NormalMonth(Carried(d, DAY, Days[<<d[YEAR], d[MONTH]>>]))
Normal(d) == NormalDay(Carried(NormalMonth(d), HOUR, Hours - 1))

\* simple_date_to_ts, of a normal date: of an hour that comes twice the second,
\* of one that is left out the time of the next.
simple_date_to_ts(d) ==
    LET same == {t \in DOMAIN Clock : Clock[t] = d}
        after == {t \in DOMAIN Clock : Later(Clock[t], d)} \cup {Len(Clock) + 1}
    IN  (IF same # {} THEN Max(same) ELSE Min(after)) - 1

(***************************************************************************)
(* The slices                                                              *)
(***************************************************************************)
NoItems == [lev \in YEAR..HOUR |-> <<>>]

Found(lev, ran) == {i \in DOMAIN items[lev] : items[lev][i].ran.fr = ran.fr}

\* MUTANT of get_or_create: what is there is not found.
get_or_create_New(lev, ran) ==
    [items EXCEPT ![lev] = Append(@, [ran |-> ran, n |-> -1, subs |-> <<>>])]

\* get_or_create: the vectors after it, where in one of them the item is, and
\* "[slicing] ran.to does not match".
get_or_create(lev, ran) ==
    IF Found(lev, ran) # {} THEN items
    ELSE [items EXCEPT ![lev] = Append(@, [ran |-> ran, n |-> -1, subs |-> <<>>])]

IdOf(lev, ran) == IF Found(lev, ran) # {} THEN Min(Found(lev, ran)) ELSE Len(items[lev]) + 1

Mismatch(lev, ran) == \E i \in Found(lev, ran) : items[lev][i].ran.to # ran.to

\* The part number k of what begins at the date b; of an hour that is left out
\* nothing remains.
PartDate(b, lev, k) == Normal([b EXCEPT ![lev + 1] = k])
Part(b, lev, k) ==
    Ran(simple_date_to_ts(PartDate(b, lev, k)), simple_date_to_ts(PartDate(b, lev, k + 1)))
LastPart(b, lev) == CASE lev = YEAR -> Months [] lev = MONTH -> Days[<<b[YEAR], b[MONTH]>>]
                  [] lev = DAY -> Hours - 1

\* "[slicing] month", "[slicing] day", "[slicing] hour".
AtStart(b, lev) == \A k \in (lev + 1)..HOUR : b[k] = FirstPart(k - 1)

\* Indices that are not written yet are 0, the first item of the level.
Sub(item, k) == IF k \in DOMAIN item.subs THEN item.subs[k] ELSE 1

(***************************************************************************)
(* The loops of an iteration.  `lev` is the level of the item whose loop   *)
(* runs, 0 for the loop over the years and -1 when there is none.  Each    *)
(* level has its item (`id`), where the loop is (`part`), and whether it   *)
(* finds the parts or goes over those found (`finds`).  `next` is the item *)
(* for which iter_items has just been called.                              *)
(***************************************************************************)
NoIter ==
    [type |-> YEAR, ran |-> Ran(0, 0), year |-> 0, lev |-> -1, next |-> 0,
     id |-> [l \in YEAR..DAY |-> 0], part |-> [l \in YEAR..DAY |-> 0],
     finds |-> [l \in YEAR..DAY |-> FALSE]]

\* The call of slicing_iter_items: from the year of the beginning on.
slicing_iter_items(type, ran) ==
    [NoIter EXCEPT !.type = type, !.ran = ran, !.year = simple_date_from_ts(ran.fr)[YEAR],
                   !.lev = 0]

\* The iteration inside the callback comes first.
Runs(L) == ~failed /\ iter[L].lev # -1 /\ (L = 1 => iter[0].lev = -1)

Loops(L) == Runs(L) /\ iter[L].next = 0
InItem(L) == Loops(L) /\ iter[L].lev # 0
Item(L) == items[iter[L].lev][iter[L].id[iter[L].lev]]
Here(L) == iter[L].part[iter[L].lev]
Begins(item) == simple_date_from_ts(item.ran.fr)

\* render_ran: days draw events, and so do the lowest slices but for hours.
Draws(type, level) == (level = 0 /\ type < HOUR) \/ type = DAY
render_ran(type, level, ran) ==
    calls' = IF Draws(type, level) THEN Append(calls, [ran |-> ran, top |-> FALSE]) ELSE calls

YearStart(y) == simple_date_to_ts(<<y, 1, 1, 0>>)
YearRan(y) == Ran(YearStart(y), YearStart(y + 1))

NextYear(L) ==
    LET year == YearRan(iter[L].year)
    IN  /\ Loops(L) /\ iter[L].lev = 0
        /\ YearStart(iter[L].year) < iter[L].ran.to
        /\ items' = get_or_create(YEAR, year)
        /\ failed' = Mismatch(YEAR, year)
        /\ iter' = [iter EXCEPT ![L].year = @ + 1, ![L].next = IdOf(YEAR, year)]
        /\ UNCHANGED calls

\* The iteration is over; of the callback the rest remains.
LastYearDone(L) ==
    /\ Loops(L) /\ iter[L].lev = 0
    /\ YearStart(iter[L].year) >= iter[L].ran.to
    /\ iter' = [iter EXCEPT ![L] = NoIter]
    /\ IF L = 0 THEN render_ran(iter[1].type, 1, iter[0].ran) ELSE UNCHANGED calls
    /\ UNCHANGED <<items, failed>>

\* One turn of the loop that finds the parts of an item.
FindPart(L) ==
    LET lev == iter[L].lev
        part == Part(Begins(Item(L)), lev, Here(L))
    IN  /\ InItem(L) /\ iter[L].finds[lev]
        /\ Here(L) <= LastPart(Begins(Item(L)), lev)
        /\ IF part.fr # part.to
           THEN /\ items' = [get_or_create(lev + 1, part) EXCEPT
                                ![lev][iter[L].id[lev]].subs = Append(@, IdOf(lev + 1, part))]
                /\ failed' = Mismatch(lev + 1, part)
                /\ iter' = [iter EXCEPT ![L].part[lev] = @ + 1, ![L].next = IdOf(lev + 1, part)]
           ELSE /\ iter' = [iter EXCEPT ![L].part[lev] = @ + 1]
                /\ failed' = (lev # DAY)
                /\ UNCHANGED items
        /\ UNCHANGED calls

\* The number of parts of a year and of a month was set before they were found,
\* of a day it is set now: "item n mismatch", "bad day item n".
AllFound(L) ==
    LET lev == iter[L].lev
        n == Len(Item(L).subs)
    IN  /\ InItem(L) /\ iter[L].finds[lev]
        /\ Here(L) > LastPart(Begins(Item(L)), lev)
        /\ IF lev = DAY
           THEN /\ items' = [items EXCEPT ![lev][iter[L].id[lev]].n = n]
                /\ failed' = (n \notin (Hours - 1)..(Hours + 1))
           ELSE /\ failed' = (n # Item(L).n)
                /\ UNCHANGED items
        /\ iter' = [iter EXCEPT ![L].lev = @ - 1]
        /\ UNCHANGED calls

\* The loop over parts that were found before, or seem so.
NextPart(L) ==
    LET lev == iter[L].lev
    IN  /\ InItem(L) /\ ~iter[L].finds[lev]
        /\ iter' = IF Here(L) <= Item(L).n
                   THEN [iter EXCEPT ![L].part[lev] = @ + 1, ![L].next = Sub(Item(L), Here(L))]
                   ELSE [iter EXCEPT ![L].lev = @ - 1]
        /\ UNCHANGED <<items, calls, failed>>

\* iter_items, called for the item `next`.
iter_items(L) ==
    LET it == iter[L]
        lev == it.lev + 1
        item == items[lev][it.next]
        looping(first, finds) ==
            iter' = [iter EXCEPT ![L].lev = lev, ![L].next = 0, ![L].id[lev] = it.next,
                                 ![L].part[lev] = first, ![L].finds[lev] = finds]
    IN  /\ Runs(L) /\ it.next # 0
        /\ \/ /\ ~ts_ran_overlap(it.ran, item.ran)
              /\ iter' = [iter EXCEPT ![L].next = 0]
              /\ UNCHANGED <<items, calls, failed>>
           \/ /\ ts_ran_overlap(it.ran, item.ran) /\ lev = it.type
              /\ IF L = 1
                 THEN /\ iter' = [iter EXCEPT ![1].next = 0,
                                              ![0] = slicing_iter_items(it.type + 1, item.ran)]
                      /\ UNCHANGED calls
                 ELSE /\ iter' = [iter EXCEPT ![L].next = 0]
                      /\ render_ran(it.type, L, item.ran)
              /\ UNCHANGED <<items, failed>>
           \/ /\ ts_ran_overlap(it.ran, item.ran) /\ lev < it.type /\ item.n = -1
              /\ IF AtStart(Begins(item), lev)
                 THEN /\ looping(FirstPart(lev), TRUE)
                      /\ items' = IF lev = DAY THEN items
                                  ELSE [items EXCEPT ![lev][it.next].n = LastPart(Begins(item), lev)]
                      /\ UNCHANGED failed
                 ELSE /\ failed' = TRUE
                      /\ UNCHANGED <<items, iter>>
              /\ UNCHANGED calls
           \/ /\ ts_ran_overlap(it.ran, item.ran) /\ lev < it.type /\ item.n # -1
              /\ looping(1, FALSE)
              /\ UNCHANGED <<items, calls, failed>>

Iterate ==
    \E L \in {0, 1} : \/ NextYear(L) \/ LastYearDone(L) \/ FindPart(L) \/ AllFound(L)
                      \/ NextPart(L) \/ iter_items(L)

(***************************************************************************)
(* Bounds                                                                  *)
(***************************************************************************)
\* MUTANT of slicing_get_bounds: the last slice is left out.
slicing_get_bounds_UpToLast(type, ran) ==
    LET a == simple_date_from_ts(ran.fr)
        b == simple_date_from_ts(ran.to)
    IN  Ran(simple_date_to_ts([k \in YEAR..HOUR |-> IF k <= type THEN a[k] ELSE FirstPart(k - 1)]),
            simple_date_to_ts([k \in YEAR..HOUR |-> IF k <= type THEN b[k] ELSE FirstPart(k - 1)]))

\* slicing_get_bounds: the end of the slice in which the range ends, also if it
\* ends with the slice before; of days, months and years, as it is called.
slicing_get_bounds(type, ran) ==
    LET a == simple_date_from_ts(ran.fr)
        b == simple_date_from_ts(ran.to)
        month == IF type = YEAR THEN Months ELSE b[MONTH]
        day == IF type = DAY THEN b[DAY] ELSE Days[<<b[YEAR], month>>]
    IN  Ran(simple_date_to_ts([k \in YEAR..HOUR |-> IF k <= type THEN a[k] ELSE FirstPart(k - 1)]),
            simple_date_to_ts(Normal(<<b[YEAR], month, day, Hours>>)))
=============================================================================
