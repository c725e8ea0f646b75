------------------------------- MODULE Drawing -------------------------------
(***************************************************************************)
(* A frame of the calendar view (render_application, render_ran): the view *)
(* is cut into slices, short events are drawn in the slices they overlap,  *)
(* long ones in a strip above, and in each slice the events that overlap   *)
(* share its width.                                                        *)
(*                                                                         *)
(* in_view is what proj_active_events has for the bounds of the view, see  *)
(* FrameShowsView of ActiveEvents; here every event is visible.  A frame   *)
(* lays out each slice as it is called back with it; as nothing of a       *)
(* layout outlives the slice, and slices do not depend on events, the      *)
(* model follows one layout, after all slices are known.                   *)
(***************************************************************************)
EXTENDS Layout, Slicing

CONSTANTS
    Views,          \* the ranges the view can be moved to, with the gesture
    Day,            \* 24 hours
    LongMonth,      \* 31 days
    LongYear        \* 365 days

\* A view is not empty and lies within the years of the clock.
ASSUME ViewsAssumption ==
    \A v \in Views :
        /\ v = Ran(v.fr, v.to) /\ v.fr \in Nat /\ v.to \in Nat
        /\ v.fr < v.to /\ v.to < Len(Clock)

\* Lengths are numbers of hours.
ASSUME LengthAssumption == Day \in Nat /\ LongMonth \in Nat /\ LongYear \in Nat

VARIABLES
    stage,          \* of the frame: "none", "slicing", "drawing", "layout"
    view,           \* its local `view`
    span            \* event -> its time, when a slice is drawn

NoView == Ran(0, 0)
NoEvents == [e \in {} |-> NoView]

vars == <<layoutVars, slicingVars, stage, view, span>>
frameVars == <<stage, view, span>>

Length(ran) == ran.to - ran.fr

\* The kind of slices, and the length from which an event is a long one.
SlicingType(v) ==
    IF Length(v) > LongYear THEN YEAR ELSE IF Length(v) > LongMonth THEN MONTH ELSE DAY
top_th(v) == CASE SlicingType(v) = YEAR -> LongYear [] SlicingType(v) = MONTH -> LongMonth
               [] SlicingType(v) = DAY -> Day

bounds == [v \in Views |-> slicing_get_bounds(SlicingType(v), v)]

in_view(v, e) == ts_ran_overlap(span[e], bounds[v])

\* len_clip.
Clipped(v, c, e) ==
    IF c.top THEN Length(span[e]) >= top_th(v) ELSE Length(span[e]) < top_th(v)

\* The objects of one call of render_ran.
Shown(v, c, e) == in_view(v, e) /\ ts_ran_overlap(span[e], c.ran) /\ Clipped(v, c, e)
tobjs(v, c) == {e \in Events : Shown(v, c, e)}

Init ==
    /\ items = NoItems
    /\ iter = [L \in {0, 1} |-> NoIter]
    /\ calls = <<>>
    /\ failed = FALSE
    /\ stage = "none" /\ view = NoView /\ span = NoEvents
    /\ objs = {} /\ LayoutInit

\* A frame begins to cut the view ...
render_application(v) ==
    /\ ~failed /\ stage = "none"
    /\ iter' = [iter EXCEPT ![1] = slicing_iter_items(SlicingType(v), v)]
    /\ stage' = "slicing" /\ view' = v
    /\ UNCHANGED <<layoutVars, items, calls, failed, span>>

\* ... slice by slice ...
Cut == stage = "slicing" /\ Iterate /\ UNCHANGED <<layoutVars, frameVars>>

\* ... and draws the strip above last.  Its events are those of the moment.
TopStrip ==
    /\ ~failed /\ stage = "slicing" /\ iter[1].lev = -1
    /\ calls' = Append(calls, [ran |-> view, top |-> TRUE])
    /\ stage' = "drawing"
    /\ span' \in [Events -> Spans]
    /\ UNCHANGED <<layoutVars, items, iter, failed, view>>

\* The layout of one slice ...
tobject_layout(c) ==
    /\ stage = "drawing"
    /\ Begin(tobjs(view, c), [e \in tobjs(view, c) |-> span[e]])
    /\ calls' = <<>>
    /\ stage' = "layout"
    /\ UNCHANGED <<items, iter, failed, view, span>>

\* ... event by event.
calendar_layout == stage = "layout" /\ Sweep /\ UNCHANGED <<slicingVars, frameVars>>

\* The frame is done; only the slices are kept.
Drawn ==
    /\ ~aborted /\ stage = "layout"
    /\ Begin({}, NoEvents)
    /\ stage' = "none" /\ view' = NoView /\ span' = NoEvents
    /\ UNCHANGED slicingVars

\* The program is started again: slicing_create.
Restart ==
    /\ failed \/ aborted
    /\ Begin({}, NoEvents)
    /\ items' = NoItems /\ iter' = [L \in {0, 1} |-> NoIter] /\ calls' = <<>> /\ failed' = FALSE
    /\ stage' = "none" /\ view' = NoView /\ span' = NoEvents

Next ==
    \/ \E v \in Views : render_application(v)
    \/ Cut
    \/ TopStrip
    \/ \E k \in DOMAIN calls : tobject_layout(calls[k])
    \/ calendar_layout
    \/ Drawn
    \/ Restart

Spec == Init /\ [][Next]_vars

(***************************************************************************)
(* Properties                                                              *)
(***************************************************************************)
In(t, ran) == ran.fr <= t /\ t < ran.to

\* The calls that draw the moment t of the event e.
DrawnAt(e, t) == {k \in DOMAIN calls : In(t, calls[k].ran) /\ Shown(view, calls[k], e)}

\* Each moment of an event that is in the view is drawn, in one place: in the
\* one slice that it is in, or in the strip above, whatever was viewed before
\* (slicing_get_bounds, slicing_iter_items, len_clip).
DrawnWhole ==
    stage = "drawing" =>
        \A e \in Events : \A t \in view.fr..(view.to - 1) : In(t, span[e]) =>
            Cardinality({calls[k] : k \in DrawnAt(e, t)}) = 1

Same(lev, t, u) == \A k \in YEAR..lev : Clock[t][k] = Clock[u][k]

\* A year, month or day that does not begin at midnight.
BeginsLate(lev, t) == Clock[t][HOUR] # 0 /\ (t > 1 => ~Same(lev, t - 1, t))

\* The parts of an item follow each other from its beginning to its end.
Tiles(item, parts) ==
    /\ Len(parts) = item.n
    /\ parts[1].ran.fr = item.ran.fr /\ parts[item.n].ran.to = item.ran.to
    /\ \A k \in 1..(item.n - 1) : parts[k].ran.to = parts[k + 1].ran.fr

\* Whatever is viewed in whatever order, with days of 23 and 25 hours: every
\* year, month and day is kept once and is one of the calendar's, it is cut
\* without a gap once the iteration is over, and an assertion ends the program
\* only at a slice of the view that does not begin at midnight (get_or_create,
\* iter_items).
SlicesSound ==
    /\ failed =>
         \E lev \in YEAR..DAY : \E t, u \in DOMAIN Clock :
             BeginsLate(lev, t) /\ Same(lev, t, u) /\ In(u - 1, view)
    /\ \A lev \in YEAR..HOUR : \A i \in DOMAIN items[lev] :
         LET item == items[lev][i]
         IN  /\ lev < HOUR =>
                    \A t \in DOMAIN Clock : In(t - 1, item.ran) <=> Same(lev, t, item.ran.fr + 1)
             /\ \A j \in DOMAIN items[lev] \ {i} : ~ts_ran_overlap(item.ran, items[lev][j].ran)
             /\ stage # "slicing" /\ item.n # -1 =>
                    Tiles(item, [k \in DOMAIN item.subs |-> items[lev + 1][item.subs[k]]])

(***************************************************************************)
(* What the program is said to do, and does not                            *)
(***************************************************************************)
\* test/test_main.c:224-226: to iterate over the days of a year calls back once
\* for each, "asrt(res.len == 365".
DrawnOnce == \A j, k \in DOMAIN calls : j # k => calls[j] # calls[k]
=============================================================================
