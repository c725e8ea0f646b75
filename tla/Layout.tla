------------------------------- MODULE Layout -------------------------------
(***************************************************************************)
(* calendar_layout: the columns in which the events of one slice of the    *)
(* view are drawn side by side.  A sweep over the end points of the events *)
(* gives each event that starts the first free column, and when no event   *)
(* is left it has seen a connected group of overlapping events, which all  *)
(* get the width of the largest number that overlapped.                    *)
(*                                                                         *)
(* qsort may put points that cmp_point does not tell apart in any order.   *)
(***************************************************************************)
EXTENDS Integers, FiniteSets

CONSTANTS
    Events,         \* the indices of the array e
    Spans,          \* the intervals an event may have
    Bits            \* the width of `mask`, 32 in the code

\* An instance may end before it has begun: see TypeOK of EditStorage.
ASSUME LayoutAssumption ==
    /\ IsFiniteSet(Events)
    /\ \A s \in Spans : s.fr \in Int /\ s.to \in Int
    /\ Bits \in Nat \ {0}

VARIABLES
    objs,           \* the elements of e
    time,           \* e[i].time
    started, ended, \* the events whose points were passed
    col, max_n,     \* e[i].col, e[i].max_n; -1 until known
    component,      \* the events since no event was last active
    widest,         \* the local max_n
    mask,           \* the columns in use
    active_n,
    aborted,        \* an assertion ended the program
    crowded         \* first_free_bit has found none (history)

layoutVars == <<objs, time, started, ended, col, max_n, component, widest, mask, active_n,
                aborted, crowded>>

LayoutInit ==
    /\ objs \in SUBSET Events
    /\ time \in [objs -> Spans]
    /\ started = {} /\ ended = {}
    /\ col = [e \in objs |-> -1]
    /\ max_n = [e \in objs |-> -1]
    /\ component = {} /\ widest = 0 /\ mask = {} /\ active_n = 0
    /\ aborted = FALSE /\ crowded = FALSE

\* MUTANT of StartIsNext: an end comes after a start at the same time.
StartIsNext_BeforeEnds(e) ==
    /\ \A f \in objs \ started : time[e].fr <= time[f].fr
    /\ \A f \in objs \ ended : time[e].fr <= time[f].to

\* cmp_point: no point that remains comes before the start of e ...
StartIsNext(e) ==
    /\ \A f \in objs \ started : time[e].fr <= time[f].fr
    /\ \A f \in objs \ ended : time[e].fr < time[f].to

\* ... or before the end of e.
EndIsNext(e) ==
    /\ \A f \in objs \ started : time[e].to <= time[f].fr
    /\ \A f \in objs \ ended : time[e].to <= time[f].to

Free == (0..(Bits - 1)) \ mask

\* MUTANT of first_free_bit: the last free bit.
first_free_bit_Last ==
    IF Free = {} THEN -1 ELSE CHOOSE b \in Free : \A c \in Free : c <= b

first_free_bit ==
    IF Free = {} THEN -1 ELSE CHOOSE b \in Free : \A c \in Free : b <= c

Larger(a, b) == IF a > b THEN a ELSE b

\* MUTANT of Start: the column is not marked as used.
Start_Unmarked(e) ==
    LET c == IF Free = {} THEN 0 ELSE first_free_bit
    IN  /\ ~aborted
        /\ e \notin started /\ StartIsNext(e)
        /\ started' = started \cup {e}
        /\ component' = component \cup {e}
        /\ col' = [col EXCEPT ![e] = c]
        /\ mask' = mask
        /\ active_n' = active_n + 1
        /\ widest' = Larger(active_n + 1, widest)
        /\ crowded' = (crowded \/ Free = {})
        /\ UNCHANGED <<objs, time, ended, max_n, aborted>>

Start(e) ==
    LET c == IF Free = {} THEN 0 ELSE first_free_bit
    IN  /\ ~aborted
        /\ e \notin started /\ StartIsNext(e)
        /\ started' = started \cup {e}
        /\ component' = component \cup {e}
        /\ col' = [col EXCEPT ![e] = c]
        /\ mask' = mask \cup {c}
        /\ active_n' = active_n + 1
        /\ widest' = Larger(active_n + 1, widest)
        /\ crowded' = (crowded \/ Free = {})
        /\ UNCHANGED <<objs, time, ended, max_n, aborted>>

\* MUTANT of End: the column stays in use.
End_Marked(e) ==
    /\ ~aborted
    /\ e \notin ended /\ EndIsNext(e)
    /\ col[e] >= 0
    /\ ended' = ended \cup {e}
    /\ mask' = mask
    /\ active_n' = active_n - 1
    /\ aborted' = (active_n' < 0 \/ (active_n' = 0 /\ mask' # {}))
    /\ IF active_n' = 0
       THEN /\ max_n' = [f \in objs |-> IF f \in component THEN widest ELSE max_n[f]]
            /\ component' = {}
            /\ widest' = 0
       ELSE UNCHANGED <<max_n, component, widest>>
    /\ UNCHANGED <<objs, time, started, col, crowded>>

\* MUTANT of End: the group is not emptied.
End_KeepsGroup(e) ==
    /\ ~aborted
    /\ e \notin ended /\ EndIsNext(e)
    /\ col[e] >= 0
    /\ ended' = ended \cup {e}
    /\ mask' = mask \ {col[e]}
    /\ active_n' = active_n - 1
    /\ aborted' = (active_n' < 0 \/ (active_n' = 0 /\ mask' # {}))
    /\ IF active_n' = 0
       THEN /\ max_n' = [f \in objs |-> IF f \in component THEN widest ELSE max_n[f]]
            /\ component' = component
            /\ widest' = 0
       ELSE UNCHANGED <<max_n, component, widest>>
    /\ UNCHANGED <<objs, time, started, col, crowded>>

\* At the end of a connected group its width is known.  The assertions are
\* "fuck 2" and "fuck 3".
End(e) ==
    /\ ~aborted
    /\ e \notin ended /\ EndIsNext(e)
    /\ col[e] >= 0
    /\ ended' = ended \cup {e}
    /\ mask' = mask \ {col[e]}
    /\ active_n' = active_n - 1
    /\ aborted' = (active_n' < 0 \/ (active_n' = 0 /\ mask' # {}))
    /\ IF active_n' = 0
       THEN /\ max_n' = [f \in objs |-> IF f \in component THEN widest ELSE max_n[f]]
            /\ component' = {}
            /\ widest' = 0
       ELSE UNCHANGED <<max_n, component, widest>>
    /\ UNCHANGED <<objs, time, started, col, crowded>>

\* The end of an event that has no column yet: the assertion "fuck 1".
EndUnstarted(e) ==
    /\ ~aborted
    /\ e \notin ended /\ EndIsNext(e)
    /\ col[e] < 0
    /\ aborted' = TRUE
    /\ UNCHANGED <<objs, time, started, ended, col, max_n, component, widest, mask, active_n,
                   crowded>>

\* The next slice is laid out, or the same one in the next frame
\* (tobject_layout), or the first one after the program was started again.
Begin(S, t) ==
    /\ aborted \/ ended = objs
    /\ objs' = S /\ time' = t
    /\ started' = {} /\ ended' = {}
    /\ col' = [e \in S |-> -1]
    /\ max_n' = [e \in S |-> -1]
    /\ component' = {} /\ widest' = 0 /\ mask' = {} /\ active_n' = 0
    /\ aborted' = FALSE /\ crowded' = FALSE

Sweep == \E e \in objs : Start(e) \/ End(e) \/ EndUnstarted(e)

LayoutNext ==
    \/ Sweep
    \/ \E S \in SUBSET Events : \E t \in [S -> Spans] : Begin(S, t)

LayoutSpec == LayoutInit /\ [][LayoutNext]_layoutVars

(***************************************************************************)
(* Properties                                                              *)
(***************************************************************************)
active == started \ ended

TypeOK ==
    /\ objs \in SUBSET Events
    /\ time \in [objs -> Spans]
    /\ started \in SUBSET objs /\ ended \in SUBSET started
    /\ col \in [objs -> -1..(Bits - 1)]
    /\ \A e \in objs : col[e] = -1 <=> e \notin started
    /\ max_n \in [objs -> Int]
    /\ component = {e \in started : max_n[e] = -1}
    /\ \A e \in objs : max_n[e] # -1 => e \in ended
    /\ widest \in Nat
    /\ mask \in SUBSET (0..(Bits - 1))
    /\ active_n \in Nat
    /\ aborted \in BOOLEAN /\ crowded \in BOOLEAN

Inverted(e) == time[e].to <= time[e].fr

\* The sweep counts what is active, never ends more than began, nor a group
\* while a column is in use, whatever order qsort leaves equal points in and
\* also when the columns run out: of the three assertions only the first can
\* fail.  It does so exactly in a slice with an event that ends before it has
\* begun, and no such slice is drawn.
SweepSound ==
    /\ active_n = Cardinality(active)
    /\ aborted => \E e \in objs : Inverted(e)
    /\ started = objs => \A e \in objs : ~Inverted(e)

Overlap(e, f) == time[e].fr < time[f].to /\ time[f].fr < time[e].to

\* Two events that overlap are drawn beside each other: they get different
\* columns of the same width, unless there were more of them at a time than
\* `mask` has bits (render_ran divides the slice by max_n).
BesideEachOther ==
    \A e, f \in objs :
        e # f /\ Overlap(e, f) =>
            /\ e \in started /\ f \in started /\ ~crowded => col[e] # col[f]
            /\ max_n[e] = max_n[f]

\* No event is drawn outside its slice, and no width is divided by zero.
InSlice == \A e \in objs : max_n[e] # -1 => 0 <= col[e] /\ col[e] < max_n[e]

\* No slice is divided further than it has to be: as many events as the width
\* is divided by are active at once, one of them beside the event itself or
\* joined to it by others (first_free_bit, max_n).
At(t) == {e \in objs : time[e].fr <= t /\ t < time[e].to}

Narrowest ==
    \A e \in objs :
        max_n[e] # -1 =>
            \E f \in objs :
                /\ max_n[f] = max_n[e]
                /\ Cardinality(At(time[f].fr)) = max_n[e]
                /\ \A t \in time[e].to..time[f].fr : At(t) # {}
                /\ \A t \in time[f].to..time[e].fr : At(t) # {}

(***************************************************************************)
(* The inductive invariant behind them                                     *)
(***************************************************************************)
\* What the sweep has ended lies before everything it has yet to start.
InOrder ==
    /\ \A e \in ended : \A f \in objs \ started : time[e].to <= time[f].fr
    /\ \A e \in started : ~Inverted(e)

\* The columns in use are those of active events; before they run out, no two
\* events share one and none is missing.
ColumnsOf(S) == {col[e] : e \in S}

MaskInv ==
    /\ mask \subseteq ColumnsOf(active)
    /\ ~crowded => /\ ColumnsOf(active) \subseteq mask
                   /\ \A e, f \in active : e # f => col[e] # col[f]

GroupInv ==
    /\ active \subseteq component
    /\ active_n = 0 => component = {}
    /\ active_n <= widest
    /\ \A e \in started : 0 <= col[e]
    /\ \A e \in component : col[e] < widest

\* What the sweep has started lies before everything it has yet to start.
StartedFirst == \A e \in started : \A f \in objs \ started : time[e].fr <= time[f].fr

\* The events of a group leave no gap between them.
NoGap ==
    \A e, f \in component : \A t \in time[e].fr..(time[f].to - 1) : At(t) # {}

\* At the beginning of one of its events the group is as wide as it is.
Peak ==
    IF component = {} THEN widest = 0
    ELSE \E f \in component : Cardinality(At(time[f].fr) \cap started) = widest

NarrowInv == StartedFirst /\ NoGap /\ Peak /\ Narrowest

LayoutInv == TypeOK /\ SweepSound /\ InOrder /\ MaskInv /\ GroupInv /\ BesideEachOther /\ InSlice
=============================================================================
