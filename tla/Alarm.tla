-------------------------------- MODULE Alarm --------------------------------
(***************************************************************************)
(* proj_alarm of src/src/gui-calendar/application.c: the tree of alarms it *)
(* collects from the instances that app_update_projections hands out, the  *)
(* alarm it takes to be the next, and the one timer it arms for that.      *)
(*                                                                         *)
(* The event loop (external) runs one callback at a time: a frame, an edit *)
(* or reload, the timer.  The tree is emptied by an edit and filled again  *)
(* by the next frame; the timer and the clock know of neither.             *)
(***************************************************************************)
EXTENDS Integers

CONSTANTS
    Ids,            \* the component instances the alarm filter selects
    Times,          \* their due times, or starts
    NULL,
    MaxNow          \* bound on the clock, for model checking only

ASSUME AlarmAssumption ==
    /\ Times \subseteq Nat /\ MaxNow \in Nat
    /\ NULL \notin [id : Ids, val : Times] /\ NULL \notin Times

Alarms == [id : Ids, val : Times]

VARIABLES
    wanted,         \* the alarms of the calendars, at most one per instance
    others,         \* the calendars have instances the filter does not select
    pending,        \* the instances have yet to be handed out by a frame
    tree,           \* proj_alarm.tree
    next,           \* proj_alarm.next
    dangling,       \* next points to a node that was freed
    timer,          \* when alarm_timer goes off, or NULL
    now,
    rung,           \* alarm -> how often it was announced (history)
    stopped         \* the assertion "alarm next" ended the program

vars == <<wanted, others, pending, tree, next, dangling, timer, now, rung, stopped>>
calendarVars == <<wanted, others, pending>>
pointerVars == <<next, dangling, timer>>

Calendars == {W \in SUBSET Alarms : \A a, b \in W : a.id = b.id => a = b}

Init ==
    /\ wanted \in Calendars
    /\ others \in BOOLEAN
    /\ pending = TRUE
    /\ tree = {}
    /\ next = NULL
    /\ dangling = FALSE
    /\ timer = NULL
    /\ now = 0
    /\ rung = [a \in Alarms |-> 0]
    /\ stopped = FALSE

\* MUTANT of rb_integer_min_greater: an alarm of this very second comes again.
rb_integer_min_greater_OrEqual(T, t) ==
    {a \in T : a.val >= t /\ \A b \in T : b.val >= t => a.val <= b.val}

\* The nodes it may return: of equal ones the tree decides.
rb_integer_min_greater(T, t) ==
    {a \in T : a.val > t /\ \A b \in T : b.val > t => a.val <= b.val}

\* MUTANT of proj_alarm_done: a timer that is armed is left alone.
proj_alarm_done_ArmedStays(T, armed) ==
    LET found == rb_integer_min_greater(T, now)
    IN  /\ dangling' = FALSE
        /\ IF found = {}
           THEN next' = NULL /\ timer' = armed
           ELSE \E n \in found :
                    next' = n /\ timer' = IF armed = NULL THEN n.val ELSE armed

\* MUTANT of proj_alarm_done: the timer is not armed.
proj_alarm_done_NotArmed(T, armed) ==
    LET found == rb_integer_min_greater(T, now)
    IN  /\ dangling' = FALSE
        /\ timer' = armed
        /\ IF found = {} THEN next' = NULL ELSE next' \in found

\* `armed` is what the timer was set to.  Without a next alarm it stays so.
proj_alarm_done(T, armed) ==
    LET found == rb_integer_min_greater(T, now)
    IN  /\ dangling' = FALSE
        /\ IF found = {}
           THEN next' = NULL /\ timer' = armed
           ELSE \E n \in found : next' = n /\ timer' = n.val

\* MUTANT of Invalidate: the tree keeps its alarms.
Invalidate_KeepsTree(W, o) ==
    /\ ~stopped
    /\ wanted' = W
    /\ others' = o
    /\ pending' = TRUE
    /\ UNCHANGED <<tree, pointerVars, now, rung, stopped>>

\* app_invalidate_calendars, after an edit, a reload or a change of filter:
\* proj_alarm_clear frees the nodes and leaves `next` and the timer.
Invalidate(W, o) ==
    /\ ~stopped
    /\ wanted' = W
    /\ others' = o
    /\ pending' = TRUE
    /\ tree' = {}
    /\ dangling' = (next # NULL)
    /\ UNCHANGED <<next, timer, now, rung, stopped>>

\* MUTANT of Frame: the projections are not told that they are complete.
Frame_NotDone ==
    /\ ~stopped
    /\ pending
    /\ pending' = FALSE
    /\ tree' = tree \cup wanted
    /\ UNCHANGED <<pointerVars, wanted, others, now, rung, stopped>>

\* app_update_projections: proj_alarm_add for every instance that waits, and
\* proj_alarm_done if there was any.
Frame ==
    /\ ~stopped
    /\ pending
    /\ pending' = FALSE
    /\ tree' = tree \cup wanted
    /\ IF wanted # {} \/ others THEN proj_alarm_done(tree', timer)
                                ELSE UNCHANGED pointerVars
    /\ UNCHANGED <<wanted, others, now, rung, stopped>>

\* The timer goes off: alarm_cb.  A node that was freed is read all the same,
\* and what is announced is what it held, at best.
alarm_cb ==
    /\ ~stopped
    /\ timer # NULL
    /\ timer <= now
    /\ IF next = NULL
       THEN /\ stopped' = TRUE
            /\ UNCHANGED <<pointerVars, rung>>
       ELSE /\ rung' = [rung EXCEPT ![next] = @ + 1]
            /\ proj_alarm_done(tree, NULL)
            /\ UNCHANGED stopped
    /\ UNCHANGED <<calendarVars, tree, now>>

Tick ==
    /\ now < MaxNow
    /\ now' = now + 1
    /\ UNCHANGED <<calendarVars, tree, pointerVars, rung, stopped>>

\* The program is left, or was aborted, and is started again: app_init.
Restart ==
    /\ pending' = TRUE
    /\ tree' = {}
    /\ next' = NULL
    /\ dangling' = FALSE
    /\ timer' = NULL
    /\ stopped' = FALSE
    /\ UNCHANGED <<wanted, others, now, rung>>

Next ==
    \/ \E W \in Calendars, o \in BOOLEAN : Invalidate(W, o)
    \/ Frame
    \/ alarm_cb
    \/ Tick
    \/ Restart

Spec == Init /\ [][Next]_vars

\* Time passes, and a timer goes off.  Frames are not fair: a reload empties
\* the tree and does not mark the window as dirty.
FairSpec == Spec /\ WF_vars(Tick) /\ WF_vars(alarm_cb)

(***************************************************************************)
(* Properties                                                              *)
(***************************************************************************)
TypeOK ==
    /\ wanted \in Calendars /\ tree \in Calendars
    /\ others \in BOOLEAN /\ pending \in BOOLEAN /\ dangling \in BOOLEAN
    /\ next \in Alarms \cup {NULL}
    /\ timer \in Times \cup {NULL}
    /\ now \in Nat
    /\ rung \in [Alarms -> Nat]
    /\ stopped \in BOOLEAN

\* As long as `next` leads to a node of the tree, the timer is armed for that
\* node's time, and no alarm that is still to come is earlier: whatever was
\* added, moved or announced in between (proj_alarm_done, alarm_cb).
ArmedForEarliest ==
    next # NULL /\ ~dangling =>
        /\ next \in tree
        /\ timer = next.val
        /\ \A a \in tree : a.val > now => next.val <= a.val

\* An alarm that lies ahead is never forgotten by a calendar that was drawn.
SomethingIsNext ==
    ~pending /\ (\E a \in tree : a.val > now) => next # NULL /\ ~dangling

\* However often the tree is rebuilt, edits, reloads and restarts do not make
\* an alarm that was announced come again (proj_alarm_done looks past the
\* present).
NeverTwice == \A a \in Alarms : rung[a] <= 1

\* The next alarm is announced, unless an edit, a reload or a restart comes
\* first: the timer is not lost (alarm_cb).
NextRings ==
    \A a \in Alarms :
        (next = a /\ ~dangling) ~> (rung[a] > 0 \/ pending)

(***************************************************************************)
(* What the program is said to do, and does not                            *)
(***************************************************************************)
\* asrt(alc, "alarm next"), application.c:578.
AlarmNextKnown == ~stopped
=============================================================================
