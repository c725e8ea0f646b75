---------------------------- MODULE ActiveEvents ----------------------------
(***************************************************************************)
(* proj_active_events of src/src/gui-calendar/application.c: the events of *)
(* the calendars on their way to the screen.  A frame in the calendar view *)
(* runs the filter on those that come into the bounds of the view for the  *)
(* first time, and keeps the visible ones apart as in view or not.  Labels *)
(* of events in view are cached as textures, which have to go when the     *)
(* event leaves the view, the zoom changes or the graphics context is lost.*)
(*                                                                         *)
(* A set here is one of the interval trees of the code, which hold the     *)
(* same struct active_comp under two nodes.                                *)
(***************************************************************************)
EXTENDS Integers

CONSTANTS
    Events,         \* instances of events, numbered in the order of the trees
    Calendars,      \* the sets of events that the calendars may contain
    Span,           \* event -> its interval
    Views,          \* the intervals the calendar view can be moved to
    Bounds,         \* view -> slicing_get_bounds
    Filters,        \* values of current_filter
    Shows,          \* filter -> the events it leaves visible
    LLONG_MIN, LLONG_MAX

Intervals == [fr : Int, to : Int]

\* props_valid_for_type lets no empty event pass.
ASSUME EventsAssumption ==
    /\ LLONG_MIN \in Int /\ LLONG_MAX \in Int
    /\ Span \in [Events -> Intervals]
    /\ \A e \in Events : /\ LLONG_MIN < Span[e].fr /\ Span[e].fr < Span[e].to
                         /\ Span[e].to < LLONG_MAX
    /\ Bounds \in [Views -> Intervals]
    /\ \A v \in Views : Bounds[v].fr < Bounds[v].to
    /\ Shows \in [Filters -> SUBSET Events]
    /\ Calendars \subseteq SUBSET Events

VARIABLES
    calendar,       \* the events of the calendars up to app->expand_to
    pending,        \* those still in cal->cis
    unprocessed, processed, processed_not_hidden,
    in_view, not_in_view,
    tex,            \* events with a texture (tex or loc_tex)
    current_filter,
    main_view,      \* "calendar" or "todo"
    failed          \* the assertion "ac tex" ended the program

projVars == <<unprocessed, processed, processed_not_hidden, in_view, not_in_view>>
eventVars == <<calendar, pending, projVars, tex, current_filter, main_view, failed>>

EventsInit ==
    /\ calendar \in Calendars
    /\ pending = calendar
    /\ unprocessed = {} /\ processed = {} /\ processed_not_hidden = {}
    /\ in_view = {} /\ not_in_view = {}
    /\ tex = {}
    /\ current_filter \in Filters
    /\ main_view = "calendar"
    /\ failed = FALSE

\* interval_overlap; interval_iter visits what overlaps a range.
interval_overlap(a, b) == a.fr < b.to /\ b.fr < a.to
Within(S, ran) == {e \in S : interval_overlap(Span[e], ran)}

Left(ran) == [fr |-> LLONG_MIN, to |-> ran.fr]
Right(ran) == [fr |-> ran.to, to |-> LLONG_MAX]

\* execute_current_filter: settings.vis.
Visible(e) == e \in Shows[current_filter]

\* The events a change of range brings into view ...
Entering(ran) == Within(not_in_view, ran)

\* MUTANT of Leaving: what lies after the range is forgotten.
Leaving_OnlyBefore(ran) ==
    {e \in Within(in_view \cup Entering(ran), Left(ran)) :
        ~interval_overlap(Span[e], ran)}

\* ... and those it takes out of it: there is no query for "not in range".
Leaving(ran) ==
    LET S == in_view \cup Entering(ran)
    IN  {e \in Within(S, Left(ran)) : ~interval_overlap(Span[e], ran)}
            \cup {e \in Within(S, Right(ran)) :
                     /\ ~interval_overlap(Span[e], ran)
                     /\ ~interval_overlap(Span[e], Left(ran))}

\* The events processed for the first time; the filter is run on them.
Fresh(ran) == Within(unprocessed \cup pending, ran)
FreshVisible(ran) == {e \in Fresh(ran) : Visible(e)}

\* MUTANT of proj_active_events_process: textures outlive the view.
proj_active_events_process_KeepsTex(ran) ==
    LET entering == Entering(ran) \cup FreshVisible(ran)
    IN  /\ in_view' = (in_view \cup entering) \ Leaving(ran)
        /\ not_in_view' = (not_in_view \ Entering(ran)) \cup Leaving(ran)
        /\ unprocessed' = (unprocessed \cup pending) \ Fresh(ran)
        /\ processed' = processed \cup Fresh(ran)
        /\ processed_not_hidden' = processed_not_hidden \cup FreshVisible(ran)
        /\ failed' = (entering \cap tex # {})
        /\ \E drawn \in SUBSET in_view' : tex' = tex \cup drawn

\* proj_active_events_process after what is pending was added, and the labels
\* drawn then: of the events in view that are not too long or hidden.
proj_active_events_process(ran) ==
    LET entering == Entering(ran) \cup FreshVisible(ran)
    IN  /\ in_view' = (in_view \cup entering) \ Leaving(ran)
        /\ not_in_view' = (not_in_view \ Entering(ran)) \cup Leaving(ran)
        /\ unprocessed' = (unprocessed \cup pending) \ Fresh(ran)
        /\ processed' = processed \cup Fresh(ran)
        /\ processed_not_hidden' = processed_not_hidden \cup FreshVisible(ran)
        /\ failed' = (entering \cap tex # {})
        /\ \E drawn \in SUBSET in_view' : tex' = (tex \ Leaving(ran)) \cup drawn

\* render_application.  The view drawn is app->view, transformed by the
\* gesture that is going on.  The todo view leaves everything where it is.
Frame(v) ==
    /\ ~failed
    /\ pending' = {}
    /\ IF main_view = "calendar"
       THEN proj_active_events_process(Bounds[v])
       ELSE /\ unprocessed' = unprocessed \cup pending
            /\ UNCHANGED <<processed, processed_not_hidden, in_view, not_in_view,
                           tex, failed>>
    /\ UNCHANGED <<calendar, current_filter, main_view>>

\* in_view_destroy_texs: at the end of a gesture (touch_end), and when the
\* graphics context is lost (context_cb).
in_view_destroy_texs ==
    /\ ~failed
    /\ tex' = tex \ in_view
    /\ UNCHANGED <<calendar, pending, projVars, current_filter, main_view, failed>>

\* proj_active_events_clear, and the instances of C waiting to be added.
Rebuild(C) ==
    /\ ~failed
    /\ calendar' = C
    /\ pending' = C
    /\ unprocessed' = {} /\ processed' = {} /\ processed_not_hidden' = {}
    /\ in_view' = {} /\ not_in_view' = {}
    /\ tex' = tex \ processed
    /\ UNCHANGED failed

\* An edit or a reload has changed the calendars.
Invalidate(C) == Rebuild(C) /\ UNCHANGED <<current_filter, main_view>>

\* MUTANT of app_cmd_activate_filter: the events are not filtered again.
app_cmd_activate_filter_Keeps(f) ==
    /\ ~failed
    /\ f # current_filter
    /\ current_filter' = f
    /\ UNCHANGED <<calendar, pending, projVars, tex, main_view, failed>>

app_cmd_activate_filter(f) ==
    /\ f # current_filter
    /\ current_filter' = f
    /\ Rebuild(calendar)
    /\ UNCHANGED main_view

app_cmd_switch_view(m) ==
    /\ ~failed
    /\ main_view' = m
    /\ UNCHANGED <<calendar, pending, projVars, tex, current_filter, failed>>

EventsNext ==
    \/ \E v \in Views : Frame(v)
    \/ in_view_destroy_texs
    \/ \E C \in Calendars : Invalidate(C)
    \/ \E f \in Filters : app_cmd_activate_filter(f)
    \/ \E m \in {"calendar", "todo"} : app_cmd_switch_view(m)

EventsSpec == EventsInit /\ [][EventsNext]_eventVars

(***************************************************************************)
(* Properties                                                              *)
(***************************************************************************)
EventsTypeOK ==
    /\ calendar \in SUBSET Events
    /\ pending \in SUBSET calendar /\ unprocessed \in SUBSET calendar
    /\ processed \in SUBSET calendar /\ processed_not_hidden \in SUBSET processed
    /\ in_view \in SUBSET processed_not_hidden
    /\ not_in_view \in SUBSET processed_not_hidden
    /\ tex \in SUBSET Events
    /\ current_filter \in Filters
    /\ main_view \in {"calendar", "todo"}
    /\ failed \in BOOLEAN

\* Only events in view have textures, so that those who destroy the textures
\* of the events in view destroy all there are, none is leaked when an event
\* is freed, and the assertion "ac tex" holds when an event comes into view
\* (in_view_changed, in_view_destroy_texs, proj_active_events_clear).
TexturesInView == tex \subseteq in_view /\ ~failed

\* Every event of the calendars is in exactly one place, and no event waits
\* unseen after a rebuild.
Partition ==
    /\ calendar = pending \cup unprocessed \cup processed
    /\ pending \cap (unprocessed \cup processed) = {}
    /\ unprocessed \cap processed = {}

\* The visible events are divided by the view, and the filter of each was run
\* after the last change of filter.
Divided ==
    /\ in_view \cup not_in_view = processed_not_hidden
    /\ in_view \cap not_in_view = {}
    /\ processed_not_hidden = {e \in processed : Visible(e)}

PlacesInv == Partition /\ Divided

\* What a frame of the calendar view has to show.
Due(v) == {e \in calendar : Visible(e) /\ interval_overlap(Span[e], Bounds[v])}

\* Whatever views, filters, edits and switches of view came before, a frame
\* has in view exactly the events of the calendars that the current filter
\* shows and that overlap the bounds of the view (app_use_view).
FrameShowsView ==
    [][\A v \in Views : main_view = "calendar" /\ Frame(v) => in_view' = Due(v)]_eventVars
=============================================================================
