----------------------------- MODULE ModeSelect -----------------------------
(***************************************************************************)
(* Selecting a component with the keyboard (KEYSTATE_SELECT), over the     *)
(* events of ActiveEvents and the todos of proj_active_todos.              *)
(*                                                                         *)
(* Entering the mode gives each component of the current view a code, the  *)
(* keys typed are collected until they are as many as a code has, and the  *)
(* first component whose code begins with them is the selected one.  In    *)
(* between, the event loop goes on: frames are drawn, an editor that was   *)
(* left open returns with an edit, and the buttons of the sidebar run      *)
(* actions whatever the mode is.                                           *)
(***************************************************************************)
EXTENDS ActiveEvents, KPermutation

CONSTANTS
    Todos,          \* todos, numbered in the order of active_todos.v
    TodoLists,      \* the sets of todos that a filter may let through
    Keys            \* the keys that codes are made of, as indices of `gen`

\* The codes of struct key_gen: sequences of different keys.
KPerms(k) == {s \in [1..k -> Keys] : IsInjective(s)}

\* There are codes for all events and for all todos; the code looks for a length
\* without end if there are not.
ASSUME SelectAssumption ==
    /\ Events \subseteq Nat /\ Todos \subseteq Nat /\ Events \cap Todos = {}
    /\ TodoLists \subseteq SUBSET Todos
    /\ Keys \subseteq Nat /\ IsFiniteSet(Keys)
    /\ \A S \in {Events, Todos} :
         /\ IsFiniteSet(S)
         /\ \E k \in 1..Cardinality(Keys) : Cardinality(KPerms(k)) >= Cardinality(S)

VARIABLES
    todos,          \* active_todos.v
    todos_pending,  \* todos in cal->cis that the filter will let through
    view,           \* app->view
    keystate,       \* "base" or "select"
    code,           \* component -> its code; <<>> is the empty string
    typed,          \* mode_select_code, up to mode_select_code_n
    sel_len,        \* mode_select_len
    offered,        \* what the running selection gave a code to, unless it was
                    \* rebuilt since (history)
    crashed         \* the NULL component was read

selectVars == <<keystate, code, typed, sel_len, offered, crashed>>
vars == <<eventVars, todos, todos_pending, view, selectVars>>

Components == Events \cup Todos
NoCode == [i \in Components |-> <<>>]

Init ==
    /\ EventsInit
    /\ todos = {}
    /\ todos_pending \in TodoLists
    /\ view \in Views
    /\ keystate = "base"
    /\ code = NoCode
    /\ typed = <<>>
    /\ sel_len = 0
    /\ offered = {}
    /\ crashed = FALSE

(***************************************************************************)
(* Codes: struct key_gen                                                   *)
(***************************************************************************)
\* key_gen_init: the least length with codes enough for n components.
key_gen_len(n) ==
    CHOOSE k \in 1..Cardinality(Keys) :
        /\ Cardinality(KPerms(k)) >= n
        /\ \A j \in 1..(k - 1) : Cardinality(KPerms(j)) < n

\* key_gen_get after n others: the codes come in lexicographic order, which
\* MCModeSelect compares with KeyGen.
Before(k, s) == {t \in KPerms(k) : LexLess(t, s)}
key_gen_get(k, n) == CHOOSE s \in KPerms(k) : Cardinality(Before(k, s)) = n

\* The components of S get theirs in order.
GenCodes(S) ==
    [i \in S |-> key_gen_get(key_gen_len(Cardinality(S)), Cardinality({j \in S : j < i}))]

(***************************************************************************)
(* Frames, views and what changes the calendars                            *)
(***************************************************************************)
Live == ~crashed

DrawFrame ==
    /\ Live
    /\ \E v \in Views : Frame(v)
    /\ todos' = todos \cup todos_pending
    /\ todos_pending' = {}
    /\ UNCHANGED <<view, selectVars>>

\* The components of the projections are freed; new ones start with no code.
Rebuilt ==
    /\ todos' = {}
    /\ todos_pending' \in TodoLists
    /\ code' = NoCode
    /\ offered' = {}

\* The key `r`, or an editor returns (application_handle_child).
CalendarsChange ==
    /\ Live
    /\ \E C \in Calendars : Invalidate(C)
    /\ Rebuilt
    /\ UNCHANGED <<view, keystate, typed, sel_len, crashed>>

\* A number key, which a selection would take for its end.
FilterKey ==
    /\ Live
    /\ keystate = "base"
    /\ \E f \in Filters : app_cmd_activate_filter(f)
    /\ Rebuilt
    /\ UNCHANGED <<view, keystate, typed, sel_len, crashed>>

\* Keys in KEYSTATE_BASE, or buttons at any time (run_action).
SwitchView ==
    /\ Live
    /\ \E m \in {"calendar", "todo"} : app_cmd_switch_view(m)
    /\ UNCHANGED <<todos, todos_pending, view, selectVars>>

\* app_cmd_move_view_discrete, app_cmd_view_today.
MoveView ==
    /\ Live /\ ~failed
    /\ view' \in Views
    /\ UNCHANGED <<eventVars, todos, todos_pending, selectVars>>

\* touch_end, or context_cb: the latter leaves the view.
TouchEnd ==
    /\ Live
    /\ in_view_destroy_texs
    /\ view' \in Views
    /\ UNCHANGED <<todos, todos_pending, selectVars>>

(***************************************************************************)
(* The mode                                                                *)
(***************************************************************************)
\* MUTANT of Codeless: components out of view keep the code they had.
Codeless_None == {}

\* Components that lose their code when the mode is entered: processed events
\* that do not overlap the view itself.
Codeless ==
    IF main_view = "calendar"
    THEN {e \in processed_not_hidden : ~interval_overlap(Span[e], view)}
    ELSE {}

Candidates ==
    IF main_view = "calendar"
    THEN {e \in processed_not_hidden : interval_overlap(Span[e], view)}
    ELSE todos

\* MUTANT of app_switch_mode_select: the keys typed before are kept.
app_switch_mode_select_KeepsTyped ==
    /\ Live /\ ~failed
    /\ keystate # "select"
    /\ keystate' = "select"
    /\ UNCHANGED typed
    /\ sel_len' = key_gen_len(Cardinality(Candidates))
    /\ code' = [i \in Components |->
                   IF i \in Candidates THEN GenCodes(Candidates)[i]
                   ELSE IF i \in Codeless THEN <<>> ELSE code[i]]
    /\ offered' = Candidates
    /\ UNCHANGED <<eventVars, todos, todos_pending, view, crashed>>

\* app_switch_mode_select.
app_switch_mode_select ==
    /\ Live /\ ~failed
    /\ keystate # "select"
    /\ keystate' = "select"
    /\ typed' = <<>>
    /\ sel_len' = key_gen_len(Cardinality(Candidates))
    /\ code' = [i \in Components |->
                   IF i \in Candidates THEN GenCodes(Candidates)[i]
                   ELSE IF i \in Codeless THEN <<>> ELSE code[i]]
    /\ offered' = Candidates
    /\ UNCHANGED <<eventVars, todos, todos_pending, view, crashed>>

\* The list app_mode_select_finish goes through, of the view it finds.
Listed == IF main_view = "calendar" THEN processed_not_hidden ELSE todos

\* MUTANT of Matching: a code is compared for its own length.
Matching_CodeLength(t) == {i \in Listed : IsPrefix(code[i], t)}

\* strncmp(code, mode_select_code, n) = 0.
Matching(t) == {i \in Listed : IsPrefix(t, code[i])}

Selection(t) == CHOOSE i \in Matching(t) : \A j \in Matching(t) : i <= j

\* app_mode_select_finish.  Without a match `ac` is NULL and is read, since
\* every selection has an expression to evaluate; with one, the expression
\* launches an editor for it, or edits it.
app_mode_select_finish(t) ==
    /\ keystate' = "base"
    /\ crashed' = (Matching(t) = {})
    /\ \/ /\ offered' = {}
          /\ UNCHANGED <<eventVars, todos, todos_pending, code>>
       \/ /\ Matching(t) # {}
          /\ \E C \in Calendars : Invalidate(C)
          /\ Rebuilt

\* handle_key, KEYSTATE_SELECT: a key that codes are made of ...
TypeKey(k) ==
    /\ Live /\ ~failed
    /\ keystate = "select"
    /\ typed' = Append(typed, k)
    /\ IF Len(typed') >= sel_len
       THEN app_mode_select_finish(typed')
       ELSE UNCHANGED <<eventVars, todos, todos_pending, keystate, code, offered,
                        crashed>>
    /\ UNCHANGED <<view, sel_len>>

\* ... and any other.
Cancel ==
    /\ Live /\ ~failed
    /\ keystate = "select"
    /\ keystate' = "base"
    /\ offered' = {}
    /\ UNCHANGED <<eventVars, todos, todos_pending, view, code, typed, sel_len,
                   crashed>>

\* The program is started again: app_init.
Restart ==
    /\ crashed \/ failed
    /\ \E C \in Calendars : calendar' = C /\ pending' = C
    /\ unprocessed' = {} /\ processed' = {} /\ processed_not_hidden' = {}
    /\ in_view' = {} /\ not_in_view' = {} /\ tex' = {}
    /\ current_filter' \in Filters
    /\ main_view' = "calendar"
    /\ failed' = FALSE /\ crashed' = FALSE
    /\ Rebuilt
    /\ view' \in Views
    /\ keystate' = "base" /\ typed' = <<>> /\ sel_len' = 0

Next ==
    \/ DrawFrame \/ CalendarsChange \/ FilterKey
    \/ SwitchView \/ MoveView \/ TouchEnd
    \/ app_switch_mode_select \/ Cancel \/ \E k \in Keys : TypeKey(k)
    \/ Restart

Spec == Init /\ [][Next]_vars

(***************************************************************************)
(* Properties                                                              *)
(***************************************************************************)
TypeOK ==
    /\ EventsTypeOK
    /\ todos \in SUBSET Todos /\ todos_pending \in SUBSET Todos
    /\ view \in Views
    /\ keystate \in {"base", "select"}
    /\ DOMAIN code = Components
    /\ \A i \in Components : Range(code[i]) \subseteq Keys /\ IsInjective(code[i])
    /\ keystate = "select" => Len(typed) < sel_len
    /\ offered \in SUBSET Components
    /\ crashed \in BOOLEAN

\* No two components one can choose between have the same code, whatever was
\* given codes, moved out of view or rebuilt before (app_switch_mode_select).
CodesUnique ==
    \A list \in {processed_not_hidden, todos} : \A i, j \in list :
        i # j /\ code[i] = code[j] => code[i] = <<>>

\* To type the code that the selection gave a component selects that component
\* and no other, also when the view was moved or switched and frames were drawn
\* in between, as long as it was not rebuilt and its view is shown
\* (app_mode_select_append_sym, app_mode_select_finish).
OfferedIsSelected ==
    \A i \in offered \cap Listed :
        Len(code[i]) = sel_len /\ Selection(code[i]) = i

(***************************************************************************)
(* What the program is said to do, and does not                            *)
(***************************************************************************)
\* Documentation/interface.md: "if a nonexistent combination is entered,
\* editing is cancelled, and the application returns to the default state".
NonexistentCancels == ~crashed
=============================================================================
