------------------------------ MODULE UexprApp ------------------------------
(***************************************************************************)
(* The program around its expressions: src/src/gui-calendar/application.c  *)
(* reads the configuration when it starts, and evaluates what it left -    *)
(* filters, the alarm's filter, actions, expressions of selections - as    *)
(* components are shown, keys pressed and components selected, until       *)
(* app_finish gives back what is held.  Everything evaluated shares one    *)
(* tree and one store of variables.                                        *)
(*                                                                         *)
(* Which components a selection offers is left to ModeSelect, what an      *)
(* editor may return to EditorSession, which events come into view to      *)
(* ActiveEvents: here a selection takes any component shown, an editor     *)
(* returns any of Edits, and events come into view in any order.           *)
(***************************************************************************)
EXTENDS Uexpr

CONSTANTS
    Configs,        \* texts of config.uexpr
    Components,     \* what the calendars contain at first: id -> component
    Edits,          \* the changes that the editor or another program makes
    Short           \* texts that are started with, and nothing else (a bound)

VARIABLES
    app,            \* the machine of Uexpr, with current_filter
    comps,          \* id -> component
    shown,          \* id -> active_comp's settings, or Unset
    alarms,         \* the components in alarm_comps
    pending,        \* components wait for app_update_projections
    phase,          \* "start", "run", "end"
    text            \* the configuration (history)

vars == <<app, comps, shown, alarms, pending, phase, text>>

Unset == <<>>
NoFilter == 0

NoApp ==
    [ast |-> <<>>, vars |-> [x \in {} |-> Void], cals |-> 0, refs |-> <<>>, leaked |-> <<>>,
     filters |-> <<>>, actions |-> <<>>, alarm |-> Fail, select |-> Fail, keystate |-> "base",
     editor |-> NULL, main_view |-> "cal", current_filter |-> NoFilter, init_done |-> FALSE,
     kind |-> {}, pi |-> NULL, settings |-> NoSettings, set_st |-> NULL, status |-> "ok",
     v |-> Void]

\* The components of calendars that the configuration has added.
Present(m) == {c \in DOMAIN Components : Components[c].cal <= m.cals}

Init ==
    /\ app = NoApp
    /\ comps = Components
    /\ shown = [c \in DOMAIN Components |-> Unset]
    /\ alarms = {}
    /\ pending = FALSE
    /\ phase = "start"
    /\ text \in Configs \cup Short

Running == phase = "run" /\ app.status = "ok" /\ text \in Configs

(***************************************************************************)
(* The start                                                               *)
(***************************************************************************)
\* app_add_uexpr_config_file, in app_init: a file that cannot be parsed is
\* left out, and the program starts without calendars.
Loaded(p) ==
    IF p.r = Fail THEN NoApp
    ELSE Left(uexpr_eval([NoApp EXCEPT !.ast = p.ast], p.r, {"config"}, NULL, NoSettings))
app_init_config(t) == [Loaded(uexpr_parse(<<>>, t)) EXCEPT !.init_done = TRUE]

app_init ==
    /\ phase = "start"
    /\ app' = app_init_config(text)
    /\ phase' = "run"
    /\ pending' = TRUE
    /\ UNCHANGED <<comps, shown, alarms, text>>

(***************************************************************************)
(* Filters                                                                 *)
(***************************************************************************)
\* proj_active_events_add, proj_active_todos_add.
Default(c) == [vis |-> c.type = "event" \/ c.st \notin {"completed", "cancelled"},
               hide |-> FALSE, fade |-> FALSE]

\* execute_filter: what it returns has the settings that the filter has left.
execute_filter(m, root, c, settings) == uexpr_eval(m, root, {"filter"}, c, settings)

\* execute_current_filter, and the settings it leaves.
execute_current_filter(m, c) ==
    IF m.current_filter = NoFilter THEN [m EXCEPT !.settings = Default(c)]
    ELSE execute_filter(m, m.filters[m.current_filter].fn, c, Default(c))

\* One step of a series of evaluations: r.app, r.shown and r.alarms.
ShowAfter(e, r, c) == [r EXCEPT !.app = Left(e), !.shown[c] = e.settings]
Show(r, c) == ShowAfter(execute_current_filter(r.app, comps[c]), r, c)

\* proj_alarm_add: the settings start as zeroes.
AlarmAfter(e, r, c) ==
    [r EXCEPT !.app = Left(e), !.alarms = IF e.settings.vis THEN @ \cup {c} ELSE @]
proj_alarm_add(r, c) ==
    LET zero == [vis |-> FALSE, hide |-> FALSE, fade |-> FALSE]
    IN  IF r.app.alarm = Fail THEN r
        ELSE AlarmAfter(execute_filter(r.app, r.app.alarm, comps[c], zero), r, c)

Added(r, c) == proj_alarm_add(IF comps[c].type = "todo" THEN Show(r, c) ELSE r, c)

Evaluated(r) == /\ app' = r.app /\ shown' = r.shown /\ alarms' = r.alarms
Now == [app |-> app, shown |-> shown, alarms |-> alarms]

\* app_update_projections: all events, then all todos.
app_update_projections ==
    /\ Running /\ pending
    /\ \E order \in SetToSeqs(Present(app)) :
         /\ \A i, j \in DOMAIN order :
              comps[order[i]].type = "todo" /\ comps[order[j]].type = "event" => j < i
         /\ Evaluated(FoldLeft(Added, Now, order))
    /\ pending' = FALSE
    /\ UNCHANGED <<comps, phase, text>>

\* proj_active_events_process: an event comes into the bounds of the view.
proj_active_events_process(c) ==
    /\ Running /\ ~pending
    /\ app.main_view = "cal" /\ comps[c].type = "event" /\ shown[c] = Unset
    /\ Evaluated(Show(Now, c))
    /\ UNCHANGED <<comps, pending, phase, text>>

\* app_invalidate_calendars.
Invalidated ==
    /\ shown' = [c \in DOMAIN Components |-> Unset]
    /\ alarms' = {}
    /\ pending' = TRUE

app_action_eval_cond(act) == act.view \in {"any", app.main_view}

Due(k) == {i \in DOMAIN app.actions :
              app.actions[i].key = k /\ app_action_eval_cond(app.actions[i])}

\* MUTANT of Numbered: the number after the last is taken for a filter.
Numbered_OffByOne(n) == IF n <= Len(app.filters) + 1 THEN n ELSE NoFilter

Numbered(n) == IF n \in DOMAIN app.filters THEN n ELSE NoFilter

\* A number key; an action without a key would take it.
app_cmd_activate_filter(n) ==
    /\ Running /\ app.keystate = "base" /\ Due("") = {}
    /\ app.current_filter # n
    /\ app' = [app EXCEPT !.current_filter = Numbered(n)]
    /\ Invalidated
    /\ UNCHANGED <<comps, phase, text>>

(***************************************************************************)
(* Actions and selections                                                  *)
(***************************************************************************)
run_action(act) == Left(uexpr_eval(app, act.fn, {"action"}, NULL, NoSettings))

\* handle_key: the first action of this key that the view allows.
handle_key(k) ==
    /\ Running /\ app.keystate = "base" /\ Due(k) # {}
    /\ app' = run_action(app.actions[Min(Due(k))])
    /\ UNCHANGED <<comps, shown, alarms, pending, phase, text>>

\* application_handle_input: a button of the sidebar, in any key state.
Tap(i) ==
    /\ Running
    /\ app' = run_action(app.actions[i])
    /\ UNCHANGED <<comps, shown, alarms, pending, phase, text>>

\* handle_key in KEYSTATE_SELECT, for a key of no code.
Cancel ==
    /\ Running /\ app.keystate = "select"
    /\ app' = [app EXCEPT !.keystate = "base"]
    /\ UNCHANGED <<comps, shown, alarms, pending, phase, text>>

Offered(c) == /\ shown[c] # Unset /\ shown[c].vis
              /\ comps[c].type = (IF app.main_view = "cal" THEN "event" ELSE "todo")

\* app_mode_select_finish: the expression is evaluated as a filter and as an
\* action, without settings; the status it has set is applied as an edit,
\* unless it is the one the component has, or the calendar cannot be written.
\* (Every selection has an expression: app_cmd_select_comp_uexpr.)
SelectedAfter(e, c) ==
    /\ app' = Left(e)
    /\ \/ /\ e.set_st \notin {NULL, comps[c].st}
          /\ comps' = [comps EXCEPT ![c].st = e.set_st]
          /\ Invalidated
       \/ UNCHANGED <<comps, shown, alarms, pending>>

app_mode_select_finish(c) ==
    /\ Running /\ app.keystate = "select" /\ Offered(c)
    /\ SelectedAfter(uexpr_eval([app EXCEPT !.keystate = "base"], app.select,
                                {"filter", "action"}, comps[c], NoSettings), c)
    /\ UNCHANGED <<phase, text>>

(***************************************************************************)
(* Edits                                                                   *)
(***************************************************************************)
Edited(new) == [comps EXCEPT ![new.of].text.sum = new.sum, ![new.of].st = new.st]

\* The properties of a component are replaced: strings that a variable holds
\* into them are freed.
Replaced(values, c) ==
    [x \in DOMAIN values |->
        IF values[x].type = "string" /\ values[x].of = c
        THEN [values[x] EXCEPT !.s = Freed] ELSE values[x]]

\* app_cmd_editor: the editor returns, with an edit of the component it was
\* given or with nothing to do.
app_cmd_editor ==
    /\ Running /\ app.editor # NULL
    /\ \/ \E new \in Edits :
            /\ new.of = app.editor /\ Edited(new) # comps
            /\ comps' = Edited(new)
            /\ app' = [app EXCEPT !.editor = NULL, !.vars = Replaced(@, new.of)]
            /\ Invalidated
       \/ /\ app' = [app EXCEPT !.editor = NULL]
          /\ UNCHANGED <<comps, shown, alarms, pending>>
    /\ UNCHANGED <<phase, text>>

\* app_cmd_reload, after another program has written the file: the component
\* is a new one, the old one stays in memory.
app_cmd_reload ==
    /\ Running /\ app.keystate = "base" /\ Due("r") = {}
    /\ \E new \in Edits : new.of \in Present(app) /\ comps' = Edited(new)
    /\ Invalidated
    /\ UNCHANGED <<app, phase, text>>

(***************************************************************************)
(* The end                                                                 *)
(***************************************************************************)
Finished(m, vs) == FoldLeft(uexpr_value_finish, m, vs)

\* app_finish, uexpr_ctx_destroy: the tags of the calendars, then the store.
app_finish ==
    /\ phase = "run" /\ app.status = "ok"
    /\ LET tags == [o \in 1..app.cals |-> Obj(o)]
           values == [x \in 1..Cardinality(DOMAIN app.vars) |->
                         app.vars[SetToSeq(DOMAIN app.vars)[x]]]
       IN  app' = [Finished(Finished(app, tags), values) EXCEPT !.vars = NoApp.vars]
    /\ phase' = "end"
    /\ UNCHANGED <<comps, shown, alarms, pending, text>>

Next ==
    \/ app_init \/ app_update_projections \/ app_cmd_editor \/ app_cmd_reload \/ Cancel
    \/ \E c \in Present(app) : proj_active_events_process(c) \/ app_mode_select_finish(c)
    \/ \E n \in 1..(Len(app.filters) + 1) : app_cmd_activate_filter(n)
    \/ \E i \in DOMAIN app.actions : Tap(i) \/ handle_key(app.actions[i].key)
    \/ app_finish

Spec == Init /\ [][Next]_vars

(***************************************************************************)
(* Properties                                                              *)
(***************************************************************************)
Settings == [{"vis", "hide", "fade"} -> BOOLEAN]

TypeOK ==
    /\ app.cals \in Nat /\ Len(app.refs) = app.cals /\ Len(app.leaked) = app.cals
    /\ \A x \in DOMAIN app.vars : app.vars[x].type \in AnyType
    /\ \A f \in Range(app.filters) : f.fn \in DOMAIN app.ast /\ f.def_cal \in 1..app.cals
    /\ \A act \in Range(app.actions) : act.fn \in DOMAIN app.ast /\ act.view \in Views \cup {"any"}
    /\ {app.alarm, app.select} \subseteq {Fail} \cup DOMAIN app.ast
    /\ app.current_filter \in {NoFilter} \cup DOMAIN app.filters
    /\ app.main_view \in Views /\ app.keystate \in {"base", "select"}
    /\ app.editor \in {NULL, "event", "todo"} \cup DOMAIN Components
    /\ \A c \in DOMAIN Components : shown[c] = Unset \/ shown[c] \in Settings
    /\ alarms \subseteq DOMAIN Components
    /\ phase \in {"start", "run", "end"} /\ pending \in BOOLEAN

\* A calendar object has as many references as there are holders of it: the
\* tag of the calendar, the variables, and the values that were given up
\* without being finished (obj_ref, uexpr_set_var, uexpr_value_copy).  It is
\* freed neither early nor, but for the latter, never.
RefsCountHolders ==
    \A o \in 1..app.cals :
        app.refs[o] = (IF phase = "end" THEN 0 ELSE 1) + app.leaked[o]
                        + FoldSet(LAMBDA x, n : n + Refs(app.vars[x], o), 0, DOMAIN app.vars)

\* No evaluation and no end of the program takes or gives back a reference of a
\* calendar object that was freed, reads a string whose component was edited since
\* it was stored, or uses a tree or a context that is gone (obj_ref,
\* uexpr_value_finish, uexpr_set_var).  Of strings, trees and contexts this is so as
\* long as a configuration, like those of the run, writes a variable before it reads
\* it, stores no native function and includes no text that cannot be parsed.  A
\* pointer that is NULL to begin with is not meant: a missing summary that a filter
\* compares ends the program, as may other ways to stop (Stop).
NothingGone ==
    app.status \notin {"freed object", "freed string", "freed tree", "context gone"}

\* Texts that are expressions of the grammar are read to their end, and what
\* is read is an expression of the grammar (uexpr_parse).
ReadsGrammar(p) ==
    text \in Short =>
        /\ IsExpr(text) => p.r # Fail /\ p.in = <<>>
        /\ p.r # Fail => IsExpr(Read(text, p))

\* To print the tree and to read what was printed gives the tree again, and
\* what is printed has the tokens of the text, but for parentheses that group.
PrintsBack(p, printed) ==
    LET q == uexpr_parse(<<>>, printed)
    IN  /\ q.r # Fail /\ q.in = <<>> /\ SameTree(p.ast, p.r, q.ast, q.r)
        /\ Ungrouped(printed) = Ungrouped(Read(text, p))

\* What is read is the text's expression, and nothing of it is lost (uexpr_parse,
\* dump_ast).
ReadsAsWritten ==
    phase = "start" =>
        LET p == uexpr_parse(<<>>, text)
        IN  ReadsGrammar(p) /\ (p.r # Fail => PrintsBack(p, dump_ast(p.ast, p.r)))

\* Boot[t] is the program as the configuration t has left it.
Boot == [t \in Configs |-> app_init_config(t)]

\* The settings of a component depend on the component and the filter only:
\* not on what was evaluated before, for other components, by other filters, by
\* actions or selections, though they share the store (execute_current_filter).
SettingsAreOwn ==
    phase = "run" /\ app.status = "ok" =>
        \A c \in DOMAIN Components : shown[c] # Unset =>
            shown[c] = execute_current_filter(
                [Boot[text] EXCEPT !.current_filter = app.current_filter], comps[c]).settings

\* What only looks at components changes nothing else: filters do not reach
\* the functions of actions, nor either of them those of the configuration
\* (cal_uexpr_get).
Reach == <<app.keystate, app.select, app.editor, app.main_view, app.current_filter>>
Configured == <<app.ast, app.cals, app.filters, app.actions, app.alarm>>
FilterOnlyLooks ==
    [][/\ shown' # shown /\ ~pending' => Reach' = Reach
       /\ phase = "run" => Configured' = Configured]_vars

\* Names(i): what the tree i sets the status to.
Names(ast, i) ==
    {ast[ast[j].args[2]].str : j \in {k \in Below(ast, i) :
        ast[k].op = "FN" /\ ast[k].str = "let" /\ ast[ast[k].args[1]].str = "st"}}

\* A selection edits the component that was selected and no other, in nothing
\* but its status, and to a status that the expression of the selection names
\* and that is one (app_mode_select_finish, cal_uexpr_set).
OnlyAskedEdits ==
    [][app.keystate = "select" /\ app'.keystate = "base" /\ app'.editor = app.editor =>
         \A c \in DOMAIN Components : comps'[c] # comps[c] =>
            /\ \A d \in DOMAIN Components \ {c} : comps'[d] = comps[d]
            /\ Offered(c)
            /\ comps'[c] = [comps[c] EXCEPT !.st = comps'[c].st]
            /\ comps'[c].st \in Names(app.ast, app.select) \cap Statuses]_vars
=============================================================================
