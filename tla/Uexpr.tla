------------------------------- MODULE Uexpr -------------------------------
(***************************************************************************)
(* The evaluator of src/src/uexpr/uexpr.c and the functions and variables  *)
(* that src/src/gui-calendar/uexpr_cal.c gives it, as operators on a       *)
(* machine `m`: everything that an evaluation reads and changes, with the  *)
(* value it returned in m.v.                                               *)
(*                                                                         *)
(* A value of type nativeobj stands for a calendar and counts its holders. *)
(* A string is a reference: to a node of the tree, to a constant of the    *)
(* program, or to the properties of a component, `of`, that may replace it *)
(* (Freed) or not have it at all (NULL).                                   *)
(***************************************************************************)
EXTENDS UexprSyntax, TLC

CONSTANTS
    Files,          \* the configuration files: from a path to its text
    Beginnings      \* the pairs <<a, b>> of strings where a starts with b

NULL == "NULL"
Freed == "freed"
Program == "program"    \* strings that live as long as the program

(***************************************************************************)
(* Values                                                                  *)
(***************************************************************************)
Str(s) == [type |-> "string", s |-> s, of |-> Program]
StrOf(s, c) == [type |-> "string", s |-> s, of |-> c]
Bool(b) == [type |-> "boolean", b |-> b]
List(vs) == [type |-> "list", list |-> vs]
Obj(o) == [type |-> "nativeobj", o |-> o]
Fn(root) == [type |-> "fn", root |-> root]
NativeFn(name) == [type |-> "nativefn", name |-> name, env |-> "live"]
Void == [type |-> "void"]
Error == [type |-> "error"]

Ret(m, v) == [m EXCEPT !.v = v]
\* The program has ended: asrt has failed, or a pointer was followed that is NULL
\* or leads to what is gone, which need not end it, but leaves nothing to say.
Stop(m, why) == IF m.status = "ok" THEN [m EXCEPT !.status = why] ELSE m

\* Pointers to strings are followed.
Follow(m, strings) == IF Freed \in strings THEN Stop(m, "freed string")
                      ELSE IF NULL \in strings THEN Stop(m, "NULL string") ELSE m

RECURSIVE Refs(_, _)
\* How many references to the object o a value holds.
Refs(v, o) == CASE v.type = "nativeobj" -> IF v.o = o THEN 1 ELSE 0
                [] v.type = "list" -> FoldSeq(LAMBDA x, n : n + Refs(x, o), 0, v.list)
                [] OTHER -> 0

\* obj_ref, for every object in a value.  The count of an object that was
\* freed is 0, and neither takes a reference nor gives one.
obj_ref(m, v, d) ==
    LET count == [o \in DOMAIN m.refs |-> m.refs[o] + d * Refs(v, o)]
    IN  IF \E o \in DOMAIN count : count[o] # m.refs[o] /\ (m.refs[o] = 0 \/ count[o] < 0)
        THEN Stop(m, "freed object") ELSE [m EXCEPT !.refs = count]

uexpr_value_finish(m, v) == obj_ref(m, v, -1)
uexpr_value_copy(m, v) == Ret(obj_ref(m, v, 1), v)

(***************************************************************************)
(* Variables and functions of the calendar                                 *)
(***************************************************************************)
ConfigFns == {"add_cal", "add_filter", "add_action", "include", "set_alarm",
              "set_timezone", "set_colors"}
ActionFns == {"switch_view", "move_view_discrete", "view_today", "launch_editor",
              "select_comp", "set_colors"}
TextVars == {"sum", "color", "loc", "desc"}
DisplayVars == {"vis", "hide", "fade"}
CompVars == TextVars \cup DisplayVars \cup {"ev", "st", "clas", "cats", "cal", "last_mod_today"}
Statuses == {"tentative", "confirmed", "cancelled", "needsaction", "completed", "inprocess"}

NoSettings == <<>>
HasSettings(m) == DOMAIN m.settings # {}

\* A text property that the component does not have is a NULL pointer; status
\* and class are the empty string then.
get_ac(m, key) ==
    LET p == m.pi
    IN  CASE key = "ev" -> Bool(p.type = "event")
          [] key \in TextVars -> StrOf(p.text[key], p.id)
          [] key \in {"st", "clas"} -> Str(p[key])
          [] key = "cats" -> List([k \in DOMAIN p.cats |-> StrOf(p.cats[k], p.id)])
          [] key = "cal" -> Obj(p.cal)
          [] key = "last_mod_today" -> Bool(p.mod_today)
          [] OTHER -> Bool(m.settings[key])

\* The value of a variable that the present context defines, if it does.
\* MUTANT of cal_uexpr_get: a filter may do what an action may.
cal_uexpr_get_AllContexts(m, key) ==
    IF key \in ConfigFns /\ "config" \in m.kind THEN <<NativeFn(key)>>
    ELSE IF "filter" \in m.kind /\ key \in CompVars THEN <<get_ac(m, key)>>
    ELSE IF key \in ActionFns THEN <<NativeFn(key)>>
    ELSE <<>>

cal_uexpr_get(m, key) ==
    IF "config" \in m.kind /\ key \in ConfigFns THEN <<NativeFn(key)>>
    ELSE IF "filter" \in m.kind /\ key \in CompVars THEN <<get_ac(m, key)>>
    ELSE IF "action" \in m.kind /\ key \in ActionFns THEN <<NativeFn(key)>>
    ELSE <<>>

\* cal_uexpr_set takes the value: booleans for the display, a string as status.
cal_uexpr_sets(m, key, v) ==
    /\ "filter" \in m.kind
    /\ \/ v.type = "boolean" /\ key \in DisplayVars
       \/ v.type = "string" /\ key = "st"

\* MUTANT of cal_uexpr_set: what is no status is set too.
cal_uexpr_set_Unparsed(m, key, v) ==
    IF key = "st" THEN [m EXCEPT !.set_st = v.s]
    ELSE IF ~HasSettings(m) THEN Stop(m, "no settings")
    ELSE [m EXCEPT !.settings[key] = v.b]

\* When a selection is evaluated there are no settings to point to.
cal_uexpr_set(m, key, v) ==
    IF key = "st"
    THEN IF v.s \in Statuses THEN [m EXCEPT !.set_st = v.s] ELSE Follow(m, {v.s})
    ELSE IF ~HasSettings(m) THEN Stop(m, "no settings")
    ELSE [m EXCEPT !.settings[key] = v.b]

\* MUTANT of Looked: the store is asked before the context.
Looked_StoreFirst(m, key, native) ==
    IF key \in DOMAIN m.vars THEN uexpr_value_copy(m, m.vars[key])
    ELSE IF native # <<>> THEN uexpr_value_copy(m, native[1])
    ELSE Ret(m, Error)

\* get_var: the context first, then the store, where what is neither string,
\* boolean, function nor object (the $i of an apply over lists) is not found.
Looked(m, key, native) ==
    IF native # <<>> THEN uexpr_value_copy(m, native[1])
    ELSE IF key \in DOMAIN m.vars /\ m.vars[key].type \notin {"list", "void", "error"}
    THEN uexpr_value_copy(m, m.vars[key])
    ELSE Ret(m, Error)

get_var(m, key) ==
    IF key \in DisplayVars /\ "filter" \in m.kind /\ ~HasSettings(m)
    THEN Stop(m, "no settings") ELSE Looked(m, key, cal_uexpr_get(m, key))

\* MUTANT of uexpr_set_var: the old value is not given back.
uexpr_set_var_Leaks(m, key, v) ==
    IF cal_uexpr_sets(m, key, v) THEN uexpr_value_finish(cal_uexpr_set(m, key, v), v)
    ELSE [m EXCEPT !.vars = (key :> v) @@ @]

\* MUTANT of uexpr_set_var: what the store has is not deleted first.
uexpr_set_var_KeepsOld(m, key, v) ==
    IF cal_uexpr_sets(m, key, v) THEN uexpr_value_finish(cal_uexpr_set(m, key, v), v)
    ELSE [m EXCEPT !.vars = @ @@ (key :> v)]

uexpr_set_var(m, key, v) ==
    IF cal_uexpr_sets(m, key, v) THEN uexpr_value_finish(cal_uexpr_set(m, key, v), v)
    ELSE LET old == IF key \in DOMAIN m.vars THEN m.vars[key] ELSE Void
         IN  [uexpr_value_finish(m, old) EXCEPT !.vars = (key :> v) @@ @]

(***************************************************************************)
(* What the functions of the calendar do with their arguments              *)
(***************************************************************************)
AnyType == {"string", "boolean", "list", "nativeobj", "fn", "nativefn", "void", "error"}

\* The types of the arguments a function evaluates, in this order; those with
\* {} it keeps as they are, to evaluate later or not at all.
Takes == LET S == {"string"} IN
    [add_cal |-> <<{}, S>>, add_filter |-> <<S, {"nativeobj"}, {}>>,
     add_action |-> <<{"string", "list"}, {}, AnyType>>, include |-> <<S>>,
     set_alarm |-> <<S, {}>>, set_timezone |-> <<S>>, set_colors |-> <<S, S, S, S, S, S>>,
     switch_view |-> <<S>>, move_view_discrete |-> <<S>>, view_today |-> <<>>,
     launch_editor |-> <<S>>, select_comp |-> <<S, S, {}>>]
Optional == {"add_action", "launch_editor"}
ArgCounts(fn) == {Len(Takes[fn])} \cup {Len(Takes[fn]) - 1 : f \in {fn} \cap Optional}

Accepts(fn, k, v) ==
    v.type \in Takes[fn][k] /\ ~(fn = "add_action" /\ k = 1 /\ v.type = "string" /\ v.s = "")

\* The strings that are looked at in the call itself.
Followed(fn, vs) == IF fn \in {"set_alarm", "set_timezone", "select_comp"} THEN {}
                    ELSE {vs[k].s : k \in {j \in DOMAIN vs : vs[j].type = "string"}}

\* add_action: the key is the argument, or the first of a list.
KeyOf(v) == LET s == IF v.type = "list" /\ v.list # <<>> THEN v.list[1] ELSE v
            IN  IF s.type = "string" THEN s.s ELSE ""

Views == {"cal", "todo"}

app_add_action(m, args, vs) ==
    IF m.init_done THEN Stop(m, "assertion")
    ELSE LET view == IF Len(args) < 3 \/ vs[3].type # "string" \/ vs[3].s \notin Views
                     THEN "any" ELSE vs[3].s
             act == [key |-> KeyOf(vs[1]), view |-> view, fn |-> args[2]]
         IN  [uexpr_value_finish(m, List(vs)) EXCEPT !.actions = Append(@, act), !.v = Void]

\* The reference that evaluating the second argument took is never given back.
app_add_uexpr_filter(m, args, vs) ==
    IF m.init_done THEN Stop(m, "assertion")
    ELSE [m EXCEPT !.filters = Append(@, [def_cal |-> vs[2].o, fn |-> args[3]]),
                   !.leaked[vs[2].o] = @ + 1, !.v = Void]

\* MUTANT of app_add_cal: the calendar's tag and the variable share a reference.
app_add_cal_OneRef(m, key) ==
    IF m.init_done THEN Stop(m, "assertion")
    ELSE LET o == m.cals + 1
             new == [m EXCEPT !.cals = o, !.refs = Append(@, 1), !.leaked = Append(@, 0)]
         IN  Ret(uexpr_set_var(new, key, Obj(o)), Void)

\* app_add_cal and obj_cal_ref_create: the first reference is the variable's,
\* the second that of uexpr_tag.
app_add_cal(m, key) ==
    IF m.init_done THEN Stop(m, "assertion")
    ELSE LET o == m.cals + 1
             new == [m EXCEPT !.cals = o, !.refs = Append(@, 1), !.leaked = Append(@, 0)]
         IN  Ret(uexpr_set_var(uexpr_value_copy(new, Obj(o)), key, Obj(o)), Void)

\* app_cmd_launch_editor, app_cmd_launch_editor_new: one editor at a time.  The
\* text for a new component names a calendar, so that there has to be one.
Launched(m, what) == IF m.editor = NULL THEN [m EXCEPT !.editor = what] ELSE m
launch_editor(m, vs) ==
    CASE vs = <<>> -> IF "filter" \in m.kind THEN Launched(m, m.pi.id) ELSE m
      [] OTHER -> IF vs[1].s \notin {"event", "todo"} THEN m
                  ELSE IF m.cals = 0 /\ m.editor = NULL THEN Stop(m, "assertion")
                  ELSE Launched(m, vs[1].s)

app_cmd_select_comp_uexpr(m, root) == [m EXCEPT !.keystate = "select", !.select = root]

(***************************************************************************)
(* Evaluation                                                              *)
(***************************************************************************)
Comparable(a, b) == a.type = b.type /\ a.type \in {"string", "nativeobj"}
Same(a, b) == IF a.type = "string" THEN a.s = b.s ELSE a.o = b.o
\* strcmp, or strncmp, when both are strings.
Compare(m, a, b) ==
    IF a.type = "string" /\ b.type = "string" THEN Follow(m, {a.s, b.s}) ELSE m

\* The items of a list up to the first that is equal.
Compared(a, vs) ==
    LET found == {k \in DOMAIN vs : Comparable(a, vs[k]) /\ Same(a, vs[k])}
    IN  {k \in DOMAIN vs : \A j \in found : k <= j}

Equal(a, b) == IF Comparable(a, b) THEN Bool(Same(a, b)) ELSE Error
In(a, b) == IF b.type # "list" THEN Error
            ELSE Bool(\E k \in DOMAIN b.list : Comparable(a, b.list[k]) /\ Same(a, b.list[k]))

RECURSIVE eval(_, _), EvalAll(_, _, _), EvalBlock(_, _), EvalPrint(_, _),
          Applied(_, _, _, _), EvalArgs(_, _, _, _)

\* The operators below take the machine `e` after an operand was evaluated.
Finish(e) == uexpr_value_finish(e, e.v)
Refuse(e) == Ret(Finish(e), Error)

\* The values of several nodes, in order.
AllAfter(e, nodes, vs) == EvalAll(e, nodes, Append(vs, e.v))
EvalAll(m, nodes, vs) ==
    IF nodes = <<>> THEN Ret(m, List(vs))
    ELSE AllAfter(eval(m, Head(nodes)), Tail(nodes), vs)

EvalBlock(m, nodes) ==
    IF nodes = <<>> THEN m ELSE EvalBlock(eval(Finish(m), Head(nodes)), Tail(nodes))

EvalPrint(m, nodes) ==
    IF nodes = <<>> THEN Ret(m, Void)
    ELSE EvalPrint(Finish(eval(m, Head(nodes))), Tail(nodes))

Assigned(e, key) ==
    IF e.v.type \in {"string", "boolean"} THEN Ret(uexpr_set_var(e, key, e.v), Void) ELSE Refuse(e)
fn_let(m, args) ==
    IF m.ast[args[1]].op = "VAR" THEN Assigned(eval(m, args[2]), m.ast[args[1]].str) ELSE Ret(m, Error)

fn_let_fn(m, args) ==
    IF m.ast[args[1]].op = "VAR"
    THEN Ret(uexpr_set_var(m, m.ast[args[1]].str, Fn(args[2])), Void) ELSE Ret(m, Error)

\* fn_apply: the elements move, one after the other, into the variable i.
AppliedAfter(e, vs, body, results) == Applied(e, vs, body, Append(results, e.v))
Applied(m, vs, body, results) ==
    IF vs = <<>> THEN Ret(m, List(results))
    ELSE AppliedAfter(eval(uexpr_set_var(m, "i", Head(vs)), body), Tail(vs), body, results)
Apply(e, body) == IF e.v.type = "list" THEN Applied(e, e.v.list, body, <<>>) ELSE Refuse(e)

fn_startsw(e, a, b) ==
    Ret(Compare(Finish(e), a, b),
        IF a.type = "string" /\ b.type = "string"
        THEN Bool(a.s = b.s \/ <<a.s, b.s>> \in Beginnings) ELSE Error)

\* The arguments of a native function; the first of a wrong type ends it.
ArgsAfter(e, fn, args, vs) ==
    IF Accepts(fn, Len(vs) + 1, e.v) THEN EvalArgs(e, fn, args, Append(vs, e.v)) ELSE Refuse(e)
EvalArgs(m, fn, args, vs) ==
    LET k == Len(vs) + 1
    IN  IF k > Len(args) THEN Ret(m, List(vs))
        ELSE IF Takes[fn][k] = {} THEN EvalArgs(m, fn, args, Append(vs, Void))
        ELSE ArgsAfter(eval(m, args[k]), fn, args, vs)

\* app_add_uexpr_config.  A file that cannot be opened is a NULL FILE.  When
\* one cannot be parsed, e->ast may still point to what the parser has
\* reallocated: the model ends there.
Included(m, p) ==
    IF p.r # Fail THEN Ret(Finish(eval([m EXCEPT !.ast = p.ast], p.r)), Void)
    ELSE IF p.ast = m.ast THEN Ret(m, Void) ELSE Stop(m, "freed tree")
app_add_uexpr_config(m, path) ==
    IF path \notin DOMAIN Files THEN Stop(m, "NULL file")
    ELSE Included(m, uexpr_parse(m.ast, Files[path]))

\* A native function, after its arguments.
NativeWith(e, fn, args, vs) ==
    CASE fn = "add_cal" -> app_add_cal(e, e.ast[args[1]].str)
      [] fn = "add_filter" -> app_add_uexpr_filter(e, args, vs)
      [] fn = "add_action" -> app_add_action(e, args, vs)
      [] fn = "include" -> app_add_uexpr_config(e, vs[1].s)
      [] fn = "set_alarm" -> [e EXCEPT !.alarm = args[2], !.v = Void]
      [] fn = "switch_view" ->
            [e EXCEPT !.main_view = IF vs[1].s \in Views THEN vs[1].s ELSE @, !.v = Void]
      [] fn = "launch_editor" -> Ret(launch_editor(e, vs), Void)
      [] fn = "select_comp" -> Ret(app_cmd_select_comp_uexpr(e, args[3]), Void)
      [] OTHER -> Ret(e, Void)  \* the time zone, colours, the range of the view
Native(e, fn, args) ==
    IF e.status # "ok" \/ e.v.type # "list" THEN e
    ELSE IF Followed(fn, e.v.list) \cap {Freed, NULL} # {} THEN Follow(e, Followed(fn, e.v.list))
    ELSE NativeWith(e, fn, args, e.v.list)
CallNative(m, fn, args) ==
    IF Len(args) \notin ArgCounts(fn) \/ (fn = "add_cal" /\ m.ast[args[1]].op # "VAR")
    THEN Ret(m, Error)
    ELSE Native(EvalArgs(m, fn, args, <<>>), fn, args)

\* The variable of the name that is called.  A function of a context that was
\* kept in a variable points to a context that is gone.
CallValue(g, args) ==
    IF g.status # "ok" THEN g
    ELSE CASE g.v.type = "fn" -> eval(g, g.v.root)
           [] g.v.type = "nativefn" ->
                IF g.v.env = "live" THEN CallNative(g, g.v.name, args) ELSE Stop(g, "context gone")
           [] g.v.type = "nativeobj" -> [g EXCEPT !.leaked[g.v.o] = @ + 1, !.v = Error]
           [] OTHER -> Ret(g, Error)

\* A call: the built-in functions, then the variable of this name.
Pairs == {"let", "let_fn", "apply", "startsw"}
Started(e) == fn_startsw(e, e.v.list[1], e.v.list[2])
Call(m, n) ==
    CASE n.str \in Pairs /\ Len(n.args) # 2 -> Ret(m, Error)
      [] n.str = "let" /\ Len(n.args) = 2 -> fn_let(m, n.args)
      [] n.str = "let_fn" /\ Len(n.args) = 2 -> fn_let_fn(m, n.args)
      [] n.str = "apply" /\ Len(n.args) = 2 -> Apply(eval(m, n.args[1]), n.args[2])
      [] n.str = "startsw" /\ Len(n.args) = 2 -> Started(EvalAll(m, n.args, <<>>))
      [] n.str = "print" -> EvalPrint(m, n.args)
      [] OTHER -> CallValue(get_var(m, n.str), n.args)

Neg(e) == IF e.v.type = "boolean" THEN Ret(e, Bool(~e.v.b)) ELSE Refuse(e)

\* The second operand is evaluated, and is the value, if the first leaves it
\* open.
AndOr(e, n) ==
    IF e.v.type # "boolean" THEN Refuse(e)
    ELSE IF e.v.b = (n.op = "AND") THEN eval(e, n.args[2]) ELSE e

EqIn(e, op, a, b) ==
    IF op = "EQ" THEN Ret(Compare(Finish(e), a, b), Equal(a, b))
    ELSE IF b.type # "list" THEN Refuse(e)
    ELSE Ret(FoldSet(LAMBDA k, f : Compare(f, a, b.list[k]), Finish(e), Compared(a, b.list)),
             In(a, b))
Related(e, op) == EqIn(e, op, e.v.list[1], e.v.list[2])

eval(m, i) ==
    LET n == m.ast[i]
    IN  IF m.status # "ok" THEN m
        ELSE CASE n.op = "LIT" -> Ret(m, Str(n.str))
               [] n.op = "LIST" -> EvalAll(m, n.args, <<>>)
               [] n.op = "BLOCK" -> EvalBlock(Ret(m, Void), n.args)
               [] n.op = "FN" -> Call(m, n)
               [] n.op = "VAR" -> get_var(m, n.str)
               [] n.op = "NEG" -> Neg(eval(m, n.args[1]))
               [] n.op \in {"AND", "OR"} -> AndOr(eval(m, n.args[1]), n)
               [] n.op \in {"EQ", "IN"} -> Related(EvalAll(m, n.args, <<>>), n.op)

\* The struct cal_uexpr_env of an evaluation is on the stack of the caller: a
\* native function that was stored during it points to what is gone.
Left(m) ==
    [m EXCEPT !.kind = {}, !.pi = NULL, !.settings = NoSettings, !.set_st = NULL, !.v = Void,
        !.vars = [x \in DOMAIN @ |->
                     IF @[x].type = "nativefn" THEN [@[x] EXCEPT !.env = "gone"] ELSE @[x]]]

\* uexpr_ctx_set_ops and uexpr_eval, of a tree in a context.
uexpr_eval(m, root, kind, pi, settings) ==
    Finish(eval([m EXCEPT !.kind = kind, !.pi = pi, !.settings = settings, !.set_st = NULL], root))
=============================================================================
