------------------------------ MODULE MCUexpr ------------------------------
(***************************************************************************)
(* Two configurations, and every text of up to MaxShort tokens.  Two       *)
(* events, one in each calendar, and a todo, which an edit may leave       *)
(* without a summary.  The first configuration has a variable `st` of its  *)
(* own, which is not what filters see; the second gives two calendars to   *)
(* one variable, and its filter tries what only actions may do.            *)
(***************************************************************************)
EXTENDS UexprApp

CONSTANTS MaxShort, Alphabet

(***************************************************************************)
(* Texts                                                                   *)
(***************************************************************************)
V(x) == <<"$", x>>
L(x) == <<x>>
F(f, args) == <<f, "(">> \o Joined(args, ",") \o <<")">>
Lst(items) == <<"[">> \o Joined(items, ",") \o <<"]">>
Block(items) == <<"{">> \o Joined(items, ";") \o <<"}">>
Op(a, t, b) == <<"(">> \o a \o <<t>> \o b \o <<")">>
Not(a) == <<"~">> \o a
Let(x, e) == F("let", <<V(x), e>>)
Select(type, e) == F("select_comp", <<L(type), L("message"), e>>)
Key(k) == Lst(<<L(k), L("label")>>)

Filters1 == Block(<<
    F("add_cal", <<V("home"), L("home.ics")>>),
    F("add_cal", <<V("work"), L("work.ics")>>),
    Let("st", L("confirmed")),
    F("add_filter", <<L("mine"), V("home"), Let("vis", Op(V("cal"), "=", V("home")))>>),
    F("add_filter", <<L("busy"), V("work"), Block(<<
        Let("s", V("sum")),
        Let("vis", Op(Op(V("st"), "=", L("confirmed")), "|", Not(Op(L("private"), "%", V("cats"))))),
        Let("fade", Op(V("s"), "=", L("secret")))>>)>>),
    F("set_alarm", <<L("alarm.sh"), Let("vis", Op(V("ev"), "&", F("startsw", <<V("sum"), L("me")>>)))>>),
    F("add_action", <<Key("e"), Select("event", F("launch_editor", <<>>)), L("cal")>>),
    F("add_action", <<Key("c"), Select("todo", Let("st", L("completed"))), L("todo")>>),
    F("add_action", <<Key("s"), F("switch_view", <<L("todo")>>), L("cal")>>)
>>)

Filters2 == Block(<<
    F("include", <<L("cals.uexpr")>>),
    F("let_fn", <<V("own"), Op(V("cal"), "%", Lst(<<V("home")>>))>>),
    F("add_filter", <<L("sly"), V("home"), Block(<<
        F("switch_view", <<L("todo")>>), F("launch_editor", <<>>),
        Let("vis", Op(F("own", <<>>), "&", Not(Op(L("no"), "%",
            F("apply", <<V("cats"), Op(V("i"), "&", V("i"))>>)))))>>)>>),
    F("add_action", <<L("x"), Select("event", Block(<<
        Let("st", L("nonsense")), Let("x", L("y"))>>))>>),
    F("add_action", <<L("n"), F("launch_editor", <<L("todo")>>)>>)
>>)

MCConfigs == {Filters1, Filters2}
MCFiles == [f \in {"cals.uexpr"} |->
    Block(<<F("add_cal", <<V("home"), L("home.ics")>>), F("add_cal", <<V("home"), L("work.ics")>>)>>)]
MCBeginnings == {<<"meeting", "me">>}
MCShort == UNION {[1..n -> Alphabet] : n \in 1..MaxShort}

(***************************************************************************)
(* Components                                                              *)
(***************************************************************************)
Text(sum) == [sum |-> sum, color |-> NULL, loc |-> NULL, desc |-> NULL]
Comp(id, type, cal, sum, st, cats) ==
    [id |-> id, type |-> type, cal |-> cal, st |-> st, clas |-> "", cats |-> cats,
     text |-> Text(sum), mod_today |-> FALSE]

MCComponents ==
    [c \in {"c1", "c2", "c3"} |->
        CASE c = "c1" -> Comp(c, "event", 1, "meeting", "confirmed", <<>>)
          [] c = "c2" -> Comp(c, "event", 2, "meeting", "", <<"private">>)
          [] c = "c3" -> Comp(c, "todo", 2, "secret", "needsaction", <<"private">>)]
MCEdits == {[of |-> "c1", sum |-> "secret", st |-> "cancelled"],
            [of |-> "c3", sum |-> NULL, st |-> "cancelled"]}

(***************************************************************************)
(* What the filters are meant to show                                      *)
(***************************************************************************)
Meant(c) ==
    CASE app.current_filter = 0 -> Default(c).vis
      [] text = Filters1 /\ app.current_filter = 1 -> c.cal = 1
      [] text = Filters1 /\ app.current_filter = 2 ->
            c.st = "confirmed" \/ "private" \notin Range(c.cats)
      [] text = Filters2 /\ app.current_filter = 1 -> c.cal = 2
\* A filter shows the components that its text describes, in the meaning that
\* Documentation/uexpr.md and uexpr_cal.md give to it (eval, get_ac), and the
\* alarm rings for those its text describes.
FiltersMeanWhatTheySay ==
    phase = "run" /\ app.status = "ok" =>
        /\ \A c \in DOMAIN comps : shown[c] # Unset => shown[c].vis = Meant(comps[c])
        /\ ~pending /\ text = Filters1 =>
              alarms = {c \in DOMAIN comps : comps[c].type = "event" /\ comps[c].text.sum = "meeting"}
=============================================================================
