--------------------------- MODULE EditorSession ---------------------------
(***************************************************************************)
(* The editor: a child process with a file.  A template of a component or  *)
(* of a new one is written to the file and the editor started on it; the   *)
(* program goes on meanwhile, with edits of its own and reloads.  When the *)
(* editor is closed the file is read, parsed and applied, and if any of    *)
(* that fails, a new editor is started on the same text.                   *)
(*                                                                         *)
(* A text is a header and a sequence of lines; `newline` says whether the  *)
(* last line ends in one.  Lines have the names of the properties they are *)
(* about.  Keys that differ in their values only are left out: "summary"   *)
(* stands for the properties with a literal, "status" for those with a     *)
(* fixed set of values, "calendar" for a calendar's number.                *)
(*                                                                         *)
(* Times are seconds, and a text has them to the minute, in local time: a  *)
(* date is its day and the minute of the day.  The clock is set back once. *)
(* Categories are the parts of a text with commas between them, and the    *)
(* commas that are not between two names but in one.                       *)
(*                                                                         *)
(* The components here do not recur, and no text names an instance: edits  *)
(* of instances are EditStorage's.                                         *)
(***************************************************************************)
EXTENDS Integers, Sequences, SequencesExt, Props

CONSTANTS
    Cals, Uids,
    Minute,         \* seconds in a minute,
    DayLen,         \* minutes in a day
    Back, Hour,     \* when the clock is set back, and by how much
    Days,           \* the days that `now` may fall on
    Contents,       \* what other programs write to the file of a uid
    Drafts,         \* the texts users write
    Statuses,       \* the values of `st` in the selections of the configuration
    Empty,          \* a file without a character, or that is no more
    Blank,          \* the value of a line that is only a key,
    Removal,        \* of a line "-key",
    Swallowed,      \* and a line that was read as the value of the one before
    NoComp, NoDraft, NoUid

VARIABLES
    files,          \* <<calendar, uid>> -> the component in the file, or NoComp
    mem,            \* <<calendar, uid>> -> what calendar_find_comp leads to
    editor,         \* app->sp: "none", or the child is "open" or "closed"
    tmp,            \* the text in its file
    status,         \* "running", or how the program has ended
    opened,         \* what the editor was last opened for (history), and since:
    touched,        \*     the user has written a text
    interfered,     \*     files or memory were changed by something else
    landed,         \*     how many edits of it were applied
    draft,          \*     what the user has written and is not yet applied
    failed          \*     an editor could not be started

\* A date as it is written; -1 stands for what is missing of it.
Dates == [day : Nat \cup {-1}, time : 0..(DayLen - 1) \cup {-1}]

\* What stands behind a key, where it is neither left out nor a removal.
IsValue(val) == val # Blank /\ val # Removal

\* The times of the model begin with its first day.
PropOK(k, val) ==
    IF k \in DateKeys THEN val \in Nat
    ELSE IF k = "cats" THEN IsValue(val.parts) /\ val = [parts |-> val.parts, commas |-> val.commas]
    ELSE IsValue(val)

ContentsOK(c) ==
    /\ c = [type |-> c.type, p |-> c.p]
    /\ \A k \in DOMAIN c.p : PropOK(k, c.p[k])

DraftOK(text) ==
    /\ Len(text.lines) \in Nat
    /\ \A i \in 1..Len(text.lines) :
           text.lines[i].key \in DateKeys =>
               ~IsValue(text.lines[i].val) \/ text.lines[i].val \in Dates

ASSUME DaysAssumption ==
    /\ Minute \in Nat \ {0} /\ DayLen \in Nat \ {0} /\ Days \subseteq Nat
    /\ Back \in Nat /\ Hour \in 0..Back

ASSUME ValuesAssumption ==
    /\ Blank \notin Dates /\ Removal \notin Dates
    /\ IsValue(Swallowed) /\ IsValue(Torn)
    /\ \A u \in Uids : IsValue(u)
    /\ \A c \in Cals : IsValue(c)
    /\ \A st \in Statuses : IsValue(st)

ASSUME ContentsAssumption == \A u \in Uids : \A c \in Contents[u] : ContentsOK(c)

ASSUME DraftsAssumption == \A text \in Drafts : DraftOK(text)

vars == <<files, mem, editor, tmp, status, opened, touched, interfered, landed, draft, failed>>
data == <<files, mem>>
sp == <<editor, tmp>>
history == <<opened, touched, interfered, landed, draft, failed>>

Comps == Cals \X Uids

(***************************************************************************)
(* The templates                                                           *)
(***************************************************************************)
Line(key, val) == [key |-> key, val |-> val]
Comment == Line("#", Blank)

\* The hour before the clock is set back and the one after it have the same
\* local times.
Local(t) == IF t < Back THEN t ELSE t - Hour

\* Printed to the minute.
simple_date_from_ts(t) ==
    LET minutes == Local(t) \div Minute
    IN  [day |-> minutes \div DayLen, time |-> minutes % DayLen]

Printed(p, k) ==
    IF k \notin DOMAIN p THEN <<>>
    ELSE <<Line(k, IF k \in DateKeys THEN simple_date_from_ts(p[k])
                   ELSE IF k = "cats" THEN p[k].parts ELSE p[k])>>

\* The lines that relations may be printed as.  Of a torn vector, whatever is
\* found there: relations, or what is none.
PrintedRelations(p) ==
    IF "related_to" \notin DOMAIN p THEN {<<>>}
    ELSE {<<Line("related_to", v)>> :
             v \in IF p.related_to = Torn THEN {Torn, Blank} ELSE {p.related_to}}

\* The uid of a component is never empty: without one it is not loaded.
print_template(x, rels) ==
    LET p == mem[x].p
    IN  [method |-> "update", type |-> mem[x].type, newline |-> TRUE,
         lines |-> Printed(p, "summary") \o Printed(p, "start") \o Printed(p, "end")
                   \o Printed(p, "due") \o Printed(p, "cats") \o rels \o Printed(p, "status")
                   \o <<Line("uid", x[2]), Line("calendar", x[1]), Comment>>]

\* The commented lines of the two templates for new components are one here.
print_new_event_template(c) ==
    [method |-> "create", type |-> "event", newline |-> TRUE,
     lines |-> <<Line("summary", Blank), Line("start", Blank), Line("end", Blank),
                 Comment, Line("calendar", c), Comment>>]

print_new_todo_template(c) ==
    [method |-> "create", type |-> "todo", newline |-> TRUE,
     lines |-> <<Line("summary", Blank), Comment, Line("calendar", c), Comment>>]

(***************************************************************************)
(* The parser                                                              *)
(***************************************************************************)
\* `prop` skips blanks and newlines behind a key, so a literal that is missing
\* is read from the next line; every other value then is an error.  The last
\* of several lines with the same key counts; "-key" stays in `rem`.
Start == [ok |-> TRUE, pending |-> FALSE, vals |-> NoProps, rem |-> {}]

Set(vals, k, v) == [j \in DOMAIN vals \cup {k} |-> IF j = k THEN v ELSE vals[j]]

\* Categories are split at every comma.
ReadAs(k, val) == IF k = "cats" THEN [parts |-> val, commas |-> {}] ELSE val

prop(acc, l) ==
    IF ~acc.ok THEN acc
    ELSE IF acc.pending
    THEN [acc EXCEPT !.pending = FALSE, !.vals = Set(@, "summary", Swallowed)]
    ELSE IF l.key = "#" THEN acc
    ELSE IF l.val = Blank
    THEN IF l.key = "summary" THEN [acc EXCEPT !.pending = TRUE] ELSE [acc EXCEPT !.ok = FALSE]
    ELSE IF l.val = Removal
    THEN IF l.key \in {"uid", "calendar"} THEN [acc EXCEPT !.ok = FALSE]
         ELSE [acc EXCEPT !.rem = @ \cup {l.key}]
    ELSE [acc EXCEPT !.vals = Set(@, l.key, ReadAs(l.key, l.val))]

grammar(text) ==
    LET acc[n \in 0..Len(text.lines)] ==
            IF n = 0 THEN Start ELSE prop(acc[n - 1], text.lines[n])
    IN  acc[Len(text.lines)]

Parses(text) == grammar(text).ok /\ ~grammar(text).pending

\* The loop that skips a comment waits for a newline.
NeverParsed(text) ==
    /\ grammar(text).ok /\ ~text.newline
    /\ text.lines # <<>> /\ Last(text.lines).key = "#"
    /\ ~grammar([text EXCEPT !.lines = Front(@)]).pending

Get(vals, key, default) == IF key \in DOMAIN vals THEN vals[key] ELSE default

NoDate == [day |-> -1, time |-> -1]

sd_default_date(sd, day) == [sd EXCEPT !.day = IF @ = -1 THEN day ELSE @]

\* A local time that comes twice is read as the second.
FromLocal(l) == IF l < Back - Hour THEN l ELSE l + Hour

\* MUTANT of simple_date_to_ts: without a time of day, a date is its first minute.
simple_date_to_ts_Midnight(sd) ==
    FromLocal(Minute * (sd.day * DayLen + IF sd.time = -1 THEN 0 ELSE sd.time))

\* A date without a time of day is not valid; the seconds are 0.
simple_date_to_ts(sd) ==
    IF sd.time = -1 THEN -1 ELSE FromLocal(Minute * (sd.day * DayLen + sd.time))

\* What is missing of a date is today's, of the end of an event its start's.
edit_spec_init_parse(text, today) ==
    LET vals  == grammar(text).vals
        start == sd_default_date(Get(vals, "start", NoDate), today)
        due   == sd_default_date(Get(vals, "due", NoDate), today)
        end   == sd_default_date(Get(vals, "end", NoDate), start.day)
        ts    == [k \in IF text.type = "event" THEN {"start", "end"} ELSE {"start", "due"} |->
                     simple_date_to_ts(CASE k = "start" -> start [] k = "end" -> end
                                         [] k = "due" -> due)]
        dates == {k \in DOMAIN ts : ts[k] # -1}
        rest  == DOMAIN vals \cap {"summary", "status", "cats", "related_to"}
    IN  [method |-> text.method, type |-> text.type, rem |-> grammar(text).rem,
         uid |-> Get(vals, "uid", NoUid), cal |-> Get(vals, "calendar", -1),
         p |-> [k \in dates \cup rest |-> IF k \in dates THEN ts[k] ELSE vals[k]]]

(***************************************************************************)
(* Applying an edit: apply_edit_spec_with_mod_time                         *)
(***************************************************************************)
\* What a load makes of a component; one without a file, or with a file that is
\* not valid, is left as it was (libical_parse_ics).
Loaded(x, old) ==
    IF files[x] # NoComp /\ props_valid_for_type(files[x].p, files[x].type)
    THEN [type |-> files[x].type, p |-> files[x].p, deleted |-> FALSE]
    ELSE old

Known(x) == x \in Comps /\ mem[x] # NoComp

\* The answers it may come to, if it comes to one.
edit_spec_is_identity(es, x) ==
    IF es.method = "update" /\ Known(x) THEN Identity(es, mem[x].p) ELSE {FALSE}

\* MUTANT of can_apply_to_memory: a new component is not validated.
can_apply_to_memory_Unvalidated(es, x) ==
    /\ es.uid # NoUid
    /\ \/ /\ es.method = "update"
          /\ Known(x)
          /\ es.type = mem[x].type
          /\ props_valid_for_type(assign_props(mem[x].p, es), es.type)
       \/ es.method = "create"
       \/ es.method = "delete"

can_apply_to_memory(es, x) ==
    /\ es.uid # NoUid
    /\ \/ /\ es.method = "update"
          /\ Known(x)
          /\ es.type = mem[x].type
          /\ props_valid_for_type(assign_props(mem[x].p, es), es.type)
       \/ /\ es.method = "create"
          /\ props_valid_for_type(assign_props(NoProps, es), es.type)
       \/ es.method = "delete"

\* access() and unlink(): the file of a component that is to be changed.
Reaches(es, x) == es.method = "create" \/ files[x] # NoComp

Accepted(es, x) ==
    FALSE \in edit_spec_is_identity(es, x) /\ can_apply_to_memory(es, x) /\ Reaches(es, x)

\* The assertions on the way: of the identity check, before the file is
\* changed, and after that.
AbortsBefore(es, x) ==
    \/ es.method = "update" /\ ~Known(x)
    \/ es.method = "update" /\ Accepted(es, x) /\ files[x].type # es.type

AbortsAfter(es, x) ==
    /\ Accepted(es, x)
    /\ \/ es.method = "create" /\ Known(x)
       \/ es.method = "delete" /\ ~Known(x)

NewFile(es, x) ==
    CASE es.method = "update" -> [files[x] EXCEPT !.p = apply_props_to_icalcomponent(@, es)]
      [] es.method = "create" -> [type |-> es.type,
                                  p |-> apply_props_to_icalcomponent(NoProps, es)]
      [] es.method = "delete" -> NoComp

NewComp(es, x) ==
    CASE es.method = "update" -> [mem[x] EXCEPT !.p = assign_props(@, es)]
      [] es.method = "create" -> [type |-> es.type, p |-> assign_props(NoProps, es),
                                  deleted |-> FALSE]
      [] es.method = "delete" -> [mem[x] EXCEPT !.deleted = TRUE]

Save(es, x) ==
    /\ Accepted(es, x) /\ ~AbortsBefore(es, x) /\ ~AbortsAfter(es, x)
    /\ files' = [files EXCEPT ![x] = NewFile(es, x)]
    /\ mem' = [mem EXCEPT ![x] = NewComp(es, x)]
    /\ UNCHANGED status

Abort(es, x) ==
    /\ AbortsBefore(es, x) \/ AbortsAfter(es, x)
    /\ status' = "assertion"
    /\ files' = IF AbortsBefore(es, x) THEN files
                ELSE [files EXCEPT ![x] = NewFile(es, x)]
    /\ UNCHANGED mem

\* A copy of relations is read, before the file is written, or after that.
Crash(es, x) ==
    /\ \/ es.method = "update" /\ Known(x) /\ ReadsTorn(es, mem[x].p)
       \/ es.method = "create" /\ ReadsTorn(es, NoProps)
    /\ status' = "segfault"
    /\ \/ UNCHANGED files
       \/ /\ es.method = "update" /\ Accepted(es, x) /\ ~AbortsBefore(es, x)
          /\ IsTorn(mem[x].p)
          /\ files' = [files EXCEPT ![x] = NewFile(es, x)]
    /\ UNCHANGED mem

Refuse(es, x) ==
    /\ FALSE \in edit_spec_is_identity(es, x) /\ ~Accepted(es, x) /\ ~AbortsBefore(es, x)
    /\ UNCHANGED <<files, mem, status>>

(***************************************************************************)
(* The editor                                                              *)
(***************************************************************************)
Init ==
    /\ files \in {f \in [Comps -> UNION {Contents[u] : u \in Uids} \cup {NoComp}] :
                     \A x \in Comps : f[x] \in Contents[x[2]] \cup {NoComp}}
    /\ mem = [x \in Comps |-> Loaded(x, NoComp)]
    /\ editor = "none" /\ tmp = Empty
    /\ status = "running"
    /\ opened = "nothing"
    /\ touched = FALSE /\ interfered = FALSE /\ landed = 0
    /\ draft = NoDraft /\ failed = FALSE

Open(what, text) ==
    /\ status = "running"
    /\ editor = "none"
    /\ editor' = "open" /\ tmp' = text
    /\ opened' = what
    /\ touched' = FALSE /\ interfered' = FALSE /\ landed' = 0
    /\ draft' = NoDraft /\ failed' = FALSE
    /\ UNCHANGED <<data, status>>

\* What a text can hold of a component is all there is to it: its times are whole
\* minutes and not in the hour that comes again, no category has a comma in its
\* name, and there are no relations.
Exact(p) ==
    /\ \A k \in DateKeys \cap DOMAIN p :
           Local(p[k]) % Minute = 0 /\ (p[k] < Back - Hour \/ Back <= p[k])
    /\ "cats" \in DOMAIN p => p.cats.commas = {}
    /\ "related_to" \notin DOMAIN p

\* A key is ignored while an editor is open.
app_cmd_launch_editor(x) ==
    /\ Known(x)
    /\ ~mem[x].deleted
    /\ \E rels \in PrintedRelations(mem[x].p) :
           Open(IF Exact(mem[x].p) THEN "exact component" ELSE "component",
                print_template(x, rels))

\* What is found in a torn vector is no string.
PrintCrashes(x) ==
    /\ status = "running" /\ editor = "none"
    /\ Known(x) /\ ~mem[x].deleted
    /\ IsTorn(mem[x].p)
    /\ status' = "segfault"
    /\ UNCHANGED <<data, sp, history>>

app_cmd_launch_editor_new(type, c) ==
    IF type = "event" THEN Open("new event", print_new_event_template(c))
                      ELSE Open("new todo", print_new_todo_template(c))

\* The user saves a text; an empty one is how to get rid of an edit.
UserWrites(text) ==
    /\ editor = "open"
    /\ tmp' = text
    /\ touched' = TRUE
    /\ draft' = IF text = Empty THEN NoDraft ELSE text
    /\ UNCHANGED <<data, editor, status, opened, interfered, landed, failed>>

\* The user closes the editor, or it could not be run (execvp).
EditorExits ==
    /\ editor = "open"
    /\ editor' = "closed"
    /\ UNCHANGED <<data, tmp, status, history>>

\* subprocess_get_result: app->sp is NULL and the file removed.
Gone == editor' = "none" /\ tmp' = Empty

\* MUTANT of Relaunch: the text is thrown away.
Relaunch_Never(text) == Gone /\ UNCHANGED failed

\* app_launch_editor_str, after that: mkstemp or clone3 may fail.
Relaunch(text) ==
    \/ editor' = "open" /\ tmp' = text /\ UNCHANGED failed
    \/ Gone /\ failed' = TRUE

Closed == status = "running" /\ editor = "closed"

CollectNothing ==
    /\ Closed
    /\ tmp = Empty
    /\ Gone
    /\ UNCHANGED <<data, status, history>>

CollectEndless ==
    /\ Closed
    /\ tmp # Empty /\ NeverParsed(tmp)
    /\ status' = "parsing"
    /\ UNCHANGED <<data, sp, history>>

CollectUnparsed ==
    /\ Closed
    /\ tmp # Empty /\ ~NeverParsed(tmp) /\ ~Parses(tmp)
    /\ Relaunch(tmp)
    /\ UNCHANGED <<data, status, opened, touched, interfered, landed, draft>>

\* generate_uid.
Fresh == {u \in Uids : \A c \in Cals : files[<<c, u>>] = NoComp /\ mem[<<c, u>>] = NoComp}

\* The edits that the text may stand for.
Specs(text) ==
    UNION {LET es == edit_spec_init_parse(text, today)
           IN  IF es.method = "create" /\ es.uid = NoUid
               THEN {[es EXCEPT !.uid = u] : u \in Fresh} ELSE {es} : today \in Days}

CollectUnplaced(es) ==
    /\ es.cal \notin Cals
    /\ Relaunch(tmp)
    /\ UNCHANGED <<data, status, opened, touched, interfered, landed, draft>>

CollectIdentity(es) ==
    /\ es.cal \in Cals
    /\ TRUE \in edit_spec_is_identity(es, <<es.cal, es.uid>>)
    /\ Gone
    /\ draft' = NoDraft
    /\ UNCHANGED <<data, status, opened, touched, interfered, landed, failed>>

CollectRefused(es) ==
    /\ es.cal \in Cals
    /\ Refuse(es, <<es.cal, es.uid>>)
    /\ Relaunch(tmp)
    /\ UNCHANGED <<opened, touched, interfered, landed, draft>>

\* MUTANT of CollectSaved: the editor is opened again as after an error.
CollectSaved_Relaunches(es) ==
    /\ es.cal \in Cals
    /\ Save(es, <<es.cal, es.uid>>)
    /\ Relaunch(tmp)
    /\ draft' = NoDraft
    /\ landed' = landed + 1
    /\ UNCHANGED <<opened, touched, interfered>>

CollectSaved(es) ==
    /\ es.cal \in Cals
    /\ Save(es, <<es.cal, es.uid>>)
    /\ Gone
    /\ draft' = NoDraft
    /\ landed' = landed + 1
    /\ UNCHANGED <<opened, touched, interfered, failed>>

CollectAborts(es) ==
    /\ es.cal \in Cals
    /\ Abort(es, <<es.cal, es.uid>>)
    /\ UNCHANGED <<sp, history>>

CollectCrashes(es) ==
    /\ es.cal \in Cals
    /\ Crash(es, <<es.cal, es.uid>>)
    /\ UNCHANGED <<sp, history>>

app_cmd_editor(es) ==
    \/ CollectUnplaced(es) \/ CollectIdentity(es) \/ CollectRefused(es)
    \/ CollectSaved(es) \/ CollectAborts(es) \/ CollectCrashes(es)

\* application_handle_child.
Collect ==
    \/ CollectNothing \/ CollectEndless \/ CollectUnparsed
    \/ /\ Closed
       /\ tmp # Empty /\ ~NeverParsed(tmp) /\ Parses(tmp)
       /\ \E es \in Specs(tmp) : app_cmd_editor(es)

(***************************************************************************)
(* Meanwhile                                                               *)
(***************************************************************************)
\* A component on the screen is selected and its status set.
SelectionEdits(x, st) ==
    LET es == [method |-> "update", type |-> mem[x].type, uid |-> x[2], cal |-> x[1],
               p |-> [status |-> st], rem |-> {}]
    IN  /\ status = "running"
        /\ Known(x) /\ ~mem[x].deleted
        /\ Save(es, x) \/ Abort(es, x) \/ Crash(es, x)
        /\ interfered' = TRUE
        /\ UNCHANGED <<sp, opened, touched, landed, draft, failed>>

ExternalChange(x, content) ==
    /\ files' = [files EXCEPT ![x] = content]
    /\ interfered' = TRUE
    /\ UNCHANGED <<mem, sp, status, opened, touched, landed, draft, failed>>

app_cmd_reload ==
    /\ status = "running"
    /\ mem' = [x \in Comps |-> Loaded(x, mem[x])]
    /\ interfered' = TRUE
    /\ UNCHANGED <<files, sp, status, opened, touched, landed, draft, failed>>

\* The program is left or has stopped, and is started again; an editor that
\* was open is on its own.
Restart ==
    /\ mem' = [x \in Comps |-> Loaded(x, NoComp)]
    /\ status' = "running"
    /\ Gone
    /\ opened' = "nothing"
    /\ touched' = FALSE /\ interfered' = FALSE /\ landed' = 0
    /\ draft' = NoDraft /\ failed' = FALSE
    /\ UNCHANGED files

User ==
    \/ \E x \in Comps : app_cmd_launch_editor(x) \/ PrintCrashes(x)
    \/ \E type \in {"event", "todo"}, c \in Cals : app_cmd_launch_editor_new(type, c)
    \/ \E text \in Drafts \cup {Empty} : UserWrites(text)
    \/ EditorExits

Meanwhile ==
    \/ \E x \in Comps, st \in Statuses : SelectionEdits(x, st)
    \/ \E x \in Comps : \E content \in Contents[x[2]] \cup {NoComp} : ExternalChange(x, content)
    \/ app_cmd_reload
    \/ Restart

Next == User \/ Collect \/ Meanwhile

Spec == Init /\ [][Next]_vars

(***************************************************************************)
(* Properties                                                              *)
(***************************************************************************)
\* The variables have their types, and no edit of a valid component leaves
\* one in memory that is not valid for its type (can_apply_to_memory).
TypeOK ==
    /\ \A x \in Comps : mem[x] # NoComp => props_valid_for_type(mem[x].p, mem[x].type)
    /\ editor \in {"none", "open", "closed"}
    /\ status \in {"running", "assertion", "parsing", "segfault"}
    /\ landed \in Nat
    /\ touched \in BOOLEAN /\ interfered \in BOOLEAN /\ failed \in BOOLEAN

\* What a user has written is not lost: until it is applied, or the user empties
\* the file, it is in an editor's file, through errors in the text, edits that
\* are refused and components that vanish meanwhile, as long as the program
\* runs and editors can be started (app_cmd_editor).
DraftKept ==
    draft # NoDraft /\ status = "running" /\ ~failed =>
        editor # "none" /\ tmp = draft

\* An editor that is opened changes the calendars once at most, however often it
\* is opened again on the same text (app_cmd_editor).
OneEditPerEditor == landed <= 1

\* An editor that is opened on a component and closed without a change to the
\* template changes nothing, if nothing else has changed it meanwhile and a text
\* can hold all of it: what print_template writes, edit_spec_init_parse reads as it
\* was.  Of another component the seconds are lost, an hour is added, categories
\* fall apart or a torn vector is read.
UntouchedChangesNothing ==
    opened = "exact component" /\ ~touched /\ ~interfered => landed = 0
=============================================================================
