# gui_calendar in TLA+

A verification development for gui_calendar, a calendar for Wayland and the
framebuffer that keeps iCalendar files in directories, shows them as a calendar
or a list of todos, and edits them through an external text editor.  Source
paths are relative to the repository's root; `application.c`, `editor.c`,
`render.c` are in `src/gui-calendar`, `calendar.c`, `libical_iface.c`, `props.c`
in `src/common`.

The program is a single thread around an event loop: a key, a touch, a timer, a
child process that ends and a frame to be drawn are each handled to the end
before the next.  Its difficulty is not in preemption but in what survives from
one event to a later one: caches, trees, iterators and codes made at one moment
and used at another; files that other programs change meanwhile; and assertions
(`asrt`, `core.c`) that end the program when a state is reached that nobody
thought of.  That is what the modules are about.

## 1. Inventory

### Parts, their state and their operations

| part | code | state | operations |
|---|---|---|---|
| recurrence of one component | `libical_iface.c` 31-141, `calendar.c` 43-151 | rule iterator, the time read too far (`last`), `rdate`, `exdate`; `recur_insts` with the changed days, `recur_cache` with the occurrences reported | reset, expand to a horizon, look up a recurrence id, create a changed day |
| calendar | `calendar.c` | `comps_vec`, `comps_map` (uid to index), per type a tree of instances `cis` and `cis_dirty` | add, new, find, delete, expand to a horizon |
| storage | `libical_iface.c` 420-795 | a directory with a file per uid, `cal->loaded` | load what changed, apply an edit to a file |
| edits in memory | `editor.c` 205-348 | none of its own | is it an identity, can it be applied, apply to file and memory |
| property sets | `props.c` | values and a mask of those set | union, apply mask |
| active events | `application.c` 315-483 | trees `unprocessed`, `processed_not_hidden`, `in_view`, `not_in_view`, vector `processed`, a texture per label | add, process a range, clear, destroy textures |
| active todos | `application.c` 484-534 | vector `v`, sorted | add, done, clear |
| alarms | `application.c` 535-612 | tree of alarms, `next`, one timer | add, done, clear, the timer's callback |
| selection mode | `application.c` 170-220, 728-815, 943-954; `keyboard.c`; `algo/perm.c` | `keystate`, the keys typed, a code per component | enter, type, finish, cancel |
| editor session | `application.c` 95-165, 835-883, 1017-1023; `subprocess.c` | at most one child process and its file | launch, collect, relaunch |
| edit templates | `editor.c` 1-204, `editor_parser.c` | none | print, parse, default the dates |
| expressions | `uexpr.c`, `uexpr_cal.c` | syntax tree, store of variables, references to calendars; the filters, actions and calendars they configured | parse, print, evaluate, give back |
| views | `views.c` | cached slices per level | iterate over a range with a callback, bounds of a range, lay out a slice |
| rendering | `render.c` | window size, `dirty` | a frame |
| algorithms | `algo/` | none | layout in columns, heap sort, k-permutations, scheduling todos |
| rest | `datetime.c`, `util.c`, `core.c`, `main.c`, `utils/`, `uexpr/main.c`, `test/` | none that lasts | dates, text, assertions, start-up, generators, tests |

`src/common/loop.c` is not part of the build (`meson.build` does not name it).

### How they interact

A load (`app_reload_calendars`) or an edit (`apply_edit_spec_with_mod_time`)
changes the calendars and ends in `app_invalidate_calendars`: every type of
every calendar is marked dirty, every projection is cleared and the instances
held by the application are freed.  The next frame expands the calendars, moves
the instances out of their trees into the projections (`app_update_projections`)
and calls `done` of each.  Active events and todos then decide what is visible
by evaluating the filter; the selection mode gives codes to what the projections
hold; a selected component becomes an edit, either at once or through an editor.
An edit goes to the file first and to memory second.

### What is hard

 * An instance, a code, a texture or an alarm refers to a component that a later
   event may change, replace or free.
 * Expansion is incremental: the rule iterator stands in the middle of a rule
   for as long as a horizon is kept, and horizons grow, shrink and reset.
 * The uid map leads to the last entry added; superseded and deleted entries
   stay in the vector for ever.
 * The directory is shared with other programs, and a load compares times.
 * The file and the memory are changed by two different algorithms that must
   come to the same result, with assertions after the first has happened.
 * One timer stands for all alarms; it is armed and never disarmed.
 * One tree and one store of variables serve the configuration, every filter,
   every action and every selection, with references counted by hand.
 * An iteration over slices calls back into another one over the same slices,
   while it is still finding them.

`PROJECT.json` has the complete list, each hazard at its line, with the
properties that cover it or the reason none does.

## 2. Modules

A definition bears the name of the function it models where there is one.

| module | models | composed of |
|---|---|---|
| `Recurrence` | `struct recurrence` and the expansion of one component, as operators | |
| `Calendar` | `struct calendar` under loading, edits, invalidations and frames | `Recurrence` |
| `CalendarView` | what a calendar promises: a table from uid to component, and its instances | `Recurrence` |
| `CalendarRefinement` | the refinement mapping from `Calendar` to `CalendarView` | both |
| `CalendarProofs`, `CalendarRefinementProofs` | theorems about `Calendar`, and that it implements `CalendarView` | `CalendarRefinement` |
| `Props` | `struct props`, what an edit does to it, and when a component may have it, as operators | |
| `EditStorage`, `EditStorageProofs` | files and memory of one calendar directory | `Props` |
| `Alarm`, `AlarmProofs` | alarms and their timer | |
| `ActiveEvents` | events on their way to the screen | |
| `ModeSelect`, `ModeSelectProofs` | key codes and the selection mode, with the todos; the proofs are about both modules | `ActiveEvents`, `KPermutation` |
| `KPermutation` | the k-permutations of `perm.c`, in order, as operators | |
| `TodoOrder` | `todo_priority_cmp` and the heapsort of the todo list, as operators | |
| `EditorSession`, `EditorProofs` | the editor process, its file, and what happens to an edit | `Props` |
| `Layout`, `LayoutProofs` | columns of overlapping events | |
| `Slicing` | `struct slicing`: years, months, days and hours found once and kept, and the iterations over them | |
| `TodoSchedule` | `todo_schedule`: todos in the time between events, as operators | |
| `Drawing`, `DrawingProofs` | frames of the calendar view: slices, the events in each, their layout | `Slicing`, `Layout` |
| `UexprSyntax` | parser and printer of expressions | |
| `Uexpr` | the evaluator, with the variables and functions of `uexpr_cal.c`, as operators | `UexprSyntax` |
| `UexprApp` | the program around its expressions: start, filters, actions, selections, edits, end | `Uexpr` |
| `MC...` | instances of the constants for TLC | |

Operators whose comment begins with "MUTANT of" are not part of a model.  Each
is a variant of the definition after it with a plausible mistake; putting it in
that definition's place makes the property that `PROJECT.json` names with it
fail in the same run, which shows that the property depends on that piece of
code.

### Recurrence and Calendar

A component is a record; its `recur` holds the times of the rule, the RDATEs
and the EXDATEs, or is `NoRecur`.  libical's rule iterator is the set `left` of
times it has yet to return; `last` is the time read beyond the horizon, kept
for the next call, exactly as in `recurrence_expand`.  `comp_recur_expand` is
the function that reports occurrences and fills `recur_cache`.

`Calendar` has one action per operation: a load that reads components one by
one (`ParseComp`, `ParseRecurInst`), the edits of `apply_to_memory`
(`UpdateBase`, `UpdateInst`, `Create`, `Delete`), the invalidation and
`calendar_expand_instances_to` with any horizon; `TakeInstances` is the frame
that empties the tree.  An expansion of a type that is dirty comes only after the
invalidation that freed what was taken of it (`app_invalidate_calendars`), and is
guarded by that.  An instance is a record with the index of its component
(`comp_idx`), a pointer in the code.  `cis_n` counts insertions, because a tree
in the code holds an instance twice where a set would hide it.

The properties: `OneLivePerUid`, `MapFindsLatest`, `InstancesExact` (tree and
taken instances are exactly what is due), `InstancesOnce` (none twice),
`HeldInstancesEditable` (an edit of an instance on the screen finds its
component and a known recurrence id), and the refinement `Implements`: seen from
outside, superseded entries, the append-only map and the incremental trees are a
table that changes one uid at a time.

### EditStorage

Files and their `mtime`, the clock, the running load (`since`, `scan`), the
component in memory per uid, and the assertion that ended the program
(`status`).  A file is the sequence of its VEVENTs and VTODOs; `struct props` is
a partial function whose domain is the mask, and `props_valid_for_type` is all of
it (`WellFormed`, `Forwards`).  `BeginLoad`, `ReadFile`,
`ReadMissing` and `EndLoad` split `update_calendar_from_storage` at each
directory entry, the point where other programs (`ExternalWrite`,
`ExternalDelete`) get in.  `Update`, `Create`, `Delete` are
`apply_edit_spec_to_calendar`, file and memory; `KilledWhileWriting` stops
between `fopen(path, "w")` and the contents; `Restart` begins from the files.

An edit that names a recurrence id changes an instance, made from the component
with the dates of its day (`Instance`); but `CanUpdate` validates the edit on the
component, as `can_apply_to_memory` does.  `TypeOK` therefore claims that every
component in memory is valid for its type, and of an instance only that it has no
property that its type does not have (`WellFormed`).  That it ends after it starts
is the property `InstancesForwards`, which the run `instance_order` refutes.

Relations are a value that does not survive a copy: `free_vec_default` makes every
vector one of strings, so that a copy of relations is cut off (`Torn`).  What is
read of it is undefined; an edit of a component with relations may find a
difference or none (`Identity`), or end the program (`ReadsTorn`), before the file
is written or, if the relations in memory are torn already, after that.

`LoadMissesNothing`: a file changed by others is either noticed by the next load
or still ahead of the running one, whatever the resolution of the clock.
`EditKeepsForeignChanges`: an edit leaves in the file every property it does not
name, including what others wrote since the load.  `MemoryMatchesFile`: memory
and file of a plain component agree after anything that can happen, unless
somebody changed the file since it was read, or a component of it was not valid
when it was.  The second exception is the history variable `refused`: the load
skips an invalid component, memory keeps what it had, and an edit that makes the
file valid starts from what the file says and not from what is shown.  A load
reads the components of a file one after the other; `libical_parse_ics` is a
recursive function of how many were read.

### Alarm

The tree of alarms (`tree`), `next`, which may be `dangling` after a clear, and
the one `timer`.  `Frame` adds what is pending and looks for the next alarm, as
`proj_alarm_done` does; `alarm_cb` announces it.  `NeverTwice`,
`ArmedForEarliest`, `SomethingIsNext`, and under fairness `NextRings`.

### ActiveEvents and ModeSelect

The trees are sets of events, each an interval; `Frame(v)` draws the view `v`
(in the code `app->view` transformed by the running gesture, therefore any) and
runs `proj_active_events_process` on the bounds of it, with the two half-line
queries by which events leave the view.  `tex` are the events with a texture.
`FrameShowsView` says that a frame has in view exactly what filter and view call
for, `PlacesInv` that every event is in one place and filtered by the present
filter, `TexturesInView` that textures go with the view.

`ModeSelect` adds codes (`code`), the keys typed and the todos.  Between two
keys of a code the event loop goes on: a gesture moves the view, a tap on the
sidebar switches it, an editor left open comes back with an edit.
`CodesUnique` and `OfferedIsSelected` say that the code a component was offered
selects it and nothing else, in spite of old codes left on others.  The code of
a component is, among those of the selection's length, the one with as many
before it as there are components before this one.

`KPermutation` is how `perm.c` gets there, by finding the next permutation of the
keys.  That the two agree, for the keys of the run and in itself for up to five
elements and every length, is an assumption of `MCModeSelect` that TLC evaluates
(`KeyCodes`); so is that the comparison of todos is an order and that the heapsort
sorts by it (`TodoListOrder`, with the operators of `TodoOrder`).  In the same
way `MCDrawing` compares `todo_schedule` with its promise (`TodosScheduled`): each
todo with a duration gets a time of that length that no event and no other todo
has, not before it may start.

### EditorSession

The one child process (`editor`: none, open, or closed and not yet collected)
and the text in its file (`tmp`), beside what the calendars' files and memory
hold.  A text is a header and a sequence of lines, each a key with a value, a
key alone, a removal or a comment.  Times are seconds.  A text has them to the
minute and in local time, and the clock is set back once: `simple_date_from_ts`
drops the seconds and gives both hours the same name (`Local`), `simple_date_to_ts`
reads the seconds as 0 and such a name as the second hour (`FromLocal`).
Categories are printed with commas between them and split at every comma
(`ReadAs`).  Relations are read of a vector that may be torn (`PrintedRelations`,
`PrintCrashes`, `Crash`).  `print_template` and the two templates for
new components make texts; `grammar` applies `prop` line by line, as a recursive
function of the number of lines read, and `edit_spec_init_parse` fills in the
dates.  The constants are assumed to be what files and texts can hold: a time is
a number, a date has a day and a minute of the day or lacks one, and no value is
taken for one of the marks `Blank` and `Removal`.  `Specs` are the edits that a
text may stand for: the day is the one on which it is read, and a new component
gets a uid that nobody has.  `app_cmd_editor` has one action for each of its
ends: `CollectUnparsed`, `CollectUnplaced`, `CollectIdentity`, `CollectRefused`,
`CollectSaved`, `CollectAborts`, `CollectCrashes`; `CollectNothing` is the empty file and
`CollectEndless` the text on which the parser hangs.  `Relaunch` hands the text
to a new editor, or fails to start one.  Meanwhile the selection mode edits
(`SelectionEdits`), files change, calendars are reloaded and the program is
started again.

`DraftKept`: what the user wrote is in the editor's file until it is applied.
`OneEditPerEditor`: however often it comes back, it is applied once.
`UntouchedChangesNothing`: a template that is closed as it is changes nothing, if
the component is one that a text can hold (`Exact`): times of whole minutes and not
in the hour that comes twice, no comma in a category, no relations.  Others are in
the run too, and are changed by it.  The rest of
the variables (`opened`, `touched`, `interfered`, `landed`, `draft`, `failed`)
are history for these properties.  `EditStorage` has the same edits over longer
files and with recurrence ids; here a uid has one component, which does not recur.

### Expressions: UexprSyntax, Uexpr, UexprApp

A text is the sequence of its tokens.  `uexpr_parse` is the parser function by
function (`list`, `term`, `expr`), on a record with the tokens ahead and the
vector of nodes that every file read appends to; `dump_ast` prints a tree.

`Uexpr` evaluates on a machine, a record of all that an evaluation reads or
changes: the tree, the store (`vars`), the reference counts (`refs`), what the
configuration has made (`cals`, `filters`, `actions`, `alarm`), what actions
reach (`main_view`, `keystate`, `select`, `editor`) and, while an evaluation
runs, the component in hand, the `settings` of a filter and the status that was
set.  A value is a record; a string says what it points into (`of`), because an
edit frees the properties of a component while a variable may still hold them.
`obj_ref`, `uexpr_value_copy` and `uexpr_value_finish` count references, and
values that are never finished are counted in `leaked`.  Contexts are sets:
`{"config"}`, `{"filter"}`, `{"action"}`, and both of the latter for the
expression of a selection.  Each `let` goes to the context first and to the
store if no context knows the name, each variable is looked up in that order.
`status` says what ended the program: an assertion, a NULL pointer, or memory
that is gone.

`UexprApp` drives it: `app_init` reads one of two configurations, projections
are filled in any order, keys, sidebar, selections, editors and reloads come in
any order, and `app_finish` gives everything back.

`ReadsAsWritten`: a text of the grammar is read to its end, what is read is in
the grammar, and it is printed without loss.  `RefsCountHolders`: a calendar has
as many references as holders, after every evaluation and at the end.
`NothingGone`: no evaluation takes or gives back a reference of a calendar that was
freed, or reads a string, a tree or a context that is gone.  It does not say that
nothing ends the program: a NULL pointer, a failed assertion and a file that is
missing are other values of `status` (section 7).  `SettingsAreOwn`: what a filter decides about a component
depends on filter and component alone, although all evaluations share a store;
`FiltersMeanWhatTheySay` compares it with the meaning of the two configurations
(`Meant` of `MCUexpr`, written from the documentation of the language).
`FilterOnlyLooks` and `OnlyAskedEdits` bound what filters, actions and
selections may change.

### Layout

`calendar_layout` as a sweep: `Start(e)` and `End(e)` pass one end point each, in
the order of `cmp_point`.  `qsort` may leave equal points in any order, so any
of them may be next.  `mask` has `Bits` columns, and when an event finds none
free it shares column 0 (`crowded` remembers that).  The three assertions set
`aborted`: an event whose end comes first has no column (`EndUnstarted`), and `End`
has the other two.  The width of a group is known when its last event ends, in the
variable `component`.  `Begin(S, t)` is the call for the next slice: the
events `S`, at the times `t`.  An event may end before it starts, or at once: an
edit of an instance can leave it so (`instance_order`).

`SweepSound` says that an assertion fails exactly in a slice with such an event and
before it is drawn, and that nothing else fails, also after the columns have run
out.
`BesideEachOther`, `InSlice` and `Narrowest` define a good layout without
reference to the sweep: events that overlap have the same width and different
columns, no event leaves the slice, and no slice is divided into more columns
than events are active at once somewhere in the same connected group.

### Slicing and Drawing

A slice is an interval and the indices of its parts one level down; `n = -1`
until they are found.  An iteration is `slicing_iter_items` with the loops of
`iter_items` that are open, one in each level; the model takes one step for each
turn of a loop and each call.  The record `iter[1]` is the iteration of the frame,
`iter[0]` the one that `render_ran` makes inside of the callback, over the parts of
the slice it was called for.  The inner one runs to its end first.  While it does, the
outer one stands in the middle of the loop (`FindPart`) that finds the slices of a
year or a month; the inner one takes those not found yet for found (`NextPart`),
and reads their index as 0 (`Sub`).  `calls` collects the ranges of which
`render_ran` draws the events.  Where the code has an assertion, the step sets
`failed`.  The hours of the clock, `Clock`, are a constant: libical's dates, with
a day of an hour less, one of an hour more, and one that begins late.

`Drawing` is a frame, in stages: `render_application` takes a view and begins to
cut it (`slicing`), `Cut` is a step of the iterations, and when they are over
`TopStrip` adds the strip above.  In the stage `drawing` it is known in which slices
events are drawn and which (`tobjs`); `tobject_layout` lays out one of them with
the sweep of `Layout`, `Drawn` ends the frame.  Between frames only the slices are
kept; the events of a frame are any.

`SlicesSound`: whatever was viewed before, the slices of each level are the
calendar's and tile the level above, and the one assertion that can fail is that
of a slice without midnight.  `DrawnWhole`: every moment of an event within the view
is drawn, in one slice or in the strip above and not in both: bounds
(`slicing_get_bounds`), slices and the limit between short and long events agree.

## 3. Runs

Runs that must pass:

| run | instance | why it is enough |
|---|---|---|
| `calendar_table` | two uids, two types, two entries, one start, times 0 to 2, a rule with an RDATE on a day of its own, an excluded RDATE and an EXDATE | a superseded entry, a uid that changes its type, a changed day, one type rebuilt while the other is not, a horizon before, on and after every occurrence |
| `edit_storage` | one uid, five files (an event, a changed one, one without a start, which is refused, a todo, a recurring event), seven edits, of which one leaves an instance that ends when it starts, one gives relations to a component, and one is refused; a clock of two moments | every order of a load's steps with a write, an edit and a kill, in the same second and in different ones |
| `alarm` | two instances, alarms at 1, 2 or 3, time up to 3 | equal, reordered, moved and passed alarms; one that is last |
| `select` | three events over five hours, three views of which one spans two days, two filters, four todos, three keys | events before, across and after the bounds; codes of one key and of two |
| `drawing` | two years of two months, of two days and one, of three hours; a day with an hour less, one with an hour more, one without its first; four views (days, months, years, the late day); four events of eight intervals, one of them the wrong way round; columns for three | every kind of slice first found in an inner and in an outer iteration; events shorter and longer than each limit and across each boundary; groups joined by a third event; columns that run out. Events are symmetric: they are indices of an array in any order |
| `editor` | one calendar, two uids, days of four minutes of two seconds, a clock that is set back by a minute; an event and a todo that a text can hold, and an event in the minute that comes again, with a second and a comma too many; seven texts, two with relations | a text for each end of `app_cmd_editor`, dates across midnight, an event that has become a todo; the second uid is for what is created |
| `uexpr` | every text of one to four tokens out of eleven; two configurations of nine and five statements, three components in two calendars, two edits | all shapes of nesting and of error in the parser; the configurations use every kind of statement, both kinds of function, and names that both store and context know |

`calendar_table` also checks the refinement `Implements`.

Runs that show a disagreement between the code and what is written about it
(`findings` in `PROJECT.json` quotes both):

| run | shows |
|---|---|
| `instance_order` | an end that is right for the first day of a recurring event is accepted for a later one, which then ends before it starts |
| `edit_instance` | an edit of one day of a recurring event writes the first day's start to the file and the day's own to memory; a reload moves the day |
| `alarm_disarm` | the tree of alarms is built again at the very second of one that is still wanted: it is not after now, so none is next, the timer stays armed, and the assertion "alarm next" ends the program |
| `select_nonexistent` | a code that no component has ends the program instead of the selection |
| `drawing_repeats` | the first frame that shows months draws the days of the first month, with their events, once for every month of the year |

`MaxComps`, `MaxClock` and `MaxNow` stop entries, the clock and time, `MaxShort`
the length of a text; nothing else is bounded.  Deadlock is checked in every run
but `uexpr`, where the program ends.

Everything is finite because abstract values are few, not because steps are: an
edit, a reload, a frame or a restart may happen in any state in which the
program runs, any number of times.

## 4. Fairness

Only `Alarm` states fairness: time passes (`WF(Tick)`), and a timer that is due
goes off (`WF(alarm_cb)`), because the event loop dispatches every timer that is
due and nothing else in the program keeps it from being called.  Frames are not
fair: `app_cmd_reload` empties the projections without marking the window dirty,
so that no frame need follow.  `NextRings` therefore speaks of an alarm that is
next, and ends at a rebuild.  Nothing in the other modules must eventually
happen: users, other programs and the window system decide.

## 5. Proofs

TLAPS proves the theorems that `PROJECT.json` lists, for every value of the
constants that satisfies the assumptions: times are numbers and a finite set of
them (`TimesAssumption`), rules are made of times (`RecurrencesAssumption`),
intervals are not empty and lie within `LLONG_MIN` and `LLONG_MAX`
(`EventsAssumption`), there are codes for all events and for all todos
(`SelectAssumption`), events are finitely many and at times that are numbers
(`LayoutAssumption`), `NULL` is no alarm (`AlarmAssumption`), `Absent` is no entry
of the table (`AbsentAssumption`), what other programs write are sequences of
components (`ContentsAssumption` of `EditStorage`), the bound of the clock is a
number (`MaxClockAssumption`).  `Drawing` has three: the clock shows whole years
and goes forward or back by one hour, at most once in a day and not so that a day
begins twice (`ClockAssumption`), views are not empty and lie within these years
(`ViewsAssumption`), lengths are numbers (`LengthAssumption`).  `EditorSession` has four, which only
`UntouchedNeverChanges` and its lemmas use: a minute has seconds, a day has minutes,
today is one of the days from the first on, and the clock is set back to a time that
it has shown (`DaysAssumption`), uids, calendars and statuses
are not the marks `Blank` and `Removal` (`ValuesAssumption`), files hold components
with times that are numbers and categories that are parts and commas
(`ContentsAssumption`), and texts are sequences of lines whose
dates are dates (`DraftsAssumption`).

**Calendar.** `TypeOK` is inductive with `MapInVec` (the map leads into the
vector).  `StoreInv`, that the map finds the latest entry and that any other
entry of the uid is dead, is inductive given those.  The heart is
`ExpansionInv`: a type that is not dirty has, in every live component, an
iterator that stands exactly behind the horizon, and instances that are those
due and as many as were inserted.  It needs a statement about each piece of the
way a rule is read: a first expansion after a reset (`FirstExpansion`) and a
next one from where the last stopped (`NextExpansion`, `IteratorCut`), with the
time kept back in `last` reported first.  `InstancesExact` and `InstancesOnce`
follow.  `HeldInv` adds that instances, whether in the tree or taken, are
anchored: their component is still the one the map leads to, and it knows their
recurrence id.  Types being dirty during a reload and a delete are the cases
that make the parts depend on one another.

That the calendar implements `CalendarView` (`CalendarImplements`) rests on all
of these.  The live component of a uid is the entry its map leads to
(`LiveOfUid`), so the table can be read off the map (`TableNow`), and the
instances of a settled type are the table's (`ShownNow`).  A call then replaces
the entry of one uid and no other (`EntryChanges`, `Added`), or none
(`SameRows`), and unsettles the types it dirties (`Unsettled`); an edit of a
deleted component, which the map still finds, only unsettles.  Each action is
one lemma, and `ViewSteps` puts them together.

**EditStorage.** `StorageInv` has five parts.  A load takes its time before it
reads the first file, and nothing is left to read when it ends (`ScanInv`); no
load is later than the clock (`ClockInv`).  With these `LoadMissesNothing` is
inductive: whoever writes a file gives it a time the running load's has not
passed.  That an edit keeps what it does not name is a property of the step,
given that files are sequences of components (`FilesInv`): an appended component
leaves the others as they were.

`TypeOK` needs that what is in memory is valid (`MemInv`): every component that
`ParseOne` takes is, and so is what an edit makes of it, because
`can_apply_to_memory` looks at the result before anything is written.  What it looks
at is the component, also when an instance is edited.  Of the instance follows that
it is well-formed: it differs from the component in its dates and in what was edited
before (`InstanceWellFormed`), and an edit that leaves the one with the properties
of its type leaves the other with them (`AssignWellFormed`).
`MemoryMatchesFile` needs more than it says, namely `MatchInv`, which also holds
while a load runs: a plain file that is neither unseen nor refused has its only
component in memory, with the same properties but for torn relations, no rule and
not deleted, and a
file that is not there leaves nothing to show.  An update then changes both in the
same way, a create and a read put the same component in both, and a frame
changes neither.  What the parser makes of a file is an induction over its
components.  The library's induction theorems take an operator and cannot be
used here, so the induction goes by a set: the lengths up to which the claim
holds contain 0 and with each number the next, and such a set contains every
number (`AllNumbers`, from the order of the numbers being well-founded).

**Alarm.** `AlarmInv`: the tree is empty or what the calendars want, what was
announced has passed, and a sound `next` is armed for.  `NeverTwice` follows
because `proj_alarm_done` looks past the present.  `EarliestInv` is then
inductive; its base is that a set of times ahead has an earliest.

**ActiveEvents.** `EventsInv` is the conjunction of types, places and textures.
`FrameShowsView` follows from it, because an event that does not overlap a
range ends before it or begins after it (`LeavingIsOutside`), so the two
half-line queries find all that leave.

**ModeSelect.** That components get different codes is a counting argument:
codes are linearly ordered (`LexTotal`, `LexTransitive`), each has therefore a
number of codes before it of its own, and by the finite sets' injections every
number below that of all codes occurs (`CodesNumbered`); the length is the least
with codes enough (`LengthSuffices`).  `SelectAssumption` says that there is one:
the code looks for it without end otherwise.  That codes stay apart and lead to
whom they were offered is the invariant `CodesInv`: who is in no list has no
code (`OnlyListedCoded`), so a frame adds nobody with an old one, and in the list
a selection was made from all codes are empty or of its length (`OfferedInv`).
A list only grows (`GrowthCodes`), is made anew without codes (`RebuiltCodes`),
or gets all its codes at once (`EnterCodes`).

The theorems about `ExpansionInv` and `MapFindsLatest` have no run of their own:
the properties that follow from them do.

**Layout.** The theorems are about `LayoutSpec`: calls of any sets of events,
one after the other.  `LayoutInv` adds
to the properties that what was ended lies before what has yet to start, and what
was started ends after it (`InOrder`, which is why the sweep cannot get past an event
that ends first), that columns in use are those of active events and none is shared
before they run out (`MaskInv`), and that the group of the sweep contains what
is active, in columns less than its width (`GroupInv`).  That a first free
column is less than the number of active events (`ColumnSmall`) is a counting
argument: the columns before it are in use by different events.  `Narrowest`
follows from `NarrowInv`: what has started comes before what has not
(`StartedFirst`), the group of the sweep has no gap (`NoGap`), and there was a
moment at which as many of its events were active as it is wide (`Peak`).  A
start only widens it to the number of events that are active at that very
moment, because of two that begin together the second finds the first active
(`StartedAtStart`).  When the last event ends, everybody of the group gets that
width, and the moment shows that it is not too much.

A frame implements `LayoutSpec` (`DrawingLayout`): `tobject_layout` and
`calendar_layout` of `Drawing` are its calls and its sweep, and everything else
leaves the layout alone.  So all of this holds in every slice of every frame.

**Slicing and Drawing.** First come the dates.  The time of a date is in the order of
dates (`TimeOrder`), although an hour may come twice or not at all; so the years,
months, days and hours are intervals of the clock.  Of one kind they do not
overlap (`SlicesApart`); one of the next level that overlaps lies within
(`SlicesNest`); the parts computed by the loop of `iter_items` are such slices, one
beginning where the other ends (`PartSlices`).

`SlicingInv` is inductive.  `SlicesSound` alone is not, as it says nothing of
slices while they are found.  Each item is a slice of the calendar and kept once
(`Slices`), its parts found so far follow each other (`Parted`), and it is fresh,
complete, or being filled by one of the two iterations (`Status`).  The inner
iteration goes over items which the outer one is filling as if they were complete;
`Looping` claims completeness of the outer's only.  That this breaks nothing is
`Nested`: whatever the outer iteration is filling, the inner one stays within the
part found last, and an item that the inner one fills is therefore another
(`Different`).  For `DrawnWhole` the invariant says in addition that every moment of
the view is in a slice that was drawn, or ahead of an iteration (`Covers`, `Ahead`).
This is where the repeated slices of `drawing_repeats` do no further harm: the inner
iteration may come to a slice too early and again later, but it leaves none out,
because what it takes for the first slice only adds to what is drawn.  `DrawnOnce`
is false, but each moment is drawn in one slice, if several times.  `FailedInv`
says that an assertion fails only at a slice that does not begin at its first
date.  A step of an iteration is one lemma for each of its cases
(`FindPartSome`, `FindPartNone`, `AllFoundTurns`, `NextYearTurns`, `NextPartGoes`,
`NextPartEnds`, `CallDone`, `FindBegins`, `VisitBegins`, `CallFails`, `CallNests`,
`CallDraws`, `InnerDone`, `OuterDone`), and all rest on what a turn leaves alone
(`TurnKeeps`).  With no iteration left, `Covers` says that the view is drawn, and
that the bounds contain the view (`BoundsContain`) gives `DrawnWhole`.

**EditorSession.** `MemInv`, `FlagsInv`, `LandedInv` and `DraftInv` are
inductive one by one.  `LandedInv` says that an editor whose edit was applied is
gone; `DraftInv` that a draft is not the empty text, which would be collected as
nothing.  Templates and parser stay unexpanded in these: the theorems hold for
any.

`UntouchedChangesNothing` is about templates and parser themselves.  `DataInv`
says what can be in files and memory (`FilesInv`, `PropsInv`) and in the
editor's file (`TmpInv`): times are numbers, and values are no marks.
`UntouchedInv` says that as long as nobody has touched the text, and nothing has
interfered with files and memory, it is the template of a component as it is in
memory.  `TemplateIsIdentity` is the round trip: the lines of a template are the
properties the component has, in order and each once (`Appended`,
`LinesInOrder`, `TemplateLines`); reading them one by one gives the values that
were printed and no removal (`GrammarSteps`, `PrintedLineRead`, `TemplateRead`);
a number is its day times `DayLen` and the rest (`Division`), a time of whole minutes
outside the repeated hour has a local time of its own (`LocalRoundTrip`,
`DateRoundTrip`),
and a date that is missing stays so whatever day is filled in
(`NoDateIsNoTime`).  The edit that such a text stands for is then an identity,
and collecting it ends in `CollectIdentity`, or in nothing. That edits keep
`PropsInv` needs of every text a user may write that what is read of it are
values and dates (`PropKeepsOK`, `ParsedValues`, `SpecPropsOK`).

Only model-checked: everything about expressions (`TypeOK` of `UexprApp`,
`RefsCountHolders`, `NothingGone`, `ReadsAsWritten`, `SettingsAreOwn`,
`FilterOnlyLooks`, `OnlyAskedEdits` and `FiltersMeanWhatTheySay`), because the
evaluator recurs through the tree, and tlapm has no SMT backend where an operator
is RECURSIVE.  Out of the prover's reach: `NextRings`, which depends on fairness.

## 6. Plan

Done: sections 2 to 5.  What is left, in this order:

 1. The text of literals (escapes, line breaks), durations and relations through `print_template` and `editor_parser`, as a round trip over
    bounded values.
 2. The calendars, the projections and the modes composed: what a frame, an
    invalidation and an edit do to all of them in one step.
 3. Proofs about expressions.  As was done for slicing, the recursion through
    the tree would have to become a machine with a step for each node and a stack;
    then the counting of references is an invariant of the step.

## 7. Not modelled, and remarks

Rendering, text layout, colours, input devices, the window system and libical's
rules have no state that these properties depend on.  libical's iterator is the
set of times it returns in order.  Time zones, single-file calendars, meta data
and `displayname` are left out of `EditStorage`; command line and configuration
of the start.  `loop.c` is not built.  The characters of tokens, memory management
beyond references to calendars, and the text of errors are left out of the
expressions; labels, boxes and colours out of `Drawing`.  Of texts, a literal with a
backquote in it, the hour that a clock skips, and how libical separates categories in
a file are left out of `EditorSession`.

What the models do because the code does, without a document that says
otherwise:

 * An edit of the start of a recurring event moves the rule in the file and not
   in memory, until the file is read again.
 * The rule of a file whose changed day comes before the base is taken from the
   first component that has one; an edit of the base then meets the other first.
 * A directory entry that has gone when it is looked at ends the program.
 * A kill while a file is written leaves it empty, and the component is lost.
 * Of two alarms in the same second only one is announced.
 * An edit of a recurrence id that memory does not know is written to the file,
   and then an assertion ends the program.
 * The template of a new event is no valid text as it stands: closing the editor
   opens it again, without end if it cannot be run.  Only an empty file gives up.
 * A text whose last line is a comment without a newline hangs the parser.
 * A text whose calendar or uid line is changed to what does not exist ends the
   program, and the text is lost.
 * A template holds every property: an edit or a reload while the editor is open
   is overwritten by the old values.
 * A template that is saved as it is drops the seconds of a start or end, moves a
   time in the first of two hours with the same name to the second, splits a category
   at a comma in its name, and loses relations.
 * An edit of a component with relations, or one that gives it some, reads a vector
   of the wrong element size (`props.c` 20-40), whatever comes of it.
 * A key without a value takes the next line for it: the template of a new todo,
   closed as it is, makes one named after the comment below the summary.
 * More than 32 events at a time share the first column; the columns are freed
   one too early from then on, and no assertion fails.
 * A reload empties the screen's projections and asks for no frame.
 * The view is reset without destroying labels drawn for another column width.
 * A delete of one day of a recurring event removes the file with the whole set
   (`editor.h` 41-42 speaks of one instance).
 * A text property that a component does not have (`$sum`, `$loc`, `$desc`,
   `$color`) is a NULL pointer in a string: the first comparison with it ends the
   program, although `Documentation/uexpr_cal.md` describes `$sum` as a string.
   The run `uexpr` reaches it (`status` "NULL string"); no property says otherwise.
 * `$vis`, `$hide` and `$fade` in the expression of a selection end the program:
   there are no settings then.
 * Tokens after the first expression of a file are ignored.
 * To call a variable that holds a calendar, or to add a filter, leaves a
   reference that nobody gives back.
 * `%` gives false where `=` gives an error, for values that cannot be compared.
 * A number key beyond the filters switches filtering off; an action without a
   key takes every number key.
 * A function that calls itself overflows the stack.
 * With no calendar, as in the default configuration, the action that opens the
   editor for a new component fails the assertion "no calendars".
 * A day without midnight, where clocks go forward at that hour, fails the
   assertion "[slicing] day" when its hours are first drawn.
 * Where midnight comes twice, the time of a day's first hour is that of the second,
    and the hour before it counts as the day before; `ClockAssumption` leaves such
    clocks out.
 * `todo_schedule`, which only a test calls, reads `p[0]` when there are no events,
   and once all events are over puts todos after the last of them, in the past:
   the last slot does not begin at `base`.
