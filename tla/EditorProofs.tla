---------------------------- MODULE EditorProofs ----------------------------
(***************************************************************************)
(* What holds of EditorSession for all calendars, texts and contents: what *)
(* the user has written is kept, it is applied once, what it makes of a    *)
(* component is valid, and a template that is not touched changes nothing. *)
(* The first three hold whatever the templates and the parser make of a    *)
(* text; the last one is about both, and rests on what the assumptions say *)
(* of the files and texts of others: a time is a number or missing, and no *)
(* value is a mark that stands for none.                                   *)
(***************************************************************************)
EXTENDS EditorSession, SequenceTheorems, WellFoundedInduction,
        TLAPS

\* A component in memory is a record and valid.
IsComp(c) ==
    /\ c = [type |-> c.type, p |-> c.p, deleted |-> c.deleted]
    /\ props_valid_for_type(c.p, c.type)

MemInv ==
    /\ mem = [x \in Comps |-> mem[x]]
    /\ \A x \in Comps : mem[x] # NoComp => IsComp(mem[x])

FlagsInv ==
    /\ editor \in {"none", "open", "closed"}
    /\ status \in {"running", "assertion", "parsing", "segfault"}
    /\ touched \in BOOLEAN /\ interfered \in BOOLEAN /\ failed \in BOOLEAN

\* Once an edit was applied there is no editor to apply another.
LandedInv ==
    /\ landed \in {0, 1}
    /\ landed = 1 => editor = "none"

\* A draft is not the empty text, which is how an edit is given up.
DraftInv ==
    /\ draft # NoDraft => draft # Empty
    /\ DraftKept

(***************************************************************************)
(* Components                                                              *)
(***************************************************************************)
LEMMA LoadedIsComp ==
    ASSUME NEW x, NEW old, old # NoComp => IsComp(old), Loaded(x, old) # NoComp
    PROVE  IsComp(Loaded(x, old))
<1>1. CASE files[x] # NoComp /\ props_valid_for_type(files[x].p, files[x].type)
    BY <1>1 DEF Loaded, IsComp
<1>2. CASE ~(files[x] # NoComp /\ props_valid_for_type(files[x].p, files[x].type))
    BY <1>2 DEF Loaded
<1>3. QED
    BY <1>1, <1>2

\* What can_apply_to_memory lets through is valid.
LEMMA NewCompIsComp ==
    ASSUME MemInv, NEW es, NEW x, Accepted(es, x), ~AbortsAfter(es, x)
    PROVE  IsComp(NewComp(es, x))
<1>1. can_apply_to_memory(es, x)
    BY DEF Accepted
<1>2. CASE es.method = "update"
    <2>1. /\ Known(x) /\ es.type = mem[x].type
          /\ props_valid_for_type(assign_props(mem[x].p, es), es.type)
        BY <1>1, <1>2 DEF can_apply_to_memory
    <2>2. mem[x] = [type |-> mem[x].type, p |-> mem[x].p, deleted |-> mem[x].deleted]
        BY <2>1 DEF MemInv, IsComp, Known
    <2>3. NewComp(es, x) = [mem[x] EXCEPT !.p = assign_props(@, es)]
        BY <1>2 DEF NewComp
    <2>4. NewComp(es, x) = [type |-> mem[x].type, p |-> assign_props(mem[x].p, es),
                            deleted |-> mem[x].deleted]
        BY <2>2, <2>3
    <2>5. QED
        BY <2>1, <2>4 DEF IsComp
<1>3. CASE es.method = "create"
    <2>1. props_valid_for_type(assign_props(NoProps, es), es.type)
        BY <1>1, <1>3 DEF can_apply_to_memory
    <2>2. NewComp(es, x) = [type |-> es.type, p |-> assign_props(NoProps, es),
                            deleted |-> FALSE]
        BY <1>3 DEF NewComp
    <2>3. QED
        BY <2>1, <2>2 DEF IsComp
<1>4. CASE es.method = "delete"
    <2>1. Known(x)
        BY <1>4 DEF AbortsAfter
    <2>2. IsComp(mem[x])
        BY <2>1 DEF MemInv, Known
    <2>3. NewComp(es, x) = [mem[x] EXCEPT !.deleted = TRUE]
        BY <1>4 DEF NewComp
    <2>4. NewComp(es, x) = [type |-> mem[x].type, p |-> mem[x].p, deleted |-> TRUE]
        BY <2>2, <2>3 DEF IsComp
    <2>5. QED
        BY <2>2, <2>4 DEF IsComp
<1>5. QED
    BY <1>1, <1>2, <1>3, <1>4 DEF can_apply_to_memory

LEMMA SaveKeepsMem ==
    ASSUME MemInv, NEW es, NEW x, Save(es, x)
    PROVE  MemInv'
<1>1. mem' = [mem EXCEPT ![x] = NewComp(es, x)] /\ IsComp(NewComp(es, x))
    BY NewCompIsComp DEF Save
<1>2. mem' = [y \in Comps |-> mem'[y]]
    BY <1>1 DEF MemInv
<1>3. ASSUME NEW y \in Comps, mem'[y] # NoComp
      PROVE  IsComp(mem'[y])
    <2>1. CASE y = x
        BY <1>1, <2>1 DEF MemInv
    <2>2. CASE y # x
        <3>1. mem'[y] = mem[y]
            BY <1>1, <2>2 DEF MemInv
        <3>2. QED
            BY <1>3, <3>1 DEF MemInv
    <2>3. QED
        BY <2>1, <2>2
<1>4. Comps' = Comps
    BY DEF Comps
<1>5. QED
    BY <1>2, <1>3, <1>4 DEF MemInv, IsComp

LEMMA LoadKeepsMem ==
    ASSUME NEW old, \A x \in Comps : old[x] # NoComp => IsComp(old[x]),
           mem' = [x \in Comps |-> Loaded(x, old[x])]
    PROVE  MemInv'
<1>1. ASSUME NEW x \in Comps, mem'[x] # NoComp
      PROVE  IsComp(mem'[x])
    BY <1>1, LoadedIsComp
<1>2. mem' = [x \in Comps |-> mem'[x]]
    OBVIOUS
<1>3. QED
    BY <1>1, <1>2 DEF MemInv

\* From here on the definitions of a component's contents are not expanded.
LEMMA MemInit == Init => MemInv
<1> SUFFICES ASSUME Init PROVE MemInv
    OBVIOUS
<1>1. mem = [x \in Comps |-> Loaded(x, NoComp)]
    BY DEF Init
<1>2. ASSUME NEW x \in Comps, mem[x] # NoComp
      PROVE  IsComp(mem[x])
    BY <1>1, <1>2, LoadedIsComp
<1>3. QED
    BY <1>1, <1>2 DEF MemInv

(***************************************************************************)
(* Memory                                                                  *)
(***************************************************************************)
\* An edit of the text that was collected, and one from the selection mode.
LEMMA CollectKeepsMem ==
    ASSUME MemInv, Collect
    PROVE  MemInv'
<1>1. ASSUME UNCHANGED mem
      PROVE  MemInv'
    BY <1>1 DEF MemInv
<1>2. CASE CollectNothing \/ CollectEndless \/ CollectUnparsed
    BY <1>1, <1>2 DEF CollectNothing, CollectEndless, CollectUnparsed, data
<1>3. CASE \E es \in Specs(tmp) : app_cmd_editor(es)
    <2>1. PICK es \in Specs(tmp) : app_cmd_editor(es)
        BY <1>3
    <2>2. CASE CollectUnplaced(es) \/ CollectIdentity(es)
        BY <1>1, <2>2 DEF CollectUnplaced, CollectIdentity, data
    <2>3. CASE CollectRefused(es) \/ CollectAborts(es) \/ CollectCrashes(es)
        BY <1>1, <2>3 DEF CollectRefused, CollectAborts, CollectCrashes, Refuse, Abort, Crash
    <2>4. CASE CollectSaved(es)
        BY <2>4, SaveKeepsMem DEF CollectSaved
    <2>5. QED
        BY <2>1, <2>2, <2>3, <2>4 DEF app_cmd_editor
<1>4. QED
    BY <1>2, <1>3 DEF Collect

LEMMA MemStep ==
    ASSUME MemInv, [Next]_vars
    PROVE  MemInv'
<1>1. ASSUME UNCHANGED mem
      PROVE  MemInv'
    BY <1>1 DEF MemInv
<1>2. CASE User
    <2>1. ASSUME NEW what, NEW text, Open(what, text)
          PROVE  UNCHANGED mem
        BY <2>1 DEF Open, data
    <2>2. CASE \E x \in Comps : app_cmd_launch_editor(x) \/ PrintCrashes(x)
        BY <1>1, <2>1, <2>2 DEF app_cmd_launch_editor, PrintCrashes, data
    <2>3. CASE \E type \in {"event", "todo"}, c \in Cals : app_cmd_launch_editor_new(type, c)
        BY <1>1, <2>1, <2>3 DEF app_cmd_launch_editor_new
    <2>4. CASE \E text \in Drafts \cup {Empty} : UserWrites(text)
        BY <1>1, <2>4 DEF UserWrites, data
    <2>5. CASE EditorExits
        BY <1>1, <2>5 DEF EditorExits, data
    <2>6. QED
        BY <1>2, <2>2, <2>3, <2>4, <2>5 DEF User
<1>3. CASE Collect
    BY <1>3, CollectKeepsMem
<1>4. CASE \E x \in Comps, st \in Statuses : SelectionEdits(x, st)
    <2>1. PICK x \in Comps, st \in Statuses : SelectionEdits(x, st)
        BY <1>4
    <2>2. PICK es : Save(es, x) \/ Abort(es, x) \/ Crash(es, x)
        BY <2>1 DEF SelectionEdits
    <2>3. CASE Save(es, x)
        BY <2>3, SaveKeepsMem
    <2>4. CASE Abort(es, x) \/ Crash(es, x)
        BY <1>1, <2>4 DEF Abort, Crash
    <2>5. QED
        BY <2>2, <2>3, <2>4
<1>5. CASE \E x \in Comps : \E content \in Contents[x[2]] \cup {NoComp} :
               ExternalChange(x, content)
    BY <1>1, <1>5 DEF ExternalChange
<1>6. CASE app_cmd_reload
    BY <1>6, LoadKeepsMem DEF app_cmd_reload, MemInv
<1>7. CASE Restart
    <2> DEFINE none == [x \in Comps |-> NoComp]
    <2>1. mem' = [x \in Comps |-> Loaded(x, none[x])]
        BY <1>7 DEF Restart
    <2>2. \A x \in Comps : none[x] # NoComp => IsComp(none[x])
        OBVIOUS
    <2> HIDE DEF none
    <2>3. QED
        BY <2>1, <2>2, LoadKeepsMem
<1>8. CASE UNCHANGED vars
    BY <1>1, <1>8 DEF vars
<1>9. QED
    BY <1>2, <1>3, <1>4, <1>5, <1>6, <1>7, <1>8 DEF Next, Meanwhile

(***************************************************************************)
(* The session                                                             *)
(***************************************************************************)
LEMMA SessionInit == Init => FlagsInv /\ LandedInv /\ DraftInv
<1> SUFFICES ASSUME Init PROVE FlagsInv /\ LandedInv /\ DraftInv
    OBVIOUS
<1>1. FlagsInv
    BY DEF Init, FlagsInv
<1>2. LandedInv
    BY DEF Init, LandedInv
<1>3. DraftInv
    BY DEF Init, DraftInv, DraftKept
<1>4. QED
    BY <1>1, <1>2, <1>3

\* With the child gone and the text read, either it is handed to another
\* editor, or it is applied or given up, or the program ends.
LEMMA CollectKeepsFlags ==
    ASSUME FlagsInv, Collect
    PROVE  FlagsInv'
<1> USE DEF FlagsInv
<1>1. status = "running"
    BY DEF Collect, CollectNothing, CollectEndless, CollectUnparsed, Closed
<1>2. CASE CollectNothing
    BY <1>1, <1>2 DEF CollectNothing, Gone, data, history
<1>3. CASE CollectEndless
    BY <1>1, <1>3 DEF CollectEndless, data, sp, history
<1>4. CASE CollectUnparsed
    BY <1>1, <1>4 DEF CollectUnparsed, Relaunch, Gone, data
<1>5. CASE \E es \in Specs(tmp) : app_cmd_editor(es)
    <2>1. PICK es \in Specs(tmp) : app_cmd_editor(es)
        BY <1>5
    <2>2. CASE CollectUnplaced(es)
        BY <1>1, <2>2 DEF CollectUnplaced, Relaunch, Gone, data
    <2>3. CASE CollectIdentity(es)
        BY <1>1, <2>3 DEF CollectIdentity, Gone, data
    <2>4. CASE CollectRefused(es)
        BY <1>1, <2>4 DEF CollectRefused, Refuse, Relaunch, Gone
    <2>5. CASE CollectSaved(es)
        BY <1>1, <2>5 DEF CollectSaved, Save, Gone
    <2>6. CASE CollectAborts(es)
        BY <1>1, <2>6 DEF CollectAborts, Abort, sp, history
    <2>7. CASE CollectCrashes(es)
        BY <1>1, <2>7 DEF CollectCrashes, Crash, sp, history
    <2>8. QED
        BY <2>1, <2>2, <2>3, <2>4, <2>5, <2>6, <2>7 DEF app_cmd_editor
<1>6. QED
    BY <1>2, <1>3, <1>4, <1>5 DEF Collect

LEMMA CollectKeepsLanded ==
    ASSUME LandedInv, Collect
    PROVE  LandedInv'
<1> USE DEF LandedInv
<1>1. editor = "closed" /\ landed = 0
    BY DEF Collect, CollectNothing, CollectEndless, CollectUnparsed, Closed
<1>2. CASE CollectNothing
    BY <1>1, <1>2 DEF CollectNothing, Gone, data, history
<1>3. CASE CollectEndless
    BY <1>1, <1>3 DEF CollectEndless, data, sp, history
<1>4. CASE CollectUnparsed
    BY <1>1, <1>4 DEF CollectUnparsed, Relaunch, Gone, data
<1>5. CASE \E es \in Specs(tmp) : app_cmd_editor(es)
    <2>1. PICK es \in Specs(tmp) : app_cmd_editor(es)
        BY <1>5
    <2>2. CASE CollectUnplaced(es)
        BY <1>1, <2>2 DEF CollectUnplaced, Relaunch, Gone, data
    <2>3. CASE CollectIdentity(es)
        BY <1>1, <2>3 DEF CollectIdentity, Gone, data
    <2>4. CASE CollectRefused(es)
        BY <1>1, <2>4 DEF CollectRefused, Refuse, Relaunch, Gone
    <2>5. CASE CollectSaved(es)
        BY <1>1, <2>5 DEF CollectSaved, Save, Gone
    <2>6. CASE CollectAborts(es)
        BY <1>1, <2>6 DEF CollectAborts, Abort, sp, history
    <2>7. CASE CollectCrashes(es)
        BY <1>1, <2>7 DEF CollectCrashes, Crash, sp, history
    <2>8. QED
        BY <2>1, <2>2, <2>3, <2>4, <2>5, <2>6, <2>7 DEF app_cmd_editor
<1>6. QED
    BY <1>2, <1>3, <1>4, <1>5 DEF Collect

LEMMA CollectKeepsDraft ==
    ASSUME DraftInv, Collect
    PROVE  DraftInv'
<1> USE DEF DraftInv, DraftKept
<1>1. editor = "closed" /\ status = "running"
    BY DEF Collect, CollectNothing, CollectEndless, CollectUnparsed, Closed
<1>2. CASE CollectNothing
    BY <1>1, <1>2 DEF CollectNothing, Gone, data, history
<1>3. CASE CollectEndless
    BY <1>1, <1>3 DEF CollectEndless, data, sp, history
<1>4. CASE CollectUnparsed
    BY <1>1, <1>4 DEF CollectUnparsed, Relaunch, Gone, data
<1>5. CASE \E es \in Specs(tmp) : app_cmd_editor(es)
    <2>1. PICK es \in Specs(tmp) : app_cmd_editor(es)
        BY <1>5
    <2>2. CASE CollectUnplaced(es)
        BY <1>1, <2>2 DEF CollectUnplaced, Relaunch, Gone, data
    <2>3. CASE CollectIdentity(es)
        BY <1>1, <2>3 DEF CollectIdentity, Gone, data
    <2>4. CASE CollectRefused(es)
        BY <1>1, <2>4 DEF CollectRefused, Refuse, Relaunch, Gone
    <2>5. CASE CollectSaved(es)
        BY <1>1, <2>5 DEF CollectSaved, Save, Gone
    <2>6. CASE CollectAborts(es)
        BY <1>1, <2>6 DEF CollectAborts, Abort, sp, history
    <2>7. CASE CollectCrashes(es)
        BY <1>1, <2>7 DEF CollectCrashes, Crash, sp, history
    <2>8. QED
        BY <2>1, <2>2, <2>3, <2>4, <2>5, <2>6, <2>7 DEF app_cmd_editor
<1>6. QED
    BY <1>2, <1>3, <1>4, <1>5 DEF Collect

LEMMA FlagsStep ==
    ASSUME FlagsInv, [Next]_vars
    PROVE  FlagsInv'
<1> USE DEF FlagsInv
<1>1. CASE User
    <2>1. ASSUME NEW what, NEW text, Open(what, text)
          PROVE  (FlagsInv)'
        BY <2>1 DEF Open, data
    <2>2. CASE \E x \in Comps : app_cmd_launch_editor(x) \/ PrintCrashes(x)
        BY <2>1, <2>2 DEF app_cmd_launch_editor, PrintCrashes, data, sp, history
    <2>3. CASE \E type \in {"event", "todo"}, c \in Cals : app_cmd_launch_editor_new(type, c)
        BY <2>1, <2>3 DEF app_cmd_launch_editor_new
    <2>4. CASE \E text \in Drafts \cup {Empty} : UserWrites(text)
        BY <2>4 DEF UserWrites, data
    <2>5. CASE EditorExits
        BY <2>5 DEF EditorExits, data, history
    <2>6. QED
        BY <1>1, <2>2, <2>3, <2>4, <2>5 DEF User
<1>2. CASE Collect
    BY <1>2, CollectKeepsFlags
<1>3. CASE \E x \in Comps, st \in Statuses : SelectionEdits(x, st)
    <2>1. PICK x \in Comps, st \in Statuses : SelectionEdits(x, st)
        BY <1>3
    <2>2. UNCHANGED <<editor, tmp, touched, landed, draft, failed>> /\ interfered' = TRUE
        BY <2>1 DEF SelectionEdits, sp
    <2>3. status' = status \/ status' \in {"assertion", "segfault"}
        BY <2>1 DEF SelectionEdits, Save, Abort, Crash
    <2>4. QED
        BY <2>2, <2>3
<1>4. CASE \E x \in Comps : \E content \in Contents[x[2]] \cup {NoComp} :
               ExternalChange(x, content)
    BY <1>4 DEF ExternalChange, sp
<1>5. CASE app_cmd_reload
    BY <1>5 DEF app_cmd_reload, sp
<1>6. CASE Restart
    BY <1>6 DEF Restart, Gone
<1>7. CASE UNCHANGED vars
    BY <1>7 DEF vars, sp
<1>8. QED
    BY <1>1, <1>2, <1>3, <1>4, <1>5, <1>6, <1>7 DEF Next, Meanwhile

LEMMA LandedStep ==
    ASSUME LandedInv, [Next]_vars
    PROVE  LandedInv'
<1> USE DEF LandedInv
<1>1. CASE User
    <2>1. ASSUME NEW what, NEW text, Open(what, text)
          PROVE  (LandedInv)'
        BY <2>1 DEF Open, data
    <2>2. CASE \E x \in Comps : app_cmd_launch_editor(x) \/ PrintCrashes(x)
        BY <2>1, <2>2 DEF app_cmd_launch_editor, PrintCrashes, data, sp, history
    <2>3. CASE \E type \in {"event", "todo"}, c \in Cals : app_cmd_launch_editor_new(type, c)
        BY <2>1, <2>3 DEF app_cmd_launch_editor_new
    <2>4. CASE \E text \in Drafts \cup {Empty} : UserWrites(text)
        BY <2>4 DEF UserWrites, data
    <2>5. CASE EditorExits
        BY <2>5 DEF EditorExits, data, history
    <2>6. QED
        BY <1>1, <2>2, <2>3, <2>4, <2>5 DEF User
<1>2. CASE Collect
    BY <1>2, CollectKeepsLanded
<1>3. CASE \E x \in Comps, st \in Statuses : SelectionEdits(x, st)
    <2>1. PICK x \in Comps, st \in Statuses : SelectionEdits(x, st)
        BY <1>3
    <2>2. UNCHANGED <<editor, tmp, touched, landed, draft, failed>> /\ interfered' = TRUE
        BY <2>1 DEF SelectionEdits, sp
    <2>3. status' = status \/ status' \in {"assertion", "segfault"}
        BY <2>1 DEF SelectionEdits, Save, Abort, Crash
    <2>4. QED
        BY <2>2, <2>3
<1>4. CASE \E x \in Comps : \E content \in Contents[x[2]] \cup {NoComp} :
               ExternalChange(x, content)
    BY <1>4 DEF ExternalChange, sp
<1>5. CASE app_cmd_reload
    BY <1>5 DEF app_cmd_reload, sp
<1>6. CASE Restart
    BY <1>6 DEF Restart, Gone
<1>7. CASE UNCHANGED vars
    BY <1>7 DEF vars, sp
<1>8. QED
    BY <1>1, <1>2, <1>3, <1>4, <1>5, <1>6, <1>7 DEF Next, Meanwhile

LEMMA DraftStep ==
    ASSUME DraftInv, [Next]_vars
    PROVE  DraftInv'
<1> USE DEF DraftInv, DraftKept
<1>1. CASE User
    <2>1. ASSUME NEW what, NEW text, Open(what, text)
          PROVE  (DraftInv)'
        BY <2>1 DEF Open, data
    <2>2. CASE \E x \in Comps : app_cmd_launch_editor(x) \/ PrintCrashes(x)
        BY <2>1, <2>2 DEF app_cmd_launch_editor, PrintCrashes, data, sp, history
    <2>3. CASE \E type \in {"event", "todo"}, c \in Cals : app_cmd_launch_editor_new(type, c)
        BY <2>1, <2>3 DEF app_cmd_launch_editor_new
    <2>4. CASE \E text \in Drafts \cup {Empty} : UserWrites(text)
        BY <2>4 DEF UserWrites, data
    <2>5. CASE EditorExits
        BY <2>5 DEF EditorExits, data, history
    <2>6. QED
        BY <1>1, <2>2, <2>3, <2>4, <2>5 DEF User
<1>2. CASE Collect
    BY <1>2, CollectKeepsDraft
<1>3. CASE \E x \in Comps, st \in Statuses : SelectionEdits(x, st)
    <2>1. PICK x \in Comps, st \in Statuses : SelectionEdits(x, st)
        BY <1>3
    <2>2. UNCHANGED <<editor, tmp, touched, landed, draft, failed>> /\ interfered' = TRUE
        BY <2>1 DEF SelectionEdits, sp
    <2>3. status' = status \/ status' \in {"assertion", "segfault"}
        BY <2>1 DEF SelectionEdits, Save, Abort, Crash
    <2>4. QED
        BY <2>2, <2>3
<1>4. CASE \E x \in Comps : \E content \in Contents[x[2]] \cup {NoComp} :
               ExternalChange(x, content)
    BY <1>4 DEF ExternalChange, sp
<1>5. CASE app_cmd_reload
    BY <1>5 DEF app_cmd_reload, sp
<1>6. CASE Restart
    BY <1>6 DEF Restart, Gone
<1>7. CASE UNCHANGED vars
    BY <1>7 DEF vars, sp
<1>8. QED
    BY <1>1, <1>2, <1>3, <1>4, <1>5, <1>6, <1>7 DEF Next, Meanwhile

(***************************************************************************)
(* The parser                                                              *)
(***************************************************************************)
\* A set of numbers with 0 and the successors of its members is Nat.
LEMMA AllNumbers ==
    ASSUME NEW S \in SUBSET Nat, 0 \in S, \A n \in S : n + 1 \in S
    PROVE  S = Nat
<1> SUFFICES ASSUME Nat \ S # {} PROVE FALSE
    OBVIOUS
<1>1. IsWellFoundedOn(OpToRel(<, Nat), Nat)
    BY NatLessThanWellFounded
<1>2. PICK least \in Nat \ S : \A n \in Nat \ S : ~(<<n, least>> \in OpToRel(<, Nat))
    BY <1>1, WFMin
<1>3. least - 1 \in Nat /\ (least - 1) + 1 = least /\ least - 1 < least
    OBVIOUS
<1>4. least - 1 \in S
    <2>1. <<least - 1, least>> \in OpToRel(<, Nat)
        BY <1>3 DEF OpToRel
    <2>2. QED
        BY <1>2, <1>3, <2>1
<1>5. QED
    BY <1>2, <1>3, <1>4

\* What the parser has come to after n lines.
IsRead(f, lines, m) ==
    f = [n \in 0..m |-> IF n = 0 THEN Start ELSE prop(f[n - 1], lines[n])]

LEMMA ReadExists ==
    ASSUME NEW lines, NEW m \in Nat
    PROVE  \E f : IsRead(f, lines, m)
<1> DEFINE S == {k \in Nat : \E f : IsRead(f, lines, k)}
<1>1. 0 \in S
    <2>1. IsRead([n \in 0..0 |-> Start], lines, 0)
        BY DEF IsRead
    <2>2. QED
        BY <2>1
<1>2. ASSUME NEW k \in S
      PROVE  k + 1 \in S
    <2>1. PICK f : IsRead(f, lines, k)
        OBVIOUS
    <2> DEFINE g == [n \in 0..(k + 1) |-> IF n = k + 1 THEN prop(f[k], lines[n]) ELSE f[n]]
    <2>2. k \in Nat
        OBVIOUS
    <2>3. ASSUME NEW n \in 0..(k + 1)
          PROVE  g[n] = IF n = 0 THEN Start ELSE prop(g[n - 1], lines[n])
        <3>1. CASE n = k + 1
            <4>1. n # 0 /\ n - 1 = k /\ k \in 0..(k + 1) /\ k # k + 1
                BY <2>2, <3>1
            <4>2. g[n - 1] = f[k]
                BY <4>1
            <4>3. QED
                BY <3>1, <4>1, <4>2
        <3>2. CASE n # k + 1
            <4>1. n \in 0..k
                BY <2>2, <3>2
            <4>2. f[n] = IF n = 0 THEN Start ELSE prop(f[n - 1], lines[n])
                BY <2>1, <4>1 DEF IsRead
            <4>3. CASE n = 0
                BY <3>2, <4>2, <4>3
            <4>4. CASE n # 0
                <5>1. n - 1 \in 0..(k + 1) /\ n - 1 # k + 1
                    BY <2>2, <4>1, <4>4
                <5>2. g[n - 1] = f[n - 1]
                    BY <5>1
                <5>3. QED
                    BY <3>2, <4>2, <4>4, <5>2
            <4>5. QED
                BY <4>3, <4>4
        <3>3. QED
            BY <3>1, <3>2
    <2>4. g = [n \in 0..(k + 1) |-> g[n]]
        OBVIOUS
    <2> HIDE DEF g
    <2>5. IsRead(g, lines, k + 1)
        BY <2>3, <2>4 DEF IsRead
    <2>6. QED
        BY <2>2, <2>5
<1>3. S = Nat
    <2> HIDE DEF S
    <2>1. S \in SUBSET Nat
        BY DEF S
    <2>2. QED
        BY <1>1, <1>2, <2>1, AllNumbers
<1>4. QED
    BY <1>3

\* A text is read line by line.
LEMMA GrammarSteps ==
    ASSUME NEW text, Len(text.lines) \in Nat
    PROVE  \E f : /\ grammar(text) = f[Len(text.lines)]
                  /\ f[0] = Start
                  /\ \A n \in 1..Len(text.lines) : f[n] = prop(f[n - 1], text.lines[n])
<1> DEFINE m == Len(text.lines)
           f == CHOOSE f : IsRead(f, text.lines, m)
<1>1. IsRead(f, text.lines, m)
    BY ReadExists
<1>2. grammar(text) = f[m]
    BY DEF grammar, IsRead
<1> HIDE DEF f
<1>3. f[0] = Start /\ \A n \in 1..m : f[n] = prop(f[n - 1], text.lines[n])
    BY <1>1 DEF IsRead
<1>4. QED
    BY <1>2, <1>3

\* A value that was read is one, of a date a date, of categories their names.
ValueOK(k, val) ==
    IF k \in DateKeys THEN val \in Dates
    ELSE IF k = "cats" THEN IsValue(val.parts) /\ val = [parts |-> val.parts, commas |-> {}]
    ELSE IsValue(val)

AccOK(acc) ==
    /\ acc = [ok |-> acc.ok, pending |-> acc.pending, vals |-> acc.vals, rem |-> acc.rem]
    /\ \A k \in DOMAIN acc.vals : ValueOK(k, acc.vals[k])

LEMMA SetOK ==
    ASSUME NEW vals, NEW k, NEW v, \A j \in DOMAIN vals : ValueOK(j, vals[j]), ValueOK(k, v)
    PROVE  \A j \in DOMAIN Set(vals, k, v) : ValueOK(j, Set(vals, k, v)[j])
<1>1. DOMAIN Set(vals, k, v) = DOMAIN vals \cup {k}
    BY DEF Set
<1>2. ASSUME NEW j \in DOMAIN vals \cup {k}
      PROVE  Set(vals, k, v)[j] = IF j = k THEN v ELSE vals[j]
    BY DEF Set
<1> HIDE DEF Set
<1>3. QED
    BY <1>1, <1>2

LEMMA ReadAsOK ==
    ASSUME NEW k, NEW val, IsValue(val), k \in DateKeys => val \in Dates
    PROVE  ValueOK(k, ReadAs(k, val))
<1>1. CASE k = "cats"
    <2>1. k \notin DateKeys /\ ReadAs(k, val) = [parts |-> val, commas |-> {}]
        BY <1>1 DEF DateKeys, ReadAs
    <2>2. QED
        BY <1>1, <2>1 DEF ValueOK
<1>2. CASE k # "cats"
    BY <1>2 DEF ReadAs, ValueOK
<1>3. QED
    BY <1>1, <1>2

LEMMA PropKeepsOK ==
    ASSUME NEW acc, NEW l, AccOK(acc),
           l.key \in DateKeys => ~IsValue(l.val) \/ l.val \in Dates
    PROVE  AccOK(prop(acc, l))
<1>1. ASSUME NEW k, NEW v, ValueOK(k, v),
             NEW acc2, acc2 = [ok |-> acc.ok, pending |-> acc2.pending,
                               vals |-> Set(acc.vals, k, v), rem |-> acc.rem]
      PROVE  AccOK(acc2)
    <2>1. \A j \in DOMAIN Set(acc.vals, k, v) : ValueOK(j, Set(acc.vals, k, v)[j])
        BY <1>1, SetOK DEF AccOK
    <2> HIDE DEF Set
    <2>2. acc2.vals = Set(acc.vals, k, v) /\ acc2.ok = acc.ok /\ acc2.rem = acc.rem
        BY <1>1
    <2>3. QED
        BY <1>1, <2>1, <2>2 DEF AccOK
<1>2. CASE ~acc.ok
    BY <1>2 DEF prop
<1>3. CASE acc.ok /\ acc.pending
    <2>1. ValueOK("summary", Swallowed)
        BY ValuesAssumption DEF ValueOK, DateKeys
    <2>2. prop(acc, l) = [acc EXCEPT !.pending = FALSE, !.vals = Set(@, "summary", Swallowed)]
        BY <1>3 DEF prop
    <2>3. prop(acc, l) = [ok |-> acc.ok, pending |-> FALSE,
                          vals |-> Set(acc.vals, "summary", Swallowed), rem |-> acc.rem]
        BY <2>2 DEF AccOK
    <2>4. QED
        BY <1>1, <2>1, <2>3
<1>4. CASE acc.ok /\ ~acc.pending /\ (l.key = "#" \/ ~IsValue(l.val))
    <2>1. \/ prop(acc, l) = acc
          \/ prop(acc, l) = [acc EXCEPT !.pending = TRUE]
          \/ prop(acc, l) = [acc EXCEPT !.ok = FALSE]
          \/ prop(acc, l) = [acc EXCEPT !.rem = @ \cup {l.key}]
        BY <1>4 DEF prop, IsValue
    <2>2. QED
        BY <2>1 DEF AccOK
<1>5. CASE acc.ok /\ ~acc.pending /\ l.key # "#" /\ IsValue(l.val)
    <2> DEFINE v == ReadAs(l.key, l.val)
    <2>1. ValueOK(l.key, v)
        BY <1>5, ReadAsOK
    <2>2. prop(acc, l) = [acc EXCEPT !.vals = Set(@, l.key, v)]
        BY <1>5 DEF prop, IsValue
    <2> HIDE DEF v
    <2>3. prop(acc, l) = [ok |-> acc.ok, pending |-> acc.pending,
                          vals |-> Set(acc.vals, l.key, v), rem |-> acc.rem]
        BY <2>2 DEF AccOK
    <2>4. QED
        BY <1>1, <2>1, <2>3
<1>6. QED
    BY <1>2, <1>3, <1>4, <1>5

LEMMA ParsedValues ==
    ASSUME NEW text, DraftOK(text)
    PROVE  AccOK(grammar(text))
<1> DEFINE m == Len(text.lines)
<1>1. m \in Nat
    BY DEF DraftOK
<1>2. PICK f : /\ grammar(text) = f[m] /\ f[0] = Start
               /\ \A n \in 1..m : f[n] = prop(f[n - 1], text.lines[n])
    BY <1>1, GrammarSteps
<1> DEFINE S == {n \in Nat : n <= m => AccOK(f[n])}
<1>3. 0 \in S
    BY <1>2 DEF AccOK, Start, NoProps
<1>4. ASSUME NEW n \in S
      PROVE  n + 1 \in S
    <2>1. SUFFICES ASSUME n + 1 <= m PROVE AccOK(f[n + 1])
        OBVIOUS
    <2>2. n + 1 \in 1..m /\ (n + 1) - 1 = n /\ n <= m
        BY <1>1, <2>1
    <2>3. f[n + 1] = prop(f[n], text.lines[n + 1])
        BY <1>2, <2>2
    <2>4. AccOK(f[n])
        BY <2>2
    <2>5. QED
        BY <2>2, <2>3, <2>4, PropKeepsOK DEF DraftOK
<1>5. S = Nat
    <2> HIDE DEF S
    <2>1. S \in SUBSET Nat
        BY DEF S
    <2>2. QED
        BY <1>3, <1>4, <2>1, AllNumbers
<1>6. QED
    BY <1>1, <1>2, <1>5

(***************************************************************************)
(* The template of a component                                             *)
(***************************************************************************)
TemplateKeys == {"summary", "start", "end", "due", "cats", "status"}

PropsOK(p) == \A k \in DOMAIN p : PropOK(k, p[k])

PrintedValue(p, k) ==
    IF k \in DateKeys THEN simple_date_from_ts(p[k])
    ELSE IF k = "cats" THEN p[k].parts ELSE p[k]

PrintedLines(p) == {Line(k, PrintedValue(p, k)) : k \in DOMAIN p \cap TemplateKeys}

LEMMA PrintedDate ==
    ASSUME NEW t \in Nat
    PROVE  simple_date_from_ts(t) \in Dates
<1> DEFINE minutes == Local(t) \div Minute
<1>1. Local(t) \in Nat
    BY DaysAssumption DEF Local
<1>2. minutes \in Nat
    BY <1>1, DaysAssumption
<1>3. simple_date_from_ts(t) = [day |-> minutes \div DayLen, time |-> minutes % DayLen]
    BY DEF simple_date_from_ts
<1> HIDE DEF minutes
<1>4. minutes \div DayLen \in Nat /\ minutes % DayLen \in 0..(DayLen - 1)
    BY <1>2, DaysAssumption
<1>5. QED
    BY <1>3, <1>4 DEF Dates

LEMMA PrintedValueOK ==
    ASSUME NEW p, PropsOK(p), NEW k \in DOMAIN p
    PROVE  /\ IsValue(PrintedValue(p, k))
           /\ k \in DateKeys => PrintedValue(p, k) \in Dates
<1>1. CASE k \in DateKeys
    <2>1. simple_date_from_ts(p[k]) \in Dates
        BY <1>1, PrintedDate DEF PropsOK, PropOK
    <2>2. QED
        BY <1>1, <2>1, ValuesAssumption DEF PrintedValue, IsValue
<1>2. CASE k \notin DateKeys
    BY <1>2 DEF PropsOK, PropOK, PrintedValue
<1>3. QED
    BY <1>1, <1>2

LEMMA PrintedIsLines ==
    ASSUME NEW p, NEW k \in TemplateKeys, NEW L, PrintedLines(p) \subseteq L
    PROVE  Printed(p, k) \in Seq(L)
<1>1. CASE k \notin DOMAIN p
    BY <1>1 DEF Printed
<1>2. CASE k \in DOMAIN p
    <2>1. Printed(p, k) = <<Line(k, PrintedValue(p, k))>>
        BY <1>2 DEF Printed, PrintedValue
    <2>2. Line(k, PrintedValue(p, k)) \in L
        BY <1>2 DEF PrintedLines
    <2>3. QED
        BY <2>1, <2>2
<1>3. QED
    BY <1>1, <1>2

AppendAll(s, a, b, c) == s \o <<a, b, c>>

LEMMA Appended ==
    ASSUME NEW L, NEW s \in Seq(L), NEW a \in L, NEW b \in L, NEW c \in L,
           NEW r, r = AppendAll(s, a, b, c)
    PROVE  /\ Len(s) \in Nat /\ Len(r) = Len(s) + 3
           /\ \A i \in 1..Len(s) : r[i] = s[i] /\ s[i] \in L
           /\ r[Len(s) + 1] = a /\ r[Len(s) + 2] = b /\ r[Len(s) + 3] = c
<1> DEFINE t == <<a, b, c>>
<1>1. t \in Seq(L) /\ Len(t) = 3 /\ t[1] = a /\ t[2] = b /\ t[3] = c
    OBVIOUS
<1>2. r = s \o t
    BY DEF AppendAll
<1> HIDE DEF t
<1>3. Len(s) \in Nat /\ Len(r) = Len(s) + 3
    <2>1. Len(s \o t) = Len(s) + Len(t)
        BY <1>1, ConcatProperties
    <2>2. QED
        BY <1>1, <1>2, <2>1
<1>4. \A i \in 1..(Len(s) + 3) : r[i] = IF i <= Len(s) THEN s[i] ELSE t[i - Len(s)]
    <2>1. \A i \in 1..(Len(s) + Len(t)) :
              (s \o t)[i] = IF i <= Len(s) THEN s[i] ELSE t[i - Len(s)]
        BY <1>1, ConcatProperties
    <2>2. QED
        BY <1>1, <1>2, <2>1
<1>5. \A i \in 1..Len(s) : r[i] = s[i] /\ s[i] \in L
    BY <1>3, <1>4
<1>6. ASSUME NEW j \in 1..3
      PROVE  r[Len(s) + j] = t[j]
    <2>1. /\ Len(s) + j \in 1..(Len(s) + 3) /\ ~(Len(s) + j <= Len(s))
          /\ (Len(s) + j) - Len(s) = j
        BY <1>3
    <2>2. QED
        BY <1>4, <2>1
<1>7. QED
    BY <1>1, <1>3, <1>5, <1>6

\* The lines of the properties come first, those of the relations among them, then
\* the uid and the calendar.
TemplateOf(lines, p, R, x, m) ==
    /\ Len(lines) = m + 3
    /\ \A i \in 1..m : lines[i] \in PrintedLines(p) \cup R
    /\ lines[m + 1] = Line("uid", x[2])
    /\ lines[m + 2] = Line("calendar", x[1])
    /\ lines[m + 3] = Comment

LinesOf(p, rels, x) ==
    Printed(p, "summary") \o Printed(p, "start") \o Printed(p, "end")
        \o Printed(p, "due") \o Printed(p, "cats") \o rels \o Printed(p, "status")
        \o <<Line("uid", x[2]), Line("calendar", x[1]), Comment>>

LEMMA LinesInOrder ==
    ASSUME NEW x, NEW p, NEW R, NEW rels \in Seq(R)
    PROVE  \E m \in Nat : TemplateOf(LinesOf(p, rels, x), p, R, x, m)
<1> DEFINE lines == LinesOf(p, rels, x)
           P == PrintedLines(p) \cup R
           L == P \cup {Line("uid", x[2]), Line("calendar", x[1]), Comment}
           a1 == Printed(p, "summary")
           a2 == Printed(p, "start")
           a3 == Printed(p, "end")
           a4 == Printed(p, "due")
           a5 == Printed(p, "cats")
           a6 == Printed(p, "status")
           top == a1 \o a2 \o a3 \o a4 \o a5 \o rels \o a6
<1>1. \A k \in TemplateKeys : Printed(p, k) \in Seq(P)
    BY PrintedIsLines
<1>2. /\ a1 \in Seq(P) /\ a2 \in Seq(P) /\ a3 \in Seq(P) /\ a4 \in Seq(P)
      /\ a5 \in Seq(P) /\ a6 \in Seq(P) /\ rels \in Seq(P)
    BY <1>1 DEF TemplateKeys
<1> HIDE DEF a1, a2, a3, a4, a5, a6, P
<1>3. top \in Seq(P)
    BY <1>2
<1>4. lines = top \o <<Line("uid", x[2]), Line("calendar", x[1]), Comment>>
    BY DEF a1, a2, a3, a4, a5, a6, LinesOf
<1> HIDE DEF top, lines
<1>5. top \in Seq(L) /\ \A i \in 1..Len(top) : top[i] \in P
    BY <1>3
<1>6. /\ Line("uid", x[2]) \in L
      /\ Line("calendar", x[1]) \in L
      /\ Comment \in L
    OBVIOUS
<1> HIDE DEF L
<1>7. TemplateOf(lines, p, R, x, Len(top)) /\ Len(top) \in Nat
    <2>1. /\ Len(top) \in Nat /\ Len(lines) = Len(top) + 3
          /\ \A i \in 1..Len(top) : lines[i] = top[i]
          /\ lines[Len(top) + 1] = Line("uid", x[2])
          /\ lines[Len(top) + 2] = Line("calendar", x[1])
          /\ lines[Len(top) + 3] = Comment
        <3> DEFINE uidLine == Line("uid", x[2])
                   calLine == Line("calendar", x[1])
        <3>1. top \in Seq(L) /\ uidLine \in L /\ calLine \in L /\ Comment \in L
            BY <1>5, <1>6
        <3>2. lines = AppendAll(top, uidLine, calLine, Comment)
            BY <1>4 DEF AppendAll
        <3> HIDE DEF uidLine, calLine
        <3>3. /\ Len(top) \in Nat /\ Len(lines) = Len(top) + 3
              /\ \A i \in 1..Len(top) : lines[i] = top[i]
              /\ lines[Len(top) + 1] = uidLine
              /\ lines[Len(top) + 2] = calLine
              /\ lines[Len(top) + 3] = Comment
            BY <3>1, <3>2, Appended
        <3>4. QED
            BY <3>3 DEF uidLine, calLine
    <2>2. QED
        BY <1>5, <2>1 DEF TemplateOf, P
<1>8. QED
    BY <1>7 DEF lines

LEMMA TemplateLines ==
    ASSUME NEW x, NEW R, NEW rels \in Seq(R)
    PROVE  \E m \in Nat : TemplateOf(print_template(x, rels).lines, mem[x].p, R, x, m)
BY LinesInOrder DEF print_template, LinesOf

LEMMA TemplateOK ==
    ASSUME NEW x, PropsOK(mem[x].p), NEW rels \in PrintedRelations(mem[x].p)
    PROVE  DraftOK(print_template(x, rels))
<1> DEFINE lines == print_template(x, rels).lines
           p == mem[x].p
           R == {Line("related_to", v) : v \in {Torn, Blank, p.related_to}}
<1>1. rels \in Seq(R)
    <2>1. rels = <<>> \/ \E l \in R : rels = <<l>>
        BY DEF PrintedRelations
    <2> HIDE DEF R
    <2>2. <<>> \in Seq(R) /\ \A l \in R : <<l>> \in Seq(R)
        OBVIOUS
    <2>3. QED
        BY <2>1, <2>2
<1>2. \A l \in R : l.key \notin DateKeys
    BY DEF Line, DateKeys
<1> HIDE DEF R
<1>3. PICK m \in Nat : TemplateOf(lines, p, R, x, m)
    BY <1>1, TemplateLines
<1> USE DEF TemplateOf
<1> HIDE DEF lines
<1>4. ASSUME NEW i \in 1..Len(lines), lines[i].key \in DateKeys
      PROVE  lines[i].val \in Dates
    <2>1. CASE i \in 1..m
        <3>1. PICK k \in DOMAIN p \cap TemplateKeys : lines[i] = Line(k, PrintedValue(p, k))
            BY <1>2, <1>3, <1>4, <2>1 DEF PrintedLines
        <3>2. lines[i].key = k /\ lines[i].val = PrintedValue(p, k)
            BY <3>1 DEF Line
        <3>3. QED
            BY <1>4, <3>2, PrintedValueOK
    <2>2. CASE i \notin 1..m
        <3>1. i = m + 1 \/ i = m + 2 \/ i = m + 3
            BY <1>3, <2>2
        <3>2. QED
            BY <1>3, <1>4, <3>1 DEF Line, Comment, DateKeys
    <2>3. QED
        BY <2>1, <2>2
<1>5. QED
    BY <1>3, <1>4 DEF DraftOK, lines

\* What the parser comes to as long as it reads values.
Reading(v) == [ok |-> TRUE, pending |-> FALSE, vals |-> v, rem |-> {}]

\* A line with a value sets it.
LEMMA PropSets ==
    ASSUME NEW v, NEW k, NEW val, k # "#", IsValue(val)
    PROVE  prop(Reading(v), Line(k, val)) = Reading(Set(v, k, ReadAs(k, val)))
<1> DEFINE w == ReadAs(k, val)
           acc == Reading(v)
<1>1. acc.ok /\ ~acc.pending /\ Line(k, val).key = k /\ Line(k, val).val = val
    BY DEF Line, Reading
<1>2. prop(acc, Line(k, val)) = [acc EXCEPT !.vals = Set(@, k, w)]
    BY <1>1 DEF prop, IsValue
<1> HIDE DEF w
<1>3. prop(acc, Line(k, val)) = Reading(Set(v, k, w))
    BY <1>2 DEF Reading
<1>4. QED
    BY <1>3 DEF w

\* What the parser makes of the lines of the properties: nothing but what the
\* component has.
AsPrinted(acc, p) ==
    \E v : /\ acc = Reading(v)
           /\ \A k \in DOMAIN v :
                  k \in DOMAIN p \cap TemplateKeys /\ v[k] = ReadAs(k, PrintedValue(p, k))

LEMMA PrintedLineRead ==
    ASSUME NEW p, PropsOK(p), NEW acc, AsPrinted(acc, p), NEW l \in PrintedLines(p)
    PROVE  AsPrinted(prop(acc, l), p)
<1>1. PICK k \in DOMAIN p \cap TemplateKeys : l = Line(k, PrintedValue(p, k))
    BY DEF PrintedLines
<1>2. PICK v : /\ acc = Reading(v)
               /\ \A j \in DOMAIN v :
                      j \in DOMAIN p \cap TemplateKeys /\ v[j] = ReadAs(j, PrintedValue(p, j))
    BY DEF AsPrinted
<1> DEFINE w == Set(v, k, ReadAs(k, PrintedValue(p, k)))
<1>3. prop(acc, l) = Reading(w)
    <2>1. k # "#" /\ IsValue(PrintedValue(p, k))
        BY PrintedValueOK DEF TemplateKeys
    <2>2. QED
        BY <1>1, <1>2, <2>1, PropSets
<1>4. \A j \in DOMAIN w :
          j \in DOMAIN p \cap TemplateKeys /\ w[j] = ReadAs(j, PrintedValue(p, j))
    BY <1>2 DEF Set
<1> HIDE DEF w
<1>5. QED
    BY <1>3, <1>4 DEF AsPrinted

LEMMA TemplateRead ==
    ASSUME NEW x \in Comps, NEW p, p = mem[x].p, PropsOK(p),
           NEW acc, acc = grammar(print_template(x, <<>>))
    PROVE  /\ acc.rem = {}
           /\ {"uid", "calendar"} \subseteq DOMAIN acc.vals
           /\ acc.vals["uid"] = x[2] /\ acc.vals["calendar"] = x[1]
           /\ \A k \in DOMAIN acc.vals \ {"uid", "calendar"} :
                  k \in DOMAIN p \cap TemplateKeys /\ acc.vals[k] = ReadAs(k, PrintedValue(p, k))
<1> DEFINE text == print_template(x, <<>>)
           lines == text.lines
<1>1. PICK m \in Nat : TemplateOf(lines, p, {}, x, m)
    <2>1. <<>> \in Seq({})
        OBVIOUS
    <2>2. QED
        BY <2>1, TemplateLines
<1> USE DEF TemplateOf
<1> HIDE DEF text
<1>2. PICK f : /\ grammar(text) = f[m + 3] /\ f[0] = Start
               /\ \A n \in 1..(m + 3) : f[n] = prop(f[n - 1], lines[n])
    <2>1. Len(text.lines) \in Nat
        BY <1>1
    <2>2. QED
        BY <1>1, <2>1, GrammarSteps
<1>3. AsPrinted(f[m], p)
    <2> DEFINE S == {n \in Nat : n <= m => AsPrinted(f[n], p)}
    <2>1. 0 \in S
        <3>1. f[0] = Reading(NoProps) /\ DOMAIN NoProps = {}
            BY <1>2 DEF Start, Reading, NoProps
        <3>2. AsPrinted(f[0], p)
            BY <3>1 DEF AsPrinted
        <3>3. QED
            BY <3>2
    <2>2. ASSUME NEW n \in S
          PROVE  n + 1 \in S
        <3>1. SUFFICES ASSUME n + 1 <= m PROVE AsPrinted(f[n + 1], p)
            OBVIOUS
        <3>2. n + 1 \in 1..m /\ n + 1 \in 1..(m + 3) /\ (n + 1) - 1 = n /\ n <= m
            BY <1>1, <3>1
        <3>3. f[n + 1] = prop(f[n], lines[n + 1])
            BY <1>2, <3>2
        <3>4. AsPrinted(f[n], p) /\ lines[n + 1] \in PrintedLines(p)
            BY <1>1, <3>2
        <3>5. QED
            BY <3>3, <3>4, PrintedLineRead
    <2>3. S = Nat
        <3> HIDE DEF S
        <3>1. S \in SUBSET Nat
            BY DEF S
        <3>2. QED
            BY <2>1, <2>2, <3>1, AllNumbers
    <2>4. QED
        BY <2>3
<1>4. PICK v : /\ f[m] = Reading(v)
               /\ \A k \in DOMAIN v :
                      k \in DOMAIN p \cap TemplateKeys /\ v[k] = ReadAs(k, PrintedValue(p, k))
    BY <1>3 DEF AsPrinted
<1> DEFINE v1 == Set(v, "uid", x[2])
           v2 == Set(v1, "calendar", x[1])
<1>5. f[m + 1] = prop(f[m], lines[m + 1]) /\ f[m + 2] = prop(f[m + 1], lines[m + 2])
      /\ f[m + 3] = prop(f[m + 2], lines[m + 3])
    <2>1. /\ m + 1 \in 1..(m + 3) /\ (m + 1) - 1 = m
          /\ m + 2 \in 1..(m + 3) /\ (m + 2) - 1 = m + 1
          /\ m + 3 \in 1..(m + 3) /\ (m + 3) - 1 = m + 2
        OBVIOUS
    <2>2. QED
        BY <1>2, <2>1
<1>6. IsValue(x[1]) /\ IsValue(x[2])
    BY ValuesAssumption DEF Comps
<1>7. f[m + 1] = Reading(v1)
    <2>1. f[m + 1] = prop(Reading(v), Line("uid", x[2]))
        BY <1>1, <1>4, <1>5
    <2>2. ReadAs("uid", x[2]) = x[2] /\ "uid" # "#"
        BY DEF ReadAs
    <2>3. QED
        BY <1>6, <2>1, <2>2, PropSets
<1>8. f[m + 2] = Reading(v2)
    <2>1. f[m + 2] = prop(Reading(v1), Line("calendar", x[1]))
        BY <1>1, <1>5, <1>7
    <2>2. ReadAs("calendar", x[1]) = x[1] /\ "calendar" # "#"
        BY DEF ReadAs
    <2>3. QED
        BY <1>6, <2>1, <2>2, PropSets
<1>9. /\ {"uid", "calendar"} \subseteq DOMAIN v2 /\ v2["uid"] = x[2] /\ v2["calendar"] = x[1]
      /\ \A k \in DOMAIN v2 \ {"uid", "calendar"} :
             k \in DOMAIN p \cap TemplateKeys /\ v2[k] = ReadAs(k, PrintedValue(p, k))
    BY <1>4 DEF Set, TemplateKeys
<1> HIDE DEF v2
<1>10. f[m + 3] = f[m + 2]
    <2>1. f[m + 2].ok /\ ~f[m + 2].pending /\ Comment.key = "#"
        BY <1>8 DEF Reading, Comment, Line
    <2>2. QED
        BY <1>1, <1>5, <2>1 DEF prop
<1>11. acc = Reading(v2)
    BY <1>2, <1>8, <1>10 DEF text
<1>12. acc.vals = v2 /\ acc.rem = {}
    BY <1>11 DEF Reading
<1>13. QED
    BY <1>9, <1>12

(***************************************************************************)
(* What an edit spec holds                                                 *)
(***************************************************************************)
\* A date that is printed in full is read as it was; of one that is not there
\* the day is filled in, and it stays without a time.
LEMMA Division ==
    ASSUME NEW t \in Nat, NEW d \in Nat \ {0}, NEW q, NEW r, q = t \div d, r = t % d
    PROVE  q \in Nat /\ r \in Nat /\ q * d + r = t
<1>1. q \in Nat /\ r \in Nat
    OBVIOUS
<1>2. q * d + r = t
    BY SMTT(30)
<1>3. QED
    BY <1>1, <1>2

\* A whole minute that comes once is read as it was printed.
ExactTime(t) == Local(t) % Minute = 0 /\ (t < Back - Hour \/ Back <= t)

LEMMA LocalRoundTrip ==
    ASSUME NEW t \in Nat, t < Back - Hour \/ Back <= t
    PROVE  Local(t) \in Nat /\ FromLocal(Local(t)) = t
BY DaysAssumption DEF Local, FromLocal

LEMMA DateRoundTrip ==
    ASSUME NEW t \in Nat, NEW day, ExactTime(t)
    PROVE  simple_date_to_ts(sd_default_date(simple_date_from_ts(t), day)) = t
<1> DEFINE sd == simple_date_from_ts(t)
           l == Local(t)
           minutes == l \div Minute
           seconds == l % Minute
           q == minutes \div DayLen
           r == minutes % DayLen
<1>1. sd = [day |-> q, time |-> r]
    BY DEF simple_date_from_ts
<1>2. l \in Nat /\ FromLocal(l) = t /\ seconds = 0
    BY LocalRoundTrip DEF ExactTime
<1> HIDE DEF l
<1>3. minutes \in Nat /\ minutes * Minute + seconds = l
    <2>1. minutes = l \div Minute /\ seconds = l % Minute
        OBVIOUS
    <2> HIDE DEF minutes, seconds
    <2>2. QED
        BY <1>2, <2>1, DaysAssumption, Division
<1> HIDE DEF seconds
<1>4. minutes * Minute = l
    BY <1>2, <1>3, DaysAssumption
<1> HIDE DEF minutes
<1>5. q \in Nat /\ r \in Nat /\ q * DayLen + r = minutes
    BY <1>3, DaysAssumption, Division
<1> HIDE DEF sd, q, r
<1>6. sd.day = q /\ sd.time = r /\ q # -1 /\ r # -1
    BY <1>1, <1>5
<1>7. sd_default_date(sd, day) = sd
    BY <1>1, <1>6 DEF sd_default_date
<1>8. simple_date_to_ts(sd) = FromLocal(Minute * minutes)
    BY <1>5, <1>6 DEF simple_date_to_ts
<1>9. Minute * minutes = l
    BY <1>3, <1>4, DaysAssumption
<1>10. QED
    BY <1>2, <1>7, <1>8, <1>9 DEF sd

LEMMA NoDateIsNoTime ==
    ASSUME NEW day
    PROVE  simple_date_to_ts(sd_default_date(NoDate, day)) = -1
BY DEF NoDate, sd_default_date, simple_date_to_ts

LEMMA DateRead ==
    ASSUME NEW sd \in Dates, NEW day \in Nat \cup {-1}, NEW r, r = sd_default_date(sd, day)
    PROVE  /\ r.day \in Nat \cup {-1} /\ r.time \in Nat \cup {-1}
           /\ day # -1 => r.day \in Nat
<1>1. sd.day \in Nat \cup {-1} /\ sd.time \in Nat \cup {-1} /\ sd = [day |-> sd.day, time |-> sd.time]
    BY DaysAssumption DEF Dates
<1>2. r = [day |-> IF sd.day = -1 THEN day ELSE sd.day, time |-> sd.time]
    BY <1>1 DEF sd_default_date
<1>3. QED
    BY <1>1, <1>2

\* The dates of a spec and what they are read from.
Missing(vals, k) == Get(vals, k, NoDate)

StartDay(vals, today) == sd_default_date(Missing(vals, "start"), today).day

ReadDate(vals, k, today) ==
    sd_default_date(Missing(vals, k), IF k = "end" THEN StartDay(vals, today) ELSE today)

\* And its other properties.
Rest == {"summary", "status", "cats", "related_to"}

DatesOf(type) == IF type = "event" THEN {"start", "end"} ELSE {"start", "due"}

LEMMA SpecParts ==
    ASSUME NEW text, NEW today, NEW es, es = edit_spec_init_parse(text, today),
           NEW vals, vals = grammar(text).vals
    PROVE  /\ es = [method |-> es.method, type |-> es.type, rem |-> es.rem,
                    uid |-> es.uid, cal |-> es.cal, p |-> es.p]
           /\ es.method = text.method /\ es.type = text.type /\ es.rem = grammar(text).rem
           /\ es.uid = Get(vals, "uid", NoUid) /\ es.cal = Get(vals, "calendar", -1)
           /\ \A k \in DOMAIN es.p :
                  \/ /\ k \in DatesOf(text.type)
                     /\ es.p[k] = simple_date_to_ts(ReadDate(vals, k, today))
                     /\ es.p[k] # -1
                  \/ /\ k \in DOMAIN vals \cap Rest
                     /\ es.p[k] = vals[k]
<1> DEFINE start == sd_default_date(Get(vals, "start", NoDate), today)
           due == sd_default_date(Get(vals, "due", NoDate), today)
           end == sd_default_date(Get(vals, "end", NoDate), start.day)
           ts == [k \in IF text.type = "event" THEN {"start", "end"} ELSE {"start", "due"} |->
                     simple_date_to_ts(CASE k = "start" -> start [] k = "end" -> end
                                         [] k = "due" -> due)]
           dates == {k \in DOMAIN ts : ts[k] # -1}
           rest == DOMAIN vals \cap {"summary", "status", "cats", "related_to"}
           p == [k \in dates \cup rest |-> IF k \in dates THEN ts[k] ELSE vals[k]]
<1>1. es = [method |-> text.method, type |-> text.type, rem |-> grammar(text).rem,
            uid |-> Get(vals, "uid", NoUid), cal |-> Get(vals, "calendar", -1), p |-> p]
    BY DEF edit_spec_init_parse
<1>2. DOMAIN ts = DatesOf(text.type)
    BY DEF DatesOf
<1>3. ASSUME NEW k \in DOMAIN ts
      PROVE  ts[k] = simple_date_to_ts(ReadDate(vals, k, today))
    <2>1. k \in {"start", "end", "due"}
        BY <1>2 DEF DatesOf
    <2>2. CASE k = "start"
        BY <2>2 DEF ReadDate, Missing
    <2>3. CASE k = "end"
        BY <2>3 DEF ReadDate, Missing, StartDay
    <2>4. CASE k = "due"
        BY <2>4 DEF ReadDate, Missing
    <2>5. QED
        BY <2>1, <2>2, <2>3, <2>4
<1> HIDE DEF ts
<1>4. ASSUME NEW k \in DOMAIN p
      PROVE  \/ /\ k \in DatesOf(text.type)
                /\ p[k] = simple_date_to_ts(ReadDate(vals, k, today))
                /\ p[k] # -1
             \/ /\ k \in DOMAIN vals \cap Rest
                /\ p[k] = vals[k]
    BY <1>2, <1>3 DEF Rest
<1> HIDE DEF p
<1>5. QED
    BY <1>1, <1>4

IsIdentityOf(es, x, p) ==
    es.method = "update" /\ es.uid = x[2] /\ es.cal = x[1] /\ Identity(es, p) = {TRUE}

\* The edit that the untouched template of a component stands for is the
\* identity.
LEMMA TemplateIsIdentity ==
    ASSUME NEW x \in Comps, NEW p, p = mem[x].p, PropsOK(p), Exact(p), NEW today,
           NEW es, es = edit_spec_init_parse(print_template(x, <<>>), today)
    PROVE  IsIdentityOf(es, x, p)
<1> DEFINE text == print_template(x, <<>>)
           vals == grammar(text).vals
<1>1. /\ grammar(text).rem = {} /\ {"uid", "calendar"} \subseteq DOMAIN vals
      /\ vals["uid"] = x[2] /\ vals["calendar"] = x[1]
      /\ \A k \in DOMAIN vals \ {"uid", "calendar"} :
             k \in DOMAIN p \cap TemplateKeys /\ vals[k] = ReadAs(k, PrintedValue(p, k))
    BY TemplateRead
<1>2. text.method = "update"
    BY DEF print_template
<1> HIDE DEF text, vals
<1>3. /\ es.method = text.method /\ es.rem = grammar(text).rem
      /\ es.uid = Get(vals, "uid", NoUid) /\ es.cal = Get(vals, "calendar", -1)
      /\ \A k \in DOMAIN es.p :
             \/ /\ k \in DatesOf(text.type)
                /\ es.p[k] = simple_date_to_ts(ReadDate(vals, k, today))
                /\ es.p[k] # -1
             \/ /\ k \in DOMAIN vals \cap Rest
                /\ es.p[k] = vals[k]
    BY SpecParts DEF text, vals
<1>4. es.uid = x[2] /\ es.cal = x[1]
    BY <1>1, <1>3 DEF Get
<1>5. ASSUME NEW k \in DOMAIN es.p
      PROVE  k \in DOMAIN p /\ p[k] = es.p[k]
    <2>1. CASE /\ k \in DatesOf(text.type)
               /\ es.p[k] = simple_date_to_ts(ReadDate(vals, k, today))
               /\ es.p[k] # -1
        <3>1. k \in DateKeys /\ k # "uid" /\ k # "calendar"
            BY <2>1 DEF DatesOf, DateKeys
        <3>2. k \in DOMAIN vals
            <4>1. SUFFICES ASSUME k \notin DOMAIN vals PROVE FALSE
                OBVIOUS
            <4>2. Missing(vals, k) = NoDate
                BY <4>1 DEF Missing, Get
            <4>3. QED
                BY <2>1, <4>2, NoDateIsNoTime DEF ReadDate
        <3>3. k \in DOMAIN p /\ vals[k] = simple_date_from_ts(p[k]) /\ p[k] \in Nat
            <4>1. k \in DOMAIN p /\ vals[k] = ReadAs(k, PrintedValue(p, k)) /\ k # "cats"
                BY <1>1, <3>1, <3>2 DEF DateKeys
            <4>2. QED
                BY <3>1, <4>1 DEF PrintedValue, ReadAs, PropsOK, PropOK
        <3>4. Missing(vals, k) = simple_date_from_ts(p[k])
            BY <3>2, <3>3 DEF Missing, Get
        <3>5. ExactTime(p[k])
            BY <3>1, <3>3 DEF Exact, ExactTime
        <3>6. QED
            BY <2>1, <3>3, <3>4, <3>5, DateRoundTrip DEF ReadDate
    <2>2. CASE k \in DOMAIN vals \cap Rest /\ es.p[k] = vals[k]
        <3>1. k \in DOMAIN p /\ es.p[k] = ReadAs(k, PrintedValue(p, k)) /\ k \notin DateKeys
            BY <1>1, <2>2 DEF Rest, DateKeys
        <3>2. CASE k = "cats"
            <4>1. p[k] = [parts |-> p[k].parts, commas |-> p[k].commas] /\ p[k].commas = {}
                BY <3>1, <3>2 DEF PropsOK, PropOK, Exact
            <4>2. es.p[k] = [parts |-> p[k].parts, commas |-> {}]
                BY <3>1, <3>2 DEF PrintedValue, ReadAs
            <4>3. QED
                BY <3>1, <4>1, <4>2
        <3>3. CASE k # "cats"
            BY <3>1, <3>3 DEF PrintedValue, ReadAs
        <3>4. QED
            BY <3>2, <3>3
    <2>3. QED
        BY <1>3, <2>1, <2>2
<1>6. es.rem = {} /\ "related_to" \notin DOMAIN es.p
    BY <1>1, <1>3, <1>5 DEF Exact
<1>7. Identity(es, p) = {TRUE}
    BY <1>5, <1>6 DEF Identity
<1>8. QED
    BY <1>2, <1>3, <1>4, <1>7 DEF IsIdentityOf

\* A spec that was read from a text of a user holds values and times.
LEMMA SpecPropsOK ==
    ASSUME NEW text, DraftOK(text), NEW today \in Days,
           NEW es, es = edit_spec_init_parse(text, today)
    PROVE  PropsOK(es.p)
<1> DEFINE vals == grammar(text).vals
<1>1. \A k \in DOMAIN vals : ValueOK(k, vals[k])
    BY ParsedValues DEF AccOK
<1>2. \A k \in DOMAIN es.p :
          \/ /\ k \in DatesOf(text.type)
             /\ es.p[k] = simple_date_to_ts(ReadDate(vals, k, today))
             /\ es.p[k] # -1
          \/ /\ k \in DOMAIN vals \cap Rest
             /\ es.p[k] = vals[k]
    BY SpecParts
<1> HIDE DEF vals
<1>3. ASSUME NEW k \in DateKeys
      PROVE  Missing(vals, k) \in Dates
    <2>1. NoDate \in Dates
        BY DEF NoDate, Dates
    <2>2. QED
        BY <1>1, <1>3, <2>1 DEF Missing, Get, ValueOK
<1>4. today \in Nat
    BY DaysAssumption
<1>5. StartDay(vals, today) \in Nat
    BY <1>3, <1>4, DateRead DEF StartDay, DateKeys
<1>6. ASSUME NEW k \in DOMAIN es.p
      PROVE  PropOK(k, es.p[k])
    <2>1. CASE /\ k \in DatesOf(text.type)
               /\ es.p[k] = simple_date_to_ts(ReadDate(vals, k, today))
               /\ es.p[k] # -1
        <3> DEFINE r == ReadDate(vals, k, today)
        <3>1. k \in DateKeys
            BY <2>1 DEF DatesOf, DateKeys
        <3>2. r.day \in Nat /\ r.time \in Nat \cup {-1}
            <4>1. \E day \in Nat : r = sd_default_date(Missing(vals, k), day)
                BY <1>4, <1>5 DEF ReadDate
            <4>2. QED
                BY <1>3, <3>1, <4>1, DateRead
        <3> HIDE DEF r
        <3>3. r.time \in Nat /\ es.p[k] = FromLocal(Minute * (r.day * DayLen + r.time))
            BY <2>1, <3>2 DEF simple_date_to_ts, r
        <3>4. r.day * DayLen + r.time \in Nat
            BY <3>2, <3>3, DaysAssumption
        <3>5. Minute * (r.day * DayLen + r.time) \in Nat
            BY <3>4, DaysAssumption
        <3>6. es.p[k] \in Nat
            BY <3>3, <3>5, DaysAssumption DEF FromLocal
        <3>7. QED
            BY <3>1, <3>6 DEF PropOK
    <2>2. CASE k \in DOMAIN vals \cap Rest /\ es.p[k] = vals[k]
        <3>1. k \notin DateKeys /\ ValueOK(k, es.p[k])
            BY <1>1, <2>2 DEF Rest, DateKeys
        <3>2. CASE k = "cats"
            <4>1. IsValue(es.p[k].parts) /\ es.p[k] = [parts |-> es.p[k].parts, commas |-> {}]
                BY <3>1, <3>2 DEF ValueOK
            <4>2. es.p[k].commas = {}
                BY <4>1
            <4>3. QED
                BY <3>1, <3>2, <4>1, <4>2 DEF PropOK
        <3>3. CASE k # "cats"
            BY <3>1, <3>3 DEF ValueOK, PropOK
        <3>4. QED
            BY <3>2, <3>3
    <2>3. QED
        BY <1>2, <2>1, <2>2
<1>7. QED
    BY <1>6 DEF PropsOK

(***************************************************************************)
(* A text that is not touched                                              *)
(***************************************************************************)
\* Whatever is in a file or in memory came from another program's file or
\* from a text: a time is a number, and another value no mark of the parser.
FilesInv ==
    /\ files = [x \in Comps |-> files[x]]
    /\ \A x \in Comps : files[x] # NoComp => ContentsOK(files[x])

PropsInv == \A x \in Comps : mem[x] # NoComp => PropsOK(mem[x].p)

TmpInv == tmp # Empty => DraftOK(tmp)

DataInv == MemInv /\ FilesInv /\ PropsInv /\ TmpInv

\* The template that an editor was opened on is in its file, and still is what
\* print_template would write.
UntouchedInv ==
    opened = "exact component" /\ ~touched /\ ~interfered =>
        /\ landed = 0
        /\ editor # "none" => \E x \in Comps : /\ Known(x) /\ Exact(mem[x].p)
                                              /\ tmp = print_template(x, <<>>)

LEMMA AssignOK ==
    ASSUME NEW p, NEW es, PropsOK(p), PropsOK(es.p)
    PROVE  PropsOK(assign_props(p, es))
<1> DEFINE u == props_union(p, es.p)
<1>1. PropOK("related_to", Torn)
    BY ValuesAssumption DEF PropOK, DateKeys
<1>2. PropsOK(u)
    BY <1>1 DEF PropsOK, props_union, Copied
<1> HIDE DEF u
<1>3. PropsOK(props_apply_mask(u, es.rem))
    BY <1>2 DEF PropsOK, props_apply_mask
<1>4. QED
    BY <1>3 DEF assign_props, u

LEMMA ApplyOK ==
    ASSUME NEW p, NEW es, PropsOK(p), PropsOK(es.p)
    PROVE  PropsOK(apply_props_to_icalcomponent(p, es))
BY DEF PropsOK, apply_props_to_icalcomponent

LEMMA NoPropsOK == PropsOK(NoProps)
BY DEF PropsOK, NoProps

LEMMA NewFileOK ==
    ASSUME FilesInv, NEW es, NEW x, PropsOK(es.p), Accepted(es, x), NewFile(es, x) # NoComp
    PROVE  ContentsOK(NewFile(es, x))
<1>1. can_apply_to_memory(es, x) /\ Reaches(es, x)
    BY DEF Accepted
<1>2. CASE es.method = "update"
    <2>1. ContentsOK(files[x])
        BY <1>1, <1>2 DEF can_apply_to_memory, Known, Reaches, FilesInv
    <2> DEFINE p == apply_props_to_icalcomponent(files[x].p, es)
    <2>2. PropsOK(p)
        BY <2>1, ApplyOK DEF ContentsOK, PropsOK
    <2>3. NewFile(es, x) = [files[x] EXCEPT !.p = p]
        BY <1>2 DEF NewFile
    <2> HIDE DEF p
    <2>4. NewFile(es, x) = [type |-> files[x].type, p |-> p]
        BY <2>1, <2>3 DEF ContentsOK
    <2>5. QED
        BY <2>2, <2>4 DEF ContentsOK, PropsOK
<1>3. CASE es.method = "create"
    <2> DEFINE p == apply_props_to_icalcomponent(NoProps, es)
    <2>1. PropsOK(p)
        BY NoPropsOK, ApplyOK
    <2>2. NewFile(es, x) = [type |-> es.type, p |-> p]
        BY <1>3 DEF NewFile
    <2> HIDE DEF p
    <2>3. QED
        BY <2>1, <2>2 DEF ContentsOK, PropsOK
<1>4. CASE es.method = "delete"
    BY <1>4 DEF NewFile
<1>5. QED
    BY <1>1, <1>2, <1>3, <1>4 DEF can_apply_to_memory

LEMMA FileSet ==
    ASSUME FilesInv, NEW x, NEW c, c # NoComp => ContentsOK(c),
           files' = [files EXCEPT ![x] = c]
    PROVE  FilesInv'
<1>1. files' = [y \in Comps |-> files'[y]]
    BY DEF FilesInv
<1>2. ASSUME NEW y \in Comps
      PROVE  files'[y] = c \/ files'[y] = files[y]
    BY DEF FilesInv
<1>3. \A y \in Comps : files'[y] # NoComp => ContentsOK(files'[y])
    BY <1>2 DEF FilesInv
<1>4. QED
    BY <1>1, <1>3 DEF FilesInv, Comps, ContentsOK

LEMMA NewCompOK ==
    ASSUME MemInv, PropsInv, NEW es, NEW x, PropsOK(es.p), Accepted(es, x), ~AbortsAfter(es, x)
    PROVE  PropsOK(NewComp(es, x).p)
<1>1. can_apply_to_memory(es, x)
    BY DEF Accepted
<1>2. CASE es.method = "update"
    <2>1. Known(x)
        BY <1>1, <1>2 DEF can_apply_to_memory
    <2>2. IsComp(mem[x]) /\ PropsOK(mem[x].p)
        BY <2>1 DEF Known, MemInv, PropsInv
    <2> DEFINE p == assign_props(mem[x].p, es)
    <2>3. PropsOK(p)
        BY <2>2, AssignOK
    <2>4. NewComp(es, x) = [mem[x] EXCEPT !.p = p]
        BY <1>2 DEF NewComp
    <2> HIDE DEF p
    <2>5. NewComp(es, x).p = p
        BY <2>2, <2>4 DEF IsComp
    <2>6. QED
        BY <2>3, <2>5
<1>3. CASE es.method = "create"
    BY <1>3, NoPropsOK, AssignOK DEF NewComp
<1>4. CASE es.method = "delete"
    <2>1. Known(x)
        BY <1>4 DEF AbortsAfter
    <2>2. IsComp(mem[x]) /\ PropsOK(mem[x].p)
        BY <2>1 DEF Known, MemInv, PropsInv
    <2>3. NewComp(es, x) = [mem[x] EXCEPT !.deleted = TRUE]
        BY <1>4 DEF NewComp
    <2>4. NewComp(es, x).p = mem[x].p
        BY <2>2, <2>3 DEF IsComp
    <2>5. QED
        BY <2>2, <2>4
<1>5. QED
    BY <1>1, <1>2, <1>3, <1>4 DEF can_apply_to_memory

LEMMA SaveKeepsProps ==
    ASSUME MemInv, FilesInv, PropsInv, NEW es, NEW x, PropsOK(es.p), Save(es, x)
    PROVE  FilesInv' /\ PropsInv'
<1>1. Accepted(es, x) /\ ~AbortsAfter(es, x)
    BY DEF Save
<1>2. FilesInv'
    <2>1. files' = [files EXCEPT ![x] = NewFile(es, x)]
        BY DEF Save
    <2>2. QED
        BY <1>1, <2>1, NewFileOK, FileSet
<1>3. PropsInv'
    <2> DEFINE c == NewComp(es, x)
    <2>1. mem' = [mem EXCEPT ![x] = c] /\ PropsOK(c.p)
        BY <1>1, NewCompOK DEF Save
    <2> HIDE DEF c
    <2>2. ASSUME NEW y \in Comps
          PROVE  mem'[y] = c \/ mem'[y] = mem[y]
        BY <2>1 DEF MemInv
    <2>3. \A y \in Comps : mem'[y] # NoComp => PropsOK(mem'[y].p)
        BY <2>1, <2>2 DEF PropsInv
    <2>4. QED
        BY <2>3 DEF PropsInv, Comps, PropsOK
<1>4. QED
    BY <1>2, <1>3

LEMMA AbortKeepsProps ==
    ASSUME FilesInv, PropsInv, NEW es, NEW x, PropsOK(es.p), Abort(es, x)
    PROVE  FilesInv' /\ PropsInv'
<1>1. PropsInv'
    BY DEF Abort, PropsInv
<1>2. CASE AbortsBefore(es, x)
    BY <1>1, <1>2 DEF Abort, FilesInv, Comps, ContentsOK
<1>3. CASE ~AbortsBefore(es, x)
    <2>1. Accepted(es, x) /\ files' = [files EXCEPT ![x] = NewFile(es, x)]
        BY <1>3 DEF Abort, AbortsAfter
    <2>2. QED
        BY <1>1, <2>1, NewFileOK, FileSet
<1>4. QED
    BY <1>1, <1>2, <1>3

LEMMA CrashKeepsProps ==
    ASSUME MemInv, FilesInv, PropsInv, NEW es, NEW x, PropsOK(es.p), Crash(es, x)
    PROVE  FilesInv' /\ PropsInv'
<1>1. PropsInv'
    BY DEF Crash, PropsInv
<1>2. CASE UNCHANGED files
    BY <1>1, <1>2 DEF FilesInv, Comps, ContentsOK
<1>3. CASE Accepted(es, x) /\ ~AbortsBefore(es, x) /\ es.method = "update"
           /\ files' = [files EXCEPT ![x] = NewFile(es, x)]
    <2>1. ~AbortsAfter(es, x)
        BY <1>3 DEF AbortsAfter
    <2>2. QED
        BY <1>1, <1>3, <2>1, NewFileOK, FileSet
<1>4. QED
    BY <1>1, <1>2, <1>3 DEF Crash

LEMMA LoadKeepsProps ==
    ASSUME FilesInv, NEW old, \A x \in Comps : old[x] # NoComp => PropsOK(old[x].p),
           mem' = [x \in Comps |-> Loaded(x, old[x])]
    PROVE  PropsInv'
<1>1. ASSUME NEW x \in Comps, mem'[x] # NoComp
      PROVE  PropsOK(mem'[x].p)
    <2>1. mem'[x] = Loaded(x, old[x])
        OBVIOUS
    <2>2. CASE files[x] # NoComp /\ props_valid_for_type(files[x].p, files[x].type)
        BY <2>1, <2>2 DEF Loaded, FilesInv, ContentsOK, PropsOK
    <2>3. CASE ~(files[x] # NoComp /\ props_valid_for_type(files[x].p, files[x].type))
        BY <1>1, <2>1, <2>3 DEF Loaded
    <2>4. QED
        BY <2>2, <2>3
<1>2. QED
    BY <1>1 DEF PropsInv, Comps, PropsOK

\* The specs of a text: read from it, with a uid if there is none.
LEMMA SpecsOK ==
    ASSUME NEW text, DraftOK(text), NEW es \in Specs(text)
    PROVE  PropsOK(es.p)
<1>1. PICK today \in Days :
          LET e == edit_spec_init_parse(text, today)
          IN  es = e \/ \E u \in Fresh : es = [e EXCEPT !.uid = u]
    BY DEF Specs
<1> DEFINE e == edit_spec_init_parse(text, today)
<1>2. PropsOK(e.p)
    BY SpecPropsOK
<1>3. e = [method |-> e.method, type |-> e.type, rem |-> e.rem, uid |-> e.uid,
           cal |-> e.cal, p |-> e.p]
    BY SpecParts
<1> HIDE DEF e
<1>4. CASE es = e
    BY <1>2, <1>4
<1>5. CASE \E u \in Fresh : es = [e EXCEPT !.uid = u]
    <2>1. es.p = e.p
        BY <1>3, <1>5
    <2>2. QED
        BY <1>2, <2>1
<1>6. QED
    BY <1>1, <1>4, <1>5 DEF e

LEMMA TemplateSpecs ==
    ASSUME NEW x \in Comps, PropsOK(mem[x].p), Exact(mem[x].p), Known(x),
           NEW es \in Specs(print_template(x, <<>>))
    PROVE  <<es.cal, es.uid>> = x /\ edit_spec_is_identity(es, x) = {TRUE}
<1>1. PICK today \in Days :
          LET e == edit_spec_init_parse(print_template(x, <<>>), today)
          IN  IF e.method = "create" /\ e.uid = NoUid
              THEN \E u \in Fresh : es = [e EXCEPT !.uid = u] ELSE es = e
    BY DEF Specs
<1> DEFINE e == edit_spec_init_parse(print_template(x, <<>>), today)
<1>2. e.method = "update" /\ e.uid = x[2] /\ e.cal = x[1] /\ Identity(e, mem[x].p) = {TRUE}
    <2> DEFINE p == mem[x].p
    <2>1. e = edit_spec_init_parse(print_template(x, <<>>), today) /\ p = mem[x].p
          /\ PropsOK(p) /\ Exact(p)
        OBVIOUS
    <2> HIDE DEF e, p
    <2>2. IsIdentityOf(e, x, p)
        BY <2>1, TemplateIsIdentity
    <2>3. QED
        BY <2>2 DEF IsIdentityOf, p
<1> HIDE DEF e
<1>3. es = e
    BY <1>1, <1>2 DEF e
<1>4. x = <<x[1], x[2]>>
    BY DEF Comps
<1>5. QED
    BY <1>2, <1>3, <1>4 DEF edit_spec_is_identity

LEMMA NewTemplatesOK ==
    ASSUME NEW c
    PROVE  DraftOK(print_new_event_template(c)) /\ DraftOK(print_new_todo_template(c))
BY DEF DraftOK, print_new_event_template, print_new_todo_template, Line, Comment, DateKeys, IsValue

LEMMA DataInit == Init => DataInv /\ UntouchedInv
<1> SUFFICES ASSUME Init PROVE DataInv /\ UntouchedInv
    OBVIOUS
<1>1. FilesInv
    <2>1. files = [x \in Comps |-> files[x]]
        BY DEF Init
    <2>2. \A x \in Comps : files[x] \in Contents[x[2]] \cup {NoComp}
        BY DEF Init
    <2>3. QED
        BY <2>1, <2>2, ContentsAssumption DEF FilesInv, Comps
<1>2. MemInv
    BY MemInit
<1>3. PropsInv
    <2>1. ASSUME NEW x \in Comps, mem[x] # NoComp
          PROVE  PropsOK(mem[x].p)
        <3>1. mem[x] = Loaded(x, NoComp)
            BY DEF Init
        <3>2. files[x] # NoComp /\ mem[x].p = files[x].p
            BY <2>1, <3>1 DEF Loaded
        <3>3. QED
            BY <1>1, <3>2 DEF FilesInv, ContentsOK, PropsOK
    <2>2. QED
        BY <2>1 DEF PropsInv
<1>4. TmpInv /\ UntouchedInv
    BY DEF Init, TmpInv, UntouchedInv
<1>5. QED
    BY <1>1, <1>2, <1>3, <1>4 DEF DataInv

LEMMA TmpStep ==
    ASSUME DataInv, [Next]_vars
    PROVE  TmpInv'
<1>1. ASSUME tmp' = tmp \/ tmp' = Empty
      PROVE  TmpInv'
    BY <1>1 DEF DataInv, TmpInv, DraftOK
<1>2. ASSUME NEW text, tmp' = text, DraftOK(text)
      PROVE  TmpInv'
    BY <1>2 DEF TmpInv, DraftOK
<1>3. CASE \E x \in Comps : app_cmd_launch_editor(x)
    <2> PICK x \in Comps : app_cmd_launch_editor(x)
        BY <1>3
    <2>1. PICK rels \in PrintedRelations(mem[x].p) :
              Known(x) /\ tmp' = print_template(x, rels)
        BY DEF app_cmd_launch_editor, Open
    <2>2. DraftOK(print_template(x, rels))
        BY <2>1, TemplateOK DEF DataInv, PropsInv, Known
    <2> DEFINE text == print_template(x, rels)
    <2> HIDE DEF text
    <2>3. tmp' = text /\ DraftOK(text)
        BY <2>1, <2>2 DEF text
    <2>4. TmpInv'
        BY <2>3 DEF TmpInv, DraftOK
    <2>5. QED
        BY <2>4
<1>4. CASE \E type \in {"event", "todo"}, c \in Cals : app_cmd_launch_editor_new(type, c)
    <2>1. PICK c : tmp' = print_new_event_template(c) \/ tmp' = print_new_todo_template(c)
        BY <1>4 DEF app_cmd_launch_editor_new, Open
    <2>2. QED
        BY <1>2, <2>1, NewTemplatesOK
<1>5. CASE \E text \in Drafts \cup {Empty} : UserWrites(text)
    BY <1>1, <1>2, <1>5, DraftsAssumption DEF UserWrites
<1>6. CASE EditorExits \/ \E x \in Comps : PrintCrashes(x)
    BY <1>1, <1>6 DEF EditorExits, PrintCrashes, sp
<1>7. CASE Collect
    BY <1>1, <1>7 DEF Collect, CollectNothing, CollectEndless, CollectUnparsed, app_cmd_editor,
                      CollectUnplaced, CollectIdentity, CollectRefused, CollectSaved,
                      CollectAborts, CollectCrashes, Relaunch, Gone, sp
<1>8. CASE Meanwhile
    BY <1>1, <1>8 DEF Meanwhile, SelectionEdits, ExternalChange, app_cmd_reload, Restart, Gone, sp
<1>9. CASE UNCHANGED vars
    BY <1>1, <1>9 DEF vars, sp
<1>10. QED
    BY <1>3, <1>4, <1>5, <1>6, <1>7, <1>8, <1>9 DEF Next, User

LEMMA PropsStep ==
    ASSUME DataInv, [Next]_vars
    PROVE  FilesInv' /\ PropsInv'
<1> USE DEF DataInv
<1>1. ASSUME UNCHANGED files
      PROVE  FilesInv'
    BY <1>1 DEF FilesInv, Comps, ContentsOK
<1>2. ASSUME UNCHANGED mem
      PROVE  PropsInv'
    BY <1>2 DEF PropsInv, Comps, PropsOK
<1>3. CASE User
    <2>1. UNCHANGED data
        BY <1>3 DEF User, app_cmd_launch_editor, PrintCrashes, app_cmd_launch_editor_new, Open,
                    UserWrites, EditorExits
    <2>2. QED
        BY <1>1, <1>2, <2>1 DEF data
<1>4. CASE CollectNothing \/ CollectEndless \/ CollectUnparsed
    BY <1>1, <1>2, <1>4 DEF CollectNothing, CollectEndless, CollectUnparsed, data
<1>5. CASE Closed /\ tmp # Empty /\ \E es \in Specs(tmp) : app_cmd_editor(es)
    <2>1. PICK es \in Specs(tmp) : app_cmd_editor(es)
        BY <1>5
    <2>2. PropsOK(es.p)
        BY <1>5, SpecsOK DEF TmpInv
    <2>3. CASE CollectUnplaced(es) \/ CollectIdentity(es) \/ CollectRefused(es)
        BY <1>1, <1>2, <2>3 DEF CollectUnplaced, CollectIdentity, CollectRefused, Refuse, data
    <2>4. CASE CollectSaved(es)
        BY <2>2, <2>4, SaveKeepsProps DEF CollectSaved
    <2>5. CASE CollectAborts(es)
        BY <2>2, <2>5, AbortKeepsProps DEF CollectAborts
    <2>6. CASE CollectCrashes(es)
        BY <2>2, <2>6, CrashKeepsProps DEF CollectCrashes
    <2>7. QED
        BY <2>1, <2>3, <2>4, <2>5, <2>6 DEF app_cmd_editor
<1>6. CASE \E x \in Comps, st \in Statuses : SelectionEdits(x, st)
    <2>1. PICK x \in Comps, st \in Statuses : SelectionEdits(x, st)
        BY <1>6
    <2> DEFINE es == [method |-> "update", type |-> mem[x].type, uid |-> x[2], cal |-> x[1],
                      p |-> [status |-> st], rem |-> {}]
    <2>2. PropsOK(es.p)
        BY ValuesAssumption DEF PropsOK, PropOK, DateKeys
    <2>3. Save(es, x) \/ Abort(es, x) \/ Crash(es, x)
        BY <2>1 DEF SelectionEdits
    <2> HIDE DEF es
    <2>4. QED
        BY <2>2, <2>3, SaveKeepsProps, AbortKeepsProps, CrashKeepsProps
<1>7. CASE \E x \in Comps : \E content \in Contents[x[2]] \cup {NoComp} :
               ExternalChange(x, content)
    <2>1. PICK x \in Comps : \E content \in Contents[x[2]] \cup {NoComp} :
               ExternalChange(x, content)
        BY <1>7
    <2>2. PICK content \in Contents[x[2]] \cup {NoComp} : ExternalChange(x, content)
        BY <2>1
    <2>3. content # NoComp => ContentsOK(content)
        BY <2>2, ContentsAssumption DEF Comps
    <2>4. UNCHANGED mem /\ files' = [files EXCEPT ![x] = content]
        BY <2>2 DEF ExternalChange
    <2>5. QED
        BY <1>2, <2>3, <2>4, FileSet
<1>8. CASE app_cmd_reload
    <2>1. UNCHANGED files /\ mem' = [x \in Comps |-> Loaded(x, mem[x])]
        BY <1>8 DEF app_cmd_reload
    <2>2. QED
        BY <1>1, <2>1, LoadKeepsProps DEF PropsInv
<1>9. CASE Restart
    <2> DEFINE none == [x \in Comps |-> NoComp]
    <2>1. UNCHANGED files /\ mem' = [x \in Comps |-> Loaded(x, none[x])]
        BY <1>9 DEF Restart
    <2>2. \A x \in Comps : none[x] # NoComp => PropsOK(none[x].p)
        OBVIOUS
    <2> HIDE DEF none
    <2>3. QED
        BY <1>1, <2>1, <2>2, LoadKeepsProps
<1>10. CASE UNCHANGED vars
    BY <1>1, <1>2, <1>10 DEF vars, data
<1>11. QED
    BY <1>3, <1>4, <1>5, <1>6, <1>7, <1>8, <1>9, <1>10 DEF Next, Meanwhile, Collect

LEMMA DataStep ==
    ASSUME DataInv, [Next]_vars
    PROVE  DataInv'
<1>1. MemInv'
    BY MemStep DEF DataInv
<1>2. QED
    BY <1>1, TmpStep, PropsStep DEF DataInv

Intact(x) == Known(x) /\ Exact(mem[x].p) /\ tmp = print_template(x, <<>>)

\* The text of an editor that is handed on, and of one that is closed, is the
\* one it had.
LEMMA UntouchedCollect ==
    ASSUME DataInv, UntouchedInv, Collect
    PROVE  UntouchedInv'
<1>1. SUFFICES ASSUME opened' = "exact component", ~touched', ~interfered'
               PROVE  /\ landed' = 0
                      /\ editor' # "none" => \E x \in Comps : Intact(x)'
    BY DEF UntouchedInv, Intact, Comps
<1>2. UNCHANGED <<opened, touched, interfered>> /\ editor = "closed"
    BY DEF Collect, CollectNothing, CollectEndless, CollectUnparsed, app_cmd_editor,
           CollectUnplaced, CollectIdentity, CollectRefused, CollectSaved, CollectAborts,
           CollectCrashes, Closed, history
<1>3. landed = 0
    BY <1>1, <1>2 DEF UntouchedInv
<1>4. PICK x \in Comps : Known(x) /\ Exact(mem[x].p) /\ tmp = print_template(x, <<>>)
    BY <1>1, <1>2 DEF UntouchedInv
<1>5. ASSUME NEW es \in Specs(tmp), CollectSaved(es)
      PROVE  FALSE
    <2>1. mem[x] # NoComp /\ PropsOK(mem[x].p)
        BY <1>4 DEF Known, DataInv, PropsInv
    <2>2. <<es.cal, es.uid>> = x /\ edit_spec_is_identity(es, x) = {TRUE}
        BY <1>4, <2>1, TemplateSpecs
    <2>3. Save(es, x)
        BY <1>5, <2>2 DEF CollectSaved
    <2>4. QED
        BY <2>2, <2>3 DEF Save, Accepted
<1>6. UNCHANGED <<landed, mem>> /\ (editor' = "none" \/ tmp' = tmp)
    BY <1>5 DEF Collect, CollectNothing, CollectEndless, CollectUnparsed, app_cmd_editor,
                CollectUnplaced, CollectIdentity, CollectRefused, CollectAborts, CollectCrashes, Closed,
                Relaunch, Gone, Refuse, Abort, Crash, data, sp, history
<1>7. editor' # "none" => Intact(x)'
    BY <1>4, <1>6 DEF Intact, Known, Comps, Exact, print_template
<1>8. QED
    BY <1>3, <1>4, <1>6, <1>7

LEMMA UntouchedStep ==
    ASSUME DataInv, UntouchedInv, [Next]_vars
    PROVE  UntouchedInv'
<1>1. CASE \E x \in Comps : app_cmd_launch_editor(x)
    <2>1. SUFFICES ASSUME opened' = "exact component" PROVE UntouchedInv'
        BY DEF UntouchedInv
    <2> PICK x \in Comps : app_cmd_launch_editor(x)
        BY <1>1
    <2>2. PICK rels \in PrintedRelations(mem[x].p) :
              /\ Known(x)
              /\ Open(IF Exact(mem[x].p) THEN "exact component" ELSE "component",
                      print_template(x, rels))
        BY DEF app_cmd_launch_editor
    <2>3. Exact(mem[x].p)
        BY <2>1, <2>2 DEF Open
    <2>4. rels = <<>>
        BY <2>2, <2>3 DEF PrintedRelations, Exact
    <2>5. landed' = 0 /\ tmp' = print_template(x, <<>>) /\ UNCHANGED mem
        BY <2>2, <2>4 DEF Open, data
    <2>6. Intact(x)'
        BY <2>2, <2>3, <2>5 DEF Intact, Known, Comps, Exact, print_template
    <2>7. QED
        BY <2>5, <2>6 DEF UntouchedInv, Intact, Comps
<1>2. CASE \E type \in {"event", "todo"}, c \in Cals : app_cmd_launch_editor_new(type, c)
    BY <1>2 DEF app_cmd_launch_editor_new, Open, UntouchedInv
<1>3. CASE \E text \in Drafts \cup {Empty} : UserWrites(text)
    BY <1>3 DEF UserWrites, UntouchedInv
<1>4. CASE EditorExits \/ UNCHANGED vars \/ \E x \in Comps : PrintCrashes(x)
    <2>1. UNCHANGED <<mem, tmp, opened, touched, interfered, landed>>
          /\ (editor' # "none" => editor # "none")
        BY <1>4 DEF EditorExits, PrintCrashes, vars, data, sp, history
    <2>2. QED
        BY <2>1 DEF UntouchedInv, Known, Comps, Exact, print_template
<1>5. CASE Collect
    BY <1>5, UntouchedCollect
<1>6. CASE Meanwhile
    <2>1. interfered' \/ opened' = "nothing"
        BY <1>6 DEF Meanwhile, SelectionEdits, ExternalChange, app_cmd_reload, Restart
    <2>2. QED
        BY <2>1 DEF UntouchedInv
<1>7. QED
    BY <1>1, <1>2, <1>3, <1>4, <1>5, <1>6 DEF Next, User

(***************************************************************************)
(* Theorems                                                                *)
(***************************************************************************)
\* In every reachable state the flags have their types, and every component in
\* memory is valid for its type, whatever users write, other programs leave in
\* the files and the parser makes of a text.  (Of the instances of a component
\* that recurs this does not hold: EditStorage's InstancesForwards.)
THEOREM EditorTypes == Spec => []TypeOK
<1> DEFINE TypeInv == MemInv /\ FlagsInv /\ LandedInv
<1>1. Init => TypeInv
    BY MemInit, SessionInit
<1>2. TypeInv /\ [Next]_vars => TypeInv'
    BY MemStep, FlagsStep, LandedStep
<1>3. TypeInv => TypeOK
    BY DEF MemInv, FlagsInv, LandedInv, TypeOK, IsComp
<1>4. QED
    BY <1>1, <1>2, <1>3, PTL DEF Spec

\* What a user has written is in an editor's file until it is applied.
THEOREM DraftAlwaysKept == Spec => []DraftKept
<1>1. DraftInv => DraftKept
    BY DEF DraftInv
<1>2. DraftInv /\ [Next]_vars => DraftInv'
    BY DraftStep
<1>3. QED
    BY <1>1, <1>2, SessionInit, PTL DEF Spec

\* However often a text goes through the editor, it is applied once at most.
THEOREM OneEditAlways == Spec => []OneEditPerEditor
<1>1. LandedInv => OneEditPerEditor
    BY DEF LandedInv, OneEditPerEditor
<1>2. LandedInv /\ [Next]_vars => LandedInv'
    BY LandedStep
<1>3. QED
    BY <1>1, <1>2, SessionInit, PTL DEF Spec

\* A template that is closed as it was written changes nothing, unless something
\* else has changed a file or memory meanwhile: for every component that a text can
\* hold, with times that are whole minutes outside of the hour that comes again, no
\* comma in the name of a category and no relations, whatever else it has or has
\* not, and after any history of edits that went through the editor.
THEOREM UntouchedNeverChanges == Spec => []UntouchedChangesNothing
<1>1. UntouchedInv => UntouchedChangesNothing
    BY DEF UntouchedInv, UntouchedChangesNothing
<1>2. DataInv /\ UntouchedInv /\ [Next]_vars => DataInv' /\ UntouchedInv'
    BY DataStep, UntouchedStep
<1>3. QED
    BY <1>1, <1>2, DataInit, PTL DEF Spec
=============================================================================
