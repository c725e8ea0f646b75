---------------------------- MODULE EditStorage ----------------------------
(***************************************************************************)
(* The two representations of one calendar directory, and what keeps them  *)
(* together: update_calendar_from_storage reads the files into memory,     *)
(* apply_edit_spec_to_calendar changes a file and then the memory, and     *)
(* other programs change files at any time, also between two directory     *)
(* entries of a running load.                                              *)
(*                                                                         *)
(* A file is the sequence of its VEVENTs and VTODOs, all with the uid that *)
(* the file is named after.  -1 is "no recurrence id".                     *)
(***************************************************************************)
EXTENDS Integers, Sequences, SequencesExt, FiniteSets, Props

CONSTANTS
    Uids,
    Times,          \* times, what an uninitialised one may hold, and recurrence ids
    Offsets,        \* the days of the recurrence rule, from its DTSTART
    Contents,       \* the files other programs write
    Edits,          \* the edit specs a user or an action can produce
    MaxClock        \* bound on the clock, for model checking only

ASSUME MaxClockAssumption == MaxClock \in Nat

\* What is not there: no sequence of components, and no component.
NoFile == [i \in {0} |-> FALSE]
NoComp == [found |-> FALSE]

Fields == {"rid", "type", "recurs", "p"}

ASSUME ContentsAssumption ==
    \A content \in Contents :
        /\ content \in Seq(Range(content))
        /\ \A i \in DOMAIN content : DOMAIN content[i] = Fields

VARIABLES
    files,          \* uid -> the contents of <uid>.ics, or NoFile
    mtime,          \* uid -> st_mtim of that file
    clock,
    loaded,         \* cal->loaded
    since,          \* the value of cal->loaded before the running load
    scan,           \* directory entries the running load has yet to read
    mem,            \* uid -> the component calendar_find_comp leads to
    dirty,          \* the caches of the components are to be rebuilt
    status,         \* "loading", "ready", or the assertion that ended it all
    unseen,         \* uids changed by others since their file was read (history)
    refused         \* uids with a component that was skipped as invalid when
                    \* their file was read last (history)

vars == <<files, mtime, clock, loaded, since, scan, mem, dirty, status, unseen, refused>>
storageVars == <<files, mtime, unseen, refused>>
loadVars == <<loaded, since, scan>>

Present == {u \in Uids : files[u] # NoFile}

(***************************************************************************)
(* Components in memory                                                    *)
(***************************************************************************)
\* struct recur_dep_props: the three dates of an occurrence, -1 for none.
Rdps(times) == [DateKeys -> times \cup {-1}]

RdpOf(p) == [k \in DateKeys |-> IF k \in DOMAIN p THEN p[k] ELSE -1]

recur_dep_props_set_props(p, rdp) ==
    LET known == {k \in DateKeys : rdp[k] # -1}
    IN  [k \in DOMAIN p \cup known |-> IF k \in known THEN rdp[k] ELSE p[k]]

\* recurrence_init clones the file and goes by its first component with the
\* uid, whether or not that is the one with the rule.
RuleTimes(e, content) ==
    IF e.recurs /\ "start" \in DOMAIN content[1].p
    THEN {content[1].p.start + d : d \in Offsets} ELSE {}

comp_init_from_ical(e, times) ==
    [type |-> e.type, p |-> e.p, recurs |-> e.recurs, times |-> times,
     recur_insts |-> [t \in {} |-> e.p], recur_cache |-> [t \in {} |-> RdpOf(e.p)],
     deleted |-> FALSE]

\* An occurrence is as long as the base, but for what an instance says itself.
recur_cb_fn(c, t) ==
    LET own == IF t \in DOMAIN c.recur_insts THEN c.recur_insts[t] ELSE NoProps
    IN  [k \in DateKeys |->
            IF k \in DOMAIN own THEN own[k]
            ELSE IF k = "start" THEN t
            ELSE IF {"start", k} \subseteq DOMAIN c.p THEN t + (c.p[k] - c.p.start)
            ELSE -1]

\* Every occurrence, once the component has been expanded.
comp_recur_expand(c) ==
    IF c.recurs THEN [t \in c.times |-> recur_cb_fn(c, t)]
    ELSE [t \in {-1} |-> RdpOf(c.p)]

\* The occurrences that start at a recurrence id, of which the first is found,
Starting(c, rid) == {t \in DOMAIN c.recur_cache : c.recur_cache[t].start = rid}

comp_get_recur_point(c, rid) == rid \in DOMAIN c.recur_insts \/ Starting(c, rid) # {}

\* (of infinitely many: one of them if there is no first)
First(S) == CHOOSE t \in S : (\E u \in S : \A v \in S : u <= v) => \A v \in S : t <= v

\* the properties it is made an instance with (comp_get_or_create_recur_inst),
Instance(c, rid) ==
    IF rid \in DOMAIN c.recur_insts THEN c.recur_insts[rid]
    ELSE recur_dep_props_set_props(Copy(c.p), c.recur_cache[First(Starting(c, rid))])

\* and those the identity check may see: an id that is not known leaves it with
\* an uninitialised rdp.
RecurPoints(c, rid) ==
    IF comp_get_recur_point(c, rid) THEN {Instance(c, rid)}
    ELSE {recur_dep_props_set_props(Copy(c.p), rdp) : rdp \in Rdps(Times)}

AddRecurInst(c, t, p) ==
    [c EXCEPT !.recur_insts = [u \in DOMAIN @ \cup {t} |-> IF u = t THEN p ELSE @[u]]]

\* One component of a file (the loop of libical_parse_ics).  The first entry
\* for a recurrence id is the one that is found.
ParseOne(content, c, e) ==
    IF e.rid = -1
    THEN IF props_valid_for_type(e.p, e.type)
         THEN comp_init_from_ical(e, RuleTimes(e, content)) ELSE c
    ELSE IF c # NoComp /\ e.rid \notin DOMAIN c.recur_insts
                      /\ props_valid_for_type(e.p, c.type)
         THEN AddRecurInst(c, e.rid, e.p)
         ELSE c

\* One after the other, each on what those before it came to.
libical_parse_ics(c, content) ==
    LET parsed[n \in 0..Len(content)] ==
            IF n = 0 THEN c ELSE ParseOne(content, parsed[n - 1], content[n])
    IN  parsed[Len(content)]

\* "WARNING: component `%s` is invalid. skipping".
HasInvalid(content) ==
    \E i \in DOMAIN content : ~props_valid_for_type(content[i].p, content[i].type)

(***************************************************************************)
(* update_calendar_from_storage                                            *)
(***************************************************************************)
Init ==
    /\ files \in [Uids -> Contents \cup {NoFile}]
    /\ mtime = [u \in Uids |-> 0]
    /\ clock = 0
    /\ loaded = 0
    /\ since = -1
    /\ scan = {u \in Uids : files[u] # NoFile}
    /\ mem = [u \in Uids |-> NoComp]
    /\ dirty = FALSE
    /\ status = "loading"
    /\ unseen = {u \in Uids : files[u] # NoFile}
    /\ refused = {}

\* The key `r`, app_cmd_reload: `loaded` is taken before anything is read.
BeginLoad ==
    /\ status = "ready"
    /\ status' = "loading"
    /\ since' = loaded
    /\ loaded' = clock
    /\ scan' = Present
    /\ UNCHANGED <<storageVars, clock, mem, dirty>>

\* MUTANT of timespec_leq: a file of the very time of the last load is taken
\* to have been read.
timespec_leq_Strict(a, b) == a < b

timespec_leq(a, b) == a <= b

\* A directory entry is read if it changed since the load before this one.
ReadFile(u) ==
    /\ status = "loading"
    /\ u \in scan
    /\ files[u] # NoFile
    /\ scan' = scan \ {u}
    /\ IF timespec_leq(since, mtime[u])
       THEN /\ mem' = [mem EXCEPT ![u] = libical_parse_ics(@, files[u])]
            /\ unseen' = unseen \ {u}
            /\ refused' = IF HasInvalid(files[u]) THEN refused \cup {u} ELSE refused \ {u}
       ELSE UNCHANGED <<mem, unseen, refused>>
    /\ UNCHANGED <<files, mtime, clock, loaded, since, dirty, status>>

\* asrt(fstatat(...) == 0, "stat"): the entry was listed and is gone.
ReadMissing(u) ==
    /\ status = "loading"
    /\ u \in scan
    /\ files[u] = NoFile
    /\ status' = "stat"
    /\ UNCHANGED <<storageVars, loadVars, clock, mem, dirty>>

\* The load is followed by app_invalidate_calendars, or is the first one,
\* which marks every type it finds as dirty.
EndLoad ==
    /\ status = "loading"
    /\ scan = {}
    /\ status' = "ready"
    /\ dirty' = TRUE
    /\ UNCHANGED <<storageVars, loadVars, clock, mem>>

\* app_expand: the caches are rebuilt, with every occurrence of interest.
Frame ==
    /\ status = "ready"
    /\ dirty
    /\ dirty' = FALSE
    /\ mem' = [u \in Uids |->
           IF mem[u] = NoComp THEN NoComp
           ELSE [mem[u] EXCEPT !.recur_cache =
                    IF mem[u].deleted THEN [t \in {} |-> RdpOf(NoProps)]
                    ELSE comp_recur_expand(mem[u])]]
    /\ UNCHANGED <<storageVars, loadVars, clock, status>>

(***************************************************************************)
(* apply_edit_spec_with_mod_time.  An identity edit, an edit that is not   *)
(* valid and an edit whose file is missing change nothing, and are left    *)
(* out.  An edit ends with app_invalidate_calendars.                       *)
(***************************************************************************)
ComparedWith(es, c) == IF es.rid = -1 THEN {c.p} ELSE RecurPoints(c, es.rid)

edit_spec_is_identity(es, c) == UNION {Identity(es, p) : p \in ComparedWith(es, c)}

Write(u, content) ==
    /\ files' = [files EXCEPT ![u] = content]
    /\ mtime' = [mtime EXCEPT ![u] = clock]

Matching(u, es) == {i \in DOMAIN files[u] : files[u][i].type = es.type}

\* The component of the file an UPDATE changes: the first one, if the edit
\* names no recurrence id.
Hits(u, es) == {i \in Matching(u, es) : es.rid = -1 \/ files[u][i].rid = es.rid}

FirstHit(u, es) == CHOOSE i \in Hits(u, es) : \A j \in Hits(u, es) : i <= j

\* MUTANT of StorageUpdate: properties the edit does not mention are taken
\* from memory instead of from the file.
StorageUpdate_FromMemory(u, es) ==
    IF Hits(u, es) # {}
    THEN [files[u] EXCEPT ![FirstHit(u, es)].p = apply_props_to_icalcomponent(mem[u].p, es)]
    ELSE files[u]

StorageUpdate(u, es) ==
    IF Hits(u, es) # {}
    THEN [files[u] EXCEPT ![FirstHit(u, es)].p = apply_props_to_icalcomponent(@, es)]
    ELSE Append(files[u], [rid |-> es.rid, type |-> es.type, recurs |-> FALSE,
                           p |-> apply_props_to_icalcomponent(mem[u].p, es)])

\* MUTANT of MemoryUpdate: the removed properties stay in memory.
MemoryUpdate_KeepsRemoved(c, es) ==
    IF es.rid = -1 THEN [c EXCEPT !.p = props_union(@, es.p)]
    ELSE AddRecurInst(c, es.rid, props_union(Instance(c, es.rid), es.p))

\* apply_to_memory, EDIT_METHOD_UPDATE.
MemoryUpdate(c, es) ==
    IF es.rid = -1 THEN [c EXCEPT !.p = assign_props(@, es)]
    ELSE AddRecurInst(c, es.rid, assign_props(Instance(c, es.rid), es))

\* MUTANT of CanUpdate: the edited properties are not validated.
CanUpdate_Unvalidated(u, es) ==
    /\ status = "ready"
    /\ es.method = "update"
    /\ mem[u] # NoComp
    /\ FALSE \in edit_spec_is_identity(es, mem[u])
    /\ es.type = mem[u].type
    /\ files[u] # NoFile

\* edit_spec_is_identity, can_apply_to_memory and the access() of the file.  An
\* edit is validated on the component also when it is one of an instance.
CanUpdate(u, es) ==
    /\ status = "ready"
    /\ es.method = "update"
    /\ mem[u] # NoComp
    /\ FALSE \in edit_spec_is_identity(es, mem[u])
    /\ es.type = mem[u].type
    /\ props_valid_for_type(assign_props(mem[u].p, es), es.type)
    /\ files[u] # NoFile

\* The file is written before the memory is found not to know the recurrence
\* id, "comp_get_or_create_recur_inst failed", or to have torn relations.
Update(u, es) ==
    /\ CanUpdate(u, es)
    /\ Matching(u, es) # {}
    /\ Write(u, StorageUpdate(u, es))
    /\ IF es.rid = -1 \/ comp_get_recur_point(mem[u], es.rid)
       THEN \/ /\ mem' = [mem EXCEPT ![u] = MemoryUpdate(@, es)]
               /\ dirty' = TRUE
               /\ UNCHANGED status
            \/ /\ \E p \in ComparedWith(es, mem[u]) : IsTorn(p)
               /\ status' = "segfault"
               /\ UNCHANGED <<mem, dirty>>
       ELSE /\ status' = "comp_get_or_create_recur_inst failed"
            /\ UNCHANGED <<mem, dirty>>
    /\ UNCHANGED <<loadVars, clock, unseen, refused>>

\* fopen(path, "w") has emptied the file and the program is killed.
KilledWhileWriting(u, es) ==
    /\ CanUpdate(u, es)
    /\ Matching(u, es) # {}
    /\ Write(u, <<>>)
    /\ status' = "killed"
    /\ UNCHANGED <<loadVars, clock, mem, dirty, unseen, refused>>

\* An update of a uid that memory has never seen (edit_spec_is_identity asks
\* for component -1), an edit of relations or of a component with relations, or
\* an update of a file without a component of the type.
EditAborts(u, es) ==
    /\ \/ /\ status = "ready"
          /\ es.method = "update"
          /\ mem[u] = NoComp
          /\ status' = "calendar_get_comp failed"
       \/ /\ status = "ready"
          /\ \/ /\ es.method = "update"
                /\ mem[u] # NoComp
                /\ \E p \in ComparedWith(es, mem[u]) : ReadsTorn(es, p)
             \/ es.method = "create" /\ ReadsTorn(es, NoProps)
          /\ status' = "segfault"
       \/ /\ CanUpdate(u, es)
          /\ Matching(u, es) = {}
          /\ status' = "no base comp"
    /\ UNCHANGED <<storageVars, loadVars, clock, mem, dirty>>

\* The file is written whether or not there was one.
Create(u, es) ==
    LET new(p) == [rid |-> -1, type |-> es.type, recurs |-> FALSE, p |-> p]
        inMem  == new(assign_props(NoProps, es))
    IN  /\ status = "ready"
        /\ es.method = "create"
        /\ props_valid_for_type(inMem.p, es.type)
        /\ Write(u, <<new(apply_props_to_icalcomponent(NoProps, es))>>)
        /\ IF mem[u] = NoComp
           THEN /\ mem' = [mem EXCEPT ![u] = comp_init_from_ical(inMem, {})]
                /\ unseen' = unseen \ {u} /\ refused' = refused \ {u}
                /\ dirty' = TRUE
                /\ UNCHANGED status
           ELSE /\ status' = "calendar_new_comp failed"
                /\ UNCHANGED <<mem, unseen, refused, dirty>>
        /\ UNCHANGED <<loadVars, clock>>

\* calendar_delete_comp(-1), for a file that has not been read, is the end.
Delete(u, es) ==
    /\ status = "ready"
    /\ es.method = "delete"
    /\ files[u] # NoFile
    /\ files' = [files EXCEPT ![u] = NoFile]
    /\ IF mem[u] # NoComp
       THEN /\ mem' = [mem EXCEPT ![u].deleted = TRUE]
            /\ unseen' = unseen \ {u} /\ refused' = refused \ {u}
            /\ dirty' = TRUE
            /\ UNCHANGED status
       ELSE /\ status' = "calendar_delete_comp"
            /\ UNCHANGED <<mem, unseen, refused, dirty>>
    /\ UNCHANGED <<mtime, loadVars, clock>>

(***************************************************************************)
(* The rest of the world                                                   *)
(***************************************************************************)
Tick ==
    /\ clock < MaxClock
    /\ clock' = clock + 1
    /\ UNCHANGED <<storageVars, loadVars, mem, dirty, status>>

\* Another program writes a file; a running load may come across it again.
ExternalWrite(u, content) ==
    /\ Write(u, content)
    /\ unseen' = unseen \cup {u}
    /\ IF status = "loading" THEN scan' \in {scan, scan \cup {u}} ELSE UNCHANGED scan
    /\ UNCHANGED <<clock, loaded, since, mem, dirty, status, refused>>

\* Another program removes one; a running load may still have it listed.
ExternalDelete(u) ==
    /\ files[u] # NoFile
    /\ files' = [files EXCEPT ![u] = NoFile]
    /\ unseen' = unseen \cup {u}
    /\ scan' \in {scan, scan \ {u}}
    /\ UNCHANGED <<mtime, clock, loaded, since, mem, dirty, status, refused>>

\* The program is left, or was aborted, and is started again.
Restart ==
    /\ status # "loading"
    /\ mem' = [u \in Uids |-> NoComp]
    /\ loaded' = clock
    /\ since' = -1
    /\ scan' = Present
    /\ dirty' = FALSE
    /\ status' = "loading"
    /\ unseen' = Present /\ refused' = {}
    /\ UNCHANGED <<files, mtime, clock>>

Load == BeginLoad \/ EndLoad \/ \E u \in Uids : ReadFile(u) \/ ReadMissing(u)

Edit == \E u \in Uids, es \in Edits :
            \/ Update(u, es) \/ KilledWhileWriting(u, es) \/ EditAborts(u, es)
            \/ Create(u, es) \/ Delete(u, es)

World == \/ Tick
         \/ \E u \in Uids, content \in Contents : ExternalWrite(u, content)
         \/ \E u \in Uids : ExternalDelete(u)

Next == Load \/ Frame \/ Edit \/ World \/ Restart

Spec == Init /\ [][Next]_vars

(***************************************************************************)
(* Properties                                                              *)
(***************************************************************************)
Stopped == {"stat", "killed", "no base comp", "calendar_get_comp failed",
            "calendar_new_comp failed", "calendar_delete_comp", "segfault",
            "comp_get_or_create_recur_inst failed"}

\* The variables have their types, no edit and no file leaves a component in
\* memory that is not valid for its type, and no instance has properties that
\* its type does not have; but it may end before it starts, since an edit of it
\* is validated on the component (can_apply_to_memory).
TypeOK ==
    /\ mtime \in [Uids -> 0..MaxClock]
    /\ clock \in 0..MaxClock
    /\ loaded \in 0..clock
    /\ since \in -1..loaded
    /\ scan \in SUBSET Uids /\ unseen \in SUBSET Uids /\ refused \in SUBSET Uids
    /\ dirty \in BOOLEAN
    /\ status \in {"loading", "ready"} \cup Stopped
    /\ \A u \in Uids : mem[u] # NoComp =>
           /\ props_valid_for_type(mem[u].p, mem[u].type)
           /\ \A t \in DOMAIN mem[u].recur_insts :
                  WellFormed(mem[u].recur_insts[t], mem[u].type)

\* A file another program changed, at whatever moment of a load, is read by
\* the running load or is due in the next one: the time of the load is taken
\* before the directory is read, and a file of that very time is read again
\* (update_calendar_from_storage).
LoadMissesNothing ==
    \A u \in unseen \cap Present :
        \/ status \in Stopped
        \/ mtime[u] >= loaded
        \/ u \in scan /\ mtime[u] >= since

\* A file with one component, that neither recurs nor is a recurrence instance.
Plain(content) ==
    /\ Len(content) = 1
    /\ content[1].rid = -1
    /\ ~content[1].recurs
    /\ props_valid_for_type(content[1].p, content[1].type)

\* What the program shows of a component: its occurrences, with their dates
\* and their properties; that it has relations, not which.
Shown(c) ==
    IF c = NoComp THEN {}
    ELSE IF c.deleted THEN {}
    ELSE IF ~c.recurs THEN {<<c.type, -1, RdpOf(c.p), Copy(c.p)>>}
    ELSE {<<c.type, t, recur_cb_fn(c, t),
            Copy(IF t \in DOMAIN c.recur_insts THEN c.recur_insts[t] ELSE c.p)>> :
              t \in c.times}

ShownFromFile(u) ==
    IF files[u] = NoFile THEN {} ELSE Shown(libical_parse_ics(NoComp, files[u]))

\* Edits, loads, crashes and the changes of others leave memory and file of a
\* component that does not recur with the same properties, but for relations
\* that memory has cut off, unless somebody changed the file since it was read,
\* or it was not valid then: memory keeps what it had, and an edit that makes the
\* file valid starts from what the file says (apply_edit_spec_to_calendar,
\* libical_parse_ics).
MemoryMatchesFile ==
    status = "ready" =>
        \A u \in Uids \ (unseen \cup refused) :
            files[u] = NoFile \/ Plain(files[u]) => Shown(mem[u]) = ShownFromFile(u)

\* An edit changes in the file the properties it names and no others: what
\* another program wrote since the last load is not undone
\* (edit_spec_apply_to_storage parses the file again).
KeepsRest(p, q, es) ==
    \A k \in (DOMAIN p \cup DOMAIN q) \ (DOMAIN es.p \cup es.rem) :
        k \in DOMAIN p /\ k \in DOMAIN q /\ p[k] = q[k]

EditKeepsForeignChanges ==
    [][\A u \in Uids, es \in Edits :
           Update(u, es) =>
               \A i \in DOMAIN files[u] : KeepsRest(files[u][i].p, files'[u][i].p, es)]_vars

(***************************************************************************)
(* What the program is said to do, and does not                            *)
(***************************************************************************)
\* include/editor.h:5-6: an edit is "applicable to both the in-memory, and the
\* filesystem representation unambiguously".
RepresentationsAgree ==
    status = "ready" => \A u \in Uids \ unseen : Shown(mem[u]) = ShownFromFile(u)

\* algo/calendar_layout.c:69 asserts of every event in view that it has begun when
\* it ends, and of the points of one moment it takes the ends first: whatever is
\* edited, an instance ends after its start.
InstancesForwards ==
    \A u \in Uids : mem[u] # NoComp =>
        \A t \in DOMAIN mem[u].recur_insts : Forwards(mem[u].recur_insts[t])
=============================================================================
