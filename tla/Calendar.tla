------------------------------ MODULE Calendar ------------------------------
(***************************************************************************)
(* struct calendar of src/src/common/calendar.c: the components in memory, *)
(* the uid map over them, and the lazily maintained set of component       *)
(* instances (`cis`) that the application draws from.                      *)
(*                                                                         *)
(* This is the library, under any client: each action is one whole call of *)
(* an operation on the calendar, apply_to_memory of editor.c and the reads *)
(* of update_calendar_from_storage included, and the client may call them  *)
(* in any order and with any horizon.  The program is one thread: while    *)
(* files are parsed (`phase` is not "ready") there is no other call.       *)
(***************************************************************************)
EXTENDS Recurrence, Sequences

CONSTANTS
    Uids,           \* component uids
    Types,          \* enum comp_type: events and todos
    Starts,         \* the start times given to components and instances
    InstIds,        \* the recurrence ids that files and edits mention
    MaxComps        \* bound on Len(comps_vec), for model checking only

ASSUME CalendarAssumption ==
    Starts \subseteq Times /\ InstIds \subseteq Times /\ MaxComps \in Nat

VARIABLES
    comps_vec,      \* every component ever added, with its comp_infos entry
    comps_map,      \* uid -> index in comps_vec
    cis_dirty,      \* per type: the instances must be rebuilt
    cis,            \* per type: the tree of instances not yet taken
    cis_n,          \* per type: instances inserted since the last rebuild
    taken,          \* per type: the instances the client has moved out of the
                    \* tree and still holds (app->cis)
    horizon,        \* per type: the latest `to` since the last rebuild (history)
    phase           \* "load" (app_init), "reload" or "ready"

vars == <<comps_vec, comps_map, cis_dirty, cis, cis_n, taken, horizon, phase>>
instVars == <<cis, cis_n, taken, horizon>>

NotFound == -1

Indices == DOMAIN comps_vec

\* The component calendar_add_comp is given, or comp_init plus assign_props.
NewComp(uid, type, start, recur) ==
    [uid |-> uid, type |-> type, start |-> start, recur |-> recur,
     recur_insts |-> [t \in {} |-> 0], recur_cache |-> {},
     all_expanded |-> FALSE, ritr |-> FALSE, left |-> {}, last |-> -1,
     deleted |-> FALSE]

InstType == [comp_idx : Nat, recurrence_id : Times \cup {-1},
             via : {"single", "rdate", "rrule"}, start : Times]

Init ==
    /\ comps_vec = <<>>
    /\ comps_map = [u \in Uids |-> NotFound]
    /\ cis_dirty = [ty \in Types |-> FALSE]
    /\ cis = [ty \in Types |-> {}]
    /\ cis_n = [ty \in Types |-> 0]
    /\ taken = [ty \in Types |-> {}]
    /\ horizon = [ty \in Types |-> 0]
    /\ phase = "load"

(***************************************************************************)
(* The component store                                                     *)
(***************************************************************************)
calendar_find_comp(u) == comps_map[u]

\* calendar_delete_comp: the entry is only marked; the map keeps the uid.
Deleted(vec, i) == [vec EXCEPT ![i].deleted = TRUE]

\* calendar_add_comp_unchecked.
add_comp_unchecked(vec, dirty, c) ==
    /\ comps_vec' = Append(vec, c)
    /\ comps_map' = [comps_map EXCEPT ![c.uid] = Len(vec) + 1]
    /\ cis_dirty' = [dirty EXCEPT ![c.type] = TRUE]

\* MUTANT of calendar_add_comp: the old component is not deleted.
calendar_add_comp_KeepsOld(c) == add_comp_unchecked(comps_vec, cis_dirty, c)

\* calendar_add_comp: a component with the same uid is superseded.
calendar_add_comp(c) ==
    LET idx == calendar_find_comp(c.uid)
    IN  IF idx = NotFound
        THEN add_comp_unchecked(comps_vec, cis_dirty, c)
        ELSE add_comp_unchecked(Deleted(comps_vec, idx),
                 [cis_dirty EXCEPT ![comps_vec[idx].type] = TRUE], c)

(***************************************************************************)
(* Parsing a calendar's files: libical_parse_ics between the beginning of  *)
(* update_calendar_from_storage and the app_invalidate_calendars after it  *)
(***************************************************************************)
BeginReload ==
    /\ phase = "ready"
    /\ phase' = "reload"
    /\ UNCHANGED <<comps_vec, comps_map, cis_dirty, instVars>>

\* A VEVENT or VTODO without RECURRENCE-ID.
ParseComp(u, ty, s, r) ==
    /\ phase # "ready"
    /\ Len(comps_vec) < MaxComps
    /\ calendar_add_comp(NewComp(u, ty, s, r))
    /\ UNCHANGED <<instVars, phase>>

\* A component with RECURRENCE-ID: an entry in recur_insts of the component
\* found under its uid, dropped when there is none.  Nothing becomes dirty.
ParseRecurInst(u, t, s) ==
    /\ phase # "ready"
    /\ calendar_find_comp(u) # NotFound
    /\ comps_vec' = [comps_vec EXCEPT ![calendar_find_comp(u)] =
                         WithRecurInst(@, t, s)]
    /\ UNCHANGED <<comps_map, cis_dirty, instVars, phase>>

\* app_invalidate_calendars: everything is rebuilt, and the instances the
\* application holds are freed.
app_invalidate_calendars ==
    /\ cis_dirty' = [ty \in Types |-> TRUE]
    /\ taken' = [ty \in Types |-> {}]

\* app_reload_calendars invalidates after parsing, app_init does not.
EndParse ==
    /\ phase # "ready"
    /\ phase' = "ready"
    /\ IF phase = "reload" THEN app_invalidate_calendars
                           ELSE UNCHANGED <<cis_dirty, taken>>
    /\ UNCHANGED <<comps_vec, comps_map, cis, cis_n, horizon>>

\* app_cmd_activate_filter, and the invalidation after an applied edit.
Invalidate ==
    /\ phase = "ready"
    /\ app_invalidate_calendars
    /\ UNCHANGED <<comps_vec, comps_map, cis, cis_n, horizon, phase>>

(***************************************************************************)
(* Edits: apply_to_memory of src/src/gui-calendar/editor.c                 *)
(***************************************************************************)
\* EDIT_METHOD_CREATE.  calendar_new_comp refuses a uid it has ever seen
\* (the caller then dereferences entry -1; module EditStorage).
Create(u, ty, s) ==
    /\ phase = "ready"
    /\ calendar_find_comp(u) = NotFound
    /\ Len(comps_vec) < MaxComps
    /\ add_comp_unchecked(comps_vec, cis_dirty, NewComp(u, ty, s, NoRecur))
    /\ UNCHANGED <<instVars, phase>>

\* EDIT_METHOD_UPDATE, recurrence_id = -1: the base properties change.
UpdateBase(u, s) ==
    LET idx == calendar_find_comp(u)
    IN  /\ phase = "ready"
        /\ idx # NotFound
        /\ comps_vec' = [comps_vec EXCEPT ![idx].start = s]
        /\ cis_dirty' = [cis_dirty EXCEPT ![comps_vec[idx].type] = TRUE]
        /\ UNCHANGED <<comps_map, instVars, phase>>

\* EDIT_METHOD_UPDATE of a recurrence instance: comp_get_or_create_recur_inst
\* and assign_props on the instance.
UpdateInst(u, t, s) ==
    LET idx == calendar_find_comp(u)
    IN  /\ phase = "ready"
        /\ idx # NotFound
        /\ comp_get_recur_point(comps_vec[idx], t)
        /\ comps_vec' = [comps_vec EXCEPT ![idx] =
               [WithRecurInst(@, t, t) EXCEPT !.recur_insts[t] = s]]
        /\ cis_dirty' = [cis_dirty EXCEPT ![comps_vec[idx].type] = TRUE]
        /\ UNCHANGED <<comps_map, instVars, phase>>

\* MUTANT of Delete: only the type the edit names becomes dirty.
Delete_OtherType(u, ty) ==
    LET idx == calendar_find_comp(u)
    IN  /\ phase = "ready"
        /\ idx # NotFound
        /\ comps_vec' = Deleted(comps_vec, idx)
        /\ cis_dirty' = [cis_dirty EXCEPT ![ty] = TRUE]
        /\ UNCHANGED <<comps_map, instVars, phase>>

\* EDIT_METHOD_DELETE.  The type the edit names need not be the component's;
\* both become dirty.
Delete(u, ty) ==
    LET idx == calendar_find_comp(u)
    IN  /\ phase = "ready"
        /\ idx # NotFound
        /\ comps_vec' = Deleted(comps_vec, idx)
        /\ cis_dirty' = [cis_dirty EXCEPT ![comps_vec[idx].type] = TRUE,
                                          ![ty] = TRUE]
        /\ UNCHANGED <<comps_map, instVars, phase>>

(***************************************************************************)
(* Instances                                                               *)
(***************************************************************************)
\* comp_recur_cb_fn: the instance made for a reported occurrence.
Inst(i, c, o) ==
    [comp_idx |-> i, recurrence_id |-> o.recurrence_id, via |-> o.via,
     start |-> OccStart(c, o)]

InstsOf(i, c, occs) == {Inst(i, c, o) : o \in occs}

\* The first half of calendar_expand_instances_to, when the type is dirty.
Rebased(ty) ==
    [i \in Indices |-> IF cis_dirty[ty] /\ comps_vec[i].type = ty
                       THEN Cleared(comps_vec[i]) ELSE comps_vec[i]]

Expanding(vec, ty) == {i \in DOMAIN vec : vec[i].type = ty /\ ~vec[i].deleted}

\* The application has given back what it had taken when it expands a type that is
\* dirty: app_invalidate_calendars comes with whatever makes a type dirty.
calendar_expand_instances_to(ty, to) ==
    LET vec == Rebased(ty)
        new == UNION {InstsOf(i, vec[i], Reported(vec[i], to)) :
                          i \in Expanding(vec, ty)}
        Kept(v, empty) == IF cis_dirty[ty] THEN empty ELSE v
    IN  /\ phase = "ready"
        /\ cis_dirty[ty] => taken[ty] = {}
        /\ comps_vec' = [i \in Indices |->
               IF i \in Expanding(vec, ty)
               THEN comp_recur_expand(vec[i], to) ELSE vec[i]]
        /\ cis' = [cis EXCEPT ![ty] = Kept(@, {}) \cup new]
        /\ cis_n' = [cis_n EXCEPT ![ty] = Kept(@, 0) + Cardinality(new)]
        /\ horizon' = [horizon EXCEPT ![ty] =
                           IF Kept(@, 0) > to THEN @ ELSE to]
        /\ cis_dirty' = [cis_dirty EXCEPT ![ty] = FALSE]
        /\ UNCHANGED <<comps_map, taken, phase>>

\* app_update_projections moves every node of the tree to app->cis; it has
\* just expanded the type.
TakeInstances(ty) ==
    /\ phase = "ready"
    /\ ~cis_dirty[ty]
    /\ taken' = [taken EXCEPT ![ty] = @ \cup cis[ty]]
    /\ cis' = [cis EXCEPT ![ty] = {}]
    /\ UNCHANGED <<comps_vec, comps_map, cis_dirty, cis_n, horizon, phase>>

ParseStep ==
    \/ BeginReload
    \/ \E u \in Uids, ty \in Types, s \in Starts, r \in Recurrences \cup {NoRecur} :
           ParseComp(u, ty, s, r)
    \/ \E u \in Uids, t \in InstIds, s \in Starts : ParseRecurInst(u, t, s)
    \/ EndParse

EditStep ==
    \/ \E u \in Uids, ty \in Types, s \in Starts : Create(u, ty, s)
    \/ \E u \in Uids, s \in Starts : UpdateBase(u, s)
    \/ \E u \in Uids, t \in InstIds, s \in Starts : UpdateInst(u, t, s)
    \/ \E u \in Uids, ty \in Types : Delete(u, ty)

InstanceStep ==
    \/ Invalidate
    \/ \E ty \in Types, to \in Times : calendar_expand_instances_to(ty, to)
    \/ \E ty \in Types : TakeInstances(ty)

Next == ParseStep \/ EditStep \/ InstanceStep

Spec == Init /\ [][Next]_vars

(***************************************************************************)
(* Properties                                                              *)
(***************************************************************************)
CompType ==
    [uid : Uids, type : Types, start : Times, recur : Recurrences \cup {NoRecur},
     recur_insts : UNION {[D -> Times] : D \in SUBSET Times},
     recur_cache : SUBSET Times, all_expanded : BOOLEAN, ritr : BOOLEAN,
     left : SUBSET Times, last : Times \cup {-1}, deleted : BOOLEAN]

\* Every variable has the type its C declaration gives it.
TypeOK ==
    /\ comps_vec \in Seq(CompType)
    /\ comps_map \in [Uids -> Nat \cup {NotFound}]
    /\ cis_dirty \in [Types -> BOOLEAN]
    /\ cis \in [Types -> SUBSET InstType]
    /\ cis_n \in [Types -> Nat]
    /\ taken \in [Types -> SUBSET InstType]
    /\ horizon \in [Types -> Nat]
    /\ phase \in {"load", "reload", "ready"}

\* The map leads from a uid to the last component added under it, so a lookup
\* after a reload never finds the superseded copy (calendar_find_comp).
MapFindsLatest ==
    \A u \in Uids :
        LET same == {i \in Indices : comps_vec[i].uid = u}
        IN  IF same = {} THEN comps_map[u] = NotFound
            ELSE comps_map[u] \in same /\ \A i \in same : i <= comps_map[u]

\* However often files are re-read, at most one component of a uid is live,
\* and edits by uid (calendar_find_comp) reach that one.
OneLivePerUid ==
    \A i \in Indices : ~comps_vec[i].deleted => comps_map[comps_vec[i].uid] = i

Live(ty) == {i \in Indices : comps_vec[i].type = ty /\ ~comps_vec[i].deleted}

\* The instances a calendar owes the application.
DueInstances(ty) ==
    UNION {InstsOf(i, comps_vec[i], OccurrencesUpTo(comps_vec[i], horizon[ty])) :
               i \in Live(ty)}

Current(ty) == phase = "ready" /\ ~cis_dirty[ty]

\* When a type is not dirty, the tree and what was taken from it are together
\* exactly the occurrences of the live components up to the horizon, each with
\* its present start: no edit, reload or incremental expansion leaves a stale
\* instance behind or loses one (calendar_expand_instances_to).
InstancesExact ==
    \A ty \in Types : Current(ty) => cis[ty] \cup taken[ty] = DueInstances(ty)

\* No occurrence is put in the tree twice, whatever sequence of horizons the
\* expansion is called with and whenever the application empties the tree.
InstancesOnce ==
    \A ty \in Types : Current(ty) => cis_n[ty] = Cardinality(cis[ty] \cup taken[ty])

\* An edit of an instance on the screen names its uid and recurrence id: the
\* lookup leads back to the component the instance was made from, not to a
\* later copy, and that component knows the id, so that the assertion
\* "comp_get_or_create_recur_inst failed" (apply_to_memory) cannot fail.
Editable(ci) ==
    LET c == comps_vec[ci.comp_idx]
    IN  /\ calendar_find_comp(c.uid) = ci.comp_idx
        /\ ci.recurrence_id = -1 \/ comp_get_recur_point(c, ci.recurrence_id)

HeldInstancesEditable ==
    phase = "ready" => \A ty \in Types : \A ci \in taken[ty] : Editable(ci)

(***************************************************************************)
(* The inductive invariant behind InstancesExact and InstancesOnce         *)
(***************************************************************************)
\* A component expanded up to h: what remains is the rule's times after h, the
\* least of them waiting in `last`.
Expanded(c, h) ==
    IF c.recur = NoRecur THEN c.all_expanded
    ELSE /\ c.ritr
         /\ c.left \cup ({c.last} \ {-1}) = {t \in c.recur.rrule : t > h}
         /\ IF c.last = -1 THEN c.left = {} ELSE \A t \in c.left : c.last < t

UpToDate(ty) ==
    /\ cis[ty] \cup taken[ty] = DueInstances(ty)
    /\ cis_n[ty] = Cardinality(cis[ty] \cup taken[ty])
    /\ \A i \in Live(ty) : Expanded(comps_vec[i], horizon[ty])

\* Between two rebuilds the iterator of every live component stands exactly at
\* the horizon.  During the first load, no type with components is clean; a
\* reload ends by making every type dirty, so what holds meanwhile is nothing.
ExpansionInv ==
    /\ phase = "load" => \A i \in Indices : cis_dirty[comps_vec[i].type]
    /\ phase # "reload" => \A ty \in Types : ~cis_dirty[ty] => UpToDate(ty)
=============================================================================
