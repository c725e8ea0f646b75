--------------------------- MODULE CalendarProofs ---------------------------
(***************************************************************************)
(* Proofs about module Calendar, for any times, rules, uids and types and  *)
(* for calendars of any size.                                              *)
(***************************************************************************)
EXTENDS Calendar, WellFoundedInduction, FiniteSetTheorems, TLAPS

(***************************************************************************)
(* The least element of a set of times, which the rule iterator returns.   *)
(***************************************************************************)
LEMMA MinOfTimes ==
    ASSUME NEW S, S \subseteq Nat, S # {}
    PROVE  Min(S) \in S /\ \A y \in S : Min(S) <= y
<1> DEFINE R == OpToRel(<, Nat)
<1>1. IsWellFoundedOn(R, Nat)
  BY NatLessThanWellFounded
<1>2. \A p : p \in R <=> p \in Nat \X Nat /\ p[1] < p[2]
  BY DEF OpToRel
<1> HIDE DEF R
<1>3. PICK x \in S : \A y \in S : ~(<<y, x>> \in R)
  BY <1>1, WFMin
<1>4. \A y \in S : x <= y
  <2> TAKE y \in S
  <2>1. y \in Nat /\ x \in Nat
    OBVIOUS
  <2>2. ~(y < x)
    BY <1>2, <1>3, <2>1
  <2> QED BY <2>1, <2>2
<1> QED BY <1>4 DEF Min

(***************************************************************************)
(* Types of the operators on one component.                                *)
(***************************************************************************)
OccType == [recurrence_id : Times \cup {-1}, via : {"single", "rdate", "rrule"}]

LEMMA RecurIsType == Recurrences \subseteq RecurrenceType /\ NoRecur \notin Recurrences
BY RecurrencesAssumption

LEMMA ReportedType ==
    ASSUME NEW c \in CompType, NEW to \in Times
    PROVE  Reported(c, to) \in SUBSET OccType
<1>1. CASE c.recur = NoRecur
  BY <1>1 DEF Reported, Occ, OccType
<1>2. CASE c.recur # NoRecur
  <2>1. c.recur \in RecurrenceType
    BY <1>2, RecurIsType DEF CompType
  <2>2. RdatesOut(c) \in SUBSET Times
    BY <2>1 DEF RdatesOut, RecurrenceType
  <2>3. RruleOut(c, to) \in SUBSET Times
    BY <2>1 DEF RruleOut, Unread, RecurrenceType, CompType
  <2> QED BY <1>2, <2>2, <2>3 DEF Reported, Occ, OccType
<1> QED BY <1>1, <1>2

LEMMA OccurrencesType ==
    ASSUME NEW c \in CompType, NEW h \in Nat
    PROVE  OccurrencesUpTo(c, h) \in SUBSET OccType
<1>1. CASE c.recur = NoRecur
  BY <1>1 DEF OccurrencesUpTo, Occ, OccType
<1>2. CASE c.recur # NoRecur
  <2>1. c.recur \in RecurrenceType
    BY <1>2, RecurIsType DEF CompType
  <2> QED BY <1>2, <2>1 DEF OccurrencesUpTo, Occ, OccType, RecurrenceType
<1> QED BY <1>1, <1>2

LEMMA OccStartType ==
    ASSUME NEW c \in CompType, NEW o \in OccType
    PROVE  OccStart(c, o) \in Times
<1>1. PICK D \in SUBSET Times : c.recur_insts \in [D -> Times]
  BY DEF CompType
<1> QED BY <1>1 DEF OccStart, OccType, CompType

LEMMA InstTyped ==
    ASSUME NEW c \in CompType, NEW i \in Nat, NEW O \in SUBSET OccType
    PROVE  InstsOf(i, c, O) \in SUBSET InstType
<1>1. ASSUME NEW o \in O PROVE Inst(i, c, o) \in InstType
  BY OccStartType DEF Inst, InstType, OccType
<1> QED BY <1>1 DEF InstsOf

LEMMA ClearedType == ASSUME NEW c \in CompType PROVE Cleared(c) \in CompType
BY DEF Cleared, CompType

LEMMA WithRecurInstType ==
    ASSUME NEW c \in CompType, NEW t \in Times, NEW s \in Times
    PROVE  /\ WithRecurInst(c, t, s) \in CompType
           /\ t \in DOMAIN WithRecurInst(c, t, s).recur_insts
<1>1. PICK D \in SUBSET Times : c.recur_insts \in [D -> Times]
  BY DEF CompType
<1> DEFINE f == [u \in D \cup {t} |-> IF u = t THEN s ELSE c.recur_insts[u]]
<1>2. f \in [D \cup {t} -> Times]
  BY <1>1
<1>3. f \in UNION {[E -> Times] : E \in SUBSET Times}
  <2>1. D \cup {t} \in SUBSET Times
    OBVIOUS
  <2> QED BY <1>2, <2>1
<1>4. [c EXCEPT !.recur_insts = f] \in CompType
  <2> HIDE DEF f
  <2> QED BY <1>3 DEF CompType
<1> QED BY <1>1, <1>4 DEF WithRecurInst, CompType

LEMMA RecurrenceExpandType ==
    ASSUME NEW c \in CompType, NEW to \in Times, c.recur # NoRecur
    PROVE  recurrence_expand(c, to) \in CompType
<1>1. c.recur \in RecurrenceType
  BY RecurIsType DEF CompType
<1>2. Unread(c) \in SUBSET Times /\ Beyond(c, to) \in SUBSET Times
  BY <1>1 DEF Beyond, Unread, CompType, RecurrenceType
<1>3. Beyond(c, to) # {} => Min(Beyond(c, to)) \in Times
  BY <1>2, MinOfTimes, TimesAssumption
<1> QED BY <1>2, <1>3 DEF recurrence_expand, CompType

LEMMA ExpandType ==
    ASSUME NEW c \in CompType, NEW to \in Times
    PROVE  comp_recur_expand(c, to) \in CompType
<1> DEFINE cache == c.recur_cache \cup {OccStart(c, o) : o \in Reported(c, to)}
<1>1. cache \in SUBSET Times
  BY ReportedType, OccStartType DEF CompType
<1> HIDE DEF cache
<1>2. CASE c.recur = NoRecur
  BY <1>1, <1>2 DEF comp_recur_expand, cache, CompType
<1>3. CASE c.recur # NoRecur
  <2>1. [recurrence_expand(c, to) EXCEPT !.recur_cache = cache] \in CompType
    BY <1>1, <1>3, RecurrenceExpandType DEF CompType
  <2> QED BY <1>3, <2>1 DEF comp_recur_expand, cache
<1> QED BY <1>2, <1>3

(***************************************************************************)
(* The state is well typed.                                                *)
(***************************************************************************)
LEMMA NewCompType ==
    ASSUME NEW u \in Uids, NEW ty \in Types, NEW s \in Times,
           NEW r \in Recurrences \cup {NoRecur}
    PROVE  NewComp(u, ty, s, r) \in CompType
<1>1. [t \in {} |-> 0] \in [{} -> Times]
  OBVIOUS
<1>2. [t \in {} |-> 0] \in UNION {[D -> Times] : D \in SUBSET Times}
  BY <1>1
<1> HIDE <1>1
<1> DEFINE f == [t \in {} |-> 0]
<1> HIDE DEF f
<1>3. f \in UNION {[D -> Times] : D \in SUBSET Times}
  BY <1>2 DEF f
<1>4. [uid |-> u, type |-> ty, start |-> s, recur |-> r, recur_insts |-> f,
       recur_cache |-> {}, all_expanded |-> FALSE, ritr |-> FALSE, left |-> {},
       last |-> -1, deleted |-> FALSE] \in CompType
  BY <1>3 DEF CompType
<1> QED BY <1>4 DEF NewComp, f

\* The facts about sequences of components that every step uses.
LEMMA CompsAt ==
    ASSUME NEW vec \in Seq(CompType)
    PROVE  /\ Len(vec) \in Nat
           /\ DOMAIN vec = 1..Len(vec)
           /\ \A i \in DOMAIN vec : vec[i] \in CompType /\ i \in Nat
OBVIOUS

LEMMA CompsExcept ==
    ASSUME NEW vec \in Seq(CompType), NEW i \in DOMAIN vec, NEW c \in CompType
    PROVE  /\ [vec EXCEPT ![i] = c] \in Seq(CompType)
           /\ DOMAIN [vec EXCEPT ![i] = c] = DOMAIN vec
           /\ Len([vec EXCEPT ![i] = c]) = Len(vec)
OBVIOUS

LEMMA DeletedType ==
    ASSUME NEW vec \in Seq(CompType), NEW i \in DOMAIN vec
    PROVE  /\ Deleted(vec, i) \in Seq(CompType)
           /\ DOMAIN Deleted(vec, i) = DOMAIN vec
           /\ Len(Deleted(vec, i)) = Len(vec)
           /\ Deleted(vec, i)[i] = [vec[i] EXCEPT !.deleted = TRUE]
           /\ \A j \in DOMAIN vec \ {i} : Deleted(vec, i)[j] = vec[j]
<1>1. [vec[i] EXCEPT !.deleted = TRUE] \in CompType
  <2>1. \A c \in CompType : [c EXCEPT !.deleted = TRUE] \in CompType
    BY DEF CompType
  <2> QED BY <2>1, CompsAt
<1> DEFINE d == [vec[i] EXCEPT !.deleted = TRUE]
<1>2. Deleted(vec, i) = [vec EXCEPT ![i] = d]
  BY DEF Deleted
<1> HIDE DEF d
<1>3. /\ [vec EXCEPT ![i] = d] \in Seq(CompType)
      /\ DOMAIN [vec EXCEPT ![i] = d] = DOMAIN vec
      /\ Len([vec EXCEPT ![i] = d]) = Len(vec)
  BY <1>1, CompsExcept DEF d
<1>4. [vec EXCEPT ![i] = d][i] = d /\ \A j \in DOMAIN vec \ {i} : [vec EXCEPT ![i] = d][j] = vec[j]
  OBVIOUS
<1> QED BY <1>2, <1>3, <1>4 DEF d

LEMMA MappedComps ==
    ASSUME NEW vec \in Seq(CompType), NEW f, DOMAIN f = DOMAIN vec,
           f = [i \in DOMAIN vec |-> f[i]],
           \A i \in DOMAIN vec : f[i] \in CompType
    PROVE  f \in Seq(CompType) /\ Len(f) = Len(vec)
<1>1. f \in [1..Len(vec) -> CompType]
  BY CompsAt
<1> QED BY <1>1, CompsAt

\* The map leads to entries, which is all the edits need to know of it.
MapInVec == \A u \in Uids : comps_map[u] # NotFound => comps_map[u] \in Indices

LEMMA TypeInit == Init => TypeOK /\ MapInVec
BY DEF Init, TypeOK, MapInVec, NotFound

LEMMA AddCompType ==
    ASSUME TypeOK, MapInVec, NEW c \in CompType, calendar_add_comp(c)
    PROVE  /\ comps_vec' \in Seq(CompType)
           /\ comps_map' \in [Uids -> Nat \cup {NotFound}]
           /\ cis_dirty' \in [Types -> BOOLEAN]
           /\ MapInVec'
<1> DEFINE idx == calendar_find_comp(c.uid)
<1>0. c.uid \in Uids /\ c.type \in Types
  BY DEF CompType
<1>1. ASSUME NEW vec \in Seq(CompType), NEW dirty \in [Types -> BOOLEAN],
             Len(vec) = Len(comps_vec), add_comp_unchecked(vec, dirty, c)
      PROVE  /\ comps_vec' \in Seq(CompType)
             /\ comps_map' \in [Uids -> Nat \cup {NotFound}]
             /\ cis_dirty' \in [Types -> BOOLEAN]
             /\ MapInVec'
  <2>1. comps_vec' \in Seq(CompType) /\ DOMAIN comps_vec' = 1..(Len(comps_vec) + 1)
    BY <1>1 DEF add_comp_unchecked
  <2>2. comps_map' \in [Uids -> Nat \cup {NotFound}]
    <3>1. comps_map \in [Uids -> Nat \cup {NotFound}]
      BY DEF TypeOK
    <3>2. Len(vec) + 1 \in Nat
      BY <1>1, CompsAt
    <3>3. comps_map' = [comps_map EXCEPT ![c.uid] = Len(vec) + 1]
      BY <1>1 DEF add_comp_unchecked
    <3> QED BY <3>1, <3>2, <3>3
  <2>3. MapInVec'
    <3> SUFFICES ASSUME NEW u \in Uids, comps_map'[u] # NotFound
                 PROVE  comps_map'[u] \in 1..(Len(comps_vec) + 1)
      BY <2>1 DEF MapInVec, Indices
    <3>1. CASE u = c.uid
      BY <1>1, <3>1, <1>0, CompsAt DEF add_comp_unchecked, TypeOK
    <3>2. CASE u # c.uid
      BY <1>1, <3>2, <1>0, CompsAt DEF add_comp_unchecked, TypeOK, MapInVec, Indices
    <3> QED BY <3>1, <3>2
  <2>4. cis_dirty' \in [Types -> BOOLEAN]
    BY <1>1, <1>0 DEF add_comp_unchecked
  <2> QED BY <2>1, <2>2, <2>3, <2>4
<1>2. CASE idx = NotFound
  <2>1. add_comp_unchecked(comps_vec, cis_dirty, c)
    BY <1>2 DEF calendar_add_comp
  <2> QED BY <2>1, <1>1 DEF TypeOK
<1>3. CASE idx # NotFound
  <2>1. idx \in DOMAIN comps_vec
    BY <1>0, <1>3 DEF MapInVec, Indices, calendar_find_comp
  <2>2. Deleted(comps_vec, idx) \in Seq(CompType)
        /\ Len(Deleted(comps_vec, idx)) = Len(comps_vec)
    BY <2>1, DeletedType DEF TypeOK
  <2>3. [cis_dirty EXCEPT ![comps_vec[idx].type] = TRUE] \in [Types -> BOOLEAN]
    BY DEF TypeOK
  <2>4. add_comp_unchecked(Deleted(comps_vec, idx),
            [cis_dirty EXCEPT ![comps_vec[idx].type] = TRUE], c)
    BY <1>3 DEF calendar_add_comp
  <2> QED BY <1>1, <2>2, <2>3, <2>4
<1> QED BY <1>2, <1>3

LEMMA RebasedType ==
    ASSUME TypeOK, NEW ty \in Types
    PROVE  /\ Rebased(ty) \in Seq(CompType)
           /\ Len(Rebased(ty)) = Len(comps_vec)
           /\ DOMAIN Rebased(ty) = Indices
<1> DEFINE f == Rebased(ty)
<1>1. DOMAIN f = DOMAIN comps_vec /\ f = [i \in DOMAIN comps_vec |-> f[i]]
  BY DEF Rebased, Indices
<1>2. \A i \in DOMAIN comps_vec : f[i] \in CompType
  BY CompsAt, ClearedType DEF Rebased, Indices, TypeOK
<1> QED BY <1>1, <1>2, MappedComps DEF TypeOK, Indices

LEMMA ExpandAllType ==
    ASSUME TypeOK, NEW ty \in Types, NEW to \in Times,
           calendar_expand_instances_to(ty, to)
    PROVE  /\ comps_vec' \in Seq(CompType)
           /\ Len(comps_vec') = Len(comps_vec)
           /\ cis' \in [Types -> SUBSET InstType]
           /\ taken' \in [Types -> SUBSET InstType]
<1> DEFINE vec == Rebased(ty)
           new == UNION {InstsOf(i, vec[i], Reported(vec[i], to)) :
                             i \in Expanding(vec, ty)}
<1>1. vec \in Seq(CompType) /\ Len(vec) = Len(comps_vec) /\ DOMAIN vec = Indices
  BY RebasedType
<1>2. \A i \in Indices : vec[i] \in CompType /\ i \in Nat
  BY <1>1, CompsAt
<1>3. comps_vec' \in Seq(CompType) /\ Len(comps_vec') = Len(comps_vec)
  <2>1. DOMAIN comps_vec' = DOMAIN vec
        /\ comps_vec' = [i \in DOMAIN vec |-> comps_vec'[i]]
    BY <1>1 DEF calendar_expand_instances_to
  <2>2. \A i \in DOMAIN vec : comps_vec'[i] \in CompType
    BY <1>1, <1>2, ExpandType DEF calendar_expand_instances_to
  <2> QED BY <1>1, <2>1, <2>2, MappedComps
<1>4. new \in SUBSET InstType
  <2>1. ASSUME NEW i \in Expanding(vec, ty)
        PROVE  InstsOf(i, vec[i], Reported(vec[i], to)) \in SUBSET InstType
    <3>1. i \in Indices
      BY <1>1 DEF Expanding
    <3> QED BY <3>1, <1>2, ReportedType, InstTyped
  <2> QED BY <2>1
<1>5. cis' = [cis EXCEPT ![ty] = (IF cis_dirty[ty] THEN {} ELSE cis[ty]) \cup new]
      /\ taken' = taken
  BY DEF calendar_expand_instances_to
<1> HIDE DEF new
<1> QED BY <1>3, <1>4, <1>5 DEF TypeOK

(***************************************************************************)
(* Instances are finite in number, so that cis_n counts them.              *)
(***************************************************************************)
LEMMA InstsFinite ==
    ASSUME NEW I, IsFiniteSet(I)
    PROVE  IsFiniteSet([comp_idx : I, recurrence_id : Times \cup {-1},
                        via : {"single", "rdate", "rrule"}, start : Times])
<1> DEFINE Vias == {"single", "rdate", "rrule"}
           Ids == Times \cup {-1}
           S == (I \X Ids) \X (Vias \X Times)
           T == [comp_idx : I, recurrence_id : Ids, via : Vias, start : Times]
           f == [x \in S |-> [comp_idx |-> x[1][1], recurrence_id |-> x[1][2],
                              via |-> x[2][1], start |-> x[2][2]]]
<1>1. IsFiniteSet(Ids)
  BY TimesAssumption, FS_AddElement
<1>2. IsFiniteSet(Vias)
  <2>1. IsFiniteSet({"single"})
    BY FS_Singleton
  <2>2. IsFiniteSet({"single"} \cup {"rdate"})
    BY <2>1, FS_AddElement
  <2>3. IsFiniteSet(({"single"} \cup {"rdate"}) \cup {"rrule"})
    BY <2>2, FS_AddElement
  <2>4. ({"single"} \cup {"rdate"}) \cup {"rrule"} = Vias
    OBVIOUS
  <2> QED BY <2>3, <2>4
<1>3. IsFiniteSet(S)
  <2> HIDE DEF Vias, Ids
  <2>1. IsFiniteSet(I \X Ids)
    BY <1>1, FS_Product
  <2>2. IsFiniteSet(Vias \X Times)
    BY <1>2, FS_Product, TimesAssumption
  <2> QED BY <2>1, <2>2, FS_Product
<1>4. f \in Surjection(S, T)
  <2> HIDE DEF Vias, Ids
  <2>1. f \in [S -> T]
    OBVIOUS
  <2>2. ASSUME NEW r \in T PROVE \E x \in S : f[x] = r
    <3> DEFINE x == <<<<r.comp_idx, r.recurrence_id>>, <<r.via, r.start>>>>
    <3>1. x \in S
      OBVIOUS
    <3>2. f[x] = [comp_idx |-> r.comp_idx, recurrence_id |-> r.recurrence_id,
                  via |-> r.via, start |-> r.start]
      BY <3>1
    <3>3. r = [comp_idx |-> r.comp_idx, recurrence_id |-> r.recurrence_id,
               via |-> r.via, start |-> r.start]
      OBVIOUS
    <3> QED BY <3>1, <3>2, <3>3
  <2> QED BY <2>1, <2>2 DEF Surjection
<1> QED BY <1>3, <1>4, FS_Surjection

LEMMA NewInstsFinite ==
    ASSUME TypeOK, NEW ty \in Types, NEW to \in Times,
           NEW vec \in Seq(CompType)
    PROVE  IsFiniteSet(UNION {InstsOf(i, vec[i], Reported(vec[i], to)) :
                                  i \in Expanding(vec, ty)})
<1> DEFINE I == DOMAIN vec
           All == [comp_idx : I, recurrence_id : Times \cup {-1},
                   via : {"single", "rdate", "rrule"}, start : Times]
           New == UNION {InstsOf(i, vec[i], Reported(vec[i], to)) :
                             i \in Expanding(vec, ty)}
<1>1. IsFiniteSet(All)
  <2>1. IsFiniteSet(I)
    BY CompsAt, FS_Interval
  <2> QED BY <2>1, InstsFinite
<1>2. ASSUME NEW i \in Expanding(vec, ty)
      PROVE  InstsOf(i, vec[i], Reported(vec[i], to)) \subseteq All
  <2>1. i \in I /\ vec[i] \in CompType
    BY CompsAt DEF Expanding
  <2>2. ASSUME NEW o \in Reported(vec[i], to) PROVE Inst(i, vec[i], o) \in All
    BY <2>1, ReportedType, OccStartType DEF Inst, OccType
  <2> QED BY <2>2 DEF InstsOf
<1>3. New \subseteq All
  BY <1>2
<1> QED BY <1>1, <1>3, FS_Subset

LEMMA TypeStep == TypeOK /\ MapInVec /\ [Next]_vars => TypeOK' /\ MapInVec'
<1> SUFFICES ASSUME TypeOK, MapInVec, [Next]_vars PROVE TypeOK' /\ MapInVec'
  OBVIOUS
<1> USE DEF instVars
<1>0. Starts \subseteq Times /\ InstIds \subseteq Times
  BY CalendarAssumption
<1>i. ASSUME NEW u \in Uids, calendar_find_comp(u) # NotFound
      PROVE  /\ calendar_find_comp(u) \in DOMAIN comps_vec
             /\ comps_vec[calendar_find_comp(u)] \in CompType
             /\ comps_vec[calendar_find_comp(u)].type \in Types
  <2>1. calendar_find_comp(u) \in DOMAIN comps_vec
    BY <1>i DEF MapInVec, Indices, calendar_find_comp
  <2>2. comps_vec[calendar_find_comp(u)] \in CompType
    BY <2>1, CompsAt DEF TypeOK
  <2> QED BY <2>1, <2>2 DEF CompType
<1>e. ASSUME NEW u \in Uids, NEW c \in CompType, calendar_find_comp(u) # NotFound,
             comps_vec' = [comps_vec EXCEPT ![calendar_find_comp(u)] = c],
             UNCHANGED comps_map
      PROVE  comps_vec' \in Seq(CompType) /\ MapInVec'
  <2>1. comps_vec' \in Seq(CompType) /\ DOMAIN comps_vec' = DOMAIN comps_vec
    BY <1>e, <1>i, CompsExcept DEF TypeOK
  <2> QED BY <1>e, <2>1 DEF MapInVec, Indices
<1>1. CASE BeginReload
  BY <1>1 DEF BeginReload, TypeOK, MapInVec, Indices
<1>2. ASSUME NEW u \in Uids, NEW ty \in Types, NEW s \in Starts,
             NEW r \in Recurrences \cup {NoRecur}, ParseComp(u, ty, s, r)
      PROVE  TypeOK' /\ MapInVec'
  <2>1. NewComp(u, ty, s, r) \in CompType
    BY <1>0, NewCompType
  <2>2. calendar_add_comp(NewComp(u, ty, s, r))
    BY <1>2 DEF ParseComp
  <2>3. UNCHANGED <<instVars, phase>>
    BY <1>2 DEF ParseComp
  <2> QED BY <2>1, <2>2, <2>3, AddCompType DEF TypeOK
<1>3. ASSUME NEW u \in Uids, NEW t \in InstIds, NEW s \in Starts,
             ParseRecurInst(u, t, s)
      PROVE  TypeOK' /\ MapInVec'
  <2>1. calendar_find_comp(u) # NotFound
    BY <1>3 DEF ParseRecurInst
  <2>2. WithRecurInst(comps_vec[calendar_find_comp(u)], t, s) \in CompType
    BY <1>0, <1>i, <2>1, WithRecurInstType
  <2>3. comps_vec' \in Seq(CompType) /\ MapInVec'
    BY <1>3, <1>e, <2>1, <2>2 DEF ParseRecurInst
  <2> QED BY <1>3, <2>3 DEF ParseRecurInst, TypeOK
<1>4. CASE EndParse
  <2>1. cis_dirty' \in [Types -> BOOLEAN] /\ taken' \in [Types -> SUBSET InstType]
    BY <1>4 DEF EndParse, app_invalidate_calendars, TypeOK
  <2> QED BY <1>4, <2>1 DEF EndParse, TypeOK, MapInVec, Indices
<1>5. ASSUME NEW u \in Uids, NEW ty \in Types, NEW s \in Starts, Create(u, ty, s)
      PROVE  TypeOK' /\ MapInVec'
  <2>1. NewComp(u, ty, s, NoRecur) \in CompType
    BY <1>0, NewCompType
  <2>2. calendar_add_comp(NewComp(u, ty, s, NoRecur))
    <3>1. NewComp(u, ty, s, NoRecur).uid = u
      BY DEF NewComp
    <3> QED BY <1>5, <3>1 DEF Create, calendar_add_comp
  <2>3. UNCHANGED <<instVars, phase>>
    BY <1>5 DEF Create
  <2> QED BY <2>1, <2>2, <2>3, AddCompType DEF TypeOK
<1>6. ASSUME NEW u \in Uids, NEW s \in Starts, UpdateBase(u, s)
      PROVE  TypeOK' /\ MapInVec'
  <2> DEFINE idx == calendar_find_comp(u)
             d == [comps_vec[idx] EXCEPT !.start = s]
  <2>1. idx # NotFound
    BY <1>6 DEF UpdateBase
  <2>2. d \in CompType
    <3>1. \A c \in CompType : [c EXCEPT !.start = s] \in CompType
      BY <1>0 DEF CompType
    <3> QED BY <3>1, <2>1, <1>i
  <2>3. comps_vec' = [comps_vec EXCEPT ![idx] = d] /\ UNCHANGED comps_map
    BY <1>6 DEF UpdateBase
  <2> HIDE DEF d
  <2>4. comps_vec' \in Seq(CompType) /\ MapInVec'
    BY <1>e, <2>1, <2>2, <2>3
  <2> QED BY <1>6, <2>4 DEF UpdateBase, TypeOK
<1>7. ASSUME NEW u \in Uids, NEW t \in InstIds, NEW s \in Starts,
             UpdateInst(u, t, s)
      PROVE  TypeOK' /\ MapInVec'
  <2> DEFINE idx == calendar_find_comp(u)
             w == WithRecurInst(comps_vec[idx], t, t)
             d == [w EXCEPT !.recur_insts[t] = s]
  <2>1. idx # NotFound
    BY <1>7 DEF UpdateInst
  <2>2. w \in CompType
    BY <1>0, <1>i, <2>1, WithRecurInstType
  <2>3. d \in CompType
    <3> HIDE DEF w
    <3>1. PICK D \in SUBSET Times : w.recur_insts \in [D -> Times]
      BY <2>2 DEF CompType
    <3>2. [w.recur_insts EXCEPT ![t] = s] \in [D -> Times]
      BY <1>0, <3>1
    <3> DEFINE g == [w.recur_insts EXCEPT ![t] = s]
    <3>3. g \in UNION {[E -> Times] : E \in SUBSET Times}
      BY <3>2
    <3> HIDE DEF g
    <3>4. [w EXCEPT !.recur_insts = g] \in CompType
      BY <2>2, <3>3 DEF CompType
    <3> QED BY <3>4 DEF g
  <2>4. comps_vec' = [comps_vec EXCEPT ![idx] = d] /\ UNCHANGED comps_map
    BY <1>7 DEF UpdateInst
  <2> HIDE DEF d
  <2>5. comps_vec' \in Seq(CompType) /\ MapInVec'
    BY <1>e, <2>1, <2>3, <2>4
  <2> QED BY <1>7, <2>5 DEF UpdateInst, TypeOK
<1>8. ASSUME NEW u \in Uids, NEW ty \in Types, Delete(u, ty)
      PROVE  TypeOK' /\ MapInVec'
  <2>1. /\ comps_vec' \in Seq(CompType)
        /\ DOMAIN comps_vec' = DOMAIN comps_vec
    BY <1>8, <1>i, DeletedType DEF Delete, TypeOK
  <2> QED BY <1>8, <2>1 DEF Delete, TypeOK, MapInVec, Indices
<1>9. CASE Invalidate
  BY <1>9 DEF Invalidate, app_invalidate_calendars, TypeOK, MapInVec, Indices
<1>10. ASSUME NEW ty \in Types, NEW to \in Times,
              calendar_expand_instances_to(ty, to)
       PROVE  TypeOK' /\ MapInVec'
  <2>1. /\ comps_vec' \in Seq(CompType)
        /\ Len(comps_vec') = Len(comps_vec)
        /\ cis' \in [Types -> SUBSET InstType]
        /\ taken' \in [Types -> SUBSET InstType]
    BY <1>10, ExpandAllType
  <2> DEFINE new == UNION {InstsOf(i, Rebased(ty)[i], Reported(Rebased(ty)[i], to)) :
                               i \in Expanding(Rebased(ty), ty)}
  <2>2. Cardinality(new) \in Nat
    BY RebasedType, NewInstsFinite, FS_CardinalityType
  <2>3. cis_n' = [cis_n EXCEPT ![ty] =
                      (IF cis_dirty[ty] THEN 0 ELSE cis_n[ty]) + Cardinality(new)]
    BY <1>10 DEF calendar_expand_instances_to
  <2>4. cis_n' \in [Types -> Nat]
    <3> HIDE DEF new
    <3> QED BY <2>2, <2>3 DEF TypeOK
  <2>5. to \in Nat
    BY TimesAssumption
  <2>6. horizon' \in [Types -> Nat] /\ cis_dirty' \in [Types -> BOOLEAN]
    BY <1>10, <2>5 DEF calendar_expand_instances_to, TypeOK
  <2>7. DOMAIN comps_vec' = DOMAIN comps_vec
    BY <2>1, CompsAt DEF TypeOK
  <2>8. UNCHANGED <<comps_map, phase>>
    BY <1>10 DEF calendar_expand_instances_to
  <2> QED BY <2>1, <2>4, <2>6, <2>7, <2>8 DEF TypeOK, MapInVec, Indices
<1>11. ASSUME NEW ty \in Types, TakeInstances(ty) PROVE TypeOK' /\ MapInVec'
  BY <1>11 DEF TakeInstances, TypeOK, MapInVec, Indices
<1>12. CASE UNCHANGED vars
  BY <1>12 DEF vars, TypeOK, MapInVec, Indices
<1> QED
  BY <1>1, <1>2, <1>3, <1>4, <1>5, <1>6, <1>7, <1>8, <1>9, <1>10, <1>11, <1>12
  DEF Next, ParseStep, EditStep, InstanceStep

\* The calendar's state keeps its types, and the uid map never leads outside
\* the vector of components, through any sequence of loads, edits, reloads
\* and expansions (calendar.c).
THEOREM CalendarTypeOK == Spec => []TypeOK
<1>1. Spec => [](TypeOK /\ MapInVec)
  BY TypeInit, TypeStep, PTL DEF Spec
<1> QED BY <1>1, PTL

(***************************************************************************)
(* Incremental expansion of one component.                                 *)
(***************************************************************************)
\* The properties of a component that decide its instances.
SameData(c, d) ==
    /\ c.uid = d.uid /\ c.type = d.type /\ c.start = d.start
    /\ c.recur = d.recur /\ c.recur_insts = d.recur_insts
    /\ c.deleted = d.deleted

LEMMA SameInsts ==
    ASSUME NEW c, NEW d, SameData(c, d), NEW i, NEW O
    PROVE  /\ InstsOf(i, c, O) = InstsOf(i, d, O)
           /\ \A h : OccurrencesUpTo(c, h) = OccurrencesUpTo(d, h)
           /\ \A o : OccStart(c, o) = OccStart(d, o)
BY DEF SameData, InstsOf, Inst, OccStart, OccurrencesUpTo

LEMMA ClearedData ==
    ASSUME NEW c \in CompType
    PROVE  /\ SameData(c, Cleared(c))
           /\ ~Cleared(c).ritr /\ Cleared(c).last = -1
           /\ Cleared(c).left = {} /\ ~Cleared(c).all_expanded
BY DEF SameData, Cleared, CompType

\* The fields recurrence_expand touches, by the case it takes.
LEMMA RecurrenceExpandFields ==
    ASSUME NEW c \in CompType, NEW to \in Times
    PROVE  LET r == recurrence_expand(c, to)
           IN  /\ SameData(c, r) /\ r.ritr
               /\ Blocked(c, to) => r.left = Unread(c) /\ r.last = c.last
               /\ ~Blocked(c, to) /\ Beyond(c, to) = {} => r.left = {} /\ r.last = -1
               /\ ~Blocked(c, to) /\ Beyond(c, to) # {}
                      => /\ r.last = Min(Beyond(c, to))
                         /\ r.left = Beyond(c, to) \ {r.last}
<1>1. CASE Blocked(c, to)
  BY <1>1 DEF recurrence_expand, SameData, CompType
<1>2. CASE ~Blocked(c, to) /\ Beyond(c, to) = {}
  BY <1>2 DEF recurrence_expand, SameData, CompType
<1>3. CASE ~Blocked(c, to) /\ Beyond(c, to) # {}
  BY <1>3 DEF recurrence_expand, SameData, CompType
<1> QED BY <1>1, <1>2, <1>3

LEMMA ExpandFields ==
    ASSUME NEW c \in CompType, NEW to \in Times
    PROVE  LET e == comp_recur_expand(c, to)
               r == recurrence_expand(c, to)
           IN  /\ SameData(c, e)
               /\ e.recur_cache = c.recur_cache
                      \cup {OccStart(c, o) : o \in Reported(c, to)}
               /\ c.recur = NoRecur => e.all_expanded
               /\ c.recur # NoRecur => e.ritr /\ e.left = r.left /\ e.last = r.last
<1> DEFINE cache == c.recur_cache \cup {OccStart(c, o) : o \in Reported(c, to)}
           r == recurrence_expand(c, to)
<1> HIDE DEF cache
<1>1. CASE c.recur = NoRecur
  <2>1. comp_recur_expand(c, to) = [c EXCEPT !.recur_cache = cache, !.all_expanded = TRUE]
    BY <1>1 DEF comp_recur_expand, cache
  <2> QED BY <1>1, <2>1 DEF SameData, CompType, cache
<1>2. CASE c.recur # NoRecur
  <2>1. comp_recur_expand(c, to) = [r EXCEPT !.recur_cache = cache]
    BY <1>2 DEF comp_recur_expand, cache
  <2>2. SameData(c, r) /\ r.ritr
    BY RecurrenceExpandFields
  <2>3. r \in CompType
    BY <1>2, RecurrenceExpandType
  <2> DEFINE e == comp_recur_expand(c, to)
  <2>4. /\ SameData(r, e) /\ e.ritr = r.ritr /\ e.recur_cache = cache
        /\ e.left = r.left /\ e.last = r.last
    <3> HIDE DEF r
    <3> QED BY <2>1, <2>3 DEF SameData, CompType
  <2>5. SameData(c, e)
    BY <2>2, <2>4 DEF SameData
  <2> HIDE DEF e
  <2>6. /\ SameData(c, e) /\ e.recur_cache = cache /\ e.ritr
        /\ e.left = r.left /\ e.last = r.last
    BY <2>2, <2>4, <2>5
  <2> QED BY <1>2, <2>6 DEF cache, e
<1> QED BY <1>1, <1>2

\* The first expansion after a rebuild reports everything up to `to`.
LEMMA FirstExpansion ==
    ASSUME NEW b \in CompType, NEW to \in Times
    PROVE  LET c == Cleared(b)
           IN  /\ Reported(c, to) = OccurrencesUpTo(b, to)
               /\ Expanded(comp_recur_expand(c, to), to)
<1> DEFINE c == Cleared(b)
           e == comp_recur_expand(c, to)
           r == recurrence_expand(c, to)
<1>1. /\ c \in CompType /\ SameData(b, c) /\ ~c.ritr /\ c.last = -1
      /\ c.left = {} /\ ~c.all_expanded
  BY ClearedData, ClearedType
<1> HIDE DEF c
<1>2. c.recur = b.recur
  BY <1>1 DEF SameData
<1>3. Reported(c, to) = OccurrencesUpTo(b, to)
  BY <1>1, <1>2 DEF Reported, OccurrencesUpTo, RdatesOut, RruleOut, Blocked, Unread
<1>4. Expanded(e, to)
  <2>1. SameData(c, e)
    BY <1>1, ExpandFields
  <2>2. CASE c.recur = NoRecur
    BY <1>1, <2>1, <2>2, ExpandFields DEF Expanded, SameData
  <2>3. CASE c.recur # NoRecur
    <3>1. c.recur \in RecurrenceType /\ e.recur = c.recur
      BY <1>1, <2>1, <2>3, RecurIsType DEF CompType, SameData
    <3>2. ~Blocked(c, to) /\ Unread(c) = c.recur.rrule
      BY <1>1 DEF Blocked, Unread
    <3>3. e.ritr /\ e.left = r.left /\ e.last = r.last
      BY <1>1, <2>3, ExpandFields
    <3> DEFINE B == {t \in c.recur.rrule : t > to}
    <3>4. Beyond(c, to) = B /\ B \subseteq Nat
      BY <3>1, <3>2, TimesAssumption DEF Beyond, RecurrenceType
    <3>5. CASE B = {}
      <4>1. r.left = {} /\ r.last = -1
        BY <1>1, <3>2, <3>4, <3>5, RecurrenceExpandFields
      <4> QED BY <2>3, <3>1, <3>3, <3>5, <4>1 DEF Expanded
    <3>6. CASE B # {}
      <4>1. r.last = Min(B) /\ r.left = B \ {r.last}
        <5> HIDE DEF B
        <5>1. Beyond(c, to) # {}
          BY <3>4, <3>6
        <5>2. r.last = Min(Beyond(c, to)) /\ r.left = Beyond(c, to) \ {r.last}
          BY <1>1, <3>2, <5>1, RecurrenceExpandFields
        <5> QED BY <3>4, <5>2
      <4>2. r.last \in B /\ \A y \in B : r.last <= y
        BY <3>4, <3>6, <4>1, MinOfTimes
      <4>3. r.last # -1
        BY <3>4, <4>2
      <4>4. \A y \in r.left : r.last < y
        BY <3>4, <4>1, <4>2
      <4>5. r.left \cup ({r.last} \ {-1}) = B
        BY <4>1, <4>2, <4>3
      <4> HIDE DEF B
      <4>6. e.left \cup ({e.last} \ {-1}) = {t \in e.recur.rrule : t > to}
        BY <3>1, <3>3, <4>5 DEF B
      <4> QED BY <2>3, <3>1, <3>3, <4>3, <4>4, <4>6 DEF Expanded
    <3> QED BY <3>5, <3>6
  <2> QED BY <2>2, <2>3
<1> QED BY <1>3, <1>4 DEF c

\* What an iterator that stands at h has to return, cut at `to`.
LEMMA IteratorCut ==
    ASSUME NEW rule \in SUBSET Nat, NEW left \in SUBSET Nat,
           NEW last \in Nat \cup {-1}, NEW h \in Nat, NEW to \in Nat,
           left \cup ({last} \ {-1}) = {t \in rule : t > h},
           IF last = -1 THEN left = {} ELSE \A t \in left : last < t
    PROVE  /\ last # -1 /\ last > to => \A t \in rule : t > h => t > to
           /\ ~(last # -1 /\ last > to)
                 => /\ ({last} \ {-1}) \cup {t \in left : t <= to}
                           = {t \in rule : t > h /\ t <= to}
                    /\ {t \in left : t > to} = {t \in rule : t > h /\ t > to}
<1>1. \A t \in Nat : t \in rule /\ t > h <=> t \in left \/ (t = last /\ last # -1)
  OBVIOUS
<1>2. ASSUME last # -1, last > to, NEW t \in rule, t > h PROVE t > to
  <2>1. t \in left \/ t = last
    BY <1>1, <1>2
  <2> QED BY <1>2, <2>1
<1>3. ASSUME ~(last # -1 /\ last > to)
      PROVE  /\ ({last} \ {-1}) \cup {t \in left : t <= to}
                    = {t \in rule : t > h /\ t <= to}
             /\ {t \in left : t > to} = {t \in rule : t > h /\ t > to}
  <2>1. CASE last = -1
    BY <1>1, <2>1
  <2>2. CASE last # -1
    <3>1. last \in Nat /\ last <= to
      BY <1>3, <2>2
    <3>2. \A t \in Nat : (t = last \/ (t \in left /\ t <= to))
                           <=> (t \in rule /\ t > h /\ t <= to)
      BY <1>1, <2>2, <3>1
    <3>3. \A t \in Nat : (t \in left /\ t > to) <=> (t \in rule /\ t > h /\ t > to)
      BY <1>1, <2>2, <3>1
    <3> QED BY <2>2, <3>1, <3>2, <3>3
  <2> QED BY <2>1, <2>2
<1> QED BY <1>2, <1>3

\* A later expansion reports what lies between the old horizon and the new,
\* and nothing that was reported before.
LEMMA NextExpansion ==
    ASSUME NEW c \in CompType, NEW h \in Nat, NEW to \in Times, Expanded(c, h)
    PROVE  LET g == IF h > to THEN h ELSE to
           IN  /\ OccurrencesUpTo(c, h) \cup Reported(c, to) = OccurrencesUpTo(c, g)
               /\ OccurrencesUpTo(c, h) \cap Reported(c, to) = {}
               /\ Expanded(comp_recur_expand(c, to), g)
<1> DEFINE g == IF h > to THEN h ELSE to
           e == comp_recur_expand(c, to)
           r == recurrence_expand(c, to)
<1>0. to \in Nat /\ g \in Nat /\ \A t \in Nat : t > g <=> t > h /\ t > to
  BY TimesAssumption
<1>1. CASE c.recur = NoRecur
  <2>1. c.all_expanded
    BY <1>1 DEF Expanded
  <2>2. Reported(c, to) = {}
    BY <1>1, <2>1 DEF Reported
  <2>3. OccurrencesUpTo(c, h) = OccurrencesUpTo(c, g)
    BY <1>1 DEF OccurrencesUpTo
  <2>4. Expanded(e, g)
    <3>1. e.recur = c.recur /\ e.all_expanded
      BY <1>1, ExpandFields DEF SameData
    <3> QED BY <1>1, <3>1 DEF Expanded
  <2> QED BY <2>2, <2>3, <2>4
<1>2. CASE c.recur # NoRecur
  <2> DEFINE rule == c.recur.rrule
  <2>1. rule \in SUBSET Nat
    BY <1>2, RecurIsType, TimesAssumption DEF CompType, RecurrenceType
  <2>2. /\ c.ritr /\ c.left \cup ({c.last} \ {-1}) = {t \in rule : t > h}
        /\ IF c.last = -1 THEN c.left = {} ELSE \A t \in c.left : c.last < t
    BY <1>2 DEF Expanded
  <2>3. e.recur = c.recur /\ e.ritr /\ e.left = r.left /\ e.last = r.last
    BY <1>2, ExpandFields DEF SameData
  <2>4. c.last \in Nat \cup {-1} /\ c.left \in SUBSET Nat /\ Unread(c) = c.left
    BY <2>2, TimesAssumption DEF CompType, Unread
  <2> HIDE DEF rule, r, e
  <2>5. /\ Blocked(c, to) => \A t \in rule : t > h => t > to
        /\ ~Blocked(c, to)
              => /\ ({c.last} \ {-1}) \cup {t \in c.left : t <= to}
                        = {t \in rule : t > h /\ t <= to}
                 /\ {t \in c.left : t > to} = {t \in rule : t > h /\ t > to}
    BY <1>0, <2>1, <2>2, <2>4, IteratorCut DEF Blocked
  <2>6. RruleOut(c, to) = {t \in rule : t > h /\ t <= to}
    <3>1. CASE Blocked(c, to)
      <4>1. \A t \in rule : ~(t > h /\ t <= to)
        BY <1>0, <2>1, <2>5, <3>1
      <4> QED BY <3>1, <4>1 DEF RruleOut
    <3>2. CASE ~Blocked(c, to)
      BY <2>4, <2>5, <3>2 DEF RruleOut
    <3> QED BY <3>1, <3>2
  <2> DEFINE early == {t \in rule : t <= h}
             new == {t \in rule : t > h /\ t <= to}
             all == {t \in rule : t <= g}
             dates == {Occ(t, "rdate") : t \in c.recur.rdate \ c.recur.exdate}
             Ruled(T) == {Occ(t, "rrule") : t \in T}
  <2>7. Reported(c, to) = Ruled(new)
    BY <1>2, <2>2, <2>6 DEF Reported, RdatesOut
  <2>8. /\ OccurrencesUpTo(c, h) = dates \cup Ruled(early)
        /\ OccurrencesUpTo(c, g) = dates \cup Ruled(all)
    BY <1>2 DEF OccurrencesUpTo, rule
  <2>9. OccurrencesUpTo(c, h) \cup Reported(c, to) = OccurrencesUpTo(c, g)
    <3>1. early \cup new = all
      <4>1. \A t \in Nat : t <= g <=> t <= h \/ (t > h /\ t <= to)
        BY <1>0
      <4> QED BY <2>1, <4>1
    <3> HIDE DEF early, new, all, dates
    <3>2. Ruled(early) \cup Ruled(new) = Ruled(all)
      BY <3>1
    <3> HIDE DEF Ruled
    <3> QED BY <2>7, <2>8, <3>2
  <2>10. OccurrencesUpTo(c, h) \cap Reported(c, to) = {}
    <3>1. early \cap new = {}
      <4>1. \A t \in Nat : ~(t <= h /\ t > h)
        OBVIOUS
      <4> QED BY <2>1, <4>1
    <3> HIDE DEF early, new
    <3>2. \A t, u : Occ(t, "rrule") # Occ(u, "rdate")
                    /\ (Occ(t, "rrule") = Occ(u, "rrule") => t = u)
      BY DEF Occ
    <3> QED BY <2>7, <2>8, <3>1, <3>2
  <2>11. Expanded(e, g)
    <3> DEFINE G == {t \in rule : t > g}
    <3>1. /\ G \subseteq Nat
          /\ G = {t \in rule : t > h /\ t > to}
      BY <1>0, <2>1
    <3>2. CASE Blocked(c, to)
      <4>1. r.left = c.left /\ r.last = c.last
        BY <3>2, <2>4, RecurrenceExpandFields DEF r
      <4>2. {t \in rule : t > h} = G
        BY <2>5, <3>1, <3>2
      <4> HIDE DEF G
      <4>3. e.left \cup ({e.last} \ {-1}) = G
        BY <2>2, <2>3, <4>1, <4>2
      <4> QED BY <1>2, <2>2, <2>3, <4>1, <4>3 DEF Expanded, rule, G
    <3>3. CASE ~Blocked(c, to)
      <4>1. Beyond(c, to) = G
        BY <2>4, <2>5, <3>1, <3>3 DEF Beyond
      <4> HIDE DEF G
      <4>2. CASE G = {}
        <5>1. r.left = {} /\ r.last = -1
          BY <3>3, <4>1, <4>2, RecurrenceExpandFields DEF r
        <5> QED BY <1>2, <2>3, <4>2, <5>1 DEF Expanded, rule, G
      <4>3. CASE G # {}
        <5>1. r.last = Min(G) /\ r.left = G \ {r.last}
          BY <3>3, <4>1, <4>3, RecurrenceExpandFields DEF r
        <5>2. r.last \in G /\ \A y \in G : r.last <= y
          BY <3>1, <4>3, <5>1, MinOfTimes
        <5>3. r.last # -1 /\ \A y \in r.left : r.last < y
          BY <3>1, <5>1, <5>2
        <5>4. e.left \cup ({e.last} \ {-1}) = G
          BY <2>3, <5>1, <5>2, <5>3
        <5> QED BY <1>2, <2>3, <5>3, <5>4 DEF Expanded, rule, G
      <4> QED BY <4>2, <4>3
    <3> QED BY <3>2, <3>3
  <2> QED BY <2>9, <2>10, <2>11 DEF e
<1> QED BY <1>1, <1>2

\* What calendar_expand_instances_to leaves of each component: the data that
\* decides instances is untouched; the expansion state is that of one call of
\* comp_recur_expand, on a cleared component if the type was dirty.
LEMMA ExpandedData ==
    ASSUME TypeOK, NEW ty \in Types, NEW to \in Times,
           calendar_expand_instances_to(ty, to), NEW i \in Indices
    PROVE  /\ SameData(comps_vec[i], comps_vec'[i])
           /\ comps_vec[i].type # ty => comps_vec'[i] = comps_vec[i]
           /\ i \notin Live(ty) /\ ~cis_dirty[ty] => comps_vec'[i] = comps_vec[i]
           /\ i \in Live(ty) =>
                comps_vec'[i] = comp_recur_expand(
                    IF cis_dirty[ty] THEN Cleared(comps_vec[i]) ELSE comps_vec[i], to)
<1> DEFINE c == comps_vec[i]
           b == Rebased(ty)[i]
<1>1. c \in CompType
  BY CompsAt DEF TypeOK, Indices
<1>2. b = IF cis_dirty[ty] /\ c.type = ty THEN Cleared(c) ELSE c
  BY DEF Rebased
<1>3. DOMAIN Rebased(ty) = Indices
  BY DEF Rebased
<1>4. b \in CompType /\ SameData(c, b)
  BY <1>1, <1>2, ClearedType, ClearedData DEF SameData
<1>5. comps_vec'[i] = IF i \in Expanding(Rebased(ty), ty)
                      THEN comp_recur_expand(b, to) ELSE b
  BY DEF calendar_expand_instances_to
<1>6. i \in Expanding(Rebased(ty), ty) <=> i \in Live(ty)
  BY <1>3, <1>4 DEF Expanding, Live, SameData
<1>7. i \in Live(ty) => c.type = ty
  BY DEF Live
<1>8. SameData(b, comp_recur_expand(b, to))
  BY <1>4, ExpandFields
<1> HIDE DEF c, b
<1>9. SameData(c, comps_vec'[i])
  BY <1>4, <1>5, <1>8 DEF SameData
<1> QED BY <1>2, <1>5, <1>6, <1>7, <1>9 DEF c

(***************************************************************************)
(* The uid map and the live components.                                    *)
(***************************************************************************)
StoreInv == MapFindsLatest /\ OneLivePerUid

\* Replacing entries without touching uids, nor bringing one back to life,
\* preserves what the map promises.
LEMMA StoreKept ==
    ASSUME StoreInv, UNCHANGED comps_map,
           DOMAIN comps_vec' = DOMAIN comps_vec,
           \A i \in Indices : /\ comps_vec'[i].uid = comps_vec[i].uid
                              /\ comps_vec[i].deleted => comps_vec'[i].deleted
    PROVE  StoreInv'
<1>1. \A u \in Uids : {i \in Indices' : comps_vec'[i].uid = u}
                        = {i \in Indices : comps_vec[i].uid = u}
  BY DEF Indices
<1>2. MapFindsLatest'
  BY <1>1 DEF StoreInv, MapFindsLatest
<1>3. OneLivePerUid'
  <2> SUFFICES ASSUME NEW i \in Indices, ~comps_vec'[i].deleted
               PROVE  comps_map[comps_vec[i].uid] = i
    BY DEF OneLivePerUid, Indices
  <2> QED BY DEF StoreInv, OneLivePerUid
<1> QED BY <1>2, <1>3 DEF StoreInv

LEMMA StoreAdd ==
    ASSUME TypeOK, MapInVec, StoreInv, NEW c \in CompType, calendar_add_comp(c)
    PROVE  StoreInv'
<1> DEFINE idx == calendar_find_comp(c.uid)
           n == Len(comps_vec)
<1>0. c.uid \in Uids /\ n \in Nat /\ DOMAIN comps_vec = 1..n
  BY CompsAt DEF CompType, TypeOK
<1>1. /\ DOMAIN comps_vec' = 1..(n + 1)
      /\ comps_vec'[n + 1] = c
      /\ \A i \in 1..n : /\ comps_vec'[i].uid = comps_vec[i].uid
                         /\ comps_vec[i].deleted => comps_vec'[i].deleted
                         /\ i = idx => comps_vec'[i].deleted
      /\ comps_map' = [comps_map EXCEPT ![c.uid] = n + 1]
  <2>1. CASE idx = NotFound
    <3>1. comps_vec' = Append(comps_vec, c)
          /\ comps_map' = [comps_map EXCEPT ![c.uid] = n + 1]
      BY <2>1 DEF calendar_add_comp, add_comp_unchecked
    <3>2. idx \notin 1..n
      BY <2>1, <1>0 DEF NotFound
    <3> QED BY <3>1, <3>2, <1>0 DEF TypeOK
  <2>2. CASE idx # NotFound
    <3>1. idx \in 1..n
      BY <2>2, <1>0 DEF MapInVec, Indices, calendar_find_comp
    <3> DEFINE vec == Deleted(comps_vec, idx)
    <3>2. /\ vec \in Seq(CompType) /\ Len(vec) = n /\ DOMAIN vec = 1..n
          /\ vec[idx] = [comps_vec[idx] EXCEPT !.deleted = TRUE]
          /\ \A j \in 1..n \ {idx} : vec[j] = comps_vec[j]
      <4>1. comps_vec \in Seq(CompType) /\ idx \in DOMAIN comps_vec
        BY <3>1, <1>0 DEF TypeOK
      <4> HIDE DEF idx
      <4>2. /\ vec \in Seq(CompType)
            /\ DOMAIN vec = DOMAIN comps_vec /\ Len(vec) = Len(comps_vec)
            /\ vec[idx] = [comps_vec[idx] EXCEPT !.deleted = TRUE]
            /\ \A j \in DOMAIN comps_vec \ {idx} : vec[j] = comps_vec[j]
        BY <4>1, DeletedType
      <4> QED BY <4>2, <1>0
    <3>3. comps_vec' = Append(vec, c)
          /\ comps_map' = [comps_map EXCEPT ![c.uid] = n + 1]
      BY <2>2, <3>2 DEF calendar_add_comp, add_comp_unchecked
    <3>4. comps_vec[idx] \in CompType
      BY <3>1, <1>0, CompsAt DEF TypeOK
    <3>5. vec[idx].uid = comps_vec[idx].uid /\ vec[idx].deleted
      BY <3>2, <3>4 DEF CompType
    <3>6. \A i \in 1..n : /\ vec[i].uid = comps_vec[i].uid
                          /\ comps_vec[i].deleted => vec[i].deleted
                          /\ i = idx => vec[i].deleted
      BY <3>2, <3>5
    <3> HIDE DEF vec
    <3>7. /\ DOMAIN comps_vec' = 1..(n + 1) /\ comps_vec'[n + 1] = c
          /\ \A i \in 1..n : comps_vec'[i] = vec[i]
      BY <3>2, <3>3, <1>0
    <3> QED BY <3>3, <3>6, <3>7
  <2> QED BY <2>1, <2>2
<1>2. MapFindsLatest'
  <2> SUFFICES ASSUME NEW u \in Uids
               PROVE  LET same == {i \in 1..(n + 1) : comps_vec'[i].uid = u}
                      IN  IF same = {} THEN comps_map'[u] = NotFound
                          ELSE /\ comps_map'[u] \in same
                               /\ \A i \in same : i <= comps_map'[u]
    BY <1>1 DEF MapFindsLatest, Indices
  <2> DEFINE old == {i \in 1..n : comps_vec[i].uid = u}
  <2>1. IF old = {} THEN comps_map[u] = NotFound
        ELSE comps_map[u] \in old /\ \A i \in old : i <= comps_map[u]
    BY <1>0 DEF StoreInv, MapFindsLatest, Indices
  <2>2. CASE u = c.uid
    <3>1. comps_map'[u] = n + 1
      BY <1>1, <2>2, <1>0 DEF TypeOK
    <3> QED BY <1>0, <1>1, <2>2, <3>1
  <2>3. CASE u # c.uid
    <3>1. comps_map'[u] = comps_map[u]
      BY <1>1, <2>3, <1>0 DEF TypeOK
    <3>2. {i \in 1..(n + 1) : comps_vec'[i].uid = u} = old
      BY <1>0, <1>1, <2>3
    <3> QED BY <2>1, <3>1, <3>2
  <2> QED BY <2>2, <2>3
<1>3. OneLivePerUid'
  <2> SUFFICES ASSUME NEW i \in 1..(n + 1), ~comps_vec'[i].deleted
               PROVE  comps_map'[comps_vec'[i].uid] = i
    BY <1>1 DEF OneLivePerUid, Indices
  <2>1. CASE i = n + 1
    BY <1>0, <1>1, <2>1 DEF TypeOK
  <2>2. CASE i \in 1..n
    <3>1. ~comps_vec[i].deleted /\ i # idx /\ comps_vec'[i].uid = comps_vec[i].uid
      BY <1>1, <2>2
    <3>2. comps_map[comps_vec[i].uid] = i
      BY <1>0, <2>2, <3>1 DEF StoreInv, OneLivePerUid, Indices
    <3>3. comps_vec[i].uid # c.uid
      BY <3>1, <3>2 DEF calendar_find_comp
    <3> QED BY <1>1, <3>1, <3>2, <3>3 DEF TypeOK
  <2> QED BY <1>0, <2>1, <2>2
<1> QED BY <1>2, <1>3 DEF StoreInv

LEMMA StoreStep ==
    TypeOK /\ MapInVec /\ StoreInv /\ [Next]_vars => StoreInv'
<1> SUFFICES ASSUME TypeOK, MapInVec, StoreInv, [Next]_vars PROVE StoreInv'
  OBVIOUS
<1>0. Starts \subseteq Times /\ InstIds \subseteq Times
  BY CalendarAssumption
<1>v. DOMAIN comps_vec = Indices /\ \A i \in Indices : comps_vec[i] \in CompType
  BY CompsAt DEF TypeOK, Indices
<1>i. ASSUME NEW u \in Uids, calendar_find_comp(u) # NotFound
      PROVE  calendar_find_comp(u) \in Indices
  BY <1>i DEF MapInVec, calendar_find_comp
\* Every step but those that add a component leaves the map and the uids alone.
<1>e. ASSUME NEW i \in Indices, NEW c, UNCHANGED comps_map,
             comps_vec' = [comps_vec EXCEPT ![i] = c], c.uid = comps_vec[i].uid,
             comps_vec[i].deleted => c.deleted
      PROVE  StoreInv'
  <2>1. DOMAIN comps_vec' = DOMAIN comps_vec
    BY <1>e
  <2>2. \A j \in Indices : comps_vec'[j] = IF j = i THEN c ELSE comps_vec[j]
    BY <1>e, <1>v
  <2> QED BY <1>e, <2>1, <2>2, StoreKept
<1>u. ASSUME UNCHANGED <<comps_vec, comps_map>> PROVE StoreInv'
  BY <1>u, StoreKept
<1>1. CASE BeginReload
  BY <1>1, <1>u DEF BeginReload
<1>2. ASSUME NEW u \in Uids, NEW ty \in Types, NEW s \in Starts,
             NEW r \in Recurrences \cup {NoRecur}, ParseComp(u, ty, s, r)
      PROVE  StoreInv'
  <2>1. NewComp(u, ty, s, r) \in CompType
    BY <1>0, NewCompType
  <2> QED BY <1>2, <2>1, StoreAdd DEF ParseComp
<1>3. ASSUME NEW u \in Uids, NEW t \in InstIds, NEW s \in Starts,
             ParseRecurInst(u, t, s)
      PROVE  StoreInv'
  <2> DEFINE idx == calendar_find_comp(u)
             d == WithRecurInst(comps_vec[idx], t, s)
  <2>1. idx \in Indices /\ comps_vec[idx] \in CompType
    BY <1>3, <1>i, <1>v DEF ParseRecurInst
  <2>2. d.uid = comps_vec[idx].uid /\ d.deleted = comps_vec[idx].deleted
    BY <2>1 DEF WithRecurInst, CompType
  <2>3. comps_vec' = [comps_vec EXCEPT ![idx] = d] /\ UNCHANGED comps_map
    BY <1>3 DEF ParseRecurInst
  <2> HIDE DEF d, idx
  <2> QED BY <2>1, <2>2, <2>3, <1>e
<1>4. CASE EndParse
  BY <1>4, <1>u DEF EndParse
<1>5. ASSUME NEW u \in Uids, NEW ty \in Types, NEW s \in Starts, Create(u, ty, s)
      PROVE  StoreInv'
  <2>1. NewComp(u, ty, s, NoRecur) \in CompType
        /\ NewComp(u, ty, s, NoRecur).uid = u
    BY <1>0, NewCompType DEF NewComp
  <2>2. calendar_add_comp(NewComp(u, ty, s, NoRecur))
    BY <1>5, <2>1 DEF Create, calendar_add_comp
  <2> QED BY <2>1, <2>2, StoreAdd
<1>6. ASSUME NEW u \in Uids, NEW s \in Starts, UpdateBase(u, s) PROVE StoreInv'
  <2> DEFINE idx == calendar_find_comp(u)
             d == [comps_vec[idx] EXCEPT !.start = s]
  <2>1. idx \in Indices /\ comps_vec[idx] \in CompType
    BY <1>6, <1>i, <1>v DEF UpdateBase
  <2>2. d.uid = comps_vec[idx].uid /\ d.deleted = comps_vec[idx].deleted
    BY <2>1 DEF CompType
  <2>3. comps_vec' = [comps_vec EXCEPT ![idx] = d] /\ UNCHANGED comps_map
    BY <1>6 DEF UpdateBase
  <2> HIDE DEF d, idx
  <2> QED BY <2>1, <2>2, <2>3, <1>e
<1>7. ASSUME NEW u \in Uids, NEW t \in InstIds, NEW s \in Starts, UpdateInst(u, t, s)
      PROVE  StoreInv'
  <2> DEFINE idx == calendar_find_comp(u)
             w == WithRecurInst(comps_vec[idx], t, t)
             d == [w EXCEPT !.recur_insts[t] = s]
  <2>1. idx \in Indices /\ comps_vec[idx] \in CompType
    BY <1>7, <1>i, <1>v DEF UpdateInst
  <2>2. d.uid = comps_vec[idx].uid /\ d.deleted = comps_vec[idx].deleted
    <3>1. w.uid = comps_vec[idx].uid /\ w.deleted = comps_vec[idx].deleted
      BY <2>1 DEF WithRecurInst, CompType
    <3>2. w \in CompType
      BY <1>0, <2>1, WithRecurInstType
    <3> HIDE DEF w
    <3> QED BY <3>1, <3>2 DEF CompType
  <2>3. comps_vec' = [comps_vec EXCEPT ![idx] = d] /\ UNCHANGED comps_map
    BY <1>7 DEF UpdateInst
  <2> HIDE DEF d, idx
  <2> QED BY <2>1, <2>2, <2>3, <1>e
<1>8. ASSUME NEW u \in Uids, NEW ty \in Types, Delete(u, ty) PROVE StoreInv'
  <2> DEFINE idx == calendar_find_comp(u)
             d == [comps_vec[idx] EXCEPT !.deleted = TRUE]
  <2>1. idx \in Indices /\ comps_vec[idx] \in CompType
    BY <1>8, <1>i, <1>v DEF Delete
  <2>2. d.uid = comps_vec[idx].uid /\ d.deleted
    BY <2>1 DEF CompType
  <2>3. comps_vec' = [comps_vec EXCEPT ![idx] = d] /\ UNCHANGED comps_map
    BY <1>8 DEF Delete, Deleted
  <2> HIDE DEF d, idx
  <2> QED BY <2>1, <2>2, <2>3, <1>e
<1>9. CASE Invalidate
  BY <1>9, <1>u DEF Invalidate
<1>10. ASSUME NEW ty \in Types, NEW to \in Times,
              calendar_expand_instances_to(ty, to)
       PROVE  StoreInv'
  <2>1. DOMAIN comps_vec' = DOMAIN comps_vec /\ UNCHANGED comps_map
    BY <1>10 DEF calendar_expand_instances_to, Indices
  <2>2. ASSUME NEW i \in Indices PROVE SameData(comps_vec[i], comps_vec'[i])
    BY <1>10, ExpandedData
  <2> QED BY <2>1, <2>2, StoreKept DEF SameData
<1>11. ASSUME NEW ty \in Types, TakeInstances(ty) PROVE StoreInv'
  BY <1>11, <1>u DEF TakeInstances
<1>12. CASE UNCHANGED vars
  BY <1>12, <1>u DEF vars
<1> QED
  BY <1>1, <1>2, <1>3, <1>4, <1>5, <1>6, <1>7, <1>8, <1>9, <1>10, <1>11, <1>12
  DEF Next, ParseStep, EditStep, InstanceStep

LEMMA StoreInit == Init => StoreInv
BY DEF Init, StoreInv, MapFindsLatest, OneLivePerUid, Indices

LEMMA StoreInvariant == Spec => [](TypeOK /\ MapInVec /\ StoreInv)
BY TypeInit, TypeStep, StoreInit, StoreStep, PTL DEF Spec

\* A lookup by uid finds the component added last under it, whatever was
\* reloaded, edited or deleted since (calendar_find_comp, comps_map).
THEOREM MapAlwaysFindsLatest == Spec => []MapFindsLatest
BY StoreInvariant, PTL DEF StoreInv

\* At most one component of a uid is live, and it is the one edits find
\* (calendar_add_comp supersedes, calendar_new_comp refuses).
THEOREM AlwaysOneLivePerUid == Spec => []OneLivePerUid
BY StoreInvariant, PTL DEF StoreInv

(***************************************************************************)
(* The instances are exactly the occurrences up to the horizon.            *)
(***************************************************************************)
LEMMA DueFinite ==
    ASSUME TypeOK, NEW ty \in Types
    PROVE  IsFiniteSet(DueInstances(ty))
<1> DEFINE All == [comp_idx : Indices, recurrence_id : Times \cup {-1},
                   via : {"single", "rdate", "rrule"}, start : Times]
<1>1. IsFiniteSet(All)
  <2>1. IsFiniteSet(Indices)
    BY CompsAt, FS_Interval DEF TypeOK, Indices
  <2> QED BY <2>1, InstsFinite
<1>2. ASSUME NEW i \in Live(ty)
      PROVE  InstsOf(i, comps_vec[i], OccurrencesUpTo(comps_vec[i], horizon[ty]))
                 \subseteq All
  <2>1. i \in Indices /\ comps_vec[i] \in CompType /\ horizon[ty] \in Nat
    BY CompsAt DEF Live, TypeOK, Indices
  <2>2. ASSUME NEW o \in OccurrencesUpTo(comps_vec[i], horizon[ty])
        PROVE  Inst(i, comps_vec[i], o) \in All
    BY <2>1, OccurrencesType, OccStartType DEF Inst, OccType
  <2> QED BY <2>2 DEF InstsOf
<1>3. DueInstances(ty) \subseteq All
  BY <1>2 DEF DueInstances
<1> QED BY <1>1, <1>3, FS_Subset

\* A step that leaves one type's live components, instances and horizon alone
\* leaves the type up to date.
LEMMA UpToDateKept ==
    ASSUME NEW ty \in Types, UpToDate(ty), Live(ty)' = Live(ty),
           \A i \in Live(ty) : comps_vec'[i] = comps_vec[i],
           cis'[ty] \cup taken'[ty] = cis[ty] \cup taken[ty],
           cis_n'[ty] = cis_n[ty], horizon'[ty] = horizon[ty]
    PROVE  UpToDate(ty)'
<1>1. DueInstances(ty)' = DueInstances(ty)
  BY DEF DueInstances
<1>2. \A i \in Live(ty)' : Expanded(comps_vec'[i], horizon'[ty])
  BY DEF UpToDate
<1> QED BY <1>1, <1>2 DEF UpToDate

\* One call of calendar_expand_instances_to brings its type up to date, given
\* that it was, or that it was dirty.
LEMMA ExpandUpToDate ==
    ASSUME TypeOK, NEW ty \in Types, NEW to \in Times,
           calendar_expand_instances_to(ty, to), ~cis_dirty[ty] => UpToDate(ty)
    PROVE  UpToDate(ty)'
<1> DEFINE h == IF cis_dirty[ty] THEN 0 ELSE horizon[ty]
           g == IF h > to THEN h ELSE to
           vec == Rebased(ty)
           before(i) == IF cis_dirty[ty] THEN {}
                        ELSE OccurrencesUpTo(comps_vec[i], horizon[ty])
           fresh(i) == Reported(vec[i], to)
           old == IF cis_dirty[ty] THEN {} ELSE cis[ty] \cup taken[ty]
           new == UNION {InstsOf(i, vec[i], fresh(i)) : i \in Expanding(vec, ty)}
<1>0. to \in Nat /\ h \in Nat /\ g \in Nat
  BY TimesAssumption DEF TypeOK
<1>1. \A i \in Live(ty) : i \in Indices /\ i \in Nat /\ comps_vec[i] \in CompType
  BY CompsAt DEF Live, TypeOK, Indices
<1>2. ASSUME NEW i \in Live(ty)
      PROVE  /\ vec[i] = IF cis_dirty[ty] THEN Cleared(comps_vec[i]) ELSE comps_vec[i]
             /\ SameData(comps_vec[i], vec[i])
             /\ SameData(comps_vec[i], comps_vec'[i])
             /\ comps_vec'[i] = comp_recur_expand(vec[i], to)
  <2>1. vec[i] = IF cis_dirty[ty] THEN Cleared(comps_vec[i]) ELSE comps_vec[i]
    BY <1>1 DEF Rebased, Live
  <2>2. SameData(comps_vec[i], vec[i])
    BY <1>1, <2>1, ClearedData DEF SameData
  <2>3. /\ SameData(comps_vec[i], comps_vec'[i])
        /\ comps_vec'[i] = comp_recur_expand(vec[i], to)
    BY <1>1, <2>1, ExpandedData
  <2> QED BY <2>1, <2>2, <2>3
<1>3. Expanding(vec, ty) = Live(ty) /\ Live(ty)' = Live(ty)
  <2>1. DOMAIN vec = Indices
    BY DEF Rebased
  <2>2. \A i \in Indices : SameData(comps_vec[i], vec[i])
    BY ClearedData, CompsAt DEF Rebased, SameData, TypeOK, Indices
  <2>3. Indices' = Indices
    BY DEF calendar_expand_instances_to, Indices
  <2>4. \A i \in Indices : SameData(comps_vec[i], comps_vec'[i])
    BY ExpandedData
  <2>5. Expanding(vec, ty) = Live(ty)
    BY <2>1, <2>2 DEF Expanding, Live, SameData
  <2>6. Live(ty)' = Live(ty)
    BY <2>3, <2>4 DEF Live, SameData
  <2> QED BY <2>5, <2>6
<1>4. horizon'[ty] = g
  <2>1. horizon'[ty] = IF h > to THEN horizon[ty] ELSE to
    BY DEF calendar_expand_instances_to, TypeOK
  <2>2. cis_dirty[ty] => ~(h > to)
    BY <1>0
  <2> QED BY <2>1, <2>2
<1>5. ASSUME NEW i \in Live(ty)
      PROVE  /\ before(i) \cup fresh(i) = OccurrencesUpTo(comps_vec[i], g)
             /\ before(i) \cap fresh(i) = {}
             /\ Expanded(comps_vec'[i], g)
  <2>1. CASE cis_dirty[ty]
    <3>1. g = to
      BY <1>0, <2>1
    <3>2. /\ fresh(i) = OccurrencesUpTo(comps_vec[i], to)
          /\ Expanded(comps_vec'[i], to)
      BY <1>1, <1>2, <2>1, FirstExpansion
    <3> QED BY <2>1, <3>1, <3>2
  <2>2. CASE ~cis_dirty[ty]
    <3>1. h \in Nat /\ Expanded(comps_vec[i], h) /\ vec[i] = comps_vec[i]
      BY <1>0, <1>2, <2>2 DEF UpToDate
    <3>2. /\ before(i) = OccurrencesUpTo(comps_vec[i], h)
          /\ fresh(i) = Reported(comps_vec[i], to)
          /\ comps_vec'[i] = comp_recur_expand(comps_vec[i], to)
      BY <1>2, <2>2, <3>1
    <3> HIDE DEF h, before, fresh, vec
    <3> QED BY <1>1, <3>1, <3>2, NextExpansion
  <2> QED BY <2>1, <2>2
<1>6. /\ cis'[ty] \cup taken'[ty] = old \cup new
      /\ cis_n'[ty] = (IF cis_dirty[ty] THEN 0 ELSE cis_n[ty]) + Cardinality(new)
  BY DEF calendar_expand_instances_to, TypeOK
<1>7. old = UNION {InstsOf(i, comps_vec[i], before(i)) : i \in Live(ty)}
  <2>1. CASE cis_dirty[ty]
    BY <2>1 DEF InstsOf
  <2>2. CASE ~cis_dirty[ty]
    BY <2>2 DEF UpToDate, DueInstances
  <2> QED BY <2>1, <2>2
<1>8. new = UNION {InstsOf(i, comps_vec[i], fresh(i)) : i \in Live(ty)}
  <2>1. \A i \in Live(ty) :
            InstsOf(i, vec[i], fresh(i)) = InstsOf(i, comps_vec[i], fresh(i))
    BY <1>2, SameInsts
  <2> QED BY <1>3, <2>1
<1>9. DueInstances(ty)' =
          UNION {InstsOf(i, comps_vec[i], OccurrencesUpTo(comps_vec[i], g)) :
                     i \in Live(ty)}
  <2>1. \A i \in Live(ty) :
            InstsOf(i, comps_vec'[i], OccurrencesUpTo(comps_vec'[i], g))
                = InstsOf(i, comps_vec[i], OccurrencesUpTo(comps_vec[i], g))
    BY <1>2, SameInsts
  <2>2. DueInstances(ty)' =
          UNION {InstsOf(i, comps_vec'[i], OccurrencesUpTo(comps_vec'[i], g)) :
                     i \in Live(ty)}
    BY <1>3, <1>4 DEF DueInstances
  <2> QED BY <2>1, <2>2
<1>10. IsFiniteSet(new) /\ IsFiniteSet(old)
       /\ (~cis_dirty[ty] => cis_n[ty] = Cardinality(old))
  <2>1. IsFiniteSet(new)
    BY RebasedType, NewInstsFinite
  <2>2. CASE cis_dirty[ty]
    BY <2>1, <2>2, FS_EmptySet
  <2>3. CASE ~cis_dirty[ty]
    BY <2>1, <2>3, DueFinite DEF UpToDate
  <2> QED BY <2>2, <2>3
<1> HIDE DEF h, g, vec, before, fresh, old, new
<1>11. old \cup new = DueInstances(ty)'
  <2>1. \A i \in Live(ty) :
            InstsOf(i, comps_vec[i], before(i)) \cup InstsOf(i, comps_vec[i], fresh(i))
                = InstsOf(i, comps_vec[i], OccurrencesUpTo(comps_vec[i], g))
    BY <1>5 DEF InstsOf
  <2> QED BY <1>7, <1>8, <1>9, <2>1
<1>12. old \cap new = {}
  <2> SUFFICES ASSUME NEW x \in old, x \in new PROVE FALSE
    OBVIOUS
  <2>1. PICK i \in Live(ty) : x \in InstsOf(i, comps_vec[i], before(i))
    BY <1>7
  <2>2. PICK o \in before(i) : x = Inst(i, comps_vec[i], o)
    BY <2>1 DEF InstsOf
  <2>3. PICK j \in Live(ty) : x \in InstsOf(j, comps_vec[j], fresh(j))
    BY <1>8
  <2>4. PICK p \in fresh(j) : x = Inst(j, comps_vec[j], p)
    BY <2>3 DEF InstsOf
  <2>5. i = j /\ o.recurrence_id = p.recurrence_id /\ o.via = p.via
    BY <2>2, <2>4 DEF Inst
  <2>6. o \in OccType /\ p \in OccType
    <3>1. before(i) \cup fresh(i) \in SUBSET OccType
      BY <1>0, <1>1, <1>5, OccurrencesType
    <3> QED BY <2>5, <3>1
  <2>7. o = p
    BY <2>5, <2>6 DEF OccType
  <2> QED BY <1>5, <2>5, <2>7
<1>13. cis_n'[ty] = Cardinality(old \cup new)
  <2>1. Cardinality(old \cup new)
            = Cardinality(old) + Cardinality(new) - Cardinality(old \cap new)
    BY <1>10, FS_Union
  <2>2. Cardinality(old \cap new) = 0
    BY <1>12, FS_EmptySet
  <2>3. Cardinality(old) \in Nat /\ Cardinality(new) \in Nat
    BY <1>10, FS_CardinalityType
  <2>4. Cardinality(old) = IF cis_dirty[ty] THEN 0 ELSE cis_n[ty]
    BY <1>10, FS_EmptySet DEF old
  <2> QED BY <1>6, <2>1, <2>2, <2>3, <2>4
<1>14. \A i \in Live(ty)' : Expanded(comps_vec'[i], horizon'[ty])
  BY <1>3, <1>4, <1>5
<1> QED BY <1>6, <1>11, <1>13, <1>14 DEF UpToDate

LEMMA ExpansionInit == Init => ExpansionInv
<1> SUFFICES ASSUME Init PROVE ExpansionInv
  OBVIOUS
<1>1. Indices = {}
  BY DEF Init, Indices
<1>2. ASSUME NEW ty \in Types PROVE UpToDate(ty)
  <2>1. DueInstances(ty) = {} /\ Live(ty) = {}
    BY <1>1 DEF DueInstances, Live
  <2> QED BY <2>1, FS_EmptySet DEF Init, UpToDate
<1> QED BY <1>1, <1>2 DEF ExpansionInv

\* A step that changes components of dirty types only, and no instances.
LEMMA EditKeeps ==
    ASSUME TypeOK, ExpansionInv, phase = "ready", phase' = "ready",
           UNCHANGED instVars, Indices \subseteq Indices',
           \A ty \in Types : cis_dirty[ty] => cis_dirty'[ty],
           \A i \in Indices : \/ comps_vec'[i] = comps_vec[i]
                              \/ /\ comps_vec'[i].type = comps_vec[i].type
                                 /\ cis_dirty'[comps_vec[i].type],
           \A i \in Indices' \ Indices : cis_dirty'[comps_vec'[i].type]
    PROVE  ExpansionInv'
<1> SUFFICES ASSUME NEW ty \in Types, ~cis_dirty'[ty] PROVE UpToDate(ty)'
  BY DEF ExpansionInv
<1>1. ~cis_dirty[ty] /\ UpToDate(ty)
  BY DEF ExpansionInv
<1>2. \A i \in Live(ty) : comps_vec'[i] = comps_vec[i]
  BY DEF Live
<1>3. Live(ty)' = Live(ty)
  BY DEF Live
<1>4. /\ cis'[ty] \cup taken'[ty] = cis[ty] \cup taken[ty]
      /\ cis_n'[ty] = cis_n[ty] /\ horizon'[ty] = horizon[ty]
  BY DEF instVars
<1> QED BY <1>1, <1>2, <1>3, <1>4, UpToDateKept

\* The shape of an addition, without its new entry's uid.
LEMMA AddShape ==
    ASSUME TypeOK, MapInVec, NEW c \in CompType, calendar_add_comp(c)
    PROVE  LET n == Len(comps_vec)
           IN  /\ n \in Nat /\ Indices = 1..n /\ Indices' = 1..(n + 1)
               /\ comps_vec'[n + 1] = c /\ cis_dirty'[c.type]
               /\ \A ty \in Types : cis_dirty[ty] => cis_dirty'[ty]
               /\ \A i \in Indices : \/ comps_vec'[i] = comps_vec[i]
                                     \/ /\ comps_vec'[i].type = comps_vec[i].type
                                        /\ cis_dirty'[comps_vec[i].type]
<1> DEFINE n == Len(comps_vec)
           idx == calendar_find_comp(c.uid)
<1>0. /\ n \in Nat /\ Indices = 1..n /\ c.uid \in Uids /\ c.type \in Types
      /\ cis_dirty \in [Types -> BOOLEAN]
      /\ \A i \in 1..n : comps_vec[i] \in CompType /\ comps_vec[i].type \in Types
  BY CompsAt DEF CompType, TypeOK, Indices
<1>1. ASSUME NEW vec \in Seq(CompType), NEW dirty \in [Types -> BOOLEAN],
             Len(vec) = n, add_comp_unchecked(vec, dirty, c)
      PROVE  /\ Indices' = 1..(n + 1) /\ comps_vec'[n + 1] = c
             /\ \A i \in 1..n : comps_vec'[i] = vec[i]
             /\ cis_dirty'[c.type]
             /\ \A ty \in Types : dirty[ty] => cis_dirty'[ty]
  BY <1>0, <1>1 DEF add_comp_unchecked, Indices
<1>2. CASE idx = NotFound
  <2>1. add_comp_unchecked(comps_vec, cis_dirty, c)
    BY <1>2 DEF calendar_add_comp
  <2> QED BY <1>0, <1>1, <2>1 DEF TypeOK
<1>3. CASE idx # NotFound
  <2> DEFINE vec == Deleted(comps_vec, idx)
             dirty == [cis_dirty EXCEPT ![comps_vec[idx].type] = TRUE]
  <2>1. idx \in 1..n /\ idx \in DOMAIN comps_vec
    BY <1>0, <1>3 DEF MapInVec, Indices, calendar_find_comp
  <2>2. /\ vec \in Seq(CompType) /\ Len(vec) = n
        /\ vec[idx] = [comps_vec[idx] EXCEPT !.deleted = TRUE]
        /\ \A j \in DOMAIN comps_vec \ {idx} : vec[j] = comps_vec[j]
    BY <2>1, DeletedType DEF TypeOK
  <2>3. /\ dirty \in [Types -> BOOLEAN] /\ dirty[comps_vec[idx].type]
        /\ \A ty \in Types : cis_dirty[ty] => dirty[ty]
    BY <1>0, <2>1
  <2>4. add_comp_unchecked(vec, dirty, c)
    BY <1>3 DEF calendar_add_comp
  <2>5. vec[idx].type = comps_vec[idx].type
    BY <1>0, <2>1, <2>2 DEF CompType
  <2> HIDE DEF vec, dirty, idx
  <2>6. /\ Indices' = 1..(n + 1) /\ comps_vec'[n + 1] = c
        /\ \A i \in 1..n : comps_vec'[i] = vec[i]
        /\ cis_dirty'[c.type]
        /\ \A ty \in Types : dirty[ty] => cis_dirty'[ty]
    BY <1>1, <2>2, <2>3, <2>4
  <2>7. cis_dirty'[comps_vec[idx].type]
    BY <1>0, <2>1, <2>3, <2>6
  <2> HIDE <2>4
  <2>8. \A i \in 1..n : \/ comps_vec'[i] = comps_vec[i]
                        \/ /\ comps_vec'[i].type = comps_vec[i].type
                           /\ cis_dirty'[comps_vec[i].type]
    <3> TAKE i \in 1..n
    <3>1. CASE i = idx
      BY <2>5, <2>6, <2>7, <3>1
    <3>2. CASE i # idx
      <4>1. i \in DOMAIN comps_vec \ {idx}
        BY <1>0, <3>2 DEF Indices
      <4> QED BY <2>2, <2>6, <4>1
    <3> QED BY <3>1, <3>2
  <2> QED BY <1>0, <2>3, <2>6, <2>8
<1> QED BY <1>2, <1>3

LEMMA ExpansionStep ==
    TypeOK /\ MapInVec /\ ExpansionInv /\ [Next]_vars => ExpansionInv'
<1> SUFFICES ASSUME TypeOK, MapInVec, ExpansionInv, [Next]_vars
             PROVE  ExpansionInv'
  OBVIOUS
<1>0. Starts \subseteq Times /\ InstIds \subseteq Times
  BY CalendarAssumption
<1>v. DOMAIN comps_vec = Indices
      /\ \A i \in Indices : comps_vec[i] \in CompType /\ comps_vec[i].type \in Types
  BY CompsAt DEF TypeOK, Indices, CompType
<1>i. ASSUME NEW u \in Uids, calendar_find_comp(u) # NotFound
      PROVE  calendar_find_comp(u) \in Indices
  BY <1>i DEF MapInVec, calendar_find_comp
\* The edits that change one entry and mark its type (and perhaps another).
<1>e. ASSUME NEW i \in Indices, NEW c, comps_vec' = [comps_vec EXCEPT ![i] = c],
             c.type = comps_vec[i].type,
             NEW tz \in Types,
             cis_dirty' = [cis_dirty EXCEPT ![comps_vec[i].type] = TRUE,
                                            ![tz] = TRUE],
             phase = "ready", phase' = "ready", UNCHANGED instVars
      PROVE  ExpansionInv'
  <2>1. Indices' = Indices
    BY <1>e, <1>v DEF Indices
  <2>2. \A j \in Indices : comps_vec'[j] = IF j = i THEN c ELSE comps_vec[j]
    BY <1>e, <1>v
  <2>3. \A ty \in Types : cis_dirty[ty] => cis_dirty'[ty]
    BY <1>e DEF TypeOK
  <2>4. cis_dirty'[comps_vec[i].type]
    BY <1>e, <1>v DEF TypeOK
  <2> QED BY <1>e, <2>1, <2>2, <2>3, <2>4, EditKeeps
<1>1. CASE BeginReload
  BY <1>1 DEF BeginReload, ExpansionInv
<1>2. ASSUME NEW u \in Uids, NEW ty \in Types, NEW s \in Starts,
             NEW r \in Recurrences \cup {NoRecur}, ParseComp(u, ty, s, r)
      PROVE  ExpansionInv'
  <2> DEFINE c == NewComp(u, ty, s, r)
             n == Len(comps_vec)
  <2>1. c \in CompType /\ calendar_add_comp(c) /\ UNCHANGED <<instVars, phase>>
        /\ phase # "ready"
    BY <1>0, <1>2, NewCompType DEF ParseComp
  <2> HIDE DEF c
  <2>2. /\ n \in Nat /\ Indices = 1..n /\ Indices' = 1..(n + 1)
        /\ comps_vec'[n + 1] = c /\ cis_dirty'[c.type]
        /\ \A ty2 \in Types : cis_dirty[ty2] => cis_dirty'[ty2]
        /\ \A i \in Indices : \/ comps_vec'[i] = comps_vec[i]
                              \/ /\ comps_vec'[i].type = comps_vec[i].type
                                 /\ cis_dirty'[comps_vec[i].type]
    BY <2>1, AddShape
  <2>3. CASE phase = "reload"
    BY <2>1, <2>3 DEF ExpansionInv
  <2>4. CASE phase = "load"
    <3>1. \A i \in Indices' : cis_dirty'[comps_vec'[i].type]
      <4> TAKE i \in Indices'
      <4>1. CASE i = n + 1
        BY <2>2, <4>1
      <4>2. CASE i \in Indices
        BY <1>v, <2>2, <2>4, <4>2 DEF ExpansionInv
      <4> QED BY <2>2, <4>1, <4>2
    <3>2. ASSUME NEW ty2 \in Types, ~cis_dirty'[ty2] PROVE UpToDate(ty2)'
      <4>1. ~cis_dirty[ty2] /\ UpToDate(ty2)
        BY <2>2, <2>4, <3>2 DEF ExpansionInv
      <4>2. Live(ty2) = {}
        BY <2>4, <4>1 DEF ExpansionInv, Live
      <4>3. Live(ty2)' = {}
        BY <3>1, <3>2 DEF Live
      <4> QED BY <2>1, <4>1, <4>2, <4>3, UpToDateKept DEF instVars
    <3> QED BY <2>1, <2>4, <3>1, <3>2 DEF ExpansionInv
  <2> QED BY <2>1, <2>3, <2>4 DEF TypeOK
<1>3. ASSUME NEW u \in Uids, NEW t \in InstIds, NEW s \in Starts,
             ParseRecurInst(u, t, s)
      PROVE  ExpansionInv'
  <2> DEFINE idx == calendar_find_comp(u)
             d == WithRecurInst(comps_vec[idx], t, s)
  <2>1. idx \in Indices /\ comps_vec[idx] \in CompType
    BY <1>3, <1>i, <1>v DEF ParseRecurInst
  <2>2. d.type = comps_vec[idx].type
    BY <2>1 DEF WithRecurInst, CompType
  <2>3. /\ comps_vec' = [comps_vec EXCEPT ![idx] = d]
        /\ UNCHANGED <<cis_dirty, instVars, phase>> /\ phase # "ready"
    BY <1>3 DEF ParseRecurInst
  <2> HIDE DEF d, idx
  <2>4. Indices' = Indices /\ \A i \in Indices : comps_vec'[i].type = comps_vec[i].type
    BY <2>1, <2>2, <2>3, <1>v DEF Indices
  <2>5. CASE phase = "reload"
    BY <2>3, <2>5 DEF ExpansionInv
  <2>6. CASE phase = "load"
    <3>1. \A i \in Indices : cis_dirty[comps_vec[i].type]
      BY <2>6 DEF ExpansionInv
    <3>2. ASSUME NEW ty \in Types, ~cis_dirty[ty] PROVE UpToDate(ty)'
      <4>1. UpToDate(ty) /\ Live(ty) = {} /\ Live(ty)' = {}
        BY <2>4, <2>6, <3>1, <3>2 DEF ExpansionInv, Live
      <4> QED BY <2>3, <4>1, UpToDateKept DEF instVars
    <3> QED BY <2>3, <2>4, <2>6, <3>1, <3>2 DEF ExpansionInv
  <2> QED BY <2>3, <2>5, <2>6 DEF TypeOK
<1>4. CASE EndParse
  <2>1. CASE phase = "reload"
    BY <1>4, <2>1 DEF EndParse, app_invalidate_calendars, ExpansionInv
  <2>2. CASE phase = "load"
    <3>1. UNCHANGED <<comps_vec, cis_dirty, cis, cis_n, taken, horizon>> /\ phase' = "ready"
      BY <1>4, <2>2 DEF EndParse
    <3>2. \A ty \in Types : Live(ty)' = Live(ty)
      BY <3>1 DEF Live, Indices
    <3>3. ASSUME NEW ty \in Types, ~cis_dirty[ty] PROVE UpToDate(ty)'
      <4>1. UpToDate(ty)
        BY <2>2, <3>3 DEF ExpansionInv
      <4> QED BY <3>1, <3>2, <4>1, UpToDateKept
    <3> QED BY <3>1, <3>3 DEF ExpansionInv
  <2> QED BY <1>4, <2>1, <2>2 DEF EndParse, TypeOK
<1>5. ASSUME NEW u \in Uids, NEW ty \in Types, NEW s \in Starts, Create(u, ty, s)
      PROVE  ExpansionInv'
  <2> DEFINE c == NewComp(u, ty, s, NoRecur)
             n == Len(comps_vec)
  <2>1. c \in CompType /\ c.uid = u
    BY <1>0, NewCompType DEF NewComp
  <2>2. calendar_add_comp(c)
    BY <1>5, <2>1 DEF Create, calendar_add_comp
  <2>3. phase = "ready" /\ phase' = "ready" /\ UNCHANGED instVars
    BY <1>5 DEF Create
  <2> HIDE DEF c
  <2>4. /\ n \in Nat /\ Indices = 1..n /\ Indices' = 1..(n + 1)
        /\ comps_vec'[n + 1] = c /\ cis_dirty'[c.type]
        /\ \A ty2 \in Types : cis_dirty[ty2] => cis_dirty'[ty2]
        /\ \A i \in Indices : \/ comps_vec'[i] = comps_vec[i]
                              \/ /\ comps_vec'[i].type = comps_vec[i].type
                                 /\ cis_dirty'[comps_vec[i].type]
    BY <2>1, <2>2, AddShape
  <2>5. Indices \subseteq Indices' /\ \A i \in Indices' \ Indices : i = n + 1
    BY <2>4
  <2> QED BY <2>3, <2>4, <2>5, EditKeeps
<1>6. ASSUME NEW u \in Uids, NEW s \in Starts, UpdateBase(u, s) PROVE ExpansionInv'
  <2> DEFINE idx == calendar_find_comp(u)
             d == [comps_vec[idx] EXCEPT !.start = s]
  <2>1. idx \in Indices /\ comps_vec[idx] \in CompType
    BY <1>6, <1>i, <1>v DEF UpdateBase
  <2>2. d.type = comps_vec[idx].type
    BY <2>1 DEF CompType
  <2>3. /\ comps_vec' = [comps_vec EXCEPT ![idx] = d]
        /\ cis_dirty' = [cis_dirty EXCEPT ![comps_vec[idx].type] = TRUE,
                                          ![comps_vec[idx].type] = TRUE]
        /\ phase = "ready" /\ phase' = "ready" /\ UNCHANGED instVars
    BY <1>6 DEF UpdateBase
  <2> HIDE DEF d, idx
  <2> QED BY <1>v, <2>1, <2>2, <2>3, <1>e
<1>7. ASSUME NEW u \in Uids, NEW t \in InstIds, NEW s \in Starts, UpdateInst(u, t, s)
      PROVE  ExpansionInv'
  <2> DEFINE idx == calendar_find_comp(u)
             w == WithRecurInst(comps_vec[idx], t, t)
             d == [w EXCEPT !.recur_insts[t] = s]
  <2>1. idx \in Indices /\ comps_vec[idx] \in CompType
    BY <1>7, <1>i, <1>v DEF UpdateInst
  <2>2. d.type = comps_vec[idx].type
    <3>1. w.type = comps_vec[idx].type
      BY <2>1 DEF WithRecurInst, CompType
    <3>2. w \in CompType
      BY <1>0, <2>1, WithRecurInstType
    <3> HIDE DEF w
    <3> QED BY <3>1, <3>2 DEF CompType
  <2>3. /\ comps_vec' = [comps_vec EXCEPT ![idx] = d]
        /\ cis_dirty' = [cis_dirty EXCEPT ![comps_vec[idx].type] = TRUE,
                                          ![comps_vec[idx].type] = TRUE]
        /\ phase = "ready" /\ phase' = "ready" /\ UNCHANGED instVars
    BY <1>7 DEF UpdateInst
  <2> HIDE DEF d, idx
  <2> QED BY <1>v, <2>1, <2>2, <2>3, <1>e
<1>8. ASSUME NEW u \in Uids, NEW ty \in Types, Delete(u, ty) PROVE ExpansionInv'
  <2> DEFINE idx == calendar_find_comp(u)
             d == [comps_vec[idx] EXCEPT !.deleted = TRUE]
  <2>1. idx \in Indices /\ comps_vec[idx] \in CompType
    BY <1>8, <1>i, <1>v DEF Delete
  <2>2. d.type = comps_vec[idx].type
    BY <2>1 DEF CompType
  <2>3. /\ comps_vec' = [comps_vec EXCEPT ![idx] = d]
        /\ cis_dirty' = [cis_dirty EXCEPT ![comps_vec[idx].type] = TRUE, ![ty] = TRUE]
        /\ phase = "ready" /\ phase' = "ready" /\ UNCHANGED instVars
    BY <1>8 DEF Delete, Deleted
  <2> HIDE DEF d, idx
  <2> QED BY <2>1, <2>2, <2>3, <1>e
<1>9. CASE Invalidate
  BY <1>9 DEF Invalidate, app_invalidate_calendars, ExpansionInv
<1>10. ASSUME NEW ty \in Types, NEW to \in Times,
              calendar_expand_instances_to(ty, to)
       PROVE  ExpansionInv'
  <2>1. phase = "ready" /\ phase' = "ready"
    BY <1>10 DEF calendar_expand_instances_to
  <2>2. UpToDate(ty)'
    BY <1>10, <2>1, ExpandUpToDate DEF ExpansionInv
  <2>3. ASSUME NEW ty2 \in Types, ty2 # ty, ~cis_dirty'[ty2] PROVE UpToDate(ty2)'
    <3>1. UpToDate(ty2)
      BY <1>10, <2>1, <2>3 DEF ExpansionInv, calendar_expand_instances_to, TypeOK
    <3>2. Indices' = Indices
      BY <1>10 DEF calendar_expand_instances_to, Indices
    <3>3. \A i \in Indices : SameData(comps_vec[i], comps_vec'[i])
      BY <1>10, ExpandedData
    <3>4. Live(ty2)' = Live(ty2)
      BY <3>2, <3>3 DEF Live, SameData
    <3>5. \A i \in Live(ty2) : comps_vec'[i] = comps_vec[i]
      BY <1>10, <2>3, ExpandedData DEF Live
    <3>6. /\ cis'[ty2] = cis[ty2] /\ taken'[ty2] = taken[ty2]
          /\ cis_n'[ty2] = cis_n[ty2] /\ horizon'[ty2] = horizon[ty2]
      BY <1>10, <2>3 DEF calendar_expand_instances_to, TypeOK
    <3> QED BY <3>1, <3>4, <3>5, <3>6, UpToDateKept
  <2> QED BY <2>1, <2>2, <2>3 DEF ExpansionInv
<1>11. ASSUME NEW ty \in Types, TakeInstances(ty) PROVE ExpansionInv'
  <2>1. /\ phase = "ready" /\ phase' = "ready"
        /\ UNCHANGED <<comps_vec, cis_dirty, cis_n, horizon>>
    BY <1>11 DEF TakeInstances
  <2>2. ASSUME NEW ty2 \in Types, ~cis_dirty[ty2] PROVE UpToDate(ty2)'
    <3>1. UpToDate(ty2)
      BY <2>1, <2>2 DEF ExpansionInv
    <3>2. Live(ty2)' = Live(ty2)
      BY <2>1 DEF Live, Indices
    <3>3. cis'[ty2] \cup taken'[ty2] = cis[ty2] \cup taken[ty2]
      BY <1>11 DEF TakeInstances, TypeOK
    <3> QED BY <2>1, <3>1, <3>2, <3>3, UpToDateKept
  <2> QED BY <2>1, <2>2 DEF ExpansionInv
<1>12. CASE UNCHANGED vars
  <2>1. UNCHANGED <<comps_vec, cis_dirty, cis, cis_n, taken, horizon, phase>>
    BY <1>12 DEF vars
  <2>2. \A ty \in Types : Live(ty)' = Live(ty)
    BY <2>1 DEF Live, Indices
  <2>3. ASSUME NEW ty \in Types, phase # "reload", ~cis_dirty[ty] PROVE UpToDate(ty)'
    <3>1. UpToDate(ty)
      BY <2>3 DEF ExpansionInv
    <3> QED BY <2>1, <2>2, <3>1, UpToDateKept
  <2> QED BY <2>1, <2>3 DEF ExpansionInv, Indices
<1> QED
  BY <1>1, <1>2, <1>3, <1>4, <1>5, <1>6, <1>7, <1>8, <1>9, <1>10, <1>11, <1>12
  DEF Next, ParseStep, EditStep, InstanceStep

\* The iterators stand at the horizon and the instances are complete whenever
\* a type is clean (calendar_expand_instances_to, comp_recur_expand).
THEOREM ExpansionInvariant == Spec => []ExpansionInv
<1>1. Spec => [](TypeOK /\ MapInVec /\ ExpansionInv)
  BY TypeInit, TypeStep, ExpansionInit, ExpansionStep, PTL DEF Spec
<1> QED BY <1>1, PTL

\* The application is never shown a stale instance and never misses one: the
\* tree and what was taken from it are exactly the live components'
\* occurrences up to the horizon (calendar_expand_instances_to).
THEOREM InstancesAlwaysExact == Spec => []InstancesExact
<1>1. ExpansionInv => InstancesExact
  BY DEF ExpansionInv, InstancesExact, Current, UpToDate
<1> QED BY <1>1, ExpansionInvariant, PTL

\* No occurrence is inserted twice between two rebuilds (comp_recur_cb_fn).
THEOREM InstancesAlwaysOnce == Spec => []InstancesOnce
<1>1. ExpansionInv => InstancesOnce
  BY DEF ExpansionInv, InstancesOnce, Current, UpToDate
<1> QED BY <1>1, ExpansionInvariant, PTL

(***************************************************************************)
(* Instances that are held, or will be taken next, can be edited.          *)
(***************************************************************************)
Reachable(ty) == taken[ty] \cup (IF cis_dirty[ty] THEN {} ELSE cis[ty])

Anchored(ci, ty) ==
    /\ ci.comp_idx \in Indices
    /\ comps_vec[ci.comp_idx].type = ty
    /\ Editable(ci)

HeldInv ==
    /\ phase = "load" => \A ty \in Types : cis[ty] = {} /\ taken[ty] = {}
    /\ phase = "ready" => \A ty \in Types : \A ci \in Reachable(ty) : Anchored(ci, ty)

\* An instance stays anchored while its component keeps its type, its uid and
\* its place in the map, and forgets no recurrence id.
LEMMA AnchoredKept ==
    ASSUME NEW ty, NEW ci, Anchored(ci, ty), NEW i, i = ci.comp_idx, i \in Indices',
           comps_vec'[i].type = comps_vec[i].type,
           comps_vec'[i].uid = comps_vec[i].uid,
           comps_map[comps_vec[i].uid] = i => comps_map'[comps_vec[i].uid] = i,
           DOMAIN comps_vec[i].recur_insts \subseteq DOMAIN comps_vec'[i].recur_insts,
           comps_vec[i].recur_cache \subseteq comps_vec'[i].recur_cache
    PROVE  Anchored(ci, ty)'
BY DEF Anchored, Editable, comp_get_recur_point, calendar_find_comp

LEMMA HeldKept ==
    ASSUME HeldInv, phase = "ready", phase' = "ready",
           \A ty \in Types : Reachable(ty)' \subseteq Reachable(ty),
           Indices \subseteq Indices',
           \A i \in Indices :
               /\ comps_vec'[i].type = comps_vec[i].type
               /\ comps_vec'[i].uid = comps_vec[i].uid
               /\ comps_map[comps_vec[i].uid] = i => comps_map'[comps_vec[i].uid] = i
               /\ DOMAIN comps_vec[i].recur_insts \subseteq DOMAIN comps_vec'[i].recur_insts
               /\ comps_vec[i].recur_cache \subseteq comps_vec'[i].recur_cache
    PROVE  HeldInv'
<1> SUFFICES ASSUME NEW ty \in Types, NEW ci \in Reachable(ty)' PROVE Anchored(ci, ty)'
  BY DEF HeldInv
<1>1. Anchored(ci, ty)
  BY DEF HeldInv
<1>2. ci.comp_idx \in Indices
  BY <1>1 DEF Anchored
<1> QED BY <1>1, <1>2, AnchoredKept

\* The occurrences an expansion reports are known to their component after it.
LEMMA ReportedKnown ==
    ASSUME NEW c \in CompType, NEW to \in Times, NEW o \in Reported(c, to)
    PROVE  \/ o.recurrence_id = -1
           \/ comp_get_recur_point(comp_recur_expand(c, to), o.recurrence_id)
<1> DEFINE e == comp_recur_expand(c, to)
<1>1. e.recur_insts = c.recur_insts /\ OccStart(c, o) \in e.recur_cache
  BY ExpandFields DEF SameData
<1> QED BY <1>1 DEF OccStart, comp_get_recur_point

LEMMA HeldExpand ==
    ASSUME TypeOK, OneLivePerUid, HeldInv, NEW ty \in Types, NEW to \in Times,
           calendar_expand_instances_to(ty, to)
    PROVE  HeldInv'
<1> DEFINE vec == Rebased(ty)
           new == UNION {InstsOf(i, vec[i], Reported(vec[i], to)) :
                             i \in Expanding(vec, ty)}
<1>1. /\ phase = "ready" /\ phase' = "ready" /\ UNCHANGED comps_map
      /\ Indices' = Indices
      /\ \A t2 \in Types \ {ty} : Reachable(t2)' = Reachable(t2)
      /\ Reachable(ty)' = new \cup (IF cis_dirty[ty] THEN {} ELSE Reachable(ty))
  BY DEF calendar_expand_instances_to, Indices, Reachable, TypeOK
<1>2. ASSUME NEW i \in Indices
      PROVE  comps_vec[i] \in CompType /\ SameData(comps_vec[i], comps_vec'[i])
  BY ExpandedData, CompsAt DEF TypeOK, Indices
<1>3. ASSUME NEW i \in Indices, comps_vec[i].type # ty \/ ~cis_dirty[ty]
      PROVE  comps_vec[i].recur_cache \subseteq comps_vec'[i].recur_cache
  <2>1. CASE comps_vec[i].type # ty \/ i \notin Live(ty)
    <3>1. comps_vec'[i] = comps_vec[i]
      BY <1>3, <2>1, ExpandedData
    <3> QED BY <3>1
  <2>2. CASE comps_vec[i].type = ty /\ i \in Live(ty)
    <3>1. comps_vec'[i] = comp_recur_expand(comps_vec[i], to)
      BY <1>3, <2>2, ExpandedData
    <3> QED BY <1>2, <3>1, ExpandFields
  <2> QED BY <2>1, <2>2
<1>4. ASSUME NEW t2 \in Types, NEW ci \in Reachable(t2), t2 # ty \/ ~cis_dirty[ty]
      PROVE  Anchored(ci, t2)'
  <2>1. Anchored(ci, t2) /\ ci.comp_idx \in Indices
        /\ comps_vec[ci.comp_idx].type = t2
    BY <1>1, <1>4 DEF HeldInv, Anchored
  <2>2. comps_vec[ci.comp_idx].recur_cache \subseteq comps_vec'[ci.comp_idx].recur_cache
    BY <1>3, <1>4, <2>1
  <2>3. SameData(comps_vec[ci.comp_idx], comps_vec'[ci.comp_idx])
    BY <1>2, <2>1
  <2> QED BY <1>1, <2>1, <2>2, <2>3, AnchoredKept DEF SameData
<1>5. ASSUME NEW ci \in new PROVE Anchored(ci, ty)'
  <2>1. PICK i \in Expanding(vec, ty) : ci \in InstsOf(i, vec[i], Reported(vec[i], to))
    OBVIOUS
  <2>2. PICK o \in Reported(vec[i], to) : ci = Inst(i, vec[i], o)
    BY <2>1 DEF InstsOf
  <2>3. ci.comp_idx = i /\ ci.recurrence_id = o.recurrence_id
    BY <2>2 DEF Inst
  <2>4. i \in Indices /\ vec[i].type = ty /\ ~vec[i].deleted
    BY <2>1 DEF Expanding, Rebased
  <2>5. vec[i] \in CompType
    BY <2>4, RebasedType, CompsAt
  <2>6. comps_vec'[i] = comp_recur_expand(vec[i], to)
    BY <2>1, <2>4 DEF calendar_expand_instances_to
  <2>7. SameData(vec[i], comps_vec'[i])
    BY <2>5, <2>6, ExpandFields
  <2>8. /\ comps_vec'[i].type = ty
        /\ comps_vec'[i].uid = comps_vec[i].uid /\ ~comps_vec[i].deleted
    BY <1>2, <2>4, <2>7 DEF SameData
  <2>9. comps_map'[comps_vec'[i].uid] = i
    BY <1>1, <2>4, <2>8 DEF OneLivePerUid
  <2>10. \/ ci.recurrence_id = -1
         \/ comp_get_recur_point(comps_vec'[i], ci.recurrence_id)
    BY <2>2, <2>3, <2>5, <2>6, ReportedKnown
  <2> QED BY <1>1, <2>3, <2>4, <2>8, <2>9, <2>10
          DEF Anchored, Editable, calendar_find_comp, comp_get_recur_point
<1> HIDE DEF new, vec
<1> QED BY <1>1, <1>4, <1>5 DEF HeldInv

LEMMA HeldStep ==
    TypeOK /\ MapInVec /\ StoreInv /\ HeldInv /\ [Next]_vars => HeldInv'
<1> SUFFICES ASSUME TypeOK, MapInVec, StoreInv, HeldInv, [Next]_vars PROVE HeldInv'
  OBVIOUS
<1>0. Starts \subseteq Times /\ InstIds \subseteq Times
  BY CalendarAssumption
<1>v. DOMAIN comps_vec = Indices
      /\ \A i \in Indices : comps_vec[i] \in CompType /\ comps_vec[i].type \in Types
  BY CompsAt DEF TypeOK, Indices, CompType
<1>i. ASSUME NEW u \in Uids, calendar_find_comp(u) # NotFound
      PROVE  calendar_find_comp(u) \in Indices
  BY <1>i DEF MapInVec, calendar_find_comp
\* An edit of one entry.
<1>e. ASSUME NEW i \in Indices, NEW c, comps_vec' = [comps_vec EXCEPT ![i] = c],
             c.type = comps_vec[i].type, c.uid = comps_vec[i].uid,
             DOMAIN comps_vec[i].recur_insts \subseteq DOMAIN c.recur_insts,
             comps_vec[i].recur_cache \subseteq c.recur_cache,
             \A ty \in Types : cis_dirty[ty] => cis_dirty'[ty],
             phase = "ready", phase' = "ready", UNCHANGED <<comps_map, instVars>>
      PROVE  HeldInv'
  <2>1. Indices' = Indices
    BY <1>e, <1>v DEF Indices
  <2>2. \A j \in Indices : comps_vec'[j] = IF j = i THEN c ELSE comps_vec[j]
    BY <1>e, <1>v
  <2>3. \A ty \in Types : Reachable(ty)' \subseteq Reachable(ty)
    BY <1>e DEF Reachable, instVars
  <2> HIDE DEF HeldInv
  <2>4. \A j \in Indices :
               /\ comps_vec'[j].type = comps_vec[j].type
               /\ comps_vec'[j].uid = comps_vec[j].uid
               /\ comps_map[comps_vec[j].uid] = j => comps_map'[comps_vec[j].uid] = j
               /\ DOMAIN comps_vec[j].recur_insts \subseteq DOMAIN comps_vec'[j].recur_insts
               /\ comps_vec[j].recur_cache \subseteq comps_vec'[j].recur_cache
    BY <1>e, <2>2
  <2> QED BY <1>e, <2>1, <2>3, <2>4, HeldKept
<1>d. ASSUME NEW i \in Indices, NEW ty \in Types,
             cis_dirty' = [cis_dirty EXCEPT ![comps_vec[i].type] = TRUE]
             \/ cis_dirty' = [cis_dirty EXCEPT ![comps_vec[i].type] = TRUE, ![ty] = TRUE]
      PROVE  \A t2 \in Types : cis_dirty[t2] => cis_dirty'[t2]
  BY <1>d DEF TypeOK
<1>1. CASE BeginReload
  BY <1>1 DEF BeginReload, HeldInv
<1>2. ASSUME NEW u \in Uids, NEW ty \in Types, NEW s \in Starts,
             NEW r \in Recurrences \cup {NoRecur}, ParseComp(u, ty, s, r)
      PROVE  HeldInv'
  BY <1>2 DEF ParseComp, HeldInv, instVars
<1>3. ASSUME NEW u \in Uids, NEW t \in InstIds, NEW s \in Starts,
             ParseRecurInst(u, t, s)
      PROVE  HeldInv'
  BY <1>3 DEF ParseRecurInst, HeldInv, instVars
<1>4. CASE EndParse
  <2>1. phase' = "ready" /\ \A ty \in Types : Reachable(ty)' = {}
    BY <1>4 DEF EndParse, app_invalidate_calendars, Reachable, HeldInv, TypeOK
  <2> QED BY <2>1 DEF HeldInv
<1>5. ASSUME NEW u \in Uids, NEW ty \in Types, NEW s \in Starts, Create(u, ty, s)
      PROVE  HeldInv'
  <2> DEFINE c == NewComp(u, ty, s, NoRecur)
  <2>1. c \in CompType /\ c.uid = u
    BY <1>0, NewCompType DEF NewComp
  <2>2. /\ phase = "ready" /\ phase' = "ready" /\ UNCHANGED instVars
        /\ comps_map[u] = NotFound
        /\ comps_vec' = Append(comps_vec, c)
        /\ comps_map' = [comps_map EXCEPT ![u] = Len(comps_vec) + 1]
        /\ cis_dirty' = [cis_dirty EXCEPT ![c.type] = TRUE]
    BY <1>5, <2>1 DEF Create, add_comp_unchecked, calendar_find_comp
  <2> HIDE DEF c
  <2>3. Indices \subseteq Indices' /\ \A i \in Indices : comps_vec'[i] = comps_vec[i]
    BY <2>1, <2>2, CompsAt DEF TypeOK, Indices
  <2>4. ASSUME NEW i \in Indices, comps_map[comps_vec[i].uid] = i
        PROVE  comps_map'[comps_vec[i].uid] = i
    <3>1. i \in Nat /\ comps_vec[i].uid \in Uids
      BY <1>v, CompsAt DEF CompType, TypeOK, Indices
    <3>2. comps_vec[i].uid # u
      BY <2>2, <2>4, <3>1 DEF NotFound
    <3> QED BY <2>2, <2>4, <3>1, <3>2 DEF TypeOK
  <2>5. \A t2 \in Types : Reachable(t2)' \subseteq Reachable(t2)
    BY <2>1, <2>2 DEF Reachable, instVars, TypeOK
  <2> QED BY <2>2, <2>3, <2>4, <2>5, HeldKept
<1>6. ASSUME NEW u \in Uids, NEW s \in Starts, UpdateBase(u, s) PROVE HeldInv'
  <2> DEFINE idx == calendar_find_comp(u)
             d == [comps_vec[idx] EXCEPT !.start = s]
  <2>1. idx \in Indices /\ comps_vec[idx] \in CompType /\ comps_vec[idx].type \in Types
    BY <1>6, <1>i, <1>v DEF UpdateBase
  <2>2. /\ d.type = comps_vec[idx].type /\ d.uid = comps_vec[idx].uid
        /\ d.recur_insts = comps_vec[idx].recur_insts
        /\ d.recur_cache = comps_vec[idx].recur_cache
    BY <2>1 DEF CompType
  <2>3. /\ comps_vec' = [comps_vec EXCEPT ![idx] = d]
        /\ cis_dirty' = [cis_dirty EXCEPT ![comps_vec[idx].type] = TRUE]
        /\ phase = "ready" /\ phase' = "ready" /\ UNCHANGED <<comps_map, instVars>>
    BY <1>6 DEF UpdateBase
  <2> HIDE DEF d, idx
  <2> QED BY <2>1, <2>2, <2>3, <1>d, <1>e
<1>7. ASSUME NEW u \in Uids, NEW t \in InstIds, NEW s \in Starts, UpdateInst(u, t, s)
      PROVE  HeldInv'
  <2> DEFINE idx == calendar_find_comp(u)
             w == WithRecurInst(comps_vec[idx], t, t)
             d == [w EXCEPT !.recur_insts[t] = s]
  <2>1. idx \in Indices /\ comps_vec[idx] \in CompType /\ comps_vec[idx].type \in Types
    BY <1>7, <1>i, <1>v DEF UpdateInst
  <2>2. /\ d.type = comps_vec[idx].type /\ d.uid = comps_vec[idx].uid
        /\ DOMAIN comps_vec[idx].recur_insts \subseteq DOMAIN d.recur_insts
        /\ d.recur_cache = comps_vec[idx].recur_cache
    <3>1. /\ w.type = comps_vec[idx].type /\ w.uid = comps_vec[idx].uid
          /\ DOMAIN comps_vec[idx].recur_insts \subseteq DOMAIN w.recur_insts
          /\ w.recur_cache = comps_vec[idx].recur_cache
      BY <2>1 DEF WithRecurInst, CompType
    <3>2. w \in CompType
      BY <1>0, <2>1, WithRecurInstType
    <3> HIDE DEF w
    <3> QED BY <3>1, <3>2 DEF CompType
  <2>3. /\ comps_vec' = [comps_vec EXCEPT ![idx] = d]
        /\ cis_dirty' = [cis_dirty EXCEPT ![comps_vec[idx].type] = TRUE]
        /\ phase = "ready" /\ phase' = "ready" /\ UNCHANGED <<comps_map, instVars>>
    BY <1>7 DEF UpdateInst
  <2> HIDE DEF d, idx
  <2> QED BY <2>1, <2>2, <2>3, <1>d, <1>e
<1>8. ASSUME NEW u \in Uids, NEW ty \in Types, Delete(u, ty) PROVE HeldInv'
  <2> DEFINE idx == calendar_find_comp(u)
             d == [comps_vec[idx] EXCEPT !.deleted = TRUE]
  <2>1. idx \in Indices /\ comps_vec[idx] \in CompType
    BY <1>8, <1>i, <1>v DEF Delete
  <2>2. /\ d.type = comps_vec[idx].type /\ d.uid = comps_vec[idx].uid
        /\ d.recur_insts = comps_vec[idx].recur_insts
        /\ d.recur_cache = comps_vec[idx].recur_cache
    BY <2>1 DEF CompType
  <2>3. /\ comps_vec' = [comps_vec EXCEPT ![idx] = d]
        /\ cis_dirty' = [cis_dirty EXCEPT ![comps_vec[idx].type] = TRUE, ![ty] = TRUE]
        /\ phase = "ready" /\ phase' = "ready" /\ UNCHANGED <<comps_map, instVars>>
    BY <1>8 DEF Delete, Deleted
  <2> HIDE DEF d, idx
  <2> QED BY <2>1, <2>2, <2>3, <1>d, <1>e
<1>9. CASE Invalidate
  <2>1. \A ty \in Types : Reachable(ty)' \subseteq Reachable(ty)
    BY <1>9 DEF Invalidate, app_invalidate_calendars, Reachable
  <2> QED BY <1>9, <2>1, HeldKept DEF Invalidate, Indices
<1>10. ASSUME NEW ty \in Types, NEW to \in Times,
              calendar_expand_instances_to(ty, to)
       PROVE  HeldInv'
  BY <1>10, HeldExpand DEF StoreInv
<1>11. ASSUME NEW ty \in Types, TakeInstances(ty) PROVE HeldInv'
  <2>1. \A t2 \in Types : Reachable(t2)' \subseteq Reachable(t2)
    BY <1>11 DEF TakeInstances, Reachable, TypeOK
  <2> QED BY <1>11, <2>1, HeldKept DEF TakeInstances, Indices
<1>12. CASE UNCHANGED vars
  <2>1. UNCHANGED <<comps_vec, comps_map, cis_dirty, cis, taken, phase>>
    BY <1>12 DEF vars
  <2> QED BY <2>1 DEF HeldInv, Reachable, Anchored, Editable, Indices,
                      calendar_find_comp
<1> QED
  BY <1>1, <1>2, <1>3, <1>4, <1>5, <1>6, <1>7, <1>8, <1>9, <1>10, <1>11, <1>12
  DEF Next, ParseStep, EditStep, InstanceStep

\* Whatever has been edited or reloaded meanwhile, the uid and recurrence id
\* of an instance the application holds lead to the component it was made
\* from and to a recurrence point of it (apply_to_memory, comp_get_recur_point).
THEOREM HeldAlwaysEditable == Spec => []HeldInstancesEditable
<1>1. Init => HeldInv
  BY DEF Init, HeldInv
<1>2. Spec => [](TypeOK /\ MapInVec /\ StoreInv /\ HeldInv)
  BY <1>1, TypeInit, TypeStep, StoreInit, StoreStep, HeldStep, PTL DEF Spec
<1>3. HeldInv => HeldInstancesEditable
  BY DEF HeldInv, HeldInstancesEditable, Reachable, Anchored
<1> QED BY <1>2, <1>3, PTL
=============================================================================
