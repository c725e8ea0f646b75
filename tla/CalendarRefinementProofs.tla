---------------------- MODULE CalendarRefinementProofs ----------------------
(***************************************************************************)
(* Calendar implements CalendarView, for any times, rules, uids and types  *)
(* and for calendars of any size: each call maps to a step of the table,   *)
(* or to one that changes nothing that can be seen.                        *)
(***************************************************************************)
EXTENDS CalendarRefinement, CalendarProofs

(***************************************************************************)
(* The mapping, read off the uid map                                       *)
(***************************************************************************)
Row(c) == [type |-> c.type, start |-> c.start, recur |-> c.recur,
           recur_insts |-> c.recur_insts]

LiveAt(u) == comps_map[u] # NotFound /\ ~comps_vec[comps_map[u]].deleted

HorizonInv == \A ty \in Types : horizon[ty] \in Times \cup {0}

AllInv == TypeOK /\ MapInVec /\ StoreInv /\ ExpansionInv /\ HorizonInv

LEMMA CompAt ==
    ASSUME TypeOK, NEW i \in Indices
    PROVE  comps_vec[i] \in CompType /\ i \in Nat /\ comps_vec[i].uid \in Uids
           /\ comps_vec[i].type \in Types
BY CompsAt DEF TypeOK, Indices, CompType

LEMMA RowTyped == ASSUME NEW c \in CompType PROVE Row(c) \in RowType /\ Row(c) # Absent
<1>1. Row(c) \in RowType
  BY DEF CompType, Row, RowType
<1> QED BY <1>1, AbsentAssumption

\* The only live component of a uid is the one the map leads to.
LEMMA LiveOfUid ==
    ASSUME TypeOK, MapInVec, StoreInv, NEW u \in Uids
    PROVE  /\ \A i \in LiveIndices : comps_vec[i].uid = u => LiveAt(u) /\ i = comps_map[u]
           /\ LiveAt(u) => /\ comps_map[u] \in LiveIndices /\ comps_map[u] \in Indices
                           /\ comps_vec[comps_map[u]].uid = u
<1>1. ASSUME NEW i \in LiveIndices, comps_vec[i].uid = u
      PROVE  LiveAt(u) /\ i = comps_map[u]
  <2>1. i \in Indices /\ ~comps_vec[i].deleted
    BY DEF LiveIndices
  <2>2. comps_map[u] = i
    BY <1>1, <2>1 DEF StoreInv, OneLivePerUid
  <2>3. i # NotFound
    BY <2>1, CompAt DEF NotFound
  <2> QED BY <2>1, <2>2, <2>3 DEF LiveAt
<1>2. ASSUME LiveAt(u)
      PROVE  /\ comps_map[u] \in LiveIndices /\ comps_map[u] \in Indices
             /\ comps_vec[comps_map[u]].uid = u
  <2>1. comps_map[u] \in Indices
    BY <1>2 DEF LiveAt, MapInVec
  <2>2. comps_vec[comps_map[u]].uid = u
    BY <1>2, <2>1 DEF LiveAt, StoreInv, MapFindsLatest
  <2> QED BY <1>2, <2>1, <2>2 DEF LiveAt, LiveIndices
<1> QED BY <1>1, <1>2

TableAt(u) == IF LiveAt(u) THEN Row(comps_vec[comps_map[u]]) ELSE Absent

TableIs == tableBar = [u \in Uids |-> TableAt(u)]

LEMMA TableNow == AllInv => TableIs
<1> SUFFICES ASSUME AllInv, NEW u \in Uids
             PROVE  tableBar[u] = TableAt(u)
  BY DEF TableIs, tableBar
<1>1. CASE LiveAt(u)
  <2>1. \A i : (i \in LiveIndices /\ comps_vec[i].uid = u) <=> i = comps_map[u]
    BY <1>1, LiveOfUid DEF AllInv
  <2>2. (CHOOSE i \in LiveIndices : comps_vec[i].uid = u) = comps_map[u]
    BY <2>1
  <2> QED BY <1>1, <2>1, <2>2 DEF tableBar, Row, TableAt
<1>2. CASE ~LiveAt(u)
  <2>1. ~ \E i \in LiveIndices : comps_vec[i].uid = u
    BY <1>2, LiveOfUid DEF AllInv
  <2> QED BY <1>2, <2>1 DEF tableBar, TableAt
<1> QED BY <1>1, <1>2

\* Who is in the table.
PresentIs ==
    \A u \in Uids : IF LiveAt(u)
                    THEN u \in Promise!Present /\ tableBar[u] = Row(comps_vec[comps_map[u]])
                    ELSE u \notin Promise!Present /\ tableBar[u] = Absent

LEMMA PresentNow == AllInv => PresentIs
<1> SUFFICES ASSUME AllInv, NEW u \in Uids
             PROVE  IF LiveAt(u)
                    THEN u \in Promise!Present /\ tableBar[u] = Row(comps_vec[comps_map[u]])
                    ELSE u \notin Promise!Present /\ tableBar[u] = Absent
  BY DEF PresentIs
<1>1. tableBar[u] = IF LiveAt(u) THEN Row(comps_vec[comps_map[u]]) ELSE Absent
  BY TableNow DEF TableIs, TableAt
<1>2. LiveAt(u) => Row(comps_vec[comps_map[u]]) # Absent
  BY CompAt, RowTyped DEF LiveAt, AllInv, MapInVec
<1> QED BY <1>1, <1>2 DEF Promise!Present

\* The instances of a settled type are those of the table's entries.
ShownIs ==
    \A ty \in Types : shownBar[ty] = IF Current(ty) THEN Promise!Due(ty, horizon[ty]) ELSE {}

Named(ci) == [uid |-> comps_vec[ci.comp_idx].uid, recurrence_id |-> ci.recurrence_id,
              via |-> ci.via, start |-> ci.start]

LEMMA ShownNow == AllInv => ShownIs
<1> SUFFICES ASSUME AllInv, NEW ty \in Types, Current(ty)
             PROVE  shownBar[ty] = Promise!Due(ty, horizon[ty])
  BY DEF ShownIs, shownBar
<1> DEFINE h == horizon[ty]
<1>1. shownBar[ty] = {Named(ci) : ci \in DueInstances(ty)}
  BY DEF shownBar, Named, AllInv, ExpansionInv, Current, UpToDate
<1>2. \A c, o : /\ Promise!OccurrencesUpTo(Row(c), h) = OccurrencesUpTo(c, h)
                /\ Promise!OccStart(Row(c), o) = OccStart(c, o)
  BY DEF Promise!OccurrencesUpTo, Promise!OccStart, Promise!Occ, OccurrencesUpTo, OccStart,
         Occ, Row
<1> DEFINE Shape(u, c, o) ==
      [uid |-> u, recurrence_id |-> o.recurrence_id, via |-> o.via, start |-> OccStart(c, o)]
<1>3. ASSUME NEW i \in Live(ty)
      PROVE  /\ comps_vec[i].uid \in Promise!Present
             /\ tableBar[comps_vec[i].uid] = Row(comps_vec[i])
             /\ tableBar[comps_vec[i].uid].type = ty
  <2>1. i \in LiveIndices /\ comps_vec[i].uid \in Uids /\ comps_vec[i].type = ty
    BY CompAt DEF Live, LiveIndices, AllInv
  <2>2. LiveAt(comps_vec[i].uid) /\ i = comps_map[comps_vec[i].uid]
    BY <2>1, LiveOfUid DEF AllInv
  <2> QED BY <2>1, <2>2, PresentNow DEF PresentIs, Row
<1>4. ASSUME NEW u \in Promise!Present, tableBar[u].type = ty
      PROVE  /\ comps_map[u] \in Live(ty)
             /\ tableBar[u] = Row(comps_vec[comps_map[u]])
             /\ comps_vec[comps_map[u]].uid = u
  <2>1. u \in Uids
    BY DEF Promise!Present
  <2>2. LiveAt(u) /\ tableBar[u] = Row(comps_vec[comps_map[u]])
    BY <2>1, PresentNow DEF PresentIs
  <2>3. comps_map[u] \in LiveIndices /\ comps_vec[comps_map[u]].uid = u
    BY <2>1, <2>2, LiveOfUid DEF AllInv
  <2> QED BY <1>4, <2>2, <2>3 DEF Live, LiveIndices, Row
<1>5. \A x : x \in {Named(ci) : ci \in DueInstances(ty)} <=>
         \E i \in Live(ty) : \E o \in OccurrencesUpTo(comps_vec[i], h) :
             x = Shape(comps_vec[i].uid, comps_vec[i], o)
  <2>1. \A i, o : Named(Inst(i, comps_vec[i], o)) = Shape(comps_vec[i].uid, comps_vec[i], o)
    BY DEF Named, Inst
  <2>2. \A ci : (ci \in DueInstances(ty)) <=>
           (\E i \in Live(ty) : \E o \in OccurrencesUpTo(comps_vec[i], h) :
               ci = Inst(i, comps_vec[i], o))
    BY DEF DueInstances, InstsOf
  <2>3. ASSUME NEW x, x \in {Named(ci) : ci \in DueInstances(ty)}
        PROVE  \E i \in Live(ty) : \E o \in OccurrencesUpTo(comps_vec[i], h) :
                   x = Shape(comps_vec[i].uid, comps_vec[i], o)
    <3>1. PICK ci \in DueInstances(ty) : x = Named(ci)
      BY <2>3
    <3>2. PICK i \in Live(ty) : \E o \in OccurrencesUpTo(comps_vec[i], h) :
              ci = Inst(i, comps_vec[i], o)
      BY <2>2
    <3>3. PICK o \in OccurrencesUpTo(comps_vec[i], h) : ci = Inst(i, comps_vec[i], o)
      BY <3>2
    <3> QED BY <2>1, <3>1, <3>3
  <2>4. ASSUME NEW i \in Live(ty), NEW o \in OccurrencesUpTo(comps_vec[i], h)
        PROVE  Shape(comps_vec[i].uid, comps_vec[i], o)
                   \in {Named(ci) : ci \in DueInstances(ty)}
    <3>1. Inst(i, comps_vec[i], o) \in DueInstances(ty)
      BY <2>2
    <3> QED BY <2>1, <3>1
  <2> QED BY <2>3, <2>4
<1> DEFINE Seen(u, o) ==
      [uid |-> u, recurrence_id |-> o.recurrence_id, via |-> o.via,
       start |-> Promise!OccStart(tableBar[u], o)]
<1>6. \A x : (x \in Promise!Due(ty, h)) <=>
         (\E u \in Promise!Present : tableBar[u].type = ty /\
             \E o \in Promise!OccurrencesUpTo(tableBar[u], h) : x = Seen(u, o))
  BY DEF Promise!Due
<1>7. ASSUME NEW x, x \in {Named(ci) : ci \in DueInstances(ty)} PROVE x \in Promise!Due(ty, h)
  <2>0. PICK i \in Live(ty) : \E o \in OccurrencesUpTo(comps_vec[i], h) :
            x = Shape(comps_vec[i].uid, comps_vec[i], o)
    BY <1>5, <1>7
  <2>1. PICK o \in OccurrencesUpTo(comps_vec[i], h) :
            x = Shape(comps_vec[i].uid, comps_vec[i], o)
    BY <2>0
  <2>2. /\ o \in Promise!OccurrencesUpTo(tableBar[comps_vec[i].uid], h)
        /\ Promise!OccStart(tableBar[comps_vec[i].uid], o) = OccStart(comps_vec[i], o)
    BY <1>2, <1>3
  <2> QED BY <1>3, <1>6, <2>1, <2>2
<1>8. ASSUME NEW x, x \in Promise!Due(ty, h) PROVE x \in {Named(ci) : ci \in DueInstances(ty)}
  <2>1. PICK u \in Promise!Present : tableBar[u].type = ty /\
             \E o \in Promise!OccurrencesUpTo(tableBar[u], h) : x = Seen(u, o)
    BY <1>6, <1>8
  <2>2. PICK o \in Promise!OccurrencesUpTo(tableBar[u], h) : x = Seen(u, o)
    BY <2>1
  <2>3. /\ o \in OccurrencesUpTo(comps_vec[comps_map[u]], h)
        /\ x = Shape(comps_vec[comps_map[u]].uid, comps_vec[comps_map[u]], o)
    BY <1>2, <1>4, <2>1, <2>2
  <2> QED BY <1>4, <1>5, <2>1, <2>3
<1> QED BY <1>1, <1>7, <1>8
(***************************************************************************)
(* What a call does to the table                                           *)
(***************************************************************************)
LEMMA TableNext == AllInv' => TableIs' /\ ShownIs'
BY TableNow, ShownNow, PTL

LEMMA OneChanges ==
    ASSUME AllInv, AllInv', NEW u \in Uids,
           \A v \in Uids \ {u} : TableAt(v)' = TableAt(v)
    PROVE  tableBar' = [tableBar EXCEPT ![u] = TableAt(u)']
<1>1. tableBar = [v \in Uids |-> TableAt(v)] /\ tableBar' = [v \in Uids |-> TableAt(v)']
  BY TableNow, TableNext DEF TableIs
<1> QED BY <1>1

LEMMA NoneChanges ==
    ASSUME AllInv, AllInv', \A v \in Uids : TableAt(v)' = TableAt(v)
    PROVE  tableBar' = tableBar
<1>1. tableBar = [v \in Uids |-> TableAt(v)] /\ tableBar' = [v \in Uids |-> TableAt(v)']
  BY TableNow, TableNext DEF TableIs
<1> QED BY <1>1

\* The entry a uid leads to is replaced: no other uid leads to it.
LEMMA EntryChanges ==
    ASSUME AllInv, NEW u \in Uids, comps_map[u] # NotFound, NEW c,
           UNCHANGED comps_map, comps_vec' = [comps_vec EXCEPT ![comps_map[u]] = c],
           c.uid = comps_vec[comps_map[u]].uid
    PROVE  /\ TableAt(u)' = IF c.deleted THEN Absent ELSE Row(c)
           /\ \A v \in Uids \ {u} : TableAt(v)' = TableAt(v)
           /\ \A i \in Indices : comps_vec'[i].uid = comps_vec[i].uid
           /\ knownBar' = knownBar
<1>1. comps_map[u] \in Indices /\ comps_vec[comps_map[u]].uid = u
  BY DEF AllInv, MapInVec, StoreInv, MapFindsLatest
<1>2. \A i \in Indices : comps_vec'[i] = IF i = comps_map[u] THEN c ELSE comps_vec[i]
  BY DEF Indices
<1>3. TableAt(u)' = IF c.deleted THEN Absent ELSE Row(c)
  BY <1>1, <1>2 DEF TableAt, LiveAt
<1>4. ASSUME NEW v \in Uids \ {u} PROVE TableAt(v)' = TableAt(v)
  <2>1. CASE comps_map[v] = NotFound
    BY <2>1 DEF TableAt, LiveAt
  <2>2. CASE comps_map[v] # NotFound
    <3>1. comps_map[v] \in Indices /\ comps_vec[comps_map[v]].uid = v
      BY <2>2 DEF AllInv, MapInVec, StoreInv, MapFindsLatest
    <3>2. comps_vec'[comps_map[v]] = comps_vec[comps_map[v]]
      BY <1>1, <1>2, <3>1
    <3> QED BY <2>2, <3>2 DEF TableAt, LiveAt
  <2> QED BY <2>1, <2>2
<1>5. knownBar' = knownBar
  BY DEF knownBar
<1> QED BY <1>2, <1>3, <1>4, <1>5

\* Components stay as they are seen.
LEMMA SameRows ==
    ASSUME AllInv, AllInv', UNCHANGED comps_map,
           \A i \in Indices : SameData(comps_vec[i], comps_vec'[i])
    PROVE  tableBar' = tableBar /\ knownBar' = knownBar
<1>1. ASSUME NEW v \in Uids PROVE TableAt(v)' = TableAt(v)
  <2>1. CASE comps_map[v] = NotFound
    BY <2>1 DEF TableAt, LiveAt
  <2>2. CASE comps_map[v] # NotFound
    <3>1. SameData(comps_vec[comps_map[v]], comps_vec'[comps_map[v]])
      BY <2>2 DEF AllInv, MapInVec
    <3> QED BY <2>2, <3>1 DEF TableAt, LiveAt, Row, SameData
  <2> QED BY <2>1, <2>2
<1> QED BY <1>1, NoneChanges DEF knownBar

(***************************************************************************)
(* What a call does to the instances                                       *)
(***************************************************************************)
\* The instances a settled type holds belong to entries of the vector.
LEMMA HeldIndices ==
    ASSUME ExpansionInv, NEW ty \in Types, Current(ty), NEW ci \in cis[ty] \cup taken[ty]
    PROVE  ci.comp_idx \in Indices
<1>1. ci \in DueInstances(ty)
  BY DEF ExpansionInv, Current, UpToDate
<1>2. PICK i \in Live(ty) :
          ci \in InstsOf(i, comps_vec[i], OccurrencesUpTo(comps_vec[i], horizon[ty]))
  BY <1>1 DEF DueInstances
<1> QED BY <1>2 DEF InstsOf, Inst, Live

LEMMA ShownKept ==
    ASSUME ExpansionInv, NEW ty \in Types, Current(ty), Current(ty)',
           cis'[ty] \cup taken'[ty] = cis[ty] \cup taken[ty],
           \A i \in Indices : comps_vec'[i].uid = comps_vec[i].uid
    PROVE  shownBar'[ty] = shownBar[ty]
<1>1. shownBar[ty] = {Named(ci) : ci \in cis[ty] \cup taken[ty]}
  BY DEF shownBar, Named
<1>2. shownBar'[ty] = {Named(ci)' : ci \in cis[ty] \cup taken[ty]}
  BY DEF shownBar, Named
<1>3. \A ci \in cis[ty] \cup taken[ty] : Named(ci)' = Named(ci)
  BY HeldIndices DEF Named
<1> QED BY <1>1, <1>2, <1>3

\* Types that are no longer settled show nothing, the others what they did.
LEMMA Unsettled ==
    ASSUME ExpansionInv, NEW tys,
           \A ty \in Types : Current(ty)' <=> Current(ty) /\ ty \notin tys,
           \A ty \in Types : Current(ty)' =>
               cis'[ty] \cup taken'[ty] = cis[ty] \cup taken[ty],
           \A i \in Indices : comps_vec'[i].uid = comps_vec[i].uid
    PROVE  Promise!Unsettle(tys)
<1>1. settledBar' = [ty \in Types |-> settledBar[ty] /\ ty \notin tys]
  BY DEF settledBar, Current
<1>2. ASSUME NEW ty \in Types
      PROVE  shownBar'[ty] = IF ty \in tys THEN {} ELSE shownBar[ty]
  <2>1. CASE Current(ty)'
    BY <2>1, ShownKept
  <2>2. CASE ~Current(ty)'
    BY <2>2 DEF shownBar
  <2> QED BY <2>1, <2>2
<1>3. shownBar' = [ty \in Types |-> shownBar'[ty]]
  BY DEF shownBar
<1>4. shownBar' = [ty \in Types |-> IF ty \in tys THEN {} ELSE shownBar[ty]]
  BY <1>2, <1>3
<1> QED BY <1>1, <1>4 DEF Promise!Unsettle

LEMMA Disturbed ==
    ASSUME NEW tys \in SUBSET Types, Promise!Unsettle(tys),
           tableBar' = tableBar, knownBar' = knownBar
    PROVE  Promise!ViewNext
BY DEF Promise!ViewNext, Promise!Disturb
LEMMA Dirtied ==
    ASSUME AllInv, phase = "ready", phase' = "ready", UNCHANGED <<cis, taken>>, NEW tys,
           \A ty \in Types : cis_dirty'[ty] <=> cis_dirty[ty] \/ ty \in tys,
           \A i \in Indices : comps_vec'[i].uid = comps_vec[i].uid
    PROVE  Promise!Unsettle(tys)
<1>1. \A ty \in Types : Current(ty)' <=> Current(ty) /\ ty \notin tys
  BY DEF Current
<1>2. ExpansionInv
  BY DEF AllInv
<1>3. \A ty \in Types : Current(ty)' => cis'[ty] \cup taken'[ty] = cis[ty] \cup taken[ty]
  OBVIOUS
<1> QED BY <1>1, <1>2, <1>3, Unsettled

\* While files are parsed nothing is settled.
LEMMA Parsing ==
    ASSUME AllInv, phase # "ready", phase' # "ready", NEW tys,
           \A i \in Indices : comps_vec'[i].uid = comps_vec[i].uid
    PROVE  Promise!Unsettle(tys)
<1>1. \A ty \in Types : ~Current(ty) /\ ~Current(ty)'
  BY DEF Current
<1>2. ExpansionInv
  BY DEF AllInv
<1> QED BY <1>1, <1>2, Unsettled

(***************************************************************************)
(* Additions                                                               *)
(***************************************************************************)
LEMMA Added ==
    ASSUME AllInv, AllInv', NEW u \in Uids, NEW ty \in Types, NEW s \in Starts,
           NEW r \in Recurrences \cup {NoRecur}, calendar_add_comp(NewComp(u, ty, s, r))
    PROVE  /\ tableBar' = [tableBar EXCEPT ![u] = Promise!Entry(ty, s, r)]
           /\ knownBar' = knownBar \cup {u}
           /\ \A i \in Indices : comps_vec'[i].uid = comps_vec[i].uid
<1> DEFINE c == NewComp(u, ty, s, r)
           n == Len(comps_vec)
           idx == comps_map[u]
<1>1. /\ c \in CompType /\ c.uid = u /\ ~c.deleted
      /\ Row(c) = Promise!Entry(ty, s, r)
  <2>1. c \in CompType
    BY NewCompType, CalendarAssumption
  <2> QED BY <2>1 DEF NewComp, Row, Promise!Entry
<1>2. /\ n \in Nat /\ Indices = 1..n /\ Indices' = 1..(n + 1) /\ comps_vec'[n + 1] = c
  <2>1. calendar_add_comp(c) /\ TypeOK /\ MapInVec
    BY DEF AllInv
  <2> HIDE DEF c
  <2> QED BY <1>1, <2>1, AddShape
<1>3. \A v \in Uids : comps_map[v] # NotFound =>
          comps_map[v] \in 1..n /\ comps_vec[comps_map[v]].uid = v
  BY <1>2 DEF AllInv, MapInVec, StoreInv, MapFindsLatest
<1>4. comps_map' = [comps_map EXCEPT ![u] = n + 1]
  <2>1. CASE idx = NotFound
    BY <1>1, <2>1 DEF calendar_add_comp, calendar_find_comp, add_comp_unchecked
  <2>2. CASE idx # NotFound
    <3>1. idx \in DOMAIN comps_vec /\ comps_vec \in Seq(CompType)
      BY <1>2, <1>3, <2>2 DEF Indices, AllInv, TypeOK
    <3>2. Len(Deleted(comps_vec, idx)) = n
      BY <3>1, DeletedType
    <3> QED BY <1>1, <2>2, <3>2 DEF calendar_add_comp, calendar_find_comp, add_comp_unchecked
  <2> QED BY <2>1, <2>2
<1>5. ASSUME NEW i \in 1..n
      PROVE  /\ i # idx => comps_vec'[i] = comps_vec[i]
             /\ comps_vec'[i].uid = comps_vec[i].uid
  <2>0. DOMAIN comps_vec = 1..n /\ comps_vec \in Seq(CompType)
    BY <1>2 DEF Indices, AllInv, TypeOK
  <2>1. CASE idx = NotFound
    <3>1. comps_vec' = Append(comps_vec, c)
      BY <1>1, <2>1 DEF calendar_add_comp, calendar_find_comp, add_comp_unchecked
    <3> QED BY <2>0, <3>1
  <2>2. CASE idx # NotFound
    <3> DEFINE vec == Deleted(comps_vec, idx)
    <3>1. comps_vec' = Append(vec, c)
      BY <1>1, <2>2 DEF calendar_add_comp, calendar_find_comp, add_comp_unchecked
    <3>2. idx \in DOMAIN comps_vec
      BY <1>3, <2>0, <2>2
    <3>3. /\ vec \in Seq(CompType) /\ Len(vec) = n
          /\ vec[idx] = [comps_vec[idx] EXCEPT !.deleted = TRUE]
          /\ \A j \in DOMAIN comps_vec \ {idx} : vec[j] = comps_vec[j]
      BY <2>0, <3>2, DeletedType
    <3>4. vec[idx].uid = comps_vec[idx].uid
      BY <2>0, <3>2, <3>3, CompsAt DEF CompType
    <3> HIDE DEF vec, c
    <3>5. comps_vec'[i] = vec[i]
      BY <1>2, <3>1, <3>3
    <3> QED BY <2>0, <3>3, <3>4, <3>5
  <2> QED BY <2>1, <2>2
<1>6. TableAt(u)' = Promise!Entry(ty, s, r)
  <2>1. comps_map'[u] = n + 1 /\ n + 1 # NotFound
    BY <1>2, <1>4 DEF NotFound, AllInv, TypeOK
  <2> HIDE DEF c
  <2> QED BY <1>1, <1>2, <2>1 DEF TableAt, LiveAt
<1>7. ASSUME NEW v \in Uids \ {u} PROVE TableAt(v)' = TableAt(v)
  <2>1. comps_map'[v] = comps_map[v]
    BY <1>4 DEF AllInv, TypeOK
  <2>2. CASE comps_map[v] = NotFound
    BY <2>1, <2>2 DEF TableAt, LiveAt
  <2>3. CASE comps_map[v] # NotFound
    <3>1. comps_map[v] \in 1..n /\ comps_vec[comps_map[v]].uid = v
      BY <1>3, <2>3
    <3>2. comps_map[v] # idx
      BY <1>3, <2>3, <3>1
    <3>3. comps_vec'[comps_map[v]] = comps_vec[comps_map[v]]
      BY <1>5, <3>1, <3>2
    <3> QED BY <2>1, <2>3, <3>3 DEF TableAt, LiveAt
  <2> QED BY <2>2, <2>3
<1>8. knownBar' = knownBar \cup {u}
  <2>1. \A v \in Uids : comps_map'[v] = IF v = u THEN n + 1 ELSE comps_map[v]
    BY <1>4 DEF AllInv, TypeOK
  <2>2. n + 1 # NotFound
    BY <1>2 DEF NotFound
  <2> QED BY <2>1, <2>2 DEF knownBar
<1>9. tableBar' = [tableBar EXCEPT ![u] = Promise!Entry(ty, s, r)]
  BY <1>6, <1>7, OneChanges
<1> QED BY <1>2, <1>5, <1>8, <1>9

LEMMA ParsedComp ==
    ASSUME AllInv, AllInv', NEW u \in Uids, NEW ty \in Types, NEW s \in Starts,
           NEW r \in Recurrences \cup {NoRecur}, ParseComp(u, ty, s, r)
    PROVE  Promise!Put(u, ty, s, r)
<1>1. phase # "ready" /\ phase' # "ready" /\ calendar_add_comp(NewComp(u, ty, s, r))
  BY DEF ParseComp
<1>2. \A tys : Promise!Unsettle(tys)
  BY <1>1, Added, Parsing
<1> QED BY <1>1, <1>2, Added DEF Promise!Put

LEMMA Created ==
    ASSUME AllInv, AllInv', NEW u \in Uids, NEW ty \in Types, NEW s \in Starts,
           Create(u, ty, s)
    PROVE  Promise!Put(u, ty, s, NoRecur)
<1> DEFINE c == NewComp(u, ty, s, NoRecur)
<1>1. /\ phase = "ready" /\ phase' = "ready" /\ UNCHANGED <<cis, taken>>
      /\ comps_map[u] = NotFound
      /\ cis_dirty' = [cis_dirty EXCEPT ![ty] = TRUE]
      /\ calendar_add_comp(c)
  BY DEF Create, instVars, calendar_find_comp, calendar_add_comp, add_comp_unchecked, NewComp
<1>2. u \notin Promise!Present
  BY <1>1, PresentNow DEF PresentIs, LiveAt
<1>3. \A t2 \in Types : cis_dirty'[t2] <=> cis_dirty[t2] \/ t2 \in {ty}
  BY <1>1 DEF AllInv, TypeOK
<1>4. /\ tableBar' = [tableBar EXCEPT ![u] = Promise!Entry(ty, s, NoRecur)]
      /\ knownBar' = knownBar \cup {u}
      /\ \A i \in Indices : comps_vec'[i].uid = comps_vec[i].uid
  BY <1>1, Added
<1>5. Promise!Unsettle({ty})
  BY <1>1, <1>3, <1>4, Dirtied
<1>6. {ty} \cup (IF u \in Promise!Present THEN {tableBar[u].type} ELSE {}) = {ty}
  BY <1>2
<1> QED BY <1>4, <1>5, <1>6 DEF Promise!Put
(***************************************************************************)
(* Edits and removals: the entry a uid leads to is live, or does not show  *)
(***************************************************************************)
LEMMA EntryInTable ==
    ASSUME AllInv, NEW u \in Uids, comps_map[u] # NotFound
    PROVE  LET c == comps_vec[comps_map[u]]
           IN  /\ comps_map[u] \in Indices /\ c \in CompType
               /\ ~c.deleted => u \in Promise!Present /\ tableBar[u] = Row(c)
               /\ c.deleted => TableAt(u) = Absent
<1>1. comps_map[u] \in Indices
  BY DEF AllInv, MapInVec
<1>2. comps_vec[comps_map[u]] \in CompType
  BY <1>1, CompAt DEF AllInv
<1>3. LiveAt(u) <=> ~comps_vec[comps_map[u]].deleted
  BY DEF LiveAt
<1>4. LiveAt(u) => u \in Promise!Present /\ tableBar[u] = Row(comps_vec[comps_map[u]])
  BY PresentNow DEF PresentIs
<1> QED BY <1>1, <1>2, <1>3, <1>4 DEF TableAt

\* A call that replaces the entry `u` leads to by `c` and disturbs `tys`.
LEMMA Replaced ==
    ASSUME AllInv, AllInv', NEW u \in Uids, comps_map[u] # NotFound, NEW c,
           UNCHANGED comps_map, comps_vec' = [comps_vec EXCEPT ![comps_map[u]] = c],
           c.uid = comps_vec[comps_map[u]].uid,
           NEW tys \in SUBSET Types,
           (\A i \in Indices : comps_vec'[i].uid = comps_vec[i].uid) => Promise!Unsettle(tys)
    PROVE  /\ Promise!Unsettle(tys) /\ knownBar' = knownBar
           /\ comps_vec[comps_map[u]].deleted /\ c.deleted => Promise!ViewNext
           /\ tableBar' = [tableBar EXCEPT ![u] = IF c.deleted THEN Absent ELSE Row(c)]
<1>1. /\ TableAt(u)' = IF c.deleted THEN Absent ELSE Row(c)
      /\ \A v \in Uids \ {u} : TableAt(v)' = TableAt(v)
      /\ \A i \in Indices : comps_vec'[i].uid = comps_vec[i].uid
      /\ knownBar' = knownBar
  BY EntryChanges
<1>2. Promise!Unsettle(tys)
  BY <1>1
<1>3. ASSUME comps_vec[comps_map[u]].deleted, c.deleted PROVE Promise!ViewNext
  <2>1. TableAt(u)' = TableAt(u)
    BY <1>1, <1>3, EntryInTable
  <2>2. tableBar' = tableBar
    BY <1>1, <2>1, NoneChanges
  <2> QED BY <1>1, <1>2, <2>2, Disturbed
<1>4. tableBar' = [tableBar EXCEPT ![u] = IF c.deleted THEN Absent ELSE Row(c)]
  BY <1>1, OneChanges
<1> QED BY <1>1, <1>2, <1>3, <1>4

LEMMA ParsedInst ==
    ASSUME AllInv, AllInv', NEW u \in Uids, NEW t \in InstIds, NEW s \in Starts,
           ParseRecurInst(u, t, s)
    PROVE  Promise!ViewNext
<1> DEFINE c == comps_vec[comps_map[u]]
           d == WithRecurInst(c, t, s)
<1>1. /\ comps_map[u] # NotFound /\ phase # "ready" /\ phase' # "ready"
      /\ comps_vec' = [comps_vec EXCEPT ![comps_map[u]] = d] /\ UNCHANGED comps_map
  BY DEF ParseRecurInst, calendar_find_comp
<1>2. /\ c \in CompType
      /\ ~c.deleted => u \in Promise!Present /\ tableBar[u] = Row(c)
      /\ comps_vec[comps_map[u]].type \in Types
  BY <1>1, EntryInTable DEF CompType
<1>3. d.uid = c.uid /\ d.deleted = c.deleted /\ Row(d) = Promise!WithRecurInst(Row(c), t, s)
  <2> HIDE DEF c
  <2> QED BY <1>2 DEF WithRecurInst, Promise!WithRecurInst, Row, CompType
<1>4. (\A i \in Indices : comps_vec'[i].uid = comps_vec[i].uid)
          => Promise!Unsettle({c.type})
  BY <1>1, Parsing
<1>5. /\ Promise!Unsettle({c.type}) /\ knownBar' = knownBar
      /\ c.deleted => Promise!ViewNext
      /\ ~c.deleted => tableBar' = [tableBar EXCEPT ![u] = Row(d)]
  <2>1. {c.type} \in SUBSET Types
    BY <1>2
  <2> HIDE DEF d
  <2> QED BY <1>1, <1>3, <1>4, <2>1, Replaced
<1>6. ASSUME ~c.deleted PROVE Promise!ReadInst(u, t, s)
  <2>1. tableBar[u].type = c.type
    BY <1>2, <1>6 DEF Row
  <2> QED BY <1>2, <1>3, <1>5, <1>6, <2>1 DEF Promise!ReadInst, Promise!Change
<1> QED BY <1>5, <1>6 DEF Promise!ViewNext

LEMMA BaseUpdated ==
    ASSUME AllInv, AllInv', NEW u \in Uids, NEW s \in Starts, UpdateBase(u, s)
    PROVE  Promise!ViewNext
<1> DEFINE c == comps_vec[comps_map[u]]
           d == [c EXCEPT !.start = s]
<1>1. /\ comps_map[u] # NotFound /\ phase = "ready" /\ phase' = "ready"
      /\ comps_vec' = [comps_vec EXCEPT ![comps_map[u]] = d] /\ UNCHANGED comps_map
      /\ UNCHANGED <<cis, taken>> /\ cis_dirty' = [cis_dirty EXCEPT ![c.type] = TRUE]
  BY DEF UpdateBase, calendar_find_comp, instVars
<1>2. /\ c \in CompType
      /\ ~c.deleted => u \in Promise!Present /\ tableBar[u] = Row(c)
      /\ c.type \in Types
  BY <1>1, EntryInTable DEF CompType
<1>3. d.uid = c.uid /\ d.deleted = c.deleted /\ Row(d) = [Row(c) EXCEPT !.start = s]
  <2> HIDE DEF c
  <2> QED BY <1>2 DEF Row, CompType
<1>4. (\A i \in Indices : comps_vec'[i].uid = comps_vec[i].uid)
          => Promise!Unsettle({c.type})
  <2>1. \A ty \in Types : cis_dirty'[ty] <=> cis_dirty[ty] \/ ty \in {c.type}
    BY <1>1 DEF AllInv, TypeOK
  <2> QED BY <1>1, <2>1, Dirtied
<1>5. /\ Promise!Unsettle({c.type}) /\ knownBar' = knownBar
      /\ c.deleted => Promise!ViewNext
      /\ ~c.deleted => tableBar' = [tableBar EXCEPT ![u] = Row(d)]
  <2>1. {c.type} \in SUBSET Types
    BY <1>2
  <2> HIDE DEF d
  <2> QED BY <1>1, <1>3, <1>4, <2>1, Replaced
<1>6. ASSUME ~c.deleted PROVE Promise!SetStart(u, s)
  <2>1. tableBar[u].type = c.type
    BY <1>2, <1>6 DEF Row
  <2> QED BY <1>2, <1>3, <1>5, <1>6, <2>1 DEF Promise!SetStart, Promise!Change
<1> QED BY <1>5, <1>6 DEF Promise!ViewNext

LEMMA InstUpdated ==
    ASSUME AllInv, AllInv', NEW u \in Uids, NEW t \in InstIds, NEW s \in Starts,
           UpdateInst(u, t, s)
    PROVE  Promise!ViewNext
<1> DEFINE c == comps_vec[comps_map[u]]
           d == [WithRecurInst(c, t, t) EXCEPT !.recur_insts[t] = s]
<1>1. /\ comps_map[u] # NotFound /\ phase = "ready" /\ phase' = "ready"
      /\ comps_vec' = [comps_vec EXCEPT ![comps_map[u]] = d] /\ UNCHANGED comps_map
      /\ UNCHANGED <<cis, taken>> /\ cis_dirty' = [cis_dirty EXCEPT ![c.type] = TRUE]
  BY DEF UpdateInst, calendar_find_comp, instVars
<1>2. /\ c \in CompType
      /\ ~c.deleted => u \in Promise!Present /\ tableBar[u] = Row(c)
      /\ c.type \in Types
  BY <1>1, EntryInTable DEF CompType
<1>3. /\ d.uid = c.uid /\ d.deleted = c.deleted
      /\ Row(d) = [Promise!WithRecurInst(Row(c), t, t) EXCEPT !.recur_insts[t] = s]
  <2> DEFINE w == WithRecurInst(c, t, t)
  <2>1. w \in CompType
    BY <1>2, WithRecurInstType, CalendarAssumption
  <2>2. w.uid = c.uid /\ w.deleted = c.deleted /\ Row(w) = Promise!WithRecurInst(Row(c), t, t)
    <3> HIDE DEF c
    <3> QED BY <1>2 DEF WithRecurInst, Promise!WithRecurInst, Row, CompType
  <2> HIDE DEF w
  <2>3. Row([w EXCEPT !.recur_insts[t] = s]) = [Row(w) EXCEPT !.recur_insts[t] = s]
    BY <2>1 DEF Row, CompType
  <2>4. [w EXCEPT !.recur_insts[t] = s].uid = w.uid
        /\ [w EXCEPT !.recur_insts[t] = s].deleted = w.deleted
    BY <2>1 DEF CompType
  <2> QED BY <2>2, <2>3, <2>4 DEF w
<1>4. (\A i \in Indices : comps_vec'[i].uid = comps_vec[i].uid)
          => Promise!Unsettle({c.type})
  <2>1. \A ty \in Types : cis_dirty'[ty] <=> cis_dirty[ty] \/ ty \in {c.type}
    BY <1>1 DEF AllInv, TypeOK
  <2> QED BY <1>1, <2>1, Dirtied
<1>5. /\ Promise!Unsettle({c.type}) /\ knownBar' = knownBar
      /\ c.deleted => Promise!ViewNext
      /\ ~c.deleted => tableBar' = [tableBar EXCEPT ![u] = Row(d)]
  <2>1. {c.type} \in SUBSET Types
    BY <1>2
  <2> HIDE DEF d
  <2> QED BY <1>1, <1>3, <1>4, <2>1, Replaced
<1>6. ASSUME ~c.deleted PROVE Promise!SetInst(u, t, s)
  <2>1. tableBar[u].type = c.type
    BY <1>2, <1>6 DEF Row
  <2> QED BY <1>2, <1>3, <1>5, <1>6, <2>1 DEF Promise!SetInst, Promise!Change
<1> QED BY <1>5, <1>6 DEF Promise!ViewNext

LEMMA Removed ==
    ASSUME AllInv, AllInv', NEW u \in Uids, NEW ty \in Types, Delete(u, ty)
    PROVE  Promise!ViewNext
<1> DEFINE c == comps_vec[comps_map[u]]
           d == [c EXCEPT !.deleted = TRUE]
<1>1. /\ comps_map[u] # NotFound /\ phase = "ready" /\ phase' = "ready"
      /\ comps_vec' = [comps_vec EXCEPT ![comps_map[u]] = d] /\ UNCHANGED comps_map
      /\ UNCHANGED <<cis, taken>>
      /\ cis_dirty' = [cis_dirty EXCEPT ![c.type] = TRUE, ![ty] = TRUE]
  BY DEF Delete, Deleted, calendar_find_comp, instVars
<1>2. /\ c \in CompType
      /\ ~c.deleted => u \in Promise!Present /\ tableBar[u] = Row(c)
      /\ c.type \in Types
  BY <1>1, EntryInTable DEF CompType
<1>3. d.uid = c.uid /\ d.deleted
  <2> HIDE DEF c
  <2> QED BY <1>2 DEF CompType
<1>4. (\A i \in Indices : comps_vec'[i].uid = comps_vec[i].uid)
          => Promise!Unsettle({c.type, ty})
  <2>1. \A t2 \in Types : cis_dirty'[t2] <=> cis_dirty[t2] \/ t2 \in {c.type, ty}
    BY <1>1, <1>2 DEF AllInv, TypeOK
  <2> QED BY <1>1, <2>1, Dirtied
<1>5. /\ Promise!Unsettle({c.type, ty}) /\ knownBar' = knownBar
      /\ c.deleted => Promise!ViewNext
      /\ tableBar' = [tableBar EXCEPT ![u] = Absent]
  <2>1. {c.type, ty} \in SUBSET Types
    BY <1>2
  <2> HIDE DEF d
  <2> QED BY <1>1, <1>3, <1>4, <2>1, Replaced
<1>6. ASSUME ~c.deleted PROVE Promise!Remove(u, ty)
  <2>1. tableBar[u].type = c.type
    BY <1>2, <1>6 DEF Row
  <2> QED BY <1>2, <1>5, <1>6, <2>1 DEF Promise!Remove
<1> QED BY <1>5, <1>6 DEF Promise!ViewNext
(***************************************************************************)
(* Loads and instances                                                     *)
(***************************************************************************)
LEMMA ReloadBegun == ASSUME AllInv, AllInv', BeginReload PROVE Promise!ViewNext
<1>1. \A ty \in Types : ~Current(ty)'
  BY DEF BeginReload, Current
<1>2. /\ tableBar' = tableBar /\ knownBar' = knownBar
      /\ \A i \in Indices : comps_vec'[i].uid = comps_vec[i].uid
  BY SameRows DEF BeginReload, SameData
<1>3. Promise!Unsettle(Types)
  BY <1>1, <1>2, Unsettled DEF AllInv
<1> QED BY <1>2, <1>3, Disturbed

LEMMA Invalidated == ASSUME AllInv, AllInv', Invalidate PROVE Promise!ViewNext
<1>1. \A ty \in Types : ~Current(ty)'
  BY DEF Invalidate, app_invalidate_calendars, Current
<1>2. /\ tableBar' = tableBar /\ knownBar' = knownBar
      /\ \A i \in Indices : comps_vec'[i].uid = comps_vec[i].uid
  BY SameRows DEF Invalidate, SameData
<1>3. Promise!Unsettle(Types)
  BY <1>1, <1>2, Unsettled DEF AllInv
<1> QED BY <1>2, <1>3, Disturbed

LEMMA InstancesTaken ==
    ASSUME AllInv, AllInv', NEW ty \in Types, TakeInstances(ty) PROVE Promise!ViewNext
<1>1. /\ \A t2 \in Types : Current(t2)' <=> Current(t2)
      /\ \A t2 \in Types : cis'[t2] \cup taken'[t2] = cis[t2] \cup taken[t2]
  BY DEF TakeInstances, Current, AllInv, TypeOK
<1>2. /\ tableBar' = tableBar /\ knownBar' = knownBar
      /\ \A i \in Indices : comps_vec'[i].uid = comps_vec[i].uid
  BY SameRows DEF TakeInstances, SameData
<1>3. Promise!Unsettle({})
  BY <1>1, <1>2, Unsettled DEF AllInv
<1> QED BY <1>2, <1>3, Disturbed

\* After the first load the clean types are those without components.
LEMMA ParseEnded == ASSUME AllInv, AllInv', EndParse PROVE Promise!ViewNext
<1>1. /\ phase # "ready" /\ phase' = "ready" /\ UNCHANGED <<comps_vec, comps_map, cis>>
  BY DEF EndParse
<1>2. /\ tableBar' = tableBar /\ knownBar' = knownBar
      /\ \A i \in Indices : comps_vec'[i].uid = comps_vec[i].uid
  BY <1>1, SameRows DEF SameData
<1>3. CASE phase = "reload"
  <2>1. \A ty \in Types : ~Current(ty)'
    BY <1>3 DEF EndParse, app_invalidate_calendars, Current
  <2>2. Promise!Unsettle(Types)
    BY <1>2, <2>1, Unsettled DEF AllInv
  <2> QED BY <1>2, <2>2, Disturbed
<1>4. CASE phase = "load"
  <2> DEFINE clean == {ty \in Types : ~cis_dirty[ty]}
  <2>1. UNCHANGED <<cis_dirty, taken>>
    BY <1>4 DEF EndParse
  <2>2. /\ \A ty \in Types : settledBar[ty] = FALSE /\ shownBar[ty] = {}
        /\ \A ty \in Types : Current(ty)' <=> ty \in clean
    BY <1>1, <2>1 DEF settledBar, shownBar, Current
  <2>3. ASSUME NEW ty \in clean PROVE Promise!Due(ty, 0) = {} /\ shownBar'[ty] = {}
    <3>1. \A i \in Indices : comps_vec[i].type # ty
      BY <1>4 DEF AllInv, ExpansionInv
    <3>2. ASSUME NEW u \in Promise!Present, tableBar[u].type = ty PROVE FALSE
      <4>1. u \in Uids
        BY DEF Promise!Present
      <4>2. LiveAt(u) /\ tableBar[u] = Row(comps_vec[comps_map[u]])
        BY <4>1, PresentNow DEF PresentIs
      <4>3. comps_map[u] \in Indices
        BY <4>1, <4>2 DEF LiveAt, AllInv, MapInVec
      <4> QED BY <3>1, <3>2, <4>2, <4>3 DEF Row
    <3>3. cis'[ty] \cup taken'[ty] = {}
      <4>1. UpToDate(ty) /\ Live(ty) = {}
        BY <1>4, <3>1 DEF AllInv, ExpansionInv, Live
      <4>2. cis[ty] \cup taken[ty] = {}
        BY <4>1 DEF UpToDate, DueInstances
      <4> QED BY <1>1, <2>1, <4>2
    <3>4. shownBar'[ty] = {}
      BY <3>3 DEF shownBar
    <3> QED BY <3>2, <3>4 DEF Promise!Due
  <2>4. settledBar' = [ty \in Types |-> settledBar[ty] \/ ty \in clean]
    <3>1. \A ty \in Types : settledBar'[ty] = (settledBar[ty] \/ ty \in clean)
      BY <1>1, <2>1, <2>2 DEF settledBar, Current
    <3>2. settledBar' = [ty \in Types |-> settledBar'[ty]]
      BY DEF settledBar
    <3> QED BY <3>1, <3>2
  <2>5. shownBar' = [ty \in Types |->
                        IF ty \in clean THEN Promise!Due(ty, 0) ELSE shownBar[ty]]
    <3>1. ASSUME NEW ty \in Types
          PROVE  shownBar'[ty] = IF ty \in clean THEN Promise!Due(ty, 0) ELSE shownBar[ty]
      <4>1. CASE ty \in clean
        BY <2>3, <4>1
      <4>2. CASE ty \notin clean
        BY <2>2, <4>2 DEF shownBar
      <4> QED BY <4>1, <4>2
    <3>2. shownBar' = [ty \in Types |-> shownBar'[ty]]
      BY DEF shownBar
    <3> QED BY <3>1, <3>2
  <2>6. clean \in SUBSET Types /\ 0 \in Times \cup {0}
    OBVIOUS
  <2>7. Promise!Settle
    <3> HIDE DEF clean
    <3> QED BY <1>2, <2>4, <2>5, <2>6 DEF Promise!Settle
  <2> QED BY <2>7 DEF Promise!ViewNext
<1> QED BY <1>1, <1>3, <1>4 DEF AllInv, TypeOK

LEMMA DueKept ==
    ASSUME tableBar' = tableBar, NEW ty \in Types
    PROVE  Promise!Due(ty, horizon[ty])' = Promise!Due(ty, horizon'[ty])
BY DEF Promise!Due, Promise!Present, Promise!OccurrencesUpTo, Promise!OccStart, Promise!Occ

LEMMA InstancesExpanded ==
    ASSUME AllInv, AllInv', NEW ty \in Types, NEW to \in Times,
           calendar_expand_instances_to(ty, to)
    PROVE  Promise!ViewNext
<1> DEFINE h == horizon'[ty]
<1>1. /\ phase = "ready" /\ phase' = "ready" /\ UNCHANGED comps_map
      /\ \A t2 \in Types : cis_dirty'[t2] <=> cis_dirty[t2] /\ t2 # ty
      /\ \A t2 \in Types \ {ty} : cis'[t2] = cis[t2] /\ taken'[t2] = taken[t2]
  BY DEF calendar_expand_instances_to, AllInv, TypeOK
<1>2. \A i \in Indices : SameData(comps_vec[i], comps_vec'[i])
  BY ExpandedData DEF AllInv
<1>3. tableBar' = tableBar /\ knownBar' = knownBar
  BY <1>1, <1>2, SameRows
<1>4. h \in Times \cup {0}
  BY DEF AllInv, HorizonInv
<1>5. settledBar' = [t2 \in Types |-> settledBar[t2] \/ t2 \in {ty}]
  <2>1. \A t2 \in Types : settledBar'[t2] = (settledBar[t2] \/ t2 \in {ty})
    BY <1>1 DEF settledBar, Current
  <2>2. settledBar' = [t2 \in Types |-> settledBar'[t2]]
    BY DEF settledBar
  <2> QED BY <2>1, <2>2
<1>6. shownBar'[ty] = Promise!Due(ty, h)
  <2>1. Current(ty)'
    BY <1>1 DEF Current
  <2>2. shownBar'[ty] = Promise!Due(ty, horizon[ty])'
    BY <2>1, TableNext DEF ShownIs
  <2> QED BY <1>3, <2>2, DueKept
<1>7. ASSUME NEW t2 \in Types \ {ty} PROVE shownBar'[t2] = shownBar[t2]
  <2>1. Current(t2)' <=> Current(t2)
    BY <1>1 DEF Current
  <2>2. CASE Current(t2)
    <3>1. \A i \in Indices : comps_vec'[i].uid = comps_vec[i].uid
      BY <1>2 DEF SameData
    <3> QED BY <1>1, <2>1, <2>2, <3>1, ShownKept DEF AllInv
  <2>3. CASE ~Current(t2)
    BY <2>1, <2>3 DEF shownBar
  <2> QED BY <2>2, <2>3
<1>8. shownBar' = [t2 \in Types |->
                      IF t2 \in {ty} THEN Promise!Due(t2, h) ELSE shownBar[t2]]
  <2>1. shownBar' = [t2 \in Types |-> shownBar'[t2]]
    BY DEF shownBar
  <2> HIDE DEF h
  <2> QED BY <1>6, <1>7, <2>1
<1>9. Promise!Settle
  <2>1. {ty} \in SUBSET Types
    OBVIOUS
  <2> HIDE DEF h
  <2> QED BY <1>3, <1>4, <1>5, <1>8, <2>1 DEF Promise!Settle
<1> QED BY <1>9 DEF Promise!ViewNext

(***************************************************************************)
(* The refinement                                                          *)
(***************************************************************************)
LEMMA HorizonInit == Init => HorizonInv
BY DEF Init, HorizonInv

LEMMA HorizonStep == TypeOK /\ HorizonInv /\ [Next]_vars => HorizonInv'
<1> SUFFICES ASSUME TypeOK, HorizonInv, [Next]_vars PROVE HorizonInv'
  OBVIOUS
<1>1. ASSUME NEW ty \in Types, NEW to \in Times, calendar_expand_instances_to(ty, to)
      PROVE  HorizonInv'
  BY <1>1 DEF calendar_expand_instances_to, HorizonInv, TypeOK
<1>2. CASE UNCHANGED horizon
  BY <1>2 DEF HorizonInv
<1> QED
  BY <1>1, <1>2
  DEF Next, ParseStep, EditStep, InstanceStep, vars, instVars, BeginReload, ParseComp,
      ParseRecurInst, EndParse, Create, UpdateBase, UpdateInst, Delete, Invalidate,
      TakeInstances

LEMMA AllInvariant == Spec => []AllInv
<1>1. Spec => []HorizonInv
  BY CalendarTypeOK, HorizonInit, HorizonStep, PTL DEF Spec
<1> QED BY <1>1, StoreInvariant, ExpansionInvariant, PTL DEF AllInv

LEMMA ViewStarts == Init => Promise!ViewInit
<1> SUFFICES ASSUME Init PROVE Promise!ViewInit
  OBVIOUS
<1>1. LiveIndices = {}
  BY DEF Init, LiveIndices, Indices
<1> QED BY <1>1 DEF Init, Promise!ViewInit, tableBar, knownBar, settledBar, shownBar, Current

LEMMA ViewSteps == AllInv /\ AllInv' /\ [Next]_vars => [Promise!ViewNext]_Promise!viewVars
<1> SUFFICES ASSUME AllInv, AllInv', [Next]_vars
             PROVE  Promise!ViewNext \/ UNCHANGED Promise!viewVars
  OBVIOUS
<1>1. ASSUME NEW u \in Uids, NEW ty \in Types, NEW s \in Starts,
             NEW r \in Recurrences \cup {NoRecur}, ParseComp(u, ty, s, r)
      PROVE  Promise!ViewNext
  BY <1>1, ParsedComp DEF Promise!ViewNext
<1>2. ASSUME NEW u \in Uids, NEW ty \in Types, NEW s \in Starts, Create(u, ty, s)
      PROVE  Promise!ViewNext
  BY <1>2, Created DEF Promise!ViewNext
<1>3. CASE UNCHANGED vars
  BY <1>3 DEF vars, Promise!viewVars, tableBar, knownBar, settledBar, shownBar, LiveIndices,
              Indices, Current
<1>4. ParseStep => Promise!ViewNext
  BY <1>1, ReloadBegun, ParsedInst, ParseEnded DEF ParseStep
<1>5. EditStep => Promise!ViewNext
  BY <1>2, BaseUpdated, InstUpdated, Removed DEF EditStep
<1>6. InstanceStep => Promise!ViewNext
  BY Invalidated, InstancesExpanded, InstancesTaken DEF InstanceStep
<1> QED BY <1>3, <1>4, <1>5, <1>6 DEF Next

\* What the calendar does to its vector, map, trees and iterators is, seen from
\* outside, a table that changes one uid at a time and instances that are
\* those of the table (calendar.c and apply_to_memory of editor.c).
THEOREM CalendarImplements == Spec => Implements
  BY AllInvariant, ViewStarts, ViewSteps, PTL DEF Spec, Implements, Promise!View
=============================================================================
