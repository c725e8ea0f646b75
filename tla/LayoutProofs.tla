---------------------------- MODULE LayoutProofs ----------------------------
(***************************************************************************)
(* For any events and any number of columns, the sweep of Layout is sound, *)
(* and events that overlap are drawn beside each other, inside the slice.  *)
(***************************************************************************)
EXTENDS Layout, FiniteSetTheorems, WellFoundedInduction, TLAPS

Column == IF Free = {} THEN 0 ELSE first_free_bit

\* A set of numbers that is not empty has a least element.
LEMMA LeastExists ==
    ASSUME NEW S \in SUBSET Nat, S # {}
    PROVE  \E b \in S : \A c \in S : b <= c
<1>1. IsWellFoundedOn(OpToRel(<, Nat), Nat)
    BY NatLessThanWellFounded
<1>2. PICK b \in S : \A c \in S : ~(<<c, b>> \in OpToRel(<, Nat))
    BY <1>1, WFMin
<1>3. ASSUME NEW c \in S PROVE b <= c
    <2>1. b \in Nat /\ c \in Nat
        OBVIOUS
    <2>2. ~(c < b)
        BY <1>2, <2>1 DEF OpToRel
    <2>3. QED
        BY <2>1, <2>2
<1>4. QED
    BY <1>3

\* The column is the first free bit: it is not in use, and all before it are.
LEMMA ColumnIsFirst ==
    ASSUME TypeOK, Free # {}
    PROVE  /\ Column \in Free
           /\ \A c \in Free : Column <= c
<1>1. Free \in SUBSET Nat
    BY LayoutAssumption DEF Free
<1>2. \E b \in Free : \A c \in Free : b <= c
    BY <1>1, LeastExists
<1>3. QED
    BY <1>2 DEF Column, first_free_bit

\* A column is in 0..(Bits - 1), free or not.
LEMMA ColumnType ==
    ASSUME TypeOK
    PROVE  Column \in 0..(Bits - 1)
<1>1. CASE Free = {}
    BY <1>1, LayoutAssumption DEF Column
<1>2. CASE Free # {}
    BY <1>2, ColumnIsFirst DEF Free
<1>3. QED
    BY <1>1, <1>2

\* What is active is finite.
LEMMA ActiveFinite ==
    ASSUME TypeOK
    PROVE  IsFiniteSet(active)
<1>1. active \subseteq Events
    BY DEF active, TypeOK
<1>2. QED
    BY <1>1, LayoutAssumption, FS_Subset

\* There are no more columns in use than active events.
LEMMA MaskSmall ==
    ASSUME TypeOK, MaskInv
    PROVE  /\ IsFiniteSet(mask)
           /\ Cardinality(mask) <= Cardinality(active)
<1> DEFINE f == [e \in active |-> col[e]]
<1>1. f \in Surjection(active, ColumnsOf(active))
    BY DEF Surjection, ColumnsOf
<1>2. /\ IsFiniteSet(ColumnsOf(active))
      /\ Cardinality(ColumnsOf(active)) <= Cardinality(active)
    BY <1>1, ActiveFinite, FS_Surjection
<1>3. /\ IsFiniteSet(mask)
      /\ Cardinality(mask) <= Cardinality(ColumnsOf(active))
    BY <1>2, FS_Subset DEF MaskInv
<1>4. /\ Cardinality(mask) \in Nat /\ Cardinality(active) \in Nat
      /\ Cardinality(ColumnsOf(active)) \in Nat
    BY <1>2, <1>3, ActiveFinite, FS_CardinalityType
<1>5. QED
    BY <1>2, <1>3, <1>4

\* The first free column is not beyond the number of active events.
LEMMA ColumnSmall ==
    ASSUME TypeOK, SweepSound, MaskInv
    PROVE  Column <= active_n
<1>1. CASE Free = {}
    BY <1>1 DEF Column, TypeOK
<1>2. CASE Free # {}
    <2>1. Column \in 0..(Bits - 1)
        BY ColumnType
    <2>2. 0..(Column - 1) \subseteq mask
        BY <1>2, <2>1, ColumnIsFirst, LayoutAssumption DEF Free
    <2>3. Cardinality(0..(Column - 1)) <= Cardinality(mask)
        BY <2>2, MaskSmall, FS_Subset
    <2>4. Cardinality(0..(Column - 1)) = Column
        BY <2>1, FS_Interval, LayoutAssumption
    <2>5. Cardinality(mask) \in Nat /\ Cardinality(active) \in Nat
        BY MaskSmall, ActiveFinite, FS_CardinalityType
    <2>6. QED
        BY <2>1, <2>3, <2>4, <2>5, MaskSmall, LayoutAssumption DEF SweepSound
<1>3. QED
    BY <1>1, <1>2

\* An event that has ended lies before all that are yet to start.
LEMMA EndedDoesNotOverlap ==
    ASSUME TypeOK, InOrder, NEW e \in ended, NEW f \in objs \ started
    PROVE  ~Overlap(e, f) /\ ~Overlap(f, e)
<1>1. /\ time[e].to \in Int /\ time[f].fr \in Int
      /\ time[e].to <= time[f].fr
    BY LayoutAssumption DEF TypeOK, InOrder
<1>2. QED
    BY <1>1 DEF Overlap

(***************************************************************************)
(* The steps                                                               *)
(***************************************************************************)
LEMMA InitLayout == LayoutInit => LayoutInv
<1> SUFFICES ASSUME LayoutInit PROVE LayoutInv
    OBVIOUS
<1>1. TypeOK
    <2>1. aborted \in BOOLEAN /\ crowded \in BOOLEAN
        BY DEF LayoutInit
    <2>2. /\ [e \in objs |-> -1] \in [objs -> -1..(Bits - 1)]
          /\ [e \in objs |-> -1] \in [objs -> Int]
        BY LayoutAssumption
    <2>3. QED
        BY <2>1, <2>2 DEF LayoutInit, TypeOK
<1>2. SweepSound
    BY FS_EmptySet DEF LayoutInit, SweepSound, active, Inverted
<1>3. InOrder /\ MaskInv /\ GroupInv
    BY DEF LayoutInit, InOrder, MaskInv, GroupInv, active, ColumnsOf
<1>4. BesideEachOther /\ InSlice
    BY DEF LayoutInit, BesideEachOther, InSlice
<1>5. QED
    BY <1>1, <1>2, <1>3, <1>4 DEF LayoutInv

LEMMA StartLayout ==
    ASSUME LayoutInv, NEW e \in objs, Start(e)
    PROVE  LayoutInv'
<1> USE DEF LayoutInv
<1>1. /\ started' = started \cup {e} /\ e \notin started
      /\ component' = component \cup {e}
      /\ col' = [col EXCEPT ![e] = Column]
      /\ mask' = mask \cup {Column}
      /\ active_n' = active_n + 1
      /\ widest' = Larger(active_n + 1, widest)
      /\ crowded' = (crowded \/ Free = {})
      /\ UNCHANGED <<objs, time, ended, max_n, aborted>>
    BY DEF Start, Column
<1>2. Column \in 0..(Bits - 1)
    BY ColumnType
<1>3. /\ widest' \in Nat /\ active_n + 1 <= widest' /\ widest <= widest'
      /\ active_n \in Nat
    BY <1>1 DEF TypeOK, Larger
<1>4. active' = active \cup {e} /\ e \notin active
    BY <1>1 DEF active, TypeOK
<1>14. ~Inverted(e)
    <2>1. StartIsNext(e) /\ e \notin ended
        BY <1>1 DEF Start, TypeOK
    <2>2. time[e].fr < time[e].to /\ time[e].fr \in Int /\ time[e].to \in Int
        BY <2>1, LayoutAssumption DEF StartIsNext, TypeOK
    <2>3. QED
        BY <2>2 DEF Inverted
<1>5. TypeOK'
    <2>1. /\ col' \in [objs -> -1..(Bits - 1)]
          /\ mask' \in SUBSET (0..(Bits - 1))
        BY <1>1, <1>2, LayoutAssumption DEF TypeOK
    <2>4. \A f \in objs : col'[f] = -1 <=> f \notin started'
        BY <1>1, <1>2 DEF TypeOK
    <2>2. component' = {f \in started' : max_n'[f] = -1}
        BY <1>1 DEF TypeOK
    <2>3. QED
        BY <1>1, <1>3, <2>1, <2>2, <2>4 DEF TypeOK
<1>7. InOrder'
    <2>1. \A f \in ended' : \A g \in objs' \ started' : time'[f].to <= time'[g].fr
        BY <1>1 DEF InOrder
    <2>2. \A f \in started' : ~Inverted(f)'
        BY <1>1, <1>14 DEF InOrder, Inverted
    <2>3. QED
        BY <2>1, <2>2 DEF InOrder
<1>6. SweepSound'
    <2>1. active_n' = Cardinality(active)'
        BY <1>1, <1>4, ActiveFinite, FS_AddElement DEF SweepSound
    <2>2. ~aborted'
        BY <1>1 DEF Start
    <2>3. started' = objs' => \A f \in objs' : ~Inverted(f)'
        BY <1>7 DEF InOrder
    <2>4. QED
        BY <2>1, <2>2, <2>3 DEF SweepSound
<1>8. col'[e] = Column /\ \A f \in active : col'[f] = col[f]
    BY <1>1, <1>4 DEF TypeOK, active
<1>9. MaskInv'
    <2>1. ColumnsOf(active)' = ColumnsOf(active) \cup {Column}
        <3>1. ColumnsOf(active)' = {col'[f] : f \in active'}
            BY DEF ColumnsOf
        <3>2. QED
            BY <1>4, <1>8, <3>1 DEF ColumnsOf
    <2>2. mask' \subseteq ColumnsOf(active)'
        BY <1>1, <2>1 DEF MaskInv
    <2>3. ASSUME ~crowded'
          PROVE  /\ ColumnsOf(active)' \subseteq mask'
                 /\ \A f, g \in active' : f # g => col'[f] # col'[g]
        <3>1. ~crowded /\ Free # {}
            BY <1>1, <2>3
        <3>2. Column \notin mask
            BY <3>1, ColumnIsFirst DEF Free
        <3>3. \A f \in active : col[f] # Column
            BY <3>1, <3>2 DEF MaskInv, ColumnsOf
        <3>4. ColumnsOf(active)' \subseteq mask'
            BY <1>1, <2>1, <3>1 DEF MaskInv
        <3>5. ASSUME NEW f \in active', NEW g \in active', f # g
              PROVE  col'[f] # col'[g]
            <4>1. CASE f \in active /\ g \in active
                BY <1>8, <3>1, <3>5, <4>1 DEF MaskInv
            <4>2. CASE f = e
                BY <1>4, <1>8, <3>3, <3>5, <4>2
            <4>3. CASE g = e
                BY <1>4, <1>8, <3>3, <3>5, <4>3
            <4>4. QED
                BY <1>4, <4>1, <4>2, <4>3
        <3>6. QED
            BY <3>4, <3>5
    <2>4. QED
        BY <2>2, <2>3 DEF MaskInv
<1>10. GroupInv'
    <2>1. active' \subseteq component' /\ active_n' # 0 /\ active_n' <= widest'
        BY <1>1, <1>3, <1>4 DEF GroupInv
    <2>2. \A f \in started' : 0 <= col'[f]
        BY <1>1, <1>2 DEF GroupInv, TypeOK
    <2>3. Column < widest'
        BY <1>2, <1>3, ColumnSmall, LayoutAssumption
    <2>4. ASSUME NEW f \in component' PROVE col'[f] < widest'
        <3>1. CASE f = e
            BY <1>1, <2>3, <3>1 DEF TypeOK
        <3>2. CASE f # e
            <4>1. f \in component /\ f \in objs /\ col'[f] = col[f] /\ col[f] \in Int
                BY <1>1, <3>2, LayoutAssumption DEF TypeOK
            <4>2. QED
                BY <1>3, <4>1 DEF GroupInv, TypeOK
        <3>3. QED
            BY <3>1, <3>2
    <2>5. QED
        BY <2>1, <2>2, <2>4 DEF GroupInv
<1>11. BesideEachOther'
    <2> SUFFICES ASSUME NEW f \in objs, NEW g \in objs, f # g, Overlap(f, g)'
                 PROVE  /\ f \in started' /\ g \in started' /\ ~crowded' => col'[f] # col'[g]
                        /\ max_n'[f] = max_n'[g]
        BY <1>1 DEF BesideEachOther
    <2>1. Overlap(f, g) /\ Overlap(g, f)
        BY <1>1 DEF Overlap
    <2>2. max_n'[f] = max_n'[g]
        BY <1>1, <2>1 DEF BesideEachOther
    <2>3. ASSUME f \in started', g \in started', ~crowded'
          PROVE  col'[f] # col'[g]
        <3>1. CASE f # e /\ g # e
            BY <1>1, <2>1, <2>3, <3>1 DEF BesideEachOther, TypeOK
        <3>2. ASSUME NEW h \in started, Overlap(h, e)
              PROVE  h \in active'
            BY <1>1, <1>4, <3>2, EndedDoesNotOverlap DEF active
        <3>3. \A h, k \in active' : h # k => col'[h] # col'[k]
            BY <1>9, <2>3 DEF MaskInv
        <3>4. CASE f = e
            BY <1>1, <1>4, <2>1, <2>3, <3>2, <3>3, <3>4
        <3>5. CASE g = e
            BY <1>1, <1>4, <2>1, <2>3, <3>2, <3>3, <3>5
        <3>6. QED
            BY <3>1, <3>4, <3>5
    <2>4. QED
        BY <2>2, <2>3
<1>12. InSlice'
    BY <1>1 DEF InSlice, TypeOK
<1>13. QED
    BY <1>5, <1>6, <1>7, <1>9, <1>10, <1>11, <1>12

LEMMA EndLayout ==
    ASSUME LayoutInv, NEW e \in objs, End(e)
    PROVE  LayoutInv'
<1> USE DEF LayoutInv
<1>1. /\ ended' = ended \cup {e} /\ e \notin ended
      /\ mask' = mask \ {col[e]}
      /\ active_n' = active_n - 1
      /\ UNCHANGED <<objs, time, started, col, crowded>>
    BY DEF End
<1>2. e \in active
    <2>1. col[e] >= 0
        BY DEF End
    <2>2. e \in started
        BY <2>1 DEF TypeOK
    <2>3. QED
        BY <1>1, <2>2 DEF active
<1>3. active' = active \ {e}
    BY <1>1 DEF active
<1>4. /\ active_n' = Cardinality(active)'
      /\ active_n' \in Nat
      /\ active_n' = 0 => active' = {}
    <2>1. /\ IsFiniteSet(active \ {e})
          /\ Cardinality(active \ {e}) = Cardinality(active) - 1
        BY <1>2, ActiveFinite, FS_RemoveElement
    <2>2. Cardinality(active \ {e}) \in Nat
        BY <2>1, FS_CardinalityType
    <2>3. Cardinality(active \ {e}) = 0 <=> active \ {e} = {}
        BY <2>1, FS_EmptySet
    <2>4. QED
        BY <1>1, <1>3, <2>1, <2>2, <2>3 DEF SweepSound
<1>5. MaskInv'
    <2>1. mask' \subseteq ColumnsOf(active)'
        BY <1>1, <1>3 DEF MaskInv, ColumnsOf
    <2>2. ASSUME ~crowded'
          PROVE  /\ ColumnsOf(active)' \subseteq mask'
                 /\ \A f, g \in active' : f # g => col'[f] # col'[g]
        BY <1>1, <1>2, <1>3, <2>2 DEF MaskInv, ColumnsOf
    <2>3. QED
        BY <2>1, <2>2 DEF MaskInv
<1>6. SweepSound'
    <2>2. active_n' = 0 => mask' = {}
        BY <1>4, <1>5 DEF MaskInv, ColumnsOf
    <2>3. ~aborted'
        <3>1. aborted' = (active_n' < 0 \/ (active_n' = 0 /\ mask' # {}))
            BY DEF End
        <3>2. ~(active_n' < 0)
            BY <1>4
        <3>3. QED
            BY <2>2, <3>1, <3>2
    <2>4. started' = objs' => \A f \in objs' : ~Inverted(f)'
        BY <1>1 DEF SweepSound, Inverted
    <2>5. QED
        BY <1>4, <2>3, <2>4 DEF SweepSound
<1>7. InOrder'
    <2>1. \A f \in ended' : \A g \in objs' \ started' : time'[f].to <= time'[g].fr
        BY <1>1 DEF InOrder, End, EndIsNext
    <2>2. \A f \in started' : ~Inverted(f)'
        BY <1>1 DEF InOrder, Inverted
    <2>3. QED
        BY <2>1, <2>2 DEF InOrder
<1>11. aborted' \in BOOLEAN /\ crowded' \in BOOLEAN
    BY DEF End, TypeOK
<1>12. mask' \in SUBSET (0..(Bits - 1)) /\ col' \in [objs -> -1..(Bits - 1)]
    BY <1>1 DEF TypeOK
<1>8. CASE active_n' # 0
    <2>1. UNCHANGED <<max_n, component, widest>>
        BY <1>8 DEF End
    <2>2. TypeOK'
        BY <1>1, <1>2, <1>4, <1>11, <1>12, <2>1 DEF TypeOK, active
    <2>3. GroupInv'
        BY <1>1, <1>3, <1>4, <1>8, <2>1 DEF GroupInv, TypeOK
    <2>4. BesideEachOther' /\ InSlice'
        BY <1>1, <2>1 DEF BesideEachOther, InSlice, Overlap
    <2>5. QED
        BY <1>5, <1>6, <1>7, <2>2, <2>3, <2>4
<1>9. CASE active_n' = 0
    <2>1. /\ max_n' = [f \in objs |-> IF f \in component THEN widest ELSE max_n[f]]
          /\ component' = {} /\ widest' = 0
        BY <1>9 DEF End
    <2>2. active' = {} /\ started' \subseteq ended'
        BY <1>4, <1>9 DEF active
    <2>3. widest \in Nat /\ component \subseteq started
        BY DEF TypeOK
    <2>4. TypeOK'
        <3>1. component' = {f \in started' : max_n'[f] = -1}
            BY <1>1, <2>1, <2>3 DEF TypeOK
        <3>2. \A f \in objs : max_n'[f] # -1 => f \in ended'
            BY <1>1, <2>1, <2>2, <2>3 DEF TypeOK
        <3>3. max_n' \in [objs -> Int] /\ ended' \in SUBSET started'
            BY <1>1, <1>2, <2>1, <2>3 DEF TypeOK, active
        <3>4. QED
            BY <1>1, <1>4, <1>11, <1>12, <2>1, <3>1, <3>2, <3>3 DEF TypeOK
    <2>5. GroupInv'
        BY <1>1, <1>9, <2>1, <2>2 DEF GroupInv
    <2>6. BesideEachOther'
        <3> SUFFICES ASSUME NEW f \in objs, NEW g \in objs, f # g, Overlap(f, g)'
                     PROVE  /\ f \in started' /\ g \in started' /\ ~crowded' => col'[f] # col'[g]
                            /\ max_n'[f] = max_n'[g]
            BY <1>1 DEF BesideEachOther
        <3>1. Overlap(f, g) /\ Overlap(g, f)
            BY <1>1 DEF Overlap
        <3>2. f \in started' /\ g \in started' /\ ~crowded' => col'[f] # col'[g]
            BY <1>1, <3>1 DEF BesideEachOther
        <3>3. max_n[f] = max_n[g]
            BY <3>1 DEF BesideEachOther
        <3>4. f \in started <=> g \in started
            <4>1. ASSUME NEW h \in started', NEW k \in objs' \ started'
                  PROVE  ~Overlap(h, k)'
                <5>1. /\ time'[h].to \in Int /\ time'[k].fr \in Int
                      /\ time'[h].to <= time'[k].fr
                    BY <1>7, <2>2, <2>4, LayoutAssumption DEF InOrder, TypeOK
                <5>2. QED
                    BY <5>1 DEF Overlap
            <4>2. Overlap(g, f)'
                BY <1>1, <3>1 DEF Overlap
            <4>3. QED
                BY <1>1, <4>1, <4>2
        <3>5. f \in component <=> g \in component
            BY <3>3, <3>4 DEF TypeOK
        <3>6. QED
            BY <2>1, <3>2, <3>3, <3>5
    <2>7. InSlice'
        <3> SUFFICES ASSUME NEW f \in objs, max_n'[f] # -1
                     PROVE  0 <= col'[f] /\ col'[f] < max_n'[f]
            BY <1>1 DEF InSlice
        <3>1. CASE f \in component
            BY <1>1, <2>1, <2>3, <3>1 DEF GroupInv
        <3>2. CASE f \notin component
            BY <1>1, <2>1, <3>2 DEF InSlice
        <3>3. QED
            BY <3>1, <3>2
    <2>8. QED
        BY <1>5, <1>6, <1>7, <2>4, <2>5, <2>6, <2>7
<1>10. QED
    BY <1>8, <1>9

\* The assertion fails at an event that ends before it has begun: its own end
\* comes before its start.
LEMMA EndUnstartedLayout ==
    ASSUME LayoutInv, NEW e \in objs, EndUnstarted(e)
    PROVE  LayoutInv'
<1> USE DEF LayoutInv
<1>1. /\ aborted' = TRUE /\ EndIsNext(e) /\ col[e] < 0
      /\ UNCHANGED <<objs, time, started, ended, col, max_n, component, widest, mask, active_n,
                     crowded>>
    BY DEF EndUnstarted
<1>2. e \notin started
    <2>1. col[e] = -1
        BY <1>1, LayoutAssumption DEF TypeOK
    <2>2. QED
        BY <2>1 DEF TypeOK
<1>3. Inverted(e)
    BY <1>1, <1>2 DEF EndIsNext, Inverted
<1>4. TypeOK'
    BY <1>1 DEF TypeOK
<1>5. active' = active /\ \A f : Inverted(f)' = Inverted(f)
    BY <1>1 DEF active, Inverted
<1>6. SweepSound'
    <2>1. active_n' = Cardinality(active)'
        BY <1>1, <1>5 DEF SweepSound
    <2>2. aborted' => \E f \in objs' : Inverted(f)'
        BY <1>1, <1>3, <1>5
    <2>3. started' = objs' => \A f \in objs' : ~Inverted(f)'
        BY <1>1, <1>5 DEF SweepSound
    <2>4. QED
        BY <2>1, <2>2, <2>3 DEF SweepSound
<1>7. InOrder'
    BY <1>1, <1>5 DEF InOrder
<1>8. MaskInv' /\ GroupInv'
    BY <1>1, <1>5 DEF MaskInv, GroupInv, ColumnsOf
<1>9. BesideEachOther' /\ InSlice'
    BY <1>1 DEF BesideEachOther, InSlice, Overlap
<1>10. QED
    BY <1>4, <1>6, <1>7, <1>8, <1>9

LEMMA BeginLayout ==
    ASSUME LayoutInv, NEW S \in SUBSET Events, NEW t \in [S -> Spans], Begin(S, t)
    PROVE  LayoutInv'
<1> USE DEF LayoutInv
<1>1. TypeOK'
    <2>1. aborted' \in BOOLEAN /\ crowded' \in BOOLEAN
        BY DEF Begin, TypeOK
    <2>2. /\ [e \in S |-> -1] \in [S -> -1..(Bits - 1)]
          /\ [e \in S |-> -1] \in [S -> Int]
        BY LayoutAssumption
    <2>3. QED
        BY <2>1, <2>2 DEF Begin, TypeOK
<1>2. SweepSound'
    BY FS_EmptySet DEF Begin, SweepSound, active, Inverted
<1>3. InOrder' /\ MaskInv' /\ GroupInv'
    BY DEF Begin, InOrder, MaskInv, GroupInv, active, ColumnsOf
<1>4. BesideEachOther' /\ InSlice'
    BY DEF Begin, BesideEachOther, InSlice
<1>5. QED
    BY <1>1, <1>2, <1>3, <1>4

\* The inductive invariant of the sweep.
THEOREM LayoutInvariant == LayoutSpec => []LayoutInv
<1>1. ASSUME LayoutInv, [LayoutNext]_layoutVars PROVE LayoutInv'
    <2>1. CASE LayoutNext
        BY <1>1, <2>1, StartLayout, EndLayout, EndUnstartedLayout, BeginLayout
        DEF LayoutNext, Sweep
    <2>2. CASE UNCHANGED layoutVars
        BY <1>1, <2>2
        DEF layoutVars, LayoutInv, TypeOK, SweepSound, InOrder, MaskInv, GroupInv,
            BesideEachOther, InSlice, active, ColumnsOf, Overlap, Inverted
    <2>3. QED
        BY <1>1, <2>1, <2>2
<1>2. QED
    BY <1>1, InitLayout, PTL DEF LayoutSpec

\* Types, with the group and what is active where the code has them.
THEOREM LayoutTypes == LayoutSpec => []TypeOK
BY LayoutInvariant, PTL DEF LayoutInv

\* For any number of events and of columns: the counts of the sweep are right
\* and its assertions fail at an event that ends before it has begun, for
\* nothing else, and always before such an event is drawn.
THEOREM SweepAlwaysSound == LayoutSpec => []SweepSound
BY LayoutInvariant, PTL DEF LayoutInv

\* objs that overlap get different columns of the same width.
THEOREM AlwaysBesideEachOther == LayoutSpec => []BesideEachOther
BY LayoutInvariant, PTL DEF LayoutInv

\* Every column lies inside the slice.
THEOREM AlwaysInSlice == LayoutSpec => []InSlice
BY LayoutInvariant, PTL DEF LayoutInv

(***************************************************************************)
(* No slice is divided further than it has to be                           *)
(***************************************************************************)
LEMMA TimesAreInt ==
    ASSUME TypeOK, NEW e \in objs
    PROVE  time[e].fr \in Int /\ time[e].to \in Int
BY LayoutAssumption DEF TypeOK

\* What the sweep has started ends after it has begun.
LEMMA StartedForward ==
    ASSUME TypeOK, InOrder, NEW e \in started
    PROVE  time[e].fr < time[e].to
<1>1. ~Inverted(e) /\ e \in objs
    BY DEF InOrder, TypeOK
<1>2. QED
    BY <1>1, TimesAreInt DEF Inverted

\* So does what it starts next.
LEMMA NextForward ==
    ASSUME TypeOK, NEW g \in objs, g \notin started, StartIsNext(g)
    PROVE  time[g].fr < time[g].to
BY DEF StartIsNext, TypeOK

\* When an event starts, what the sweep has started of the moment is what is
\* active.
LEMMA StartedAtStart ==
    ASSUME LayoutInv, StartedFirst, NEW g \in objs, g \notin started, StartIsNext(g)
    PROVE  At(time[g].fr) \cap (started \cup {g}) = active \cup {g}
<1> USE DEF LayoutInv
<1>1. ASSUME NEW h \in active PROVE h \in At(time[g].fr)
    BY TimesAreInt DEF StartedFirst, StartIsNext, At, active, TypeOK
<1>2. ASSUME NEW h \in ended PROVE h \notin At(time[g].fr)
    <2>1. time[h].to <= time[g].fr /\ h \in objs
        BY DEF InOrder, TypeOK
    <2>2. QED
        BY <2>1, TimesAreInt DEF At
<1>3. g \in At(time[g].fr)
    BY TimesAreInt, NextForward DEF At
<1>4. QED
    BY <1>1, <1>2, <1>3 DEF active

LEMMA StartNarrow ==
    ASSUME LayoutInv, NarrowInv, NEW g \in objs, Start(g)
    PROVE  NarrowInv'
<1> USE DEF LayoutInv, NarrowInv
<1>1. /\ started' = started \cup {g} /\ g \notin started /\ StartIsNext(g)
      /\ component' = component \cup {g}
      /\ active_n' = active_n + 1
      /\ widest' = Larger(active_n + 1, widest)
      /\ UNCHANGED <<objs, time, ended, max_n>>
    BY DEF Start
<1>2. component \subseteq started /\ started \subseteq objs /\ ended \subseteq started
    BY DEF TypeOK
<1>3. /\ \A t : At(t)' = At(t)
      /\ \A e \in objs : time[e].fr \in Int /\ time[e].to \in Int
      /\ \A e \in started' : time[e].fr < time[e].to
    BY <1>1, TimesAreInt, StartedForward, NextForward DEF At
<1>4. StartedFirst'
    BY <1>1 DEF StartedFirst, StartIsNext
<1>5. NoGap'
    <2> SUFFICES ASSUME NEW e \in component', NEW f \in component',
                        NEW t \in time[e].fr..(time[f].to - 1)
                 PROVE  At(t) # {}
        BY <1>1, <1>3 DEF NoGap
    <2>1. e \in objs /\ f \in objs /\ t \in Int /\ time[e].fr <= t /\ t < time[f].to
        BY <1>1, <1>2, <1>3
    <2>2. ASSUME NEW h \in component, NEW k \in component, time[h].fr <= t, t < time[k].to
          PROVE  At(t) # {}
        BY <1>2, <1>3, <2>1, <2>2 DEF NoGap
    <2>3. CASE e \in component /\ f \in component
        BY <2>1, <2>2, <2>3
    <2>4. CASE time[g].fr <= t /\ t < time[g].to
        BY <2>4 DEF At
    <2>5. CASE component = {}
        BY <1>1, <2>1, <2>4, <2>5
    <2>6. CASE component # {}
        <3>1. PICK a \in active : TRUE
            BY <2>6, ActiveFinite, FS_EmptySet DEF GroupInv, SweepSound
        <3>2. a \in component /\ time[a].fr <= time[g].fr /\ time[g].fr < time[a].to
            BY <1>1, <1>2 DEF GroupInv, StartedFirst, StartIsNext, active
        <3>3. a \in objs
            BY <1>2, <3>2
        <3>4. CASE e = g /\ f # g
            BY <1>1, <1>3, <2>1, <2>2, <3>2, <3>3, <3>4
        <3>5. CASE e # g /\ f = g
            BY <1>1, <1>3, <2>1, <2>2, <2>4, <3>2, <3>3, <3>5
        <3>6. QED
            BY <1>1, <2>1, <2>3, <2>4, <3>4, <3>5
    <2>7. QED
        BY <2>5, <2>6
<1>6. Peak'
    <2>1. At(time[g].fr) \cap started' = active \cup {g}
        BY <1>1, StartedAtStart
    <2>2. Cardinality(active \cup {g}) = active_n + 1 /\ active_n \in Nat /\ widest \in Nat
        BY <1>1, <1>2, ActiveFinite, FS_AddElement DEF SweepSound, active, TypeOK
    <2>3. CASE active_n + 1 > widest
        BY <1>1, <1>3, <2>1, <2>2, <2>3 DEF Peak, Larger
    <2>4. CASE active_n + 1 <= widest
        <3>1. widest' = widest /\ component # {}
            BY <1>1, <2>2, <2>4 DEF Larger, Peak
        <3>2. PICK f \in component : Cardinality(At(time[f].fr) \cap started) = widest
            BY <3>1 DEF Peak
        <3>3. g \notin At(time[f].fr)
            <4>1. SUFFICES ASSUME g \in At(time[f].fr) PROVE FALSE
                OBVIOUS
            <4>2. time[f].fr = time[g].fr
                BY <1>1, <1>2, <1>3, <4>1 DEF StartedFirst, At
            <4>3. At(time[f].fr) \cap started = active
                BY <1>1, <2>1, <4>2 DEF active
            <4>4. widest = Cardinality(active)
                BY <3>2, <4>3
            <4>5. active_n = Cardinality(active)
                BY DEF SweepSound
            <4>6. QED
                BY <2>2, <2>4, <4>4, <4>5
        <3>4. At(time[f].fr) \cap started' = At(time[f].fr) \cap started
            BY <1>1, <3>3
        <3>5. /\ f \in component' /\ component' # {}
              /\ Cardinality(At(time[f].fr) \cap started)' = widest'
            BY <1>1, <3>1, <3>2, <3>4 DEF At
        <3>6. QED
            BY <3>5 DEF Peak
    <2>5. QED
        BY <2>2, <2>3, <2>4
<1>7. Narrowest'
    BY <1>1, <1>3 DEF Narrowest
<1>8. QED
    BY <1>4, <1>5, <1>6, <1>7

\* At the end of a group nothing is active, and what is yet to start lies
\* behind it: its peak is as wide as the width it is given.
LEMMA EndNarrow ==
    ASSUME LayoutInv, NarrowInv, NEW e \in objs, End(e), LayoutInv'
    PROVE  NarrowInv'
<1> USE DEF LayoutInv, NarrowInv
<1>1. /\ ended' = ended \cup {e}
      /\ active_n' = active_n - 1
      /\ UNCHANGED <<objs, time, started>>
    BY DEF End
<1>2. component \subseteq started /\ started \subseteq objs /\ widest \in Nat
    BY DEF TypeOK
<1>3. /\ \A t : At(t)' = At(t)
      /\ \A h \in objs : time[h].fr \in Int /\ time[h].to \in Int
      /\ \A h \in started : time[h].fr < time[h].to
    BY <1>1, TimesAreInt, StartedForward DEF At
<1>4. StartedFirst'
    BY <1>1 DEF StartedFirst
<1>5. CASE active_n' # 0
    <2>1. UNCHANGED <<max_n, component, widest>>
        BY <1>5 DEF End
    <2>2. NoGap' /\ Peak' /\ Narrowest'
        BY <1>1, <1>3, <2>1 DEF NoGap, Peak, Narrowest
    <2>3. QED
        BY <1>4, <2>2
<1>6. CASE active_n' = 0
    <2>1. /\ max_n' = [f \in objs |-> IF f \in component THEN widest ELSE max_n[f]]
          /\ component' = {} /\ widest' = 0
        BY <1>6 DEF End
    <2>2. NoGap' /\ Peak'
        BY <2>1 DEF NoGap, Peak
    <2>3. started \subseteq ended'
        <3>1. active' = {}
            BY <1>6 DEF SweepSound, GroupInv, active
        <3>2. QED
            BY <1>1, <3>1 DEF active
    <2>4. ASSUME NEW f \in started PROVE At(time[f].fr) \subseteq started
        <3>1. SUFFICES ASSUME NEW h \in objs \ started, h \in At(time[f].fr) PROVE FALSE
            BY DEF At
        <3>2. time[f].to <= time[h].fr
            BY <1>1, <2>3 DEF InOrder
        <3>3. time[f].fr < time[f].to /\ time[h].fr <= time[f].fr
            BY <1>3, <3>1 DEF At
        <3>4. QED
            BY <1>2, <1>3, <3>1, <3>2, <3>3
    <2>5. Narrowest'
        <3> SUFFICES ASSUME NEW h \in objs, max_n'[h] # -1
                     PROVE  \E f \in objs :
                                /\ max_n'[f] = max_n'[h]
                                /\ Cardinality(At(time[f].fr)) = max_n'[h]
                                /\ \A t \in time[h].to..time[f].fr : At(t) # {}
                                /\ \A t \in time[f].to..time[h].fr : At(t) # {}
            BY <1>1, <1>3 DEF Narrowest
        <3>1. CASE h \in component
            <4>1. PICK f \in component : Cardinality(At(time[f].fr) \cap started) = widest
                BY <3>1 DEF Peak
            <4>2. f \in started /\ f \in objs /\ max_n'[f] = widest /\ max_n'[h] = widest
                BY <1>2, <2>1, <3>1
            <4>3. At(time[f].fr) \cap started = At(time[f].fr)
                BY <2>4, <4>2
            <4>4. ASSUME NEW t \in time[h].to..time[f].fr PROVE At(t) # {}
                BY <1>2, <1>3, <3>1, <4>2 DEF NoGap
            <4>5. ASSUME NEW t \in time[f].to..time[h].fr PROVE At(t) # {}
                BY <1>2, <1>3, <3>1, <4>2 DEF NoGap
            <4>6. QED
                BY <4>1, <4>2, <4>3, <4>4, <4>5
        <3>2. CASE h \notin component
            <4>1. max_n'[h] = max_n[h]
                BY <2>1, <3>2
            <4>2. PICK f \in objs :
                        /\ max_n[f] = max_n[h]
                        /\ Cardinality(At(time[f].fr)) = max_n[h]
                        /\ \A t \in time[h].to..time[f].fr : At(t) # {}
                        /\ \A t \in time[f].to..time[h].fr : At(t) # {}
                BY <3>2, <4>1 DEF Narrowest
            <4>3. max_n'[f] = max_n[f]
                BY <2>1, <3>2, <4>1, <4>2 DEF TypeOK
            <4>4. QED
                BY <4>1, <4>2, <4>3
        <3>3. QED
            BY <3>1, <3>2
    <2>6. QED
        BY <1>4, <2>2, <2>5
<1>7. QED
    BY <1>5, <1>6

\* A width is that of a moment at which as many events overlap, reached from
\* every event that is given it without a gap.
THEOREM AlwaysNarrowest == LayoutSpec => []Narrowest
<1>1. LayoutInit => NarrowInv
    BY DEF LayoutInit, NarrowInv, StartedFirst, NoGap, Peak, Narrowest
<1>2. ASSUME LayoutInv, LayoutInv', NarrowInv, [LayoutNext]_layoutVars PROVE NarrowInv'
    <2>1. ASSUME NEW S \in SUBSET Events, NEW t \in [S -> Spans], Begin(S, t) PROVE NarrowInv'
        BY <2>1 DEF Begin, NarrowInv, StartedFirst, NoGap, Peak, Narrowest
    <2>5. ASSUME NEW e \in objs, EndUnstarted(e) PROVE NarrowInv'
        <3>1. UNCHANGED <<objs, time, started, max_n, component, widest>>
            BY <2>5 DEF EndUnstarted
        <3>2. \A t : At(t)' = At(t)
            BY <3>1 DEF At
        <3>3. StartedFirst'
            BY <1>2, <3>1 DEF NarrowInv, StartedFirst
        <3>4. NoGap'
            BY <1>2, <3>1, <3>2 DEF NarrowInv, NoGap
        <3>5. Narrowest'
            <4>1. SUFFICES ASSUME NEW h \in objs, max_n[h] # -1
                           PROVE  \E f \in objs :
                                     /\ max_n[f] = max_n[h]
                                     /\ Cardinality(At(time[f].fr)) = max_n[h]
                                     /\ \A t \in time[h].to..time[f].fr : At(t) # {}
                                     /\ \A t \in time[f].to..time[h].fr : At(t) # {}
                BY <3>1, <3>2 DEF Narrowest
            <4>2. QED
                BY <1>2, <4>1 DEF NarrowInv, Narrowest
        <3>6. Peak'
            BY <1>2, <3>1 DEF NarrowInv, Peak, At
        <3>7. QED
            BY <3>3, <3>4, <3>5, <3>6 DEF NarrowInv
    <2>2. CASE LayoutNext
        BY <1>2, <2>1, <2>2, <2>5, StartNarrow, EndNarrow DEF LayoutNext, Sweep
    <2>3. CASE UNCHANGED layoutVars
        BY <1>2, <2>3 DEF layoutVars, NarrowInv, StartedFirst, NoGap, Peak, Narrowest, At
    <2>4. QED
        BY <1>2, <2>2, <2>3
<1>3. QED
    BY <1>1, <1>2, LayoutInvariant, PTL DEF LayoutSpec, NarrowInv
=============================================================================
