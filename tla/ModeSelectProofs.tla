-------------------------- MODULE ModeSelectProofs --------------------------
(***************************************************************************)
(* Proofs about ActiveEvents, for every set of events with their spans,    *)
(* every set of views with their bounds and every set of filters, and      *)
(* about ModeSelect, for every number of events, todos and keys such that  *)
(* there are codes for all.                                                *)
(*                                                                         *)
(* That no two components get the same code is a counting argument: the    *)
(* codes of a length are in a linear order, so that each has a number of   *)
(* codes before it of its own, and every number below that of all codes    *)
(* occurs (CodesNumbered).  That codes stay apart, and lead to whom they   *)
(* were offered, is an invariant about who can have an old code.           *)
(***************************************************************************)
EXTENDS ModeSelect, TLAPS, FiniteSetTheorems, WellFoundedInduction

(***************************************************************************)
(* Active events: where each event is (PlacesInv), the types, and that     *)
(* only events in view have textures.  What a frame shows follows, because *)
(* an event that does not overlap a range ends before the range or begins  *)
(* after it.                                                               *)
(***************************************************************************)
EventsInv == EventsTypeOK /\ PlacesInv /\ TexturesInView

\* The search for the events on either side of the range finds all that do
\* not overlap it.
LEMMA LeavingIsOutside ==
    ASSUME EventsTypeOK, NEW v \in Views
    PROVE  Leaving(Bounds[v]) =
               {e \in in_view \cup Entering(Bounds[v]) :
                   ~interval_overlap(Span[e], Bounds[v])}
<1> DEFINE ran == Bounds[v]
           S == in_view \cup Entering(ran)
<1>1. S \subseteq Events
  BY DEF EventsTypeOK, Entering, Within
<1>2. /\ ran.fr \in Int /\ ran.to \in Int
      /\ LLONG_MIN \in Int /\ LLONG_MAX \in Int
  BY EventsAssumption DEF Intervals
<1>3. ASSUME NEW e \in S, ~interval_overlap(Span[e], ran)
      PROVE  \/ interval_overlap(Span[e], Left(ran))
             \/ interval_overlap(Span[e], Right(ran))
  <2>1. /\ Span[e].fr \in Int /\ Span[e].to \in Int
        /\ LLONG_MIN < Span[e].fr /\ Span[e].fr < Span[e].to
        /\ Span[e].to < LLONG_MAX
    BY <1>1, EventsAssumption DEF Intervals
  <2>2. ran.fr < ran.to
    BY EventsAssumption
  <2> QED
    BY <1>2, <1>3, <2>1, <2>2 DEF interval_overlap, Left, Right
<1> QED
  BY <1>3 DEF Leaving, Within

\* The events in view after a range was processed: no event is lost between
\* the trees.
LEMMA ProcessInView ==
    ASSUME EventsInv, NEW v \in Views, proj_active_events_process(Bounds[v])
    PROVE  /\ in_view' = {e \in calendar : /\ Visible(e)
                                           /\ interval_overlap(Span[e], Bounds[v])}
           /\ in_view' \cup not_in_view' = processed_not_hidden'
           /\ in_view' \cap not_in_view' = {}
           /\ failed' = FALSE
           /\ tex' \subseteq in_view'
<1> DEFINE ran == Bounds[v]
<1>1. in_view' = (in_view \cup Entering(ran) \cup FreshVisible(ran)) \ Leaving(ran)
  BY DEF proj_active_events_process
<1>2. Leaving(ran) = {e \in in_view \cup Entering(ran) : ~interval_overlap(Span[e], ran)}
  BY LeavingIsOutside DEF EventsInv
<1>3. \A e : e \in FreshVisible(ran) => /\ e \in unprocessed \cup pending
                                        /\ interval_overlap(Span[e], ran)
                                        /\ Visible(e)
  BY DEF FreshVisible, Fresh, Within
<1>4. \A e : e \in unprocessed \cup pending /\ interval_overlap(Span[e], ran) /\ Visible(e)
                => e \in FreshVisible(ran)
  BY DEF FreshVisible, Fresh, Within
<1>5. \A e : e \in Entering(ran) <=> e \in not_in_view /\ interval_overlap(Span[e], ran)
  BY DEF Entering, Within
<1>6. /\ in_view \cup not_in_view = processed_not_hidden
      /\ in_view \cap not_in_view = {}
      /\ processed_not_hidden = {e \in processed : Visible(e)}
      /\ calendar = pending \cup unprocessed \cup processed
      /\ (pending \cup unprocessed) \cap processed = {}
  BY DEF EventsInv, PlacesInv, Partition, Divided
<1>7. tex \subseteq in_view /\ failed = FALSE
  BY DEF EventsInv, TexturesInView, EventsTypeOK
<1>8. in_view' = {e \in calendar : Visible(e) /\ interval_overlap(Span[e], ran)}
  BY <1>1, <1>2, <1>3, <1>4, <1>5, <1>6
<1>9. not_in_view' = (not_in_view \ Entering(ran)) \cup Leaving(ran)
  BY DEF proj_active_events_process
<1>10. processed_not_hidden' = processed_not_hidden \cup FreshVisible(ran)
  BY DEF proj_active_events_process
<1>11. in_view' \cup not_in_view' = processed_not_hidden'
  BY <1>1, <1>2, <1>5, <1>6, <1>9, <1>10
<1>12. in_view' \cap not_in_view' = {}
  BY <1>1, <1>2, <1>3, <1>5, <1>6, <1>9
<1>13. (Entering(ran) \cup FreshVisible(ran)) \cap tex = {}
  BY <1>3, <1>5, <1>6, <1>7
<1>14. failed' = FALSE
  BY <1>13 DEF proj_active_events_process
<1>15. PICK drawn \in SUBSET in_view' : tex' = (tex \ Leaving(ran)) \cup drawn
  BY DEF proj_active_events_process
<1>16. tex' \subseteq in_view'
  BY <1>1, <1>7, <1>15
<1> QED
  BY <1>8, <1>11, <1>12, <1>14, <1>16

\* Nothing is placed at the start.
LEMMA EventsInitInv == EventsInit => EventsInv
  BY EventsAssumption
  DEF EventsInit, EventsInv, EventsTypeOK, PlacesInv, Partition, Divided, TexturesInView

\* A frame processes the view and leaves each event in one place.
LEMMA FrameInv ==
    ASSUME EventsInv, NEW v \in Views, Frame(v)
    PROVE  EventsInv'
<1> USE DEF EventsInv
<1>1. CASE main_view = "calendar"
  <2>1. proj_active_events_process(Bounds[v])
    BY <1>1 DEF Frame
  <2>2. /\ calendar' = calendar /\ pending' = {}
        /\ current_filter' = current_filter /\ main_view' = main_view
    BY DEF Frame
  <2>3. /\ unprocessed' = (unprocessed \cup pending) \ Fresh(Bounds[v])
        /\ processed' = processed \cup Fresh(Bounds[v])
        /\ processed_not_hidden' = processed_not_hidden \cup FreshVisible(Bounds[v])
    BY <2>1 DEF proj_active_events_process
  <2>4. /\ in_view' \cup not_in_view' = processed_not_hidden'
        /\ in_view' \cap not_in_view' = {}
        /\ failed' = FALSE
        /\ tex' \subseteq in_view'
    BY <2>1, ProcessInView
  <2>5. /\ Fresh(Bounds[v]) \subseteq unprocessed \cup pending
        /\ FreshVisible(Bounds[v]) = {e \in Fresh(Bounds[v]) : Visible(e)}
    BY DEF Fresh, FreshVisible, Within
  <2>6. \A e : Visible(e)' <=> Visible(e)
    BY <2>2 DEF Visible
  <2>7. Partition'
    BY <2>2, <2>3, <2>5 DEF PlacesInv, Partition
  <2>8. processed_not_hidden' = {e \in processed' : Visible(e)}
    BY <2>3, <2>5 DEF PlacesInv, Divided
  <2>9. Divided'
    BY <2>4, <2>6, <2>8 DEF Divided
  <2>10. EventsTypeOK'
    BY <2>2, <2>3, <2>4, <2>5, <2>7, <2>8 DEF EventsTypeOK, Partition
  <2> QED
    BY <2>4, <2>7, <2>9, <2>10 DEF PlacesInv, TexturesInView
<1>2. CASE main_view # "calendar"
  BY <1>2
  DEF Frame, EventsTypeOK, PlacesInv, Partition, Divided, Visible, TexturesInView
<1> QED
  BY <1>1, <1>2

\* Every step of the projection keeps the invariant.
LEMMA EventsStepInv == EventsInv /\ [EventsNext]_eventVars => EventsInv'
<1> SUFFICES ASSUME EventsInv, [EventsNext]_eventVars PROVE EventsInv'
  OBVIOUS
<1> USE DEF EventsInv
<1>1. ASSUME NEW v \in Views, Frame(v) PROVE EventsInv'
  BY <1>1, FrameInv
<1>2. CASE in_view_destroy_texs
  BY <1>2
  DEF in_view_destroy_texs, projVars, EventsTypeOK, PlacesInv, Partition, Divided,
      Visible, TexturesInView
<1>3. ASSUME NEW C \in Calendars, Rebuild(C),
             current_filter' \in Filters, main_view' = main_view
      PROVE  EventsInv'
  <2>1. C \in SUBSET Events
    BY EventsAssumption
  <2>2. tex \subseteq processed
    BY DEF EventsTypeOK, TexturesInView
  <2> QED
    BY <1>3, <2>1, <2>2
    DEF Rebuild, EventsTypeOK, PlacesInv, Partition, Divided, TexturesInView
<1>4. ASSUME NEW C \in Calendars, Invalidate(C) PROVE EventsInv'
  BY <1>3, <1>4 DEF Invalidate, EventsTypeOK
<1>5. ASSUME NEW f \in Filters, app_cmd_activate_filter(f) PROVE EventsInv'
  <2>1. calendar \in SUBSET Events /\ tex \subseteq processed
    BY DEF EventsTypeOK, TexturesInView
  <2> QED
    BY <1>5, <2>1
    DEF app_cmd_activate_filter, Rebuild, EventsTypeOK, PlacesInv, Partition, Divided,
        TexturesInView
<1>6. ASSUME NEW m \in {"calendar", "todo"}, app_cmd_switch_view(m) PROVE EventsInv'
  BY <1>6
  DEF app_cmd_switch_view, projVars, EventsTypeOK, PlacesInv, Partition, Divided,
      Visible, TexturesInView
<1>7. CASE UNCHANGED eventVars
  BY <1>7
  DEF eventVars, projVars, EventsTypeOK, PlacesInv, Partition, Divided, Visible,
      TexturesInView
<1> QED
  BY <1>1, <1>2, <1>4, <1>5, <1>6, <1>7 DEF EventsNext

\* The invariant holds always, whatever is drawn, edited or filtered.
THEOREM EventsInvariant == EventsSpec => []EventsInv
  BY EventsInitInv, EventsStepInv, PTL DEF EventsSpec

\* An event is never in view and hidden, or in two places: the sets of the
\* projection keep the nesting that the code relies on.
THEOREM EventsTypes == EventsSpec => []EventsTypeOK
  BY EventsInvariant, PTL DEF EventsInv

\* The assertion "ac tex" of in_view_changed never fails and no texture is
\* leaked or kept across the loss of the graphics context.
THEOREM TexturesAlwaysInView == EventsSpec => []TexturesInView
  BY EventsInvariant, PTL DEF EventsInv

\* Every event of the calendars is in exactly one tree, under the filter that
\* is active now.
THEOREM PlacesInvariant == EventsSpec => []PlacesInv
  BY EventsInvariant, PTL DEF EventsInv

\* A frame of the calendar view has in view exactly what it has to show.
THEOREM FramesShowView == EventsSpec => FrameShowsView
<1>1. EventsInv => [\A v \in Views : main_view = "calendar" /\ Frame(v) => in_view' = Due(v)]_eventVars
  BY ProcessInView DEF Frame, Due
<1> QED
  BY <1>1, EventsInvariant, PTL DEF FrameShowsView

(***************************************************************************)
(* Codes                                                                   *)
(***************************************************************************)
LEMMA LeastExists ==
  ASSUME NEW S \in SUBSET Nat, S # {}
  PROVE  \E x \in S : \A y \in S : x <= y
  <1> DEFINE R == OpToRel(<, Nat)
  <1>1. IsWellFoundedOn(R, Nat)
    BY NatLessThanWellFounded
  <1>2. \A p : p \in R <=> p \in Nat \X Nat /\ p[1] < p[2]
    BY DEF OpToRel
  <1> HIDE DEF R
  <1>3. PICK x \in S : \A y \in S : ~(<<y, x>> \in R)
    BY <1>1, WFMin
  <1>4. \A y \in S : x <= y
    <2> TAKE y \in S
    <2>1. x \in Nat /\ y \in Nat
      OBVIOUS
    <2>2. ~(y < x)
      BY <1>2, <1>3, <2>1
    <2> QED
      BY <2>1, <2>2
  <1> QED
    BY <1>4

\* There are finitely many codes of a length.
LEMMA KPermsFinite ==
  ASSUME NEW k \in Nat
  PROVE  IsFiniteSet(KPerms(k)) /\ Cardinality(KPerms(k)) \in Nat
  <1> DEFINE Pairs == SUBSET ((1..k) \X Keys)
             graph == [s \in KPerms(k) |-> {p \in (1..k) \X Keys : p[2] = s[p[1]]}]
  <1>1. IsFiniteSet(Pairs)
    <2>1. IsFiniteSet(1..k) /\ IsFiniteSet(Keys)
      BY SelectAssumption, FS_Interval
    <2>2. IsFiniteSet((1..k) \X Keys)
      BY <2>1, FS_Product
    <2> QED
      BY <2>2, FS_SUBSET
  <1>2. graph \in [KPerms(k) -> Pairs]
    OBVIOUS
  <1>3. ASSUME NEW s \in KPerms(k), NEW t \in KPerms(k), graph[s] = graph[t] PROVE s = t
    <2>1. s \in [1..k -> Keys] /\ t \in [1..k -> Keys]
      BY DEF KPerms
    <2>2. ASSUME NEW i \in 1..k PROVE s[i] = t[i]
      <3>1. <<i, s[i]>> \in graph[s]
        BY <2>1
      <3>2. <<i, s[i]>> \in graph[t]
        BY <3>1, <1>3
      <3> QED
        BY <3>2
    <2> QED
      BY <2>1, <2>2
  <1>4. graph \in Injection(KPerms(k), Pairs)
    BY <1>2, <1>3 DEF Injection, IsInjective
  <1>5. IsFiniteSet(KPerms(k))
    <2> HIDE DEF Pairs, graph
    <2> QED
      BY <1>1, <1>4, FS_Injection
  <1> QED
    BY <1>5, FS_CardinalityType

LEMMA LexTransitive ==
  ASSUME NEW k \in Nat, NEW s \in KPerms(k), NEW t \in KPerms(k), NEW u \in KPerms(k),
         LexLess(s, t), LexLess(t, u)
  PROVE  LexLess(s, u)
  <1>1. s \in [1..k -> Nat] /\ t \in [1..k -> Nat] /\ u \in [1..k -> Nat]
    BY SelectAssumption DEF KPerms
  <1>2. PICK i \in 1..k : s[i] < t[i] /\ \A h \in 1..(i - 1) : s[h] = t[h]
    BY <1>1 DEF LexLess
  <1>3. PICK j \in 1..k : t[j] < u[j] /\ \A h \in 1..(j - 1) : t[h] = u[h]
    BY <1>1 DEF LexLess
  <1>4. CASE i < j
    <2>1. s[i] < u[i]
      BY <1>1, <1>2, <1>3, <1>4
    <2>2. \A h \in 1..(i - 1) : s[h] = u[h]
      BY <1>2, <1>3, <1>4
    <2> QED
      BY <1>1, <2>1, <2>2 DEF LexLess
  <1>5. CASE j <= i
    <2>1. s[j] < u[j]
      BY <1>1, <1>2, <1>3, <1>5
    <2>2. \A h \in 1..(j - 1) : s[h] = u[h]
      BY <1>2, <1>3, <1>5
    <2> QED
      BY <1>1, <2>1, <2>2 DEF LexLess
  <1> QED
    BY <1>4, <1>5

LEMMA LexTotal ==
  ASSUME NEW k \in Nat, NEW s \in KPerms(k), NEW t \in KPerms(k), s # t
  PROVE  LexLess(s, t) \/ LexLess(t, s)
  <1> DEFINE D == {i \in 1..k : s[i] # t[i]}
  <1>1. s \in [1..k -> Nat] /\ t \in [1..k -> Nat]
    BY SelectAssumption DEF KPerms
  <1>2. D \in SUBSET Nat /\ D # {}
    BY <1>1
  <1>3. PICK i \in D : \A j \in D : i <= j
    BY <1>2, LeastExists
  <1>4. \A h \in 1..(i - 1) : s[h] = t[h]
    BY <1>3
  <1>5. s[i] < t[i] \/ t[i] < s[i]
    BY <1>1
  <1> QED
    BY <1>1, <1>4, <1>5 DEF LexLess

LEMMA LexIrreflexive ==
  ASSUME NEW k \in Nat, NEW s \in KPerms(k)
  PROVE  ~LexLess(s, s)
  <1>1. s \in [1..k -> Nat]
    BY SelectAssumption DEF KPerms
  <1> QED
    BY <1>1 DEF LexLess

\* Different codes have different numbers of codes before them.
LEMMA BeforeGrows ==
  ASSUME NEW k \in Nat, NEW s \in KPerms(k), NEW t \in KPerms(k), LexLess(s, t)
  PROVE  Cardinality(Before(k, s)) < Cardinality(Before(k, t))
  <1>1. Before(k, s) \subseteq Before(k, t)
    BY LexTransitive DEF Before
  <1>2. s \in Before(k, t) /\ s \notin Before(k, s)
    BY LexIrreflexive DEF Before
  <1>3. IsFiniteSet(Before(k, t))
    BY KPermsFinite, FS_Subset DEF Before
  <1>4. /\ Cardinality(Before(k, s)) <= Cardinality(Before(k, t))
        /\ Cardinality(Before(k, s)) # Cardinality(Before(k, t))
        /\ IsFiniteSet(Before(k, s))
    BY <1>1, <1>2, <1>3, FS_Subset
  <1> QED
    BY <1>3, <1>4, FS_CardinalityType

\* The numbers of the codes of a length are those below the number of all.
LEMMA CodesNumbered ==
  ASSUME NEW k \in Nat, NEW n \in Nat, n < Cardinality(KPerms(k))
  PROVE  key_gen_get(k, n) \in KPerms(k) /\ Cardinality(Before(k, key_gen_get(k, n))) = n
  <1> DEFINE N == Cardinality(KPerms(k))
             rank == [s \in KPerms(k) |-> Cardinality(Before(k, s))]
  <1>1. IsFiniteSet(KPerms(k)) /\ N \in Nat
    BY KPermsFinite
  <1>2. ASSUME NEW s \in KPerms(k) PROVE rank[s] \in 0..(N - 1)
    <2>1. Before(k, s) \subseteq KPerms(k) /\ s \notin Before(k, s)
      BY LexIrreflexive DEF Before
    <2>2. /\ Cardinality(Before(k, s)) <= N
          /\ Cardinality(Before(k, s)) # N
          /\ Cardinality(Before(k, s)) \in Nat
      BY <1>1, <2>1, FS_Subset, FS_CardinalityType
    <2> QED
      BY <1>1, <2>2
  <1>3. ASSUME NEW s \in KPerms(k), NEW t \in KPerms(k), rank[s] = rank[t] PROVE s = t
    <2>1. rank[s] = Cardinality(Before(k, s)) /\ rank[t] = Cardinality(Before(k, t))
      OBVIOUS
    <2>2. rank[s] \in Nat /\ rank[t] \in Nat
      BY <1>1, <1>2
    <2>3. Cardinality(Before(k, s)) = Cardinality(Before(k, t))
      BY <1>3, <2>1
    <2>4. Cardinality(Before(k, s)) \in Nat /\ Cardinality(Before(k, t)) \in Nat
      BY <2>1, <2>2
    <2> HIDE DEF rank, N
    <2>5. ~LexLess(s, t) /\ ~LexLess(t, s)
      BY <2>3, <2>4, BeforeGrows
    <2> QED
      BY <2>5, LexTotal
  <1>4. rank \in Injection(KPerms(k), 0..(N - 1))
    BY <1>2, <1>3 DEF Injection, IsInjective
  <1>5. IsFiniteSet(0..(N - 1)) /\ Cardinality(0..(N - 1)) = N
    <2>0. N \in Nat
      BY <1>1
    <2> HIDE DEF N
    <2>1. 0 \in Int /\ N - 1 \in Int
      BY <2>0
    <2>2. /\ IsFiniteSet(0..(N - 1))
          /\ Cardinality(0..(N - 1)) = IF 0 > N - 1 THEN 0 ELSE N - 1 - 0 + 1
      BY <2>1, FS_Interval
    <2> QED
      BY <2>0, <2>2
  <1>6. rank \in Surjection(KPerms(k), 0..(N - 1))
    <2> HIDE DEF rank, N
    <2>1. Cardinality(KPerms(k)) = Cardinality(0..(N - 1))
      BY <1>5 DEF N
    <2> QED
      BY <1>4, <1>5, <2>1, FS_Injection
  <1>7. n \in 0..(N - 1)
    BY <1>1
  <1>8. \E s \in KPerms(k) : Cardinality(Before(k, s)) = n
    BY <1>6, <1>7 DEF Surjection
  <1> QED
    BY <1>8 DEF key_gen_get

\* There is a least length with codes enough.
LEMMA LengthSuffices ==
  ASSUME NEW S, S \subseteq Events \/ S \subseteq Todos
  PROVE  /\ IsFiniteSet(S) /\ Cardinality(S) \in Nat
         /\ key_gen_len(Cardinality(S)) \in Nat \ {0}
         /\ Cardinality(S) <= Cardinality(KPerms(key_gen_len(Cardinality(S))))
  <1> DEFINE n == Cardinality(S)
             Enough == {k \in 1..Cardinality(Keys) : Cardinality(KPerms(k)) >= n}
  <1>1. PICK T \in {Events, Todos} : S \subseteq T
    OBVIOUS
  <1>2. /\ IsFiniteSet(T)
        /\ \E k \in 1..Cardinality(Keys) : Cardinality(KPerms(k)) >= Cardinality(T)
    BY <1>1, SelectAssumption
  <1>3. IsFiniteSet(S) /\ n <= Cardinality(T) /\ n \in Nat /\ Cardinality(T) \in Nat
    BY <1>1, <1>2, FS_Subset, FS_CardinalityType
  <1>4. \A k \in Nat : Cardinality(KPerms(k)) \in Nat
    BY KPermsFinite
  <1>5. Cardinality(Keys) \in Nat
    BY SelectAssumption, FS_CardinalityType
  <1>6. Enough \in SUBSET Nat /\ Enough # {}
    BY <1>2, <1>3, <1>4, <1>5
  <1>7. PICK m \in Enough : \A k \in Enough : m <= k
    <2> HIDE DEF Enough
    <2> QED
      BY <1>6, LeastExists
  <1>8. /\ m \in 1..Cardinality(Keys)
        /\ Cardinality(KPerms(m)) >= n
        /\ \A j \in 1..(m - 1) : Cardinality(KPerms(j)) < n
    <2>1. ASSUME NEW j \in 1..(m - 1) PROVE Cardinality(KPerms(j)) < n
      <3>1. j \notin Enough /\ j \in 1..Cardinality(Keys)
        BY <1>5, <1>7
      <3>2. Cardinality(KPerms(j)) \in Nat
        BY <1>4
      <3> QED
        BY <1>3, <3>1, <3>2
    <2> QED
      BY <1>7, <2>1
  <1>9. /\ key_gen_len(n) \in 1..Cardinality(Keys)
        /\ Cardinality(KPerms(key_gen_len(n))) >= n
    <2> HIDE DEF n, Enough
    <2> QED
      BY <1>8 DEF key_gen_len
  <1>10. key_gen_len(n) \in Nat \ {0}
    BY <1>5, <1>9
  <1> QED
    BY <1>3, <1>4, <1>9, <1>10

\* All who can choose get codes of one length, each another.
LEMMA GenCodesDiffer ==
  ASSUME NEW S, S \subseteq Events \/ S \subseteq Todos
  PROVE  /\ \A i \in S : /\ GenCodes(S)[i] \in Seq(Keys)
                         /\ Len(GenCodes(S)[i]) = key_gen_len(Cardinality(S))
                         /\ IsInjective(GenCodes(S)[i])
         /\ \A i, j \in S : GenCodes(S)[i] = GenCodes(S)[j] => i = j
  <1> DEFINE k == key_gen_len(Cardinality(S))
             Less(i) == {j \in S : j < i}
  <1>1. /\ IsFiniteSet(S) /\ Cardinality(S) \in Nat /\ k \in Nat \ {0}
        /\ Cardinality(S) <= Cardinality(KPerms(k))
        /\ Cardinality(KPerms(k)) \in Nat
    BY LengthSuffices, KPermsFinite
  <1>2. S \subseteq Nat
    BY SelectAssumption
  <1>3. ASSUME NEW i \in S
        PROVE  Cardinality(Less(i)) \in Nat /\ Cardinality(Less(i)) < Cardinality(S)
    <2>1. Less(i) \subseteq S /\ i \notin Less(i)
      BY <1>2
    <2>2. /\ Cardinality(Less(i)) <= Cardinality(S)
          /\ Cardinality(Less(i)) # Cardinality(S)
          /\ IsFiniteSet(Less(i))
      BY <1>1, <2>1, FS_Subset
    <2> QED
      BY <1>1, <2>2, FS_CardinalityType
  <1>4. ASSUME NEW i \in S, NEW j \in S, i < j
        PROVE  Cardinality(Less(i)) # Cardinality(Less(j))
    <2>0. \A h \in S : h < i => h < j
      BY <1>2, <1>4
    <2>1. Less(i) \subseteq Less(j) /\ i \in Less(j) /\ i \notin Less(i)
      <3>1. ~(i < i)
        BY <1>2
      <3> QED
        BY <2>0, <3>1, <1>4
    <2>2. IsFiniteSet(Less(j))
      BY <1>1, FS_Subset
    <2> QED
      BY <2>1, <2>2, FS_Subset
  <1>5. ASSUME NEW i \in S
        PROVE  /\ GenCodes(S)[i] \in KPerms(k)
               /\ Cardinality(Before(k, GenCodes(S)[i])) = Cardinality(Less(i))
    <2>1. GenCodes(S)[i] = key_gen_get(k, Cardinality(Less(i)))
      BY DEF GenCodes
    <2>2. Cardinality(Less(i)) < Cardinality(KPerms(k)) /\ Cardinality(Less(i)) \in Nat
      BY <1>1, <1>3
    <2> HIDE DEF k, Less
    <2> QED
      BY <1>1, <2>1, <2>2, CodesNumbered
  <1>6. ASSUME NEW i \in S
        PROVE  /\ GenCodes(S)[i] \in Seq(Keys) /\ Len(GenCodes(S)[i]) = k
               /\ IsInjective(GenCodes(S)[i])
    <2>1. GenCodes(S)[i] \in [1..k -> Keys] /\ IsInjective(GenCodes(S)[i])
      BY <1>5 DEF KPerms
    <2>2. k \in Nat
      BY <1>1
    <2> HIDE DEF k, Less
    <2> QED
      BY <2>1, <2>2
  <1>7. ASSUME NEW i \in S, NEW j \in S, GenCodes(S)[i] = GenCodes(S)[j] PROVE i = j
    <2>1. Cardinality(Less(i)) = Cardinality(Less(j))
      BY <1>5, <1>7
    <2>2. i \in Nat /\ j \in Nat
      BY <1>2
    <2> HIDE DEF Less
    <2>3. ~(i < j) /\ ~(j < i)
      BY <1>4, <2>1
    <2> QED
      BY <2>2, <2>3
  <1> QED
    BY <1>6, <1>7

(***************************************************************************)
(* The invariant                                                           *)
(***************************************************************************)
\* Whoever is in none of the lists has no code: who joins one brings none.
OnlyListedCoded ==
    /\ \A i \in Events \ processed_not_hidden : code[i] = <<>>
    /\ \A i \in Todos \ todos : code[i] = <<>>

\* In the list that a selection was made from, codes are empty or as long as
\* the selection's.
OfferedInv ==
    offered # {} =>
        /\ sel_len > 0
        /\ \A i \in offered : Len(code[i]) = sel_len
        /\ \E list \in {processed_not_hidden, todos} :
             /\ offered \subseteq list
             /\ \A i \in list : code[i] = <<>> \/ Len(code[i]) = sel_len

CodesInv ==
    /\ processed_not_hidden \subseteq Events /\ todos \subseteq Todos
    /\ code \in [Components -> Seq(Keys)]
    /\ \A i \in Components : IsInjective(code[i])
    /\ sel_len \in Nat
    /\ OnlyListedCoded
    /\ CodesUnique
    /\ OfferedInv

ModeInv ==
    /\ todos_pending \in SUBSET Todos
    /\ view \in Views
    /\ keystate \in {"base", "select"}
    /\ typed \in Seq(Keys)
    /\ keystate = "select" => Len(typed) < sel_len
    /\ crashed \in BOOLEAN

SelInv == EventsInv /\ CodesInv /\ ModeInv

LEMMA SelInvTypes == SelInv => TypeOK
  <1> SUFFICES ASSUME SelInv PROVE TypeOK
    OBVIOUS
  <1> USE DEF SelInv, CodesInv, ModeInv
  <1>1. EventsTypeOK
    BY DEF EventsInv
  <1>2. ASSUME NEW i \in Components PROVE Range(code[i]) \subseteq Keys
    <2>1. code[i] \in Seq(Keys)
      OBVIOUS
    <2> QED
      BY <2>1 DEF Range
  <1>3. offered \subseteq Components
    BY DEF OfferedInv, Components
  <1> QED
    BY <1>1, <1>2, <1>3 DEF TypeOK

\* The lists only grow, and nobody gets a code.
LEMMA GrowthCodes ==
  ASSUME CodesInv,
         code' = code, sel_len' = sel_len, offered' \in {offered, {}},
         processed_not_hidden \subseteq processed_not_hidden', todos \subseteq todos',
         processed_not_hidden' \subseteq Events, todos' \subseteq Todos
  PROVE  CodesInv'
  <1> USE DEF CodesInv
  <1>1. OnlyListedCoded'
    BY DEF OnlyListedCoded
  <1>2. CodesUnique'
    <2>1. ASSUME NEW i \in processed_not_hidden', NEW j \in processed_not_hidden',
                 i # j, code[i] = code[j]
          PROVE  code[i] = <<>>
      BY <2>1 DEF CodesUnique, OnlyListedCoded
    <2>2. ASSUME NEW i \in todos', NEW j \in todos', i # j, code[i] = code[j]
          PROVE  code[i] = <<>>
      BY <2>2 DEF CodesUnique, OnlyListedCoded
    <2> QED
      BY <2>1, <2>2 DEF CodesUnique
  <1>3. OfferedInv'
    <2>1. CASE offered' = {}
      BY <2>1 DEF OfferedInv
    <2>2. CASE offered' # {}
      <3>1. offered' = offered /\ offered # {}
        BY <2>2
      <3>2. CASE /\ offered \subseteq processed_not_hidden
                 /\ \A i \in processed_not_hidden : code[i] = <<>> \/ Len(code[i]) = sel_len
        <4>1. \A i \in processed_not_hidden' : code[i] = <<>> \/ Len(code[i]) = sel_len
          BY <3>2 DEF OnlyListedCoded
        <4> QED
          BY <3>1, <3>2, <4>1 DEF OfferedInv
      <3>3. CASE /\ offered \subseteq todos
                 /\ \A i \in todos : code[i] = <<>> \/ Len(code[i]) = sel_len
        <4>1. \A i \in todos' : code[i] = <<>> \/ Len(code[i]) = sel_len
          BY <3>3 DEF OnlyListedCoded
        <4> QED
          BY <3>1, <3>3, <4>1 DEF OfferedInv
      <3> QED
        BY <3>1, <3>2, <3>3 DEF OfferedInv
    <2> QED
      BY <2>1, <2>2
  <1> QED
    BY <1>1, <1>2, <1>3

\* The components are made anew.
LEMMA RebuiltCodes ==
  ASSUME code' = NoCode, offered' = {}, sel_len' \in Nat,
         processed_not_hidden' \subseteq Events, todos' \subseteq Todos
  PROVE  CodesInv'
  <1>1. code' \in [Components -> Seq(Keys)] /\ \A i \in Components : code'[i] = <<>>
    BY DEF NoCode
  <1>2. IsInjective(<<>>)
    BY DEF IsInjective
  <1>3. OnlyListedCoded' /\ CodesUnique' /\ OfferedInv'
    BY <1>1 DEF OnlyListedCoded, CodesUnique, OfferedInv, Components
  <1> QED
    BY <1>1, <1>2, <1>3 DEF CodesInv

\* The mode is entered.
LEMMA EnterCodes ==
  ASSUME CodesInv, app_switch_mode_select
  PROVE  CodesInv' /\ sel_len' > 0
  <1> USE DEF CodesInv
  <1> DEFINE gen == GenCodes(Candidates)
  <1>1. Candidates \subseteq Events \/ Candidates \subseteq Todos
    BY DEF Candidates
  <1>2. /\ \A i \in Candidates : /\ gen[i] \in Seq(Keys) /\ Len(gen[i]) = sel_len'
                                 /\ IsInjective(gen[i])
        /\ \A i, j \in Candidates : gen[i] = gen[j] => i = j
        /\ sel_len' \in Nat /\ sel_len' > 0
    BY <1>1, GenCodesDiffer, LengthSuffices DEF app_switch_mode_select
  <1>3. /\ code' = [i \in Components |-> IF i \in Candidates THEN gen[i]
                                         ELSE IF i \in Codeless THEN <<>> ELSE code[i]]
        /\ offered' = Candidates
        /\ processed_not_hidden' = processed_not_hidden /\ todos' = todos
    BY DEF app_switch_mode_select, eventVars, projVars
  <1> HIDE DEF gen
  <1>4. \/ /\ Candidates \cup Codeless = processed_not_hidden
           /\ Candidates \subseteq processed_not_hidden
        \/ Candidates = todos /\ Codeless = {}
    BY DEF Candidates, Codeless
  <1>5. \A i \in Components : /\ i \in Candidates => code'[i] = gen[i]
                              /\ i \in Codeless \ Candidates => code'[i] = <<>>
                              /\ i \notin Candidates \cup Codeless => code'[i] = code[i]
    BY <1>3
  <1>6. Events \cap Todos = {} /\ Events \subseteq Components /\ Todos \subseteq Components
    BY SelectAssumption DEF Components
  <1>7. code' \in [Components -> Seq(Keys)] /\ \A i \in Components : IsInjective(code'[i])
    <2>1. ASSUME NEW i \in Components PROVE code'[i] \in Seq(Keys) /\ IsInjective(code'[i])
      <3>1. IsInjective(<<>>) /\ <<>> \in Seq(Keys)
        BY DEF IsInjective
      <3> QED
        BY <1>2, <1>5, <3>1
    <2> QED
      BY <1>3, <2>1
  <1>8. OnlyListedCoded'
    BY <1>3, <1>4, <1>5, <1>6 DEF OnlyListedCoded
  <1>9. CodesUnique'
    <2>1. ASSUME NEW list \in {processed_not_hidden, todos}, NEW i \in list, NEW j \in list,
                 i # j, code'[i] = code'[j]
          PROVE  code'[i] = <<>>
      <3>1. i \in Components /\ j \in Components
        BY <1>6
      <3>2. CASE list \cap (Candidates \cup Codeless) = {}
        BY <1>5, <2>1, <3>1, <3>2 DEF CodesUnique
      <3>3. CASE list = Candidates \cup Codeless
        BY <1>2, <1>5, <2>1, <3>1, <3>3
      <3>4. list \cap (Candidates \cup Codeless) = {} \/ list = Candidates \cup Codeless
        BY <1>4, <1>6
      <3> QED
        BY <3>2, <3>3, <3>4
    <2> QED
      BY <1>3, <2>1 DEF CodesUnique
  <1>10. OfferedInv'
    <2>1. PICK list \in {processed_not_hidden, todos} :
              list = Candidates \cup Codeless /\ Candidates \subseteq list
      BY <1>4
    <2>2. list \subseteq Components
      BY <1>6
    <2>3. \A i \in list : code'[i] = <<>> \/ Len(code'[i]) = sel_len'
      BY <1>2, <1>5, <2>1, <2>2
    <2>4. \A i \in Candidates : Len(code'[i]) = sel_len'
      BY <1>2, <1>5, <2>1, <2>2
    <2> QED
      BY <1>2, <1>3, <2>1, <2>3, <2>4 DEF OfferedInv
  <1> QED
    BY <1>2, <1>3, <1>7, <1>8, <1>9, <1>10

\* The mode's own variables do not matter to the projections.
LEMMA EventsPart == EventsInv /\ [Next]_vars => EventsInv'
  <1> SUFFICES ASSUME EventsInv, [Next]_vars PROVE EventsInv'
    OBVIOUS
  <1>1. CASE [EventsNext]_eventVars
    BY <1>1, EventsStepInv
  <1>2. CASE Restart
    <2>1. PICK C \in SUBSET Events : calendar' = C /\ pending' = C
      BY <1>2, EventsAssumption DEF Restart
    <2>2. /\ unprocessed' = {} /\ processed' = {} /\ processed_not_hidden' = {}
          /\ in_view' = {} /\ not_in_view' = {} /\ tex' = {}
          /\ current_filter' \in Filters /\ main_view' = "calendar" /\ failed' = FALSE
      BY <1>2 DEF Restart
    <2>3. EventsTypeOK' /\ TexturesInView'
      BY <2>1, <2>2 DEF EventsTypeOK, TexturesInView
    <2>4. PlacesInv'
      BY <2>1, <2>2 DEF PlacesInv, Partition, Divided
    <2> QED
      BY <2>3, <2>4 DEF EventsInv
  <1>3. CASE DrawFrame
    BY <1>1, <1>3 DEF DrawFrame, EventsNext
  <1>4. CASE CalendarsChange
    BY <1>1, <1>4 DEF CalendarsChange, EventsNext
  <1>5. CASE FilterKey
    BY <1>1, <1>5 DEF FilterKey, EventsNext
  <1>6. CASE SwitchView
    BY <1>1, <1>6 DEF SwitchView, EventsNext
  <1>7. CASE MoveView
    BY <1>1, <1>7 DEF MoveView
  <1>8. CASE TouchEnd
    BY <1>1, <1>8 DEF TouchEnd, EventsNext
  <1>9. CASE app_switch_mode_select
    BY <1>1, <1>9 DEF app_switch_mode_select
  <1>10. CASE Cancel
    BY <1>1, <1>10 DEF Cancel
  <1>11. ASSUME NEW k \in Keys, TypeKey(k) PROVE EventsInv'
    BY <1>1, <1>11 DEF TypeKey, app_mode_select_finish, EventsNext
  <1>12. CASE UNCHANGED vars
    BY <1>1, <1>12 DEF vars
  <1> QED
    BY <1>2, <1>3, <1>4, <1>5, <1>6, <1>7, <1>8, <1>9, <1>10, <1>11, <1>12 DEF Next

\* A frame takes no event from the list.
LEMMA FrameGrows ==
  ASSUME NEW v \in Views, Frame(v)
  PROVE  processed_not_hidden \subseteq processed_not_hidden'
  BY DEF Frame, proj_active_events_process

LEMMA SelStepInv == SelInv /\ [Next]_vars => SelInv'
  <1> SUFFICES ASSUME SelInv, [Next]_vars PROVE CodesInv' /\ ModeInv'
    BY EventsPart DEF SelInv
  <1> USE DEF SelInv
  <1>1. EventsInv'
    BY EventsPart
  <1>2. processed_not_hidden' \subseteq Events
    BY <1>1 DEF EventsInv, EventsTypeOK
  <1>3. todos \subseteq Todos /\ todos_pending \subseteq Todos /\ sel_len \in Nat
    BY DEF CodesInv, ModeInv
  <1>4. ASSUME Rebuilt, UNCHANGED <<view, keystate, typed, sel_len, crashed>>
        PROVE  CodesInv' /\ ModeInv'
    <2>1. todos' = {} /\ todos_pending' \in SUBSET Todos /\ code' = NoCode /\ offered' = {}
      BY <1>4, SelectAssumption DEF Rebuilt
    <2>2. CodesInv'
      BY <1>2, <1>3, <1>4, <2>1, RebuiltCodes
    <2> QED
      BY <1>4, <2>1, <2>2 DEF ModeInv
  <1>5. CASE DrawFrame
    <2>1. processed_not_hidden \subseteq processed_not_hidden'
      BY <1>5, FrameGrows DEF DrawFrame
    <2>2. todos' = todos \cup todos_pending /\ todos_pending' = {}
      BY <1>5 DEF DrawFrame
    <2>3. UNCHANGED <<view, keystate, code, typed, sel_len, offered, crashed>>
      BY <1>5 DEF DrawFrame, selectVars
    <2>4. CodesInv'
      BY <1>2, <1>3, <2>1, <2>2, <2>3, GrowthCodes
    <2> QED
      BY <2>2, <2>3, <2>4 DEF ModeInv
  <1>6. CASE CalendarsChange
    BY <1>4, <1>6 DEF CalendarsChange
  <1>7. CASE FilterKey
    BY <1>4, <1>7 DEF FilterKey
  <1>8. CASE SwitchView
    <2>1. UNCHANGED <<processed_not_hidden, todos, todos_pending, view, keystate, code,
                      typed, sel_len, offered, crashed>>
      BY <1>8 DEF SwitchView, app_cmd_switch_view, projVars, selectVars
    <2>2. CodesInv'
      BY <1>2, <1>3, <2>1, GrowthCodes
    <2> QED
      BY <2>1, <2>2 DEF ModeInv
  <1>9. CASE MoveView \/ TouchEnd
    <2>1. /\ UNCHANGED <<processed_not_hidden, todos, todos_pending, keystate, code, typed,
                         sel_len, offered, crashed>>
          /\ view' \in Views
      BY <1>9 DEF MoveView, TouchEnd, in_view_destroy_texs, eventVars, projVars, selectVars
    <2>2. CodesInv'
      BY <1>2, <1>3, <2>1, GrowthCodes
    <2> QED
      BY <2>1, <2>2 DEF ModeInv
  <1>10. CASE app_switch_mode_select
    <2>1. CodesInv' /\ sel_len' > 0 /\ sel_len' \in Nat
      BY <1>10, EnterCodes DEF CodesInv
    <2>2. /\ UNCHANGED <<todos_pending, view, crashed>>
          /\ keystate' = "select" /\ typed' = <<>>
      BY <1>10 DEF app_switch_mode_select
    <2> QED
      BY <2>1, <2>2 DEF ModeInv
  <1>11. CASE Cancel
    <2>1. /\ UNCHANGED <<processed_not_hidden, todos, todos_pending, view, code, typed,
                         sel_len, crashed>>
          /\ keystate' = "base" /\ offered' = {}
      BY <1>11 DEF Cancel, eventVars, projVars
    <2>2. CodesInv'
      BY <1>2, <1>3, <2>1, GrowthCodes
    <2> QED
      BY <2>1, <2>2 DEF ModeInv
  <1>12. ASSUME NEW k \in Keys, TypeKey(k) PROVE CodesInv' /\ ModeInv'
    <2>1. typed' = Append(typed, k) /\ UNCHANGED <<view, sel_len>>
      BY <1>12 DEF TypeKey
    <2>2. typed' \in Seq(Keys)
      BY <2>1 DEF ModeInv
    <2>3. CASE Len(typed') >= sel_len
      <3>1. /\ keystate' = "base" /\ crashed' \in BOOLEAN
            /\ \/ /\ offered' = {}
                  /\ UNCHANGED <<eventVars, todos, todos_pending, code>>
               \/ Rebuilt
        BY <1>12, <2>3 DEF TypeKey, app_mode_select_finish
      <3>2. CASE offered' = {} /\ UNCHANGED <<eventVars, todos, todos_pending, code>>
        <4>1. UNCHANGED <<processed_not_hidden, todos>>
          BY <3>2 DEF eventVars, projVars
        <4>2. CodesInv'
          BY <1>2, <1>3, <2>1, <3>2, <4>1, GrowthCodes
        <4> QED
          BY <2>1, <2>2, <3>1, <3>2, <4>2 DEF ModeInv
      <3>3. CASE Rebuilt
        <4>1. /\ todos' = {} /\ todos_pending' \in SUBSET Todos
              /\ code' = NoCode /\ offered' = {}
          BY <3>3, SelectAssumption DEF Rebuilt
        <4>2. CodesInv'
          BY <1>2, <1>3, <2>1, <4>1, RebuiltCodes
        <4> QED
          BY <2>1, <2>2, <3>1, <4>1, <4>2 DEF ModeInv
      <3> QED
        BY <3>1, <3>2, <3>3
    <2>4. CASE ~(Len(typed') >= sel_len)
      <3>1. UNCHANGED <<eventVars, todos, todos_pending, keystate, code, offered, crashed>>
        BY <1>12, <2>4 DEF TypeKey
      <3>2. UNCHANGED <<processed_not_hidden, todos>>
        BY <3>1 DEF eventVars, projVars
      <3>3. CodesInv'
        BY <1>2, <1>3, <2>1, <3>1, <3>2, GrowthCodes
      <3>4. Len(typed') < sel_len
        BY <1>3, <2>2, <2>4
      <3> QED
        BY <2>1, <2>2, <3>1, <3>3, <3>4 DEF ModeInv
    <2> QED
      BY <2>3, <2>4
  <1>13. CASE Restart
    <2>1. /\ todos' = {} /\ todos_pending' \in SUBSET Todos
          /\ code' = NoCode /\ offered' = {}
          /\ view' \in Views /\ keystate' = "base" /\ typed' = <<>> /\ sel_len' = 0
          /\ crashed' = FALSE
      BY <1>13, SelectAssumption DEF Restart, Rebuilt
    <2>2. CodesInv'
      BY <1>2, <2>1, RebuiltCodes
    <2>3. typed' \in Seq(Keys)
      BY <2>1
    <2>4. ModeInv'
      BY <2>1, <2>3 DEF ModeInv
    <2> QED
      BY <2>2, <2>4
  <1>14. CASE UNCHANGED vars
    <2>1. UNCHANGED <<processed_not_hidden, todos, todos_pending, view, keystate, code,
                      typed, sel_len, offered, crashed>>
      BY <1>14 DEF vars, eventVars, projVars, selectVars
    <2>2. CodesInv'
      BY <1>2, <1>3, <2>1, GrowthCodes
    <2> QED
      BY <2>1, <2>2 DEF ModeInv
  <1> QED
    BY <1>5, <1>6, <1>7, <1>8, <1>9, <1>10, <1>11, <1>12, <1>13, <1>14 DEF Next

LEMMA SelInitInv == Init => SelInv
  <1> SUFFICES ASSUME Init PROVE SelInv
    OBVIOUS
  <1>1. EventsInv
    BY EventsInitInv DEF Init
  <1>2. code = NoCode /\ offered = {} /\ sel_len = 0 /\ todos = {} /\ processed_not_hidden = {}
    BY DEF Init, EventsInit
  <1>3. code \in [Components -> Seq(Keys)] /\ \A i \in Components : code[i] = <<>>
    BY <1>2 DEF NoCode
  <1>4. IsInjective(<<>>)
    BY DEF IsInjective
  <1>5. CodesInv
    BY <1>2, <1>3, <1>4
    DEF CodesInv, OnlyListedCoded, CodesUnique, OfferedInv, Components
  <1>6. ModeInv
    <2>1. typed = <<>> /\ keystate = "base" /\ crashed = FALSE /\ view \in Views
      BY DEF Init
    <2>2. todos_pending \in SUBSET Todos
      BY SelectAssumption DEF Init
    <2>3. typed \in Seq(Keys)
      BY <2>1
    <2> QED
      BY <2>1, <2>2, <2>3 DEF ModeInv
  <1> QED
    BY <1>1, <1>5, <1>6 DEF SelInv

\* The invariant holds always, whatever happens between the keys of a code.
THEOREM SelInvariant == Spec => []SelInv
  BY SelInitInv, SelStepInv, PTL DEF Spec

(***************************************************************************)
(* What it is for                                                          *)
(***************************************************************************)
\* Codes are different keys, a selection ends with the key that makes the
\* typed ones as many as a code has, and only components have codes.
THEOREM SelectTypes == Spec => []TypeOK
  BY SelInvariant, SelInvTypes, PTL

\* Whatever was given codes before, two components that are listed together
\* never have the same.
THEOREM CodesAlwaysUnique == Spec => []CodesUnique
  BY SelInvariant, PTL DEF SelInv, CodesInv

LEMMA SelInvOffered == SelInv => OfferedIsSelected
  <1> SUFFICES ASSUME SelInv, NEW i \in offered, i \in Listed
               PROVE  Len(code[i]) = sel_len /\ Selection(code[i]) = i
    BY DEF OfferedIsSelected
  <1> USE DEF SelInv, CodesInv
  <1>1. sel_len > 0 /\ Len(code[i]) = sel_len
    BY DEF OfferedInv
  <1>2. Listed \in {processed_not_hidden, todos} /\ Listed \subseteq Components
    BY DEF Listed, Components
  <1>3. \A j \in Listed : code[j] = <<>> \/ Len(code[j]) = sel_len
    <2>1. PICK list \in {processed_not_hidden, todos} :
             /\ offered \subseteq list
             /\ \A j \in list : code[j] = <<>> \/ Len(code[j]) = sel_len
      BY DEF OfferedInv
    <2>2. list = Listed
      BY <1>2, <2>1, SelectAssumption
    <2> QED
      BY <2>1, <2>2
  <1>4. ASSUME NEW j \in Listed, IsPrefix(code[i], code[j]) PROVE j = i
    <2>1. code[i] \in Seq(Keys) /\ code[j] \in Seq(Keys)
      BY <1>2
    <2>2. Len(code[i]) <= Len(code[j])
      BY <1>4, <2>1 DEF IsPrefix
    <2>3. Len(code[j]) = sel_len
      BY <1>1, <1>3, <2>2
    <2>4. code[i] = code[j]
      BY <1>1, <1>4, <2>1, <2>3 DEF IsPrefix
    <2> QED
      BY <1>1, <1>2, <2>4 DEF CodesUnique
  <1>5. IsPrefix(code[i], code[i])
    <2>1. code[i] \in Seq(Keys)
      BY <1>2
    <2> QED
      BY <2>1 DEF IsPrefix
  <1>6. Matching(code[i]) = {i}
    BY <1>4, <1>5 DEF Matching
  <1>7. i \in Nat
    BY <1>2, SelectAssumption DEF Components
  <1>8. Selection(code[i]) = i
    BY <1>6, <1>7 DEF Selection
  <1> QED
    BY <1>1, <1>8

\* The code that a selection gave a component leads to it, however the view
\* was moved or switched since.
THEOREM OfferedAlwaysSelected == Spec => []OfferedIsSelected
  BY SelInvariant, SelInvOffered, PTL
=============================================================================
