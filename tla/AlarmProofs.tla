----------------------------- MODULE AlarmProofs -----------------------------
(***************************************************************************)
(* Alarm, for any instances, any times and any length of time: the timer   *)
(* is armed for the earliest alarm to come, and no alarm comes twice.      *)
(***************************************************************************)
EXTENDS Alarm, WellFoundedInduction, TLAPS

\* The tree is empty, or it is what the calendars want.
TreeIsWanted ==
    /\ tree = {} \/ tree = wanted
    /\ pending => tree = {}

\* What was announced has passed, so proj_alarm_done, which looks past the
\* present, does not choose it again.
RungHasPassed == \A a \in Alarms : rung[a] <= 1 /\ (rung[a] > 0 => a.val <= now)

\* `next` has not been announced and the timer is armed for it, even after its
\* node was freed.
NextIsArmed == next # NULL => timer = next.val /\ rung[next] = 0

AlarmInv == TypeOK /\ TreeIsWanted /\ RungHasPassed /\ NextIsArmed

LEMMA AlarmVals == \A a \in Alarms : a.val \in Nat /\ a.val \in Times /\ a # NULL
  BY AlarmAssumption DEF Alarms

LEMMA EmptyWanted == {} \in Calendars
  BY DEF Calendars

LEMMA CalendarsOfAlarms == \A W \in Calendars : W \subseteq Alarms
  BY DEF Calendars

\* What proj_alarm_done leaves: a next alarm, armed for, that lies ahead and is
\* the earliest to, or none, because nothing lies ahead.
LEMMA DoneChoosesEarliest ==
  ASSUME NEW T \in SUBSET Alarms, NEW armed \in Times \cup {NULL}, now \in Nat,
         proj_alarm_done(T, armed)
  PROVE  /\ dangling' = FALSE
         /\ next' \in Alarms \cup {NULL}
         /\ timer' \in Times \cup {NULL}
         /\ next' # NULL =>
                /\ next' \in T
                /\ timer' = next'.val
                /\ next'.val > now
                /\ \A a \in T : a.val > now => next'.val <= a.val
  <1> DEFINE found == rb_integer_min_greater(T, now)
  <1>1. CASE found = {}
    BY <1>1, AlarmVals DEF proj_alarm_done
  <1>2. CASE found # {}
    <2>1. PICK n \in found : next' = n /\ timer' = n.val
      BY <1>2 DEF proj_alarm_done
    <2>2. n \in T /\ n.val > now /\ \A a \in T : a.val > now => n.val <= a.val
      BY DEF rb_integer_min_greater
    <2> QED
      BY <2>1, <2>2, AlarmVals DEF proj_alarm_done
  <1> QED
    BY <1>1, <1>2

LEMMA AlarmInit == Init => AlarmInv
  <1> SUFFICES ASSUME Init PROVE AlarmInv
    OBVIOUS
  <1>1. rung \in [Alarms -> Nat] /\ \A a \in Alarms : rung[a] = 0
    BY DEF Init
  <1>2. TypeOK
    BY <1>1, EmptyWanted DEF Init, TypeOK
  <1>3. RungHasPassed
    BY <1>1 DEF RungHasPassed
  <1> QED
    BY <1>2, <1>3 DEF Init, AlarmInv, TreeIsWanted, NextIsArmed

LEMMA AlarmStep == AlarmInv /\ [Next]_vars => AlarmInv'
  <1> SUFFICES ASSUME AlarmInv, [Next]_vars PROVE AlarmInv'
    OBVIOUS
  <1> USE DEF AlarmInv
  <1>t. tree \in SUBSET Alarms /\ wanted \in SUBSET Alarms
    BY CalendarsOfAlarms DEF TypeOK
  <1>1. ASSUME NEW W \in Calendars, NEW o \in BOOLEAN, Invalidate(W, o)
        PROVE  AlarmInv'
    BY <1>1, EmptyWanted DEF Invalidate, TypeOK, TreeIsWanted, RungHasPassed, NextIsArmed
  <1>2. CASE Frame
    <2>1. tree' = wanted
      BY <1>2 DEF Frame, TreeIsWanted
    <2>2. CASE wanted # {} \/ others
      <3>1. proj_alarm_done(tree', timer)
        BY <1>2, <2>2 DEF Frame
      <3>2. proj_alarm_done(wanted, timer)
        BY <2>1, <3>1
      <3>3. /\ dangling' = FALSE
            /\ next' \in Alarms \cup {NULL}
            /\ timer' \in Times \cup {NULL}
            /\ next' # NULL => timer' = next'.val /\ next'.val > now /\ next' \in wanted
        BY <3>2, <1>t, DoneChoosesEarliest DEF TypeOK
      <3>4. next' # NULL => rung[next'] = 0
        BY <3>3, AlarmVals DEF RungHasPassed, TypeOK
      <3> QED
        BY <1>2, <2>1, <3>3, <3>4
        DEF Frame, TypeOK, TreeIsWanted, RungHasPassed, NextIsArmed
    <2>3. CASE ~(wanted # {} \/ others)
      BY <1>2, <2>1, <2>3
      DEF Frame, pointerVars, TypeOK, TreeIsWanted, RungHasPassed, NextIsArmed
    <2> QED
      BY <2>2, <2>3
  <1>3. CASE alarm_cb
    <2>1. CASE next = NULL
      BY <1>3, <2>1
      DEF alarm_cb, calendarVars, pointerVars, TypeOK, TreeIsWanted, RungHasPassed,
          NextIsArmed
    <2>2. CASE next # NULL
      <3>1. /\ rung' = [rung EXCEPT ![next] = @ + 1]
            /\ proj_alarm_done(tree, NULL)
            /\ UNCHANGED <<wanted, others, pending, tree, now, stopped>>
        BY <1>3, <2>2 DEF alarm_cb, calendarVars
      <3>2. /\ dangling' = FALSE
            /\ next' \in Alarms \cup {NULL}
            /\ timer' \in Times \cup {NULL}
            /\ next' # NULL => timer' = next'.val /\ next'.val > now /\ next' \in tree
        BY <3>1, <1>t, DoneChoosesEarliest DEF TypeOK
      <3>3. next \in Alarms /\ rung[next] = 0 /\ next.val <= now
        BY <1>3, <2>2 DEF alarm_cb, NextIsArmed, TypeOK
      <3>4. RungHasPassed'
        BY <3>1, <3>3 DEF RungHasPassed, TypeOK
      <3>5. rung' \in [Alarms -> Nat]
        BY <3>1, <3>3 DEF TypeOK
      <3>6. next' # NULL => rung'[next'] = 0
        BY <3>1, <3>2, <3>4, <3>5, AlarmVals DEF RungHasPassed, TypeOK
      <3> QED
        BY <3>1, <3>2, <3>4, <3>5, <3>6 DEF TypeOK, TreeIsWanted, NextIsArmed
    <2> QED
      BY <2>1, <2>2
  <1>4. CASE Tick
    <2>1. RungHasPassed'
      BY <1>4, AlarmVals DEF Tick, RungHasPassed, TypeOK
    <2> QED
      BY <1>4, <2>1
      DEF Tick, calendarVars, pointerVars, TypeOK, TreeIsWanted, NextIsArmed
  <1>5. CASE Restart
    BY <1>5, EmptyWanted DEF Restart, TypeOK, TreeIsWanted, RungHasPassed, NextIsArmed
  <1>6. CASE UNCHANGED vars
    BY <1>6 DEF vars, TypeOK, TreeIsWanted, RungHasPassed, NextIsArmed
  <1> QED
    BY <1>1, <1>2, <1>3, <1>4, <1>5, <1>6 DEF Next

LEMMA AlarmInvariant == Spec => []AlarmInv
  BY AlarmInit, AlarmStep, PTL DEF Spec

\* The variables keep their types.
THEOREM AlarmTypeOK == Spec => []TypeOK
  <1>1. AlarmInv => TypeOK
    BY DEF AlarmInv
  <1> QED
    BY <1>1, AlarmInvariant, PTL

\* No alarm is announced twice, through edits, reloads and restarts
\* (proj_alarm_done).
THEOREM AlarmNeverTwice == Spec => []NeverTwice
  <1>1. AlarmInv => NeverTwice
    BY DEF AlarmInv, RungHasPassed, NeverTwice
  <1> QED
    BY <1>1, AlarmInvariant, PTL

(***************************************************************************)
(* The earliest alarm                                                      *)
(***************************************************************************)
EarliestInv == ArmedForEarliest /\ SomethingIsNext

LEMMA EarliestInit == Init => EarliestInv
  BY DEF Init, EarliestInv, ArmedForEarliest, SomethingIsNext

\* Of the alarms that lie ahead, one is the earliest.
LEMMA EarliestExists ==
  ASSUME NEW T \in SUBSET Alarms, NEW t \in Nat, \E a \in T : a.val > t
  PROVE  rb_integer_min_greater(T, t) # {}
  <1> DEFINE R == OpToRel(<, Nat)
             S == {a.val : a \in {b \in T : b.val > t}}
  <1>1. IsWellFoundedOn(R, Nat)
    BY NatLessThanWellFounded
  <1>2. \A p : p \in R <=> p \in Nat \X Nat /\ p[1] < p[2]
    BY DEF OpToRel
  <1>3. S \subseteq Nat /\ S # {}
    BY AlarmVals
  <1> HIDE DEF R, S
  <1>4. PICK x \in S : \A y \in S : ~(<<y, x>> \in R)
    BY <1>1, <1>3, WFMin
  <1>5. \A y \in S : x <= y
    <2> TAKE y \in S
    <2>1. y \in Nat /\ x \in Nat
      BY <1>3
    <2>2. ~(y < x)
      BY <1>2, <1>4, <2>1
    <2> QED
      BY <2>1, <2>2
  <1>6. PICK a \in T : a.val > t /\ a.val = x
    BY DEF S
  <1>7. \A b \in T : b.val > t => a.val <= b.val
    BY <1>5, <1>6 DEF S
  <1> QED
    BY <1>6, <1>7 DEF rb_integer_min_greater

\* proj_alarm_done establishes both parts, whatever was before.
LEMMA DoneIsEarliest ==
  ASSUME tree' \in SUBSET Alarms, NEW armed \in Times \cup {NULL}, now \in Nat,
         proj_alarm_done(tree', armed), now' = now
  PROVE  EarliestInv'
  <1>1. /\ next' # NULL =>
               /\ next' \in tree'
               /\ timer' = next'.val
               /\ \A a \in tree' : a.val > now => next'.val <= a.val
        /\ dangling' = FALSE
    BY DoneChoosesEarliest
  <1>2. ASSUME NEW a \in tree', a.val > now PROVE next' # NULL
    <2>1. rb_integer_min_greater(tree', now) # {}
      BY <1>2, EarliestExists
    <2> QED
      BY <2>1, AlarmVals DEF proj_alarm_done, rb_integer_min_greater
  <1> QED
    BY <1>1, <1>2 DEF EarliestInv, ArmedForEarliest, SomethingIsNext

LEMMA EarliestStep == AlarmInv /\ EarliestInv /\ [Next]_vars => EarliestInv'
  <1> SUFFICES ASSUME AlarmInv, EarliestInv, [Next]_vars PROVE EarliestInv'
    OBVIOUS
  <1>t. tree \in SUBSET Alarms /\ wanted \in SUBSET Alarms
    BY CalendarsOfAlarms DEF AlarmInv, TypeOK
  <1>1. ASSUME NEW W \in Calendars, NEW o \in BOOLEAN, Invalidate(W, o)
        PROVE  EarliestInv'
    BY <1>1 DEF Invalidate, EarliestInv, ArmedForEarliest, SomethingIsNext
  <1>2. CASE Frame
    <2>1. tree' = wanted /\ now' = now
      BY <1>2 DEF Frame, AlarmInv, TreeIsWanted
    <2>2. CASE wanted # {} \/ others
      <3>1. proj_alarm_done(tree', timer)
        BY <1>2, <2>2 DEF Frame
      <3> QED
        BY <2>1, <3>1, <1>t, DoneIsEarliest DEF AlarmInv, TypeOK
    <2>3. CASE ~(wanted # {} \/ others)
      <3>1. tree = {}
        BY <1>2 DEF Frame, AlarmInv, TreeIsWanted
      <3> QED
        BY <1>2, <2>1, <2>3, <3>1
        DEF Frame, pointerVars, EarliestInv, ArmedForEarliest, SomethingIsNext
    <2> QED
      BY <2>2, <2>3
  <1>3. CASE alarm_cb
    <2>1. CASE next = NULL
      BY <1>3, <2>1
      DEF alarm_cb, calendarVars, pointerVars, EarliestInv, ArmedForEarliest,
          SomethingIsNext
    <2>2. CASE next # NULL
      <3>1. proj_alarm_done(tree', NULL) /\ tree' = tree /\ now' = now
        BY <1>3, <2>2 DEF alarm_cb
      <3> QED
        BY <3>1, <1>t, DoneIsEarliest DEF AlarmInv, TypeOK
    <2> QED
      BY <2>1, <2>2
  <1>4. CASE Tick
    <2>1. \A a \in tree : a.val > now' => a.val > now
      BY <1>4, <1>t, AlarmVals DEF Tick, AlarmInv, TypeOK
    <2> QED
      BY <1>4, <2>1
      DEF Tick, calendarVars, pointerVars, EarliestInv, ArmedForEarliest,
          SomethingIsNext
  <1>5. CASE Restart
    BY <1>5 DEF Restart, EarliestInv, ArmedForEarliest, SomethingIsNext
  <1>6. CASE UNCHANGED vars
    BY <1>6 DEF vars, EarliestInv, ArmedForEarliest, SomethingIsNext
  <1> QED
    BY <1>1, <1>2, <1>3, <1>4, <1>5, <1>6 DEF Next

LEMMA EarliestInvariant == Spec => []EarliestInv
  BY EarliestInit, EarliestStep, AlarmInvariant, PTL DEF Spec

\* While the next alarm is a node of the tree, the timer is armed for it and
\* no alarm to come is earlier (proj_alarm_done, alarm_cb).
THEOREM AlwaysArmedForEarliest == Spec => []ArmedForEarliest
  <1>1. EarliestInv => ArmedForEarliest
    BY DEF EarliestInv
  <1> QED
    BY <1>1, EarliestInvariant, PTL

\* A calendar that was drawn forgets no alarm that lies ahead.
THEOREM AlwaysSomethingIsNext == Spec => []SomethingIsNext
  <1>1. EarliestInv => SomethingIsNext
    BY DEF EarliestInv
  <1> QED
    BY <1>1, EarliestInvariant, PTL
=============================================================================
