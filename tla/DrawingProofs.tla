---------------------------- MODULE DrawingProofs ----------------------------
(***************************************************************************)
(* Proofs about Drawing and Slicing, for every calendar, every clock that  *)
(* goes forward or back by an hour at most, every set of views and events. *)
(*                                                                         *)
(* The times of dates come first (TimeOrder): the years, months, days and  *)
(* hours of the calendar are intervals of the clock that do not overlap    *)
(* (SlicesApart), lie in those of the level above (SlicesNest) and, part   *)
(* after part, make them up (PartSlices).                                  *)
(*                                                                         *)
(* SlicingInv is inductive.  It says of the items that each is such a      *)
(* slice, kept once, and that the parts found of it follow each other; an  *)
(* item is fresh, complete, or being filled by one of the two iterations.  *)
(* The inner iteration takes items for complete that the outer is filling. *)
(* It does no harm, as it reads them only: what the outer one fills is     *)
(* around the part it has found last, and the inner one stays within that  *)
(* part (Nested), so that no item is ever filled by both (Different).  Of  *)
(* the frame it says that each moment of the view is drawn or is still     *)
(* ahead of an iteration (Covers), and why an assertion failed.            *)
(*                                                                         *)
(* A frame implements LayoutSpec, so what LayoutProofs shows of a layout   *)
(* holds of the layout of every slice.                                     *)
(***************************************************************************)
EXTENDS Drawing, LayoutProofs

(***************************************************************************)
(* Dates                                                                   *)
(***************************************************************************)
AnyDate == [YEAR..HOUR -> Int]

\* "Later", part by part.
LEMMA LaterCases ==
    ASSUME NEW d, NEW e
    PROVE  Later(d, e) <=> \/ d[1] > e[1]
                           \/ d[1] = e[1] /\ d[2] > e[2]
                           \/ d[1] = e[1] /\ d[2] = e[2] /\ d[3] > e[3]
                           \/ d[1] = e[1] /\ d[2] = e[2] /\ d[3] = e[3] /\ d[4] > e[4]
<1>1. \A k : k \in 1..4 <=> k = 1 \/ k = 2 \/ k = 3 \/ k = 4
    OBVIOUS
<1>2. (1..0 = {}) /\ 1..1 = {1} /\ 1..2 = {1, 2} /\ 1..3 = {1, 2, 3}
    OBVIOUS
<1>3. (1 - 1 = 0) /\ 2 - 1 = 1 /\ 3 - 1 = 2 /\ 4 - 1 = 3
    OBVIOUS
<1>4. QED
    BY <1>1, <1>2, <1>3 DEF Later, YEAR, HOUR

\* Dates are in a linear order.
LEMMA LaterOrder ==
    ASSUME NEW d \in AnyDate, NEW e \in AnyDate
    PROVE  /\ ~Later(d, d)
           /\ ~(Later(d, e) /\ Later(e, d))
           /\ d = e \/ Later(d, e) \/ Later(e, d)
           /\ \A f \in AnyDate : Later(d, e) /\ Later(e, f) => Later(d, f)
<1> USE DEF YEAR, HOUR
<1>1. d[1] \in Int /\ d[2] \in Int /\ d[3] \in Int /\ d[4] \in Int
    BY DEF AnyDate
<1>2. e[1] \in Int /\ e[2] \in Int /\ e[3] \in Int /\ e[4] \in Int
    BY DEF AnyDate
<1>3. ~Later(d, d) /\ ~(Later(d, e) /\ Later(e, d))
    BY <1>1, <1>2, LaterCases
<1>4. (d[1] = e[1] /\ d[2] = e[2] /\ d[3] = e[3] /\ d[4] = e[4]) => d = e
    BY DEF AnyDate
<1>5. d = e \/ Later(d, e) \/ Later(e, d)
    BY <1>1, <1>2, <1>4, LaterCases
<1>6. ASSUME NEW f \in AnyDate, Later(d, e), Later(e, f) PROVE Later(d, f)
    <2>1. f[1] \in Int /\ f[2] \in Int /\ f[3] \in Int /\ f[4] \in Int
        BY DEF AnyDate
    <2>2. QED
        BY <1>1, <1>2, <1>6, <2>1, LaterCases
<1>7. QED
    BY <1>3, <1>5, <1>6

(***************************************************************************)
(* The clock                                                               *)
(***************************************************************************)
Date(y, m, d, h) == [k \in YEAR..HOUR |-> IF k = 1 THEN y ELSE IF k = 2 THEN m
                                          ELSE IF k = 3 THEN d ELSE h]

\* The parts of a date of the calendar lie within their bounds.
LEMMA DateParts ==
    ASSUME NEW d, IsDate(d)
    PROVE  /\ d \in AnyDate
           /\ d[1] \in 1..LastYear /\ d[2] \in 1..Months
           /\ Days[<<d[1], d[2]>>] \in 1..MaxSubs /\ d[3] \in 1..Days[<<d[1], d[2]>>]
           /\ d[4] \in 0..(Hours - 1)
<1>1. /\ d = [k \in 1..4 |-> d[k]] /\ d[1] \in 1..LastYear /\ d[2] \in 1..Months
      /\ d[3] \in 1..Days[<<d[1], d[2]>>] /\ d[4] \in 0..(Hours - 1)
    BY DEF IsDate, YEAR, MONTH, DAY, HOUR
<1>2. d[1] \in 1..(LastYear + 1)
    BY <1>1, ClockAssumption
<1>3. Days[<<d[1], d[2]>>] \in 1..MaxSubs
    BY <1>1, <1>2, ClockAssumption
<1>4. d[1] \in Int /\ d[2] \in Int /\ d[3] \in Int /\ d[4] \in Int
    BY <1>1, <1>3, ClockAssumption DEF MaxSubs
<1>5. \A k \in 1..4 : d[k] \in Int
    BY <1>4
<1>6. d \in AnyDate
    BY <1>1, <1>5 DEF AnyDate, YEAR, HOUR
<1>7. QED
    BY <1>1, <1>3, <1>6

\* The clock shows dates of the calendar and never goes back to an earlier one
\* but by the hour that comes twice.
LEMMA ClockFacts ==
    /\ Len(Clock) \in Nat \ {0} /\ DOMAIN Clock = 1..Len(Clock)
    /\ \A t \in DOMAIN Clock : IsDate(Clock[t]) /\ Clock[t] \in AnyDate
    /\ \A t, u \in DOMAIN Clock : t <= u => ~Later(Clock[t], Clock[u])
<1>1. ASSUME NEW t \in DOMAIN Clock PROVE IsDate(Clock[t]) /\ Clock[t] \in AnyDate
    BY ClockAssumption, DateParts
<1>2. ASSUME NEW t \in DOMAIN Clock, NEW u \in DOMAIN Clock, t <= u
      PROVE  ~Later(Clock[t], Clock[u])
    <2>1. CASE t < u
        BY <2>1, ClockAssumption
    <2>2. CASE t = u
        BY <1>1, <2>2, LaterOrder
    <2>3. QED
        BY <1>2, <2>1, <2>2, ClockAssumption
<1>3. QED
    BY <1>1, <1>2, ClockAssumption

\* A set of times that is not empty has a least and a greatest element.
LEMMA LeastAndGreatest ==
    ASSUME NEW n \in Nat, NEW S \in SUBSET (1..n), S # {}
    PROVE  /\ Min(S) \in S /\ \A x \in S : Min(S) <= x
           /\ Max(S) \in S /\ \A x \in S : x <= Max(S)
<1>1. S \in SUBSET Nat
    OBVIOUS
<1>2. \E b \in S : \A c \in S : b <= c
    BY <1>1, LeastExists
<1>3. Min(S) \in S /\ \A x \in S : Min(S) <= x
    BY <1>2 DEF Min
<1> DEFINE T == {n - x : x \in S}
<1>4. T \in SUBSET Nat /\ T # {}
    <2>1. \A x \in S : n - x \in Nat
        OBVIOUS
    <2>2. QED
        BY <2>1
<1>5. PICK b \in T : \A c \in T : b <= c
    BY <1>4, LeastExists
<1>6. PICK x \in S : b = n - x
    OBVIOUS
<1>7. ASSUME NEW y \in S PROVE y <= x
    <2>1. b <= n - y
        BY <1>5
    <2>2. QED
        BY <1>1, <1>6, <2>1
<1>8. \E m \in S : \A c \in S : c <= m
    BY <1>7
<1>9. Max(S) \in S /\ \A m \in S : m <= Max(S)
    BY <1>8 DEF Max
<1>10. QED
    BY <1>3, <1>9

\* The time of a date: no hour from then on is before the date, no hour after
\* the date comes before, and if the date does not come twice, what is not
\* before it comes from then on.
LEMMA TimeOfDate ==
    ASSUME NEW d \in AnyDate
    PROVE  /\ simple_date_to_ts(d) \in 0..Len(Clock)
           /\ \A t \in DOMAIN Clock :
                  /\ t - 1 >= simple_date_to_ts(d) => ~Later(d, Clock[t])
                  /\ Later(Clock[t], d) => t - 1 >= simple_date_to_ts(d)
                  /\ d[4] = 0 /\ ~Later(d, Clock[t]) => t - 1 >= simple_date_to_ts(d)
                  /\ Clock[t] = d => Clock[simple_date_to_ts(d) + 1] = d
                                     /\ simple_date_to_ts(d) < Len(Clock)
<1> DEFINE n == Len(Clock)
           same == {t \in DOMAIN Clock : Clock[t] = d}
           after == {t \in DOMAIN Clock : Later(Clock[t], d)} \cup {n + 1}
           s == simple_date_to_ts(d)
<1>1. n \in Nat \ {0} /\ DOMAIN Clock = 1..n /\ \A t \in DOMAIN Clock : Clock[t] \in AnyDate
    BY ClockFacts
<1>2. s = (IF same # {} THEN Max(same) ELSE Min(after)) - 1
    BY DEF simple_date_to_ts
<1>3. CASE same # {}
    <2>1. same \in SUBSET (1..n)
        BY <1>1
    <2>2. Max(same) \in same /\ \A x \in same : x <= Max(same)
        BY <1>1, <1>3, <2>1, LeastAndGreatest
    <2> DEFINE m == Max(same)
    <2> HIDE DEF m, same
    <2>3. m \in 1..n /\ Clock[m] = d /\ s = m - 1
        BY <1>1, <1>2, <1>3, <2>2 DEF same, m
    <2> HIDE DEF s, n
    <2>4. s \in 0..n /\ s < n /\ Clock[s + 1] = d /\ s + 1 = m /\ n \in Nat
        BY <1>1, <2>3
    <2>5. ASSUME NEW t \in 1..n, t - 1 >= s PROVE ~Later(d, Clock[t])
        <3>1. m <= t
            BY <2>4, <2>5
        <3>2. QED
            BY <1>1, <2>3, <3>1, ClockFacts
    <2>6. ASSUME NEW t \in 1..n, Later(Clock[t], d) PROVE t - 1 >= s
        <3>1. ~(t <= m)
            BY <1>1, <2>3, <2>6, ClockFacts
        <3>2. QED
            BY <2>4, <3>1
    <2>7. ASSUME NEW t \in 1..n, d[4] = 0, ~Later(d, Clock[t]) PROVE t - 1 >= s
        <3>1. CASE Clock[t] = d
            <4>1. t = m
                BY <1>1, <2>3, <2>7, <3>1, ClockAssumption DEF HOUR
            <4>2. QED
                BY <2>4, <4>1
        <3>2. CASE Clock[t] # d
            BY <1>1, <2>6, <2>7, <3>2, LaterOrder
        <3>3. QED
            BY <3>1, <3>2
    <2>8. QED
        BY <1>1, <2>4, <2>5, <2>6, <2>7 DEF n, s
<1>4. CASE same = {}
    <2>1. after \in SUBSET (1..(n + 1)) /\ after # {} /\ n + 1 \in Nat
        BY <1>1
    <2>2. Min(after) \in after /\ \A x \in after : Min(after) <= x
        BY <2>1, LeastAndGreatest
    <2> DEFINE m == Min(after)
    <2>3. s = m - 1
        BY <1>2, <1>4
    <2>4. \A t \in 1..n : Clock[t] # d
        BY <1>1, <1>4
    <2>5. \A t \in 1..n : Later(Clock[t], d) => m <= t
        BY <1>1, <2>2
    <2>6. m \in 1..(n + 1) /\ (m = n + 1 \/ Later(Clock[m], d))
        BY <2>1, <2>2
    <2> HIDE DEF m, same, after, s, n
    <2>7. n \in Nat /\ s \in 0..n /\ s + 1 = m
        BY <1>1, <2>3, <2>6
    <2>8. ASSUME NEW t \in 1..n, t - 1 >= s PROVE ~Later(d, Clock[t])
        <3>1. m <= t /\ m \in 1..n
            BY <2>6, <2>7, <2>8
        <3>2. Later(Clock[m], d) /\ ~Later(Clock[m], Clock[t])
            BY <1>1, <2>6, <2>7, <3>1, ClockFacts
        <3>3. QED
            BY <1>1, <3>1, <3>2, LaterOrder
    <2>9. ASSUME NEW t \in 1..n, ~Later(d, Clock[t]) PROVE t - 1 >= s
        <3>1. Later(Clock[t], d)
            BY <1>1, <2>4, <2>9, LaterOrder
        <3>2. m <= t
            BY <2>5, <3>1
        <3>3. QED
            BY <2>7, <3>2
    <2>10. ASSUME NEW t \in 1..n, Later(Clock[t], d) PROVE t - 1 >= s
        BY <1>1, <2>9, <2>10, LaterOrder
    <2>11. QED
        BY <1>1, <2>4, <2>7, <2>8, <2>9, <2>10 DEF n, s
<1>5. QED
    BY <1>3, <1>4

(***************************************************************************)
(* Slices of the calendar                                                  *)
(***************************************************************************)
\* The parts of a date that is put together.
LEMMA DateFacts ==
    ASSUME NEW y, NEW m, NEW d, NEW h
    PROVE  /\ Date(y, m, d, h)[1] = y /\ Date(y, m, d, h)[2] = m
           /\ Date(y, m, d, h)[3] = d /\ Date(y, m, d, h)[4] = h
           /\ y \in Int /\ m \in Int /\ d \in Int /\ h \in Int => Date(y, m, d, h) \in AnyDate
    BY DEF Date, AnyDate, YEAR, HOUR

\* A date is made of its four parts.
LEMMA DateIs ==
    ASSUME NEW d \in AnyDate
    PROVE  /\ d = Date(d[1], d[2], d[3], d[4])
           /\ d[1] \in Int /\ d[2] \in Int /\ d[3] \in Int /\ d[4] \in Int
    BY DEF Date, AnyDate, YEAR, HOUR

\* One step of the normalisation, for each part that may be past its end.
LEMMA Carries ==
    ASSUME NEW y, NEW m, NEW d, NEW h, NEW n
    PROVE  /\ Carried(Date(y, m, d, h), 2, n) = IF m > n THEN Date(y + 1, 1, d, h) ELSE Date(y, m, d, h)
           /\ Carried(Date(y, m, d, h), 3, n) = IF d > n THEN Date(y, m + 1, 1, h) ELSE Date(y, m, d, h)
           /\ Carried(Date(y, m, d, h), 4, n) = IF h > n THEN Date(y, m, d + 1, 0) ELSE Date(y, m, d, h)
<1>1. Carried(Date(y, m, d, h), 2, n) = IF m > n THEN Date(y + 1, 1, d, h) ELSE Date(y, m, d, h)
    BY DEF Date, YEAR, HOUR, FirstPart, DAY, Carried
<1>2. Carried(Date(y, m, d, h), 3, n) = IF d > n THEN Date(y, m + 1, 1, h) ELSE Date(y, m, d, h)
    BY DEF Date, YEAR, HOUR, FirstPart, DAY, Carried
<1>3. Carried(Date(y, m, d, h), 4, n) = IF h > n THEN Date(y, m, d + 1, 0) ELSE Date(y, m, d, h)
    BY DEF Date, YEAR, HOUR, FirstPart, DAY, Carried
<1>4. QED
    BY <1>1, <1>2, <1>3

\* What simple_date_normalize makes of a date one past the end of its month,
\* its year, its day.
LEMMA Normalized ==
    ASSUME NEW y \in 1..(LastYear + 1), NEW m \in 1..Months, NEW d \in Int, NEW h \in Int,
           d \in 1..(Days[<<y, m>>] + 1), h \in 0..Hours
    PROVE  /\ h < Hours /\ d <= Days[<<y, m>>] => Normal(Date(y, m, d, h)) = Date(y, m, d, h)
           /\ h = Hours /\ d <= Days[<<y, m>>] =>
                  Normal(Date(y, m, d, h)) = Normal(Date(y, m, d + 1, 0))
           /\ h < Hours /\ d > Days[<<y, m>>] =>
                  Normal(Date(y, m, d, h)) = IF m < Months THEN Date(y, m + 1, 1, h) ELSE Date(y + 1, 1, 1, h)
<1>1. Days[<<y, m>>] \in 1..MaxSubs
    BY ClockAssumption
<1>2. y \in Int /\ m \in Int /\ Months \in Int /\ Hours \in Int /\ Days[<<y, m>>] \in Int
      /\ Days[<<y, m>>] >= 1
    <2>1. y \in Int /\ m \in Int /\ Months \in Int /\ Hours \in Int
        BY ClockAssumption
    <2>2. Days[<<y, m>>] \in Int /\ Days[<<y, m>>] >= 1
        BY <1>1 DEF MaxSubs
    <2>3. QED
        BY <2>1, <2>2
<1>3. NormalMonth(Date(y, m, d, h)) = Date(y, m, d, h)
    BY <1>2, Carries DEF NormalMonth, MONTH
<1>4. h < Hours => Carried(Date(y, m, d, h), HOUR, Hours - 1) = Date(y, m, d, h)
    BY <1>2, Carries DEF HOUR
<1>5. h = Hours => Carried(Date(y, m, d, h), HOUR, Hours - 1) = Date(y, m, d + 1, 0)
    BY <1>2, Carries DEF HOUR
<1>6. h < Hours => Normal(Date(y, m, d, h)) = NormalDay(Date(y, m, d, h))
    BY <1>3, <1>4 DEF Normal
<1>7. h = Hours => Normal(Date(y, m, d, h)) = NormalDay(Date(y, m, d + 1, 0))
    BY <1>3, <1>5 DEF Normal
<1>8. Date(y, m, d, h)[YEAR] = y /\ Date(y, m, d, h)[MONTH] = m
    BY <1>2, DateFacts DEF YEAR, MONTH
<1>9. NormalDay(Date(y, m, d, h)) = NormalMonth(Carried(Date(y, m, d, h), 3, Days[<<y, m>>]))
    BY <1>8 DEF NormalDay, DAY
<1>10. d <= Days[<<y, m>>] => NormalDay(Date(y, m, d, h)) = Date(y, m, d, h)
    BY <1>2, <1>3, <1>9, Carries
<1>11. d > Days[<<y, m>>] => NormalDay(Date(y, m, d, h)) = NormalMonth(Date(y, m + 1, 1, h))
    BY <1>2, <1>9, Carries
<1>12. NormalMonth(Date(y, m + 1, 1, h)) = IF m < Months THEN Date(y, m + 1, 1, h) ELSE Date(y + 1, 1, 1, h)
    BY <1>2, Carries DEF NormalMonth, MONTH
<1>13. Normal(Date(y, m, d + 1, 0)) = NormalDay(Date(y, m, d + 1, 0))
    <2>1. NormalMonth(Date(y, m, d + 1, 0)) = Date(y, m, d + 1, 0)
        BY <1>2, Carries DEF NormalMonth, MONTH
    <2>2. Carried(Date(y, m, d + 1, 0), HOUR, Hours - 1) = Date(y, m, d + 1, 0)
        BY <1>2, Carries, ClockAssumption DEF HOUR
    <2>3. QED
        BY <2>1, <2>2 DEF Normal
<1>14. QED
    BY <1>2, <1>6, <1>7, <1>10, <1>11, <1>12, <1>13

\* A date that is normal.
LEMMA NormalDate ==
    ASSUME NEW y \in 1..(LastYear + 1), NEW m \in 1..Months, NEW d \in 1..Days[<<y, m>>], NEW h \in 0..(Hours - 1)
    PROVE  Normal(Date(y, m, d, h)) = Date(y, m, d, h)
<1>1. Days[<<y, m>>] \in 1..MaxSubs /\ Hours \in Nat \ {0, 1}
    BY ClockAssumption
<1>2. /\ d \in Int /\ d \in 1..(Days[<<y, m>>] + 1) /\ d <= Days[<<y, m>>]
      /\ h \in Int /\ h \in 0..Hours /\ h < Hours
    BY <1>1 DEF MaxSubs
<1>3. QED
    BY <1>2, Normalized

\* The hour after the last is the next day.
LEMMA HourPast ==
    ASSUME NEW y \in 1..(LastYear + 1), NEW m \in 1..Months, NEW d \in 1..Days[<<y, m>>]
    PROVE  Normal(Date(y, m, d, Hours)) = Normal(Date(y, m, d + 1, 0))
<1>1. Days[<<y, m>>] \in 1..MaxSubs /\ Hours \in Nat \ {0, 1}
    BY ClockAssumption
<1>2. /\ d \in Int /\ d \in 1..(Days[<<y, m>>] + 1) /\ d <= Days[<<y, m>>]
      /\ Hours \in Int /\ Hours \in 0..Hours
    BY <1>1 DEF MaxSubs
<1>3. QED
    BY <1>2, Normalized

\* A month past the last, and a day past the last of a year.
LEMMA NormalizedMonth ==
    ASSUME NEW y \in 1..LastYear, NEW m \in 1..(Months + 1)
    PROVE  Normal(Date(y, m, 1, 0)) = IF m <= Months THEN Date(y, m, 1, 0) ELSE Date(y + 1, 1, 1, 0)
<1>1. y \in Int /\ m \in Int /\ Months \in Int /\ Hours \in Int /\ LastYear \in Int
      /\ Months >= 1 /\ Hours >= 2
    BY ClockAssumption
<1>2. CASE m <= Months
    <2>1. m \in 1..Months /\ y \in 1..(LastYear + 1)
        BY <1>1, <1>2
    <2>2. Days[<<y, m>>] \in 1..MaxSubs
        BY <2>1, ClockAssumption
    <2>3. (1 \in 1..(Days[<<y, m>>] + 1)) /\ 0 \in 0..Hours /\ 1 <= Days[<<y, m>>] /\ 0 < Hours
        BY <1>1, <2>2 DEF MaxSubs
    <2>4. QED
        BY <1>2, <2>1, <2>3, Normalized
<1>3. CASE m > Months
    <2>1. NormalMonth(Date(y, m, 1, 0)) = Date(y + 1, 1, 1, 0)
        BY <1>1, <1>3, Carries DEF NormalMonth, MONTH
    <2>2. Normal(Date(y, m, 1, 0)) = NormalDay(Carried(Date(y + 1, 1, 1, 0), HOUR, Hours - 1))
        BY <2>1 DEF Normal
    <2>3. NormalMonth(Date(y + 1, 1, 1, 0)) = Date(y + 1, 1, 1, 0)
        BY <1>1, Carries DEF NormalMonth, MONTH
    <2>4. Normal(Date(y + 1, 1, 1, 0)) = NormalDay(Carried(Date(y + 1, 1, 1, 0), HOUR, Hours - 1))
        BY <2>3 DEF Normal
    <2>5. (1 \in 1..Months) /\ y + 1 \in 1..(LastYear + 1)
        BY <1>1
    <2>6. Days[<<y + 1, 1>>] \in 1..MaxSubs
        BY <2>5, ClockAssumption
    <2>7. (1 \in 1..(Days[<<y + 1, 1>>] + 1)) /\ 0 \in 0..Hours /\ 1 <= Days[<<y + 1, 1>>] /\ 0 < Hours
        BY <1>1, <2>6 DEF MaxSubs
    <2>8. Normal(Date(y + 1, 1, 1, 0)) = Date(y + 1, 1, 1, 0)
        BY <2>5, <2>7, Normalized
    <2>9. QED
        BY <1>1, <1>3, <2>2, <2>4, <2>8
<1>4. QED
    BY <1>1, <1>2, <1>3

\* One part of a date is replaced.
LEMMA SameDate ==
    ASSUME NEW F, NEW G, F = [k \in 1..4 |-> F[k]], G = [k \in 1..4 |-> G[k]],
           F[1] = G[1], F[2] = G[2], F[3] = G[3], F[4] = G[4]
    PROVE  F = G
<1>1. \A k \in 1..4 : F[k] = G[k]
    OBVIOUS
<1>2. QED
    BY <1>1

Put(d, k, x) == [d EXCEPT ![k] = x]

\* A date with one part replaced.
LEMMA Replaced ==
    ASSUME NEW y, NEW m, NEW d, NEW h, NEW x
    PROVE  /\ Put(Date(y, m, d, h), 1, x) = Date(x, m, d, h)
           /\ Put(Date(y, m, d, h), 2, x) = Date(y, x, d, h)
           /\ Put(Date(y, m, d, h), 3, x) = Date(y, m, x, h)
           /\ Put(Date(y, m, d, h), 4, x) = Date(y, m, d, x)
<1>1. Put(Date(y, m, d, h), 1, x) = Date(x, m, d, h)
    <2> DEFINE F == [Date(y, m, d, h) EXCEPT ![1] = x]
               G == Date(x, m, d, h)
    <2>1. F = [k \in 1..4 |-> F[k]] /\ G = [k \in 1..4 |-> G[k]]
        BY DEF Date, YEAR, HOUR
    <2>2. F[1] = G[1] /\ F[2] = G[2] /\ F[3] = G[3] /\ F[4] = G[4]
        BY DEF Date, YEAR, HOUR
    <2> HIDE DEF F, G
    <2>3. F = G
        BY <2>1, <2>2, SameDate
    <2>4. QED
        BY <2>3 DEF F, G, Put
<1>2. Put(Date(y, m, d, h), 2, x) = Date(y, x, d, h)
    <2> DEFINE F == [Date(y, m, d, h) EXCEPT ![2] = x]
               G == Date(y, x, d, h)
    <2>1. F = [k \in 1..4 |-> F[k]] /\ G = [k \in 1..4 |-> G[k]]
        BY DEF Date, YEAR, HOUR
    <2>2. F[1] = G[1] /\ F[2] = G[2] /\ F[3] = G[3] /\ F[4] = G[4]
        BY DEF Date, YEAR, HOUR
    <2> HIDE DEF F, G
    <2>3. F = G
        BY <2>1, <2>2, SameDate
    <2>4. QED
        BY <2>3 DEF F, G, Put
<1>3. Put(Date(y, m, d, h), 3, x) = Date(y, m, x, h)
    <2> DEFINE F == [Date(y, m, d, h) EXCEPT ![3] = x]
               G == Date(y, m, x, h)
    <2>1. F = [k \in 1..4 |-> F[k]] /\ G = [k \in 1..4 |-> G[k]]
        BY DEF Date, YEAR, HOUR
    <2>2. F[1] = G[1] /\ F[2] = G[2] /\ F[3] = G[3] /\ F[4] = G[4]
        BY DEF Date, YEAR, HOUR
    <2> HIDE DEF F, G
    <2>3. F = G
        BY <2>1, <2>2, SameDate
    <2>4. QED
        BY <2>3 DEF F, G, Put
<1>4. Put(Date(y, m, d, h), 4, x) = Date(y, m, d, x)
    <2> DEFINE F == [Date(y, m, d, h) EXCEPT ![4] = x]
               G == Date(y, m, d, x)
    <2>1. F = [k \in 1..4 |-> F[k]] /\ G = [k \in 1..4 |-> G[k]]
        BY DEF Date, YEAR, HOUR
    <2>2. F[1] = G[1] /\ F[2] = G[2] /\ F[3] = G[3] /\ F[4] = G[4]
        BY DEF Date, YEAR, HOUR
    <2> HIDE DEF F, G
    <2>3. F = G
        BY <2>1, <2>2, SameDate
    <2>4. QED
        BY <2>3 DEF F, G, Put
<1>5. QED
    BY <1>1, <1>2, <1>3, <1>4

\* A date written as a tuple.
LEMMA DateTuple ==
    ASSUME NEW y, NEW m, NEW d, NEW h
    PROVE  <<y, m, d, h>> = Date(y, m, d, h)
    BY DEF Date, YEAR, HOUR

\* The first date of a unit, and the first of the next.
IsBegin(lev, d) == IsDate(d) /\ AtStart(d, lev)
NextOf(lev, d) == Normal([d EXCEPT ![lev] = @ + 1])
MonthAfter(y, m) == IF m < Months THEN Date(y, m + 1, 1, 0) ELSE Date(y + 1, 1, 1, 0)
DayAfter(y, m, d) == IF d < Days[<<y, m>>] THEN Date(y, m, d + 1, 0) ELSE MonthAfter(y, m)

\* What is at its start in the first date of a year, a month and a day.
LEMMA BeginCases ==
    ASSUME NEW d, NEW lev \in YEAR..HOUR, IsBegin(lev, d)
    PROVE  /\ d = Date(d[1], d[2], d[3], d[4])
           /\ lev = 1 => d[2] = 1 /\ d[3] = 1 /\ d[4] = 0
           /\ lev = 2 => d[3] = 1 /\ d[4] = 0
           /\ lev = 3 => d[4] = 0
<1>1. d \in AnyDate
    BY DateParts DEF IsBegin
<1>2. d = Date(d[1], d[2], d[3], d[4])
    BY <1>1, DateIs
<1>3. \A k \in (lev + 1)..4 : d[k] = FirstPart(k - 1)
    BY DEF IsBegin, AtStart, HOUR
<1>4. FirstPart(1) = 1 /\ FirstPart(2) = 1 /\ FirstPart(3) = 0
    BY DEF FirstPart, DAY
<1>5. (2 - 1 = 1) /\ 3 - 1 = 2 /\ 4 - 1 = 3
    OBVIOUS
<1>6. (lev = 1 => 2 \in (lev + 1)..4 /\ 3 \in (lev + 1)..4 /\ 4 \in (lev + 1)..4)
      /\ (lev = 2 => 3 \in (lev + 1)..4 /\ 4 \in (lev + 1)..4) /\ (lev = 3 => 4 \in (lev + 1)..4)
    BY DEF YEAR, HOUR
<1>7. QED
    BY <1>2, <1>3, <1>4, <1>5, <1>6

\* The first date of the next year, month, day and hour, without normalisation.
LEMMA NextCases ==
    ASSUME NEW d, NEW lev \in YEAR..HOUR, IsBegin(lev, d)
    PROVE  /\ lev = 1 => NextOf(lev, d) = Date(d[1] + 1, 1, 1, 0)
           /\ lev = 2 => NextOf(lev, d) = MonthAfter(d[1], d[2])
           /\ lev = 3 => NextOf(lev, d) = DayAfter(d[1], d[2], d[3])
           /\ lev = 4 => NextOf(lev, d) = IF d[4] < Hours - 1 THEN Date(d[1], d[2], d[3], d[4] + 1)
                                          ELSE DayAfter(d[1], d[2], d[3])
<1>1. /\ d[1] \in 1..LastYear /\ d[2] \in 1..Months
      /\ Days[<<d[1], d[2]>>] \in 1..MaxSubs /\ d[3] \in 1..Days[<<d[1], d[2]>>]
      /\ d[4] \in 0..(Hours - 1)
    BY DateParts DEF IsBegin
<1>2. LastYear \in Nat \ {0} /\ Months \in Nat \ {0} /\ Hours \in Nat \ {0, 1}
    BY ClockAssumption
<1>3. d = Date(d[1], d[2], d[3], d[4])
    BY BeginCases
<1> DEFINE y == d[1]  m == d[2]  e == d[3]  h == d[4]  n == Days[<<y, m>>]
<1>4. d = Date(y, m, e, h)
    BY <1>3
<1>5. y \in 1..LastYear /\ m \in 1..Months /\ n \in 1..MaxSubs /\ e \in 1..n /\ h \in 0..(Hours - 1)
    BY <1>1
<1>6. n = Days[<<y, m>>]
    OBVIOUS
<1>7. (lev = 1 => m = 1 /\ e = 1 /\ h = 0) /\ (lev = 2 => e = 1 /\ h = 0) /\ (lev = 3 => h = 0)
    BY BeginCases
<1>8. d[1] = y /\ d[2] = m /\ d[3] = e /\ d[4] = h
    OBVIOUS
<1> HIDE DEF y, m, e, h, n
<1>9. /\ lev = 1 => NextOf(lev, d) = Normal(Date(y + 1, m, e, h))
      /\ lev = 2 => NextOf(lev, d) = Normal(Date(y, m + 1, e, h))
      /\ lev = 3 => NextOf(lev, d) = Normal(Date(y, m, e + 1, h))
      /\ lev = 4 => NextOf(lev, d) = Normal(Date(y, m, e, h + 1))
    <2>1. NextOf(lev, d) = Normal(Put(d, lev, d[lev] + 1))
        BY DEF NextOf, Put
    <2>2. QED
        BY <1>4, <1>8, <2>1, Replaced
<1>10. y + 1 \in 1..(LastYear + 1) /\ y \in 1..(LastYear + 1) /\ m + 1 \in 1..(Months + 1)
       /\ 1 \in 1..Months /\ y \in Int /\ m \in Int /\ e \in Int /\ h \in Int /\ n \in Int
    BY <1>2, <1>5 DEF MaxSubs
<1>11. CASE lev = 1
    <2>1. Days[<<y + 1, 1>>] \in 1..MaxSubs
        BY <1>10, ClockAssumption
    <2>2. (1 \in 1..(Days[<<y + 1, 1>>] + 1)) /\ 0 \in 0..Hours /\ 1 <= Days[<<y + 1, 1>>] /\ 0 < Hours
        BY <1>2, <2>1 DEF MaxSubs
    <2>3. Normal(Date(y + 1, 1, 1, 0)) = Date(y + 1, 1, 1, 0)
        BY <1>10, <2>2, Normalized
    <2>4. QED
        BY <1>7, <1>9, <1>11, <2>3 DEF y
<1>12. CASE lev = 2
    <2>1. Normal(Date(y, m + 1, 1, 0)) = IF m + 1 <= Months THEN Date(y, m + 1, 1, 0) ELSE Date(y + 1, 1, 1, 0)
        BY <1>5, <1>10, NormalizedMonth
    <2>2. (m + 1 <= Months) <=> m < Months
        BY <1>2, <1>10
    <2>3. Normal(Date(y, m + 1, 1, 0)) = MonthAfter(y, m)
        BY <2>1, <2>2 DEF MonthAfter
    <2>4. QED
        BY <1>7, <1>9, <1>12, <2>3 DEF y, m
<1>13. Normal(Date(y, m, e + 1, 0)) = DayAfter(y, m, e)
    <2>1. (e + 1 \in 1..(n + 1)) /\ e + 1 \in Int /\ 0 \in 0..Hours /\ 0 < Hours
        BY <1>2, <1>5, <1>10
    <2>2. (e + 1 <= n) <=> e < n
        BY <1>10
    <2>3. (e + 1 > n) <=> ~(e < n)
        BY <1>10
    <2>4. e + 1 <= n => Normal(Date(y, m, e + 1, 0)) = Date(y, m, e + 1, 0)
        BY <1>5, <1>6, <1>10, <2>1, Normalized
    <2>5. e + 1 > n => Normal(Date(y, m, e + 1, 0)) = MonthAfter(y, m)
        BY <1>5, <1>6, <1>10, <2>1, Normalized DEF MonthAfter
    <2>6. QED
        BY <1>6, <2>2, <2>3, <2>4, <2>5 DEF DayAfter
<1>14. CASE lev = 3
    BY <1>7, <1>9, <1>13, <1>14 DEF y, m, e
<1>15. CASE lev = 4
    <2>1. (h + 1 \in 0..Hours) /\ h + 1 \in Int /\ e \in 1..(n + 1) /\ e <= n
        BY <1>2, <1>5, <1>10
    <2>2. h + 1 < Hours => Normal(Date(y, m, e, h + 1)) = Date(y, m, e, h + 1)
        BY <1>5, <1>6, <1>10, <2>1, Normalized
    <2>3. h + 1 = Hours => Normal(Date(y, m, e, h + 1)) = DayAfter(y, m, e)
        BY <1>5, <1>6, <1>10, <1>13, <2>1, Normalized
    <2>4. (h < Hours - 1 <=> h + 1 < Hours) /\ (~(h < Hours - 1) <=> h + 1 = Hours)
        BY <1>2, <1>5
    <2>5. NextOf(lev, d) = Normal(Date(y, m, e, h + 1))
        BY <1>9, <1>15
    <2>6. NextOf(lev, d) = IF h < Hours - 1 THEN Date(y, m, e, h + 1) ELSE DayAfter(y, m, e)
        BY <2>2, <2>3, <2>4, <2>5
    <2>7. QED
        BY <1>15, <2>6 DEF y, m, e, h
<1>16. QED
    BY <1>11, <1>12, <1>14, <1>15 DEF YEAR, HOUR

\* To be in the same unit, part by part.
LEMMA SameUpTo ==
    ASSUME NEW d, NEW e
    PROVE  /\ (\A k \in YEAR..1 : e[k] = d[k]) <=> e[1] = d[1]
           /\ (\A k \in YEAR..2 : e[k] = d[k]) <=> e[1] = d[1] /\ e[2] = d[2]
           /\ (\A k \in YEAR..3 : e[k] = d[k]) <=> e[1] = d[1] /\ e[2] = d[2] /\ e[3] = d[3]
           /\ (\A k \in YEAR..4 : e[k] = d[k]) <=> e[1] = d[1] /\ e[2] = d[2] /\ e[3] = d[3] /\ e[4] = d[4]
<1>1. 1..1 = {1} /\ 1..2 = {1, 2} /\ 1..3 = {1, 2, 3} /\ 1..4 = {1, 2, 3, 4}
    OBVIOUS
<1>2. QED
    BY <1>1 DEF YEAR

\* A unit lasts from its first date to the first of the next: these are the
\* dates that agree with it.
LEMMA NextIs ==
    ASSUME NEW d, NEW lev \in YEAR..HOUR, IsBegin(lev, d)
    PROVE  /\ NextOf(lev, d) \in AnyDate
           /\ Later(NextOf(lev, d), d)
           /\ lev < HOUR => NextOf(lev, d)[4] = 0
           /\ \A e : IsDate(e) =>
                  (~Later(d, e) /\ Later(NextOf(lev, d), e) <=> \A k \in YEAR..lev : e[k] = d[k])
<1>1. /\ d[1] \in 1..LastYear /\ d[2] \in 1..Months
      /\ Days[<<d[1], d[2]>>] \in 1..MaxSubs /\ d[3] \in 1..Days[<<d[1], d[2]>>]
      /\ d[4] \in 0..(Hours - 1)
    BY DateParts DEF IsBegin
<1>2. LastYear \in Int /\ Months \in Int /\ Hours \in Int /\ Days[<<d[1], d[2]>>] \in Int
    <2>1. LastYear \in Int /\ Months \in Int /\ Hours \in Int
        BY ClockAssumption
    <2>2. QED
        BY <1>1, <2>1 DEF MaxSubs
<1> DEFINE y == d[1]  m == d[2]  c == d[3]  h == d[4]  n == Days[<<y, m>>]
           N == NextOf(lev, d)
<1>3. d[1] = y /\ d[2] = m /\ d[3] = c /\ d[4] = h /\ n = Days[<<y, m>>]
    OBVIOUS
<1>4. /\ y \in Int /\ m \in Int /\ c \in Int /\ h \in Int /\ n \in Int
      /\ 1 <= y /\ 1 <= m /\ m <= Months /\ 1 <= c /\ c <= n /\ 0 <= h /\ h <= Hours - 1
    BY <1>1, <1>2
<1>5. /\ lev = 1 => m = 1 /\ c = 1 /\ h = 0
      /\ lev = 2 => c = 1 /\ h = 0
      /\ lev = 3 => h = 0
    BY BeginCases
<1>6. /\ lev = 1 => N = Date(y + 1, 1, 1, 0)
      /\ lev = 2 => N = MonthAfter(y, m)
      /\ lev = 3 => N = DayAfter(y, m, c)
      /\ lev = 4 => N = IF h < Hours - 1 THEN Date(y, m, c, h + 1) ELSE DayAfter(y, m, c)
    BY NextCases
<1> HIDE DEF y, m, c, h, n, N
<1>7. N = Date(y + 1, 1, 1, 0) \/ N = Date(y, m + 1, 1, 0) \/ N = Date(y, m, c + 1, 0) \/ N = Date(y, m, c, h + 1)
    BY <1>6 DEF DayAfter, MonthAfter, YEAR, HOUR
<1>8. N \in AnyDate
    BY <1>4, <1>7, DateFacts
<1>9. \/ N[1] = y + 1
      \/ N[1] = y /\ N[2] = m + 1
      \/ N[1] = y /\ N[2] = m /\ N[3] = c + 1
      \/ N[1] = y /\ N[2] = m /\ N[3] = c /\ N[4] = h + 1
    BY <1>7, DateFacts
<1>10. Later(N, d)
    BY <1>3, <1>4, <1>9, LaterCases
<1>11. /\ lev = 1 => N[1] = y + 1 /\ N[2] = 1 /\ N[3] = 1 /\ N[4] = 0
       /\ lev = 2 => \/ m < Months /\ N[1] = y /\ N[2] = m + 1 /\ N[3] = 1 /\ N[4] = 0
                     \/ m >= Months /\ N[1] = y + 1 /\ N[2] = 1 /\ N[3] = 1 /\ N[4] = 0
       /\ lev = 3 \/ (lev = 4 /\ h = Hours - 1) =>
                     \/ c < n /\ N[1] = y /\ N[2] = m /\ N[3] = c + 1 /\ N[4] = 0
                     \/ c >= n /\ m < Months /\ N[1] = y /\ N[2] = m + 1 /\ N[3] = 1 /\ N[4] = 0
                     \/ c >= n /\ m >= Months /\ N[1] = y + 1 /\ N[2] = 1 /\ N[3] = 1 /\ N[4] = 0
       /\ lev = 4 /\ h < Hours - 1 => N[1] = y /\ N[2] = m /\ N[3] = c /\ N[4] = h + 1
    <2>1. (m >= Months <=> ~(m < Months)) /\ (c >= n <=> ~(c < n)) /\ (h = Hours - 1 => ~(h < Hours - 1))
        BY <1>2, <1>4
    <2>2. \/ MonthAfter(y, m) = Date(y, m + 1, 1, 0) /\ m < Months
          \/ MonthAfter(y, m) = Date(y + 1, 1, 1, 0) /\ m >= Months
        BY <2>1 DEF MonthAfter
    <2>3. \/ DayAfter(y, m, c) = Date(y, m, c + 1, 0) /\ c < n
          \/ DayAfter(y, m, c) = MonthAfter(y, m) /\ c >= n
        BY <1>3, <2>1 DEF DayAfter
    <2>4. \A a, b, e, f : Date(a, b, e, f)[1] = a /\ Date(a, b, e, f)[2] = b /\ Date(a, b, e, f)[3] = e
                          /\ Date(a, b, e, f)[4] = f
        BY DateFacts
    <2>5. lev = 1 => N[1] = y + 1 /\ N[2] = 1 /\ N[3] = 1 /\ N[4] = 0
        BY <1>6, <2>4
    <2>6. lev = 2 => \/ m < Months /\ N[1] = y /\ N[2] = m + 1 /\ N[3] = 1 /\ N[4] = 0
                     \/ m >= Months /\ N[1] = y + 1 /\ N[2] = 1 /\ N[3] = 1 /\ N[4] = 0
        BY <1>6, <2>2, <2>4
    <2>7. lev = 3 \/ (lev = 4 /\ h = Hours - 1) => N = DayAfter(y, m, c)
        BY <1>6, <2>1
    <2>8. N = DayAfter(y, m, c) =>
                     \/ c < n /\ N[1] = y /\ N[2] = m /\ N[3] = c + 1 /\ N[4] = 0
                     \/ c >= n /\ m < Months /\ N[1] = y /\ N[2] = m + 1 /\ N[3] = 1 /\ N[4] = 0
                     \/ c >= n /\ m >= Months /\ N[1] = y + 1 /\ N[2] = 1 /\ N[3] = 1 /\ N[4] = 0
        BY <2>2, <2>3, <2>4
    <2>9. lev = 4 /\ h < Hours - 1 => N[1] = y /\ N[2] = m /\ N[3] = c /\ N[4] = h + 1
        BY <1>6, <2>4
    <2>10. QED
        BY <2>5, <2>6, <2>7, <2>8, <2>9
<1>12. lev < HOUR => N[4] = 0
    BY <1>11 DEF YEAR, HOUR
<1>13. ASSUME NEW e, IsDate(e)
       PROVE  ~Later(d, e) /\ Later(N, e) <=> \A k \in YEAR..lev : e[k] = d[k]
    <2>1. /\ e[1] \in 1..LastYear /\ e[2] \in 1..Months
          /\ Days[<<e[1], e[2]>>] \in 1..MaxSubs /\ e[3] \in 1..Days[<<e[1], e[2]>>]
          /\ e[4] \in 0..(Hours - 1)
        BY <1>13, DateParts
    <2> DEFINE p == e[1]  q == e[2]  r == e[3]  s == e[4]
    <2>2. e[1] = p /\ e[2] = q /\ e[3] = r /\ e[4] = s
        OBVIOUS
    <2>3. Days[<<p, q>>] \in Int
        BY <2>1 DEF MaxSubs
    <2> HIDE DEF p, q, r, s
    <2>4. /\ p \in Int /\ q \in Int /\ r \in Int /\ s \in Int
          /\ 1 <= p /\ 1 <= q /\ q <= Months /\ 1 <= r /\ r <= Days[<<p, q>>] /\ 0 <= s /\ s <= Hours - 1
        BY <1>2, <2>1, <2>2, <2>3
    <2>5. p = y /\ q = m => r <= n
        BY <1>3, <2>4
    <2>6. Later(d, e) <=> \/ y > p
                          \/ y = p /\ m > q
                          \/ y = p /\ m = q /\ c > r
                          \/ y = p /\ m = q /\ c = r /\ h > s
        BY <1>3, <2>2, LaterCases
    <2>7. Later(N, e) <=> \/ N[1] > p
                          \/ N[1] = p /\ N[2] > q
                          \/ N[1] = p /\ N[2] = q /\ N[3] > r
                          \/ N[1] = p /\ N[2] = q /\ N[3] = r /\ N[4] > s
        BY <2>2, LaterCases
    <2>8. /\ lev = 1 => ((\A k \in YEAR..lev : e[k] = d[k]) <=> p = y)
          /\ lev = 2 => ((\A k \in YEAR..lev : e[k] = d[k]) <=> p = y /\ q = m)
          /\ lev = 3 => ((\A k \in YEAR..lev : e[k] = d[k]) <=> p = y /\ q = m /\ r = c)
          /\ lev = 4 => ((\A k \in YEAR..lev : e[k] = d[k]) <=> p = y /\ q = m /\ r = c /\ s = h)
        BY <1>3, <2>2, SameUpTo
    <2> DEFINE Unit == \A k \in YEAR..lev : e[k] = d[k]
               L == Later(d, e)
               M == Later(N, e)
    <2> HIDE DEF Unit, L, M
    <2>9. lev = 1 => (~L /\ M <=> Unit)
        <3>1. lev = 1 => (L <=> y > p) /\ (M <=> y + 1 > p) /\ (Unit <=> p = y)
            BY <1>4, <1>5, <1>11, <2>4, <2>6, <2>7, <2>8 DEF L, M, Unit
        <3>2. QED
            BY <1>4, <2>4, <3>1
    <2>10. lev = 2 => (~L /\ M <=> Unit)
        <3>1. lev = 2 => (L <=> y > p \/ (y = p /\ m > q)) /\ (Unit <=> p = y /\ q = m)
            BY <1>4, <1>5, <2>4, <2>6, <2>8 DEF L, Unit
        <3>2. lev = 2 /\ m < Months => (M <=> y > p \/ (y = p /\ m + 1 > q))
            BY <1>2, <1>4, <1>11, <2>4, <2>7 DEF M
        <3>3. lev = 2 /\ m >= Months => (M <=> y + 1 > p)
            BY <1>2, <1>4, <1>11, <2>4, <2>7 DEF M
        <3>4. QED
            BY <1>2, <1>4, <2>4, <3>1, <3>2, <3>3
    <2>11. lev = 3 => (~L /\ M <=> Unit)
        <3>1. lev = 3 => (L <=> y > p \/ (y = p /\ m > q) \/ (y = p /\ m = q /\ c > r))
                         /\ (Unit <=> p = y /\ q = m /\ r = c)
            BY <1>4, <1>5, <2>4, <2>6, <2>8 DEF L, Unit
        <3>2. lev = 3 /\ c < n => (M <=> y > p \/ (y = p /\ m > q) \/ (y = p /\ m = q /\ c + 1 > r))
            BY <1>2, <1>4, <1>11, <2>4, <2>7 DEF M
        <3>3. lev = 3 /\ c >= n /\ m < Months => (M <=> y > p \/ (y = p /\ m + 1 > q))
            BY <1>2, <1>4, <1>11, <2>4, <2>7 DEF M
        <3>4. lev = 3 /\ c >= n /\ m >= Months => (M <=> y + 1 > p)
            BY <1>2, <1>4, <1>11, <2>4, <2>7 DEF M
        <3>5. QED
            BY <1>2, <1>4, <2>4, <2>5, <3>1, <3>2, <3>3, <3>4
    <2>12. lev = 4 => (~L /\ M <=> Unit)
        <3>1. lev = 4 => (Unit <=> p = y /\ q = m /\ r = c /\ s = h)
            BY <2>8 DEF Unit
        <3>2. lev = 4 /\ h < Hours - 1 =>
                  (M <=> y > p \/ (y = p /\ m > q) \/ (y = p /\ m = q /\ c > r) \/ (y = p /\ m = q /\ c = r /\ h + 1 > s))
            BY <1>2, <1>4, <1>11, <2>4, <2>7 DEF M
        <3>3. lev = 4 /\ h = Hours - 1 /\ c < n =>
                  (M <=> y > p \/ (y = p /\ m > q) \/ (y = p /\ m = q /\ c + 1 > r))
            BY <1>2, <1>4, <1>11, <2>4, <2>7 DEF M
        <3>4. lev = 4 /\ h = Hours - 1 /\ c >= n /\ m < Months => (M <=> y > p \/ (y = p /\ m + 1 > q))
            BY <1>2, <1>4, <1>11, <2>4, <2>7 DEF M
        <3>5. lev = 4 /\ h = Hours - 1 /\ c >= n /\ m >= Months => (M <=> y + 1 > p)
            BY <1>2, <1>4, <1>11, <2>4, <2>7 DEF M
        <3>6. L <=> y > p \/ (y = p /\ m > q) \/ (y = p /\ m = q /\ c > r) \/ (y = p /\ m = q /\ c = r /\ h > s)
            BY <2>6 DEF L
        <3>7. QED
            BY <1>2, <1>4, <2>4, <2>5, <3>1, <3>2, <3>3, <3>4, <3>5, <3>6
    <2>13. QED
        BY <2>9, <2>10, <2>11, <2>12 DEF L, M, Unit, YEAR, HOUR
<1>14. QED
    BY <1>8, <1>10, <1>12, <1>13 DEF N

\* An earlier date has no later time.
LEMMA TimeOrder ==
    ASSUME NEW d \in AnyDate, NEW e \in AnyDate, ~Later(d, e)
    PROVE  simple_date_to_ts(d) <= simple_date_to_ts(e)
<1> DEFINE s == simple_date_to_ts(d)
           u == simple_date_to_ts(e)
<1>1. /\ s \in 0..Len(Clock) /\ u \in 0..Len(Clock) /\ Len(Clock) \in Nat
      /\ DOMAIN Clock = 1..Len(Clock)
    BY TimeOfDate, ClockFacts
<1>2. CASE d = e
    BY <1>1, <1>2
<1>3. CASE d # e
    <2>1. Later(e, d)
        BY <1>3, LaterOrder
    <2>2. CASE u = Len(Clock)
        BY <1>1, <2>2
    <2>3. CASE u # Len(Clock)
        <3>1. u + 1 \in DOMAIN Clock /\ (u + 1) - 1 = u
            BY <1>1, <2>3
        <3>2. ~Later(e, Clock[u + 1])
            BY <1>1, <3>1, TimeOfDate
        <3>3. Later(Clock[u + 1], d)
            BY <2>1, <3>1, <3>2, ClockFacts, LaterOrder
        <3>4. (u + 1) - 1 >= s
            BY <3>1, <3>3, TimeOfDate
        <3>5. QED
            BY <1>1, <3>1, <3>4
    <2>4. QED
        BY <2>2, <2>3
<1>4. QED
    BY <1>2, <1>3

SliceOf(lev, d) == Ran(simple_date_to_ts(d), simple_date_to_ts(NextOf(lev, d)))
IsSlice(lev, ran) == \E d : IsBegin(lev, d) /\ ran = SliceOf(lev, d) /\ ran.fr < ran.to

\* Where a slice begins and ends; it may be empty.
LEMMA SliceTimes ==
    ASSUME NEW lev \in YEAR..HOUR, NEW d, IsBegin(lev, d)
    PROVE  /\ SliceOf(lev, d).fr = simple_date_to_ts(d)
           /\ SliceOf(lev, d).to = simple_date_to_ts(NextOf(lev, d))
           /\ SliceOf(lev, d) = Ran(SliceOf(lev, d).fr, SliceOf(lev, d).to)
           /\ SliceOf(lev, d).fr \in 0..Len(Clock) /\ SliceOf(lev, d).to \in 0..Len(Clock)
           /\ SliceOf(lev, d).fr <= SliceOf(lev, d).to
<1>1. SliceOf(lev, d).fr = simple_date_to_ts(d) /\ SliceOf(lev, d).to = simple_date_to_ts(NextOf(lev, d))
      /\ SliceOf(lev, d) = Ran(SliceOf(lev, d).fr, SliceOf(lev, d).to)
    BY DEF SliceOf, Ran
<1>2. d \in AnyDate /\ NextOf(lev, d) \in AnyDate /\ Later(NextOf(lev, d), d)
    BY DateParts, NextIs DEF IsBegin
<1>3. ~Later(d, NextOf(lev, d))
    BY <1>2, LaterOrder
<1>4. QED
    BY <1>1, <1>2, <1>3, TimeOrder, TimeOfDate

\* A slice of the calendar is not empty and lies within the clock.
LEMMA SliceFacts ==
    ASSUME NEW lev \in YEAR..HOUR, NEW ran, IsSlice(lev, ran)
    PROVE  /\ ran = Ran(ran.fr, ran.to) /\ ran.fr \in Nat /\ ran.to \in Nat
           /\ ran.fr < ran.to /\ ran.to <= Len(Clock)
           /\ ran.fr + 1 \in DOMAIN Clock
<1>1. PICK d : IsBegin(lev, d) /\ ran = SliceOf(lev, d) /\ ran.fr < ran.to
    BY DEF IsSlice
<1>2. /\ ran = Ran(ran.fr, ran.to) /\ ran.fr \in 0..Len(Clock) /\ ran.to \in 0..Len(Clock)
    BY <1>1, SliceTimes
<1>3. Len(Clock) \in Nat /\ DOMAIN Clock = 1..Len(Clock)
    BY ClockFacts
<1>4. QED
    BY <1>1, <1>2, <1>3

\* The moments of a year, a month, a day.
LEMMA UnitMoments ==
    ASSUME NEW lev \in YEAR..DAY, NEW d, IsBegin(lev, d), NEW t \in DOMAIN Clock
    PROVE  In(t - 1, SliceOf(lev, d)) <=> \A k \in YEAR..lev : Clock[t][k] = d[k]
<1>1. lev \in YEAR..HOUR /\ lev < HOUR
    BY DEF YEAR, DAY, HOUR
<1>2. d \in AnyDate /\ d[4] = 0
    <2>1. d \in AnyDate
        BY DateParts DEF IsBegin
    <2>2. lev = 1 \/ lev = 2 \/ lev = 3
        BY DEF YEAR, DAY
    <2>3. d[4] = 0
        BY <1>1, <2>2, BeginCases
    <2>4. QED
        BY <2>1, <2>3
<1>3. NextOf(lev, d) \in AnyDate /\ NextOf(lev, d)[4] = 0
    BY <1>1, NextIs
<1>4. IsDate(Clock[t]) /\ t \in Int
    BY ClockFacts
<1>5. t - 1 >= simple_date_to_ts(d) <=> ~Later(d, Clock[t])
    BY <1>2, TimeOfDate
<1>6. t - 1 >= simple_date_to_ts(NextOf(lev, d)) <=> ~Later(NextOf(lev, d), Clock[t])
    BY <1>3, TimeOfDate
<1>7. ~Later(d, Clock[t]) /\ Later(NextOf(lev, d), Clock[t]) <=> \A k \in YEAR..lev : Clock[t][k] = d[k]
    BY <1>1, <1>4, NextIs
<1>8. simple_date_to_ts(d) \in Int /\ simple_date_to_ts(NextOf(lev, d)) \in Int
    BY <1>2, <1>3, TimeOfDate, ClockFacts
<1>9. (SliceOf(lev, d).fr <= t - 1 <=> t - 1 >= simple_date_to_ts(d))
      /\ (t - 1 < SliceOf(lev, d).to <=> ~(t - 1 >= simple_date_to_ts(NextOf(lev, d))))
    BY <1>1, <1>4, <1>8, SliceTimes
<1>10. QED
    BY <1>5, <1>6, <1>7, <1>9 DEF In

\* A year, month or day is made of the moments with its date, wherever it begins.
LEMMA SliceUnit ==
    ASSUME NEW lev \in YEAR..DAY, NEW ran, IsSlice(lev, ran), NEW t \in DOMAIN Clock
    PROVE  In(t - 1, ran) <=> Same(lev, t, ran.fr + 1)
<1>1. PICK d : IsBegin(lev, d) /\ ran = SliceOf(lev, d) /\ ran.fr < ran.to
    BY DEF IsSlice
<1>2. lev \in YEAR..HOUR
    BY DEF YEAR, DAY, HOUR
<1>3. ran.fr + 1 \in DOMAIN Clock /\ ran.fr \in Nat /\ ran.to \in Nat
    BY <1>2, SliceFacts
<1>4. In((ran.fr + 1) - 1, ran)
    BY <1>1, <1>3 DEF In
<1>5. \A k \in YEAR..lev : Clock[ran.fr + 1][k] = d[k]
    BY <1>1, <1>3, <1>4, UnitMoments
<1>6. In(t - 1, ran) <=> \A k \in YEAR..lev : Clock[t][k] = d[k]
    BY <1>1, UnitMoments
<1>7. QED
    BY <1>5, <1>6 DEF Same

\* Slices of one kind do not overlap.
LEMMA SlicesApart ==
    ASSUME NEW lev \in YEAR..HOUR, NEW a, NEW b, IsSlice(lev, a), IsSlice(lev, b)
    PROVE  a = b \/ a.to <= b.fr \/ b.to <= a.fr
<1>1. PICK d : IsBegin(lev, d) /\ a = SliceOf(lev, d)
    BY DEF IsSlice
<1>2. PICK e : IsBegin(lev, e) /\ b = SliceOf(lev, e)
    BY DEF IsSlice
<1>3. \A c, f : IsBegin(lev, c) /\ IsBegin(lev, f) /\ Later(f, c) =>
                    simple_date_to_ts(NextOf(lev, c)) <= simple_date_to_ts(f)
    <2> SUFFICES ASSUME NEW c, NEW f, IsBegin(lev, c), IsBegin(lev, f), Later(f, c)
                 PROVE  simple_date_to_ts(NextOf(lev, c)) <= simple_date_to_ts(f)
        OBVIOUS
    <2>1. c \in AnyDate /\ f \in AnyDate /\ NextOf(lev, c) \in AnyDate /\ IsDate(f)
        BY DateParts, NextIs DEF IsBegin
    <2>2. ~Later(c, f)
        BY <2>1, LaterOrder
    <2>3. ASSUME Later(NextOf(lev, c), f) PROVE FALSE
        <3>1. \A k \in YEAR..lev : f[k] = c[k]
            BY <2>1, <2>2, <2>3, NextIs
        <3>2. \A k \in (lev + 1)..HOUR : f[k] = c[k]
            BY DEF IsBegin, AtStart
        <3>3. \A k \in 1..4 : k \in YEAR..lev \/ k \in (lev + 1)..HOUR
            BY DEF YEAR, HOUR
        <3>4. \A k \in 1..4 : f[k] = c[k]
            BY <3>1, <3>2, <3>3
        <3>5. f = c
            BY <2>1, <3>4 DEF AnyDate, YEAR, HOUR
        <3>6. QED
            BY <2>1, <3>5, LaterOrder
    <2>4. QED
        BY <2>1, <2>3, TimeOrder
<1>4. d \in AnyDate /\ e \in AnyDate
    BY <1>1, <1>2, DateParts DEF IsBegin
<1>5. d = e \/ Later(d, e) \/ Later(e, d)
    BY <1>4, LaterOrder
<1>6. /\ a.fr = simple_date_to_ts(d) /\ a.to = simple_date_to_ts(NextOf(lev, d))
      /\ b.fr = simple_date_to_ts(e) /\ b.to = simple_date_to_ts(NextOf(lev, e))
    BY <1>1, <1>2, SliceTimes
<1>7. QED
    BY <1>1, <1>2, <1>3, <1>5, <1>6

\* Slices of a kind that begin together, or have a moment in common, are one.
LEMMA SlicesEqual ==
    ASSUME NEW lev \in YEAR..HOUR, NEW a, NEW b, IsSlice(lev, a), IsSlice(lev, b),
           a.fr = b.fr \/ ts_ran_overlap(a, b) \/ (\E t \in Int : In(t, a) /\ In(t, b))
    PROVE  a = b
<1>1. /\ a.fr \in Nat /\ a.to \in Nat /\ b.fr \in Nat /\ b.to \in Nat /\ a.fr < a.to /\ b.fr < b.to
    BY SliceFacts
<1>2. ~(a.to <= b.fr \/ b.to <= a.fr)
    BY <1>1 DEF ts_ran_overlap, In
<1>3. QED
    BY <1>2, SlicesApart

Within(a, b) == b.fr <= a.fr /\ a.to <= b.to

\* A slice of a coarser kind that overlaps another contains it.
LEMMA SlicesNest ==
    ASSUME NEW lev \in YEAR..DAY, NEW l \in lev..DAY, NEW a, NEW b, IsSlice(lev, a), IsSlice(l, b),
           ts_ran_overlap(a, b) \/ (\E t \in Int : In(t, a) /\ In(t, b))
    PROVE  Within(b, a)
<1>1. lev \in YEAR..HOUR /\ l \in YEAR..HOUR /\ l \in YEAR..DAY /\ lev <= l /\ lev \in Int /\ l \in Int
    BY DEF YEAR, DAY, HOUR
<1>2. /\ a.fr \in Nat /\ a.to \in Nat /\ b.fr \in Nat /\ b.to \in Nat /\ a.fr < a.to /\ b.fr < b.to
      /\ a.to <= Len(Clock) /\ b.to <= Len(Clock) /\ Len(Clock) \in Nat
    BY <1>1, SliceFacts, ClockFacts
<1>3. \E t \in Int : In(t, a) /\ In(t, b)
    <2>1. CASE ts_ran_overlap(a, b)
        <3>1. CASE a.fr <= b.fr
            <4>1. In(b.fr, a) /\ In(b.fr, b) /\ b.fr \in Int
                BY <1>2, <2>1, <3>1 DEF ts_ran_overlap, In
            <4>2. QED
                BY <4>1
        <3>2. CASE b.fr <= a.fr
            <4>1. In(a.fr, a) /\ In(a.fr, b) /\ a.fr \in Int
                BY <1>2, <2>1, <3>2 DEF ts_ran_overlap, In
            <4>2. QED
                BY <4>1
        <3>3. QED
            BY <1>2, <3>1, <3>2
    <2>2. QED
        BY <2>1
<1>4. PICK t \in Int : In(t, a) /\ In(t, b)
    BY <1>3
<1>5. \A s \in Int : In(s, b) => s + 1 \in DOMAIN Clock /\ (s + 1) - 1 = s
    BY <1>2, ClockFacts DEF In
<1>6. ASSUME NEW s \in Int, In(s, b) PROVE In(s, a)
    <2>1. s + 1 \in DOMAIN Clock /\ (s + 1) - 1 = s /\ t + 1 \in DOMAIN Clock /\ (t + 1) - 1 = t
        BY <1>4, <1>5, <1>6
    <2>2. Same(l, s + 1, b.fr + 1) /\ Same(l, t + 1, b.fr + 1) /\ Same(lev, t + 1, a.fr + 1)
        BY <1>1, <1>4, <1>6, <2>1, SliceUnit
    <2>3. \A k \in YEAR..lev : k \in YEAR..l
        BY <1>1 DEF YEAR
    <2>4. Same(lev, s + 1, a.fr + 1)
        BY <2>2, <2>3 DEF Same
    <2>5. QED
        BY <2>1, <2>4, SliceUnit
<1>7. In(b.fr, b) /\ In(b.to - 1, b) /\ b.to - 1 \in Int /\ b.fr \in Int
    BY <1>2 DEF In
<1>8. In(b.fr, a) /\ In(b.to - 1, a)
    BY <1>6, <1>7
<1>9. QED
    BY <1>2, <1>8 DEF In, Within

\* One of the first two hours of a day is on the clock.
LEMMA DayHasHour ==
    ASSUME NEW y \in 1..LastYear, NEW m \in 1..Months, NEW d \in 1..Days[<<y, m>>]
    PROVE  \E t \in DOMAIN Clock : \E h \in {0, 1} : Clock[t] = Date(y, m, d, h)
<1>1. (0 \in 0..(Hours - 1)) /\ 1 \in 0..(Hours - 1) /\ 0 # 1
    BY ClockAssumption
<1>2. ~(LeftOut(y, m, d, 0) /\ LeftOut(y, m, d, 1))
    BY <1>1, ClockAssumption
<1>3. \A h \in {0, 1} : ~LeftOut(y, m, d, h) => \E t \in DOMAIN Clock : Clock[t] = Date(y, m, d, h)
    BY DateTuple DEF LeftOut
<1>4. QED
    BY <1>2, <1>3

\* Every year, month and day has a moment: only an hour can be left out.
LEMMA SliceExists ==
    ASSUME NEW lev \in YEAR..DAY, NEW d, IsBegin(lev, d)
    PROVE  IsSlice(lev, SliceOf(lev, d))
<1>1. /\ d[1] \in 1..LastYear /\ d[2] \in 1..Months /\ d[3] \in 1..Days[<<d[1], d[2]>>]
    BY DateParts DEF IsBegin
<1>2. PICK t \in DOMAIN Clock, h \in {0, 1} : Clock[t] = Date(d[1], d[2], d[3], h)
    BY <1>1, DayHasHour
<1>3. Clock[t][1] = d[1] /\ Clock[t][2] = d[2] /\ Clock[t][3] = d[3]
    BY <1>2, DateFacts
<1>4. lev = 1 \/ lev = 2 \/ lev = 3
    BY DEF YEAR, DAY
<1>5. \A k \in YEAR..lev : Clock[t][k] = d[k]
    BY <1>3, <1>4, SameUpTo
<1>6. In(t - 1, SliceOf(lev, d))
    BY <1>5, UnitMoments
<1>7. lev \in YEAR..HOUR
    BY <1>4 DEF YEAR, HOUR
<1>8. SliceOf(lev, d).fr < SliceOf(lev, d).to
    BY <1>6, <1>7, SliceTimes, ClockFacts DEF In
<1>9. QED
    BY <1>8 DEF IsSlice

\* Of an hour that is on the clock something remains.
LEMMA HourExists ==
    ASSUME NEW d, IsBegin(HOUR, d), ~LeftOut(d[1], d[2], d[3], d[4])
    PROVE  IsSlice(HOUR, SliceOf(HOUR, d))
<1>1. d \in AnyDate /\ HOUR \in YEAR..HOUR
    <2>1. d \in AnyDate
        BY DateParts DEF IsBegin
    <2>2. QED
        BY <2>1 DEF YEAR, HOUR
<1>2. d = <<d[1], d[2], d[3], d[4]>>
    BY <1>1, DateIs, DateTuple
<1>3. \E t \in DOMAIN Clock : Clock[t] = d
    BY <1>2 DEF LeftOut
<1> DEFINE s == simple_date_to_ts(d)
           n == simple_date_to_ts(NextOf(HOUR, d))
<1>4. Clock[s + 1] = d /\ s < Len(Clock)
    BY <1>1, <1>3, TimeOfDate
<1>5. NextOf(HOUR, d) \in AnyDate /\ Later(NextOf(HOUR, d), d)
    BY <1>1, NextIs
<1>6. s \in 0..Len(Clock) /\ n \in 0..Len(Clock) /\ Len(Clock) \in Nat /\ DOMAIN Clock = 1..Len(Clock)
    BY <1>1, <1>5, TimeOfDate, ClockFacts
<1>7. s + 1 \in DOMAIN Clock /\ (s + 1) - 1 = s
    BY <1>4, <1>6
<1>8. ~(s >= n)
    BY <1>4, <1>5, <1>7, TimeOfDate
<1>9. SliceOf(HOUR, d).fr = s /\ SliceOf(HOUR, d).to = n
    BY <1>1, SliceTimes
<1>10. SliceOf(HOUR, d).fr < SliceOf(HOUR, d).to
    BY <1>6, <1>8, <1>9
<1>11. QED
    BY <1>10 DEF IsSlice

\* A slice that begins at midnight begins with the first date of its unit.
LEMMA StartOfSlice ==
    ASSUME NEW lev \in YEAR..DAY, NEW ran, IsSlice(lev, ran), AtStart(Clock[ran.fr + 1], lev)
    PROVE  IsBegin(lev, Clock[ran.fr + 1]) /\ ran = SliceOf(lev, Clock[ran.fr + 1])
<1>1. PICK d : IsBegin(lev, d) /\ ran = SliceOf(lev, d) /\ ran.fr < ran.to
    BY DEF IsSlice
<1>2. lev \in YEAR..HOUR
    BY DEF YEAR, DAY, HOUR
<1>3. ran.fr + 1 \in DOMAIN Clock /\ (ran.fr + 1) - 1 = ran.fr /\ In(ran.fr, ran)
    BY <1>1, <1>2, SliceFacts DEF In
<1> DEFINE b == Clock[ran.fr + 1]
<1>4. \A k \in YEAR..lev : b[k] = d[k]
    BY <1>1, <1>3, UnitMoments
<1>5. \A k \in (lev + 1)..HOUR : b[k] = d[k]
    BY <1>1 DEF IsBegin, AtStart
<1>6. \A k \in 1..4 : k \in YEAR..lev \/ k \in (lev + 1)..HOUR
    BY <1>2 DEF YEAR, HOUR
<1>7. \A k \in 1..4 : b[k] = d[k]
    BY <1>4, <1>5, <1>6
<1>8. b \in AnyDate /\ d \in AnyDate
    BY <1>1, <1>3, DateParts, ClockFacts DEF IsBegin
<1>9. b = d
    BY <1>7, <1>8 DEF AnyDate, YEAR, HOUR
<1>10. QED
    BY <1>1, <1>9

\* One that does not, begins late.
LEMMA LateSlice ==
    ASSUME NEW lev \in YEAR..DAY, NEW ran, IsSlice(lev, ran), ~AtStart(Clock[ran.fr + 1], lev)
    PROVE  BeginsLate(lev, ran.fr + 1)
<1>1. PICK d : IsBegin(lev, d) /\ ran = SliceOf(lev, d) /\ ran.fr < ran.to
    BY DEF IsSlice
<1>2. lev \in YEAR..HOUR /\ (lev = 1 \/ lev = 2 \/ lev = 3)
    BY DEF YEAR, DAY, HOUR
<1>3. ran.fr + 1 \in DOMAIN Clock /\ ran.fr \in Nat /\ (ran.fr + 1) - 1 = ran.fr
    BY <1>2, SliceFacts
<1> DEFINE b == Clock[ran.fr + 1]
<1>4. d \in AnyDate /\ b \in AnyDate /\ IsDate(b)
    BY <1>1, <1>3, DateParts, ClockFacts DEF IsBegin
<1>5. d[4] = 0 /\ d = Date(d[1], d[2], d[3], d[4])
    BY <1>1, <1>2, BeginCases
<1>6. ran.fr = simple_date_to_ts(d)
    BY <1>1, <1>2, SliceTimes
<1>7. ~Later(d, b)
    BY <1>3, <1>4, <1>6, TimeOfDate, ClockFacts
<1>8. /\ d[1] \in 1..LastYear /\ d[2] \in 1..Months /\ d[3] \in 1..Days[<<d[1], d[2]>>]
    BY <1>1, DateParts DEF IsBegin
<1>9. PICK t \in DOMAIN Clock, h \in {0, 1} : Clock[t] = Date(d[1], d[2], d[3], h)
    BY <1>8, DayHasHour
<1>10. Clock[t][1] = d[1] /\ Clock[t][2] = d[2] /\ Clock[t][3] = d[3] /\ Clock[t][4] = h
    BY <1>9, DateFacts
<1>11. d[1] \in Int /\ d[2] \in Int /\ d[3] \in Int /\ h \in Int /\ h >= 0
    BY <1>4, DateIs
<1>12. ~Later(d, Clock[t])
    BY <1>5, <1>10, <1>11, LaterCases
<1>13. t - 1 >= ran.fr
    BY <1>4, <1>5, <1>6, <1>12, TimeOfDate
<1>14. ~Later(b, Clock[t])
    <2>1. ran.fr + 1 <= t
        BY <1>3, <1>13, ClockFacts
    <2>2. QED
        BY <1>3, <2>1, ClockFacts
<1>15. b[1] \in Int /\ b[2] \in Int /\ b[3] \in Int /\ b[4] \in Int
    BY <1>4, DateIs
<1>16. b[1] = d[1] /\ b[2] = d[2] /\ b[3] = d[3]
    BY <1>5, <1>7, <1>10, <1>11, <1>14, <1>15, LaterCases
<1>17. ASSUME b[4] = 0 PROVE FALSE
    <2>1. \A k \in 1..4 : b[k] = d[k]
        BY <1>5, <1>16, <1>17
    <2>2. b = d
        BY <1>4, <2>1 DEF AnyDate, YEAR, HOUR
    <2>3. QED
        BY <1>1, <2>2 DEF IsBegin
<1>18. ASSUME ran.fr + 1 > 1 PROVE ~Same(lev, (ran.fr + 1) - 1, ran.fr + 1)
    <2>1. ran.fr \in DOMAIN Clock
        BY <1>3, <1>18, ClockFacts
    <2>2. ~In(ran.fr - 1, ran)
        BY <1>3 DEF In
    <2>3. QED
        BY <1>3, <2>1, <2>2, SliceUnit
<1>19. QED
    BY <1>17, <1>18 DEF BeginsLate, HOUR

\* The dates at which hours, days, months and years begin.
LEMMA BeginOf ==
    ASSUME NEW y \in 1..LastYear, NEW m \in 1..Months, NEW c \in 1..Days[<<y, m>>], NEW h \in 0..(Hours - 1)
    PROVE  /\ IsBegin(HOUR, Date(y, m, c, h))
           /\ h = 0 => IsBegin(DAY, Date(y, m, c, h))
           /\ h = 0 /\ c = 1 => IsBegin(MONTH, Date(y, m, c, h))
           /\ h = 0 /\ c = 1 /\ m = 1 => IsBegin(YEAR, Date(y, m, c, h))
<1> DEFINE D == Date(y, m, c, h)
<1>1. D[1] = y /\ D[2] = m /\ D[3] = c /\ D[4] = h
    BY DateFacts
<1>2. D = [k \in YEAR..HOUR |-> D[k]]
    BY DEF Date
<1> HIDE DEF D
<1>3. IsDate(D)
    BY <1>1, <1>2 DEF IsDate, YEAR, MONTH, DAY, HOUR
<1>4. FirstPart(1) = 1 /\ FirstPart(2) = 1 /\ FirstPart(3) = 0
    BY DEF FirstPart, DAY
<1>5. \A k : /\ k \in (1 + 1)..4 => k = 2 \/ k = 3 \/ k = 4
             /\ k \in (2 + 1)..4 => k = 3 \/ k = 4
             /\ k \in (3 + 1)..4 => k = 4
             /\ k \notin (4 + 1)..4
    OBVIOUS
<1>6. (2 - 1 = 1) /\ 3 - 1 = 2 /\ 4 - 1 = 3
    OBVIOUS
<1>7. /\ AtStart(D, 4)
      /\ h = 0 => AtStart(D, 3)
      /\ h = 0 /\ c = 1 => AtStart(D, 2)
      /\ h = 0 /\ c = 1 /\ m = 1 => AtStart(D, 1)
    BY <1>1, <1>4, <1>5, <1>6 DEF AtStart, HOUR
<1>8. QED
    BY <1>3, <1>7 DEF IsBegin, D, YEAR, MONTH, DAY, HOUR

\* The parts of a unit: each ends where the next begins, the first begins with
\* the unit, and the last ends with it.
LEMMA PartDates ==
    ASSUME NEW lev \in YEAR..DAY, NEW b, IsBegin(lev, b)
    PROVE  /\ LastPart(b, lev) \in Nat /\ LastPart(b, lev) >= 1 /\ FirstPart(lev) \in {0, 1}
           /\ lev < DAY => FirstPart(lev) = 1
           /\ lev = DAY => FirstPart(lev) = 0 /\ LastPart(b, lev) = Hours - 1
           /\ PartDate(b, lev, FirstPart(lev)) = b
           /\ PartDate(b, lev, LastPart(b, lev) + 1) = NextOf(lev, b)
           /\ \A k \in FirstPart(lev)..LastPart(b, lev) :
                  /\ IsBegin(lev + 1, PartDate(b, lev, k))
                  /\ PartDate(b, lev, k + 1) = NextOf(lev + 1, PartDate(b, lev, k))
                  /\ \A j \in YEAR..lev : PartDate(b, lev, k)[j] = b[j]
                  /\ lev = DAY => PartDate(b, lev, k)[4] = k
<1> DEFINE y == b[1]  m == b[2]  c == b[3]  n == Days[<<y, m>>]  L == LastPart(b, lev)
           NextPartIs(k) == /\ IsBegin(lev + 1, PartDate(b, lev, k))
                            /\ PartDate(b, lev, k + 1) = NextOf(lev + 1, PartDate(b, lev, k))
                            /\ \A j \in YEAR..lev : PartDate(b, lev, k)[j] = b[j]
                            /\ lev = DAY => PartDate(b, lev, k)[4] = k
<1>1. /\ y \in 1..LastYear /\ m \in 1..Months /\ n \in 1..MaxSubs /\ c \in 1..n
    BY DateParts DEF IsBegin
<1>2. LastYear \in Nat \ {0} /\ Months \in Nat \ {0} /\ Hours \in Nat \ {0, 1}
    BY ClockAssumption
<1>3. b[1] = y /\ b[2] = m /\ b[3] = c /\ n = Days[<<y, m>>]
    OBVIOUS
<1>4. b = Date(y, m, c, b[4])
    BY BeginCases DEF YEAR, DAY, HOUR
<1>5. (lev = 1 => m = 1 /\ c = 1 /\ b[4] = 0) /\ (lev = 2 => c = 1 /\ b[4] = 0) /\ (lev = 3 => b[4] = 0)
    BY BeginCases DEF YEAR, DAY, HOUR
<1>6. \A k : PartDate(b, lev, k) = Normal(Put(b, lev + 1, k))
    BY DEF PartDate, Put
<1>7. \A d, l : NextOf(l, d) = Normal(Put(d, l, d[l] + 1))
    BY DEF NextOf, Put
<1>8. (lev = 1 \/ lev = 2 \/ lev = 3) /\ lev \in YEAR..HOUR
    BY DEF YEAR, DAY, HOUR
<1>9. /\ NextOf(lev, b) = IF lev = 1 THEN Date(y + 1, 1, 1, 0) ELSE IF lev = 2 THEN MonthAfter(y, m) ELSE DayAfter(y, m, c)
    BY <1>8, NextCases
<1> HIDE DEF y, m, c, n
<1>10. /\ y \in Int /\ m \in Int /\ c \in Int /\ n \in Int /\ y \in 1..(LastYear + 1)
       /\ 1 \in 1..Months /\ 0 \in 0..(Hours - 1) /\ 0 \in 0..Hours /\ 0 < Hours
    BY <1>1, <1>2 DEF MaxSubs
<1>11. \A q \in 1..Months : (1 \in 1..Days[<<y, q>>]) /\ Days[<<y, q>>] \in 1..MaxSubs
    <2> TAKE q \in 1..Months
    <2>1. Days[<<y, q>>] \in 1..MaxSubs
        BY <1>10, ClockAssumption
    <2>2. QED
        BY <2>1 DEF MaxSubs
<1>12. CASE lev = 1
    <2>1. L = Months /\ FirstPart(lev) = 1
        BY <1>12 DEF LastPart, FirstPart, YEAR, MONTH, DAY
    <2>2. b = Date(y, 1, 1, 0)
        BY <1>4, <1>5, <1>12
    <2>3. \A k : PartDate(b, lev, k) = Normal(Date(y, k, 1, 0))
        BY <1>6, <1>12, <2>2, Replaced
    <2>4. \A k \in 1..(Months + 1) : PartDate(b, lev, k) = IF k <= Months THEN Date(y, k, 1, 0) ELSE Date(y + 1, 1, 1, 0)
        BY <1>1, <2>3, NormalizedMonth
    <2>5. (1 \in 1..(Months + 1)) /\ 1 <= Months /\ Months + 1 \in 1..(Months + 1) /\ ~(Months + 1 <= Months)
        BY <1>2
    <2>6. PartDate(b, lev, 1) = b /\ PartDate(b, lev, Months + 1) = NextOf(lev, b)
        BY <1>9, <1>12, <2>2, <2>4, <2>5
    <2>7. ASSUME NEW k \in 1..Months PROVE NextPartIs(k)
        <3>1. k \in 1..(Months + 1) /\ k <= Months
            BY <1>2
        <3>2. PartDate(b, lev, k) = Date(y, k, 1, 0)
            BY <2>4, <3>1
        <3>3. IsBegin(2, Date(y, k, 1, 0))
            BY <1>1, <1>10, <1>11, BeginOf DEF MONTH
        <3>4. NextOf(2, Date(y, k, 1, 0)) = Normal(Date(y, k + 1, 1, 0))
            <4>1. Date(y, k, 1, 0)[2] = k
                BY DateFacts
            <4>2. Put(Date(y, k, 1, 0), 2, k + 1) = Date(y, k + 1, 1, 0)
                BY Replaced
            <4>3. QED
                BY <1>7, <4>1, <4>2
        <3>5. PartDate(b, lev, k + 1) = Normal(Date(y, k + 1, 1, 0))
            BY <2>3
        <3>6. \A j \in YEAR..1 : PartDate(b, lev, k)[j] = b[j]
            BY <1>3, <3>2, DateFacts, SameUpTo
        <3>7. QED
            BY <1>12, <3>2, <3>3, <3>4, <3>5, <3>6 DEF DAY
    <2>8. QED
        BY <1>2, <1>12, <2>1, <2>6, <2>7 DEF DAY
<1>13. CASE lev = 2
    <2>1. L = n /\ FirstPart(lev) = 1
        BY <1>3, <1>13 DEF LastPart, FirstPart, YEAR, MONTH, DAY
    <2>2. b = Date(y, m, 1, 0)
        BY <1>4, <1>5, <1>13
    <2>3. \A k : PartDate(b, lev, k) = Normal(Date(y, m, k, 0))
        BY <1>6, <1>13, <2>2, Replaced
    <2>4. ASSUME NEW k \in 1..n PROVE PartDate(b, lev, k) = Date(y, m, k, 0)
        <3>1. k \in 1..Days[<<y, m>>]
            BY <1>3
        <3>2. Normal(Date(y, m, k, 0)) = Date(y, m, k, 0)
            BY <1>1, <1>10, <3>1, NormalDate
        <3>3. QED
            BY <2>3, <3>2
    <2>5. PartDate(b, lev, n + 1) = NextOf(lev, b)
        <3>1. n + 1 \in Int /\ n + 1 \in 1..(n + 1) /\ n + 1 > n
            BY <1>1, <1>10
        <3>2. Normal(Date(y, m, n + 1, 0)) = MonthAfter(y, m)
            BY <1>1, <1>3, <1>10, <3>1, Normalized DEF MonthAfter
        <3>3. QED
            BY <1>9, <1>13, <2>3, <3>2
    <2>6. (1 \in 1..n) /\ n \in Nat /\ n >= 1
        BY <1>1, <1>10 DEF MaxSubs
    <2>7. PartDate(b, lev, 1) = b
        BY <2>2, <2>4, <2>6
    <2>8. ASSUME NEW k \in 1..n PROVE NextPartIs(k)
        <3>1. PartDate(b, lev, k) = Date(y, m, k, 0)
            BY <2>4
        <3>2. IsBegin(3, Date(y, m, k, 0))
            BY <1>1, <1>3, <1>10, BeginOf DEF DAY
        <3>3. NextOf(3, Date(y, m, k, 0)) = Normal(Date(y, m, k + 1, 0))
            <4>1. Date(y, m, k, 0)[3] = k
                BY DateFacts
            <4>2. Put(Date(y, m, k, 0), 3, k + 1) = Date(y, m, k + 1, 0)
                BY Replaced
            <4>3. QED
                BY <1>7, <4>1, <4>2
        <3>4. PartDate(b, lev, k + 1) = Normal(Date(y, m, k + 1, 0))
            BY <2>3
        <3>5. \A j \in YEAR..2 : PartDate(b, lev, k)[j] = b[j]
            BY <1>3, <3>1, DateFacts, SameUpTo
        <3>6. QED
            BY <1>13, <3>1, <3>2, <3>3, <3>4, <3>5 DEF DAY
    <2>9. QED
        BY <1>13, <2>1, <2>5, <2>6, <2>7, <2>8 DEF DAY
<1>14. CASE lev = 3
    <2>1. L = Hours - 1 /\ FirstPart(lev) = 0
        BY <1>14 DEF LastPart, FirstPart, YEAR, MONTH, DAY
    <2>2. b = Date(y, m, c, 0)
        BY <1>4, <1>5, <1>14
    <2>3. \A k : PartDate(b, lev, k) = Normal(Date(y, m, c, k))
        BY <1>6, <1>14, <2>2, Replaced
    <2>4. c \in 1..(n + 1) /\ c <= n
        BY <1>1, <1>10
    <2>5. ASSUME NEW k \in 0..(Hours - 1) PROVE PartDate(b, lev, k) = Date(y, m, c, k)
        <3>1. c \in 1..Days[<<y, m>>]
            BY <1>1, <1>3
        <3>2. Normal(Date(y, m, c, k)) = Date(y, m, c, k)
            BY <1>1, <1>10, <3>1, NormalDate
        <3>3. QED
            BY <2>3, <3>2
    <2>6. PartDate(b, lev, (Hours - 1) + 1) = NextOf(lev, b)
        <3>1. (Hours - 1) + 1 = Hours /\ Hours \in Int
            BY <1>2
        <3>2. c \in 1..Days[<<y, m>>]
            BY <1>1, <1>3
        <3>3. Normal(Date(y, m, c, Hours)) = Normal(Date(y, m, c + 1, 0))
            BY <1>1, <1>10, <3>2, HourPast
        <3>4. b[3] = c
            BY <1>3
        <3>5. Put(b, 3, c + 1) = Date(y, m, c + 1, 0)
            BY <2>2, Replaced
        <3>6. NextOf(lev, b) = Normal(Date(y, m, c + 1, 0))
            BY <1>7, <1>14, <3>4, <3>5
        <3>7. QED
            BY <2>3, <3>1, <3>3, <3>6
    <2>7. (0 \in 0..(Hours - 1)) /\ Hours - 1 \in Nat /\ Hours - 1 >= 1
        BY <1>2
    <2>8. PartDate(b, lev, 0) = b
        BY <2>2, <2>5, <2>7
    <2>9. ASSUME NEW k \in 0..(Hours - 1) PROVE NextPartIs(k)
        <3>1. PartDate(b, lev, k) = Date(y, m, c, k)
            BY <2>5
        <3>2. IsBegin(4, Date(y, m, c, k))
            BY <1>1, <1>3, <1>10, BeginOf DEF HOUR
        <3>3. NextOf(4, Date(y, m, c, k)) = Normal(Date(y, m, c, k + 1))
            <4>1. Date(y, m, c, k)[4] = k
                BY DateFacts
            <4>2. Put(Date(y, m, c, k), 4, k + 1) = Date(y, m, c, k + 1)
                BY Replaced
            <4>3. QED
                BY <1>7, <4>1, <4>2
        <3>4. PartDate(b, lev, k + 1) = Normal(Date(y, m, c, k + 1))
            BY <2>3
        <3>5. /\ \A j \in YEAR..3 : PartDate(b, lev, k)[j] = b[j]
              /\ PartDate(b, lev, k)[4] = k
            BY <1>3, <3>1, DateFacts, SameUpTo
        <3>6. QED
            BY <1>14, <3>1, <3>2, <3>3, <3>4, <3>5
    <2>10. QED
        BY <1>14, <2>1, <2>6, <2>7, <2>8, <2>9 DEF DAY
<1>15. QED
    BY <1>8, <1>12, <1>13, <1>14

\* The part number k of a slice is a slice of the next level, unless it is an hour
\* that is left out.
LEMMA PartSlices ==
    ASSUME NEW lev \in YEAR..DAY, NEW b, IsBegin(lev, b), NEW k \in FirstPart(lev)..LastPart(b, lev)
    PROVE  /\ Part(b, lev, k) = Ran(Part(b, lev, k).fr, Part(b, lev, k).to)
           /\ Part(b, lev, k).fr = simple_date_to_ts(PartDate(b, lev, k))
           /\ Part(b, lev, k).to = simple_date_to_ts(PartDate(b, lev, k + 1))
           /\ Part(b, lev, k).fr # Part(b, lev, k).to => IsSlice(lev + 1, Part(b, lev, k))
           /\ lev < DAY => /\ Part(b, lev, k).fr # Part(b, lev, k).to
                           /\ Within(Part(b, lev, k), SliceOf(lev, b))
           /\ lev = DAY /\ Part(b, lev, k).fr = Part(b, lev, k).to => LeftOut(b[1], b[2], b[3], k)
<1> DEFINE P == PartDate(b, lev, k)
           S == SliceOf(lev + 1, P)
<1>1. /\ IsBegin(lev + 1, P) /\ PartDate(b, lev, k + 1) = NextOf(lev + 1, P)
      /\ \A j \in YEAR..lev : P[j] = b[j]
      /\ lev = DAY => P[4] = k
    BY PartDates
<1>2. lev + 1 \in YEAR..HOUR /\ lev \in YEAR..HOUR /\ (lev = 1 \/ lev = 2 \/ lev = 3)
    BY DEF YEAR, DAY, HOUR
<1>3. Part(b, lev, k) = S
    BY <1>1 DEF Part, SliceOf
<1>4. /\ S.fr = simple_date_to_ts(P) /\ S.to = simple_date_to_ts(NextOf(lev + 1, P))
      /\ S = Ran(S.fr, S.to) /\ S.fr \in 0..Len(Clock) /\ S.to \in 0..Len(Clock) /\ S.fr <= S.to
    BY <1>1, <1>2, SliceTimes
<1>5. S.fr # S.to => IsSlice(lev + 1, S)
    <2>1. S.fr # S.to => S.fr < S.to
        BY <1>4, ClockFacts
    <2>2. QED
        BY <1>1, <2>1 DEF IsSlice
<1>6. ASSUME lev < DAY PROVE S.fr # S.to /\ Within(S, SliceOf(lev, b))
    <2>1. lev + 1 \in YEAR..DAY /\ lev + 1 \in lev..DAY
        BY <1>2, <1>6 DEF YEAR, DAY
    <2>2. IsSlice(lev + 1, S) /\ IsSlice(lev, SliceOf(lev, b))
        BY <1>1, <2>1, SliceExists
    <2>3. S.fr \in Nat /\ S.to \in Nat /\ S.fr < S.to /\ S.fr + 1 \in DOMAIN Clock
        BY <1>2, <2>2, SliceFacts
    <2>4. In((S.fr + 1) - 1, S) /\ (S.fr + 1) - 1 = S.fr /\ In(S.fr, S)
        BY <2>3 DEF In
    <2>5. \A j \in YEAR..(lev + 1) : Clock[S.fr + 1][j] = P[j]
        BY <1>1, <2>1, <2>3, <2>4, UnitMoments
    <2>6. \A j \in YEAR..lev : j \in YEAR..(lev + 1)
        BY <1>2 DEF YEAR
    <2>7. \A j \in YEAR..lev : Clock[S.fr + 1][j] = b[j]
        BY <1>1, <2>5, <2>6
    <2>8. In(S.fr, SliceOf(lev, b))
        BY <2>3, <2>4, <2>7, UnitMoments
    <2>9. Within(S, SliceOf(lev, b))
        BY <2>1, <2>2, <2>3, <2>4, <2>8, SlicesNest
    <2>10. QED
        BY <2>3, <2>9
<1>7. ASSUME lev = DAY, S.fr = S.to PROVE LeftOut(b[1], b[2], b[3], k)
    <2>1. P[1] = b[1] /\ P[2] = b[2] /\ P[3] = b[3] /\ P[4] = k
        BY <1>1, <1>7, SameUpTo DEF DAY
    <2>2. IsBegin(HOUR, P) /\ S = SliceOf(HOUR, P)
        BY <1>1, <1>7 DEF DAY, HOUR
    <2>3. ~(S.fr < S.to)
        BY <1>4, <1>7, ClockFacts
    <2>4. ~IsSlice(HOUR, S)
        BY <2>3 DEF IsSlice
    <2>5. QED
        BY <2>1, <2>2, <2>4, HourExists
<1>8. QED
    BY <1>1, <1>3, <1>4, <1>5, <1>6, <1>7

\* The years follow each other to the end of the clock, the loop over them begins
\* not after the view.
LEMMA Years ==
    /\ YearStart(LastYear + 1) = Len(Clock)
    /\ \A y \in 1..LastYear :
           /\ IsSlice(YEAR, YearRan(y))
           /\ YearRan(y).fr = YearStart(y) /\ YearRan(y).to = YearStart(y + 1)
    /\ \A t \in DOMAIN Clock : Clock[t][YEAR] \in 1..LastYear /\ YearStart(Clock[t][YEAR]) <= t - 1
<1>1. LastYear \in Nat \ {0} /\ Months \in Nat \ {0} /\ Hours \in Nat \ {0, 1}
    BY ClockAssumption
<1>2. \A y : YearStart(y) = simple_date_to_ts(Date(y, 1, 1, 0))
    BY DateTuple DEF YearStart
<1>3. ASSUME NEW y \in 1..LastYear
      PROVE  /\ IsBegin(1, Date(y, 1, 1, 0))
             /\ NextOf(1, Date(y, 1, 1, 0)) = Date(y + 1, 1, 1, 0)
    <2>1. (1 \in 1..Months) /\ y \in 1..(LastYear + 1) /\ 0 \in 0..(Hours - 1)
        BY <1>1
    <2>2. Days[<<y, 1>>] \in 1..MaxSubs
        BY <2>1, ClockAssumption
    <2>3. 1 \in 1..Days[<<y, 1>>]
        BY <2>2 DEF MaxSubs
    <2>4. IsBegin(1, Date(y, 1, 1, 0))
        BY <2>1, <2>3, BeginOf DEF YEAR
    <2>5. NextOf(1, Date(y, 1, 1, 0)) = Date(Date(y, 1, 1, 0)[1] + 1, 1, 1, 0)
        BY <2>4, NextCases DEF YEAR, HOUR
    <2>6. QED
        BY <2>4, <2>5, DateFacts
<1>4. ASSUME NEW y \in 1..LastYear
      PROVE  /\ IsSlice(YEAR, YearRan(y))
             /\ YearRan(y).fr = YearStart(y) /\ YearRan(y).to = YearStart(y + 1)
    <2>1. YearRan(y) = SliceOf(1, Date(y, 1, 1, 0))
        BY <1>2, <1>3 DEF YearRan, SliceOf
    <2>2. IsSlice(1, SliceOf(1, Date(y, 1, 1, 0)))
        BY <1>3, SliceExists DEF YEAR, DAY
    <2>3. QED
        BY <2>1, <2>2 DEF YEAR, YearRan, Ran
<1>5. ASSUME NEW t \in DOMAIN Clock PROVE Clock[t][YEAR] \in 1..LastYear /\ YearStart(Clock[t][YEAR]) <= t - 1
    <2> DEFINE y == Clock[t][1]
               D == Date(y, 1, 1, 0)
    <2>1. /\ y \in 1..LastYear /\ Clock[t][2] \in 1..Months /\ Days[<<y, Clock[t][2]>>] \in 1..MaxSubs
          /\ Clock[t][3] \in 1..Days[<<y, Clock[t][2]>>] /\ Clock[t][4] \in 0..(Hours - 1)
        BY ClockFacts, DateParts
    <2>2. y \in Int /\ t \in Int
        BY <1>1, <2>1, ClockFacts
    <2>3. Clock[t] \in AnyDate
        BY ClockFacts
    <2> HIDE DEF y
    <2>4. D \in AnyDate /\ D[1] = y /\ D[2] = 1 /\ D[3] = 1 /\ D[4] = 0
        BY <2>2, DateFacts
    <2>5. Clock[t][1] = y /\ Clock[t][2] \in Int /\ Clock[t][2] >= 1 /\ Clock[t][3] \in Int /\ Clock[t][3] >= 1
          /\ Clock[t][4] \in Int /\ Clock[t][4] >= 0
        <3>1. Clock[t][2] \in Int /\ Clock[t][2] >= 1 /\ Clock[t][4] \in Int /\ Clock[t][4] >= 0
            BY <1>1, <2>1
        <3>2. Clock[t][3] \in Int /\ Clock[t][3] >= 1
            BY <2>1 DEF MaxSubs
        <3>3. QED
            BY <3>1, <3>2 DEF y
    <2>6. ~Later(D, Clock[t])
        BY <2>2, <2>4, <2>5, LaterCases
    <2>7. t - 1 >= simple_date_to_ts(D)
        BY <2>4, <2>6, TimeOfDate
    <2>8. simple_date_to_ts(D) \in Int
        BY <2>4, TimeOfDate, ClockFacts
    <2>9. YearStart(y) <= t - 1
        BY <1>2, <2>2, <2>7, <2>8
    <2>10. QED
        BY <2>1, <2>9 DEF y, YEAR
<1>6. YearStart(LastYear + 1) = Len(Clock)
    <2> DEFINE D == Date(LastYear + 1, 1, 1, 0)
               s == simple_date_to_ts(D)
    <2>1. D \in AnyDate /\ D[1] = LastYear + 1
        BY <1>1, DateFacts
    <2>2. s \in 0..Len(Clock) /\ Len(Clock) \in Nat \ {0} /\ DOMAIN Clock = 1..Len(Clock)
        BY <2>1, TimeOfDate, ClockFacts
    <2>3. ASSUME s # Len(Clock) PROVE FALSE
        <3>1. s + 1 \in DOMAIN Clock /\ (s + 1) - 1 = s
            BY <2>2, <2>3
        <3>2. ~Later(D, Clock[s + 1])
            BY <2>1, <2>2, <3>1, TimeOfDate
        <3>3. Clock[s + 1][1] \in 1..LastYear
            BY <3>1, ClockFacts, DateParts
        <3>4. QED
            BY <1>1, <2>1, <3>2, <3>3, LaterCases
    <2>4. QED
        BY <1>2, <2>3
<1>7. QED
    BY <1>4, <1>5, <1>6

\* The beginning of the unit that a date is in.
Floor(lev, e) == [k \in YEAR..HOUR |-> IF k <= lev THEN e[k] ELSE FirstPart(k - 1)]

\* The first date of the unit of a date is not after it, that of the next is.
LEMMA FloorIs ==
    ASSUME NEW lev \in YEAR..DAY, NEW e, IsDate(e)
    PROVE  /\ IsBegin(lev, Floor(lev, e)) /\ Floor(lev, e) \in AnyDate /\ Floor(lev, e)[4] = 0
           /\ Floor(lev, e)[1] = e[1]
           /\ Floor(lev, e)[2] = IF lev = 1 THEN 1 ELSE e[2]
           /\ Floor(lev, e)[3] = IF lev = 3 THEN e[3] ELSE 1
           /\ ~Later(Floor(lev, e), e) /\ Later(NextOf(lev, Floor(lev, e)), e)
<1> DEFINE G == Floor(lev, e)
<1>1. /\ e[1] \in 1..LastYear /\ e[2] \in 1..Months
      /\ Days[<<e[1], e[2]>>] \in 1..MaxSubs /\ e[3] \in 1..Days[<<e[1], e[2]>>]
    BY DateParts
<1>2. (lev = 1 \/ lev = 2 \/ lev = 3) /\ lev \in YEAR..HOUR
    BY DEF YEAR, DAY, HOUR
<1>3. FirstPart(1) = 1 /\ FirstPart(2) = 1 /\ FirstPart(3) = 0
    BY DEF FirstPart, DAY
<1>4. (2 - 1 = 1) /\ 3 - 1 = 2 /\ 4 - 1 = 3
    OBVIOUS
<1>5. /\ G[1] = e[1] /\ G[2] = (IF lev = 1 THEN 1 ELSE e[2])
      /\ G[3] = (IF lev = 3 THEN e[3] ELSE 1) /\ G[4] = 0
    BY <1>2, <1>3, <1>4 DEF YEAR, HOUR, Floor
<1>6. G = [k \in 1..4 |-> G[k]]
    BY DEF YEAR, HOUR, Floor
<1> HIDE DEF G
<1>7. G = Date(G[1], G[2], G[3], G[4])
    <2> DEFINE D == Date(G[1], G[2], G[3], G[4])
    <2>1. D[1] = G[1] /\ D[2] = G[2] /\ D[3] = G[3] /\ D[4] = G[4]
        BY DateFacts
    <2>2. D = [k \in 1..4 |-> D[k]]
        BY DEF Date, YEAR, HOUR
    <2> HIDE DEF D
    <2>3. G = D
        BY <1>6, <2>1, <2>2, SameDate
    <2>4. QED
        BY <2>3 DEF D
<1>8. (1 \in 1..Months) /\ e[1] \in 1..(LastYear + 1) /\ 0 \in 0..(Hours - 1)
    BY <1>1, ClockAssumption
<1>9. Days[<<e[1], 1>>] \in 1..MaxSubs
    BY <1>8, ClockAssumption
<1>10. 1 \in 1..Days[<<e[1], 1>>]
    BY <1>9 DEF MaxSubs
<1>11. 1 \in 1..Days[<<e[1], e[2]>>]
    BY <1>1 DEF MaxSubs
<1>12. IsBegin(lev, G)
    <2>1. CASE lev = 1
        <3>1. G = Date(e[1], 1, 1, 0)
            BY <1>5, <1>7, <2>1
        <3>2. IsBegin(YEAR, Date(e[1], 1, 1, 0))
            BY <1>1, <1>8, <1>10, BeginOf
        <3>3. QED
            BY <2>1, <3>1, <3>2 DEF YEAR
    <2>2. CASE lev = 2
        <3>1. G = Date(e[1], e[2], 1, 0)
            BY <1>5, <1>7, <2>2
        <3>2. IsBegin(MONTH, Date(e[1], e[2], 1, 0))
            BY <1>1, <1>8, <1>11, BeginOf
        <3>3. QED
            BY <2>2, <3>1, <3>2 DEF MONTH
    <2>3. CASE lev = 3
        <3>1. G = Date(e[1], e[2], e[3], 0)
            BY <1>5, <1>7, <2>3
        <3>2. IsBegin(DAY, Date(e[1], e[2], e[3], 0))
            BY <1>1, <1>8, BeginOf
        <3>3. QED
            BY <2>3, <3>1, <3>2 DEF DAY
    <2>4. QED
        BY <1>2, <2>1, <2>2, <2>3
<1>13. G \in AnyDate
    BY <1>12, DateParts DEF IsBegin
<1>14. \A k \in YEAR..lev : e[k] = G[k]
    BY <1>2, <1>5, SameUpTo
<1>15. ~Later(G, e) /\ Later(NextOf(lev, G), e)
    BY <1>2, <1>12, <1>14, NextIs
<1>16. QED
    BY <1>5, <1>12, <1>13, <1>15 DEF G

\* slicing_get_bounds: nothing of the range is left out.
LEMMA BoundsContain ==
    ASSUME NEW type \in YEAR..DAY, NEW ran, ran.fr \in Nat, ran.to \in Nat, ran.fr < ran.to, ran.to < Len(Clock)
    PROVE  LET b == slicing_get_bounds(type, ran)
           IN  Within(ran, b) /\ b.fr \in Int /\ b.to \in Int
<1> DEFINE a == simple_date_from_ts(ran.fr)
           b == simple_date_from_ts(ran.to)
           month == IF type = YEAR THEN Months ELSE b[MONTH]
           day == IF type = DAY THEN b[DAY] ELSE Days[<<b[YEAR], month>>]
           F(e) == Floor(type, e)
<1>1. slicing_get_bounds(type, ran) =
          Ran(simple_date_to_ts(F(a)), simple_date_to_ts(Normal(<<b[YEAR], month, day, Hours>>)))
    BY DEF slicing_get_bounds, Floor
<1>2. (type = 1 \/ type = 2 \/ type = 3) /\ type \in YEAR..HOUR
    BY DEF YEAR, DAY, HOUR
<1>3. ran.fr + 1 \in DOMAIN Clock /\ ran.to + 1 \in DOMAIN Clock /\ (ran.fr + 1) - 1 = ran.fr
      /\ (ran.to + 1) - 1 = ran.to
    BY ClockFacts
<1>4. ASSUME NEW t \in DOMAIN Clock
      PROVE  /\ IsBegin(type, F(Clock[t])) /\ F(Clock[t]) \in AnyDate /\ F(Clock[t])[4] = 0
             /\ ~Later(F(Clock[t]), Clock[t]) /\ Later(NextOf(type, F(Clock[t])), Clock[t])
    BY FloorIs, ClockFacts
<1>5. a = Clock[ran.fr + 1] /\ b = Clock[ran.to + 1]
    BY DEF simple_date_from_ts
<1>6. simple_date_to_ts(F(a)) <= ran.fr /\ simple_date_to_ts(F(a)) \in Int
    <2>1. ran.fr >= simple_date_to_ts(F(a))
        BY <1>3, <1>4, <1>5, TimeOfDate
    <2>2. simple_date_to_ts(F(a)) \in Int
        BY <1>3, <1>4, <1>5, TimeOfDate, ClockFacts
    <2>3. QED
        BY <2>1, <2>2
<1>7. Normal(<<b[YEAR], month, day, Hours>>) = NextOf(type, F(b))
    <2> DEFINE n == Days[<<b[1], month>>]
    <2>1. /\ b[1] \in 1..LastYear /\ b[2] \in 1..Months
          /\ Days[<<b[1], b[2]>>] \in 1..MaxSubs /\ b[3] \in 1..Days[<<b[1], b[2]>>]
        BY <1>3, <1>5, ClockFacts, DateParts
    <2>2. Months \in Nat \ {0} /\ Hours \in Nat \ {0, 1} /\ LastYear \in Nat \ {0}
        BY ClockAssumption
    <2>3. month \in 1..Months /\ b[1] \in 1..(LastYear + 1) /\ 1 \in 1..Months
        BY <2>1, <2>2 DEF MONTH
    <2>4. n \in 1..MaxSubs
        BY <2>3, ClockAssumption
    <2> HIDE DEF n
    <2>5. n \in Int /\ n >= 1
        BY <2>4 DEF MaxSubs
    <2> USE DEF n
    <2>6. day \in 1..n /\ day = (IF type = 3 THEN b[3] ELSE n)
        BY <1>2, <2>1, <2>5 DEF YEAR, MONTH, DAY
    <2>7. month = IF type = 1 THEN Months ELSE b[2]
        BY DEF YEAR, MONTH
    <2>8. <<b[YEAR], month, day, Hours>> = Date(b[1], month, day, Hours)
        BY DateTuple DEF YEAR
    <2> HIDE DEF month, day, n
    <2>9. Normal(Date(b[1], month, day, Hours)) = DayAfter(b[1], month, day)
        <3>1. day \in Int /\ day \in 1..(n + 1) /\ day <= n
            BY <2>5, <2>6
        <3>2. Hours \in Int /\ Hours \in 0..Hours
            BY <2>2
        <3>3. Normal(Date(b[1], month, day, Hours)) = Normal(Date(b[1], month, day + 1, 0))
            BY <2>3, <3>1, <3>2, Normalized DEF n
        <3>4. IsBegin(3, Date(b[1], month, day, 0))
            <4>1. 0 \in 0..(Hours - 1)
                BY <2>2
            <4>2. QED
                BY <2>1, <2>3, <2>6, <4>1, BeginOf DEF n, DAY
        <3>5. NextOf(3, Date(b[1], month, day, 0)) = DayAfter(b[1], month, day)
            <4>1. /\ Date(b[1], month, day, 0)[1] = b[1] /\ Date(b[1], month, day, 0)[2] = month
                  /\ Date(b[1], month, day, 0)[3] = day
                BY DateFacts
            <4>2. 3 \in YEAR..HOUR
                BY DEF YEAR, HOUR
            <4>3. QED
                BY <3>4, <4>1, <4>2, NextCases
        <3>6. NextOf(3, Date(b[1], month, day, 0)) = Normal(Date(b[1], month, day + 1, 0))
            <4>1. Date(b[1], month, day, 0)[3] = day
                BY DateFacts
            <4>2. Put(Date(b[1], month, day, 0), 3, day + 1) = Date(b[1], month, day + 1, 0)
                BY Replaced
            <4>3. QED
                BY <4>1, <4>2 DEF NextOf, Put
        <3>7. QED
            BY <3>3, <3>5, <3>6
    <2> DEFINE B == F(b)
    <2>10. IsBegin(type, B)
        BY <1>3, <1>4, <1>5
    <2>11. B[1] = b[1] /\ B[2] = (IF type = 1 THEN 1 ELSE b[2]) /\ B[3] = (IF type = 3 THEN b[3] ELSE 1)
        BY <1>3, <1>5, FloorIs, ClockFacts
    <2> HIDE DEF B
    <2>12. ~(n < n) /\ ~(Months < Months)
        BY <2>2, <2>5
    <2>13. CASE type = 1
        <3>1. NextOf(type, B) = Date(b[1] + 1, 1, 1, 0)
            BY <1>2, <2>10, <2>11, <2>13, NextCases
        <3>2. DayAfter(b[1], month, day) = Date(b[1] + 1, 1, 1, 0)
            BY <2>6, <2>7, <2>12, <2>13 DEF DayAfter, MonthAfter, n
        <3>3. QED
            BY <2>8, <2>9, <3>1, <3>2 DEF B
    <2>14. CASE type = 2
        <3>1. NextOf(type, B) = MonthAfter(b[1], b[2])
            BY <1>2, <2>10, <2>11, <2>14, NextCases
        <3>2. DayAfter(b[1], month, day) = MonthAfter(b[1], b[2])
            BY <2>6, <2>7, <2>12, <2>14 DEF DayAfter, n
        <3>3. QED
            BY <2>8, <2>9, <3>1, <3>2 DEF B
    <2>15. CASE type = 3
        <3>1. NextOf(type, B) = DayAfter(b[1], b[2], b[3])
            BY <1>2, <2>10, <2>11, <2>15, NextCases
        <3>2. QED
            BY <2>6, <2>7, <2>8, <2>9, <2>15, <3>1 DEF B
    <2>16. QED
        BY <1>2, <2>13, <2>14, <2>15
<1> DEFINE N == NextOf(type, F(b))
<1>8. simple_date_to_ts(N) >= ran.to /\ simple_date_to_ts(N) \in Int
    <2>1. N \in AnyDate /\ Later(N, Clock[ran.to + 1])
        <3>1. IsBegin(type, F(b))
            BY <1>3, <1>4, <1>5
        <3>2. N \in AnyDate
            BY <1>2, <3>1, NextIs
        <3>3. QED
            BY <1>3, <1>4, <1>5, <3>2
    <2>2. ~(ran.to >= simple_date_to_ts(N))
        BY <1>3, <2>1, TimeOfDate
    <2>3. simple_date_to_ts(N) \in Int
        BY <2>1, TimeOfDate, ClockFacts
    <2>4. QED
        BY <2>2, <2>3
<1>9. QED
    BY <1>1, <1>6, <1>7, <1>8 DEF Within, Ran

(***************************************************************************)
(* The invariant.  I is what `items` is, it what `iter` is, x one of its   *)
(* two iterations.                                                         *)
(***************************************************************************)
Range2 == [fr : Nat, to : Nat]
Vectors == [YEAR..HOUR -> Seq([ran : Range2, n : Int, subs : Seq(Nat)])]
IterSet == [type : YEAR..HOUR, ran : Range2, year : Int, lev : -1..DAY, next : Nat,
            id : [YEAR..DAY -> Nat], part : [YEAR..DAY -> Int], finds : [YEAR..DAY -> BOOLEAN]]
Iters == [{0, 1} -> IterSet]

\* Each item is a slice of its kind, and each slice is kept once.
Slices(I) ==
    \A lev \in YEAR..HOUR : \A i \in DOMAIN I[lev] :
        /\ IsSlice(lev, I[lev][i].ran)
        /\ \A j \in DOMAIN I[lev] : I[lev][i].ran.fr = I[lev][j].ran.fr => i = j

\* The parts found so far follow each other from the beginning of the item on.
PartRan(I, lev, item, k) == I[lev + 1][item.subs[k]].ran
Chain(I, lev, item) ==
    /\ \A k \in DOMAIN item.subs : item.subs[k] \in DOMAIN I[lev + 1]
    /\ item.subs # <<>> => PartRan(I, lev, item, 1).fr = item.ran.fr
    /\ \A k \in DOMAIN item.subs : k + 1 \in DOMAIN item.subs =>
           PartRan(I, lev, item, k).to = PartRan(I, lev, item, k + 1).fr
FoundTo(I, lev, item) == IF item.subs = <<>> THEN item.ran.fr ELSE PartRan(I, lev, item, Len(item.subs)).to

Fresh(item) == item.n = -1 /\ item.subs = <<>>
Complete(I, lev, item) == item.subs # <<>> /\ item.n = Len(item.subs) /\ FoundTo(I, lev, item) = item.ran.to

\* The parts before the number k are found.
Filling(I, lev, item, k) ==
    LET b == Begins(item)
    IN  /\ AtStart(b, lev) /\ k \in FirstPart(lev)..(LastPart(b, lev) + 1)
        /\ FoundTo(I, lev, item) = simple_date_to_ts(PartDate(b, lev, k))
        /\ lev < DAY => item.n = LastPart(b, lev) /\ Len(item.subs) = k - 1
        /\ lev = DAY => /\ item.n = -1
                        /\ \/ Len(item.subs) = k
                           \/ Len(item.subs) = k - 1 /\ \E h \in 0..(k - 1) : LeftOut(b[1], b[2], b[3], h)

Finding(x, l) == l <= x.lev /\ x.finds[l]

Parted(I) ==
    /\ \A lev \in YEAR..DAY : \A i \in DOMAIN I[lev] : Chain(I, lev, I[lev][i])
    /\ \A i \in DOMAIN I[HOUR] : I[HOUR][i].n = -1
Status(I, it) ==
    \A lev \in YEAR..DAY : \A i \in DOMAIN I[lev] :
        \/ Fresh(I[lev][i]) \/ Complete(I, lev, I[lev][i])
        \/ \E L \in {0, 1} : Finding(it[L], lev) /\ it[L].id[lev] = i

\* The loops of the items.
LoopAt(I, x, l, complete) ==
    /\ x.id[l] \in DOMAIN I[l]
    /\ x.finds[l] => Filling(I, l, I[l][x.id[l]], x.part[l])
    /\ ~x.finds[l] => /\ I[l][x.id[l]].n # -1 /\ x.part[l] >= 1
                      /\ complete => Complete(I, l, I[l][x.id[l]])
Looping(I, x, complete) == \A l \in YEAR..DAY : l <= x.lev => LoopAt(I, x, l, complete)
Called(I, x) == x.lev # -1 /\ x.next # 0 => x.next \in DOMAIN I[x.lev + 1]

\* No item is filled by both, ...
Different(it) ==
    \A l \in YEAR..DAY : Finding(it[0], l) /\ Finding(it[1], l) => it[0].id[l] # it[1].id[l]

\* ... as the second is within the part that the first has just found.
LastRan(I, l, i) == PartRan(I, l, I[l][i], Len(I[l][i].subs))
InLast(I, x, l, ran) == I[l][x.id[l]].subs # <<>> /\ Within(ran, LastRan(I, l, x.id[l]))
Nested(I, it) ==
    \A l \in YEAR..DAY : Finding(it[1], l) =>
        /\ \A m \in YEAR..DAY : l < m /\ m <= it[1].lev => InLast(I, it[1], l, I[m][it[1].id[m]].ran)
        /\ it[1].next # 0 => InLast(I, it[1], l, I[it[1].lev + 1][it[1].next].ran)
        /\ it[0].lev # -1 => InLast(I, it[1], l, it[0].ran)

\* What the iterations are over.
Iterations(it) ==
    /\ it[1].lev # -1 =>
           /\ stage = "slicing" /\ it[1].type = SlicingType(view) /\ it[1].ran = view
           /\ it[1].lev < it[1].type /\ it[1].year \in 1..(LastYear + 1)
    /\ it[0].lev # -1 =>
           /\ it[1].lev # -1 /\ it[0].type = it[1].type + 1
           /\ IsSlice(it[1].type, it[0].ran) /\ ts_ran_overlap(view, it[0].ran)
           /\ it[0].lev < it[0].type /\ it[0].year \in 1..(LastYear + 1)

\* What an iteration still comes to.
AheadIn(I, x, l, t) ==
    LET item == I[l][x.id[l]]
    IN  /\ In(t, item.ran)
        /\ x.finds[l] => FoundTo(I, l, item) <= t
        /\ ~x.finds[l] => \E j \in DOMAIN item.subs : x.part[l] <= j /\ In(t, PartRan(I, l, item, j))
Ahead(I, x, t) ==
    /\ x.lev # -1
    /\ \/ YearStart(x.year) <= t
       \/ \E l \in YEAR..DAY : l <= x.lev /\ AheadIn(I, x, l, t)
       \/ x.next # 0 /\ In(t, I[x.lev + 1][x.next].ran)

\* What is drawn.
DrawnType(v) == IF SlicingType(v) = YEAR THEN MONTH ELSE DAY
CoveredBy(C, t) == \E k \in DOMAIN C : ~C[k].top /\ In(t, C[k].ran)

Covers(I, it, C) ==
    /\ it[0].lev # -1 /\ it[1].type < DAY =>
           \A t \in Int : In(t, it[0].ran) => CoveredBy(C, t) \/ Ahead(I, it[0], t)
    /\ stage = "slicing" =>
           \A t \in Int : In(t, view) =>
               \/ CoveredBy(C, t) \/ Ahead(I, it[1], t)
               \/ it[0].lev # -1 /\ In(t, it[0].ran)

CallsInv ==
    /\ calls \in Seq([ran : Range2, top : BOOLEAN])
    /\ stage \in {"none", "layout"} => calls = <<>>
    /\ \A k \in DOMAIN calls : IF calls[k].top THEN calls[k].ran = view
                               ELSE IsSlice(DrawnType(view), calls[k].ran)
    /\ stage = "slicing" => \A k \in DOMAIN calls : ~calls[k].top
    /\ stage = "drawing" => /\ \E k \in DOMAIN calls : calls[k].top
                            /\ \A t \in Int : In(t, view) => CoveredBy(calls, t)

FailedInv ==
    failed => /\ stage = "slicing"
              /\ \E lev \in YEAR..DAY : \E ran :
                     /\ IsSlice(lev, ran) /\ ts_ran_overlap(ran, view)
                     /\ ~AtStart(Clock[ran.fr + 1], lev)

FrameInv ==
    /\ stage \in {"none", "slicing", "drawing", "layout"}
    /\ stage # "none" => view \in Views
    /\ span = NoEvents \/ span \in [Events -> Spans]
    /\ stage = "drawing" => span \in [Events -> Spans]

SlicingInv ==
    /\ items \in Vectors /\ iter \in Iters /\ failed \in BOOLEAN
    /\ Slices(items) /\ Parted(items)
    /\ FrameInv /\ CallsInv /\ FailedInv
    /\ ~failed =>
           /\ Iterations(iter) /\ Status(items, iter)
           /\ Looping(items, iter[0], FALSE) /\ Looping(items, iter[1], TRUE)
           /\ Called(items, iter[0]) /\ Called(items, iter[1])
           /\ Different(iter) /\ Nested(items, iter)
           /\ Covers(items, iter, calls)

(***************************************************************************)
(* Changes of the items                                                    *)
(***************************************************************************)
ItemSet == [ran : Range2, n : Int, subs : Seq(Nat)]
Grows(I, J) == \A l \in YEAR..HOUR : \A i \in DOMAIN I[l] : i \in DOMAIN J[l] /\ J[l][i].ran = I[l][i].ran

\* Types of what is kept in a vector of items.
LEMMA VectorFacts ==
    ASSUME NEW I \in Vectors, NEW l \in YEAR..HOUR
    PROVE  /\ I[l] \in Seq(ItemSet) /\ DOMAIN I[l] = 1..Len(I[l]) /\ Len(I[l]) \in Nat
           /\ \A i \in DOMAIN I[l] :
                  /\ I[l][i] \in ItemSet /\ I[l][i].n \in Int /\ I[l][i].subs \in Seq(Nat)
                  /\ I[l][i].ran \in Range2 /\ I[l][i].ran.fr \in Nat /\ I[l][i].ran.to \in Nat
                  /\ DOMAIN I[l][i].subs = 1..Len(I[l][i].subs) /\ Len(I[l][i].subs) \in Nat
<1>1. I[l] \in Seq(ItemSet)
    BY DEF Vectors, ItemSet
<1>2. DOMAIN I[l] = 1..Len(I[l]) /\ Len(I[l]) \in Nat
    BY <1>1
<1>3. ASSUME NEW i \in DOMAIN I[l]
      PROVE  /\ I[l][i] \in ItemSet /\ I[l][i].n \in Int /\ I[l][i].subs \in Seq(Nat)
             /\ I[l][i].ran \in Range2 /\ I[l][i].ran.fr \in Nat /\ I[l][i].ran.to \in Nat
             /\ DOMAIN I[l][i].subs = 1..Len(I[l][i].subs) /\ Len(I[l][i].subs) \in Nat
    <2>1. I[l][i] \in ItemSet
        BY <1>1, <1>2
    <2>2. I[l][i].n \in Int /\ I[l][i].subs \in Seq(Nat) /\ I[l][i].ran \in Range2
        BY <2>1 DEF ItemSet
    <2>3. I[l][i].ran.fr \in Nat /\ I[l][i].ran.to \in Nat
        BY <2>2 DEF Range2
    <2>4. QED
        BY <2>1, <2>2, <2>3
<1>4. QED
    BY <1>1, <1>2, <1>3

\* What is known of an item's parts stays true while more slices are found.
LEMMA GrownParts ==
    ASSUME NEW I \in Vectors, NEW J \in Vectors, Grows(I, J), NEW l \in YEAR..DAY, NEW i \in DOMAIN I[l],
           Chain(I, l, I[l][i]), J[l][i] = I[l][i]
    PROVE  /\ \A k \in DOMAIN I[l][i].subs : PartRan(J, l, J[l][i], k) = PartRan(I, l, I[l][i], k)
           /\ Chain(J, l, J[l][i])
           /\ FoundTo(J, l, J[l][i]) = FoundTo(I, l, I[l][i])
           /\ Complete(J, l, J[l][i]) <=> Complete(I, l, I[l][i])
           /\ \A k : Filling(J, l, J[l][i], k) <=> Filling(I, l, I[l][i], k)
<1> DEFINE item == I[l][i]
<1>1. l \in YEAR..HOUR /\ l + 1 \in YEAR..HOUR
    BY DEF YEAR, DAY, HOUR
<1>2. \A k \in DOMAIN item.subs : item.subs[k] \in DOMAIN I[l + 1]
    BY DEF Chain
<1>3. \A k \in DOMAIN item.subs : item.subs[k] \in DOMAIN J[l + 1] /\ PartRan(J, l, item, k) = PartRan(I, l, item, k)
    BY <1>1, <1>2 DEF Grows, PartRan
<1>4. item.subs \in Seq(Nat) /\ (item.subs # <<>> => 1 \in DOMAIN item.subs /\ Len(item.subs) \in DOMAIN item.subs)
    <2>1. item.subs \in Seq(Nat)
        BY <1>1, VectorFacts
    <2>2. QED
        BY <2>1
<1> HIDE DEF item
<1>5. Chain(I, l, item)
    BY DEF item
<1>6. Chain(J, l, item)
    BY <1>3, <1>4, <1>5 DEF Chain
<1>7. FoundTo(J, l, item) = FoundTo(I, l, item)
    BY <1>3, <1>4 DEF FoundTo
<1>8. Complete(J, l, item) <=> Complete(I, l, item)
    BY <1>7 DEF Complete
<1>9. \A k : Filling(J, l, item, k) <=> Filling(I, l, item, k)
    BY <1>7 DEF Filling
<1>10. QED
    BY <1>3, <1>6, <1>7, <1>8, <1>9 DEF item

\* get_or_create finds the slice or adds it.
LEMMA GetOrCreate ==
    ASSUME items \in Vectors, Slices(items), NEW lev \in YEAR..HOUR, NEW ran, IsSlice(lev, ran)
    PROVE  LET J == get_or_create(lev, ran)
               x == IdOf(lev, ran)
           IN  /\ J \in Vectors /\ Slices(J) /\ Grows(items, J) /\ ~Mismatch(lev, ran)
               /\ \A l \in YEAR..HOUR : \A i \in DOMAIN items[l] : J[l][i] = items[l][i]
               /\ \A l \in YEAR..HOUR : \A i \in DOMAIN J[l] :
                      i \in DOMAIN items[l] \/ (l = lev /\ Fresh(J[l][i]) /\ J[l][i].ran = ran)
               /\ x \in DOMAIN J[lev] /\ x \in Nat /\ x # 0 /\ J[lev][x].ran = ran
<1> DEFINE J == get_or_create(lev, ran)
           x == IdOf(lev, ran)
           new == [ran |-> ran, n |-> -1, subs |-> <<>>]
<1>1. /\ \A l \in YEAR..HOUR : items[l] \in Seq(ItemSet) /\ DOMAIN items[l] = 1..Len(items[l]) /\ Len(items[l]) \in Nat
      /\ DOMAIN items = YEAR..HOUR
    BY VectorFacts DEF Vectors
<1>2. \A l \in YEAR..HOUR : \A i \in DOMAIN items[l] : IsSlice(l, items[l][i].ran)
    BY DEF Slices
<1>3. \A i \in Found(lev, ran) : i \in DOMAIN items[lev] /\ items[lev][i].ran = ran
    BY <1>2, SlicesEqual DEF Found
<1>4. ~Mismatch(lev, ran)
    BY <1>3 DEF Mismatch
<1>5. CASE Found(lev, ran) # {}
    <2>1. Found(lev, ran) \in SUBSET (1..Len(items[lev]))
        BY <1>1 DEF Found
    <2>2. Min(Found(lev, ran)) \in Found(lev, ran)
        BY <1>1, <1>5, <2>1, LeastAndGreatest
    <2>3. J = items /\ x = Min(Found(lev, ran))
        BY <1>5 DEF get_or_create, IdOf
    <2>4. x \in DOMAIN items[lev] /\ items[lev][x].ran = ran
        BY <1>3, <2>2, <2>3
    <2>5. x \in Nat /\ x # 0
        BY <1>1, <2>4
    <2>6. Grows(items, items)
        BY DEF Grows
    <2>7. QED
        BY <1>4, <2>3, <2>4, <2>5, <2>6
<1>6. CASE Found(lev, ran) = {}
    <2>1. J = [items EXCEPT ![lev] = Append(@, new)] /\ x = Len(items[lev]) + 1
        BY <1>6 DEF get_or_create, IdOf
    <2>2. new \in ItemSet /\ Fresh(new) /\ new.ran = ran
        <3>1. ran \in Range2
            BY SliceFacts DEF Range2, Ran
        <3>2. QED
            BY <3>1 DEF ItemSet, Fresh
    <2> DEFINE n == Len(items[lev])
    <2> HIDE DEF new, J, x
    <2>3. /\ \A l \in YEAR..HOUR : l # lev => J[l] = items[l]
          /\ J[lev] = Append(items[lev], new) /\ DOMAIN J = YEAR..HOUR
        BY <1>1, <2>1
    <2>4. /\ J[lev] \in Seq(ItemSet) /\ DOMAIN J[lev] = 1..(n + 1) /\ J[lev][n + 1] = new
          /\ \A i \in 1..n : J[lev][i] = items[lev][i]
        BY <1>1, <2>2, <2>3
    <2>5. J \in Vectors
        <3>1. \A l \in YEAR..HOUR : J[l] \in Seq(ItemSet)
            BY <1>1, <2>3, <2>4
        <3>2. J = [items EXCEPT ![lev] = Append(items[lev], new)]
            BY <2>1
        <3>3. J = [l \in YEAR..HOUR |-> J[l]]
            BY <3>2 DEF Vectors
        <3>4. QED
            BY <3>1, <3>3 DEF Vectors, ItemSet
    <2>6. \A l \in YEAR..HOUR : \A i \in DOMAIN items[l] : i \in DOMAIN J[l] /\ J[l][i] = items[l][i]
        <3>1. \A i \in 1..n : i \in 1..(n + 1)
            BY <1>1
        <3>2. QED
            BY <1>1, <2>3, <2>4, <3>1
    <2>7. \A l \in YEAR..HOUR : \A i \in DOMAIN J[l] : i \in DOMAIN items[l] \/ (l = lev /\ i = n + 1)
        <3>1. \A i \in 1..(n + 1) : i \in 1..n \/ i = n + 1
            BY <1>1
        <3>2. QED
            BY <1>1, <2>3, <2>4, <3>1
    <2>8. Grows(items, J)
        BY <2>6 DEF Grows
    <2>9. \A i \in DOMAIN items[lev] : items[lev][i].ran.fr # ran.fr
        BY <1>6 DEF Found
    <2>10. n + 1 \in DOMAIN J[lev] /\ n + 1 \in Nat /\ n + 1 # 0
        BY <1>1, <2>4
    <2>11. Slices(J)
        <3> SUFFICES ASSUME NEW l \in YEAR..HOUR, NEW i \in DOMAIN J[l]
                     PROVE  /\ IsSlice(l, J[l][i].ran)
                            /\ \A j \in DOMAIN J[l] : J[l][i].ran.fr = J[l][j].ran.fr => i = j
            BY DEF Slices
        <3>1. IsSlice(l, J[l][i].ran)
            BY <1>2, <2>2, <2>4, <2>6, <2>7
        <3>2. ASSUME NEW j \in DOMAIN J[l], J[l][i].ran.fr = J[l][j].ran.fr PROVE i = j
            <4>1. CASE i \in DOMAIN items[l] /\ j \in DOMAIN items[l]
                BY <2>6, <3>2, <4>1 DEF Slices
            <4>2. CASE i \notin DOMAIN items[l]
                BY <2>2, <2>4, <2>6, <2>7, <2>9, <3>2, <4>2
            <4>3. CASE j \notin DOMAIN items[l]
                BY <2>2, <2>4, <2>6, <2>7, <2>9, <3>2, <4>3
            <4>4. QED
                BY <4>1, <4>2, <4>3
        <3>3. QED
            BY <3>1, <3>2
    <2>12. x = n + 1
        BY <2>1
    <2>13. QED
        BY <1>4, <2>2, <2>4, <2>5, <2>6, <2>7, <2>8, <2>10, <2>11, <2>12 DEF J, x
<1>7. QED
    BY <1>5, <1>6

\* Only one item is another, and its range is not.
OneChanged(I, J, l, i) ==
    /\ J \in Vectors
    /\ \A m \in YEAR..HOUR : DOMAIN J[m] = DOMAIN I[m]
    /\ \A m \in YEAR..HOUR : \A j \in DOMAIN I[m] : J[m][j].ran = I[m][j].ran /\ (m # l \/ j # i => J[m][j] = I[m][j])

SetItem(I, l, i, v) == [I EXCEPT ![l][i] = v]

\* To change an item, but not its range, leaves the slices as they are.
LEMMA ChangedItem ==
    ASSUME NEW I \in Vectors, NEW J, NEW l \in YEAR..HOUR, NEW i \in DOMAIN I[l], NEW v \in ItemSet, v.ran = I[l][i].ran,
           J = SetItem(I, l, i, v)
    PROVE  OneChanged(I, J, l, i) /\ J[l][i] = v /\ Grows(I, J) /\ (Slices(I) => Slices(J))
<1>1. /\ \A m \in YEAR..HOUR : I[m] \in Seq(ItemSet) /\ DOMAIN I[m] = 1..Len(I[m]) /\ Len(I[m]) \in Nat
      /\ I = [m \in YEAR..HOUR |-> I[m]]
    BY VectorFacts DEF Vectors
<1>2. J = [m \in YEAR..HOUR |-> J[m]]
    BY <1>1 DEF SetItem
<1>3. J[l] = [I[l] EXCEPT ![i] = v] /\ \A m \in YEAR..HOUR : m # l => J[m] = I[m]
    BY <1>1 DEF SetItem
<1>4. J[l] \in Seq(ItemSet) /\ DOMAIN J[l] = DOMAIN I[l] /\ J[l][i] = v
      /\ \A j \in DOMAIN I[l] : j # i => J[l][j] = I[l][j]
    <2>1. I[l] \in Seq(ItemSet) /\ i \in 1..Len(I[l]) /\ Len(I[l]) \in Nat /\ DOMAIN I[l] = 1..Len(I[l])
        BY <1>1
    <2> DEFINE K == I[l]
    <2> HIDE DEF K
    <2>2. J[l] = [K EXCEPT ![i] = v] /\ K \in Seq(ItemSet) /\ i \in 1..Len(K)
        BY <1>3, <2>1 DEF K
    <2>3. [K EXCEPT ![i] = v] \in Seq(ItemSet)
        BY <2>2
    <2>4. DOMAIN J[l] = DOMAIN K /\ J[l][i] = v /\ \A j \in DOMAIN K : j # i => J[l][j] = K[j]
        BY <2>2
    <2>5. QED
        BY <2>2, <2>3, <2>4 DEF K
<1>5. \A m \in YEAR..HOUR : J[m] \in Seq(ItemSet)
    BY <1>1, <1>3, <1>4
<1>6. J \in Vectors
    BY <1>2, <1>5 DEF Vectors, ItemSet
<1>7. OneChanged(I, J, l, i)
    <2>1. \A m \in YEAR..HOUR : DOMAIN J[m] = DOMAIN I[m]
        BY <1>3, <1>4
    <2>2. \A m \in YEAR..HOUR : \A j \in DOMAIN I[m] : J[m][j].ran = I[m][j].ran /\ (m # l \/ j # i => J[m][j] = I[m][j])
        BY <1>3, <1>4
    <2>3. QED
        BY <1>6, <2>1, <2>2 DEF OneChanged
<1>8. Grows(I, J)
    BY <1>7 DEF OneChanged, Grows
<1>9. Slices(I) => Slices(J)
    BY <1>7 DEF OneChanged, Slices
<1>10. QED
    BY <1>4, <1>7, <1>8, <1>9

\* A part is added to an item.
AddSub(I, l, i, x) == [I EXCEPT ![l][i].subs = Append(@, x)]

\* To enter a part in an item.
LEMMA AddedSub ==
    ASSUME NEW I \in Vectors, NEW l \in YEAR..HOUR, NEW i \in DOMAIN I[l], NEW x \in Nat, NEW J, J = AddSub(I, l, i, x)
    PROVE  /\ OneChanged(I, J, l, i) /\ Grows(I, J) /\ (Slices(I) => Slices(J))
           /\ J[l][i].n = I[l][i].n /\ J[l][i].subs = Append(I[l][i].subs, x)
<1> DEFINE v == [I[l][i] EXCEPT !.subs = Append(@, x)]
<1>1. I[l][i] \in ItemSet /\ I[l][i].subs \in Seq(Nat)
    BY VectorFacts
<1>2. v \in ItemSet /\ v.ran = I[l][i].ran /\ v.n = I[l][i].n /\ v.subs = Append(I[l][i].subs, x)
    <2> DEFINE s == Append(I[l][i].subs, x)
    <2>1. s \in Seq(Nat)
        BY <1>1
    <2> HIDE DEF s
    <2>2. v = [I[l][i] EXCEPT !.subs = s]
        BY DEF s
    <2>3. v \in ItemSet /\ v.ran = I[l][i].ran /\ v.n = I[l][i].n /\ v.subs = s
        BY <1>1, <2>1, <2>2 DEF ItemSet
    <2>4. QED
        BY <2>3 DEF s
<1>3. J = SetItem(I, l, i, v)
    BY DEF SetItem, AddSub
<1> HIDE DEF v
<1>4. OneChanged(I, J, l, i) /\ J[l][i] = v /\ Grows(I, J) /\ (Slices(I) => Slices(J))
    BY <1>2, <1>3, ChangedItem
<1>5. QED
    BY <1>2, <1>4

\* The number of its parts is set.
SetNumber(I, l, i, x) == [I EXCEPT ![l][i].n = x]

\* To set the number of parts of an item.
LEMMA NumberSet ==
    ASSUME NEW I \in Vectors, NEW l \in YEAR..HOUR, NEW i \in DOMAIN I[l], NEW x \in Int, NEW J, J = SetNumber(I, l, i, x)
    PROVE  /\ OneChanged(I, J, l, i) /\ Grows(I, J) /\ (Slices(I) => Slices(J))
           /\ J[l][i].n = x /\ J[l][i].subs = I[l][i].subs
<1> DEFINE v == [I[l][i] EXCEPT !.n = x]
<1>1. I[l][i] \in ItemSet /\ I[l][i].subs \in Seq(Nat)
    BY VectorFacts
<1>2. v \in ItemSet /\ v.ran = I[l][i].ran /\ v.n = x /\ v.subs = I[l][i].subs
    BY <1>1 DEF ItemSet
<1>3. J = SetItem(I, l, i, v)
    BY DEF SetItem, SetNumber
<1> HIDE DEF v
<1>4. OneChanged(I, J, l, i) /\ J[l][i] = v /\ Grows(I, J) /\ (Slices(I) => Slices(J))
    BY <1>2, <1>3, ChangedItem
<1>5. QED
    BY <1>2, <1>4

(***************************************************************************)
(* Changes of an iteration                                                 *)
(***************************************************************************)
\* Of the iterations only the one of L is another.
Turned(I, J, L, v) == J \in Iters /\ J[L] = v /\ \A M \in {0, 1} : M # L => J[M] = I[M]

SetIter(I, L, v) == [I EXCEPT ![L] = v]

\* An iteration is replaced.
LEMMA ReplacedIter ==
    ASSUME NEW I \in Iters, NEW L \in {0, 1}, NEW v \in IterSet, NEW J, J = SetIter(I, L, v)
    PROVE  Turned(I, J, L, v)
BY DEF Turned, SetIter, Iters

\* Types of the parts of an iteration.
LEMMA IterFacts ==
    ASSUME NEW I \in Iters, NEW L \in {0, 1}
    PROVE  /\ I[L] \in IterSet /\ I[L].type \in YEAR..HOUR /\ I[L].ran \in Range2 /\ I[L].year \in Int
           /\ I[L].lev \in -1..DAY /\ I[L].next \in Nat
           /\ I[L].id \in [YEAR..DAY -> Nat] /\ I[L].part \in [YEAR..DAY -> Int]
           /\ I[L].finds \in [YEAR..DAY -> BOOLEAN]
BY DEF Iters, IterSet

\* The same loops, at the same levels.
Alike(x, y) == y.type = x.type /\ y.ran = x.ran
SameLoop(x, y, m) == y.id[m] = x.id[m] /\ y.part[m] = x.part[m] /\ y.finds[m] = x.finds[m]

\* The iteration goes on as v; its loops stay where they are but for one at most.
Goes(I, J, L, v, lev, year, next) ==
    Turned(I, J, L, v) /\ Alike(I[L], v) /\ v.lev = lev /\ v.year = year /\ v.next = next
LoopsStay(x, v) == \A m \in YEAR..DAY : SameLoop(x, v, m)
LoopIs(x, v, l, i, part, finds) ==
    /\ \A m \in YEAR..DAY : m # l => SameLoop(x, v, m)
    /\ v.id[l] = i /\ v.part[l] = part /\ v.finds[l] = finds

YearTurn(I, L, n) == [I EXCEPT ![L].year = @ + 1, ![L].next = n]

\* The loop over the years goes on and calls iter_items.
LEMMA YearTurned ==
    ASSUME NEW I \in Iters, NEW L \in {0, 1}, NEW n \in Nat, NEW J, J = YearTurn(I, L, n)
    PROVE  \E v \in IterSet : Goes(I, J, L, v, I[L].lev, I[L].year + 1, n) /\ LoopsStay(I[L], v)
<1> DEFINE year == I[L].year + 1
           v == [I[L] EXCEPT !.year = year, !.next = n]
<1>1. I[L] \in IterSet /\ year \in Int
    BY IterFacts
<1> HIDE DEF year
<1>2. /\ v \in IterSet /\ v.type = I[L].type /\ v.ran = I[L].ran /\ v.lev = I[L].lev /\ v.year = year /\ v.next = n
      /\ v.id = I[L].id /\ v.part = I[L].part /\ v.finds = I[L].finds
    BY <1>1 DEF IterSet
<1>3. J = SetIter(I, L, v)
    BY DEF YearTurn, SetIter, year
<1> HIDE DEF v
<1>4. Turned(I, J, L, v)
    BY <1>2, <1>3, ReplacedIter
<1>5. QED
    BY <1>2, <1>4 DEF year, Goes, Alike, LoopsStay, LoopIs, SameLoop

PartTurn(I, L, l) == [I EXCEPT ![L].part[l] = @ + 1]

\* The loop over an item goes on.
LEMMA PartTurned ==
    ASSUME NEW I \in Iters, NEW L \in {0, 1}, NEW l \in YEAR..DAY, NEW J, J = PartTurn(I, L, l)
    PROVE  \E v \in IterSet : Goes(I, J, L, v, I[L].lev, I[L].year, I[L].next) /\ LoopIs(I[L], v, l, I[L].id[l], I[L].part[l] + 1, I[L].finds[l])
<1> DEFINE k == I[L].part[l] + 1
           p == [I[L].part EXCEPT ![l] = k]
           v == [I[L] EXCEPT !.part = p]
<1>1. I[L] \in IterSet /\ I[L].part \in [YEAR..DAY -> Int] /\ k \in Int
    <2>1. I[L] \in IterSet /\ I[L].part \in [YEAR..DAY -> Int]
        BY IterFacts
    <2>2. I[L].part[l] \in Int
        BY <2>1
    <2>3. k \in Int
        BY <2>2
    <2>4. QED
        BY <2>1, <2>3
<1> HIDE DEF k
<1>2. p \in [YEAR..DAY -> Int] /\ p[l] = k /\ \A m \in YEAR..DAY : m # l => p[m] = I[L].part[m]
    BY <1>1
<1>3. J = SetIter(I, L, v)
    BY DEF PartTurn, SetIter, k
<1> HIDE DEF p
<1>4. /\ v \in IterSet /\ v.type = I[L].type /\ v.ran = I[L].ran /\ v.lev = I[L].lev /\ v.year = I[L].year
      /\ v.next = I[L].next /\ v.id = I[L].id /\ v.part = p /\ v.finds = I[L].finds
    BY <1>1, <1>2 DEF IterSet
<1> HIDE DEF v
<1>5. Turned(I, J, L, v)
    BY <1>3, <1>4, ReplacedIter
<1>6. QED
    BY <1>2, <1>4, <1>5 DEF k, Goes, Alike, LoopsStay, LoopIs, SameLoop

NextTurn(I, L, n) == [I EXCEPT ![L].next = n]

\* iter_items is called, or returns, and the loops stay where they are.
LEMMA NextTurned ==
    ASSUME NEW I \in Iters, NEW L \in {0, 1}, NEW n \in Nat, NEW J, J = NextTurn(I, L, n)
    PROVE  \E v \in IterSet : Goes(I, J, L, v, I[L].lev, I[L].year, n) /\ LoopsStay(I[L], v)
<1> DEFINE v == [I[L] EXCEPT !.next = n]
<1>1. I[L] \in IterSet
    BY IterFacts
<1>2. /\ v \in IterSet /\ v.type = I[L].type /\ v.ran = I[L].ran /\ v.lev = I[L].lev /\ v.year = I[L].year /\ v.next = n
      /\ v.id = I[L].id /\ v.part = I[L].part /\ v.finds = I[L].finds
    BY <1>1 DEF IterSet
<1>3. J = SetIter(I, L, v)
    BY DEF NextTurn, SetIter
<1> HIDE DEF v
<1>4. Turned(I, J, L, v)
    BY <1>2, <1>3, ReplacedIter
<1>5. QED
    BY <1>2, <1>4 DEF Goes, Alike, LoopsStay, LoopIs, SameLoop

PartNextTurn(I, L, l, n) == [I EXCEPT ![L].part[l] = @ + 1, ![L].next = n]

\* The loop over an item goes on and calls iter_items.
LEMMA PartNextTurned ==
    ASSUME NEW I \in Iters, NEW L \in {0, 1}, NEW l \in YEAR..DAY, NEW n \in Nat, NEW J, J = PartNextTurn(I, L, l, n)
    PROVE  \E v \in IterSet : Goes(I, J, L, v, I[L].lev, I[L].year, n) /\ LoopIs(I[L], v, l, I[L].id[l], I[L].part[l] + 1, I[L].finds[l])
<1> DEFINE k == I[L].part[l] + 1
           p == [I[L].part EXCEPT ![l] = k]
           v == [I[L] EXCEPT !.part = p, !.next = n]
<1>1. I[L] \in IterSet /\ I[L].part \in [YEAR..DAY -> Int] /\ k \in Int
    <2>1. I[L] \in IterSet /\ I[L].part \in [YEAR..DAY -> Int]
        BY IterFacts
    <2>2. I[L].part[l] \in Int
        BY <2>1
    <2>3. k \in Int
        BY <2>2
    <2>4. QED
        BY <2>1, <2>3
<1> HIDE DEF k
<1>2. p \in [YEAR..DAY -> Int] /\ p[l] = k /\ \A m \in YEAR..DAY : m # l => p[m] = I[L].part[m]
    BY <1>1
<1>3. J = SetIter(I, L, v)
    BY DEF PartNextTurn, SetIter, k
<1> HIDE DEF p
<1>4. /\ v \in IterSet /\ v.type = I[L].type /\ v.ran = I[L].ran /\ v.lev = I[L].lev /\ v.year = I[L].year
      /\ v.next = n /\ v.id = I[L].id /\ v.part = p /\ v.finds = I[L].finds
    BY <1>1, <1>2 DEF IterSet
<1> HIDE DEF v
<1>5. Turned(I, J, L, v)
    BY <1>3, <1>4, ReplacedIter
<1>6. QED
    BY <1>2, <1>4, <1>5 DEF k, Goes, Alike, LoopsStay, LoopIs, SameLoop

LoopLeft(I, L) == [I EXCEPT ![L].lev = @ - 1]

\* The loop over an item ends.
LEMMA LoopIsLeft ==
    ASSUME NEW I \in Iters, NEW L \in {0, 1}, I[L].lev # -1, NEW J, J = LoopLeft(I, L)
    PROVE  \E v \in IterSet : Goes(I, J, L, v, I[L].lev - 1, I[L].year, I[L].next) /\ LoopsStay(I[L], v)
<1> DEFINE lev == I[L].lev - 1
           v == [I[L] EXCEPT !.lev = lev]
<1>1. I[L] \in IterSet /\ lev \in -1..DAY
    <2>1. I[L] \in IterSet /\ I[L].lev \in -1..DAY
        BY IterFacts
    <2>2. QED
        BY <2>1 DEF DAY
<1> HIDE DEF lev
<1>2. /\ v \in IterSet /\ v.type = I[L].type /\ v.ran = I[L].ran /\ v.lev = lev /\ v.year = I[L].year /\ v.next = I[L].next
      /\ v.id = I[L].id /\ v.part = I[L].part /\ v.finds = I[L].finds
    BY <1>1 DEF IterSet
<1>3. J = SetIter(I, L, v)
    BY DEF LoopLeft, SetIter, lev
<1> HIDE DEF v
<1>4. Turned(I, J, L, v)
    BY <1>2, <1>3, ReplacedIter
<1>5. QED
    BY <1>2, <1>4 DEF lev, Goes, Alike, LoopsStay, LoopIs, SameLoop

LoopBegun(I, L, l, i, first, finds) ==
    [I EXCEPT ![L].lev = l, ![L].next = 0, ![L].id[l] = i, ![L].part[l] = first, ![L].finds[l] = finds]

\* A loop over an item begins.
LEMMA LoopHasBegun ==
    ASSUME NEW I \in Iters, NEW L \in {0, 1}, NEW l \in YEAR..DAY, NEW i \in Nat, NEW first \in Int, NEW finds \in BOOLEAN,
           NEW J, J = LoopBegun(I, L, l, i, first, finds)
    PROVE  \E v \in IterSet : Goes(I, J, L, v, l, I[L].year, 0) /\ LoopIs(I[L], v, l, i, first, finds)
<1> DEFINE p == [I[L].part EXCEPT ![l] = first]
           d == [I[L].id EXCEPT ![l] = i]
           f == [I[L].finds EXCEPT ![l] = finds]
           v == [I[L] EXCEPT !.lev = l, !.next = 0, !.id = d, !.part = p, !.finds = f]
<1>1. /\ I[L] \in IterSet /\ I[L].part \in [YEAR..DAY -> Int] /\ I[L].id \in [YEAR..DAY -> Nat]
      /\ I[L].finds \in [YEAR..DAY -> BOOLEAN]
    BY IterFacts
<1>2. p \in [YEAR..DAY -> Int] /\ p[l] = first /\ \A m \in YEAR..DAY : m # l => p[m] = I[L].part[m]
    BY <1>1
<1>3. d \in [YEAR..DAY -> Nat] /\ d[l] = i /\ \A m \in YEAR..DAY : m # l => d[m] = I[L].id[m]
    BY <1>1
<1>4. f \in [YEAR..DAY -> BOOLEAN] /\ f[l] = finds /\ \A m \in YEAR..DAY : m # l => f[m] = I[L].finds[m]
    BY <1>1, Zenon
<1>5. l \in -1..DAY
    BY DEF YEAR, DAY
<1>6. J = SetIter(I, L, v)
    <2> DEFINE A == [I EXCEPT ![L].lev = l, ![L].next = 0]
               a == [I[L] EXCEPT !.lev = l, !.next = 0]
               B == [A EXCEPT ![L].id[l] = i, ![L].part[l] = first]
               b == [a EXCEPT !.id = d, !.part = p]
    <2>1. A = [I EXCEPT ![L] = a] /\ a.id = I[L].id /\ a.part = I[L].part /\ a.finds = I[L].finds /\ a \in IterSet
        BY <1>1, <1>5 DEF IterSet
    <2>2. J = [B EXCEPT ![L].finds[l] = finds]
        BY DEF LoopBegun
    <2>3. v = [b EXCEPT !.finds = f]
        OBVIOUS
    <2> HIDE DEF A, a
    <2>4. A[L] = a
        BY <2>1 DEF Iters
    <2>5. B = [A EXCEPT ![L] = b] /\ b.finds = I[L].finds
        BY <2>1, <2>4 DEF IterSet
    <2> HIDE DEF B, b, v
    <2>6. B = [I EXCEPT ![L] = b] /\ B[L] = b
        BY <2>1, <2>5 DEF Iters
    <2>7. J = [B EXCEPT ![L] = v]
        BY <2>2, <2>3, <2>5, <2>6
    <2>8. QED
        BY <2>6, <2>7 DEF SetIter
<1> HIDE DEF p, d, f
<1>7. /\ v \in IterSet /\ v.type = I[L].type /\ v.ran = I[L].ran /\ v.lev = l /\ v.year = I[L].year
      /\ v.next = 0 /\ v.id = d /\ v.part = p /\ v.finds = f
    BY <1>1, <1>2, <1>3, <1>4, <1>5 DEF IterSet
<1> HIDE DEF v
<1>8. Turned(I, J, L, v)
    BY <1>6, <1>7, ReplacedIter
<1>9. QED
    BY <1>2, <1>3, <1>4, <1>7, <1>8 DEF Goes, Alike, LoopsStay, LoopIs, SameLoop

(***************************************************************************)
(* What a step leaves alone                                                *)
(***************************************************************************)
\* More slices, and of the others one item at most has changed: i of level l.
Step(I, J, l, i) ==
    /\ J \in Vectors /\ Slices(J) /\ Grows(I, J)
    /\ \A m \in YEAR..HOUR : \A j \in DOMAIN I[m] : m # l \/ j # i => J[m][j] = I[m][j]
    /\ \A m \in YEAR..HOUR : \A j \in DOMAIN J[m] : j \in DOMAIN I[m] \/ Fresh(J[m][j])

\* The other items are as they were.
LEMMA ItemKept ==
    ASSUME NEW I \in Vectors, NEW J, NEW l, NEW i, Parted(I), Step(I, J, l, i),
           NEW m \in YEAR..DAY, NEW j \in DOMAIN I[m], m # l \/ j # i
    PROVE  /\ j \in DOMAIN J[m] /\ J[m][j] = I[m][j] /\ Chain(J, m, J[m][j])
           /\ \A k \in DOMAIN I[m][j].subs : PartRan(J, m, J[m][j], k) = PartRan(I, m, I[m][j], k)
           /\ FoundTo(J, m, J[m][j]) = FoundTo(I, m, I[m][j])
           /\ Complete(J, m, J[m][j]) <=> Complete(I, m, I[m][j])
           /\ \A k : Filling(J, m, J[m][j], k) <=> Filling(I, m, I[m][j], k)
<1>1. m \in YEAR..HOUR
    BY DEF YEAR, DAY, HOUR
<1>2. J \in Vectors /\ Grows(I, J) /\ J[m][j] = I[m][j] /\ j \in DOMAIN J[m]
    BY <1>1 DEF Step, Grows
<1>3. Chain(I, m, I[m][j])
    BY DEF Parted
<1>4. QED
    BY <1>2, <1>3, GrownParts

\* So the parts of all items follow each other if those of the changed one do.
LEMMA StepParted ==
    ASSUME NEW I \in Vectors, NEW J, NEW l, NEW i, Parted(I), Step(I, J, l, i), l # HOUR,
           l \in YEAR..DAY /\ i \in DOMAIN I[l] => Chain(J, l, J[l][i])
    PROVE  Parted(J)
<1>1. ASSUME NEW m \in YEAR..DAY, NEW j \in DOMAIN J[m] PROVE Chain(J, m, J[m][j])
    <2>1. m \in YEAR..HOUR
        BY DEF YEAR, DAY, HOUR
    <2>2. CASE j \notin DOMAIN I[m]
        <3>1. J[m][j].subs = <<>>
            BY <2>1, <2>2 DEF Step, Fresh
        <3>2. QED
            BY <3>1 DEF Chain
    <2>3. CASE j \in DOMAIN I[m] /\ (m # l \/ j # i)
        BY <2>3, ItemKept
    <2>4. CASE j \in DOMAIN I[m] /\ m = l /\ j = i
        BY <2>4
    <2>5. QED
        BY <2>2, <2>3, <2>4
<1>2. ASSUME NEW j \in DOMAIN J[HOUR] PROVE J[HOUR][j].n = -1
    <2>1. HOUR \in YEAR..HOUR
        BY DEF YEAR, HOUR
    <2>2. CASE j \notin DOMAIN I[HOUR]
        BY <2>1, <2>2 DEF Step, Fresh
    <2>3. CASE j \in DOMAIN I[HOUR]
        BY <2>1, <2>3 DEF Step, Parted
    <2>4. QED
        BY <2>2, <2>3
<1>3. QED
    BY <1>1, <1>2 DEF Parted

\* A loop over another item goes on.
LEMMA LoopKept ==
    ASSUME NEW I \in Vectors, NEW J, NEW l, NEW i, Parted(I), Step(I, J, l, i),
           NEW m \in YEAR..DAY, NEW x, NEW y, SameLoop(x, y, m), NEW c \in BOOLEAN,
           LoopAt(I, x, m, c), m # l \/ x.id[m] # i
    PROVE  /\ LoopAt(J, y, m, c)
           /\ \A t : AheadIn(I, x, m, t) => AheadIn(J, y, m, t)
<1> DEFINE j == x.id[m]
<1>1. j \in DOMAIN I[m] /\ y.id[m] = j /\ y.part[m] = x.part[m] /\ y.finds[m] = x.finds[m]
    BY DEF LoopAt, SameLoop
<1>2. /\ j \in DOMAIN J[m] /\ J[m][j] = I[m][j] /\ Chain(J, m, J[m][j])
      /\ \A k \in DOMAIN I[m][j].subs : PartRan(J, m, J[m][j], k) = PartRan(I, m, I[m][j], k)
      /\ FoundTo(J, m, J[m][j]) = FoundTo(I, m, I[m][j])
      /\ Complete(J, m, J[m][j]) <=> Complete(I, m, I[m][j])
      /\ \A k : Filling(J, m, J[m][j], k) <=> Filling(I, m, I[m][j], k)
    BY <1>1, ItemKept
<1>3. LoopAt(J, y, m, c)
    BY <1>1, <1>2 DEF LoopAt
<1>4. ASSUME NEW t, AheadIn(I, x, m, t) PROVE AheadIn(J, y, m, t)
    BY <1>1, <1>2, <1>4 DEF AheadIn
<1>5. QED
    BY <1>3, <1>4

\* What the first iteration knows stays true in a step of the second, which
\* changes no item that is complete or that the first fills.
LEMMA OtherKept ==
    ASSUME NEW I \in Vectors, NEW J, NEW l, NEW i, Parted(I), Step(I, J, l, i),
           NEW it \in Iters, NEW jt, jt[1] = it[1], Looping(I, it[1], TRUE), Called(I, it[1]),
           l \in YEAR..DAY /\ i \in DOMAIN I[l] => ~Complete(I, l, I[l][i]),
           l \in YEAR..DAY /\ Finding(it[1], l) => it[1].id[l] # i
    PROVE  /\ Looping(J, jt[1], TRUE) /\ Called(J, jt[1])
           /\ \A t : Ahead(I, it[1], t) => Ahead(J, jt[1], t)
           /\ Nested(I, it) /\ (jt[0].lev # -1 => it[0].lev # -1 /\ jt[0].ran = it[0].ran) => Nested(J, jt)
<1> DEFINE z == it[1]
<1>1. z \in IterSet /\ z.lev \in -1..DAY
    BY IterFacts
<1>2. ASSUME NEW m \in YEAR..DAY, m <= z.lev PROVE LoopAt(I, z, m, TRUE) /\ (m # l \/ z.id[m] # i)
    <2>1. LoopAt(I, z, m, TRUE)
        BY <1>2 DEF Looping
    <2>2. CASE z.finds[m]
        BY <1>2, <2>1, <2>2 DEF Finding
    <2>3. CASE ~z.finds[m]
        <3>1. z.id[m] \in DOMAIN I[m] /\ Complete(I, m, I[m][z.id[m]])
            BY <2>1, <2>3 DEF LoopAt
        <3>2. QED
            BY <2>1, <3>1
    <2>4. QED
        BY <2>1, <2>2, <2>3
<1>3. ASSUME NEW m \in YEAR..DAY, m <= z.lev
      PROVE  LoopAt(J, z, m, TRUE) /\ \A t : AheadIn(I, z, m, t) => AheadIn(J, z, m, t)
    <2>1. SameLoop(z, z, m)
        BY DEF SameLoop
    <2>2. QED
        BY <1>2, <1>3, <2>1, LoopKept
<1>4. Looping(J, z, TRUE)
    BY <1>3 DEF Looping
<1>5. Called(J, z) /\ (z.lev # -1 /\ z.next # 0 => J[z.lev + 1][z.next].ran = I[z.lev + 1][z.next].ran)
    <2> SUFFICES ASSUME z.lev # -1, z.next # 0
                 PROVE  z.next \in DOMAIN J[z.lev + 1] /\ J[z.lev + 1][z.next].ran = I[z.lev + 1][z.next].ran
        BY DEF Called
    <2>1. z.lev + 1 \in YEAR..HOUR /\ z.next \in DOMAIN I[z.lev + 1]
        BY <1>1 DEF Called, YEAR, DAY, HOUR
    <2>2. QED
        BY <2>1 DEF Step, Grows
<1>6. ASSUME NEW t, Ahead(I, z, t) PROVE Ahead(J, z, t)
    BY <1>3, <1>5, <1>6 DEF Ahead
<1>7. ASSUME Nested(I, it), jt[0].lev # -1 => it[0].lev # -1 /\ jt[0].ran = it[0].ran PROVE Nested(J, jt)
    <2> SUFFICES ASSUME NEW m \in YEAR..DAY, Finding(z, m)
                 PROVE  /\ \A k \in YEAR..DAY : m < k /\ k <= z.lev => InLast(J, z, m, J[k][z.id[k]].ran)
                        /\ z.next # 0 => InLast(J, z, m, J[z.lev + 1][z.next].ran)
                        /\ jt[0].lev # -1 => InLast(J, z, m, jt[0].ran)
        BY DEF Nested
    <2> DEFINE j == z.id[m]
    <2>1. m <= z.lev /\ z.finds[m] /\ z.lev # -1
        BY <1>1 DEF Finding, YEAR, DAY
    <2>2. j \in DOMAIN I[m] /\ (m # l \/ j # i)
        BY <1>2, <2>1 DEF LoopAt
    <2>3. J[m][j] = I[m][j] /\ \A k \in DOMAIN I[m][j].subs : PartRan(J, m, J[m][j], k) = PartRan(I, m, I[m][j], k)
        BY <2>2, ItemKept
    <2>4. m \in YEAR..HOUR /\ I[m][j].subs \in Seq(Nat)
        <3>1. m \in YEAR..HOUR
            BY DEF YEAR, DAY, HOUR
        <3>2. QED
            BY <2>2, <3>1, VectorFacts
    <2>5. I[m][j].subs # <<>> => LastRan(J, m, j) = LastRan(I, m, j)
        <3>1. I[m][j].subs # <<>> => Len(I[m][j].subs) \in DOMAIN I[m][j].subs
            BY <2>4
        <3>2. QED
            BY <2>3, <3>1 DEF LastRan
    <2>6. \A ran : InLast(I, z, m, ran) => InLast(J, z, m, ran)
        BY <2>3, <2>5 DEF InLast
    <2>7. ASSUME NEW k \in YEAR..DAY, m < k, k <= z.lev PROVE InLast(J, z, m, J[k][z.id[k]].ran)
        <3>1. z.id[k] \in DOMAIN I[k] /\ k \in YEAR..HOUR
            BY <1>2, <2>7 DEF LoopAt, YEAR, DAY, HOUR
        <3>2. J[k][z.id[k]].ran = I[k][z.id[k]].ran
            BY <3>1 DEF Step, Grows
        <3>3. QED
            BY <1>7, <2>6, <2>7, <3>2 DEF Nested
    <2>8. ASSUME z.next # 0 PROVE InLast(J, z, m, J[z.lev + 1][z.next].ran)
        BY <1>5, <1>7, <2>1, <2>6, <2>8 DEF Nested
    <2>9. ASSUME jt[0].lev # -1 PROVE InLast(J, z, m, jt[0].ran)
        BY <1>7, <2>6, <2>9 DEF Nested
    <2>10. QED
        BY <2>7, <2>8, <2>9
<1>8. QED
    BY <1>4, <1>5, <1>6, <1>7

\* Of the items the status is known again.
LEMMA StepStatus ==
    ASSUME NEW I \in Vectors, NEW J, NEW l, NEW i, Parted(I), Step(I, J, l, i),
           NEW it \in Iters, NEW jt, NEW L \in {0, 1}, NEW y, Turned(it, jt, L, y), Status(I, it),
           \A m \in YEAR..DAY : Finding(it[L], m) /\ ~(Finding(y, m) /\ y.id[m] = it[L].id[m]) =>
               Complete(J, m, J[m][it[L].id[m]]),
           l \in YEAR..DAY /\ i \in DOMAIN I[l] => Complete(J, l, J[l][i]) \/ (Finding(y, l) /\ y.id[l] = i)
    PROVE  Status(J, jt)
<1> SUFFICES ASSUME NEW m \in YEAR..DAY, NEW j \in DOMAIN J[m]
             PROVE  \/ Fresh(J[m][j]) \/ Complete(J, m, J[m][j])
                    \/ \E M \in {0, 1} : Finding(jt[M], m) /\ jt[M].id[m] = j
    BY DEF Status
<1>1. m \in YEAR..HOUR
    BY DEF YEAR, DAY, HOUR
<1>2. CASE j \notin DOMAIN I[m]
    BY <1>1, <1>2 DEF Step
<1>3. CASE j \in DOMAIN I[m] /\ m = l /\ j = i
    BY <1>3 DEF Turned
<1>4. CASE j \in DOMAIN I[m] /\ (m # l \/ j # i)
    <2>1. J[m][j] = I[m][j] /\ (Complete(J, m, J[m][j]) <=> Complete(I, m, I[m][j]))
        BY <1>4, ItemKept
    <2>2. CASE Fresh(I[m][j]) \/ Complete(I, m, I[m][j])
        BY <2>1, <2>2
    <2>3. CASE \E M \in {0, 1} : Finding(it[M], m) /\ it[M].id[m] = j
        <3>1. PICK M \in {0, 1} : Finding(it[M], m) /\ it[M].id[m] = j
            BY <2>3
        <3>2. CASE M # L
            BY <3>1, <3>2 DEF Turned
        <3>3. CASE M = L
            BY <3>1, <3>3 DEF Turned
        <3>4. QED
            BY <3>2, <3>3
    <2>4. QED
        BY <1>4, <2>2, <2>3 DEF Status
<1>5. QED
    BY <1>2, <1>3, <1>4

\* The parts found lie between the beginning of the item and the end of the
\* last of them, and leave no moment out.
LEMMA ChainParts ==
    ASSUME NEW I \in Vectors, Slices(I), NEW m \in YEAR..DAY, NEW j \in DOMAIN I[m], Chain(I, m, I[m][j])
    PROVE  LET item == I[m][j] IN
           /\ item.ran.fr \in Nat /\ item.ran.to \in Nat /\ FoundTo(I, m, item) \in Nat
           /\ item.ran.fr <= FoundTo(I, m, item)
           /\ \A k \in DOMAIN item.subs :
                  /\ item.subs[k] \in DOMAIN I[m + 1] /\ item.subs[k] \in Nat /\ item.subs[k] # 0
                  /\ IsSlice(m + 1, PartRan(I, m, item, k))
                  /\ item.ran.fr <= PartRan(I, m, item, k).fr
                  /\ PartRan(I, m, item, k).to <= FoundTo(I, m, item)
           /\ \A t \in Int : item.ran.fr <= t /\ t < FoundTo(I, m, item) =>
                  \E k \in DOMAIN item.subs : In(t, PartRan(I, m, item, k))
<1> DEFINE item == I[m][j]  n == Len(item.subs)  F(k) == PartRan(I, m, item, k).fr  T(k) == PartRan(I, m, item, k).to
<1>1. m \in YEAR..HOUR /\ m + 1 \in YEAR..HOUR
    BY DEF YEAR, DAY, HOUR
<1>2. /\ item.subs \in Seq(Nat) /\ DOMAIN item.subs = 1..n /\ n \in Nat
      /\ item.ran.fr \in Nat /\ item.ran.to \in Nat
    BY <1>1, VectorFacts
<1>3. ASSUME NEW k \in 1..n
      PROVE  /\ item.subs[k] \in DOMAIN I[m + 1] /\ item.subs[k] \in Nat /\ item.subs[k] # 0
             /\ IsSlice(m + 1, PartRan(I, m, item, k))
             /\ F(k) \in Nat /\ T(k) \in Nat /\ F(k) < T(k)
    <2>1. item.subs[k] \in DOMAIN I[m + 1]
        BY <1>2 DEF Chain
    <2>2. DOMAIN I[m + 1] = 1..Len(I[m + 1]) /\ Len(I[m + 1]) \in Nat
        BY <1>1, VectorFacts
    <2>3. IsSlice(m + 1, PartRan(I, m, item, k))
        BY <1>1, <2>1 DEF Slices, PartRan
    <2>4. F(k) \in Nat /\ T(k) \in Nat /\ F(k) < T(k)
        BY <1>1, <2>3, SliceFacts
    <2>5. QED
        BY <2>1, <2>2, <2>3, <2>4
<1>4. /\ n # 0 => F(1) = item.ran.fr /\ FoundTo(I, m, item) = T(n)
      /\ n = 0 => FoundTo(I, m, item) = item.ran.fr
      /\ \A k \in 1..n : k + 1 \in 1..n => T(k) = F(k + 1)
    <2>1. n = 0 <=> item.subs = <<>>
        BY <1>2
    <2>2. n # 0 => F(1) = item.ran.fr
        BY <2>1 DEF Chain
    <2>3. (n # 0 => FoundTo(I, m, item) = T(n)) /\ (n = 0 => FoundTo(I, m, item) = item.ran.fr)
        BY <2>1 DEF FoundTo
    <2>4. \A k \in 1..n : k + 1 \in 1..n => T(k) = F(k + 1)
        BY <1>2 DEF Chain
    <2>5. QED
        BY <2>2, <2>3, <2>4
<1> HIDE DEF F, T, item, n
<1>5. ASSUME NEW k \in 1..n PROVE item.ran.fr <= F(k)
    <2> DEFINE S == {c \in 1..n : F(c) < item.ran.fr}
    <2> SUFFICES ASSUME ~(item.ran.fr <= F(k)) PROVE FALSE
        OBVIOUS
    <2>1. F(k) < item.ran.fr
        <3>1. F(k) \in Nat /\ item.ran.fr \in Nat
            BY <1>2, <1>3
        <3>2. QED
            BY <3>1
    <2>2. S # {}
        BY <2>1
    <2>3. Min(S) \in S /\ \A c \in S : Min(S) <= c
        BY <1>2, <2>2, LeastAndGreatest
    <2> DEFINE c == Min(S)
    <2>4. c \in 1..n /\ F(c) < item.ran.fr /\ \A e \in 1..n : F(e) < item.ran.fr => c <= e
        BY <2>3
    <2> HIDE DEF c, S
    <2>5. c # 1
        BY <1>2, <1>4, <2>4
    <2>6. c - 1 \in 1..n /\ (c - 1) + 1 = c /\ ~(c <= c - 1)
        BY <1>2, <2>4, <2>5
    <2>7. T(c - 1) = F(c) /\ F(c - 1) < T(c - 1)
        BY <1>3, <1>4, <2>4, <2>6
    <2>8. F(c - 1) < item.ran.fr /\ F(c - 1) \in Nat
        <3>1. F(c - 1) \in Nat /\ T(c - 1) \in Nat
            BY <1>3, <2>6
        <3>2. F(c - 1) < T(c - 1) /\ T(c - 1) < item.ran.fr
            BY <2>4, <2>7
        <3>3. QED
            BY <1>2, <3>1, <3>2
    <2>9. QED
        BY <2>4, <2>6, <2>8
<1>6. ASSUME NEW k \in 1..n PROVE T(k) <= T(n)
    <2> DEFINE S == {c \in 1..n : T(c) > T(n)}
    <2>1. n \in 1..n
        BY <1>2
    <2> SUFFICES ASSUME ~(T(k) <= T(n)) PROVE FALSE
        OBVIOUS
    <2>2. T(k) > T(n)
        <3>1. T(k) \in Nat /\ T(n) \in Nat
            BY <1>3, <2>1
        <3>2. QED
            BY <3>1
    <2>3. S # {}
        BY <2>2
    <2>4. Max(S) \in S /\ \A c \in S : c <= Max(S)
        BY <1>2, <2>3, LeastAndGreatest
    <2> DEFINE c == Max(S)
    <2>5. c \in 1..n /\ T(c) > T(n) /\ \A e \in 1..n : T(e) > T(n) => e <= c
        BY <2>4
    <2> HIDE DEF c, S
    <2>6. c # n
        BY <1>3, <2>1, <2>5
    <2>7. c + 1 \in 1..n /\ ~(c + 1 <= c)
        BY <1>2, <2>5, <2>6
    <2>8. T(c) = F(c + 1) /\ F(c + 1) < T(c + 1) /\ F(c + 1) \in Nat /\ T(c + 1) \in Nat /\ T(n) \in Nat
        BY <1>3, <1>4, <2>1, <2>5, <2>7
    <2>9. T(c + 1) > T(n)
        BY <2>5, <2>8
    <2>10. QED
        BY <2>5, <2>7, <2>9
<1>7. FoundTo(I, m, item) \in Nat /\ item.ran.fr <= FoundTo(I, m, item) /\ \A k \in 1..n : T(k) <= FoundTo(I, m, item)
    <2>1. CASE n = 0
        BY <1>2, <1>4, <2>1
    <2>2. CASE n # 0
        <3>1. 1 \in 1..n /\ n \in 1..n
            BY <1>2, <2>2
        <3>2. FoundTo(I, m, item) = T(n) /\ T(n) \in Nat /\ T(1) \in Nat /\ T(1) <= T(n) /\ F(1) < T(1) /\ F(1) = item.ran.fr
            BY <1>3, <1>4, <1>6, <2>2, <3>1
        <3>3. item.ran.fr <= T(n)
            BY <1>2, <3>2
        <3>4. QED
            BY <1>6, <3>2, <3>3
    <2>3. QED
        BY <2>1, <2>2
<1>8. ASSUME NEW t \in Int, item.ran.fr <= t, t < FoundTo(I, m, item)
      PROVE  \E k \in 1..n : F(k) <= t /\ t < T(k)
    <2> DEFINE S == {c \in 1..n : F(c) <= t}
    <2>1. n # 0
        BY <1>2, <1>4, <1>8
    <2>2. 1 \in 1..n /\ F(1) <= t
        BY <1>2, <1>4, <1>8, <2>1
    <2>3. Max(S) \in S /\ \A c \in S : c <= Max(S)
        BY <1>2, <2>2, LeastAndGreatest
    <2> DEFINE c == Max(S)
    <2>4. c \in 1..n /\ F(c) <= t /\ \A e \in 1..n : F(e) <= t => e <= c
        BY <2>3
    <2> HIDE DEF c, S
    <2>5. CASE c = n
        BY <1>4, <1>8, <2>1, <2>4, <2>5
    <2>6. CASE c # n
        <3>1. c + 1 \in 1..n /\ ~(c + 1 <= c)
            BY <1>2, <2>4, <2>6
        <3>2. ~(F(c + 1) <= t) /\ F(c + 1) \in Nat /\ T(c) = F(c + 1)
            BY <1>3, <1>4, <2>4, <3>1
        <3>3. t < T(c)
            BY <3>2
        <3>4. QED
            BY <2>4, <3>3
    <2>7. QED
        BY <2>5, <2>6
<1>9. QED
    BY <1>2, <1>3, <1>5, <1>7, <1>8 DEF In, F, T, item, n

\* A part is added where the last one ended.
LEMMA ChainAppended ==
    ASSUME NEW I \in Vectors, NEW J \in Vectors, Grows(I, J), NEW m \in YEAR..DAY, NEW j \in DOMAIN I[m],
           Chain(I, m, I[m][j]), NEW n \in Nat, n \in DOMAIN J[m + 1],
           J[m][j].subs = Append(I[m][j].subs, n), J[m + 1][n].ran.fr = FoundTo(I, m, I[m][j])
    PROVE  /\ Chain(J, m, J[m][j]) /\ FoundTo(J, m, J[m][j]) = J[m + 1][n].ran.to
           /\ J[m][j].subs # <<>> /\ LastRan(J, m, j) = J[m + 1][n].ran
<1> DEFINE a == I[m][j]  v == J[m][j]  c == Len(a.subs)
<1>1. m \in YEAR..HOUR /\ m + 1 \in YEAR..HOUR
    BY DEF YEAR, DAY, HOUR
<1>2. a.subs \in Seq(Nat) /\ DOMAIN a.subs = 1..c /\ c \in Nat /\ v.ran = a.ran
    BY <1>1, VectorFacts DEF Grows
<1>3. /\ DOMAIN v.subs = 1..(c + 1) /\ Len(v.subs) = c + 1 /\ v.subs[c + 1] = n /\ v.subs # <<>>
      /\ \A k \in 1..c : v.subs[k] = a.subs[k] /\ k \in 1..(c + 1)
    <2> DEFINE s == a.subs  w == v.subs
    <2>1. w = Append(s, n) /\ s \in Seq(Nat) /\ n \in Nat /\ c = Len(s)
        BY <1>2
    <2> HIDE DEF s, w, c
    <2>2. w \in Seq(Nat) /\ Len(w) = Len(s) + 1 /\ DOMAIN w = 1..(Len(s) + 1) /\ Len(s) \in Nat
        BY <2>1
    <2>3. w[Len(s) + 1] = n /\ \A k \in 1..Len(s) : w[k] = s[k]
        BY <2>1
    <2>4. w # <<>>
        BY <2>2
    <2>5. \A k \in 1..Len(s) : k \in 1..(Len(s) + 1)
        BY <2>2
    <2>6. QED
        BY <2>1, <2>2, <2>3, <2>4, <2>5 DEF s, w
<1>4. ASSUME NEW k \in 1..c PROVE v.subs[k] \in DOMAIN J[m + 1] /\ PartRan(J, m, v, k) = PartRan(I, m, a, k)
    <2>1. a.subs[k] \in DOMAIN I[m + 1]
        BY <1>2 DEF Chain
    <2>2. QED
        BY <1>1, <1>3, <2>1 DEF Grows, PartRan
<1>5. PartRan(J, m, v, c + 1) = J[m + 1][n].ran
    BY <1>3 DEF PartRan
<1>6. Chain(I, m, a) /\ J[m + 1][n].ran.fr = FoundTo(I, m, a)
    OBVIOUS
<1>7. v.subs = J[m][j].subs /\ LastRan(J, m, j) = PartRan(J, m, v, Len(v.subs))
    BY DEF LastRan
<1> HIDE DEF a, v, c
<1>8. c = 0 <=> a.subs = <<>>
    BY <1>2 DEF c
<1>9. \A k \in 1..(c + 1) : k \in 1..c \/ k = c + 1
    BY <1>2
<1>10. \A k \in 1..(c + 1) : v.subs[k] \in DOMAIN J[m + 1]
    BY <1>3, <1>4, <1>9
<1>11. PartRan(J, m, v, 1).fr = v.ran.fr
    <2>1. CASE c = 0
        <3>1. FoundTo(I, m, a) = a.ran.fr
            BY <1>8, <2>1 DEF FoundTo
        <3>2. 1 = c + 1
            BY <2>1
        <3>3. QED
            BY <1>2, <1>5, <1>6, <3>1, <3>2
    <2>2. CASE c # 0
        <3>1. 1 \in 1..c
            BY <1>2, <2>2
        <3>2. PartRan(I, m, a, 1).fr = a.ran.fr
            BY <1>6, <1>8, <2>2 DEF Chain
        <3>3. QED
            BY <1>2, <1>4, <3>1, <3>2
    <2>3. QED
        BY <2>1, <2>2
<1>12. ASSUME NEW k \in 1..(c + 1), k + 1 \in 1..(c + 1) PROVE PartRan(J, m, v, k).to = PartRan(J, m, v, k + 1).fr
    <2>1. k \in 1..c
        BY <1>2, <1>12
    <2>2. CASE k = c
        <3>1. FoundTo(I, m, a) = PartRan(I, m, a, c).to
            <4>1. a.subs # <<>>
                BY <1>2, <1>8, <2>1
            <4>2. QED
                BY <4>1 DEF FoundTo, c
        <3>2. QED
            BY <1>4, <1>5, <1>6, <2>1, <2>2, <3>1
    <2>3. CASE k # c
        <3>1. k + 1 \in 1..c
            BY <1>2, <2>1, <2>3
        <3>2. PartRan(I, m, a, k).to = PartRan(I, m, a, k + 1).fr
            BY <1>2, <1>6, <2>1, <3>1 DEF Chain
        <3>3. QED
            BY <1>4, <2>1, <3>1, <3>2
    <2>4. QED
        BY <2>2, <2>3
<1>13. Chain(J, m, v)
    BY <1>3, <1>10, <1>11, <1>12 DEF Chain
<1>14. FoundTo(J, m, v) = PartRan(J, m, v, c + 1).to
    BY <1>3 DEF FoundTo
<1>15. QED
    BY <1>3, <1>5, <1>7, <1>13, <1>14 DEF v

\* Nothing has changed.
LEMMA NoStep ==
    ASSUME NEW I \in Vectors, Slices(I)
    PROVE  Step(I, I, 0, 0)
BY DEF Step, Grows

\* A slice was found, and then an item was changed.
LEMMA StepComposed ==
    ASSUME NEW I \in Vectors, NEW J, NEW K, NEW l \in YEAR..HOUR, NEW i \in DOMAIN I[l],
           J \in Vectors, Grows(I, J), Slices(J),
           \A m \in YEAR..HOUR : \A j \in DOMAIN I[m] : J[m][j] = I[m][j],
           \A m \in YEAR..HOUR : \A j \in DOMAIN J[m] : j \in DOMAIN I[m] \/ Fresh(J[m][j]),
           OneChanged(J, K, l, i), Slices(K)
    PROVE  Step(I, K, l, i)
<1>1. K \in Vectors
    BY DEF OneChanged
<1>2. Grows(I, K)
    BY DEF OneChanged, Grows
<1>3. ASSUME NEW m \in YEAR..HOUR, NEW j \in DOMAIN I[m], m # l \/ j # i PROVE K[m][j] = I[m][j]
    <2>1. j \in DOMAIN J[m]
        BY DEF Grows
    <2>2. QED
        BY <1>3, <2>1 DEF OneChanged
<1>4. ASSUME NEW m \in YEAR..HOUR, NEW j \in DOMAIN K[m], j \notin DOMAIN I[m] PROVE Fresh(K[m][j])
    BY <1>4 DEF OneChanged
<1>5. QED
    BY <1>1, <1>2, <1>3, <1>4 DEF Step

(***************************************************************************)
(* One turn of an iteration                                                *)
(***************************************************************************)
\* The iteration L goes on as y, and the item i of level l was changed.
TurnInv(L, l, i, y) ==
    /\ Turned(iter, iter', L, y) /\ Alike(iter[L], y)
    /\ y.lev # -1 /\ y.lev < y.type /\ y.year \in 1..(LastYear + 1)
    /\ Step(items, items', l, i) /\ Parted(items')
    /\ l \in YEAR..DAY /\ i \in DOMAIN items[l] => ~Complete(items, l, items[l][i])
    /\ L = 0 /\ l \in YEAR..DAY /\ Finding(iter[1], l) => iter[1].id[l] # i
    /\ Looping(items', y, L = 1) /\ Called(items', y) /\ Status(items', iter')
    /\ L = 1 => Nested(items', iter')
    /\ \A m \in YEAR..DAY : Finding(y, m) =>
           (Finding(iter[L], m) /\ y.id[m] = iter[L].id[m]) \/ (m = l /\ y.id[m] = i)
    /\ L = 1 \/ iter[1].type < DAY =>
           \A t \in Int : In(t, iter[L].ran) /\ Ahead(items, iter[L], t) =>
               Ahead(items', y, t) \/ CoveredBy(calls', t)

\* What is known in the loop of an item.
LEMMA InLoop ==
    ASSUME SlicingInv, NEW L \in {0, 1}, InItem(L)
    PROVE  LET x == iter[L]  lev == x.lev  i == x.id[lev]  item == items[lev][i]
           IN  /\ x \in IterSet /\ lev \in YEAR..DAY /\ lev \in YEAR..HOUR /\ lev < x.type /\ (L = 1 => x.type <= DAY)
               /\ x.year \in 1..(LastYear + 1) /\ x.next = 0 /\ lev # -1
               /\ Item(L) = item /\ Here(L) = x.part[lev]
               /\ i \in DOMAIN items[lev] /\ i \in Nat /\ LoopAt(items, x, lev, L = 1) /\ Looping(items, x, L = 1)
               /\ IsSlice(lev, item.ran) /\ Chain(items, lev, item)
               /\ item.subs \in Seq(Nat) /\ Len(item.subs) \in Nat /\ DOMAIN item.subs = 1..Len(item.subs) /\ item.n \in Int
               /\ L = 1 => iter[0].lev = -1
<1> DEFINE x == iter[L]  lev == x.lev  i == x.id[lev]  item == items[lev][i]
<1>1. ~failed /\ x.lev # -1 /\ (L = 1 => iter[0].lev = -1) /\ x.next = 0 /\ lev # 0
    BY DEF InItem, Loops, Runs
<1>2. x \in IterSet /\ lev \in -1..DAY /\ iter \in Iters /\ items \in Vectors
    BY IterFacts DEF SlicingInv
<1>3. lev \in YEAR..DAY /\ lev \in YEAR..HOUR
    BY <1>1, <1>2 DEF YEAR, DAY, HOUR
<1>4. Iterations(iter) /\ Looping(items, x, L = 1) /\ Slices(items) /\ Parted(items)
    <2>1. CASE L = 0
        BY <1>1, <2>1 DEF SlicingInv
    <2>2. CASE L = 1
        BY <1>1, <2>2 DEF SlicingInv
    <2>3. QED
        BY <2>1, <2>2, <1>1 DEF SlicingInv
<1>5. SlicingType(view) <= DAY
    BY DEF SlicingType, YEAR, MONTH, DAY
<1>6. lev < x.type /\ (L = 1 => x.type <= DAY) /\ x.year \in 1..(LastYear + 1)
    <2>1. CASE L = 0
        BY <1>1, <1>4, <2>1 DEF Iterations
    <2>2. CASE L = 1
        BY <1>1, <1>4, <1>5, <2>2 DEF Iterations
    <2>3. QED
        BY <2>1, <2>2
<1>7. LoopAt(items, x, lev, L = 1)
    <2>1. lev <= x.lev
        BY <1>3
    <2>2. QED
        BY <1>3, <1>4, <2>1 DEF Looping
<1>8. i \in DOMAIN items[lev]
    BY <1>7 DEF LoopAt
<1>9. /\ item.subs \in Seq(Nat) /\ Len(item.subs) \in Nat /\ DOMAIN item.subs = 1..Len(item.subs) /\ item.n \in Int
      /\ DOMAIN items[lev] = 1..Len(items[lev]) /\ Len(items[lev]) \in Nat
    BY <1>2, <1>3, <1>8, VectorFacts
<1>10. i \in Nat
    <2>1. DOMAIN items[lev] = 1..Len(items[lev]) /\ Len(items[lev]) \in Nat
        BY <1>9
    <2>2. \A n \in Nat : \A j \in 1..n : j \in Nat
        OBVIOUS
    <2>3. i \in 1..Len(items[lev])
        BY <1>8, <2>1
    <2>4. QED
        BY <2>1, <2>2, <2>3
<1>11. IsSlice(lev, item.ran) /\ Chain(items, lev, item)
    BY <1>3, <1>4, <1>8 DEF Slices, Parted
<1>12. Item(L) = item /\ Here(L) = x.part[lev]
    BY DEF Item, Here
<1>13. QED
    BY <1>1, <1>2, <1>3, <1>4, <1>6, <1>7, <1>8, <1>9, <1>10, <1>11, <1>12

\* Such a turn keeps the invariant.
LEMMA TurnKeeps ==
    ASSUME SlicingInv, ~failed, failed' = FALSE, stage = "slicing", UNCHANGED frameVars, CallsInv',
           NEW L \in {0, 1}, L = 1 => iter[0].lev = -1, iter[L].lev # -1,
           NEW l, NEW i, NEW y, TurnInv(L, l, i, y),
           \A t : CoveredBy(calls, t) => CoveredBy(calls', t)
    PROVE  SlicingInv'
<1> DEFINE x == iter[L]
<1>1. /\ items \in Vectors /\ iter \in Iters /\ Slices(items) /\ Parted(items) /\ FrameInv
      /\ Iterations(iter) /\ Status(items, iter)
      /\ Looping(items, iter[0], FALSE) /\ Looping(items, iter[1], TRUE)
      /\ Called(items, iter[0]) /\ Called(items, iter[1])
      /\ Different(iter) /\ Nested(items, iter) /\ Covers(items, iter, calls)
    BY DEF SlicingInv
<1>2. /\ iter' \in Iters /\ iter'[L] = y /\ (\A M \in {0, 1} : M # L => iter'[M] = iter[M])
      /\ y.type = x.type /\ y.ran = x.ran /\ y.lev # -1 /\ y.lev < y.type /\ y.year \in 1..(LastYear + 1)
      /\ Step(items, items', l, i) /\ Parted(items')
      /\ (l \in YEAR..DAY /\ i \in DOMAIN items[l] => ~Complete(items, l, items[l][i]))
      /\ (L = 0 /\ l \in YEAR..DAY /\ Finding(iter[1], l) => iter[1].id[l] # i)
      /\ Looping(items', y, L = 1) /\ Called(items', y) /\ Status(items', iter')
      /\ (L = 1 => Nested(items', iter'))
    BY DEF TurnInv, Turned, Alike
<1>3. \A m \in YEAR..DAY : Finding(y, m) =>
          (Finding(x, m) /\ y.id[m] = x.id[m]) \/ (m = l /\ y.id[m] = i)
    BY DEF TurnInv
<1>4. L = 1 \/ iter[1].type < DAY =>
          \A t \in Int : In(t, x.ran) /\ Ahead(items, x, t) => Ahead(items', y, t) \/ CoveredBy(calls', t)
    BY DEF TurnInv
<1>5. items' \in Vectors /\ Slices(items') /\ stage' = stage /\ view' = view /\ span' = span
    BY <1>2 DEF Step, frameVars
<1>6. FrameInv' /\ FailedInv'
    BY <1>1, <1>5 DEF FrameInv, FailedInv
<1>7. CASE L = 0
    <2>1. iter'[1] = iter[1] /\ iter'[0] = y /\ x = iter[0]
        BY <1>2, <1>7
    <2>2. /\ Looping(items', iter'[1], TRUE) /\ Called(items', iter'[1])
          /\ \A t : Ahead(items, iter[1], t) => Ahead(items', iter'[1], t)
          /\ Nested(items', iter')
        BY <1>1, <1>2, <1>7, <2>1, OtherKept
    <2>3. Iterations(iter)'
        <3>1. /\ iter[1].lev # -1 /\ iter[0].type = iter[1].type + 1
              /\ IsSlice(iter[1].type, iter[0].ran) /\ ts_ran_overlap(view, iter[0].ran)
              /\ iter[1].type = SlicingType(view) /\ iter[1].ran = view
              /\ iter[1].lev < iter[1].type /\ iter[1].year \in 1..(LastYear + 1)
            BY <1>1, <1>7 DEF Iterations
        <3>2. QED
            BY <1>2, <1>5, <2>1, <3>1 DEF Iterations
    <2>4. Different(iter')
        BY <1>1, <1>2, <1>3, <1>7, <2>1 DEF Different
    <2>5. Covers(items, iter, calls)'
        <3>1. ASSUME iter'[1].type < DAY, NEW t \in Int, In(t, y.ran) PROVE CoveredBy(calls', t) \/ Ahead(items', y, t)
            <4>1. CoveredBy(calls, t) \/ Ahead(items, x, t)
                BY <1>1, <1>2, <1>7, <2>1, <3>1 DEF Covers
            <4>2. QED
                BY <1>2, <1>4, <2>1, <3>1, <4>1
        <3>2. ASSUME NEW t \in Int, In(t, view)
              PROVE  CoveredBy(calls', t) \/ Ahead(items', iter'[1], t) \/ In(t, y.ran)
            <4>1. CoveredBy(calls, t) \/ Ahead(items, iter[1], t) \/ In(t, x.ran)
                BY <1>1, <2>1, <3>2 DEF Covers
            <4>2. QED
                BY <1>2, <2>2, <4>1
        <3>3. QED
            BY <1>2, <1>5, <2>1, <3>1, <3>2 DEF Covers
    <2>6. Looping(items', iter'[0], FALSE) /\ Called(items', iter'[0])
        BY <1>2, <1>7, <2>1
    <2>7. QED
        BY <1>2, <1>5, <1>6, <2>2, <2>3, <2>4, <2>5, <2>6 DEF SlicingInv
<1>8. CASE L = 1
    <2>1. iter'[0] = iter[0] /\ iter'[1] = y /\ x = iter[1] /\ iter'[0].lev = -1
        BY <1>2, <1>8
    <2>2. Looping(items', iter'[0], FALSE)
        BY <2>1 DEF Looping, YEAR, DAY
    <2>3. Looping(items', iter'[1], TRUE) /\ Called(items', iter'[1]) /\ Called(items', iter'[0])
        BY <1>2, <1>8, <2>1 DEF Called
    <2>4. Iterations(iter)'
        <3>1. iter[1].type = SlicingType(view) /\ iter[1].ran = view
            BY <1>1, <1>8 DEF Iterations
        <3>2. QED
            BY <1>2, <1>5, <2>1, <3>1 DEF Iterations
    <2>5. Different(iter')
        BY <2>1 DEF Different, Finding, YEAR, DAY
    <2>6. Covers(items, iter, calls)'
        <3>1. ASSUME NEW t \in Int, In(t, view) PROVE CoveredBy(calls', t) \/ Ahead(items', y, t)
            <4>1. CoveredBy(calls, t) \/ Ahead(items, x, t)
                BY <1>1, <1>8, <2>1, <3>1 DEF Covers
            <4>2. x.ran = view
                BY <1>1, <1>8 DEF Iterations
            <4>3. QED
                BY <1>4, <1>8, <3>1, <4>1, <4>2
        <3>2. QED
            BY <1>5, <2>1, <3>1 DEF Covers
    <2>7. QED
        BY <1>2, <1>5, <1>6, <1>8, <2>2, <2>3, <2>4, <2>5, <2>6 DEF SlicingInv
<1>9. QED
    BY <1>7, <1>8

\* The beginning of an item that is being filled is the one of its slice.
LEMMA FillingFrom ==
    ASSUME NEW lev \in YEAR..DAY, NEW item, IsSlice(lev, item.ran), AtStart(Begins(item), lev)
    PROVE  LET b == Begins(item)
           IN  /\ b = Clock[item.ran.fr + 1] /\ IsBegin(lev, b) /\ item.ran = SliceOf(lev, b)
               /\ LastPart(b, lev) \in Nat /\ LastPart(b, lev) >= 1 /\ FirstPart(lev) \in {0, 1}
               /\ lev < DAY => FirstPart(lev) = 1
               /\ lev = DAY => FirstPart(lev) = 0 /\ LastPart(b, lev) = Hours - 1
               /\ simple_date_to_ts(PartDate(b, lev, FirstPart(lev))) = item.ran.fr
               /\ simple_date_to_ts(PartDate(b, lev, LastPart(b, lev) + 1)) = item.ran.to
<1> DEFINE b == Begins(item)
<1>1. b = Clock[item.ran.fr + 1]
    BY DEF Begins, simple_date_from_ts
<1>2. IsBegin(lev, b) /\ item.ran = SliceOf(lev, b)
    BY <1>1, StartOfSlice
<1>3. /\ LastPart(b, lev) \in Nat /\ LastPart(b, lev) >= 1 /\ FirstPart(lev) \in {0, 1}
      /\ (lev < DAY => FirstPart(lev) = 1)
      /\ (lev = DAY => FirstPart(lev) = 0 /\ LastPart(b, lev) = Hours - 1)
      /\ PartDate(b, lev, FirstPart(lev)) = b /\ PartDate(b, lev, LastPart(b, lev) + 1) = NextOf(lev, b)
    BY <1>2, PartDates
<1>4. lev \in YEAR..HOUR
    BY DEF YEAR, DAY, HOUR
<1>5. item.ran.fr = simple_date_to_ts(b) /\ item.ran.to = simple_date_to_ts(NextOf(lev, b))
    BY <1>2, <1>4, SliceTimes
<1>6. QED
    BY <1>1, <1>2, <1>3, <1>5

\* A part is found: it follows the one before, and the item is not complete.
LEMMA FindPartFacts ==
    ASSUME SlicingInv, NEW L \in {0, 1}, FindPart(L)
    PROVE  LET x == iter[L]  lev == x.lev  i == x.id[lev]  item == items[lev][i]  b == Begins(item)  k == x.part[lev]
               part == Part(b, lev, k)
           IN  /\ Finding(x, lev) /\ AtStart(b, lev) /\ k \in FirstPart(lev)..LastPart(b, lev) /\ k \in Int
               /\ k + 1 \in FirstPart(lev)..(LastPart(b, lev) + 1)
               /\ part.fr = FoundTo(items, lev, item)
               /\ part.to = simple_date_to_ts(PartDate(b, lev, k + 1))
               /\ part.fr # part.to => IsSlice(lev + 1, part)
               /\ lev < DAY => part.fr # part.to /\ Within(part, item.ran)
               /\ lev = DAY /\ part.fr = part.to => LeftOut(b[1], b[2], b[3], k)
               /\ lev < DAY => item.n = LastPart(b, lev) /\ Len(item.subs) = k - 1
               /\ lev = DAY => /\ item.n = -1 /\ k \in 0..(Hours - 1)
                               /\ \/ Len(item.subs) = k
                                  \/ Len(item.subs) = k - 1 /\ \E h \in 0..(k - 1) : LeftOut(b[1], b[2], b[3], h)
               /\ ~Complete(items, lev, item) /\ lev \in YEAR..DAY
               /\ IsDate(b)
<1> DEFINE x == iter[L]  lev == x.lev  i == x.id[lev]  item == items[lev][i]  b == Begins(item)  k == x.part[lev]
           part == Part(b, lev, k)
<1>1. InItem(L) /\ x.finds[lev] /\ Here(L) <= LastPart(Begins(Item(L)), lev)
    BY DEF FindPart
<1>2. /\ x \in IterSet /\ lev \in YEAR..DAY /\ Item(L) = item /\ Here(L) = k
      /\ LoopAt(items, x, lev, L = 1) /\ IsSlice(lev, item.ran)
      /\ Len(item.subs) \in Nat /\ item.n \in Int
    BY <1>1, InLoop
<1>3. Filling(items, lev, item, k)
    BY <1>1, <1>2 DEF LoopAt
<1>4. /\ AtStart(b, lev) /\ k \in FirstPart(lev)..(LastPart(b, lev) + 1)
      /\ FoundTo(items, lev, item) = simple_date_to_ts(PartDate(b, lev, k))
      /\ (lev < DAY => item.n = LastPart(b, lev) /\ Len(item.subs) = k - 1)
      /\ (lev = DAY => /\ item.n = -1
                       /\ \/ Len(item.subs) = k
                          \/ Len(item.subs) = k - 1 /\ \E h \in 0..(k - 1) : LeftOut(b[1], b[2], b[3], h))
    BY <1>3 DEF Filling
<1>5. /\ IsBegin(lev, b) /\ item.ran = SliceOf(lev, b)
      /\ LastPart(b, lev) \in Nat /\ LastPart(b, lev) >= 1 /\ FirstPart(lev) \in {0, 1}
      /\ (lev < DAY => FirstPart(lev) = 1)
      /\ (lev = DAY => FirstPart(lev) = 0 /\ LastPart(b, lev) = Hours - 1)
    BY <1>2, <1>4, FillingFrom
<1>6. k <= LastPart(b, lev)
    BY <1>1, <1>2
<1> HIDE DEF part, b, item, i, k
<1>7. k \in FirstPart(lev)..LastPart(b, lev) /\ k \in Int /\ k + 1 \in FirstPart(lev)..(LastPart(b, lev) + 1)
    BY <1>4, <1>5, <1>6
<1>8. /\ Part(b, lev, k).fr = simple_date_to_ts(PartDate(b, lev, k))
      /\ Part(b, lev, k).to = simple_date_to_ts(PartDate(b, lev, k + 1))
      /\ (Part(b, lev, k).fr # Part(b, lev, k).to => IsSlice(lev + 1, Part(b, lev, k)))
      /\ (lev < DAY => /\ Part(b, lev, k).fr # Part(b, lev, k).to
                       /\ Within(Part(b, lev, k), SliceOf(lev, b)))
      /\ (lev = DAY /\ Part(b, lev, k).fr = Part(b, lev, k).to => LeftOut(b[1], b[2], b[3], k))
    <2>1. lev \in YEAR..DAY /\ IsBegin(lev, b) /\ k \in FirstPart(lev)..LastPart(b, lev)
        BY <1>2, <1>5, <1>7
    <2>2. QED
        BY <2>1, PartSlices
<1>9. ~Complete(items, lev, item)
    <2>1. CASE lev < DAY
        <3>1. item.n # Len(item.subs)
            BY <1>2, <1>4, <1>5, <1>6, <1>7, <2>1
        <3>2. QED
            BY <3>1 DEF Complete
    <2>2. CASE lev = DAY
        <3>1. item.n # Len(item.subs)
            BY <1>2, <1>4, <2>2
        <3>2. QED
            BY <3>1 DEF Complete
    <2>3. QED
        BY <1>2, <2>1, <2>2 DEF YEAR, DAY
<1>10. lev = DAY => k \in 0..(Hours - 1)
    BY <1>5, <1>7
<1>11. Finding(x, lev)
    BY <1>1, <1>2 DEF Finding
<1>12. IsDate(b)
    BY <1>5 DEF IsBegin
<1>13. QED
    BY <1>2, <1>4, <1>5, <1>7, <1>8, <1>9, <1>10, <1>11, <1>12 DEF part, b, item, i, k

\* The parts of the slices of the first iteration are days at most.

\* A part that is not empty is found: it is entered in the item, and called next.
LEMMA FindPartSome ==
    ASSUME SlicingInv, NEW L \in {0, 1}, FindPart(L),
           Part(Begins(Item(L)), iter[L].lev, Here(L)).fr # Part(Begins(Item(L)), iter[L].lev, Here(L)).to
    PROVE  failed' = FALSE /\ calls' = calls /\ \E y : TurnInv(L, iter[L].lev, iter[L].id[iter[L].lev], y)
<1> DEFINE x == iter[L]  lev == x.lev  i == x.id[lev]  item == items[lev][i]  b == Begins(item)  k == x.part[lev]
           part == Part(b, lev, k)  J1 == get_or_create(lev + 1, part)  n == IdOf(lev + 1, part)
           J == AddSub(J1, lev, i, n)  c == L = 1
<1>1. /\ x \in IterSet /\ lev \in YEAR..DAY /\ lev \in YEAR..HOUR /\ lev < x.type /\ (L = 1 => x.type <= DAY)
      /\ x.year \in 1..(LastYear + 1) /\ x.next = 0 /\ lev # -1
      /\ i \in DOMAIN items[lev] /\ i \in Nat /\ LoopAt(items, x, lev, c) /\ Looping(items, x, c)
      /\ IsSlice(lev, item.ran) /\ Chain(items, lev, item)
      /\ (L = 1 => iter[0].lev = -1)
    BY InLoop DEF FindPart
<1>2. /\ Finding(x, lev) /\ AtStart(b, lev) /\ k \in Int
      /\ k + 1 \in FirstPart(lev)..(LastPart(b, lev) + 1)
      /\ part.fr = FoundTo(items, lev, item)
      /\ part.to = simple_date_to_ts(PartDate(b, lev, k + 1))
      /\ (part.fr # part.to => IsSlice(lev + 1, part))
      /\ (lev < DAY => Within(part, item.ran))
      /\ (lev < DAY => item.n = LastPart(b, lev) /\ Len(item.subs) = k - 1)
      /\ (lev = DAY => /\ item.n = -1 /\ k \in 0..(Hours - 1)
                       /\ \/ Len(item.subs) = k
                          \/ Len(item.subs) = k - 1 /\ \E h \in 0..(k - 1) : LeftOut(b[1], b[2], b[3], h))
      /\ ~Complete(items, lev, item)
    BY FindPartFacts
<1>3. part.fr # part.to
    BY DEF Item, Here
<1>4. /\ items' = J /\ failed' = Mismatch(lev + 1, part) /\ calls' = calls
      /\ iter' = PartNextTurn(iter, L, lev, n)
    BY <1>3 DEF FindPart, PartNextTurn, AddSub, Item, Here
<1>5. /\ x = iter[L] /\ lev = x.lev /\ i = x.id[lev] /\ item = items[lev][i] /\ k = x.part[lev] /\ b = Begins(item)
      /\ ~failed /\ (L = 1 => c = TRUE) /\ c \in BOOLEAN /\ (L = 0 \/ L = 1)
    BY DEF FindPart, InItem, Loops, Runs
<1> HIDE DEF x, lev, i, item, k, b, c, J1, n, part, J
<1>6. items \in Vectors /\ Slices(items) /\ iter \in Iters /\ Parted(items)
    BY DEF SlicingInv
<1>7. lev + 1 \in YEAR..HOUR /\ IsSlice(lev + 1, part)
    BY <1>1, <1>2, <1>3 DEF YEAR, DAY, HOUR
<1>8. /\ J1 \in Vectors /\ Slices(J1) /\ Grows(items, J1) /\ ~Mismatch(lev + 1, part)
      /\ (\A l \in YEAR..HOUR : \A j \in DOMAIN items[l] : J1[l][j] = items[l][j])
      /\ (\A l \in YEAR..HOUR : \A j \in DOMAIN J1[l] :
              j \in DOMAIN items[l] \/ (l = lev + 1 /\ Fresh(J1[l][j]) /\ J1[l][j].ran = part))
      /\ n \in DOMAIN J1[lev + 1] /\ n \in Nat /\ n # 0 /\ J1[lev + 1][n].ran = part
    BY <1>6, <1>7, GetOrCreate DEF J1, n
<1>9. J1[lev][i] = item /\ i \in DOMAIN J1[lev]
    BY <1>5, <1>1, <1>8 DEF Grows
<1>10. /\ OneChanged(J1, J, lev, i) /\ Grows(J1, J) /\ Slices(J)
       /\ J[lev][i].n = J1[lev][i].n /\ J[lev][i].subs = Append(J1[lev][i].subs, n)
    <2>1. J = AddSub(J1, lev, i, n)
        BY DEF J
    <2>2. J1 \in Vectors /\ Slices(J1) /\ lev \in YEAR..HOUR /\ i \in DOMAIN J1[lev] /\ n \in Nat
        BY <1>1, <1>8, <1>9
    <2>3. QED
        BY <2>1, <2>2, AddedSub
<1>11. Step(items, J, lev, i)
    <2>1. \A m \in YEAR..HOUR : \A j \in DOMAIN J1[m] : j \in DOMAIN items[m] \/ Fresh(J1[m][j])
        BY <1>8
    <2>2. QED
        BY <1>1, <1>6, <1>8, <1>10, <2>1, StepComposed
<1>12. J \in Vectors /\ Grows(items, J) /\ n \in DOMAIN J[lev + 1] /\ J[lev + 1][n].ran = part
    BY <1>7, <1>8, <1>10, <1>11 DEF Step, Grows
<1>13. J[lev][i].n = item.n /\ J[lev][i].subs = Append(item.subs, n) /\ J[lev][i].ran = item.ran
    <2>1. J[lev][i].n = item.n
        BY <1>9, <1>10
    <2>2. J[lev][i].subs = Append(item.subs, n)
        BY <1>9, <1>10
    <2>3. J[lev][i].ran = item.ran
        BY <1>5, <1>1, <1>12 DEF Grows
    <2>4. QED
        BY <2>1, <2>2, <2>3
<1>14. /\ Chain(J, lev, J[lev][i]) /\ FoundTo(J, lev, J[lev][i]) = part.to
       /\ J[lev][i].subs # <<>> /\ LastRan(J, lev, i) = part
    <2>1. J[lev][i].subs = Append(items[lev][i].subs, n) /\ J[lev + 1][n].ran.fr = FoundTo(items, lev, items[lev][i])
          /\ Chain(items, lev, items[lev][i])
        BY <1>5, <1>1, <1>2, <1>12, <1>13
    <2>2. items \in Vectors /\ J \in Vectors /\ Grows(items, J) /\ lev \in YEAR..DAY /\ i \in DOMAIN items[lev]
          /\ n \in Nat /\ n \in DOMAIN J[lev + 1]
        BY <1>1, <1>6, <1>8, <1>12
    <2>3. /\ Chain(J, lev, J[lev][i]) /\ FoundTo(J, lev, J[lev][i]) = J[lev + 1][n].ran.to
          /\ J[lev][i].subs # <<>> /\ LastRan(J, lev, i) = J[lev + 1][n].ran
        BY <2>1, <2>2, ChainAppended
    <2>4. QED
        BY <1>12, <2>3
<1>15. Parted(J)
    <2>1. lev # HOUR
        BY <1>1 DEF DAY, HOUR
    <2>2. QED
        BY <1>6, <1>11, <1>14, <2>1, StepParted
<1>16. PICK y \in IterSet : /\ Goes(iter, iter', L, y, iter[L].lev, iter[L].year, n)
                            /\ LoopIs(iter[L], y, lev, iter[L].id[lev], iter[L].part[lev] + 1, iter[L].finds[lev])
    <2>1. iter \in Iters /\ lev \in YEAR..DAY /\ n \in Nat /\ iter' = PartNextTurn(iter, L, lev, n)
        BY <1>1, <1>4, <1>6, <1>8
    <2>2. QED
        BY <2>1, PartNextTurned
<1>17. /\ Turned(iter, iter', L, y) /\ Alike(x, y) /\ y.lev = lev
       /\ y.year = x.year /\ y.next = n
       /\ \A m \in YEAR..DAY : m # lev => SameLoop(x, y, m)
       /\ y.id[lev] = i /\ y.finds[lev] = x.finds[lev] /\ y.part[lev] = k + 1
    BY <1>5, <1>16 DEF Goes, LoopIs
<1>18. Filling(J, lev, J[lev][i], k + 1)
    <2> DEFINE v == J[lev][i]
    <2>1. Begins(v) = b
        BY <1>5, <1>13 DEF Begins
    <2>2. item.subs \in Seq(Nat) /\ Len(v.subs) = Len(item.subs) + 1
        <3>1. item.subs \in Seq(Nat)
            BY <1>5, <1>1, <1>6, VectorFacts
        <3>2. QED
            BY <1>8, <1>13, <3>1
    <2>3. lev < DAY => v.n = LastPart(b, lev) /\ Len(v.subs) = (k + 1) - 1
        BY <1>2, <1>13, <2>2
    <2>4. ASSUME lev = DAY
          PROVE  /\ v.n = -1
                 /\ \/ Len(v.subs) = k + 1
                    \/ Len(v.subs) = (k + 1) - 1 /\ \E h \in 0..((k + 1) - 1) : LeftOut(b[1], b[2], b[3], h)
        <3>1. CASE Len(item.subs) = k
            BY <1>2, <1>13, <2>2, <2>4, <3>1
        <3>2. CASE Len(item.subs) = k - 1 /\ \E h \in 0..(k - 1) : LeftOut(b[1], b[2], b[3], h)
            <4>1. PICK h \in 0..(k - 1) : LeftOut(b[1], b[2], b[3], h)
                BY <3>2
            <4>2. h \in 0..((k + 1) - 1)
                BY <1>2
            <4>3. Len(v.subs) = (k + 1) - 1
                BY <1>2, <2>2, <3>2
            <4>4. QED
                BY <1>2, <1>13, <2>4, <4>1, <4>2, <4>3
        <3>3. QED
            BY <1>2, <2>4, <3>1, <3>2
    <2>5. AtStart(b, lev) /\ FoundTo(J, lev, v) = simple_date_to_ts(PartDate(b, lev, k + 1))
        BY <1>2, <1>14
    <2> HIDE DEF v
    <2>6. k + 1 \in FirstPart(lev)..(LastPart(b, lev) + 1)
        BY <1>2
    <2>7. Filling(J, lev, v, k + 1)
        BY <2>1, <2>3, <2>4, <2>5, <2>6 DEF Filling
    <2>8. QED
        BY <2>7 DEF v
<1>19. i \in DOMAIN J[lev]
    BY <1>1, <1>12 DEF Grows
<1>20. x.finds[lev] /\ lev <= x.lev /\ x.lev = lev /\ lev \in Int
    <2>1. x.finds[lev] /\ lev <= x.lev /\ x.lev = lev
        BY <1>5, <1>2 DEF Finding
    <2>2. lev \in Int
        BY <1>1 DEF YEAR, DAY
    <2>3. QED
        BY <2>1, <2>2
<1>21. LoopAt(J, y, lev, c)
    BY <1>17, <1>18, <1>19, <1>20 DEF LoopAt
<1>22. ASSUME NEW m \in YEAR..DAY, m <= lev, m # lev
       PROVE  LoopAt(J, y, m, c) /\ \A t : AheadIn(items, x, m, t) => AheadIn(J, y, m, t)
    <2>1. LoopAt(items, x, m, c)
        BY <1>1, <1>20, <1>22 DEF Looping
    <2>2. QED
        <3>1. items \in Vectors /\ Parted(items) /\ Step(items, J, lev, i) /\ c \in BOOLEAN
            BY <1>5, <1>6, <1>11
        <3>2. m \in YEAR..DAY /\ SameLoop(x, y, m) /\ (m # lev \/ x.id[m] # i)
            BY <1>17, <1>22
        <3>3. QED
            BY <2>1, <3>1, <3>2, LoopKept
<1>23. Looping(J, y, c)
    BY <1>17, <1>21, <1>22 DEF Looping
<1>24. Called(J, y)
    BY <1>12, <1>17 DEF Called
<1>25. \A m \in YEAR..DAY : Finding(y, m) <=> Finding(x, m)
    BY <1>17, <1>20 DEF Finding, SameLoop
<1>26. \A m \in YEAR..DAY : y.id[m] = x.id[m]
    BY <1>5, <1>17 DEF SameLoop
<1>27. Status(J, iter')
    <2>1. Status(items, iter) /\ x = iter[L]
        BY <1>5 DEF SlicingInv
    <2>2. Finding(y, lev) /\ y.id[lev] = i
        BY <1>1, <1>2, <1>17, <1>25
    <2>3. QED
        BY <1>6, <1>11, <1>17, <1>25, <1>26, <2>1, <2>2, StepStatus
<1>28. L = 0 /\ lev \in YEAR..DAY /\ Finding(iter[1], lev) => iter[1].id[lev] # i
    BY ZenonT(60), <1>5, <1>1, <1>2 DEF SlicingInv, Different
<1>29. ASSUME NEW t \in Int, In(t, x.ran), Ahead(items, x, t) PROVE Ahead(J, y, t)
    <2>1. CASE YearStart(x.year) <= t
        BY <1>1, <1>17, <2>1 DEF Ahead
    <2>2. CASE x.next # 0
        BY <1>1, <2>2
    <2>3. CASE \E m \in YEAR..DAY : m <= x.lev /\ AheadIn(items, x, m, t)
        <3>1. PICK m \in YEAR..DAY : m <= x.lev /\ AheadIn(items, x, m, t)
            BY <2>3
        <3>2. CASE m # lev
            BY <1>1, <1>17, <1>20, <1>22, <3>1, <3>2 DEF Ahead
        <3>3. CASE m = lev
            <4>1. In(t, item.ran) /\ part.fr <= t
                BY <1>5, <1>2, <1>20, <3>1, <3>3 DEF AheadIn
            <4>2. part.fr \in Nat /\ part.to \in Nat
                BY <1>7, SliceFacts
            <4>3. CASE t < part.to
                <5>1. In(t, J[y.lev + 1][y.next].ran)
                    BY <1>12, <1>17, <4>1, <4>3 DEF In
                <5>2. QED
                    BY <1>1, <1>8, <1>17, <5>1 DEF Ahead
            <4>4. CASE ~(t < part.to)
                <5>1. part.to <= t
                    BY <4>2, <4>4
                <5>2. AheadIn(J, y, lev, t)
                    BY <1>13, <1>14, <1>17, <1>20, <4>1, <5>1 DEF AheadIn
                <5>3. QED
                    BY <1>1, <1>17, <1>20, <5>2 DEF Ahead
            <4>5. QED
                BY <4>3, <4>4
        <3>4. QED
            BY <3>2, <3>3
    <2>4. QED
        BY <1>29, <2>1, <2>2, <2>3 DEF Ahead
<1>30. ASSUME L = 1 PROVE Nested(J, iter')
    <2>1. iter'[1] = y /\ iter'[0].lev = -1 /\ lev < DAY /\ x = iter[1]
        <3>1. lev < DAY
            <4>1. x.type \in Int /\ x.type <= DAY /\ lev < x.type
                BY <1>1, <1>30 DEF IterSet, YEAR, HOUR
            <4>2. QED
                BY <1>20, <4>1 DEF DAY
        <3>2. QED
            BY <1>5, <1>1, <1>17, <1>30, <3>1 DEF Turned
    <2>2. Nested(items, iter)
        BY <1>5 DEF SlicingInv
    <2>3. Within(part, item.ran) /\ part.fr \in Nat /\ part.to \in Nat /\ item.ran.fr \in Nat /\ item.ran.to \in Nat
        BY <1>1, <1>2, <1>7, <2>1, SliceFacts
    <2> SUFFICES ASSUME NEW l \in YEAR..DAY, Finding(y, l)
                 PROVE  /\ \A m \in YEAR..DAY : l < m /\ m <= lev => InLast(J, y, l, J[m][y.id[m]].ran)
                        /\ InLast(J, y, l, part)
        BY <1>12, <1>17, <2>1 DEF Nested
    <2>4. l <= lev /\ Finding(x, l)
        BY <1>17, <1>25 DEF Finding
    <2>5. CASE l = lev
        <3>1. \A m \in YEAR..DAY : ~(l < m /\ m <= lev)
            BY <2>5
        <3>2. InLast(J, y, l, part)
            BY <1>14, <1>17, <2>3, <2>5 DEF InLast, Within
        <3>3. QED
            BY <3>1, <3>2
    <2>6. CASE l # lev
        <3>1. l < lev /\ LoopAt(items, x, l, TRUE) /\ x.id[l] \in DOMAIN items[l]
            <4>1. l < lev /\ l <= x.lev
                BY <1>20, <2>4, <2>6 DEF YEAR, DAY
            <4>2. Looping(items, x, TRUE)
                BY <1>5, <1>1, <1>30
            <4>3. LoopAt(items, x, l, TRUE)
                BY <4>1, <4>2 DEF Looping
            <4>4. QED
                BY <4>1, <4>3 DEF LoopAt
        <3> DEFINE j == x.id[l]
        <3>2. J[l][j] = items[l][j] /\ \A q \in DOMAIN items[l][j].subs : PartRan(J, l, J[l][j], q) = PartRan(items, l, items[l][j], q)
            BY <1>6, <1>11, <2>6, <3>1, ItemKept
        <3>3. items[l][j].subs # <<>> => Len(items[l][j].subs) \in DOMAIN items[l][j].subs
            <4>1. items[l][j].subs \in Seq(Nat)
                <5>1. l \in YEAR..HOUR
                    BY DEF YEAR, DAY, HOUR
                <5>2. QED
                    BY <1>6, <3>1, <5>1, VectorFacts
            <4>2. QED
                BY <4>1
        <3>4. \A ran : InLast(items, x, l, ran) => InLast(J, y, l, ran)
            BY <1>26, <3>2, <3>3 DEF InLast, LastRan
        <3>5. ASSUME NEW m \in YEAR..DAY, l < m, m <= lev PROVE InLast(J, y, l, J[m][y.id[m]].ran)
            <4>1. m \in YEAR..HOUR /\ x.id[m] \in DOMAIN items[m]
                BY <1>1, <1>20, <3>5 DEF Looping, LoopAt, YEAR, DAY, HOUR
            <4>2. J[m][y.id[m]].ran = items[m][x.id[m]].ran
                BY <1>12, <1>26, <4>1 DEF Grows
            <4>3. InLast(items, x, l, items[m][x.id[m]].ran)
                BY <1>20, <2>1, <2>2, <2>4, <3>5 DEF Nested
            <4>4. QED
                BY <3>4, <4>2, <4>3
        <3>6. InLast(J, y, l, part)
            <4>1. InLast(items, x, l, item.ran)
                BY <1>5, <1>1, <1>20, <2>1, <2>2, <2>4, <3>1 DEF Nested
            <4>2. Within(part, LastRan(items, l, j)) /\ items[l][j].subs # <<>>
                <5>1. Within(item.ran, LastRan(items, l, j)) /\ items[l][j].subs # <<>>
                    BY <4>1 DEF InLast
                <5>2. LastRan(items, l, j).fr \in Nat /\ LastRan(items, l, j).to \in Nat
                    <6>1. Len(items[l][j].subs) \in DOMAIN items[l][j].subs
                        BY <3>3, <5>1
                    <6>2. items[l][j].subs[Len(items[l][j].subs)] \in DOMAIN items[l + 1] /\ l + 1 \in YEAR..HOUR
                        BY <1>6, <3>1, <6>1 DEF Parted, Chain, YEAR, DAY, HOUR
                    <6>3. QED
                        BY <1>6, <6>2, VectorFacts DEF LastRan, PartRan
                <5>3. QED
                    BY <2>3, <5>1, <5>2 DEF Within
            <4>3. InLast(items, x, l, part)
                BY <4>2 DEF InLast
            <4>4. QED
                BY <3>4, <4>3
        <3>7. QED
            BY <3>5, <3>6
    <2>7. QED
        BY <2>5, <2>6
<1>31. TurnInv(L, lev, i, y)
    <2>1. \A m \in YEAR..DAY : Finding(y, m) => (Finding(x, m) /\ y.id[m] = x.id[m]) \/ (m = lev /\ y.id[m] = i)
        BY <1>25, <1>26
    <2>2. y.lev # -1 /\ y.lev < y.type /\ y.year \in 1..(LastYear + 1)
        BY <1>1, <1>17 DEF Alike
    <2>3. lev \in YEAR..DAY /\ i \in DOMAIN items[lev] => ~Complete(items, lev, items[lev][i])
        BY <1>5, <1>2
    <2>4. items' = J
        BY <1>4
    <2>5. Turned(iter, iter', L, y) /\ Alike(x, y)
        BY <1>17
    <2>6. x = iter[L] /\ (c <=> L = 1)
        BY <1>5 DEF c
    <2>7. QED
        BY <1>11, <1>15, <1>23, <1>24, <1>27, <1>28, <1>29, <1>30, <2>1, <2>2, <2>3, <2>4, <2>5, <2>6 DEF TurnInv
<1>32. failed' = FALSE /\ calls' = calls
    BY <1>4, <1>8
<1>33. QED
    BY <1>31, <1>32 DEF lev, x, i

\* A loop that stays where it is.
LEMMA LoopStays ==
    ASSUME NEW I, NEW x, NEW y, NEW m \in YEAR..DAY, SameLoop(x, y, m), NEW c
    PROVE  /\ LoopAt(I, x, m, c) => LoopAt(I, y, m, c)
           /\ \A t : AheadIn(I, x, m, t) => AheadIn(I, y, m, t)
BY DEF SameLoop, LoopAt, AheadIn

\* A turn in which the items stay as they are.
LEMMA TurnOnly ==
    ASSUME SlicingInv, ~failed, NEW L \in {0, 1}, NEW y, items' = items,
           Turned(iter, iter', L, y), Alike(iter[L], y), y.lev # -1, y.lev < y.type, y.year \in 1..(LastYear + 1),
           Looping(items, y, L = 1), Called(items, y),
           \A m \in YEAR..DAY : Finding(y, m) => Finding(iter[L], m) /\ y.id[m] = iter[L].id[m],
           \A m \in YEAR..DAY : Finding(iter[L], m) /\ ~Finding(y, m) => Complete(items, m, items[m][iter[L].id[m]]),
           L = 1 => Nested(items, iter'),
           L = 1 \/ iter[1].type < DAY =>
               \A t \in Int : In(t, iter[L].ran) /\ Ahead(items, iter[L], t) => Ahead(items, y, t) \/ CoveredBy(calls', t)
    PROVE  TurnInv(L, 0, 0, y)
<1>1. items \in Vectors /\ iter \in Iters /\ Slices(items) /\ Parted(items) /\ Status(items, iter)
    BY DEF SlicingInv
<1>2. Step(items, items, 0, 0)
    BY <1>1, NoStep
<1>3. 0 \notin YEAR..DAY
    BY DEF YEAR, DAY
<1>4. \A m \in YEAR..DAY : Finding(iter[L], m) /\ ~(Finding(y, m) /\ y.id[m] = iter[L].id[m]) =>
          Complete(items, m, items[m][iter[L].id[m]])
    OBVIOUS
<1>5. Status(items, iter')
    BY <1>1, <1>2, <1>3, <1>4, StepStatus
<1>6. QED
    BY <1>1, <1>2, <1>3, <1>5 DEF TurnInv

\* What the first iteration has left behind, or gone over, stays nested.
LEMMA NestedStays ==
    ASSUME NEW I, NEW it, NEW jt, Nested(I, it), jt[0].lev = -1,
           \A m \in YEAR..DAY : Finding(jt[1], m) => Finding(it[1], m) /\ jt[1].id[m] = it[1].id[m],
           \A l \in YEAR..DAY, m \in YEAR..DAY : Finding(jt[1], l) /\ l < m /\ m <= jt[1].lev =>
               \/ m <= it[1].lev /\ jt[1].id[m] = it[1].id[m]
               \/ InLast(I, it[1], l, I[m][jt[1].id[m]].ran),
           jt[1].next # 0 => \A l \in YEAR..DAY : Finding(jt[1], l) => InLast(I, it[1], l, I[jt[1].lev + 1][jt[1].next].ran)
    PROVE  Nested(I, jt)
<1> SUFFICES ASSUME NEW l \in YEAR..DAY, Finding(jt[1], l)
             PROVE  /\ \A m \in YEAR..DAY : l < m /\ m <= jt[1].lev => InLast(I, jt[1], l, I[m][jt[1].id[m]].ran)
                    /\ jt[1].next # 0 => InLast(I, jt[1], l, I[jt[1].lev + 1][jt[1].next].ran)
    BY DEF Nested
<1>1. Finding(it[1], l) /\ \A ran : InLast(I, it[1], l, ran) => InLast(I, jt[1], l, ran)
    BY DEF InLast
<1>2. QED
    BY <1>1 DEF Nested

\* Of an hour that is left out nothing is found.
LEMMA FindPartNone ==
    ASSUME SlicingInv, NEW L \in {0, 1}, FindPart(L),
           Part(Begins(Item(L)), iter[L].lev, Here(L)).fr = Part(Begins(Item(L)), iter[L].lev, Here(L)).to
    PROVE  failed' = FALSE /\ calls' = calls /\ \E y : TurnInv(L, 0, 0, y)
<1> DEFINE x == iter[L]  lev == x.lev  i == x.id[lev]  item == items[lev][i]  b == Begins(item)  k == x.part[lev]
           part == Part(b, lev, k)  c == L = 1
<1>1. /\ x \in IterSet /\ lev \in YEAR..DAY /\ lev \in YEAR..HOUR /\ lev < x.type /\ (L = 1 => x.type <= DAY)
      /\ x.year \in 1..(LastYear + 1) /\ x.next = 0 /\ lev # -1
      /\ i \in DOMAIN items[lev] /\ LoopAt(items, x, lev, c) /\ Looping(items, x, c)
    BY InLoop DEF FindPart
<1>2. /\ Finding(x, lev) /\ AtStart(b, lev) /\ k \in FirstPart(lev)..LastPart(b, lev) /\ k \in Int
      /\ k + 1 \in FirstPart(lev)..(LastPart(b, lev) + 1)
      /\ part.fr = FoundTo(items, lev, item)
      /\ part.to = simple_date_to_ts(PartDate(b, lev, k + 1))
      /\ (lev < DAY => part.fr # part.to)
      /\ (lev = DAY /\ part.fr = part.to => LeftOut(b[1], b[2], b[3], k))
      /\ (lev = DAY => /\ item.n = -1 /\ k \in 0..(Hours - 1)
                       /\ \/ Len(item.subs) = k
                          \/ Len(item.subs) = k - 1 /\ \E h \in 0..(k - 1) : LeftOut(b[1], b[2], b[3], h))
      /\ IsDate(b)
    BY FindPartFacts
<1>3. part.fr = part.to
    BY DEF Item, Here
<1>4. items' = items /\ failed' = (lev # DAY) /\ calls' = calls /\ iter' = PartTurn(iter, L, lev)
    BY <1>3 DEF FindPart, PartTurn, Item, Here
<1>5. /\ x = iter[L] /\ lev = x.lev /\ i = x.id[lev] /\ item = items[lev][i] /\ k = x.part[lev] /\ b = Begins(item)
      /\ ~failed /\ (L = 1 => c = TRUE) /\ c \in BOOLEAN /\ (L = 0 \/ L = 1)
    BY DEF FindPart, InItem, Loops, Runs
<1> HIDE DEF x, lev, i, item, k, b, c, part
<1>6. items \in Vectors /\ iter \in Iters
    BY DEF SlicingInv
<1>7. lev = DAY /\ LeftOut(b[1], b[2], b[3], k) /\ L = 0
    <2>1. lev = DAY
        BY <1>1, <1>2, <1>3 DEF YEAR, DAY
    <2>2. x.type \in Int
        BY <1>1 DEF IterSet, YEAR, HOUR
    <2>3. L # 1
        BY <1>1, <2>1, <2>2 DEF DAY
    <2>4. QED
        BY <1>2, <1>3, <2>1, <2>3
<1>8. Len(item.subs) = k
    <2> SUFFICES ASSUME Len(item.subs) = k - 1 /\ \E h \in 0..(k - 1) : LeftOut(b[1], b[2], b[3], h) PROVE FALSE
        BY <1>2, <1>7
    <2>1. PICK h \in 0..(k - 1) : LeftOut(b[1], b[2], b[3], h)
        OBVIOUS
    <2>2. h \in 0..(Hours - 1) /\ k \in 0..(Hours - 1) /\ h # k
        <3>1. Hours \in Nat
            BY ClockAssumption
        <3>2. k \in 0..(Hours - 1)
            BY <1>2, <1>7
        <3>3. QED
            BY <3>1, <3>2
    <2>3. b[1] \in 1..LastYear /\ b[2] \in 1..Months /\ b[3] \in 1..Days[<<b[1], b[2]>>]
        BY <1>2 DEF IsDate, YEAR, MONTH, DAY
    <2>4. QED
        BY <1>7, <2>1, <2>2, <2>3, ClockAssumption
<1>9. PICK y \in IterSet : /\ Goes(iter, iter', L, y, iter[L].lev, iter[L].year, iter[L].next)
                           /\ LoopIs(iter[L], y, lev, iter[L].id[lev], iter[L].part[lev] + 1, iter[L].finds[lev])
    <2>1. iter \in Iters /\ lev \in YEAR..DAY /\ iter' = PartTurn(iter, L, lev)
        BY <1>1, <1>4, <1>6
    <2>2. QED
        BY <2>1, PartTurned
<1>10. /\ Turned(iter, iter', L, y) /\ Alike(x, y) /\ y.lev = lev /\ y.year = x.year /\ y.next = x.next
       /\ \A m \in YEAR..DAY : m # lev => SameLoop(x, y, m)
       /\ y.id[lev] = i /\ y.finds[lev] = x.finds[lev] /\ y.part[lev] = k + 1
    BY <1>5, <1>9 DEF Goes, LoopIs
<1>11. x.finds[lev] /\ lev <= x.lev /\ x.lev = lev
    BY <1>5, <1>2 DEF Finding
<1>12. Filling(items, lev, item, k + 1)
    <2>1. FoundTo(items, lev, item) = simple_date_to_ts(PartDate(b, lev, k + 1))
        BY <1>2, <1>3
    <2>2. Len(item.subs) = (k + 1) - 1 /\ k \in 0..((k + 1) - 1)
        BY <1>2, <1>7, <1>8
    <2>3. item.n = -1 /\ ~(lev < DAY)
        BY <1>2, <1>7 DEF DAY
    <2>4. \E h \in 0..((k + 1) - 1) : LeftOut(b[1], b[2], b[3], h)
        BY <1>7, <2>2
    <2>5. AtStart(b, lev) /\ k + 1 \in FirstPart(lev)..(LastPart(b, lev) + 1) /\ b = Begins(item)
        BY <1>5, <1>2
    <2>6. QED
        BY <2>1, <2>2, <2>3, <2>4, <2>5 DEF Filling
<1>13. LoopAt(items, y, lev, c)
    BY <1>5, <1>1, <1>10, <1>11, <1>12 DEF LoopAt
<1>14. ASSUME NEW m \in YEAR..DAY, m <= lev, m # lev PROVE LoopAt(items, y, m, c)
    <2>1. LoopAt(items, x, m, c)
        BY <1>1, <1>11, <1>14 DEF Looping
    <2>2. QED
        BY <1>10, <1>14, <2>1, LoopStays
<1>15. Looping(items, y, c)
    BY <1>10, <1>13, <1>14 DEF Looping
<1>16. \A m \in YEAR..DAY : (Finding(y, m) <=> Finding(x, m)) /\ y.id[m] = x.id[m]
    <2>1. \A m \in YEAR..DAY : y.id[m] = x.id[m] /\ y.finds[m] = x.finds[m]
        BY <1>5, <1>10 DEF SameLoop
    <2>2. QED
        BY <1>10, <1>11, <2>1 DEF Finding
<1>17. ASSUME NEW t \in Int, Ahead(items, x, t) PROVE Ahead(items, y, t)
    <2>1. ASSUME NEW m \in YEAR..DAY, m <= x.lev, AheadIn(items, x, m, t) PROVE AheadIn(items, y, m, t)
        <3>1. CASE m # lev
            BY <1>10, <2>1, <3>1, LoopStays
        <3>2. CASE m = lev
            BY <1>5, <1>10, <1>11, <2>1, <3>2 DEF AheadIn
        <3>3. QED
            BY <3>1, <3>2
    <2>2. QED
        BY <1>1, <1>10, <1>11, <1>17, <2>1 DEF Ahead
<1>18. Called(items, y)
    BY <1>1, <1>10 DEF Called
<1>19. TurnInv(L, 0, 0, y)
    <2>1. y.lev # -1 /\ y.lev < y.type /\ y.year \in 1..(LastYear + 1)
        BY <1>1, <1>10 DEF Alike
    <2>2. Looping(items, y, L = 1)
        BY <1>15 DEF c
    <2>3. /\ ~failed /\ items' = items /\ Turned(iter, iter', L, y) /\ Alike(iter[L], y) /\ Called(items, y)
          /\ \A m \in YEAR..DAY : Finding(y, m) => Finding(iter[L], m) /\ y.id[m] = iter[L].id[m]
          /\ \A m \in YEAR..DAY : ~(Finding(iter[L], m) /\ ~Finding(y, m))
        BY <1>5, <1>4, <1>10, <1>16, <1>18
    <2>4. \A t \in Int : In(t, iter[L].ran) /\ Ahead(items, iter[L], t) => Ahead(items, y, t) \/ CoveredBy(calls', t)
        BY <1>5, <1>17
    <2>5. L # 1
        BY <1>7
    <2>6. QED
        BY <2>1, <2>2, <2>3, <2>4, <2>5, TurnOnly
<1>20. QED
    BY <1>4, <1>7, <1>19

\* The parts of an item of which only the number has changed.
LEMMA ChainSame ==
    ASSUME NEW I \in Vectors, NEW J, Grows(I, J), NEW m \in YEAR..DAY, NEW j \in DOMAIN I[m],
           Chain(I, m, I[m][j]), J[m][j].subs = I[m][j].subs
    PROVE  Chain(J, m, J[m][j]) /\ FoundTo(J, m, J[m][j]) = FoundTo(I, m, I[m][j])
<1> DEFINE a == I[m][j]  v == J[m][j]
<1>1. m \in YEAR..HOUR /\ m + 1 \in YEAR..HOUR
    BY DEF YEAR, DAY, HOUR
<1>2. v.ran = a.ran /\ v.subs = a.subs /\ Chain(I, m, a)
    BY <1>1 DEF Grows
<1>3. a.subs \in Seq(Nat)
    BY <1>1, VectorFacts
<1> HIDE DEF a, v
<1>4. a.subs # <<>> => 1 \in DOMAIN a.subs /\ Len(a.subs) \in DOMAIN a.subs
    BY <1>3
<1>5. \A k \in DOMAIN a.subs : a.subs[k] \in DOMAIN J[m + 1] /\ PartRan(J, m, v, k) = PartRan(I, m, a, k)
    BY <1>1, <1>2 DEF Chain, Grows, PartRan
<1>6. Chain(J, m, v)
    BY <1>2, <1>4, <1>5 DEF Chain
<1>7. FoundTo(J, m, v) = FoundTo(I, m, a)
    BY <1>2, <1>4, <1>5 DEF FoundTo
<1>8. QED
    BY <1>6, <1>7 DEF a, v

\* All parts are found: the item is complete but for the number of hours.
LEMMA AllFoundFacts ==
    ASSUME SlicingInv, NEW L \in {0, 1}, AllFound(L)
    PROVE  LET x == iter[L]  lev == x.lev  i == x.id[lev]  item == items[lev][i]
           IN  /\ Finding(x, lev) /\ FoundTo(items, lev, item) = item.ran.to /\ item.subs # <<>>
               /\ lev < DAY => item.n = Len(item.subs)
               /\ lev = DAY => item.n = -1 /\ Len(item.subs) \in (Hours - 1)..(Hours + 1)
<1> DEFINE x == iter[L]  lev == x.lev  i == x.id[lev]  item == items[lev][i]  b == Begins(item)  k == x.part[lev]
<1>1. InItem(L) /\ x.finds[lev] /\ Here(L) > LastPart(Begins(Item(L)), lev)
    BY DEF AllFound
<1>2. /\ x \in IterSet /\ lev \in YEAR..DAY /\ Item(L) = item /\ Here(L) = k
      /\ LoopAt(items, x, lev, L = 1) /\ IsSlice(lev, item.ran)
      /\ item.subs \in Seq(Nat) /\ Len(item.subs) \in Nat /\ item.n \in Int
    BY <1>1, InLoop
<1>3. Filling(items, lev, item, k)
    BY <1>1, <1>2 DEF LoopAt
<1>4. /\ AtStart(b, lev) /\ k \in FirstPart(lev)..(LastPart(b, lev) + 1)
      /\ FoundTo(items, lev, item) = simple_date_to_ts(PartDate(b, lev, k))
      /\ (lev < DAY => item.n = LastPart(b, lev) /\ Len(item.subs) = k - 1)
      /\ (lev = DAY => item.n = -1 /\ (Len(item.subs) = k \/ Len(item.subs) = k - 1))
    BY <1>3 DEF Filling
<1>5. /\ LastPart(b, lev) \in Nat /\ LastPart(b, lev) >= 1 /\ FirstPart(lev) \in {0, 1}
      /\ (lev = DAY => LastPart(b, lev) = Hours - 1)
      /\ simple_date_to_ts(PartDate(b, lev, LastPart(b, lev) + 1)) = item.ran.to
    BY <1>2, <1>4, FillingFrom
<1>6. k > LastPart(b, lev)
    BY <1>1, <1>2
<1>7. Finding(x, lev)
    <2> HIDE DEF lev
    <2>1. lev \in YEAR..DAY
        BY <1>2
    <2>2. lev <= lev
        BY <2>1 DEF YEAR, DAY
    <2>3. x.finds[lev] /\ lev <= x.lev
        BY <1>1, <2>2 DEF lev
    <2>4. QED
        BY <2>3 DEF Finding
<1> HIDE DEF b, item, i, k
<1>8. k = LastPart(b, lev) + 1
    BY <1>4, <1>5, <1>6
<1>9. Hours \in Nat \ {0, 1}
    BY ClockAssumption
<1>10. Len(item.subs) >= 1
    <2>1. CASE lev < DAY
        BY <1>4, <1>5, <1>8, <2>1
    <2>2. CASE lev = DAY
        BY <1>2, <1>4, <1>5, <1>8, <1>9, <2>2
    <2>3. QED
        BY <1>2, <2>1, <2>2 DEF YEAR, DAY
<1>11. item.subs # <<>>
    BY <1>2, <1>10
<1>12. lev < DAY => item.n = Len(item.subs)
    BY <1>4, <1>5, <1>8
<1>13. lev = DAY => item.n = -1 /\ Len(item.subs) \in (Hours - 1)..(Hours + 1)
    BY <1>2, <1>4, <1>5, <1>8, <1>9
<1>14. QED
    BY <1>4, <1>5, <1>7, <1>8, <1>11, <1>12, <1>13 DEF item, i

\* The loop over the parts of a year or a month, or of a day, ends.
LEMMA AllFoundTurns ==
    ASSUME SlicingInv, NEW L \in {0, 1}, AllFound(L)
    PROVE  failed' = FALSE /\ calls' = calls /\ \E l, i, y : TurnInv(L, l, i, y)
<1> DEFINE x == iter[L]  lev == x.lev  i == x.id[lev]  item == items[lev][i]  c == L = 1
           J == IF lev = DAY THEN SetNumber(items, lev, i, Len(item.subs)) ELSE items
<1>1. /\ x \in IterSet /\ lev \in YEAR..DAY /\ lev \in YEAR..HOUR /\ lev < x.type /\ (L = 1 => x.type <= DAY)
      /\ x.year \in 1..(LastYear + 1) /\ x.next = 0 /\ lev # -1
      /\ i \in DOMAIN items[lev] /\ LoopAt(items, x, lev, c) /\ Looping(items, x, c)
      /\ Chain(items, lev, item) /\ IsSlice(lev, item.ran) /\ Len(item.subs) \in Nat
      /\ (L = 1 => iter[0].lev = -1)
    BY InLoop DEF AllFound
<1>2. /\ Finding(x, lev) /\ FoundTo(items, lev, item) = item.ran.to /\ item.subs # <<>>
      /\ (lev < DAY => item.n = Len(item.subs))
      /\ (lev = DAY => item.n = -1 /\ Len(item.subs) \in (Hours - 1)..(Hours + 1))
    BY AllFoundFacts
<1>3. items' = J /\ calls' = calls /\ iter' = LoopLeft(iter, L)
      /\ failed' = IF lev = DAY THEN Len(item.subs) \notin (Hours - 1)..(Hours + 1) ELSE Len(item.subs) # item.n
    BY DEF AllFound, LoopLeft, SetNumber, Item
<1>4. /\ x = iter[L] /\ lev = x.lev /\ i = x.id[lev] /\ item = items[lev][i]
      /\ ~failed /\ (L = 1 => c = TRUE) /\ c \in BOOLEAN /\ (L = 0 \/ L = 1)
    BY DEF AllFound, InItem, Loops, Runs
<1> HIDE DEF x, lev, i, item, c, J
<1>5. items \in Vectors /\ iter \in Iters /\ Slices(items) /\ Parted(items) /\ Status(items, iter)
    BY <1>4 DEF SlicingInv
<1>6. lev \in Int /\ (lev < DAY \/ lev = DAY) /\ (L = 1 => lev < DAY)
    <2>1. x.type \in Int
        BY <1>1 DEF IterSet, YEAR, HOUR
    <2>2. QED
        BY <1>1, <2>1 DEF YEAR, DAY
<1>7. failed' = FALSE
    BY <1>2, <1>3, <1>6
<1>8. /\ Step(items, J, lev, i) /\ J[lev][i].subs = item.subs /\ J[lev][i].n = Len(item.subs) /\ J[lev][i].ran = item.ran
      /\ Grows(items, J)
    <2>1. CASE lev = DAY
        <3>1. J = SetNumber(items, lev, i, Len(item.subs)) /\ Len(item.subs) \in Int
            BY <1>1, <2>1 DEF J
        <3>2. /\ OneChanged(items, J, lev, i) /\ Grows(items, J) /\ (Slices(items) => Slices(J))
              /\ J[lev][i].n = Len(item.subs) /\ J[lev][i].subs = items[lev][i].subs
            BY <1>1, <1>5, <3>1, NumberSet
        <3>3. Grows(items, items) /\ \A m \in YEAR..HOUR : \A j \in DOMAIN items[m] : j \in DOMAIN items[m] \/ Fresh(items[m][j])
            BY DEF Grows
        <3>4. Step(items, J, lev, i)
            BY <1>1, <1>5, <3>2, <3>3, StepComposed
        <3>5. J[lev][i].ran = item.ran
            BY <1>4, <1>1, <3>2 DEF Grows
        <3>6. QED
            BY <1>4, <3>2, <3>4, <3>5
    <2>2. CASE lev # DAY
        <3>1. J = items /\ Grows(items, items)
            BY <2>2 DEF J, Grows
        <3>2. Step(items, items, lev, i)
            BY <1>5 DEF Step, Grows
        <3>3. QED
            BY <1>4, <1>2, <1>6, <2>2, <3>1, <3>2
    <2>3. QED
        BY <2>1, <2>2
<1>9. Chain(J, lev, J[lev][i]) /\ FoundTo(J, lev, J[lev][i]) = item.ran.to
    <2>1. Chain(items, lev, items[lev][i]) /\ J[lev][i].subs = items[lev][i].subs
        BY <1>4, <1>1, <1>8
    <2>2. Chain(J, lev, J[lev][i]) /\ FoundTo(J, lev, J[lev][i]) = FoundTo(items, lev, items[lev][i])
        BY <1>1, <1>5, <1>8, <2>1, ChainSame
    <2>3. QED
        BY <1>4, <1>2, <2>2
<1>10. Complete(J, lev, J[lev][i])
    BY <1>2, <1>8, <1>9 DEF Complete
<1>11. Parted(J)
    <2>1. lev # HOUR
        BY <1>1 DEF DAY, HOUR
    <2>2. QED
        BY <1>5, <1>8, <1>9, <2>1, StepParted
<1>12. PICK y \in IterSet : Goes(iter, iter', L, y, iter[L].lev - 1, iter[L].year, iter[L].next) /\ LoopsStay(iter[L], y)
    <2>1. iter \in Iters /\ iter[L].lev # -1 /\ iter' = LoopLeft(iter, L)
        BY <1>4, <1>1, <1>3, <1>5
    <2>2. QED
        BY <2>1, LoopIsLeft
<1>13. /\ Turned(iter, iter', L, y) /\ Alike(x, y) /\ y.lev = lev - 1 /\ y.year = x.year /\ y.next = 0
       /\ \A m \in YEAR..DAY : SameLoop(x, y, m)
    BY <1>4, <1>1, <1>12 DEF Goes, LoopsStay
<1>14. \A m \in YEAR..DAY : m <= y.lev => m <= x.lev /\ m # lev
    BY <1>4, <1>6, <1>13 DEF YEAR, DAY
<1>15. ASSUME NEW m \in YEAR..DAY, m <= y.lev
       PROVE  LoopAt(J, y, m, c) /\ \A t : AheadIn(items, x, m, t) => AheadIn(J, y, m, t)
    <2>1. LoopAt(items, x, m, c) /\ m # lev
        BY <1>1, <1>14, <1>15 DEF Looping
    <2>2. QED
        <3>1. items \in Vectors /\ Parted(items) /\ Step(items, J, lev, i) /\ c \in BOOLEAN
            BY <1>4, <1>5, <1>8
        <3>2. SameLoop(x, y, m) /\ (m # lev \/ x.id[m] # i)
            BY <1>13, <2>1
        <3>3. QED
            BY <2>1, <3>1, <3>2, LoopKept
<1>16. Looping(J, y, c)
    BY <1>15 DEF Looping
<1>17. \A m \in YEAR..DAY : y.id[m] = x.id[m] /\ (Finding(y, m) <=> Finding(x, m) /\ m <= y.lev)
    BY <1>13, <1>14 DEF Finding, SameLoop
<1>18. \A m \in YEAR..DAY : Finding(x, m) /\ ~Finding(y, m) => m = lev
    BY <1>4, <1>6, <1>13, <1>17 DEF Finding, YEAR, DAY
<1>19. \A m \in YEAR..DAY : Finding(x, m) /\ ~(Finding(y, m) /\ y.id[m] = x.id[m]) => Complete(J, m, J[m][x.id[m]])
    BY <1>4, <1>10, <1>17, <1>18
<1>20. Called(J, y)
    BY <1>13 DEF Called
<1>21. ASSUME NEW t \in Int, In(t, x.ran), Ahead(items, x, t) PROVE Ahead(J, y, t)
    <2>1. ~AheadIn(items, x, lev, t)
        <3>1. item.ran.to \in Nat
            BY <1>1, SliceFacts
        <3>2. x.finds[lev]
            BY <1>2 DEF Finding
        <3>3. AheadIn(items, x, lev, t) => t < item.ran.to /\ item.ran.to <= t
            BY <1>4, <1>2, <3>2 DEF AheadIn, In
        <3>4. QED
            BY <3>1, <3>3
    <2>2. \A m \in YEAR..DAY : m <= x.lev /\ m # lev => m <= y.lev
        BY <1>4, <1>6, <1>13 DEF YEAR, DAY
    <2>3. y.lev # -1
        BY <1>1, <1>13 DEF YEAR, DAY
    <2>4. QED
        BY <1>1, <1>13, <1>15, <1>21, <2>1, <2>2, <2>3 DEF Ahead
<1>22. y.lev # -1 /\ y.lev < y.type /\ y.year \in 1..(LastYear + 1)
    <2>1. x.type \in Int
        BY <1>1 DEF IterSet, YEAR, HOUR
    <2>2. QED
        BY <1>1, <1>6, <1>13, <2>1 DEF Alike, YEAR, DAY
<1>23. ASSUME L = 1 PROVE Nested(J, iter')
    <2>1. J = items /\ iter'[0].lev = -1 /\ iter'[1] = y /\ x = iter[1] /\ Nested(items, iter)
        <3>1. J = items
            BY <1>6, <1>23 DEF J
        <3>2. iter'[0].lev = -1 /\ iter'[1] = y /\ x = iter[1]
            BY <1>4, <1>1, <1>13, <1>23 DEF Turned
        <3>3. Nested(items, iter)
            BY <1>4 DEF SlicingInv
        <3>4. QED
            BY <3>1, <3>2, <3>3
    <2>2. Nested(items, iter')
        BY <1>13, <1>14, <1>17, <2>1, NestedStays
    <2>3. QED
        BY <2>1, <2>2
<1>24. CASE lev = DAY
    <2>1. L = 0
        BY <1>4, <1>6, <1>24
    <2>2. ~Complete(items, lev, items[lev][i])
        <3>1. item.n = -1 /\ Len(item.subs) \in Nat
            BY <1>1, <1>2, <1>24
        <3>2. item.n # Len(item.subs)
            BY <3>1
        <3>3. QED
            BY <1>4, <3>2 DEF Complete
    <2>3. Finding(iter[1], lev) => iter[1].id[lev] # i
        BY ZenonT(60), <1>4, <1>1, <1>2, <2>1 DEF SlicingInv, Different
    <2>4. Finding(y, lev) => FALSE
        BY <1>6, <1>13 DEF Finding
    <2>5. Status(J, iter')
        <3>1. lev \in YEAR..DAY /\ i \in DOMAIN items[lev] => Complete(J, lev, J[lev][i]) \/ (Finding(y, lev) /\ y.id[lev] = i)
            BY <1>10
        <3>2. \A m \in YEAR..DAY : Finding(iter[L], m) /\ ~(Finding(y, m) /\ y.id[m] = iter[L].id[m]) =>
                  Complete(J, m, J[m][iter[L].id[m]])
            BY <1>4, <1>19
        <3>3. QED
            BY <1>5, <1>8, <1>13, <3>1, <3>2, StepStatus
    <2>6. TurnInv(L, lev, i, y)
        <3>1. Looping(J, y, L = 1) /\ J = items'
            BY <1>3, <1>16 DEF c
        <3>2. L # 1
            BY <2>1
        <3>3. QED
            BY <1>4, <1>3, <1>8, <1>11, <1>13, <1>17, <1>20, <1>21, <1>22, <2>2, <2>3, <2>5, <3>1, <3>2 DEF TurnInv
    <2>7. QED
        BY <1>3, <1>7, <2>6
<1>25. CASE lev # DAY
    <2>1. J = items
        BY <1>25 DEF J
    <2>2. /\ ~failed /\ items' = items /\ Turned(iter, iter', L, y) /\ Alike(iter[L], y) /\ Called(items, y)
          /\ \A m \in YEAR..DAY : Finding(y, m) => Finding(iter[L], m) /\ y.id[m] = iter[L].id[m]
          /\ \A m \in YEAR..DAY : Finding(iter[L], m) /\ ~Finding(y, m) => Complete(items, m, items[m][iter[L].id[m]])
        BY <1>4, <1>3, <1>13, <1>17, <1>19, <1>20, <2>1
    <2>3. \A t \in Int : In(t, iter[L].ran) /\ Ahead(items, iter[L], t) => Ahead(items, y, t) \/ CoveredBy(calls', t)
        BY <1>4, <1>21, <2>1
    <2>4. Looping(items, y, L = 1)
        BY <1>16, <2>1 DEF c
    <2>5. L = 1 => Nested(items, iter')
        BY <1>23, <2>1
    <2>6. TurnInv(L, 0, 0, y)
        BY <1>22, <2>2, <2>3, <2>4, <2>5, TurnOnly
    <2>7. QED
        BY <1>3, <1>7, <2>6
<1>26. QED
    BY <1>24, <1>25

\* The next year of the calendar.
LEMMA NextYearTurns ==
    ASSUME SlicingInv, stage = "slicing", NEW L \in {0, 1}, NextYear(L)
    PROVE  failed' = FALSE /\ calls' = calls /\ \E y : TurnInv(L, 0, 0, y)
<1> DEFINE x == iter[L]  year == YearRan(x.year)  J == get_or_create(YEAR, year)  n == IdOf(YEAR, year)
<1>1. /\ x.lev = 0 /\ x.next = 0 /\ ~failed /\ (L = 1 => iter[0].lev = -1) /\ YearStart(x.year) < x.ran.to
      /\ items' = J /\ failed' = Mismatch(YEAR, year) /\ calls' = calls /\ iter' = YearTurn(iter, L, n)
    BY DEF NextYear, Loops, Runs, YearTurn
<1>2. /\ items \in Vectors /\ iter \in Iters /\ Slices(items) /\ Parted(items) /\ Status(items, iter)
      /\ Iterations(iter) /\ FrameInv /\ x \in IterSet
    BY <1>1, IterFacts DEF SlicingInv
<1>3. x.lev # -1 /\ (L = 0 \/ L = 1)
    BY <1>1
<1>4. /\ x.year \in 1..(LastYear + 1) /\ 0 < x.type
      /\ L = 1 => x.ran = view
      /\ L = 0 => IsSlice(iter[1].type, x.ran) /\ iter[1].type = SlicingType(view) /\ iter[1].lev # -1
    BY <1>1, <1>2, <1>3 DEF Iterations
<1>5. x.ran.to \in Nat /\ x.ran.to <= Len(Clock)
    <2>1. CASE L = 1
        <3>1. view \in Views
            BY <1>2 DEF FrameInv
        <3>2. view.to \in Nat /\ view.to < Len(Clock) /\ Len(Clock) \in Nat
            BY <3>1, ViewsAssumption, ClockAssumption
        <3>3. QED
            BY <1>4, <2>1, <3>2
    <2>2. CASE L = 0
        <3>1. iter[1].type \in YEAR..HOUR
            BY <1>2, IterFacts
        <3>2. QED
            BY <1>4, <2>2, <3>1, SliceFacts
    <2>3. QED
        BY <1>3, <2>1, <2>2
<1>6. x.year \in 1..LastYear /\ x.year + 1 \in 1..(LastYear + 1)
    <2>1. LastYear \in Nat /\ Len(Clock) \in Nat
        BY ClockAssumption
    <2>2. YearStart(LastYear + 1) = Len(Clock)
        BY Years
    <2>3. x.year # LastYear + 1
        BY <1>1, <1>5, <2>1, <2>2
    <2>4. QED
        BY <1>4, <2>1, <2>3
<1>7. IsSlice(YEAR, year) /\ year.fr = YearStart(x.year) /\ year.to = YearStart(x.year + 1)
    BY <1>6, Years
<1>8. YEAR \in YEAR..HOUR /\ YEAR = 0 + 1 /\ 0 \notin YEAR..DAY
    BY DEF YEAR, DAY, HOUR
<1>9. /\ J \in Vectors /\ Slices(J) /\ Grows(items, J) /\ ~Mismatch(YEAR, year)
      /\ (\A l \in YEAR..HOUR : \A i \in DOMAIN items[l] : J[l][i] = items[l][i])
      /\ (\A l \in YEAR..HOUR : \A i \in DOMAIN J[l] :
              i \in DOMAIN items[l] \/ (l = YEAR /\ Fresh(J[l][i]) /\ J[l][i].ran = year))
      /\ n \in DOMAIN J[YEAR] /\ n \in Nat /\ n # 0 /\ J[YEAR][n].ran = year
    BY <1>2, <1>7, <1>8, GetOrCreate
<1>10. x = iter[L]
    OBVIOUS
<1> HIDE DEF x, J, n, year
<1>11. Step(items, J, 0, 0)
    BY <1>9 DEF Step
<1>12. Parted(J)
    BY <1>2, <1>8, <1>11, StepParted DEF HOUR
<1>13. PICK y \in IterSet : Goes(iter, iter', L, y, iter[L].lev, iter[L].year + 1, n) /\ LoopsStay(iter[L], y)
    BY <1>1, <1>2, <1>9, YearTurned
<1>14. /\ Turned(iter, iter', L, y) /\ Alike(x, y) /\ y.lev = 0 /\ y.year = x.year + 1 /\ y.next = n
    BY <1>10, <1>1, <1>13 DEF Goes
<1>15. \A m \in YEAR..DAY : ~(m <= y.lev) /\ ~(m <= x.lev)
    BY <1>1, <1>14 DEF YEAR, DAY
<1>16. Looping(J, y, L = 1) /\ \A m \in YEAR..DAY : ~Finding(y, m) /\ ~Finding(x, m)
    BY <1>15 DEF Looping, Finding
<1>17. Called(J, y)
    BY <1>8, <1>9, <1>14 DEF Called
<1>18. Status(J, iter')
    BY <1>10, <1>2, <1>8, <1>11, <1>14, <1>16, StepStatus
<1>19. L = 1 => Nested(J, iter')
    BY <1>14, <1>16 DEF Nested, Turned
<1>20. ASSUME NEW t \in Int, Ahead(items, x, t) PROVE Ahead(J, y, t)
    <2>1. YearStart(x.year) <= t
        BY <1>1, <1>15, <1>20 DEF Ahead
    <2>2. year.fr \in Nat /\ year.to \in Nat
        BY <1>7, <1>8, SliceFacts
    <2>3. CASE YearStart(x.year + 1) <= t
        BY <1>14, <2>3 DEF Ahead
    <2>4. CASE ~(YearStart(x.year + 1) <= t)
        <3>1. In(t, year)
            BY <1>7, <2>1, <2>2, <2>4 DEF In
        <3>2. In(t, J[y.lev + 1][y.next].ran)
            BY <1>8, <1>9, <1>14, <3>1
        <3>3. QED
            BY <1>9, <1>14, <3>2 DEF Ahead
    <2>5. QED
        BY <2>3, <2>4
<1>21. TurnInv(L, 0, 0, y)
    <2>1. y.lev # -1 /\ y.lev < y.type /\ y.year \in 1..(LastYear + 1)
        BY <1>4, <1>6, <1>14 DEF Alike
    <2>2. items' = J
        BY <1>1
    <2>3. QED
        BY <1>10, <1>8, <1>11, <1>12, <1>14, <1>16, <1>17, <1>18, <1>19, <1>20, <2>1, <2>2 DEF TurnInv
<1>22. QED
    BY <1>1, <1>9, <1>21

\* An item that is gone over has parts, no more than it says, and those of it
\* that the iteration is over; for the first iteration it is complete.
LEMMA VisitedItem ==
    ASSUME SlicingInv, ~failed, NEW L \in {0, 1}, L = 1 => iter[0].lev = -1, iter[L].lev # -1,
           NEW l \in YEAR..DAY, NEW i \in DOMAIN items[l], items[l][i].n # -1,
           ~(Finding(iter[L], l) /\ iter[L].id[l] = i)
    PROVE  LET item == items[l][i]
           IN  /\ L = 1 => Complete(items, l, item)
               /\ item.subs # <<>> /\ item.subs \in Seq(Nat) /\ Len(item.subs) \in Nat /\ Len(item.subs) <= item.n
               /\ \A k \in DOMAIN item.subs : item.subs[k] \in DOMAIN items[l + 1]
               /\ 1 \in DOMAIN items[l + 1]
               /\ \A t \in Int : In(t, iter[L].ran) /\ In(t, item.ran) =>
                      \E k \in DOMAIN item.subs : 1 <= k /\ In(t, PartRan(items, l, item, k))
<1> DEFINE item == items[l][i]  z == iter[1]
<1>1. /\ items \in Vectors /\ iter \in Iters /\ Slices(items) /\ Parted(items) /\ Status(items, iter)
      /\ Iterations(iter) /\ Looping(items, z, TRUE) /\ Nested(items, iter)
    BY DEF SlicingInv
<1>2. l \in YEAR..HOUR /\ l + 1 \in YEAR..HOUR
    BY DEF YEAR, DAY, HOUR
<1>3. item.subs \in Seq(Nat) /\ Len(item.subs) \in Nat /\ DOMAIN item.subs = 1..Len(item.subs) /\ item.n \in Int
    BY <1>1, <1>2, VectorFacts
<1>4. Chain(items, l, item)
    BY <1>1 DEF Parted
<1>5. \A k \in DOMAIN item.subs : item.subs[k] \in DOMAIN items[l + 1]
    BY <1>4 DEF Chain
<1>6. item.subs # <<>> => 1 \in DOMAIN items[l + 1]
    <2> SUFFICES ASSUME item.subs # <<>> PROVE 1 \in DOMAIN items[l + 1]
        OBVIOUS
    <2>1. 1 \in DOMAIN item.subs
        BY <1>3
    <2>2. item.subs[1] \in DOMAIN items[l + 1]
        BY <1>5, <2>1
    <2>3. DOMAIN items[l + 1] = 1..Len(items[l + 1]) /\ Len(items[l + 1]) \in Nat
        BY <1>1, <1>2, VectorFacts
    <2>4. QED
        BY <2>2, <2>3
<1>7. ~Fresh(item)
    BY DEF Fresh
<1> HIDE DEF item, z
<1>8. CASE Complete(items, l, item)
    <2>1. item.subs # <<>> /\ item.n = Len(item.subs) /\ FoundTo(items, l, item) = item.ran.to
        BY <1>8 DEF Complete
    <2>2. \A t \in Int : item.ran.fr <= t /\ t < FoundTo(items, l, item) =>
              \E k \in DOMAIN item.subs : In(t, PartRan(items, l, item, k))
        BY <1>1, <1>4, ChainParts DEF item
    <2>3. \A t \in Int : In(t, item.ran) => \E k \in DOMAIN item.subs : 1 <= k /\ In(t, PartRan(items, l, item, k))
        BY <1>3, <2>1, <2>2 DEF In
    <2>4. Len(item.subs) <= item.n
        BY <1>3, <2>1
    <2>5. QED
        BY <1>3, <1>5, <1>6, <1>8, <2>1, <2>3, <2>4 DEF item
<1>9. CASE ~Complete(items, l, item)
    <2>1. L = 0 /\ Finding(z, l) /\ z.id[l] = i
        <3>1. PICK M \in {0, 1} : Finding(iter[M], l) /\ iter[M].id[l] = i
            BY <1>1, <1>7, <1>9 DEF Status, item
        <3>2. M # L
            BY <3>1
        <3>3. M # 0 \/ iter[0].lev # -1
            BY <3>1 DEF Finding, YEAR, DAY
        <3>4. M = 1 /\ L = 0
            BY <3>2, <3>3
        <3>5. QED
            BY <3>1, <3>4 DEF z
    <2>2. z.lev < z.type /\ z.type <= DAY /\ z.type \in Int /\ z.lev \in Int
        <3>1. z.lev # -1
            BY <2>1 DEF Finding, YEAR, DAY
        <3>2. z.type = SlicingType(view) /\ z.lev < z.type
            BY <1>1, <3>1 DEF Iterations, z
        <3>3. SlicingType(view) \in YEAR..DAY
            BY DEF SlicingType, YEAR, MONTH, DAY
        <3>4. z.lev \in -1..DAY
            BY <1>1, IterFacts DEF z
        <3>5. QED
            BY <3>2, <3>3, <3>4 DEF YEAR, DAY
    <2>3. l < DAY /\ l <= z.lev /\ z.finds[l]
        BY <2>1, <2>2 DEF Finding, YEAR, DAY
    <2>4. Filling(items, l, item, z.part[l])
        <3>1. LoopAt(items, z, l, TRUE)
            BY <1>1, <2>3 DEF Looping
        <3>2. QED
            BY <2>1, <2>3, <3>1 DEF LoopAt, item
    <2> DEFINE b == Begins(item)  k == z.part[l]
    <2> HIDE DEF b, k
    <2>5. item.n = LastPart(b, l) /\ Len(item.subs) = k - 1 /\ k \in FirstPart(l)..(LastPart(b, l) + 1) /\ AtStart(b, l)
        BY <2>3, <2>4 DEF Filling, b, k
    <2>6. LastPart(b, l) \in Nat /\ FirstPart(l) \in {0, 1}
        <3>1. IsSlice(l, item.ran)
            BY <1>1, <1>2 DEF Slices, item
        <3>2. QED
            BY <2>5, <3>1, FillingFrom DEF b
    <2>7. Len(item.subs) <= item.n
        BY <1>3, <2>5, <2>6
    <2>8. item.subs # <<>> /\ Within(iter[0].ran, LastRan(items, l, i))
        <3>1. InLast(items, z, l, iter[0].ran)
            BY <1>1, <2>1 DEF Nested, z
        <3>2. QED
            BY <2>1, <3>1 DEF InLast, item
    <2>9. ASSUME NEW t \in Int, In(t, iter[L].ran) PROVE \E q \in DOMAIN item.subs : 1 <= q /\ In(t, PartRan(items, l, item, q))
        <3>1. Len(item.subs) \in DOMAIN item.subs /\ 1 <= Len(item.subs)
            BY <1>3, <2>8
        <3>2. LastRan(items, l, i) = PartRan(items, l, item, Len(item.subs))
            BY DEF LastRan, item
        <3>3. IsSlice(l + 1, PartRan(items, l, item, Len(item.subs)))
            BY <1>1, <1>4, <3>1, ChainParts DEF item
        <3>4. LastRan(items, l, i).fr \in Nat /\ LastRan(items, l, i).to \in Nat
            BY <1>2, <3>2, <3>3, SliceFacts
        <3>5. iter[0].ran.fr \in Nat /\ iter[0].ran.to \in Nat
            BY <1>1, IterFacts DEF Range2
        <3>6. In(t, LastRan(items, l, i))
            BY <2>1, <2>8, <2>9, <3>4, <3>5 DEF In, Within
        <3>7. QED
            BY <3>1, <3>2, <3>6
    <2>10. QED
        BY <1>3, <1>5, <1>6, <2>1, <2>7, <2>8, <2>9 DEF item
<1>10. QED
    BY <1>8, <1>9

\* The next of the parts that were found before.
LEMMA NextPartGoes ==
    ASSUME SlicingInv, NEW L \in {0, 1}, NextPart(L), Here(L) <= Item(L).n
    PROVE  failed' = FALSE /\ calls' = calls /\ \E y : TurnInv(L, 0, 0, y)
<1> DEFINE x == iter[L]  lev == x.lev  i == x.id[lev]  item == items[lev][i]  k == x.part[lev]
           n == Sub(item, k)  c == L = 1
<1>1. /\ x \in IterSet /\ lev \in YEAR..DAY /\ lev \in YEAR..HOUR /\ lev < x.type
      /\ x.year \in 1..(LastYear + 1) /\ x.next = 0 /\ lev # -1
      /\ i \in DOMAIN items[lev] /\ LoopAt(items, x, lev, c) /\ Looping(items, x, c)
      /\ Chain(items, lev, item) /\ IsSlice(lev, item.ran) /\ item.n \in Int
      /\ (L = 1 => iter[0].lev = -1)
    BY InLoop DEF NextPart
<1>2. /\ ~x.finds[lev] /\ k <= item.n /\ items' = items /\ calls' = calls /\ failed' = failed
      /\ iter' = PartNextTurn(iter, L, lev, n)
    BY DEF NextPart, Item, Here, PartNextTurn
<1>3. /\ x = iter[L] /\ lev = x.lev /\ i = x.id[lev] /\ item = items[lev][i] /\ k = x.part[lev]
      /\ ~failed /\ (L = 1 => c = TRUE) /\ c \in BOOLEAN /\ (L = 0 \/ L = 1)
    BY DEF NextPart, InItem, Loops, Runs
<1> HIDE DEF x, lev, i, item, k, c, n
<1>4. items \in Vectors /\ iter \in Iters /\ Slices(items) /\ failed \in BOOLEAN
    BY DEF SlicingInv
<1>5. item.n # -1 /\ k >= 1 /\ k \in Int
    <2>1. x.part \in [YEAR..DAY -> Int]
        BY <1>3, <1>4, IterFacts
    <2>2. QED
        BY <1>3, <1>1, <1>2, <2>1 DEF LoopAt
<1>6. lev \in Int /\ lev <= x.lev /\ lev + 1 \in YEAR..HOUR
    <2>1. lev \in YEAR..DAY /\ lev = x.lev
        BY <1>3, <1>1
    <2>2. lev \in Int /\ lev <= lev /\ lev + 1 \in YEAR..HOUR
        BY <2>1 DEF YEAR, DAY, HOUR
    <2>3. QED
        BY <2>1, <2>2
<1>7. /\ (L = 1 => Complete(items, lev, item))
      /\ item.subs # <<>> /\ item.subs \in Seq(Nat) /\ Len(item.subs) \in Nat /\ Len(item.subs) <= item.n
      /\ (\A q \in DOMAIN item.subs : item.subs[q] \in DOMAIN items[lev + 1])
      /\ 1 \in DOMAIN items[lev + 1]
    <2>1. ~(Finding(iter[L], lev) /\ iter[L].id[lev] = i)
        BY <1>3, <1>2 DEF Finding
    <2>2. items[lev][i].n # -1 /\ iter[L].lev # -1
        BY <1>3, <1>1, <1>5
    <2>3. lev \in YEAR..DAY /\ i \in DOMAIN items[lev] /\ (L = 1 => iter[0].lev = -1) /\ ~failed
        BY <1>3, <1>1
    <2>4. /\ (L = 1 => Complete(items, lev, items[lev][i]))
          /\ items[lev][i].subs # <<>> /\ items[lev][i].subs \in Seq(Nat)
          /\ Len(items[lev][i].subs) \in Nat /\ Len(items[lev][i].subs) <= items[lev][i].n
          /\ (\A q \in DOMAIN items[lev][i].subs : items[lev][i].subs[q] \in DOMAIN items[lev + 1])
          /\ 1 \in DOMAIN items[lev + 1]
        BY <2>1, <2>2, <2>3, VisitedItem
    <2>5. QED
        BY <1>3, <2>4
<1>8. n \in DOMAIN items[lev + 1] /\ n \in Nat /\ n # 0 /\ (k \in DOMAIN item.subs => n = item.subs[k])
    <2>1. n \in DOMAIN items[lev + 1] /\ (k \in DOMAIN item.subs => n = item.subs[k])
        BY <1>7 DEF n, Sub
    <2>2. DOMAIN items[lev + 1] = 1..Len(items[lev + 1]) /\ Len(items[lev + 1]) \in Nat
        BY <1>4, <1>6, VectorFacts
    <2>3. QED
        BY <2>1, <2>2
<1>9. PICK y \in IterSet : /\ Goes(iter, iter', L, y, iter[L].lev, iter[L].year, n)
                           /\ LoopIs(iter[L], y, lev, iter[L].id[lev], iter[L].part[lev] + 1, iter[L].finds[lev])
    <2>1. iter \in Iters /\ lev \in YEAR..DAY /\ n \in Nat /\ iter' = PartNextTurn(iter, L, lev, n)
        BY <1>1, <1>2, <1>4, <1>8
    <2>2. QED
        BY <2>1, PartNextTurned
<1>10. /\ Turned(iter, iter', L, y) /\ Alike(x, y) /\ y.lev = lev /\ y.year = x.year /\ y.next = n
       /\ \A m \in YEAR..DAY : m # lev => SameLoop(x, y, m)
       /\ y.id[lev] = i /\ y.finds[lev] = x.finds[lev] /\ y.part[lev] = k + 1
    BY <1>3, <1>9 DEF Goes, LoopIs
<1>11. LoopAt(items, y, lev, c)
    <2>1. k + 1 >= 1
        BY <1>5
    <2>2. QED
        BY <1>3, <1>1, <1>2, <1>10, <2>1 DEF LoopAt
<1>12. ASSUME NEW m \in YEAR..DAY, m <= lev, m # lev
       PROVE  LoopAt(items, y, m, c) /\ \A t : AheadIn(items, x, m, t) => AheadIn(items, y, m, t)
    <2>1. LoopAt(items, x, m, c)
        BY <1>3, <1>1, <1>12 DEF Looping
    <2>2. QED
        BY <1>10, <1>12, <2>1, LoopStays
<1>13. Looping(items, y, L = 1)
    <2>1. Looping(items, y, c)
        BY <1>10, <1>11, <1>12 DEF Looping
    <2>2. QED
        BY <2>1 DEF c
<1>14. Called(items, y)
    BY <1>8, <1>10 DEF Called
<1>15. \A m \in YEAR..DAY : y.id[m] = x.id[m] /\ (Finding(y, m) <=> Finding(x, m))
    <2>1. \A m \in YEAR..DAY : y.id[m] = x.id[m] /\ y.finds[m] = x.finds[m]
        BY <1>3, <1>10 DEF SameLoop
    <2>2. QED
        BY <1>3, <1>10, <2>1 DEF Finding
<1>16. ASSUME NEW t \in Int, Ahead(items, x, t) PROVE Ahead(items, y, t)
    <2>1. CASE YearStart(x.year) <= t
        BY <1>1, <1>10, <2>1 DEF Ahead
    <2>2. CASE \E m \in YEAR..DAY : m <= x.lev /\ AheadIn(items, x, m, t)
        <3>1. PICK m \in YEAR..DAY : m <= x.lev /\ AheadIn(items, x, m, t)
            BY <2>2
        <3>2. CASE m # lev
            BY <1>3, <1>1, <1>10, <1>12, <3>1, <3>2 DEF Ahead
        <3>3. CASE m = lev
            <4>1. In(t, item.ran) /\ \E j \in DOMAIN item.subs : k <= j /\ In(t, PartRan(items, lev, item, j))
                BY <1>3, <1>2, <3>1, <3>3 DEF AheadIn
            <4>2. PICK j \in DOMAIN item.subs : k <= j /\ In(t, PartRan(items, lev, item, j))
                BY <4>1
            <4>3. CASE j = k
                <5>1. In(t, items[y.lev + 1][y.next].ran)
                    BY <1>8, <1>10, <4>2, <4>3 DEF PartRan
                <5>2. QED
                    BY <1>1, <1>8, <1>10, <5>1 DEF Ahead
            <4>4. CASE j # k
                <5>1. k + 1 <= j
                    <6>1. j \in Int
                        BY <1>7
                    <6>2. QED
                        BY <1>5, <4>2, <4>4, <6>1
                <5>2. AheadIn(items, y, lev, t)
                    BY <1>3, <1>2, <1>10, <4>1, <4>2, <5>1 DEF AheadIn
                <5>3. QED
                    BY <1>1, <1>6, <1>10, <5>2 DEF Ahead
            <4>5. QED
                BY <4>3, <4>4
        <3>4. QED
            BY <3>2, <3>3
    <2>3. QED
        BY <1>1, <1>16, <2>1, <2>2 DEF Ahead
<1>17. ASSUME L = 1 PROVE Nested(items, iter')
    <2>1. iter'[0].lev = -1 /\ iter'[1] = y /\ x = iter[1] /\ Nested(items, iter)
        <3>1. iter'[0].lev = -1 /\ iter'[1] = y /\ x = iter[1]
            BY <1>3, <1>1, <1>10, <1>17 DEF Turned
        <3>2. Nested(items, iter)
            BY <1>3 DEF SlicingInv
        <3>3. QED
            BY <3>1, <3>2
    <2>2. k \in DOMAIN item.subs /\ FoundTo(items, lev, item) = item.ran.to
        <3>1. item.n = Len(item.subs) /\ FoundTo(items, lev, item) = item.ran.to
            BY <1>7, <1>17 DEF Complete
        <3>2. QED
            BY <1>2, <1>5, <1>7, <3>1
    <2>3. Within(items[lev + 1][n].ran, item.ran) /\ item.ran.fr \in Nat /\ item.ran.to \in Nat
        <3>1. PartRan(items, lev, item, k) = items[lev + 1][n].ran
            BY <1>8, <2>2 DEF PartRan
        <3>2. item.ran.fr <= PartRan(items, lev, item, k).fr /\ PartRan(items, lev, item, k).to <= FoundTo(items, lev, item)
            BY ZenonT(60), <1>3, <1>1, <1>4, <2>2, ChainParts
        <3>3. item.ran.fr \in Nat /\ item.ran.to \in Nat
            BY <1>1, SliceFacts
        <3>4. QED
            BY <2>2, <3>1, <3>2, <3>3 DEF Within
    <2>4. ASSUME NEW l \in YEAR..DAY, Finding(y, l) PROVE InLast(items, iter[1], l, items[lev + 1][n].ran)
        <3>1. l < lev /\ Finding(x, l) /\ l <= x.lev
            <4>1. Finding(x, l) /\ l <= lev
                BY <1>10, <1>15, <2>4 DEF Finding
            <4>2. l # lev
                BY <1>2, <4>1 DEF Finding
            <4>3. QED
                BY <1>3, <1>6, <4>1, <4>2 DEF YEAR, DAY
        <3> DEFINE j == x.id[l]
        <3>2. InLast(items, x, l, item.ran)
            BY <1>3, <1>1, <1>6, <2>1, <3>1 DEF Nested
        <3>3. items[l][j].subs # <<>> /\ Within(item.ran, LastRan(items, l, j))
            BY <3>2 DEF InLast
        <3>4. LastRan(items, l, j).fr \in Nat /\ LastRan(items, l, j).to \in Nat
            <4>1. j \in DOMAIN items[l] /\ l \in YEAR..HOUR /\ l + 1 \in YEAR..HOUR
                BY <1>1, <3>1 DEF Looping, LoopAt, YEAR, DAY, HOUR
            <4>2. items[l][j].subs \in Seq(Nat) /\ Chain(items, l, items[l][j])
                <5>1. items[l][j].subs \in Seq(Nat)
                    BY <1>4, <4>1, VectorFacts
                <5>2. QED
                    BY <4>1, <5>1 DEF SlicingInv, Parted
            <4>3. Len(items[l][j].subs) \in DOMAIN items[l][j].subs
                BY <3>3, <4>2
            <4>4. items[l][j].subs[Len(items[l][j].subs)] \in DOMAIN items[l + 1]
                BY <4>2, <4>3 DEF Chain
            <4>5. QED
                BY <1>4, <4>1, <4>4, VectorFacts DEF LastRan, PartRan
        <3>5. items[lev + 1][n].ran.fr \in Nat /\ items[lev + 1][n].ran.to \in Nat
            BY <1>4, <1>6, <1>8, VectorFacts
        <3>6. Within(items[lev + 1][n].ran, LastRan(items, l, j))
            BY <2>3, <3>3, <3>4, <3>5 DEF Within
        <3>7. QED
            BY <2>1, <3>3, <3>6 DEF InLast
    <2>5. \A m \in YEAR..DAY : m <= y.lev => m <= x.lev
        BY <1>3, <1>10
    <2>6. QED
        BY <1>10, <1>15, <2>1, <2>4, <2>5, NestedStays
<1>18. TurnInv(L, 0, 0, y)
    <2>1. y.lev # -1 /\ y.lev < y.type /\ y.year \in 1..(LastYear + 1)
        BY <1>1, <1>10 DEF Alike
    <2>2. /\ ~failed /\ items' = items /\ Turned(iter, iter', L, y) /\ Alike(iter[L], y)
          /\ \A m \in YEAR..DAY : Finding(y, m) => Finding(iter[L], m) /\ y.id[m] = iter[L].id[m]
          /\ \A m \in YEAR..DAY : ~(Finding(iter[L], m) /\ ~Finding(y, m))
        BY <1>3, <1>2, <1>10, <1>15
    <2>3. \A t \in Int : In(t, iter[L].ran) /\ Ahead(items, iter[L], t) => Ahead(items, y, t) \/ CoveredBy(calls', t)
        BY <1>3, <1>16
    <2>4. QED
        BY <1>13, <1>14, <1>17, <2>1, <2>2, <2>3, TurnOnly
<1>19. QED
    BY <1>3, <1>2, <1>4, <1>18

\* Or all of them were gone over.
LEMMA NextPartEnds ==
    ASSUME SlicingInv, NEW L \in {0, 1}, NextPart(L), ~(Here(L) <= Item(L).n)
    PROVE  failed' = FALSE /\ calls' = calls /\ \E y : TurnInv(L, 0, 0, y)
<1> DEFINE x == iter[L]  lev == x.lev  i == x.id[lev]  item == items[lev][i]  k == x.part[lev]  c == L = 1
<1>1. /\ x \in IterSet /\ lev \in YEAR..DAY /\ lev \in YEAR..HOUR /\ lev < x.type
      /\ x.year \in 1..(LastYear + 1) /\ x.next = 0 /\ lev # -1
      /\ i \in DOMAIN items[lev] /\ LoopAt(items, x, lev, c) /\ Looping(items, x, c)
      /\ item.n \in Int
      /\ (L = 1 => iter[0].lev = -1)
    BY InLoop DEF NextPart
<1>2. /\ ~x.finds[lev] /\ ~(k <= item.n) /\ items' = items /\ calls' = calls /\ failed' = failed
      /\ iter' = LoopLeft(iter, L)
    BY DEF NextPart, Item, Here, LoopLeft
<1>3. /\ x = iter[L] /\ lev = x.lev /\ i = x.id[lev] /\ item = items[lev][i] /\ k = x.part[lev]
      /\ ~failed /\ (L = 1 => c = TRUE) /\ c \in BOOLEAN /\ (L = 0 \/ L = 1)
    BY DEF NextPart, InItem, Loops, Runs
<1> HIDE DEF x, lev, i, item, k, c
<1>4. items \in Vectors /\ iter \in Iters /\ failed \in BOOLEAN
    BY DEF SlicingInv
<1>5. item.n # -1 /\ k \in Int
    <2>1. x.part \in [YEAR..DAY -> Int]
        BY <1>3, <1>4, IterFacts
    <2>2. QED
        BY <1>3, <1>1, <1>2, <2>1 DEF LoopAt
<1>6. lev \in Int /\ lev <= x.lev /\ x.type \in Int
    BY <1>3, <1>1 DEF IterSet, YEAR, DAY, HOUR
<1>7. item.subs \in Seq(Nat) /\ Len(item.subs) \in Nat /\ Len(item.subs) <= item.n
    <2>1. ~(Finding(iter[L], lev) /\ iter[L].id[lev] = i)
        BY <1>3, <1>2 DEF Finding
    <2>2. items[lev][i].n # -1 /\ iter[L].lev # -1
        BY <1>3, <1>1, <1>5
    <2>3. QED
        BY ZenonT(60), <1>3, <1>1, <2>1, <2>2, VisitedItem
<1>8. PICK y \in IterSet : Goes(iter, iter', L, y, iter[L].lev - 1, iter[L].year, iter[L].next) /\ LoopsStay(iter[L], y)
    <2>1. iter \in Iters /\ iter[L].lev # -1 /\ iter' = LoopLeft(iter, L)
        BY <1>3, <1>1, <1>2, <1>4
    <2>2. QED
        BY <2>1, LoopIsLeft
<1>9. /\ Turned(iter, iter', L, y) /\ Alike(x, y) /\ y.lev = lev - 1 /\ y.year = x.year /\ y.next = 0
      /\ \A m \in YEAR..DAY : SameLoop(x, y, m)
    BY <1>3, <1>1, <1>8 DEF Goes, LoopsStay
<1>10. \A m \in YEAR..DAY : (m <= y.lev <=> m <= x.lev /\ m # lev)
    BY <1>3, <1>6, <1>9 DEF YEAR, DAY
<1>11. ASSUME NEW m \in YEAR..DAY, m <= y.lev
       PROVE  LoopAt(items, y, m, c) /\ \A t : AheadIn(items, x, m, t) => AheadIn(items, y, m, t)
    <2>1. LoopAt(items, x, m, c)
        BY <1>1, <1>10, <1>11 DEF Looping
    <2>2. QED
        BY <1>9, <2>1, LoopStays
<1>12. Looping(items, y, L = 1)
    <2>1. Looping(items, y, c)
        BY <1>11 DEF Looping
    <2>2. QED
        BY <2>1 DEF c
<1>13. \A m \in YEAR..DAY : y.id[m] = x.id[m] /\ (Finding(y, m) <=> Finding(x, m))
    <2>1. \A m \in YEAR..DAY : y.id[m] = x.id[m] /\ y.finds[m] = x.finds[m]
        BY <1>9 DEF SameLoop
    <2>2. QED
        BY <1>2, <1>10, <2>1 DEF Finding
<1>14. Called(items, y)
    BY <1>9 DEF Called
<1>15. y.lev # -1 /\ y.lev < y.type /\ y.year \in 1..(LastYear + 1)
    BY <1>1, <1>6, <1>9 DEF Alike, YEAR, DAY
<1>16. ASSUME NEW t \in Int, Ahead(items, x, t) PROVE Ahead(items, y, t)
    <2>1. ~AheadIn(items, x, lev, t)
        <3>1. \A j \in DOMAIN item.subs : ~(k <= j)
            BY <1>1, <1>2, <1>5, <1>7
        <3>2. QED
            BY <1>3, <1>2, <3>1 DEF AheadIn
    <2>2. QED
        BY <1>1, <1>9, <1>10, <1>11, <1>15, <1>16, <2>1 DEF Ahead
<1>17. ASSUME L = 1 PROVE Nested(items, iter')
    <2>1. iter'[0].lev = -1 /\ iter'[1] = y /\ x = iter[1]
        BY <1>3, <1>1, <1>9, <1>17 DEF Turned
    <2>2. Nested(items, iter)
        BY <1>3 DEF SlicingInv
    <2>3. QED
        BY <1>9, <1>10, <1>13, <2>1, <2>2, NestedStays
<1>18. TurnInv(L, 0, 0, y)
    <2>1. /\ ~failed /\ items' = items /\ Turned(iter, iter', L, y) /\ Alike(iter[L], y)
          /\ \A m \in YEAR..DAY : Finding(y, m) => Finding(iter[L], m) /\ y.id[m] = iter[L].id[m]
          /\ \A m \in YEAR..DAY : ~(Finding(iter[L], m) /\ ~Finding(y, m))
        BY <1>3, <1>2, <1>9, <1>13
    <2>2. \A t \in Int : In(t, iter[L].ran) /\ Ahead(items, iter[L], t) => Ahead(items, y, t) \/ CoveredBy(calls', t)
        BY <1>3, <1>16
    <2>3. QED
        BY <1>12, <1>14, <1>15, <1>17, <2>1, <2>2, TurnOnly
<1>19. QED
    BY <1>3, <1>2, <1>4, <1>18

\* What is known when iter_items is called.
LEMMA InCall ==
    ASSUME SlicingInv, NEW L \in {0, 1}, Runs(L), iter[L].next # 0
    PROVE  LET x == iter[L]  lev == x.lev + 1  item == items[lev][x.next]
           IN  /\ x \in IterSet /\ x.lev \in 0..DAY /\ x.lev # -1 /\ lev \in YEAR..HOUR /\ x.lev < x.type /\ lev <= x.type
               /\ x.type \in Int /\ (L = 1 => x.type <= DAY)
               /\ x.year \in 1..(LastYear + 1) /\ Looping(items, x, L = 1)
               /\ x.next \in DOMAIN items[lev] /\ x.next \in Nat /\ IsSlice(lev, item.ran) /\ item.n \in Int
               /\ x.ran.fr \in Nat /\ x.ran.to \in Nat
               /\ \A t : In(t, x.ran) /\ In(t, item.ran) /\ t \in Int => ts_ran_overlap(x.ran, item.ran)
               /\ L = 1 => iter[0].lev = -1
<1> DEFINE x == iter[L]  lev == x.lev + 1  item == items[lev][x.next]
<1>1. ~failed /\ x.lev # -1 /\ (L = 1 => iter[0].lev = -1)
    BY DEF Runs
<1>2. x \in IterSet /\ x.lev \in -1..DAY /\ iter \in Iters /\ items \in Vectors /\ x.type \in YEAR..HOUR /\ x.ran \in Range2 /\ x.next \in Nat
    BY IterFacts DEF SlicingInv
<1>3. x.lev \in 0..DAY /\ lev \in YEAR..HOUR /\ x.type \in Int
    BY <1>1, <1>2 DEF YEAR, DAY, HOUR
<1>4. Iterations(iter) /\ Looping(items, x, L = 1) /\ Slices(items) /\ Called(items, x)
    <2>1. CASE L = 0
        BY <1>1, <2>1 DEF SlicingInv
    <2>2. CASE L = 1
        BY <1>1, <2>2 DEF SlicingInv
    <2>3. QED
        BY <2>1, <2>2, <1>1 DEF SlicingInv
<1>5. SlicingType(view) <= DAY
    BY DEF SlicingType, YEAR, MONTH, DAY
<1>6. x.lev < x.type /\ (L = 1 => x.type <= DAY) /\ x.year \in 1..(LastYear + 1)
    <2>1. CASE L = 0
        BY <1>1, <1>4, <2>1 DEF Iterations
    <2>2. CASE L = 1
        BY <1>1, <1>4, <1>5, <2>2 DEF Iterations
    <2>3. QED
        BY <2>1, <2>2
<1>7. lev <= x.type
    BY <1>3, <1>6
<1>8. x.next \in DOMAIN items[lev]
    BY <1>1, <1>4 DEF Called
<1>9. IsSlice(lev, item.ran)
    BY <1>3, <1>4, <1>8 DEF Slices
<1>10. item.n \in Int
    BY <1>2, <1>3, <1>8, VectorFacts
<1>11. x.ran.fr \in Nat /\ x.ran.to \in Nat
    BY <1>2 DEF Range2
<1>12. item.ran.fr \in Nat /\ item.ran.to \in Nat
    BY <1>3, <1>9, SliceFacts
<1> HIDE DEF item, lev, x
<1>13. ASSUME NEW t, In(t, x.ran), In(t, item.ran), t \in Int PROVE ts_ran_overlap(x.ran, item.ran)
    BY <1>11, <1>12, <1>13 DEF In, ts_ran_overlap
<1>14. QED
    BY <1>1, <1>2, <1>3, <1>4, <1>6, <1>7, <1>8, <1>9, <1>10, <1>11, <1>13 DEF item, lev, x

\* The call is over at once: the item is not within the range, or it was drawn.
LEMMA CallDone ==
    ASSUME SlicingInv, NEW L \in {0, 1}, Runs(L), iter[L].next # 0, items' = items, iter' = NextTurn(iter, L, 0),
           L = 1 \/ iter[1].type < DAY =>
               \A t \in Int : In(t, iter[L].ran) /\ In(t, items[iter[L].lev + 1][iter[L].next].ran) => CoveredBy(calls', t)
    PROVE  \E y : TurnInv(L, 0, 0, y)
<1> DEFINE x == iter[L]  c == L = 1
<1>1. /\ x \in IterSet /\ x.lev # -1 /\ x.lev < x.type /\ x.year \in 1..(LastYear + 1) /\ Looping(items, x, c)
      /\ (L = 1 => iter[0].lev = -1)
    BY InCall
<1>2. items \in Vectors /\ iter \in Iters
    BY DEF SlicingInv
<1>3. x = iter[L] /\ ~failed /\ c \in BOOLEAN /\ (L = 0 \/ L = 1)
    BY DEF Runs
<1> HIDE DEF x, c
<1>4. PICK y \in IterSet : Goes(iter, iter', L, y, iter[L].lev, iter[L].year, 0) /\ LoopsStay(iter[L], y)
    BY <1>2, NextTurned
<1>5. /\ Turned(iter, iter', L, y) /\ Alike(x, y) /\ y.lev = x.lev /\ y.year = x.year /\ y.next = 0
      /\ \A m \in YEAR..DAY : SameLoop(x, y, m)
    BY <1>3, <1>4 DEF Goes, LoopsStay
<1>6. ASSUME NEW m \in YEAR..DAY, m <= y.lev
      PROVE  LoopAt(items, y, m, c) /\ \A t : AheadIn(items, x, m, t) => AheadIn(items, y, m, t)
    <2>1. LoopAt(items, x, m, c)
        BY <1>1, <1>5, <1>6 DEF Looping
    <2>2. QED
        BY <1>5, <2>1, LoopStays
<1>7. Looping(items, y, L = 1)
    <2>1. Looping(items, y, c)
        BY <1>6 DEF Looping
    <2>2. QED
        BY <2>1 DEF c
<1>8. Called(items, y)
    BY <1>5 DEF Called
<1>9. \A m \in YEAR..DAY : y.id[m] = x.id[m] /\ (Finding(y, m) <=> Finding(x, m))
    BY <1>5 DEF SameLoop, Finding
<1>10. L = 1 => Nested(items, iter')
    <2> SUFFICES ASSUME L = 1 PROVE Nested(items, iter')
        OBVIOUS
    <2>1. iter'[0].lev = -1 /\ iter'[1] = y /\ x = iter[1]
        BY <1>3, <1>1, <1>5 DEF Turned
    <2>2. Nested(items, iter)
        BY <1>3 DEF SlicingInv
    <2>3. \A m \in YEAR..DAY : m <= y.lev => m <= x.lev
        BY <1>5
    <2>4. QED
        BY <1>5, <1>9, <2>1, <2>2, <2>3, NestedStays
<1>11. ASSUME L = 1 \/ iter[1].type < DAY, NEW t \in Int, In(t, x.ran), Ahead(items, x, t)
       PROVE  Ahead(items, y, t) \/ CoveredBy(calls', t)
    <2>1. CASE YearStart(x.year) <= t
        BY <1>1, <1>5, <2>1 DEF Ahead
    <2>2. CASE \E m \in YEAR..DAY : m <= x.lev /\ AheadIn(items, x, m, t)
        BY <1>1, <1>5, <1>6, <2>2 DEF Ahead
    <2>3. CASE In(t, items[x.lev + 1][x.next].ran)
        BY <1>3, <1>11, <2>3
    <2>4. QED
        BY <1>11, <2>1, <2>2, <2>3 DEF Ahead
<1>12. TurnInv(L, 0, 0, y)
    <2>1. y.lev # -1 /\ y.lev < y.type /\ y.year \in 1..(LastYear + 1)
        BY <1>1, <1>5 DEF Alike
    <2>2. /\ ~failed /\ items' = items /\ Turned(iter, iter', L, y) /\ Alike(iter[L], y)
          /\ \A m \in YEAR..DAY : Finding(y, m) => Finding(iter[L], m) /\ y.id[m] = iter[L].id[m]
          /\ \A m \in YEAR..DAY : ~(Finding(iter[L], m) /\ ~Finding(y, m))
        BY <1>3, <1>5, <1>9
    <2>3. L = 1 \/ iter[1].type < DAY =>
          \A t \in Int : In(t, iter[L].ran) /\ Ahead(items, iter[L], t) => Ahead(items, y, t) \/ CoveredBy(calls', t)
        BY <1>3, <1>11
    <2>4. QED
        BY <1>7, <1>8, <1>10, <2>1, <2>2, <2>3, TurnOnly
<1>13. QED
    BY <1>12

\* An item that no loop has entered is fresh.
LEMMA CalledFresh ==
    ASSUME SlicingInv, NEW L \in {0, 1}, Runs(L), iter[L].next # 0, iter[L].lev + 1 < iter[L].type,
           items[iter[L].lev + 1][iter[L].next].n = -1
    PROVE  LET x == iter[L]  lev == x.lev + 1
           IN  /\ Fresh(items[lev][x.next])
               /\ L = 0 /\ Finding(iter[1], lev) => iter[1].id[lev] # x.next
<1> DEFINE x == iter[L]  lev == x.lev + 1  item == items[lev][x.next]  z == iter[1]
<1>1. /\ x.lev \in 0..DAY /\ lev \in YEAR..HOUR /\ x.type \in Int /\ (L = 1 => x.type <= DAY)
      /\ x.next \in DOMAIN items[lev] /\ IsSlice(lev, item.ran) /\ (L = 1 => iter[0].lev = -1)
    BY InCall
<1>2. /\ items \in Vectors /\ iter \in Iters /\ Status(items, iter) /\ Iterations(iter) /\ Looping(items, z, TRUE)
      /\ ~failed /\ (L = 0 \/ L = 1) /\ x.type \in YEAR..HOUR
    BY IterFacts DEF SlicingInv, Runs
<1>3. lev < x.type /\ item.n = -1 /\ z = iter[1] /\ x = iter[L] /\ lev = x.lev + 1
    OBVIOUS
<1> HIDE DEF item, lev, x, z
<1>4. lev \in YEAR..DAY
    BY <1>1, <1>2, <1>3 DEF YEAR, DAY, HOUR
<1>5. item.subs \in Seq(Nat) /\ Len(item.subs) \in Nat
    BY <1>1, <1>2, VectorFacts DEF item
<1>6. ~Complete(items, lev, item)
    <2>1. item.n # Len(item.subs)
        BY <1>3, <1>5
    <2>2. QED
        BY <2>1 DEF Complete
<1>7. ~(Finding(x, lev))
    <2>1. ~(lev <= x.lev)
        BY <1>1, <1>3
    <2>2. QED
        BY <2>1 DEF Finding
<1>8. ASSUME L = 0, Finding(z, lev), z.id[lev] = x.next PROVE FALSE
    <2>1. z.lev < z.type /\ z.type <= DAY /\ z.type \in Int /\ z.lev \in Int
        <3>1. z.lev # -1
            BY <1>4, <1>8 DEF Finding, YEAR, DAY
        <3>2. z.type = SlicingType(view) /\ z.lev < z.type
            BY <1>2, <1>3, <3>1 DEF Iterations
        <3>3. SlicingType(view) \in YEAR..DAY
            BY DEF SlicingType, YEAR, MONTH, DAY
        <3>4. z.lev \in -1..DAY
            BY <1>2, <1>3, IterFacts
        <3>5. QED
            BY <3>2, <3>3, <3>4 DEF YEAR, DAY
    <2>2. lev < DAY /\ lev <= z.lev /\ z.finds[lev]
        BY <1>4, <1>8, <2>1 DEF Finding, YEAR, DAY
    <2>3. LoopAt(items, z, lev, TRUE)
        BY <1>2, <1>4, <2>2 DEF Looping
    <2>4. Filling(items, lev, item, z.part[lev])
        BY <1>8, <2>2, <2>3 DEF LoopAt, item
    <2>5. item.n = LastPart(Begins(item), lev) /\ AtStart(Begins(item), lev)
        BY <2>2, <2>4 DEF Filling
    <2>6. LastPart(Begins(item), lev) \in Nat
        BY <1>1, <1>4, <2>5, FillingFrom
    <2>7. QED
        BY <1>3, <2>5, <2>6
<1>9. Fresh(item)
    <2> SUFFICES ASSUME ~Fresh(item) PROVE FALSE
        OBVIOUS
    <2>1. PICK M \in {0, 1} : Finding(iter[M], lev) /\ iter[M].id[lev] = x.next
        BY <1>1, <1>2, <1>4, <1>6 DEF Status, item
    <2>2. M # L
        BY <1>3, <1>7, <2>1
    <2>3. M # 0 \/ iter[0].lev # -1
        BY <1>4, <2>1 DEF Finding, YEAR, DAY
    <2>4. M = 1 /\ L = 0
        BY <1>1, <2>2, <2>3
    <2>5. QED
        BY <1>3, <1>8, <2>1, <2>4
<1>10. QED
    BY <1>8, <1>9 DEF item, lev, x, z

\* An item whose parts were found before is gone over.
LEMMA VisitBegins ==
    ASSUME SlicingInv, NEW L \in {0, 1}, Runs(L), iter[L].next # 0, iter[L].lev + 1 < iter[L].type,
           items[iter[L].lev + 1][iter[L].next].n # -1, items' = items,
           iter' = LoopBegun(iter, L, iter[L].lev + 1, iter[L].next, 1, FALSE)
    PROVE  \E y : TurnInv(L, 0, 0, y)
<1> DEFINE x == iter[L]  lev == x.lev + 1  i == x.next  item == items[lev][i]  c == L = 1
<1>1. /\ x \in IterSet /\ x.lev \in 0..DAY /\ x.lev # -1 /\ lev \in YEAR..HOUR /\ x.lev < x.type /\ x.type \in Int
      /\ x.year \in 1..(LastYear + 1) /\ Looping(items, x, c)
      /\ i \in DOMAIN items[lev] /\ i \in Nat /\ (L = 1 => iter[0].lev = -1)
    BY InCall
<1>2. /\ items \in Vectors /\ iter \in Iters /\ x.type \in YEAR..HOUR
    BY IterFacts DEF SlicingInv
<1>3. /\ x = iter[L] /\ lev = x.lev + 1 /\ i = x.next /\ item = items[lev][i] /\ lev < x.type /\ item.n # -1
      /\ ~failed /\ c \in BOOLEAN /\ (L = 0 \/ L = 1) /\ iter' = LoopBegun(iter, L, lev, i, 1, FALSE) /\ i # 0
    BY DEF Runs
<1> HIDE DEF x, lev, i, item, c
<1>4. lev \in YEAR..DAY /\ x.lev < lev /\ lev # -1 /\ \A m \in YEAR..DAY : m <= lev /\ m # lev => m <= x.lev
    BY <1>1, <1>2, <1>3 DEF YEAR, DAY, HOUR
<1>5. /\ c => Complete(items, lev, item)
      /\ \A t \in Int : In(t, x.ran) /\ In(t, item.ran) =>
             \E k \in DOMAIN item.subs : 1 <= k /\ In(t, PartRan(items, lev, item, k))
    <2>1. ~(Finding(iter[L], lev) /\ iter[L].id[lev] = i)
        <3>1. ~(lev <= x.lev)
            BY <1>1, <1>4 DEF YEAR, DAY
        <3>2. QED
            BY <1>3, <3>1 DEF Finding
    <2>2. items[lev][i].n # -1 /\ iter[L].lev # -1
        BY <1>1, <1>3
    <2>3. L = 1 <=> c
        BY DEF c
    <2>4. /\ ~failed /\ lev \in YEAR..DAY /\ i \in DOMAIN items[lev] /\ (L = 1 => iter[0].lev = -1)
          /\ x.ran = iter[L].ran /\ item = items[lev][i]
        BY <1>1, <1>3, <1>4
    <2>5. /\ L = 1 => Complete(items, lev, items[lev][i])
          /\ \A t \in Int : In(t, iter[L].ran) /\ In(t, items[lev][i].ran) =>
                 \E k \in DOMAIN items[lev][i].subs : 1 <= k /\ In(t, PartRan(items, lev, items[lev][i], k))
        BY <2>1, <2>2, <2>4, VisitedItem
    <2>6. QED
        BY <2>3, <2>4, <2>5
<1>6. PICK y \in IterSet : Goes(iter, iter', L, y, lev, iter[L].year, 0) /\ LoopIs(iter[L], y, lev, i, 1, FALSE)
    <2>1. 1 \in Int /\ FALSE \in BOOLEAN
        OBVIOUS
    <2>2. QED
        BY <1>1, <1>2, <1>3, <1>4, <2>1, LoopHasBegun
<1>7. /\ Turned(iter, iter', L, y) /\ Alike(x, y) /\ y.lev = lev /\ y.year = x.year /\ y.next = 0
      /\ (\A m \in YEAR..DAY : m # lev => SameLoop(x, y, m))
      /\ y.id[lev] = i /\ y.part[lev] = 1 /\ y.finds[lev] = FALSE
    BY <1>3, <1>6 DEF Goes, LoopIs
<1>8. ASSUME NEW m \in YEAR..DAY, m <= lev, m # lev
      PROVE  LoopAt(items, y, m, c) /\ \A t : AheadIn(items, x, m, t) => AheadIn(items, y, m, t)
    <2>1. LoopAt(items, x, m, c)
        BY <1>1, <1>4, <1>8 DEF Looping
    <2>2. QED
        BY <1>7, <1>8, <2>1, LoopStays
<1>9. LoopAt(items, y, lev, c)
    <2>1. /\ y.id[lev] = i /\ y.part[lev] = 1 /\ y.finds[lev] = FALSE
          /\ i \in DOMAIN items[lev] /\ items[lev][i].n # -1
        BY <1>1, <1>3, <1>7
    <2>2. c => Complete(items, lev, items[lev][i])
        BY <1>3, <1>5
    <2>3. QED
        BY <2>1, <2>2 DEF LoopAt
<1>10. Looping(items, y, c)
    BY <1>7, <1>8, <1>9 DEF Looping
<1>11. Called(items, y)
    BY <1>7 DEF Called
<1>12. ASSUME NEW m \in YEAR..DAY
       PROVE  /\ Finding(y, m) => Finding(x, m) /\ y.id[m] = x.id[m]
              /\ Finding(x, m) => Finding(y, m)
    <2>1. Finding(y, m) => m # lev /\ m <= lev
        BY <1>7 DEF Finding
    <2>2. Finding(x, m) => m # lev /\ m <= lev
        BY <1>1, <1>4 DEF Finding, YEAR, DAY
    <2>3. m # lev => SameLoop(x, y, m)
        BY <1>7
    <2>4. QED
        BY <1>4, <1>7, <2>1, <2>2, <2>3 DEF Finding, SameLoop
<1>13. L = 1 => Nested(items, iter')
    <2> SUFFICES ASSUME L = 1 PROVE Nested(items, iter')
        OBVIOUS
    <2>1. iter'[0].lev = -1 /\ iter'[1] = y /\ x = iter[1]
        BY <1>1, <1>3, <1>7 DEF Turned
    <2>2. Nested(items, iter)
        BY <1>3 DEF SlicingInv
    <2>3. ASSUME NEW l \in YEAR..DAY, NEW m \in YEAR..DAY, Finding(y, l), l < m, m <= y.lev
          PROVE  (m <= x.lev /\ y.id[m] = x.id[m]) \/ InLast(items, x, l, items[m][y.id[m]].ran)
        <3>1. CASE m # lev
            BY <1>4, <1>7, <2>3, <3>1 DEF SameLoop
        <3>2. CASE m = lev
            <4>1. Finding(x, l)
                BY <1>12, <2>3
            <4>2. InLast(items, x, l, items[x.lev + 1][x.next].ran)
                BY <1>3, <2>1, <2>2, <4>1 DEF Nested
            <4>3. QED
                BY <1>3, <1>7, <3>2, <4>2
        <3>3. QED
            BY <3>1, <3>2
    <2>4. \A m \in YEAR..DAY : Finding(iter'[1], m) => Finding(iter[1], m) /\ iter'[1].id[m] = iter[1].id[m]
        BY <1>12, <2>1
    <2>5. \A l \in YEAR..DAY, m \in YEAR..DAY : Finding(iter'[1], l) /\ l < m /\ m <= iter'[1].lev =>
              \/ m <= iter[1].lev /\ iter'[1].id[m] = iter[1].id[m]
              \/ InLast(items, iter[1], l, items[m][iter'[1].id[m]].ran)
        BY <2>1, <2>3
    <2>6. iter'[1].next = 0
        BY <1>7, <2>1
    <2>7. QED
        BY <2>1, <2>2, <2>4, <2>5, <2>6, NestedStays
<1>14. ASSUME NEW t \in Int, In(t, x.ran), Ahead(items, x, t) PROVE Ahead(items, y, t)
    <2>1. CASE YearStart(x.year) <= t
        BY <1>4, <1>7, <2>1 DEF Ahead
    <2>2. CASE \E m \in YEAR..DAY : m <= x.lev /\ AheadIn(items, x, m, t)
        <3>1. PICK m \in YEAR..DAY : m <= x.lev /\ AheadIn(items, x, m, t)
            BY <2>2
        <3>2. m <= lev /\ m # lev
            BY <1>1, <1>4, <3>1 DEF YEAR, DAY
        <3>3. QED
            BY <1>4, <1>7, <1>8, <3>1, <3>2 DEF Ahead
    <2>3. CASE In(t, items[x.lev + 1][x.next].ran)
        <3>1. In(t, item.ran)
            BY <1>3, <2>3
        <3>2. AheadIn(items, y, lev, t)
            <4>1. PICK k \in DOMAIN item.subs : 1 <= k /\ In(t, PartRan(items, lev, item, k))
                BY <1>5, <1>14, <3>1
            <4>2. In(t, items[lev][y.id[lev]].ran) /\ y.part[lev] <= k
                BY <1>3, <1>7, <3>1, <4>1
            <4>3. items[lev][y.id[lev]] = item /\ ~y.finds[lev]
                BY <1>3, <1>7
            <4>4. QED
                BY <4>1, <4>2, <4>3 DEF AheadIn
        <3>3. lev <= y.lev
            BY <1>4, <1>7 DEF YEAR, DAY
        <3>4. QED
            BY <1>4, <1>7, <3>2, <3>3 DEF Ahead
    <2>4. QED
        BY <1>14, <2>1, <2>2, <2>3 DEF Ahead
<1>15. TurnInv(L, 0, 0, y)
    <2>1. y.lev # -1 /\ y.lev < y.type /\ y.year \in 1..(LastYear + 1)
        BY <1>1, <1>3, <1>4, <1>7 DEF Alike
    <2>2. /\ ~failed /\ items' = items /\ Turned(iter, iter', L, y) /\ Alike(iter[L], y)
          /\ \A m \in YEAR..DAY : Finding(y, m) => Finding(iter[L], m) /\ y.id[m] = iter[L].id[m]
          /\ \A m \in YEAR..DAY : ~(Finding(iter[L], m) /\ ~Finding(y, m))
        BY <1>3, <1>7, <1>12
    <2>3. L = 1 \/ iter[1].type < DAY =>
          \A t \in Int : In(t, iter[L].ran) /\ Ahead(items, iter[L], t) => Ahead(items, y, t) \/ CoveredBy(calls', t)
        BY <1>3, <1>14
    <2>4. Looping(items, y, L = 1)
        BY <1>10 DEF c
    <2>5. QED
        BY <1>11, <1>13, <2>1, <2>2, <2>3, <2>4, TurnOnly
<1>16. QED
    BY <1>15

\* What lies within the last part of an item that is kept does so still.
LEMMA InLastKept ==
    ASSUME NEW I \in Vectors, NEW J, NEW l, NEW i, Parted(I), Step(I, J, l, i),
           NEW m \in YEAR..DAY, NEW x, NEW y, y.id[m] = x.id[m], x.id[m] \in DOMAIN I[m], m # l \/ x.id[m] # i,
           NEW ran, InLast(I, x, m, ran)
    PROVE  InLast(J, y, m, ran)
<1> DEFINE j == x.id[m]
<1>1. J[m][j] = I[m][j] /\ \A q \in DOMAIN I[m][j].subs : PartRan(J, m, J[m][j], q) = PartRan(I, m, I[m][j], q)
    BY ItemKept
<1>2. I[m][j].subs \in Seq(Nat)
    <2>1. m \in YEAR..HOUR
        BY DEF YEAR, DAY, HOUR
    <2>2. QED
        BY <2>1, VectorFacts
<1>3. I[m][j].subs # <<>>
    BY DEF InLast
<1> HIDE DEF j
<1>4. Len(I[m][j].subs) \in DOMAIN I[m][j].subs
    BY <1>2, <1>3
<1>5. QED
    BY <1>1, <1>3, <1>4 DEF InLast, LastRan, j

\* The item before the loop that finds its parts: of years and months their
\* number is set.
LEMMA NumberedItem ==
    ASSUME SlicingInv, NEW lev \in YEAR..DAY, NEW i \in DOMAIN items[lev], Fresh(items[lev][i]),
           IsSlice(lev, items[lev][i].ran), AtStart(Begins(items[lev][i]), lev),
           NEW J, J = IF lev = DAY THEN items ELSE SetNumber(items, lev, i, LastPart(Begins(items[lev][i]), lev))
    PROVE  /\ Step(items, J, lev, i) /\ Parted(J) /\ i \in DOMAIN J[lev] /\ ~Complete(items, lev, items[lev][i])
           /\ Filling(J, lev, J[lev][i], FirstPart(lev)) /\ FirstPart(lev) \in Int
           /\ J[lev][i].ran = items[lev][i].ran /\ FoundTo(J, lev, J[lev][i]) = items[lev][i].ran.fr
<1> DEFINE item == items[lev][i]  b == Begins(item)  n == LastPart(b, lev)  v == J[lev][i]
<1>1. items \in Vectors /\ Slices(items) /\ Parted(items) /\ lev \in YEAR..HOUR /\ lev \in Int /\ lev # HOUR
    BY DEF SlicingInv, YEAR, DAY, HOUR
<1>2. /\ b = Clock[item.ran.fr + 1] /\ n \in Nat /\ n >= 1 /\ FirstPart(lev) \in {0, 1}
      /\ (lev < DAY => FirstPart(lev) = 1) /\ (lev = DAY => FirstPart(lev) = 0)
      /\ simple_date_to_ts(PartDate(b, lev, FirstPart(lev))) = item.ran.fr
    BY FillingFrom
<1>3. item.n = -1 /\ item.subs = <<>> /\ AtStart(b, lev)
    BY DEF Fresh
<1>4. item = items[lev][i] /\ v = J[lev][i]
    OBVIOUS
<1> HIDE DEF n, v
<1>5. OneChanged(items, J, lev, i) /\ Grows(items, J) /\ Slices(J) /\ v.subs = <<>> /\ v.n = IF lev = DAY THEN -1 ELSE n
    <2>1. CASE lev = DAY
        <3>1. J = items
            BY <2>1
        <3>2. QED
            BY <1>4, <1>1, <1>3, <2>1, <3>1 DEF OneChanged, Grows
    <2>2. CASE lev # DAY
        <3>1. n \in Int
            BY <1>2
        <3>2. J = SetNumber(items, lev, i, n)
            BY <2>2 DEF n
        <3>3. QED
            BY <1>4, <1>1, <1>3, <2>2, <3>1, <3>2, NumberSet
    <2>3. QED
        BY <2>1, <2>2
<1>6. Step(items, J, lev, i)
    BY <1>1, <1>5 DEF Step, OneChanged
<1>7. v.ran = item.ran /\ i \in DOMAIN J[lev]
    BY <1>4, <1>1, <1>5 DEF OneChanged
<1>8. Chain(J, lev, v)
    BY <1>5 DEF Chain
<1>9. Parted(J)
    BY <1>4, <1>1, <1>6, <1>8, StepParted
<1>10. FoundTo(J, lev, v) = item.ran.fr
    BY <1>5, <1>7 DEF FoundTo
<1>11. Filling(J, lev, v, FirstPart(lev))
    <2>1. Begins(v) = b
        BY <1>4, <1>7 DEF Begins
    <2>2. FirstPart(lev) \in FirstPart(lev)..(LastPart(b, lev) + 1)
        BY <1>2 DEF n
    <2>3. Len(v.subs) = 0
        BY <1>5
    <2>4. /\ (lev < DAY => v.n = LastPart(b, lev) /\ Len(v.subs) = FirstPart(lev) - 1)
          /\ (lev = DAY => v.n = -1 /\ Len(v.subs) = FirstPart(lev))
        <3>1. CASE lev = DAY
            BY <1>2, <1>5, <2>3, <3>1 DEF DAY
        <3>2. CASE lev # DAY
            <4>1. n = LastPart(b, lev)
                BY DEF n
            <4>2. v.n = n
                BY <1>5, <3>2
            <4>3. lev < DAY => Len(v.subs) = FirstPart(lev) - 1
                BY <1>2, <2>3
            <4>4. QED
                BY <3>2, <4>1, <4>2, <4>3
        <3>3. QED
            BY <3>1, <3>2
    <2>5. QED
        BY <1>2, <1>3, <1>10, <2>1, <2>2, <2>4 DEF Filling
<1>12. ~Complete(items, lev, item)
    BY <1>3 DEF Complete
<1>13. FirstPart(lev) \in Int
    BY <1>2
<1>14. QED
    BY <1>6, <1>7, <1>9, <1>10, <1>11, <1>12, <1>13 DEF v

\* The loop that finds the parts of an item begins.
LEMMA FindBegins ==
    ASSUME SlicingInv, NEW L \in {0, 1}, Runs(L), iter[L].next # 0, iter[L].lev + 1 < iter[L].type,
           items[iter[L].lev + 1][iter[L].next].n = -1,
           AtStart(Begins(items[iter[L].lev + 1][iter[L].next]), iter[L].lev + 1),
           items' = IF iter[L].lev + 1 = DAY THEN items
                    ELSE SetNumber(items, iter[L].lev + 1, iter[L].next,
                                   LastPart(Begins(items[iter[L].lev + 1][iter[L].next]), iter[L].lev + 1)),
           iter' = LoopBegun(iter, L, iter[L].lev + 1, iter[L].next, FirstPart(iter[L].lev + 1), TRUE)
    PROVE  \E y : TurnInv(L, iter[L].lev + 1, iter[L].next, y)
<1> DEFINE x == iter[L]  lev == x.lev + 1  i == x.next  item == items[lev][i]  c == L = 1  J == items'
<1>1. /\ x \in IterSet /\ x.lev \in 0..DAY /\ x.lev # -1 /\ lev \in YEAR..HOUR /\ x.lev < x.type /\ x.type \in Int
      /\ x.year \in 1..(LastYear + 1) /\ Looping(items, x, c) /\ IsSlice(lev, item.ran)
      /\ i \in DOMAIN items[lev] /\ i \in Nat /\ (L = 1 => iter[0].lev = -1)
    BY InCall
<1>2. /\ items \in Vectors /\ iter \in Iters /\ x.type \in YEAR..HOUR /\ Parted(items) /\ Status(items, iter)
    BY IterFacts DEF SlicingInv, Runs
<1>3. Fresh(item) /\ (L = 0 /\ Finding(iter[1], lev) => iter[1].id[lev] # i)
    BY CalledFresh
<1>4. /\ x = iter[L] /\ lev = x.lev + 1 /\ i = x.next /\ item = items[lev][i] /\ lev < x.type /\ AtStart(Begins(item), lev)
      /\ ~failed /\ c \in BOOLEAN /\ (L = 0 \/ L = 1) /\ iter' = LoopBegun(iter, L, lev, i, FirstPart(lev), TRUE) /\ i # 0
      /\ J = items' /\ J = (IF lev = DAY THEN items ELSE SetNumber(items, lev, i, LastPart(Begins(item), lev)))
      /\ (c <=> L = 1)
    BY DEF Runs
<1> HIDE DEF x, lev, i, item, c, J
<1>5. lev \in YEAR..DAY /\ x.lev < lev /\ lev # -1 /\ \A m \in YEAR..DAY : m <= lev /\ m # lev => m <= x.lev
    <2>1. x.lev \in 0..DAY /\ lev = x.lev + 1 /\ lev < x.type /\ x.type \in YEAR..HOUR
        BY <1>1, <1>2, <1>4
    <2>2. QED
        BY <2>1 DEF YEAR, DAY, HOUR
<1>6. /\ Step(items, J, lev, i) /\ Parted(J) /\ i \in DOMAIN J[lev] /\ ~Complete(items, lev, item)
      /\ Filling(J, lev, J[lev][i], FirstPart(lev)) /\ FirstPart(lev) \in Int
      /\ J[lev][i].ran = item.ran /\ FoundTo(J, lev, J[lev][i]) = item.ran.fr
    <2>1. /\ i \in DOMAIN items[lev] /\ Fresh(items[lev][i]) /\ IsSlice(lev, items[lev][i].ran)
          /\ AtStart(Begins(items[lev][i]), lev) /\ item = items[lev][i]
          /\ J = (IF lev = DAY THEN items ELSE SetNumber(items, lev, i, LastPart(Begins(items[lev][i]), lev)))
        BY <1>1, <1>3, <1>4
    <2>2. QED
        BY <1>5, <2>1, NumberedItem
<1>7. PICK y \in IterSet : Goes(iter, iter', L, y, lev, iter[L].year, 0) /\ LoopIs(iter[L], y, lev, i, FirstPart(lev), TRUE)
    <2>1. TRUE \in BOOLEAN
        OBVIOUS
    <2>2. QED
        BY <1>1, <1>2, <1>4, <1>5, <1>6, <2>1, LoopHasBegun
<1>8. /\ Turned(iter, iter', L, y) /\ Alike(x, y) /\ y.lev = lev /\ y.year = x.year /\ y.next = 0
      /\ (\A m \in YEAR..DAY : m # lev => SameLoop(x, y, m))
      /\ y.id[lev] = i /\ y.part[lev] = FirstPart(lev) /\ y.finds[lev] = TRUE
    BY <1>4, <1>7 DEF Goes, LoopIs
<1>9. ASSUME NEW m \in YEAR..DAY, m <= lev, m # lev
      PROVE  LoopAt(J, y, m, c) /\ \A t : AheadIn(items, x, m, t) => AheadIn(J, y, m, t)
    <2>1. LoopAt(items, x, m, c)
        BY <1>1, <1>5, <1>9 DEF Looping
    <2>2. SameLoop(x, y, m) /\ c \in BOOLEAN /\ items \in Vectors /\ Parted(items) /\ Step(items, J, lev, i)
        BY <1>2, <1>4, <1>6, <1>8, <1>9
    <2>3. QED
        BY <1>9, <2>1, <2>2, LoopKept
<1>10. LoopAt(J, y, lev, c)
    BY <1>6, <1>8 DEF LoopAt
<1>11. Looping(J, y, c)
    BY <1>8, <1>9, <1>10 DEF Looping
<1>12. Called(J, y)
    BY <1>8 DEF Called
<1>13. ASSUME NEW m \in YEAR..DAY
       PROVE  /\ Finding(y, m) => (Finding(x, m) /\ y.id[m] = x.id[m]) \/ (m = lev /\ y.id[m] = i)
              /\ Finding(x, m) => Finding(y, m) /\ y.id[m] = x.id[m]
              /\ m < lev => y.id[m] = x.id[m]
    <2>1. Finding(x, m) => m # lev /\ m <= lev
        BY <1>1, <1>5 DEF Finding, YEAR, DAY
    <2>2. m # lev => SameLoop(x, y, m)
        BY <1>8
    <2>3. Finding(y, m) => m <= lev
        BY <1>8 DEF Finding
    <2>4. m < lev => m # lev
        BY <1>5 DEF YEAR, DAY
    <2>5. QED
        BY <1>5, <1>8, <2>1, <2>2, <2>3, <2>4 DEF Finding, SameLoop
<1>14. Finding(y, lev) /\ y.id[lev] = i
    <2>1. lev <= y.lev
        BY <1>5, <1>8 DEF YEAR, DAY
    <2>2. QED
        BY <1>8, <2>1 DEF Finding
<1>15. Status(J, iter')
    <2>1. x = iter[L]
        BY <1>4
    <2>2. \A m \in YEAR..DAY : Finding(iter[L], m) /\ ~(Finding(y, m) /\ y.id[m] = iter[L].id[m]) =>
              Complete(J, m, J[m][iter[L].id[m]])
        BY <1>13, <2>1
    <2>3. Turned(iter, iter', L, y) /\ Step(items, J, lev, i) /\ Parted(items) /\ Status(items, iter)
        BY <1>2, <1>6, <1>8
    <2>4. lev \in YEAR..DAY /\ i \in DOMAIN items[lev] => Complete(J, lev, J[lev][i]) \/ (Finding(y, lev) /\ y.id[lev] = i)
        BY <1>14
    <2>5. items \in Vectors /\ iter \in Iters
        BY <1>2
    <2>6. ASSUME NEW jt, Turned(iter, jt, L, y) PROVE Status(J, jt)
        BY <2>2, <2>3, <2>4, <2>5, <2>6, StepStatus
    <2>7. QED
        BY <2>3, <2>6
<1>16. ASSUME L = 1 PROVE Nested(J, iter')
    <2>1. iter'[1] = y /\ iter'[0].lev = -1 /\ x = iter[1]
        BY <1>1, <1>4, <1>8, <1>16 DEF Turned
    <2>2. Nested(items, iter)
        BY <1>4 DEF SlicingInv
    <2> SUFFICES ASSUME NEW l \in YEAR..DAY, Finding(y, l), NEW m \in YEAR..DAY, l < m, m <= lev
                 PROVE  InLast(J, y, l, J[m][y.id[m]].ran)
        BY <1>8, <2>1 DEF Nested
    <2>3. l < lev /\ l # lev /\ l <= lev
        BY <1>5 DEF YEAR, DAY
    <2>4. Finding(x, l) /\ y.id[l] = x.id[l]
        BY <1>13, <2>3
    <2>5. x.id[l] \in DOMAIN items[l]
        <3>1. LoopAt(items, x, l, c)
            BY <1>1, <2>4 DEF Looping, Finding
        <3>2. QED
            BY <3>1 DEF LoopAt
    <2>6. InLast(items, x, l, J[m][y.id[m]].ran)
        <3>1. CASE m = lev
            <4>1. InLast(items, x, l, items[x.lev + 1][x.next].ran)
                BY <1>4, <2>1, <2>2, <2>4 DEF Nested
            <4>2. QED
                BY <1>4, <1>6, <1>8, <3>1, <4>1
        <3>2. CASE m # lev
            <4>1. m <= x.lev /\ y.id[m] = x.id[m]
                BY <1>5, <1>8, <3>2 DEF SameLoop
            <4>2. x.id[m] \in DOMAIN items[m]
                <5>1. LoopAt(items, x, m, c)
                    BY <1>1, <4>1 DEF Looping
                <5>2. QED
                    BY <5>1 DEF LoopAt
            <4>3. J[m][y.id[m]].ran = items[m][x.id[m]].ran
                <5>1. m \in YEAR..HOUR /\ Grows(items, J)
                    BY <1>6 DEF Step, YEAR, DAY, HOUR
                <5>2. QED
                    BY <4>1, <4>2, <5>1 DEF Grows
            <4>4. InLast(items, x, l, items[m][x.id[m]].ran)
                BY <2>1, <2>2, <2>4, <4>1 DEF Nested
            <4>5. QED
                BY <4>3, <4>4
        <3>3. QED
            BY <3>1, <3>2
    <2>7. QED
        BY <1>2, <1>6, <2>3, <2>4, <2>5, <2>6, InLastKept
<1>17. ASSUME NEW t \in Int, In(t, x.ran), Ahead(items, x, t) PROVE Ahead(J, y, t)
    <2>1. CASE YearStart(x.year) <= t
        BY <1>5, <1>8, <2>1 DEF Ahead
    <2>2. CASE \E m \in YEAR..DAY : m <= x.lev /\ AheadIn(items, x, m, t)
        <3>1. PICK m \in YEAR..DAY : m <= x.lev /\ AheadIn(items, x, m, t)
            BY <2>2
        <3>2. m <= lev /\ m # lev
            BY <1>1, <1>5, <3>1 DEF YEAR, DAY
        <3>3. QED
            BY <1>5, <1>8, <1>9, <3>1, <3>2 DEF Ahead
    <2>3. CASE In(t, items[x.lev + 1][x.next].ran)
        <3>1. In(t, item.ran)
            BY <1>4, <2>3
        <3>2. In(t, J[lev][y.id[lev]].ran) /\ FoundTo(J, lev, J[lev][y.id[lev]]) <= t
            BY <1>6, <1>8, <3>1 DEF In
        <3>3. AheadIn(J, y, lev, t)
            BY <1>8, <3>2 DEF AheadIn
        <3>4. lev <= y.lev
            BY <1>5, <1>8 DEF YEAR, DAY
        <3>5. QED
            BY <1>5, <1>8, <3>3, <3>4 DEF Ahead
    <2>4. QED
        BY <1>17, <2>1, <2>2, <2>3 DEF Ahead
<1>18. TurnInv(L, lev, i, y)
    <2>1. y.lev # -1 /\ y.lev < y.type /\ y.year \in 1..(LastYear + 1)
        BY <1>1, <1>4, <1>5, <1>8 DEF Alike
    <2>2. /\ items' = J /\ Turned(iter, iter', L, y) /\ Alike(iter[L], y)
          /\ ~Complete(items, lev, items[lev][i])
          /\ \A m \in YEAR..DAY : Finding(y, m) => (Finding(iter[L], m) /\ y.id[m] = iter[L].id[m]) \/ (m = lev /\ y.id[m] = i)
        BY <1>4, <1>6, <1>8, <1>13
    <2>3. \A t \in Int : In(t, iter[L].ran) /\ Ahead(items, iter[L], t) => Ahead(items', y, t)
        BY <1>4, <1>17
    <2>4. Looping(J, y, L = 1)
        BY <1>4, <1>11 DEF c
    <2>5. QED
        BY <1>3, <1>6, <1>12, <1>15, <1>16, <2>1, <2>2, <2>3, <2>4 DEF TurnInv
<1>19. QED
    BY <1>18 DEF x, lev, i

\* "[slicing] month", "[slicing] day", "[slicing] hour" end the program at a
\* slice of the view that does not begin at midnight.
LEMMA CallFails ==
    ASSUME SlicingInv, stage = "slicing", NEW L \in {0, 1}, Runs(L), iter[L].next # 0,
           iter[L].lev + 1 < iter[L].type, ts_ran_overlap(iter[L].ran, items[iter[L].lev + 1][iter[L].next].ran),
           ~AtStart(Begins(items[iter[L].lev + 1][iter[L].next]), iter[L].lev + 1),
           failed' = TRUE, UNCHANGED <<items, iter, calls, frameVars>>
    PROVE  SlicingInv'
<1> DEFINE x == iter[L]  lev == x.lev + 1  ran == items[lev][x.next].ran
<1>1. /\ x \in IterSet /\ x.lev \in 0..DAY /\ x.lev # -1 /\ lev \in YEAR..HOUR /\ x.type \in Int
      /\ IsSlice(lev, ran) /\ (L = 1 => x.type <= DAY)
    BY InCall
<1>2. /\ items \in Vectors /\ iter \in Iters /\ Slices(items) /\ Parted(items) /\ FrameInv /\ CallsInv /\ Iterations(iter)
      /\ x.type \in YEAR..HOUR
    BY IterFacts DEF SlicingInv, Runs
<1>3. lev < x.type /\ ts_ran_overlap(x.ran, ran) /\ ~AtStart(Clock[ran.fr + 1], lev) /\ x = iter[L] /\ (L = 0 \/ L = 1)
    BY DEF Begins, simple_date_from_ts
<1> HIDE DEF x, lev, ran
<1>4. lev \in YEAR..DAY
    BY <1>1, <1>2, <1>3 DEF YEAR, DAY, HOUR
<1>5. ran.fr \in Nat /\ ran.to \in Nat
    BY <1>1, SliceFacts
<1>6. ts_ran_overlap(ran, view)
    <2>1. CASE L = 1
        <3>1. x.ran = view
            BY <1>1, <1>2, <1>3, <2>1 DEF Iterations
        <3>2. view \in Views
            BY <1>2 DEF FrameInv
        <3>3. view.fr \in Nat /\ view.to \in Nat
            BY <3>2, ViewsAssumption
        <3>4. QED
            BY <1>3, <1>5, <3>1, <3>3 DEF ts_ran_overlap
    <2>2. CASE L = 0
        <3>1. /\ x.type = iter[1].type + 1 /\ iter[1].type \in YEAR..HOUR
              /\ IsSlice(iter[1].type, x.ran) /\ ts_ran_overlap(view, x.ran)
            BY <1>1, <1>2, <1>3, <2>2, IterFacts DEF Iterations
        <3>2. x.ran.fr \in Nat /\ x.ran.to \in Nat
            BY <3>1, SliceFacts
        <3>3. iter[1].type \in lev..DAY
            BY <1>2, <1>3, <1>4, <3>1 DEF YEAR, DAY, HOUR
        <3>4. ts_ran_overlap(ran, x.ran)
            BY <1>3, <1>5, <3>2 DEF ts_ran_overlap
        <3>5. Within(x.ran, ran)
            BY <1>1, <1>4, <3>1, <3>3, <3>4, SlicesNest
        <3>6. view \in Views
            BY <1>2 DEF FrameInv
        <3>7. view.fr \in Nat /\ view.to \in Nat
            BY <3>6, ViewsAssumption
        <3>8. QED
            BY <1>5, <3>1, <3>2, <3>5, <3>7 DEF ts_ran_overlap, Within
    <2>3. QED
        BY <1>3, <2>1, <2>2
<1>7. FailedInv'
    BY <1>1, <1>3, <1>4, <1>6 DEF FailedInv, frameVars
<1>8. CallsInv'
    BY <1>2 DEF CallsInv, CoveredBy, frameVars
<1>9. FrameInv'
    BY <1>2 DEF FrameInv, frameVars
<1>10. items' \in Vectors /\ iter' \in Iters /\ failed' \in BOOLEAN /\ Slices(items)' /\ Parted(items)' /\ ~(~failed')
    BY <1>2
<1>11. QED
    BY <1>7, <1>8, <1>9, <1>10 DEF SlicingInv

\* A slice is drawn.
LEMMA CallAppended ==
    ASSUME CallsInv, stage = "slicing", UNCHANGED frameVars, NEW ran, IsSlice(DrawnType(view), ran),
           calls' = Append(calls, [ran |-> ran, top |-> FALSE])
    PROVE  /\ CallsInv'
           /\ \A t : CoveredBy(calls, t) => CoveredBy(calls', t)
           /\ \A t : In(t, ran) => CoveredBy(calls', t)
<1> DEFINE c == [ran |-> ran, top |-> FALSE]
<1>1. stage' = "slicing" /\ view' = view
    BY DEF frameVars
<1>2. DrawnType(view) \in YEAR..HOUR
    BY DEF DrawnType, YEAR, MONTH, DAY, HOUR
<1>3. ran = Ran(ran.fr, ran.to) /\ ran.fr \in Nat /\ ran.to \in Nat
    BY <1>2, SliceFacts
<1>4. c \in [ran : Range2, top : BOOLEAN] /\ c.ran = ran /\ c.top = FALSE
    BY <1>3 DEF Ran, Range2
<1>5. calls \in Seq([ran : Range2, top : BOOLEAN]) /\ calls' = Append(calls, c)
    BY DEF CallsInv
<1> HIDE DEF c
<1>6. /\ calls' \in Seq([ran : Range2, top : BOOLEAN]) /\ Len(calls') = Len(calls) + 1 /\ Len(calls) \in Nat
      /\ DOMAIN calls' = 1..(Len(calls) + 1) /\ DOMAIN calls = 1..Len(calls)
      /\ \A k \in DOMAIN calls : k \in DOMAIN calls' /\ calls'[k] = calls[k]
      /\ Len(calls) + 1 \in DOMAIN calls' /\ calls'[Len(calls) + 1] = c
    BY <1>4, <1>5
<1>7. \A k \in DOMAIN calls' : k \in DOMAIN calls \/ k = Len(calls) + 1
    BY <1>6
<1>8. \A k \in DOMAIN calls' : ~calls'[k].top /\ IsSlice(DrawnType(view), calls'[k].ran)
    BY <1>4, <1>6, <1>7 DEF CallsInv
<1>9. CallsInv'
    BY <1>1, <1>6, <1>8 DEF CallsInv
<1>10. \A t : CoveredBy(calls, t) => CoveredBy(calls', t)
    BY <1>6 DEF CoveredBy
<1>11. \A t : In(t, ran) => CoveredBy(calls', t)
    BY <1>4, <1>6 DEF CoveredBy
<1>12. QED
    BY <1>9, <1>10, <1>11

\* The beginning of a year is a time.
LEMMA YearStartIs ==
    ASSUME NEW y \in Int
    PROVE  YearStart(y) \in Int
<1>1. <<y, 1, 1, 0>> = Date(y, 1, 1, 0) /\ Date(y, 1, 1, 0) \in AnyDate
    BY DateTuple, DateFacts
<1>2. simple_date_to_ts(Date(y, 1, 1, 0)) \in 0..Len(Clock) /\ Len(Clock) \in Nat
    BY <1>1, TimeOfDate, ClockAssumption
<1>3. QED
    BY <1>1, <1>2 DEF YearStart

\* An iteration that has gone over its years has nothing ahead.
LEMMA NothingAhead ==
    ASSUME NEW I, NEW x \in IterSet, x.lev = 0, x.next = 0, YearStart(x.year) >= x.ran.to,
           NEW t \in Int, In(t, x.ran), Ahead(I, x, t)
    PROVE  FALSE
<1>1. x.year \in Int /\ x.ran.fr \in Nat /\ x.ran.to \in Nat
    BY DEF IterSet, Range2
<1>2. YearStart(x.year) \in Int
    BY <1>1, YearStartIs
<1>3. ~(YearStart(x.year) <= t)
    BY <1>1, <1>2 DEF In
<1>4. \A l \in YEAR..DAY : ~(l <= x.lev)
    BY DEF YEAR, DAY
<1>5. QED
    BY <1>3, <1>4 DEF Ahead

\* An iteration that is over, or begins, has no loop over an item.
Rests(I, z) == z.lev \in {-1, 0} /\ z.next = 0 /\ Looping(I, z, FALSE) /\ Looping(I, z, TRUE) /\ Called(I, z)
               /\ \A l \in YEAR..DAY : ~Finding(z, l)

\* Then nothing is to be said of any item.
LEMMA NoLoops ==
    ASSUME NEW I, NEW z, z.lev \in {-1, 0}, z.next = 0
    PROVE  Rests(I, z)
<1>1. \A l \in YEAR..DAY : ~(l <= z.lev)
    BY DEF YEAR, DAY
<1>2. QED
    BY <1>1 DEF Rests, Looping, Called, Finding

\* An iteration that is over is one.
LEMMA NoIterIs == NoIter \in IterSet /\ NoIter.lev = -1 /\ NoIter.next = 0
<1>1. [l \in YEAR..DAY |-> 0] \in [YEAR..DAY -> Nat] /\ [l \in YEAR..DAY |-> 0] \in [YEAR..DAY -> Int]
      /\ [l \in YEAR..DAY |-> FALSE] \in [YEAR..DAY -> BOOLEAN]
    OBVIOUS
<1>2. YEAR \in YEAR..HOUR /\ Ran(0, 0) \in Range2 /\ -1 \in -1..DAY
    BY DEF YEAR, DAY, HOUR, Ran, Range2
<1>3. QED
    BY <1>1, <1>2 DEF NoIter, IterSet

\* The call of slicing_iter_items for a slice of the clock.
LEMMA IterBegun ==
    ASSUME NEW type \in YEAR..HOUR, NEW ran \in Range2, ran.fr < Len(Clock)
    PROVE  LET z == slicing_iter_items(type, ran)
           IN  /\ z \in IterSet /\ z.type = type /\ z.ran = ran /\ z.lev = 0 /\ z.next = 0 /\ z.lev < z.type
               /\ z.year \in 1..(LastYear + 1) /\ YearStart(z.year) <= ran.fr
               /\ \A I, t : t \in Int /\ In(t, ran) => Ahead(I, z, t)
<1> DEFINE z == slicing_iter_items(type, ran)  year == simple_date_from_ts(ran.fr)[YEAR]
<1>1. ran.fr \in Nat /\ ran.to \in Nat /\ ran.fr + 1 \in DOMAIN Clock
    BY ClockAssumption DEF Range2
<1>2. year = Clock[ran.fr + 1][YEAR]
    BY DEF simple_date_from_ts
<1>3. year \in 1..LastYear /\ YearStart(year) <= ran.fr /\ year \in Int /\ LastYear \in Nat
    BY <1>1, <1>2, Years, ClockAssumption
<1>4. YearStart(year) \in Int
    BY <1>3, YearStartIs
<1> HIDE DEF year
<1>5. /\ z = [NoIter EXCEPT !.type = type, !.ran = ran, !.year = year, !.lev = 0]
      /\ NoIter \in IterSet /\ 0 \in -1..DAY
    BY NoIterIs DEF slicing_iter_items, year, DAY
<1>6. z \in IterSet /\ z.type = type /\ z.ran = ran /\ z.lev = 0 /\ z.next = 0 /\ z.year = year
    BY <1>3, <1>5, NoIterIs DEF IterSet
<1> HIDE DEF z
<1>7. z.lev < z.type /\ z.year \in 1..(LastYear + 1)
    BY <1>3, <1>6 DEF YEAR, HOUR
<1>8. ASSUME NEW I, NEW t, t \in Int, In(t, ran) PROVE Ahead(I, z, t)
    <2>1. YearStart(z.year) <= t /\ z.lev # -1
        BY <1>1, <1>3, <1>4, <1>6, <1>8 DEF In
    <2>2. QED
        BY <2>1 DEF Ahead
<1>9. QED
    BY <1>3, <1>6, <1>7, <1>8 DEF z

\* The items stay as they are while one iteration begins or ends.
LEMMA ItemsStay ==
    ASSUME SlicingInv, ~failed, failed' = FALSE, stage = "slicing", UNCHANGED frameVars, items' = items, CallsInv',
           iter' \in Iters, Iterations(iter)', Looping(items, iter'[0], FALSE), Looping(items, iter'[1], TRUE),
           Called(items, iter'[0]), Called(items, iter'[1]),
           \A l \in YEAR..DAY : \A L \in {0, 1} : Finding(iter[L], l) => Finding(iter'[L], l) /\ iter'[L].id[l] = iter[L].id[l],
           Different(iter'), Nested(items, iter'), Covers(items, iter', calls')
    PROVE  SlicingInv'
<1>1. items' \in Vectors /\ Slices(items') /\ Parted(items')
    BY DEF SlicingInv
<1>2. FrameInv' /\ FailedInv' /\ failed' \in BOOLEAN /\ stage' = stage /\ view' = view
    BY DEF SlicingInv, FrameInv, FailedInv, frameVars
<1>3. Status(items', iter')
    <2>1. Status(items, iter)
        BY DEF SlicingInv
    <2> SUFFICES ASSUME NEW l \in YEAR..DAY, NEW i \in DOMAIN items[l], ~Fresh(items[l][i]), ~Complete(items, l, items[l][i])
                 PROVE  \E L \in {0, 1} : Finding(iter'[L], l) /\ iter'[L].id[l] = i
        BY DEF Status
    <2>2. PICK L \in {0, 1} : Finding(iter[L], l) /\ iter[L].id[l] = i
        BY <2>1 DEF Status
    <2>3. Finding(iter'[L], l) /\ iter'[L].id[l] = i
        BY <2>2
    <2>4. QED
        BY <2>3
<1>4. Looping(items', iter'[0], FALSE) /\ Looping(items', iter'[1], TRUE) /\ Called(items', iter'[0]) /\ Called(items', iter'[1])
      /\ Different(iter') /\ Nested(items', iter')
    OBVIOUS
<1>5. Covers(items, iter, calls)'
    BY <1>2 DEF Covers
<1>6. QED
    BY <1>1, <1>2, <1>3, <1>4, <1>5 DEF SlicingInv

\* The iteration inside the callback is over, and the slice itself is drawn if
\* it is a day.
LEMMA InnerDone ==
    ASSUME SlicingInv, stage = "slicing", UNCHANGED frameVars, LastYearDone(0)
    PROVE  SlicingInv'
<1> DEFINE x == iter[0]  z == iter[1]
<1>1. /\ x.lev = 0 /\ x.next = 0 /\ ~failed /\ YearStart(x.year) >= x.ran.to /\ x = iter[0] /\ z = iter[1]
      /\ items' = items /\ failed' = FALSE /\ iter' = SetIter(iter, 0, NoIter)
      /\ calls' = IF Draws(z.type, 1) THEN Append(calls, [ran |-> x.ran, top |-> FALSE]) ELSE calls
    <2>1. x.lev = 0 /\ x.next = 0 /\ ~failed /\ YearStart(x.year) >= x.ran.to /\ items' = items /\ failed' = failed
        BY DEF LastYearDone, Loops, Runs
    <2>2. failed' = FALSE
        BY <2>1 DEF SlicingInv
    <2>3. iter' = SetIter(iter, 0, NoIter)
        BY DEF LastYearDone, SetIter
    <2>4. calls' = IF Draws(z.type, 1) THEN Append(calls, [ran |-> x.ran, top |-> FALSE]) ELSE calls
        BY DEF LastYearDone, render_ran
    <2>5. QED
        BY <2>1, <2>2, <2>3, <2>4
<1>2. /\ items \in Vectors /\ iter \in Iters /\ Iterations(iter) /\ FrameInv /\ CallsInv /\ Nested(items, iter)
      /\ Covers(items, iter, calls) /\ x \in IterSet /\ z \in IterSet
      /\ Looping(items, z, TRUE) /\ Called(items, z)
    BY <1>1, IterFacts DEF SlicingInv
<1> HIDE DEF x, z
<1>3. x.lev # -1 /\ z.lev # -1 /\ z.type = SlicingType(view) /\ IsSlice(z.type, x.ran) /\ view' = view /\ stage' = "slicing"
    BY <1>1, <1>2 DEF Iterations, frameVars
<1>4. iter' \in Iters /\ iter'[0] = NoIter /\ iter'[1] = z
    <2>1. Turned(iter, iter', 0, NoIter)
        <3>1. 0 \in {0, 1} /\ NoIter \in IterSet
            BY NoIterIs
        <3>2. QED
            BY <1>1, <1>2, <3>1, ReplacedIter
    <2>2. QED
        BY <1>1, <2>1 DEF Turned
<1>5. Rests(items, iter'[0]) /\ Rests(items, x)
    BY <1>1, <1>4, NoIterIs, NoLoops
<1>6. /\ CallsInv' /\ (\A t : CoveredBy(calls, t) => CoveredBy(calls', t))
      /\ Draws(z.type, 1) => \A t : In(t, x.ran) => CoveredBy(calls', t)
    <2>1. CASE Draws(z.type, 1)
        <3>1. z.type = DrawnType(view)
            BY <1>3, <2>1 DEF Draws, DrawnType, YEAR, DAY
        <3>2. QED
            BY <1>1, <1>2, <1>3, <2>1, <3>1, CallAppended
    <2>2. CASE ~Draws(z.type, 1)
        <3>1. calls' = calls
            BY <1>1, <2>2
        <3>2. CallsInv'
            BY <1>2, <3>1 DEF CallsInv, frameVars
        <3>3. QED
            BY <2>2, <3>1, <3>2
    <2>3. QED
        BY <2>1, <2>2
<1>7. Iterations(iter)'
    BY <1>1, <1>2, <1>4, NoIterIs DEF Iterations, frameVars
<1>8. \A l \in YEAR..DAY : \A L \in {0, 1} : Finding(iter[L], l) => Finding(iter'[L], l) /\ iter'[L].id[l] = iter[L].id[l]
    BY <1>1, <1>4, <1>5 DEF Rests
<1>9. Different(iter') /\ Nested(items, iter')
    BY <1>1, <1>2, <1>4, <1>5, NoIterIs DEF Different, Nested, Rests
<1>10. Covers(items, iter', calls')
    <2>1. iter'[0].lev = -1
        BY <1>4, NoIterIs
    <2>2. ASSUME NEW t \in Int, In(t, view) PROVE CoveredBy(calls', t) \/ Ahead(items, iter'[1], t)
        <3>1. CoveredBy(calls, t) \/ Ahead(items, z, t) \/ In(t, x.ran)
            BY <1>1, <1>2, <2>2 DEF Covers
        <3>2. CASE In(t, x.ran) /\ z.type < DAY
            <4>1. ~Ahead(items, x, t)
                BY <1>1, <1>2, <3>2, NothingAhead
            <4>2. CoveredBy(calls, t)
                BY <1>1, <1>2, <1>3, <3>2, <4>1 DEF Covers
            <4>3. QED
                BY <1>6, <4>2
        <3>3. CASE In(t, x.ran) /\ ~(z.type < DAY)
            <4>1. Draws(z.type, 1)
                BY <1>3, <3>3 DEF Draws, SlicingType, YEAR, MONTH, DAY
            <4>2. QED
                BY <1>6, <3>3, <4>1
        <3>4. QED
            BY <1>4, <1>6, <3>1, <3>2, <3>3
    <2>3. QED
        BY <1>3, <2>1, <2>2 DEF Covers
<1>11. QED
    BY <1>1, <1>2, <1>4, <1>5, <1>6, <1>7, <1>8, <1>9, <1>10, ItemsStay DEF Rests

\* The iteration over the view is over.
LEMMA OuterDone ==
    ASSUME SlicingInv, stage = "slicing", UNCHANGED frameVars, LastYearDone(1)
    PROVE  SlicingInv'
<1> DEFINE x == iter[1]  z == iter[0]
<1>1. /\ x.lev = 0 /\ x.next = 0 /\ ~failed /\ YearStart(x.year) >= x.ran.to /\ x = iter[1] /\ z = iter[0] /\ z.lev = -1
      /\ items' = items /\ failed' = FALSE /\ iter' = SetIter(iter, 1, NoIter) /\ calls' = calls
    <2>1. /\ x.lev = 0 /\ x.next = 0 /\ ~failed /\ YearStart(x.year) >= x.ran.to /\ items' = items /\ failed' = failed
          /\ z.lev = -1 /\ calls' = calls
        BY DEF LastYearDone, Loops, Runs
    <2>2. failed' = FALSE
        BY <2>1 DEF SlicingInv
    <2>3. iter' = SetIter(iter, 1, NoIter)
        BY DEF LastYearDone, SetIter
    <2>4. QED
        BY <2>1, <2>2, <2>3
<1>2. /\ items \in Vectors /\ iter \in Iters /\ Iterations(iter) /\ CallsInv
      /\ Covers(items, iter, calls) /\ x \in IterSet /\ z \in IterSet
      /\ Looping(items, z, FALSE) /\ Called(items, z)
    BY <1>1, IterFacts DEF SlicingInv
<1> HIDE DEF x, z
<1>3. x.ran = view /\ x.lev # -1 /\ view' = view /\ stage' = "slicing"
    BY <1>1, <1>2 DEF Iterations, frameVars
<1>4. iter' \in Iters /\ iter'[1] = NoIter /\ iter'[0] = z
    <2>1. Turned(iter, iter', 1, NoIter)
        <3>1. 1 \in {0, 1} /\ NoIter \in IterSet
            BY NoIterIs
        <3>2. QED
            BY <1>1, <1>2, <3>1, ReplacedIter
    <2>2. QED
        BY <1>1, <2>1 DEF Turned
<1>5. Rests(items, iter'[1]) /\ Rests(items, x)
    BY <1>1, <1>4, NoIterIs, NoLoops
<1>6. CallsInv'
    BY <1>1, <1>2 DEF CallsInv, frameVars
<1>7. Iterations(iter)'
    BY <1>1, <1>4, NoIterIs DEF Iterations
<1>8. \A l \in YEAR..DAY : \A L \in {0, 1} : Finding(iter[L], l) => Finding(iter'[L], l) /\ iter'[L].id[l] = iter[L].id[l]
    BY <1>1, <1>4, <1>5 DEF Rests
<1>9. Different(iter') /\ Nested(items, iter')
    BY <1>5 DEF Different, Nested, Rests
<1>10. Covers(items, iter', calls')
    <2>1. ASSUME NEW t \in Int, In(t, view) PROVE CoveredBy(calls', t)
        <3>1. ~Ahead(items, x, t)
            BY <1>1, <1>2, <1>3, <2>1, NothingAhead
        <3>2. QED
            BY <1>1, <1>2, <2>1, <3>1 DEF Covers
    <2>2. iter'[0].lev = -1
        BY <1>1, <1>4
    <2>3. QED
        BY <2>1, <2>2 DEF Covers
<1>11. QED
    BY <1>1, <1>2, <1>4, <1>5, <1>6, <1>7, <1>8, <1>9, <1>10, ItemsStay DEF Rests

\* The callback begins to iterate over the parts of its slice.
CallTurn(I, v) == [I EXCEPT ![1].next = 0, ![0] = v]
GoesOn(x, y) == y \in IterSet /\ Alike(x, y) /\ y.lev = x.lev /\ y.year = x.year /\ y.next = 0 /\ LoopsStay(x, y)

\* Both iterations change: the outer has called, the inner begins.
LEMMA CallTurned ==
    ASSUME NEW I \in Iters, NEW v \in IterSet, NEW J, J = CallTurn(I, v)
    PROVE  J \in Iters /\ J[0] = v /\ GoesOn(I[1], J[1])
<1>1. CallTurn(I, v) = SetIter(NextTurn(I, 1, 0), 0, v)
    BY DEF CallTurn, SetIter, NextTurn
<1>2. 0 \in Nat /\ 0 \in {0, 1} /\ 1 \in {0, 1}
    OBVIOUS
<1>3. PICK y \in IterSet : Goes(I, NextTurn(I, 1, 0), 1, y, I[1].lev, I[1].year, 0) /\ LoopsStay(I[1], y)
    BY <1>2, NextTurned
<1>4. NextTurn(I, 1, 0) \in Iters /\ NextTurn(I, 1, 0)[1] = y
    BY <1>3 DEF Goes, Turned
<1>5. Turned(NextTurn(I, 1, 0), J, 0, v)
    BY <1>1, <1>2, <1>4, ReplacedIter
<1>6. J \in Iters /\ J[0] = v /\ J[1] = y
    BY <1>4, <1>5 DEF Turned
<1>7. QED
    BY <1>3, <1>6 DEF Goes, GoesOn

\* The inner iteration begins within the slice it was called for, and all of that
\* slice is ahead of it.
LEMMA CallNests ==
    ASSUME SlicingInv, stage = "slicing", UNCHANGED frameVars, Runs(1), iter[1].next # 0,
           iter[1].lev + 1 = iter[1].type, ts_ran_overlap(iter[1].ran, items[iter[1].lev + 1][iter[1].next].ran),
           UNCHANGED <<items, calls, failed>>,
           iter' = CallTurn(iter, slicing_iter_items(iter[1].type + 1, items[iter[1].lev + 1][iter[1].next].ran))
    PROVE  SlicingInv'
<1> DEFINE x == iter[1]  lev == x.lev + 1  ran == items[lev][x.next].ran  z == slicing_iter_items(x.type + 1, ran)
<1>1. /\ x \in IterSet /\ x.lev \in 0..DAY /\ x.lev # -1 /\ lev \in YEAR..HOUR /\ x.lev < x.type /\ x.type \in Int
      /\ x.type <= DAY /\ x.year \in 1..(LastYear + 1) /\ Looping(items, x, TRUE) /\ IsSlice(lev, ran) /\ iter[0].lev = -1
    <2>1. 1 \in {0, 1}
        OBVIOUS
    <2>2. Looping(items, x, TRUE)
        BY DEF SlicingInv, Runs
    <2>3. QED
        BY <2>1, <2>2, InCall
<1>2. /\ items \in Vectors /\ iter \in Iters /\ Iterations(iter) /\ CallsInv /\ Nested(items, iter)
      /\ Covers(items, iter, calls) /\ ~failed /\ failed' = FALSE
    BY DEF SlicingInv, Runs
<1>3. /\ x = iter[1] /\ lev = x.lev + 1 /\ lev = x.type /\ ran = items[lev][x.next].ran /\ ts_ran_overlap(x.ran, ran)
      /\ iter' = CallTurn(iter, z) /\ items' = items /\ calls' = calls /\ x.next # 0
    OBVIOUS
<1> HIDE DEF x, lev, ran, z
<1>4. x.ran = view /\ stage' = "slicing" /\ view' = view /\ x.type = SlicingType(view)
    BY <1>1, <1>2, <1>3 DEF Iterations, frameVars
<1>5. ran.fr \in Nat /\ ran.to \in Nat /\ ran \in Range2 /\ ran.fr < Len(Clock) /\ x.type + 1 \in YEAR..HOUR
    <2>1. ran = Ran(ran.fr, ran.to) /\ ran.fr \in Nat /\ ran.to \in Nat /\ ran.fr < ran.to /\ ran.to <= Len(Clock)
        BY <1>1, SliceFacts
    <2>2. Len(Clock) \in Nat
        BY ClockAssumption
    <2>3. ran \in Range2 /\ ran.fr < Len(Clock)
        <3>1. \A p, q \in Nat : Ran(p, q) \in Range2
            BY DEF Ran, Range2
        <3>2. ran \in Range2
            BY <2>1, <3>1
        <3>3. QED
            BY <2>1, <2>2, <3>2
    <2>4. x.type + 1 \in YEAR..HOUR
        <3>1. x.type \in YEAR..HOUR /\ x.type <= DAY
            BY <1>1, <1>3
        <3>2. QED
            BY <3>1 DEF YEAR, DAY, HOUR
    <2>5. QED
        BY <2>1, <2>3, <2>4
<1>6. /\ z \in IterSet /\ z.type = x.type + 1 /\ z.ran = ran /\ z.lev = 0 /\ z.next = 0 /\ z.lev < z.type
      /\ z.year \in 1..(LastYear + 1) /\ \A t : t \in Int /\ In(t, ran) => Ahead(items, z, t)
    BY <1>5, IterBegun DEF z
<1>7. iter' \in Iters /\ iter'[0] = z /\ GoesOn(x, iter'[1])
    BY <1>2, <1>3, <1>6, CallTurned
<1> DEFINE y == iter'[1]
<1>8. /\ iter'[1] = y /\ y.type = x.type /\ y.ran = view /\ y.lev = x.lev /\ y.year = x.year /\ y.next = 0
      /\ \A m \in YEAR..DAY : SameLoop(x, y, m)
    BY <1>3, <1>4, <1>7 DEF GoesOn, Alike, LoopsStay
<1> HIDE DEF y
<1>9. Rests(items, z)
    BY <1>6, NoLoops
<1>10. ASSUME NEW m \in YEAR..DAY, m <= y.lev
       PROVE  LoopAt(items, y, m, TRUE) /\ \A t : AheadIn(items, x, m, t) => AheadIn(items, y, m, t)
    <2>1. LoopAt(items, x, m, TRUE)
        BY <1>1, <1>8, <1>10 DEF Looping
    <2>2. QED
        BY <1>8, <2>1, LoopStays
<1>11. \A m \in YEAR..DAY : y.id[m] = x.id[m] /\ (Finding(y, m) <=> Finding(x, m))
    BY <1>8 DEF SameLoop, Finding
<1>12. \A m \in YEAR..DAY : ~Finding(iter[0], m) /\ ~Finding(iter'[0], m)
    <2>1. \A m \in YEAR..DAY : ~(m <= -1)
        BY DEF YEAR, DAY
    <2>2. QED
        BY <1>1, <1>7, <1>9, <2>1 DEF Rests, Finding
<1>13. Looping(items, y, TRUE) /\ Called(items, y)
    BY <1>8, <1>10 DEF Looping, Called
<1>14. Iterations(iter)'
    <2>1. ts_ran_overlap(view, ran) /\ IsSlice(x.type, ran)
        BY <1>1, <1>3, <1>4
    <2>2. x.lev # -1 /\ x.lev < x.type /\ x.year \in 1..(LastYear + 1)
        BY <1>1
    <2>3. QED
        BY <1>4, <1>6, <1>7, <1>8, <2>1, <2>2 DEF Iterations
<1>15. \A l \in YEAR..DAY : \A L \in {0, 1} : Finding(iter[L], l) => Finding(iter'[L], l) /\ iter'[L].id[l] = iter[L].id[l]
    BY <1>3, <1>8, <1>11, <1>12
<1>16. Different(iter')
    BY <1>12 DEF Different
<1>17. Nested(items, iter')
    <2>1. ASSUME NEW l \in YEAR..DAY, Finding(y, l)
          PROVE  /\ \A m \in YEAR..DAY : l < m /\ m <= y.lev => InLast(items, y, l, items[m][y.id[m]].ran)
                 /\ InLast(items, y, l, z.ran)
        <3>1. Finding(x, l) /\ \A r : InLast(items, x, l, r) => InLast(items, y, l, r)
            BY <1>11, <2>1 DEF InLast
        <3>2. InLast(items, x, l, ran)
            BY <1>2, <1>3, <3>1 DEF Nested
        <3>3. \A m \in YEAR..DAY : l < m /\ m <= x.lev => InLast(items, x, l, items[m][x.id[m]].ran)
            BY <1>2, <1>3, <3>1 DEF Nested
        <3>4. QED
            BY <1>6, <1>8, <1>11, <3>1, <3>2, <3>3
    <2>2. QED
        BY <1>7, <1>8, <2>1 DEF Nested
<1>18. Covers(items, iter', calls')
    <2>1. ASSUME NEW t \in Int, In(t, view), ~CoveredBy(calls', t), ~In(t, z.ran) PROVE Ahead(items, y, t)
        <3>1. Ahead(items, x, t)
            BY <1>1, <1>2, <1>3, <1>4, <2>1 DEF Covers
        <3>2. CASE YearStart(x.year) <= t
            BY <1>1, <1>8, <3>2 DEF Ahead
        <3>3. CASE \E m \in YEAR..DAY : m <= x.lev /\ AheadIn(items, x, m, t)
            BY <1>1, <1>8, <1>10, <3>3 DEF Ahead
        <3>4. CASE In(t, items[x.lev + 1][x.next].ran)
            BY <1>3, <1>6, <2>1, <3>4
        <3>5. QED
            BY <3>1, <3>2, <3>3, <3>4 DEF Ahead
    <2>2. \A t \in Int : In(t, z.ran) => Ahead(items, z, t)
        BY <1>6
    <2>3. z.lev = 0
        BY <1>6
    <2>4. z.lev # -1
        BY <2>3
    <2>5. QED
        BY <1>7, <1>8, <2>1, <2>2, <2>4 DEF Covers
<1>19. CallsInv'
    BY <1>2, <1>3 DEF CallsInv, CoveredBy, frameVars
<1>20. Looping(items, iter'[0], FALSE) /\ Called(items, iter'[0]) /\ Looping(items, iter'[1], TRUE) /\ Called(items, iter'[1])
    BY <1>7, <1>8, <1>9, <1>13 DEF Rests
<1>21. QED
    BY <1>2, <1>3, <1>7, <1>14, <1>15, <1>16, <1>17, <1>18, <1>19, <1>20, ItemsStay

\* A turn that draws nothing.
LEMMA QuietTurn ==
    ASSUME SlicingInv, ~failed, failed' = FALSE, stage = "slicing", UNCHANGED frameVars, calls' = calls,
           NEW L \in {0, 1}, L = 1 => iter[0].lev = -1, iter[L].lev # -1,
           \E l, i, y : TurnInv(L, l, i, y)
    PROVE  SlicingInv'
<1>1. PICK l, i, y : TurnInv(L, l, i, y)
    OBVIOUS
<1>2. CallsInv'
    BY DEF SlicingInv, CallsInv, CoveredBy, frameVars
<1>3. \A t : CoveredBy(calls, t) => CoveredBy(calls', t)
    OBVIOUS
<1>4. QED
    BY <1>1, <1>2, <1>3, TurnKeeps

\* The callback of the iteration inside draws the slice.
LEMMA CallDraws ==
    ASSUME SlicingInv, stage = "slicing", UNCHANGED frameVars, Runs(0), iter[0].next # 0,
           iter[0].lev + 1 = iter[0].type, items' = items, failed' = FALSE, iter' = NextTurn(iter, 0, 0),
           render_ran(iter[0].type, 0, items[iter[0].lev + 1][iter[0].next].ran)
    PROVE  SlicingInv'
<1> DEFINE x == iter[0]  lev == x.lev + 1  ran == items[lev][x.next].ran
<1>1. /\ x.lev # -1 /\ IsSlice(lev, ran) /\ lev \in YEAR..HOUR
    <2>1. 0 \in {0, 1}
        OBVIOUS
    <2>2. QED
        BY <2>1, InCall
<1>2. Iterations(iter) /\ ~failed /\ CallsInv
    BY DEF SlicingInv, Runs
<1>3. /\ x = iter[0] /\ lev = x.lev + 1 /\ ran = items[lev][x.next].ran /\ x.type = lev
      /\ calls' = IF Draws(x.type, 0) THEN Append(calls, [ran |-> ran, top |-> FALSE]) ELSE calls
    BY DEF render_ran
<1> HIDE DEF x, lev, ran
<1>4. x.type = iter[1].type + 1 /\ iter[1].type = SlicingType(view)
    BY <1>1, <1>2, <1>3 DEF Iterations
<1>5. SlicingType(view) \in {YEAR, MONTH, DAY}
    BY DEF SlicingType
<1>6. /\ CallsInv' /\ (\A t : CoveredBy(calls, t) => CoveredBy(calls', t))
      /\ Draws(x.type, 0) => \A t : In(t, ran) => CoveredBy(calls', t)
    <2>1. CASE Draws(x.type, 0)
        <3>1. x.type = DrawnType(view)
            BY <1>4, <1>5, <2>1 DEF Draws, DrawnType, YEAR, MONTH, DAY, HOUR
        <3>2. IsSlice(DrawnType(view), ran) /\ calls' = Append(calls, [ran |-> ran, top |-> FALSE])
            BY <1>1, <1>3, <2>1, <3>1
        <3>3. QED
            BY <1>2, <3>2, CallAppended
    <2>2. CASE ~Draws(x.type, 0)
        <3>1. calls' = calls
            BY <1>3, <2>2
        <3>2. CallsInv'
            BY <1>2, <3>1 DEF CallsInv, frameVars
        <3>3. QED
            BY <2>2, <3>1, <3>2
    <2>3. QED
        BY <2>1, <2>2
<1>7. iter[1].type < DAY => Draws(x.type, 0)
    BY <1>4, <1>5 DEF Draws, YEAR, MONTH, DAY, HOUR
<1>8. ran = items[iter[0].lev + 1][iter[0].next].ran
    BY <1>3
<1>9. ASSUME NEW L, L = 0
      PROVE  SlicingInv'
    <2>1. /\ L \in {0, 1} /\ Runs(L) /\ iter[L].next # 0 /\ iter' = NextTurn(iter, L, 0) /\ iter[L].lev # -1
          /\ L # 1 /\ items[iter[L].lev + 1][iter[L].next].ran = ran
        <3>1. /\ Runs(0) /\ iter[0].next # 0 /\ iter' = NextTurn(iter, 0, 0) /\ iter[0].lev # -1
              /\ items[iter[0].lev + 1][iter[0].next].ran = ran
            BY <1>1, <1>3, <1>8
        <3>2. 0 \in {0, 1} /\ 0 # 1
            OBVIOUS
        <3>3. QED
            BY <1>9, <3>1, <3>2
    <2>2. L = 1 \/ iter[1].type < DAY =>
              \A t \in Int : In(t, iter[L].ran) /\ In(t, items[iter[L].lev + 1][iter[L].next].ran) => CoveredBy(calls', t)
        BY <1>6, <1>7, <2>1
    <2>3. PICK y : TurnInv(L, 0, 0, y)
        BY <2>1, <2>2, CallDone
    <2>4. QED
        BY <1>2, <1>6, <2>1, <2>3, TurnKeeps
<1>10. QED
    BY <1>9

\* The branches of iter_items.
LEMMA CallCases ==
    ASSUME NEW L \in {0, 1}, iter_items(L)
    PROVE  LET x == iter[L]  lev == x.lev + 1  item == items[lev][x.next]
           IN  /\ Runs(L) /\ x.next # 0
               /\ \/ /\ ~ts_ran_overlap(x.ran, item.ran)
                     /\ iter' = NextTurn(iter, L, 0)
                     /\ UNCHANGED <<items, calls, failed>>
                  \/ /\ ts_ran_overlap(x.ran, item.ran) /\ lev = x.type /\ L = 1
                     /\ iter' = CallTurn(iter, slicing_iter_items(x.type + 1, item.ran))
                     /\ UNCHANGED <<items, calls, failed>>
                  \/ /\ ts_ran_overlap(x.ran, item.ran) /\ lev = x.type /\ L = 0
                     /\ iter' = NextTurn(iter, L, 0) /\ render_ran(x.type, L, item.ran)
                     /\ UNCHANGED <<items, failed>>
                  \/ /\ ts_ran_overlap(x.ran, item.ran) /\ lev < x.type /\ item.n = -1 /\ AtStart(Begins(item), lev)
                     /\ iter' = LoopBegun(iter, L, lev, x.next, FirstPart(lev), TRUE)
                     /\ items' = IF lev = DAY THEN items ELSE SetNumber(items, lev, x.next, LastPart(Begins(item), lev))
                     /\ UNCHANGED <<calls, failed>>
                  \/ /\ ts_ran_overlap(x.ran, item.ran) /\ lev < x.type /\ item.n = -1 /\ ~AtStart(Begins(item), lev)
                     /\ failed' = TRUE /\ UNCHANGED <<items, iter, calls>>
                  \/ /\ ts_ran_overlap(x.ran, item.ran) /\ lev < x.type /\ item.n # -1
                     /\ iter' = LoopBegun(iter, L, lev, x.next, 1, FALSE)
                     /\ UNCHANGED <<items, calls, failed>>
<1>1. CASE L = 1
    BY <1>1 DEF iter_items, NextTurn, CallTurn, LoopBegun, SetNumber
<1>2. CASE L = 0
    BY <1>2 DEF iter_items, NextTurn, CallTurn, LoopBegun, SetNumber
<1>3. QED
    BY <1>1, <1>2

\* iter_items keeps the invariant.
LEMMA CallKeeps ==
    ASSUME SlicingInv, stage = "slicing", UNCHANGED frameVars, NEW L \in {0, 1}, iter_items(L)
    PROVE  SlicingInv'
<1> DEFINE x == iter[L]  lev == x.lev + 1  item == items[lev][x.next]
<1>1. Runs(L) /\ x.next # 0
    BY CallCases
<1>2. ~failed /\ failed = FALSE /\ (L = 1 => iter[0].lev = -1) /\ x.lev # -1
    BY <1>1 DEF Runs, SlicingInv
<1>3. CASE ~ts_ran_overlap(x.ran, item.ran) /\ iter' = NextTurn(iter, L, 0) /\ UNCHANGED <<items, calls, failed>>
    <2>1. \A t \in Int : ~(In(t, x.ran) /\ In(t, item.ran))
        BY <1>1, <1>3, InCall
    <2>2. \E y : TurnInv(L, 0, 0, y)
        BY <1>1, <1>3, <2>1, CallDone
    <2>3. QED
        BY <1>2, <1>3, <2>2, QuietTurn
<1>4. CASE /\ ts_ran_overlap(x.ran, item.ran) /\ lev = x.type /\ L = 1
           /\ iter' = CallTurn(iter, slicing_iter_items(x.type + 1, item.ran))
           /\ UNCHANGED <<items, calls, failed>>
    BY <1>1, <1>4, CallNests
<1>5. CASE /\ ts_ran_overlap(x.ran, item.ran) /\ lev = x.type /\ L = 0
           /\ iter' = NextTurn(iter, L, 0) /\ render_ran(x.type, L, item.ran)
           /\ UNCHANGED <<items, failed>>
    BY <1>1, <1>2, <1>5, CallDraws
<1>6. CASE /\ ts_ran_overlap(x.ran, item.ran) /\ lev < x.type /\ item.n = -1 /\ AtStart(Begins(item), lev)
           /\ iter' = LoopBegun(iter, L, lev, x.next, FirstPart(lev), TRUE)
           /\ items' = IF lev = DAY THEN items ELSE SetNumber(items, lev, x.next, LastPart(Begins(item), lev))
           /\ UNCHANGED <<calls, failed>>
    <2>1. \E y : TurnInv(L, lev, x.next, y)
        BY <1>1, <1>6, FindBegins
    <2>2. QED
        BY <1>2, <1>6, <2>1, QuietTurn
<1>7. CASE /\ ts_ran_overlap(x.ran, item.ran) /\ lev < x.type /\ item.n = -1 /\ ~AtStart(Begins(item), lev)
           /\ failed' = TRUE /\ UNCHANGED <<items, iter, calls>>
    BY <1>1, <1>7, CallFails
<1>8. CASE /\ ts_ran_overlap(x.ran, item.ran) /\ lev < x.type /\ item.n # -1
           /\ iter' = LoopBegun(iter, L, lev, x.next, 1, FALSE)
           /\ UNCHANGED <<items, calls, failed>>
    <2>1. \E y : TurnInv(L, 0, 0, y)
        BY <1>1, <1>8, VisitBegins
    <2>2. QED
        BY <1>2, <1>8, <2>1, QuietTurn
<1>9. QED
    BY ZenonT(60), <1>3, <1>4, <1>5, <1>6, <1>7, <1>8, CallCases

\* Each turn of the iterations keeps the invariant.
LEMMA CutKeeps ==
    ASSUME SlicingInv, Cut
    PROVE  SlicingInv'
<1>1. stage = "slicing" /\ UNCHANGED frameVars
    BY DEF Cut
<1>2. PICK L \in {0, 1} : NextYear(L) \/ LastYearDone(L) \/ FindPart(L) \/ AllFound(L) \/ NextPart(L) \/ iter_items(L)
    BY DEF Cut, Iterate
<1>3. Runs(L)
    BY <1>2 DEF NextYear, LastYearDone, FindPart, AllFound, NextPart, iter_items, InItem, Loops
<1>4. ~failed /\ (L = 1 => iter[0].lev = -1) /\ iter[L].lev # -1
    BY <1>3 DEF Runs
<1>5. (failed' = FALSE /\ calls' = calls /\ \E l, i, y : TurnInv(L, l, i, y)) => SlicingInv'
    BY <1>1, <1>4, QuietTurn
<1>6. CASE NextYear(L)
    BY <1>1, <1>5, <1>6, NextYearTurns
<1>7. CASE LastYearDone(L)
    <2>1. L = 0 \/ L = 1
        OBVIOUS
    <2>2. QED
        BY <1>1, <1>7, <2>1, InnerDone, OuterDone
<1>8. CASE FindPart(L)
    BY <1>5, <1>8, FindPartSome, FindPartNone
<1>9. CASE AllFound(L)
    BY <1>5, <1>9, AllFoundTurns
<1>10. CASE NextPart(L)
    BY <1>5, <1>10, NextPartGoes, NextPartEnds
<1>11. CASE iter_items(L)
    BY <1>1, <1>11, CallKeeps
<1>12. QED
    BY <1>2, <1>6, <1>7, <1>8, <1>9, <1>10, <1>11

\* While no iteration runs, the invariant is about the slices alone.
LEMMA NoIterations ==
    ASSUME NEW I, NEW it, it[0].lev = -1, it[1].lev = -1
    PROVE  /\ Looping(I, it[0], FALSE) /\ Looping(I, it[1], TRUE) /\ Called(I, it[0]) /\ Called(I, it[1])
           /\ Different(it) /\ Nested(I, it) /\ \A l \in YEAR..DAY, L \in {0, 1} : ~Finding(it[L], l)
           /\ \A jt : Status(I, it) => Status(I, jt)
           /\ \A t : ~Ahead(I, it[1], t)
<1>1. \A l \in YEAR..DAY : ~(l <= -1)
    BY DEF YEAR, DAY
<1>2. \A l \in YEAR..DAY, L \in {0, 1} : ~Finding(it[L], l)
    <2>1. ASSUME NEW l \in YEAR..DAY, NEW L \in {0, 1} PROVE ~Finding(it[L], l)
        <3>1. it[L].lev = -1
            OBVIOUS
        <3>2. QED
            BY <1>1, <3>1 DEF Finding
    <2>2. QED
        BY <2>1
<1>3. Looping(I, it[0], FALSE) /\ Looping(I, it[1], TRUE) /\ Called(I, it[0]) /\ Called(I, it[1])
    BY <1>1 DEF Looping, Called
<1>4. Different(it) /\ Nested(I, it)
    BY <1>2 DEF Different, Nested
<1>5. ASSUME NEW jt, Status(I, it) PROVE Status(I, jt)
    BY <1>2, <1>5 DEF Status
<1>6. \A t : ~Ahead(I, it[1], t)
    BY DEF Ahead
<1>7. QED
    BY <1>2, <1>3, <1>4, <1>5, <1>6

\* At the beginning nothing was cut.
LEMMA NothingYet ==
    /\ NoItems \in Vectors /\ Slices(NoItems) /\ Parted(NoItems) /\ \A it : Status(NoItems, it)
    /\ [L \in {0, 1} |-> NoIter] \in Iters
    /\ [L \in {0, 1} |-> NoIter][0].lev = -1 /\ [L \in {0, 1} |-> NoIter][1].lev = -1
<1>1. \A l \in YEAR..HOUR : NoItems[l] = <<>>
    BY DEF NoItems
<1>2. NoItems \in Vectors
    BY DEF NoItems, Vectors
<1>3. \A l \in YEAR..HOUR : \A i \in DOMAIN NoItems[l] : FALSE
    BY <1>1
<1>4. \A l \in YEAR..DAY : l \in YEAR..HOUR
    BY DEF YEAR, DAY, HOUR
<1>5. HOUR \in YEAR..HOUR
    BY DEF YEAR, HOUR
<1>6. Slices(NoItems) /\ Parted(NoItems) /\ \A it : Status(NoItems, it)
    BY <1>3, <1>4, <1>5 DEF Slices, Parted, Status
<1>7. QED
    BY <1>2, <1>6, NoIterIs DEF Iters

\* Nothing is found at the start.
LEMMA InitHolds ==
    ASSUME Init
    PROVE  SlicingInv
<1>1. /\ items = NoItems /\ iter = [L \in {0, 1} |-> NoIter] /\ calls = <<>> /\ failed = FALSE
      /\ stage = "none" /\ view = NoView /\ span = NoEvents
    BY DEF Init
<1>2. /\ items \in Vectors /\ Slices(items) /\ Parted(items) /\ Status(items, iter)
      /\ iter \in Iters /\ iter[0].lev = -1 /\ iter[1].lev = -1
    BY <1>1, NothingYet
<1>3. FrameInv /\ CallsInv /\ FailedInv /\ failed \in BOOLEAN
    BY <1>1 DEF FrameInv, CallsInv, FailedInv
<1>4. Iterations(iter) /\ Covers(items, iter, calls)
    BY <1>1, <1>2 DEF Iterations, Covers
<1>5. QED
    BY <1>2, <1>3, <1>4, NoIterations DEF SlicingInv

\* A frame begins with no iteration, and nothing drawn.
LEMMA FrameBegins ==
    ASSUME SlicingInv, NEW v \in Views, render_application(v)
    PROVE  SlicingInv'
<1> DEFINE type == SlicingType(v)  z == slicing_iter_items(type, v)
<1>1. /\ ~failed /\ stage = "none" /\ stage' = "slicing" /\ view' = v /\ iter' = SetIter(iter, 1, z)
      /\ items' = items /\ calls' = calls /\ failed' = failed /\ span' = span
    BY DEF render_application, SetIter
<1>2. /\ items \in Vectors /\ iter \in Iters /\ Slices(items) /\ Parted(items) /\ Status(items, iter) /\ Iterations(iter)
      /\ FrameInv /\ CallsInv /\ failed \in BOOLEAN
    BY <1>1 DEF SlicingInv
<1>3. iter[0].lev = -1 /\ iter[1].lev = -1
    BY <1>1, <1>2 DEF Iterations
<1>4. v = Ran(v.fr, v.to) /\ v.fr \in Nat /\ v.to \in Nat /\ v.fr < Len(Clock)
    BY ViewsAssumption, ClockAssumption
<1>5. v \in Range2 /\ type \in YEAR..HOUR
    BY <1>4 DEF Ran, Range2, SlicingType, YEAR, MONTH, DAY, HOUR
<1> HIDE DEF type
<1>6. /\ z \in IterSet /\ z.type = type /\ z.ran = v /\ z.lev = 0 /\ z.next = 0 /\ z.lev < z.type
      /\ z.year \in 1..(LastYear + 1) /\ \A t : t \in Int /\ In(t, v) => Ahead(items, z, t)
    BY <1>4, <1>5, IterBegun
<1> HIDE DEF z
<1>7. Turned(iter, iter', 1, z)
    <2>1. 1 \in {0, 1}
        OBVIOUS
    <2>2. QED
        BY <1>1, <1>2, <1>6, <2>1, ReplacedIter
<1>8. iter' \in Iters /\ iter'[1] = z /\ iter'[0].lev = -1 /\ iter'[0] = iter[0]
    BY <1>3, <1>7 DEF Turned
<1>9. Rests(items, z)
    BY <1>6, NoLoops
<1>10. Looping(items, iter'[0], FALSE) /\ Called(items, iter'[0]) /\ Status(items, iter')
    BY <1>2, <1>3, <1>8, NoIterations
<1>11. Looping(items, iter'[1], TRUE) /\ Called(items, iter'[1]) /\ Different(iter') /\ Nested(items, iter')
    BY <1>8, <1>9 DEF Rests, Different, Nested
<1>12. Iterations(iter)'
    BY <1>1, <1>6, <1>8 DEF Iterations, type
<1>13. Covers(items, iter, calls)'
    BY <1>1, <1>6, <1>8 DEF Covers
<1>14. FrameInv' /\ FailedInv'
    BY <1>1, <1>2 DEF FrameInv, FailedInv
<1>15. CallsInv'
    <2>1. calls' = <<>>
        BY <1>1, <1>2 DEF CallsInv
    <2>2. QED
        BY <1>1, <2>1 DEF CallsInv
<1>16. QED
    BY <1>1, <1>2, <1>8, <1>10, <1>11, <1>12, <1>13, <1>14, <1>15 DEF SlicingInv

\* When the strip above is drawn every moment of the view was called back for.
LEMMA StripKeeps ==
    ASSUME SlicingInv, TopStrip
    PROVE  SlicingInv'
<1> DEFINE c == [ran |-> view, top |-> TRUE]
<1>1. /\ ~failed /\ stage = "slicing" /\ iter[1].lev = -1 /\ stage' = "drawing" /\ span' \in [Events -> Spans]
      /\ calls' = Append(calls, c) /\ items' = items /\ iter' = iter /\ failed' = failed /\ view' = view
    BY DEF TopStrip
<1>2. /\ items \in Vectors /\ iter \in Iters /\ Slices(items) /\ Parted(items) /\ Status(items, iter) /\ Iterations(iter)
      /\ FrameInv /\ CallsInv /\ failed \in BOOLEAN /\ Covers(items, iter, calls)
    BY <1>1 DEF SlicingInv
<1>3. iter[0].lev = -1
    BY <1>1, <1>2 DEF Iterations
<1>4. view \in Views
    BY <1>1, <1>2 DEF FrameInv
<1>5. c \in [ran : Range2, top : BOOLEAN] /\ c.ran = view /\ c.top = TRUE
    <2>1. view = Ran(view.fr, view.to) /\ view.fr \in Nat /\ view.to \in Nat
        BY <1>4, ViewsAssumption
    <2>2. view \in Range2
        BY <2>1 DEF Ran, Range2
    <2>3. QED
        BY <2>2
<1> HIDE DEF c
<1>6. calls \in Seq([ran : Range2, top : BOOLEAN])
    BY <1>2 DEF CallsInv
<1>7. /\ calls' \in Seq([ran : Range2, top : BOOLEAN]) /\ Len(calls) \in Nat
      /\ DOMAIN calls' = 1..(Len(calls) + 1) /\ DOMAIN calls = 1..Len(calls)
      /\ (\A k \in DOMAIN calls : k \in DOMAIN calls' /\ calls'[k] = calls[k])
      /\ Len(calls) + 1 \in DOMAIN calls' /\ calls'[Len(calls) + 1] = c
    BY <1>1, <1>5, <1>6
<1>8. \A k \in DOMAIN calls' : k \in DOMAIN calls \/ k = Len(calls) + 1
    BY <1>7
<1>9. CallsInv'
    <2>1. \A k \in DOMAIN calls' : IF calls'[k].top THEN calls'[k].ran = view ELSE IsSlice(DrawnType(view), calls'[k].ran)
        BY <1>2, <1>5, <1>7, <1>8 DEF CallsInv
    <2>2. \E k \in DOMAIN calls' : calls'[k].top
        BY <1>5, <1>7
    <2>3. \A t \in Int : In(t, view) => CoveredBy(calls', t)
        <3>1. \A t \in Int : In(t, view) => CoveredBy(calls, t)
            BY <1>1, <1>2, <1>3, NoIterations DEF Covers
        <3>2. QED
            BY <1>7, <3>1 DEF CoveredBy
    <2>4. QED
        BY <1>1, <1>7, <2>1, <2>2, <2>3 DEF CallsInv
<1>10. FrameInv' /\ FailedInv'
    BY <1>1, <1>2, <1>4 DEF FrameInv, FailedInv
<1>11. Iterations(iter)' /\ Covers(items, iter, calls)'
    BY <1>1, <1>3 DEF Iterations, Covers
<1>12. QED
    BY <1>1, <1>2, <1>3, <1>9, <1>10, <1>11, NoIterations DEF SlicingInv

\* To lay out a slice, and to end the frame, leaves the slices as they are.
LEMMA RestKeeps ==
    ASSUME SlicingInv, UNCHANGED <<items, iter, failed>>, ~failed, stage \in {"drawing", "layout"}, stage' \in {"layout", "none"},
           calls' = <<>>, span' \in {span, NoEvents}, stage' # "none" => view' = view
    PROVE  SlicingInv'
<1>1. /\ items \in Vectors /\ iter \in Iters /\ Slices(items) /\ Parted(items) /\ Status(items, iter) /\ Iterations(iter)
      /\ FrameInv /\ failed \in BOOLEAN
    BY DEF SlicingInv
<1>2. iter[0].lev = -1 /\ iter[1].lev = -1
    BY <1>1 DEF Iterations
<1>3. FrameInv'
    BY <1>1 DEF FrameInv
<1>4. FailedInv' /\ CallsInv'
    BY DEF FailedInv, CallsInv
<1>5. Iterations(iter)' /\ Covers(items, iter, calls)'
    BY <1>2 DEF Iterations, Covers
<1>6. QED
    BY <1>1, <1>2, <1>3, <1>4, <1>5, NoIterations DEF SlicingInv

\* A restart forgets the slices with all the rest.
LEMMA RestartKeeps ==
    ASSUME SlicingInv, Restart
    PROVE  SlicingInv'
<1>1. /\ items' = NoItems /\ iter' = [L \in {0, 1} |-> NoIter] /\ calls' = <<>> /\ failed' = FALSE
      /\ stage' = "none" /\ view' = NoView /\ span' = NoEvents
    BY DEF Restart
<1>2. /\ items' \in Vectors /\ Slices(items') /\ Parted(items') /\ Status(items', iter')
      /\ iter' \in Iters /\ iter'[0].lev = -1 /\ iter'[1].lev = -1
    BY <1>1, NothingYet
<1>3. FrameInv
    BY DEF SlicingInv
<1>4. FrameInv' /\ CallsInv' /\ FailedInv' /\ failed' \in BOOLEAN
    BY <1>1, <1>3 DEF FrameInv, CallsInv, FailedInv
<1>5. Iterations(iter)' /\ Covers(items, iter, calls)'
    BY <1>1, <1>2 DEF Iterations, Covers
<1>6. /\ Looping(items', iter'[0], FALSE) /\ Looping(items', iter'[1], TRUE) /\ Called(items', iter'[0])
      /\ Called(items', iter'[1]) /\ Different(iter') /\ Nested(items', iter')
    BY <1>2, NoIterations
<1>7. QED
    BY <1>2, <1>4, <1>5, <1>6 DEF SlicingInv

\* Every step of the program keeps the invariant.
LEMMA StepKeeps ==
    ASSUME SlicingInv, [Next]_vars
    PROVE  SlicingInv'
<1>1. CASE \E v \in Views : render_application(v)
    BY <1>1, FrameBegins
<1>2. CASE Cut
    BY <1>2, CutKeeps
<1>3. CASE TopStrip
    BY <1>3, StripKeeps
<1>4. ASSUME NEW k \in DOMAIN calls, tobject_layout(calls[k]) PROVE SlicingInv'
    <2>1. stage = "drawing" /\ stage' = "layout" /\ calls' = <<>> /\ UNCHANGED <<items, iter, failed, view, span>>
        BY <1>4 DEF tobject_layout
    <2>2. ~failed
        BY <2>1 DEF SlicingInv, FailedInv
    <2>3. QED
        BY <2>1, <2>2, RestKeeps
<1>5. CASE calendar_layout \/ UNCHANGED vars
    <2>1. UNCHANGED slicingVars /\ UNCHANGED frameVars
        BY <1>5 DEF calendar_layout, vars, frameVars
    <2>2. items' = items /\ iter' = iter /\ calls' = calls /\ failed' = failed /\ stage' = stage /\ view' = view /\ span' = span
        BY <2>1 DEF slicingVars, frameVars
    <2>3. FrameInv /\ CallsInv /\ FailedInv => FrameInv' /\ CallsInv' /\ FailedInv'
        BY <2>2 DEF FrameInv, CallsInv, FailedInv, CoveredBy
    <2>4. Iterations(iter) => Iterations(iter)'
        BY <2>2 DEF Iterations
    <2>5. Covers(items, iter, calls) => Covers(items, iter, calls)'
        BY <2>2 DEF Covers
    <2>6. QED
        BY <2>2, <2>3, <2>4, <2>5 DEF SlicingInv
<1>6. CASE Drawn
    <2>1. /\ stage = "layout" /\ stage' = "none" /\ view' = NoView /\ span' = NoEvents
          /\ UNCHANGED <<items, iter, failed>> /\ calls' = calls
        BY <1>6 DEF Drawn, slicingVars
    <2>2. ~failed /\ calls = <<>>
        BY <2>1 DEF SlicingInv, FailedInv, CallsInv
    <2>3. QED
        BY <2>1, <2>2, RestKeeps
<1>7. CASE Restart
    BY <1>7, RestartKeeps
<1>8. QED
    BY <1>1, <1>2, <1>3, <1>4, <1>5, <1>6, <1>7 DEF Next

\* The invariant holds always.
THEOREM SlicingInvariant == Spec => []SlicingInv
<1>1. Init => SlicingInv
    BY InitHolds
<1>2. SlicingInv /\ [Next]_vars => SlicingInv'
    BY StepKeeps
<1>3. QED
    BY <1>1, <1>2, PTL DEF Spec

(***************************************************************************)
(* The layouts of a frame                                                  *)
(***************************************************************************)
\* A frame lays out its slices one after the other as calendar_layout does.
LEMMA LayoutSteps ==
    ASSUME SlicingInv, [Next]_vars
    PROVE  [LayoutNext]_layoutVars
<1>1. ASSUME NEW k \in DOMAIN calls, tobject_layout(calls[k]) PROVE LayoutNext
    <2> DEFINE S == tobjs(view, calls[k])  t == [e \in S |-> span[e]]
    <2>1. stage = "drawing" /\ Begin(S, t)
        BY <1>1 DEF tobject_layout
    <2>2. span \in [Events -> Spans]
        BY <2>1 DEF SlicingInv, FrameInv
    <2>3. S \in SUBSET Events
        BY DEF tobjs
    <2> HIDE DEF S
    <2>4. t \in [S -> Spans]
        BY <2>2, <2>3
    <2>5. QED
        BY <2>1, <2>3, <2>4 DEF LayoutNext
<1>2. ASSUME calendar_layout PROVE LayoutNext
    BY <1>2 DEF calendar_layout, LayoutNext
<1>3. ASSUME Drawn \/ Restart PROVE LayoutNext
    <2>1. {} \in SUBSET Events /\ NoEvents \in [{} -> Spans] /\ Begin({}, NoEvents)
        BY <1>3 DEF Drawn, Restart, NoEvents
    <2>2. QED
        BY <2>1 DEF LayoutNext
<1>4. ASSUME NEW v \in Views, render_application(v) PROVE UNCHANGED layoutVars
    BY <1>4 DEF render_application
<1>5. ASSUME Cut \/ TopStrip PROVE UNCHANGED layoutVars
    BY <1>5 DEF Cut, TopStrip
<1>6. ASSUME UNCHANGED vars PROVE UNCHANGED layoutVars
    BY <1>6 DEF vars
<1>7. QED
    BY <1>1, <1>2, <1>3, <1>4, <1>5, <1>6 DEF Next

\* A frame implements the layout of Layout: in every slice that it draws it sweeps
\* over the events as calendar_layout does, and does nothing else to a layout.
THEOREM DrawingLayout == Spec => LayoutSpec
<1>1. Init => LayoutInit
    BY DEF Init
<1>2. SlicingInv /\ [Next]_vars => [LayoutNext]_layoutVars
    BY LayoutSteps
<1>3. QED
    BY <1>1, <1>2, SlicingInvariant, PTL DEF Spec, LayoutSpec

\* So in every slice of every frame the types of the layout are kept, ...
THEOREM DrawingTypes == Spec => []TypeOK
BY DrawingLayout, LayoutTypes, PTL

\* ... an assertion of calendar_layout fails at an event that ends before it has
\* begun and at nothing else, ...
THEOREM DrawingSweepSound == Spec => []SweepSound
BY DrawingLayout, SweepAlwaysSound, PTL

\* ... events that overlap are drawn beside each other, ...
THEOREM DrawingBesideEachOther == Spec => []BesideEachOther
BY DrawingLayout, AlwaysBesideEachOther, PTL

\* ... within the slice, ...
THEOREM DrawingInSlice == Spec => []InSlice
BY DrawingLayout, AlwaysInSlice, PTL

\* ... and as wide as they can be.
THEOREM DrawingNarrowest == Spec => []Narrowest
BY DrawingLayout, AlwaysNarrowest, PTL

(***************************************************************************)
(* The slices are those of the calendar                                    *)
(***************************************************************************)
\* What has ended the program is a slice of the view that begins late.
LEMMA FailedLate ==
    ASSUME SlicingInv, failed
    PROVE  \E lev \in YEAR..DAY : \E t, u \in DOMAIN Clock : BeginsLate(lev, t) /\ Same(lev, t, u) /\ In(u - 1, view)
<1>1. stage = "slicing"
    BY DEF SlicingInv, FailedInv
<1>2. PICK lev \in YEAR..DAY : \E ran : IsSlice(lev, ran) /\ ts_ran_overlap(ran, view) /\ ~AtStart(Clock[ran.fr + 1], lev)
    BY DEF SlicingInv, FailedInv
<1>3. PICK ran : IsSlice(lev, ran) /\ ts_ran_overlap(ran, view) /\ ~AtStart(Clock[ran.fr + 1], lev)
    BY <1>2
<1>4. lev \in YEAR..HOUR /\ view \in Views
    BY <1>1 DEF SlicingInv, FrameInv, YEAR, DAY, HOUR
<1>5. /\ ran.fr \in Nat /\ ran.to \in Nat /\ ran.fr < ran.to /\ ran.to <= Len(Clock) /\ ran.fr + 1 \in DOMAIN Clock
      /\ view.fr \in Nat /\ view.to \in Nat /\ view.fr < view.to
      /\ Len(Clock) \in Nat /\ DOMAIN Clock = 1..Len(Clock)
    BY <1>3, <1>4, SliceFacts, ViewsAssumption, ClockAssumption
<1>6. BeginsLate(lev, ran.fr + 1)
    BY <1>3, LateSlice
<1>7. PICK m \in Nat : In(m, ran) /\ In(m, view)
    <2>1. CASE ran.fr <= view.fr
        BY <1>3, <1>5, <2>1 DEF ts_ran_overlap, In
    <2>2. CASE ~(ran.fr <= view.fr)
        BY <1>3, <1>5, <2>2 DEF ts_ran_overlap, In
    <2>3. QED
        BY <2>1, <2>2
<1>8. m + 1 \in DOMAIN Clock /\ (m + 1) - 1 = m
    BY <1>5, <1>7 DEF In
<1>9. Same(lev, m + 1, ran.fr + 1)
    BY <1>3, <1>7, <1>8, SliceUnit
<1>10. Same(lev, ran.fr + 1, m + 1)
    BY <1>9 DEF Same
<1>11. In((m + 1) - 1, view)
    BY <1>7, <1>8
<1>12. QED
    BY <1>5, <1>6, <1>8, <1>10, <1>11

\* The parts of an item that is complete.
LEMMA CompleteTiles ==
    ASSUME items \in Vectors, NEW lev \in YEAR..DAY, NEW i \in DOMAIN items[lev],
           Chain(items, lev, items[lev][i]), Complete(items, lev, items[lev][i])
    PROVE  Tiles(items[lev][i], [k \in DOMAIN items[lev][i].subs |-> items[lev + 1][items[lev][i].subs[k]]])
<1> DEFINE item == items[lev][i]  n == Len(item.subs)  P(k) == items[lev + 1][item.subs[k]]
           parts == [k \in DOMAIN item.subs |-> P(k)]
<1>1. item.subs \in Seq(Nat) /\ DOMAIN item.subs = 1..n /\ n \in Nat
    <2>1. lev \in YEAR..HOUR
        BY DEF YEAR, DAY, HOUR
    <2>2. QED
        BY <2>1, VectorFacts
<1>2. n = item.n /\ item.subs # <<>> /\ P(n).ran.to = item.ran.to
    BY DEF Complete, FoundTo, PartRan
<1>3. P(1).ran.fr = item.ran.fr /\ \A k \in DOMAIN item.subs : k + 1 \in DOMAIN item.subs => P(k).ran.to = P(k + 1).ran.fr
    BY <1>2 DEF Chain, PartRan
<1> HIDE DEF P
<1>4. n \in Nat /\ n >= 1
    BY <1>1, <1>2
<1> HIDE DEF n, item
<1>5. parts = [k \in 1..n |-> P(k)]
    BY <1>1
<1>6. Len(parts) = n /\ parts[1] = P(1) /\ parts[n] = P(n)
    BY <1>4, <1>5
<1>7. \A k \in 1..(item.n - 1) : parts[k].ran.to = parts[k + 1].ran.fr
    <2>1. ASSUME NEW k \in 1..(n - 1) PROVE parts[k].ran.to = parts[k + 1].ran.fr
        <3>1. k \in 1..n /\ k + 1 \in 1..n
            BY <1>4, <2>1
        <3>2. QED
            BY <1>1, <1>3, <1>5, <3>1
    <2>2. QED
        BY <1>2, <2>1
<1>8. Tiles(item, parts)
    BY <1>2, <1>3, <1>6, <1>7 DEF Tiles
<1>9. QED
    BY <1>8 DEF item, P

\* The invariant says of every item that it is a slice of the calendar, kept once,
\* and cut without a gap unless an iteration is at it.
LEMMA SlicesAreSound ==
    ASSUME SlicingInv
    PROVE  SlicesSound
<1>1. items \in Vectors /\ Slices(items) /\ Parted(items)
    BY DEF SlicingInv
<1>2. ASSUME NEW lev \in YEAR..HOUR, NEW i \in DOMAIN items[lev]
      PROVE  LET item == items[lev][i]
             IN  /\ lev < HOUR =>
                        \A t \in DOMAIN Clock : In(t - 1, item.ran) <=> Same(lev, t, item.ran.fr + 1)
                 /\ \A j \in DOMAIN items[lev] \ {i} : ~ts_ran_overlap(item.ran, items[lev][j].ran)
                 /\ stage # "slicing" /\ item.n # -1 =>
                        Tiles(item, [k \in DOMAIN item.subs |-> items[lev + 1][item.subs[k]]])
    <2> DEFINE item == items[lev][i]
    <2>1. IsSlice(lev, item.ran)
        BY <1>1 DEF Slices
    <2>2. lev < HOUR => lev \in YEAR..DAY
        BY DEF YEAR, DAY, HOUR
    <2>3. lev < HOUR => \A t \in DOMAIN Clock : In(t - 1, item.ran) <=> Same(lev, t, item.ran.fr + 1)
        BY <2>1, <2>2, SliceUnit
    <2>4. ASSUME NEW j \in DOMAIN items[lev] \ {i}, ts_ran_overlap(item.ran, items[lev][j].ran) PROVE FALSE
        <3>1. IsSlice(lev, items[lev][j].ran)
            BY <1>1 DEF Slices
        <3>2. item.ran = items[lev][j].ran
            BY <2>1, <2>4, <3>1, SlicesEqual
        <3>3. QED
            BY <1>1, <3>2 DEF Slices
    <2>5. ASSUME stage # "slicing", item.n # -1
          PROVE  Tiles(item, [k \in DOMAIN item.subs |-> items[lev + 1][item.subs[k]]])
        <3>1. ~failed /\ iter[1].lev = -1 /\ iter[0].lev = -1 /\ Status(items, iter)
            <4>1. ~failed
                BY <2>5 DEF SlicingInv, FailedInv
            <4>2. QED
                BY <2>5, <4>1 DEF SlicingInv, Iterations
        <3>2. lev \in YEAR..DAY
            <4>1. lev # HOUR
                BY <1>1, <2>5 DEF Parted
            <4>2. QED
                BY <4>1 DEF YEAR, DAY, HOUR
        <3>3. \A L \in {0, 1} : ~Finding(iter[L], lev)
            BY <3>1, <3>2, NoIterations
        <3>4. Complete(items, lev, item)
            BY <2>5, <3>1, <3>2, <3>3 DEF Status, Fresh
        <3>5. Chain(items, lev, item)
            BY <1>1, <3>2 DEF Parted
        <3>6. QED
            BY <1>1, <3>2, <3>4, <3>5, CompleteTiles
    <2>6. QED
        BY <2>3, <2>4, <2>5
<1>3. QED
    BY <1>2, FailedLate DEF SlicesSound

\* Every year, month and day is kept once and is one of the calendar's, cut
\* without a gap, and only a late one in the view ends the program, for any
\* calendar and clock and whatever is viewed in whatever order.
THEOREM SlicesAlwaysSound == Spec => []SlicesSound
<1>1. SlicingInv => SlicesSound
    BY SlicesAreSound
<1>2. QED
    BY <1>1, SlicingInvariant, PTL

(***************************************************************************)
(* Every moment is drawn once                                              *)
(***************************************************************************)
\* A long event is drawn in the strip above, a short one in the slices.
Long(v, e) == Length(span[e]) >= top_th(v)

\* A slice draws the short events, the strip above the long ones.
LEMMA ClippedIs ==
    ASSUME NEW v, NEW c, NEW e, Length(span[e]) \in Int
    PROVE  Clipped(v, c, e) <=> IF c.top THEN Long(v, e) ELSE ~Long(v, e)
<1>1. top_th(v) \in Int
    BY LengthAssumption DEF top_th, SlicingType, YEAR, MONTH, DAY
<1>2. Length(span[e]) < top_th(v) <=> ~(Length(span[e]) >= top_th(v))
    BY <1>1
<1>3. QED
    BY <1>2 DEF Clipped, Long

\* What one call alone draws is drawn once.
LEMMA OneCall ==
    ASSUME NEW e, NEW t, NEW c, NEW k \in DrawnAt(e, t), calls[k] = c, \A j \in DrawnAt(e, t) : calls[j] = c
    PROVE  Cardinality({calls[j] : j \in DrawnAt(e, t)}) = 1
<1>1. {calls[j] : j \in DrawnAt(e, t)} = {c}
    OBVIOUS
<1>2. QED
    BY <1>1, FS_Singleton

\* A moment of a short event lies in the one slice of the kind that is drawn, a
\* moment of a long one in the strip, which is the view.
LEMMA DrawingIsWhole ==
    ASSUME SlicingInv
    PROVE  DrawnWhole
<1> SUFFICES ASSUME stage = "drawing", NEW e \in Events, NEW t \in view.fr..(view.to - 1), In(t, span[e])
             PROVE  Cardinality({calls[k] : k \in DrawnAt(e, t)}) = 1
    BY DEF DrawnWhole
<1>1. view \in Views /\ span \in [Events -> Spans] /\ CallsInv
    BY DEF SlicingInv, FrameInv
<1>2. /\ view.fr \in Nat /\ view.to \in Nat /\ view.fr < view.to /\ view.to < Len(Clock)
      /\ view = Ran(view.fr, view.to)
    BY <1>1, ViewsAssumption
<1>3. span[e].fr \in Int /\ span[e].to \in Int /\ Length(span[e]) \in Int
    BY <1>1, LayoutAssumption DEF Length
<1>4. t \in Int /\ In(t, view)
    BY <1>2 DEF In
<1>5. in_view(view, e)
    <2> DEFINE b == slicing_get_bounds(SlicingType(view), view)
    <2>1. SlicingType(view) \in YEAR..DAY
        BY DEF SlicingType, YEAR, MONTH, DAY
    <2>2. Within(view, b) /\ b.fr \in Int /\ b.to \in Int
        BY <1>2, <2>1, BoundsContain
    <2>3. bounds[view] = b
        BY <1>1 DEF bounds
    <2> HIDE DEF b
    <2>4. ts_ran_overlap(span[e], b)
        <3>1. b.fr <= view.fr /\ view.to <= b.to /\ view.fr <= t /\ t < view.to
            BY <1>4, <2>2 DEF Within, In
        <3>2. span[e].fr <= t /\ t < span[e].to
            BY DEF In
        <3>3. b.fr <= t /\ t < b.to
            BY <1>2, <1>4, <2>2, <3>1
        <3>4. span[e].fr < b.to /\ span[e].to > b.fr
            BY <1>3, <1>4, <2>2, <3>2, <3>3
        <3>5. QED
            BY <3>4 DEF ts_ran_overlap
    <2>5. QED
        BY <2>3, <2>4 DEF in_view
<1>6. ASSUME NEW k \in DOMAIN calls
      PROVE  /\ calls[k] = [ran |-> calls[k].ran, top |-> calls[k].top]
             /\ calls[k].top \in BOOLEAN /\ calls[k].ran.fr \in Int /\ calls[k].ran.to \in Int
             /\ IF calls[k].top THEN calls[k].ran = view ELSE IsSlice(DrawnType(view), calls[k].ran)
    <2>1. calls \in Seq([ran : Range2, top : BOOLEAN])
        BY <1>1 DEF CallsInv
    <2>2. calls[k] \in [ran : Range2, top : BOOLEAN]
        <3> DEFINE S == [ran : Range2, top : BOOLEAN]
        <3> HIDE DEF S
        <3>1. calls \in Seq(S)
            BY <2>1 DEF S
        <3>2. calls[k] \in S
            BY <3>1
        <3>3. QED
            BY <3>2 DEF S
    <2>3. calls[k].ran.fr \in Int /\ calls[k].ran.to \in Int
        BY <2>2 DEF Range2
    <2>4. calls[k] = [ran |-> calls[k].ran, top |-> calls[k].top] /\ calls[k].top \in BOOLEAN
        BY <2>2
    <2>5. IF calls[k].top THEN calls[k].ran = view ELSE IsSlice(DrawnType(view), calls[k].ran)
        BY <1>1 DEF CallsInv
    <2>6. QED
        BY <2>3, <2>4, <2>5
<1>7. ASSUME NEW k \in DOMAIN calls, In(t, calls[k].ran), IF calls[k].top THEN Long(view, e) ELSE ~Long(view, e)
      PROVE  k \in DrawnAt(e, t)
    <2>1. ts_ran_overlap(span[e], calls[k].ran)
        BY <1>3, <1>4, <1>6, <1>7 DEF ts_ran_overlap, In
    <2>2. Clipped(view, calls[k], e)
        BY <1>3, <1>7, ClippedIs
    <2>3. QED
        BY <1>5, <1>7, <2>1, <2>2 DEF DrawnAt, Shown
<1>8. ASSUME NEW k \in DrawnAt(e, t)
      PROVE  k \in DOMAIN calls /\ In(t, calls[k].ran) /\ (calls[k].top <=> Long(view, e))
    <2>1. k \in DOMAIN calls /\ In(t, calls[k].ran) /\ Clipped(view, calls[k], e)
        BY DEF DrawnAt, Shown
    <2>2. QED
        BY <1>3, <1>6, <2>1, ClippedIs
<1>9. CASE Long(view, e)
    <2>1. PICK k \in DOMAIN calls : calls[k].top
        BY <1>1 DEF CallsInv
    <2>2. calls[k].ran = view /\ calls[k] = [ran |-> view, top |-> TRUE]
        BY <1>6, <2>1
    <2>3. k \in DrawnAt(e, t)
        BY <1>4, <1>7, <1>9, <2>1, <2>2
    <2>4. \A j \in DrawnAt(e, t) : calls[j] = [ran |-> view, top |-> TRUE]
        BY <1>6, <1>8, <1>9
    <2>5. QED
        BY <2>2, <2>3, <2>4, OneCall
<1>10. CASE ~Long(view, e)
    <2>1. PICK k \in DOMAIN calls : ~calls[k].top /\ In(t, calls[k].ran)
        BY <1>1, <1>4 DEF CallsInv, CoveredBy
    <2>2. IsSlice(DrawnType(view), calls[k].ran)
        BY <1>6, <2>1
    <2>3. k \in DrawnAt(e, t)
        BY <1>7, <1>10, <2>1
    <2>4. ASSUME NEW j \in DrawnAt(e, t) PROVE calls[j] = calls[k]
        <3>1. j \in DOMAIN calls /\ ~calls[j].top /\ In(t, calls[j].ran)
            BY <1>8, <1>10
        <3>2. IsSlice(DrawnType(view), calls[j].ran)
            BY <1>6, <3>1
        <3>3. DrawnType(view) \in YEAR..HOUR
            BY DEF DrawnType, YEAR, MONTH, DAY, HOUR
        <3>4. calls[j].ran = calls[k].ran
            BY <1>4, <2>1, <2>2, <3>1, <3>2, <3>3, SlicesEqual
        <3>5. calls[j].top = calls[k].top
            BY <1>6, <2>1, <3>1
        <3>6. QED
            BY <1>6, <3>1, <3>4, <3>5
    <2>5. QED
        BY <2>3, <2>4, OneCall
<1>11. QED
    BY <1>9, <1>10

\* Each moment of an event that is in the view is drawn, in one place, for any
\* calendar and clock, any events, and whatever was viewed before.
THEOREM AlwaysDrawnWhole == Spec => []DrawnWhole
<1>1. SlicingInv => DrawnWhole
    BY DrawingIsWhole
<1>2. QED
    BY <1>1, SlicingInvariant, PTL
=============================================================================
