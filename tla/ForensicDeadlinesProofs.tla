----------------------- MODULE ForensicDeadlinesProofs ------------------------
(***************************************************************************)
(* Theorems about the calendar arithmetic, the forensic holidays and the   *)
(* deadlines computed from them, for every set of dates, courts, comarcas, *)
(* deadlines and requests.                                                 *)
(***************************************************************************)
EXTENDS ForensicDeadlines, FiniteSetTheorems, WellFoundedInduction, TLAPS

-------------------------------------------------------------------------------
(* Natural numbers.                                                        *)

LEMMA LeastNatural ==
    ASSUME NEW S \in SUBSET Nat, S # {}
    PROVE  \E x \in S : \A y \in S : x <= y
<1>1. PICK x \in S : \A y \in S : <<y, x>> \notin OpToRel(<, Nat)
  BY NatLessThanWellFounded, WFMin, Zenon
<1>2. \A y \in S : ~(y < x)
  BY <1>1, Zenon DEF OpToRel
<1>3. \A y \in S : x <= y
  BY <1>2
<1> QED
  BY <1>3

\* Induction, for a property stated as a set of numbers.
LEMMA AllNaturals ==
    ASSUME NEW S, 0 \in S, \A k \in Nat : k \in S => k + 1 \in S
    PROVE  Nat \subseteq S
<1> SUFFICES ASSUME Nat \ S # {} PROVE FALSE
  OBVIOUS
<1>1. PICK x \in Nat \ S : \A y \in Nat \ S : x <= y
  <2>1. Nat \ S \in SUBSET Nat
    OBVIOUS
  <2> QED
    BY <2>1, LeastNatural
<1>2. x # 0 /\ x - 1 \in Nat /\ (x - 1) + 1 = x /\ ~(x <= x - 1)
  OBVIOUS
<1>3. x - 1 \in S
  BY <1>1, <1>2
<1> QED
  BY <1>2, <1>3

\* min() of dates none of which lies before d.
LEMMA MinOfDates ==
    ASSUME NEW d \in Int, NEW S, S # {}, \A b \in S : b \in Int /\ d <= b
    PROVE  Min(S) \in S /\ \A b \in S : Min(S) <= b
<1> DEFINE T == {b - d : b \in S}
<1>1. T \in SUBSET Nat /\ T # {}
  OBVIOUS
<1>2. PICK x \in T : \A y \in T : x <= y
  <2> HIDE DEF T
  <2> QED
    BY <1>1, LeastNatural
<1>3. PICK b \in S : x = b - d
  OBVIOUS
<1>4. \A c \in S : b <= c
  <2> TAKE c \in S
  <2>1. x <= c - d
    BY <1>2
  <2> QED
    BY <1>3, <2>1
<1> QED
  BY <1>4 DEF Min

-------------------------------------------------------------------------------
(* The calendar.                                                           *)

\* The loop that skips to the next business day ends, and skips nothing else.
LEMMA NextBusinessDayFacts ==
    ASSUME NEW d \in Int, NEW off, IsFiniteSet(off)
    PROVE  /\ NextBusinessDay(d, off) \in Int
           /\ d <= NextBusinessDay(d, off)
           /\ IsBusinessDay(NextBusinessDay(d, off), off)
           /\ \A b \in Int : d <= b /\ b < NextBusinessDay(d, off) => ~IsBusinessDay(b, off)
<1> DEFINE C == Cardinality(off)
           S == {b \in d..(d + 7 * (C + 1)) : IsBusinessDay(b, off)}
<1>1. C \in Nat
  BY FS_CardinalityType
<1>2. S # {}
  <2> SUFFICES ASSUME S = {} PROVE FALSE
    OBVIOUS
  <2>1. PICK o \in 0..2 : (d + o) % 7 < 5
    <3>1. d % 7 < 5 \/ (d + 1) % 7 < 5 \/ (d + 2) % 7 < 5
      OBVIOUS
    <3>2. d + 0 = d
      OBVIOUS
    <3> QED
      BY <3>1, <3>2
  <2> DEFINE f == [k \in 0..C |-> d + o + 7 * k]
  <2>2. ASSUME NEW k \in 0..C
        PROVE  f[k] \in off
    <3>1. f[k] = d + o + 7 * k /\ f[k] \in Int
      BY <1>1
    <3>2. d <= f[k] /\ f[k] <= d + 7 * (C + 1)
      BY <1>1, <3>1
    <3>3. f[k] % 7 < 5
      BY <1>1, <2>1, <3>1
    <3> QED
      BY <3>1, <3>2, <3>3, <1>1 DEF IsBusinessDay
  <2>3. f \in Injection(0..C, off)
    <3>1. f \in [0..C -> off]
      BY <2>2
    <3>2. \A j, k \in 0..C : f[j] = f[k] => j = k
      BY <1>1
    <3> QED
      BY <3>1, <3>2 DEF Injection, IsInjective
  <2>4. Cardinality(0..C) <= C
    <3> HIDE DEF f
    <3> QED
      BY <2>3, FS_Injection
  <2>5. Cardinality(0..C) = C + 1
    BY <1>1, FS_Interval
  <2> QED
    BY <1>1, <2>4, <2>5
<1>3. \A b \in S : b \in Int /\ d <= b
  BY <1>1
<1>4. NextBusinessDay(d, off) = Min(S)
  BY DEF NextBusinessDay
<1>5. Min(S) \in S /\ \A b \in S : Min(S) <= b
  <2> HIDE DEF S
  <2> QED
    BY <1>2, <1>3, MinOfDates
<1>6. \A b \in Int : d <= b /\ b < Min(S) => ~IsBusinessDay(b, off)
  BY <1>1, <1>5
<1> QED
  BY <1>1, <1>4, <1>5, <1>6

\* The dates at which calculate_due_date has counted 0, 1, .. n business days.
Counting(c, start, n, off) ==
    c = [k \in 0..n |-> IF k = 0 THEN NextBusinessDay(start, off)
                                 ELSE NextBusinessDay(c[k - 1] + 1, off)]

LEMMA CountingExists ==
    ASSUME NEW start \in Int, NEW off, NEW n \in Nat
    PROVE  \E c : Counting(c, start, n, off)
<1> DEFINE S == {m \in Nat : \E c : Counting(c, start, m, off)}
<1>1. 0 \in S
  <2> DEFINE c == [k \in 0..0 |-> NextBusinessDay(start, off)]
  <2>1. c = [k \in 0..0 |-> IF k = 0 THEN NextBusinessDay(start, off)
                                     ELSE NextBusinessDay(c[k - 1] + 1, off)]
    OBVIOUS
  <2>2. Counting(c, start, 0, off)
    BY <2>1 DEF Counting
  <2> QED
    BY <2>2
<1>2. ASSUME NEW m \in Nat, m \in S
      PROVE  m + 1 \in S
  <2>1. PICK c : c = [k \in 0..m |-> IF k = 0 THEN NextBusinessDay(start, off)
                                              ELSE NextBusinessDay(c[k - 1] + 1, off)]
    BY <1>2 DEF Counting
  <2> DEFINE e == [k \in 0..(m + 1) |-> IF k <= m THEN c[k]
                                        ELSE NextBusinessDay(c[m] + 1, off)]
  <2>2. ASSUME NEW k \in 0..(m + 1)
        PROVE  e[k] = IF k = 0 THEN NextBusinessDay(start, off)
                               ELSE NextBusinessDay(e[k - 1] + 1, off)
    <3>1. CASE k = 0
      BY <2>1, <3>1
    <3>2. CASE k \in 1..m
      <4>1. e[k] = c[k] /\ e[k - 1] = c[k - 1] /\ k # 0 /\ k \in 0..m
        BY <3>2
      <4>2. c[k] = NextBusinessDay(c[k - 1] + 1, off)
        BY <2>1, <4>1
      <4> QED
        BY <4>1, <4>2
    <3>3. CASE k = m + 1
      <4>1. e[k] = NextBusinessDay(c[m] + 1, off) /\ e[k - 1] = c[m] /\ k # 0
        BY <3>3
      <4> QED
        BY <4>1
    <3> QED
      BY <3>1, <3>2, <3>3
  <2>3. e = [k \in 0..(m + 1) |-> IF k = 0 THEN NextBusinessDay(start, off)
                                  ELSE NextBusinessDay(e[k - 1] + 1, off)]
    <3>1. e = [k \in 0..(m + 1) |-> e[k]]
      OBVIOUS
    <3> HIDE DEF e
    <3> QED
      BY <2>2, <3>1
  <2>4. Counting(e, start, m + 1, off)
    <3> HIDE DEF e
    <3> QED
      BY <2>3 DEF Counting
  <2> QED
    BY <2>4
<1>3. n \in S
  <2> HIDE DEF S
  <2> QED
    BY <1>1, <1>2, AllNaturals
<1> QED
  BY <1>3

LEMMA DueDateIsCounted ==
    ASSUME NEW start \in Int, NEW n \in Nat, NEW off
    PROVE  \E c : /\ Counting(c, start, n, VisibleHolidays(start, n, off))
                  /\ DueDate(start, n, off) = c[n]
<1> DEFINE visible == VisibleHolidays(start, n, off)
           c == CHOOSE c : c = [k \in 0..n |->
                  IF k = 0 THEN NextBusinessDay(start, visible)
                           ELSE NextBusinessDay(c[k - 1] + 1, visible)]
<1>1. DueDate(start, n, off) = c[n]
  BY DEF DueDate
<1>2. \E e : e = [k \in 0..n |-> IF k = 0 THEN NextBusinessDay(start, visible)
                                          ELSE NextBusinessDay(e[k - 1] + 1, visible)]
  <2> HIDE DEF visible
  <2> QED
    BY CountingExists DEF Counting
<1>3. c = [k \in 0..n |-> IF k = 0 THEN NextBusinessDay(start, visible)
                                   ELSE NextBusinessDay(c[k - 1] + 1, visible)]
  <2> HIDE DEF visible
  <2> QED
    BY <1>2
<1>4. Counting(c, start, n, visible)
  <2> HIDE DEF visible, c
  <2> QED
    BY <1>3 DEF Counting
<1> QED
  BY <1>1, <1>4

Workdays(a, b, off) == {d \in a..b : IsBusinessDay(d, off)}

LEMMA CountedDays ==
    ASSUME NEW start \in Int, NEW off, IsFiniteSet(off), NEW n \in Nat,
           NEW c, Counting(c, start, n, off), NEW k \in 0..n
    PROVE  /\ c[k] \in Int /\ start <= c[k]
           /\ IsBusinessDay(c[k], off)
           /\ Cardinality(Workdays(start, c[k], off)) = k + 1
<1> DEFINE Good(m) == /\ c[m] \in Int /\ start <= c[m]
                      /\ IsBusinessDay(c[m], off)
                      /\ Cardinality(Workdays(start, c[m], off)) = m + 1
           S == {m \in Nat : m <= n => Good(m)}
<1>1. 0 \in S
  <2>1. c[0] = NextBusinessDay(start, off)
    BY DEF Counting
  <2>2. /\ c[0] \in Int /\ start <= c[0] /\ IsBusinessDay(c[0], off)
        /\ \A b \in Int : start <= b /\ b < c[0] => ~IsBusinessDay(b, off)
    BY <2>1, NextBusinessDayFacts
  <2>3. Workdays(start, c[0], off) = {c[0]}
    BY <2>2 DEF Workdays
  <2>4. Cardinality({c[0]}) = 0 + 1
    BY FS_Singleton
  <2> QED
    BY <2>2, <2>3, <2>4
<1>2. ASSUME NEW m \in Nat, m \in S
      PROVE  m + 1 \in S
  <2> SUFFICES ASSUME m + 1 <= n PROVE Good(m + 1)
    OBVIOUS
  <2>1. Good(m)
    BY <1>2
  <2>2. c[m + 1] = NextBusinessDay(c[m] + 1, off)
    <3>1. m + 1 \in 0..n /\ m + 1 # 0 /\ (m + 1) - 1 = m
      OBVIOUS
    <3> QED
      BY <3>1 DEF Counting
  <2>3. /\ c[m + 1] \in Int /\ c[m] + 1 <= c[m + 1] /\ IsBusinessDay(c[m + 1], off)
        /\ \A b \in Int : c[m] + 1 <= b /\ b < c[m + 1] => ~IsBusinessDay(b, off)
    <3>1. c[m] + 1 \in Int
      BY <2>1
    <3> QED
      BY <2>2, <3>1, NextBusinessDayFacts
  <2>4. /\ Workdays(start, c[m + 1], off) = Workdays(start, c[m], off) \cup {c[m + 1]}
        /\ c[m + 1] \notin Workdays(start, c[m], off)
    BY <2>1, <2>3 DEF Workdays
  <2>5. IsFiniteSet(Workdays(start, c[m], off))
    <3>1. IsFiniteSet(start..c[m])
      BY <2>1, FS_Interval
    <3>2. Workdays(start, c[m], off) \in SUBSET (start..c[m])
      BY DEF Workdays
    <3> QED
      BY <3>1, <3>2, FS_Subset
  <2>6. Cardinality(Workdays(start, c[m + 1], off)) = (m + 1) + 1
    <3> DEFINE W == Workdays(start, c[m], off)
    <3>1. Cardinality(W) = m + 1
      BY <2>1
    <3> HIDE DEF W
    <3>2. Cardinality(W \cup {c[m + 1]}) = Cardinality(W) + 1
      BY <2>4, <2>5, FS_AddElement DEF W
    <3> QED
      BY <2>4, <3>1, <3>2 DEF W
  <2> QED
    BY <2>1, <2>3, <2>6
<1>3. k \in S
  <2> HIDE DEF S
  <2>1. k \in Nat
    OBVIOUS
  <2> QED
    BY <1>1, <1>2, <2>1, AllNaturals
<1> QED
  BY <1>3

LEMMA VisibleHolidaysFacts ==
    ASSUME NEW start \in Int, NEW n \in Nat, NEW off
    PROVE  /\ IsFiniteSet(VisibleHolidays(start, n, off))
           /\ Horizon(start, n) \in Int
           /\ \A d \in start..Horizon(start, n) :
                IsBusinessDay(d, VisibleHolidays(start, n, off)) <=> IsBusinessDay(d, off)
<1>1. Horizon(start, n) \in Int
  BY DEF Horizon
<1>2. IsFiniteSet(start..Horizon(start, n))
  BY <1>1, FS_Interval
<1>3. VisibleHolidays(start, n, off) \in SUBSET (start..Horizon(start, n))
  BY DEF VisibleHolidays
<1>4. IsFiniteSet(VisibleHolidays(start, n, off))
  BY <1>2, <1>3, FS_Subset
<1>5. ASSUME NEW d \in start..Horizon(start, n)
      PROVE  d \in VisibleHolidays(start, n, off) <=> d \in off
  BY DEF VisibleHolidays
<1> QED
  BY <1>1, <1>4, <1>5 DEF IsBusinessDay

\* calculate_due_date as it sees the calendar.
LEMMA DueDateAsSeen ==
    ASSUME NEW start \in Int, NEW n \in Nat, NEW off
    PROVE  LET due == DueDate(start, n, off)
               visible == VisibleHolidays(start, n, off)
           IN  /\ due \in Int /\ start <= due
               /\ IsBusinessDay(due, visible)
               /\ Cardinality(Workdays(start, due, visible)) = n + 1
<1>1. PICK c : /\ Counting(c, start, n, VisibleHolidays(start, n, off))
               /\ DueDate(start, n, off) = c[n]
  BY DueDateIsCounted
<1>2. n \in 0..n /\ IsFiniteSet(VisibleHolidays(start, n, off))
  BY VisibleHolidaysFacts
<1> QED
  BY <1>1, <1>2, CountedDays

LEMMA WorkdaysAreFinite ==
    ASSUME NEW a \in Int, NEW b \in Int, NEW off
    PROVE  /\ IsFiniteSet(Workdays(a, b, off))
           /\ Cardinality(Workdays(a, b, off)) \in Nat
<1>1. IsFiniteSet(a..b)
  BY FS_Interval
<1>2. Workdays(a, b, off) \in SUBSET (a..b)
  BY DEF Workdays
<1> QED
  BY <1>1, <1>2, FS_Subset, FS_CardinalityType

\* The window in which holidays are looked up holds the business days asked for.
FitsTheWindow(start, n, off) ==
    Cardinality(Workdays(start, Horizon(start, n), off)) > n

\* If it does, nothing beyond it matters.
LEMMA DueDateCounts ==
    ASSUME NEW start \in Int, NEW n \in Nat, NEW off, FitsTheWindow(start, n, off)
    PROVE  LET due == DueDate(start, n, off)
           IN  /\ due \in Int /\ start <= due
               /\ IsBusinessDay(due, off)
               /\ Cardinality(Workdays(start, due, off)) = n + 1
<1> DEFINE due == DueDate(start, n, off)
           visible == VisibleHolidays(start, n, off)
           end == Horizon(start, n)
<1>1. /\ due \in Int /\ start <= due /\ IsBusinessDay(due, visible)
      /\ Cardinality(Workdays(start, due, visible)) = n + 1
  BY DueDateAsSeen
<1>2. /\ end \in Int
      /\ \A d \in start..end : IsBusinessDay(d, visible) <=> IsBusinessDay(d, off)
  BY VisibleHolidaysFacts
<1>3. Cardinality(Workdays(start, end, off)) > n
  BY DEF FitsTheWindow, Workdays
<1> HIDE DEF due, visible, end
<1>4. due <= end
  <2> SUFFICES ASSUME end < due PROVE FALSE
    BY <1>1, <1>2
  <2> DEFINE W == Workdays(start, due, visible)
  <2>1. Workdays(start, end, off) \in SUBSET (W \ {due})
    BY <1>1, <1>2 DEF Workdays
  <2>2. IsFiniteSet(W) /\ due \in W
    BY <1>1, WorkdaysAreFinite DEF Workdays
  <2> HIDE DEF W
  <2>3. IsFiniteSet(W \ {due}) /\ Cardinality(W \ {due}) = Cardinality(W) - 1
    BY <2>2, FS_RemoveElement
  <2>4. Cardinality(Workdays(start, end, off)) <= Cardinality(W \ {due})
    BY <2>1, <2>3, FS_Subset
  <2>5. Cardinality(W \ {due}) = n
    BY <1>1, <2>3 DEF W
  <2>6. Cardinality(Workdays(start, end, off)) \in Nat
    BY <1>2, WorkdaysAreFinite
  <2> QED
    BY <1>3, <2>4, <2>5, <2>6
<1>5. Workdays(start, due, visible) = Workdays(start, due, off)
  BY <1>1, <1>2, <1>4 DEF Workdays
<1>6. IsBusinessDay(due, off)
  BY <1>1, <1>2, <1>4
<1> QED
  BY <1>1, <1>5, <1>6 DEF due

\* Counting back from the due date, from the day the count began.
LEMMA CountingBack ==
    ASSUME NEW start \in Int, NEW due \in Int, NEW n \in Nat, NEW off, start <= due,
           IsBusinessDay(due, off), Cardinality(Workdays(start, due, off)) = n + 1,
           NEW from \in start..due, Workdays(start, from, off) = {from}
    PROVE  BusinessDaysUntil(due, from, off) = n
<1> DEFINE W == Workdays(start, due, off)
<1>1. from \in Int /\ start <= from /\ from <= due
  OBVIOUS
<1>2. CASE due <= from
  <2>1. from = due
    BY <1>1, <1>2
  <2>2. Cardinality({due}) = 1
    BY FS_Singleton
  <2>3. Cardinality({due}) = n + 1
    BY <2>1
  <2>4. n = 0
    BY <2>2, <2>3
  <2> QED
    BY <1>2, <2>4 DEF BusinessDaysUntil
<1>3. CASE ~(due <= from)
  <2> DEFINE after == {d \in (from + 1)..due : IsBusinessDay(d, off)}
  <2>1. \A d \in start..from : IsBusinessDay(d, off) <=> d = from
    BY <1>1 DEF Workdays
  <2>2. after = W \ {from} /\ from \in W
    BY <1>1, <2>1 DEF Workdays
  <2>3. IsFiniteSet(W)
    BY WorkdaysAreFinite
  <2> HIDE DEF W, after
  <2>4. Cardinality(after) = Cardinality(W) - 1
    BY <2>2, <2>3, FS_RemoveElement
  <2>5. Cardinality(after) = n
    BY <2>4 DEF W
  <2> QED
    BY <1>3, <2>5 DEF BusinessDaysUntil, after
<1> QED
  BY <1>2, <1>3

-------------------------------------------------------------------------------
(* How many holidays the window takes.                                     *)

\* A week has five days that are no weekend, wherever it begins.
LEMMA FiveDaysAWeek ==
    ASSUME NEW a \in Int
    PROVE  Cardinality(Workdays(a, a + 6, {})) = 5
<1>1. PICK x \in a..(a + 6), y \in a..(a + 6) :
        x # y /\ \A d \in a..(a + 6) : d % 7 >= 5 <=> d = x \/ d = y
  <2>1. CASE a % 7 = 6
    <3> WITNESS a \in a..(a + 6), a + 6 \in a..(a + 6)
    <3> QED
      BY <2>1
  <2>2. CASE a % 7 # 6
    <3>1. PICK x \in a..(a + 5) : x % 7 = 5
      <4>1. (a + (5 - (a % 7))) % 7 = 5 /\ a + (5 - (a % 7)) \in a..(a + 5)
        BY <2>2
      <4> QED
        BY <4>1
    <3>2. x \in a..(a + 6) /\ x + 1 \in a..(a + 6) /\ x # x + 1
      BY <3>1
    <3>3. \A d \in a..(a + 6) : d % 7 >= 5 <=> d = x \/ d = x + 1
      BY <3>1
    <3> QED
      BY <3>2, <3>3
  <2> QED
    BY <2>1, <2>2
<1>2. Workdays(a, a + 6, {}) = ((a..(a + 6)) \ {x}) \ {y}
  BY <1>1 DEF Workdays, IsBusinessDay
<1> DEFINE D == a..(a + 6)
<1>3. IsFiniteSet(D) /\ Cardinality(D) = 7
  BY FS_Interval
<1>4. x \in D /\ y \in D \ {x}
  BY <1>1
<1> HIDE DEF D
<1>5. IsFiniteSet(D \ {x}) /\ Cardinality(D \ {x}) = 6
  BY <1>3, <1>4, FS_RemoveElement
<1>6. Cardinality((D \ {x}) \ {y}) = 5
  BY <1>4, <1>5, FS_RemoveElement
<1> QED
  BY <1>2, <1>6 DEF D

LEMMA WeekdaysOfWeeks ==
    ASSUME NEW a \in Int, NEW w \in Nat
    PROVE  Cardinality(Workdays(a, a + 7 * w - 1, {})) = 5 * w
<1> DEFINE S == {v \in Nat : Cardinality(Workdays(a, a + 7 * v - 1, {})) = 5 * v}
<1>1. 0 \in S
  <2>1. Workdays(a, a + 7 * 0 - 1, {}) = {}
    BY DEF Workdays
  <2> QED
    BY <2>1, FS_EmptySet
<1>2. ASSUME NEW v \in Nat, v \in S
      PROVE  v + 1 \in S
  <2> DEFINE old == Workdays(a, a + 7 * v - 1, {})
             week == Workdays(a + 7 * v, (a + 7 * v) + 6, {})
  <2>1. a + 7 * v \in Int /\ a + 7 * v - 1 \in Int
    OBVIOUS
  <2>2. Workdays(a, a + 7 * (v + 1) - 1, {}) = old \cup week /\ old \cap week = {}
    BY DEF Workdays
  <2>3. IsFiniteSet(old) /\ IsFiniteSet(week)
    BY <2>1, WorkdaysAreFinite
  <2>4. Cardinality(old) = 5 * v /\ Cardinality(week) = 5
    BY <1>2, <2>1, FiveDaysAWeek
  <2> HIDE DEF old, week
  <2>5. Cardinality(old \cup week) = Cardinality(old) + Cardinality(week) - 0
    BY <2>2, <2>3, FS_Union, FS_EmptySet
  <2>6. Cardinality(old \cup week) = 5 * (v + 1)
    BY <2>4, <2>5
  <2> QED
    BY <2>2, <2>6
<1>3. w \in S
  <2> HIDE DEF S
  <2> QED
    BY <1>1, <1>2, AllNaturals
<1> QED
  BY <1>3

\* The window of business_days * 3 + 60 days is wide enough for a calendar with
\* up to business_days + 38 applicable holidays in it: that is the premise
\* under which calculate_due_date is right (deadlines/service.py:66).
THEOREM WindowHolds ==
    ASSUME NEW start \in Int, NEW n \in Nat, NEW off,
           Cardinality(VisibleHolidays(start, n, off)) <= n + 38
    PROVE  FitsTheWindow(start, n, off)
<1> DEFINE w == (3 * n + 61) \div 7
           visible == VisibleHolidays(start, n, off)
           weeks == Workdays(start, start + 7 * w - 1, {})
           seen == Workdays(start, Horizon(start, n), off)
<1>1. w \in Nat /\ 7 * w <= 3 * n + 61 /\ 3 * n + 55 <= 7 * w
  OBVIOUS
<1>2. /\ IsFiniteSet(visible) /\ Horizon(start, n) \in Int
      /\ \A d \in start..Horizon(start, n) :
           IsBusinessDay(d, visible) <=> IsBusinessDay(d, off)
  BY VisibleHolidaysFacts
<1>3. Horizon(start, n) = start + n * 3 + 60
  BY DEF Horizon
<1> HIDE DEF w, visible
<1>4. Cardinality(weeks) = 5 * w /\ IsFiniteSet(weeks)
  <2>1. start + 7 * w - 1 \in Int
    BY <1>1
  <2> QED
    BY <1>1, <2>1, WeekdaysOfWeeks, WorkdaysAreFinite
<1>5. weeks \ visible \in SUBSET seen
  BY <1>1, <1>2, <1>3 DEF Workdays, IsBusinessDay
<1>6. IsFiniteSet(seen) /\ Cardinality(seen) \in Nat
  BY <1>2, WorkdaysAreFinite
<1> HIDE DEF weeks, seen
<1>7. /\ Cardinality(weeks \ visible) = Cardinality(weeks) - Cardinality(weeks \cap visible)
      /\ Cardinality(weeks \cap visible) <= Cardinality(visible)
      /\ Cardinality(weeks \ visible) <= Cardinality(seen)
  BY <1>2, <1>4, <1>5, <1>6, FS_Difference, FS_Intersection, FS_Subset
<1>8. /\ Cardinality(visible) \in Nat /\ Cardinality(weeks \cap visible) \in Nat
      /\ Cardinality(visible) <= n + 38
  <2>1. IsFiniteSet(weeks \cap visible)
    BY <1>4, FS_Intersection
  <2> QED
    BY <1>2, <2>1, FS_CardinalityType DEF visible
<1>9. Cardinality(seen) > n
  <2> DEFINE A == Cardinality(weeks \cap visible)
             B == Cardinality(seen)
  <2>1. A \in Nat /\ B \in Nat /\ A <= n + 38 /\ 5 * w - A <= B
    BY <1>4, <1>6, <1>7, <1>8
  <2> HIDE DEF A, B
  <2>2. B > n
    BY <1>1, <2>1
  <2> QED
    BY <2>2 DEF B
<1> QED
  BY <1>9 DEF seen, FitsTheWindow, Workdays

-------------------------------------------------------------------------------
\* For any start, number of days and calendar that fits the window,
\* calculate_due_date returns the n-th business day after the first one on or
\* after the start, and business_days_until counts it back.
THEOREM DueDateIsRight ==
    ASSUME NEW start \in Int, NEW n \in Nat, NEW off, FitsTheWindow(start, n, off)
    PROVE  LET due == DueDate(start, n, off)
           IN  /\ IsBusinessDay(due, off)
               /\ Cardinality(Workdays(start, due, off)) = n + 1
               /\ \A from \in start..due :
                    Workdays(start, from, off) = {from} =>
                      BusinessDaysUntil(due, from, off) = n
<1> DEFINE due == DueDate(start, n, off)
<1>1. /\ due \in Int /\ start <= due /\ IsBusinessDay(due, off)
      /\ Cardinality(Workdays(start, due, off)) = n + 1
  BY DueDateCounts
<1> HIDE DEF due
<1>2. \A from \in start..due :
        Workdays(start, from, off) = {from} => BusinessDaysUntil(due, from, off) = n
  BY <1>1, CountingBack
<1> QED
  BY <1>1, <1>2 DEF due

\* So it is for every calendar the application can hold, with up to
\* business_days + 38 applicable holidays in the window.
THEOREM NthBusinessDay == Spec => []DueDateIsTheNthBusinessDay
<1>1. ASSUME NEW start \in StartDates, NEW n \in DayCounts, NEW court, NEW comarca,
             Cardinality(VisibleHolidays(start, n, Applicable(court, comarca))) <= n + 38
      PROVE  LET off == Applicable(court, comarca)
                 due == DueDate(start, n, off)
             IN  /\ IsBusinessDay(due, off)
                 /\ Cardinality(Workdays(start, due, off)) = n + 1
                 /\ \A from \in start..due :
                      Workdays(start, from, off) = {from} =>
                        BusinessDaysUntil(due, from, off) = n
  <2> DEFINE off == Applicable(court, comarca)
  <2>1. start \in Int /\ n \in Nat
    BY ForensicConstants
  <2>2. Cardinality(VisibleHolidays(start, n, off)) <= n + 38
    BY <1>1
  <2> HIDE DEF off
  <2>3. FitsTheWindow(start, n, off)
    BY <2>1, <2>2, WindowHolds
  <2> QED
    BY <2>1, <2>3, DueDateIsRight DEF off
<1>2. DueDateIsTheNthBusinessDay
  BY <1>1 DEF DueDateIsTheNthBusinessDay, Workdays
<1> QED
  BY <1>2, PTL

-------------------------------------------------------------------------------
(* Rows.                                                                   *)

LEMMA ComputedIsADate ==
    ASSUME NEW row \in DeadlineRow
    PROVE  ComputedDueDate(row) \in Int
<1>1. row.start_date \in Int /\ row.business_days \in Nat
  BY ForensicConstants DEF DeadlineRow
<1> QED
  BY <1>1, DueDateAsSeen DEF ComputedDueDate

\* A row with a new due date has the inputs it had.
LEMMA WithDueDate ==
    ASSUME NEW row \in DeadlineRow, NEW due \in Int, NEW new,
           new = [row EXCEPT !.due_date = due]
    PROVE  /\ new \in DeadlineRow /\ new.due_date = due
           /\ new.start_date = row.start_date /\ new.business_days = row.business_days
           /\ new.court = row.court /\ new.comarca = row.comarca
           /\ ComputedDueDate(new) = ComputedDueDate(row)
<1>1. /\ new \in DeadlineRow /\ new.due_date = due
      /\ new.start_date = row.start_date /\ new.business_days = row.business_days
      /\ new.court = row.court /\ new.comarca = row.comarca
  BY DEF DeadlineRow
<1> QED
  BY <1>1 DEF ComputedDueDate

\* The attributes a PATCH names replace those of the row.
LEMMA MergedRow ==
    ASSUME NEW row \in DeadlineRow, NEW start \in StartDates, NEW days \in DayCounts,
           NEW comarca \in Comarcas \cup {Null}, NEW new,
           new = [row EXCEPT !.start_date = start, !.business_days = days,
                             !.comarca = comarca]
    PROVE  /\ new \in DeadlineRow
           /\ start = row.start_date /\ days = row.business_days /\ comarca = row.comarca
                => new = row
<1>1. new \in DeadlineRow
  BY DEF DeadlineRow
<1>2. ASSUME start = row.start_date, days = row.business_days, comarca = row.comarca
      PROVE  new = row
  BY <1>2 DEF DeadlineRow
<1> QED
  BY <1>1, <1>2

\* The UPDATE of a PATCH writes the attributes that differ from the row read.
LEMMA WrittenRow ==
    ASSUME NEW row \in DeadlineRow, NEW read \in DeadlineRow, NEW new \in DeadlineRow,
           NEW written,
           written = [f \in DOMAIN row |-> IF new[f] # read[f] THEN new[f] ELSE row[f]]
    PROVE  /\ written \in DeadlineRow
           /\ read = row => written = new
<1> DEFINE Fields == {"start_date", "business_days", "due_date", "court", "comarca"}
<1>1. /\ DOMAIN row = Fields /\ DOMAIN new = Fields
      /\ row = [f \in Fields |-> row[f]] /\ new = [f \in Fields |-> new[f]]
  BY DEF DeadlineRow
<1>2. /\ new["start_date"] \in StartDates /\ row["start_date"] \in StartDates
      /\ new["business_days"] \in DayCounts /\ row["business_days"] \in DayCounts
      /\ new["due_date"] \in Int /\ row["due_date"] \in Int
      /\ new["court"] \in Courts \cup {Null} /\ row["court"] \in Courts \cup {Null}
      /\ new["comarca"] \in Comarcas \cup {Null} /\ row["comarca"] \in Comarcas \cup {Null}
  BY DEF DeadlineRow
<1>3. written = [f \in Fields |-> IF new[f] # read[f] THEN new[f] ELSE row[f]]
  BY <1>1
<1>4. written \in DeadlineRow
  BY <1>2, <1>3 DEF DeadlineRow
<1>5. ASSUME read = row
      PROVE  written = new
  <2>1. \A f \in Fields : written[f] = new[f]
    BY <1>3, <1>5
  <2>2. written = [f \in Fields |-> written[f]]
    BY <1>3
  <2> HIDE DEF Fields
  <2> QED
    BY <1>1, <2>1, <2>2
<1> QED
  BY <1>4, <1>5

-------------------------------------------------------------------------------
(* Types.                                                                  *)

\* TypeOK fixes no domain for the two tables whose rows it types.
TypeInv ==
    /\ TypeOK
    /\ DOMAIN deadline = Deadlines
    /\ DOMAIN pending = Requests

LEMMA TypeInit == Init => TypeInv
BY ForensicConstants DEF Init, TypeInv, TypeOK

\* A patch that lost its calendar is still a patch.
LEMMA OutdatedPatch ==
    ASSUME NEW p \in Patch, NEW q, q = [p EXCEPT !.current = FALSE]
    PROVE  /\ q \in Patch /\ q.target = p.target /\ q.read = p.read /\ q.new = p.new
           /\ q.recalculated = p.recalculated /\ q.current = FALSE
BY DEF Patch

LEMMA CalendarEditType ==
    ASSUME TypeInv, CalendarChanged, holiday' \in [1..MaxHolidays -> HolidayRow \cup {NoRow}],
           edits' \in 0..MaxEdits, crossed' \subseteq 1..MaxHolidays,
           editing' \in [Admins -> HolidayPatch \cup {NoRow}]
    PROVE  TypeInv'
<1>1. /\ stale' \subseteq Deadlines
      /\ deadline' = deadline /\ used' = used /\ DOMAIN pending' = Requests
  BY DEF TypeInv, TypeOK, CalendarChanged
<1>2. ASSUME NEW r \in Requests
      PROVE  pending'[r] \in Patch \cup {NoRow}
  <2>1. CASE pending[r] = NoRow
    BY <2>1 DEF CalendarChanged
  <2>2. CASE pending[r] # NoRow
    <3>1. pending[r] \in Patch
      BY <2>2 DEF TypeInv, TypeOK
    <3>2. pending'[r] = [pending[r] EXCEPT !.current = FALSE]
      BY <2>2 DEF CalendarChanged
    <3> QED
      BY <3>1, <3>2, OutdatedPatch
  <2> QED
    BY <2>1, <2>2
<1> QED
  BY <1>1, <1>2 DEF TypeInv, TypeOK

LEMMA OneEditMore == TypeInv /\ Edit => edits' \in 0..MaxEdits
BY ForensicConstants DEF TypeInv, TypeOK, Edit

\* What PATCH /forensic-holidays has validated when it opens its unit_of_work:
\* a field whose payload is absent or null (court and comarca: absent) is kept.
LEMMA HolidayPatchRead ==
    ASSUME TypeInv, NEW a \in Admins, NEW h \in DOMAIN holiday,
           NEW date \in HolidayDates \cup {Unset}, NEW scope \in ScopePayloads \cup {Unset},
           NEW court \in Courts \cup {Null, Unset}, NEW comarca \in Comarcas \cup {Null, Unset},
           ReadHolidayPatch(a, h, date, scope, court, comarca)
    PROVE  \E p \in HolidayPatch :
             /\ editing' = [editing EXCEPT ![a] = p]
             /\ scope # Null => ScopeConsistent(p.new.scope, p.new.court, p.new.comarca)
<1> DEFINE row == holiday[h]
           newDate == IF date \in {Unset, Null} THEN row.date ELSE date
           newScope == IF scope \in {Unset, Null} THEN row.scope ELSE scope
           newCourt == IF court = Unset THEN row.court ELSE court
           newComarca == IF comarca = Unset THEN row.comarca ELSE comarca
           new == [date |-> newDate, scope |-> newScope,
                   court |-> newCourt, comarca |-> newComarca]
           p == [target |-> h, read |-> row, new |-> new]
<1>1. row \in HolidayRow /\ h \in 1..MaxHolidays
  BY DEF ReadHolidayPatch, LiveHolidays, TypeInv, TypeOK
<1>4. /\ ScopeConsistent(IF scope = Unset THEN row.scope ELSE scope, newCourt, newComarca)
      /\ editing' = [editing EXCEPT ![a] = p]
  BY DEF ReadHolidayPatch
<1>2. /\ row.date \in HolidayDates /\ row.scope \in Scopes
      /\ row.court \in Courts \cup {Null} /\ row.comarca \in Comarcas \cup {Null}
  BY <1>1 DEF HolidayRow
<1> HIDE DEF row
<1>3. /\ newDate \in HolidayDates /\ newScope \in Scopes
      /\ newCourt \in Courts \cup {Null} /\ newComarca \in Comarcas \cup {Null}
  BY <1>2, ForensicConstants
<1>5. scope # Null => newScope = IF scope = Unset THEN row.scope ELSE scope
  OBVIOUS
<1> HIDE DEF newDate, newScope, newCourt, newComarca
<1>6. new \in HolidayRow
  BY <1>3 DEF HolidayRow
<1>7. new.scope = newScope /\ new.court = newCourt /\ new.comarca = newComarca
  OBVIOUS
<1> HIDE DEF new
<1>8. scope # Null => ScopeConsistent(new.scope, new.court, new.comarca)
  BY <1>4, <1>5, <1>7
<1>9. p \in HolidayPatch /\ p.new = new
  BY <1>1, <1>6 DEF HolidayPatch
<1> HIDE DEF p
<1> QED
  BY <1>4, <1>8, <1>9

\* The UPDATE of a holiday writes the columns that differ from the row read: if
\* nobody touched the scope, the court and the comarca, they end up as validated.
LEMMA WrittenHoliday ==
    ASSUME NEW row \in HolidayRow, NEW p \in HolidayPatch, NEW written, written = Written(row, p)
    PROVE  /\ written \in HolidayRow
           /\ ScopeOf(row) = ScopeOf(p.read) =>
                /\ written.scope = p.new.scope /\ written.court = p.new.court
                /\ written.comarca = p.new.comarca
<1> DEFINE new == p.new
           read == p.read
           Fields == {"date", "scope", "court", "comarca"}
<1>1. new \in HolidayRow /\ read \in HolidayRow
  BY DEF HolidayPatch
<1> HIDE DEF new, read
<1>2. DOMAIN row = Fields
  BY DEF HolidayRow
<1>3. /\ new.date \in HolidayDates /\ row.date \in HolidayDates
      /\ new.scope \in Scopes /\ row.scope \in Scopes
      /\ new.court \in Courts \cup {Null} /\ row.court \in Courts \cup {Null}
      /\ new.comarca \in Comarcas \cup {Null} /\ row.comarca \in Comarcas \cup {Null}
  BY <1>1 DEF HolidayRow
<1>4. written = [f \in Fields |-> IF new[f] # read[f] THEN new[f] ELSE row[f]]
  BY <1>2 DEF Written, new, read
<1>5. written \in HolidayRow
  BY <1>3, <1>4 DEF HolidayRow
<1>6. ASSUME ScopeOf(row) = ScopeOf(p.read)
      PROVE  /\ written.scope = new.scope /\ written.court = new.court
             /\ written.comarca = new.comarca
  <2>1. row.scope = read.scope /\ row.court = read.court /\ row.comarca = read.comarca
    BY <1>6 DEF ScopeOf, read
  <2> QED
    BY <1>4, <2>1
<1> QED
  BY <1>5, <1>6 DEF new

\* The two outcomes of the unit_of_work of a holiday's PATCH.
LEMMA HolidayWritten ==
    ASSUME TypeInv, NEW a \in Admins, WriteHolidayPatch(a), NEW p, p = editing[a]
    PROVE  /\ p \in HolidayPatch /\ p # NoRow
           /\ editing' = [editing EXCEPT ![a] = NoRow] /\ edits' = edits
           /\ \/ UNCHANGED <<holiday, deadline, used, pending, crossed, stale>>
              \/ \E row \in HolidayRow, new \in HolidayRow :
                   /\ holiday[p.target] = row
                   /\ holiday' = [holiday EXCEPT ![p.target] = new]
                   /\ crossed' = IF ScopeOf(row) = ScopeOf(p.read)
                                 THEN crossed \ {p.target} ELSE crossed \cup {p.target}
                   /\ ScopeOf(row) = ScopeOf(p.read) =>
                        /\ new.scope = p.new.scope /\ new.court = p.new.court
                        /\ new.comarca = p.new.comarca
                   /\ CalendarChanged
<1> DEFINE row == holiday[p.target]
           new == Written(row, p)
<1>1. p \in HolidayPatch /\ p # NoRow
  BY DEF WriteHolidayPatch, TypeInv, TypeOK
<1>2. /\ editing' = [editing EXCEPT ![a] = NoRow] /\ edits' = edits
      /\ \/ UNCHANGED <<holiday, deadline, used, pending, crossed, stale>>
         \/ /\ row # NoRow
            /\ holiday' = [holiday EXCEPT ![p.target] = new]
            /\ crossed' = IF ScopeOf(row) = ScopeOf(p.read)
                          THEN crossed \ {p.target} ELSE crossed \cup {p.target}
            /\ CalendarChanged
  BY DEF WriteHolidayPatch
<1>3. p.target \in 1..MaxHolidays
  BY <1>1 DEF HolidayPatch
<1>4. row # NoRow => row \in HolidayRow
  BY <1>3 DEF TypeInv, TypeOK
<1> HIDE DEF row
<1>5. ASSUME row # NoRow
      PROVE  /\ new \in HolidayRow
             /\ ScopeOf(row) = ScopeOf(p.read) =>
                  /\ new.scope = p.new.scope /\ new.court = p.new.court
                  /\ new.comarca = p.new.comarca
  BY <1>1, <1>4, <1>5, WrittenHoliday
<1> HIDE DEF new
<1>6. row = holiday[p.target]
  BY DEF row
<1> QED
  BY <1>1, <1>2, <1>4, <1>5, <1>6

\* What the seed leaves: the rows that were there, and entries of its list.
LEMMA SeededRows ==
    ASSUME TypeInv, SeedYear
    PROVE  /\ DOMAIN holiday' = DOMAIN holiday
           /\ \A h \in DOMAIN holiday :
                \/ holiday'[h] = holiday[h]
                \/ \E i \in DOMAIN SeedEntries : holiday'[h] = SeedEntries[i]
<1>1. PICK slot \in Injection(MissingEntries, FreeIds) :
        holiday' = [h \in DOMAIN holiday |->
                      IF h \in Range(slot)
                      THEN SeedEntries[CHOOSE i \in MissingEntries : slot[i] = h]
                      ELSE holiday[h]]
  BY DEF SeedYear
<1>2. ASSUME NEW h \in DOMAIN holiday, h \in Range(slot)
      PROVE  \E i \in DOMAIN SeedEntries : holiday'[h] = SeedEntries[i]
  <2>1. DOMAIN slot = MissingEntries
    BY DEF Injection
  <2>2. \E i \in MissingEntries : slot[i] = h
    BY <1>2, <2>1 DEF Range
  <2> DEFINE i == CHOOSE j \in MissingEntries : slot[j] = h
  <2>3. i \in MissingEntries
    BY <2>2
  <2>4. holiday'[h] = SeedEntries[i]
    BY <1>1, <1>2
  <2> QED
    BY <2>3, <2>4 DEF MissingEntries
<1> QED
  BY <1>1, <1>2

LEMMA CalendarType == TypeInv /\ CalendarRequest => TypeInv'
<1> SUFFICES ASSUME TypeInv, CalendarRequest PROVE TypeInv'
  OBVIOUS
<1>0. /\ holiday \in [1..MaxHolidays -> HolidayRow \cup {NoRow}]
      /\ editing \in [Admins -> HolidayPatch \cup {NoRow}]
      /\ crossed \subseteq 1..MaxHolidays
      /\ edits \in 0..MaxEdits
  BY DEF TypeInv, TypeOK
<1>1. ASSUME NEW h \in DOMAIN holiday, NEW row \in HolidayRow, CreateHoliday(h, row)
      PROVE  TypeInv'
  BY <1>0, <1>1, CalendarEditType, OneEditMore DEF CreateHoliday
<1>2. ASSUME NEW a \in Admins, NEW h \in DOMAIN holiday,
             NEW date \in HolidayDates \cup {Unset}, NEW scope \in ScopePayloads \cup {Unset},
             NEW court \in Courts \cup {Null, Unset},
             NEW comarca \in Comarcas \cup {Null, Unset},
             ReadHolidayPatch(a, h, date, scope, court, comarca)
      PROVE  TypeInv'
  <2>1. \E p \in HolidayPatch : editing' = [editing EXCEPT ![a] = p]
    BY <1>2, HolidayPatchRead
  <2>2. edits' \in 0..MaxEdits /\ UNCHANGED <<holiday, deadline, used, pending, crossed, stale>>
    BY <1>2, OneEditMore DEF ReadHolidayPatch
  <2>3. editing' \in [Admins -> HolidayPatch \cup {NoRow}]
    BY <1>0, <2>1
  <2> QED
    BY <2>2, <2>3 DEF TypeInv, TypeOK
<1>5. ASSUME NEW a \in Admins, WriteHolidayPatch(a)
      PROVE  TypeInv'
  <2> DEFINE p == editing[a]
  <2>1. /\ p \in HolidayPatch /\ p # NoRow
        /\ editing' = [editing EXCEPT ![a] = NoRow] /\ edits' = edits
        /\ \/ UNCHANGED <<holiday, deadline, used, pending, crossed, stale>>
           \/ /\ \E new \in HolidayRow : holiday' = [holiday EXCEPT ![p.target] = new]
              /\ \/ crossed' = crossed \ {p.target}
                 \/ crossed' = crossed \cup {p.target}
              /\ CalendarChanged
    BY <1>5, HolidayWritten
  <2>2. p.target \in 1..MaxHolidays
    BY <2>1 DEF HolidayPatch
  <2> HIDE DEF p
  <2>3. editing' \in [Admins -> HolidayPatch \cup {NoRow}] /\ edits' \in 0..MaxEdits
    BY <1>0, <2>1
  <2>4. CASE UNCHANGED <<holiday, deadline, used, pending, crossed, stale>>
    BY <2>3, <2>4 DEF TypeInv, TypeOK
  <2>5. CASE /\ \E new \in HolidayRow : holiday' = [holiday EXCEPT ![p.target] = new]
             /\ \/ crossed' = crossed \ {p.target}
                \/ crossed' = crossed \cup {p.target}
             /\ CalendarChanged
    <3>1. /\ holiday' \in [1..MaxHolidays -> HolidayRow \cup {NoRow}]
          /\ crossed' \subseteq 1..MaxHolidays
      BY <1>0, <2>2, <2>5
    <3> QED
      BY <2>3, <2>5, <3>1, CalendarEditType
  <2> QED
    BY <2>1, <2>4, <2>5
<1>3. ASSUME NEW h \in DOMAIN holiday, DeleteHoliday(h)
      PROVE  TypeInv'
  BY <1>0, <1>3, CalendarEditType, OneEditMore DEF DeleteHoliday
<1>4. CASE SeedYear
  <2>1. \A i \in DOMAIN SeedEntries : SeedEntries[i] \in HolidayRow
    BY SeedAssumption
  <2>2. holiday' \in [1..MaxHolidays -> HolidayRow \cup {NoRow}]
    <3>1. \E f : holiday' = [h \in DOMAIN holiday |-> f[h]]
      BY <1>4 DEF SeedYear
    <3>2. \A h \in 1..MaxHolidays : holiday'[h] \in HolidayRow \cup {NoRow}
      BY <1>0, <1>4, <2>1, SeededRows
    <3> QED
      BY <1>0, <3>1, <3>2
  <2>3. CalendarChanged /\ edits' \in 0..MaxEdits /\ UNCHANGED <<editing, crossed>>
    BY <1>4, OneEditMore DEF SeedYear
  <2> QED
    BY <1>0, <2>2, <2>3, CalendarEditType
<1> QED
  BY <1>1, <1>2, <1>3, <1>4, <1>5 DEF CalendarRequest

\* What update has computed when it opens its unit_of_work.
LEMMA PatchRead ==
    ASSUME TypeInv, NEW r \in Requests, NEW d \in Deadlines,
           NEW start \in StartDates \cup {Unset}, NEW days \in DayCounts \cup {Unset},
           NEW comarca \in Comarcas \cup {Null, Unset},
           ReadPatch(r, d, start, days, comarca)
    PROVE  \E p \in Patch :
             /\ pending' = [pending EXCEPT ![r] = p]
             /\ p.target = d /\ p.read = deadline[d] /\ p.current = TRUE
             /\ p.recalculated => p.new.due_date = ComputedDueDate(p.new)
             /\ ~p.recalculated => p.new = p.read
<1> DEFINE row == deadline[d]
           newStart == IF start = Unset THEN row.start_date ELSE start
           newDays == IF days = Unset THEN row.business_days ELSE days
           newComarca == IF comarca = Unset THEN row.comarca ELSE comarca
           merged == [row EXCEPT !.start_date = newStart, !.business_days = newDays,
                                 !.comarca = newComarca]
           dated == [merged EXCEPT !.due_date = ComputedDueDate(merged)]
           recalc == start # Unset \/ days # Unset \/ comarca # Unset
           new == IF recalc THEN dated ELSE merged
           p == [target |-> d, read |-> row, recalculated |-> recalc,
                 current |-> TRUE, new |-> new]
<1>1. row \in DeadlineRow
  BY DEF ReadPatch, TypeInv, TypeOK
<1>2. pending' = [pending EXCEPT ![r] = p]
  BY DEF ReadPatch
<1> HIDE DEF row
<1>3. /\ row.start_date \in StartDates /\ row.business_days \in DayCounts
      /\ row.comarca \in Comarcas \cup {Null}
  BY <1>1 DEF DeadlineRow
<1>4. /\ newStart \in StartDates /\ newDays \in DayCounts
      /\ newComarca \in Comarcas \cup {Null}
  BY <1>3
<1>5. ~recalc => /\ newStart = row.start_date /\ newDays = row.business_days
                 /\ newComarca = row.comarca
  OBVIOUS
<1>6. recalc \in BOOLEAN
  OBVIOUS
<1> HIDE DEF newStart, newDays, newComarca, recalc
<1>7. merged \in DeadlineRow
  BY <1>1, <1>4 DEF DeadlineRow
<1>8. ~recalc => merged = row
  BY <1>1, <1>4, <1>5, MergedRow
<1> HIDE DEF merged
<1>9. /\ dated \in DeadlineRow
      /\ dated.due_date = ComputedDueDate(dated)
  BY <1>7, ComputedIsADate, WithDueDate
<1> HIDE DEF dated
<1>10. /\ new \in DeadlineRow
       /\ recalc => new.due_date = ComputedDueDate(new)
       /\ ~recalc => new = row
  BY <1>7, <1>8, <1>9
<1> HIDE DEF new
<1>11. p \in Patch
  BY <1>1, <1>6, <1>10 DEF Patch
<1>12. /\ p.target = d /\ p.read = row /\ p.current = TRUE
       /\ p.recalculated = recalc /\ p.new = new
  OBVIOUS
<1> HIDE DEF p
<1>13. /\ p.recalculated => p.new.due_date = ComputedDueDate(p.new)
       /\ ~p.recalculated => p.new = p.read
  BY <1>10, <1>12
<1> QED
  BY <1>2, <1>11, <1>12, <1>13 DEF row

\* What its UPDATE does to the row, if it is still there.
LEMMA PatchWritten ==
    ASSUME TypeInv, NEW r \in Requests, WritePatch(r), NEW p, p = pending[r]
    PROVE  /\ p \in Patch /\ p.target \in Deadlines
           /\ \/ deadline[p.target] = NoRow /\ UNCHANGED <<deadline, stale>>
              \/ \E written \in DeadlineRow :
                   /\ deadline[p.target] \in DeadlineRow
                   /\ deadline' = [deadline EXCEPT ![p.target] = written]
                   /\ p.read = deadline[p.target] => written = p.new
                   /\ stale' = IF p.recalculated
                               THEN IF p.current THEN stale \ {p.target}
                                                 ELSE stale \cup {p.target}
                               ELSE stale
<1>1. p \in Patch
  BY DEF WritePatch, TypeInv, TypeOK
<1>2. p.target \in Deadlines /\ p.read \in DeadlineRow /\ p.new \in DeadlineRow
  BY <1>1 DEF Patch
<1>3. CASE deadline[p.target] = NoRow
  BY <1>1, <1>2, <1>3 DEF WritePatch
<1>4. CASE deadline[p.target] # NoRow
  <2> DEFINE row == deadline[p.target]
             written == [f \in DOMAIN row |->
                           IF p.new[f] # p.read[f] THEN p.new[f] ELSE row[f]]
  <2>1. row \in DeadlineRow
    BY <1>2, <1>4 DEF TypeInv, TypeOK
  <2>2. /\ deadline' = [deadline EXCEPT ![p.target] = written]
        /\ stale' = IF p.recalculated
                    THEN IF p.current THEN stale \ {p.target} ELSE stale \cup {p.target}
                    ELSE stale
    BY <1>2, <1>4 DEF WritePatch, TypeInv, Written
  <2>3. written \in DeadlineRow /\ (p.read = row => written = p.new)
    <3> HIDE DEF row
    <3> QED
      BY <1>2, <2>1, WrittenRow
  <2> HIDE DEF written
  <2> QED
    BY <1>1, <1>2, <2>1, <2>2, <2>3
<1> QED
  BY <1>3, <1>4

\* What create_for_process stores.
LEMMA CreatedRow ==
    ASSUME NEW d, NEW start \in StartDates, NEW days \in DayCounts,
           NEW court \in Courts \cup {Null}, NEW comarca \in Comarcas \cup {Null},
           CreateDeadline(d, start, days, court, comarca)
    PROVE  \E new \in DeadlineRow :
             /\ deadline' = [deadline EXCEPT ![d] = new]
             /\ new.due_date = ComputedDueDate(new)
<1> DEFINE row == [start_date |-> start, business_days |-> days, due_date |-> start,
                   court |-> court, comarca |-> comarca]
           new == [row EXCEPT !.due_date = ComputedDueDate(row)]
<1>1. row \in DeadlineRow
  BY ForensicConstants DEF DeadlineRow
<1>2. deadline' = [deadline EXCEPT ![d] = new]
  BY DEF CreateDeadline
<1> HIDE DEF row
<1>3. new \in DeadlineRow /\ new.due_date = ComputedDueDate(new)
  BY <1>1, ComputedIsADate, WithDueDate
<1> HIDE DEF new
<1> QED
  BY <1>2, <1>3

LEMMA DeadlineType == TypeInv /\ DeadlineRequest => TypeInv'
<1> SUFFICES ASSUME TypeInv, DeadlineRequest PROVE TypeInv'
  OBVIOUS
<1>1. ASSUME NEW d \in Deadlines, NEW start \in StartDates, NEW days \in DayCounts,
             NEW court \in Courts \cup {Null}, NEW comarca \in Comarcas \cup {Null},
             CreateDeadline(d, start, days, court, comarca)
      PROVE  TypeInv'
  <2>1. PICK new \in DeadlineRow : deadline' = [deadline EXCEPT ![d] = new]
    BY <1>1, CreatedRow
  <2> QED
    BY <1>1, <2>1 DEF CreateDeadline, TypeInv, TypeOK
<1>2. ASSUME NEW r \in Requests, NEW d \in Deadlines, NEW start \in StartDates \cup {Unset},
             NEW days \in DayCounts \cup {Unset},
             NEW comarca \in Comarcas \cup {Null, Unset},
             ReadPatch(r, d, start, days, comarca)
      PROVE  TypeInv'
  <2>1. PICK p \in Patch : pending' = [pending EXCEPT ![r] = p]
    BY <1>2, PatchRead
  <2>2. /\ edits' \in 0..MaxEdits
        /\ UNCHANGED <<holiday, deadline, used, editing, crossed, stale>>
    BY <1>2, OneEditMore DEF ReadPatch
  <2> QED
    BY <2>1, <2>2 DEF TypeInv, TypeOK
<1>3. ASSUME NEW r \in Requests, WritePatch(r)
      PROVE  TypeInv'
  <2>1. /\ pending[r] \in Patch
        /\ pending[r].target \in Deadlines
        /\ \/ UNCHANGED <<deadline, stale>>
           \/ /\ \E written \in DeadlineRow :
                   deadline' = [deadline EXCEPT ![pending[r].target] = written]
              /\ stale' \subseteq Deadlines
    <3>1. stale \subseteq Deadlines
      BY DEF TypeInv, TypeOK
    <3> QED
      BY <1>3, <3>1, PatchWritten
  <2>2. /\ pending' = [pending EXCEPT ![r] = NoRow] /\ UNCHANGED <<holiday, used, editing, crossed, edits>>
    BY <1>3 DEF WritePatch
  <2> QED
    BY <2>1, <2>2 DEF TypeInv, TypeOK
<1>4. ASSUME NEW d \in Deadlines, DeleteDeadline(d)
      PROVE  TypeInv'
  BY <1>4 DEF DeleteDeadline, TypeInv, TypeOK
<1> QED
  BY <1>1, <1>2, <1>3, <1>4 DEF DeadlineRequest

LEMMA TypeStep == TypeInv /\ [Next]_vars => TypeInv'
<1>1. TypeInv /\ UNCHANGED vars => TypeInv'
  BY DEF TypeInv, TypeOK, vars
<1> QED
  BY <1>1, CalendarType, DeadlineType DEF Next

LEMMA TypeInvariant == Spec => []TypeInv
<1> QED
  BY TypeInit, TypeStep, PTL DEF Spec

\* Every row of the two tables, and every PATCH in flight, is well formed.
THEOREM TypeCorrect == Spec => []TypeOK
<1>1. TypeInv => TypeOK
  BY DEF TypeInv
<1> QED
  BY <1>1, TypeInvariant, PTL

-------------------------------------------------------------------------------
(* Scopes.                                                                 *)

\* A row that no PATCH wrote over another one's scope fits its own, and so does
\* what a PATCH in flight has validated.
ScopeInv ==
    /\ \A h \in DOMAIN holiday : holiday[h] # NoRow /\ h \notin crossed =>
          ScopeConsistent(holiday[h].scope, holiday[h].court, holiday[h].comarca)
    /\ \A a \in Admins : editing[a] # NoRow =>
          ScopeConsistent(editing[a].new.scope, editing[a].new.court, editing[a].new.comarca)

LEMMA ScopeStep ==
    ASSUME Null \notin ScopePayloads, TypeInv, ScopeInv, [Next]_vars
    PROVE  ScopeInv'
<1>0. /\ holiday \in [1..MaxHolidays -> HolidayRow \cup {NoRow}]
      /\ DOMAIN editing = Admins
  BY DEF TypeInv, TypeOK
<1>1. ASSUME NEW h \in DOMAIN holiday, NEW row \in HolidayRow, CreateHoliday(h, row)
      PROVE  ScopeInv'
  <2>1. /\ holiday' = [holiday EXCEPT ![h] = row]
        /\ ScopeConsistent(row.scope, row.court, row.comarca)
        /\ editing' = editing /\ crossed' = crossed
    BY <1>1 DEF CreateHoliday
  <2> QED
    BY <1>0, <2>1 DEF ScopeInv
<1>2. ASSUME NEW a \in Admins, NEW h \in DOMAIN holiday,
             NEW date \in HolidayDates \cup {Unset}, NEW scope \in ScopePayloads \cup {Unset},
             NEW court \in Courts \cup {Null, Unset},
             NEW comarca \in Comarcas \cup {Null, Unset},
             ReadHolidayPatch(a, h, date, scope, court, comarca)
      PROVE  ScopeInv'
  <2>1. scope # Null
    BY ForensicConstants
  <2>2. \E p \in HolidayPatch :
          /\ editing' = [editing EXCEPT ![a] = p]
          /\ ScopeConsistent(p.new.scope, p.new.court, p.new.comarca)
    BY <1>2, <2>1, HolidayPatchRead
  <2>3. holiday' = holiday /\ crossed' = crossed
    BY <1>2 DEF ReadHolidayPatch
  <2> QED
    BY <1>0, <2>2, <2>3 DEF ScopeInv
<1>6. ASSUME NEW a \in Admins, WriteHolidayPatch(a)
      PROVE  ScopeInv'
  <2> DEFINE p == editing[a]
  <2>1. /\ p # NoRow /\ p \in HolidayPatch
        /\ editing' = [editing EXCEPT ![a] = NoRow]
    BY <1>6, HolidayWritten
  <2>2. ScopeConsistent(p.new.scope, p.new.court, p.new.comarca)
    BY <2>1 DEF ScopeInv
  <2>3. \A b \in Admins : editing'[b] # NoRow => editing'[b] = editing[b] /\ editing[b] # NoRow
    BY <1>0, <2>1
  <2>4. CASE UNCHANGED <<holiday, deadline, used, pending, crossed, stale>>
    BY <2>3, <2>4 DEF ScopeInv
  <2>5. CASE \E row \in HolidayRow, new \in HolidayRow :
               /\ holiday[p.target] = row
               /\ holiday' = [holiday EXCEPT ![p.target] = new]
               /\ crossed' = IF ScopeOf(row) = ScopeOf(p.read)
                             THEN crossed \ {p.target} ELSE crossed \cup {p.target}
               /\ ScopeOf(row) = ScopeOf(p.read) =>
                    /\ new.scope = p.new.scope /\ new.court = p.new.court
                    /\ new.comarca = p.new.comarca
               /\ CalendarChanged
    <3> HIDE DEF p
    <3>1. PICK row \in HolidayRow, new \in HolidayRow :
            /\ holiday' = [holiday EXCEPT ![p.target] = new]
            /\ crossed' = IF ScopeOf(row) = ScopeOf(p.read)
                          THEN crossed \ {p.target} ELSE crossed \cup {p.target}
            /\ ScopeOf(row) = ScopeOf(p.read) =>
                 /\ new.scope = p.new.scope /\ new.court = p.new.court
                 /\ new.comarca = p.new.comarca
      BY <2>5, Zenon
    <3>2. ASSUME NEW h \in DOMAIN holiday', holiday'[h] # NoRow, h \notin crossed'
          PROVE  ScopeConsistent(holiday'[h].scope, holiday'[h].court, holiday'[h].comarca)
      <4>1. CASE h = p.target
        <5>1. ScopeOf(row) = ScopeOf(p.read)
          BY <3>1, <3>2, <4>1
        <5>2. holiday'[h] = new
          BY <1>0, <3>1, <3>2, <4>1
        <5> QED
          BY <2>2, <3>1, <5>1, <5>2
      <4>2. CASE h # p.target
        <5>1. holiday'[h] = holiday[h] /\ h \notin crossed /\ h \in DOMAIN holiday
          BY <1>0, <3>1, <3>2, <4>2
        <5> QED
          BY <3>2, <5>1 DEF ScopeInv
      <4> QED
        BY <4>1, <4>2
    <3> QED
      BY <2>3, <3>2 DEF ScopeInv
  <2> QED
    BY <1>6, <2>4, <2>5, HolidayWritten
<1>3. ASSUME NEW h \in DOMAIN holiday, DeleteHoliday(h)
      PROVE  ScopeInv'
  <2>1. /\ holiday' = [holiday EXCEPT ![h] = NoRow] /\ crossed' = crossed \ {h}
        /\ editing' = editing
    BY <1>3 DEF DeleteHoliday
  <2> QED
    BY <1>0, <2>1 DEF ScopeInv
<1>4. CASE SeedYear
  <2>1. \A i \in DOMAIN SeedEntries :
          ScopeConsistent(SeedEntries[i].scope, SeedEntries[i].court, SeedEntries[i].comarca)
    BY SeedAssumption
  <2>2. editing' = editing /\ crossed' = crossed
    BY <1>4 DEF SeedYear
  <2>3. /\ DOMAIN holiday' = DOMAIN holiday
        /\ \A h \in DOMAIN holiday :
             \/ holiday'[h] = holiday[h]
             \/ \E i \in DOMAIN SeedEntries : holiday'[h] = SeedEntries[i]
    BY <1>4, SeededRows
  <2> QED
    BY <2>1, <2>2, <2>3 DEF ScopeInv
<1>5. CASE DeadlineRequest \/ UNCHANGED vars
  <2>1. CASE DeadlineRequest
    <3>1. ASSUME NEW d, NEW start, NEW days, NEW court, NEW comarca,
                 CreateDeadline(d, start, days, court, comarca)
          PROVE  UNCHANGED <<holiday, editing, crossed>>
      BY <3>1 DEF CreateDeadline
    <3>2. ASSUME NEW r, NEW d, NEW start, NEW days, NEW comarca,
                 ReadPatch(r, d, start, days, comarca)
          PROVE  UNCHANGED <<holiday, editing, crossed>>
      BY <3>2 DEF ReadPatch
    <3>3. ASSUME NEW r, WritePatch(r)
          PROVE  UNCHANGED <<holiday, editing, crossed>>
      BY <3>3 DEF WritePatch
    <3>4. ASSUME NEW d, DeleteDeadline(d)
          PROVE  UNCHANGED <<holiday, editing, crossed>>
      BY <3>4 DEF DeleteDeadline
    <3>5. UNCHANGED <<holiday, editing, crossed>>
      BY <2>1, <3>1, <3>2, <3>3, <3>4 DEF DeadlineRequest
    <3> QED
      BY <3>5 DEF ScopeInv
  <2>2. CASE UNCHANGED vars
    BY <2>2 DEF vars, ScopeInv
  <2> QED
    BY <1>5, <2>1, <2>2
<1> QED
  BY <1>1, <1>2, <1>3, <1>4, <1>5, <1>6 DEF Next, CalendarRequest

\* Whatever POST, PATCH, DELETE and the seed do to forensic_holidays, however
\* often and however many PATCHes overlap, the court and comarca of a row fit
\* its scope, as long as no PATCH carries an explicit null for the scope (the
\* way out the run null_scope shows) and the last PATCH to write the row read
\* the scope, court and comarca it wrote over: PATCHes of the date or of other
\* rows, deletions and the seed in between do no harm.
THEOREM ScopesFit ==
    ASSUME Null \notin ScopePayloads
    PROVE  Spec => []ScopesStayConsistent
<1>1. Init => ScopeInv
  BY DEF Init, ScopeInv
<1>2. TypeInv /\ ScopeInv /\ [Next]_vars => ScopeInv'
  BY ScopeStep
<1>3. ScopeInv => ScopesStayConsistent
  BY DEF ScopeInv, ScopesStayConsistent, LiveHolidays
<1> QED
  BY <1>1, <1>2, <1>3, TypeInvariant, PTL DEF Spec

-------------------------------------------------------------------------------
(* Due dates.                                                              *)

\* ComputedDueDate, with the table it reads as a parameter.
DueDateIn(table, row) ==
    DueDate(row.start_date, row.business_days,
            {table[h].date : h \in {g \in DOMAIN table :
                /\ table[g] # NoRow
                /\ \/ table[g].scope = "NATIONAL"
                   \/ /\ row.court # Null
                      /\ table[g].scope = "COURT"
                      /\ table[g].court = row.court
                   \/ /\ row.comarca # Null
                      /\ table[g].scope = "COMARCA"
                      /\ table[g].comarca = row.comarca}})

LEMMA ComputedIn ==
    ASSUME NEW row
    PROVE  ComputedDueDate(row) = DueDateIn(holiday, row)
<1>1. Applicable(row.court, row.comarca) =
        {holiday[h].date : h \in {g \in DOMAIN holiday :
            /\ holiday[g] # NoRow
            /\ \/ holiday[g].scope = "NATIONAL"
               \/ /\ row.court # Null
                  /\ holiday[g].scope = "COURT"
                  /\ holiday[g].court = row.court
               \/ /\ row.comarca # Null
                  /\ holiday[g].scope = "COMARCA"
                  /\ holiday[g].comarca = row.comarca}}
  BY DEF Applicable, LiveHolidays
<1> QED
  BY <1>1 DEF ComputedDueDate, DueDateIn

\* No two PATCHes of one deadline are in flight together.
OnePatchPerDeadline ==
    \A r, s \in Requests :
        pending[r] # NoRow /\ pending[s] # NoRow /\ r # s
            => pending[r].target # pending[s].target

\* A PATCH in flight: the row it has read is still the stored one, and what it
\* is about to write is consistent in itself unless the calendar was edited.
PatchInFlight(p) ==
    /\ p.target \in used
    /\ deadline[p.target] # NoRow => deadline[p.target] = p.read
    /\ p.recalculated /\ p.current => p.new.due_date = DueDateIn(holiday, p.new)
    /\ ~p.recalculated => p.new = p.read

DueDateInv ==
    /\ \A d \in Deadlines : deadline[d] # NoRow =>
          /\ d \in used
          /\ d \notin stale => deadline[d].due_date = DueDateIn(holiday, deadline[d])
    /\ \A r \in Requests : pending[r] # NoRow => PatchInFlight(pending[r])

LEMMA CalendarKeepsDueDates ==
    ASSUME TypeInv, DueDateInv, CalendarChanged
    PROVE  DueDateInv'
<1>1. /\ deadline' = deadline /\ used' = used
      /\ \A d \in Deadlines : deadline[d] # NoRow => d \in stale'
  BY DEF CalendarChanged
<1>2. ASSUME NEW r \in Requests, pending'[r] # NoRow
      PROVE  PatchInFlight(pending[r])'
  <2>1. pending[r] # NoRow /\ pending'[r] = [pending[r] EXCEPT !.current = FALSE]
    BY <1>2 DEF CalendarChanged
  <2>2. pending[r] \in Patch /\ PatchInFlight(pending[r])
    BY <2>1 DEF TypeInv, TypeOK, DueDateInv
  <2>3. /\ pending'[r].target = pending[r].target /\ pending'[r].read = pending[r].read
        /\ pending'[r].new = pending[r].new /\ pending'[r].current = FALSE
        /\ pending'[r].recalculated = pending[r].recalculated
    BY <2>1, <2>2, OutdatedPatch
  <2> QED
    BY <1>1, <2>2, <2>3 DEF PatchInFlight
<1> QED
  BY <1>1, <1>2 DEF DueDateInv

LEMMA DueDateStep ==
    ASSUME TypeInv, OnePatchPerDeadline, DueDateInv, [Next]_vars
    PROVE  DueDateInv'
<1>1. CASE CalendarRequest
  <2>1. ASSUME NEW h, NEW row, CreateHoliday(h, row)
        PROVE  CalendarChanged
    BY <2>1 DEF CreateHoliday
  <2>2. ASSUME NEW h, NEW date, NEW scope, NEW court, NEW comarca,
               NEW a, ReadHolidayPatch(a, h, date, scope, court, comarca)
        PROVE  UNCHANGED <<holiday, deadline, used, pending, stale>>
    BY <2>2 DEF ReadHolidayPatch
  <2>3. ASSUME NEW h, DeleteHoliday(h)
        PROVE  CalendarChanged
    BY <2>3 DEF DeleteHoliday
  <2>4. SeedYear => CalendarChanged
    BY DEF SeedYear
  <2>5. ASSUME NEW a, WriteHolidayPatch(a)
        PROVE  CalendarChanged \/ UNCHANGED <<holiday, deadline, used, pending, stale>>
    BY <2>5 DEF WriteHolidayPatch
  <2>6. CalendarChanged \/ UNCHANGED <<holiday, deadline, used, pending, stale>>
    BY <1>1, <2>1, <2>2, <2>3, <2>4, <2>5 DEF CalendarRequest
  <2>7. CASE UNCHANGED <<holiday, deadline, used, pending, stale>>
    BY <2>7 DEF DueDateInv, PatchInFlight
  <2> QED
    BY <2>6, <2>7, CalendarKeepsDueDates
<1>2. ASSUME NEW d \in Deadlines, NEW start \in StartDates, NEW days \in DayCounts,
             NEW court \in Courts \cup {Null}, NEW comarca \in Comarcas \cup {Null},
             CreateDeadline(d, start, days, court, comarca)
      PROVE  DueDateInv'
  <2>1. PICK new \in DeadlineRow :
          /\ deadline' = [deadline EXCEPT ![d] = new]
          /\ new.due_date = DueDateIn(holiday, new)
    BY <1>2, CreatedRow, ComputedIn
  <2>2. d \notin used /\ used' = used \cup {d} /\ UNCHANGED <<holiday, pending, stale>>
    BY <1>2 DEF CreateDeadline
  <2>3. \A r \in Requests : pending[r] # NoRow => PatchInFlight(pending[r])'
    BY <2>1, <2>2 DEF DueDateInv, PatchInFlight
  <2>4. DOMAIN deadline = Deadlines
    BY DEF TypeInv
  <2>5. \A e \in Deadlines : deadline'[e] # NoRow =>
          /\ e \in used'
          /\ e \notin stale' => deadline'[e].due_date = DueDateIn(holiday', deadline'[e])
    BY <2>1, <2>2, <2>4 DEF DueDateInv
  <2> QED
    BY <2>2, <2>3, <2>5 DEF DueDateInv
<1>3. ASSUME NEW r \in Requests, NEW d \in Deadlines, NEW start \in StartDates \cup {Unset},
             NEW days \in DayCounts \cup {Unset},
             NEW comarca \in Comarcas \cup {Null, Unset},
             ReadPatch(r, d, start, days, comarca)
      PROVE  DueDateInv'
  <2>1. PICK p \in Patch :
          /\ pending' = [pending EXCEPT ![r] = p]
          /\ p.target = d /\ p.read = deadline[d] /\ p.current = TRUE
          /\ p.recalculated => p.new.due_date = ComputedDueDate(p.new)
          /\ ~p.recalculated => p.new = p.read
    BY <1>3, PatchRead, Zenon
  <2>2. deadline[d] # NoRow /\ UNCHANGED <<holiday, deadline, used, stale>>
    BY <1>3 DEF ReadPatch
  <2>3. PatchInFlight(p)
    BY <2>1, <2>2, ComputedIn DEF DueDateInv, PatchInFlight
  <2>4. DOMAIN pending = Requests
    BY DEF TypeInv
  <2>5. \A s \in Requests : pending'[s] # NoRow => PatchInFlight(pending'[s])
    BY <2>1, <2>3, <2>4 DEF DueDateInv
  <2> QED
    BY <2>2, <2>5 DEF DueDateInv, PatchInFlight
<1>4. ASSUME NEW r \in Requests, WritePatch(r)
      PROVE  DueDateInv'
  <2> DEFINE p == pending[r]
  <2>1. /\ p # NoRow /\ pending' = [pending EXCEPT ![r] = NoRow]
        /\ UNCHANGED <<holiday, used>> /\ DOMAIN pending = Requests
        /\ DOMAIN deadline = Deadlines
    BY <1>4 DEF WritePatch, TypeInv
  <2>2. PatchInFlight(p)
    BY <2>1 DEF DueDateInv
  <2>3. \A s \in Requests : pending'[s] # NoRow =>
          /\ pending'[s] = pending[s] /\ PatchInFlight(pending[s])
          /\ pending[s].target # p.target
    BY <2>1 DEF DueDateInv, OnePatchPerDeadline
  <2>4. p \in Patch /\ p.target \in Deadlines
    BY <1>4, PatchWritten
  <2>5. CASE UNCHANGED <<deadline, stale>>
    <3>1. \A s \in Requests : pending'[s] # NoRow => PatchInFlight(pending[s])'
      BY <2>1, <2>3, <2>5 DEF PatchInFlight
    <3> QED
      BY <2>1, <2>5, <3>1 DEF DueDateInv
  <2>6. CASE \E written \in DeadlineRow :
               /\ deadline[p.target] \in DeadlineRow
               /\ deadline' = [deadline EXCEPT ![p.target] = written]
               /\ p.read = deadline[p.target] => written = p.new
               /\ stale' = IF p.recalculated
                           THEN IF p.current THEN stale \ {p.target}
                                             ELSE stale \cup {p.target}
                           ELSE stale
    <3>1. /\ deadline[p.target] # NoRow /\ deadline[p.target] = p.read
          /\ deadline' = [deadline EXCEPT ![p.target] = p.new]
          /\ stale' = IF p.recalculated
                      THEN IF p.current THEN stale \ {p.target} ELSE stale \cup {p.target}
                      ELSE stale
      BY <2>2, <2>6, ForensicConstants DEF PatchInFlight
    <3>2. p.target \in used /\ (~p.recalculated => p.new = p.read)
          /\ (p.recalculated /\ p.current => p.new.due_date = DueDateIn(holiday, p.new))
      BY <2>2 DEF PatchInFlight
    <3> HIDE DEF p
    <3>3. \A s \in Requests : pending'[s] # NoRow => PatchInFlight(pending[s])'
      BY <2>1, <2>3, <3>1 DEF PatchInFlight
    <3>4. \A e \in Deadlines : deadline'[e] # NoRow =>
            /\ e \in used
            /\ e \notin stale' => deadline'[e].due_date = DueDateIn(holiday, deadline'[e])
      <4> SUFFICES ASSUME NEW e \in Deadlines, deadline'[e] # NoRow
                   PROVE  /\ e \in used
                          /\ e \notin stale' =>
                               deadline'[e].due_date = DueDateIn(holiday, deadline'[e])
        OBVIOUS
      <4>1. CASE e # p.target
        BY <2>1, <3>1, <4>1 DEF DueDateInv
      <4>2. CASE e = p.target
        <5>1. deadline'[e] = p.new
          BY <2>1, <3>1, <4>2
        <5>2. CASE p.recalculated
          BY <3>1, <3>2, <4>2, <5>1, <5>2
        <5>3. CASE ~p.recalculated
          <6>1. deadline'[e] = deadline[e] /\ stale' = stale /\ deadline[e] # NoRow
            BY <3>1, <3>2, <4>2, <5>1, <5>3
          <6> QED
            BY <6>1 DEF DueDateInv
        <5> QED
          BY <5>2, <5>3
      <4> QED
        BY <4>1, <4>2
    <3> QED
      BY <2>1, <3>3, <3>4 DEF DueDateInv
  <2> QED
    BY <1>4, <2>5, <2>6, PatchWritten
<1>5. ASSUME NEW d \in Deadlines, DeleteDeadline(d)
      PROVE  DueDateInv'
  <2>1. /\ deadline' = [deadline EXCEPT ![d] = NoRow] /\ stale' = stale \ {d}
        /\ UNCHANGED <<holiday, used, pending>> /\ DOMAIN deadline = Deadlines
    BY <1>5 DEF DeleteDeadline, TypeInv
  <2>2. \A s \in Requests : pending[s] # NoRow => PatchInFlight(pending[s])'
    BY <2>1 DEF DueDateInv, PatchInFlight
  <2>3. \A e \in Deadlines : deadline'[e] # NoRow =>
          /\ e \in used
          /\ e \notin stale' => deadline'[e].due_date = DueDateIn(holiday, deadline'[e])
    BY <2>1 DEF DueDateInv
  <2> QED
    BY <2>1, <2>2, <2>3 DEF DueDateInv
<1>6. CASE UNCHANGED vars
  BY <1>6 DEF vars, DueDateInv, PatchInFlight
<1> QED
  BY <1>1, <1>2, <1>3, <1>4, <1>5, <1>6 DEF Next, DeadlineRequest

\* As long as no two PATCHes of one deadline overlap, every stored due date is
\* the one its own inputs give, or older than the last edit of the calendar:
\* PATCHes of different deadlines, calendar edits in the middle of a PATCH and
\* deletions under one do no harm.  The run patch_race shows what an overlap
\* does.
THEOREM DueDatesFollow ==
    Spec /\ []OnePatchPerDeadline => []DueDatesFollowTheirInputs
<1>1. Init => DueDateInv
  BY DEF Init, DueDateInv
<1>2. TypeInv /\ OnePatchPerDeadline /\ DueDateInv /\ [Next]_vars => DueDateInv'
  BY DueDateStep
<1>3. DueDateInv => DueDatesFollowTheirInputs
  BY ComputedIn DEF DueDateInv, DueDatesFollowTheirInputs
<1> QED
  BY <1>1, <1>2, <1>3, TypeInvariant, PTL DEF Spec

\* In particular with one PATCH request at a time, the instance TLC checks.
THEOREM DueDatesFollowOnePatch ==
    ASSUME \A r, s \in Requests : r = s
    PROVE  Spec => []DueDatesFollowTheirInputs
<1>1. OnePatchPerDeadline
  BY DEF OnePatchPerDeadline
<1> QED
  BY <1>1, DueDatesFollow, PTL

===============================================================================
