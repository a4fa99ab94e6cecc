--------------------------- MODULE ScheduleProofs ---------------------------
(***************************************************************************)
(* previous_occurrence of daily, weekly and monthly schedules, for every   *)
(* calendar and every resolution of the time of day.                       *)
(***************************************************************************)
EXTENDS MCAlgorithms, WellFoundedInduction, TLAPS

-----------------------------------------------------------------------------
(* Induction over numbers. LogsProofs and DefinitionProofs use it too.     *)

\* Every set of naturals has a least element.
LEMMA Least == ASSUME NEW T \in SUBSET Nat, T # {} PROVE \E x \in T : \A y \in T : x <= y
<1>1. PICK x \in T : \A y \in T : ~ (<<y, x>> \in OpToRel(<, Nat))
  BY NatLessThanWellFounded, WFMin
<1>2. \A y \in T : ~ (y < x)
  BY <1>1 DEF OpToRel
<1> QED
  BY <1>2

\* Induction, over the set of the numbers that have a property.
LEMMA Induction ==
    ASSUME NEW T \in SUBSET Nat, 0 \in T, \A k \in T : k + 1 \in T PROVE \A k \in Nat : k \in T
<1> SUFFICES ASSUME Nat \ T # {} PROVE FALSE
  OBVIOUS
<1>1. PICK k \in Nat \ T : \A j \in Nat \ T : k <= j
  BY Least
<1>2. k # 0 /\ k - 1 \in T
  BY <1>1
<1> QED
  BY <1>1, <1>2

-----------------------------------------------------------------------------
(* Days and times of day.                                                  *)

\* A moment is its day and its time of day.
LEMMA Split ==
    ASSUME NEW m \in Nat
    PROVE  /\ Day(m) \in Nat /\ m % Slots \in Time
           /\ m = Day(m) * Slots + (m % Slots)
<1>1. Slots \in Nat /\ Slots > 0
  BY ConstantsAssumption
<1> QED
  BY <1>1 DEF Day, Time

\* A later day begins at least a day later.
LEMMA LaterDay ==
    ASSUME NEW a \in Int, NEW b \in Int, a < b PROVE a * Slots + Slots <= b * Slots
<1>1. Slots \in Nat /\ Slots > 0
  BY ConstantsAssumption
<1>2. (b - (a + 1)) * Slots >= 0
  BY <1>1
<1>3. (b - (a + 1)) * Slots = b * Slots - (a * Slots + Slots)
  BY <1>1
<1>4. a * Slots \in Int /\ b * Slots \in Int
  BY <1>1
<1> QED
  BY <1>1, <1>2, <1>3, <1>4

\* The moment at time t of day d is of that day, and at that time.
LEMMA Join ==
    ASSUME NEW d \in Nat, NEW t \in Time
    PROVE  d * Slots + t \in Nat /\ Day(d * Slots + t) = d /\ (d * Slots + t) % Slots = t
<1>1. Slots \in Nat /\ Slots > 0 /\ t \in Nat /\ t < Slots
  BY ConstantsAssumption DEF Time
<1>2. d * Slots \in Nat
  BY <1>1
<1>3. PICK m \in Nat : m = d * Slots + t
  BY <1>1, <1>2
<1>4. PICK p \in Nat : p = d * Slots
  BY <1>2
<1>5. Day(m) \in Nat /\ m % Slots \in Time /\ m = Day(m) * Slots + (m % Slots)
  BY Split
<1>6. PICK q \in Nat, r \in Nat : q = Day(m) * Slots /\ r = m % Slots /\ r < Slots
  BY <1>1, <1>5 DEF Time
<1>7. m = p + t /\ m = q + r
  BY <1>3, <1>4, <1>5, <1>6
<1>8. ~ (Day(m) < d)
  <2> SUFFICES ASSUME Day(m) < d PROVE FALSE
    OBVIOUS
  <2>1. q + Slots <= p
    BY <1>4, <1>5, <1>6, LaterDay
  <2> QED
    BY <1>1, <1>6, <1>7, <2>1
<1>9. ~ (d < Day(m))
  <2> SUFFICES ASSUME d < Day(m) PROVE FALSE
    OBVIOUS
  <2>1. p + Slots <= q
    BY <1>4, <1>5, <1>6, LaterDay
  <2> QED
    BY <1>1, <1>6, <1>7, <2>1
<1>10. Day(m) = d
  BY <1>5, <1>8, <1>9
<1>11. r = t
  BY <1>1, <1>4, <1>6, <1>7, <1>10
<1> QED
  BY <1>3, <1>6, <1>10, <1>11

\* A moment at the time of day of an occurrence of day a, later than it, is
\* of a later day.
LEMMA SameTime ==
    ASSUME NEW a \in Nat, NEW t \in Time, NEW m \in Nat, m % Slots = t, m > a * Slots + t
    PROVE  Day(m) > a
<1>1. Day(m) \in Nat /\ m = Day(m) * Slots + t
  BY Split
<1>2. Slots \in Nat /\ t \in Nat
  BY ConstantsAssumption DEF Time
<1>3. Day(m) # a
  BY <1>1
<1>4. ASSUME Day(m) < a PROVE FALSE
  <2>1. Day(m) * Slots + Slots <= a * Slots
    BY <1>1, <1>4, LaterDay
  <2>2. Day(m) * Slots \in Nat /\ a * Slots \in Nat
    BY <1>1, <1>2
  <2> QED
    BY <1>1, <1>2, <2>1, <2>2
<1> QED
  BY <1>1, <1>3, <1>4

-----------------------------------------------------------------------------
(* What the backends match.                                                *)

\* The daily and the weekly schedules among Schedules.
Daily(t)     == [kind |-> "daily", weekday |-> None, day |-> None, time |-> t]
Weekly(w, t) == [kind |-> "weekly", weekday |-> w, day |-> None, time |-> t]

\* The abbreviations of to_systemd's table and of the calendar name the same
\* day of the week: index 0 is Sunday in the one and Monday in the other.
LEMMA SameName ==
    ASSUME NEW day \in Nat, NEW w \in 0..6
    PROVE  SYSTEMD_WEEKDAY[w + 1] \in {"any", DayName(day)} <=> WeekdayIndex(day) = w
<1>1. PICK v \in 0..6 : v = Weekday(day)
  BY ConstantsAssumption DEF Weekday
<1>2. WeekdayIndex(day) = IF v = 6 THEN 0 ELSE v + 1
  BY <1>1 DEF WeekdayIndex
<1>3. DayName(day) = <<"Mon", "Tue", "Wed", "Thu", "Fri", "Sat", "Sun">>[v + 1]
  BY <1>1 DEF DayName
<1> QED
  BY <1>2, <1>3 DEF SYSTEMD_WEEKDAY

\* Both backends start a daily task at its time, every day.
LEMMA DailyFires ==
    ASSUME NEW t \in Time, NEW b \in Backends, NEW m \in Nat
    PROVE  Fires(b, Daily(t), m)
               <=> m % Slots = t
  BY DEF Fires, Backends, IsCalendar, SystemdMatches, ToSystemd, LaunchdMatches, ToLaunchd, None,
         Daily

\* Both backends start a weekly task at its time, on its day of the week.
LEMMA WeeklyFires ==
    ASSUME NEW t \in Time, NEW w \in 0..6, NEW b \in Backends, NEW m \in Nat
    PROVE  Fires(b, Weekly(w, t), m)
               <=> m % Slots = t /\ WeekdayIndex(Day(m)) = w
<1>1. Day(m) \in Nat
  BY Split
<1>2. SYSTEMD_WEEKDAY[w + 1] \in {"any", DayName(Day(m))} <=> WeekdayIndex(Day(m)) = w
  BY <1>1, SameName
<1>3. CASE b = "systemd"
  BY <1>2, <1>3 DEF Fires, IsCalendar, SystemdMatches, ToSystemd, Weekly
<1>4. CASE b = "launchd"
  BY <1>4 DEF Fires, LaunchdMatches, ToLaunchd, WeekdayIndex, Weekly
<1> QED
  BY <1>3, <1>4 DEF Backends

-----------------------------------------------------------------------------
(* previous_occurrence.                                                    *)

\* A moment at time t of day a, not after now, is the latest firing if no day
\* from a on, up to today, has another.
LEMMA Latest ==
    ASSUME NEW a \in Nat, NEW t \in Time, NEW now \in Nat, NEW Hits \in SUBSET Nat,
           a * Slots + t <= now, a \in Hits,
           \A d \in Hits : (a < d /\ d <= Day(now)) => d * Slots + t > now
    PROVE  \A m \in (a * Slots + t + 1)..now : ~ (m % Slots = t /\ Day(m) \in Hits)
<1>1. a * Slots + t \in Nat
  BY Join
<1> SUFFICES ASSUME NEW m \in (a * Slots + t + 1)..now, m % Slots = t, Day(m) \in Hits PROVE FALSE
  OBVIOUS
<1>2. m \in Nat /\ m > a * Slots + t /\ m <= now
  BY <1>1
<1>3. Day(m) \in Nat /\ m = Day(m) * Slots + t
  BY <1>2, Split
<1>4. Day(m) > a
  BY <1>2, SameTime
<1>5. Day(m) <= Day(now)
  <2>1. Day(now) \in Nat /\ now % Slots \in Time /\ now = Day(now) * Slots + (now % Slots)
    BY Split
  <2> SUFFICES ASSUME Day(now) < Day(m) PROVE FALSE
    BY <1>3, <2>1
  <2>2. Day(now) * Slots + Slots <= Day(m) * Slots
    BY <1>3, <2>1, LaterDay
  <2>3. Slots \in Nat /\ t \in Nat /\ now % Slots \in Nat /\ now % Slots < Slots
    BY <2>1, ConstantsAssumption DEF Time
  <2>4. Day(now) * Slots \in Nat /\ Day(m) * Slots \in Nat
    BY <1>3, <2>1, <2>3
  <2> QED
    BY <1>2, <1>3, <2>1, <2>2, <2>3, <2>4
<1> QED
  BY <1>2, <1>3, <1>4, <1>5

\* previous_occurrence of a daily schedule is the latest moment at which both
\* schedulers start the task, at every moment from the calendar's second day
\* on: the candidate is stepped back by one day and never by more.
THEOREM DailyAgrees ==
    ASSUME NEW t \in Time, NEW now \in Nat, Day(now) >= 1
    PROVE  Agrees(Daily(t), now)
<1> DEFINE s == Daily(t)
<1>1. s.kind = "daily" /\ s.time = t
  BY DEF Daily
<1> HIDE DEF s
<1>2. /\ Day(now) \in Nat /\ now % Slots \in Time
      /\ now = Day(now) * Slots + (now % Slots)
  BY Split
<1>3. /\ Slots \in Nat /\ Slots > 0 /\ t \in Nat /\ t < Slots
      /\ now % Slots \in Nat /\ now % Slots < Slots
  BY <1>2, ConstantsAssumption DEF Time
<1>4. PICK c \in Nat : c = Day(now) * Slots
  BY <1>2, <1>3
<1> DEFINE a == IF c + t > now THEN Day(now) - 1 ELSE Day(now)
<1>5. a \in Nat /\ a * Slots = IF c + t > now THEN c - Slots ELSE c
  BY <1>2, <1>3, <1>4
<1>6. PreviousOccurrence(s, now) = a * Slots + t
  BY <1>1, <1>3, <1>4, <1>5 DEF PreviousOccurrence, PreviousDaily, Candidate
<1>7. a * Slots + t <= now
  BY <1>2, <1>3, <1>4, <1>5
<1>8. a * Slots + t \in Nat /\ (a * Slots + t) % Slots = t
  BY <1>5, Join
<1>9. \A d \in Nat : (a < d /\ d <= Day(now)) => d * Slots + t > now
  BY <1>2, <1>4
<1> HIDE DEF a
<1>10. \A m \in (a * Slots + t + 1)..now : ~ (m % Slots = t /\ Day(m) \in Nat)
  BY <1>5, <1>7, <1>9, Latest
<1>11. ASSUME NEW b \in Backends PROVE LatestFiring(b, s, a * Slots + t, now)
  <2>1. Fires(b, s, a * Slots + t)
    BY <1>1, <1>8, DailyFires DEF s
  <2>2. ASSUME NEW m \in (a * Slots + t + 1)..now PROVE ~ Fires(b, s, m)
    <3>1. m \in Nat
      BY <1>8
    <3>2. Fires(b, s, m) <=> m % Slots = t
      BY <1>1, <3>1, DailyFires DEF s
    <3> QED
      BY <1>10, <3>1, <3>2, Split
  <2> QED
    BY <2>1, <2>2 DEF LatestFiring
<1> QED
  BY <1>1, <1>6, <1>7, <1>8, <1>11 DEF Agrees, IsCalendar, s

\* The weekdays of the last eight days: each occurs once, today's also a week
\* ago.
LEMMA WeekBack ==
    ASSUME NEW d \in Nat, d >= 7, NEW w \in 0..6
    PROVE  \E k \in 0..6 : /\ WeekdayIndex(d - k) = w
                           /\ \A j \in 0..7 : WeekdayIndex(d - j) = w <=> j \in {k, k + 7}
<1>1. PICK v \in 0..6 : v = WeekdayIndex(d)
  BY ConstantsAssumption DEF WeekdayIndex, Weekday
<1>2. \A j \in 0..7 : WeekdayIndex(d - j) = (v + 7 - j) % 7
  BY <1>1, ConstantsAssumption DEF WeekdayIndex, Weekday
<1> QED
  BY <1>2

\* The first probe of the loop that succeeds.
LEMMA FirstProbe ==
    ASSUME NEW P \in SUBSET Nat, NEW k \in P, \A j \in P : k <= j PROVE Min(P) = k
<1>1. \A x \in P : (\A y \in P : x <= y) => x = k
  OBVIOUS
<1> QED
  BY <1>1 DEF Min

\* previous_occurrence of a weekly schedule is the latest moment at which both
\* schedulers start the task, once the calendar has a week behind it: the loop
\* over eight days always finds it, and finds it first.
THEOREM WeeklyAgrees ==
    ASSUME NEW w \in 0..6, NEW t \in Time, NEW now \in Nat, Day(now) >= 7
    PROVE  Agrees(Weekly(w, t), now)
<1> DEFINE s == Weekly(w, t)
<1>1. s.kind = "weekly" /\ s.weekday = w /\ s.time = t
  BY DEF Weekly
<1> HIDE DEF s
<1>2. /\ Day(now) \in Nat /\ now % Slots \in Time
      /\ now = Day(now) * Slots + (now % Slots)
  BY Split
<1>3. /\ Slots \in Nat /\ Slots > 0 /\ t \in Nat /\ t < Slots
      /\ now % Slots \in Nat /\ now % Slots < Slots
  BY <1>2, ConstantsAssumption DEF Time
<1>4. PICK today \in Nat : today = Day(now) /\ today >= 7
  BY <1>2
<1>5. PICK i \in 0..6 :
          \A j \in 0..7 : WeekdayIndex(today - j) = w <=> j \in {i, i + 7}
  BY <1>4, WeekBack
<1>6. \A j \in 0..7 : /\ (today - j) * Slots = today * Slots - j * Slots
                      /\ j * Slots \in Nat /\ (j > 0 => j * Slots >= Slots)
  BY <1>3
<1>7. PICK c \in Nat : c = today * Slots
  BY <1>3
<1>8. Candidate(s, now) = c + t
  BY <1>1, <1>4, <1>7 DEF Candidate
<1> DEFINE back == {k \in 0..7 : /\ k <= Day(now)
                                 /\ WeekdayIndex(Day(now) - k) = s.weekday
                                 /\ Candidate(s, now) - k * Slots <= now}
           k0 == IF i = 0 /\ c + t > now THEN 7 ELSE i
           a  == today - k0
<1>9. /\ k0 \in 0..7 /\ WeekdayIndex(today - k0) = w
      /\ c + t - k0 * Slots <= now
  BY <1>2, <1>3, <1>4, <1>5, <1>6, <1>7
<1>10. PreviousOccurrence(s, now) = c + t - k0 * Slots
  <2>1. k0 \in back
    BY <1>1, <1>3, <1>4, <1>8, <1>9
  <2>2. ASSUME NEW j \in back PROVE k0 <= j
    <3>1. j \in 0..7 /\ j \in {i, i + 7} /\ c + t - j * Slots <= now
      BY <1>1, <1>3, <1>4, <1>5, <1>8
    <3>2. 0 * Slots = 0
      BY <1>3
    <3> QED
      BY <1>3, <3>1, <3>2
  <2>3. PreviousOccurrence(s, now) =
            IF back = {} THEN None ELSE Candidate(s, now) - Min(back) * Slots
    BY <1>1 DEF PreviousOccurrence, PreviousWeekly
  <2>4. back \in SUBSET Nat
    OBVIOUS
  <2> HIDE DEF back, k0
  <2>5. Min(back) = k0
    BY <2>1, <2>2, <2>4, FirstProbe
  <2> QED
    BY <1>3, <1>8, <1>9, <2>1, <2>3, <2>5
<1>11. a \in Nat /\ WeekdayIndex(a) = w /\ a * Slots + t = c + t - k0 * Slots
  BY <1>3, <1>4, <1>6, <1>7, <1>9
<1>12. a * Slots + t <= now
  BY <1>9, <1>11
<1>13. ASSUME NEW d \in {x \in Nat : WeekdayIndex(x) = w}, a < d, d <= today
       PROVE  d * Slots + t > now
  <2>1. today - d \in 0..7 /\ today - (today - d) = d /\ today - d < k0
    BY <1>13, <1>5
  <2>2. today - d \in {i, i + 7}
    BY <1>5, <2>1
  <2>3. d = today /\ c + t > now
    BY <2>1, <2>2
  <2> QED
    BY <1>7, <2>3
<1> HIDE DEF back, k0, a
<1>14. a * Slots + t \in Nat /\ Day(a * Slots + t) = a /\ (a * Slots + t) % Slots = t
  BY <1>11, Join
<1>15. \A m \in (a * Slots + t + 1)..now :
           ~ (m % Slots = t /\ Day(m) \in {x \in Nat : WeekdayIndex(x) = w})
  BY <1>4, <1>11, <1>12, <1>13, Latest
<1>16. ASSUME NEW b \in Backends PROVE LatestFiring(b, s, a * Slots + t, now)
  <2>1. Fires(b, s, a * Slots + t)
    BY <1>1, <1>11, <1>14, WeeklyFires DEF s
  <2>2. ASSUME NEW m \in (a * Slots + t + 1)..now PROVE ~ Fires(b, s, m)
    <3>1. m \in Nat /\ Day(m) \in Nat
      BY <1>14, Split
    <3>2. Fires(b, s, m) <=> m % Slots = t /\ WeekdayIndex(Day(m)) = w
      BY <1>1, <3>1, WeeklyFires DEF s
    <3> QED
      BY <1>15, <3>1, <3>2
  <2> QED
    BY <2>1, <2>2 DEF LatestFiring
<1>17. PreviousOccurrence(s, now) = a * Slots + t
  BY <1>10, <1>11
<1> QED
  BY <1>1, <1>12, <1>14, <1>16, <1>17 DEF Agrees, IsCalendar, s

-----------------------------------------------------------------------------
(* The calendar.                                                           *)

Count == Len(Months)

\* A month has 28 to 31 days.
LEMMA MonthTypes == Count \in Nat /\ \A m \in 1..Count : Months[m] \in 28..31
  BY ConstantsAssumption DEF Count

\* What f must be to be StartOf for the first k months.
Starts(f, k) == f = [m \in 1..(k + 1) |-> IF m = 1 THEN 0 ELSE f[m - 1] + Months[m - 1]]

\* There is such a function.
LEMMA StartsExist == \E f : Starts(f, Count)
<1> DEFINE T == {k \in Nat : \E f : Starts(f, k)}
<1>1. 0 \in T
  <2>1. Starts([m \in 1..1 |-> 0], 0)
    BY DEF Starts
  <2> QED
    BY <2>1
<1>2. ASSUME NEW k \in T PROVE k + 1 \in T
  <2>1. k \in Nat
    OBVIOUS
  <2>2. PICK f : Starts(f, k)
    BY <1>2
  <2> DEFINE g == [m \in 1..(k + 2) |-> IF m = 1 THEN 0 ELSE f[m - 1] + Months[m - 1]]
  <2>3. \A m \in 1..(k + 1) : g[m] = f[m]
    BY <2>1, <2>2 DEF Starts
  <2>4. ASSUME NEW m \in 1..(k + 2) PROVE g[m] = IF m = 1 THEN 0 ELSE g[m - 1] + Months[m - 1]
    <3>1. CASE m = 1
      BY <3>1
    <3>2. CASE m # 1
      <4>1. m - 1 \in 1..(k + 1)
        BY <2>1, <3>2
      <4>2. g[m] = f[m - 1] + Months[m - 1]
        BY <3>2
      <4> QED
        BY <2>3, <3>2, <4>1, <4>2
    <3> QED
      BY <3>1, <3>2
  <2>5. g = [m \in 1..(k + 2) |-> g[m]]
    OBVIOUS
  <2> HIDE DEF g
  <2>6. g = [m \in 1..(k + 2) |-> IF m = 1 THEN 0 ELSE g[m - 1] + Months[m - 1]]
    BY <2>4, <2>5
  <2>7. Starts(g, k + 1)
    BY <2>1, <2>6 DEF Starts
  <2> QED
    BY <2>1, <2>7
<1> HIDE DEF T
<1>3. Count \in T
  BY <1>1, <1>2, Induction, MonthTypes DEF T
<1> QED
  BY <1>3 DEF T

\* StartOf is what its definition says.
LEMMA StartFacts ==
    /\ StartOf[1] = 0
    /\ \A m \in 1..Count : StartOf[m + 1] = StartOf[m] + Months[m]
    /\ \A m \in 1..(Count + 1) : StartOf[m] \in Nat
<1>1. PICK f : Starts(f, Count)
  BY StartsExist
<1>2. StartOf = CHOOSE g : Starts(g, Count)
  BY DEF StartOf, Count, Starts
<1>3. Starts(StartOf, Count)
  BY <1>1, <1>2
<1>4. \A m \in 1..(Count + 1) : StartOf[m] = IF m = 1 THEN 0 ELSE StartOf[m - 1] + Months[m - 1]
  BY <1>3 DEF Starts
<1>5. \A m \in 1..Count : StartOf[m + 1] = StartOf[m] + Months[m]
  <2> TAKE m \in 1..Count
  <2>1. m + 1 \in 1..(Count + 1) /\ m + 1 # 1 /\ (m + 1) - 1 = m
    BY MonthTypes
  <2>2. StartOf[m + 1] = StartOf[(m + 1) - 1] + Months[(m + 1) - 1]
    BY <1>4, <2>1
  <2> QED
    BY <2>1, <2>2
<1>6. StartOf[1] = 0
  BY <1>4, MonthTypes
<1> DEFINE T == {k \in Nat : k <= Count => StartOf[k + 1] \in Nat}
<1>7. ASSUME NEW k \in T PROVE k + 1 \in T
  <2> SUFFICES ASSUME k + 1 <= Count PROVE StartOf[(k + 1) + 1] \in Nat
    BY <1>7
  <2>1. k + 1 \in 1..Count /\ StartOf[k + 1] \in Nat
    BY <1>7, MonthTypes
  <2> QED
    BY <1>5, <2>1, MonthTypes
<1>8. 0 \in T
  BY <1>6
<1> HIDE DEF T
<1>9. \A k \in Nat : k \in T
  BY <1>7, <1>8, Induction DEF T
<1>10. ASSUME NEW m \in 1..(Count + 1) PROVE StartOf[m] \in Nat
  <2>1. m - 1 \in Nat /\ m - 1 <= Count /\ (m - 1) + 1 = m
    BY MonthTypes
  <2> QED
    BY <1>9, <2>1 DEF T
<1> QED
  BY <1>5, <1>6, <1>10

\* Months follow each other.
LEMMA StartsGrow ==
    ASSUME NEW i \in 1..Count, NEW j \in 1..(Count + 1), i < j PROVE StartOf[i + 1] <= StartOf[j]
<1> DEFINE T == {k \in Nat : i + 1 + k <= Count + 1 => StartOf[i + 1] <= StartOf[i + 1 + k]}
<1>1. 0 \in T
  BY StartFacts, MonthTypes
<1>2. ASSUME NEW k \in T PROVE k + 1 \in T
  <2> SUFFICES ASSUME i + 1 + (k + 1) <= Count + 1 PROVE StartOf[i + 1] <= StartOf[i + 1 + (k + 1)]
    BY <1>2
  <2>1. /\ i + 1 + k \in 1..Count /\ i + 1 \in 1..(Count + 1) /\ i + 1 + (k + 1) = (i + 1 + k) + 1
        /\ StartOf[i + 1] <= StartOf[i + 1 + k]
    BY <1>2, MonthTypes
  <2> QED
    BY <2>1, StartFacts, MonthTypes
<1> HIDE DEF T
<1>3. \A k \in Nat : k \in T
  BY <1>1, <1>2, Induction DEF T
<1>4. j - (i + 1) \in Nat /\ i + 1 + (j - (i + 1)) = j
  BY MonthTypes
<1> QED
  BY <1>3, <1>4, MonthTypes DEF T

\* Days of the calendar.
Days == 0..(StartOf[Count + 1] - 1)

\* Every day is in one month.
LEMMA InMonth ==
    ASSUME NEW d \in Days
    PROVE  /\ MonthOfDay[d] \in 1..Count
           /\ StartOf[MonthOfDay[d]] <= d /\ d < StartOf[MonthOfDay[d] + 1]
<1> DEFINE T == {k \in 1..Count : d < StartOf[k + 1]}
<1>1. d \in Nat /\ d < StartOf[Count + 1]
  BY StartFacts, MonthTypes DEF Days
<1>2. Count # 0
  BY <1>1, StartFacts
<1>3. T \in SUBSET Nat /\ Count \in T
  BY <1>1, <1>2, MonthTypes
<1>4. PICK m \in T : \A k \in T : m <= k
  BY <1>3, Least
<1>5. StartOf[m] <= d
  <2>1. CASE m = 1
    BY <1>1, <2>1, StartFacts
  <2>2. CASE m # 1
    <3>1. m - 1 \in 1..Count /\ m - 1 \notin T /\ (m - 1) + 1 = m
      BY <1>4, <2>2, MonthTypes
    <3> QED
      BY <1>1, <3>1, StartFacts, MonthTypes
  <2> QED
    BY <2>1, <2>2
<1>6. MonthOfDay[d] = CHOOSE k \in 1..Count : StartOf[k] <= d /\ d < StartOf[k + 1]
  BY DEF MonthOfDay, Days, Count
<1> QED
  BY <1>4, <1>5, <1>6

\* And in no other.
LEMMA OneMonth ==
    ASSUME NEW d \in Nat, NEW m \in 1..Count, StartOf[m] <= d, d < StartOf[m + 1]
    PROVE  d \in Days /\ MonthOfDay[d] = m
<1>0. /\ m + 1 \in 1..(Count + 1)
      /\ StartOf[m] \in Nat /\ StartOf[m + 1] \in Nat /\ StartOf[Count + 1] \in Nat
  BY StartFacts, MonthTypes
<1>1. StartOf[m + 1] <= StartOf[Count + 1]
  BY <1>0, StartsGrow, MonthTypes
<1>2. d \in Days
  BY <1>0, <1>1 DEF Days
<1>3. PICK k \in 1..Count : k = MonthOfDay[d] /\ StartOf[k] <= d /\ d < StartOf[k + 1]
  BY <1>2, InMonth
<1>4. k + 1 \in 1..(Count + 1) /\ StartOf[k] \in Nat /\ StartOf[k + 1] \in Nat
  BY StartFacts, MonthTypes
<1>5. ~ (k < m)
  BY <1>0, <1>3, <1>4, StartsGrow, MonthTypes
<1>6. ~ (m < k)
  BY <1>0, <1>3, <1>4, StartsGrow, MonthTypes
<1> QED
  BY <1>2, <1>3, <1>5, <1>6, MonthTypes

-----------------------------------------------------------------------------
(* Monthly schedules.                                                      *)

Monthly(d, t) == [kind |-> "monthly", weekday |-> None, day |-> d, time |-> t]

\* Both backends start a monthly task at its time, on its day of the month.
LEMMA MonthlyFires ==
    ASSUME NEW d \in 1..31, NEW t \in Time, NEW b \in Backends, NEW m \in Nat
    PROVE  Fires(b, Monthly(d, t), m) <=> m % Slots = t /\ DayOfMonth(m) = d
  BY DEF Fires, Backends, IsCalendar, SystemdMatches, ToSystemd, LaunchdMatches, ToLaunchd,
         None, Monthly

\* A moment between two midnights lies on a day between them.
LEMMA Between ==
    ASSUME NEW m \in Nat, NEW a \in Nat, NEW b \in Nat, a * Slots <= m, m < b * Slots
    PROVE  a <= Day(m) /\ Day(m) < b
<1>1. Day(m) \in Nat /\ m % Slots \in Time /\ m = Day(m) * Slots + (m % Slots)
  BY Split
<1>2. Slots \in Nat /\ m % Slots \in Nat /\ m % Slots < Slots
  BY <1>1, ConstantsAssumption DEF Time
<1>3. Day(m) * Slots \in Nat /\ a * Slots \in Nat /\ b * Slots \in Nat
  BY <1>1, <1>2
<1>4. ~ (Day(m) < a)
  BY <1>1, <1>2, <1>3, LaterDay
<1>5. ~ (b < Day(m)) /\ b # Day(m)
  BY <1>1, <1>2, <1>3, LaterDay
<1> QED
  BY <1>1, <1>4, <1>5

\* The moment at time t of day d of month k.
At(k, d, t) == (StartOf[k] + d - 1) * Slots + t

\* It is one of that month, day and time.
LEMMA AtMoment ==
    ASSUME NEW k \in 1..Count, NEW d \in 1..Months[k], NEW t \in Time
    PROVE  /\ At(k, d, t) \in Nat /\ At(k, d, t) % Slots = t
           /\ Day(At(k, d, t)) = StartOf[k] + d - 1
           /\ MonthOf(At(k, d, t)) = k /\ DayOfMonth(At(k, d, t)) = d
<1>1. StartOf[k] \in Nat /\ d \in Nat /\ d >= 1 /\ StartOf[k + 1] = StartOf[k] + Months[k]
  BY StartFacts, MonthTypes
<1>2. PICK day \in Nat : day = StartOf[k] + d - 1
  BY <1>1
<1>3. StartOf[k] <= day /\ day < StartOf[k + 1]
  BY <1>1, <1>2, MonthTypes
<1>4. MonthOfDay[day] = k
  BY <1>3, OneMonth
<1>5. At(k, d, t) = day * Slots + t
  BY <1>2 DEF At
<1>6. At(k, d, t) \in Nat /\ At(k, d, t) % Slots = t /\ Day(At(k, d, t)) = day
  BY <1>5, Join
<1> QED
  BY <1>1, <1>2, <1>4, <1>6 DEF MonthOf, DayOfMonth

\* And the only one.
LEMMA OnlyAt ==
    ASSUME NEW m \in Nat, Day(m) \in Days, NEW d \in 1..31, DayOfMonth(m) = d
    PROVE  /\ MonthOf(m) \in 1..Count /\ d \in 1..Months[MonthOf(m)]
           /\ m = At(MonthOf(m), d, m % Slots)
<1>1. PICK k \in 1..Count : /\ k = MonthOf(m) /\ StartOf[k] <= Day(m) /\ Day(m) < StartOf[k + 1]
  BY InMonth DEF MonthOf
<1>2. Day(m) \in Nat /\ m = Day(m) * Slots + (m % Slots)
  BY Split
<1>3. StartOf[k] \in Nat /\ StartOf[k + 1] = StartOf[k] + Months[k] /\ Months[k] \in Nat
  BY StartFacts, MonthTypes
<1>4. Day(m) = StartOf[k] + d - 1
  BY <1>1, <1>2, <1>3 DEF DayOfMonth
<1> QED
  BY <1>1, <1>2, <1>3, <1>4 DEF At

\* Later months have later moments.
LEMMA LaterMonth ==
    ASSUME NEW k \in 1..Count, NEW l \in 1..Count, k < l, NEW d \in 1..Months[k], NEW t \in Time,
           NEW e \in Nat, e >= 1
    PROVE  At(k, d, t) < At(l, e, t)
<1>1. StartOf[k + 1] <= StartOf[l]
  BY StartsGrow, MonthTypes
<1>2. /\ StartOf[k] \in Nat /\ StartOf[l] \in Nat /\ Months[k] \in Nat
      /\ StartOf[k + 1] = StartOf[k] + Months[k]
  BY StartFacts, MonthTypes
<1>3. PICK a \in Nat, b \in Nat : a = StartOf[k] + d - 1 /\ b = StartOf[l] + e - 1
  BY <1>2
<1>4. a < b
  BY <1>1, <1>2, <1>3
<1>5. a * Slots + Slots <= b * Slots
  BY <1>4, LaterDay
<1>6. Slots \in Nat /\ Slots > 0 /\ t \in Nat /\ a * Slots \in Nat /\ b * Slots \in Nat
  BY ConstantsAssumption DEF Time
<1> QED
  BY <1>3, <1>5, <1>6 DEF At

\* The moments at which occurrences are asked for are of the calendar.
LEMMA InCalendar ==
    ASSUME NEW now \in Moments
    PROVE  /\ now \in Nat /\ Day(now) \in Days
           /\ MonthOf(now) \in First..Count
           /\ StartOf[MonthOf(now)] <= Day(now)
           /\ Day(now) >= StartOf[First] /\ StartOf[First] >= 7
<1>1. First \in 3..Count /\ Slots \in Nat
  BY ConstantsAssumption DEF Count
<1>2. StartOf[First] \in Nat /\ StartOf[Count + 1] \in Nat
  BY <1>1, StartFacts, MonthTypes
<1>3. now \in Nat /\ StartOf[First] * Slots <= now /\ now < StartOf[Count + 1] * Slots
  <2>1. StartOf[First] * Slots \in Nat /\ StartOf[Count + 1] * Slots \in Nat
    BY <1>1, <1>2
  <2> QED
    BY <2>1 DEF Moments, Count
<1>4. StartOf[First] <= Day(now) /\ Day(now) < StartOf[Count + 1]
  BY <1>2, <1>3, Between
<1>5. Day(now) \in Nat
  BY <1>3, Split
<1>6. Day(now) \in Days
  BY <1>2, <1>4, <1>5 DEF Days
<1>7. PICK k \in 1..Count : k = MonthOf(now) /\ StartOf[k] <= Day(now) /\ Day(now) < StartOf[k + 1]
  BY <1>6, InMonth DEF MonthOf
<1>8. ~ (k < First)
  <2> SUFFICES ASSUME k < First PROVE FALSE
    OBVIOUS
  <2>1. StartOf[k + 1] <= StartOf[First]
    BY <1>1, StartsGrow, MonthTypes
  <2>2. StartOf[k + 1] \in Nat
    BY StartFacts, MonthTypes
  <2> QED
    BY <1>2, <1>4, <1>5, <1>7, <2>1, <2>2
<1>9. StartOf[First] >= 7
  <2>1. StartOf[2] <= StartOf[First]
    BY <1>1, StartsGrow, MonthTypes
  <2>2. StartOf[2] = Months[1] /\ Months[1] >= 28 /\ Months[1] \in Nat
    BY <1>1, StartFacts, MonthTypes
  <2> QED
    BY <1>2, <2>1, <2>2
<1> QED
  BY <1>1, <1>3, <1>4, <1>6, <1>7, <1>8, <1>9, MonthTypes

\* previous_occurrence of a monthly schedule is the latest moment at which both
\* schedulers start the task: the loop over the months skips those without the
\* day, always finds a month that has it, and finds the newest.
THEOREM MonthlyAgrees ==
    ASSUME NEW d \in 1..31, NEW t \in Time, NEW now \in Moments
    PROVE  Agrees(Monthly(d, t), now)
<1> DEFINE s == Monthly(d, t)
<1>1. s.kind = "monthly" /\ s.day = d /\ s.time = t
  BY DEF Monthly
<1> HIDE DEF s
<1>2. PICK k \in First..Count : k = MonthOf(now) /\ StartOf[k] <= Day(now)
  BY InCalendar
<1>3. now \in Nat /\ Day(now) \in Days /\ Day(now) \in Nat
  BY InCalendar, Split
<1>4. k \in 1..Count /\ k >= 3 /\ First \in Nat
  BY <1>2, ConstantsAssumption, MonthTypes DEF Count
<1>5. \A l \in 1..Count : Dated(s, l) = IF d <= Months[l] THEN At(l, d, t) ELSE None
  BY <1>1 DEF Dated, At
<1>6. \A l \in 1..Count : d <= Months[l] => At(l, d, t) \in Nat
  BY AtMoment, MonthTypes
<1> DEFINE Good(l) == d <= Months[l] /\ At(l, d, t) <= now
           back == {j \in 0..13 : /\ j < MonthOf(now)
                                  /\ Dated(s, MonthOf(now) - j) # None
                                  /\ Dated(s, MonthOf(now) - j) <= now}
<1>7. \A j \in 0..13 : j \in back <=> j < k /\ Good(k - j)
  <2> TAKE j \in 0..13
  <2>1. CASE ~ (j < k)
    BY <1>2, <2>1
  <2>2. CASE j < k
    <3>1. k - j \in 1..Count
      BY <1>4, <2>2, MonthTypes
    <3> QED
      BY <1>2, <1>5, <1>6, <2>2, <3>1 DEF None
  <2> QED
    BY <2>1, <2>2
<1>8. ASSUME NEW l \in 1..Count, l < k, d <= Months[l] PROVE Good(l)
  <2>1. At(l, d, t) \in Nat /\ Day(At(l, d, t)) = StartOf[l] + d - 1
    BY <1>8, AtMoment, MonthTypes
  <2>2. /\ StartOf[l] \in Nat /\ StartOf[l + 1] = StartOf[l] + Months[l] /\ StartOf[k] \in Nat
        /\ Months[l] \in Nat
    BY <1>4, StartFacts, MonthTypes
  <2>3. StartOf[l + 1] <= StartOf[k]
    BY <1>4, <1>8, StartsGrow, MonthTypes
  <2>4. PICK a \in Nat : a = StartOf[l] + d - 1 /\ a < Day(now)
    BY <1>2, <1>3, <1>8, <2>2, <2>3
  <2>5. a * Slots + Slots <= Day(now) * Slots
    BY <1>3, <2>4, LaterDay
  <2>6. now = Day(now) * Slots + (now % Slots) /\ now % Slots \in Nat
    BY <1>3, Split DEF Time
  <2>7. Slots \in Nat /\ t \in Nat /\ t < Slots /\ a * Slots \in Nat /\ Day(now) * Slots \in Nat
    BY <1>3, ConstantsAssumption DEF Time
  <2>8. At(l, d, t) = a * Slots + t
    BY <2>4 DEF At
  <2> QED
    BY <1>8, <2>5, <2>6, <2>7, <2>8
<1>9. back # {}
  <2>1. k - 1 \in 1..Count /\ k - 2 \in 1..Count /\ k - 1 < k /\ k - 2 < k
    BY <1>4, MonthTypes
  <2>2. 31 \in {Months[k - 2], Months[k - 1]}
    <3>1. k - 2 \in 1..(Count - 1) /\ (k - 2) + 1 = k - 1
      BY <1>4, MonthTypes
    <3> QED
      BY <3>1, ConstantsAssumption DEF Count
  <2>3. Good(k - 1) \/ Good(k - 2)
    BY <1>8, <2>1, <2>2
  <2> QED
    BY <1>4, <1>7, <2>3
<1> HIDE DEF Good
<1>10. back \in SUBSET Nat
  OBVIOUS
<1>11. PICK j \in back : \A i \in back : j <= i
  BY <1>9, <1>10, Least
<1>12. Min(back) = j
  BY <1>10, <1>11, FirstProbe
<1>13. PICK l \in 1..Count : l = k - j /\ Good(l)
  BY <1>4, <1>7, <1>11, MonthTypes
<1>14. PreviousOccurrence(s, now) = IF back = {} THEN None ELSE Dated(s, MonthOf(now) - Min(back))
  BY <1>1 DEF PreviousOccurrence, PreviousMonthly
<1>15. PreviousOccurrence(s, now) = At(l, d, t)
  BY <1>2, <1>5, <1>9, <1>12, <1>13, <1>14 DEF Good
<1>16. At(l, d, t) \in 0..now /\ d \in 1..Months[l]
  BY <1>3, <1>6, <1>13, MonthTypes DEF Good
<1>17. ASSUME NEW m \in (At(l, d, t) + 1)..now, m % Slots = t, DayOfMonth(m) = d PROVE FALSE
  <2>1. m \in Nat /\ m <= now /\ m > At(l, d, t) /\ At(l, d, t) \in Nat
    BY <1>16
  <2>2. Day(m) <= Day(now) /\ Day(m) \in Nat
    <3>1. now = Day(now) * Slots + (now % Slots) /\ now % Slots \in Nat /\ now % Slots < Slots
      BY <1>3, Split, ConstantsAssumption DEF Time
    <3>2. /\ (Day(now) + 1) * Slots = Day(now) * Slots + Slots
          /\ Day(now) * Slots \in Nat /\ Slots \in Nat
      BY <1>3, ConstantsAssumption
    <3>3. 0 * Slots <= m /\ m < (Day(now) + 1) * Slots
      BY <1>3, <2>1, <3>1, <3>2
    <3>4. Day(m) < Day(now) + 1
      BY <1>3, <2>1, <3>3, Between
    <3>5. Day(m) \in Nat
      BY <2>1, Split
    <3> QED
      BY <1>3, <3>4, <3>5
  <2>3. Day(m) \in Days
    BY <1>3, <2>2, StartFacts, MonthTypes DEF Days
  <2>4. PICK i \in 1..Count : i = MonthOf(m) /\ d \in 1..Months[i] /\ m = At(i, d, t)
    BY <1>17, <2>1, <2>3, OnlyAt
  <2>5. i > l
    <3>1. ASSUME i < l PROVE FALSE
      BY <1>16, <2>1, <2>4, <3>1, LaterMonth
    <3> QED
      BY <2>1, <2>4, <3>1, MonthTypes
  <2>6. i <= k
    <3> SUFFICES ASSUME k < i PROVE FALSE
      BY <1>4, MonthTypes
    <3>1. StartOf[k + 1] <= StartOf[i]
      BY <1>4, StartsGrow, MonthTypes
    <3>2. StartOf[i] <= Day(m) /\ Day(now) < StartOf[k + 1]
      BY <1>2, <1>3, <2>3, <2>4, InMonth DEF MonthOf
    <3>3. StartOf[k + 1] \in Nat /\ StartOf[i] \in Nat
      BY <1>4, StartFacts, MonthTypes
    <3> QED
      BY <1>3, <2>2, <3>1, <3>2, <3>3
  <2>7. Good(i)
    BY <2>1, <2>4, MonthTypes DEF Good
  <2>8. k - i \in 0..13 /\ k - i < k /\ k - (k - i) = i /\ k - i < j
    BY <1>4, <1>11, <1>13, <2>5, <2>6, MonthTypes
  <2> HIDE DEF back
  <2> QED
    BY <1>7, <1>10, <1>11, <2>7, <2>8
<1>18. ASSUME NEW b \in Backends PROVE LatestFiring(b, s, At(l, d, t), now)
  <2>1. Fires(b, s, At(l, d, t))
    BY <1>16, AtMoment, MonthlyFires DEF s
  <2>2. ASSUME NEW m \in (At(l, d, t) + 1)..now PROVE ~ Fires(b, s, m)
    <3>1. m \in Nat
      BY <1>16
    <3> QED
      BY <1>17, <3>1, MonthlyFires DEF s
  <2> QED
    BY <2>1, <2>2 DEF LatestFiring
<1> QED
  BY <1>1, <1>15, <1>16, <1>18 DEF Agrees, IsCalendar, s

\* For every schedule that parse builds and every moment, previous_occurrence
\* is the latest moment at which both schedulers start the task, and None if
\* there is no calendar to ask (previous_occurrence, to_systemd, to_launchd).
THEOREM OccurrenceAgrees == \A s \in Schedules, now \in Moments : Agrees(s, now)
<1> TAKE s \in Schedules, now \in Moments
<1>1. now \in Nat /\ Day(now) >= 7 /\ Day(now) >= 1
  <2>1. Day(now) \in Nat
    BY InCalendar, Split
  <2>2. First \in 1..(Count + 1)
    BY ConstantsAssumption, MonthTypes DEF Count
  <2>3. StartOf[First] \in Nat
    BY <2>2, StartFacts
  <2> QED
    BY <2>1, <2>3, InCalendar
<1>2. CASE s.kind = "daily"
  <2>1. s.time \in Time /\ s = Daily(s.time)
    BY <1>2 DEF Schedules, Daily
  <2> QED
    BY <1>1, <2>1, DailyAgrees
<1>3. CASE s.kind = "weekly"
  <2>1. s.weekday \in 0..6 /\ s.time \in Time /\ s = Weekly(s.weekday, s.time)
    BY <1>3 DEF Schedules, Weekly
  <2> QED
    BY <1>1, <2>1, WeeklyAgrees
<1>4. CASE s.kind = "monthly"
  <2>1. s.day \in 1..31 /\ s.time \in Time /\ s = Monthly(s.day, s.time)
    BY <1>4 DEF Schedules, Monthly
  <2> QED
    BY <2>1, MonthlyAgrees
<1>5. CASE s.kind = "interval"
  BY <1>5 DEF Agrees, IsCalendar, PreviousOccurrence
<1> QED
  BY <1>2, <1>3, <1>4, <1>5 DEF Schedules

\* The inputs of the run are among those.
THEOREM OccurrenceAlways == Spec => []OccurrenceIsFiring
<1>1. Init => OccurrenceIsFiring
  BY OccurrenceAgrees DEF Init, OccurrenceIsFiring
<1>2. OccurrenceIsFiring /\ [Next]_vars => OccurrenceIsFiring'
  BY DEF OccurrenceIsFiring, Next, vars
<1> QED
  BY <1>1, <1>2, PTL DEF Spec
=============================================================================
