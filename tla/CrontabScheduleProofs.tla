----------------------- MODULE CrontabScheduleProofs -----------------------
(***************************************************************************)
(* Theorems about CrontabSchedule for every calendar and every crontab.    *)
(***************************************************************************)
EXTENDS CrontabSchedule, WellFoundedInduction, TLAPS

-----------------------------------------------------------------------------
(***************************************************************************)
(* A field: what accumulate, Next and GetFirst do.                         *)
(***************************************************************************)
FieldOf(impl) == [bits : SUBSET (impl.min .. impl.max),
                  minValueSet : Nat, maxValueSet : Int]

LEMMA LeastMember ==
    ASSUME NEW S \in SUBSET Nat, S # {}
    PROVE  LET least == CHOOSE i \in S : \A j \in S : i <= j
           IN  least \in S /\ \A j \in S : least <= j
<1>1. PICK i \in S : \A j \in S : <<j, i>> \notin OpToRel(<, Nat)
  BY NatLessThanWellFounded, WFMin
<1>2. \A j \in S : i <= j
  <2>1. SUFFICES ASSUME NEW j \in S, j < i PROVE FALSE
    OBVIOUS
  <2>2. <<j, i>> \in OpToRel(<, Nat)
    BY <2>1 DEF OpToRel
  <2>3. QED
    BY <1>1, <2>2
<1>3. QED
  BY <1>2

LEMMA Remainder ==
    ASSUME NEW m \in Nat, NEW k \in Nat \ {0}, m % k = 0, NEW d \in 0 .. k - 1
    PROVE  (m + d) % k = d
OBVIOUS

LEMMA NoMultipleBetween ==
    ASSUME NEW m \in Nat, NEW k \in Nat \ {0}, m % k = 0,
           NEW n \in m + 1 .. m + k - 1
    PROVE  n % k # 0
<1>1. PICK d \in 0 .. k - 1 : n = m + d /\ d # 0
  <2>1. n - m \in 0 .. k - 1 /\ n = m + (n - m) /\ n - m # 0
    OBVIOUS
  <2>2. QED
    BY <2>1, Zenon
<1>2. (m + d) % k = d
  BY Remainder
<1>3. n % k = d
  BY <1>1, <1>2, Zenon
<1>4. QED
  BY <1>1, <1>3

LEMMA NoMultipleAfter ==
    ASSUME NEW a \in Nat, NEW k \in Nat \ {0}, NEW r \in 0 .. k - 1, r <= a,
           (a - r) % k = 0, NEW n \in 0 .. a, n % k = 0
    PROVE  n <= a - r
<1>1. a - r \in Nat
  OBVIOUS
<1>2. n > a - r => n \in (a - r) + 1 .. (a - r) + k - 1
  OBVIOUS
<1>3. ~(n > a - r)
  BY <1>1, <1>2, NoMultipleBetween
<1>4. QED
  BY <1>1, <1>3

LEMMA RemainderTaken ==
    ASSUME NEW a \in Nat, NEW k \in Nat \ {0}, NEW r \in Nat, r = a % k
    PROVE  (a - r) % k = 0
OBVIOUS

\* The last multiple of k up to a.
LEMMA LastMultiple ==
    ASSUME NEW a \in Nat, NEW k \in Nat \ {0}
    PROVE  \E r \in 0 .. a :
              /\ r = a % k
              /\ (a - r) % k = 0
              /\ \A n \in 0 .. a : n % k = 0 => n <= a - r
<1>1. a % k \in 0 .. k - 1
  OBVIOUS
<1>2. a % k <= a
  OBVIOUS
<1>3. PICK r \in 0 .. k - 1 : r = a % k
  BY <1>1
<1>4. r \in Nat /\ r <= a
  BY <1>1, <1>2, <1>3
<1>5. (a - r) % k = 0
  BY <1>3, <1>4, RemainderTaken
<1>6. \A n \in 0 .. a : n % k = 0 => n <= a - r
  BY <1>4, <1>5, NoMultipleAfter
<1>7. QED
  BY <1>3, <1>4, <1>5, <1>6

\* The ends accumulate works with are in order, and within the range unless
\* the term is rejected.
LEMMA AcceptedEnds ==
    ASSUME NEW impl, impl.min \in Nat, impl.max \in Nat, impl.min <= impl.max,
           NEW term \in Term, ~Rejected(impl, term)
    PROVE  /\ Lower(impl, term) \in impl.min .. impl.max
           /\ Upper(impl, term) \in impl.min .. impl.max
           /\ Lower(impl, term) <= Upper(impl, term)
           /\ Interval(term) \in Nat \ {0}
<1>1. term.form # "bad"
  BY DEF Rejected
<1>2. /\ \/ Start(term) = -1 /\ End(impl, term) = -1
         \/ Start(term) \in Nat /\ End(impl, term) \in Nat
      /\ Interval(term) \in Nat \ {0}
  BY <1>1, IntAssumption DEF Term, Start, End, Interval, nil
<1>3. QED
  BY <1>2 DEF Rejected, Lower, Upper

\* accumulate keeps the field coherent.
LEMMA AccumulateCoherent ==
    ASSUME NEW impl, impl.min \in Nat, impl.max \in Nat, impl.min <= impl.max,
           impl.max < IntMax,
           NEW term \in Term, ~Rejected(impl, term),
           NEW f \in FieldOf(impl), f = EmptyField \/ Coherent(f)
    PROVE  /\ Accumulate(f, impl, term) \in FieldOf(impl)
           /\ Coherent(Accumulate(f, impl, term))
<1> DEFINE lower == Lower(impl, term)
           upper == Upper(impl, term)
           k     == Interval(term)
           last  == LastStep(impl, term)
           steps == Steps(impl, term)
           g     == Accumulate(f, impl, term)
<1>1. /\ lower \in impl.min .. impl.max
      /\ upper \in impl.min .. impl.max
      /\ lower <= upper /\ k \in Nat \ {0}
  BY AcceptedEnds
<1>2. /\ last = upper - ((upper - lower) % k)
      /\ steps = {i \in lower .. upper : (i - lower) % k = 0}
  BY DEF LastStep, Steps
<1>3. /\ g.bits = f.bits \cup steps
      /\ g.minValueSet = IF f.minValueSet > lower THEN lower ELSE f.minValueSet
      /\ g.maxValueSet = IF f.maxValueSet < last THEN last ELSE f.maxValueSet
      /\ g = [bits |-> g.bits, minValueSet |-> g.minValueSet,
              maxValueSet |-> g.maxValueSet]
  BY DEF Accumulate
<1> HIDE DEF lower, upper, k, last, steps, g
<1>4. /\ lower \in steps
      /\ last \in steps
      /\ \A i \in steps : i \in Int /\ lower <= i /\ i <= last
  <2>0. PICK a \in Nat : a = upper - lower
    BY <1>1
  <2>1. PICK r \in 0 .. a : /\ r = a % k
                            /\ (a - r) % k = 0
                            /\ \A n \in 0 .. a : n % k = 0 => n <= a - r
    BY <1>1, LastMultiple
  <2>a. last = upper - r
    BY <1>2, <2>0, <2>1
  <2>2. /\ last \in lower .. upper
        /\ last - lower = a - r
    BY <1>1, <2>0, <2>a
  <2>3. last \in steps
    BY <1>1, <1>2, <2>1, <2>2
  <2>4. lower \in steps
    BY <1>1, <1>2
  <2>5. ASSUME NEW i \in steps PROVE i <= last
    <3>1. i - lower \in 0 .. a /\ (i - lower) % k = 0
      BY <1>1, <1>2, <2>0, <2>5
    <3>2. i - lower <= a - r
      BY <2>1, <3>1
    <3>3. QED
      BY <1>1, <1>2, <2>1, <2>2, <3>1, <3>2
  <2>6. QED
    BY <1>2, <2>3, <2>4, <2>5
<1>5. steps \subseteq impl.min .. impl.max
  BY <1>1, <1>2
<1>6. last \in impl.min .. impl.max
  BY <1>4, <1>5
<1>7. /\ f.bits \subseteq impl.min .. impl.max
      /\ f.minValueSet \in Nat /\ f.maxValueSet \in Int
  BY DEF FieldOf
<1>8. g \in FieldOf(impl)
  BY <1>1, <1>3, <1>5, <1>6, <1>7 DEF FieldOf
<1>9. Coherent(g)
  <2>1. CASE f = EmptyField
    BY <1>1, <1>3, <1>4, <1>6, <2>1, IntAssumption DEF EmptyField, Coherent, nil
  <2>2. CASE Coherent(f)
    BY <1>1, <1>3, <1>4, <1>6, <1>7, <2>2 DEF Coherent
  <2>3. QED
    BY <2>1, <2>2
<1>10. QED
  BY <1>8, <1>9 DEF g

\* Next finds the least value from start on, or that there is none.
LEMMA NextValue ==
    ASSUME NEW f, f.bits \in SUBSET Nat, Coherent(f), NEW start \in Nat
    PROVE  \/ /\ Next(f, start) = nil
              /\ \A i \in f.bits : i < start
           \/ /\ Next(f, start) \in f.bits
              /\ Next(f, start) # nil
              /\ start <= Next(f, start)
              /\ \A i \in f.bits : i < start \/ Next(f, start) <= i
<1> DEFINE later == {i \in f.bits : start <= i /\ i <= f.maxValueSet}
<1>1. /\ f.minValueSet \in Nat /\ f.minValueSet \in f.bits
      /\ \A i \in f.bits : f.minValueSet <= i /\ i <= f.maxValueSet
  BY DEF Coherent
<1>2. \A i \in f.bits : i \in Nat /\ i # nil
  BY DEF nil
<1>3. CASE start < f.minValueSet
  BY <1>1, <1>2, <1>3 DEF Next
<1>4. CASE ~(start < f.minValueSet) /\ later = {}
  BY <1>1, <1>2, <1>4 DEF Next
<1>5. CASE ~(start < f.minValueSet) /\ later # {}
  <2> DEFINE least == CHOOSE i \in later : \A j \in later : i <= j
  <2>1. least \in later /\ \A j \in later : least <= j
    BY <1>5, LeastMember
  <2>2. Next(f, start) = least
    BY <1>5 DEF Next
  <2> HIDE DEF least
  <2>3. QED
    BY <1>1, <1>2, <2>1, <2>2
<1>6. QED
  BY <1>3, <1>4, <1>5

LEMMA FirstValue ==
    ASSUME NEW f, f.bits \in SUBSET Nat, \A i \in f.bits : i < IntMax,
           Coherent(f)
    PROVE  /\ GetFirst(f) \in f.bits
           /\ \A i \in f.bits : GetFirst(f) <= i
BY DEF GetFirst, Coherent

-----------------------------------------------------------------------------
(***************************************************************************)
(* Parsing.                                                                *)
(***************************************************************************)
Sections == {"parsed", "minute", "hour", "day", "month", "check", "answered",
             "thrown"}

Earlier == [k \in Kinds |->
              CASE k = "minute"    -> {}
                [] k = "hour"      -> {"minute"}
                [] k = "day"       -> {"minute", "hour"}
                [] k = "month"     -> {"minute", "hour", "day"}
                [] k = "dayOfWeek" -> {"minute", "hour", "day", "month"}]

\* The fields up to the one being parsed have values; those parsed are
\* coherent.
ParseInv ==
    /\ pc \in Sections \cup {"parse", "rejected"}
    /\ kind \in Kinds
    /\ DOMAIN fields = Kinds
    /\ \A k \in Kinds : fields[k] \in FieldOf(Impl[k])
    /\ fields = [k \in Kinds |-> fields[k]]
    /\ \A k \in Kinds : \/ fields[k] = EmptyField
                        \/ fields[k].bits # {} /\ Coherent(fields[k])
    /\ \A k \in Earlier[kind] : fields[k].bits # {}
    /\ pc \in Sections => \A k \in Kinds : fields[k].bits # {}

LEMMA ImplRange ==
    ASSUME NEW k \in Kinds
    PROVE  /\ Impl[k].min \in Nat /\ Impl[k].max \in Nat
           /\ Impl[k].min <= Impl[k].max /\ Impl[k].max < IntMax
<1> USE CalendarAssumption, IntAssumption DEF Kinds, Impl
<1>1. CASE k = "minute"
  BY <1>1
<1>2. CASE k = "hour"
  BY <1>2
<1>3. CASE k = "day"
  BY <1>3
<1>4. CASE k = "month"
  BY <1>4
<1>5. CASE k = "dayOfWeek"
  BY <1>5
<1>6. QED
  BY <1>1, <1>2, <1>3, <1>4, <1>5

LEMMA ParseInit == Init => ParseInv
<1> SUFFICES ASSUME Init PROVE ParseInv
  OBVIOUS
<1>1. \A k \in Kinds : EmptyField \in FieldOf(Impl[k])
  BY IntAssumption DEF EmptyField, FieldOf, nil
<1>2. Earlier["minute"] = {}
  BY DEF Earlier, Kinds
<1>3. QED
  BY <1>1, <1>2 DEF Init, ParseInv, Sections, Kinds

LEMMA ParseNext == ParseInv /\ [NextStep]_vars => ParseInv'
<1> SUFFICES ASSUME ParseInv, [NextStep]_vars PROVE ParseInv'
  OBVIOUS
<1>1. ASSUME NEW term \in Term, ReadTerm(term) PROVE ParseInv'
  <2>1. CASE Rejected(Impl[kind], term)
    BY <1>1, <2>1 DEF ReadTerm, ParseInv, Sections
  <2>2. CASE ~Rejected(Impl[kind], term)
    <3> DEFINE g == Accumulate(fields[kind], Impl[kind], term)
    <3>1. /\ fields' = [fields EXCEPT ![kind] = g]
          /\ UNCHANGED <<pc, kind>> /\ pc = "parse"
      BY <1>1, <2>2 DEF ReadTerm
    <3>2. g \in FieldOf(Impl[kind]) /\ Coherent(g)
      BY <2>2, ImplRange, AccumulateCoherent DEF ParseInv
    <3> HIDE DEF g
    <3>3. g.bits # {}
      BY <3>2 DEF Coherent
    <3>4. QED
      BY <3>1, <3>2, <3>3 DEF ParseInv, Sections
  <2>3. QED
    BY <2>1, <2>2
<1>2. CASE NextField
  <2>1. /\ pc = "parse" /\ fields' = fields
        /\ fields[kind].bits # {}
    BY <1>2 DEF NextField
  <2>2. CASE kind = "dayOfWeek"
    <3>1. pc' = "parsed" /\ kind' = kind
      BY <1>2, <2>2 DEF NextField
    <3>2. Kinds = Earlier[kind] \cup {kind}
      BY <2>2 DEF Earlier, Kinds
    <3>3. QED
      BY <2>1, <3>1, <3>2 DEF ParseInv, Sections
  <2>3. CASE kind # "dayOfWeek"
    <3>1. pc' = "parse" /\ kind' = FieldAfter[kind]
      BY <1>2, <2>1, <2>3 DEF NextField
    <3>2. /\ FieldAfter[kind] \in Kinds
          /\ Earlier[FieldAfter[kind]] = Earlier[kind] \cup {kind}
      BY <2>3 DEF ParseInv, Kinds, FieldAfter, Earlier
    <3>3. QED
      BY <2>1, <3>1, <3>2 DEF ParseInv, Sections
  <2>4. QED
    BY <2>2, <2>3
<1>3. ASSUME NEW t \in DateTimes, GetNextOccurrence(t) PROVE ParseInv'
  BY <1>3 DEF GetNextOccurrence, ParseInv, Sections
<1>4. CASE Search
  BY <1>4 DEF Search, SearchMinute, SearchHour, SearchDay, SearchMonth,
     BeyondCalendar, RetryDayMonth, OtherWeekday, Return, ParseInv, Sections
<1>5. CASE UNCHANGED vars
  BY <1>5 DEF vars, ParseInv
<1>6. QED
  BY <1>1, <1>2, <1>3, <1>4, <1>5 DEF NextStep

LEMMA ParseCorrect == Spec => []ParseInv
  BY ParseInit, ParseNext, PTL DEF Spec

\* Every crontab that is not rejected becomes five coherent fields.
THEOREM FieldsAreCoherent == Spec => []FieldsCoherent
<1>1. ParseInv => FieldsCoherent
  BY DEF ParseInv, FieldsCoherent, Sections, EmptyField
<1>2. QED
  BY <1>1, ParseCorrect, PTL

-----------------------------------------------------------------------------
(***************************************************************************)
(* The search.                                                             *)
(***************************************************************************)
\* What Next and GetFirst return for a parsed field.
LEMMA SearchedField ==
    ASSUME ParseInv, pc \in Sections, NEW k \in Kinds
    PROVE  /\ \A i \in fields[k].bits :
                 i \in Impl[k].min .. Impl[k].max /\ i \in Nat
           /\ GetFirst(fields[k]) \in fields[k].bits
           /\ \A i \in fields[k].bits : GetFirst(fields[k]) <= i
           /\ \A start \in Nat :
                \/ /\ Next(fields[k], start) = nil
                   /\ \A i \in fields[k].bits : i < start
                \/ /\ Next(fields[k], start) \in fields[k].bits
                   /\ Next(fields[k], start) # nil
                   /\ start <= Next(fields[k], start)
                   /\ \A i \in fields[k].bits :
                        i < start \/ Next(fields[k], start) <= i
<1>1. /\ Impl[k].min \in Nat /\ Impl[k].max \in Nat
      /\ Impl[k].max < IntMax
  BY ImplRange
<1>2. /\ fields[k].bits \in SUBSET (Impl[k].min .. Impl[k].max)
      /\ Coherent(fields[k])
  BY DEF ParseInv, FieldOf, EmptyField
<1>3. /\ fields[k].bits \in SUBSET Nat
      /\ \A i \in fields[k].bits : i < IntMax
  BY <1>1, <1>2, IntAssumption
<1>4. QED
  BY <1>1, <1>2, <1>3, NextValue, FirstValue

\* The crontab allows the instant but for its weekday.
Allowed(t) ==
    /\ t.minute \in fields["minute"].bits
    /\ t.hour \in fields["hour"].bits
    /\ t.day \in fields["day"].bits
    /\ t.month \in fields["month"].bits

\* The instants the current call may return.
Candidates == {t \in DateTimes : Allowed(t) /\ Before(base, t)}

\* The cursor is beyond baseTime and has passed none of them.
Ahead ==
    /\ Before(base, nextTime)
    /\ \A t \in Candidates : ~Before(t, nextTime)

\* None was passed by the calls before this one.
CallsBefore ==
    /\ base \in DateTimes
    /\ origin \in DateTimes
    /\ origin = base \/ Before(origin, base)
    /\ \A t \in DateTimes :
         Before(origin, t) /\ ~Before(base, t) => ~Matches(t)

TimeSet == /\ minute \in fields["minute"].bits
           /\ hour \in fields["hour"].bits

AtHour ==
    /\ year = base.year /\ month = base.month /\ day = base.day
    /\ hour \in Nat
    /\ minute \in fields["minute"].bits
    /\ Ahead

AtDay ==
    /\ year = base.year /\ month = base.month
    /\ day \in Nat
    /\ TimeSet
    /\ Ahead

\* Before the month is searched: either this month has a day from day on, or
\* every candidate is in a later month.
AtMonth ==
    /\ TimeSet
    /\ \/ /\ day # nil
          /\ year = base.year /\ month = base.month
          /\ day \in fields["day"].bits
          /\ day >= base.day
          /\ day = base.day => Ahead
          /\ \A t \in Candidates :
               t.year = year /\ t.month = month => t.day >= day
       \/ /\ day = nil
          /\ year \in Nat /\ month \in Nat
          /\ \/ year > base.year
             \/ year = base.year /\ month >= base.month
          /\ \A t \in Candidates :
               t.year > year \/ (t.year = year /\ t.month > month)

AtCheck ==
    /\ year \in Nat
    /\ Allowed(nextTime)
    /\ Ahead

SearchInv ==
    /\ CallsBefore
    /\ pc = "parse" => origin = base
    /\ {year, month, day, hour, minute} \subseteq Int
    /\ pc = "hour"  => AtHour
    /\ pc = "day"   => AtDay
    /\ pc = "month" => AtMonth
    /\ pc = "check" => AtCheck
    /\ NextIsFirst
    /\ ThrowsForNone

CrontabInv == ParseInv /\ SearchInv

\* Values in the terms the arithmetic needs.
LEMMA InstantFields ==
    ASSUME NEW t \in DateTimes
    PROVE  /\ t.year \in 1 .. LastYear /\ t.month \in 1 .. LastMonth
           /\ t.day \in 1 .. LastDay /\ t.hour \in 0 .. LastHour
           /\ t.minute \in 0 .. LastMinute
           /\ t.year \in Nat /\ t.month \in Nat /\ t.day \in Nat
           /\ t.hour \in Nat /\ t.minute \in Nat
           /\ t.day <= DaysInMonth(t.year, t.month)
  BY CalendarAssumption DEF DateTimes, Instant

\* A step that leaves the call alone keeps its frame.
LEMMA FrameKept ==
    ASSUME CallsBefore, UNCHANGED <<fields, base, origin>>
    PROVE  CallsBefore'
  BY DEF CallsBefore, Matches, Contains

LEMMA SearchInit == Init => SearchInv
<1> SUFFICES ASSUME Init PROVE SearchInv
  OBVIOUS
<1>1. base \in DateTimes /\ origin = base
  BY CalendarAssumption DEF Init, DateTimes, Instant
<1>2. \A t \in DateTimes : ~(Before(origin, t) /\ ~Before(base, t))
  BY <1>1
<1>3. QED
  BY <1>1, <1>2 DEF Init, SearchInv, CallsBefore, NextIsFirst, ThrowsForNone, nil

LEMMA StepMinute ==
    ASSUME CrontabInv, SearchMinute
    PROVE  SearchInv'
<1> USE DEF CrontabInv
<1> DEFINE next == Next(fields["minute"], base.minute + 1)
<1>1. /\ pc = "minute" /\ pc' = "hour"
      /\ UNCHANGED <<kind, fields, base, origin>>
      /\ year' = base.year /\ month' = base.month /\ day' = base.day
      /\ IF next = nil
         THEN minute' = FirstMinute /\ hour' = base.hour + 1
         ELSE minute' = next /\ hour' = base.hour
  BY DEF SearchMinute
<1>2. CallsBefore'
  BY <1>1, FrameKept DEF SearchInv
<1>3. base \in DateTimes
  BY DEF SearchInv, CallsBefore
<1>4. base.minute + 1 \in Nat
  BY <1>3, InstantFields
<1>5. /\ \A i \in fields["minute"].bits : i \in Nat
      /\ FirstMinute \in fields["minute"].bits
      /\ \A i \in fields["minute"].bits : FirstMinute <= i
      /\ \/ next = nil /\ \A i \in fields["minute"].bits : i < base.minute + 1
         \/ /\ next \in fields["minute"].bits
            /\ next # nil
            /\ base.minute + 1 <= next
            /\ \A i \in fields["minute"].bits : i < base.minute + 1 \/ next <= i
  BY <1>1, <1>4, SearchedField DEF FirstMinute, Kinds, Sections
<1> HIDE DEF next
<1>6. minute' \in fields["minute"].bits /\ minute' \in Nat /\ hour' \in Nat
  BY <1>1, <1>3, <1>5, InstantFields
<1>7. Before(base, nextTime')
  BY <1>1, <1>3, <1>5, <1>6, InstantFields DEF Before, nextTime
<1>8. ASSUME NEW t \in Candidates PROVE ~Before(t, nextTime')
  <2>1. t \in DateTimes /\ t.minute \in fields["minute"].bits /\ Before(base, t)
    BY DEF Candidates, Allowed
  <2>2. QED
    BY <1>1, <1>3, <1>5, <1>6, <2>1, InstantFields DEF Before, nextTime
<1>9. Candidates' = Candidates
  BY <1>1 DEF Candidates, Allowed
<1>10. AtHour'
  BY <1>1, <1>6, <1>7, <1>8, <1>9 DEF AtHour, Ahead
<1>11. {year', month', day', hour', minute'} \subseteq Int
  BY <1>1, <1>3, <1>6, InstantFields
<1>12. QED
  BY <1>1, <1>2, <1>10, <1>11 DEF SearchInv, NextIsFirst, ThrowsForNone

LEMMA StepHour ==
    ASSUME CrontabInv, SearchHour
    PROVE  SearchInv'
<1> USE DEF CrontabInv
<1> DEFINE next == Next(fields["hour"], hour)
<1>1. /\ pc = "hour" /\ pc' = "day"
      /\ UNCHANGED <<kind, fields, base, origin, year, month>>
      /\ IF next = nil
         THEN minute' = FirstMinute /\ hour' = FirstHour /\ day' = day + 1
         ELSE /\ hour' = next
              /\ minute' = IF next > base.hour THEN FirstMinute ELSE minute
              /\ day' = day
  BY DEF SearchHour
<1>2. CallsBefore'
  BY <1>1, FrameKept DEF SearchInv
<1>3. base \in DateTimes
  BY DEF SearchInv, CallsBefore
<1>4. AtHour
  BY <1>1 DEF SearchInv
<1>5. /\ FirstMinute \in fields["minute"].bits
      /\ FirstHour \in fields["hour"].bits
      /\ \A i \in fields["minute"].bits : i \in Nat /\ FirstMinute <= i
      /\ \A i \in fields["hour"].bits : i \in Nat /\ FirstHour <= i
  BY <1>1, SearchedField DEF FirstMinute, FirstHour, Kinds, Sections
<1>6. \/ next = nil /\ \A i \in fields["hour"].bits : i < hour
      \/ /\ next \in fields["hour"].bits
         /\ next # nil
         /\ hour <= next
         /\ \A i \in fields["hour"].bits : i < hour \/ next <= i
  BY <1>1, <1>4, SearchedField DEF AtHour, Kinds, Sections
<1> HIDE DEF next
<1>7. /\ day \in Nat /\ day' \in Nat
      /\ minute \in fields["minute"].bits
      /\ minute' \in fields["minute"].bits
      /\ hour' \in fields["hour"].bits
      /\ year = base.year /\ month = base.month /\ day = base.day
      /\ hour \in Nat
      /\ Before(base, nextTime)
  BY <1>1, <1>3, <1>4, <1>5, <1>6, InstantFields DEF AtHour, Ahead
<1>8. Before(base, nextTime')
  BY <1>1, <1>3, <1>5, <1>6, <1>7, InstantFields DEF Before, nextTime
<1>9. ASSUME NEW t \in Candidates PROVE ~Before(t, nextTime')
  <2>1. /\ t \in DateTimes /\ Before(base, t)
        /\ t.minute \in fields["minute"].bits /\ t.hour \in fields["hour"].bits
        /\ ~Before(t, nextTime)
    BY <1>4 DEF Candidates, Allowed, AtHour, Ahead
  <2>2. CASE next = nil
    BY <1>1, <1>3, <1>5, <1>6, <1>7, <2>1, <2>2, InstantFields
       DEF Before, nextTime
  <2>3. CASE next # nil
    BY <1>1, <1>3, <1>5, <1>6, <1>7, <2>1, <2>3, InstantFields
       DEF Before, nextTime
  <2>4. QED
    BY <2>2, <2>3
<1>10. Candidates' = Candidates
  BY <1>1 DEF Candidates, Allowed
<1>11. AtDay'
  BY <1>1, <1>7, <1>8, <1>9, <1>10 DEF AtDay, TimeSet, Ahead
<1>12. {year', month', day', hour', minute'} \subseteq Int
  BY <1>1, <1>3, <1>5, <1>7, InstantFields
<1>13. QED
  BY <1>1, <1>2, <1>11, <1>12 DEF SearchInv, NextIsFirst, ThrowsForNone

LEMMA StepDay ==
    ASSUME CrontabInv, SearchDay
    PROVE  SearchInv'
<1> USE DEF CrontabInv
<1> DEFINE next == Next(fields["day"], day)
<1>1. /\ pc = "day" /\ pc' = "month"
      /\ UNCHANGED <<kind, fields, base, origin, year, month, hour, minute>>
      /\ day' = next
  BY DEF SearchDay
<1>2. CallsBefore'
  BY <1>1, FrameKept DEF SearchInv
<1>3. base \in DateTimes
  BY DEF SearchInv, CallsBefore
<1>4. AtDay
  BY <1>1 DEF SearchInv
<1>5. \/ next = nil /\ \A i \in fields["day"].bits : i < day
      \/ /\ next \in fields["day"].bits
         /\ next # nil /\ next \in Nat
         /\ day <= next
         /\ \A i \in fields["day"].bits : i < day \/ next <= i
  BY <1>1, <1>4, SearchedField DEF AtDay, Kinds, Sections
<1> HIDE DEF next
<1>6. /\ TimeSet' /\ TimeSet
      /\ year = base.year /\ month = base.month /\ day \in Nat
      /\ Before(base, nextTime)
      /\ \A i \in fields["minute"].bits : i \in Nat
      /\ \A i \in fields["hour"].bits : i \in Nat
      /\ \A i \in fields["day"].bits : i \in Nat
  BY <1>1, <1>4, SearchedField DEF AtDay, TimeSet, Ahead, Kinds, Sections
<1>7. day >= base.day
  BY <1>3, <1>6, InstantFields DEF Before, nextTime, TimeSet
<1>8. ASSUME NEW t \in Candidates
      PROVE  /\ t.year = year /\ t.month = month => t.day >= day
             /\ \/ t.year > year
                \/ t.year = year /\ t.month >= month
             /\ t.day \in fields["day"].bits
  <2>1. /\ t \in DateTimes /\ Before(base, t) /\ ~Before(t, nextTime)
        /\ t.day \in fields["day"].bits
    BY <1>4 DEF Candidates, Allowed, AtDay, Ahead
  <2>2. QED
    BY <1>3, <1>6, <2>1, InstantFields DEF Before, nextTime, TimeSet
<1>9. \A t \in Candidates : /\ t.year \in Nat /\ t.month \in Nat
                            /\ t.day \in Nat
  BY InstantFields DEF Candidates
<1>10. Candidates' = Candidates
  BY <1>1 DEF Candidates, Allowed
<1>11. CASE next = nil
  <2>1. \A t \in Candidates :
          t.year > year \/ (t.year = year /\ t.month > month)
    BY <1>3, <1>5, <1>6, <1>8, <1>9, <1>11, InstantFields DEF nil
  <2>2. AtMonth'
    BY <1>1, <1>3, <1>6, <1>10, <1>11, <2>1, InstantFields DEF AtMonth
  <2>3. QED
    BY <1>1, <1>2, <1>11, <2>2
       DEF SearchInv, NextIsFirst, ThrowsForNone, nil
<1>12. CASE next # nil
  <2>1. /\ next \in fields["day"].bits /\ next \in Nat /\ next >= day
        /\ \A t \in Candidates : t.year = year /\ t.month = month
                                    => t.day >= next
    BY <1>5, <1>6, <1>8, <1>9, <1>12
  <2>2. ASSUME day' = base.day PROVE Ahead'
    <3>1. day' = day
      BY <1>1, <1>3, <1>6, <1>7, <2>1, <2>2, InstantFields
    <3>2. nextTime' = nextTime
      BY <1>1, <3>1 DEF nextTime
    <3>3. QED
      BY <1>1, <1>4, <1>10, <3>2 DEF AtDay, Ahead
  <2>3. day' >= base.day
    BY <1>1, <1>3, <1>6, <1>7, <2>1, InstantFields
  <2>4. AtMonth'
    BY <1>1, <1>6, <1>10, <1>12, <2>1, <2>2, <2>3 DEF AtMonth
  <2>5. QED
    BY <1>1, <1>2, <2>1, <2>4 DEF SearchInv, NextIsFirst, ThrowsForNone
<1>13. QED
  BY <1>11, <1>12

LEMMA StepMonth ==
    ASSUME CrontabInv, SearchMonth
    PROVE  SearchInv'
<1> USE DEF CrontabInv
<1> DEFINE start == IF day = nil THEN month + 1 ELSE month
           next == Next(fields["month"], start)
           newMonth == next = nil \/ next > base.month
<1>1. /\ pc = "month" /\ pc' = "check"
      /\ UNCHANGED <<kind, fields, base, origin>>
      /\ month' = IF next = nil THEN FirstMonth ELSE next
      /\ year'  = IF next = nil THEN year + 1 ELSE year
      /\ day'   = IF newMonth \/ day = nil THEN FirstDay ELSE day
      /\ IF newMonth \/ day = nil \/ day > base.day
         THEN hour' = FirstHour /\ minute' = FirstMinute
         ELSE hour' = hour /\ minute' = minute
  BY DEF SearchMonth
<1>2. CallsBefore'
  BY <1>1, FrameKept DEF SearchInv
<1>3. base \in DateTimes
  BY DEF SearchInv, CallsBefore
<1>4. AtMonth
  BY <1>1 DEF SearchInv
<1>5. /\ FirstMinute \in fields["minute"].bits
      /\ FirstHour \in fields["hour"].bits
      /\ FirstDay \in fields["day"].bits
      /\ FirstMonth \in fields["month"].bits
      /\ \A i \in fields["minute"].bits : i \in Nat /\ FirstMinute <= i
      /\ \A i \in fields["hour"].bits : i \in Nat /\ FirstHour <= i
      /\ \A i \in fields["day"].bits : i \in Nat /\ FirstDay <= i
      /\ \A i \in fields["month"].bits : i \in Nat /\ FirstMonth <= i
  BY <1>1, SearchedField
     DEF FirstMinute, FirstHour, FirstDay, FirstMonth, Kinds, Sections
<1>6. start \in Nat
  BY <1>3, <1>4, InstantFields DEF AtMonth
<1>7. \/ next = nil /\ \A i \in fields["month"].bits : i < start
      \/ /\ next \in fields["month"].bits
         /\ next # nil /\ next \in Nat
         /\ start <= next
         /\ \A i \in fields["month"].bits : i < start \/ next <= i
  BY <1>1, <1>6, SearchedField DEF Kinds, Sections
<1>8. start = IF day = nil THEN month + 1 ELSE month
  OBVIOUS
<1> HIDE DEF start, next
<1>9. ASSUME NEW t \in Candidates
      PROVE  /\ t.year \in Nat /\ t.month \in Nat /\ t.day \in Nat
             /\ t.hour \in Nat /\ t.minute \in Nat
             /\ t.minute \in fields["minute"].bits
             /\ t.hour \in fields["hour"].bits
             /\ t.day \in fields["day"].bits
             /\ t.month \in fields["month"].bits
             /\ \/ t.year > base.year
                \/ t.year = base.year /\ t.month >= base.month
  <2>1. t \in DateTimes /\ Before(base, t) /\ Allowed(t)
    BY DEF Candidates
  <2>2. QED
    BY <1>3, <2>1, InstantFields DEF Before, Allowed
<1>10. TimeSet
  BY <1>4 DEF AtMonth
<1>11. /\ base.year \in Nat /\ base.month \in Nat /\ base.day \in Nat
       /\ base.hour \in Nat /\ base.minute \in Nat
  BY <1>3, InstantFields
<1>a. Candidates' = Candidates
  BY <1>1 DEF Candidates, Allowed
\* The month found, and what is known of it.
<1>12. /\ year' \in Nat
       /\ month' \in fields["month"].bits
       /\ day' \in fields["day"].bits
       /\ hour' \in fields["hour"].bits
       /\ minute' \in fields["minute"].bits
  BY <1>1, <1>4, <1>5, <1>7, <1>10, <1>11 DEF AtMonth, TimeSet
\* Everything is reset: the date is later than that of baseTime, and
\* no candidate is in an earlier month.
<1>13. CASE newMonth \/ day = nil
  <2>1. day' = FirstDay /\ hour' = FirstHour /\ minute' = FirstMinute
    BY <1>1, <1>13
  <2>2. \/ year' > base.year
        \/ year' = base.year /\ month' > base.month
    BY <1>1, <1>4, <1>5, <1>7, <1>8, <1>11, <1>13 DEF AtMonth
  <2>3. ASSUME NEW t \in Candidates
        PROVE  \/ t.year > year'
               \/ t.year = year' /\ t.month >= month'
    <3>1. CASE day = nil
      <4>1. /\ start = month + 1 /\ month \in Nat /\ year \in Nat
            /\ t.year > year \/ (t.year = year /\ t.month > month)
        BY <1>4, <1>8, <3>1, <2>3 DEF AtMonth
      <4>2. CASE next = nil
        BY <1>1, <1>5, <1>7, <1>9, <4>1, <4>2
      <4>3. CASE next # nil
        BY <1>1, <1>7, <1>9, <4>1, <4>3
      <4>4. QED
        BY <4>2, <4>3
    <3>2. CASE day # nil
      <4>1. start = month /\ month = base.month /\ year = base.year
        BY <1>4, <1>8, <3>2 DEF AtMonth
      <4>2. CASE next = nil
        BY <1>1, <1>5, <1>7, <1>9, <1>11, <4>1, <4>2
      <4>3. CASE next # nil
        BY <1>1, <1>7, <1>9, <1>11, <4>1, <4>3
      <4>4. QED
        BY <4>2, <4>3
    <3>3. QED
      BY <3>1, <3>2
  <2>4. Before(base, nextTime')
    BY <1>5, <1>11, <1>12, <2>2 DEF Before, nextTime
  <2>5. ASSUME NEW t \in Candidates PROVE ~Before(t, nextTime')
    BY <1>5, <1>9, <1>12, <2>1, <2>3 DEF Before, nextTime
  <2>6. QED
    BY <1>1, <1>12, <1>a, <2>4, <2>5, <1>2, <1>5
       DEF SearchInv, AtCheck, Ahead, Allowed, nextTime,
           NextIsFirst, ThrowsForNone
\* The month and the year are those of baseTime.
<1>14. CASE ~(newMonth \/ day = nil)
  <2>1. /\ year = base.year /\ month = base.month
        /\ day \in fields["day"].bits /\ day \in Nat /\ day >= base.day
        /\ day = base.day => Ahead
        /\ \A t \in Candidates :
             t.year = year /\ t.month = month => t.day >= day
    BY <1>4, <1>5, <1>14 DEF AtMonth
  <2>2. year' = year /\ month' = month /\ day' = day
    BY <1>1, <1>7, <1>8, <1>11, <1>14, <2>1
  <2>3. CASE day > base.day
    <3>1. hour' = FirstHour /\ minute' = FirstMinute
      BY <1>1, <2>3
    <3>2. Before(base, nextTime')
      BY <1>11, <2>1, <2>2, <2>3 DEF Before, nextTime
    <3>3. ASSUME NEW t \in Candidates PROVE ~Before(t, nextTime')
      BY <1>5, <1>9, <1>11, <1>12, <2>1, <2>2, <2>3, <3>1 DEF Before, nextTime
    <3>4. QED
      BY <1>a, <3>2, <3>3 , <1>1, <1>2, <1>5, <1>12
         DEF SearchInv, AtCheck, Ahead, Allowed, nextTime,
             NextIsFirst, ThrowsForNone
  <2>4. CASE ~(day > base.day)
    <3>1. day = base.day
      BY <1>11, <2>1, <2>4
    <3>2. hour' = hour /\ minute' = minute
      BY <1>1, <1>14, <2>4
    <3>3. nextTime' = nextTime
      BY <2>2, <3>2 DEF nextTime
    <3>4. Ahead'
      BY <1>1, <1>a, <2>1, <3>1, <3>3 DEF Ahead
    <3>5. QED
      BY <3>4, <1>1, <1>2, <1>5, <1>12
         DEF SearchInv, AtCheck, Allowed, nextTime, NextIsFirst, ThrowsForNone
  <2>5. QED
    BY <2>3, <2>4
<1>15. QED
  BY <1>13, <1>14

\* What is known when the search has found a date.
LEMMA CheckFacts ==
    ASSUME CrontabInv, pc = "check"
    PROVE  /\ base \in DateTimes
           /\ CallsBefore /\ Ahead /\ Allowed(nextTime)
           /\ year \in Nat /\ base.year <= year
           /\ year = base.year => base.month <= month
           /\ month \in 1 .. LastMonth /\ day \in 1 .. LastDay
           /\ hour \in 0 .. LastHour /\ minute \in 0 .. LastMinute
           /\ \A t \in Candidates :
                t.year = year /\ t.month = month => t.day >= day
<1>1. CallsBefore /\ AtCheck /\ base \in DateTimes
  BY DEF CrontabInv, SearchInv, CallsBefore
<1>2. /\ Ahead /\ year \in Nat /\ Allowed(nextTime)
      /\ minute \in fields["minute"].bits /\ hour \in fields["hour"].bits
      /\ day \in fields["day"].bits /\ month \in fields["month"].bits
  BY <1>1 DEF AtCheck, Allowed, nextTime
<1>3. /\ month \in 1 .. LastMonth /\ day \in 1 .. LastDay
      /\ hour \in 0 .. LastHour /\ minute \in 0 .. LastMinute
  BY <1>2, SearchedField DEF CrontabInv, Sections, Kinds, Impl
<1>4. /\ base.year <= year
      /\ year = base.year => base.month <= month
  BY <1>1, <1>2, <1>3, InstantFields, CalendarAssumption
     DEF Ahead, Before, nextTime
<1>5. ASSUME NEW t \in Candidates, t.year = year, t.month = month
      PROVE  t.day >= day
  <2>1. ~Before(t, nextTime) /\ t \in DateTimes
    BY <1>2, <1>5 DEF Ahead, Candidates
  <2>2. QED
    BY <1>3, <1>5, <2>1, InstantFields, CalendarAssumption DEF Before, nextTime
<1>6. QED
  BY <1>1, <1>2, <1>3, <1>4, <1>5

\* A date the check lets pass is in the calendar.
LEMMA DateExists ==
    ASSUME CrontabInv, pc = "check", year <= LastYear, ~NoSuchDay
    PROVE  nextTime \in DateTimes /\ EndOfDay \in DateTimes
<1>1. /\ base \in DateTimes
      /\ year \in Nat /\ base.year <= year
      /\ month \in 1 .. LastMonth /\ day \in 1 .. LastDay
      /\ hour \in 0 .. LastHour /\ minute \in 0 .. LastMinute
  BY CheckFacts
<1>2. year \in 1 .. LastYear
  BY <1>1, InstantFields, CalendarAssumption
<1>3. day <= DaysInMonth(year, month)
  <2>1. CASE day <= SureDays
    BY <1>1, <1>2, <2>1, CalendarAssumption
  <2>2. CASE ~DateChanged
    BY <1>1, <2>2, InstantFields DEF DateChanged
  <2>3. CASE day > SureDays /\ DateChanged
    <3>1. DaysInMonth(year, month) \in Int
      BY <1>1, <1>2, CalendarAssumption
    <3>2. QED
      BY <1>1, <2>3, <3>1 DEF NoSuchDay
  <2>4. QED
    BY <1>1, <2>1, <2>2, <2>3, CalendarAssumption
<1>4. nextTime \in DateTimes
  BY <1>1, <1>2, <1>3 DEF nextTime, DateTimes, Instant
<1>5. EndOfDay \in DateTimes
  BY <1>1, <1>2, <1>3, CalendarAssumption DEF EndOfDay, DateTimes, Instant
<1>6. QED
  BY <1>4, <1>5

LEMMA StepRetry ==
    ASSUME CrontabInv, RetryDayMonth
    PROVE  SearchInv'
<1>1. /\ pc = "check" /\ pc' = "month" /\ year <= LastYear /\ NoSuchDay
      /\ UNCHANGED <<kind, fields, base, origin, year, month, hour, minute>>
      /\ day' = nil
  BY DEF RetryDayMonth
<1>2. CallsBefore'
  BY <1>1, CheckFacts, FrameKept
<1>3. Candidates' = Candidates
  BY <1>1 DEF Candidates, Allowed
<1>4. /\ TimeSet'
      /\ year \in Nat /\ month \in Nat /\ day \in Nat
      /\ hour \in Nat /\ minute \in Nat
  <2>1. Allowed(nextTime)
    BY <1>1, CheckFacts
  <2>2. TimeSet'
    BY <1>1, <2>1 DEF TimeSet, Allowed, nextTime
  <2>3. /\ year \in Nat /\ month \in 1 .. LastMonth /\ day \in 1 .. LastDay
        /\ hour \in 0 .. LastHour /\ minute \in 0 .. LastMinute
    BY <1>1, CheckFacts
  <2>4. QED
    BY <2>2, <2>3, CalendarAssumption
<1>5. year > base.year \/ (year = base.year /\ month >= base.month)
  <2>1. /\ base \in DateTimes /\ base.year <= year
        /\ year = base.year => base.month <= month
    BY <1>1, CheckFacts
  <2>2. QED
    BY <1>4, <2>1, InstantFields
<1>6. ASSUME NEW t \in Candidates
      PROVE  t.year > year \/ (t.year = year /\ t.month > month)
  <2>1. t \in DateTimes /\ ~Before(t, nextTime)
    BY <1>1, CheckFacts DEF Candidates, Ahead
  <2>2. ~(t.year = year /\ t.month = month)
    <3>1. SUFFICES ASSUME t.year = year, t.month = month PROVE FALSE
      OBVIOUS
    <3>2. t.day >= day /\ day \in Nat
      BY <1>1, <3>1, CheckFacts, CalendarAssumption
    <3>3. t.day <= DaysInMonth(year, month) /\ t.day \in Nat
      BY <2>1, <3>1, InstantFields
    <3>4. DaysInMonth(year, month) \in Nat
      BY <2>1, <3>1, InstantFields, CalendarAssumption
    <3>5. QED
      BY <1>1, <3>2, <3>3, <3>4 DEF NoSuchDay
  <2>3. QED
    BY <1>4, <2>1, <2>2, InstantFields DEF Before, nextTime
<1>7. AtMonth'
  BY <1>1, <1>3, <1>4, <1>5, <1>6 DEF AtMonth
<1>8. QED
  BY <1>1, <1>2, <1>4, <1>7 DEF SearchInv, NextIsFirst, ThrowsForNone, nil

\* The next call goes on from the end of a day of the wrong weekday: what it
\* passes over in one step is not allowed.
LEMMA StepWeekday ==
    ASSUME CrontabInv, OtherWeekday
    PROVE  SearchInv'
<1>1. /\ pc = "check" /\ pc' = "minute" /\ year <= LastYear /\ ~NoSuchDay
      /\ ~Contains(fields["dayOfWeek"], DayOfWeek(year, month, day))
      /\ base' = EndOfDay
      /\ UNCHANGED <<kind, fields, origin, cursor>>
  BY DEF OtherWeekday
<1>2. /\ CallsBefore /\ Ahead /\ base \in DateTimes
      /\ year \in Nat /\ month \in Nat /\ day \in Nat
      /\ hour \in 0 .. LastHour /\ minute \in 0 .. LastMinute
      /\ hour \in Nat /\ minute \in Nat
  <2>1. /\ CallsBefore /\ Ahead /\ base \in DateTimes
        /\ year \in Nat /\ month \in 1 .. LastMonth /\ day \in 1 .. LastDay
        /\ hour \in 0 .. LastHour /\ minute \in 0 .. LastMinute
    BY <1>1, CheckFacts
  <2>2. QED
    BY <2>1, CalendarAssumption
<1>3. EndOfDay \in DateTimes
  BY <1>1, DateExists
<1>4. /\ EndOfDay.year = year /\ EndOfDay.month = month /\ EndOfDay.day = day
      /\ EndOfDay.hour = LastHour /\ EndOfDay.minute = LastMinute
      /\ nextTime.year = year /\ nextTime.month = month /\ nextTime.day = day
      /\ nextTime.hour = hour /\ nextTime.minute = minute
  BY DEF EndOfDay, nextTime
<1>5. Before(base, EndOfDay)
  <2>1. Before(base, nextTime)
    BY <1>2 DEF Ahead
  <2>2. QED
    BY <1>2, <1>4, <2>1, InstantFields, CalendarAssumption DEF Before
<1>6. origin \in DateTimes /\ Before(origin, EndOfDay)
  <2>1. origin \in DateTimes /\ (origin = base \/ Before(origin, base))
    BY <1>2 DEF CallsBefore
  <2>2. QED
    BY <1>2, <1>3, <1>5, <2>1, InstantFields DEF Before
<1>7. ASSUME NEW t \in DateTimes, Before(origin, t), ~Before(EndOfDay, t)
      PROVE  ~Matches(t)
  <2>1. CASE ~Before(base, t)
    BY <1>2, <1>7, <2>1 DEF CallsBefore
  <2>2. CASE Before(base, t)
    <3>1. SUFFICES ASSUME Matches(t) PROVE FALSE
      OBVIOUS
    <3>2. t \in Candidates
      BY <2>2, <3>1 DEF Candidates, Allowed, Matches, Contains
    <3>3. ~Before(t, nextTime)
      BY <1>2, <3>2 DEF Ahead
    <3>4. t.year = year /\ t.month = month /\ t.day = day
      BY <1>2, <1>4, <1>7, <3>3, InstantFields, CalendarAssumption DEF Before
    <3>5. QED
      BY <1>1, <3>1, <3>4 DEF Matches
  <2>3. QED
    BY <2>1, <2>2
<1>8. CallsBefore'
  BY <1>1, <1>3, <1>6, <1>7 DEF CallsBefore, Matches, Contains
<1>9. {year', month', day', hour', minute'} \subseteq Int
  BY <1>1, <1>2 DEF cursor
<1>10. QED
  BY <1>1, <1>8, <1>9 DEF SearchInv, NextIsFirst, ThrowsForNone

LEMMA StepReturn ==
    ASSUME CrontabInv, Return
    PROVE  SearchInv'
<1>1. /\ pc = "check" /\ pc' = "answered" /\ year <= LastYear /\ ~NoSuchDay
      /\ Contains(fields["dayOfWeek"], DayOfWeek(year, month, day))
      /\ UNCHANGED <<kind, fields, base, origin, cursor>>
  BY DEF Return
<1>2. CallsBefore /\ Ahead /\ base \in DateTimes /\ Allowed(nextTime)
  BY <1>1, CheckFacts
<1>3. nextTime \in DateTimes
  BY <1>1, DateExists
<1>4. Matches(nextTime)
  BY <1>1, <1>2 DEF Matches, Allowed, Contains, nextTime
<1>5. Before(origin, nextTime)
  <2>1. /\ origin \in DateTimes /\ (origin = base \/ Before(origin, base))
        /\ Before(base, nextTime)
    BY <1>2 DEF CallsBefore, Ahead
  <2>2. QED
    BY <1>2, <1>3, <2>1, InstantFields DEF Before
<1>6. ASSUME NEW t \in DateTimes, Before(origin, t), Before(t, nextTime)
      PROVE  ~Matches(t)
  <2>1. CASE ~Before(base, t)
    BY <1>2, <1>6, <2>1 DEF CallsBefore
  <2>2. CASE Before(base, t)
    BY <1>2, <1>6, <2>2 DEF Ahead, Candidates, Allowed, Matches, Contains
  <2>3. QED
    BY <2>1, <2>2
<1>7. UNCHANGED <<fields, origin, nextTime>>
  BY <1>1 DEF cursor, nextTime
<1>8. NextIsFirst'
  BY <1>3, <1>4, <1>5, <1>6, <1>7 DEF NextIsFirst, Matches, Contains
<1>9. QED
  BY <1>1, <1>2, <1>8, FrameKept
     DEF SearchInv, CrontabInv, ThrowsForNone, cursor

LEMMA StepBeyond ==
    ASSUME CrontabInv, BeyondCalendar
    PROVE  SearchInv'
<1>1. /\ pc = "check" /\ pc' = "thrown" /\ year > LastYear
      /\ UNCHANGED <<kind, fields, base, origin, cursor>>
  BY DEF BeyondCalendar
<1>2. CallsBefore /\ Ahead /\ year \in Nat
  BY <1>1, CheckFacts
<1>3. ASSUME NEW t \in DateTimes, Before(origin, t)
      PROVE  ~Matches(t)
  <2>1. CASE ~Before(base, t)
    BY <1>2, <1>3, <2>1 DEF CallsBefore
  <2>2. CASE Before(base, t)
    <3>1. Before(t, nextTime)
      BY <1>1, <1>2, InstantFields, CalendarAssumption DEF Before, nextTime
    <3>2. QED
      BY <1>2, <2>2, <3>1 DEF Ahead, Candidates, Allowed, Matches, Contains
  <2>3. QED
    BY <2>1, <2>2
<1>4. ThrowsForNone'
  BY <1>1, <1>3 DEF ThrowsForNone, Matches, Contains
<1>5. QED
  BY <1>1, <1>2, <1>4, FrameKept
     DEF SearchInv, CrontabInv, NextIsFirst, cursor

LEMMA StepCall ==
    ASSUME CrontabInv, NEW t \in DateTimes, GetNextOccurrence(t)
    PROVE  SearchInv'
<1>1. /\ pc' = "minute" /\ base' = t /\ origin' = t
      /\ UNCHANGED <<kind, fields, cursor>>
  BY DEF GetNextOccurrence
<1>2. CallsBefore'
  BY <1>1 DEF CallsBefore
<1>3. QED
  BY <1>1, <1>2
     DEF CrontabInv, SearchInv, NextIsFirst, ThrowsForNone, cursor

\* Parsing changes the fields, but no call was made yet.
LEMMA StepParse ==
    ASSUME CrontabInv,
           NextField \/ \E term \in Term : ReadTerm(term)
    PROVE  SearchInv'
<1>1. /\ pc = "parse" /\ pc' \in {"parse", "rejected", "parsed"}
      /\ UNCHANGED <<base, origin, cursor>>
  BY DEF NextField, ReadTerm
<1>2. base \in DateTimes /\ origin = base
  BY <1>1 DEF CrontabInv, SearchInv, CallsBefore
<1>3. CallsBefore'
  BY <1>1, <1>2 DEF CallsBefore
<1>4. QED
  BY <1>1, <1>2, <1>3
     DEF CrontabInv, SearchInv, NextIsFirst, ThrowsForNone, cursor

LEMMA StepStutter ==
    ASSUME CrontabInv, UNCHANGED vars
    PROVE  SearchInv'
<1>1. UNCHANGED <<pc, kind, fields, base, origin, year, month, day, hour,
                  minute>>
  BY DEF vars, cursor
<1>2. UNCHANGED <<nextTime, Candidates>>
  BY <1>1 DEF nextTime, Candidates, Allowed
<1>3. (CallsBefore /\ SearchInv)' = (CallsBefore /\ SearchInv)
  BY <1>1, <1>2 DEF SearchInv, CallsBefore, NextIsFirst, ThrowsForNone,
     AtHour, AtDay, AtMonth, AtCheck, Ahead, TimeSet, Allowed, Matches, Contains
<1>4. QED
  BY <1>3 DEF CrontabInv, SearchInv

LEMMA CrontabInit == Init => CrontabInv
  BY ParseInit, SearchInit DEF CrontabInv

LEMMA CrontabNext == CrontabInv /\ [NextStep]_vars => CrontabInv'
<1> SUFFICES ASSUME CrontabInv, [NextStep]_vars PROVE CrontabInv'
  OBVIOUS
<1>1. ParseInv'
  BY ParseNext DEF CrontabInv
<1>2. SearchInv'
  BY StepParse, StepCall, StepMinute, StepHour, StepDay, StepMonth, StepRetry,
     StepWeekday, StepReturn, StepBeyond, StepStutter DEF NextStep, Search
<1>3. QED
  BY <1>1, <1>2 DEF CrontabInv

LEMMA CrontabCorrect == Spec => []CrontabInv
  BY CrontabInit, CrontabNext, PTL DEF Spec

\* Type correctness.
THEOREM TypeCorrect == Spec => []TypeOK
<1>1. CrontabInv => TypeOK
  <2> SUFFICES ASSUME CrontabInv PROVE TypeOK
    OBVIOUS
  <2>1. \A k \in Kinds :
          fields[k] \in [bits : SUBSET (Impl[k].min .. Impl[k].max),
                         minValueSet : Nat, maxValueSet : Int]
    BY DEF CrontabInv, ParseInv, FieldOf
  <2>2. base \in Instant /\ origin \in Instant
    BY DEF CrontabInv, SearchInv, CallsBefore, DateTimes
  <2>3. QED
    BY <2>1, <2>2 DEF TypeOK, CrontabInv, ParseInv, SearchInv, Sections
<1>2. QED
  BY <1>1, CrontabCorrect, PTL

\* GetNextOccurrence returns the first instant after baseTime that the
\* crontab allows, for every calendar that meets CalendarAssumption.
THEOREM ReturnsTheFirst == Spec => []NextIsFirst
<1>1. CrontabInv => NextIsFirst
  BY DEF CrontabInv, SearchInv
<1>2. QED
  BY <1>1, CrontabCorrect, PTL

\* It throws only when the crontab never occurs again in the calendar.
THEOREM ThrowsOnlyForNone == Spec => []ThrowsForNone
<1>1. CrontabInv => ThrowsForNone
  BY DEF CrontabInv, SearchInv
<1>2. QED
  BY <1>1, CrontabCorrect, PTL

-----------------------------------------------------------------------------
(***************************************************************************)
(* The search comes to an end: what it does until then is finite.          *)
(***************************************************************************)
\* The cursor looks at a month of the calendar, or has just left it.
MonthInv ==
    /\ pc \in {"hour", "day", "month", "check"} => month \in 1 .. LastMonth
    /\ pc \in {"hour", "day", "month"} => year \in 1 .. LastYear
    /\ pc = "check" => year \in 1 .. LastYear + 1

AdvanceInv == CrontabInv /\ MonthInv

\* The last disjunct of SearchAdvances.
Onward ==
    /\ base' = base
    /\ SearchedMonth' \in (1 .. LastYear + 1) \X (1 .. LastMonth)
    /\ \/ LaterMonth(SearchedMonth, SearchedMonth')
       \/ SearchedMonth' = SearchedMonth /\ Stage < Stage'

\* The sections in which the month is the one of baseTime.
LEMMA AdvanceInMonth ==
    ASSUME AdvanceInv, SearchMinute \/ SearchHour \/ SearchDay
    PROVE  MonthInv' /\ Onward
<1>1. /\ base.year \in 1 .. LastYear /\ base.month \in 1 .. LastMonth
      /\ base.year \in Nat /\ base.month \in Nat
      /\ LastYear \in Nat /\ LastMonth \in Nat
  BY InstantFields, CalendarAssumption
     DEF AdvanceInv, CrontabInv, SearchInv, CallsBefore
<1>2. /\ base' = base
      /\ pc' # "minute"
      /\ \/ pc = "minute" /\ year' = base.year /\ month' = base.month
         \/ /\ pc \in {"hour", "day"}
            /\ year = base.year /\ month = base.month
            /\ year' = year /\ month' = month
  BY DEF SearchMinute, SearchHour, SearchDay, AdvanceInv, CrontabInv,
     SearchInv, AtHour, AtDay
<1>3. SearchedMonth' = SearchedMonth /\ year' = base.year /\ month' = base.month
  BY <1>2 DEF SearchedMonth
<1>4. SearchedMonth' \in (1 .. LastYear + 1) \X (1 .. LastMonth)
  BY <1>1, <1>2, <1>3 DEF SearchedMonth
<1>5. Stage < Stage'
  BY DEF Stage, SearchMinute, SearchHour, SearchDay
<1>6. MonthInv'
  BY <1>1, <1>3 DEF MonthInv, SearchMinute, SearchHour, SearchDay
<1>7. QED
  BY <1>2, <1>3, <1>4, <1>5, <1>6 DEF Onward

LEMMA AdvanceMonth ==
    ASSUME AdvanceInv, SearchMonth
    PROVE  MonthInv' /\ Onward
<1> DEFINE start == IF day = nil THEN month + 1 ELSE month
           next == Next(fields["month"], start)
<1>1. /\ pc = "month" /\ pc' = "check" /\ base' = base
      /\ month' = IF next = nil THEN FirstMonth ELSE next
      /\ year'  = IF next = nil THEN year + 1 ELSE year
  BY DEF SearchMonth
<1>2. /\ year \in 1 .. LastYear /\ month \in 1 .. LastMonth
      /\ LastYear \in Nat /\ LastMonth \in Nat
  BY <1>1, CalendarAssumption DEF AdvanceInv, MonthInv
<1>3. start \in Nat
  BY <1>2
<1>4. /\ FirstMonth \in 1 .. LastMonth
      /\ \/ next = nil
         \/ next # nil /\ next \in 1 .. LastMonth /\ start <= next
  <2>1. \A i \in fields["month"].bits : i \in 1 .. LastMonth
    BY <1>1, SearchedField
       DEF AdvanceInv, CrontabInv, Sections, Kinds, Impl
  <2>2. FirstMonth \in fields["month"].bits
    BY <1>1, SearchedField DEF AdvanceInv, CrontabInv, Sections, Kinds,
       FirstMonth
  <2>3. \/ next = nil
        \/ next \in fields["month"].bits /\ next # nil /\ start <= next
    <3> HIDE DEF start
    <3> QED
      BY <1>1, <1>3, SearchedField DEF AdvanceInv, CrontabInv, Sections, Kinds
  <2>4. QED
    BY <2>1, <2>2, <2>3
<1> HIDE DEF next
<1>5. year' \in 1 .. LastYear + 1 /\ month' \in 1 .. LastMonth
  BY <1>1, <1>2, <1>4
<1>6. SearchedMonth = <<year, month>> /\ SearchedMonth' = <<year', month'>>
  BY <1>1 DEF SearchedMonth
<1>7. \/ LaterMonth(<<year, month>>, <<year', month'>>)
      \/ year' = year /\ month' = month /\ day # nil
  BY <1>1, <1>2, <1>4 DEF LaterMonth
<1>8. day # nil => Stage < Stage'
  BY <1>1 DEF Stage
<1>9. MonthInv'
  BY <1>1, <1>5 DEF MonthInv
<1>10. QED
  BY <1>1, <1>5, <1>6, <1>7, <1>8, <1>9 DEF Onward

LEMMA AdvanceAtCheck ==
    ASSUME AdvanceInv, RetryDayMonth \/ BeyondCalendar \/ Return
    PROVE  MonthInv' /\ Onward
<1>1. /\ pc = "check" /\ base' = base /\ year' = year /\ month' = month
      /\ \/ pc' = "month" /\ day' = nil /\ year <= LastYear
         \/ pc' \in {"thrown", "answered"}
  BY DEF RetryDayMonth, BeyondCalendar, Return, cursor
<1>2. year \in 1 .. LastYear + 1 /\ month \in 1 .. LastMonth /\ LastYear \in Nat
  BY <1>1, CalendarAssumption DEF AdvanceInv, MonthInv
<1>3. MonthInv'
  BY <1>1, <1>2 DEF MonthInv
<1>4. SearchedMonth = <<year, month>> /\ SearchedMonth' = <<year, month>>
  BY <1>1 DEF SearchedMonth
<1>5. Stage < Stage'
  BY <1>1 DEF Stage
<1>6. QED
  BY <1>1, <1>2, <1>3, <1>4, <1>5 DEF Onward

LEMMA AdvanceWeekday ==
    ASSUME AdvanceInv, OtherWeekday
    PROVE  /\ MonthInv'
           /\ base \in DateTimes /\ base' \in DateTimes /\ Before(base, base')
<1>1. /\ pc = "check" /\ pc' = "minute" /\ year <= LastYear /\ ~NoSuchDay
      /\ base' = EndOfDay
  BY DEF OtherWeekday
<1>2. /\ base \in DateTimes /\ Before(base, nextTime)
      /\ hour \in 0 .. LastHour /\ minute \in 0 .. LastMinute
      /\ year \in Nat /\ month \in 1 .. LastMonth /\ day \in 1 .. LastDay
  BY <1>1, CheckFacts DEF AdvanceInv, Ahead
<1>3. EndOfDay \in DateTimes
  BY <1>1, DateExists DEF AdvanceInv
<1>4. /\ EndOfDay.year = year /\ EndOfDay.month = month /\ EndOfDay.day = day
      /\ EndOfDay.hour = LastHour /\ EndOfDay.minute = LastMinute
      /\ nextTime.year = year /\ nextTime.month = month /\ nextTime.day = day
      /\ nextTime.hour = hour /\ nextTime.minute = minute
  BY DEF EndOfDay, nextTime
<1>5. Before(base, EndOfDay)
  BY <1>2, <1>4, InstantFields, CalendarAssumption DEF Before
<1>6. MonthInv'
  BY <1>1 DEF MonthInv
<1>7. QED
  BY <1>1, <1>2, <1>3, <1>5, <1>6

LEMMA AdvanceNext ==
    ASSUME AdvanceInv, [NextStep]_vars
    PROVE  AdvanceInv' /\ (Search => Onward \/
             (base \in DateTimes /\ base' \in DateTimes /\ Before(base, base')))
<1>1. CrontabInv'
  BY CrontabNext DEF AdvanceInv
<1>2. CASE Search
  BY <1>1, <1>2, AdvanceInMonth, AdvanceMonth, AdvanceAtCheck, AdvanceWeekday
     DEF Search, AdvanceInv
<1>3. CASE ~Search
  <2>1. \/ pc' \in {"parse", "rejected", "parsed", "minute"}
        \/ UNCHANGED vars
    BY <1>3 DEF NextStep, ReadTerm, NextField, GetNextOccurrence
  <2>2. MonthInv'
    BY <2>1 DEF MonthInv, AdvanceInv, vars, cursor
  <2>3. QED
    BY <1>1, <1>3, <2>2 DEF AdvanceInv
<1>4. QED
  BY <1>2, <1>3

\* Each recursive call of GetNextOccurrence is for a later instant of the
\* calendar, each retry of a call for a later month, none beyond the year after
\* the last: so the search ends, whatever the crontab and the calendar.
THEOREM EveryStepAdvances == Spec => SearchAdvances
<1>1. Init => AdvanceInv
  BY CrontabInit DEF Init, AdvanceInv, MonthInv
<1>2. AdvanceInv /\ [NextStep]_vars =>
        [Search =>
           \/ base \in DateTimes /\ base' \in DateTimes /\ Before(base, base')
           \/ /\ base' = base
              /\ SearchedMonth' \in (1 .. LastYear + 1) \X (1 .. LastMonth)
              /\ \/ LaterMonth(SearchedMonth, SearchedMonth')
                 \/ SearchedMonth' = SearchedMonth /\ Stage < Stage']_vars
  BY AdvanceNext DEF Onward
<1>3. AdvanceInv /\ [NextStep]_vars => AdvanceInv'
  BY AdvanceNext
<1>4. QED
  BY <1>1, <1>2, <1>3, PTL DEF Spec, SearchAdvances

=============================================================================
