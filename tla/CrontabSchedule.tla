-------------------------- MODULE CrontabSchedule --------------------------
(***************************************************************************)
(* Libs/Sentinel.Scheduler, GeneralScheduler/Cron, CrontabSchedule.cs: the *)
(* five fields of a crontab are parsed one after the other, then           *)
(* GetNextOccurrence searches the next instant they allow, minutes first.  *)
(* One action per section of the search; the cursor is the five locals     *)
(* year ... minute, base is the baseTime of the current (recursive) call.  *)
(*                                                                         *)
(* The calendar is a parameter.  endTime is DateTime.MaxValue, as in       *)
(* GetNextOccurrence(baseTime): the two tests for it cannot succeed, since *)
(* the last month of the calendar has a LastDay and the search throws as   *)
(* soon as it looks beyond the last year.                                  *)
(***************************************************************************)
EXTENDS CrontabField

CONSTANTS
    LastMinute, LastHour, LastDay, LastMonth, LastWeekday,
                        \* the greatest values of the fields: 59, 23, ...
    LastYear,           \* the last year of the calendar
    SureDays,           \* the days every month has: 28
    DaysInMonth(_, _),  \* of a year and a month
    DayOfWeek(_, _, _)  \* of a year, a month and a day

ASSUME CalendarAssumption ==
    /\ {LastMinute, LastHour, LastWeekday} \subseteq Nat
    /\ {LastDay, LastMonth, LastYear, SureDays} \subseteq Nat \ {0}
    /\ \A n \in {LastMinute, LastHour, LastDay, LastMonth, LastWeekday} :
         n + 1 < IntMax
    /\ \A y \in 1 .. LastYear, m \in 1 .. LastMonth :
         DaysInMonth(y, m) \in SureDays .. LastDay
    /\ \A y \in 1 .. LastYear : DaysInMonth(y, LastMonth) = LastDay

VARIABLES
    pc,         \* the section the code is in
    kind,       \* the field being parsed
    fields,     \* _minutes, _hours, _days, _months, _daysOfWeek
    base,       \* baseTime of the current call
    origin,     \* history: baseTime of the first call
    year, month, day, hour, minute

cursor == <<year, month, day, hour, minute>>

vars == <<pc, kind, fields, base, origin, cursor>>

Kinds == {"minute", "hour", "day", "month", "dayOfWeek"}

Impl ==
    [k \in Kinds |->
       [min |-> IF k \in {"day", "month"} THEN 1 ELSE 0,
        max |-> CASE k = "minute"    -> LastMinute
                  [] k = "hour"      -> LastHour
                  [] k = "day"       -> LastDay
                  [] k = "month"     -> LastMonth
                  [] k = "dayOfWeek" -> LastWeekday]]

FieldAfter ==
    [k \in Kinds \ {"dayOfWeek"} |->
        CASE k = "minute" -> "hour"
          [] k = "hour"   -> "day"
          [] k = "day"    -> "month"
          [] k = "month"  -> "dayOfWeek"]

Instant == [year : 1 .. LastYear, month : 1 .. LastMonth, day : 1 .. LastDay,
            hour : 0 .. LastHour, minute : 0 .. LastMinute]

\* DateTime values, to the minute.
DateTimes == {t \in Instant : t.day <= DaysInMonth(t.year, t.month)}

TypeOK ==
    /\ pc \in {"parse", "parsed", "minute", "hour", "day", "month", "check",
               "answered", "thrown", "rejected"}
    /\ kind \in Kinds
    /\ DOMAIN fields = Kinds
    /\ \A k \in Kinds :
         fields[k] \in [bits : SUBSET (Impl[k].min .. Impl[k].max),
                       minValueSet : Nat, maxValueSet : Int]
    /\ base \in Instant
    /\ origin \in Instant
    /\ {year, month, day, hour, minute} \subseteq Int

Init ==
    /\ pc = "parse"
    /\ kind = "minute"
    /\ fields = [k \in Kinds |-> EmptyField]
    /\ base = [year |-> 1, month |-> 1, day |-> 1, hour |-> 0, minute |-> 0]
    /\ origin = base
    /\ year = nil /\ month = nil /\ day = nil /\ hour = nil /\ minute = nil

-----------------------------------------------------------------------------
(***************************************************************************)
(* Parse.                                                                  *)
(***************************************************************************)
ReadTerm(term) ==
    /\ pc = "parse"
    /\ IF Rejected(Impl[kind], term)
       THEN /\ pc' = "rejected"
            /\ UNCHANGED fields
       ELSE /\ fields' = [fields EXCEPT
                            ![kind] = Accumulate(@, Impl[kind], term)]
            /\ UNCHANGED pc
    /\ UNCHANGED <<kind, base, origin, cursor>>

\* A field has a term at least.
NextField ==
    /\ pc = "parse"
    /\ fields[kind].bits # {}
    /\ IF kind = "dayOfWeek"
       THEN pc' = "parsed" /\ UNCHANGED kind
       ELSE kind' = FieldAfter[kind] /\ UNCHANGED pc
    /\ UNCHANGED <<fields, base, origin, cursor>>

-----------------------------------------------------------------------------
(***************************************************************************)
(* GetNextOccurrence.                                                      *)
(***************************************************************************)
FirstMinute == GetFirst(fields["minute"])
FirstHour   == GetFirst(fields["hour"])
FirstDay    == GetFirst(fields["day"])
FirstMonth  == GetFirst(fields["month"])

GetNextOccurrence(baseTime) ==
    /\ pc = "parsed"
    /\ pc' = "minute"
    /\ base' = baseTime
    /\ origin' = baseTime
    /\ UNCHANGED <<kind, fields, cursor>>

SearchMinute ==
    /\ pc = "minute"
    /\ pc' = "hour"
    /\ year' = base.year
    /\ month' = base.month
    /\ day' = base.day
    /\ LET next == Next(fields["minute"], base.minute + 1) IN
       IF next = nil
       THEN minute' = FirstMinute /\ hour' = base.hour + 1
       ELSE minute' = next        /\ hour' = base.hour
    /\ UNCHANGED <<kind, fields, base, origin>>

\* Mutant: a later hour keeps the minute that was found for this one.
MutSearchHour ==
    /\ pc = "hour"
    /\ pc' = "day"
    /\ LET next == Next(fields["hour"], hour) IN
       IF next = nil
       THEN minute' = FirstMinute /\ hour' = FirstHour /\ day' = day + 1
       ELSE hour' = next /\ UNCHANGED <<day, minute>>
    /\ UNCHANGED <<kind, fields, base, origin, year, month>>

SearchHour ==
    /\ pc = "hour"
    /\ pc' = "day"
    /\ LET next == Next(fields["hour"], hour) IN
       IF next = nil
       THEN minute' = FirstMinute /\ hour' = FirstHour /\ day' = day + 1
       ELSE /\ hour' = next
            /\ minute' = IF next > base.hour THEN FirstMinute ELSE minute
            /\ UNCHANGED day
    /\ UNCHANGED <<kind, fields, base, origin, year, month>>

SearchDay ==
    /\ pc = "day"
    /\ pc' = "month"
    /\ day' = Next(fields["day"], day)
    /\ UNCHANGED <<kind, fields, base, origin, year, month, hour, minute>>

\* From RetryDayMonth on: without a day in this month its successor is tried,
\* without a month in this year the next year, each from its beginning.
SearchMonth ==
    /\ pc = "month"
    /\ pc' = "check"
    /\ LET next == Next(fields["month"], IF day = nil THEN month + 1 ELSE month)
           newMonth == next = nil \/ next > base.month
       IN  /\ month' = IF next = nil THEN FirstMonth ELSE next
           /\ year'  = IF next = nil THEN year + 1 ELSE year
           /\ day'   = IF newMonth \/ day = nil THEN FirstDay ELSE day
           /\ IF newMonth \/ day = nil \/ day > base.day
              THEN hour' = FirstHour /\ minute' = FirstMinute
              ELSE UNCHANGED <<hour, minute>>
    /\ UNCHANGED <<kind, fields, base, origin>>

DateChanged == day # base.day \/ month # base.month \/ year # base.year

NoSuchDay == day > SureDays /\ DateChanged /\ day > DaysInMonth(year, month)

\* Mutant: the last year is taken for one beyond the calendar.
MutBeyondCalendar ==
    /\ pc = "check"
    /\ year >= LastYear
    /\ pc' = "thrown"
    /\ UNCHANGED <<kind, fields, base, origin, cursor>>

\* No DateTime, no month of the calendar: both throw.
BeyondCalendar ==
    /\ pc = "check"
    /\ year > LastYear
    /\ pc' = "thrown"
    /\ UNCHANGED <<kind, fields, base, origin, cursor>>

\* Mutant: the month is searched again with the day it does not have.
MutRetryDayMonth ==
    /\ pc = "check"
    /\ year <= LastYear
    /\ NoSuchDay
    /\ pc' = "month"
    /\ UNCHANGED <<kind, fields, base, origin, cursor>>

RetryDayMonth ==
    /\ pc = "check"
    /\ year <= LastYear
    /\ NoSuchDay
    /\ pc' = "month"
    /\ day' = nil
    /\ UNCHANGED <<kind, fields, base, origin, year, month, hour, minute>>

nextTime == [year |-> year, month |-> month, day |-> day,
             hour |-> hour, minute |-> minute]

\* Mutant: the search goes on from the beginning of the same day.
MutEndOfDay == [nextTime EXCEPT !.hour = 0, !.minute = 0]

EndOfDay == [year |-> year, month |-> month, day |-> day,
             hour |-> LastHour, minute |-> LastMinute]

\* The last call, which goes on from the end of the day.
OtherWeekday ==
    /\ pc = "check"
    /\ year <= LastYear
    /\ ~NoSuchDay
    /\ ~Contains(fields["dayOfWeek"], DayOfWeek(year, month, day))
    /\ pc' = "minute"
    /\ base' = EndOfDay
    /\ UNCHANGED <<kind, fields, origin, cursor>>

Return ==
    /\ pc = "check"
    /\ year <= LastYear
    /\ ~NoSuchDay
    /\ Contains(fields["dayOfWeek"], DayOfWeek(year, month, day))
    /\ pc' = "answered"
    /\ UNCHANGED <<kind, fields, base, origin, cursor>>

Search ==
    \/ SearchMinute
    \/ SearchHour
    \/ SearchDay
    \/ SearchMonth
    \/ BeyondCalendar
    \/ RetryDayMonth
    \/ OtherWeekday
    \/ Return

NextStep ==
    \/ \E term \in Term : ReadTerm(term)
    \/ NextField
    \/ \E t \in DateTimes : GetNextOccurrence(t)
    \/ Search

Spec == Init /\ [][NextStep]_vars

\* The search is sequential code: once started it runs.
FairSpec == Spec /\ WF_vars(Search)

-----------------------------------------------------------------------------
(***************************************************************************)
(* Properties.                                                             *)
(***************************************************************************)
Before(s, t) ==
    \/ s.year < t.year
    \/ /\ s.year = t.year
       /\ \/ s.month < t.month
          \/ /\ s.month = t.month
             /\ \/ s.day < t.day
                \/ /\ s.day = t.day
                   /\ \/ s.hour < t.hour
                      \/ s.hour = t.hour /\ s.minute < t.minute

\* What the text of a crontab says of an instant.
Matches(t) ==
    /\ Contains(fields["minute"], t.minute)
    /\ Contains(fields["hour"], t.hour)
    /\ Contains(fields["day"], t.day)
    /\ Contains(fields["month"], t.month)
    /\ Contains(fields["dayOfWeek"], DayOfWeek(t.year, t.month, t.day))

\* Every field that was parsed is coherent: the search may rely on the least
\* and the greatest value that are kept beside the set, also after lists,
\* ranges given backwards and steps that miss the end of their range.
FieldsCoherent ==
    /\ \A k \in Kinds : fields[k].bits # {} => Coherent(fields[k])
    /\ pc \notin {"parse", "rejected"} =>
         \A k \in Kinds : fields[k].bits # {}

\* GetNextOccurrence returns an instant of the calendar that the crontab
\* allows, later than baseTime, and skips none: through the resets of the
\* smaller units, the months without the day, and the calls for the weekday.
NextIsFirst ==
    pc = "answered" =>
        /\ nextTime \in DateTimes
        /\ Matches(nextTime)
        /\ Before(origin, nextTime)
        /\ \A t \in DateTimes :
             Before(origin, t) /\ Before(t, nextTime) => ~Matches(t)

\* It throws only for a crontab that never occurs again before the end of the
\* calendar.
ThrowsForNone ==
    pc = "thrown" => \A t \in DateTimes : Before(origin, t) => ~Matches(t)

\* Where the search is within a month: a retry comes after the check.
Stage ==
    CASE pc = "minute" -> 0
      [] pc = "hour"   -> 1
      [] pc = "day"    -> 2
      [] pc = "month"  -> IF day = nil THEN 5 ELSE 3
      [] pc = "check"  -> 4
      [] OTHER         -> 6

SearchedMonth ==
    IF pc = "minute" THEN <<base.year, base.month>> ELSE <<year, month>>

LaterMonth(m, n) == m[1] < n[1] \/ (m[1] = n[1] /\ m[2] < n[2])

\* Why the retries and the recursive calls for the weekday come to an end:
\* a call starts at a later instant than its caller, a retry leads to a later
\* month, neither looks further than the year behind the calendar, and within
\* a month the sections follow one another.
SearchAdvances ==
    [][Search =>
         \/ base \in DateTimes /\ base' \in DateTimes /\ Before(base, base')
         \/ /\ base' = base
            /\ SearchedMonth' \in (1 .. LastYear + 1) \X (1 .. LastMonth)
            /\ \/ LaterMonth(SearchedMonth, SearchedMonth')
               \/ SearchedMonth' = SearchedMonth /\ Stage < Stage']_vars

\* The retries and the calls for the weekday come to an end.
SearchEnds == pc = "minute" ~> pc \in {"answered", "thrown"}
=============================================================================
