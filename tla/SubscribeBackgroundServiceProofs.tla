------------------ MODULE SubscribeBackgroundServiceProofs ------------------
(***************************************************************************)
(* Theorems about SubscribeBackgroundService for every period, hour and    *)
(* number of overlapping handlers, with and without the statement that     *)
(* sets isTriggered.                                                       *)
(***************************************************************************)
EXTENDS SubscribeBackgroundService, TLAPS

\* An execution of the handler is about to report.
Reporting == \E h \in Handlers : handling[h] = "report"

\* While the callback runs the timer has just been set again.
TimerSet == callback # "idle" => due = now + period

\* A handler that is about to report has just got its message.
JustHeard == Reporting => heardAt = now

\* A healthy service: a message of this period is remembered in isTriggered,
\* one of the period before is not, and an older one cannot be.
HeardInv ==
    /\ status = "Healthy" => now <= heardAt + 2 * period
    /\ status = "Healthy" /\ callback # "report" => due <= heardAt + 2 * period
    /\ status = "Healthy" /\ callback = "idle" /\ isTriggered
         => due <= heardAt + period

\* The same for the last report of any kind, unless one is just coming.
ReportedInv ==
    /\ now <= lastProcess + 2 * period
    /\ callback # "report" /\ ~Reporting => due <= lastProcess + 2 * period
    /\ callback = "idle" /\ isTriggered /\ ~Reporting
         => due <= lastProcess + period

DegradedInv == 2 * period <= Hour => query = "idle" /\ status # "Degraded"

\* Once isTriggered is reset the last message is older than the period that
\* has begun.
SilentInv ==
    Triggers =>
        /\ callback = "idle" /\ ~isTriggered => heardAt + period <= due
        /\ callback = "report" => heardAt + period <= now \/ heardAt = now

HealthInv ==
    /\ TypeOK
    /\ TimerSet
    /\ JustHeard
    /\ HeardInv
    /\ ReportedInv
    /\ DegradedInv
    /\ SilentInv

LEMMA HealthInit == Init => HealthInv
BY ServiceAssumption DEF Init, HealthInv, TypeOK, TimerSet, JustHeard,
   Reporting, HeardInv, ReportedInv, DegradedInv, SilentInv

LEMMA HealthNext == HealthInv /\ [Next]_vars => HealthInv'
<1> SUFFICES ASSUME HealthInv, [Next]_vars PROVE HealthInv'
  OBVIOUS
<1> USE ServiceAssumption DEF reportVars, Report
<1>1. TypeOK /\ TimerSet /\ JustHeard /\ HeardInv /\ ReportedInv /\ DegradedInv
      /\ SilentInv
  BY DEF HealthInv
<1>2. CASE ClockTick
  <2>1. ~Reporting /\ ~Reporting'
    BY <1>2 DEF ClockTick, Reporting
  <2>2. QED
    BY <1>1, <1>2, <2>1 DEF HealthInv, TypeOK, TimerSet, JustHeard, HeardInv,
       ReportedInv, DegradedInv, SilentInv, ClockTick
<1>3. CASE Subscribe
  BY <1>1, <1>3 DEF HealthInv, TypeOK, TimerSet, JustHeard, HeardInv,
     ReportedInv, DegradedInv, SilentInv, Reporting, Subscribe
<1>4. CASE SubscribeThrows
  <2>1. Reporting' = Reporting
    BY <1>4 DEF SubscribeThrows, Reporting
  <2>2. QED
    BY <1>1, <1>4, <2>1 DEF HealthInv, TypeOK, TimerSet, JustHeard, HeardInv,
       ReportedInv, DegradedInv, SilentInv, SubscribeThrows
<1>5. ASSUME NEW h \in Handlers, Receive(h) PROVE HealthInv'
  <2>1. Reporting'
    BY <1>1, <1>5 DEF TypeOK, Receive, Reporting
  <2>2. TypeOK'
    BY <1>1, <1>5 DEF TypeOK, Receive
  <2>3. TimerSet' /\ JustHeard' /\ HeardInv' /\ DegradedInv' /\ SilentInv'
    BY <1>1, <1>5 DEF TypeOK, TimerSet, JustHeard, HeardInv, DegradedInv,
       SilentInv, Receive
  <2>4. ReportedInv'
    BY <1>1, <1>5, <2>1 DEF ReportedInv, Receive
  <2>5. QED
    BY <2>2, <2>3, <2>4 DEF HealthInv
<1>6. ASSUME NEW h \in Handlers, ReportHealthy(h) PROVE HealthInv'
  <2>1. Reporting /\ heardAt = now
    BY <1>1, <1>6 DEF ReportHealthy, Reporting, JustHeard
  <2>2. TypeOK'
    BY <1>1, <1>6 DEF TypeOK, ReportHealthy
  <2>3. TimerSet' /\ JustHeard' /\ HeardInv' /\ DegradedInv' /\ SilentInv'
    BY <1>1, <1>6, <2>1 DEF TypeOK, TimerSet, JustHeard, HeardInv, DegradedInv,
       SilentInv, ReportHealthy
  <2>4. ReportedInv'
    BY <1>1, <1>6 DEF TypeOK, ReportedInv, ReportHealthy
  <2>5. QED
    BY <2>2, <2>3, <2>4 DEF HealthInv
<1>7. CASE Fire
  <2>1. Reporting' = Reporting
    BY <1>7 DEF Fire, Reporting
  <2>2. QED
    BY <1>1, <1>7, <2>1 DEF HealthInv, TypeOK, TimerSet, JustHeard, HeardInv,
       ReportedInv, DegradedInv, SilentInv, Fire
<1>8. CASE ReportSilence
  <2>1. Reporting' = Reporting
    BY <1>8 DEF ReportSilence, Reporting
  <2>2. QED
    BY <1>1, <1>8, <2>1 DEF HealthInv, TypeOK, TimerSet, JustHeard, HeardInv,
       ReportedInv, DegradedInv, SilentInv, ReportSilence
<1>9. CASE Reset
  <2>1. Reporting' = Reporting
    BY <1>9 DEF Reset, Reporting
  <2>2. TypeOK' /\ TimerSet' /\ JustHeard' /\ DegradedInv'
    BY <1>1, <1>9, <2>1 DEF TypeOK, TimerSet, JustHeard, DegradedInv, Reset
  <2>3. HeardInv' /\ ReportedInv'
    BY <1>1, <1>9, <2>1 DEF HeardInv, ReportedInv, Reset
  <2>4. heardAt + period <= due
    BY <1>1, <1>9 DEF TypeOK, TimerSet, Reset
  <2>5. SilentInv'
    BY <1>9, <2>4 DEF SilentInv, Reset
  <2>6. QED
    BY <2>2, <2>3, <2>5 DEF HealthInv
<1>10. CASE CheckHealth
  <2>1. Reporting' = Reporting
    BY <1>10 DEF CheckHealth, Reporting
  <2>2. QED
    BY <1>1, <1>10, <2>1 DEF HealthInv, TypeOK, TimerSet, JustHeard, HeardInv,
       ReportedInv, DegradedInv, SilentInv, CheckHealth
<1>11. CASE Degrade
  <2>1. Reporting' = Reporting
    BY <1>11 DEF Degrade, Reporting
  <2>2. QED
    BY <1>1, <1>11, <2>1 DEF HealthInv, TypeOK, TimerSet, JustHeard, HeardInv,
       ReportedInv, DegradedInv, SilentInv, Degrade
<1>12. CASE UNCHANGED vars
  BY <1>1, <1>12 DEF HealthInv, TypeOK, TimerSet, JustHeard, HeardInv,
     ReportedInv, DegradedInv, SilentInv, Reporting, vars
<1>13. QED
  BY <1>2, <1>3, <1>4, <1>5, <1>6, <1>7, <1>8, <1>9, <1>10, <1>11, <1>12
     DEF Next, Handle

LEMMA HealthInvariant == Spec => []HealthInv
BY HealthInit, HealthNext, PTL DEF Spec

\* Every variable keeps its type, and the timer is never late.
THEOREM TypeCorrect == Spec => []TypeOK
BY HealthInvariant, PTL DEF HealthInv

\* A service is never called healthy longer than two periods after its last
\* message, although the callback and the handlers race for isTriggered.
THEOREM HealthyMeansRecent == Spec => []HealthyIsRecent
<1>1. HealthInv => HealthyIsRecent
  BY DEF HealthInv, HeardInv, HealthyIsRecent
<1>2. QED
  BY <1>1, HealthInvariant, PTL

\* The hour of CheckHealthAsync never overwrites a report as long as it is at
\* least two periods long.
THEOREM ReportsAreKept == Spec => []NeverDegraded
<1>1. HealthInv => NeverDegraded
  BY DEF HealthInv, DegradedInv, NeverDegraded
<1>2. QED
  BY <1>1, HealthInvariant, PTL

\* A queue's service is reported silent only after a period without message,
\* or over a message that comes while the callback is running.
THEOREM SilenceNeedsAPeriod ==
    ASSUME Triggers
    PROVE  Spec => SilenceIsReal
<1>1. HealthInv
        => (ReportSilence => (heardAt + period <= now \/ heardAt = now))
  BY DEF HealthInv, SilentInv, ReportSilence
<1>2. QED
  BY <1>1, HealthInvariant, PTL DEF SilenceIsReal
=============================================================================
