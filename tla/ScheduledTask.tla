---------------------------- MODULE ScheduledTask ----------------------------
(***************************************************************************)
(* One entry of the in-memory schedule: Libs/Sentinel.Scheduler,           *)
(* GeneralScheduler/ScheduledTask[T].cs, with the part of CrontabSchedule  *)
(* it relies on.  Times are UTC instants counted in an arbitrary unit.     *)
(*                                                                         *)
(* A crontab string is abstracted to what the callers can tell apart:      *)
(*   - Malformed    the parser throws                                      *)
(*   - NeverOccurs  it parses, but GetNextOccurrence throws (31 February)  *)
(*   - the others   occur at the instants Occurrences[s] of a cycle of the *)
(*                  calendar (400 years), again in every cycle             *)
(***************************************************************************)
EXTENDS Integers

CONSTANTS
    Schedules,      \* every crontab string a resource can carry
    Malformed,      \* those CrontabSchedule.Parse rejects
    NeverOccurs,    \* those with no occurrence before the calendar ends
    Cycle,          \* the length of the calendar's cycle
    Occurrences,    \* when each schedule occurs in it
    FallBackAt,     \* the instant the local clock is set back ...
    FallBackBy      \* ... and by how much (0: the zone has no such change)

Proper == Schedules \ (Malformed \cup NeverOccurs)

ASSUME ScheduleAssumption ==
    /\ Malformed \cup NeverOccurs \subseteq Schedules
    /\ Malformed \cap NeverOccurs = {}
    /\ Cycle \in Nat \ {0}
    /\ DOMAIN Occurrences = Proper
    /\ \A s \in Proper : /\ Occurrences[s] \subseteq 0 .. Cycle - 1
                         /\ Occurrences[s] # {}
    /\ FallBackAt \in Nat
    /\ FallBackBy \in Nat

\* DateTime's default value: LastRunTime of a task that never ran.
Never == -1

Least(S) == CHOOSE i \in S : \A j \in S : i <= j

OccursAt(s, t) == t % Cycle \in Occurrences[s]

\* Mutant: an instant that matches counts as its own next occurrence.
MutGetNextOccurrence(s, t) == Least({u \in t .. t + Cycle : OccursAt(s, u)})

\* The first occurrence strictly after t.
GetNextOccurrence(s, t) == Least({u \in t + 1 .. t + Cycle : OccursAt(s, u)})

\* TimeZoneInfo.ConvertTime: the wall clock of the configured time zone.
Local(t) == IF t < FallBackAt THEN t + FallBackBy ELSE t

\* The instants whose wall-clock time has been on that clock once before.
Repeated == FallBackAt .. FallBackAt + FallBackBy - 1

\* Mutant: NextRunTime keeps DateTime's default.
MutNewTask(item, referenceTime) ==
    [task |-> item, schedule |-> item.schedule,
     lastRunTime |-> Never, nextRunTime |-> Never]

\* Mutant: the constructor sets both times to the reference time.
MutNewTaskRan(item, referenceTime) ==
    [task |-> item, schedule |-> item.schedule,
     lastRunTime |-> referenceTime, nextRunTime |-> referenceTime]

\* The constructor: a new task is due at once, whatever its schedule says.
NewTask(item, referenceTime) ==
    [task |-> item, schedule |-> item.schedule,
     lastRunTime |-> Never, nextRunTime |-> referenceTime]

Increment(t) ==
    [t EXCEPT !.lastRunTime = t.nextRunTime,
              !.nextRunTime = GetNextOccurrence(t.schedule, t.nextRunTime)]

\* Mutant: the next occurrence is computed before anything is assigned.
MutIncrementThrows(t) == t

\* Increment when GetNextOccurrence throws: the first assignment is done.
IncrementThrows(t) == [t EXCEPT !.lastRunTime = t.nextRunTime]

\* Mutant: due at the instant itself.
MutShouldRun(t, currentTime) ==
    /\ Local(t.nextRunTime) <= Local(currentTime)
    /\ \/ t.lastRunTime = Never
       \/ Local(t.lastRunTime) # Local(t.nextRunTime)

ShouldRun(t, currentTime) ==
    /\ Local(t.nextRunTime) < Local(currentTime)
    /\ \/ t.lastRunTime = Never
       \/ Local(t.lastRunTime) # Local(t.nextRunTime)
=============================================================================
