--------------------- MODULE SubscribeBackgroundService ---------------------
(***************************************************************************)
(* How a background service reports its health: its handlers say that it   *)
(* hears messages, a timer says that it does not, and a health query says  *)
(* that nothing has been said for an hour.  The three run on threads of    *)
(* their own and share "isTriggered" and the last report without a lock.   *)
(*                                                                         *)
(* SubscribeBackgroundService (queue messages) and BackgroundService-      *)
(* WithHealthCheck with WatcherBackgroundService (watch events) are the    *)
(* same program but for one statement, which "Triggers" stands for.        *)
(*                                                                         *)
(* Between two statements of a handler, of the timer's callback or of a    *)
(* query no time passes: the clock stands for minutes.                     *)
(***************************************************************************)
EXTENDS Naturals

CONSTANTS
    Periods,        \* what "timeout" can be for a service
    Hour,           \* the hour of CheckHealthAsync
    Triggers,       \* TRUE: the handler sets isTriggered; FALSE: a watcher
    Handlers,       \* executions of the handler that can overlap
    MaxTime         \* bound on the clock

ASSUME ServiceAssumption ==
    /\ Periods \subseteq Nat \ {0}
    /\ Hour \in Nat
    /\ Triggers \in BOOLEAN
    /\ MaxTime \in Nat

VARIABLES
    period,         \* "timeout": the period of this service's timer
    now,            \* the clock
    listening,      \* "no", "yes", "failed": the subscription
    isTriggered,    \* a message has come since the timer last looked
    status,         \* the last report
    lastProcess,    \* ... and its time
    due,            \* when the timer fires next
    callback,       \* next statement of the timer's callback
    handling,       \* next statement of each execution of the handler
    query,          \* next statement of CheckHealthAsync
    heardAt         \* history: time of the last message (0: of the start)

vars == <<period, now, listening, isTriggered, status, lastProcess, due,
          callback, handling, query, heardAt>>

reportVars == <<status, lastProcess>>

\* The timer never fires late, its next time is less than a period away.
TypeOK ==
    /\ period \in Periods
    /\ now \in Nat
    /\ listening \in {"no", "yes", "failed"}
    /\ isTriggered \in BOOLEAN
    /\ status \in {"Healthy", "Unhealthy", "Degraded"}
    /\ lastProcess \in 0 .. now
    /\ due \in now .. now + period
    /\ callback \in {"idle", "report", "reset"}
    /\ handling \in [Handlers -> {"idle", "report"}]
    /\ query \in {"idle", "degrade"}
    /\ heardAt \in 0 .. now

\* The constructor reports the service healthy, ExecuteAsync creates the timer
\* with no delay before its first time.
Init ==
    /\ period \in Periods
    /\ now = 0
    /\ listening = "no"
    /\ isTriggered = TRUE
    /\ status = "Healthy"
    /\ lastProcess = 0
    /\ due = 0
    /\ callback = "idle"
    /\ handling = [h \in Handlers |-> "idle"]
    /\ query = "idle"
    /\ heardAt = 0

-----------------------------------------------------------------------------
(***************************************************************************)
(* BackgroundServiceHealthCheck.                                           *)
(***************************************************************************)
Report(s) ==
    /\ status' = s
    /\ lastProcess' = now

\* CheckHealthAsync finds the last report more than an hour old ...
CheckHealth ==
    /\ query = "idle"
    /\ now > lastProcess + Hour
    /\ query' = "degrade"
    /\ UNCHANGED <<period, now, listening, isTriggered, reportVars, due,
                   callback, handling, heardAt>>

\* ... and reports that, whatever has been reported meanwhile.
Degrade ==
    /\ query = "degrade"
    /\ Report("Degraded")
    /\ query' = "idle"
    /\ UNCHANGED <<period, now, listening, isTriggered, due, callback,
                   handling, heardAt>>

-----------------------------------------------------------------------------
(***************************************************************************)
(* The subscription and the handler.                                       *)
(***************************************************************************)
\* SubscribeAsync is not awaited: it may also never come to listen.
Subscribe ==
    /\ listening = "no"
    /\ listening' = "yes"
    /\ UNCHANGED <<period, now, isTriggered, reportVars, due, callback,
                   handling, query, heardAt>>

SubscribeThrows ==
    /\ listening = "no"
    /\ listening' = "failed"
    /\ Report("Unhealthy")
    /\ UNCHANGED <<period, now, isTriggered, due, callback, handling, query,
                   heardAt>>

\* Mutant: the handler of a queue sets isTriggered no more than a watcher's.
MutReceive(h) ==
    /\ listening = "yes"
    /\ handling[h] = "idle"
    /\ handling' = [handling EXCEPT ![h] = "report"]
    /\ heardAt' = now
    /\ UNCHANGED <<period, now, listening, isTriggered, reportVars, due,
                   callback, query>>

\* A message or an event arrives.
Receive(h) ==
    /\ listening = "yes"
    /\ handling[h] = "idle"
    /\ handling' = [handling EXCEPT ![h] = "report"]
    /\ isTriggered' = (isTriggered \/ Triggers)
    /\ heardAt' = now
    /\ UNCHANGED <<period, now, listening, reportVars, due, callback, query>>

ReportHealthy(h) ==
    /\ handling[h] = "report"
    /\ handling' = [handling EXCEPT ![h] = "idle"]
    /\ Report("Healthy")
    /\ UNCHANGED <<period, now, listening, isTriggered, due, callback, query,
                   heardAt>>

-----------------------------------------------------------------------------
(***************************************************************************)
(* HealthCheckFailIfQueueNotUsed, the timer's callback.                    *)
(***************************************************************************)
\* Mutant: the timer is given the wrong period.
MutFire ==
    /\ callback = "idle"
    /\ now = due
    /\ due' = now + period + Hour
    /\ callback' = IF isTriggered THEN "reset" ELSE "report"
    /\ UNCHANGED <<period, now, listening, isTriggered, reportVars, handling,
                   query, heardAt>>

\* The callback tests isTriggered.
Fire ==
    /\ callback = "idle"
    /\ now = due
    /\ due' = now + period
    /\ callback' = IF isTriggered THEN "reset" ELSE "report"
    /\ UNCHANGED <<period, now, listening, isTriggered, reportVars, handling,
                   query, heardAt>>

\* Mutant: silence is reported once, not in every period.
MutReportSilence ==
    /\ callback = "report"
    /\ IF status = "Healthy" THEN Report("Unhealthy") ELSE UNCHANGED reportVars
    /\ callback' = "reset"
    /\ UNCHANGED <<period, now, listening, isTriggered, due, handling, query,
                   heardAt>>

ReportSilence ==
    /\ callback = "report"
    /\ Report("Unhealthy")
    /\ callback' = "reset"
    /\ UNCHANGED <<period, now, listening, isTriggered, due, handling, query,
                   heardAt>>

\* Mutant: isTriggered is only reset when silence was reported.
MutReset ==
    /\ callback = "reset"
    /\ isTriggered' = (isTriggered /\ status = "Healthy")
    /\ callback' = "idle"
    /\ UNCHANGED <<period, now, listening, reportVars, due, handling, query,
                   heardAt>>

Reset ==
    /\ callback = "reset"
    /\ isTriggered' = FALSE
    /\ callback' = "idle"
    /\ UNCHANGED <<period, now, listening, reportVars, due, handling, query,
                   heardAt>>

-----------------------------------------------------------------------------
ClockTick ==
    /\ now < MaxTime
    /\ now < due
    /\ callback = "idle"
    /\ query = "idle"
    /\ \A h \in Handlers : handling[h] = "idle"
    /\ now' = now + 1
    /\ UNCHANGED <<period, listening, isTriggered, reportVars, due, callback,
                   handling, query, heardAt>>

Handle(h) == Receive(h) \/ ReportHealthy(h)

Next ==
    \/ ClockTick
    \/ Subscribe
    \/ SubscribeThrows
    \/ \E h \in Handlers : Handle(h)
    \/ Fire
    \/ ReportSilence
    \/ Reset
    \/ CheckHealth
    \/ Degrade

Spec == Init /\ [][Next]_vars

-----------------------------------------------------------------------------
(***************************************************************************)
(* Properties.                                                             *)
(***************************************************************************)
\* The timer resets isTriggered after it has tested it, and may forget a
\* message or report over one; still a service is never called healthy longer
\* than two periods after its last message.
HealthyIsRecent == status = "Healthy" => now <= heardAt + 2 * period

\* While two periods fit into the hour of CheckHealthAsync, its rule never
\* overwrites what the handlers and the timer report.
NeverDegraded == 2 * period <= Hour => status # "Degraded"

\* A service is reported silent only when a period has passed since its last
\* message, or when the message comes while the callback is running.
SilenceIsReal ==
    [][ReportSilence => (heardAt + period <= now \/ heardAt = now)]_vars

\* What the report says: a period has passed without any message.
SilenceIsExact == [][ReportSilence => heardAt + period <= now]_vars
=============================================================================
