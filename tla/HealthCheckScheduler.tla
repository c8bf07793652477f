------------------------ MODULE HealthCheckScheduler ------------------------
(***************************************************************************)
(* The core worker's scheduling of health checks.  Two Quartz jobs share   *)
(* the singleton SchedulerRepository:                                      *)
(*                                                                         *)
(*   HealthCheckSyncSchedulerJob  lists the HealthCheck resources of the   *)
(*       cluster, makes the repository equal to the list                   *)
(*       (SchedulerRepository.Sync), then does the same with the Redis     *)
(*       hash "HealthChecks" (RedisDictionary.Sync);                       *)
(*   BusScheduler  publishes every task that is due and moves it to its    *)
(*       next occurrence.                                                  *)
(*                                                                         *)
(* Nothing orders them: each fires every minute on Quartz's pool, no job   *)
(* is marked DisallowConcurrentExecution, so an execution that takes more  *)
(* than a minute overlaps the next one of the same job.  SyncJobs and      *)
(* BusJobs are the executions of each job that can be under way at once.   *)
(*                                                                         *)
(* ServiceSyncSchedulerJob is here for the one effect the others see, the  *)
(* dictionary of services in memory.                                       *)
(***************************************************************************)
EXTENDS SchedulerRepository, FiniteSets

CONSTANTS
    Keys,           \* "name.namespace" of the health checks
    Services,       \* services a health check can name
    SpecServices,   \* the values of spec.service that resources are given
    Blank,          \* ... the empty one, which is not the name of a service
    InitialPhases,  \* status.phase of a resource when it is created
    SyncJobs,       \* executions of HealthCheckSyncSchedulerJob
    BusJobs,        \* executions of BusScheduler
    Objects,        \* identities of task objects
    NoResource,     \* "this key has no resource / no entry"
    MaxTime,        \* bound on the clock
    MaxRevision,    \* bound on the resource version users' writes reach
    MaxCrashes      \* bound on restarts of the worker

ASSUME BoundAssumption ==
    /\ MaxTime \in Nat
    /\ MaxRevision \in Nat
    /\ MaxCrashes \in Nat
    /\ Blank \notin Services
    /\ InitialPhases \subseteq {"", "AddedtoRedis"}

VARIABLES
    now,            \* the UTC clock
    cluster,        \* key -> HealthCheck resource held by the API server
    revision,       \* the API server's last resource version
    phaseWrites,    \* status writes Execute started and did not await
    servicesDic,    \* K8MemoryRepository.ServicesDic: names of known services
    notFound,       \* Redis hash of checks whose service was not found
    redis,          \* Redis hash "HealthChecks"
    tasks,          \* SchedulerRepository.ScheduledTasks: object references
    heap,           \* what those references point to
    sync,           \* the executions of HealthCheckSyncSchedulerJob
    copied,         \* the executions of BusScheduler: what the constructor
                    \* copied and Execute has not looked at
    bus,            \* ... and the tasks Execute has still to publish
    sent,           \* history: occurrences accepted by the message broker
    syncOverlap,    \* history: two executions were inside Sync together
                    \* since the worker started
    busOverlap,     \* history: two executions were ever under way together
    disturbed,      \* history: executions during whose Redis synchronisation
                    \* another one wrote the hash
    crashes         \* history: number of restarts

clusterVars == <<cluster, revision, phaseWrites>>
redisVars   == <<redis, notFound>>
repoVars    == <<tasks, heap>>
historyVars == <<syncOverlap, busOverlap, disturbed, crashes>>

vars == <<now, cluster, revision, phaseWrites, servicesDic, notFound, redis,
          tasks, heap, sync, copied, bus, sent, syncOverlap, busOverlap,
          disturbed, crashes>>

Phase    == {"", "AddedtoRedis"}
Resource == [uid : Nat, schedule : Schedules, service : SpecServices,
             phase : Phase, rev : Nat]

\* HealthCheckResourceV1, as far as the jobs look at it.
Item == [key : Keys, uid : Nat, schedule : Schedules, rev : Nat,
         related : BOOLEAN]

ASSUME NoResourceAssumption == NoResource \notin Item

TaskRecord == [task : Item, schedule : Schedules,
               lastRunTime : Nat \cup {Never}, nextRunTime : Nat]

Idle == [pc |-> "idle", items |-> {}, adds |-> {}, removes |-> {},
         updates |-> {}, built |-> {}, stale |-> {}]

\* What a task object that is not in the list yet was constructed from: its
\* crontab has been parsed.
Construction == [item : {it \in Item : it.schedule \notin Malformed},
                 referenceTime : Nat]

SyncExecution ==
    [pc : {"idle", "listed", "sync", "redisAdd", "redisRemove"},
     items : SUBSET Item, adds : SUBSET Item, removes : SUBSET Objects,
     updates : SUBSET Item, built : SUBSET Construction, stale : SUBSET Keys]

TypeOK ==
    /\ now \in Nat
    /\ cluster \in [Keys -> Resource \cup {NoResource}]
    /\ revision \in Nat
    /\ phaseWrites \subseteq [key : Keys, rev : Nat]
    /\ servicesDic \subseteq Services
    /\ notFound \subseteq Keys
    /\ redis \in [Keys -> Item \cup {NoResource}]
    /\ tasks \in Seq(Objects)
    /\ heap \in [Objects -> TaskRecord \cup {NoResource}]
    /\ sync \in [SyncJobs -> SyncExecution]
    /\ copied \in [BusJobs -> SUBSET Objects]
    /\ bus \in [BusJobs -> SUBSET Objects]
    /\ sent \subseteq [uid : Nat, occurrence : Nat, replaced : BOOLEAN]
    /\ syncOverlap \in BOOLEAN
    /\ busOverlap \in BOOLEAN
    /\ disturbed \subseteq SyncJobs
    /\ crashes \in Nat

Init ==
    /\ now = 0
    /\ cluster = [k \in Keys |-> NoResource]
    /\ revision = 0
    /\ phaseWrites = {}
    /\ servicesDic = {}
    /\ notFound = {}
    /\ redis = [k \in Keys |-> NoResource]
    /\ tasks = <<>>
    /\ heap = [o \in Objects |-> NoResource]
    /\ sync = [j \in SyncJobs |-> Idle]
    /\ copied = [j \in BusJobs |-> {}]
    /\ bus = [j \in BusJobs |-> {}]
    /\ sent = {}
    /\ syncOverlap = FALSE
    /\ busOverlap = FALSE
    /\ disturbed = {}
    /\ crashes = 0

-----------------------------------------------------------------------------
(***************************************************************************)
(* The environment: the clock, the users of the cluster, the other sync    *)
(* job, the loss of the process.                                           *)
(***************************************************************************)
Present == {k \in Keys : cluster[k] # NoResource}

ClockTick ==
    /\ now < MaxTime
    /\ now' = now + 1
    /\ UNCHANGED <<clusterVars, servicesDic, redisVars, repoVars, sync, copied,
                   bus, sent, historyVars>>

\* A user creates a resource.  Its uid is new even if the key is not.
CreateResource(k) ==
    /\ cluster[k] = NoResource
    /\ revision < MaxRevision
    /\ revision' = revision + 1
    /\ \E s \in Schedules, svc \in SpecServices, ph \in InitialPhases :
         cluster' = [cluster EXCEPT
            ![k] = [uid |-> revision + 1, schedule |-> s, service |-> svc,
                    phase |-> ph, rev |-> revision + 1]]
    /\ UNCHANGED <<now, phaseWrites, servicesDic, redisVars, repoVars, sync,
                   copied, bus, sent, historyVars>>

\* A user edits spec.crontab or spec.service.
EditResource(k) ==
    /\ cluster[k] # NoResource
    /\ revision < MaxRevision
    /\ revision' = revision + 1
    /\ \E s \in Schedules, svc \in SpecServices :
         /\ \/ s # cluster[k].schedule
            \/ svc # cluster[k].service
         /\ cluster' = [cluster EXCEPT
                ![k] = [@ EXCEPT !.schedule = s, !.service = svc,
                                 !.rev = revision + 1]]
    /\ UNCHANGED <<now, phaseWrites, servicesDic, redisVars, repoVars, sync,
                   copied, bus, sent, historyVars>>

DeleteResource(k) ==
    /\ cluster[k] # NoResource
    /\ cluster' = [cluster EXCEPT ![k] = NoResource]
    /\ UNCHANGED <<now, revision, phaseWrites, servicesDic, redisVars,
                   repoVars, sync, copied, bus, sent, historyVars>>

\* ServiceSyncSchedulerJob: the services of the cluster, whatever they are.
ServiceSync ==
    /\ \E S \in SUBSET Services :
         /\ S # servicesDic
         /\ servicesDic' = S
    /\ UNCHANGED <<now, clusterVars, redisVars, repoVars, sync, copied, bus,
                   sent, historyVars>>

\* The process ends and is started again: memory is lost, Redis is not.
Restart ==
    /\ crashes < MaxCrashes
    /\ crashes' = crashes + 1
    /\ servicesDic' = {}
    /\ tasks' = <<>>
    /\ heap' = [o \in Objects |-> NoResource]
    /\ sync' = [j \in SyncJobs |-> Idle]
    /\ copied' = [j \in BusJobs |-> {}]
    /\ bus' = [j \in BusJobs |-> {}]
    /\ phaseWrites' = {}
    /\ syncOverlap' = FALSE
    /\ disturbed' = {}

Crash ==
    /\ Restart
    /\ UNCHANGED <<now, cluster, revision, redisVars, sent, busOverlap>>

-----------------------------------------------------------------------------
(***************************************************************************)
(* HealthCheckSyncSchedulerJob.Execute up to SchedulerRepository.Sync.     *)
(***************************************************************************)
ItemOf(k) ==
    [key |-> k, uid |-> cluster[k].uid, schedule |-> cluster[k].schedule,
     rev |-> cluster[k].rev, related |-> cluster[k].service \in servicesDic]

Unrelated == {k \in Present : cluster[k].service \notin servicesDic}

BlankSpecs == {k \in Present : cluster[k].service = Blank}

\* An async lambda passed to ForEach: the writes are started, not awaited.
StartPhaseWrites ==
    phaseWrites' = phaseWrites \cup
        {[key |-> k, rev |-> cluster[k].rev] :
            k \in {k \in Present : cluster[k].phase = ""}}

\* The list, the mapping and the search for each check's service.
SyncList(j) ==
    /\ sync[j].pc = "idle"
    /\ BlankSpecs = {}
    /\ StartPhaseWrites
    /\ notFound' = notFound \cup Unrelated
    /\ sync' = [sync EXCEPT ![j] =
                  [Idle EXCEPT !.pc = "listed",
                               !.items = {ItemOf(k) : k \in Present}]]
    /\ UNCHANGED <<now, cluster, revision, servicesDic, redis, repoVars,
                   copied, bus, sent, historyVars>>

\* A check without spec.service, or Redis refusing the not-found entry after
\* every retry, ends Execute after it handled some of the other checks.
SyncListThrows(j) ==
    /\ sync[j].pc = "idle"
    /\ BlankSpecs \cup Unrelated # {}
    /\ StartPhaseWrites
    /\ \E S \in SUBSET (Unrelated \ BlankSpecs) : notFound' = notFound \cup S
    /\ UNCHANGED <<now, cluster, revision, servicesDic, redis, repoVars, sync,
                   copied, bus, sent, historyVars>>

\* The replace of the status subresource carries the listed resource version.
Writable(w) ==
    /\ cluster[w.key] # NoResource
    /\ cluster[w.key].rev = w.rev

PhaseWrite(w) ==
    /\ Writable(w)
    /\ revision' = revision + 1
    /\ cluster' = [cluster EXCEPT
           ![w.key] = [@ EXCEPT !.phase = "AddedtoRedis",
                                !.rev = revision + 1]]
    /\ phaseWrites' = phaseWrites \ {w}
    /\ UNCHANGED <<now, servicesDic, redisVars, repoVars, sync, copied, bus,
                   sent, historyVars>>

\* Not found or conflict: nobody observes the exception of an async void
\* lambda, the runtime ends the process.
PhaseWriteThrows(w) ==
    /\ ~Writable(w)
    /\ Restart
    /\ UNCHANGED <<now, cluster, revision, redisVars, sent, busOverlap>>

-----------------------------------------------------------------------------
(***************************************************************************)
(* SchedulerRepository.Sync.  The three lists are computed first, then     *)
(* applied item by item; an exception ends Execute (the job is Idle) and   *)
(* leaves what was done so far.                                            *)
(***************************************************************************)
Inside(j) == sync[j].pc = "sync"

OthersInside(j) == \E k \in SyncJobs \ {j} : Inside(k)

SyncPlan(j) ==
    /\ sync[j].pc = "listed"
    /\ LET items == sync[j].items IN
       sync' = [sync EXCEPT ![j] =
         [@ EXCEPT !.pc = "sync",
                   !.adds    = ItemsToAdd(tasks, heap, items),
                   !.updates = ItemsToUpdate(tasks, heap, items),
                   !.removes = ItemsToRemove(tasks, heap, items)]]
    /\ syncOverlap' = (syncOverlap \/ OthersInside(j))
    /\ UNCHANGED <<now, clusterVars, servicesDic, redisVars, repoVars, copied,
                   bus, sent, busOverlap, disturbed, crashes>>

\* The list was modified while a query enumerated it.
SyncPlanThrows(j) ==
    /\ sync[j].pc = "listed"
    /\ OthersInside(j)
    /\ sync' = [sync EXCEPT ![j] = Idle]
    /\ UNCHANGED <<now, clusterVars, servicesDic, redisVars, repoVars, copied,
                   bus, sent, historyVars>>

\* The references an execution of BusScheduler holds.
Held(j) == copied[j] \cup bus[j]

\* Objects a BusScheduler can publish from, now or later.
Reachable == ObjectsOf(tasks) \cup UNION {Held(j) : j \in BusJobs}

\* Identities nobody refers to.
Free == Objects \ (Reachable \cup UNION {sync[j].removes : j \in SyncJobs})

FreshObject == CHOOSE o \in Free : TRUE

\* Add, for an item without a task, and UpdateSchedulerRepository, for one
\* whose task has another schedule, read the clock and construct a task, due at
\* once, before they change the list; a malformed crontab throws here.
Construct(j, it) ==
    /\ Inside(j)
    /\ sync[j].built = {}
    /\ \/ it \in sync[j].adds
       \/ /\ sync[j].adds = {}
          /\ sync[j].removes = {}
          /\ it \in sync[j].updates
          /\ ~SameSchedule(tasks, heap, it)
    /\ sync' = [sync EXCEPT ![j] =
                  IF it.schedule \in Malformed
                  THEN Idle
                  ELSE [@ EXCEPT !.built =
                          {[item |-> it, referenceTime |-> now]}]]
    /\ UNCHANGED <<now, clusterVars, servicesDic, redisVars, repoVars, copied,
                   bus, sent, historyVars>>

Constructed(b) == NewTask(b.item, b.referenceTime)

\* The end of Add; the log line asks for the next occurrence afterwards, which
\* throws where there is none.
SyncAdd(j, b) ==
    /\ Inside(j)
    /\ b \in sync[j].built
    /\ b.item \in sync[j].adds
    /\ Free # {}
    /\ tasks' = Append(tasks, FreshObject)
    /\ heap' = [heap EXCEPT ![FreshObject] = Constructed(b)]
    /\ sync' = [sync EXCEPT ![j] =
                  IF b.item.schedule \in NeverOccurs
                  THEN Idle
                  ELSE [@ EXCEPT !.adds = sync[j].adds \ {b.item},
                                 !.built = {}]]
    /\ UNCHANGED <<now, clusterVars, servicesDic, redisVars, copied, bus, sent,
                   historyVars>>

SyncRemove(j, o) ==
    /\ Inside(j)
    /\ sync[j].adds = {}
    /\ o \in sync[j].removes
    /\ tasks' = RemoveObject(tasks, o)
    /\ sync' = [sync EXCEPT
         ![j] = [@ EXCEPT !.removes = sync[j].removes \ {o}]]
    /\ UNCHANGED <<now, clusterVars, servicesDic, redisVars, heap, copied, bus,
                   sent, historyVars>>

\* The end of UpdateSchedulerRepository: the new object takes the place of the
\* first one with this uid, and the next occurrence is logged; with no such
\* task only a log line is written.
SyncReplace(j, b) ==
    /\ Inside(j)
    /\ sync[j].adds = {}
    /\ sync[j].removes = {}
    /\ b \in sync[j].built
    /\ b.item \in sync[j].updates
    /\ IF HasUid(tasks, heap, b.item.uid)
       THEN /\ Free # {}
            /\ tasks' = [tasks EXCEPT
                 ![FirstByUid(tasks, heap, b.item.uid)] = FreshObject]
            /\ heap' = [heap EXCEPT ![FreshObject] = Constructed(b)]
       ELSE UNCHANGED repoVars
    /\ sync' = [sync EXCEPT ![j] =
                  IF /\ HasUid(tasks, heap, b.item.uid)
                     /\ b.item.schedule \in NeverOccurs
                  THEN Idle
                  ELSE [@ EXCEPT !.updates = sync[j].updates \ {b.item},
                                 !.built = {}]]
    /\ UNCHANGED <<now, clusterVars, servicesDic, redisVars, copied, bus, sent,
                   historyVars>>

\* Mutant: the new item is dropped.
MutUpdateTask(it) == UNCHANGED repoVars

\* UpdateTask: the same object is given the new item.
UpdateTask(it) ==
    /\ heap' = IF HasUid(tasks, heap, it.uid)
               THEN [heap EXCEPT ![tasks[FirstByUid(tasks, heap, it.uid)]].task
                                   = it]
               ELSE heap
    /\ UNCHANGED tasks

\* It logs the next occurrence too.
UpdateThrows(it) ==
    /\ HasUid(tasks, heap, it.uid)
    /\ heap[tasks[FirstByUid(tasks, heap, it.uid)]].schedule \in NeverOccurs

SyncUpdate(j, it) ==
    /\ Inside(j)
    /\ sync[j].built = {}
    /\ sync[j].adds = {}
    /\ sync[j].removes = {}
    /\ it \in sync[j].updates
    /\ SameSchedule(tasks, heap, it)
    /\ UpdateTask(it)
    /\ sync' = [sync EXCEPT ![j] =
                  IF UpdateThrows(it)
                  THEN Idle ELSE [@ EXCEPT !.updates = sync[j].updates \ {it}]]
    /\ UNCHANGED <<now, clusterVars, servicesDic, redisVars, copied, bus, sent,
                   historyVars>>

SyncDone(j) ==
    /\ Inside(j)
    /\ sync[j].adds = {}
    /\ sync[j].removes = {}
    /\ sync[j].updates = {}

SyncReturns(j) ==
    /\ SyncDone(j)
    /\ sync' = [sync EXCEPT
         ![j] = [@ EXCEPT !.pc = "redisAdd", !.adds = sync[j].items]]
    /\ disturbed' = disturbed \ {j}
    /\ UNCHANGED <<now, clusterVars, servicesDic, redisVars, repoVars, copied,
                   bus, sent, syncOverlap, busOverlap, crashes>>

-----------------------------------------------------------------------------
(***************************************************************************)
(* redisDic.Sync(dtoitems): every item is written, then the keys of the    *)
(* hash are read and those without an item are deleted.                    *)
(***************************************************************************)
RedisKeys == {k \in Keys : redis[k] # NoResource}

\* Mutant: Sync with overrideExisting = false.
MutRedisPut(it) ==
    IF redis[it.key] = NoResource THEN [redis EXCEPT ![it.key] = it] ELSE redis

RedisPut(it) == [redis EXCEPT ![it.key] = it]

\* A command whose answer comes too late has been carried out all the same:
\* the policy sends it again, the execution stays where it is.
RedisAdd(j, it) ==
    /\ sync[j].pc = "redisAdd"
    /\ it \in sync[j].adds
    /\ redis' = RedisPut(it)
    /\ \/ sync' = [sync EXCEPT ![j] = [@ EXCEPT !.adds = sync[j].adds \ {it}]]
       \/ UNCHANGED sync
    /\ disturbed' = disturbed \cup (SyncJobs \ {j})
    /\ UNCHANGED <<now, clusterVars, servicesDic, notFound, repoVars, copied,
                   bus, sent, syncOverlap, busOverlap, crashes>>

RedisReadKeys(j) ==
    /\ sync[j].pc = "redisAdd"
    /\ sync[j].adds = {}
    /\ sync' = [sync EXCEPT ![j] =
         [@ EXCEPT !.pc = "redisRemove",
                   !.stale = RedisKeys \ {it.key : it \in sync[j].items}]]
    /\ UNCHANGED <<now, clusterVars, servicesDic, redisVars, repoVars, copied,
                   bus, sent, historyVars>>

RedisRemove(j, k) ==
    /\ sync[j].pc = "redisRemove"
    /\ k \in sync[j].stale
    /\ redis' = [redis EXCEPT ![k] = NoResource]
    /\ \/ sync' = [sync EXCEPT ![j] = [@ EXCEPT !.stale = sync[j].stale \ {k}]]
       \/ UNCHANGED sync
    /\ disturbed' = disturbed \cup (SyncJobs \ {j})
    /\ UNCHANGED <<now, clusterVars, servicesDic, notFound, repoVars, copied,
                   bus, sent, syncOverlap, busOverlap, crashes>>

ExecuteReturns(j) ==
    /\ sync[j].pc = "redisRemove"
    /\ sync[j].stale = {}
    /\ sync' = [sync EXCEPT ![j] = Idle]
    /\ UNCHANGED <<now, clusterVars, servicesDic, redisVars, repoVars, copied,
                   bus, sent, historyVars>>

\* The retry policy gave up on a command of the Redis synchronisation.
RedisThrows(j) ==
    /\ \/ sync[j].pc = "redisAdd"
       \/ sync[j].pc = "redisRemove" /\ sync[j].stale # {}
    /\ sync' = [sync EXCEPT ![j] = Idle]
    /\ UNCHANGED <<now, clusterVars, servicesDic, redisVars, repoVars, copied,
                   bus, sent, historyVars>>

-----------------------------------------------------------------------------
(***************************************************************************)
(* BusScheduler.  The constructor copies the references of the list and    *)
(* Execute, later, selects those that are due.  An execution with nothing  *)
(* to copy, or whose copy failed because the list was being changed, has   *)
(* no effect.                                                              *)
(***************************************************************************)
BusCopy(j) ==
    /\ Held(j) = {}
    /\ tasks # <<>>
    /\ copied' = [copied EXCEPT ![j] = ObjectsOf(tasks)]
    /\ busOverlap' = (busOverlap \/ \E k \in BusJobs \ {j} : Held(k) # {})
    /\ UNCHANGED <<now, clusterVars, servicesDic, redisVars, repoVars, sync,
                   bus, sent, syncOverlap, disturbed, crashes>>

Due(S) == {o \in S : ShouldRun(heap[o], now)}

BusSelect(j) ==
    /\ copied[j] # {}
    /\ bus' = [bus EXCEPT ![j] = Due(copied[j])]
    /\ copied' = [copied EXCEPT ![j] = {}]
    /\ UNCHANGED <<now, clusterVars, servicesDic, redisVars, repoVars, sync,
                   sent, historyVars>>

\* Sync has a successor of this object in the list, or is about to.
Replaced(o) ==
    \/ \E p \in ObjectsOf(tasks) \ {o} : heap[p].task.uid = heap[o].task.uid
    \/ \E j \in SyncJobs :
         \E b \in sync[j].built : b.item.uid = heap[o].task.uid

Occurrence(o) ==
    [uid |-> heap[o].task.uid, occurrence |-> heap[o].nextRunTime,
     replaced |-> Replaced(o)]

\* Increment, then a publish that is not awaited: the broker has it, or the
\* fault is logged and the occurrence is lost.
BusPublish(j, o) ==
    /\ o \in bus[j]
    /\ heap[o].schedule \notin NeverOccurs
    /\ heap' = [heap EXCEPT ![o] = Increment(@)]
    /\ bus' = [bus EXCEPT ![j] = @ \ {o}]
    /\ \/ sent' = sent \cup {Occurrence(o)}
       \/ UNCHANGED sent
    /\ UNCHANGED <<now, clusterVars, servicesDic, redisVars, tasks, sync,
                   copied, historyVars>>

\* Increment finds no next occurrence: Execute ends, the rest is not run.
BusThrows(j, o) ==
    /\ o \in bus[j]
    /\ heap[o].schedule \in NeverOccurs
    /\ heap' = [heap EXCEPT ![o] = IncrementThrows(@)]
    /\ bus' = [bus EXCEPT ![j] = {}]
    /\ UNCHANGED <<now, clusterVars, servicesDic, redisVars, tasks, sync,
                   copied, sent, historyVars>>

-----------------------------------------------------------------------------
Environment ==
    \/ ClockTick
    \/ ServiceSync
    \/ Crash
    \/ \E k \in Keys :
         CreateResource(k) \/ EditResource(k) \/ DeleteResource(k)

SyncStep(j) ==
    \/ SyncList(j)
    \/ SyncListThrows(j)
    \/ SyncPlan(j)
    \/ SyncPlanThrows(j)
    \/ \E it \in sync[j].adds \cup sync[j].updates : Construct(j, it)
    \/ \E b \in sync[j].built : SyncAdd(j, b) \/ SyncReplace(j, b)
    \/ \E o \in sync[j].removes : SyncRemove(j, o)
    \/ \E it \in sync[j].updates : SyncUpdate(j, it)
    \/ SyncReturns(j)

RedisStep(j) ==
    \/ \E it \in sync[j].adds : RedisAdd(j, it)
    \/ RedisReadKeys(j)
    \/ \E k \in sync[j].stale : RedisRemove(j, k)
    \/ ExecuteReturns(j)
    \/ RedisThrows(j)

BusStep(j) ==
    \/ BusCopy(j)
    \/ BusSelect(j)
    \/ \E o \in bus[j] : BusPublish(j, o) \/ BusThrows(j, o)

Next ==
    \/ Environment
    \/ \E w \in phaseWrites : PhaseWrite(w) \/ PhaseWriteThrows(w)
    \/ \E j \in SyncJobs : SyncStep(j) \/ RedisStep(j)
    \/ \E j \in BusJobs : BusStep(j)

Spec == Init /\ [][Next]_vars

\* Quartz keeps firing the jobs, an execution that started goes on, the clock
\* runs.  SyncList apart from SyncListThrows: Redis is not down for ever.
Fairness ==
    /\ WF_vars(ClockTick)
    /\ WF_vars(\E w \in phaseWrites : PhaseWrite(w) \/ PhaseWriteThrows(w))
    /\ \A j \in SyncJobs :
         /\ WF_vars(SyncList(j))
         /\ WF_vars(sync[j].pc # "idle" /\ SyncStep(j))
         /\ WF_vars(RedisStep(j))
    /\ \A j \in BusJobs : WF_vars(BusStep(j))

FairSpec == Spec /\ Fairness

-----------------------------------------------------------------------------
(***************************************************************************)
(* Properties.                                                             *)
(***************************************************************************)

\* SchedulerRepository.Sync finds an existing task by Uid: as long as no two
\* executions were inside Sync together, no check is scheduled twice, whatever
\* was created, deleted, recreated or rescheduled, and wherever Sync threw.
UniqueUids ==
    ~syncOverlap =>
        \A i, j \in DOMAIN tasks :
            heap[tasks[i]].task.uid = heap[tasks[j]].task.uid => i = j

\* Sync compares schedules by Key but updates by Uid, and UpdateTask does not
\* parse the crontab again: still the parsed schedule a task runs on is that
\* of the item it publishes.
ScheduleCoherent ==
    ~syncOverlap =>
        \A o \in ObjectsOf(tasks) : heap[o].schedule = heap[o].task.schedule

\* When Sync returns normally the repository is what it was given: the same
\* checks, each with the listed version.
SyncApplied ==
    \A j \in SyncJobs :
        (~syncOverlap /\ SyncDone(j)) =>
            {heap[o].task : o \in ObjectsOf(tasks)} = sync[j].items

\* When Execute returns normally and no other execution wrote the hash since it
\* began to, the Redis hash holds the listed items under their keys and nothing
\* else, whatever executions that failed or were retried had left there, and
\* whatever others do meanwhile up to their own first write.
RedisMirrorsItems ==
    \A j \in SyncJobs \ disturbed :
        (sync[j].pc = "redisRemove" /\ sync[j].stale = {}) =>
            {redis[k] : k \in RedisKeys} = sync[j].items

\* Without overlapping executions of BusScheduler no check is published before
\* its occurrence is past, even when Sync replaces or drops its task under the
\* running execution; but those of the hour the local clock repeats may come
\* early, by no more than that hour.
NotEarly ==
    ~busOverlap =>
        \A j \in BusJobs : \A o \in bus[j] :
            \/ heap[o].nextRunTime < now
            \/ /\ heap[o].nextRunTime \in Repeated
               /\ heap[o].nextRunTime < now + FallBackBy

AcceptedBefore(uid, time) ==
    \A m \in sent : (m.uid = uid /\ ~m.replaced) =>
        m.occurrence < time \/ m.occurrence \in Repeated

\* An occurrence of a check the broker has accepted is never published again:
\* not by the object that replaced a rescheduled task, and not by the worker
\* that starts after a crash.  There are two exceptions.  One is an occurrence
\* published from an object for which Sync had constructed a successor before:
\* BusScheduler may hold the old object since its constructor, or copy it before
\* the successor is in the list, and the successor comes to that occurrence once
\* more.  The other is the hour the local clock repeats, whose occurrences are
\* accepted early, and a new object may come back to them.
NoRepublish ==
    (~busOverlap /\ ~syncOverlap) =>
        \A o \in Reachable :
            AcceptedBefore(heap[o].task.uid, heap[o].nextRunTime)

\* Outside the hour the local clock repeats, and as long as no two executions
\* of BusScheduler overlapped, a scheduled task whose time has passed is always
\* one an execution selects: ShouldRun never takes the occurrence it waits
\* for to be the one it ran last, although Sync updates and replaces tasks
\* between the selection and the increment, and other tasks end the execution.
OverdueIsDue ==
    ~busOverlap =>
        \A o \in ObjectsOf(tasks) :
            (/\ heap[o].schedule \in Proper
             /\ heap[o].nextRunTime < now
             /\ Repeated \cap {heap[o].nextRunTime, now} = {}) =>
                ShouldRun(heap[o], now)

RepositoryView ==
    {[key |-> heap[o].task.key, uid |-> heap[o].task.uid,
      rev |-> heap[o].task.rev] : o \in ObjectsOf(tasks)}

ClusterView ==
    {[key |-> k, uid |-> cluster[k].uid, rev |-> cluster[k].rev] :
        k \in Present}

NoPoison ==
    \A k \in Present : /\ cluster[k].schedule \in Proper
                       /\ cluster[k].service # Blank

\* Once the checks stay well formed, the repository follows the cluster:
\* deletions, edits and recreations all arrive, after crashes and Redis
\* failures too.
Converges == <>[]NoPoison => <>[](RepositoryView = ClusterView)

\* Once the checks stay well formed and Redis no longer gives up, the hash
\* follows the cluster too: the keys of deleted checks go, also those that an
\* execution which failed half-way, or a worker that died, left behind.
RedisConverges ==
    (<>[]NoPoison /\ <>[][\A j \in SyncJobs : ~RedisThrows(j)]_vars) =>
        <>[]({[key |-> redis[k].key, uid |-> redis[k].uid, rev |-> redis[k].rev]
                : k \in RedisKeys} = ClusterView)

\* Whether a check's service is known is looked up when the check is listed:
\* once the services in memory no longer change, every scheduled check carries
\* the answer for the service it names, after restarts (which empty the memory)
\* and although the unknown ones can make Execute throw.
RelationsConverge ==
    \A known \in SUBSET Services :
        <>[](servicesDic = known /\ NoPoison) =>
            <>[]({<<heap[o].task.key, heap[o].task.related>> :
                    o \in ObjectsOf(tasks)}
                   = {<<k, cluster[k].service \in known>> : k \in Present})

Overdue(u) ==
    \E o \in ObjectsOf(tasks) : /\ heap[o].task.uid = u
                               /\ heap[o].nextRunTime < now
                               /\ heap[o].schedule \in Proper

\* BusScheduler checks the cron of every scheduled task each minute: a task
\* whose next run time is past is run, or replaced or removed by Sync.  A task
\* with an impossible crontab that makes Execute throw delays it, no more.
OverdueServed == \A u \in 1 .. MaxRevision : Overdue(u) ~> ~Overdue(u)
=============================================================================
