---------------------------- MODULE CheckPipeline ----------------------------
(***************************************************************************)
(* The way of a check from the broker to the status of its resource:       *)
(*                                                                         *)
(*   HealthCheckSubscriber (worker HealthChecker) calls the address of the *)
(*       check's service, publishes the result for the core worker, then   *)
(*       stores it twice in Mongo;                                         *)
(*   HealthCheckStatusUpdateSubscriber (worker Core) gets the resource by  *)
(*       name and replaces its status.                                     *)
(*                                                                         *)
(* HealthCheckSyncSchedulerJob writes the same status when it is empty.    *)
(* The broker gives a message to a handler and forgets it when the handler *)
(* returns; a handler that throws sends it to the error queue.  What is    *)
(* not acknowledged when a worker ends, or only loses its connection, is   *)
(* delivered again; in the second case the first handler runs on, and what *)
(* it acknowledges on the lost connection is nobody's.  Handlers of        *)
(* several messages run at once and messages are not kept in order.        *)
(*                                                                         *)
(* Time is counted in answers: "clock" is the number of addresses called,  *)
(* which tells apart what several deliveries of one check store and send.  *)
(* The LastCheckTime of the status, the time of the write, is left out.    *)
(***************************************************************************)
EXTENDS Naturals, FiniteSets

CONSTANTS
    Keys,           \* "name.namespace" of the health checks
    Answers,        \* [status, inner]: HTTP status, "status" of a JSON body
    NoInner,        \* ... of a body that is not JSON or has no "status"
    NoResource,     \* "this key has no resource"
    MaxChecks,      \* bound on the checks BusScheduler publishes
    MaxCalls,       \* bound on the addresses called
    MaxRevision,    \* bound on the resource version users' writes reach
    MaxFailures     \* bound on the ends of the two workers, and on the
                    \* connections to the broker they lose

ASSUME BoundAssumption ==
    /\ MaxChecks \in Nat
    /\ MaxCalls \in Nat
    /\ MaxRevision \in Nat
    /\ MaxFailures \in Nat

VARIABLES
    clock,          \* addresses called so far
    resources,      \* key -> resource held by the API server
    revision,       \* the API server's last resource version
    phaseWrites,    \* status writes of the sync job under way
    published,      \* check messages published so far
    checkQueue,     \* check messages waiting at the broker
    checking,       \* executions of HealthCheckSubscriber.Handler
    checkerLink,    \* number of the connection of HealthChecker to the broker
    updateQueue,    \* update messages waiting at the broker
    updating,       \* executions of HealthCheckStatusUpdateSubscriber.Handler
    coreLink,       \* number of the connection of Core to the broker
    errors,         \* checks in the broker's error queue, which nobody reads
    series,         \* Mongo: time series entries
    results,        \* Mongo: results
    answers,        \* history: <<key, shown>> of every address called
    dismissed,      \* history: check messages whose handler had nothing to do
    redelivered,    \* history: checks the broker delivered again
    crashes         \* restarts of the workers

brokerVars  == <<published, checkQueue, updateQueue, errors>>
mongoVars   == <<series, results>>
clusterVars == <<resources, revision, phaseWrites>>
historyVars == <<answers, dismissed, redelivered>>
linkVars    == <<checkerLink, coreLink, crashes>>

vars == <<clock, resources, revision, phaseWrites, published, checkQueue,
          checking, checkerLink, updateQueue, updating, coreLink, errors,
          series, results, answers, dismissed, redelivered, crashes>>

\* The handler prefers the "status" of a JSON body to the HTTP status.
Shown(a) == IF a.inner # NoInner THEN a.inner ELSE a.status

ShownValues == {Shown(a) : a \in Answers}

\* "none" stands for "no resource"; everything else may be in a body, an
\* empty status ({"status": null}) included.
ASSUME AnswerAssumption == "none" \notin ShownValues

Resource == [uid : Nat, rev : Nat, phase : ShownValues \cup {"", "AddedtoRedis"}]

ASSUME NoResourceAssumption == NoResource \notin Resource

CheckMessage  == [id : Nat, key : Keys, related : BOOLEAN]
UpdateMessage == [key : Keys, check : Nat, checkedAt : Nat, answer : Answers]
Stored        == [check : Nat, checkedAt : Nat]

\* An execution of HealthCheckSubscriber.Handler at the statement "pc", for a
\* message that came over the connection "on".
Execution ==
    [msg : CheckMessage, on : Nat, pc : {"call"}]
      \cup [msg : CheckMessage, on : Nat, pc : {"publish", "series", "result"},
            update : UpdateMessage]

StatusExecution == [msg : UpdateMessage, on : Nat, rev : Nat]

TypeOK ==
    /\ clock \in Nat
    /\ resources \in [Keys -> Resource \cup {NoResource}]
    /\ revision \in Nat
    /\ phaseWrites \subseteq [key : Keys, rev : Nat]
    /\ published \in Nat
    /\ checkQueue \subseteq CheckMessage
    /\ checking \subseteq Execution
    /\ checkerLink \in Nat
    /\ updateQueue \subseteq UpdateMessage
    /\ updating \subseteq StatusExecution
    /\ coreLink \in Nat
    /\ errors \subseteq Nat
    /\ series \subseteq Stored
    /\ results \subseteq Stored
    /\ answers \subseteq Keys \X ShownValues
    /\ dismissed \subseteq Nat
    /\ redelivered \subseteq Nat
    /\ crashes \in Nat

Init ==
    /\ clock = 0
    /\ resources = [k \in Keys |-> NoResource]
    /\ revision = 0
    /\ phaseWrites = {}
    /\ published = 0
    /\ checkQueue = {}
    /\ checking = {}
    /\ checkerLink = 0
    /\ updateQueue = {}
    /\ updating = {}
    /\ coreLink = 0
    /\ errors = {}
    /\ series = {}
    /\ results = {}
    /\ answers = {}
    /\ dismissed = {}
    /\ redelivered = {}
    /\ crashes = 0

-----------------------------------------------------------------------------
(***************************************************************************)
(* The cluster: its users, BusScheduler and the sync job.                  *)
(***************************************************************************)
Present == {k \in Keys : resources[k] # NoResource}

CreateResource(k) ==
    /\ k \notin Present
    /\ revision < MaxRevision
    /\ revision' = revision + 1
    /\ resources' = [resources EXCEPT
         ![k] = [uid |-> revision + 1, rev |-> revision + 1, phase |-> ""]]
    /\ UNCHANGED <<clock, phaseWrites, brokerVars, checking, updating,
                   mongoVars, historyVars, linkVars>>

EditResource(k) ==
    /\ k \in Present
    /\ revision < MaxRevision
    /\ revision' = revision + 1
    /\ resources' = [resources EXCEPT ![k] = [@ EXCEPT !.rev = revision + 1]]
    /\ UNCHANGED <<clock, phaseWrites, brokerVars, checking, updating,
                   mongoVars, historyVars, linkVars>>

DeleteResource(k) ==
    /\ k \in Present
    /\ resources' = [resources EXCEPT ![k] = NoResource]
    /\ UNCHANGED <<clock, revision, phaseWrites, brokerVars, checking,
                   updating, mongoVars, historyVars, linkVars>>

\* BusScheduler publishes the check, with or without its service.
PublishCheck(k) ==
    /\ k \in Present
    /\ published < MaxChecks
    /\ published' = published + 1
    /\ \E related \in BOOLEAN :
         checkQueue' = checkQueue \cup
            {[id |-> published + 1, key |-> k, related |-> related]}
    /\ UNCHANGED <<clock, clusterVars, checking, updateQueue, updating, errors,
                   mongoVars, historyVars, linkVars>>

\* Mutant: only resources nobody edited are considered.
MutStartPhaseWrite(k) ==
    /\ k \in Present
    /\ resources[k].phase = ""
    /\ resources[k].rev = resources[k].uid
    /\ phaseWrites' = phaseWrites \cup {[key |-> k, rev |-> resources[k].rev]}
    /\ UNCHANGED <<clock, resources, revision, brokerVars, checking, updating,
                   mongoVars, historyVars, linkVars>>

\* The sync job finds an empty phase in its list and starts a write.
StartPhaseWrite(k) ==
    /\ k \in Present
    /\ resources[k].phase = ""
    /\ phaseWrites' = phaseWrites \cup {[key |-> k, rev |-> resources[k].rev]}
    /\ UNCHANGED <<clock, resources, revision, brokerVars, checking, updating,
                   mongoVars, historyVars, linkVars>>

\* Mutant: the resource version is not sent.
MutReplaceable(k, rev) == k \in Present

\* The API server refuses a replace with another version than its own.
Replaceable(k, rev) ==
    /\ k \in Present
    /\ resources[k].rev = rev

PhaseWrite(w) ==
    /\ Replaceable(w.key, w.rev)
    /\ revision' = revision + 1
    /\ resources' = [resources EXCEPT
         ![w.key] = [@ EXCEPT !.phase = "AddedtoRedis", !.rev = revision + 1]]
    /\ phaseWrites' = phaseWrites \ {w}
    /\ UNCHANGED <<clock, brokerVars, checking, updating, mongoVars,
                   historyVars, linkVars>>

Failures == crashes + checkerLink + coreLink

\* What is not acknowledged on the connection in use: neither a worker that
\* ends nor one that loses the connection answers for it any more.
HeldCheck(c)  == c.on = checkerLink
HeldUpdate(u) == u.on = coreLink

RequeueUpdates ==
    LET held == {u \in updating : HeldUpdate(u)}
    IN  updateQueue' = updateQueue \cup {u.msg : u \in held}

RequeueChecks ==
    LET held == {c \in checking : HeldCheck(c)}
    IN  /\ checkQueue' = checkQueue \cup {c.msg : c \in held}
        /\ redelivered' = redelivered \cup {c.msg.id : c \in held}

\* The core worker ends, with its handlers and its writes.
CoreEnds ==
    /\ RequeueUpdates
    /\ updating' = {}
    /\ phaseWrites' = {}
    /\ UNCHANGED <<clock, resources, revision, published, checkQueue, checking,
                   checkerLink, coreLink, errors, mongoVars, historyVars>>

\* Nobody observes the exception of the write, which ends the process.
PhaseWriteThrows(w) ==
    /\ ~Replaceable(w.key, w.rev)
    /\ CoreEnds
    /\ UNCHANGED crashes

CoreCrash ==
    /\ Failures < MaxFailures
    /\ crashes' = crashes + 1
    /\ CoreEnds

CheckerCrash ==
    /\ Failures < MaxFailures
    /\ crashes' = crashes + 1
    /\ RequeueChecks
    /\ checking' = {}
    /\ UNCHANGED <<clock, clusterVars, published, updateQueue, updating, errors,
                   mongoVars, answers, dismissed, checkerLink, coreLink>>

\* The connection is replaced; the handlers do not notice and run on.
CheckerLosesConnection ==
    /\ Failures < MaxFailures
    /\ checkerLink' = checkerLink + 1
    /\ RequeueChecks
    /\ UNCHANGED <<clock, clusterVars, published, checking, updateQueue,
                   updating, errors, mongoVars, answers, dismissed, coreLink,
                   crashes>>

CoreLosesConnection ==
    /\ Failures < MaxFailures
    /\ coreLink' = coreLink + 1
    /\ RequeueUpdates
    /\ UNCHANGED <<clock, clusterVars, published, checkQueue, checking,
                   updating, errors, mongoVars, historyVars, checkerLink,
                   crashes>>

-----------------------------------------------------------------------------
(***************************************************************************)
(* HealthCheckSubscriber.Handler.                                          *)
(***************************************************************************)
\* A check without service is done at once.
TakeCheck(m) ==
    /\ checkQueue' = checkQueue \ {m}
    /\ IF m.related
       THEN /\ checking' = checking \cup
                 {[msg |-> m, on |-> checkerLink, pc |-> "call"]}
            /\ UNCHANGED dismissed
       ELSE /\ dismissed' = dismissed \cup {m.id}
            /\ UNCHANGED checking
    /\ UNCHANGED <<clock, clusterVars, published, updateQueue, updating, errors,
                   mongoVars, answers, redelivered, linkVars>>

\* DownloadAsync: an answer, or an HTTP failure that is made into one.
Call(c) ==
    /\ c.pc = "call"
    /\ clock < MaxCalls
    /\ clock' = clock + 1
    /\ \E a \in Answers :
         /\ checking' = (checking \ {c}) \cup
              {[msg |-> c.msg, on |-> c.on, pc |-> "publish",
                update |-> [key |-> c.msg.key, check |-> c.msg.id,
                            checkedAt |-> clock + 1, answer |-> a]]}
         /\ answers' = answers \cup {<<c.msg.key, Shown(a)>>}
    /\ UNCHANGED <<clusterVars, brokerVars, updating, mongoVars, dismissed,
                   redelivered, linkVars>>

\* A service without an endpoint: no result, nothing more to do.
CallFindsNoAddress(c) ==
    /\ c.pc = "call"
    /\ checking' = checking \ {c}
    /\ dismissed' = dismissed \cup {c.msg.id}
    /\ UNCHANGED <<clock, clusterVars, brokerVars, updating, mongoVars, answers,
                   redelivered, linkVars>>

\* QueueHealthCheckK8sUpdate: the publish is not awaited, it may fail.
PublishUpdate(c) ==
    /\ c.pc = "publish"
    /\ checking' = (checking \ {c}) \cup {[c EXCEPT !.pc = "series"]}
    /\ \/ updateQueue' = updateQueue \cup {c.update}
       \/ UNCHANGED updateQueue
    /\ UNCHANGED <<clock, clusterVars, published, checkQueue, updating, errors,
                   mongoVars, historyVars, linkVars>>

Entry(c) == [check |-> c.msg.id, checkedAt |-> c.update.checkedAt]

\* Mutant: the result first, and nothing else.
MutStoreSeries(c) ==
    /\ c.pc = "series"
    /\ results' = results \cup {Entry(c)}
    /\ checking' = (checking \ {c}) \cup {[c EXCEPT !.pc = "result"]}
    /\ UNCHANGED <<clock, clusterVars, brokerVars, updating, series,
                   historyVars, linkVars>>

\* saveToMongo: the time series first.
StoreSeries(c) ==
    /\ c.pc = "series"
    /\ series' = series \cup {Entry(c)}
    /\ checking' = (checking \ {c}) \cup {[c EXCEPT !.pc = "result"]}
    /\ UNCHANGED <<clock, clusterVars, brokerVars, updating, results,
                   historyVars, linkVars>>

\* The result, then the handler returns and the message is forgotten.
StoreResult(c) ==
    /\ c.pc = "result"
    /\ results' = results \cup {Entry(c)}
    /\ checking' = checking \ {c}
    /\ UNCHANGED <<clock, clusterVars, brokerVars, updating, series,
                   historyVars, linkVars>>

\* Mutant: the handler catches what Mongo throws.
MutThrows(id, held) == UNCHANGED errors

\* A handler that throws; one whose connection is lost may fail to say so.
Throws(id, held) ==
    \/ errors' = errors \cup {id}
    \/ ~held /\ UNCHANGED errors

\* No token for the address, or Mongo refuses the entry.
CheckThrows(c) ==
    /\ c.pc \in {"call", "series", "result"}
    /\ checking' = checking \ {c}
    /\ Throws(c.msg.id, HeldCheck(c))
    /\ UNCHANGED <<clock, clusterVars, published, checkQueue, updateQueue,
                   updating, mongoVars, historyVars, linkVars>>

-----------------------------------------------------------------------------
(***************************************************************************)
(* HealthCheckStatusUpdateSubscriber.Handler.                              *)
(***************************************************************************)
\* UpdateStartusAsync reads the resource of this NAME; without one, or
\* without an answer of the API server, it throws.  An execution that loses
\* its connection before it reads is one that reads and loses it then.
TakeUpdate(m) ==
    /\ updateQueue' = updateQueue \ {m}
    /\ \/ /\ m.key \in Present
          /\ updating' = updating \cup
               {[msg |-> m, on |-> coreLink, rev |-> resources[m.key].rev]}
       \/ UNCHANGED updating
    /\ UNCHANGED <<clock, clusterVars, published, checkQueue, checking, errors,
                   mongoVars, historyVars, linkVars>>

\* Mutant: the status in the body is taken without a look whether it is there.
MutInnerPhase(m) == m.answer.inner

NewPhase(m) == Shown(m.answer)

\* The write; its answer may get lost, which is an exception all the same.
ReplaceStatus(u) ==
    /\ Replaceable(u.msg.key, u.rev)
    /\ revision' = revision + 1
    /\ resources' = [resources EXCEPT
         ![u.msg.key] = [@ EXCEPT !.phase = NewPhase(u.msg),
                                  !.rev = revision + 1]]
    /\ updating' = updating \ {u}
    /\ UNCHANGED <<clock, phaseWrites, brokerVars, checking, mongoVars,
                   historyVars, linkVars>>

\* Mutant: the same copy is tried again.
MutReplaceThrows(u) == UNCHANGED vars

\* Somebody else wrote the resource, it is gone, or there is no answer.
ReplaceThrows(u) ==
    /\ updating' = updating \ {u}
    /\ UNCHANGED <<clock, clusterVars, brokerVars, checking, mongoVars,
                   historyVars, linkVars>>

-----------------------------------------------------------------------------
Cluster ==
    \/ \E k \in Keys : \/ CreateResource(k) \/ EditResource(k)
                       \/ DeleteResource(k) \/ PublishCheck(k)
    \/ CoreCrash
    \/ CheckerCrash
    \/ CheckerLosesConnection
    \/ CoreLosesConnection

SyncJob ==
    \/ \E k \in Keys : StartPhaseWrite(k)
    \/ \E w \in phaseWrites : PhaseWrite(w) \/ PhaseWriteThrows(w)

Handle(c) ==
    \/ Call(c)
    \/ CallFindsNoAddress(c)
    \/ PublishUpdate(c)
    \/ StoreSeries(c)
    \/ StoreResult(c)
    \/ CheckThrows(c)

Checker ==
    \/ \E m \in checkQueue : TakeCheck(m)
    \/ \E c \in checking : Handle(c)

Updater ==
    \/ \E m \in updateQueue : TakeUpdate(m)
    \/ \E u \in updating : ReplaceStatus(u) \/ ReplaceThrows(u)

Next == Cluster \/ SyncJob \/ Checker \/ Updater

Spec == Init /\ [][Next]_vars

\* The broker delivers, handlers go on, the sync job fires every minute and
\* its writes return.  Users, crashes and connections do what they like.
Fairness ==
    /\ WF_vars(Checker)
    /\ WF_vars(Updater)
    /\ \A k \in Keys : WF_vars(StartPhaseWrite(k))
    /\ WF_vars(\E w \in phaseWrites : PhaseWrite(w) \/ PhaseWriteThrows(w))

FairSpec == Spec /\ Fairness

-----------------------------------------------------------------------------
(***************************************************************************)
(* Properties.                                                             *)
(***************************************************************************)
\* The broker still has the check, in its queue or delivered over the
\* connection in use and not acknowledged.
Waiting(id) ==
    \/ \E m \in checkQueue : m.id = id
    \/ \E c \in checking : c.msg.id = id /\ HeldCheck(c)

Settled(id) ==
    \/ id \in dismissed
    \/ id \in errors
    \/ \E r \in results : r.check = id

\* A handler that returns is what makes the broker forget a check: whichever
\* worker ends or is cut off from the broker and whatever Mongo and the
\* addresses do, a check the broker has accepted waits at the broker, is in
\* the error queue, had nothing to call, or its result is stored.
NothingForgotten == \A id \in 1 .. published : Waiting(id) \/ Settled(id)

\* saveToMongo writes two collections without a transaction, and the message
\* is acknowledged after both: no result is ever without its time series
\* entry.  A check the broker delivered once is stored at most once, and its
\* entry without result belongs to a handler that is about to write it or
\* that threw.  What breaks this is delivery again, by the end of the worker
\* or the loss of its connection alone.
MongoConsistent ==
    /\ results \subseteq series
    /\ \A s \in series \ results :
         \/ s.check \in redelivered
         \/ s.check \in errors
         \/ \E c \in checking : c.pc = "result" /\ Entry(c) = s
    /\ \A s, t \in series :
         s.check = t.check => s = t \/ s.check \in redelivered

\* The status of a resource, as the abstract specification sees it.
StatusView ==
    [k \in Keys |-> IF k \in Present THEN resources[k].phase ELSE "none"]

CS == INSTANCE CheckStatus WITH Phases <- ShownValues, status <- StatusView

\* The two writers of the status and the users together implement
\* CheckStatus: an answer in the status is one an address of this name gave,
\* and the sync job's write, started from an older list, never replaces one.
ImplementsCheckStatus == CS!Spec

\* Every accepted check is settled, after crashes, lost connections and
\* redelivery.
ChecksSettle == \A id \in 1 .. MaxChecks : published >= id ~> Settled(id)

\* Every update is handled for good: a conflict ends in the error queue and is
\* not tried for ever.
UpdatesSettle == <>[](updateQueue = {} /\ updating = {})

\* A resource that stays has a phase in the end, although the writes that set
\* it conflict with each other and with the users', and end the worker.
PhaseWritten ==
    \A k \in Keys :
        <>[](k \in Present) => <>[](k \in Present /\ resources[k].phase # "")
=============================================================================
