--------------------- MODULE HealthCheckSchedulerProofs ---------------------
(***************************************************************************)
(* Theorems about HealthCheckScheduler for every value of its constants.   *)
(***************************************************************************)
EXTENDS HealthCheckScheduler, WellFoundedInduction, TLAPS

\* Least chooses a member, the least.
LEMMA LeastMember ==
    ASSUME NEW S \in SUBSET Nat, S # {}
    PROVE  Least(S) \in S /\ \A j \in S : Least(S) <= j
<1>1. PICK i \in S : \A j \in S : <<j, i>> \notin OpToRel(<, Nat)
  BY NatLessThanWellFounded, WFMin
<1>2. \A j \in S : i <= j
  <2>1. SUFFICES ASSUME NEW j \in S, j < i PROVE FALSE
    OBVIOUS
  <2>2. <<j, i>> \in OpToRel(<, Nat)
    BY <2>1 DEF OpToRel
  <2>3. QED
    BY <1>1, <2>2
<1>3. QED
  BY <1>2 DEF Least

\* The quotient and the remainder of a division.
LEMMA DivisionParts ==
    ASSUME NEW x \in Nat, NEW k \in Nat \ {0}
    PROVE  \E q \in Nat, r \in 0 .. k - 1 : x = k * q + r /\ x % k = r
<1>1. /\ x = k * (x \div k) + (x % k)
      /\ x \div k \in Nat
      /\ x % k \in 0 .. k - 1
  OBVIOUS
<1>2. QED
  BY <1>1

\* Two multiples of a number are at least that number apart.
LEMMA MultiplesApart ==
    ASSUME NEW a \in Int, NEW b \in Int, NEW k \in Nat \ {0}, a < b
    PROVE  k * a + k <= k * b
<1>1. PICK d \in Nat : b = a + 1 + d
  <2>1. b - a - 1 \in Nat
    OBVIOUS
  <2>2. QED
    BY <2>1
<1>2. k * b = k * a + k + k * d
  BY <1>1
<1>3. k * d \in Nat
  OBVIOUS
<1>4. QED
  BY <1>2, <1>3

\* What is added to a multiple is the remainder.
LEMMA RemainderOfSum ==
    ASSUME NEW q \in Nat, NEW k \in Nat \ {0}, NEW c \in 0 .. k - 1
    PROVE  (k * q + c) % k = c
<1> DEFINE x == k * q + c
<1>1. x \in Nat
  OBVIOUS
<1>2. PICK d \in Nat, r \in 0 .. k - 1 : x = k * d + r /\ x % k = r
  <2> HIDE DEF x
  <2> QED
    BY <1>1, DivisionParts
<1>3. CASE d < q
  BY <1>2, <1>3, MultiplesApart
<1>4. CASE q < d
  BY <1>2, <1>4, MultiplesApart
<1>5. QED
  BY <1>2, <1>3, <1>4

\* Whatever the remainder of an instant, each remainder comes again within a
\* cycle.
LEMMA RemainderComes ==
    ASSUME NEW t \in Nat, NEW k \in Nat \ {0}, NEW c \in 0 .. k - 1
    PROVE  \E u \in t + 1 .. t + k : u % k = c
<1>1. PICK q \in Nat, r \in 0 .. k - 1 : t = k * q + r
  BY DivisionParts
<1>2. k * q \in Nat /\ k * (q + 1) = k * q + k
  OBVIOUS
<1>3. CASE c > r
  <2>1. (k * q + c) % k = c
    BY RemainderOfSum
  <2>2. k * q + c \in t + 1 .. t + k
    BY <1>1, <1>2, <1>3
  <2>3. QED
    BY <2>1, <2>2
<1>4. CASE c <= r
  <2>1. (k * (q + 1) + c) % k = c
    <3>1. q + 1 \in Nat
      OBVIOUS
    <3>2. QED
      BY <3>1, RemainderOfSum
  <2>2. k * (q + 1) + c \in t + 1 .. t + k
    BY <1>1, <1>2, <1>4
  <2>3. QED
    BY <2>1, <2>2
<1>5. QED
  BY <1>3, <1>4

\* GetNextOccurrence returns the first occurrence after its argument: a
\* scheduled task moves forward, and passes over none.
LEMMA NextOccurrenceFirst ==
    ASSUME NEW s \in Proper, NEW t \in Nat
    PROVE  /\ GetNextOccurrence(s, t) \in Nat
           /\ GetNextOccurrence(s, t) > t
           /\ OccursAt(s, GetNextOccurrence(s, t))
           /\ \A u \in t + 1 .. GetNextOccurrence(s, t) - 1 : ~OccursAt(s, u)
<1> DEFINE later == {u \in t + 1 .. t + Cycle : OccursAt(s, u)}
<1>1. PICK c \in 0 .. Cycle - 1 : c \in Occurrences[s]
  BY ScheduleAssumption
<1>2. PICK v \in t + 1 .. t + Cycle : v % Cycle = c
  <2>1. Cycle \in Nat \ {0}
    BY ScheduleAssumption
  <2>2. QED
    BY <2>1, RemainderComes
<1>3. later \in SUBSET Nat /\ later # {}
  <2>1. Cycle \in Nat
    BY ScheduleAssumption
  <2>2. later \in SUBSET Nat
    BY <2>1
  <2>3. OccursAt(s, v)
    BY <1>1, <1>2 DEF OccursAt
  <2>4. QED
    BY <2>2, <2>3
<1> HIDE DEF later
<1>4. Least(later) \in later /\ \A i \in later : Least(later) <= i
  BY <1>3, LeastMember
<1>5. GetNextOccurrence(s, t) = Least(later)
  BY DEF GetNextOccurrence, later
<1>6. Cycle \in Nat
  BY ScheduleAssumption
<1>7. \A u \in later : u \in t + 1 .. t + Cycle /\ OccursAt(s, u)
  BY DEF later
<1>8. ASSUME NEW u \in t + 1 .. Least(later) - 1, OccursAt(s, u) PROVE FALSE
  <2>1. Least(later) \in t + 1 .. t + Cycle
    BY <1>4, <1>7
  <2>2. u \in later
    BY <1>6, <1>8, <2>1 DEF later
  <2>3. QED
    BY <1>4, <1>8, <2>1, <2>2
<1>9. QED
  BY <1>4, <1>5, <1>6, <1>7, <1>8

-----------------------------------------------------------------------------
(***************************************************************************)
(* The inductive invariant.  Its parts are indexed by what they speak of:  *)
(* the objects in memory, the names of the checks, the execution inside    *)
(* SchedulerRepository.Sync, the executions of BusScheduler.               *)
(***************************************************************************)

\* Whatever can still be run is a task, and its crontab was parsed.
LiveTasks ==
    \A o \in Reachable : /\ heap[o] \in TaskRecord
                         /\ heap[o].schedule \notin Malformed

\* Every key and uid that occur together anywhere.
NamedInCluster == {<<k, cluster[k].uid>> : k \in Present}

NamedInLists ==
    {<<it.key, it.uid>> : it \in UNION {sync[j].items : j \in SyncJobs}}

NamedInMemory ==
    {<<heap[o].task.key, heap[o].task.uid>> : o \in Reachable}

Named == NamedInCluster \cup NamedInLists \cup NamedInMemory

\* The API server never gives a uid twice.
UidNamesKey ==
    /\ \A a \in Named : a[2] \in 0 .. revision
    /\ \A a, b \in Named : a[2] = b[2] => a[1] = b[1]

\* A list has one item for each key; what is left to do comes from the list.
ListedItems ==
    \A j \in SyncJobs :
        /\ sync[j].adds \cup sync[j].updates \subseteq sync[j].items
        /\ \A a, b \in sync[j].items : a.key = b.key => a = b

OneInside ==
    ~syncOverlap => \A j, k \in SyncJobs : Inside(j) /\ Inside(k) => j = k

HasTask(it) == \E i \in DOMAIN tasks : heap[tasks[i]].task = it

\* Inside Sync: what is still to add is absent, what is still to update is
\* there, the tasks without an item are those still to remove, and every other
\* item has been applied.
SyncProgress ==
    ~syncOverlap =>
        \A j \in SyncJobs : Inside(j) =>
            /\ \A it \in sync[j].adds : ~HasUid(tasks, heap, it.uid)
            /\ \A it \in sync[j].updates : HasUid(tasks, heap, it.uid)
            /\ \A i \in DOMAIN tasks :
                  tasks[i] \in sync[j].removes
                    <=> \A it \in sync[j].items :
                          heap[tasks[i]].task.uid # it.uid
            /\ sync[j].removes \subseteq ObjectsOf(tasks)
            /\ \A it \in sync[j].items :
                  it \in sync[j].adds \cup sync[j].updates \/ HasTask(it)

OnePublishing ==
    ~busOverlap =>
        \A j, k \in BusJobs : Held(j) # {} /\ Held(k) # {} => j = k

SentPast ==
    ~busOverlap =>
        \A m \in sent : m.occurrence < now \/ m.occurrence \in Repeated

\* An execution holds one object for each check.
HeldOnce ==
    (~busOverlap /\ ~syncOverlap) =>
        \A j \in BusJobs : \A o, p \in Held(j) :
            heap[o].task.uid = heap[p].task.uid => o = p

\* A task that Sync has constructed and not put into the list yet comes after
\* what was published until then, as what is published from now on is published
\* from an object with a successor.
BuiltAfter ==
    (~busOverlap /\ ~syncOverlap) =>
        \A j \in SyncJobs : \A b \in sync[j].built :
            AcceptedBefore(b.item.uid, b.referenceTime)

-----------------------------------------------------------------------------
(***************************************************************************)
(* Type correctness.                                                       *)
(***************************************************************************)
TypeInv == TypeOK /\ LiveTasks

\* Taking an object out of a list leaves a list without its first occurrence.
LEMMA RemoveObjectProperties ==
    ASSUME NEW T \in Seq(Objects), NEW o,
           NEW R, R = RemoveObject(T, o)
    PROVE  /\ R \in Seq(Objects)
           /\ \A i, j \in DOMAIN R : \E m, n \in DOMAIN T :
                R[i] = T[m] /\ R[j] = T[n] /\ (m = n <=> i = j)
           /\ \A m \in DOMAIN T :
                T[m] # o => \E i \in DOMAIN R : R[i] = T[m]
           /\ (\A m, n \in DOMAIN T : T[m] = T[n] => m = n)
                => \A i \in DOMAIN R : R[i] # o
<1> DEFINE at == {i \in DOMAIN T : T[i] = o}
           k  == Least(at)
<1>1. CASE at = {}
  <2>1. R = T
    BY <1>1 DEF RemoveObject
  <2>2. QED
    BY <1>1, <2>1
<1>2. CASE at # {}
  <2>a. at \in SUBSET Nat
    OBVIOUS
  <2>1. k \in at
    <3> HIDE DEF at
    <3>1. QED
      BY <1>2, <2>a, LeastMember
  <2>2. R = [i \in 1 .. Len(T) - 1 |-> IF i < k THEN T[i] ELSE T[i + 1]]
    BY <1>2 DEF RemoveObject
  <2> HIDE DEF k, at
  <2>3. k \in 1 .. Len(T) /\ Len(T) \in Nat \ {0} /\ T[k] = o
    BY <2>1 DEF at
  <2>4. R \in Seq(Objects) /\ DOMAIN R = 1 .. Len(T) - 1
    BY <2>2, <2>3
  <2>5. ASSUME NEW i \in DOMAIN R, NEW j \in DOMAIN R
        PROVE  \E m, n \in DOMAIN T :
                 R[i] = T[m] /\ R[j] = T[n] /\ (m = n <=> i = j)
    <3> DEFINE f(x) == IF x < k THEN x ELSE x + 1
    <3>1. f(i) \in DOMAIN T /\ R[i] = T[f(i)]
      BY <2>2, <2>3, <2>4
    <3>2. f(j) \in DOMAIN T /\ R[j] = T[f(j)]
      BY <2>2, <2>3, <2>4
    <3>3. f(i) = f(j) <=> i = j
      BY <2>3, <2>4
    <3>4. QED
      BY <3>1, <3>2, <3>3
  <2>6. ASSUME NEW m \in DOMAIN T, T[m] # o
        PROVE  \E i \in DOMAIN R : R[i] = T[m]
    <3>1. CASE m < k
      BY <3>1, <2>2, <2>3, <2>4
    <3>2. CASE m > k
      <4>1. m - 1 \in DOMAIN R /\ R[m - 1] = T[m]
        BY <3>2, <2>2, <2>3, <2>4
      <4>2. QED
        BY <4>1
    <3>3. QED
      BY <3>1, <3>2, <2>3, <2>6
  <2>7. ASSUME \A m, n \in DOMAIN T : T[m] = T[n] => m = n,
               NEW i \in DOMAIN R
        PROVE  R[i] # o
    <3>1. CASE i < k
      BY <3>1, <2>2, <2>3, <2>4, <2>7
    <3>2. CASE i >= k
      <4>1. R[i] = T[i + 1] /\ i + 1 \in DOMAIN T /\ i + 1 # k
        BY <3>2, <2>2, <2>3, <2>4
      <4>2. QED
        BY <4>1, <2>3, <2>7
    <3>3. QED
      BY <3>1, <3>2, <2>3, <2>4
  <2>8. QED
    BY <2>4, <2>5, <2>6, <2>7
<1>3. QED
  BY <1>1, <1>2

\* Objects of the list and of the executions are identities.
LEMMA ReachableObjects ==
    ASSUME TypeOK
    PROVE  Reachable \subseteq Objects
BY DEF TypeOK, Reachable, Held, ObjectsOf

\* The objects in memory that an action leaves alone stay well formed.
LEMMA SameMemory ==
    ASSUME UNCHANGED <<tasks, copied, bus>>
    PROVE  Reachable' = Reachable
BY DEF Reachable, Held, ObjectsOf

LEMMA SameTasks ==
    ASSUME LiveTasks, UNCHANGED <<tasks, heap, copied, bus>>
    PROVE  LiveTasks'
BY SameMemory DEF LiveTasks

LEMMA TypeInit == Init => TypeInv
<1> SUFFICES ASSUME Init PROVE TypeInv
  OBVIOUS
<1>1. sync \in [SyncJobs -> SyncExecution]
  BY DEF Init, Idle, SyncExecution
<1>2. tasks \in Seq(Objects)
  BY DEF Init
<1>3. /\ cluster \in [Keys -> Resource \cup {NoResource}]
      /\ redis \in [Keys -> Item \cup {NoResource}]
      /\ heap \in [Objects -> TaskRecord \cup {NoResource}]
      /\ copied \in [BusJobs -> SUBSET Objects]
      /\ bus \in [BusJobs -> SUBSET Objects]
  BY DEF Init
<1>4. TypeOK
  BY <1>1, <1>2, <1>3 DEF Init, TypeOK
<1>5. LiveTasks
  <2>1. ObjectsOf(tasks) = {}
    BY DEF Init, ObjectsOf
  <2>2. UNION {Held(j) : j \in BusJobs} = {}
    BY DEF Init, Held
  <2>3. QED
    BY <2>1, <2>2 DEF Reachable, LiveTasks
<1>6. QED
  BY <1>4, <1>5 DEF TypeInv

USE DEF clusterVars, redisVars, repoVars, historyVars

\* What users and Execute write to the cluster are resources.
LEMMA WrittenResources ==
    ASSUME NEW n \in Nat, NEW s \in Schedules, NEW svc \in SpecServices
    PROVE  /\ \A ph \in {"", "AddedtoRedis"} :
                [uid |-> n, schedule |-> s, service |-> svc, phase |-> ph,
                 rev |-> n] \in Resource
           /\ \A r \in Resource :
                [r EXCEPT !.schedule = s, !.service = svc, !.rev = n]
                  \in Resource
BY DEF Resource, Phase

\* The actions of the cluster and of the clock.
LEMMA TypeEnvironment ==
    ASSUME TypeInv, NEW k \in Keys,
           ClockTick \/ ServiceSync \/ CreateResource(k) \/ EditResource(k)
             \/ DeleteResource(k)
    PROVE  TypeInv'
<1> USE DEF TypeInv, TypeOK
<1>1. LiveTasks'
  BY SameTasks DEF ClockTick, ServiceSync, CreateResource, EditResource,
     DeleteResource
<1>2. CASE ClockTick
  BY <1>1, <1>2 DEF ClockTick
<1>3. CASE ServiceSync
  BY <1>1, <1>3 DEF ServiceSync
<1>a. revision + 1 \in Nat
  OBVIOUS
<1>4. CASE CreateResource(k)
  <2>1. PICK s \in Schedules, svc \in SpecServices, ph \in InitialPhases :
          cluster' = [cluster EXCEPT
             ![k] = [uid |-> revision + 1, schedule |-> s, service |-> svc,
                     phase |-> ph, rev |-> revision + 1]]
    BY <1>4 DEF CreateResource
  <2>2. [uid |-> revision + 1, schedule |-> s, service |-> svc, phase |-> ph,
         rev |-> revision + 1] \in Resource
    BY <1>a, WrittenResources, BoundAssumption
  <2>3. cluster' \in [Keys -> Resource \cup {NoResource}]
    BY <2>1, <2>2
  <2>4. revision' = revision + 1 /\ UNCHANGED <<now, phaseWrites, servicesDic,
          redisVars, repoVars, sync, copied, bus, sent, historyVars>>
    BY <1>4 DEF CreateResource
  <2>5. QED
    BY <1>1, <2>3, <2>4
<1>5. CASE EditResource(k)
  <2>1. cluster[k] \in Resource
    BY <1>5 DEF EditResource
  <2>2. PICK s \in Schedules, svc \in SpecServices :
          cluster' = [cluster EXCEPT
             ![k] = [cluster[k] EXCEPT !.schedule = s, !.service = svc,
                                       !.rev = revision + 1]]
    BY <1>5 DEF EditResource
  <2>3. [cluster[k] EXCEPT !.schedule = s, !.service = svc,
                           !.rev = revision + 1] \in Resource
    BY <1>a, <2>1, WrittenResources
  <2>4. cluster' \in [Keys -> Resource \cup {NoResource}]
    BY <2>2, <2>3
  <2>5. revision' = revision + 1 /\ UNCHANGED <<now, phaseWrites, servicesDic,
          redisVars, repoVars, sync, copied, bus, sent, historyVars>>
    BY <1>5 DEF EditResource
  <2>6. QED
    BY <1>1, <2>4, <2>5
<1>6. CASE DeleteResource(k)
  BY <1>1, <1>6 DEF DeleteResource
<1>7. QED
  BY <1>2, <1>3, <1>4, <1>5, <1>6

\* A restart.
LEMMA TypeRestart ==
    ASSUME TypeInv, Restart,
           UNCHANGED <<now, cluster, revision, redisVars, sent, busOverlap>>
    PROVE  TypeInv'
<1> USE DEF TypeInv, TypeOK
<1>1. sync' \in [SyncJobs -> SyncExecution]
  BY DEF Restart, Idle, SyncExecution
<1>2. Reachable' = {}
  <2>1. ObjectsOf(tasks)' = {}
    BY DEF Restart, ObjectsOf
  <2>2. (UNION {Held(j) : j \in BusJobs})' = {}
    BY DEF Restart, Held
  <2>3. QED
    BY <2>1, <2>2 DEF Reachable
<1>3. LiveTasks'
  BY <1>2 DEF LiveTasks
<1>4. tasks' \in Seq(Objects)
  BY DEF Restart
<1>5. /\ heap' \in [Objects -> TaskRecord \cup {NoResource}]
      /\ copied' \in [BusJobs -> SUBSET Objects]
      /\ bus' \in [BusJobs -> SUBSET Objects]
  BY DEF Restart
<1>6. /\ servicesDic' \subseteq Services
      /\ phaseWrites' \subseteq [key : Keys, rev : Nat]
  BY DEF Restart
<1>b. syncOverlap' \in BOOLEAN /\ disturbed' \subseteq SyncJobs
  BY DEF Restart
<1>c. crashes' \in Nat
  <2>1. crashes' = crashes + 1
    BY DEF Restart
  <2>2. QED
    BY <2>1
<1>7. QED
  BY <1>1, <1>3, <1>4, <1>5, <1>6, <1>b, <1>c

\* Listing, and the status writes that were not awaited.
LEMMA TypeList ==
    ASSUME TypeInv, NEW j \in SyncJobs, SyncList(j) \/ SyncListThrows(j)
    PROVE  TypeInv'
<1> USE DEF TypeInv, TypeOK
<1>1. LiveTasks'
  BY SameTasks DEF SyncList, SyncListThrows
<1>2. ASSUME NEW k \in Present PROVE cluster[k] \in Resource /\ k \in Keys
  BY DEF Present
<1>3. phaseWrites' \subseteq [key : Keys, rev : Nat]
  <2>1. StartPhaseWrites
    BY DEF SyncList, SyncListThrows
  <2>2. ASSUME NEW k \in Present
        PROVE  [key |-> k, rev |-> cluster[k].rev] \in [key : Keys, rev : Nat]
    BY <1>2 DEF Resource
  <2>3. QED
    BY <2>1, <2>2 DEF StartPhaseWrites
<1>4. ASSUME NEW k \in Present PROVE ItemOf(k) \in Item
  <2>1. (cluster[k].service \in servicesDic) \in BOOLEAN
    OBVIOUS
  <2>2. QED
    BY <1>2, <2>1 DEF ItemOf, Resource, Item
<1>5. notFound' \subseteq Keys
  BY DEF SyncList, SyncListThrows, Unrelated, Present
<1>6. sync' \in [SyncJobs -> SyncExecution]
  <2>1. CASE SyncList(j)
    <3> DEFINE I == {ItemOf(k) : k \in Present}
    <3>1. sync' = [sync EXCEPT ![j] = [Idle EXCEPT !.pc = "listed",
                                                   !.items = I]]
      BY <2>1 DEF SyncList
    <3>a. I \subseteq Item
      BY <1>4
    <3> HIDE DEF I
    <3>2. [Idle EXCEPT !.pc = "listed", !.items = I] \in SyncExecution
      BY <3>a DEF Idle, SyncExecution
    <3>3. QED
      BY <3>1, <3>2
  <2>2. CASE SyncListThrows(j)
    BY <2>2 DEF SyncListThrows
  <2>3. QED
    BY <2>1, <2>2
<1>7. QED
  BY <1>1, <1>3, <1>5, <1>6 DEF SyncList, SyncListThrows

LEMMA TypePhaseWrite ==
    ASSUME TypeInv, NEW w \in phaseWrites, PhaseWrite(w)
    PROVE  TypeInv'
<1>1. LiveTasks'
  BY SameTasks DEF TypeInv, PhaseWrite
<1>2. w.key \in Keys /\ cluster[w.key] \in Resource
  BY DEF TypeInv, TypeOK, PhaseWrite, Writable
<1>3. cluster' \in [Keys -> Resource \cup {NoResource}]
  <2>1. [cluster[w.key] EXCEPT !.phase = "AddedtoRedis",
                               !.rev = revision + 1] \in Resource
    <3>1. revision + 1 \in Nat
      BY DEF TypeInv, TypeOK
    <3>2. \A n \in Nat, r \in Resource :
            [r EXCEPT !.phase = "AddedtoRedis", !.rev = n] \in Resource
      BY DEF Resource, Phase
    <3>3. QED
      BY <1>2, <3>1, <3>2
  <2>2. QED
    BY <2>1 DEF TypeInv, TypeOK, PhaseWrite
<1>4. QED
  BY <1>1, <1>3 DEF TypeInv, TypeOK, PhaseWrite

\* The steps of SchedulerRepository.Sync, and those that only end or move on an
\* execution.
LEMMA ExecutionFields ==
    ASSUME NEW e \in SyncExecution
    PROVE  /\ Idle \in SyncExecution
           /\ \A A, U \in SUBSET Item, R \in SUBSET Objects :
                [e EXCEPT !.pc = "sync", !.adds = A, !.updates = U,
                          !.removes = R] \in SyncExecution
           /\ \A A \in SUBSET Item : [e EXCEPT !.adds = A] \in SyncExecution
           /\ \A R \in SUBSET Objects :
                [e EXCEPT !.removes = R] \in SyncExecution
           /\ \A U \in SUBSET Item : [e EXCEPT !.updates = U] \in SyncExecution
           /\ \A B \in SUBSET Construction :
                [e EXCEPT !.built = B] \in SyncExecution
           /\ \A A \in SUBSET Item :
                [e EXCEPT !.adds = A, !.built = {}] \in SyncExecution
           /\ \A U \in SUBSET Item :
                [e EXCEPT !.updates = U, !.built = {}] \in SyncExecution
           /\ \A K \in SUBSET Keys : [e EXCEPT !.stale = K] \in SyncExecution
           /\ \A A \in SUBSET Item :
                [e EXCEPT !.pc = "redisAdd", !.adds = A] \in SyncExecution
           /\ \A K \in SUBSET Keys :
                [e EXCEPT !.pc = "redisRemove", !.stale = K] \in SyncExecution
BY DEF SyncExecution, Idle

\* What Sync plans is made of items of the list and of objects.
LEMMA PlanTypes ==
    ASSUME TypeOK, NEW I \in SUBSET Item
    PROVE  /\ ItemsToAdd(tasks, heap, I) \in SUBSET Item
           /\ ItemsToUpdate(tasks, heap, I) \in SUBSET Item
           /\ ItemsToRemove(tasks, heap, I) \in SUBSET Objects
<1>1. ObjectsOf(tasks) \subseteq Objects
  BY DEF TypeOK, ObjectsOf
<1>2. QED
  BY <1>1 DEF ItemsToAdd, ItemsToUpdate, ItemsToRemove

\* The steps that change no task.
LEMMA TypeQuietSync ==
    ASSUME TypeInv, NEW j \in SyncJobs,
           \/ SyncPlan(j) \/ SyncPlanThrows(j) \/ SyncReturns(j)
           \/ RedisReadKeys(j) \/ ExecuteReturns(j) \/ RedisThrows(j)
           \/ \E k \in sync[j].stale : RedisRemove(j, k)
           \/ \E it \in sync[j].adds : RedisAdd(j, it)
    PROVE  TypeInv'
<1> USE DEF TypeInv, TypeOK
<1>1. LiveTasks'
  BY SameTasks DEF SyncPlan, SyncPlanThrows, SyncReturns, RedisReadKeys,
     ExecuteReturns, RedisThrows, RedisRemove, RedisAdd
<1>2. /\ sync[j] \in SyncExecution
      /\ sync[j].items \in SUBSET Item
      /\ sync[j].adds \in SUBSET Item
      /\ sync[j].stale \in SUBSET Keys
  BY DEF SyncExecution
<1>3. CASE SyncPlan(j)
  <2>1. sync' \in [SyncJobs -> SyncExecution]
    BY <1>2, <1>3, PlanTypes, ExecutionFields DEF SyncPlan
  <2>2. syncOverlap' \in BOOLEAN
    BY <1>3 DEF SyncPlan
  <2>3. QED
    BY <1>1, <1>3, <2>1, <2>2 DEF SyncPlan
<1>4. CASE SyncPlanThrows(j) \/ ExecuteReturns(j) \/ RedisThrows(j)
  <2>1. Idle \in SyncExecution
    BY DEF Idle, SyncExecution
  <2>2. QED
    BY <1>1, <1>4, <2>1 DEF SyncPlanThrows, ExecuteReturns, RedisThrows
<1>5. CASE SyncReturns(j)
  <2>1. sync' \in [SyncJobs -> SyncExecution]
    BY <1>2, <1>5, ExecutionFields DEF SyncReturns
  <2>2. QED
    BY <1>1, <1>5, <2>1 DEF SyncReturns
<1>6. CASE RedisReadKeys(j)
  <2>1. RedisKeys \ {it.key : it \in sync[j].items} \in SUBSET Keys
    BY DEF RedisKeys
  <2>2. sync' \in [SyncJobs -> SyncExecution]
    BY <1>2, <1>6, <2>1, ExecutionFields DEF RedisReadKeys
  <2>3. QED
    BY <1>1, <1>6, <2>2 DEF RedisReadKeys
<1>7. ASSUME NEW k \in sync[j].stale, RedisRemove(j, k) PROVE TypeInv'
  <2>0. sync[j].stale \ {k} \in SUBSET Keys
    BY <1>2
  <2>a. [sync[j] EXCEPT !.stale = sync[j].stale \ {k}] \in SyncExecution
    BY <2>0, <1>2, ExecutionFields
  <2>b. \/ sync' = [sync EXCEPT
               ![j] = [sync[j] EXCEPT !.stale = sync[j].stale \ {k}]]
        \/ sync' = sync
    BY <1>7 DEF RedisRemove
  <2>1. sync' \in [SyncJobs -> SyncExecution]
    BY <2>a, <2>b
  <2>2. QED
    BY <1>1, <1>2, <1>7, <2>1 DEF RedisRemove
<1>8. ASSUME NEW it \in sync[j].adds, RedisAdd(j, it) PROVE TypeInv'
  <2>0. sync[j].adds \ {it} \in SUBSET Item
    BY <1>2
  <2>a. [sync[j] EXCEPT !.adds = sync[j].adds \ {it}] \in SyncExecution
    BY <2>0, <1>2, ExecutionFields
  <2>b. \/ sync' = [sync EXCEPT
               ![j] = [sync[j] EXCEPT !.adds = sync[j].adds \ {it}]]
        \/ sync' = sync
    BY <1>8 DEF RedisAdd
  <2>1. sync' \in [SyncJobs -> SyncExecution]
    BY <2>a, <2>b
  <2>2. redis' \in [Keys -> Item \cup {NoResource}]
    BY <1>2, <1>8 DEF RedisAdd, RedisPut, Item
  <2>3. QED
    BY <1>1, <1>8, <2>1, <2>2 DEF RedisAdd
<1>9. QED
  BY <1>3, <1>4, <1>5, <1>6, <1>7, <1>8

\* A new object is a well formed task, and nothing else referred to it.
LEMMA NewTaskType ==
    ASSUME NEW b \in Construction
    PROVE  /\ Constructed(b) \in TaskRecord
           /\ Constructed(b).schedule \notin Malformed
           /\ Constructed(b).task = b.item
           /\ Constructed(b).schedule = b.item.schedule
           /\ Constructed(b).nextRunTime = b.referenceTime
           /\ Constructed(b).lastRunTime = Never
           /\ b.item \in Item /\ b.referenceTime \in Nat
BY DEF Constructed, Construction, NewTask, TaskRecord, Item, Never

\* What an execution has constructed.
LEMMA BuiltType ==
    ASSUME TypeOK, NEW j \in SyncJobs
    PROVE  /\ sync[j] \in SyncExecution
           /\ sync[j].adds \in SUBSET Item
           /\ sync[j].updates \in SUBSET Item
           /\ sync[j].built \in SUBSET Construction
BY DEF TypeOK, SyncExecution

LEMMA FreshIsFree ==
    ASSUME Free # {}
    PROVE  /\ FreshObject \in Objects
           /\ FreshObject \notin Reachable
           /\ \A j \in SyncJobs : FreshObject \notin sync[j].removes
<1>1. FreshObject \in Free
  BY DEF FreshObject
<1>2. QED
  BY <1>1 DEF Free

LEMMA AppendObject ==
    ASSUME NEW T \in Seq(Objects), NEW o \in Objects
    PROVE  /\ Append(T, o) \in Seq(Objects)
           /\ DOMAIN Append(T, o) = DOMAIN T \cup {Len(T) + 1}
           /\ Len(T) + 1 \notin DOMAIN T
           /\ Append(T, o)[Len(T) + 1] = o
           /\ \A i \in DOMAIN T : Append(T, o)[i] = T[i]
           /\ ObjectsOf(Append(T, o)) = ObjectsOf(T) \cup {o}
<1>1. /\ Append(T, o) \in Seq(Objects)
      /\ DOMAIN Append(T, o) = DOMAIN T \cup {Len(T) + 1}
      /\ Len(T) + 1 \notin DOMAIN T
      /\ Append(T, o)[Len(T) + 1] = o
      /\ \A i \in DOMAIN T : Append(T, o)[i] = T[i]
  OBVIOUS
<1>2. QED
  BY <1>1 DEF ObjectsOf

LEMMA ReplaceObject ==
    ASSUME NEW T \in Seq(Objects), NEW o \in Objects, NEW i \in DOMAIN T
    PROVE  /\ [T EXCEPT ![i] = o] \in Seq(Objects)
           /\ DOMAIN [T EXCEPT ![i] = o] = DOMAIN T
           /\ \A k \in DOMAIN T :
                [T EXCEPT ![i] = o][k] = IF k = i THEN o ELSE T[k]
           /\ ObjectsOf([T EXCEPT ![i] = o]) \subseteq ObjectsOf(T) \cup {o}
<1>1. /\ [T EXCEPT ![i] = o] \in Seq(Objects)
      /\ DOMAIN [T EXCEPT ![i] = o] = DOMAIN T
      /\ \A k \in DOMAIN T :
           [T EXCEPT ![i] = o][k] = IF k = i THEN o ELSE T[k]
  OBVIOUS
<1>2. QED
  BY <1>1 DEF ObjectsOf

\* The position of the first task with a uid is a position in the list.
LEMMA FirstByUidProperties ==
    ASSUME TypeOK, NEW uid, HasUid(tasks, heap, uid)
    PROVE  /\ FirstByUid(tasks, heap, uid) \in DOMAIN tasks
           /\ heap[tasks[FirstByUid(tasks, heap, uid)]].task.uid = uid
<1>1. UidIndexes(tasks, heap, uid) \in SUBSET Nat
  BY DEF TypeOK, UidIndexes
<1>2. FirstByUid(tasks, heap, uid) \in UidIndexes(tasks, heap, uid)
  BY <1>1, LeastMember DEF HasUid, FirstByUid
<1>3. QED
  BY <1>2 DEF UidIndexes

LEMMA FirstByKeyProperties ==
    ASSUME TypeOK, NEW key, KeyIndexes(tasks, heap, key) # {}
    PROVE  /\ FirstByKey(tasks, heap, key) \in DOMAIN tasks
           /\ heap[tasks[FirstByKey(tasks, heap, key)]].task.key = key
<1>1. KeyIndexes(tasks, heap, key) \in SUBSET Nat
  BY DEF TypeOK, KeyIndexes
<1>2. FirstByKey(tasks, heap, key) \in KeyIndexes(tasks, heap, key)
  BY <1>1, LeastMember DEF FirstByKey
<1>3. QED
  BY <1>2 DEF KeyIndexes

\* A task is constructed.
LEMMA TypeConstruct ==
    ASSUME TypeInv, NEW j \in SyncJobs,
           NEW it \in sync[j].adds \cup sync[j].updates, Construct(j, it)
    PROVE  TypeInv'
<1>1. LiveTasks'
  BY SameTasks DEF TypeInv, Construct
<1>2. sync' \in [SyncJobs -> SyncExecution]
  <2>1. sync[j] \in SyncExecution /\ it \in Item /\ Idle \in SyncExecution
    BY BuiltType, ExecutionFields DEF TypeInv
  <2>2. CASE it.schedule \in Malformed
    BY <2>1, <2>2 DEF TypeInv, TypeOK, Construct
  <2>3. CASE it.schedule \notin Malformed
    <3>1. {[item |-> it, referenceTime |-> now]} \in SUBSET Construction
      BY <2>1, <2>3 DEF TypeInv, TypeOK, Construction
    <3>2. [sync[j] EXCEPT !.built = {[item |-> it, referenceTime |-> now]}]
            \in SyncExecution
      BY <2>1, <3>1, ExecutionFields
    <3>3. QED
      BY <2>3, <3>2 DEF TypeInv, TypeOK, Construct
  <2>4. QED
    BY <2>2, <2>3
<1>3. QED
  BY <1>1, <1>2 DEF TypeInv, TypeOK, Construct

\* The new object, wherever it is put into the list.
LEMMA LiveNewTask ==
    ASSUME TypeInv, NEW b \in Construction, Free # {},
           heap' = [heap EXCEPT ![FreshObject] = Constructed(b)],
           ObjectsOf(tasks') \subseteq ObjectsOf(tasks) \cup {FreshObject},
           UNCHANGED <<copied, bus>>
    PROVE  /\ LiveTasks'
           /\ heap' \in [Objects -> TaskRecord \cup {NoResource}]
<1>1. /\ Constructed(b) \in TaskRecord
      /\ Constructed(b).schedule \notin Malformed
  BY NewTaskType
<1>2. FreshObject \in Objects
  BY FreshIsFree
<1>3. Reachable' \subseteq Reachable \cup {FreshObject}
  BY DEF Reachable, Held
<1>4. QED
  BY <1>1, <1>2, <1>3, ReachableObjects DEF TypeInv, TypeOK, LiveTasks

\* The steps of Sync that change the list.
LEMMA TypeSyncAdd ==
    ASSUME TypeInv, NEW j \in SyncJobs, NEW b \in sync[j].built, SyncAdd(j, b)
    PROVE  TypeInv'
<1> USE DEF TypeInv, TypeOK
<1>1. /\ b \in Construction
      /\ sync[j] \in SyncExecution
      /\ sync[j].adds \in SUBSET Item
  BY BuiltType
<1>2. sync' \in [SyncJobs -> SyncExecution]
  <2>1. sync[j].adds \ {b.item} \in SUBSET Item
    BY <1>1
  <2>2. /\ [sync[j] EXCEPT !.adds = sync[j].adds \ {b.item}, !.built = {}]
             \in SyncExecution
        /\ Idle \in SyncExecution
    BY <1>1, <2>1, ExecutionFields
  <2>3. sync' = [sync EXCEPT ![j] =
          IF b.item.schedule \in NeverOccurs
          THEN Idle
          ELSE [sync[j] EXCEPT !.adds = sync[j].adds \ {b.item},
                               !.built = {}]]
    BY DEF SyncAdd
  <2>4. QED
    BY <2>2, <2>3
<1>3. /\ Free # {}
      /\ tasks' = Append(tasks, FreshObject)
      /\ heap' = [heap EXCEPT ![FreshObject] = Constructed(b)]
      /\ UNCHANGED <<copied, bus>>
  BY DEF SyncAdd
<1>4. /\ tasks' \in Seq(Objects)
      /\ ObjectsOf(tasks') = ObjectsOf(tasks) \cup {FreshObject}
  BY <1>3, FreshIsFree, AppendObject
<1>5. LiveTasks' /\ heap' \in [Objects -> TaskRecord \cup {NoResource}]
  BY <1>1, <1>3, <1>4, LiveNewTask
<1>6. QED
  BY <1>2, <1>4, <1>5 DEF SyncAdd

LEMMA TypeSyncRemove ==
    ASSUME TypeInv, NEW j \in SyncJobs, NEW o \in sync[j].removes,
           SyncRemove(j, o)
    PROVE  TypeInv'
<1> USE DEF TypeInv, TypeOK
<1>1. sync[j] \in SyncExecution /\ sync[j].removes \in SUBSET Objects
  BY DEF SyncExecution
<1>2. sync' \in [SyncJobs -> SyncExecution]
  <2>1. sync[j].removes \ {o} \in SUBSET Objects
    BY <1>1
  <2>2. [sync[j] EXCEPT !.removes = sync[j].removes \ {o}] \in SyncExecution
    BY <1>1, <2>1, ExecutionFields
  <2>3. QED
    BY <2>2 DEF SyncRemove
<1>3. /\ tasks' \in Seq(Objects)
      /\ ObjectsOf(tasks') \subseteq ObjectsOf(tasks)
  <2>1. tasks' = RemoveObject(tasks, o)
    BY DEF SyncRemove
  <2>2. QED
    BY <2>1, RemoveObjectProperties DEF ObjectsOf
<1>4. heap' = heap /\ bus' = bus /\ copied' = copied
  BY DEF SyncRemove
<1>5. LiveTasks'
  BY <1>3, <1>4 DEF LiveTasks, Reachable, Held
<1>6. QED
  BY <1>2, <1>3, <1>5 DEF SyncRemove

LEMMA TypeSyncReplace ==
    ASSUME TypeInv, NEW j \in SyncJobs, NEW b \in sync[j].built,
           SyncReplace(j, b)
    PROVE  TypeInv'
<1> USE DEF TypeInv, TypeOK
<1>1. /\ b \in Construction
      /\ sync[j] \in SyncExecution
      /\ sync[j].updates \in SUBSET Item
  BY BuiltType
<1>2. sync' \in [SyncJobs -> SyncExecution]
  <2>1. sync[j].updates \ {b.item} \in SUBSET Item
    BY <1>1
  <2>2. /\ [sync[j] EXCEPT !.updates = sync[j].updates \ {b.item},
                           !.built = {}] \in SyncExecution
        /\ Idle \in SyncExecution
    BY <1>1, <2>1, ExecutionFields
  <2>3. \/ sync' = [sync EXCEPT ![j] = Idle]
        \/ sync' = [sync EXCEPT ![j] =
             [sync[j] EXCEPT !.updates = sync[j].updates \ {b.item},
                             !.built = {}]]
    BY DEF SyncReplace
  <2>4. QED
    BY <2>2, <2>3
<1>3. UNCHANGED <<now, cluster, revision, phaseWrites, servicesDic, redis,
                  notFound, copied, bus, sent, syncOverlap, busOverlap,
                  disturbed, crashes>>
  BY DEF SyncReplace
<1>4. CASE ~HasUid(tasks, heap, b.item.uid)
  <2>1. UNCHANGED <<tasks, heap>>
    BY <1>4 DEF SyncReplace
  <2>2. LiveTasks'
    BY <1>3, <2>1, SameTasks
  <2>3. QED
    BY <1>2, <1>3, <2>1, <2>2
<1>5. CASE HasUid(tasks, heap, b.item.uid)
  <2> DEFINE i == FirstByUid(tasks, heap, b.item.uid)
  <2>1. /\ Free # {}
        /\ tasks' = [tasks EXCEPT ![i] = FreshObject]
        /\ heap' = [heap EXCEPT ![FreshObject] = Constructed(b)]
    BY <1>5 DEF SyncReplace
  <2>2. i \in DOMAIN tasks
    BY <1>5, FirstByUidProperties
  <2> HIDE DEF i
  <2>3. /\ tasks' \in Seq(Objects)
        /\ ObjectsOf(tasks') \subseteq ObjectsOf(tasks) \cup {FreshObject}
    BY <2>1, <2>2, FreshIsFree, ReplaceObject
  <2>4. LiveTasks' /\ heap' \in [Objects -> TaskRecord \cup {NoResource}]
    BY <1>1, <1>3, <2>1, <2>3, LiveNewTask
  <2>5. QED
    BY <1>2, <1>3, <2>3, <2>4
<1>6. QED
  BY <1>4, <1>5

LEMMA TypeSyncUpdate ==
    ASSUME TypeInv, NEW j \in SyncJobs, NEW it \in sync[j].updates,
           SyncUpdate(j, it)
    PROVE  TypeInv'
<1> USE DEF TypeInv, TypeOK
<1>1. /\ it \in Item
      /\ sync[j] \in SyncExecution
      /\ sync[j].updates \in SUBSET Item
  BY DEF SyncExecution
<1>2. sync' \in [SyncJobs -> SyncExecution]
  <2>1. sync[j].updates \ {it} \in SUBSET Item
    BY <1>1
  <2>2. /\ [sync[j] EXCEPT !.updates = sync[j].updates \ {it}]
             \in SyncExecution
        /\ Idle \in SyncExecution
    BY <1>1, <2>1, ExecutionFields
  <2>3. sync' = [sync EXCEPT ![j] =
          IF UpdateThrows(it)
          THEN Idle
          ELSE [sync[j] EXCEPT !.updates = sync[j].updates \ {it}]]
    BY DEF SyncUpdate
  <2>4. QED
    BY <2>2, <2>3
<1>3. UNCHANGED <<now, cluster, revision, phaseWrites, servicesDic, redis,
                  notFound, tasks, copied, bus, sent, syncOverlap, busOverlap,
                  disturbed, crashes>>
  BY DEF SyncUpdate, UpdateTask
<1>4. CASE ~HasUid(tasks, heap, it.uid)
  <2>1. UNCHANGED heap
    BY <1>4 DEF SyncUpdate, UpdateTask
  <2>2. LiveTasks'
    BY <1>3, <2>1, SameTasks
  <2>3. QED
    BY <1>2, <1>3, <2>1, <2>2
<1>5. CASE HasUid(tasks, heap, it.uid)
  <2> DEFINE o == tasks[FirstByUid(tasks, heap, it.uid)]
  <2>1. o \in ObjectsOf(tasks)
    BY <1>5, FirstByUidProperties DEF ObjectsOf
  <2>2. UNCHANGED tasks /\ heap' = [heap EXCEPT ![o].task = it]
    BY <1>5 DEF SyncUpdate, UpdateTask
  <2>3. Reachable' = Reachable
    BY <1>3, <2>2, SameMemory
  <2>4. o \in Reachable /\ o \in Objects
    BY <2>1, ReachableObjects DEF Reachable
  <2>5. /\ [heap[o] EXCEPT !.task = it] \in TaskRecord
        /\ [heap[o] EXCEPT !.task = it].schedule \notin Malformed
    BY <1>1, <2>4 DEF LiveTasks, TaskRecord
  <2> HIDE DEF o
  <2>6. heap' \in [Objects -> TaskRecord \cup {NoResource}]
    BY <2>2, <2>4, <2>5
  <2>7. LiveTasks'
    BY <2>2, <2>3, <2>4, <2>5 DEF LiveTasks
  <2>8. QED
    BY <1>2, <1>3, <2>2, <2>6, <2>7
<1>6. QED
  BY <1>4, <1>5

\* The steps of BusScheduler: what it holds comes from the list.
LEMMA HeldMoves ==
    ASSUME TypeInv, NEW j \in BusJobs, BusCopy(j) \/ BusSelect(j)
    PROVE  /\ copied' \in [BusJobs -> SUBSET Objects]
           /\ bus' \in [BusJobs -> SUBSET Objects]
           /\ Reachable' \subseteq Reachable
           /\ UNCHANGED <<tasks, heap>>
<1>1. ObjectsOf(tasks) \subseteq Reachable /\ Reachable \subseteq Objects
  BY ReachableObjects DEF Reachable, TypeInv
<1>2. copied[j] \subseteq Reachable
  BY DEF Reachable, Held
<1>3. CASE BusCopy(j)
  BY <1>1, <1>3 DEF BusCopy, TypeInv, TypeOK, Reachable, Held
<1>4. CASE BusSelect(j)
  <2>1. Due(copied[j]) \subseteq copied[j]
    BY DEF Due
  <2>2. /\ bus' = [bus EXCEPT ![j] = Due(copied[j])]
        /\ copied' = [copied EXCEPT ![j] = {}]
        /\ UNCHANGED <<tasks, heap>>
    BY <1>4 DEF BusSelect
  <2>3. QED
    BY <1>1, <1>2, <2>1, <2>2 DEF TypeInv, TypeOK, Reachable, Held
<1>5. QED
  BY <1>3, <1>4

LEMMA TypeBus ==
    ASSUME TypeInv, NEW j \in BusJobs, BusStep(j)
    PROVE  TypeInv'
<1> USE DEF TypeInv, TypeOK
<1>1. CASE BusCopy(j) \/ BusSelect(j)
  <2>1. /\ copied' \in [BusJobs -> SUBSET Objects]
        /\ bus' \in [BusJobs -> SUBSET Objects]
        /\ Reachable' \subseteq Reachable
        /\ UNCHANGED <<tasks, heap>>
    BY <1>1, HeldMoves
  <2>2. LiveTasks'
    BY <2>1 DEF LiveTasks
  <2>3. busOverlap' \in BOOLEAN
    BY <1>1 DEF BusCopy, BusSelect
  <2>4. QED
    BY <1>1, <2>1, <2>2, <2>3 DEF BusCopy, BusSelect
<1>2. ASSUME NEW o \in bus[j], BusPublish(j, o) \/ BusThrows(j, o)
      PROVE  TypeInv'
  <2>1. o \in Reachable /\ o \in Objects
    BY DEF Reachable, Held
  <2>2. heap[o] \in TaskRecord /\ heap[o].schedule \notin Malformed
    BY <2>1 DEF LiveTasks
  <2>3. bus' \in [BusJobs -> SUBSET Objects] /\ Reachable' \subseteq Reachable
    <3>1. PICK B \in SUBSET bus[j] : bus' = [bus EXCEPT ![j] = B]
      BY <1>2 DEF BusPublish, BusThrows
    <3>2. tasks' = tasks /\ copied' = copied
      BY <1>2 DEF BusPublish, BusThrows
    <3>3. QED
      BY <3>1, <3>2 DEF Reachable, Held
  <2>4. PICK r \in TaskRecord : /\ r.schedule \notin Malformed
                                /\ heap' = [heap EXCEPT ![o] = r]
    <3>1. CASE BusPublish(j, o)
      <4>1. heap[o].schedule \in Proper
        BY <2>2, <3>1 DEF BusPublish, Proper, TaskRecord
      <4>2. GetNextOccurrence(heap[o].schedule, heap[o].nextRunTime) \in Nat
        BY <2>2, <4>1, NextOccurrenceFirst DEF TaskRecord
      <4>3. Increment(heap[o]) \in TaskRecord
        BY <2>2, <4>2 DEF Increment, TaskRecord
      <4>4. Increment(heap[o]).schedule = heap[o].schedule
        BY <2>2 DEF Increment, TaskRecord
      <4>5. QED
        BY <2>2, <3>1, <4>3, <4>4 DEF BusPublish
    <3>2. CASE BusThrows(j, o)
      <4>1. /\ IncrementThrows(heap[o]) \in TaskRecord
            /\ IncrementThrows(heap[o]).schedule = heap[o].schedule
        BY <2>2 DEF IncrementThrows, TaskRecord
      <4>2. QED
        BY <2>2, <3>2, <4>1 DEF BusThrows
    <3>3. QED
      BY <1>2, <3>1, <3>2
  <2>5. LiveTasks'
    BY <2>1, <2>3, <2>4, ReachableObjects DEF LiveTasks
  <2>6. sent' \subseteq [uid : Nat, occurrence : Nat, replaced : BOOLEAN]
    <3>1. Replaced(o) \in BOOLEAN
      BY DEF Replaced
    <3>2. Occurrence(o) \in [uid : Nat, occurrence : Nat, replaced : BOOLEAN]
      BY <2>2, <3>1 DEF Occurrence, TaskRecord, Item
    <3>3. QED
      BY <1>2, <3>2 DEF BusPublish, BusThrows
  <2>7. QED
    BY <1>2, <2>1, <2>3, <2>4, <2>5, <2>6 DEF BusPublish, BusThrows
<1>3. QED
  BY <1>1, <1>2 DEF BusStep

LEMMA TypeNext == TypeInv /\ [Next]_vars => TypeInv'
<1> SUFFICES ASSUME TypeInv, [Next]_vars PROVE TypeInv'
  OBVIOUS
<1>1. CASE UNCHANGED vars
  BY <1>1, SameTasks DEF vars, TypeInv, TypeOK
<1>2. CASE Environment
  <2>1. CASE Crash
    BY <2>1, TypeRestart DEF Crash
  <2>2. CASE ClockTick \/ ServiceSync
    <3>1. CASE Keys = {}
      <4>1. LiveTasks'
        BY <2>2, SameTasks DEF TypeInv, ClockTick, ServiceSync
      <4>2. QED
        BY <2>2, <4>1 DEF ClockTick, ServiceSync, TypeInv, TypeOK
    <3>2. CASE Keys # {}
      BY <2>2, <3>2, TypeEnvironment
    <3>3. QED
      BY <3>1, <3>2
  <2>3. QED
    BY <1>2, <2>1, <2>2, TypeEnvironment DEF Environment
<1>3. ASSUME NEW w \in phaseWrites, PhaseWrite(w) \/ PhaseWriteThrows(w)
      PROVE  TypeInv'
  BY <1>3, TypePhaseWrite, TypeRestart DEF PhaseWriteThrows
<1>4. ASSUME NEW j \in SyncJobs, SyncStep(j) \/ RedisStep(j)
      PROVE  TypeInv'
  BY <1>4, TypeList, TypeQuietSync, TypeConstruct, TypeSyncAdd, TypeSyncRemove,
     TypeSyncReplace, TypeSyncUpdate DEF SyncStep, RedisStep
<1>5. QED
  BY <1>1, <1>2, <1>3, <1>4, TypeBus DEF Next

\* Every variable keeps its type: in particular a scheduled task, wherever the
\* exceptions of Sync leave it, always runs on a crontab that was parsed, so
\* BusScheduler finds its next occurrence or learns that there is none.
THEOREM TypeCorrect == Spec => [](TypeOK /\ LiveTasks)
<1>1. TypeInv => TypeOK /\ LiveTasks
  BY DEF TypeInv
<1>2. QED
  BY <1>1, TypeInit, TypeNext, PTL DEF Spec

-----------------------------------------------------------------------------
(***************************************************************************)
(* The repository: no check twice, each on the schedule it publishes, and  *)
(* after Sync exactly the listed ones.                                     *)
(***************************************************************************)
RepositoryInv ==
    /\ TypeInv
    /\ UidNamesKey
    /\ ListedItems
    /\ OneInside
    /\ UniqueUids
    /\ ScheduleCoherent
    /\ SyncProgress

\* Steps that neither bring a name nor forget a revision.
LEMMA NamesKept ==
    ASSUME TypeOK, UidNamesKey, Named' \subseteq Named,
           revision' \in {revision, revision + 1}
    PROVE  UidNamesKey'
<1>1. \A a \in Named' : a[2] \in 0 .. revision'
  BY DEF UidNamesKey, TypeOK
<1>2. QED
  BY <1>1 DEF UidNamesKey

\* Steps that keep or drop items of the lists.
LEMMA ListsKept ==
    ASSUME ListedItems,
           \A k \in SyncJobs :
             /\ sync'[k].items \subseteq sync[k].items
             /\ sync'[k].adds \cup sync'[k].updates \subseteq sync'[k].items
    PROVE  ListedItems' /\ NamedInLists' \subseteq NamedInLists
BY DEF ListedItems, NamedInLists

\* Steps that change neither the tasks' items nor what an execution inside Sync
\* has left to do.
LEMMA RepositoryListsKept ==
    ASSUME OneInside, UniqueUids, ScheduleCoherent, SyncProgress,
           tasks' = tasks, syncOverlap' = syncOverlap,
           \A o \in ObjectsOf(tasks) : /\ heap'[o].task = heap[o].task
                                       /\ heap'[o].schedule = heap[o].schedule,
           \A k \in SyncJobs : Inside(k)' =>
             /\ Inside(k)
             /\ sync'[k].items = sync[k].items
             /\ sync'[k].adds = sync[k].adds
             /\ sync'[k].updates = sync[k].updates
             /\ sync'[k].removes = sync[k].removes
    PROVE  OneInside' /\ UniqueUids' /\ ScheduleCoherent' /\ SyncProgress'
<1>1. \A i \in DOMAIN tasks :
         /\ tasks[i] \in ObjectsOf(tasks)
         /\ heap'[tasks[i]].task = heap[tasks[i]].task
         /\ heap'[tasks[i]].schedule = heap[tasks[i]].schedule
  BY DEF ObjectsOf
<1>2. OneInside'
  BY DEF OneInside
<1>3. UniqueUids'
  BY <1>1 DEF UniqueUids
<1>4. ScheduleCoherent'
  BY <1>1 DEF ScheduleCoherent, ObjectsOf
<1>5. \A uid : HasUid(tasks, heap, uid)' <=> HasUid(tasks, heap, uid)
  BY <1>1 DEF HasUid, UidIndexes
<1>6. \A it : HasTask(it)' <=> HasTask(it)
  BY <1>1 DEF HasTask
<1>7. ObjectsOf(tasks)' = ObjectsOf(tasks)
  BY DEF ObjectsOf
<1>8. SyncProgress'
  BY <1>1, <1>5, <1>6, <1>7 DEF SyncProgress
<1>9. QED
  BY <1>2, <1>3, <1>4, <1>8

LEMMA RepositoryKept ==
    ASSUME OneInside, UniqueUids, ScheduleCoherent, SyncProgress,
           tasks' = tasks, syncOverlap' = syncOverlap,
           \A o \in ObjectsOf(tasks) : /\ heap'[o].task = heap[o].task
                                       /\ heap'[o].schedule = heap[o].schedule,
           \A k \in SyncJobs : Inside(k)' => sync'[k] = sync[k]
    PROVE  OneInside' /\ UniqueUids' /\ ScheduleCoherent' /\ SyncProgress'
BY RepositoryListsKept DEF Inside

\* The clock, the users and the services.
LEMMA RepositoryEnvironment ==
    ASSUME RepositoryInv, TypeInv', NEW k \in Keys,
           CreateResource(k) \/ EditResource(k) \/ DeleteResource(k)
    PROVE  RepositoryInv'
<1> USE DEF RepositoryInv, TypeInv
<1>1. UNCHANGED <<tasks, heap, copied, bus, sync, syncOverlap>>
  BY DEF CreateResource, EditResource, DeleteResource
<1>2. OneInside' /\ UniqueUids' /\ ScheduleCoherent' /\ SyncProgress'
  BY <1>1, RepositoryKept
<1>3. ListedItems' /\ NamedInLists' \subseteq NamedInLists
  BY <1>1, ListsKept DEF ListedItems
<1>4. NamedInMemory' = NamedInMemory
  BY <1>1, SameMemory DEF NamedInMemory
<1>5. CASE CreateResource(k)
  <2>1. /\ revision' = revision + 1
        /\ cluster'[k].uid = revision'
        /\ \A l \in Keys \ {k} : cluster'[l] = cluster[l]
    BY <1>5 DEF CreateResource, TypeOK
  <2>2. NamedInCluster' \subseteq NamedInCluster \cup {<<k, revision'>>}
    BY <2>1 DEF NamedInCluster, Present
  <2>3. Named' \subseteq Named \cup {<<k, revision'>>}
    BY <1>3, <1>4, <2>2 DEF Named
  <2>4. \A a \in Named : a[2] \in 0 .. revision' /\ a[2] # revision'
    BY <2>1 DEF UidNamesKey, TypeOK
  <2>5. UidNamesKey'
    <3>1. \A a \in Named' : a[2] \in 0 .. revision'
      BY <2>1, <2>3, <2>4 DEF TypeOK
    <3>2. ASSUME NEW a \in Named', NEW b \in Named', a[2] = b[2]
          PROVE  a[1] = b[1]
      BY <2>3, <2>4, <3>2 DEF UidNamesKey
    <3>3. QED
      BY <3>1, <3>2 DEF UidNamesKey
  <2>6. QED
    BY <1>2, <1>3, <2>5
<1>6. CASE EditResource(k) \/ DeleteResource(k)
  <2>1. NamedInCluster' \subseteq NamedInCluster
    <3>1. CASE EditResource(k)
      <4>1. cluster[k] \in Resource
        BY <3>1 DEF EditResource, TypeOK
      <4>2. /\ cluster'[k].uid = cluster[k].uid
            /\ \A l \in Keys \ {k} : cluster'[l] = cluster[l]
        BY <3>1, <4>1 DEF EditResource, TypeOK, Resource
      <4>3. k \in Present
        BY <3>1 DEF EditResource, Present
      <4>4. QED
        BY <4>2, <4>3 DEF NamedInCluster, Present
    <3>2. CASE DeleteResource(k)
      BY <3>2 DEF DeleteResource, TypeOK, NamedInCluster, Present
    <3>3. QED
      BY <1>6, <3>1, <3>2
  <2>2. Named' \subseteq Named
    BY <1>3, <1>4, <2>1 DEF Named
  <2>3. revision' \in {revision, revision + 1}
    BY <1>6 DEF EditResource, DeleteResource
  <2>4. QED
    BY <1>2, <1>3, <2>2, <2>3, NamesKept
<1>7. QED
  BY <1>5, <1>6

\* The executions outside Sync.
LEMMA RepositoryQuietSync ==
    ASSUME RepositoryInv, TypeInv', NEW j \in SyncJobs,
           \/ SyncPlanThrows(j) \/ SyncReturns(j)
           \/ RedisReadKeys(j) \/ ExecuteReturns(j) \/ RedisThrows(j)
           \/ \E k \in sync[j].stale : RedisRemove(j, k)
           \/ \E it \in sync[j].adds : RedisAdd(j, it)
    PROVE  RepositoryInv'
<1> USE DEF RepositoryInv, TypeInv
<1>1. UNCHANGED <<cluster, revision, tasks, heap, copied, bus, syncOverlap>>
  BY DEF SyncPlanThrows, SyncReturns, RedisReadKeys, ExecuteReturns,
     RedisThrows, RedisRemove, RedisAdd
<1>2. sync[j] \in SyncExecution
  BY DEF TypeOK
<1>3. \A k \in SyncJobs \ {j} : sync'[k] = sync[k]
  BY DEF TypeOK, SyncPlanThrows, SyncReturns, RedisReadKeys, ExecuteReturns,
     RedisThrows, RedisRemove, RedisAdd
<1>4. /\ sync'[j].pc \in {"idle", "redisAdd", "redisRemove"}
      /\ sync'[j].items \in {sync[j].items, {}}
      /\ sync'[j].adds \cup sync'[j].updates \subseteq sync'[j].items
  <2>a. sync \in [SyncJobs -> SyncExecution]
    BY DEF TypeOK
  <2>b. sync[j].adds \cup sync[j].updates \subseteq sync[j].items
    BY DEF ListedItems
  <2> HIDE DEF RepositoryInv, TypeInv
  <2> USE <1>2, <2>a, <2>b
  <2>1. CASE SyncPlanThrows(j) \/ ExecuteReturns(j) \/ RedisThrows(j)
    BY <2>1 DEF SyncPlanThrows, ExecuteReturns, RedisThrows, Idle
  <2>2. CASE SyncReturns(j)
    BY <2>2 DEF SyncReturns, SyncDone, SyncExecution
  <2>3. CASE RedisReadKeys(j)
    <3>1. PICK K : sync' = [sync EXCEPT
                     ![j] = [sync[j] EXCEPT !.pc = "redisRemove", !.stale = K]]
      BY <2>3 DEF RedisReadKeys
    <3>2. QED
      BY <3>1 DEF SyncExecution
  <2>4. CASE \E k \in sync[j].stale : RedisRemove(j, k)
    <3>1. PICK K : \/ sync' = [sync EXCEPT ![j] = [sync[j] EXCEPT !.stale = K]]
                   \/ sync' = sync
      BY <2>4 DEF RedisRemove
    <3>2. sync[j].pc = "redisRemove"
      BY <2>4 DEF RedisRemove
    <3>3. QED
      BY <3>1, <3>2 DEF SyncExecution
  <2>5. CASE \E it \in sync[j].adds : RedisAdd(j, it)
    <3>1. PICK A \in SUBSET sync[j].adds :
             \/ sync' = [sync EXCEPT ![j] = [sync[j] EXCEPT !.adds = A]]
             \/ sync' = sync
      BY <2>5 DEF RedisAdd
    <3>2. sync[j].pc = "redisAdd"
      BY <2>5 DEF RedisAdd
    <3>3. CASE sync' = sync
      BY <3>2, <3>3
    <3>4. CASE sync' = [sync EXCEPT ![j] = [sync[j] EXCEPT !.adds = A]]
      BY <3>1, <3>2, <3>4 DEF SyncExecution
    <3>5. QED
      BY <3>1, <3>3, <3>4
  <2>6. QED
    BY <2>1, <2>2, <2>3, <2>4, <2>5
<1>5. OneInside' /\ UniqueUids' /\ ScheduleCoherent' /\ SyncProgress'
  <2>1. \A k \in SyncJobs : Inside(k)' => sync'[k] = sync[k]
    BY <1>3, <1>4 DEF Inside
  <2>2. QED
    BY <1>1, <2>1, RepositoryKept
<1>6. ListedItems' /\ NamedInLists' \subseteq NamedInLists
  <2>1. \A k \in SyncJobs :
             /\ sync'[k].items \subseteq sync[k].items
             /\ sync'[k].adds \cup sync'[k].updates \subseteq sync'[k].items
    BY <1>3, <1>4 DEF ListedItems
  <2>2. QED
    BY <2>1, ListsKept
<1>7. UidNamesKey'
  <2>1. NamedInMemory' = NamedInMemory /\ NamedInCluster' = NamedInCluster
    BY <1>1, SameMemory DEF NamedInMemory, NamedInCluster, Present
  <2>2. QED
    BY <1>1, <1>6, <2>1, NamesKept DEF Named
<1>8. QED
  BY <1>5, <1>6, <1>7

\* The steps that leave the executions of the sync job alone.
LEMMA RepositoryOthers ==
    ASSUME RepositoryInv, TypeInv',
           \/ ClockTick \/ ServiceSync \/ UNCHANGED vars
           \/ \E w \in phaseWrites : PhaseWrite(w)
           \/ \E j \in SyncJobs : SyncListThrows(j)
           \/ \E j \in BusJobs : BusStep(j)
    PROVE  RepositoryInv'
<1> USE DEF RepositoryInv, TypeInv
<1>1. UNCHANGED <<tasks, sync, syncOverlap>>
  BY DEF ClockTick, ServiceSync, vars, PhaseWrite, SyncListThrows, BusStep,
     BusCopy, BusSelect, BusPublish, BusThrows
<1>2. \A o \in Reachable : /\ heap'[o].task = heap[o].task
                           /\ heap'[o].schedule = heap[o].schedule
  <2>1. CASE \E j \in BusJobs : \E o \in bus[j] :
               BusPublish(j, o) \/ BusThrows(j, o)
    <3>a. PICK j \in BusJobs :
             \E o \in bus[j] : BusPublish(j, o) \/ BusThrows(j, o)
      BY <2>1
    <3>1. PICK o \in bus[j] :
               heap' = [heap EXCEPT ![o] = Increment(heap[o])]
                 \/ heap' = [heap EXCEPT ![o] = IncrementThrows(heap[o])]
      BY <3>a DEF BusPublish, BusThrows
    <3>2. heap[o] \in TaskRecord
      BY DEF LiveTasks, Reachable, Held
    <3>3. /\ Increment(heap[o]).task = heap[o].task
          /\ Increment(heap[o]).schedule = heap[o].schedule
          /\ IncrementThrows(heap[o]).task = heap[o].task
          /\ IncrementThrows(heap[o]).schedule = heap[o].schedule
      BY <3>2 DEF Increment, IncrementThrows, TaskRecord
    <3>4. QED
      BY <3>1, <3>3, ReachableObjects DEF TypeOK
  <2>2. CASE UNCHANGED heap
    BY <2>2
  <2>3. QED
    BY <2>1, <2>2 DEF ClockTick, ServiceSync, vars, PhaseWrite, SyncListThrows,
       BusStep, BusCopy, BusSelect
<1>3. OneInside' /\ UniqueUids' /\ ScheduleCoherent' /\ SyncProgress'
  <2>1. ObjectsOf(tasks) \subseteq Reachable
    BY DEF Reachable
  <2>2. QED
    BY <1>1, <1>2, <2>1, RepositoryKept
<1>4. ListedItems' /\ NamedInLists' \subseteq NamedInLists
  BY <1>1, ListsKept DEF ListedItems
<1>5. NamedInMemory' \subseteq NamedInMemory
  <2>1. Reachable' \subseteq Reachable
    <3>1. CASE UNCHANGED <<copied, bus>>
      BY <1>1, <3>1, SameMemory
    <3>2. CASE \E j \in BusJobs : BusStep(j)
      <4>1. PICK j \in BusJobs : BusStep(j)
        BY <3>2
      <4>2. CASE BusCopy(j) \/ BusSelect(j)
        BY <4>2, HeldMoves
      <4>3. CASE \E o \in bus[j] : BusPublish(j, o) \/ BusThrows(j, o)
        <5>1. PICK B \in SUBSET bus[j] : bus' = [bus EXCEPT ![j] = B]
          BY <4>3 DEF BusPublish, BusThrows
        <5>2. tasks' = tasks /\ copied' = copied
          BY <4>3 DEF BusPublish, BusThrows
        <5>3. bus \in [BusJobs -> SUBSET Objects]
          BY DEF TypeOK
        <5>4. QED
          BY <5>1, <5>2, <5>3 DEF Reachable, Held
      <4>4. QED
        BY <4>1, <4>2, <4>3 DEF BusStep
    <3>3. QED
      BY <3>1, <3>2 DEF ClockTick, ServiceSync, vars, PhaseWrite,
         SyncListThrows
  <2>2. QED
    BY <1>2, <2>1 DEF NamedInMemory
<1>6. NamedInCluster' \subseteq NamedInCluster
  <2>1. CASE UNCHANGED cluster
    BY <2>1 DEF NamedInCluster, Present
  <2>2. ASSUME NEW w \in phaseWrites, PhaseWrite(w)
        PROVE  NamedInCluster' \subseteq NamedInCluster
    <3>1. w.key \in Keys /\ cluster[w.key] \in Resource
      BY <2>2 DEF PhaseWrite, Writable, TypeOK
    <3>2. /\ cluster'[w.key].uid = cluster[w.key].uid
          /\ \A l \in Keys \ {w.key} : cluster'[l] = cluster[l]
      BY <2>2, <3>1 DEF PhaseWrite, TypeOK, Resource
    <3>3. w.key \in Present
      BY <2>2, <3>1 DEF PhaseWrite, Writable, Present
    <3>4. QED
      BY <3>2, <3>3 DEF NamedInCluster, Present
  <2>3. QED
    BY <2>1, <2>2 DEF ClockTick, ServiceSync, vars, SyncListThrows, BusStep,
       BusCopy, BusSelect, BusPublish, BusThrows
<1>7. revision' \in {revision, revision + 1}
  BY DEF ClockTick, ServiceSync, vars, PhaseWrite, SyncListThrows, BusStep,
     BusCopy, BusSelect, BusPublish, BusThrows
<1>8. UidNamesKey'
  BY <1>4, <1>5, <1>6, <1>7, NamesKept DEF Named
<1>9. QED
  BY <1>3, <1>4, <1>8

\* A restart leaves nothing in memory.
LEMMA RepositoryRestart ==
    ASSUME RepositoryInv, TypeInv', Restart, UNCHANGED <<cluster, revision>>
    PROVE  RepositoryInv'
<1> USE DEF RepositoryInv, TypeInv
<1>1. /\ tasks' = <<>>
      /\ \A k \in SyncJobs : sync'[k] = Idle
  BY DEF Restart
<1>2. Reachable' = {}
  <2>1. ObjectsOf(tasks)' = {}
    BY <1>1 DEF ObjectsOf
  <2>2. (UNION {Held(j) : j \in BusJobs})' = {}
    BY DEF Restart, Held
  <2>3. QED
    BY <2>1, <2>2 DEF Reachable
<1>3. \A k \in SyncJobs : ~Inside(k)'
  BY <1>1 DEF Inside, Idle
<1>4. OneInside' /\ SyncProgress'
  BY <1>3 DEF OneInside, SyncProgress
<1>5. UniqueUids' /\ ScheduleCoherent'
  BY <1>1 DEF UniqueUids, ScheduleCoherent, ObjectsOf
<1>6. ListedItems' /\ NamedInLists' \subseteq NamedInLists
  <2>1. \A k \in SyncJobs :
             /\ sync'[k].items \subseteq sync[k].items
             /\ sync'[k].adds \cup sync'[k].updates \subseteq sync'[k].items
    BY <1>1 DEF Idle
  <2>2. QED
    BY <2>1, ListsKept
<1>7. UidNamesKey'
  <2>1. NamedInMemory' = {}
    BY <1>2 DEF NamedInMemory
  <2>2. NamedInCluster' = NamedInCluster
    BY DEF NamedInCluster, Present
  <2>3. QED
    BY <1>6, <2>1, <2>2, NamesKept DEF Named
<1>8. QED
  BY <1>4, <1>5, <1>6, <1>7

\* A list has the names of the cluster.
LEMMA RepositoryList ==
    ASSUME RepositoryInv, TypeInv', NEW j \in SyncJobs, SyncList(j)
    PROVE  RepositoryInv'
<1> USE DEF RepositoryInv, TypeInv
<1> DEFINE I == {ItemOf(k) : k \in Present}
<1>1. /\ sync' = [sync EXCEPT ![j] = [Idle EXCEPT !.pc = "listed", !.items = I]]
      /\ UNCHANGED <<cluster, revision, tasks, heap, copied, bus, syncOverlap>>
  BY DEF SyncList
<1>2. \A it \in I : /\ it.key \in Present
                    /\ it.uid = cluster[it.key].uid
                    /\ it = ItemOf(it.key)
  BY DEF ItemOf
<1> HIDE DEF I
<1>3. /\ sync'[j].pc = "listed"
      /\ sync'[j].items = I
      /\ sync'[j].adds = {}
      /\ sync'[j].updates = {}
      /\ \A k \in SyncJobs \ {j} : sync'[k] = sync[k]
  BY <1>1 DEF Idle, TypeOK
<1>4. OneInside' /\ UniqueUids' /\ ScheduleCoherent' /\ SyncProgress'
  <2>1. \A k \in SyncJobs : Inside(k)' => sync'[k] = sync[k]
    BY <1>3 DEF Inside
  <2>2. QED
    BY <1>1, <2>1, RepositoryKept
<1>5. ListedItems'
  BY <1>2, <1>3 DEF ListedItems
<1>6. NamedInLists' \subseteq NamedInLists \cup NamedInCluster
  <2>1. ASSUME NEW k \in SyncJobs, NEW it \in sync'[k].items
        PROVE  <<it.key, it.uid>> \in NamedInLists \cup NamedInCluster
    <3>1. CASE k = j
      BY <1>2, <1>3, <2>1, <3>1 DEF NamedInCluster
    <3>2. CASE k # j
      BY <1>3, <2>1, <3>2 DEF NamedInLists
    <3>3. QED
      BY <3>1, <3>2
  <2>2. QED
    BY <2>1 DEF NamedInLists
<1>7. NamedInMemory' = NamedInMemory /\ NamedInCluster' = NamedInCluster
  BY <1>1, SameMemory DEF NamedInMemory, NamedInCluster, Present
<1>8. UidNamesKey'
  BY <1>1, <1>6, <1>7, NamesKept DEF Named
<1>9. QED
  BY <1>4, <1>5, <1>8

\* The plan of Sync, made when no other execution is inside or marked as made
\* under one.
LEMMA RepositoryPlan ==
    ASSUME RepositoryInv, TypeInv', NEW j \in SyncJobs, SyncPlan(j)
    PROVE  RepositoryInv'
<1> USE DEF RepositoryInv, TypeInv
<1> DEFINE I == sync[j].items
           A == ItemsToAdd(tasks, heap, I)
           U == ItemsToUpdate(tasks, heap, I)
           R == ItemsToRemove(tasks, heap, I)
<1>1. /\ sync' = [sync EXCEPT ![j] = [sync[j] EXCEPT !.pc = "sync",
                                 !.adds = A, !.updates = U, !.removes = R]]
      /\ syncOverlap' = (syncOverlap \/ OthersInside(j))
      /\ UNCHANGED <<cluster, revision, tasks, heap, copied, bus>>
  BY DEF SyncPlan
<1>2. /\ A \subseteq I
      /\ U \subseteq I
      /\ \A it \in A : ~HasUid(tasks, heap, it.uid)
      /\ \A it \in U : HasUid(tasks, heap, it.uid)
      /\ I = A \cup U
      /\ R \subseteq ObjectsOf(tasks)
      /\ \A o \in ObjectsOf(tasks) :
           o \in R <=> \A it \in I : heap[o].task.uid # it.uid
  BY DEF ItemsToAdd, ItemsToUpdate, ItemsToRemove
<1>3. sync[j] \in SyncExecution
  BY DEF TypeOK
<1> HIDE DEF A, U, R
<1>4. /\ sync'[j].pc = "sync"
      /\ sync'[j].items = I
      /\ sync'[j].adds = A
      /\ sync'[j].updates = U
      /\ sync'[j].removes = R
      /\ \A k \in SyncJobs \ {j} : sync'[k] = sync[k]
  BY <1>1, <1>3 DEF SyncExecution, TypeOK
<1>5. UniqueUids' /\ ScheduleCoherent'
  BY <1>1 DEF UniqueUids, ScheduleCoherent, ObjectsOf
<1>6. ASSUME ~syncOverlap', NEW k \in SyncJobs, Inside(k)'
      PROVE  k = j
  BY <1>1, <1>4, <1>6 DEF OthersInside, Inside
<1>7. OneInside'
  BY <1>6 DEF OneInside
<1>8. SyncProgress'
  <2>1. ASSUME NEW i \in DOMAIN tasks
        PROVE  tasks[i] \in R <=> \A it \in I : heap[tasks[i]].task.uid # it.uid
    BY <1>2 DEF ObjectsOf
  <2>2. \A uid : HasUid(tasks, heap, uid)' <=> HasUid(tasks, heap, uid)
    BY <1>1 DEF HasUid, UidIndexes
  <2>3. ObjectsOf(tasks)' = ObjectsOf(tasks)
    BY <1>1 DEF ObjectsOf
  <2>4. QED
    BY <1>1, <1>2, <1>4, <1>6, <2>1, <2>2, <2>3 DEF SyncProgress
<1>9. ListedItems' /\ NamedInLists' \subseteq NamedInLists
  <2>1. \A k \in SyncJobs :
             /\ sync'[k].items \subseteq sync[k].items
             /\ sync'[k].adds \cup sync'[k].updates \subseteq sync'[k].items
    BY <1>2, <1>4 DEF ListedItems
  <2>2. QED
    BY <2>1, ListsKept
<1>10. UidNamesKey'
  <2>1. NamedInMemory' = NamedInMemory /\ NamedInCluster' = NamedInCluster
    BY <1>1, SameMemory DEF NamedInMemory, NamedInCluster, Present
  <2>2. QED
    BY <1>1, <1>9, <2>1, NamesKept DEF Named
<1>11. QED
  BY <1>5, <1>7, <1>8, <1>9, <1>10

\* What an execution inside Sync does to its own lists.
LEMMA ListsShrink ==
    ASSUME ListedItems, NEW j \in SyncJobs,
           \A k \in SyncJobs \ {j} : sync'[k] = sync[k],
           \/ sync'[j] = Idle
           \/ /\ sync'[j].items = sync[j].items
              /\ sync'[j].adds \subseteq sync[j].adds
              /\ sync'[j].updates \subseteq sync[j].updates
    PROVE  ListedItems' /\ NamedInLists' \subseteq NamedInLists
<1>1. \A k \in SyncJobs :
           /\ sync'[k].items \subseteq sync[k].items
           /\ sync'[k].adds \cup sync'[k].updates \subseteq sync'[k].items
  BY DEF ListedItems, Idle
<1>2. QED
  BY <1>1, ListsKept

\* An item of a list is the only one with its uid.
LEMMA ItemByUid ==
    ASSUME UidNamesKey, ListedItems, NEW j \in SyncJobs,
           NEW a \in sync[j].items, NEW b \in sync[j].items, a.uid = b.uid
    PROVE  a = b
<1>1. <<a.key, a.uid>> \in Named /\ <<b.key, b.uid>> \in Named
  BY DEF Named, NamedInLists
<1>2. a.key = b.key
  BY <1>1 DEF UidNamesKey
<1>3. QED
  BY <1>2 DEF ListedItems

\* A task and an item with one uid are the same check.
LEMMA TaskNamedAsItem ==
    ASSUME UidNamesKey, NEW j \in SyncJobs, NEW it \in sync[j].items,
           NEW i \in DOMAIN tasks, heap[tasks[i]].task.uid = it.uid
    PROVE  heap[tasks[i]].task.key = it.key
<1>1. <<it.key, it.uid>> \in Named
  BY DEF Named, NamedInLists
<1>2. <<heap[tasks[i]].task.key, heap[tasks[i]].task.uid>> \in Named
  BY DEF Named, NamedInMemory, Reachable, ObjectsOf
<1>3. QED
  BY <1>1, <1>2 DEF UidNamesKey

\* Without overlap, what the execution inside may count on when it changes the
\* list: it is the only one, whatever it does to itself.
LEMMA OnlyInside ==
    ASSUME OneInside, TypeOK, NEW j \in SyncJobs, Inside(j), ~syncOverlap,
           \A k \in SyncJobs \ {j} : sync'[k] = sync[k],
           NEW k \in SyncJobs, Inside(k)'
    PROVE  k = j
BY DEF OneInside, Inside

\* A task is constructed, or the malformed crontab ends Sync.
LEMMA RepositoryConstruct ==
    ASSUME RepositoryInv, TypeInv', NEW j \in SyncJobs,
           NEW it \in sync[j].adds \cup sync[j].updates, Construct(j, it)
    PROVE  RepositoryInv'
<1> USE DEF RepositoryInv, TypeInv
<1>1. /\ Inside(j)
      /\ UNCHANGED <<cluster, revision, tasks, heap, copied, bus, syncOverlap>>
      /\ \/ sync' = [sync EXCEPT ![j] = Idle]
         \/ \E B : sync' = [sync EXCEPT ![j] = [sync[j] EXCEPT !.built = B]]
  BY DEF Construct
<1>2. /\ \A k \in SyncJobs \ {j} : sync'[k] = sync[k]
      /\ \/ sync'[j] = Idle
         \/ /\ sync'[j].pc = sync[j].pc
            /\ sync'[j].items = sync[j].items
            /\ sync'[j].adds = sync[j].adds
            /\ sync'[j].updates = sync[j].updates
            /\ sync'[j].removes = sync[j].removes
  BY <1>1 DEF TypeOK, SyncExecution
<1>3. OneInside' /\ UniqueUids' /\ ScheduleCoherent' /\ SyncProgress'
  BY <1>1, <1>2, RepositoryListsKept DEF Inside, Idle
<1>4. ListedItems' /\ NamedInLists' \subseteq NamedInLists
  BY <1>2, ListsShrink
<1>5. NamedInMemory' = NamedInMemory /\ NamedInCluster' = NamedInCluster
  BY <1>1, SameMemory DEF NamedInMemory, NamedInCluster, Present
<1>6. UidNamesKey'
  BY <1>1, <1>4, <1>5, NamesKept DEF Named
<1>7. QED
  BY <1>3, <1>4, <1>6

\* Add puts a task for the item at the end.
LEMMA RepositoryAdd ==
    ASSUME RepositoryInv, TypeInv', NEW j \in SyncJobs,
           NEW b \in sync[j].built, SyncAdd(j, b)
    PROVE  RepositoryInv'
<1> USE DEF RepositoryInv, TypeInv
<1> DEFINE it == b.item
<1>0. b \in Construction /\ it \in sync[j].adds
  BY BuiltType DEF SyncAdd
<1>1. /\ Inside(j)
      /\ UNCHANGED <<cluster, revision, copied, bus, syncOverlap>>
      /\ \/ sync' = [sync EXCEPT ![j] = Idle]
         \/ sync' = [sync EXCEPT ![j] =
              [sync[j] EXCEPT !.adds = sync[j].adds \ {it}, !.built = {}]]
  BY DEF SyncAdd
<1>2. /\ sync[j] \in SyncExecution
      /\ it \in sync[j].items
      /\ it \in Item
  BY <1>0 DEF TypeOK, ListedItems, SyncExecution
<1>a. /\ Free # {}
      /\ tasks' = Append(tasks, FreshObject)
      /\ heap' = [heap EXCEPT ![FreshObject] = Constructed(b)]
  BY DEF SyncAdd
<1>b. /\ Constructed(b).task = it
      /\ Constructed(b).schedule = it.schedule
  BY <1>0, NewTaskType
<1> HIDE DEF it
<1>3. /\ \A k \in SyncJobs \ {j} : sync'[k] = sync[k]
      /\ \/ sync'[j] = Idle
         \/ /\ sync'[j].adds = sync[j].adds \ {it}
            /\ sync'[j].updates = sync[j].updates
            /\ sync'[j].removes = sync[j].removes
            /\ sync'[j].items = sync[j].items
  <2>1. sync \in [SyncJobs -> SyncExecution]
    BY DEF TypeOK
  <2>2. LET e == [sync[j] EXCEPT !.adds = sync[j].adds \ {it}, !.built = {}]
        IN  /\ e.adds = sync[j].adds \ {it}
            /\ e.updates = sync[j].updates
            /\ e.removes = sync[j].removes
            /\ e.items = sync[j].items
    BY <1>2 DEF SyncExecution
  <2> HIDE DEF RepositoryInv, TypeInv
  <2>3. QED
    BY <1>1, <2>1, <2>2
<1>4. ListedItems' /\ NamedInLists' \subseteq NamedInLists
  BY <1>3, ListsShrink
<1>5. OneInside'
  BY <1>1, <1>3 DEF OneInside, Inside, Idle
<1>7. RepositoryInv'
  <2> DEFINE o == FreshObject
             n == Len(tasks) + 1
  <2>1. /\ Free # {}
        /\ tasks' = Append(tasks, o)
        /\ heap' = [heap EXCEPT ![o] = Constructed(b)]
    BY <1>a
  <2>2. /\ o \in Objects
        /\ o \notin Reachable
        /\ \A k \in SyncJobs : o \notin sync[k].removes
    BY <2>1, FreshIsFree
  <2>3. /\ tasks \in Seq(Objects)
        /\ heap' \in [Objects -> TaskRecord \cup {NoResource}]
    BY DEF TypeOK
  <2> HIDE DEF o
  <2>4. /\ DOMAIN tasks' = DOMAIN tasks \cup {n}
        /\ n \notin DOMAIN tasks
        /\ tasks'[n] = o
        /\ \A i \in DOMAIN tasks : tasks'[i] = tasks[i]
        /\ ObjectsOf(tasks') = ObjectsOf(tasks) \cup {o}
    BY <2>1, <2>2, <2>3, AppendObject
  <2> HIDE DEF n
  <2>5. /\ heap'[o].task = it
        /\ heap'[o].schedule = it.schedule
        /\ \A p \in Objects \ {o} : heap'[p] = heap[p]
    BY <1>b, <2>1, <2>2 DEF TypeOK
  <2>6. \A i \in DOMAIN tasks : /\ tasks[i] \in ObjectsOf(tasks)
                                /\ tasks[i] \in Objects \ {o}
                                /\ heap'[tasks'[i]] = heap[tasks[i]]
    <3>1. ASSUME NEW i \in DOMAIN tasks
          PROVE  tasks[i] \in ObjectsOf(tasks) /\ tasks[i] \in Objects \ {o}
      BY <2>2, <2>3 DEF ObjectsOf, Reachable
    <3>2. QED
      BY <2>4, <2>5, <3>1
  <2>7. UidNamesKey'
    <3>1. NamedInMemory' \subseteq NamedInMemory \cup NamedInLists
      <4>1. Reachable' = Reachable \cup {o}
        BY <1>1, <2>4 DEF Reachable, Held
      <4>2. <<it.key, it.uid>> \in NamedInLists
        BY <1>2 DEF NamedInLists
      <4>3. \A p \in Reachable : heap'[p] = heap[p]
        BY <2>2, <2>5, ReachableObjects
      <4>4. QED
        BY <2>5, <4>1, <4>2, <4>3 DEF NamedInMemory
    <3>2. NamedInCluster' = NamedInCluster
      BY <1>1 DEF NamedInCluster, Present
    <3>3. QED
      BY <1>1, <1>4, <3>1, <3>2, NamesKept DEF Named
  <2>8. ASSUME ~syncOverlap
        PROVE  \A i \in DOMAIN tasks : heap[tasks[i]].task.uid # it.uid
    BY <1>0, <1>1, <2>8 DEF SyncProgress, HasUid, UidIndexes, it
  <2>9. UniqueUids'
    BY <1>1, <2>4, <2>5, <2>6, <2>8 DEF UniqueUids
  <2>10. ScheduleCoherent'
    <3>1. ASSUME ~syncOverlap, NEW p \in ObjectsOf(tasks')
          PROVE  heap'[p].schedule = heap'[p].task.schedule
      <4>1. CASE p = o
        BY <2>5, <4>1
      <4>2. CASE p # o
        <5>1. p \in ObjectsOf(tasks) /\ p \in Objects
          BY <2>4, <3>1, <4>2, ReachableObjects DEF Reachable
        <5>2. QED
          BY <2>5, <3>1, <4>2, <5>1 DEF ScheduleCoherent
      <4>3. QED
        BY <4>1, <4>2
    <3>2. QED
      BY <1>1, <3>1 DEF ScheduleCoherent
  <2>11. SyncProgress'
    <3> SUFFICES ASSUME ~syncOverlap', NEW k \in SyncJobs, Inside(k)'
                 PROVE
            /\ \A a \in sync'[k].adds : ~HasUid(tasks', heap', a.uid)
            /\ \A a \in sync'[k].updates : HasUid(tasks', heap', a.uid)
            /\ \A i \in DOMAIN tasks' :
                  tasks'[i] \in sync'[k].removes
                    <=> \A a \in sync'[k].items :
                          heap'[tasks'[i]].task.uid # a.uid
            /\ sync'[k].removes \subseteq ObjectsOf(tasks')
            /\ \A a \in sync'[k].items :
                  \/ a \in sync'[k].adds \cup sync'[k].updates
                  \/ HasTask(a)'
      BY DEF SyncProgress
    <3>1. k = j /\ ~syncOverlap
      BY <1>1, <1>3, OnlyInside
    <3>2. /\ sync'[j].adds = sync[j].adds \ {it}
          /\ sync'[j].updates = sync[j].updates
          /\ sync'[j].removes = sync[j].removes
          /\ sync'[j].items = sync[j].items
      BY <1>3, <3>1 DEF Inside, Idle
    <3>3. \A a \in sync[j].adds \ {it} : ~HasUid(tasks', heap', a.uid)
      <4>1. ASSUME NEW a \in sync[j].adds, a # it PROVE a.uid # it.uid
        BY <1>2, <4>1, ItemByUid DEF ListedItems
      <4>2. ASSUME NEW a \in sync[j].adds
            PROVE  \A i \in DOMAIN tasks : heap[tasks[i]].task.uid # a.uid
        BY <1>1, <3>1 DEF SyncProgress, HasUid, UidIndexes
      <4>3. QED
        BY <2>4, <2>5, <2>6, <4>1, <4>2 DEF HasUid, UidIndexes
    <3>4. \A a \in sync[j].updates : HasUid(tasks', heap', a.uid)
      <4>1. \A a \in sync[j].updates : HasUid(tasks, heap, a.uid)
        BY <1>1, <3>1 DEF SyncProgress
      <4>2. QED
        BY <2>4, <2>6, <4>1 DEF HasUid, UidIndexes
    <3>5. \A i \in DOMAIN tasks' :
             tasks'[i] \in sync[j].removes
               <=> \A a \in sync[j].items : heap'[tasks'[i]].task.uid # a.uid
      <4>1. \A i \in DOMAIN tasks :
               tasks[i] \in sync[j].removes
                 <=> \A a \in sync[j].items : heap[tasks[i]].task.uid # a.uid
        BY <1>1, <3>1 DEF SyncProgress
      <4>2. QED
        BY <1>2, <2>2, <2>4, <2>5, <2>6, <4>1
    <3>6. sync[j].removes \subseteq ObjectsOf(tasks')
      BY <1>1, <2>4, <3>1 DEF SyncProgress
    <3>7. ASSUME NEW a \in sync[j].items,
                 a \notin (sync[j].adds \ {it}) \cup sync[j].updates
          PROVE  HasTask(a)'
      <4>1. CASE a = it
        BY <2>4, <2>5, <4>1 DEF HasTask
      <4>2. CASE a # it
        <5>1. HasTask(a)
          BY <1>1, <3>1, <3>7, <4>2 DEF SyncProgress
        <5>2. QED
          BY <2>4, <2>6, <5>1 DEF HasTask
      <4>3. QED
        BY <4>1, <4>2
    <3>8. QED
      BY <3>1, <3>2, <3>3, <3>4, <3>5, <3>6, <3>7
  <2>12. QED
    BY <1>4, <1>5, <2>7, <2>9, <2>10, <2>11
<1>8. QED
  BY <1>7

\* The removal of a task without an item.
LEMMA RepositoryRemove ==
    ASSUME RepositoryInv, TypeInv', NEW j \in SyncJobs,
           NEW o \in sync[j].removes, SyncRemove(j, o)
    PROVE  RepositoryInv'
<1> USE DEF RepositoryInv, TypeInv
<1>1. /\ Inside(j)
      /\ sync[j].adds = {}
      /\ UNCHANGED <<cluster, revision, heap, copied, bus, syncOverlap>>
      /\ tasks' = RemoveObject(tasks, o)
      /\ sync' = [sync EXCEPT
                   ![j] = [sync[j] EXCEPT !.removes = sync[j].removes \ {o}]]
  BY DEF SyncRemove
<1>2. sync[j] \in SyncExecution /\ tasks \in Seq(Objects)
  BY DEF TypeOK
<1>3. /\ \A k \in SyncJobs \ {j} : sync'[k] = sync[k]
      /\ sync'[j].pc = "sync"
      /\ sync'[j].adds = sync[j].adds
      /\ sync'[j].updates = sync[j].updates
      /\ sync'[j].removes = sync[j].removes \ {o}
      /\ sync'[j].items = sync[j].items
  BY <1>1, <1>2 DEF SyncExecution, TypeOK, Inside
<1>4. ListedItems' /\ NamedInLists' \subseteq NamedInLists
  BY <1>3, ListsShrink
<1>5. OneInside'
  BY <1>1, <1>3 DEF OneInside, Inside
<1>6. /\ \A i, l \in DOMAIN tasks' : \E m, n \in DOMAIN tasks :
           tasks'[i] = tasks[m] /\ tasks'[l] = tasks[n] /\ (m = n <=> i = l)
      /\ \A m \in DOMAIN tasks :
           tasks[m] # o => \E i \in DOMAIN tasks' : tasks'[i] = tasks[m]
      /\ (\A m, n \in DOMAIN tasks : tasks[m] = tasks[n] => m = n)
           => \A i \in DOMAIN tasks' : tasks'[i] # o
  <2>1. tasks \in Seq(Objects) /\ tasks' = RemoveObject(tasks, o)
    BY <1>1, <1>2
  <2> HIDE DEF RepositoryInv, TypeInv
  <2>2. \A i, l \in DOMAIN tasks' : \E m, n \in DOMAIN tasks :
           tasks'[i] = tasks[m] /\ tasks'[l] = tasks[n] /\ (m = n <=> i = l)
    BY <2>1, RemoveObjectProperties
  <2>3. \A m \in DOMAIN tasks :
           tasks[m] # o => \E i \in DOMAIN tasks' : tasks'[i] = tasks[m]
    BY <2>1, RemoveObjectProperties
  <2>4. (\A m, n \in DOMAIN tasks : tasks[m] = tasks[n] => m = n)
          => \A i \in DOMAIN tasks' : tasks'[i] # o
    BY <2>1, RemoveObjectProperties
  <2>5. QED
    BY <2>2, <2>3, <2>4
<1>7. \A i \in DOMAIN tasks' : \E m \in DOMAIN tasks : tasks'[i] = tasks[m]
  BY <1>6
<1>8. ObjectsOf(tasks') \subseteq ObjectsOf(tasks)
  BY <1>7 DEF ObjectsOf
<1>9. UidNamesKey'
  <2>1. NamedInMemory' \subseteq NamedInMemory
    <3>1. Reachable' \subseteq Reachable
      BY <1>1, <1>8 DEF Reachable, Held
    <3>2. QED
      BY <1>1, <3>1 DEF NamedInMemory
  <2>2. NamedInCluster' = NamedInCluster
    BY <1>1 DEF NamedInCluster, Present
  <2>3. QED
    BY <1>1, <1>4, <2>1, <2>2, NamesKept DEF Named
<1>10. UniqueUids'
  <2>1. ASSUME ~syncOverlap, NEW i \in DOMAIN tasks', NEW l \in DOMAIN tasks',
               heap[tasks'[i]].task.uid = heap[tasks'[l]].task.uid
        PROVE  i = l
    <3>1. PICK m \in DOMAIN tasks, n \in DOMAIN tasks :
            tasks'[i] = tasks[m] /\ tasks'[l] = tasks[n] /\ (m = n <=> i = l)
      BY <1>6
    <3>2. QED
      BY <2>1, <3>1 DEF UniqueUids
  <2>2. QED
    BY <1>1, <2>1 DEF UniqueUids
<1>11. ScheduleCoherent'
  BY <1>1, <1>8 DEF ScheduleCoherent
<1>12. SyncProgress'
  <2> SUFFICES ASSUME ~syncOverlap', NEW k \in SyncJobs, Inside(k)'
               PROVE
          /\ \A a \in sync'[k].adds : ~HasUid(tasks', heap', a.uid)
          /\ \A a \in sync'[k].updates : HasUid(tasks', heap', a.uid)
          /\ \A i \in DOMAIN tasks' :
                tasks'[i] \in sync'[k].removes
                  <=> \A a \in sync'[k].items :
                        heap'[tasks'[i]].task.uid # a.uid
          /\ sync'[k].removes \subseteq ObjectsOf(tasks')
          /\ \A a \in sync'[k].items :
                \/ a \in sync'[k].adds \cup sync'[k].updates
                \/ HasTask(a)'
    BY DEF SyncProgress
  <2>1. k = j /\ ~syncOverlap
    BY <1>1, <1>3, OnlyInside
  <2>2. /\ \A a \in sync[j].updates : HasUid(tasks, heap, a.uid)
        /\ \A i \in DOMAIN tasks :
              tasks[i] \in sync[j].removes
                <=> \A a \in sync[j].items : heap[tasks[i]].task.uid # a.uid
        /\ sync[j].removes \subseteq ObjectsOf(tasks)
        /\ \A a \in sync[j].items :
              a \in sync[j].adds \cup sync[j].updates \/ HasTask(a)
    BY <1>1, <2>1 DEF SyncProgress
  <2>3. \A i \in DOMAIN tasks' : tasks'[i] # o
    <3>1. \A m, n \in DOMAIN tasks : tasks[m] = tasks[n] => m = n
      BY <2>1 DEF UniqueUids
    <3>2. QED
      BY <1>6, <3>1
  <2>4. \A a \in sync[j].items : \A m \in DOMAIN tasks :
           heap[tasks[m]].task.uid = a.uid => tasks[m] # o
    BY <2>2
  <2>5. \A a \in sync[j].updates : HasUid(tasks', heap', a.uid)
    <3>1. sync[j].updates \subseteq sync[j].items
      BY DEF ListedItems
    <3>2. ASSUME NEW a \in sync[j].updates PROVE HasUid(tasks', heap, a.uid)
      <4>1. PICK m \in DOMAIN tasks : heap[tasks[m]].task.uid = a.uid
        BY <2>2 DEF HasUid, UidIndexes
      <4>2. PICK i \in DOMAIN tasks' : tasks'[i] = tasks[m]
        BY <1>6, <2>4, <3>1, <4>1
      <4>3. QED
        BY <4>1, <4>2 DEF HasUid, UidIndexes
    <3>3. QED
      BY <1>1, <3>2
  <2>6. \A i \in DOMAIN tasks' :
           tasks'[i] \in sync[j].removes \ {o}
             <=> \A a \in sync[j].items : heap[tasks'[i]].task.uid # a.uid
    BY <1>7, <2>2, <2>3
  <2>7. sync[j].removes \ {o} \subseteq ObjectsOf(tasks')
    BY <1>6, <2>2 DEF ObjectsOf
  <2>8. ASSUME NEW a \in sync[j].items,
               a \notin sync[j].adds \cup sync[j].updates
        PROVE  HasTask(a)'
    <3>1. PICK m \in DOMAIN tasks : heap[tasks[m]].task = a
      BY <2>2, <2>8 DEF HasTask
    <3>2. PICK i \in DOMAIN tasks' : tasks'[i] = tasks[m]
      BY <1>6, <2>4, <3>1
    <3>3. QED
      BY <1>1, <3>1, <3>2 DEF HasTask
  <2>9. QED
    BY <1>1, <1>3, <2>1, <2>5, <2>6, <2>7, <2>8
<1>13. QED
  BY <1>4, <1>5, <1>9, <1>10, <1>11, <1>12

\* The two ways an item is given to the task it has in the list: to the same
\* object, or to the one constructed for it.
UpdatesItem(j, it) ==
    /\ it \in sync[j].updates
    /\ \/ SyncUpdate(j, it)
       \/ \E b \in sync[j].built : b.item = it /\ SyncReplace(j, b)

\* "x" is the object that has the item afterwards.
LEMMA UpdateEffect ==
    ASSUME TypeInv, NEW j \in SyncJobs, NEW it, UpdatesItem(j, it),
           HasUid(tasks, heap, it.uid)
    PROVE  \E i \in DOMAIN tasks, x \in Objects :
             /\ i = FirstByUid(tasks, heap, it.uid)
             /\ DOMAIN tasks' = DOMAIN tasks
             /\ tasks'[i] = x
             /\ \A k \in DOMAIN tasks \ {i} : tasks'[k] = tasks[k]
             /\ heap'[x].task = it
             /\ \A p \in Objects \ {x} : heap'[p] = heap[p]
             /\ x \in ObjectsOf(tasks) \/ x \notin Reachable
             /\ \/ /\ SameSchedule(tasks, heap, it)
                   /\ x = tasks[i]
                   /\ heap'[x].schedule = heap[x].schedule
                   /\ heap'[x].nextRunTime = heap[x].nextRunTime
                   /\ heap'[x].lastRunTime = heap[x].lastRunTime
                \/ /\ x \notin Reachable
                   /\ \A k \in SyncJobs : x \notin sync[k].removes
                   /\ heap'[x].schedule = it.schedule
                   /\ heap'[x].lastRunTime = Never
                   /\ \E b \in sync[j].built :
                        /\ b.item = it
                        /\ heap'[x].nextRunTime = b.referenceTime
<1> USE DEF TypeInv, TypeOK
<1> DEFINE i == FirstByUid(tasks, heap, it.uid)
<1>1. i \in DOMAIN tasks
  BY FirstByUidProperties
<1>2. CASE SyncUpdate(j, it)
  <2> DEFINE x == tasks[i]
  <2>1. /\ heap' = [heap EXCEPT ![x].task = it]
        /\ tasks' = tasks
        /\ SameSchedule(tasks, heap, it)
    BY <1>2 DEF SyncUpdate, UpdateTask
  <2>2. x \in ObjectsOf(tasks) /\ x \in Reachable /\ x \in Objects
    BY <1>1 DEF ObjectsOf, Reachable
  <2>3. heap[x] \in TaskRecord
    BY <2>2 DEF LiveTasks
  <2> HIDE DEF i
  <2>4. /\ heap'[x].task = it
        /\ heap'[x].schedule = heap[x].schedule
        /\ heap'[x].nextRunTime = heap[x].nextRunTime
        /\ heap'[x].lastRunTime = heap[x].lastRunTime
        /\ \A p \in Objects \ {x} : heap'[p] = heap[p]
    BY <2>1, <2>2, <2>3 DEF TaskRecord
  <2>5. QED
    BY <1>1, <2>1, <2>2, <2>4 DEF i
<1>3. CASE \E b \in sync[j].built : b.item = it /\ SyncReplace(j, b)
  <2>a. PICK b \in sync[j].built : b.item = it /\ SyncReplace(j, b)
    BY <1>3
  <2> DEFINE x == FreshObject
  <2>1. /\ Free # {}
        /\ tasks' = [tasks EXCEPT ![i] = x]
        /\ heap' = [heap EXCEPT ![x] = Constructed(b)]
    BY <2>a DEF SyncReplace
  <2>2. /\ x \in Objects
        /\ x \notin Reachable
        /\ \A k \in SyncJobs : x \notin sync[k].removes
    BY <2>1, FreshIsFree
  <2> HIDE DEF i, x
  <2>3. b \in Construction
    BY BuiltType
  <2>4. /\ heap'[x].task = it
        /\ heap'[x].schedule = it.schedule
        /\ heap'[x].nextRunTime = b.referenceTime
        /\ heap'[x].lastRunTime = Never
        /\ \A p \in Objects \ {x} : heap'[p] = heap[p]
    BY <2>a, <2>1, <2>2, <2>3, NewTaskType
  <2>5. /\ DOMAIN tasks' = DOMAIN tasks
        /\ tasks'[i] = x
        /\ \A k \in DOMAIN tasks \ {i} : tasks'[k] = tasks[k]
    BY <1>1, <2>1
  <2>6. x \notin ObjectsOf(tasks)
    BY <2>2 DEF Reachable
  <2>7. QED
    BY <1>1, <2>a, <2>2, <2>4, <2>5, <2>6 DEF i
<1>4. QED
  BY <1>2, <1>3 DEF UpdatesItem

LEMMA RepositoryUpdate ==
    ASSUME RepositoryInv, TypeInv', NEW j \in SyncJobs,
           NEW it, UpdatesItem(j, it)
    PROVE  RepositoryInv'
<1> USE DEF RepositoryInv, TypeInv
<1>1. /\ Inside(j)
      /\ it \in sync[j].updates
      /\ sync[j].adds = {}
      /\ sync[j].removes = {}
      /\ UNCHANGED <<cluster, revision, copied, bus, syncOverlap>>
      /\ \/ sync' = [sync EXCEPT ![j] = Idle]
         \/ sync' = [sync EXCEPT ![j] =
              [sync[j] EXCEPT !.updates = sync[j].updates \ {it}]]
         \/ sync' = [sync EXCEPT ![j] =
              [sync[j] EXCEPT !.updates = sync[j].updates \ {it},
                              !.built = {}]]
  BY DEF UpdatesItem, SyncUpdate, SyncReplace
<1>2. sync[j] \in SyncExecution /\ it \in sync[j].items
  BY <1>1 DEF TypeOK, ListedItems
<1>3. /\ \A k \in SyncJobs \ {j} : sync'[k] = sync[k]
      /\ \/ sync'[j] = Idle
         \/ /\ sync'[j].adds = {}
            /\ sync'[j].removes = {}
            /\ sync'[j].updates = sync[j].updates \ {it}
            /\ sync'[j].items = sync[j].items
  <2>1. sync \in [SyncJobs -> SyncExecution]
    BY DEF TypeOK
  <2>2. LET U == sync[j].updates \ {it}
            e == [sync[j] EXCEPT !.updates = U]
            f == [sync[j] EXCEPT !.updates = U, !.built = {}]
        IN  /\ e.adds = sync[j].adds /\ f.adds = sync[j].adds
            /\ e.removes = sync[j].removes /\ f.removes = sync[j].removes
            /\ e.updates = U /\ f.updates = U
            /\ e.items = sync[j].items /\ f.items = sync[j].items
    BY <1>2 DEF SyncExecution
  <2> HIDE DEF RepositoryInv, TypeInv
  <2>3. QED
    BY <1>1, <2>1, <2>2
<1>4. ListedItems' /\ NamedInLists' \subseteq NamedInLists
  BY <1>1, <1>3, ListsShrink
<1>5. OneInside'
  BY <1>1, <1>3 DEF OneInside, Inside, Idle
<1>6. NamedInCluster' = NamedInCluster
  BY <1>1 DEF NamedInCluster, Present
<1>7. CASE ~HasUid(tasks, heap, it.uid)
  <2>1. UNCHANGED <<tasks, heap>>
    BY <1>7 DEF UpdatesItem, SyncUpdate, SyncReplace, UpdateTask
  <2>2. NamedInMemory' = NamedInMemory
    BY <1>1, <2>1, SameMemory DEF NamedInMemory
  <2>3. UidNamesKey'
    BY <1>1, <1>4, <1>6, <2>2, NamesKept DEF Named
  <2>4. UniqueUids' /\ ScheduleCoherent'
    BY <1>1, <2>1 DEF UniqueUids, ScheduleCoherent, ObjectsOf
  <2>5. syncOverlap
    BY <1>1, <1>7 DEF SyncProgress
  <2>6. SyncProgress'
    BY <1>1, <2>5 DEF SyncProgress
  <2>7. QED
    BY <1>4, <1>5, <2>3, <2>4, <2>6
<1>8. CASE HasUid(tasks, heap, it.uid)
  <2>1. PICK i \in DOMAIN tasks, x \in Objects :
             /\ i = FirstByUid(tasks, heap, it.uid)
             /\ DOMAIN tasks' = DOMAIN tasks
             /\ tasks'[i] = x
             /\ \A k \in DOMAIN tasks \ {i} : tasks'[k] = tasks[k]
             /\ heap'[x].task = it
             /\ \A p \in Objects \ {x} : heap'[p] = heap[p]
             /\ \/ /\ SameSchedule(tasks, heap, it)
                   /\ x = tasks[i]
                   /\ heap'[x].schedule = heap[x].schedule
                \/ /\ x \notin Reachable
                   /\ \A k \in SyncJobs : x \notin sync[k].removes
                   /\ heap'[x].schedule = it.schedule
    BY <1>8, UpdateEffect
  <2>2. heap[tasks[i]].task.uid = it.uid
    BY <1>8, <2>1, FirstByUidProperties
  <2>3. \A k \in DOMAIN tasks : tasks[k] \in ObjectsOf(tasks)
                                  /\ tasks[k] \in Objects
    BY DEF TypeOK, ObjectsOf
  <2>4. ObjectsOf(tasks') \subseteq ObjectsOf(tasks) \cup {x}
    BY <2>1 DEF ObjectsOf
  <2>5. UidNamesKey'
    <3>1. Reachable' \subseteq Reachable \cup {x}
      BY <1>1, <2>4 DEF Reachable, Held
    <3>2. <<it.key, it.uid>> \in NamedInLists
      BY <1>2 DEF NamedInLists
    <3>3. \A p \in Reachable : p # x => heap'[p] = heap[p]
      BY <2>1, ReachableObjects
    <3>4. NamedInMemory' \subseteq NamedInMemory \cup NamedInLists
      BY <2>1, <3>1, <3>2, <3>3 DEF NamedInMemory
    <3>5. QED
      BY <1>1, <1>4, <1>6, <3>4, NamesKept DEF Named
  <2>6. CASE syncOverlap
    BY <1>1, <1>4, <1>5, <2>5, <2>6
       DEF UniqueUids, ScheduleCoherent, SyncProgress
  <2>7. CASE ~syncOverlap
    <3>1. \A k, l \in DOMAIN tasks :
             heap[tasks[k]].task.uid = heap[tasks[l]].task.uid => k = l
      BY <2>7 DEF UniqueUids
    <3>2. \A k \in DOMAIN tasks \ {i} :
             tasks[k] # x /\ heap'[tasks'[k]] = heap[tasks[k]]
      <4>1. ASSUME NEW k \in DOMAIN tasks, k # i PROVE tasks[k] # x
        BY <2>1, <2>3, <3>1, <4>1 DEF Reachable
      <4>2. QED
        BY <2>1, <2>3, <4>1
    <3>3. UniqueUids'
      BY <2>1, <2>2, <3>1, <3>2 DEF UniqueUids
    <3>4. /\ \A a \in sync[j].updates : HasUid(tasks, heap, a.uid)
          /\ \A k \in DOMAIN tasks : \E a \in sync[j].items :
                heap[tasks[k]].task.uid = a.uid
          /\ \A a \in sync[j].items : a \in sync[j].updates \/ HasTask(a)
      BY <1>1, <2>7 DEF SyncProgress
    <3>5. heap'[x].schedule = it.schedule
      <4>1. CASE SameSchedule(tasks, heap, it) /\ x = tasks[i]
        <5> DEFINE k == FirstByKey(tasks, heap, it.key)
        <5>1. /\ k \in DOMAIN tasks
              /\ heap[tasks[k]].task.key = it.key
              /\ heap[tasks[k]].task.schedule = it.schedule
          BY <4>1, FirstByKeyProperties DEF SameSchedule
        <5> HIDE DEF k
        <5>2. PICK a \in sync[j].items : heap[tasks[k]].task.uid = a.uid
          BY <3>4, <5>1
        <5>3. a.key = it.key
          BY <5>1, <5>2, TaskNamedAsItem
        <5>4. a = it
          BY <1>2, <5>3 DEF ListedItems
        <5>5. k = i
          BY <2>2, <3>1, <5>1, <5>2, <5>4
        <5>6. heap[x].schedule = heap[x].task.schedule
          BY <2>3, <2>7, <4>1 DEF ScheduleCoherent
        <5>7. heap'[x].schedule = heap[x].schedule
          BY <2>1, <2>3, <4>1 DEF Reachable
        <5>8. QED
          BY <4>1, <5>1, <5>5, <5>6, <5>7
      <4>2. QED
        BY <2>1, <4>1
    <3>6. ScheduleCoherent'
      <4>1. ASSUME NEW p \in ObjectsOf(tasks')
            PROVE  heap'[p].schedule = heap'[p].task.schedule
        <5>1. CASE p = x
          BY <2>1, <3>5, <5>1
        <5>2. CASE p # x
          <6>1. p \in ObjectsOf(tasks) /\ p \in Objects
            BY <2>4, <5>2, ReachableObjects DEF Reachable
          <6>2. QED
            BY <2>1, <2>7, <5>2, <6>1 DEF ScheduleCoherent
        <5>3. QED
          BY <5>1, <5>2
      <4>2. QED
        BY <4>1 DEF ScheduleCoherent
    <3>7. SyncProgress'
      <4> SUFFICES ASSUME NEW k \in SyncJobs, Inside(k)'
                   PROVE
              /\ \A a \in sync'[k].adds : ~HasUid(tasks', heap', a.uid)
              /\ \A a \in sync'[k].updates : HasUid(tasks', heap', a.uid)
              /\ \A l \in DOMAIN tasks' :
                    tasks'[l] \in sync'[k].removes
                      <=> \A a \in sync'[k].items :
                            heap'[tasks'[l]].task.uid # a.uid
              /\ sync'[k].removes \subseteq ObjectsOf(tasks')
              /\ \A a \in sync'[k].items :
                    \/ a \in sync'[k].adds \cup sync'[k].updates
                    \/ HasTask(a)'
        BY DEF SyncProgress
      <4>1. k = j
        BY <1>1, <1>3, <2>7, OnlyInside
      <4>2. /\ sync'[j].adds = {}
            /\ sync'[j].removes = {}
            /\ sync'[j].updates = sync[j].updates \ {it}
            /\ sync'[j].items = sync[j].items
        BY <1>3, <4>1 DEF Inside, Idle
      <4>3. \A l \in DOMAIN tasks :
               heap'[tasks'[l]].task.uid = heap[tasks[l]].task.uid
        BY <2>1, <2>2, <3>2
      <4>4. \A a \in sync[j].updates : HasUid(tasks', heap', a.uid)
        BY <2>1, <3>4, <4>3 DEF HasUid, UidIndexes
      <4>5. \A l \in DOMAIN tasks' : \E a \in sync[j].items :
               heap'[tasks'[l]].task.uid = a.uid
        BY <2>1, <3>4, <4>3
      <4>6. ASSUME NEW a \in sync[j].items, a \notin sync[j].updates \ {it}
            PROVE  HasTask(a)'
        <5>1. CASE a = it
          BY <2>1, <5>1 DEF HasTask
        <5>2. CASE a # it
          <6>1. PICK l \in DOMAIN tasks : heap[tasks[l]].task = a
            BY <3>4, <4>6, <5>2 DEF HasTask
          <6>2. a.uid # it.uid
            BY <1>2, <5>2, ItemByUid
          <6>3. l # i
            BY <2>2, <6>1, <6>2
          <6>4. QED
            BY <2>1, <3>2, <6>1, <6>3 DEF HasTask
        <5>3. QED
          BY <5>1, <5>2
      <4>7. QED
        BY <4>1, <4>2, <4>4, <4>5, <4>6
    <3>8. QED
      BY <1>4, <1>5, <2>5, <3>3, <3>6, <3>7
  <2>8. QED
    BY <2>6, <2>7
<1>9. QED
  BY <1>7, <1>8

LEMMA RepositoryInit == Init => RepositoryInv
<1> SUFFICES ASSUME Init PROVE RepositoryInv
  OBVIOUS
<1>1. TypeInv
  BY TypeInit
<1>2. tasks = <<>> /\ \A k \in SyncJobs : sync[k] = Idle
  BY DEF Init
<1>3. Reachable = {}
  <2>1. ObjectsOf(tasks) = {}
    BY <1>2 DEF ObjectsOf
  <2>2. UNION {Held(j) : j \in BusJobs} = {}
    BY DEF Init, Held
  <2>3. QED
    BY <2>1, <2>2 DEF Reachable
<1>4. NamedInCluster = {} /\ NamedInMemory = {}
  BY <1>3 DEF NamedInCluster, NamedInMemory, Present, Init
<1>5. NamedInLists = {}
  BY <1>2 DEF NamedInLists, Idle
<1>6. UidNamesKey
  BY <1>4, <1>5 DEF UidNamesKey, Named
<1>7. ListedItems
  BY <1>2 DEF ListedItems, Idle
<1>8. OneInside /\ SyncProgress
  BY <1>2 DEF OneInside, SyncProgress, Inside, Idle
<1>9. UniqueUids /\ ScheduleCoherent
  BY <1>2 DEF UniqueUids, ScheduleCoherent, ObjectsOf
<1>10. QED
  BY <1>1, <1>6, <1>7, <1>8, <1>9 DEF RepositoryInv

LEMMA RepositoryNext == RepositoryInv /\ [Next]_vars => RepositoryInv'
<1> SUFFICES ASSUME RepositoryInv, [Next]_vars PROVE RepositoryInv'
  OBVIOUS
<1>1. TypeInv'
  BY TypeNext DEF RepositoryInv
<1>2. CASE UNCHANGED vars
  BY <1>1, <1>2, RepositoryOthers
<1>3. CASE Environment
  <2>1. CASE Crash
    BY <1>1, <2>1, RepositoryRestart DEF Crash
  <2>2. CASE ClockTick \/ ServiceSync
    BY <1>1, <2>2, RepositoryOthers
  <2>3. QED
    BY <1>1, <1>3, <2>1, <2>2, RepositoryEnvironment DEF Environment
<1>4. ASSUME NEW w \in phaseWrites, PhaseWrite(w) \/ PhaseWriteThrows(w)
      PROVE  RepositoryInv'
  <2>1. CASE PhaseWrite(w)
    BY <1>1, <2>1, RepositoryOthers
  <2>2. CASE PhaseWriteThrows(w)
    BY <1>1, <2>2, RepositoryRestart DEF PhaseWriteThrows
  <2>3. QED
    BY <1>4, <2>1, <2>2
<1>5. ASSUME NEW j \in SyncJobs, SyncStep(j) \/ RedisStep(j)
      PROVE  RepositoryInv'
  <2>1. CASE SyncListThrows(j)
    BY <1>1, <2>1, RepositoryOthers
  <2>2. ASSUME NEW b \in sync[j].built, SyncReplace(j, b)
        PROVE  RepositoryInv'
    <3>1. UpdatesItem(j, b.item)
      BY <2>2 DEF UpdatesItem, SyncReplace
    <3>2. QED
      BY <1>1, <3>1, RepositoryUpdate
  <2>3. ASSUME NEW it \in sync[j].updates, SyncUpdate(j, it)
        PROVE  RepositoryInv'
    <3>1. UpdatesItem(j, it)
      BY <2>3 DEF UpdatesItem
    <3>2. QED
      BY <1>1, <3>1, RepositoryUpdate
  <2>4. QED
    BY <1>1, <1>5, <2>1, <2>2, <2>3, RepositoryQuietSync, RepositoryList,
       RepositoryPlan, RepositoryConstruct, RepositoryAdd, RepositoryRemove
       DEF SyncStep, RedisStep
<1>6. ASSUME NEW j \in BusJobs, BusStep(j)
      PROVE  RepositoryInv'
  BY <1>1, <1>6, RepositoryOthers
<1>7. QED
  BY <1>2, <1>3, <1>4, <1>5, <1>6 DEF Next

LEMMA RepositoryCorrect == Spec => []RepositoryInv
BY RepositoryInit, RepositoryNext, PTL DEF Spec

\* SchedulerRepository never schedules a check twice as long as its Sync is not
\* entered twice at once: for any number of checks, edits, recreations,
\* exceptions, restarts and executions outside Sync.
THEOREM ChecksScheduledOnce == Spec => []UniqueUids
<1>1. RepositoryInv => UniqueUids
  BY DEF RepositoryInv
<1>2. QED
  BY <1>1, RepositoryCorrect, PTL

\* UpdateTask keeps the parsed crontab, and Sync calls it only where the item's
\* crontab is the same, although it compares by key and updates by uid.
THEOREM SchedulesMatchItems == Spec => []ScheduleCoherent
<1>1. RepositoryInv => ScheduleCoherent
  BY DEF RepositoryInv
<1>2. QED
  BY <1>1, RepositoryCorrect, PTL

\* What Sync leaves when it returns normally is the list it was given.
THEOREM SyncLeavesTheList == Spec => []SyncApplied
<1>1. RepositoryInv => SyncApplied
  <2> SUFFICES ASSUME RepositoryInv, NEW j \in SyncJobs, ~syncOverlap,
                      SyncDone(j)
               PROVE  {heap[o].task : o \in ObjectsOf(tasks)} = sync[j].items
    BY DEF SyncApplied
  <2>1. /\ \A i \in DOMAIN tasks : \E it \in sync[j].items :
              heap[tasks[i]].task.uid = it.uid
        /\ \A it \in sync[j].items : HasTask(it)
    BY DEF RepositoryInv, SyncProgress, SyncDone
  <2>2. ASSUME NEW i \in DOMAIN tasks
        PROVE  heap[tasks[i]].task \in sync[j].items
    <3>1. PICK it \in sync[j].items : heap[tasks[i]].task.uid = it.uid
      BY <2>1
    <3>2. PICK k \in DOMAIN tasks : heap[tasks[k]].task = it
      BY <2>1 DEF HasTask
    <3>3. k = i
      BY <3>1, <3>2 DEF RepositoryInv, UniqueUids
    <3>4. QED
      BY <3>2, <3>3
  <2>3. QED
    BY <2>1, <2>2 DEF HasTask, ObjectsOf
<1>2. QED
  BY <1>1, RepositoryCorrect, PTL

-----------------------------------------------------------------------------
(***************************************************************************)
(* BusScheduler: nothing early, no occurrence twice.                       *)
(***************************************************************************)
PublishInv ==
    /\ OnePublishing
    /\ NotEarly
    /\ SentPast
    /\ HeldOnce
    /\ BuiltAfter
    /\ NoRepublish

BusInv == RepositoryInv /\ PublishInv

\* A task runs only after its time, or earlier by no more than the hour the
\* local clock repeats.
LEMMA RunsLate ==
    ASSUME NEW t \in TaskRecord, NEW n \in Nat, ShouldRun(t, n)
    PROVE  \/ t.nextRunTime < n
           \/ /\ t.nextRunTime \in Repeated
              /\ t.nextRunTime < n + FallBackBy
<1>1. t.nextRunTime \in Nat /\ FallBackAt \in Nat /\ FallBackBy \in Nat
  BY ScheduleAssumption DEF TaskRecord
<1>2. Local(t.nextRunTime) < Local(n)
  BY DEF ShouldRun
<1>3. QED
  BY <1>1, <1>2 DEF Local, Repeated

\* Whatever an execution of Sync has constructed, it constructs now.
BuiltKept ==
    \A k \in SyncJobs : \A b \in sync'[k].built :
        b \in sync[k].built \/ b.referenceTime = now

LEMMA BuiltSteps ==
    ASSUME TypeOK, NEW j \in SyncJobs, SyncStep(j) \/ RedisStep(j)
    PROVE  BuiltKept
<1>1. sync \in [SyncJobs -> SyncExecution] /\ sync[j] \in SyncExecution
  BY DEF TypeOK
<1> USE <1>1
<1>a. ASSUME NEW e, sync' = [sync EXCEPT ![j] = e],
             e.built \subseteq sync[j].built
      PROVE  BuiltKept
  BY <1>a DEF BuiltKept
<1>b. CASE sync' = sync
  BY <1>b DEF BuiltKept
<1>c. CASE sync' = [sync EXCEPT ![j] = Idle]
  BY <1>a, <1>c DEF Idle
<1>2. CASE SyncList(j)
  <2>1. PICK I : sync' = [sync EXCEPT
                   ![j] = [Idle EXCEPT !.pc = "listed", !.items = I]]
    BY <1>2 DEF SyncList
  <2>2. QED
    BY <1>a, <2>1 DEF Idle
<1>3. CASE SyncPlan(j)
  <2>1. PICK A, U, R : sync' = [sync EXCEPT ![j] =
          [sync[j] EXCEPT !.pc = "sync", !.adds = A, !.updates = U,
                          !.removes = R]]
    BY <1>3 DEF SyncPlan
  <2>2. [sync[j] EXCEPT !.pc = "sync", !.adds = A, !.updates = U,
                        !.removes = R].built = sync[j].built
    BY DEF SyncExecution
  <2>3. QED
    BY <1>a, <2>1, <2>2
<1>4. ASSUME NEW it \in sync[j].adds \cup sync[j].updates, Construct(j, it)
      PROVE  BuiltKept
  <2> DEFINE B == {[item |-> it, referenceTime |-> now]}
  <2>1. \A b \in B : b.referenceTime = now
    OBVIOUS
  <2>2. \/ sync' = [sync EXCEPT ![j] = Idle]
        \/ sync' = [sync EXCEPT ![j] = [sync[j] EXCEPT !.built = B]]
    BY <1>4 DEF Construct
  <2> HIDE DEF B
  <2>3. [sync[j] EXCEPT !.built = B].built = B
    BY DEF SyncExecution
  <2>4. QED
    BY <1>c, <2>1, <2>2, <2>3 DEF BuiltKept
<1>5. ASSUME NEW b \in sync[j].built, SyncAdd(j, b) \/ SyncReplace(j, b)
      PROVE  BuiltKept
  <2>1. PICK A, U :
          \/ sync' = [sync EXCEPT ![j] = Idle]
          \/ sync' = [sync EXCEPT
               ![j] = [sync[j] EXCEPT !.adds = A, !.built = {}]]
          \/ sync' = [sync EXCEPT
               ![j] = [sync[j] EXCEPT !.updates = U, !.built = {}]]
    BY <1>5 DEF SyncAdd, SyncReplace
  <2>2. /\ [sync[j] EXCEPT !.adds = A, !.built = {}].built = {}
        /\ [sync[j] EXCEPT !.updates = U, !.built = {}].built = {}
    BY DEF SyncExecution
  <2>3. QED
    BY <1>a, <1>c, <2>1, <2>2
<1>6. CASE \/ \E o \in sync[j].removes : SyncRemove(j, o)
           \/ \E it \in sync[j].updates : SyncUpdate(j, it)
           \/ SyncReturns(j) \/ RedisReadKeys(j)
           \/ \E it \in sync[j].adds : RedisAdd(j, it)
           \/ \E k \in sync[j].stale : RedisRemove(j, k)
  <2>1. PICK A, U, R, K :
          \/ sync' = sync
          \/ sync' = [sync EXCEPT ![j] = Idle]
          \/ sync' = [sync EXCEPT ![j] = [sync[j] EXCEPT !.adds = A]]
          \/ sync' = [sync EXCEPT ![j] = [sync[j] EXCEPT !.updates = U]]
          \/ sync' = [sync EXCEPT ![j] = [sync[j] EXCEPT !.removes = R]]
          \/ sync' = [sync EXCEPT ![j] = [sync[j] EXCEPT !.stale = K]]
          \/ sync' = [sync EXCEPT
               ![j] = [sync[j] EXCEPT !.pc = "redisAdd", !.adds = A]]
          \/ sync' = [sync EXCEPT
               ![j] = [sync[j] EXCEPT !.pc = "redisRemove", !.stale = K]]
    BY <1>6 DEF SyncRemove, SyncUpdate, SyncReturns, RedisReadKeys, RedisAdd,
       RedisRemove
  <2>2. LET b == sync[j].built
        IN  /\ [sync[j] EXCEPT !.adds = A].built = b
            /\ [sync[j] EXCEPT !.updates = U].built = b
            /\ [sync[j] EXCEPT !.removes = R].built = b
            /\ [sync[j] EXCEPT !.stale = K].built = b
            /\ [sync[j] EXCEPT !.pc = "redisAdd", !.adds = A].built = b
            /\ [sync[j] EXCEPT !.pc = "redisRemove", !.stale = K].built = b
    BY DEF SyncExecution
  <2>3. QED
    BY <1>a, <1>b, <1>c, <2>1, <2>2
<1>7. CASE \/ SyncListThrows(j) \/ SyncPlanThrows(j) \/ ExecuteReturns(j)
           \/ RedisThrows(j)
  BY <1>b, <1>c, <1>7 DEF SyncListThrows, SyncPlanThrows, ExecuteReturns,
     RedisThrows
<1>8. QED
  BY <1>2, <1>3, <1>4, <1>5, <1>6, <1>7 DEF SyncStep, RedisStep

\* Steps that publish nothing and start no publishing: what is in memory keeps
\* its check and its time, and what comes into the list was constructed for it.
LEMMA PublishKept ==
    ASSUME BusInv, BuiltKept, UNCHANGED <<copied, bus, sent, busOverlap>>,
           now' \in {now, now + 1}, ~syncOverlap' => ~syncOverlap,
           \A p \in Reachable :
             /\ heap'[p].nextRunTime = heap[p].nextRunTime
             /\ heap'[p].task.uid = heap[p].task.uid,
           \A p \in ObjectsOf(tasks') \ Reachable :
             ~busOverlap /\ ~syncOverlap =>
               AcceptedBefore(heap'[p].task.uid, heap'[p].nextRunTime)
    PROVE  PublishInv'
<1> USE DEF BusInv, PublishInv, RepositoryInv, TypeInv
<1>1. now \in Nat
  BY DEF TypeOK
<1>2. \A k \in BusJobs : Held(k)' = Held(k) /\ Held(k) \subseteq Reachable
  BY DEF Held, Reachable
<1>3. \A k \in BusJobs : \A o \in bus[k] :
         o \in Reachable /\ heap[o].nextRunTime \in Nat
  BY DEF Reachable, Held, LiveTasks, TaskRecord
<1>4. OnePublishing'
  BY <1>2 DEF OnePublishing
<1>5. NotEarly'
  BY <1>1, <1>3, ScheduleAssumption DEF NotEarly
<1>6. SentPast'
  <2>1. \A m \in sent : m.occurrence \in Nat
    BY DEF TypeOK
  <2>2. QED
    BY <1>1, <2>1 DEF SentPast
<1>7. HeldOnce'
  BY <1>2 DEF HeldOnce
<1>8. BuiltAfter'
  <2>1. ASSUME ~busOverlap, ~syncOverlap', NEW k \in SyncJobs,
               NEW b \in sync'[k].built, NEW m \in sent, m.uid = b.item.uid,
               ~m.replaced
        PROVE  m.occurrence < b.referenceTime \/ m.occurrence \in Repeated
    <3>1. CASE b \in sync[k].built
      BY <2>1, <3>1 DEF BuiltAfter, AcceptedBefore
    <3>2. CASE b.referenceTime = now
      BY <2>1, <3>2 DEF SentPast
    <3>3. QED
      BY <3>1, <3>2 DEF BuiltKept
  <2>2. QED
    BY <2>1 DEF BuiltAfter, AcceptedBefore
<1>9. NoRepublish'
  <2>1. ASSUME ~busOverlap, ~syncOverlap', NEW p \in Reachable',
               NEW m \in sent, m.uid = heap'[p].task.uid, ~m.replaced
        PROVE  m.occurrence < heap'[p].nextRunTime
                 \/ m.occurrence \in Repeated
    <3>1. CASE p \in Reachable
      BY <2>1, <3>1 DEF NoRepublish, AcceptedBefore
    <3>2. CASE p \notin Reachable
      <4>1. p \in ObjectsOf(tasks')
        BY <1>2, <2>1, <3>2 DEF Reachable
      <4>2. QED
        BY <2>1, <3>2, <4>1 DEF AcceptedBefore
    <3>3. QED
      BY <3>1, <3>2
  <2>2. QED
    BY <2>1 DEF NoRepublish, AcceptedBefore
<1>10. QED
  BY <1>4, <1>5, <1>6, <1>7, <1>8, <1>9

\* The steps that change no task and leave BusScheduler alone.
LEMMA PublishQuiet ==
    ASSUME BusInv, BuiltKept,
           UNCHANGED <<tasks, heap, copied, bus, sent, busOverlap>>,
           now' \in {now, now + 1}, ~syncOverlap' => ~syncOverlap
    PROVE  PublishInv'
<1>1. ObjectsOf(tasks') \subseteq Reachable
  BY DEF Reachable
<1>2. QED
  BY <1>1, PublishKept

LEMMA PublishRestart ==
    ASSUME BusInv, Restart, UNCHANGED <<now, sent, busOverlap>>
    PROVE  PublishInv'
<1>1. /\ \A j \in BusJobs : Held(j)' = {} /\ bus'[j] = {}
      /\ \A k \in SyncJobs : sync'[k] = Idle
  BY DEF Restart, Held
<1>2. Reachable' = {}
  <2>1. ObjectsOf(tasks)' = {}
    BY DEF Restart, ObjectsOf
  <2>2. QED
    BY <1>1, <2>1 DEF Reachable
<1>3. SentPast'
  BY DEF BusInv, PublishInv, SentPast
<1>4. QED
  BY <1>1, <1>2, <1>3 DEF PublishInv, OnePublishing, NotEarly, HeldOnce,
     BuiltAfter, NoRepublish, Idle

LEMMA PublishAdd ==
    ASSUME BusInv, NEW j \in SyncJobs, NEW b \in sync[j].built, SyncAdd(j, b),
           BuiltKept
    PROVE  PublishInv'
<1> USE DEF BusInv, RepositoryInv, TypeInv
<1> DEFINE x == FreshObject
<1>1. /\ UNCHANGED <<now, copied, bus, sent, syncOverlap, busOverlap>>
      /\ Free # {}
      /\ tasks' = Append(tasks, x)
      /\ heap' = [heap EXCEPT ![x] = Constructed(b)]
  BY DEF SyncAdd
<1>2. x \in Objects /\ x \notin Reachable
  BY <1>1, FreshIsFree
<1>3. tasks \in Seq(Objects) /\ b \in Construction
  BY BuiltType DEF TypeOK
<1> HIDE DEF x
<1>4. /\ ObjectsOf(tasks') = ObjectsOf(tasks) \cup {x}
      /\ heap'[x].task.uid = b.item.uid
      /\ heap'[x].nextRunTime = b.referenceTime
      /\ \A p \in Objects \ {x} : heap'[p] = heap[p]
  BY <1>1, <1>2, <1>3, AppendObject, NewTaskType DEF TypeOK
<1>5. \A p \in Reachable : heap'[p] = heap[p]
  BY <1>2, <1>4, ReachableObjects
<1>6. \A p \in ObjectsOf(tasks') \ Reachable : p = x
  BY <1>4 DEF Reachable
<1>7. ~busOverlap /\ ~syncOverlap =>
         AcceptedBefore(heap'[x].task.uid, heap'[x].nextRunTime)
  BY <1>4 DEF PublishInv, BuiltAfter
<1>8. QED
  BY <1>1, <1>5, <1>6, <1>7, PublishKept

LEMMA PublishRemove ==
    ASSUME BusInv, NEW j \in SyncJobs, NEW o \in sync[j].removes,
           SyncRemove(j, o), BuiltKept
    PROVE  PublishInv'
<1>1. UNCHANGED <<now, heap, copied, bus, sent, syncOverlap, busOverlap>>
  BY DEF SyncRemove
<1>2. ObjectsOf(tasks') \subseteq ObjectsOf(tasks)
  <2>1. tasks' = RemoveObject(tasks, o) /\ tasks \in Seq(Objects)
    BY DEF SyncRemove, BusInv, RepositoryInv, TypeInv, TypeOK
  <2>2. QED
    BY <2>1, RemoveObjectProperties DEF ObjectsOf
<1>3. ObjectsOf(tasks') \subseteq Reachable
  BY <1>2 DEF Reachable
<1>4. QED
  BY <1>1, <1>3, PublishKept

LEMMA PublishUpdate ==
    ASSUME BusInv, NEW j \in SyncJobs, NEW it, UpdatesItem(j, it), BuiltKept
    PROVE  PublishInv'
<1> USE DEF BusInv, RepositoryInv, TypeInv
<1>1. UNCHANGED <<now, copied, bus, sent, syncOverlap, busOverlap>>
  BY DEF UpdatesItem, SyncUpdate, SyncReplace
<1>2. CASE ~HasUid(tasks, heap, it.uid)
  BY <1>1, <1>2, PublishQuiet DEF UpdatesItem, SyncUpdate, SyncReplace,
     UpdateTask
<1>3. CASE HasUid(tasks, heap, it.uid)
  <2>1. PICK i \in DOMAIN tasks, x \in Objects :
             /\ i = FirstByUid(tasks, heap, it.uid)
             /\ DOMAIN tasks' = DOMAIN tasks
             /\ tasks'[i] = x
             /\ \A k \in DOMAIN tasks \ {i} : tasks'[k] = tasks[k]
             /\ heap'[x].task = it
             /\ \A p \in Objects \ {x} : heap'[p] = heap[p]
             /\ \/ /\ x = tasks[i]
                   /\ heap'[x].nextRunTime = heap[x].nextRunTime
                \/ /\ x \notin Reachable
                   /\ \E b \in sync[j].built :
                        /\ b.item = it
                        /\ heap'[x].nextRunTime = b.referenceTime
    BY <1>3, UpdateEffect
  <2>2. heap[tasks[i]].task.uid = it.uid
    BY <1>3, <2>1, FirstByUidProperties
  <2>3. /\ ObjectsOf(tasks') \subseteq ObjectsOf(tasks) \cup {x}
        /\ ObjectsOf(tasks) \subseteq Reachable
        /\ tasks[i] \in Reachable
    BY <2>1 DEF ObjectsOf, Reachable
  <2>4. \A p \in Reachable : /\ heap'[p].nextRunTime = heap[p].nextRunTime
                             /\ heap'[p].task.uid = heap[p].task.uid
    BY <2>1, <2>2, <2>3, ReachableObjects
  <2>5. \A p \in ObjectsOf(tasks') \ Reachable : p = x
    BY <2>3
  <2>6. x \notin Reachable /\ ~busOverlap /\ ~syncOverlap =>
           AcceptedBefore(heap'[x].task.uid, heap'[x].nextRunTime)
    BY <2>1, <2>3 DEF PublishInv, BuiltAfter
  <2>7. QED
    BY <1>1, <2>4, <2>5, <2>6, PublishKept
<1>4. QED
  BY <1>2, <1>3

\* The constructor copies one object for each check.
LEMMA PublishCopy ==
    ASSUME BusInv, NEW j \in BusJobs, BusCopy(j)
    PROVE  PublishInv'
<1> USE DEF BusInv, PublishInv, RepositoryInv, TypeInv
<1>1. /\ UNCHANGED <<now, tasks, heap, sync, bus, sent, syncOverlap>>
      /\ Held(j) = {}
      /\ Held(j)' = ObjectsOf(tasks)
      /\ \A k \in BusJobs \ {j} : Held(k)' = Held(k)
      /\ busOverlap' = (busOverlap \/ \E k \in BusJobs \ {j} : Held(k) # {})
  BY DEF BusCopy, TypeOK, Held
<1>2. ASSUME ~busOverlap', NEW k \in BusJobs \ {j} PROVE Held(k)' = {}
  BY <1>1, <1>2
<1>3. OnePublishing'
  BY <1>2 DEF OnePublishing
<1>4. NotEarly' /\ SentPast'
  BY <1>1 DEF NotEarly, SentPast
<1>5. HeldOnce'
  <2> SUFFICES ASSUME ~busOverlap', ~syncOverlap, NEW k \in BusJobs,
                      NEW o \in Held(k)', NEW p \in Held(k)',
                      heap[o].task.uid = heap[p].task.uid
               PROVE  o = p
    BY <1>1 DEF HeldOnce
  <2>1. o \in ObjectsOf(tasks) /\ p \in ObjectsOf(tasks)
    BY <1>1, <1>2
  <2>2. QED
    BY <2>1 DEF UniqueUids, ObjectsOf
<1>6. BuiltAfter'
  BY <1>1 DEF BuiltAfter, AcceptedBefore
<1>7. NoRepublish'
  <2>1. Reachable' \subseteq Reachable
    BY HeldMoves
  <2>2. QED
    BY <1>1, <2>1 DEF NoRepublish, AcceptedBefore
<1>8. QED
  BY <1>3, <1>4, <1>5, <1>6, <1>7

\* Execute keeps those that are due.
LEMMA PublishSelect ==
    ASSUME BusInv, NEW j \in BusJobs, BusSelect(j)
    PROVE  PublishInv'
<1> USE DEF BusInv, PublishInv, RepositoryInv, TypeInv
<1>1. /\ UNCHANGED <<now, tasks, heap, sync, sent, syncOverlap, busOverlap>>
      /\ bus' = [bus EXCEPT ![j] = Due(copied[j])]
      /\ copied' = [copied EXCEPT ![j] = {}]
      /\ Due(copied[j]) \subseteq copied[j]
  BY DEF BusSelect, Due
<1>2. \A k \in BusJobs : Held(k)' \subseteq Held(k)
  BY <1>1 DEF TypeOK, Held
<1>3. OnePublishing' /\ HeldOnce'
  BY <1>1, <1>2 DEF OnePublishing, HeldOnce
<1>4. NotEarly'
  <2>1. ASSUME NEW o \in Due(copied[j])
        PROVE  \/ heap[o].nextRunTime < now
               \/ /\ heap[o].nextRunTime \in Repeated
                  /\ heap[o].nextRunTime < now + FallBackBy
    <3>1. heap[o] \in TaskRecord /\ now \in Nat /\ ShouldRun(heap[o], now)
      BY <1>1 DEF Due, LiveTasks, Reachable, Held, TypeOK
    <3>2. QED
      BY <3>1, RunsLate
  <2>2. \A k \in BusJobs \ {j} : bus'[k] = bus[k]
    BY <1>1 DEF TypeOK
  <2>3. bus'[j] = Due(copied[j])
    BY <1>1 DEF TypeOK
  <2>4. QED
    BY <1>1, <2>1, <2>2, <2>3 DEF NotEarly
<1>5. SentPast' /\ BuiltAfter'
  BY <1>1 DEF SentPast, BuiltAfter, AcceptedBefore
<1>6. NoRepublish'
  <2>1. Reachable' \subseteq Reachable
    BY HeldMoves
  <2>2. QED
    BY <1>1, <2>1 DEF NoRepublish, AcceptedBefore
<1>7. QED
  BY <1>3, <1>4, <1>5, <1>6

LEMMA PublishOne ==
    ASSUME BusInv, NEW j \in BusJobs, NEW o \in bus[j], BusPublish(j, o)
    PROVE  PublishInv'
<1> USE DEF BusInv, PublishInv, RepositoryInv, TypeInv
<1>1. /\ UNCHANGED <<now, tasks, sync, copied, syncOverlap, busOverlap>>
      /\ heap' = [heap EXCEPT ![o] = Increment(heap[o])]
      /\ bus'[j] = bus[j] \ {o}
      /\ \A k \in BusJobs \ {j} : bus'[k] = bus[k]
      /\ sent' \subseteq sent \cup {Occurrence(o)}
  BY DEF BusPublish, TypeOK
<1>2. /\ o \in Reachable
      /\ o \in Objects
      /\ heap[o] \in TaskRecord
      /\ heap[o].schedule \in Proper
  BY DEF Reachable, Held, LiveTasks, TypeOK, BusPublish, Proper, TaskRecord
<1>3. /\ heap'[o].nextRunTime \in Nat
      /\ heap'[o].nextRunTime > heap[o].nextRunTime
      /\ heap'[o].task = heap[o].task
      /\ \A p \in Objects \ {o} : heap'[p] = heap[p]
  <2>1. heap[o].nextRunTime \in Nat
    BY <1>2 DEF TaskRecord
  <2>2. /\ GetNextOccurrence(heap[o].schedule, heap[o].nextRunTime) \in Nat
        /\ GetNextOccurrence(heap[o].schedule, heap[o].nextRunTime)
             > heap[o].nextRunTime
    BY <1>2, <2>1, NextOccurrenceFirst
  <2>3. /\ Increment(heap[o]).nextRunTime
             = GetNextOccurrence(heap[o].schedule, heap[o].nextRunTime)
        /\ Increment(heap[o]).task = heap[o].task
    BY <1>2 DEF Increment, TaskRecord
  <2>4. QED
    BY <1>1, <1>2, <2>2, <2>3 DEF TypeOK
<1>4. \A p \in Reachable : /\ heap[p].nextRunTime \in Nat
                           /\ heap'[p].nextRunTime \in Nat
                           /\ heap'[p].nextRunTime >= heap[p].nextRunTime
                           /\ heap'[p].task = heap[p].task
                           /\ p # o => heap'[p] = heap[p]
  <2>1. \A p \in Reachable : p \in Objects /\ heap[p].nextRunTime \in Nat
    BY ReachableObjects DEF LiveTasks, TaskRecord
  <2>2. QED
    BY <1>3, <2>1
<1>5. /\ o \in Held(j)
      /\ Reachable' \subseteq Reachable
      /\ \A k \in BusJobs : /\ Held(k) \subseteq Reachable
                            /\ Held(k)' \subseteq Held(k)
                            /\ bus[k] \subseteq Held(k)
  BY <1>1 DEF Reachable, Held, ObjectsOf
<1>6. ASSUME ~busOverlap, NEW k \in BusJobs, Held(k) # {} PROVE k = j
  BY <1>5, <1>6 DEF OnePublishing
<1>7. OnePublishing' /\ HeldOnce'
  BY <1>1, <1>4, <1>5 DEF OnePublishing, HeldOnce
<1>8. NotEarly'
  <2>1. ASSUME ~busOverlap, NEW k \in BusJobs, NEW p \in bus'[k]
        PROVE  \/ heap'[p].nextRunTime < now
               \/ /\ heap'[p].nextRunTime \in Repeated
                  /\ heap'[p].nextRunTime < now + FallBackBy
    <3>1. k = j
      BY <1>1, <1>5, <1>6, <2>1
    <3>2. p \in bus[k] /\ p # o /\ p \in Reachable
      BY <1>1, <1>5, <2>1, <3>1
    <3>3. QED
      BY <1>4, <2>1, <3>2 DEF NotEarly
  <2>2. QED
    BY <1>1, <2>1 DEF NotEarly
<1>9. SentPast'
  <2>1. ASSUME ~busOverlap
        PROVE  \/ Occurrence(o).occurrence < now
               \/ Occurrence(o).occurrence \in Repeated
    BY <2>1 DEF NotEarly, Occurrence
  <2>2. QED
    BY <1>1, <2>1 DEF SentPast
<1>10. /\ Occurrence(o).uid = heap[o].task.uid
       /\ Occurrence(o).occurrence = heap[o].nextRunTime
       /\ Occurrence(o).replaced = Replaced(o)
  BY DEF Occurrence
<1>11. BuiltAfter'
  <2> SUFFICES ASSUME ~busOverlap, ~syncOverlap, NEW k \in SyncJobs,
                      NEW b \in sync[k].built, NEW m \in sent',
                      m.uid = b.item.uid, ~m.replaced
               PROVE  \/ m.occurrence < b.referenceTime
                      \/ m.occurrence \in Repeated
    BY <1>1 DEF BuiltAfter, AcceptedBefore
  <2>1. CASE m \in sent
    BY <2>1 DEF BuiltAfter, AcceptedBefore
  <2>2. CASE m = Occurrence(o)
    BY <1>10, <2>2 DEF Replaced
  <2>3. QED
    BY <1>1, <2>1, <2>2
<1>12. NoRepublish'
  <2> SUFFICES ASSUME ~busOverlap, ~syncOverlap,
                      NEW p \in Reachable', NEW m \in sent',
                      m.uid = heap'[p].task.uid, ~m.replaced
               PROVE  \/ m.occurrence < heap'[p].nextRunTime
                      \/ m.occurrence \in Repeated
    BY <1>1 DEF NoRepublish, AcceptedBefore
  <2>1. p \in Reachable
    BY <1>5
  <2>2. CASE m \in sent
    <3>1. m.occurrence < heap[p].nextRunTime \/ m.occurrence \in Repeated
      BY <1>4, <2>1, <2>2 DEF NoRepublish, AcceptedBefore
    <3>2. m.occurrence \in Nat
      BY <2>2 DEF TypeOK
    <3>3. QED
      BY <1>4, <2>1, <3>1, <3>2
  <2>3. CASE m = Occurrence(o)
    <3>1. heap[p].task.uid = heap[o].task.uid
      BY <1>4, <1>10, <2>1, <2>3
    <3>2. p \in ObjectsOf(tasks) => p = o
      BY <1>10, <2>3, <3>1 DEF Replaced
    <3>3. ASSUME NEW k \in BusJobs, p \in Held(k) PROVE p = o
      BY <1>5, <1>6, <3>1, <3>3 DEF HeldOnce
    <3>4. p = o
      BY <2>1, <3>2, <3>3 DEF Reachable
    <3>5. QED
      BY <1>2, <1>3, <1>10, <2>3, <3>4
  <2>4. QED
    BY <1>1, <2>2, <2>3
<1>13. QED
  BY <1>7, <1>8, <1>9, <1>11, <1>12

LEMMA PublishThrows ==
    ASSUME BusInv, NEW j \in BusJobs, NEW o \in bus[j], BusThrows(j, o)
    PROVE  PublishInv'
<1> USE DEF BusInv, PublishInv, RepositoryInv, TypeInv
<1>1. /\ UNCHANGED <<now, tasks, sync, copied, sent, syncOverlap, busOverlap>>
      /\ heap' = [heap EXCEPT ![o] = IncrementThrows(heap[o])]
      /\ \A k \in BusJobs : bus'[k] \in {bus[k], {}}
  BY DEF BusThrows, TypeOK
<1>2. o \in Reachable /\ heap[o] \in TaskRecord
  BY DEF Reachable, Held, LiveTasks
<1>3. \A p \in Reachable : /\ heap'[p].nextRunTime = heap[p].nextRunTime
                           /\ heap'[p].task = heap[p].task
  <2>1. /\ IncrementThrows(heap[o]).nextRunTime = heap[o].nextRunTime
        /\ IncrementThrows(heap[o]).task = heap[o].task
    BY <1>2 DEF IncrementThrows, TaskRecord
  <2>2. QED
    BY <1>1, <1>2, <2>1, ReachableObjects DEF TypeOK
<1>4. /\ Reachable' \subseteq Reachable
      /\ \A k \in BusJobs : /\ Held(k) \subseteq Reachable
                            /\ Held(k)' \subseteq Held(k)
                            /\ bus'[k] \subseteq bus[k]
                            /\ bus[k] \subseteq Reachable
  BY <1>1 DEF Reachable, Held, ObjectsOf
<1>5. OnePublishing' /\ HeldOnce'
  BY <1>1, <1>3, <1>4 DEF OnePublishing, HeldOnce
<1>6. NotEarly' /\ SentPast' /\ BuiltAfter'
  BY <1>1, <1>3, <1>4 DEF NotEarly, SentPast, BuiltAfter, AcceptedBefore
<1>7. NoRepublish'
  BY <1>1, <1>3, <1>4 DEF NoRepublish, AcceptedBefore
<1>8. QED
  BY <1>5, <1>6, <1>7

LEMMA BusInit == Init => BusInv
<1> SUFFICES ASSUME Init PROVE BusInv
  OBVIOUS
<1>1. /\ tasks = <<>>
      /\ sent = {}
      /\ \A j \in BusJobs : bus[j] = {} /\ Held(j) = {}
      /\ \A k \in SyncJobs : sync[k] = Idle
  BY DEF Init, Held
<1>2. PublishInv
  BY <1>1 DEF PublishInv, OnePublishing, NotEarly, SentPast, HeldOnce,
     BuiltAfter, NoRepublish, AcceptedBefore
<1>3. QED
  BY <1>2, RepositoryInit DEF BusInv

LEMMA BusNext == BusInv /\ [Next]_vars => BusInv'
<1> SUFFICES ASSUME BusInv, [Next]_vars PROVE PublishInv'
  BY RepositoryNext DEF BusInv
<1>a. UNCHANGED sync => BuiltKept
  BY DEF BuiltKept
<1>b. TypeOK
  BY DEF BusInv, RepositoryInv, TypeInv
<1>1. CASE UNCHANGED vars
  BY <1>a, <1>1, PublishQuiet DEF vars
<1>2. CASE Environment
  <2>1. CASE Crash
    BY <2>1, PublishRestart DEF Crash
  <2>2. CASE ClockTick \/ ServiceSync
    BY <1>a, <2>2, PublishQuiet DEF ClockTick, ServiceSync
  <2>3. CASE \E k \in Keys :
                CreateResource(k) \/ EditResource(k) \/ DeleteResource(k)
    <3>1. UNCHANGED <<now, tasks, heap, sync, copied, bus, sent, syncOverlap,
                      busOverlap>>
      BY <2>3 DEF CreateResource, EditResource, DeleteResource
    <3>2. QED
      BY <1>a, <3>1, PublishQuiet
  <2>4. QED
    BY <1>2, <2>1, <2>2, <2>3 DEF Environment
<1>3. ASSUME NEW w \in phaseWrites, PhaseWrite(w) \/ PhaseWriteThrows(w)
      PROVE  PublishInv'
  BY <1>a, <1>3, PublishQuiet, PublishRestart DEF PhaseWrite, PhaseWriteThrows
<1>4. ASSUME NEW j \in SyncJobs, SyncStep(j) PROVE PublishInv'
  <2>0. BuiltKept
    BY <1>b, <1>4, BuiltSteps
  <2>1. CASE \/ SyncList(j) \/ SyncListThrows(j)
             \/ \E it \in sync[j].adds \cup sync[j].updates : Construct(j, it)
    BY <2>0, <2>1, PublishQuiet DEF SyncList, SyncListThrows, Construct
  <2>2. CASE SyncPlan(j) \/ SyncPlanThrows(j) \/ SyncReturns(j)
    <3>1. /\ UNCHANGED <<now, tasks, heap, copied, bus, sent, busOverlap>>
          /\ ~syncOverlap' => ~syncOverlap
      <4>1. CASE SyncPlan(j)
        <5>1. syncOverlap' = (syncOverlap \/ OthersInside(j))
          BY <4>1 DEF SyncPlan
        <5>2. UNCHANGED <<now, tasks, heap, copied, bus, sent, busOverlap>>
          BY <4>1 DEF SyncPlan
        <5>3. QED
          BY <5>1, <5>2
      <4>2. CASE SyncPlanThrows(j) \/ SyncReturns(j)
        BY <4>2 DEF SyncPlanThrows, SyncReturns
      <4>3. QED
        BY <2>2, <4>1, <4>2
    <3>2. QED
      BY <2>0, <3>1, PublishQuiet
  <2>3. ASSUME NEW b \in sync[j].built, SyncReplace(j, b) PROVE PublishInv'
    <3>1. UpdatesItem(j, b.item)
      BY <2>3 DEF UpdatesItem, SyncReplace
    <3>2. QED
      BY <2>0, <3>1, PublishUpdate
  <2>4. ASSUME NEW it \in sync[j].updates, SyncUpdate(j, it) PROVE PublishInv'
    <3>1. UpdatesItem(j, it)
      BY <2>4 DEF UpdatesItem
    <3>2. QED
      BY <2>0, <3>1, PublishUpdate
  <2>5. QED
    BY <1>4, <2>0, <2>1, <2>2, <2>3, <2>4, PublishAdd, PublishRemove
       DEF SyncStep
<1>5. ASSUME NEW j \in SyncJobs, RedisStep(j) PROVE PublishInv'
  <2>1. BuiltKept
    BY <1>b, <1>5, BuiltSteps
  <2>2. QED
    BY <1>5, <2>1, PublishQuiet DEF RedisStep, RedisAdd, RedisReadKeys,
       RedisRemove, ExecuteReturns, RedisThrows
<1>6. ASSUME NEW j \in BusJobs, BusStep(j) PROVE PublishInv'
  BY <1>6, PublishCopy, PublishSelect, PublishOne, PublishThrows DEF BusStep
<1>7. QED
  BY <1>1, <1>2, <1>3, <1>4, <1>5, <1>6 DEF Next

LEMMA BusCorrect == Spec => []BusInv
BY BusInit, BusNext, PTL DEF Spec

\* No check is published before its time, although Sync replaces and drops
\* tasks under the running BusScheduler; when the local clock is set back, none
\* by more than that, and only in the hour that is repeated.
THEOREM NothingPublishedEarly == Spec => []NotEarly
<1>1. BusInv => NotEarly
  BY DEF BusInv, PublishInv
<1>2. QED
  BY <1>1, BusCorrect, PTL

\* An occurrence the broker accepted is not published again, over replacements
\* of the task, recreations and restarts, unless the local clock repeats it or
\* it was published from an object for which Sync had constructed a successor.
THEOREM NothingPublishedTwice == Spec => []NoRepublish
<1>1. BusInv => NoRepublish
  BY DEF BusInv, PublishInv
<1>2. QED
  BY <1>1, BusCorrect, PTL

-----------------------------------------------------------------------------
(***************************************************************************)
(* BusScheduler: no task is passed over.                                   *)
(***************************************************************************)
\* A task that can run at all waits for an occurrence after its last one.
RunOrder ==
    \A o \in Reachable :
        heap[o].schedule \in Proper =>
            heap[o].lastRunTime = Never
              \/ heap[o].lastRunTime < heap[o].nextRunTime

DueInv == TypeInv /\ RunOrder

\* Objects that keep their schedule and their times, or have never run.
LEMMA RunOrderKept ==
    ASSUME RunOrder,
           \A p \in Reachable' :
              \/ /\ p \in Reachable
                 /\ heap'[p].schedule = heap[p].schedule
                 /\ heap'[p].lastRunTime = heap[p].lastRunTime
                 /\ heap'[p].nextRunTime = heap[p].nextRunTime
              \/ heap'[p].lastRunTime = Never
    PROVE  RunOrder'
BY DEF RunOrder

LEMMA RunOrderSame ==
    ASSUME RunOrder, UNCHANGED <<tasks, heap, copied, bus>>
    PROVE  RunOrder'
BY SameMemory DEF RunOrder

LEMMA RunOrderRestart ==
    ASSUME Restart
    PROVE  RunOrder'
<1>1. ObjectsOf(tasks)' = {}
  BY DEF Restart, ObjectsOf
<1>2. (UNION {Held(j) : j \in BusJobs})' = {}
  BY DEF Restart, Held
<1>3. QED
  BY <1>1, <1>2 DEF Reachable, RunOrder

LEMMA RunOrderSync ==
    ASSUME DueInv, NEW j \in SyncJobs,
           \/ \E b \in sync[j].built : SyncAdd(j, b)
           \/ \E o \in sync[j].removes : SyncRemove(j, o)
           \/ \E it : UpdatesItem(j, it)
    PROVE  RunOrder'
<1> USE DEF DueInv, TypeInv
<1>1. ASSUME NEW b \in sync[j].built, SyncAdd(j, b) PROVE RunOrder'
  <2> DEFINE x == FreshObject
  <2>1. /\ Free # {}
        /\ tasks' = Append(tasks, x)
        /\ heap' = [heap EXCEPT ![x] = Constructed(b)]
        /\ UNCHANGED <<copied, bus>>
    BY <1>1 DEF SyncAdd
  <2>2. x \in Objects
    BY <2>1, FreshIsFree
  <2>3. tasks \in Seq(Objects) /\ b \in Construction
    BY BuiltType DEF TypeOK
  <2> HIDE DEF x
  <2>4. /\ ObjectsOf(tasks') = ObjectsOf(tasks) \cup {x}
        /\ heap'[x].lastRunTime = Never
        /\ \A p \in Objects \ {x} : heap'[p] = heap[p]
    BY <2>1, <2>2, <2>3, AppendObject, NewTaskType DEF TypeOK
  <2>5. Reachable' = Reachable \cup {x}
    BY <2>1, <2>4 DEF Reachable, Held
  <2>6. QED
    BY <2>4, <2>5, ReachableObjects, RunOrderKept
<1>2. ASSUME NEW o \in sync[j].removes, SyncRemove(j, o) PROVE RunOrder'
  <2>1. /\ tasks' = RemoveObject(tasks, o)
        /\ tasks \in Seq(Objects)
        /\ UNCHANGED <<heap, copied, bus>>
    BY <1>2 DEF SyncRemove, TypeOK
  <2>2. ObjectsOf(tasks') \subseteq ObjectsOf(tasks)
    BY <2>1, RemoveObjectProperties DEF ObjectsOf
  <2>3. Reachable' \subseteq Reachable
    BY <2>1, <2>2 DEF Reachable, Held
  <2>4. QED
    BY <2>1, <2>3, RunOrderKept
<1>3. ASSUME NEW it, UpdatesItem(j, it) PROVE RunOrder'
  <2>0. UNCHANGED <<copied, bus>>
    BY <1>3 DEF UpdatesItem, SyncUpdate, SyncReplace
  <2>1. CASE ~HasUid(tasks, heap, it.uid)
    BY <1>3, <2>0, <2>1, RunOrderSame DEF UpdatesItem, SyncUpdate, SyncReplace,
       UpdateTask
  <2>2. CASE HasUid(tasks, heap, it.uid)
    <3>1. PICK i \in DOMAIN tasks, x \in Objects :
               /\ DOMAIN tasks' = DOMAIN tasks
               /\ tasks'[i] = x
               /\ \A k \in DOMAIN tasks \ {i} : tasks'[k] = tasks[k]
               /\ \A p \in Objects \ {x} : heap'[p] = heap[p]
               /\ \/ /\ x = tasks[i]
                     /\ heap'[x].schedule = heap[x].schedule
                     /\ heap'[x].lastRunTime = heap[x].lastRunTime
                     /\ heap'[x].nextRunTime = heap[x].nextRunTime
                  \/ heap'[x].lastRunTime = Never
      BY <1>3, <2>2, UpdateEffect
    <3>2. ObjectsOf(tasks') \subseteq ObjectsOf(tasks) \cup {x}
      BY <3>1 DEF ObjectsOf
    <3>3. Reachable' \subseteq Reachable \cup {x}
      BY <2>0, <3>2 DEF Reachable, Held
    <3>4. x = tasks[i] => x \in Reachable
      BY DEF Reachable, ObjectsOf
    <3>5. QED
      BY <3>1, <3>3, <3>4, ReachableObjects, RunOrderKept
  <2>3. QED
    BY <2>1, <2>2
<1>4. QED
  BY <1>1, <1>2, <1>3

LEMMA RunOrderBus ==
    ASSUME DueInv, NEW j \in BusJobs, BusStep(j)
    PROVE  RunOrder'
<1> USE DEF DueInv, TypeInv
<1>1. CASE BusCopy(j) \/ BusSelect(j)
  BY <1>1, HeldMoves, RunOrderKept
<1>2. ASSUME NEW o \in bus[j], BusPublish(j, o) \/ BusThrows(j, o)
      PROVE  RunOrder'
  <2>1. /\ o \in Reachable
        /\ o \in Objects
        /\ heap[o] \in TaskRecord
        /\ heap[o].schedule \notin Malformed
    BY ReachableObjects DEF Reachable, Held, LiveTasks
  <2>2. Reachable' \subseteq Reachable
    <3>1. /\ UNCHANGED <<tasks, copied>>
          /\ \A k \in BusJobs : bus'[k] \subseteq bus[k]
      BY <1>2 DEF BusPublish, BusThrows, TypeOK
    <3>2. QED
      BY <3>1 DEF Reachable, Held
  <2>3. PICK r : heap' = [heap EXCEPT ![o] = r] /\
                 (r.schedule \in Proper => r.lastRunTime < r.nextRunTime)
    <3>1. CASE BusPublish(j, o)
      <4>1. heap[o].schedule \in Proper /\ heap[o].nextRunTime \in Nat
        BY <2>1, <3>1 DEF BusPublish, Proper, TaskRecord
      <4>2. GetNextOccurrence(heap[o].schedule, heap[o].nextRunTime)
              > heap[o].nextRunTime
        BY <4>1, NextOccurrenceFirst
      <4>3. Increment(heap[o]).lastRunTime < Increment(heap[o]).nextRunTime
        BY <2>1, <4>1, <4>2 DEF Increment, TaskRecord
      <4>4. QED
        BY <3>1, <4>3 DEF BusPublish
    <3>2. CASE BusThrows(j, o)
      <4>1. IncrementThrows(heap[o]).schedule = heap[o].schedule
        BY <2>1 DEF IncrementThrows, TaskRecord
      <4>2. heap[o].schedule \notin Proper
        BY <3>2 DEF BusThrows, Proper
      <4>3. heap' = [heap EXCEPT ![o] = IncrementThrows(heap[o])]
        BY <3>2 DEF BusThrows
      <4>4. QED
        BY <4>1, <4>2, <4>3
    <3>3. QED
      BY <1>2, <3>1, <3>2
  <2>4. ASSUME NEW p \in Reachable', heap'[p].schedule \in Proper
        PROVE  heap'[p].lastRunTime = Never
                 \/ heap'[p].lastRunTime < heap'[p].nextRunTime
    <3>1. p \in Reachable /\ p \in Objects
      BY <2>2, ReachableObjects
    <3>2. heap'[p] = IF p = o THEN r ELSE heap[p]
      BY <2>3, <3>1 DEF TypeOK
    <3>3. QED
      BY <2>3, <2>4, <3>1, <3>2 DEF RunOrder
  <2>5. QED
    BY <2>4 DEF RunOrder
<1>3. QED
  BY <1>1, <1>2 DEF BusStep

LEMMA DueNext == DueInv /\ [Next]_vars => DueInv'
<1> SUFFICES ASSUME DueInv, [Next]_vars PROVE RunOrder'
  BY TypeNext DEF DueInv
<1>1. CASE UNCHANGED vars
  BY <1>1, RunOrderSame DEF vars, DueInv
<1>2. CASE Environment
  BY <1>2, RunOrderSame, RunOrderRestart DEF Environment, Crash, ClockTick,
     ServiceSync, CreateResource, EditResource, DeleteResource, DueInv
<1>3. ASSUME NEW w \in phaseWrites, PhaseWrite(w) \/ PhaseWriteThrows(w)
      PROVE  RunOrder'
  BY <1>3, RunOrderSame, RunOrderRestart DEF PhaseWrite, PhaseWriteThrows,
     DueInv
<1>4. ASSUME NEW j \in SyncJobs, SyncStep(j) PROVE RunOrder'
  <2>1. CASE \/ SyncList(j) \/ SyncListThrows(j) \/ SyncPlan(j)
             \/ SyncPlanThrows(j) \/ SyncReturns(j)
             \/ \E it \in sync[j].adds \cup sync[j].updates : Construct(j, it)
    BY <2>1, RunOrderSame DEF SyncList, SyncListThrows, SyncPlan,
       SyncPlanThrows, SyncReturns, Construct, DueInv
  <2>2. ASSUME NEW b \in sync[j].built, SyncReplace(j, b) PROVE RunOrder'
    <3>1. UpdatesItem(j, b.item)
      BY <2>2 DEF UpdatesItem, SyncReplace
    <3>2. QED
      BY <3>1, RunOrderSync
  <2>3. ASSUME NEW it \in sync[j].updates, SyncUpdate(j, it) PROVE RunOrder'
    <3>1. UpdatesItem(j, it)
      BY <2>3 DEF UpdatesItem
    <3>2. QED
      BY <3>1, RunOrderSync
  <2>4. QED
    BY <1>4, <2>1, <2>2, <2>3, RunOrderSync DEF SyncStep
<1>5. ASSUME NEW j \in SyncJobs, RedisStep(j) PROVE RunOrder'
  BY <1>5, RunOrderSame DEF RedisStep, RedisAdd, RedisReadKeys, RedisRemove,
     ExecuteReturns, RedisThrows, DueInv
<1>6. QED
  BY <1>1, <1>2, <1>3, <1>4, <1>5, RunOrderBus DEF Next

\* Outside the hour the local clock repeats, every scheduled task whose time is
\* past is selected by the next execution of BusScheduler, whatever executions
\* that threw and Sync have made of it before.
THEOREM NothingPassedOver == Spec => []OverdueIsDue
<1>1. Init => DueInv
  <2>1. ASSUME Init PROVE RunOrder
    <3>1. ObjectsOf(tasks) = {} /\ UNION {Held(j) : j \in BusJobs} = {}
      BY <2>1 DEF Init, ObjectsOf, Held
    <3>2. QED
      BY <3>1 DEF Reachable, RunOrder
  <2>2. QED
    BY <2>1, TypeInit DEF DueInv
<1>2. DueInv => OverdueIsDue
  <2> SUFFICES ASSUME DueInv, NEW o \in ObjectsOf(tasks),
                      heap[o].schedule \in Proper, heap[o].nextRunTime < now,
                      Repeated \cap {heap[o].nextRunTime, now} = {}
               PROVE  ShouldRun(heap[o], now)
    BY DEF OverdueIsDue
  <2>1. FallBackAt \in Nat /\ FallBackBy \in Nat
    BY ScheduleAssumption
  <2>2. o \in Reachable /\ heap[o] \in TaskRecord /\ now \in Nat
    BY DEF DueInv, TypeInv, TypeOK, LiveTasks, Reachable
  <2>3. /\ heap[o].nextRunTime \in Nat
        /\ heap[o].lastRunTime = Never \/ heap[o].lastRunTime \in Nat
    BY <2>2 DEF TaskRecord
  <2>4. heap[o].lastRunTime = Never
          \/ heap[o].lastRunTime < heap[o].nextRunTime
    BY <2>2 DEF DueInv, RunOrder
  <2>5. /\ now < FallBackAt \/ FallBackAt + FallBackBy <= now
        /\ heap[o].nextRunTime < FallBackAt
             \/ FallBackAt + FallBackBy <= heap[o].nextRunTime
    <3>1. now \notin Repeated /\ heap[o].nextRunTime \notin Repeated
      OBVIOUS
    <3>2. \A n \in Nat : n \notin Repeated
                           => n < FallBackAt \/ FallBackAt + FallBackBy <= n
      BY <2>1 DEF Repeated
    <3>3. QED
      BY <2>2, <2>3, <3>1, <3>2
  <2>6. Local(heap[o].nextRunTime) < Local(now)
    BY <2>1, <2>2, <2>3, <2>5 DEF Local
  <2>7. \/ heap[o].lastRunTime = Never
        \/ Local(heap[o].lastRunTime) # Local(heap[o].nextRunTime)
    BY <2>1, <2>3, <2>4, <2>5 DEF Local
  <2>8. QED
    BY <2>6, <2>7 DEF ShouldRun
<1>3. QED
  BY <1>1, <1>2, DueNext, PTL DEF Spec

-----------------------------------------------------------------------------
(***************************************************************************)
(* The Redis hash.                                                         *)
(***************************************************************************)
\* Half-way through an undisturbed synchronisation of the hash: every item is
\* written or still to be written, every entry without an item is still to be
\* deleted.
RedisHalfway(j) ==
    /\ sync[j].pc = "redisAdd" =>
         \A it \in sync[j].items : it \in sync[j].adds \/ redis[it.key] = it
    /\ sync[j].pc = "redisRemove" =>
         /\ \A it \in sync[j].items : redis[it.key] = it
         /\ \A k \in RedisKeys :
              k \in sync[j].stale <=> \A it \in sync[j].items : it.key # k

RedisProgress == \A j \in SyncJobs \ disturbed : RedisHalfway(j)

RedisInv == RepositoryInv /\ RedisProgress

LEMMA RedisKept ==
    ASSUME RedisProgress, UNCHANGED redis, disturbed \subseteq disturbed',
           \A j \in SyncJobs : sync'[j].pc \in {"redisAdd", "redisRemove"} =>
                                  sync'[j] = sync[j]
    PROVE  RedisProgress'
<1>1. RedisKeys' = RedisKeys
  BY DEF RedisKeys
<1>2. QED
  BY <1>1 DEF RedisProgress, RedisHalfway

\* A command changes the hash; the others are disturbed, so that only the
\* execution that sent it has something to keep.
LEMMA RedisSteps ==
    ASSUME RedisInv, NEW j \in SyncJobs, RedisStep(j)
    PROVE  RedisProgress'
<1> USE DEF RedisInv, RepositoryInv, TypeInv
<1>1. /\ sync[j] \in SyncExecution
      /\ \A it \in sync[j].items : it \in Item /\ it.key \in Keys
  BY DEF TypeOK, SyncExecution, Item
<1>2. j \notin disturbed => RedisHalfway(j)
  BY DEF RedisProgress
<1>3. ASSUME NEW it \in sync[j].adds, RedisAdd(j, it) PROVE RedisProgress'
  <2>1. /\ sync'[j].pc = "redisAdd" /\ sync[j].pc = "redisAdd"
        /\ sync'[j].items = sync[j].items
        /\ sync[j].adds \ {it} \subseteq sync'[j].adds
        /\ redis' = [redis EXCEPT ![it.key] = it]
    BY <1>1, <1>3 DEF RedisAdd, RedisPut, TypeOK, SyncExecution
  <2>2. it \in sync[j].items
    BY DEF ListedItems
  <2>3. \A a \in sync[j].items : a.key = it.key => a = it
    BY <2>2 DEF ListedItems
  <2>4. \A k \in SyncJobs \ disturbed' : k = j /\ j \notin disturbed
    BY <1>3 DEF RedisAdd
  <2>5. j \notin disturbed => RedisHalfway(j)'
    BY <1>1, <1>2, <2>1, <2>2, <2>3 DEF TypeOK, RedisHalfway
  <2>6. QED
    BY <2>4, <2>5 DEF RedisProgress
<1>4. CASE RedisReadKeys(j)
  <2> DEFINE K == RedisKeys \ {it.key : it \in sync[j].items}
  <2>1. /\ sync' = [sync EXCEPT
              ![j] = [sync[j] EXCEPT !.pc = "redisRemove", !.stale = K]]
        /\ sync[j].pc = "redisAdd"
        /\ sync[j].adds = {}
        /\ redis' = redis
        /\ disturbed' = disturbed
    BY <1>4 DEF RedisReadKeys
  <2>2. \A k \in RedisKeys : k \in K <=> \A it \in sync[j].items : it.key # k
    OBVIOUS
  <2> HIDE DEF K
  <2>3. /\ sync'[j].pc = "redisRemove"
        /\ sync'[j].items = sync[j].items
        /\ sync'[j].stale = K
        /\ \A k \in SyncJobs \ {j} : sync'[k] = sync[k]
    BY <1>1, <2>1 DEF TypeOK, SyncExecution
  <2>4. j \notin disturbed => \A it \in sync[j].items : redis[it.key] = it
    BY <1>2, <2>1 DEF RedisHalfway
  <2>5. RedisKeys' = RedisKeys
    BY <2>1 DEF RedisKeys
  <2>6. j \notin disturbed => RedisHalfway(j)'
    BY <2>1, <2>2, <2>3, <2>4, <2>5 DEF RedisHalfway
  <2>7. \A k \in SyncJobs \ {j} : RedisHalfway(k)' = RedisHalfway(k)
    BY <2>1, <2>3, <2>5 DEF RedisHalfway
  <2>8. QED
    BY <2>1, <2>6, <2>7 DEF RedisProgress
<1>5. ASSUME NEW k \in sync[j].stale, RedisRemove(j, k) PROVE RedisProgress'
  <2>1. /\ sync'[j].pc = "redisRemove" /\ sync[j].pc = "redisRemove"
        /\ sync'[j].items = sync[j].items
        /\ sync'[j].stale \in {sync[j].stale, sync[j].stale \ {k}}
        /\ redis' = [redis EXCEPT ![k] = NoResource]
    BY <1>1, <1>5 DEF RedisRemove, TypeOK, SyncExecution
  <2>2. \A l \in SyncJobs \ disturbed' : l = j /\ j \notin disturbed
    BY <1>5 DEF RedisRemove
  <2>3. k \in Keys
    BY <1>1 DEF SyncExecution
  <2>4. RedisKeys' = RedisKeys \ {k}
    BY <2>1, <2>3 DEF RedisKeys, TypeOK
  <2>5. ASSUME j \notin disturbed PROVE RedisHalfway(j)'
    <3>1. /\ \A it \in sync[j].items : redis[it.key] = it
          /\ \A l \in RedisKeys :
               l \in sync[j].stale <=> \A it \in sync[j].items : it.key # l
      BY <1>2, <2>1, <2>5 DEF RedisHalfway
    <3>2. \A it \in sync[j].items : it.key # k
      <4>1. \A it \in sync[j].items : it.key \in RedisKeys
        BY <1>1, <3>1, NoResourceAssumption DEF RedisKeys
      <4>2. QED
        BY <3>1, <4>1
    <3>3. QED
      BY <1>1, <2>1, <2>4, <3>1, <3>2 DEF TypeOK, RedisHalfway
  <2>6. QED
    BY <2>2, <2>5 DEF RedisProgress
<1>6. CASE ExecuteReturns(j) \/ RedisThrows(j)
  <2>1. /\ sync'[j].pc = "idle"
        /\ \A k \in SyncJobs \ {j} : sync'[k] = sync[k]
        /\ UNCHANGED <<redis, disturbed>>
    BY <1>6 DEF ExecuteReturns, RedisThrows, TypeOK, Idle
  <2>2. QED
    BY <2>1, RedisKept
<1>7. QED
  BY <1>3, <1>4, <1>5, <1>6 DEF RedisStep

LEMMA RedisSyncSteps ==
    ASSUME RedisInv, NEW j \in SyncJobs, SyncStep(j)
    PROVE  RedisProgress'
<1> USE DEF RedisInv, RepositoryInv, TypeInv
<1>1. redis' = redis /\ sync[j] \in SyncExecution
  BY DEF TypeOK, SyncStep, SyncList, SyncListThrows, SyncPlan, SyncPlanThrows,
     Construct, SyncAdd, SyncReplace, SyncRemove, SyncUpdate, SyncReturns
<1>2. CASE SyncReturns(j)
  <2>1. /\ sync'[j].pc = "redisAdd"
        /\ sync'[j].items = sync[j].items
        /\ sync'[j].adds = sync[j].items
        /\ \A k \in SyncJobs \ {j} : sync'[k] = sync[k]
        /\ disturbed' = disturbed \ {j}
    BY <1>1, <1>2 DEF SyncReturns, TypeOK, SyncExecution
  <2>2. RedisKeys' = RedisKeys
    BY <1>1 DEF RedisKeys
  <2>3. RedisHalfway(j)'
    BY <2>1 DEF RedisHalfway
  <2>4. \A k \in SyncJobs \ {j} : RedisHalfway(k)' = RedisHalfway(k)
    BY <1>1, <2>1, <2>2 DEF RedisHalfway
  <2>5. QED
    BY <2>1, <2>3, <2>4 DEF RedisProgress
<1>3. CASE SyncListThrows(j)
  BY <1>1, <1>3, RedisKept DEF SyncListThrows
<1>4. CASE SyncList(j)
  <2>1. /\ sync'[j].pc = "listed"
        /\ \A k \in SyncJobs \ {j} : sync'[k] = sync[k]
    BY <1>4 DEF SyncList, TypeOK, Idle
  <2>2. QED
    BY <1>1, <1>4, <2>1, RedisKept DEF SyncList
<1>5. CASE SyncPlan(j) \/ SyncPlanThrows(j)
  <2>1. /\ sync'[j].pc \in {"sync", "idle"}
        /\ \A k \in SyncJobs \ {j} : sync'[k] = sync[k]
    <3>1. CASE SyncPlan(j)
      <4>1. PICK A, U, R : sync' = [sync EXCEPT ![j] =
              [sync[j] EXCEPT !.pc = "sync", !.adds = A, !.updates = U,
                              !.removes = R]]
        BY <3>1 DEF SyncPlan
      <4>2. QED
        BY <1>1, <4>1 DEF TypeOK, SyncExecution
    <3>2. CASE SyncPlanThrows(j)
      BY <3>2 DEF SyncPlanThrows, TypeOK, Idle
    <3>3. QED
      BY <1>5, <3>1, <3>2
  <2>2. QED
    BY <1>1, <1>5, <2>1, RedisKept DEF SyncPlan, SyncPlanThrows
<1>6. ASSUME \/ \E it \in sync[j].adds \cup sync[j].updates : Construct(j, it)
             \/ \E b \in sync[j].built : SyncAdd(j, b) \/ SyncReplace(j, b)
             \/ \E o \in sync[j].removes : SyncRemove(j, o)
             \/ \E it \in sync[j].updates : SyncUpdate(j, it)
      PROVE  RedisProgress'
  <2>1. PICK A, B, R, U :
          \/ sync' = [sync EXCEPT ![j] = Idle]
          \/ sync' = [sync EXCEPT ![j] = [sync[j] EXCEPT !.built = B]]
          \/ sync' = [sync EXCEPT
               ![j] = [sync[j] EXCEPT !.adds = A, !.built = B]]
          \/ sync' = [sync EXCEPT ![j] = [sync[j] EXCEPT !.removes = R]]
          \/ sync' = [sync EXCEPT ![j] = [sync[j] EXCEPT !.updates = U]]
          \/ sync' = [sync EXCEPT
               ![j] = [sync[j] EXCEPT !.updates = U, !.built = B]]
    BY <1>6 DEF Construct, SyncAdd, SyncReplace, SyncRemove, SyncUpdate
  <2>2. Inside(j)
    BY <1>6 DEF Construct, SyncAdd, SyncReplace, SyncRemove, SyncUpdate
  <2>3. /\ sync'[j].pc \in {"sync", "idle"}
        /\ \A k \in SyncJobs \ {j} : sync'[k] = sync[k]
    <3>1. /\ [sync[j] EXCEPT !.built = B].pc = "sync"
          /\ [sync[j] EXCEPT !.adds = A, !.built = B].pc = "sync"
          /\ [sync[j] EXCEPT !.removes = R].pc = "sync"
          /\ [sync[j] EXCEPT !.updates = U].pc = "sync"
          /\ [sync[j] EXCEPT !.updates = U, !.built = B].pc = "sync"
          /\ Idle.pc = "idle"
      BY <1>1, <2>2 DEF SyncExecution, Idle, Inside
    <3>2. sync \in [SyncJobs -> SyncExecution]
      BY DEF TypeOK
    <3> HIDE DEF RedisInv, RepositoryInv, TypeInv
    <3>3. QED
      BY <2>1, <3>1, <3>2
  <2>4. disturbed' = disturbed
    BY <1>6 DEF Construct, SyncAdd, SyncReplace, SyncRemove, SyncUpdate
  <2>5. QED
    BY <1>1, <2>3, <2>4, RedisKept
<1>7. QED
  BY <1>2, <1>3, <1>4, <1>5, <1>6 DEF SyncStep

LEMMA RedisNext == RedisInv /\ [Next]_vars => RedisInv'
<1> SUFFICES ASSUME RedisInv, [Next]_vars PROVE RedisProgress'
  BY RepositoryNext DEF RedisInv
<1> USE DEF RedisInv
<1>1. ASSUME UNCHANGED <<redis, sync, disturbed>> PROVE RedisProgress'
  BY <1>1, RedisKept
<1>2. ASSUME Restart PROVE RedisProgress'
  <2>1. \A j \in SyncJobs : sync'[j].pc = "idle"
    BY <1>2 DEF Restart, Idle
  <2>2. QED
    BY <2>1 DEF RedisProgress, RedisHalfway
<1>3. CASE UNCHANGED vars
  BY <1>1, <1>3 DEF vars
<1>4. CASE Environment
  BY <1>1, <1>2, <1>4 DEF Environment, ClockTick, ServiceSync, Crash,
     CreateResource, EditResource, DeleteResource
<1>5. ASSUME NEW w \in phaseWrites, PhaseWrite(w) \/ PhaseWriteThrows(w)
      PROVE  RedisProgress'
  BY <1>1, <1>2, <1>5 DEF PhaseWrite, PhaseWriteThrows
<1>6. ASSUME NEW j \in BusJobs, BusStep(j) PROVE RedisProgress'
  BY <1>1, <1>6 DEF BusStep, BusCopy, BusSelect, BusPublish, BusThrows
<1>7. QED
  BY <1>3, <1>4, <1>5, <1>6, RedisSteps, RedisSyncSteps DEF Next

\* When an execution has brought the Redis hash up to date and no other one
\* wrote it meanwhile, the hash is the list, whatever was left in it before.
THEOREM RedisHoldsTheList == Spec => []RedisMirrorsItems
<1>1. Init => RedisInv
  <2>1. Init => RedisProgress
    BY DEF Init, RedisProgress, RedisHalfway, Idle
  <2>2. QED
    BY <2>1, RepositoryInit DEF RedisInv
<1>2. RedisInv => RedisMirrorsItems
  <2> SUFFICES ASSUME RedisInv, NEW j \in SyncJobs \ disturbed,
                      sync[j].pc = "redisRemove", sync[j].stale = {}
               PROVE  {redis[k] : k \in RedisKeys} = sync[j].items
    BY DEF RedisMirrorsItems
  <2>1. /\ \A it \in sync[j].items : redis[it.key] = it
        /\ \A k \in RedisKeys : \E it \in sync[j].items : it.key = k
    BY DEF RedisInv, RedisProgress, RedisHalfway
  <2>2. \A it \in sync[j].items : it \in Item /\ it.key \in Keys
    BY DEF RedisInv, RepositoryInv, TypeInv, TypeOK, SyncExecution, Item
  <2>3. \A it \in sync[j].items : it.key \in RedisKeys
    BY <2>1, <2>2, NoResourceAssumption DEF RedisKeys
  <2>4. QED
    BY <2>1, <2>3
<1>3. QED
  BY <1>1, <1>2, RedisNext, PTL DEF Spec
=============================================================================
