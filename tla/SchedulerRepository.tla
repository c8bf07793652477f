------------------------- MODULE SchedulerRepository -------------------------
(***************************************************************************)
(* The list of scheduled tasks, Libs/Sentinel.Scheduler,                   *)
(* SchedulerRepository[T].cs.  The list holds references: a task object    *)
(* that Sync drops or replaces lives on in the snapshot of a running       *)
(* BusScheduler.  So the list is a sequence of object identities, and      *)
(* "heap" maps an identity to its ScheduledTask record.                    *)
(*                                                                         *)
(* The operators below are the repository's primitive operations on        *)
(* (tasks, heap); the order Sync calls them in, and what other jobs do     *)
(* between two of them, is in HealthCheckScheduler.                        *)
(***************************************************************************)
EXTENDS ScheduledTask, Sequences

ObjectsOf(tasks) == {tasks[i] : i \in DOMAIN tasks}

UidIndexes(tasks, heap, uid) ==
    {i \in DOMAIN tasks : heap[tasks[i]].task.uid = uid}

KeyIndexes(tasks, heap, key) ==
    {i \in DOMAIN tasks : heap[tasks[i]].task.key = key}

HasUid(tasks, heap, uid) == UidIndexes(tasks, heap, uid) # {}

\* The position FirstOrDefault finds.
FirstByUid(tasks, heap, uid) == Least(UidIndexes(tasks, heap, uid))

FirstByKey(tasks, heap, key) == Least(KeyIndexes(tasks, heap, key))

\* List.Remove of a reference: every later element moves up by one.
RemoveObject(tasks, o) ==
    LET at == {i \in DOMAIN tasks : tasks[i] = o}
        k  == Least(at)
    IN  IF at = {}
        THEN tasks
        ELSE [i \in 1 .. Len(tasks) - 1 |->
                IF i < k THEN tasks[i] ELSE tasks[i + 1]]

\* Mutant: the schedules are not compared.
MutSameSchedule(tasks, heap, item) == KeyIndexes(tasks, heap, item.key) # {}

\* The comparison of Sync: the item's schedule against the schedule text of
\* the first task with the same KEY (no such task: null, which differs).
SameSchedule(tasks, heap, item) ==
    /\ KeyIndexes(tasks, heap, item.key) # {}
    /\ heap[tasks[FirstByKey(tasks, heap, item.key)]].task.schedule
         = item.schedule

\* Mutant: an item that changed is not recognised.
MutItemsToAdd(tasks, heap, items) ==
    {it \in items : \A i \in DOMAIN tasks : heap[tasks[i]].task # it}

\* Mutant: tasks are matched by key, so a recreated check's old task stays.
MutItemsToRemove(tasks, heap, items) ==
    {o \in ObjectsOf(tasks) : heap[o].task.key \notin {it.key : it \in items}}

\* What Sync computes before it changes anything.
ItemsToAdd(tasks, heap, items) ==
    {it \in items : ~HasUid(tasks, heap, it.uid)}

ItemsToUpdate(tasks, heap, items) ==
    {it \in items : HasUid(tasks, heap, it.uid)}

ItemsToRemove(tasks, heap, items) ==
    {o \in ObjectsOf(tasks) : heap[o].task.uid \notin {it.uid : it \in items}}
=============================================================================
