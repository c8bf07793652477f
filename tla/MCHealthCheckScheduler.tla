----------------------- MODULE MCHealthCheckScheduler -----------------------
(***************************************************************************)
(* Values for the constants of HealthCheckScheduler that a configuration   *)
(* cannot write down.                                                      *)
(***************************************************************************)
EXTENDS HealthCheckScheduler, TLC

\* Half minutes: even instants are the starts of minutes.  In a cycle of two
\* minutes "often" is every minute, the other proper schedules every second one.
MCOccurrences ==
    [s \in Schedules \ (Malformed \cup NeverOccurs) |->
        IF s = "often" THEN {0, 2} ELSE {0}]

\* Dead objects do not distinguish states, nor does a mark that is taken away
\* before it is read.
MCView ==
    <<now, cluster, revision, phaseWrites, servicesDic, notFound, redis,
      tasks, [o \in Objects \ Free |-> heap[o]], sync, copied,
      bus, sent, syncOverlap, busOverlap,
      {j \in disturbed : sync[j].pc \in {"redisAdd", "redisRemove"}}, crashes>>

MCSymmetry == Permutations(Keys) \cup Permutations(SyncJobs)
=============================================================================
