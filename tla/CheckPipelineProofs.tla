------------------------- MODULE CheckPipelineProofs -------------------------
(***************************************************************************)
(* Theorems about CheckPipeline for every value of its constants.          *)
(***************************************************************************)
EXTENDS CheckPipeline, TLAPS

\* Writes of the API server: a resource of a version, with another version,
\* and with another phase and version.
LEMMA ResourceCreated ==
    ASSUME NEW n \in Nat
    PROVE  /\ [uid |-> n, rev |-> n, phase |-> ""] \in Resource
           /\ [uid |-> n, rev |-> n, phase |-> ""].rev = n
           /\ [uid |-> n, rev |-> n, phase |-> ""].phase = ""
BY DEF Resource

LEMMA ResourceEdited ==
    ASSUME NEW r \in Resource, NEW n \in Nat
    PROVE  /\ [r EXCEPT !.rev = n] \in Resource
           /\ [r EXCEPT !.rev = n].phase = r.phase
           /\ [r EXCEPT !.rev = n].rev = n
BY DEF Resource

LEMMA ResourceWritten ==
    ASSUME NEW r \in Resource, NEW n \in Nat,
           NEW p \in ShownValues \cup {"", "AddedtoRedis"}
    PROVE  [r EXCEPT !.phase = p, !.rev = n] \in Resource
BY DEF Resource

\* The next statement of the handler, with the same message and update.
LEMMA NextStatement ==
    ASSUME NEW c \in Execution, c.pc # "call",
           NEW pc \in {"publish", "series", "result"}
    PROVE  /\ [c EXCEPT !.pc = pc] \in Execution
           /\ [c EXCEPT !.pc = pc].msg = c.msg
           /\ [c EXCEPT !.pc = pc].on = c.on
           /\ [c EXCEPT !.pc = pc].update = c.update
           /\ [c EXCEPT !.pc = pc].pc = pc
BY DEF Execution

LEMMA PresentTyped ==
    ASSUME TypeOK, NEW k \in Present
    PROVE  k \in Keys /\ resources[k] \in Resource
BY DEF TypeOK, Present

LEMMA ShownTyped ==
    ASSUME NEW a \in Answers
    PROVE  Shown(a) \in ShownValues
BY DEF ShownValues

-----------------------------------------------------------------------------
(***************************************************************************)
(* Type correctness.                                                       *)
(***************************************************************************)
LEMMA TypeInit == Init => TypeOK
BY DEF Init, TypeOK

LEMMA TypeCluster == TypeOK /\ Cluster => TypeOK'
<1> SUFFICES ASSUME TypeOK, Cluster PROVE TypeOK'
  OBVIOUS
<1> USE DEF brokerVars, mongoVars, clusterVars, historyVars, linkVars
<1>1. ASSUME NEW k \in Keys, CreateResource(k) PROVE TypeOK'
  <2>1. revision + 1 \in Nat
    BY DEF TypeOK
  <2>2. [uid |-> revision + 1, rev |-> revision + 1, phase |-> ""] \in Resource
    BY <2>1, ResourceCreated, Zenon
  <2>3. QED
    BY <1>1, <2>1, <2>2 DEF TypeOK, CreateResource
<1>2. ASSUME NEW k \in Keys, EditResource(k) PROVE TypeOK'
  <2>1. revision + 1 \in Nat
    BY DEF TypeOK
  <2>2. [resources[k] EXCEPT !.rev = revision + 1] \in Resource
    BY <1>2, <2>1, PresentTyped, ResourceEdited DEF EditResource
  <2>3. QED
    BY <1>2, <2>1, <2>2 DEF TypeOK, EditResource
<1>3. ASSUME NEW k \in Keys, DeleteResource(k) PROVE TypeOK'
  BY <1>3 DEF TypeOK, DeleteResource
<1>4. ASSUME NEW k \in Keys, PublishCheck(k) PROVE TypeOK'
  BY <1>4 DEF TypeOK, PublishCheck, CheckMessage
<1>5. {u.msg : u \in updating} \subseteq UpdateMessage
  BY DEF TypeOK, StatusExecution
<1>6. ASSUME CoreCrash PROVE TypeOK'
  BY <1>5, <1>6 DEF TypeOK, CoreCrash, CoreEnds, RequeueUpdates
<1>7. \A c \in checking : c.msg \in CheckMessage /\ c.msg.id \in Nat
  BY DEF TypeOK, Execution, CheckMessage
<1>8. ASSUME RequeueChecks
      PROVE  checkQueue' \subseteq CheckMessage /\ redelivered' \subseteq Nat
  BY <1>7, <1>8 DEF TypeOK, RequeueChecks
<1>9. ASSUME CheckerCrash PROVE TypeOK'
  BY <1>8, <1>9 DEF TypeOK, CheckerCrash
<1>10. ASSUME CheckerLosesConnection PROVE TypeOK'
  BY <1>8, <1>10 DEF TypeOK, CheckerLosesConnection
<1>11. ASSUME CoreLosesConnection PROVE TypeOK'
  BY <1>5, <1>11 DEF TypeOK, CoreLosesConnection, RequeueUpdates
<1>12. QED
  BY <1>1, <1>2, <1>3, <1>4, <1>6, <1>9, <1>10, <1>11 DEF Cluster

LEMMA TypeSyncJob == TypeOK /\ SyncJob => TypeOK'
<1> SUFFICES ASSUME TypeOK, SyncJob PROVE TypeOK'
  OBVIOUS
<1> USE DEF brokerVars, mongoVars, clusterVars, historyVars, linkVars
<1>1. ASSUME NEW k \in Keys, StartPhaseWrite(k) PROVE TypeOK'
  <2>1. resources[k].rev \in Nat
    BY <1>1, PresentTyped DEF StartPhaseWrite, Resource
  <2>2. [key |-> k, rev |-> resources[k].rev] \in [key : Keys, rev : Nat]
    BY <2>1
  <2>3. phaseWrites' = phaseWrites \cup {[key |-> k, rev |-> resources[k].rev]}
    BY <1>1 DEF StartPhaseWrite
  <2>4. phaseWrites' \subseteq [key : Keys, rev : Nat]
    BY <2>2, <2>3 DEF TypeOK
  <2>5. UNCHANGED <<clock, resources, revision, brokerVars, checking, updating,
                    mongoVars, historyVars, linkVars>>
    BY <1>1 DEF StartPhaseWrite
  <2>6. QED
    BY <2>4, <2>5 DEF TypeOK
<1>2. ASSUME NEW w \in phaseWrites, PhaseWrite(w) PROVE TypeOK'
  <2>1. revision + 1 \in Nat
    BY DEF TypeOK
  <2>2. [resources[w.key] EXCEPT !.phase = "AddedtoRedis", !.rev = revision + 1]
          \in Resource
    BY <1>2, <2>1, PresentTyped, ResourceWritten DEF PhaseWrite, Replaceable
  <2>3. QED
    BY <1>2, <2>1, <2>2 DEF TypeOK, PhaseWrite
<1>3. ASSUME NEW w \in phaseWrites, PhaseWriteThrows(w) PROVE TypeOK'
  <2>1. {u.msg : u \in updating} \subseteq UpdateMessage
    BY DEF TypeOK, StatusExecution
  <2>2. QED
    BY <1>3, <2>1 DEF TypeOK, PhaseWriteThrows, CoreEnds, RequeueUpdates
<1>4. QED
  BY <1>1, <1>2, <1>3 DEF SyncJob

LEMMA TypeChecker == TypeOK /\ Checker => TypeOK'
<1> SUFFICES ASSUME TypeOK, Checker PROVE TypeOK'
  OBVIOUS
<1> USE DEF brokerVars, mongoVars, clusterVars, historyVars, linkVars
<1>1. ASSUME NEW m \in checkQueue, TakeCheck(m) PROVE TypeOK'
  <2>1. m \in CheckMessage /\ m.id \in Nat
    BY DEF TypeOK, CheckMessage
  <2>2. [msg |-> m, on |-> checkerLink, pc |-> "call"] \in Execution
    BY <2>1 DEF TypeOK, Execution
  <2>3. checking' \subseteq Execution /\ dismissed' \subseteq Nat
    BY <1>1, <2>1, <2>2 DEF TypeOK, TakeCheck
  <2>4. QED
    BY <1>1, <2>3 DEF TypeOK, TakeCheck
<1>2. ASSUME NEW c \in checking PROVE c \in Execution
  BY DEF TypeOK
<1>3. ASSUME NEW c \in checking, Call(c) PROVE TypeOK'
  <2>1. clock + 1 \in Nat /\ c.msg \in CheckMessage /\ c.on \in Nat
    BY <1>2 DEF TypeOK, Execution
  <2>2. PICK a \in Answers :
          /\ checking' = (checking \ {c}) \cup
               {[msg |-> c.msg, on |-> c.on, pc |-> "publish",
                 update |-> [key |-> c.msg.key, check |-> c.msg.id,
                             checkedAt |-> clock + 1, answer |-> a]]}
          /\ answers' = answers \cup {<<c.msg.key, Shown(a)>>}
    BY <1>3 DEF Call
  <2>3. [key |-> c.msg.key, check |-> c.msg.id, checkedAt |-> clock + 1,
         answer |-> a] \in UpdateMessage
    BY <2>1 DEF CheckMessage, UpdateMessage
  <2>4. checking' \subseteq Execution
    BY <2>1, <2>2, <2>3 DEF TypeOK, Execution
  <2>5. answers' \subseteq Keys \X ShownValues
    BY <2>1, <2>2, ShownTyped DEF TypeOK, CheckMessage
  <2>6. QED
    BY <1>3, <2>1, <2>4, <2>5 DEF TypeOK, Call
<1>4. ASSUME NEW c \in checking, CallFindsNoAddress(c) PROVE TypeOK'
  BY <1>2, <1>4 DEF TypeOK, CallFindsNoAddress, CheckMessage, Execution
<1>5. ASSUME NEW c \in checking, PublishUpdate(c) PROVE TypeOK'
  <2>1. c.update \in UpdateMessage
    BY <1>2, <1>5 DEF PublishUpdate, Execution
  <2>2. [c EXCEPT !.pc = "series"] \in Execution
    BY <1>2, <1>5, NextStatement DEF PublishUpdate
  <2>3. QED
    BY <1>5, <2>1, <2>2 DEF TypeOK, PublishUpdate
<1>6. ASSUME NEW c \in checking, c.pc # "call" PROVE Entry(c) \in Stored
  BY <1>2, <1>6 DEF Entry, Stored, Execution, CheckMessage, UpdateMessage
<1>7. ASSUME NEW c \in checking, StoreSeries(c) PROVE TypeOK'
  <2>1. [c EXCEPT !.pc = "result"] \in Execution
    BY <1>2, <1>7, NextStatement DEF StoreSeries
  <2>2. Entry(c) \in Stored
    BY <1>6, <1>7 DEF StoreSeries
  <2>3. QED
    BY <1>7, <2>1, <2>2 DEF TypeOK, StoreSeries
<1>8. ASSUME NEW c \in checking, StoreResult(c) PROVE TypeOK'
  <2>1. Entry(c) \in Stored
    BY <1>6, <1>8 DEF StoreResult
  <2>2. QED
    BY <1>8, <2>1 DEF TypeOK, StoreResult
<1>9. ASSUME NEW c \in checking, CheckThrows(c) PROVE TypeOK'
  <2>1. c.msg.id \in Nat
    BY <1>2 DEF Execution, CheckMessage
  <2>2. QED
    BY <1>9, <2>1 DEF TypeOK, CheckThrows, Throws
<1>10. QED
  BY <1>1, <1>3, <1>4, <1>5, <1>7, <1>8, <1>9 DEF Checker, Handle

LEMMA TypeUpdater == TypeOK /\ Updater => TypeOK'
<1> SUFFICES ASSUME TypeOK, Updater PROVE TypeOK'
  OBVIOUS
<1> USE DEF brokerVars, mongoVars, clusterVars, historyVars, linkVars
<1>1. ASSUME NEW m \in updateQueue, TakeUpdate(m) PROVE TypeOK'
  <2>1. m.key \in Present => resources[m.key].rev \in Nat
    BY PresentTyped DEF Resource
  <2>2. updating' \subseteq StatusExecution
    BY <1>1, <2>1 DEF TypeOK, TakeUpdate, StatusExecution
  <2>3. QED
    BY <1>1, <2>2 DEF TypeOK, TakeUpdate
<1>2. ASSUME NEW u \in updating
      PROVE  u.msg \in UpdateMessage
  BY DEF TypeOK, StatusExecution
<1>3. ASSUME NEW u \in updating, ReplaceStatus(u) PROVE TypeOK'
  <2>1. revision + 1 \in Nat
    BY DEF TypeOK
  <2>2. NewPhase(u.msg) \in ShownValues
    BY <1>2, ShownTyped DEF NewPhase, UpdateMessage
  <2>3. [resources[u.msg.key] EXCEPT !.phase = NewPhase(u.msg),
                                     !.rev = revision + 1] \in Resource
    BY <1>3, <2>1, <2>2, PresentTyped, ResourceWritten
       DEF ReplaceStatus, Replaceable
  <2>4. QED
    BY <1>3, <2>1, <2>3 DEF TypeOK, ReplaceStatus
<1>4. ASSUME NEW u \in updating, ReplaceThrows(u) PROVE TypeOK'
  BY <1>4 DEF TypeOK, ReplaceThrows
<1>5. QED
  BY <1>1, <1>3, <1>4 DEF Updater

LEMMA TypeNext == TypeOK /\ [Next]_vars => TypeOK'
<1> SUFFICES ASSUME TypeOK, [Next]_vars PROVE TypeOK'
  OBVIOUS
<1>1. CASE UNCHANGED vars
  BY <1>1 DEF TypeOK, vars
<1>2. QED
  BY <1>1, TypeCluster, TypeSyncJob, TypeChecker, TypeUpdater DEF Next

\* Every variable keeps its type.
THEOREM TypeCorrect == Spec => []TypeOK
BY TypeInit, TypeNext, PTL DEF Spec

-----------------------------------------------------------------------------
(***************************************************************************)
(* CheckPipeline implements CheckStatus.  A step that writes a status has  *)
(* to be a step of CheckStatus, which needs three facts about what the     *)
(* writers hold: an update that is under way carries an answer that was    *)
(* given, and a write of the sync job that the API server would still      *)
(* accept goes to a resource with an empty phase, because every write      *)
(* since then has given the resource a newer version.                      *)
(***************************************************************************)
Known(m) == <<m.key, Shown(m.answer)>> \in answers

AnswersKnown ==
    /\ \A m \in updateQueue : Known(m)
    /\ \A u \in updating : Known(u.msg)
    /\ \A c \in checking : c.pc # "call" => Known(c.update)

VersionsPast ==
    /\ \A k \in Present : resources[k].rev <= revision
    /\ \A w \in phaseWrites : w.rev <= revision

FirstPhaseOnly ==
    \A w \in phaseWrites :
        Replaceable(w.key, w.rev) => resources[w.key].phase = ""

StatusInv ==
    /\ TypeOK
    /\ AnswersKnown
    /\ VersionsPast
    /\ FirstPhaseOnly

\* A write gives its resource the newest version, so that no write of the
\* sync job that started before it is accepted any more.
LEMMA VersionWritten ==
    ASSUME TypeOK, VersionsPast, FirstPhaseOnly,
           NEW k \in Keys, NEW r \in Resource, r.rev = revision + 1,
           resources' = [resources EXCEPT ![k] = r],
           revision' = revision + 1,
           phaseWrites' \subseteq phaseWrites
    PROVE  VersionsPast' /\ FirstPhaseOnly'
<1> USE DEF Present
<1>1. revision \in Nat /\ resources \in [Keys -> Resource \cup {NoResource}]
  BY DEF TypeOK
<1>2. \A w \in phaseWrites : w.key \in Keys /\ w.rev \in Nat
  BY DEF TypeOK
<1>3. \A l \in Present : resources[l].rev \in Nat
  BY PresentTyped DEF Resource
<1>4. VersionsPast'
  BY <1>1, <1>2, <1>3 DEF VersionsPast
<1>5. ASSUME NEW w \in phaseWrites', Replaceable(w.key, w.rev)'
      PROVE  resources'[w.key].phase = ""
  <2>1. w \in phaseWrites /\ w.rev <= revision
    BY <1>5 DEF VersionsPast
  <2>2. w.key # k
    BY <1>1, <1>2, <1>5, <2>1 DEF Replaceable
  <2>3. resources'[w.key] = resources[w.key]
    BY <1>1, <1>2, <2>1, <2>2
  <2>4. Replaceable(w.key, w.rev)
    BY <1>5, <2>3 DEF Replaceable
  <2>5. QED
    BY <2>1, <2>3, <2>4 DEF FirstPhaseOnly
<1>6. QED
  BY <1>4, <1>5 DEF FirstPhaseOnly

\* What the abstract status becomes when a resource is written.
LEMMA ViewWritten ==
    ASSUME TypeOK, NEW k \in Keys, NEW r \in Resource,
           resources' = [resources EXCEPT ![k] = r]
    PROVE  StatusView' = [StatusView EXCEPT ![k] = r.phase]
<1>1. resources \in [Keys -> Resource \cup {NoResource}]
  BY DEF TypeOK
<1>2. k \in Present' /\ resources'[k] = r
  BY <1>1, NoResourceAssumption DEF Present
<1>3. \A l \in Keys : l # k => /\ resources'[l] = resources[l]
                               /\ l \in Present' <=> l \in Present
  BY <1>1 DEF Present
<1>4. \A l \in Keys :
        StatusView'[l] = IF l = k THEN r.phase ELSE StatusView[l]
  BY <1>2, <1>3 DEF StatusView
<1>5. StatusView = [l \in Keys |-> StatusView[l]]
  BY DEF StatusView
<1>6. StatusView' = [l \in Keys |-> StatusView'[l]]
  BY DEF StatusView
<1>7. QED
  BY <1>4, <1>5, <1>6

LEMMA ViewSame == resources' = resources => StatusView' = StatusView
BY DEF StatusView, Present

\* The abstract status of a resource that is there, or not.
LEMMA ViewOf ==
    ASSUME NEW k \in Keys
    PROVE  /\ k \notin Present => StatusView[k] = "none"
           /\ k \in Present => StatusView[k] = resources[k].phase
BY DEF StatusView

LEMMA StatusInit == Init => StatusInv
<1> SUFFICES ASSUME Init PROVE StatusInv
  OBVIOUS
<1>1. TypeOK
  BY TypeInit
<1>2. AnswersKnown /\ VersionsPast /\ FirstPhaseOnly
  BY DEF Init, AnswersKnown, VersionsPast, FirstPhaseOnly, Present
<1>3. QED
  BY <1>1, <1>2 DEF StatusInv

\* The updates under way carry answers that were given.
LEMMA AnswersKnownNext == StatusInv /\ [Next]_vars => AnswersKnown'
<1> SUFFICES ASSUME StatusInv, [Next]_vars PROVE AnswersKnown'
  OBVIOUS
<1> USE DEF brokerVars, mongoVars, clusterVars, historyVars, linkVars
<1>1. TypeOK /\ AnswersKnown
  BY DEF StatusInv
<1>2. CASE UNCHANGED vars
  BY <1>1, <1>2 DEF AnswersKnown, Known, vars
<1>3. CASE Cluster
  <2>1. /\ UNCHANGED answers
        /\ checking' \subseteq checking
        /\ updating' \subseteq updating
        /\ UNCHANGED updateQueue \/ RequeueUpdates
    BY <1>3 DEF Cluster, CreateResource, EditResource, DeleteResource,
                PublishCheck, CoreCrash, CoreEnds, CheckerCrash,
                CheckerLosesConnection, CoreLosesConnection
  <2>2. QED
    BY <1>1, <2>1 DEF AnswersKnown, Known, RequeueUpdates
<1>4. CASE SyncJob
  <2>1. /\ UNCHANGED <<answers, checking>>
        /\ updating' \subseteq updating
        /\ UNCHANGED updateQueue \/ RequeueUpdates
    BY <1>4 DEF SyncJob, StartPhaseWrite, PhaseWrite, PhaseWriteThrows, CoreEnds
  <2>2. QED
    BY <1>1, <2>1 DEF AnswersKnown, Known, RequeueUpdates
<1>5. CASE Updater
  <2>1. /\ UNCHANGED <<answers, checking>>
        /\ updateQueue' \subseteq updateQueue
    BY <1>5 DEF Updater, TakeUpdate, ReplaceStatus, ReplaceThrows
  <2>2. ASSUME NEW v \in updating'
        PROVE  v \in updating \/ v.msg \in updateQueue
    <3>1. CASE \E m \in updateQueue : TakeUpdate(m)
      <4>1. PICK m \in updateQueue : TakeUpdate(m)
        BY <3>1
      <4>2. \/ v \in updating
            \/ v = [msg |-> m, on |-> coreLink, rev |-> resources[m.key].rev]
        BY <4>1 DEF TakeUpdate
      <4>3. QED
        BY <4>2
    <3>2. CASE \E u \in updating : ReplaceStatus(u) \/ ReplaceThrows(u)
      BY <3>2 DEF ReplaceStatus, ReplaceThrows
    <3>3. QED
      BY <1>5, <3>1, <3>2 DEF Updater
  <2>3. QED
    BY <1>1, <2>1, <2>2 DEF AnswersKnown, Known
<1>6. CASE Checker
  <2>1. UNCHANGED updating /\ answers \subseteq answers'
    BY <1>6 DEF Checker, TakeCheck, Handle, Call, CallFindsNoAddress,
                PublishUpdate, StoreSeries, StoreResult, CheckThrows
  <2>2. \A c \in checking : c \in Execution
    BY <1>1 DEF TypeOK
  <2>3. ASSUME NEW m \in updateQueue' PROVE Known(m)'
    <3>1. \/ m \in updateQueue
          \/ \E c \in checking : c.pc # "call" /\ m = c.update
      BY <1>6 DEF Checker, TakeCheck, Handle, Call, CallFindsNoAddress,
                  PublishUpdate, StoreSeries, StoreResult, CheckThrows
    <3>2. QED
      BY <1>1, <2>1, <3>1 DEF AnswersKnown, Known
  <2>4. ASSUME NEW d \in checking', d.pc # "call" PROVE Known(d.update)'
    <3>1. CASE \E m \in checkQueue : TakeCheck(m)
      <4>1. d \in checking
        BY <2>4, <3>1 DEF TakeCheck
      <4>2. QED
        BY <1>1, <2>1, <2>4, <4>1 DEF AnswersKnown, Known
    <3>2. ASSUME NEW c \in checking, Call(c) PROVE Known(d.update)'
      <4>1. CASE d \in checking
        BY <1>1, <2>1, <2>4, <4>1 DEF AnswersKnown, Known
      <4>2. CASE d \notin checking
        BY <3>2, <4>2 DEF Call, Known
      <4>3. QED
        BY <4>1, <4>2
    <3>3. ASSUME NEW c \in checking,
                 CallFindsNoAddress(c) \/ PublishUpdate(c) \/ StoreSeries(c)
                   \/ StoreResult(c) \/ CheckThrows(c)
          PROVE  Known(d.update)'
      <4>1. \/ d \in checking
            \/ c.pc # "call" /\ d = [c EXCEPT !.pc = "series"]
            \/ c.pc # "call" /\ d = [c EXCEPT !.pc = "result"]
        BY <3>3 DEF CallFindsNoAddress, PublishUpdate, StoreSeries,
                    StoreResult, CheckThrows
      <4>2. d \in checking \/ (c.pc # "call" /\ d.update = c.update)
        BY <2>2, <4>1, NextStatement
      <4>3. QED
        BY <1>1, <2>1, <2>4, <4>2 DEF AnswersKnown, Known
    <3>4. QED
      BY <1>6, <3>1, <3>2, <3>3 DEF Checker, Handle
  <2>5. QED
    BY <1>1, <2>1, <2>3, <2>4 DEF AnswersKnown, Known
<1>7. QED
  BY <1>2, <1>3, <1>4, <1>5, <1>6 DEF Next

\* No write of the sync job can still replace an answer.
LEMMA FirstPhaseNext ==
    StatusInv /\ [Next]_vars => VersionsPast' /\ FirstPhaseOnly'
<1> SUFFICES ASSUME StatusInv, [Next]_vars
             PROVE  VersionsPast' /\ FirstPhaseOnly'
  OBVIOUS
<1> USE DEF brokerVars, mongoVars, clusterVars, historyVars, linkVars
<1>1. TypeOK /\ VersionsPast /\ FirstPhaseOnly
  BY DEF StatusInv
<1>2. /\ revision \in Nat
      /\ revision + 1 \in Nat
      /\ resources \in [Keys -> Resource \cup {NoResource}]
  BY <1>1 DEF TypeOK
<1>3. ASSUME resources' = resources, revision' = revision,
             phaseWrites' \subseteq phaseWrites
      PROVE  VersionsPast' /\ FirstPhaseOnly'
  BY <1>1, <1>3 DEF VersionsPast, FirstPhaseOnly, Replaceable, Present
<1>4. CASE UNCHANGED vars
  BY <1>3, <1>4 DEF vars
<1>5. ASSUME NEW k \in Keys, CreateResource(k)
      PROVE  VersionsPast' /\ FirstPhaseOnly'
  <2> DEFINE r == [uid |-> revision + 1, rev |-> revision + 1, phase |-> ""]
  <2>1. r \in Resource /\ r.rev = revision + 1
    BY <1>2, ResourceCreated, Zenon
  <2>2. resources' = [resources EXCEPT ![k] = r] /\ revision' = revision + 1
        /\ phaseWrites' \subseteq phaseWrites
    BY <1>5 DEF CreateResource
  <2> HIDE DEF r
  <2>3. QED
    BY <1>1, <2>1, <2>2, VersionWritten
<1>6. ASSUME NEW k \in Keys, EditResource(k)
      PROVE  VersionsPast' /\ FirstPhaseOnly'
  <2> DEFINE r == [resources[k] EXCEPT !.rev = revision + 1]
  <2>1. revision + 1 \in Nat /\ resources[k] \in Resource
    BY <1>1, <1>2, <1>6, PresentTyped DEF EditResource
  <2>2. r \in Resource /\ r.rev = revision + 1
    BY <2>1, ResourceEdited
  <2>3. resources' = [resources EXCEPT ![k] = r] /\ revision' = revision + 1
        /\ phaseWrites' \subseteq phaseWrites
    BY <1>6 DEF EditResource
  <2> HIDE DEF r
  <2>4. QED
    BY <1>1, <2>2, <2>3, VersionWritten
<1>7. ASSUME NEW k \in Keys, DeleteResource(k)
      PROVE  VersionsPast' /\ FirstPhaseOnly'
  <2>1. UNCHANGED <<revision, phaseWrites>>
    BY <1>7 DEF DeleteResource
  <2>2. \A l \in Present' : l \in Present /\ resources'[l] = resources[l]
    BY <1>2, <1>7 DEF DeleteResource, Present
  <2>3. QED
    BY <1>1, <2>1, <2>2 DEF VersionsPast, FirstPhaseOnly, Replaceable
<1>8. ASSUME NEW k \in Keys, StartPhaseWrite(k)
      PROVE  VersionsPast' /\ FirstPhaseOnly'
  <2> DEFINE v == [key |-> k, rev |-> resources[k].rev]
  <2>1. /\ UNCHANGED <<resources, revision>>
        /\ phaseWrites' = phaseWrites \cup {v}
        /\ k \in Present
        /\ resources[k].phase = ""
    BY <1>8 DEF StartPhaseWrite
  <2>2. v.key = k /\ v.rev = resources[k].rev
    OBVIOUS
  <2> HIDE DEF v
  <2>3. QED
    BY <1>1, <2>1, <2>2 DEF VersionsPast, FirstPhaseOnly, Replaceable, Present
<1>9. ASSUME NEW w \in phaseWrites, PhaseWrite(w)
      PROVE  VersionsPast' /\ FirstPhaseOnly'
  <2> DEFINE r == [resources[w.key] EXCEPT !.phase = "AddedtoRedis",
                                           !.rev = revision + 1]
  <2>1. /\ revision + 1 \in Nat
        /\ w.key \in Keys
        /\ resources[w.key] \in Resource
    BY <1>1, <1>2, <1>9, PresentTyped DEF PhaseWrite, Replaceable
  <2>2. r \in Resource /\ r.rev = revision + 1
    <3>1. r \in Resource
      BY <2>1, ResourceWritten
    <3>2. r.rev = revision + 1
      BY <2>1 DEF Resource
    <3>3. QED
      BY <3>1, <3>2
  <2>3. /\ resources' = [resources EXCEPT ![w.key] = r]
        /\ revision' = revision + 1
        /\ phaseWrites' \subseteq phaseWrites
    BY <1>9 DEF PhaseWrite
  <2> HIDE DEF r
  <2>4. QED
    BY <1>1, <2>1, <2>2, <2>3, VersionWritten
<1>10. ASSUME NEW u \in updating, ReplaceStatus(u)
       PROVE  VersionsPast' /\ FirstPhaseOnly'
  <2> DEFINE r == [resources[u.msg.key] EXCEPT !.phase = NewPhase(u.msg),
                                               !.rev = revision + 1]
  <2>1. /\ revision + 1 \in Nat
        /\ u.msg.key \in Keys
        /\ resources[u.msg.key] \in Resource
    BY <1>1, <1>2, <1>10, PresentTyped DEF ReplaceStatus, Replaceable
  <2>2. NewPhase(u.msg) \in ShownValues
    BY <1>1, ShownTyped DEF TypeOK, NewPhase, UpdateMessage, StatusExecution
  <2>3. r \in Resource /\ r.rev = revision + 1
    <3>1. r \in Resource
      BY <2>1, <2>2, ResourceWritten
    <3>2. r.rev = revision + 1
      BY <2>1 DEF Resource
    <3>3. QED
      BY <3>1, <3>2
  <2>4. /\ resources' = [resources EXCEPT ![u.msg.key] = r]
        /\ revision' = revision + 1
        /\ phaseWrites' \subseteq phaseWrites
    BY <1>10 DEF ReplaceStatus
  <2> HIDE DEF r
  <2>5. QED
    BY <1>1, <2>1, <2>3, <2>4, VersionWritten
<1>11. ASSUME \/ \E k \in Keys : PublishCheck(k)
              \/ CoreCrash \/ CoreLosesConnection
              \/ CheckerCrash \/ CheckerLosesConnection
              \/ \E w \in phaseWrites : PhaseWriteThrows(w)
              \/ Checker
              \/ \E m \in updateQueue : TakeUpdate(m)
              \/ \E u \in updating : ReplaceThrows(u)
       PROVE  /\ UNCHANGED <<resources, revision>>
              /\ phaseWrites' \subseteq phaseWrites
  BY <1>11 DEF PublishCheck, CoreCrash, CoreEnds, CheckerCrash,
       CheckerLosesConnection, CoreLosesConnection, PhaseWriteThrows,
       Checker, TakeCheck, Handle, Call, CallFindsNoAddress,
       PublishUpdate, StoreSeries, StoreResult, CheckThrows, TakeUpdate,
       ReplaceThrows
<1>12. QED
  BY <1>3, <1>4, <1>5, <1>6, <1>7, <1>8, <1>9, <1>10, <1>11
     DEF Next, Cluster, SyncJob, Updater

LEMMA StatusNext == StatusInv /\ [Next]_vars => StatusInv'
BY TypeNext, AnswersKnownNext, FirstPhaseNext DEF StatusInv

LEMMA StatusInvariant == Spec => []StatusInv
BY StatusInit, StatusNext, PTL DEF Spec

\* Every step is a step of CheckStatus or leaves the statuses and the answers
\* as they are.
LEMMA StatusStep == StatusInv /\ [Next]_vars => [CS!Next]_(CS!vars)
<1> SUFFICES ASSUME StatusInv, [Next]_vars PROVE [CS!Next]_(CS!vars)
  OBVIOUS
<1> USE DEF brokerVars, mongoVars, clusterVars, historyVars, linkVars
<1>1. TypeOK /\ AnswersKnown /\ FirstPhaseOnly
  BY DEF StatusInv
<1>2. revision + 1 \in Nat
  BY <1>1 DEF TypeOK
<1>3. ASSUME UNCHANGED <<resources, answers>> PROVE UNCHANGED CS!vars
  BY <1>3, ViewSame DEF CS!vars
<1>4. ASSUME NEW k \in Keys, CreateResource(k) PROVE CS!Create(k)
  <2> DEFINE r == [uid |-> revision + 1, rev |-> revision + 1, phase |-> ""]
  <2>1. r \in Resource /\ r.phase = ""
    BY <1>2, ResourceCreated, Zenon
  <2>2. /\ resources' = [resources EXCEPT ![k] = r]
        /\ k \notin Present
        /\ UNCHANGED answers
    BY <1>4 DEF CreateResource
  <2> HIDE DEF r
  <2>3. StatusView' = [StatusView EXCEPT ![k] = ""]
    BY <1>1, <2>1, <2>2, ViewWritten
  <2>4. QED
    BY <2>2, <2>3, ViewOf DEF CS!Create
<1>5. ASSUME NEW k \in Keys, EditResource(k) PROVE UNCHANGED CS!vars
  <2> DEFINE r == [resources[k] EXCEPT !.rev = revision + 1]
  <2>1. k \in Present /\ resources[k] \in Resource
    BY <1>1, <1>5, PresentTyped DEF EditResource
  <2>2. r \in Resource /\ r.phase = resources[k].phase
    BY <1>2, <2>1, ResourceEdited
  <2>3. resources' = [resources EXCEPT ![k] = r] /\ UNCHANGED answers
    BY <1>5 DEF EditResource
  <2> HIDE DEF r
  <2>4. StatusView' = [StatusView EXCEPT ![k] = StatusView[k]]
    BY <1>1, <2>1, <2>2, <2>3, ViewWritten, ViewOf
  <2>5. StatusView' = StatusView
    BY <2>4 DEF StatusView
  <2>6. QED
    BY <2>3, <2>5 DEF CS!vars
<1>6. ASSUME NEW k \in Keys, DeleteResource(k) PROVE CS!Delete(k)
  <2>1. k \in Present /\ resources[k] \in Resource /\ UNCHANGED answers
    BY <1>1, <1>6, PresentTyped DEF DeleteResource
  <2>2. StatusView[k] # "none"
    BY <2>1, ViewOf, AnswerAssumption DEF Resource
  <2>3. /\ resources'[k] = NoResource
        /\ \A l \in Keys : l # k => resources'[l] = resources[l]
    BY <1>1, <1>6 DEF TypeOK, DeleteResource
  <2>4. \A l \in Keys :
          StatusView'[l] = IF l = k THEN "none" ELSE StatusView[l]
    BY <2>3 DEF StatusView, Present
  <2>5. /\ StatusView = [l \in Keys |-> StatusView[l]]
        /\ StatusView' = [l \in Keys |-> StatusView'[l]]
    BY DEF StatusView
  <2>6. StatusView' = [StatusView EXCEPT ![k] = "none"]
    BY <2>4, <2>5
  <2>7. QED
    BY <2>1, <2>2, <2>6 DEF CS!Delete
<1>7. ASSUME NEW w \in phaseWrites, PhaseWrite(w) PROVE CS!TakeOver(w.key)
  <2> DEFINE r == [resources[w.key] EXCEPT !.phase = "AddedtoRedis",
                                           !.rev = revision + 1]
  <2>1. w.key \in Present /\ w.key \in Keys /\ resources[w.key] \in Resource
    BY <1>1, <1>7, PresentTyped DEF PhaseWrite, Replaceable
  <2>2. r \in Resource /\ r.phase = "AddedtoRedis"
    <3>1. r \in Resource
      BY <1>2, <2>1, ResourceWritten
    <3>2. r.phase = "AddedtoRedis"
      BY <2>1 DEF Resource
    <3>3. QED
      BY <3>1, <3>2
  <2>3. resources' = [resources EXCEPT ![w.key] = r] /\ UNCHANGED answers
    BY <1>7 DEF PhaseWrite
  <2> HIDE DEF r
  <2>4. StatusView' = [StatusView EXCEPT ![w.key] = "AddedtoRedis"]
    BY <1>1, <2>1, <2>2, <2>3, ViewWritten
  <2>5. resources[w.key].phase = ""
    BY <1>1, <1>7 DEF FirstPhaseOnly, PhaseWrite
  <2>6. QED
    BY <2>1, <2>3, <2>4, <2>5, ViewOf DEF CS!TakeOver
<1>8. ASSUME NEW c \in checking, Call(c) PROVE CS!Answer(c.msg.key)
  <2>1. StatusView' = StatusView
    BY <1>8, ViewSame DEF Call
  <2>2. \E a \in Answers : answers' = answers \cup {<<c.msg.key, Shown(a)>>}
    BY <1>8 DEF Call
  <2>3. QED
    BY <2>1, <2>2, ShownTyped DEF CS!Answer
<1>9. ASSUME NEW u \in updating, ReplaceStatus(u) PROVE CS!Show(u.msg.key)
  <2> DEFINE r == [resources[u.msg.key] EXCEPT !.phase = NewPhase(u.msg),
                                               !.rev = revision + 1]
  <2>1. /\ u.msg.key \in Present /\ u.msg.key \in Keys
        /\ resources[u.msg.key] \in Resource
    BY <1>1, <1>9, PresentTyped DEF ReplaceStatus, Replaceable
  <2>2. NewPhase(u.msg) \in ShownValues
    BY <1>1, ShownTyped DEF TypeOK, NewPhase, UpdateMessage, StatusExecution
  <2>3. r \in Resource /\ r.phase = NewPhase(u.msg)
    <3>1. r \in Resource
      BY <1>2, <2>1, <2>2, ResourceWritten
    <3>2. r.phase = NewPhase(u.msg)
      BY <2>1 DEF Resource
    <3>3. QED
      BY <3>1, <3>2
  <2>4. resources' = [resources EXCEPT ![u.msg.key] = r] /\ UNCHANGED answers
    BY <1>9 DEF ReplaceStatus
  <2> HIDE DEF r
  <2>5. StatusView' = [StatusView EXCEPT ![u.msg.key] = NewPhase(u.msg)]
    BY <1>1, <2>1, <2>3, <2>4, ViewWritten
  <2>6. <<u.msg.key, NewPhase(u.msg)>> \in answers
    BY <1>1 DEF AnswersKnown, Known, NewPhase
  <2>7. StatusView[u.msg.key] # "none"
    BY <2>1, ViewOf, AnswerAssumption DEF Resource
  <2>8. QED
    BY <2>2, <2>4, <2>5, <2>6, <2>7 DEF CS!Show
<1>10. ASSUME NEW c \in checking, Handle(c)
       PROVE  Call(c) \/ UNCHANGED <<resources, answers>>
  BY <1>10 DEF Handle, CallFindsNoAddress, PublishUpdate, StoreSeries,
               StoreResult, CheckThrows
<1>11. ASSUME \/ \E k \in Keys : PublishCheck(k) \/ StartPhaseWrite(k)
              \/ CoreCrash \/ CoreLosesConnection
              \/ CheckerCrash \/ CheckerLosesConnection
              \/ \E w \in phaseWrites : PhaseWriteThrows(w)
              \/ \E m \in checkQueue : TakeCheck(m)
              \/ \E m \in updateQueue : TakeUpdate(m)
              \/ \E u \in updating : ReplaceThrows(u)
              \/ UNCHANGED vars
       PROVE  UNCHANGED <<resources, answers>>
  BY <1>11 DEF PublishCheck, StartPhaseWrite, CoreCrash, CoreEnds,
       CheckerCrash, CheckerLosesConnection, CoreLosesConnection,
       PhaseWriteThrows, TakeCheck, TakeUpdate, ReplaceThrows, vars
<1>12. /\ \A w \in phaseWrites : w.key \in Keys
       /\ \A c \in checking : c.msg.key \in Keys
       /\ \A u \in updating : u.msg.key \in Keys
  BY <1>1 DEF TypeOK, Execution, StatusExecution, CheckMessage, UpdateMessage
<1>13. QED
  BY <1>3, <1>4, <1>5, <1>6, <1>7, <1>8, <1>9, <1>10, <1>11, <1>12
     DEF Next, Cluster, SyncJob, Checker, Updater, CS!Next

\* The two writers of a status and the users together implement CheckStatus:
\* a status shows an answer of an address of its name, and the first phase
\* never replaces one.
THEOREM StatusRefinement == Spec => ImplementsCheckStatus
<1>1. Init => CS!Init
  BY DEF Init, CS!Init, StatusView, Present
<1>2. QED
  BY <1>1, StatusInvariant, StatusStep, PTL
     DEF Spec, ImplementsCheckStatus, CS!Spec

-----------------------------------------------------------------------------
(***************************************************************************)
(* What becomes of a check.  "Settled" only grows and a check that is not  *)
(* settled waits or is being handled.                                      *)
(***************************************************************************)
LEMMA SettledStays ==
    ASSUME NEW id, Settled(id),
           dismissed \subseteq dismissed', errors \subseteq errors',
           results \subseteq results'
    PROVE  Settled(id)'
BY DEF Settled

LEMMA HistoryGrows ==
    ASSUME [Next]_vars
    PROVE  /\ dismissed \subseteq dismissed'
           /\ errors \subseteq errors'
           /\ results \subseteq results'
           /\ series \subseteq series'
           /\ redelivered \subseteq redelivered'
<1> USE DEF brokerVars, mongoVars, clusterVars, historyVars, linkVars
<1>1. CASE Cluster \/ SyncJob \/ UNCHANGED vars
  BY <1>1 DEF Cluster, CreateResource, EditResource, DeleteResource,
     PublishCheck, CoreCrash, CoreEnds, CheckerCrash, CheckerLosesConnection,
     CoreLosesConnection, RequeueChecks, SyncJob, StartPhaseWrite, PhaseWrite,
     PhaseWriteThrows, vars
<1>2. CASE Checker
  BY <1>2 DEF Checker, TakeCheck, Handle, Call, CallFindsNoAddress,
     PublishUpdate, StoreSeries, StoreResult, CheckThrows, Throws
<1>3. CASE Updater
  BY <1>3 DEF Updater, TakeUpdate, ReplaceStatus, ReplaceThrows
<1>4. QED
  BY <1>1, <1>2, <1>3 DEF Next

\* No step forgets a check that waits or is being handled.
LEMMA NothingDropped ==
    ASSUME TypeOK, [Next]_vars, NEW id, Waiting(id)
    PROVE  Waiting(id)' \/ Settled(id)'
<1> USE DEF brokerVars, mongoVars, clusterVars, historyVars, linkVars
<1>1. CASE UNCHANGED <<checkQueue, checking, checkerLink>>
  BY <1>1 DEF Waiting, HeldCheck
<1>2. ASSUME NEW k \in Keys, PublishCheck(k)
      PROVE  Waiting(id)'
  <2>1. checkQueue \subseteq checkQueue' /\ UNCHANGED <<checking, checkerLink>>
    BY <1>2 DEF PublishCheck
  <2>2. QED
    BY <2>1 DEF Waiting, HeldCheck
<1>3. CASE CheckerCrash \/ CheckerLosesConnection
  <2>1. RequeueChecks
    BY <1>3 DEF CheckerCrash, CheckerLosesConnection
  <2>2. QED
    BY <2>1 DEF RequeueChecks, Waiting
<1>4. ASSUME NEW m \in checkQueue, TakeCheck(m)
      PROVE  Waiting(id)' \/ Settled(id)'
  <2>1. \/ m.id \in dismissed'
        \/ [msg |-> m, on |-> checkerLink, pc |-> "call"] \in checking'
    BY <1>4 DEF TakeCheck
  <2>2. /\ checkQueue' = checkQueue \ {m}
        /\ checking \subseteq checking'
        /\ UNCHANGED checkerLink
    BY <1>4 DEF TakeCheck
  <2>3. Settled(m.id)' \/ Waiting(m.id)'
    BY <2>1, <2>2 DEF Settled, Waiting, HeldCheck
  <2>4. QED
    BY <2>2, <2>3 DEF Waiting, HeldCheck
<1>5. ASSUME NEW c \in checking, Handle(c)
      PROVE  Waiting(id)' \/ Settled(id)'
  <2>1. c \in Execution
    BY DEF TypeOK
  <2>2. /\ UNCHANGED <<checkQueue, checkerLink>>
        /\ checking \ {c} \subseteq checking'
    BY <1>5 DEF Handle, Call, CallFindsNoAddress, PublishUpdate, StoreSeries,
                StoreResult, CheckThrows
  <2>3. CASE Call(c)
    <3>1. PICK a \in Answers :
            checking' = (checking \ {c}) \cup
              {[msg |-> c.msg, on |-> c.on, pc |-> "publish",
                update |-> [key |-> c.msg.key, check |-> c.msg.id,
                            checkedAt |-> clock + 1, answer |-> a]]}
      BY <2>3 DEF Call
    <3> DEFINE e(x) == [msg |-> c.msg, on |-> c.on, pc |-> "publish",
                        update |-> x]
    <3>2. \A x : e(x).msg = c.msg /\ e(x).on = c.on
      OBVIOUS
    <3>3. \E d \in checking' : d.msg = c.msg /\ d.on = c.on
      BY <3>1, <3>2, Zenon
    <3> HIDE DEF e
    <3>4. QED
      BY <2>2, <3>3 DEF Waiting, HeldCheck
  <2>4. CASE PublishUpdate(c) \/ StoreSeries(c)
    <3>1. \E d \in checking' : d.msg = c.msg /\ d.on = c.on
      BY <2>1, <2>4, NextStatement DEF PublishUpdate, StoreSeries
    <3>2. QED
      BY <2>2, <3>1 DEF Waiting, HeldCheck
  <2>5. CASE CallFindsNoAddress(c) \/ StoreResult(c) \/ CheckThrows(c)
    <3>1. CASE CallFindsNoAddress(c)
      BY <2>2, <3>1 DEF CallFindsNoAddress, Settled, Waiting, HeldCheck
    <3>2. CASE StoreResult(c)
      <4>1. Entry(c).check = c.msg.id /\ Entry(c) \in results'
        BY <3>2 DEF StoreResult, Entry
      <4>2. Settled(c.msg.id)'
        BY <4>1 DEF Settled
      <4>3. QED
        BY <2>2, <4>2 DEF Waiting, HeldCheck
    <3>3. CASE CheckThrows(c)
      <4>1. HeldCheck(c) => Settled(c.msg.id)'
        BY <3>3 DEF CheckThrows, Throws, Settled
      <4>2. QED
        BY <2>2, <4>1 DEF Waiting, HeldCheck
    <3>4. QED
      BY <2>5, <3>1, <3>2, <3>3
  <2>6. QED
    BY <1>5, <2>3, <2>4, <2>5 DEF Handle
<1>6. ASSUME \/ \E k \in Keys : \/ CreateResource(k) \/ EditResource(k)
                                \/ DeleteResource(k) \/ StartPhaseWrite(k)
             \/ CoreCrash \/ CoreLosesConnection
             \/ \E w \in phaseWrites : PhaseWrite(w) \/ PhaseWriteThrows(w)
             \/ Updater
             \/ UNCHANGED vars
      PROVE  UNCHANGED <<checkQueue, checking, checkerLink>>
  BY <1>6 DEF CreateResource, EditResource, DeleteResource, StartPhaseWrite,
     CoreCrash, CoreEnds, CoreLosesConnection, PhaseWrite, PhaseWriteThrows,
     Updater, TakeUpdate, ReplaceStatus, ReplaceThrows, vars
<1>7. QED
  BY <1>1, <1>2, <1>3, <1>4, <1>5, <1>6 DEF Next, Cluster, SyncJob, Checker

LEMMA ForgottenNext ==
    TypeOK /\ NothingForgotten /\ [Next]_vars => NothingForgotten'
<1> SUFFICES ASSUME TypeOK, NothingForgotten, [Next]_vars,
                    NEW id \in 1 .. published'
             PROVE  Waiting(id)' \/ Settled(id)'
  BY DEF NothingForgotten
<1> USE DEF brokerVars, mongoVars, clusterVars, historyVars, linkVars
<1>1. CASE id \in 1 .. published
  <2>1. Waiting(id) \/ Settled(id)
    BY <1>1 DEF NothingForgotten
  <2>2. QED
    BY <2>1, NothingDropped, HistoryGrows, SettledStays
<1>2. CASE id \notin 1 .. published
  <2>1. PICK k \in Keys : PublishCheck(k)
    BY <1>2 DEF Next, Cluster, CreateResource, EditResource, DeleteResource,
       CoreCrash, CoreEnds, CheckerCrash, CheckerLosesConnection,
       CoreLosesConnection, SyncJob, StartPhaseWrite, PhaseWrite,
       PhaseWriteThrows, Checker, TakeCheck, Handle, Call, CallFindsNoAddress,
       PublishUpdate, StoreSeries, StoreResult, CheckThrows, Updater,
       TakeUpdate, ReplaceStatus, ReplaceThrows, vars
  <2>2. id = published + 1
    BY <1>2, <2>1 DEF PublishCheck, TypeOK
  <2>3. \E m \in checkQueue' : m.id = published + 1
    <3>1. PICK related \in BOOLEAN :
            checkQueue' = checkQueue \cup
              {[id |-> published + 1, key |-> k, related |-> related]}
      BY <2>1 DEF PublishCheck
    <3>2. [id |-> published + 1, key |-> k, related |-> related].id
            = published + 1
      OBVIOUS
    <3>3. QED
      BY <3>1, <3>2, Zenon
  <2>4. QED
    BY <2>2, <2>3 DEF Waiting
<1>3. QED
  BY <1>1, <1>2

\* A check the broker has accepted is never forgotten, whichever worker ends or
\* loses its connection.
THEOREM NoCheckForgotten == Spec => []NothingForgotten
<1>1. Init => NothingForgotten
  BY DEF Init, NothingForgotten
<1>2. QED
  BY <1>1, TypeInit, TypeNext, ForgottenNext, PTL DEF Spec

-----------------------------------------------------------------------------
(***************************************************************************)
(* The two collections.  As long as the broker has not delivered it again  *)
(* a check is in one place: waiting, in one handler, or stored.  A handler *)
(* whose connection is lost holds a check that was delivered again, which  *)
(* is why the end of the worker, which delivers again only what is held,   *)
(* leaves no half-stored check behind that was delivered once.             *)
(***************************************************************************)
Again(id) == id \in redelivered

InOnePlace ==
    /\ \A m, n \in checkQueue : m.id = n.id => m = n \/ Again(m.id)
    /\ \A c, d \in checking : c.msg.id = d.msg.id => c = d \/ Again(c.msg.id)
    /\ \A m \in checkQueue, c \in checking : m.id = c.msg.id => Again(m.id)
    /\ \A m \in checkQueue, s \in series : m.id = s.check => Again(m.id)
    /\ \A c \in checking, s \in series :
         s.check = c.msg.id =>
           Again(s.check) \/ (c.pc = "result" /\ s = Entry(c))
    /\ \A s, t \in series : s.check = t.check => s = t \/ Again(s.check)

IdsPublished ==
    /\ \A m \in checkQueue : m.id <= published
    /\ \A c \in checking : c.msg.id <= published
    /\ \A s \in series : s.check <= published

LostAgain == \A c \in checking : HeldCheck(c) \/ Again(c.msg.id)

\* An entry that has no result yet, or will never have one.
HalfStored(s) ==
    \/ Again(s.check)
    \/ s.check \in errors
    \/ \E c \in checking : c.pc = "result" /\ Entry(c) = s

SeriesFirst ==
    /\ results \subseteq series
    /\ \A c \in checking : c.pc = "result" => Entry(c) \in series

StoreInv ==
    /\ SeriesFirst
    /\ IdsPublished
    /\ InOnePlace
    /\ LostAgain
    /\ \A s \in series \ results : HalfStored(s)

LEMMA StoreSame ==
    ASSUME StoreInv,
           UNCHANGED <<published, checkQueue, checking, checkerLink, errors,
                       mongoVars, redelivered>>
    PROVE  StoreInv'
BY DEF StoreInv, SeriesFirst, IdsPublished, InOnePlace, LostAgain, HalfStored,
       HeldCheck, Again, Entry, mongoVars

LEMMA StorePublish ==
    ASSUME TypeOK, StoreInv, NEW k \in Keys, PublishCheck(k)
    PROVE  StoreInv'
<1> USE DEF brokerVars, mongoVars, clusterVars, historyVars, linkVars
<1>1. PICK m :
        /\ m.id = published + 1
        /\ checkQueue' = checkQueue \cup {m}
  <2>1. PICK related \in BOOLEAN :
          checkQueue' = checkQueue \cup
            {[id |-> published + 1, key |-> k, related |-> related]}
    BY DEF PublishCheck
  <2>2. [id |-> published + 1, key |-> k, related |-> related].id
          = published + 1
    OBVIOUS
  <2>3. QED
    BY <2>1, <2>2, Zenon
<1>2. /\ published' = published + 1
      /\ UNCHANGED <<checking, checkerLink, errors, series, results,
                     redelivered>>
  BY DEF PublishCheck
<1>3. /\ published \in Nat
      /\ \A n \in checkQueue : n.id \in Nat
      /\ \A c \in checking : c.msg.id \in Nat
      /\ \A s \in series : s.check \in Nat
  BY DEF TypeOK, CheckMessage, Execution, Stored
<1>4. IdsPublished'
  BY <1>1, <1>2, <1>3 DEF StoreInv, IdsPublished
<1>5. /\ \A n \in checkQueue : n.id # m.id
      /\ \A c \in checking : c.msg.id # m.id
      /\ \A s \in series : s.check # m.id
  BY <1>1, <1>3 DEF StoreInv, IdsPublished
<1>6. InOnePlace'
  BY <1>1, <1>2, <1>5 DEF StoreInv, InOnePlace, Again, Entry
<1>7. QED
  BY <1>2, <1>4, <1>6
     DEF StoreInv, SeriesFirst, LostAgain, HeldCheck, HalfStored, Again, Entry

LEMMA StoreTake ==
    ASSUME TypeOK, StoreInv, NEW m \in checkQueue, TakeCheck(m)
    PROVE  StoreInv'
<1> USE DEF brokerVars, mongoVars, clusterVars, historyVars, linkVars
<1> DEFINE e == [msg |-> m, on |-> checkerLink, pc |-> "call"]
<1>1. e.msg = m /\ e.on = checkerLink /\ e.pc = "call"
  OBVIOUS
<1>2. checking' = checking \/ checking' = checking \cup {e}
  BY DEF TakeCheck
<1> HIDE DEF e
<1>3. /\ checkQueue' = checkQueue \ {m}
      /\ UNCHANGED <<published, checkerLink, errors, series, results,
                     redelivered>>
  BY DEF TakeCheck
<1>4. SeriesFirst' /\ IdsPublished' /\ LostAgain'
  BY <1>1, <1>2, <1>3
     DEF StoreInv, SeriesFirst, IdsPublished, LostAgain, HeldCheck, Again,
         Entry
<1>5. InOnePlace'
  BY <1>1, <1>2, <1>3 DEF StoreInv, InOnePlace, Again, Entry
<1>6. ASSUME NEW s \in series' \ results' PROVE HalfStored(s)'
  BY <1>2, <1>3, <1>6 DEF StoreInv, HalfStored, Again, Entry
<1>7. QED
  BY <1>4, <1>5, <1>6 DEF StoreInv

\* The handler goes on to a statement before the second write, or ends
\* before the first.
LEMMA StoreHandle ==
    ASSUME TypeOK, StoreInv, NEW c \in checking,
           Call(c) \/ CallFindsNoAddress(c) \/ PublishUpdate(c)
    PROVE  StoreInv'
<1> USE DEF brokerVars, mongoVars, clusterVars, historyVars, linkVars
<1>1. c \in Execution /\ c.pc \in {"call", "publish"}
  BY DEF TypeOK, Call, CallFindsNoAddress, PublishUpdate
<1>2. UNCHANGED <<published, checkQueue, checkerLink, errors, series, results,
                  redelivered>>
  BY DEF Call, CallFindsNoAddress, PublishUpdate
<1>3. \/ checking' = checking \ {c}
      \/ \E d : /\ d.msg = c.msg /\ d.on = c.on
                /\ d.pc \in {"publish", "series"}
                /\ checking' = (checking \ {c}) \cup {d}
  <2>1. CASE Call(c)
    <3>1. PICK a \in Answers :
            checking' = (checking \ {c}) \cup
              {[msg |-> c.msg, on |-> c.on, pc |-> "publish",
                update |-> [key |-> c.msg.key, check |-> c.msg.id,
                            checkedAt |-> clock + 1, answer |-> a]]}
      BY <2>1 DEF Call
    <3> DEFINE e(x) == [msg |-> c.msg, on |-> c.on, pc |-> "publish",
                        update |-> x]
    <3>2. \A x : e(x).msg = c.msg /\ e(x).on = c.on /\ e(x).pc = "publish"
      OBVIOUS
    <3>3. QED
      BY <3>1, <3>2, Zenon
  <2>2. CASE PublishUpdate(c)
    <3>1. checking' = (checking \ {c}) \cup {[c EXCEPT !.pc = "series"]}
      BY <2>2 DEF PublishUpdate
    <3>2. /\ [c EXCEPT !.pc = "series"].msg = c.msg
          /\ [c EXCEPT !.pc = "series"].on = c.on
          /\ [c EXCEPT !.pc = "series"].pc = "series"
      BY <1>1, <2>2, NextStatement DEF PublishUpdate
    <3>3. QED
      BY <3>1, <3>2
  <2>3. QED
    BY <2>1, <2>2 DEF CallFindsNoAddress
<1>4. SeriesFirst' /\ IdsPublished' /\ LostAgain'
  BY <1>2, <1>3
     DEF StoreInv, SeriesFirst, IdsPublished, LostAgain, HeldCheck, Again,
         Entry
<1>5. InOnePlace'
  <2>1. InOnePlace
    BY DEF StoreInv
  <2>2. \A s \in series : s.check = c.msg.id => Again(s.check)
    BY <1>1, <2>1 DEF InOnePlace
  <2>3. QED
    BY <1>2, <1>3, <2>1, <2>2 DEF InOnePlace, Again, Entry
<1>6. ASSUME NEW s \in series' \ results' PROVE HalfStored(s)'
  BY <1>1, <1>2, <1>3, <1>6 DEF StoreInv, HalfStored, Again, Entry
<1>7. QED
  BY <1>4, <1>5, <1>6 DEF StoreInv

LEMMA StoreFirst ==
    ASSUME TypeOK, StoreInv, NEW c \in checking, StoreSeries(c)
    PROVE  StoreInv'
<1> USE DEF brokerVars, mongoVars, clusterVars, historyVars, linkVars
<1> DEFINE d == [c EXCEPT !.pc = "result"]
<1>1. /\ d.msg = c.msg /\ d.on = c.on /\ d.update = c.update /\ d.pc = "result"
      /\ Entry(d) = Entry(c)
      /\ Entry(c).check = c.msg.id
  BY NextStatement DEF TypeOK, StoreSeries, Entry
<1>2. /\ checking' = (checking \ {c}) \cup {d}
      /\ series' = series \cup {Entry(c)}
      /\ c.pc = "series"
      /\ UNCHANGED <<published, checkQueue, checkerLink, errors, results,
                     redelivered>>
  BY DEF StoreSeries
<1> HIDE DEF d
<1>3. \A x : Entry(x)' = Entry(x)
  BY DEF Entry
<1>4. SeriesFirst' /\ LostAgain'
  BY <1>1, <1>2, <1>3 DEF StoreInv, SeriesFirst, LostAgain, HeldCheck, Again
<1>5. IdsPublished'
  BY <1>1, <1>2 DEF StoreInv, IdsPublished
<1>6. InOnePlace'
  <2>1. InOnePlace
    BY DEF StoreInv
  <2>2. \A s \in series : s.check = c.msg.id => Again(s.check)
    BY <1>2, <2>1 DEF InOnePlace
  <2>3. QED
    BY <1>1, <1>2, <1>3, <2>1, <2>2 DEF InOnePlace, Again
<1>7. ASSUME NEW s \in series' \ results' PROVE HalfStored(s)'
  BY <1>1, <1>2, <1>3, <1>7 DEF StoreInv, HalfStored, Again
<1>8. QED
  BY <1>4, <1>5, <1>6, <1>7 DEF StoreInv

LEMMA StoreSecond ==
    ASSUME TypeOK, StoreInv, NEW c \in checking,
           StoreResult(c) \/ CheckThrows(c)
    PROVE  StoreInv'
<1> USE DEF brokerVars, mongoVars, clusterVars, historyVars, linkVars
<1>1. /\ checking' = checking \ {c}
      /\ UNCHANGED <<published, checkQueue, checkerLink, series, redelivered>>
      /\ \/ c.pc = "result" /\ results' = results \cup {Entry(c)}
         \/ results' = results
  BY DEF StoreResult, CheckThrows
<1>2. \A x : Entry(x)' = Entry(x)
  BY DEF Entry
<1>3. SeriesFirst' /\ IdsPublished' /\ LostAgain'
  BY <1>1, <1>2
     DEF StoreInv, SeriesFirst, IdsPublished, LostAgain, HeldCheck, Again
<1>4. InOnePlace'
  BY <1>1, <1>2 DEF StoreInv, InOnePlace, Again
<1>5. ASSUME NEW s \in series' \ results' PROVE HalfStored(s)'
  <2>1. HalfStored(s) /\ errors \subseteq errors'
    BY <1>1, <1>5 DEF StoreInv, StoreResult, CheckThrows, Throws
  <2>2. CASE Entry(c) # s \/ c.pc # "result"
    BY <1>1, <1>2, <2>1, <2>2 DEF HalfStored, Again
  <2>3. CASE Entry(c) = s /\ c.pc = "result"
    <3>1. CASE StoreResult(c)
      BY <1>5, <2>3, <3>1 DEF StoreResult
    <3>2. CASE CheckThrows(c)
      <4>1. s.check = c.msg.id
        BY <2>3 DEF Entry
      <4>2. s.check \in errors' \/ Again(s.check)
        BY <3>2, <4>1 DEF CheckThrows, Throws, StoreInv, LostAgain
      <4>3. QED
        BY <1>1, <4>2 DEF HalfStored, Again
    <3>3. QED
      BY <3>1, <3>2
  <2>4. QED
    BY <2>2, <2>3
<1>6. QED
  BY <1>3, <1>4, <1>5 DEF StoreInv

\* The worker ends or loses its connection: whatever is held is delivered
\* again, and whatever was lost before had been delivered again then.
LEMMA StoreRequeue ==
    ASSUME TypeOK, StoreInv, CheckerCrash \/ CheckerLosesConnection
    PROVE  StoreInv'
<1> USE DEF brokerVars, mongoVars, clusterVars, historyVars, linkVars
<1>1. /\ checking' = checking \/ checking' = {}
      /\ RequeueChecks
      /\ UNCHANGED <<published, errors, series, results>>
  BY DEF CheckerCrash, CheckerLosesConnection
<1>2. /\ \A m \in checkQueue' :
           \/ m \in checkQueue
           \/ \E c \in checking : m = c.msg /\ Again(c.msg.id)'
      /\ \A id : Again(id) => Again(id)'
      /\ \A c \in checking : HeldCheck(c) => Again(c.msg.id)'
  BY <1>1 DEF RequeueChecks, Again
<1>3. \A c \in checking : Again(c.msg.id)'
  BY <1>2 DEF StoreInv, LostAgain
<1>4. \A x : Entry(x)' = Entry(x)
  BY DEF Entry
<1>5. SeriesFirst'
  BY <1>1, <1>4 DEF StoreInv, SeriesFirst
<1>6. LostAgain'
  BY <1>1, <1>3 DEF LostAgain
<1>7. IdsPublished'
  BY <1>1, <1>2 DEF StoreInv, IdsPublished
<1>8. InOnePlace'
  <2>1. InOnePlace
    BY DEF StoreInv
  <2>2. \A m \in checkQueue' : m \in checkQueue \/ Again(m.id)'
    BY <1>2
  <2>3. QED
    BY <1>1, <1>2, <1>3, <1>4, <2>1, <2>2 DEF InOnePlace
<1>9. ASSUME NEW s \in series' \ results' PROVE HalfStored(s)'
  <2>1. HalfStored(s)
    BY <1>1, <1>9 DEF StoreInv
  <2>2. ASSUME NEW c \in checking, Entry(c) = s PROVE Again(s.check)'
    BY <1>3, <2>2 DEF Entry
  <2>3. QED
    BY <1>1, <1>2, <2>1, <2>2 DEF HalfStored
<1>10. QED
  BY <1>5, <1>6, <1>7, <1>8, <1>9 DEF StoreInv

LEMMA StoreNext == TypeOK /\ StoreInv /\ [Next]_vars => StoreInv'
<1> SUFFICES ASSUME TypeOK, StoreInv, [Next]_vars PROVE StoreInv'
  OBVIOUS
<1> USE DEF brokerVars, clusterVars, historyVars, linkVars
<1>1. ASSUME \/ \E k \in Keys : \/ CreateResource(k) \/ EditResource(k)
                                \/ DeleteResource(k) \/ StartPhaseWrite(k)
             \/ CoreCrash \/ CoreLosesConnection
             \/ \E w \in phaseWrites : PhaseWrite(w) \/ PhaseWriteThrows(w)
             \/ Updater
             \/ UNCHANGED vars
      PROVE  UNCHANGED <<published, checkQueue, checking, checkerLink, errors,
                         mongoVars, redelivered>>
  BY <1>1 DEF CreateResource, EditResource, DeleteResource, StartPhaseWrite,
     CoreCrash, CoreEnds, CoreLosesConnection, PhaseWrite, PhaseWriteThrows,
     Updater, TakeUpdate, ReplaceStatus, ReplaceThrows, vars, mongoVars
<1>2. QED
  BY <1>1, StoreSame, StorePublish, StoreTake, StoreHandle, StoreFirst,
     StoreSecond, StoreRequeue
     DEF Next, Cluster, SyncJob, Checker, Handle

\* No result is without its time series entry; a check the broker delivered
\* once is stored at most once, and an entry of it without result belongs to a
\* handler that is about to write it or that threw.
THEOREM StoresConsistent == Spec => []MongoConsistent
<1>1. Init => StoreInv
  BY DEF Init, StoreInv, SeriesFirst, IdsPublished, InOnePlace, LostAgain
<1>2. StoreInv => MongoConsistent
  BY DEF StoreInv, SeriesFirst, InOnePlace, HalfStored, Again, MongoConsistent
<1>3. QED
  BY <1>1, <1>2, TypeInit, TypeNext, StoreNext, PTL DEF Spec
=============================================================================
