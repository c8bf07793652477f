--------------------------- MODULE ResourceWatcher ---------------------------
(***************************************************************************)
(* Libs/Sentinel.K8s, Watchers/ResourceWatcher.cs with its caller          *)
(* WatcherBackgroundService: a watch of a kind of resource that is kept    *)
(* open over timeouts and errors of the connection.                        *)
(*                                                                         *)
(* Threads run WatchResource: the caller of Start, the reconnect timer,    *)
(* and OnClose on the thread of the connection that ends.  They share      *)
(* _watcher and _cancellation without a lock; WatchAsync returns at once,  *)
(* so its await and the Wait in OnClose wait for nothing.                  *)
(*                                                                         *)
(* A connection is a Watcher<T> of the Kubernetes client (6.0.1): a loop   *)
(* on a thread of its own, which reports events and errors and calls       *)
(* OnClose when it ends, however it ends.  The client keeps a cancelled    *)
(* task from the error handler, so that OnException's branch for it (lines *)
(* 179-186) is not reached.  Metrics, the growth of the delay and          *)
(* Dispose, which nothing but a test calls, are left out.                  *)
(***************************************************************************)
EXTENDS Naturals

CONSTANTS
    Conn,           \* connections; an ended one can be opened again
    Caller, Timer,  \* the other threads
    Starts,         \* how often the caller calls Start
    nil

ASSUME ThreadAssumption ==
    /\ Caller # Timer
    /\ Conn \cap {Caller, Timer, nil} = {}
    /\ Starts \in Nat \ {0}

Threads == Conn \cup {Caller, Timer}

VARIABLES
    pc,         \* what each thread does next
    starts,     \* calls of Start so far
    watcher,    \* _watcher
    token,      \* state of _cancellation
    current,    \* the connections opened with it
    told,       \* connections that were told to end: cancelled or disposed
    opened,     \* what WatchAsync returned to each thread
    armed,      \* the reconnect handler's timer is running
    subscribed, \* WatchEvents has a subscriber
    seen,       \* ... which has been given the existing resources
    clean       \* history: Stop was called while none was about to open

vars == <<pc, starts, watcher, token, current, told, opened, armed,
          subscribed, seen, clean>>

events == <<subscribed, seen>>

\* Where the thread of a connection can be: in its loop, in OnClose (reached
\* from "closed" when the server closed the connection, else from "ended"),
\* in WatchResource.
Looping  == {"watching", "listed"}
Opening  == {"check", "open"}
Unended  == {"opening", "closed", "ended"} \cup Looping

TypeOK ==
    /\ pc \in [Threads -> Unended \cup Opening \cup
                 {"none", "restart", "assign", "start", "subscribe",
                  "running", "stopped", "idle"}]
    /\ \A c \in Conn : pc[c] \in Unended \cup Opening \cup
                                   {"none", "restart", "assign"}
    /\ pc[Timer] \in Opening \cup {"idle", "assign"}
    /\ pc[Caller] \in Opening \cup {"start", "assign", "subscribe", "running",
                                    "stopped"}
    /\ starts \in 0 .. Starts
    /\ watcher \in Conn \cup {nil}
    /\ token \in {"null", "live", "cancelled", "disposed"}
    /\ current \in SUBSET Conn
    /\ told \in [Conn -> BOOLEAN]
    /\ opened \in [Threads -> Conn \cup {nil}]
    /\ {armed, subscribed, seen, clean} \subseteq BOOLEAN

Init ==
    /\ pc = [t \in Threads |-> CASE t = Caller -> "start"
                                 [] t = Timer  -> "idle"
                                 [] OTHER      -> "none"]
    /\ starts = 0
    /\ watcher = nil
    /\ token = "null"
    /\ current = {}
    /\ told = [c \in Conn |-> FALSE]
    /\ opened = [t \in Threads |-> nil]
    /\ armed = FALSE
    /\ subscribed = FALSE /\ seen = FALSE
    /\ clean = FALSE

Goto(t, label) == pc' = [pc EXCEPT ![t] = label]

\* _cancellation.Cancel() and _watcher.Dispose().
TellCurrent == told' = [c \in Conn |-> told[c] \/ c \in current \/ c = watcher]

TellWatcher == told' = [c \in Conn |-> told[c] \/ c = watcher]

-----------------------------------------------------------------------------
(***************************************************************************)
(* WatchResource, on any thread.                                           *)
(***************************************************************************)
\* Mutant: Start is called once too often.
MutResumed(t) ==
    CASE t = Timer  -> "idle"
      [] t = Caller -> IF starts <= Starts THEN "start" ELSE "subscribe"
      [] OTHER      -> "none"

\* Where a thread goes on after WatchResource.
Resumed(t) ==
    CASE t = Timer  -> "idle"
      [] t = Caller -> IF starts < Starts THEN "start" ELSE "subscribe"
      [] OTHER      -> "none"

Watching(c) == c # nil /\ pc[c] \in Looping

\* Mutant: the loop of the watcher is not looked at.
MutCheckWatcher(t) ==
    /\ pc[t] = "check"
    /\ IF watcher # nil
       THEN Goto(t, Resumed(t)) /\ UNCHANGED <<told, token, current>>
       ELSE Goto(t, "open") /\ TellWatcher /\ token' = "live" /\ current' = {}
    /\ UNCHANGED <<starts, watcher, opened, armed, events, clean>>

\* Already running, or a new cancellation source.
CheckWatcher(t) ==
    /\ pc[t] = "check"
    /\ IF Watching(watcher)
       THEN Goto(t, Resumed(t)) /\ UNCHANGED <<told, token, current>>
       ELSE Goto(t, "open") /\ TellWatcher /\ token' = "live" /\ current' = {}
    /\ UNCHANGED <<starts, watcher, opened, armed, events, clean>>

\* WatchAsync: the connection runs before the caller has it.
OpenConnection(t) ==
    /\ pc[t] = "open"
    /\ token # "disposed"
    /\ \E c \in Conn \ (current \cup {watcher}) :
         /\ pc[c] = "none"
         /\ pc' = [pc EXCEPT ![t] = "assign", ![c] = "opening"]
         /\ opened' = [opened EXCEPT ![t] = c]
         /\ told' = [told EXCEPT ![c] = token = "cancelled"]
         /\ current' = current \cup {c}
    /\ UNCHANGED <<starts, watcher, token, armed, events, clean>>

\* A disposed source has no token to give: WatchResource throws.
OpenThrows(t) ==
    /\ pc[t] = "open"
    /\ token = "disposed"
    /\ Goto(t, Resumed(t))
    /\ UNCHANGED <<starts, watcher, token, current, told, opened, armed,
                   events, clean>>

AssignWatcher(t) ==
    /\ pc[t] = "assign"
    /\ watcher' = opened[t]
    /\ opened' = [opened EXCEPT ![t] = nil]
    /\ Goto(t, Resumed(t))
    /\ UNCHANGED <<starts, token, current, told, armed, events, clean>>

-----------------------------------------------------------------------------
(***************************************************************************)
(* The caller.                                                             *)
(***************************************************************************)
Start ==
    /\ pc[Caller] = "start"
    /\ Goto(Caller, "check")
    /\ starts' = starts + 1
    /\ UNCHANGED <<watcher, token, current, told, opened, armed, events,
                   clean>>

\* Execute subscribes after Start.
Subscribe ==
    /\ pc[Caller] = "subscribe"
    /\ Goto(Caller, "running")
    /\ subscribed' = TRUE
    /\ UNCHANGED <<starts, watcher, token, current, told, opened, armed, seen,
                   clean>>

\* Mutant: the reconnect subscription is not disposed.
MutStop ==
    /\ pc[Caller] = "running"
    /\ Goto(Caller, "stopped")
    /\ IF token = "live" THEN TellCurrent ELSE TellWatcher
    /\ token' = IF token = "null" THEN "null" ELSE "disposed"
    /\ clean' = \A t \in Threads : pc[t] \notin Opening
    /\ UNCHANGED <<starts, watcher, current, opened, armed, events>>

\* Stop: a WatchResource that has begun goes on.
Stop ==
    /\ pc[Caller] = "running"
    /\ Goto(Caller, "stopped")
    /\ armed' = FALSE
    /\ IF token = "live" THEN TellCurrent ELSE TellWatcher
    /\ token' = IF token = "null" THEN "null" ELSE "disposed"
    /\ clean' = \A t \in Threads : pc[t] \notin Opening
    /\ UNCHANGED <<starts, watcher, current, opened, events>>

stopped == pc[Caller] = "stopped"

\* The delay is two seconds at least.  Whoever was told to end has ended by
\* then, and the callback for an earlier error has returned.
TimerFires ==
    /\ armed
    /\ pc[Timer] = "idle"
    /\ \A c \in Conn : told[c] => pc[c] \notin Unended
    /\ armed' = FALSE
    /\ Goto(Timer, "check")
    /\ UNCHANGED <<starts, watcher, token, current, told, opened, events,
                   clean>>

-----------------------------------------------------------------------------
(***************************************************************************)
(* A connection.                                                           *)
(***************************************************************************)
StartLoop(c) ==
    /\ pc[c] = "opening"
    /\ Goto(c, "watching")
    /\ UNCHANGED <<starts, watcher, token, current, told, opened, armed,
                   events, clean>>

\* OnWatcherEvent for the resources that exist: a watch begins with them.
\* They go to who has subscribed by then.
OnWatcherEvent(c) ==
    /\ pc[c] = "watching"
    /\ Goto(c, "listed")
    /\ seen' = (seen \/ subscribed)
    /\ UNCHANGED <<starts, watcher, token, current, told, opened, armed,
                   subscribed, clean>>

\* Also when the timeout has passed that it was given.
ServerCloses(c) ==
    /\ pc[c] \in Looping
    /\ Goto(c, "closed")
    /\ UNCHANGED <<starts, watcher, token, current, told, opened, armed,
                   events, clean>>

EndsTold(c) ==
    /\ pc[c] \in Looping
    /\ told[c]
    /\ Goto(c, "ended")
    /\ UNCHANGED <<starts, watcher, token, current, told, opened, armed,
                   events, clean>>

\* Mutant: the connection is disposed but its token is not cancelled.
MutOnException(c) ==
    /\ pc[c] \in Looping
    /\ token # "disposed"
    /\ \E label \in {pc[c], "ended"} : Goto(c, label)
    /\ TellWatcher
    /\ watcher' = nil
    /\ armed' = ~stopped
    /\ UNCHANGED <<starts, token, current, opened, events, clean>>

\* An error of one event, or one that ends the loop.
OnException(c) ==
    /\ pc[c] \in Looping
    /\ token # "disposed"
    /\ \E label \in {pc[c], "ended"} : Goto(c, label)
    /\ token' = "cancelled"
    /\ TellCurrent
    /\ watcher' = nil
    /\ armed' = ~stopped    \* OnNext throws after Stop
    /\ UNCHANGED <<starts, current, opened, events, clean>>

\* Cancel throws after Stop, which ends the loop.
OnExceptionThrows(c) ==
    /\ pc[c] \in Looping
    /\ token = "disposed"
    /\ Goto(c, "ended")
    /\ UNCHANGED <<starts, watcher, token, current, told, opened, armed,
                   events, clean>>

\* Mutant: a connection is opened again whoever ended it.
MutOnClose(c) ==
    /\ pc[c] \in {"closed", "ended"}
    /\ Goto(c, IF token # "disposed" THEN "restart" ELSE "none")
    /\ UNCHANGED <<starts, watcher, token, current, told, opened, armed,
                   events, clean>>

OnClose(c) ==
    /\ pc[c] \in {"closed", "ended"}
    /\ Goto(c, IF token = "live" THEN "restart" ELSE "none")
    /\ UNCHANGED <<starts, watcher, token, current, told, opened, armed,
                   events, clean>>

\* Cancel throws after Stop, which ends the thread.
RestartWatcher(c) ==
    /\ pc[c] = "restart"
    /\ IF token = "disposed"
       THEN Goto(c, "none") /\ UNCHANGED <<token, told, watcher>>
       ELSE /\ Goto(c, "check")
            /\ token' = "cancelled"
            /\ TellCurrent
            /\ watcher' = nil
    /\ UNCHANGED <<starts, current, opened, armed, events, clean>>

-----------------------------------------------------------------------------
WatchResource(t) ==
    \/ CheckWatcher(t)
    \/ OpenConnection(t)
    \/ OpenThrows(t)
    \/ AssignWatcher(t)

Next ==
    \/ \E t \in Threads : WatchResource(t)
    \/ Start
    \/ Subscribe
    \/ Stop
    \/ TimerFires
    \/ \E c \in Conn :
         \/ StartLoop(c)
         \/ OnWatcherEvent(c)
         \/ ServerCloses(c)
         \/ EndsTold(c)
         \/ OnException(c)
         \/ OnExceptionThrows(c)
         \/ OnClose(c)
         \/ RestartWatcher(c)

Spec == Init /\ [][Next]_vars

\* Threads run and the timer fires.  A connection that was told to end ends,
\* and the server closes one after its timeout.  The server does not fail
\* every single connection before it has sent the existing resources.
Fairness ==
    /\ \A t \in Threads : WF_vars(WatchResource(t))
    /\ WF_vars(Start) /\ WF_vars(Subscribe) /\ WF_vars(TimerFires)
    /\ \A c \in Conn : /\ WF_vars(StartLoop(c))
                       /\ WF_vars(EndsTold(c))
                       /\ WF_vars(pc[c] = "listed" /\ ServerCloses(c))
                       /\ WF_vars(OnClose(c) \/ RestartWatcher(c))
    /\ SF_vars(\E c \in Conn : OnWatcherEvent(c))

FairSpec == Spec /\ Fairness

-----------------------------------------------------------------------------
(***************************************************************************)
(* Properties.                                                             *)
(***************************************************************************)
\* A connection that nobody has told to end.
Live(c) == pc[c] \in {"opening"} \cup Looping /\ ~told[c]

\* Start, the timer, OnClose and OnException together never leave two
\* connections open: every event would be handled twice.
OneConnection == \A c, d \in Conn : Live(c) /\ Live(d) => c = d

\* Until Stop there is always a connection, or someone who will open one: the
\* timer, a WatchResource that has begun, an OnClose that finds the token
\* live.
NotLost ==
    pc[Caller] \notin {"start", "stopped"} =>
        \/ armed
        \/ \E t \in Threads : pc[t] \in Opening \cup {"restart"}
        \/ \E c \in Conn : Live(c) \/ (pc[c] = "closed" /\ token = "live")

\* Stop ends the watch for good unless a WatchResource had begun: no reconnect
\* by the timer, by OnClose or by OnException comes after it.
StopsForGood ==
    clean => \A t \in Threads :
                /\ pc[t] \notin Opening
                /\ t \in Conn => ~Live(t)

\* "The server closed the connection. Trying to reconnect.", which OnClose
\* concludes from the token of the newest connection, is so.
OnlyServerCloses ==
    [][\A c \in Conn : pc[c] = "ended" => pc'[c] # "restart"]_vars

\* After every error and every close the watch is open again.
Reconnects ==
    pc[Caller] # "start" ~> stopped \/ \E c \in Conn : pc[c] \in Looping /\ Live(c)

\* The existing resources reach the subscriber though he comes after Start:
\* those he missed come again with the next connection.
ReachesSubscriber == subscribed ~> seen \/ stopped
=============================================================================
