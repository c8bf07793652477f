------------------------ MODULE ResourceWatcherProofs ------------------------
(***************************************************************************)
(* Theorems about ResourceWatcher for any set of connections: its types    *)
(* however often Start is called, the others when it is called once, as    *)
(* WatcherBackgroundService does.                                          *)
(***************************************************************************)
EXTENDS ResourceWatcher, TLAPS

\* Whoever is responsible for the watch: the connection that was not told to
\* end, or the thread that is about to open one.
Holds(t) ==
    \/ t \in Conn /\ pc[t] \in {"opening", "closed"} \cup Looping /\ ~told[t]
    \/ pc[t] \in Opening \cup {"start", "restart"}

\* There is never more than one, and none while the timer runs or someone
\* who was told to end has not ended.
OneHolder  == \A s, t \in Threads : Holds(s) /\ Holds(t) => s = t
ArmedAlone == armed => \A t \in Threads : ~Holds(t)
ToldAlone  == \A c \in Conn : told[c] /\ pc[c] \in Unended
                                => \A t \in Threads : ~Holds(t)

\* Until Stop the timer takes over when there is none.
Held == stopped \/ armed \/ \E t \in Threads : Holds(t)

\* The token is that of the connection not told to end.
TokenLive ==
    /\ token = "live" => \E t \in Threads : Holds(t)
    /\ \A c \in Conn : pc[c] \in {"opening", "closed"} \cup Looping /\ ~told[c]
                         => token = "live" /\ c \in current
    /\ \A t \in Threads : pc[t] = "open" =>
         token = "live" \/ (stopped /\ token = "disposed")
    /\ token = "null" => pc[Caller] \in {"start", "check"}
    /\ token = "disposed" => stopped

EndedTold == \A c \in Conn : pc[c] = "ended" => told[c]

Stopped ==
    /\ stopped => ~armed
    /\ clean => /\ stopped /\ token = "disposed"
                /\ \A t \in Threads : Holds(t) => pc[t] = "restart"

StartedOnce == IF pc[Caller] = "start" THEN starts = 0 ELSE starts = 1

Inv ==
    /\ TypeOK
    /\ OneHolder /\ ArmedAlone /\ ToldAlone /\ Held
    /\ TokenLive /\ EndedTold /\ Stopped /\ StartedOnce

USE DEF Threads

\* What a step of one thread does to the places of all.
LEMMA GotoFacts ==
    ASSUME TypeOK, NEW t \in Threads, NEW label, Goto(t, label)
    PROVE  /\ pc'[t] = label
           /\ \A s \in Threads : s # t => pc'[s] = pc[s]
           /\ DOMAIN pc' = Threads
BY DEF TypeOK, Goto

LEMMA Places ==
    ASSUME TypeOK, NEW label, NEW t \in Threads, Goto(t, label),
           \/ t \in Conn /\ label \in Unended \cup Opening \cup
                                      {"none", "restart", "assign"}
           \/ t = Timer /\ label \in Opening \cup {"idle", "assign"}
           \/ t = Caller /\ label \in Opening \cup
                    {"start", "assign", "subscribe", "running", "stopped"}
    PROVE  /\ pc' \in [Threads -> Unended \cup Opening \cup
                         {"none", "restart", "assign", "start", "subscribe",
                          "running", "stopped", "idle"}]
           /\ \A c \in Conn : pc'[c] \in Unended \cup Opening \cup
                                {"none", "restart", "assign"}
           /\ pc'[Timer] \in Opening \cup {"idle", "assign"}
           /\ pc'[Caller] \in Opening \cup {"start", "assign", "subscribe",
                                            "running", "stopped"}
BY ThreadAssumption DEF TypeOK, Goto

\* The caller comes back to Start only for a call that is left.
CallsLeft == pc[Caller] = "start" => starts < Starts

LEMMA TypeInit == Init => TypeOK /\ CallsLeft
<1> SUFFICES ASSUME Init PROVE TypeOK /\ CallsLeft
  OBVIOUS
<1>1. /\ pc[Caller] = "start" /\ pc[Timer] = "idle"
      /\ \A c \in Conn : pc[c] = "none"
      /\ pc \in [Threads -> {"start", "idle", "none"}]
  BY ThreadAssumption DEF Init
<1>2. pc \in [Threads -> Unended \cup Opening \cup
                {"none", "restart", "assign", "start", "subscribe",
                 "running", "stopped", "idle"}]
  BY <1>1
<1>3. starts \in 0 .. Starts /\ starts < Starts
  BY ThreadAssumption DEF Init
<1>4. TypeOK
  BY <1>1, <1>2, <1>3 DEF Init, TypeOK
<1>5. QED
  BY <1>3, <1>4 DEF CallsLeft

\* A step that moves no caller to Start and leaves the calls alone.
LEMMA CallsKept ==
    ASSUME TypeOK, CallsLeft, NEW t \in Threads, NEW label, Goto(t, label),
           t = Caller => label # "start", starts' = starts
    PROVE  CallsLeft'
BY GotoFacts, ThreadAssumption DEF CallsLeft

LEMMA TypeWatchResource ==
    ASSUME TypeOK, CallsLeft, NEW t \in Threads, WatchResource(t)
    PROVE  TypeOK' /\ CallsLeft'
<1>1. /\ t = Timer => Resumed(t) = "idle"
      /\ t = Caller => \/ Resumed(t) = "start" /\ starts < Starts
                       \/ Resumed(t) = "subscribe"
      /\ t \in Conn => Resumed(t) = "none"
  BY ThreadAssumption DEF Resumed
<1>2. ASSUME Goto(t, Resumed(t)), starts' = starts PROVE CallsLeft'
  BY <1>1, <1>2, GotoFacts, ThreadAssumption DEF CallsLeft
<1>3. CASE CheckWatcher(t)
  <2>1. told' \in [Conn -> BOOLEAN]
    BY <1>3 DEF CheckWatcher, TellWatcher, TypeOK
  <2>2. TypeOK'
    BY <1>1, <1>3, <2>1, Places, ThreadAssumption
       DEF CheckWatcher, events, TypeOK, Opening
  <2>3. CallsLeft'
    BY <1>2, <1>3, CallsKept DEF CheckWatcher
  <2>4. QED
    BY <2>2, <2>3
<1>4. CASE OpenConnection(t)
  <2>1. PICK c \in Conn :
          /\ pc[c] = "none" /\ pc[t] = "open"
          /\ pc' = [pc EXCEPT ![t] = "assign", ![c] = "opening"]
          /\ opened' = [opened EXCEPT ![t] = c]
          /\ told' = [told EXCEPT ![c] = token = "cancelled"]
          /\ current' = current \cup {c}
          /\ UNCHANGED <<starts, watcher, token, armed, subscribed, seen,
                         clean>>
    BY <1>4 DEF OpenConnection, events
  <2>2. c # t /\ c # Caller /\ c # Timer
    BY <2>1, ThreadAssumption
  <2>3. told' \in [Conn -> BOOLEAN]
    BY <2>1 DEF TypeOK
  <2>4. TypeOK'
    BY <2>1, <2>2, <2>3, ThreadAssumption DEF TypeOK, Opening, Unended
  <2>5. CallsLeft'
    BY <2>1, <2>2, ThreadAssumption DEF CallsLeft, TypeOK
  <2>6. QED
    BY <2>4, <2>5
<1>5. CASE OpenThrows(t)
  <2>1. TypeOK'
    BY <1>1, <1>5, Places DEF OpenThrows, events, TypeOK
  <2>2. QED
    BY <1>2, <1>5, <2>1 DEF OpenThrows
<1>6. CASE AssignWatcher(t)
  <2>1. watcher' \in Conn \cup {nil} /\ opened' \in [Threads -> Conn \cup {nil}]
    BY <1>6 DEF AssignWatcher, TypeOK
  <2>2. TypeOK'
    BY <1>1, <1>6, <2>1, Places DEF AssignWatcher, events, TypeOK
  <2>3. QED
    BY <1>2, <1>6, <2>2 DEF AssignWatcher
<1>7. QED
  BY <1>3, <1>4, <1>5, <1>6 DEF WatchResource

LEMMA TypeCaller ==
    ASSUME TypeOK, CallsLeft, Start \/ Subscribe \/ Stop \/ TimerFires
    PROVE  TypeOK' /\ CallsLeft'
<1>1. CASE Start
  <2>1. starts' \in 0 .. Starts
    BY <1>1, ThreadAssumption DEF Start, CallsLeft, TypeOK
  <2>2. TypeOK'
    BY <1>1, <2>1, Places DEF Start, events, TypeOK, Opening
  <2>3. QED
    BY <1>1, <2>2, GotoFacts DEF Start, CallsLeft
<1>2. CASE Subscribe
  <2>1. TypeOK'
    BY <1>2, Places DEF Subscribe, TypeOK
  <2>2. QED
    BY <1>2, <2>1, CallsKept DEF Subscribe
<1>3. CASE Stop
  <2>1. told' \in [Conn -> BOOLEAN]
    BY <1>3 DEF Stop, TellCurrent, TellWatcher, TypeOK
  <2>2. clean' \in BOOLEAN
    BY <1>3 DEF Stop
  <2>3. TypeOK'
    BY <1>3, <2>1, <2>2, Places DEF Stop, events, TypeOK
  <2>4. QED
    BY <1>3, <2>3, CallsKept DEF Stop
<1>4. CASE TimerFires
  <2>1. TypeOK'
    BY <1>4, Places DEF TimerFires, events, TypeOK, Opening
  <2>2. QED
    BY <1>4, <2>1, CallsKept, ThreadAssumption DEF TimerFires
<1>5. QED
  BY <1>1, <1>2, <1>3, <1>4

LEMMA TypeConnection ==
    ASSUME TypeOK, CallsLeft, NEW c \in Conn,
           \/ StartLoop(c) \/ OnWatcherEvent(c) \/ ServerCloses(c)
           \/ EndsTold(c) \/ OnException(c) \/ OnExceptionThrows(c)
           \/ OnClose(c) \/ RestartWatcher(c)
    PROVE  TypeOK' /\ CallsLeft'
<1>1. PICK label : Goto(c, label) /\ label \in Unended \cup Opening \cup
                                                {"none", "restart", "assign"}
  BY DEF StartLoop, OnWatcherEvent, ServerCloses, EndsTold, OnException,
     OnExceptionThrows, OnClose, RestartWatcher, TypeOK, Unended, Looping,
     Opening
<1>2. starts' = starts /\ current' = current /\ opened' = opened
      /\ clean' = clean /\ subscribed' = subscribed
  BY DEF StartLoop, OnWatcherEvent, ServerCloses, EndsTold, OnException,
     OnExceptionThrows, OnClose, RestartWatcher, events
<1>3. /\ told' \in [Conn -> BOOLEAN]
      /\ watcher' \in Conn \cup {nil}
      /\ token' \in {"null", "live", "cancelled", "disposed"}
      /\ armed' \in BOOLEAN /\ seen' \in BOOLEAN
  BY DEF StartLoop, OnWatcherEvent, ServerCloses, EndsTold, OnException,
     OnExceptionThrows, OnClose, RestartWatcher, events, TellCurrent, TypeOK
<1>4. TypeOK'
  BY <1>1, <1>2, <1>3, Places DEF TypeOK
<1>5. CallsLeft'
  BY <1>1, <1>2, CallsKept, ThreadAssumption
<1>6. QED
  BY <1>4, <1>5

LEMMA TypeStep == TypeOK /\ CallsLeft /\ [Next]_vars => TypeOK' /\ CallsLeft'
<1>1. ASSUME TypeOK, CallsLeft, UNCHANGED vars PROVE TypeOK' /\ CallsLeft'
  BY <1>1 DEF vars, events, TypeOK, CallsLeft
<1>2. QED
  BY <1>1, TypeWatchResource, TypeCaller, TypeConnection DEF Next

LEMMA InitInv == Starts = 1 /\ Init => Inv
<1> SUFFICES ASSUME Starts = 1, Init PROVE Inv
  OBVIOUS
<1>1. /\ pc[Caller] = "start" /\ pc[Timer] = "idle"
      /\ \A c \in Conn : pc[c] = "none"
      /\ DOMAIN pc = Threads
  BY ThreadAssumption DEF Init
<1>2. \A t \in Threads : t = Caller \/ t = Timer \/ t \in Conn
  OBVIOUS
<1>3. TypeOK
  BY TypeInit
<1>4. \A t \in Threads : Holds(t) <=> t = Caller
  BY <1>1, <1>2, ThreadAssumption DEF Holds, Opening, Looping
<1>5. OneHolder /\ ArmedAlone /\ Held
  BY <1>4 DEF Init, OneHolder, ArmedAlone, Held
<1>6. ToldAlone /\ EndedTold /\ StartedOnce
  BY <1>1 DEF Init, ToldAlone, EndedTold, StartedOnce
<1>7. TokenLive /\ Stopped
  BY <1>1, <1>2 DEF Init, TokenLive, Stopped, stopped, Looping
<1>8. QED
  BY <1>3, <1>5, <1>6, <1>7 DEF Inv

LEMMA TypeKept ==
    ASSUME Starts = 1, Inv, Next
    PROVE  TypeOK'
<1>1. CallsLeft
  BY DEF CallsLeft, Inv, StartedOnce
<1>2. QED
  BY <1>1, TypeStep DEF Inv

\* While a thread holds the watch every connection has ended, or is the
\* holder.
LEMMA OthersEnded ==
    ASSUME Inv, NEW t \in Threads, Holds(t), NEW c \in Conn, c # t
    PROVE  pc[c] \notin Unended
<1>1. ~told[c] /\ pc[c] \in Unended => Holds(c)
  BY DEF Inv, EndedTold, Holds, Unended, Looping
<1>2. QED
  BY <1>1 DEF Inv, OneHolder, ToldAlone

LEMMA StepCheck ==
    ASSUME Starts = 1, Inv, NEW t \in Threads, CheckWatcher(t)
    PROVE  Inv'
<1>1. Holds(t) /\ pc[t] = "check"
  BY DEF CheckWatcher, Holds, Opening
<1>2. ~Watching(watcher)
  <2>1. watcher = nil \/ watcher \in Conn
    BY DEF Inv, TypeOK
  <2>2. watcher = t => ~Watching(watcher)
    BY <1>1 DEF Watching, Looping
  <2>3. QED
    BY <1>1, <2>1, <2>2, OthersEnded DEF Watching, Unended
<1>3. /\ Goto(t, "open") /\ TellWatcher /\ token' = "live" /\ current' = {}
      /\ UNCHANGED <<starts, watcher, opened, armed, subscribed, seen, clean>>
  BY <1>2 DEF CheckWatcher, events
<1>4. /\ pc'[t] = "open"
      /\ \A s \in Threads : s # t => pc'[s] = pc[s]
  BY <1>3, GotoFacts DEF Inv
<1>5. /\ told' \in [Conn -> BOOLEAN]
      /\ \A c \in Conn : c # watcher => told'[c] = told[c]
      /\ \A c \in Conn : told[c] => told'[c]
  BY <1>3 DEF TellWatcher, Inv, TypeOK
<1>6. TypeOK'
  BY TypeKept DEF Next, WatchResource
<1>7. \A c \in Conn : c # t => pc[c] \notin Unended
  BY <1>1, OthersEnded
<1>8. \A s \in Threads : Holds(s)' <=> s = t
  BY <1>1, <1>4, <1>5, <1>7 DEF Holds, Inv, OneHolder, Opening, Unended
<1>9. OneHolder' /\ ArmedAlone' /\ Held'
  BY <1>1, <1>3, <1>8 DEF OneHolder, ArmedAlone, Held, Inv
<1>10. ToldAlone' /\ EndedTold'
  BY <1>4, <1>7 DEF ToldAlone, EndedTold, Unended, Looping
<1>11. TokenLive'
  <2>1. \A c \in Conn : pc'[c] \notin {"opening", "closed"} \cup Looping
    BY <1>4, <1>7 DEF Unended, Looping
  <2>2. QED
    BY <1>3, <1>8, <2>1 DEF TokenLive
<1>12. Stopped' /\ StartedOnce'
  <2>1. ~clean
    BY <1>1 DEF Inv, Stopped
  <2>2. stopped' = stopped /\ (pc'[Caller] = "start" <=> pc[Caller] = "start")
    BY <1>1, <1>4 DEF stopped
  <2>3. QED
    BY <1>3, <2>1, <2>2 DEF Inv, Stopped, StartedOnce
<1>13. QED
  BY <1>6, <1>9, <1>10, <1>11, <1>12 DEF Inv

LEMMA StepOpen ==
    ASSUME Starts = 1, Inv, NEW t \in Threads, OpenConnection(t)
    PROVE  Inv'
<1>1. PICK c \in Conn :
        /\ pc[t] = "open" /\ token # "disposed" /\ pc[c] = "none"
        /\ pc' = [pc EXCEPT ![t] = "assign", ![c] = "opening"]
        /\ opened' = [opened EXCEPT ![t] = c]
        /\ told' = [told EXCEPT ![c] = token = "cancelled"]
        /\ current' = current \cup {c}
        /\ UNCHANGED <<starts, watcher, token, armed, subscribed, seen, clean>>
  BY DEF OpenConnection, events
<1>2. Holds(t) /\ token = "live"
  BY <1>1 DEF Inv, TokenLive, Holds, Opening
<1>3. c # t /\ c # Caller /\ c # Timer
  BY <1>1, ThreadAssumption
<1>4. /\ pc'[t] = "assign" /\ pc'[c] = "opening"
      /\ \A s \in Threads : s # t /\ s # c => pc'[s] = pc[s]
      /\ told' \in [Conn -> BOOLEAN] /\ told'[c] = FALSE
      /\ \A d \in Conn : d # c => told'[d] = told[d]
  BY <1>1, <1>2, <1>3 DEF Inv, TypeOK
<1>5. TypeOK'
  BY TypeKept DEF Next, WatchResource
<1>6. \A d \in Conn : d # t /\ d # c => pc'[d] \notin Unended
  BY <1>2, <1>4, OthersEnded
<1>7. \A s \in Threads : Holds(s)' <=> s = c
  BY <1>2, <1>4, <1>6 DEF Holds, Inv, OneHolder, Opening, Unended, Looping
<1>8. OneHolder' /\ ArmedAlone' /\ Held'
  BY <1>1, <1>2, <1>7 DEF OneHolder, ArmedAlone, Held, Inv
<1>9. ToldAlone' /\ EndedTold'
  BY <1>3, <1>4, <1>6 DEF ToldAlone, EndedTold, Unended, Looping
<1>10. TokenLive'
  BY <1>1, <1>2, <1>4, <1>6, <1>7, <1>3
     DEF TokenLive, Unended, Looping, Holds, Opening
<1>11. Stopped' /\ StartedOnce'
  <2>1. ~clean
    BY <1>1, <1>2 DEF Inv, Stopped
  <2>2. stopped' = stopped /\ (pc'[Caller] = "start" <=> pc[Caller] = "start")
    BY <1>1, <1>3, <1>4 DEF stopped
  <2>3. QED
    BY <1>1, <2>1, <2>2 DEF Inv, Stopped, StartedOnce
<1>12. QED
  BY <1>5, <1>8, <1>9, <1>10, <1>11 DEF Inv

\* The other steps of a thread leave "told" to the holder.
LEMMA StepThrows ==
    ASSUME Starts = 1, Inv, NEW t \in Threads, OpenThrows(t)
    PROVE  Inv'
<1>1. /\ pc[t] = "open" /\ token = "disposed" /\ Goto(t, Resumed(t))
      /\ UNCHANGED <<starts, watcher, token, current, told, opened, armed,
                     subscribed, seen, clean>>
  BY DEF OpenThrows, events
<1>2. Holds(t) /\ stopped
  BY <1>1 DEF Inv, TokenLive, Holds, Opening
<1>3. t # Caller
  BY <1>1, <1>2 DEF stopped
<1>4. Resumed(t) = IF t = Timer THEN "idle" ELSE "none"
  BY <1>3, ThreadAssumption DEF Resumed
<1>5. /\ pc'[t] = Resumed(t)
      /\ \A s \in Threads : s # t => pc'[s] = pc[s]
  BY <1>1, GotoFacts DEF Inv
<1>6. TypeOK'
  BY TypeKept DEF Next, WatchResource
<1>7. \A c \in Conn : pc'[c] \notin Unended
  BY <1>2, <1>4, <1>5, OthersEnded, ThreadAssumption DEF Unended, Looping
<1>8. \A s \in Threads : ~Holds(s)'
  BY <1>2, <1>4, <1>5, <1>7
     DEF Holds, Inv, OneHolder, Opening, Unended, Looping
<1>9. stopped'
  BY <1>2, <1>3, <1>5 DEF stopped
<1>10. OneHolder' /\ ArmedAlone' /\ Held' /\ ToldAlone'
  BY <1>8, <1>9 DEF OneHolder, ArmedAlone, Held, ToldAlone
<1>11. EndedTold' /\ TokenLive'
  BY <1>1, <1>2, <1>4, <1>5, <1>7, <1>9
     DEF EndedTold, TokenLive, Unended, Looping, Inv, stopped
<1>12. Stopped' /\ StartedOnce'
  BY <1>1, <1>2, <1>8, <1>9 DEF Inv, Stopped, StartedOnce, stopped
<1>13. QED
  BY <1>6, <1>10, <1>11, <1>12 DEF Inv

\* A thread that does not hold the watch goes to a place where it does not
\* either.
LEMMA StepAside ==
    ASSUME Inv, NEW t \in Threads, NEW label, Goto(t, label),
           pc[t] \notin Unended \cup Opening \cup {"start", "restart"},
           pc[t] # "stopped",
           label \notin Unended \cup Opening \cup {"start", "restart",
                                                   "stopped"},
           UNCHANGED <<starts, token, current, told, armed, clean>>,
           TypeOK'
    PROVE  Inv'
<1>1. /\ pc'[t] = label
      /\ \A s \in Threads : s # t => pc'[s] = pc[s]
  BY GotoFacts DEF Inv
<1>2. \A s \in Threads : Holds(s)' <=> Holds(s)
  BY <1>1 DEF Holds, Unended
<1>3. stopped' <=> stopped
  BY <1>1 DEF stopped
<1>4. OneHolder' /\ ArmedAlone' /\ Held'
  BY <1>2, <1>3 DEF OneHolder, ArmedAlone, Held, Inv
<1>5. ToldAlone' /\ EndedTold'
  BY <1>1, <1>2 DEF ToldAlone, EndedTold, Inv, Unended
<1>6. TokenLive'
  BY <1>1, <1>2, <1>3 DEF TokenLive, Inv, Unended, Opening
<1>7. Stopped' /\ StartedOnce'
  BY <1>1, <1>2, <1>3 DEF Stopped, StartedOnce, Inv
<1>8. QED
  BY <1>4, <1>5, <1>6, <1>7 DEF Inv

LEMMA StepAssign ==
    ASSUME Starts = 1, Inv, NEW t \in Threads, AssignWatcher(t)
    PROVE  Inv'
<1>1. /\ pc[t] = "assign" /\ Goto(t, Resumed(t))
      /\ watcher' = opened[t] /\ opened' = [opened EXCEPT ![t] = nil]
      /\ UNCHANGED <<starts, token, current, told, armed, subscribed, seen,
                     clean>>
  BY DEF AssignWatcher, events
<1>2. t = Caller => starts = 1
  BY <1>1 DEF Inv, StartedOnce
<1>3. /\ t = Timer => Resumed(t) = "idle"
      /\ t = Caller => Resumed(t) = "subscribe"
      /\ t \in Conn => Resumed(t) = "none"
  BY <1>2, ThreadAssumption DEF Resumed
<1>4. TypeOK'
  BY TypeKept DEF Next, WatchResource
<1>5. /\ pc[t] \notin Unended \cup Opening \cup {"start", "restart"}
      /\ pc[t] # "stopped"
      /\ Resumed(t) \notin Unended \cup Opening \cup {"start", "restart",
                                                      "stopped"}
  BY <1>1, <1>3, ThreadAssumption DEF Unended, Looping, Opening
<1>6. QED
  BY <1>1, <1>4, <1>5, StepAside

LEMMA StepSubscribe ==
    ASSUME Starts = 1, Inv, Subscribe
    PROVE  Inv'
<1>1. /\ pc[Caller] = "subscribe" /\ Goto(Caller, "running")
      /\ subscribed' = TRUE
      /\ UNCHANGED <<starts, watcher, token, current, told, opened, armed,
                     seen, clean>>
  BY DEF Subscribe
<1>2. TypeOK'
  BY TypeKept DEF Next, WatchResource
<1>3. QED
  BY <1>1, <1>2, StepAside DEF Unended, Looping, Opening

LEMMA StepStart ==
    ASSUME Starts = 1, Inv, Start
    PROVE  Inv'
<1>1. /\ pc[Caller] = "start" /\ Goto(Caller, "check")
      /\ starts' = starts + 1 /\ starts = 0
      /\ UNCHANGED <<watcher, token, current, told, opened, armed,
                     subscribed, seen, clean>>
  BY DEF Start, events, Inv, StartedOnce
<1>2. Holds(Caller) /\ ~stopped /\ ~clean
  BY <1>1 DEF Holds, stopped, Inv, Stopped
<1>3. /\ pc'[Caller] = "check"
      /\ \A s \in Threads : s # Caller => pc'[s] = pc[s]
  BY <1>1, GotoFacts DEF Inv
<1>4. TypeOK'
  BY TypeKept DEF Next, WatchResource
<1>5. \A s \in Threads : Holds(s)' <=> Holds(s)
  BY <1>1, <1>3, ThreadAssumption DEF Holds, Opening
<1>6. OneHolder' /\ ArmedAlone' /\ Held'
  BY <1>1, <1>2, <1>5 DEF OneHolder, ArmedAlone, Held, Inv
<1>7. ToldAlone' /\ EndedTold' /\ TokenLive'
  BY <1>1, <1>2, <1>3, <1>5, ThreadAssumption
     DEF ToldAlone, EndedTold, TokenLive, Inv
<1>8. Stopped' /\ StartedOnce'
  BY <1>1, <1>2, <1>3 DEF Stopped, StartedOnce, stopped
<1>9. QED
  BY <1>4, <1>6, <1>7, <1>8 DEF Inv

LEMMA StepStop ==
    ASSUME Starts = 1, Inv, Stop
    PROVE  Inv'
<1>1. /\ pc[Caller] = "running" /\ Goto(Caller, "stopped")
      /\ armed' = FALSE
      /\ IF token = "live" THEN TellCurrent ELSE TellWatcher
      /\ token' = IF token = "null" THEN "null" ELSE "disposed"
      /\ clean' = \A t \in Threads : pc[t] \notin Opening
      /\ UNCHANGED <<starts, watcher, current, opened, subscribed, seen>>
  BY DEF Stop, events
<1>2. /\ pc'[Caller] = "stopped"
      /\ \A s \in Threads : s # Caller => pc'[s] = pc[s]
  BY <1>1, GotoFacts DEF Inv
<1>3. /\ told' \in [Conn -> BOOLEAN]
      /\ \A c \in Conn : told[c] => told'[c]
      /\ \A c \in Conn : token = "live" /\ c \in current => told'[c]
  BY <1>1 DEF TellCurrent, TellWatcher, Inv, TypeOK
<1>4. TypeOK'
  BY TypeKept DEF Next, WatchResource
<1>5. token' = "disposed" /\ stopped'
  BY <1>1, <1>2 DEF Inv, TokenLive, stopped, TypeOK
<1>6. \A c \in Conn : pc'[c] \in {"opening", "closed"} \cup Looping => told'[c]
  BY <1>2, <1>3, ThreadAssumption DEF Inv, TokenLive
<1>7. \A s \in Threads : Holds(s)' => Holds(s) /\ pc[s] \in Opening \cup {"restart"}
                                              /\ pc'[s] = pc[s]
  BY <1>1, <1>2, <1>6 DEF Holds, Opening, Unended, Looping, Inv, TypeOK
<1>8. OneHolder' /\ ArmedAlone' /\ Held'
  BY <1>1, <1>5, <1>7 DEF OneHolder, ArmedAlone, Held, Inv
<1>9. ToldAlone'
  <2>1. ASSUME NEW c \in Conn, pc'[c] \in Unended, NEW t \in Threads, Holds(t)'
        PROVE  FALSE
    <3>1. Holds(t) /\ pc[t] \in Opening \cup {"restart"}
      BY <1>7, <2>1
    <3>2. pc[c] \in Unended
      BY <1>2, <2>1, ThreadAssumption
    <3>3. c # t
      BY <3>1, <3>2 DEF Unended, Opening, Looping
    <3>4. QED
      BY <3>1, <3>2, <3>3, OthersEnded
  <2>2. QED
    BY <2>1 DEF ToldAlone
<1>10. EndedTold' /\ TokenLive'
  BY <1>2, <1>3, <1>5, <1>6, ThreadAssumption DEF EndedTold, TokenLive, Inv
<1>11. Stopped' /\ StartedOnce'
  BY <1>1, <1>2, <1>5, <1>7 DEF Stopped, StartedOnce, Inv
<1>12. QED
  BY <1>4, <1>8, <1>9, <1>10, <1>11 DEF Inv

LEMMA StepTimer ==
    ASSUME Starts = 1, Inv, TimerFires
    PROVE  Inv'
<1>1. /\ armed /\ pc[Timer] = "idle" /\ armed' = FALSE /\ Goto(Timer, "check")
      /\ \A c \in Conn : told[c] => pc[c] \notin Unended
      /\ UNCHANGED <<starts, watcher, token, current, told, opened,
                     subscribed, seen, clean>>
  BY DEF TimerFires, events
<1>2. /\ pc'[Timer] = "check"
      /\ \A s \in Threads : s # Timer => pc'[s] = pc[s]
  BY <1>1, GotoFacts DEF Inv
<1>3. TypeOK'
  BY TypeKept DEF Next, WatchResource
<1>4. (\A t \in Threads : ~Holds(t)) /\ ~stopped /\ ~clean
  BY <1>1 DEF Inv, ArmedAlone, Stopped
<1>5. \A c \in Conn : pc'[c] \notin Unended
  BY <1>1, <1>2, <1>4, ThreadAssumption
     DEF Holds, Unended, Looping, Inv, EndedTold
<1>6. \A s \in Threads : Holds(s)' <=> s = Timer
  BY <1>1, <1>2, <1>4, <1>5 DEF Holds, Opening, Unended
<1>7. stopped' <=> stopped
  BY <1>2, ThreadAssumption DEF stopped
<1>8. OneHolder' /\ ArmedAlone' /\ Held'
  BY <1>1, <1>6 DEF OneHolder, ArmedAlone, Held
<1>9. ToldAlone' /\ EndedTold'
  BY <1>5 DEF ToldAlone, EndedTold, Unended
<1>10. TokenLive'
  BY <1>1, <1>2, <1>5, <1>6, <1>7, ThreadAssumption
     DEF TokenLive, Inv, Unended, Looping
<1>11. Stopped' /\ StartedOnce'
  BY <1>1, <1>2, <1>4, ThreadAssumption DEF Stopped, StartedOnce, Inv
<1>12. QED
  BY <1>3, <1>8, <1>9, <1>10, <1>11 DEF Inv

\* The loop of a connection goes on, or the server closes it.
LEMMA StepLoop ==
    ASSUME Inv, NEW c \in Conn, pc[c] \in {"opening"} \cup Looping,
           NEW label \in {"closed"} \cup Looping, Goto(c, label),
           UNCHANGED <<starts, token, current, told, armed, clean>>, TypeOK'
    PROVE  Inv'
<1>1. /\ pc'[c] = label
      /\ \A s \in Threads : s # c => pc'[s] = pc[s]
  BY GotoFacts DEF Inv
<1>2. c # Caller /\ c # Timer
  BY ThreadAssumption
<1>3. \A s \in Threads : Holds(s)' <=> Holds(s)
  BY <1>1 DEF Holds, Looping, Opening
<1>4. stopped' <=> stopped
  BY <1>1, <1>2 DEF stopped
<1>5. OneHolder' /\ ArmedAlone' /\ Held'
  BY <1>3, <1>4 DEF OneHolder, ArmedAlone, Held, Inv
<1>6. ToldAlone' /\ EndedTold'
  BY <1>1, <1>3 DEF ToldAlone, EndedTold, Inv, Unended, Looping
<1>7. TokenLive'
  BY <1>1, <1>2, <1>3, <1>4 DEF TokenLive, Inv, Looping
<1>8. Stopped' /\ StartedOnce'
  BY <1>1, <1>2, <1>3, <1>4 DEF Stopped, StartedOnce, Inv, Looping
<1>9. QED
  BY <1>5, <1>6, <1>7, <1>8 DEF Inv

\* A connection that was told to end does so.
LEMMA StepEnd ==
    ASSUME Inv, NEW c \in Conn, pc[c] \in Unended, told[c],
           NEW label \in {"ended", "none"}, Goto(c, label),
           UNCHANGED <<starts, token, current, told, armed, clean>>, TypeOK'
    PROVE  Inv'
<1>1. /\ pc'[c] = label
      /\ \A s \in Threads : s # c => pc'[s] = pc[s]
  BY GotoFacts DEF Inv
<1>2. c # Caller /\ c # Timer
  BY ThreadAssumption
<1>3. \A s \in Threads : ~Holds(s)
  BY DEF Inv, ToldAlone
<1>4. \A s \in Threads : ~Holds(s)'
  BY <1>1, <1>3 DEF Holds, Looping, Opening
<1>5. stopped' <=> stopped
  BY <1>1, <1>2 DEF stopped
<1>6. OneHolder' /\ ArmedAlone' /\ Held' /\ ToldAlone'
  BY <1>3, <1>4, <1>5 DEF OneHolder, ArmedAlone, Held, ToldAlone, Inv
<1>7. EndedTold'
  BY <1>1 DEF EndedTold, Inv
<1>8. TokenLive'
  BY <1>1, <1>2, <1>3, <1>5 DEF TokenLive, Inv, Looping
<1>9. Stopped' /\ StartedOnce'
  BY <1>1, <1>2, <1>4, <1>5 DEF Stopped, StartedOnce, Inv
<1>10. QED
  BY <1>6, <1>7, <1>8, <1>9 DEF Inv

LEMMA StepException ==
    ASSUME Starts = 1, Inv, NEW c \in Conn, OnException(c)
    PROVE  Inv'
<1>1. PICK label \in {pc[c], "ended"} :
        /\ pc[c] \in Looping /\ token # "disposed"
        /\ Goto(c, label) /\ token' = "cancelled" /\ TellCurrent
        /\ watcher' = nil /\ armed' = ~stopped
        /\ UNCHANGED <<starts, current, opened, subscribed, seen, clean>>
  BY DEF OnException, events
<1>2. /\ pc'[c] = label
      /\ \A s \in Threads : s # c => pc'[s] = pc[s]
      /\ c # Caller /\ c # Timer
  BY <1>1, GotoFacts, ThreadAssumption DEF Inv
<1>3. /\ told' \in [Conn -> BOOLEAN]
      /\ \A d \in Conn : told[d] \/ d \in current => told'[d]
  BY <1>1 DEF TellCurrent, Inv, TypeOK
<1>4. TypeOK'
  BY TypeKept DEF Next, WatchResource
<1>5. \A d \in Conn : pc[d] \in {"opening", "closed"} \cup Looping => told'[d]
  BY <1>3 DEF Inv, TokenLive
<1>6. \A s \in Threads : pc[s] \notin Opening \cup {"start", "restart"}
  <2>1. ASSUME NEW s \in Threads, pc[s] \in Opening \cup {"start", "restart"}
        PROVE  FALSE
    <3>1. Holds(s) /\ s # c
      BY <1>1, <2>1 DEF Holds, Opening, Looping
    <3>2. QED
      BY <1>1, <3>1, OthersEnded DEF Unended
  <2>2. QED
    BY <2>1
<1>7. \A s \in Threads : ~Holds(s)'
  BY <1>1, <1>2, <1>5, <1>6 DEF Holds, Looping, Opening
<1>8. (stopped' <=> stopped) /\ ~clean
  BY <1>1, <1>2 DEF stopped, Inv, Stopped
<1>9. OneHolder' /\ ArmedAlone' /\ Held' /\ ToldAlone'
  BY <1>1, <1>7, <1>8 DEF OneHolder, ArmedAlone, Held, ToldAlone
<1>10. EndedTold'
  BY <1>1, <1>2, <1>3, <1>5 DEF EndedTold, Inv
<1>11. TokenLive'
  BY <1>1, <1>2, <1>5, <1>6 DEF TokenLive, Looping, Opening
<1>12. Stopped' /\ StartedOnce'
  BY <1>1, <1>2, <1>8 DEF Stopped, StartedOnce, Inv
<1>13. QED
  BY <1>4, <1>9, <1>10, <1>11, <1>12 DEF Inv

\* OnClose reconnects only for the holder, which the server has closed.
LEMMA ClosedByServer ==
    ASSUME Inv, NEW c \in Conn, pc[c] \in {"closed", "ended"}
    PROVE  IF token = "live" THEN ~told[c] /\ pc[c] = "closed"
                             ELSE told[c]
BY DEF Inv, TokenLive, ToldAlone, EndedTold, Unended

LEMMA StepClose ==
    ASSUME Starts = 1, Inv, NEW c \in Conn, OnClose(c)
    PROVE  Inv'
<1>1. /\ pc[c] \in {"closed", "ended"}
      /\ Goto(c, IF token = "live" THEN "restart" ELSE "none")
      /\ UNCHANGED <<starts, watcher, token, current, told, opened, armed,
                     subscribed, seen, clean>>
  BY DEF OnClose, events
<1>2. TypeOK'
  BY TypeKept DEF Next, WatchResource
<1>3. CASE token # "live"
  <2>1. told[c] /\ Goto(c, "none")
    BY <1>1, <1>3, ClosedByServer
  <2>2. QED
    BY <1>1, <1>2, <2>1, StepEnd DEF Unended
<1>4. CASE token = "live"
  <2>1. ~told[c] /\ pc[c] = "closed" /\ Goto(c, "restart")
    BY <1>1, <1>4, ClosedByServer
  <2>2. /\ pc'[c] = "restart"
        /\ \A s \in Threads : s # c => pc'[s] = pc[s]
        /\ c # Caller /\ c # Timer
    BY <2>1, GotoFacts, ThreadAssumption DEF Inv
  <2>3. Holds(c)
    BY <2>1 DEF Holds
  <2>4. \A d \in Conn : pc'[d] \notin Unended
    BY <2>2, <2>3, OthersEnded DEF Unended, Looping
  <2>5. \A s \in Threads : Holds(s)' <=> s = c
    BY <2>2, <2>3, <2>4 DEF Holds, Inv, OneHolder, Unended, Opening
  <2>6. (stopped' <=> stopped) /\ ~clean
    BY <2>2, <1>4 DEF stopped, Inv, Stopped
  <2>7. OneHolder' /\ ArmedAlone' /\ Held'
    BY <1>1, <2>3, <2>5 DEF OneHolder, ArmedAlone, Held, Inv
  <2>8. ToldAlone' /\ EndedTold'
    BY <2>4 DEF ToldAlone, EndedTold, Unended
  <2>9. TokenLive'
    BY <1>1, <1>4, <2>2, <2>4, <2>5, <2>6
       DEF TokenLive, Inv, Unended, Looping
  <2>10. Stopped' /\ StartedOnce'
    BY <1>1, <2>2, <2>6 DEF Stopped, StartedOnce, Inv
  <2>11. QED
    BY <1>2, <2>7, <2>8, <2>9, <2>10 DEF Inv
<1>5. QED
  BY <1>3, <1>4

LEMMA StepRestart ==
    ASSUME Starts = 1, Inv, NEW c \in Conn, RestartWatcher(c)
    PROVE  Inv'
<1> DEFINE label == IF token = "disposed" THEN "none" ELSE "check"
<1>1. /\ pc[c] = "restart" /\ Goto(c, label)
      /\ IF token = "disposed"
         THEN UNCHANGED <<token, told, watcher>>
         ELSE token' = "cancelled" /\ TellCurrent /\ watcher' = nil
      /\ UNCHANGED <<starts, current, opened, armed, subscribed, seen, clean>>
  BY DEF RestartWatcher, events
<1>2. /\ pc'[c] = label
      /\ \A s \in Threads : s # c => pc'[s] = pc[s]
      /\ c # Caller /\ c # Timer
  BY <1>1, GotoFacts, ThreadAssumption DEF Inv
<1>3. /\ told' \in [Conn -> BOOLEAN]
      /\ watcher' \in Conn \cup {nil}
  BY <1>1 DEF TellCurrent, Inv, TypeOK
<1>4. TypeOK'
  BY TypeKept DEF Next, WatchResource
<1>5. Holds(c)
  BY <1>1 DEF Holds
<1>6. \A d \in Conn : pc'[d] \notin Unended
  BY <1>1, <1>2, <1>5, OthersEnded DEF Unended, Looping
<1>7. \A s \in Threads : Holds(s)' <=> (s = c /\ token # "disposed")
  BY <1>1, <1>2, <1>5, <1>6 DEF Holds, Inv, OneHolder, Unended, Opening
<1>8. /\ stopped' <=> stopped
      /\ token = "disposed" => stopped
      /\ clean => token = "disposed"
  BY <1>2 DEF stopped, Inv, Stopped, TokenLive
<1>9. OneHolder' /\ ArmedAlone' /\ Held'
  BY <1>1, <1>5, <1>7, <1>8 DEF OneHolder, ArmedAlone, Held, Inv
<1>10. ToldAlone' /\ EndedTold'
  BY <1>6 DEF ToldAlone, EndedTold, Unended
<1>11. \A t \in Threads : pc'[t] # "open"
  <2>1. ASSUME NEW t \in Threads, pc[t] = "open" PROVE FALSE
    BY <1>1, <1>5, <2>1 DEF Inv, OneHolder, Holds, Opening
  <2>2. QED
    BY <1>2, <2>1
<1>12. TokenLive'
  BY <1>1, <1>2, <1>6, <1>8, <1>11 DEF TokenLive, Inv, Unended, Looping
<1>13. Stopped' /\ StartedOnce'
  BY <1>1, <1>2, <1>7, <1>8 DEF Stopped, StartedOnce, Inv
<1>14. QED
  BY <1>4, <1>9, <1>10, <1>12, <1>13 DEF Inv

LEMMA StepConnection ==
    ASSUME Starts = 1, Inv, NEW c \in Conn,
           \/ StartLoop(c) \/ OnWatcherEvent(c) \/ ServerCloses(c)
           \/ EndsTold(c) \/ OnExceptionThrows(c)
    PROVE  Inv'
<1>1. CASE StartLoop(c)
  <2>1. /\ pc[c] = "opening" /\ Goto(c, "watching")
        /\ UNCHANGED <<starts, watcher, token, current, told, opened, armed,
                       subscribed, seen, clean>>
    BY <1>1 DEF StartLoop, events
  <2>2. TypeOK'
    BY TypeKept DEF Next, WatchResource
  <2>3. QED
    BY <2>1, <2>2, StepLoop DEF Looping
<1>2. CASE OnWatcherEvent(c)
  <2>1. /\ pc[c] = "watching" /\ Goto(c, "listed")
        /\ seen' = (seen \/ subscribed)
        /\ UNCHANGED <<starts, watcher, token, current, told, opened, armed,
                       subscribed, clean>>
    BY <1>2 DEF OnWatcherEvent
  <2>2. TypeOK'
    BY TypeKept DEF Next, WatchResource
  <2>3. QED
    BY <2>1, <2>2, StepLoop DEF Looping
<1>3. CASE ServerCloses(c)
  <2>1. /\ pc[c] \in Looping /\ Goto(c, "closed")
        /\ UNCHANGED <<starts, watcher, token, current, told, opened, armed,
                       subscribed, seen, clean>>
    BY <1>3 DEF ServerCloses, events
  <2>2. TypeOK'
    BY TypeKept DEF Next, WatchResource
  <2>3. QED
    BY <2>1, <2>2, StepLoop
<1>4. CASE EndsTold(c) \/ OnExceptionThrows(c)
  <2>1. /\ pc[c] \in Looping /\ Goto(c, "ended")
        /\ told[c] \/ token = "disposed"
        /\ UNCHANGED <<starts, watcher, token, current, told, opened, armed,
                       subscribed, seen, clean>>
    BY <1>4 DEF EndsTold, OnExceptionThrows, events
  <2>2. told[c]
    BY <2>1 DEF Inv, TokenLive
  <2>3. TypeOK'
    BY TypeKept DEF Next, WatchResource
  <2>4. QED
    BY <2>1, <2>2, <2>3, StepEnd DEF Unended
<1>5. QED
  BY <1>1, <1>2, <1>3, <1>4

LEMMA StepStutter ==
    ASSUME Inv, UNCHANGED vars
    PROVE  Inv'
<1>1. UNCHANGED <<pc, starts, watcher, token, current, told, opened, armed,
                  subscribed, seen, clean>>
  BY DEF vars, events
<1>2. QED
  BY <1>1 DEF Inv, TypeOK, OneHolder, ArmedAlone, ToldAlone, Held, TokenLive,
     EndedTold, Stopped, StartedOnce, Holds, stopped

LEMMA NextInv == Starts = 1 /\ Inv /\ [Next]_vars => Inv'
BY StepCheck, StepOpen, StepThrows, StepAssign, StepStart, StepSubscribe,
   StepStop, StepTimer, StepConnection, StepException, StepClose, StepRestart,
   StepStutter DEF Next, WatchResource

LEMMA Correct ==
    ASSUME Starts = 1
    PROVE  Spec => []Inv
<1>1. Init => Inv
  BY InitInv
<1>2. Inv /\ [Next]_vars => Inv'
  BY NextInv
<1>3. QED
  BY <1>1, <1>2, PTL DEF Spec

-----------------------------------------------------------------------------
\* Type correctness, however often Start is called.
THEOREM TypeCorrect == Spec => []TypeOK
<1>1. Init => TypeOK /\ CallsLeft
  BY TypeInit
<1>2. TypeOK /\ CallsLeft /\ [Next]_vars => (TypeOK /\ CallsLeft)'
  BY TypeStep
<1>3. QED
  BY <1>1, <1>2, PTL DEF Spec

\* However many connections come and go, one at most is not told to end.
THEOREM AtMostOne ==
    ASSUME Starts = 1
    PROVE  Spec => []OneConnection
<1>1. Inv => OneConnection
  BY DEF Inv, OneHolder, OneConnection, Holds, Live
<1>2. QED
  BY <1>1, Correct, PTL

\* The watch always has a connection or someone who will open one.
THEOREM NeverLost ==
    ASSUME Starts = 1
    PROVE  Spec => []NotLost
<1>1. Inv => NotLost
  <2> SUFFICES ASSUME Inv, pc[Caller] \notin {"start", "stopped"}, ~armed
               PROVE  \/ \E t \in Threads : pc[t] \in Opening \cup {"restart"}
                      \/ \E c \in Conn : \/ Live(c)
                                         \/ pc[c] = "closed" /\ token = "live"
    BY DEF NotLost
  <2>1. PICK t \in Threads : Holds(t)
    BY DEF Inv, Held, stopped
  <2>2. CASE t \in Conn /\ pc[t] \in {"opening", "closed"} \cup Looping
             /\ ~told[t]
    BY <2>2 DEF Live, Inv, TokenLive
  <2>3. CASE pc[t] \in Opening \cup {"start", "restart"}
    <3>1. pc[t] # "start"
      BY DEF Inv, TypeOK, Unended, Looping, Opening
    <3>2. QED
      BY <2>3, <3>1
  <2>4. QED
    BY <2>1, <2>2, <2>3 DEF Holds
<1>2. QED
  BY <1>1, Correct, PTL

\* Stop is final when no WatchResource was under way.
THEOREM StopIsFinal ==
    ASSUME Starts = 1
    PROVE  Spec => []StopsForGood
<1>1. Inv => StopsForGood
  BY DEF Inv, Stopped, StopsForGood, Holds, Live, Opening, Looping
<1>2. QED
  BY <1>1, Correct, PTL

\* OnClose takes no connection that was told to end for one the server closed.
THEOREM ReconnectsForServer ==
    ASSUME Starts = 1
    PROVE  Spec => OnlyServerCloses
<1>1. Inv /\ [Next]_vars
        => [\A c \in Conn : pc[c] = "ended" => pc'[c] # "restart"]_vars
  <2> SUFFICES ASSUME Inv, Next, NEW c \in Conn, pc[c] = "ended",
                      pc'[c] = "restart"
               PROVE  FALSE
    OBVIOUS
  <2>1. \A t \in Threads : \A label : Goto(t, label) =>
          /\ pc'[t] = label
          /\ \A s \in Threads : s # t => pc'[s] = pc[s]
    BY GotoFacts DEF Inv
  <2>2. c # Caller /\ c # Timer
    BY ThreadAssumption
  <2>3. OnClose(c)
    <3>1. ASSUME NEW t \in Threads, WatchResource(t) PROVE FALSE
      <4>1. CASE CheckWatcher(t)
        BY <2>1, <2>2, <4>1, ThreadAssumption DEF CheckWatcher, Resumed
      <4>2. CASE OpenConnection(t)
        <5>1. PICK d \in Conn : /\ pc[d] = "none" /\ pc[t] = "open"
                                /\ pc' = [pc EXCEPT ![t] = "assign",
                                                    ![d] = "opening"]
          BY <4>2 DEF OpenConnection
        <5>2. pc'[c] = pc[c]
          BY <5>1 DEF Inv, TypeOK
        <5>3. QED
          BY <5>2
      <4>3. CASE OpenThrows(t) \/ AssignWatcher(t)
        BY <2>1, <2>2, <4>3, ThreadAssumption
           DEF OpenThrows, AssignWatcher, Resumed
      <4>4. QED
        BY <3>1, <4>1, <4>2, <4>3 DEF WatchResource
    <3>2. CASE Start \/ Subscribe \/ Stop \/ TimerFires
      BY <2>1, <2>2, <3>2 DEF Start, Subscribe, Stop, TimerFires
    <3>3. ASSUME NEW d \in Conn,
                 \/ StartLoop(d) \/ OnWatcherEvent(d) \/ ServerCloses(d)
                 \/ EndsTold(d) \/ OnExceptionThrows(d) \/ OnException(d)
                 \/ RestartWatcher(d)
          PROVE  FALSE
      BY <2>1, <3>3 DEF StartLoop, OnWatcherEvent, ServerCloses, EndsTold,
         OnExceptionThrows, OnException, RestartWatcher, Looping
    <3>4. ASSUME NEW d \in Conn, OnClose(d) PROVE d = c
      BY <2>1, <3>4 DEF OnClose
    <3>5. QED
      BY <3>1, <3>2, <3>3, <3>4 DEF Next
  <2>4. token # "live"
    BY ClosedByServer
  <2>5. QED
    BY <2>1, <2>3, <2>4 DEF OnClose
<1>2. QED
  BY <1>1, Correct, PTL DEF Spec, OnlyServerCloses
=============================================================================
