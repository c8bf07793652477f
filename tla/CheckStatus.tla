----------------------------- MODULE CheckStatus -----------------------------
(***************************************************************************)
(* What the status of a HealthCheck resource promises to its reader,       *)
(* without queues, handlers and failures: the phase is empty, or says that *)
(* the check was taken over, or shows what some call of the address        *)
(* checked under this name returned.  Once it shows an answer it changes   *)
(* only to an answer, unless that answer was empty, until the resource     *)
(* itself goes.                                                            *)
(***************************************************************************)
CONSTANTS
    Keys,       \* "name.namespace" of the health checks
    Phases      \* what a status can show of an answer

VARIABLES
    answers,    \* <<key, shown>>: everything the checked addresses returned
    status      \* key -> "none" (no resource), "", "AddedtoRedis" or shown

vars == <<answers, status>>

Init ==
    /\ answers = {}
    /\ status = [k \in Keys |-> "none"]

Create(k) ==
    /\ status[k] = "none"
    /\ status' = [status EXCEPT ![k] = ""]
    /\ UNCHANGED answers

Delete(k) ==
    /\ status[k] # "none"
    /\ status' = [status EXCEPT ![k] = "none"]
    /\ UNCHANGED answers

TakeOver(k) ==
    /\ status[k] = ""
    /\ status' = [status EXCEPT ![k] = "AddedtoRedis"]
    /\ UNCHANGED answers

Answer(k) ==
    /\ \E s \in Phases : answers' = answers \cup {<<k, s>>}
    /\ UNCHANGED status

Show(k) ==
    /\ status[k] # "none"
    /\ \E s \in Phases :
         /\ <<k, s>> \in answers
         /\ status' = [status EXCEPT ![k] = s]
    /\ UNCHANGED answers

Next ==
    \E k \in Keys :
        Create(k) \/ Delete(k) \/ TakeOver(k) \/ Answer(k) \/ Show(k)

Spec == Init /\ [][Next]_vars
=============================================================================
