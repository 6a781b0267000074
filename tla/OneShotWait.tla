----------------------------- MODULE OneShotWait -----------------------------
(****************************************************************************)
(* What MessageRouter.on_key promises its callers, without locks, queues or  *)
(* threads: a watch ends exactly one way - in one message nobody else gets,  *)
(* in a timeout, or by being forgotten - and stays ended.                    *)
(****************************************************************************)
CONSTANTS Regs, Msgs

VARIABLES
    outcome,    \* how each watch stands
    answer      \* the message it was answered with, as a set of at most one

waitVars == <<outcome, answer>>

Init ==
    /\ outcome = [r \in Regs |-> "none"]
    /\ answer = [r \in Regs |-> {}]

Watch(r) ==
    /\ outcome[r] = "none"
    /\ outcome' = [outcome EXCEPT ![r] = "waiting"]
    /\ UNCHANGED answer

Answer(r, m) ==
    /\ outcome[r] = "waiting"
    /\ \A q \in Regs : m \notin answer[q]
    /\ outcome' = [outcome EXCEPT ![r] = "answered"]
    /\ answer' = [answer EXCEPT ![r] = {m}]

TimeOut(r) ==
    /\ outcome[r] = "waiting"
    /\ outcome' = [outcome EXCEPT ![r] = "timedOut"]
    /\ UNCHANGED answer

Forgotten(r) ==
    /\ outcome[r] = "waiting"
    /\ outcome' = [outcome EXCEPT ![r] = "forgotten"]
    /\ UNCHANGED answer

Next ==
    \E r \in Regs : Watch(r) \/ TimeOut(r) \/ Forgotten(r) \/ \E m \in Msgs : Answer(r, m)

Spec == Init /\ [][Next]_waitVars
=============================================================================
