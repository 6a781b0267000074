------------------------------ MODULE RunSkill ------------------------------
(****************************************************************************)
(* head.run_skill: one logical skill invocation as a chain of callbacks.     *)
(*                                                                           *)
(* Nothing blocks: an attempt dispatches to the workers, watches its         *)
(* request_id with the router's on_key and returns.  What continues the      *)
(* chain is whichever thread comes next: the reply's callback, the timeout,  *)
(* the check-in conversation with the coordinator, or its timer.  Every      *)
(* thread is a separate step here; the router is used through what           *)
(* OneShotWait says of it (a registration ends in a message or a timeout).   *)
(****************************************************************************)
EXTENDS Naturals, Sequences

CONSTANTS
    MaxAttempts,    \* max_attempts
    MaxCheckIns,    \* max_check_ins
    MaxTurns,       \* check_in_max_turns
    Deliberate,     \* are dialogue and llm_client given?
    LLMFails,       \* may a chat() call raise?
    SkillFails,     \* may the skill's own coordinate() raise?
    MaxRounds,      \* bound: check-ins after which the LLM no longer answers WAIT
    MaxReplies      \* bound: skill_result messages per attempt

ASSUME ConstantsAssumption ==
    /\ MaxAttempts \in Nat \ {0}
    /\ MaxCheckIns \in Nat
    /\ MaxTurns \in Nat
    /\ Deliberate \in BOOLEAN
    /\ LLMFails \in BOOLEAN /\ SkillFails \in BOOLEAN
    /\ MaxRounds \in Nat \ {0}
    /\ MaxReplies \in Nat

\* What handle() tells apart: a failure with "retryable": True, and a final
\* result ("status": "ok", or an error without that flag).
Results  == {"final", "retryable"}
Attempts == 1 .. MaxAttempts
Rounds   == 1 .. MaxRounds

VARIABLES
    phase,      \* each attempt: none, setup, sent, local, armed, over, raised
    registered, \* the router has a callback for the attempt's request_id
    queued,     \* skill_results of the attempt the router queued
    replies,    \* how many were sent so far
    calls,      \* threads about to call the attempt's handle(), by result
    rounds,     \* check-ins begun in the attempt
    resolved,   \* each check-in's resolved[0]
    timer,      \* its threading.Timer: off, running, fired
    opener,     \* the thread that opens it: none, compose, sent, done, raised
    talk,       \* the reply side: none, asked, deciding, over
    turns,      \* its turns_used[0]
    cancelled,  \* attempts whose workers were sent skill_cancel
    results     \* history: the calls of on_result

attemptVars == <<phase, cancelled>>
routerVars  == <<registered, queued, replies>>
checkVars   == <<resolved, timer, opener, talk, turns>>
vars == <<attemptVars, routerVars, calls, rounds, checkVars, results>>

Init ==
    /\ phase = [n \in Attempts |-> IF n = 1 THEN "setup" ELSE "none"]
    /\ registered = [n \in Attempts |-> FALSE]
    /\ queued = [n \in Attempts |-> <<>>]
    /\ replies = [n \in Attempts |-> 0]
    /\ calls = [n \in Attempts |-> [r \in Results |-> 0]]
    /\ rounds = [n \in Attempts |-> 0]
    /\ resolved = [n \in Attempts |-> [c \in Rounds |-> TRUE]]
    /\ timer = [n \in Attempts |-> [c \in Rounds |-> "off"]]
    /\ opener = [n \in Attempts |-> [c \in Rounds |-> "none"]]
    /\ talk = [n \in Attempts |-> [c \in Rounds |-> "none"]]
    /\ turns = [n \in Attempts |-> [c \in Rounds |-> 0]]
    /\ cancelled = {}
    /\ results = <<>>

OnResult(n, r) == results' = Append(results, [attempt |-> n, result |-> r])

\* A thread is about to call handle(r) of attempt n.
CallHandle(n, r) == calls' = [calls EXCEPT ![n][r] = @ + 1]

-----------------------------------------------------------------------------
(* attempt(n)                                                                *)

NoWorkers_Silent(n) ==
    /\ phase[n] = "setup"
    /\ phase' = [phase EXCEPT ![n] = "over"]
    /\ UNCHANGED <<cancelled, routerVars, calls, rounds, checkVars, results>>

\* No registered worker reports the capability.
NoWorkers(n) ==
    /\ phase[n] = "setup"
    /\ phase' = [phase EXCEPT ![n] = "over"]
    /\ OnResult(n, "final")
    /\ UNCHANGED <<cancelled, routerVars, calls, rounds, checkVars>>

\* _register_scarlets composes its description with the LLM, and chat() raises.
SetupRaises(n) ==
    /\ LLMFails
    /\ phase[n] = "setup"
    /\ phase' = [phase EXCEPT ![n] = "raised"]
    /\ UNCHANGED <<cancelled, routerVars, calls, rounds, checkVars, results>>

\* One Send per worker.  A skill may choose this very agent as coordinator.
Dispatch(n) ==
    /\ phase[n] = "setup"
    /\ \E next \in {"sent", "local"} : phase' = [phase EXCEPT ![n] = next]
    /\ UNCHANGED <<cancelled, routerVars, calls, rounds, checkVars, results>>

\* run_in_process: handle(skill.coordinate(...)) on a thread of its own.
LocalCoordinate(n, r) ==
    /\ phase[n] = "local"
    /\ phase' = [phase EXCEPT ![n] = "over"]
    /\ CallHandle(n, r)
    /\ UNCHANGED <<cancelled, routerVars, rounds, checkVars, results>>

\* It has no try: a coordinate that raises ends the thread, and handle is not called.
LocalRaises(n) ==
    /\ SkillFails
    /\ phase[n] = "local"
    /\ phase' = [phase EXCEPT ![n] = "raised"]
    /\ UNCHANGED <<cancelled, routerVars, calls, rounds, checkVars, results>>

\* wait_for_reply: on_key drains a queued answer or registers the callback.
WaitForReply(n) ==
    \/ /\ queued[n] # <<>>
       /\ queued' = [queued EXCEPT ![n] = Tail(@)]
       /\ CallHandle(n, Head(queued[n]))
       /\ UNCHANGED registered
    \/ /\ queued[n] = <<>>
       /\ registered' = [registered EXCEPT ![n] = TRUE]
       /\ UNCHANGED <<queued, calls>>

Arm(n) ==
    /\ phase[n] = "sent"
    /\ phase' = [phase EXCEPT ![n] = "armed"]
    /\ WaitForReply(n)
    /\ UNCHANGED <<cancelled, replies, rounds, checkVars, results>>

-----------------------------------------------------------------------------
(* Replies and timeouts                                                      *)

\* A skill_result for this attempt reaches the router: of its coordinator, or
\* of a worker that failed.  It may come at any time, superseded or not.
Reply(n, r) ==
    /\ phase[n] \in {"sent", "armed"}
    /\ replies[n] < MaxReplies
    /\ replies' = [replies EXCEPT ![n] = @ + 1]
    /\ \/ /\ registered[n]
          /\ registered' = [registered EXCEPT ![n] = FALSE]
          /\ CallHandle(n, r)
          /\ UNCHANGED queued
       \/ /\ ~registered[n]
          /\ queued' = [queued EXCEPT ![n] = Append(@, r)]
          /\ UNCHANGED <<registered, calls>>
    /\ UNCHANGED <<attemptVars, rounds, checkVars, results>>

\* A failed attempt is answered for and retried as well.
Handle_Both(n, r) ==
    /\ calls[n][r] > 0
    /\ calls' = [calls EXCEPT ![n][r] = @ - 1]
    /\ OnResult(n, r)
    /\ IF r = "retryable" /\ n < MaxAttempts
         THEN cancelled' = cancelled \cup {n} /\ phase' = [phase EXCEPT ![n + 1] = "setup"]
         ELSE UNCHANGED <<phase, cancelled>>
    /\ UNCHANGED <<routerVars, rounds, checkVars>>

\* A retry leaves the workers of the attempt it replaces at work.
Handle_Uncancelled(n, r) ==
    /\ calls[n][r] > 0
    /\ calls' = [calls EXCEPT ![n][r] = @ - 1]
    /\ \/ (r # "retryable" \/ n >= MaxAttempts) /\ OnResult(n, r) /\ UNCHANGED phase
       \/ r = "retryable" /\ n < MaxAttempts
          /\ phase' = [phase EXCEPT ![n + 1] = "setup"] /\ UNCHANGED results
    /\ UNCHANGED <<cancelled, routerVars, rounds, checkVars>>

\* handle(result): on_result, or skill_cancel to the workers and attempt(n + 1).
Handle(n, r) ==
    /\ calls[n][r] > 0
    /\ calls' = [calls EXCEPT ![n][r] = @ - 1]
    /\ \/ /\ r # "retryable" \/ n >= MaxAttempts
          /\ OnResult(n, r)
          /\ UNCHANGED <<phase, cancelled>>
       \/ /\ r = "retryable" /\ n < MaxAttempts
          /\ cancelled' = cancelled \cup {n}
          /\ phase' = [phase EXCEPT ![n + 1] = "setup"]
          /\ UNCHANGED results
    /\ UNCHANGED <<routerVars, rounds, checkVars>>

\* The check_in_num wait_for_reply's lambda passes to on_timeout: always 0.
CheckInNum(n) == 0

\* The registration timed out: fail the attempt, or begin a check-in.
Timeout(n) ==
    /\ registered[n]
    /\ registered' = [registered EXCEPT ![n] = FALSE]
    /\ \/ /\ ~Deliberate \/ CheckInNum(n) >= MaxCheckIns
          /\ CallHandle(n, "retryable")
          /\ UNCHANGED <<rounds, checkVars>>
       \/ /\ Deliberate /\ CheckInNum(n) < MaxCheckIns
          /\ rounds[n] < MaxRounds
          /\ LET c == rounds[n] + 1 IN
                /\ rounds' = [rounds EXCEPT ![n] = c]
                /\ resolved' = [resolved EXCEPT ![n][c] = FALSE]
                /\ timer' = [timer EXCEPT ![n][c] = "running"]
                /\ opener' = [opener EXCEPT ![n][c] = "compose"]
          /\ UNCHANGED <<talk, turns, calls>>
    /\ UNCHANGED <<attemptVars, queued, replies, results>>

-----------------------------------------------------------------------------
(* One check-in conversation                                                 *)

\* resolve_once(lambda: handle(retryable error)): only the first resolver acts.
ResolveByHandle_Always(n, c) ==
    /\ resolved' = [resolved EXCEPT ![n][c] = TRUE]
    /\ CallHandle(n, "retryable")

ResolveByHandle(n, c) ==
    \/ /\ ~resolved[n][c]
       /\ resolved' = [resolved EXCEPT ![n][c] = TRUE]
       /\ CallHandle(n, "retryable")
    \/ /\ resolved[n][c]
       /\ UNCHANGED <<resolved, calls>>

\* resolve_once(wait_for_reply)
ResolveByWaiting(n, c) ==
    \/ /\ ~resolved[n][c]
       /\ resolved' = [resolved EXCEPT ![n][c] = TRUE]
       /\ WaitForReply(n)
    \/ /\ resolved[n][c]
       /\ UNCHANGED <<resolved, registered, queued, calls>>

\* check_in_timeout expires.  Nothing cancels the timer, so it always fires.
CheckInTimeout(n, c) ==
    /\ timer[n][c] = "running"
    /\ timer' = [timer EXCEPT ![n][c] = "fired"]
    /\ ResolveByHandle(n, c)
    /\ UNCHANGED <<attemptVars, routerVars, rounds, opener, talk, turns, results>>

\* The opening question is composed by the LLM and sent by dialogue.start.
Open(n, c) ==
    /\ opener[n][c] = "compose"
    /\ opener' = [opener EXCEPT ![n][c] = "sent"]
    /\ turns' = [turns EXCEPT ![n][c] = 1]
    /\ talk' = [talk EXCEPT ![n][c] = "asked"]
    /\ UNCHANGED <<attemptVars, routerVars, calls, rounds, resolved, timer, results>>

OpenRaises(n, c) ==
    /\ LLMFails
    /\ opener[n][c] = "compose"
    /\ opener' = [opener EXCEPT ![n][c] = "raised"]
    /\ UNCHANGED <<attemptVars, routerVars, calls, rounds, resolved, timer, talk, turns, results>>

\* conv_id = dialogue.start(...): the name is bound only after the Send.
Opened(n, c) ==
    /\ opener[n][c] = "sent"
    /\ opener' = [opener EXCEPT ![n][c] = "done"]
    /\ UNCHANGED <<attemptVars, routerVars, calls, rounds, resolved, timer, talk, turns, results>>

\* The coordinator answers; its reply runs on_checkin_reply on a new thread.
CheckInReply(n, c) ==
    /\ talk[n][c] = "asked"
    /\ talk' = [talk EXCEPT ![n][c] = "deciding"]
    /\ UNCHANGED <<attemptVars, routerVars, calls, rounds, resolved, timer, opener, turns, results>>

\* A follow-up question, sent whether or not the check-in is already resolved.
\* Before conv_id is bound the thread dies of a NameError instead.
FollowUp(n, c) ==
    /\ talk[n][c] = "deciding"
    /\ turns[n][c] < MaxTurns
    /\ turns' = [turns EXCEPT ![n][c] = @ + 1]
    /\ talk' = [talk EXCEPT ![n][c] = IF opener[n][c] = "done" THEN "asked" ELSE "over"]
    /\ UNCHANGED <<attemptVars, routerVars, calls, rounds, resolved, timer, opener, results>>

\* The decision is WAIT (bounded: the LLM answers it fewer than MaxRounds times).
DecideWait(n, c) ==
    /\ talk[n][c] = "deciding"
    /\ rounds[n] < MaxRounds
    /\ talk' = [talk EXCEPT ![n][c] = "over"]
    /\ ResolveByWaiting(n, c)
    /\ UNCHANGED <<attemptVars, replies, rounds, timer, opener, turns, results>>

\* The decision is RETRY, the default for any answer that does not parse.
DecideRetry(n, c) ==
    /\ talk[n][c] = "deciding"
    /\ talk' = [talk EXCEPT ![n][c] = "over"]
    /\ ResolveByHandle(n, c)
    /\ UNCHANGED <<attemptVars, routerVars, rounds, timer, opener, turns, results>>

DecideRaises(n, c) ==
    /\ LLMFails
    /\ talk[n][c] = "deciding"
    /\ talk' = [talk EXCEPT ![n][c] = "over"]
    /\ UNCHANGED <<attemptVars, routerVars, calls, rounds, resolved, timer, opener, turns, results>>

-----------------------------------------------------------------------------
Progress(n) ==
    \/ NoWorkers(n) \/ Dispatch(n) \/ Arm(n)
    \/ \E r \in Results : LocalCoordinate(n, r) \/ Handle(n, r)

CheckInStep(n, c) ==
    Open(n, c) \/ Opened(n, c) \/ FollowUp(n, c) \/ DecideWait(n, c) \/ DecideRetry(n, c)

Next ==
    \E n \in Attempts :
        \/ Progress(n) \/ SetupRaises(n) \/ LocalRaises(n) \/ Timeout(n)
        \/ \E r \in Results : Reply(n, r)
        \/ \E c \in Rounds :
              \/ CheckInStep(n, c) \/ CheckInTimeout(n, c) \/ CheckInReply(n, c)
              \/ OpenRaises(n, c) \/ DecideRaises(n, c)

Spec == Init /\ [][Next]_vars

\* Threads run, deadlines pass (the router's one-shot watch times out) and
\* timers fire; nothing says that a coordinator ever answers.
FairSpec ==
    /\ Spec
    /\ \A n \in Attempts :
          /\ WF_vars(Progress(n))
          /\ WF_vars(Timeout(n))
          /\ \A c \in Rounds : WF_vars(CheckInTimeout(n, c)) /\ WF_vars(CheckInStep(n, c))

-----------------------------------------------------------------------------
(* Properties                                                                *)

TypeOK ==
    /\ phase \in [Attempts -> {"none", "setup", "sent", "local", "armed", "over", "raised"}]
    /\ registered \in [Attempts -> BOOLEAN]
    /\ queued \in [Attempts -> Seq(Results)]
    /\ replies \in [Attempts -> 0 .. MaxReplies]
    /\ calls \in [Attempts -> [Results -> Nat]]
    /\ rounds \in [Attempts -> 0 .. MaxRounds]
    /\ resolved \in [Attempts -> [Rounds -> BOOLEAN]]
    /\ timer \in [Attempts -> [Rounds -> {"off", "running", "fired"}]]
    /\ opener \in [Attempts -> [Rounds -> {"none", "compose", "sent", "done", "raised"}]]
    /\ talk \in [Attempts -> [Rounds -> {"none", "asked", "deciding", "over"}]]
    /\ turns \in [Attempts -> [Rounds -> Nat]]
    /\ cancelled \subseteq Attempts
    /\ results \in Seq([attempt : Attempts, result : Results])

\* on_result fires at most once, however replies, timeouts, check-in replies
\* and check-in timers race.
OnResultOnce == Len(results) <= 1

\* What can still continue the invocation, as <<what, attempt, which one>>.
Continuations ==
    {<<"phase", n, 0>> : n \in {m \in Attempts : phase[m] \in {"setup", "sent", "local"}}}
    \cup {<<"watch", n, 0>> : n \in {m \in Attempts : registered[m]}}
    \cup {x \in {"handle"} \X Attempts \X Results : calls[x[2]][x[3]] > 0}
    \cup {x \in {"check-in"} \X Attempts \X Rounds : ~resolved[x[2]][x[3]]}

\* There is one thread of control: never two continuations at a time, and none
\* once on_result was called.  A late answer, a late check-in reply or a timer
\* that was not cancelled cannot revive a finished attempt.
OneContinuation ==
    /\ \A x, y \in Continuations : x = y
    /\ \A n \in Attempts, r \in Results : calls[n][r] <= 1
    /\ results # <<>> => Continuations = {}

\* Only the attempt started last can continue or answer: what an attempt that
\* was superseded still produces is never delivered.
LatestAttemptAnswers ==
    \A n \in Attempts : phase[n] # "none" =>
        /\ \A x \in Continuations : n <= x[2]
        /\ \A i \in 1 .. Len(results) : n <= results[i].attempt

\* max_check_ins caps how many separate check-ins happen per attempt.
CheckInsCapped == \A n \in Attempts : rounds[n] <= MaxCheckIns

\* The attempt begun last, and whether the thread of one died: setting it up
\* raised, or the coordinate it ran itself.
IsLatest(n) == phase[n] # "none" /\ \A m \in Attempts : phase[m] # "none" => m <= n

Latest == CHOOSE n \in Attempts : IsLatest(n)

Raised == \E n \in Attempts : phase[n] = "raised"

Promise == INSTANCE Invocation WITH
    attempt <- Latest,
    answers <- results,
    raised  <- Raised

\* run_skill implements Invocation: whatever races behind it, its caller sees one
\* attempt after another, each superseded one cancelled, and at most one answer.
ImplementsInvocation == Promise!Spec

\* on_result does fire, even if no coordinator ever answers and whatever the
\* LLM does to a check-in (provided it does not answer WAIT for ever), unless
\* the set-up of an attempt raised, or the coordinate that the invoking agent ran
\* itself: neither has a try around it.
ResultArrives == <>(results # <<>> \/ Raised)
=============================================================================
