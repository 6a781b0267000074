---------------------------- MODULE Conversation ----------------------------
(****************************************************************************)
(* head.converse: one human message, answered in rounds of tool calls.        *)
(*                                                                           *)
(* do_turn runs on whichever thread brought the last result of the previous   *)
(* round: the caller's for the first, then mostly callback threads of         *)
(* run_skill.  The calls of a round run concurrently and meet in a _Joiner.   *)
(* run_skill is used through what Invocation says of it: attempts one after    *)
(* another, and one on_result unless a thread of it raises.                   *)
(*                                                                           *)
(* Every step is also told to on_event, which publishes it in the inbox of a  *)
(* reserved agent: what the Composer later reads (ConversationView).          *)
(****************************************************************************)
EXTENDS Naturals, Sequences, FiniteSets

CONSTANTS
    MaxTurns,    \* max_turns
    MaxCalls,    \* bound: tool calls in one answer of the model
    MaxAsked,    \* bound: tool calls in the whole conversation
    MaxAttempts, \* max_attempts of run_skill
    MaxRetries,  \* bound: attempts after the first, in the whole conversation
    MaxCheckIns, \* bound: check-in questions, in the whole conversation
    MaxLost,     \* bound: failed publications and expiries of the sink's inbox
    Failures     \* which of AllFailures may happen

AllFailures ==
    {"chat",     \* llm_client.chat raises
     "skill",    \* run_skill raises: gather_workers, a Send, its own LLM call
     "publish",  \* a Send of on_event fails, and is swallowed
     "expire"}   \* the sink's inbox expires

ASSUME ConversationAssumption ==
    /\ MaxTurns \in Nat /\ MaxAttempts \in Nat \ {0} /\ MaxCalls \in Nat \ {0} /\ MaxAsked \in Nat
    /\ MaxRetries \in Nat /\ MaxCheckIns \in Nat /\ MaxLost \in Nat
    /\ Failures \subseteq AllFailures

Results == {"ok", "error"}
Turns   == 1 .. MaxTurns
Calls   == Turns \X (1 .. MaxCalls)   \* call ids: the backend makes them unique

VARIABLES
    turn,      \* turn_index, from 1
    pc,        \* the thread in do_turn: chat, announce, launch, submit, advance,
               \* idle (returned), over (finished), raised
    onCaller,  \* is that thread the one that called converse?
    next,      \* the call its loop is at
    flight,    \* each call's run_skill: none, running, reporting, last, over, lost
    attempt,   \* the attempts each call has made
    reported,  \* the result on_result was called with
    recorded,  \* _Joiner._results
    remaining, \* _Joiner._remaining
    messages,  \* the transcript in the store: one record per round
    stored,    \* does the ConversationStore track the conversation?
    ends,      \* history: the calls of on_done
    starts,    \* history: how often do_turn was called for each turn
    sink,      \* the reasoning events in the sink's inbox, as a set: events of
               \* one call are emitted, and stay, in the order of its steps
    traffic,   \* the bus messages of the dispatches and check-ins
    lost       \* how many publications failed or expired

driverVars == <<turn, pc, onCaller, next, starts>>
joinerVars == <<recorded, remaining>>
storeVars  == <<messages, stored, ends>>
busVars    == <<sink, traffic, lost>>
vars == <<driverVars, flight, attempt, reported, joinerVars, storeVars, busVars>>

NoRequest == <<0, 0, 0>>
Request(c, a) == <<c[1], c[2], a>>   \* the request_id of attempt a of call c

Event(what, c, a, r) == [event |-> what, call |-> c, request |-> Request(c, a), result |-> r]
NoCall == <<0, 0>>

\* A bus message: its request_id, and the request it is really about.
Message(kind, rid, about) == [kind |-> kind, request |-> rid, about |-> about]

Current(i) == <<turn, i>>
InRound    == messages[turn].calls
Asked      == Cardinality({c \in Calls : c[1] <= Len(messages) /\ c[2] <= messages[c[1]].calls})
Retries    == Cardinality({x \in Calls \X (2 .. MaxAttempts) : x[2] <= attempt[x[1]]})

-----------------------------------------------------------------------------
(* emit                                                                      *)

\* on_event: the Send to the reserved agent may fail, and nobody is told.
Emit(e) ==
    \/ /\ sink' = sink \cup {e}
       /\ UNCHANGED lost
    \/ /\ "publish" \in Failures /\ lost < MaxLost
       /\ lost' = lost + 1
       /\ UNCHANGED sink

\* The whole inbox expires with its TTL; later events make it anew.
SinkExpires ==
    /\ "expire" \in Failures /\ lost < MaxLost /\ sink # {}
    /\ sink' = {}
    /\ lost' = lost + 1
    /\ UNCHANGED <<driverVars, flight, attempt, reported, joinerVars, storeVars, traffic>>

-----------------------------------------------------------------------------
Init ==
    /\ turn = 1 /\ pc = "chat" /\ onCaller = TRUE /\ next = 1
    /\ flight = [c \in Calls |-> "none"]
    /\ attempt = [c \in Calls |-> 0]
    /\ reported = [c \in Calls |-> "none"]
    /\ recorded = [c \in Calls |-> "none"]
    /\ remaining = 0
    /\ messages = <<>> /\ stored = TRUE /\ ends = <<>>
    /\ starts = [t \in 1 .. MaxTurns + 1 |-> IF t = 1 THEN 1 ELSE 0]
    /\ sink = {Event("question", NoCall, 0, "none")}
    /\ traffic = {} /\ lost = 0

-----------------------------------------------------------------------------
(* do_turn                                                                   *)

\* finish: the conversation is forgotten, then on_done is called.
Finish(how) ==
    /\ stored' = FALSE
    /\ ends' = Append(ends, how)
    /\ pc' = "over"
    /\ UNCHANGED <<turn, onCaller, next, starts, flight, attempt, reported, joinerVars, messages>>

\* max_turns rounds, and no answer: ConversationDidNotConclude.
GiveUp ==
    /\ pc = "chat" /\ turn > MaxTurns
    /\ Finish("limit")
    /\ UNCHANGED busVars

\* The model answers without calling a tool.
Conclude ==
    /\ pc = "chat" /\ turn <= MaxTurns
    /\ Finish("answer")
    /\ Emit(Event("final", NoCall, 0, "none"))
    /\ UNCHANGED traffic

\* The model asks for n tool calls.
Ask(n) ==
    /\ pc = "chat" /\ turn <= MaxTurns
    /\ Asked + n <= MaxAsked
    /\ messages' = Append(messages, [calls |-> n, results |-> <<>>])
    /\ remaining' = n
    /\ pc' = "announce" /\ next' = 1
    /\ UNCHANGED <<turn, onCaller, starts, flight, attempt, reported, recorded, stored, ends, busVars>>

ChatRaises ==
    /\ "chat" \in Failures
    /\ pc = "chat" /\ turn <= MaxTurns
    /\ pc' = "raised"
    /\ UNCHANGED <<turn, onCaller, next, starts, flight, attempt, reported, joinerVars, storeVars, busVars>>

Announce ==
    /\ pc = "announce"
    /\ pc' = "launch"
    /\ Emit(Event("tool_call", Current(next), 0, "none"))
    /\ UNCHANGED <<turn, onCaller, next, starts, flight, attempt, reported, joinerVars, storeVars, traffic>>

\* The loop goes on with the next call, or do_turn returns.
GoOn ==
    IF next < InRound THEN pc' = "announce" /\ next' = next + 1
                      ELSE pc' = "idle" /\ UNCHANGED next

\* The error is emitted, and not submitted.
FailInline_NotSubmitted ==
    /\ pc = "launch"
    /\ reported' = [reported EXCEPT ![Current(next)] = "error"]
    /\ Emit(Event("tool_result", Current(next), 0, "error"))
    /\ GoOn
    /\ UNCHANGED <<turn, onCaller, starts, flight, attempt, joinerVars, storeVars, traffic>>

\* An unknown skill, or no worker with the capability: an error on this thread.
FailInline ==
    /\ pc = "launch"
    /\ pc' = "submit"
    /\ reported' = [reported EXCEPT ![Current(next)] = "error"]
    /\ Emit(Event("tool_result", Current(next), 0, "error"))
    /\ UNCHANGED <<turn, onCaller, next, starts, flight, attempt, joinerVars, storeVars, traffic>>

\* on_dispatch without its call=call: the call the loop is at when it runs.
DispatchEvent_LateBound(c, a) == [Event("dispatch", c, a, "none") EXCEPT !.call = Current(next)]

DispatchEvent(c, a) == Event("dispatch", c, a, "none")

\* run_skill's attempt a of call c: on_dispatch, then a Send per worker.
Dispatch(c, a) ==
    /\ attempt' = [attempt EXCEPT ![c] = a]
    /\ flight' = [flight EXCEPT ![c] = "running"]
    /\ Emit(DispatchEvent(c, a))
    /\ traffic' = traffic \cup {Message("skill", Request(c, a), Request(c, a))}

Launch ==
    /\ pc = "launch"
    /\ Dispatch(Current(next), 1)
    /\ GoOn
    /\ UNCHANGED <<turn, onCaller, starts, reported, joinerVars, storeVars>>

\* converse catches it and delivers it, with other calls still running.
LaunchRaises_Delivered ==
    /\ "skill" \in Failures
    /\ pc = "launch"
    /\ Finish("limit")
    /\ UNCHANGED busVars

\* It raises before or after on_dispatch was told; do_turn's thread ends.
LaunchRaises ==
    /\ "skill" \in Failures
    /\ pc = "launch"
    /\ pc' = "raised"
    /\ UNCHANGED traffic
    /\ \/ UNCHANGED <<sink, lost>>
       \/ Emit(DispatchEvent(Current(next), 1))
    /\ UNCHANGED <<turn, onCaller, next, starts, flight, attempt, reported, joinerVars, storeVars>>

-----------------------------------------------------------------------------
(* run_skill on its own threads                                              *)

Retry(c) ==
    /\ flight[c] = "running" /\ attempt[c] < MaxAttempts /\ Retries < MaxRetries
    /\ Dispatch(c, attempt[c] + 1)
    /\ UNCHANGED <<driverVars, reported, joinerVars, storeVars>>

SkillRaises(c) ==
    /\ "skill" \in Failures
    /\ flight[c] = "running"
    /\ flight' = [flight EXCEPT ![c] = "lost"]
    /\ UNCHANGED <<driverVars, attempt, reported, joinerVars, storeVars, busVars>>

\* A check-in: the question names its request_id, the coordinator's _respond
\* sends type, conversation_id and content only.
CheckIn(c) ==
    LET rid == Request(c, attempt[c])
        question == Message("question", rid, rid) IN
    /\ flight[c] = "running"
    /\ question \notin traffic
    /\ Cardinality({m \in traffic : m.kind = "question"}) < MaxCheckIns
    /\ traffic' = traffic \cup {question}
    /\ UNCHANGED <<driverVars, flight, attempt, reported, joinerVars, storeVars, sink, lost>>

CheckInReply(rid) ==
    /\ Message("question", rid, rid) \in traffic
    /\ Message("reply", NoRequest, rid) \notin traffic
    /\ traffic' = traffic \cup {Message("reply", NoRequest, rid)}
    /\ UNCHANGED <<driverVars, flight, attempt, reported, joinerVars, storeVars, sink, lost>>

\* on_result(result), on a thread of its own.
Report(c, r) ==
    /\ flight[c] = "running"
    /\ flight' = [flight EXCEPT ![c] = "reporting"]
    /\ reported' = [reported EXCEPT ![c] = r]
    /\ Emit(Event("tool_result", c, 0, r))
    /\ UNCHANGED <<driverVars, attempt, joinerVars, storeVars, traffic>>

-----------------------------------------------------------------------------
(* _Joiner                                                                   *)

\* The result is recorded under the id of the call the loop is at.
Record_LateBound(c) ==
    /\ recorded' = [recorded EXCEPT ![Current(next)] = reported[c]]
    /\ remaining' = remaining - 1

\* Under the lock: the result and the decrement.
Record(c) ==
    /\ recorded' = [recorded EXCEPT ![c] = reported[c]]
    /\ remaining' = remaining - 1

\* Off by one: the thread before the last goes on as well.
IsLast_OneEarly == remaining <= 2

\* The same critical section decides who was last.
IsLast == remaining = 1

SubmitInline ==
    /\ pc = "submit"
    /\ Record(Current(next))
    /\ \/ IsLast /\ pc' = "advance" /\ UNCHANGED next
       \/ ~IsLast /\ GoOn
    /\ UNCHANGED <<turn, onCaller, starts, flight, attempt, reported, storeVars, busVars>>

Submit(c) ==
    /\ flight[c] = "reporting"
    /\ Record(c)
    /\ flight' = [flight EXCEPT ![c] = IF IsLast THEN "last" ELSE "over"]
    /\ UNCHANGED <<driverVars, attempt, reported, storeVars, busVars>>

Ordered == [i \in 1 .. InRound |-> recorded[Current(i)]]

\* on_all_results: the tool messages in call order, then do_turn(turn + 1).
NextTurn ==
    /\ messages' = [messages EXCEPT ![turn].results = Ordered]
    /\ turn' = turn + 1
    /\ pc' = "chat"
    /\ starts' = [starts EXCEPT ![turn + 1] = @ + 1]
    /\ UNCHANGED <<next, attempt, reported, joinerVars, stored, ends, busVars>>

AdvanceInline ==
    /\ pc = "advance"
    /\ NextTurn
    /\ UNCHANGED <<onCaller, flight>>

Advance(c) ==
    /\ flight[c] = "last"
    /\ flight' = [flight EXCEPT ![c] = "over"]
    /\ NextTurn
    /\ onCaller' = FALSE

-----------------------------------------------------------------------------
Drive ==
    \/ GiveUp \/ Conclude \/ (\E n \in 1 .. MaxCalls : Ask(n))
    \/ Announce \/ FailInline \/ Launch \/ SubmitInline \/ AdvanceInline

Settle(c) == (\E r \in Results : Report(c, r)) \/ Submit(c) \/ Advance(c)

Next ==
    \/ Drive \/ ChatRaises \/ LaunchRaises \/ SinkExpires
    \/ \E c \in Calls :
          \/ Settle(c) \/ Retry(c) \/ SkillRaises(c) \/ CheckIn(c)
          \/ \E a \in 1 .. MaxAttempts : CheckInReply(Request(c, a))

Spec == Init /\ [][Next]_vars

\* Threads run, and run_skill calls on_result (RunSkill!ResultArrives).
FairSpec == Spec /\ WF_vars(Drive) /\ \A c \in Calls : WF_vars(Settle(c))

-----------------------------------------------------------------------------
(* Properties                                                                *)

TypeOK ==
    /\ turn \in 1 .. MaxTurns + 1
    /\ pc \in {"chat", "announce", "launch", "submit", "advance", "idle", "over", "raised"}
    /\ onCaller \in BOOLEAN
    /\ next \in 1 .. MaxCalls
    /\ flight \in [Calls -> {"none", "running", "reporting", "last", "over", "lost"}]
    /\ attempt \in [Calls -> 0 .. MaxAttempts]
    /\ reported \in [Calls -> Results \cup {"none"}]
    /\ recorded \in [Calls -> Results \cup {"none"}]
    /\ remaining \in 0 .. MaxCalls
    /\ messages \in Seq([calls : 1 .. MaxCalls, results : Seq(Results)])
    /\ stored \in BOOLEAN
    /\ ends \in Seq({"answer", "limit"})
    /\ starts \in [1 .. MaxTurns + 1 -> Nat]
    /\ lost \in 0 .. MaxLost

Active(c) == flight[c] \in {"running", "reporting", "last"}

\* The turn goes on exactly once per round, however the results of its calls
\* race: no turn is ever started twice, and while a thread drives a turn nothing
\* of an earlier round is still under way.
AdvancesOnce ==
    /\ \A t \in DOMAIN starts : starts[t] <= 1
    /\ \A c \in Calls : Active(c) => c[1] = turn
    /\ Cardinality({c \in Calls : flight[c] = "last"})
         + (IF pc \in {"idle", "over", "raised"} THEN 0 ELSE 1) <= 1

\* Each tool message of the transcript carries the result of its own call, in
\* the order the model asked, and a round that another one follows is complete.
OwnResults ==
    \A t \in DOMAIN messages :
        \/ t = turn /\ messages[t].results = <<>>
        \/ /\ Len(messages[t].results) = messages[t].calls
           /\ \A i \in 1 .. messages[t].calls :
                 messages[t].results[i] = reported[<<t, i>>] /\ reported[<<t, i>>] # "none"

\* The caller gets one end, an on_done or an exception, and after an on_done
\* nothing of the conversation runs or is remembered.
EndsOnce ==
    /\ Len(ends) + (IF pc = "raised" /\ onCaller THEN 1 ELSE 0) <= 1
    /\ ends # <<>> => ~stored /\ \A c \in Calls : ~Active(c)

Loop == INSTANCE ToolLoop
    WITH transcript <- messages, outcome <- IF ends = <<>> THEN "open" ELSE ends[1]

\* All this concurrency implements the sequential loop.
ImplementsLoop == Loop!Spec

\* Whoever called converse waits for on_done, without a timeout, unless converse
\* itself raised.
CallerReleased == ends # <<>> \/ (pc = "raised" /\ onCaller)

\* A thread other than the caller's raised, and nobody was told.
ThreadDied == (pc = "raised" /\ ~onCaller) \/ \E c \in Calls : flight[c] = "lost"

\* The caller of converse is released, unless a thread of the conversation died.
Concludes == <>(CallerReleased \/ ThreadDied)
=============================================================================
