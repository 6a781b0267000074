------------------------------ MODULE Dialogue ------------------------------
(****************************************************************************)
(* dialogue.AgentDialogue on two agents: the head, whose check-ins start       *)
(* conversations, and a worker, which only ever answers.                      *)
(*                                                                           *)
(* Both have handle() as the default handler of their bus, and handle() has   *)
(* one way to tell a reply from a new conversation: is somebody waiting for   *)
(* this conversation_id?  Each callback and each answer runs on a thread of   *)
(* its own; the messages are numbered in the order they are composed.         *)
(****************************************************************************)
EXTENDS Naturals, Sequences, FiniteSets

CONSTANTS
    Initiator, Responder, \* the two agents
    Convs,        \* conversation ids
    MaxQuestions, \* questions per conversation: check_in_max_turns, or 1 if that is 0
    MaxMessages,  \* bound: messages per conversation
    MaxFaults,    \* bound: how many failures happen
    Failures      \* which of AllFailures may happen

AllFailures ==
    {"chat",      \* llm_client.chat raises in _respond
     "send",      \* Messenger.Send fails, which it logs and hides
     "redeliver", \* the inbox's ack fails: the message is received again
     "restart"}   \* the agent's process dies and is started again

ASSUME DialogueAssumption ==
    /\ Initiator # Responder
    /\ MaxQuestions \in Nat \ {0} /\ MaxMessages \in Nat /\ MaxFaults \in Nat
    /\ Failures \subseteq AllFailures

Agents == {Initiator, Responder}
Other(a) == IF a = Initiator THEN Responder ELSE Initiator

VARIABLES
    waiting,   \* per agent: the conversations in _waiting
    sessions,  \* per agent and conversation: the numbers in _sessions' history
    inbox,     \* per agent: what its router will receive, as [conv, n]
    threads,   \* started threads, each a record with its local variables
    count,     \* messages composed so far in each conversation
    asked,     \* questions sent or about to be sent, by start and reply
    heard,     \* the initiator's transcript: the numbers it asked and heard
    faults,    \* how many failures happened
    disturbed  \* history: conversations a failure touched

dialogueVars == <<waiting, sessions, inbox, threads, count, asked, heard, faults, disturbed>>

Thread(stage, a, c, n, history) ==
    [stage |-> stage, agent |-> a, conv |-> c, n |-> n, history |-> history]

Fault(kind, touched) ==
    /\ kind \in Failures /\ faults < MaxFaults
    /\ faults' = faults + 1
    /\ disturbed' = disturbed \cup touched

NoFault == UNCHANGED <<faults, disturbed>>

DialogueInit ==
    /\ waiting = [a \in Agents |-> {}]
    /\ sessions = [a \in Agents |-> [c \in Convs |-> <<>>]]
    /\ inbox = [a \in Agents |-> <<>>]
    /\ threads = {}
    /\ count = [c \in Convs |-> 0]
    /\ asked = [c \in Convs |-> 0]
    /\ heard = [c \in Convs |-> <<>>]
    /\ faults = 0 /\ disturbed = {}

\* bus.Send: the message arrives, or fails without a word.
Send(a, c, n) ==
    \/ /\ inbox' = [inbox EXCEPT ![Other(a)] = Append(@, [conv |-> c, n |-> n])]
       /\ NoFault
    \/ /\ Fault("send", {c})
       /\ UNCHANGED inbox

-----------------------------------------------------------------------------
(* The initiator                                                             *)

\* A waiter is expected to be there still from the first question.
Ask_NoWaiter(c, history, done) ==
    /\ asked[c] < MaxQuestions /\ count[c] < MaxMessages
    /\ count' = [count EXCEPT ![c] = @ + 1]
    /\ asked' = [asked EXCEPT ![c] = @ + 1]
    /\ heard' = [heard EXCEPT ![c] = history \o <<count[c] + 1>>]
    /\ waiting' = [waiting EXCEPT ![Initiator] = IF asked[c] = 0 THEN @ \cup {c} ELSE @]
    /\ threads' = (threads \ done) \cup {Thread("ask", Initiator, c, count[c] + 1, <<>>)}

\* start or reply: the waiter is registered, then the question is sent.
Ask(c, history, done) ==
    /\ asked[c] < MaxQuestions /\ count[c] < MaxMessages
    /\ count' = [count EXCEPT ![c] = @ + 1]
    /\ asked' = [asked EXCEPT ![c] = @ + 1]
    /\ heard' = [heard EXCEPT ![c] = history \o <<count[c] + 1>>]
    /\ waiting' = [waiting EXCEPT ![Initiator] = @ \cup {c}]
    /\ threads' = (threads \ done) \cup {Thread("ask", Initiator, c, count[c] + 1, <<>>)}

Start(c) ==
    /\ count[c] = 0
    /\ Ask(c, <<>>, {})
    /\ UNCHANGED <<sessions, inbox, faults, disturbed>>

SendQuestion(t) ==
    /\ t.stage = "ask"
    /\ threads' = threads \ {t}
    /\ Send(t.agent, t.conv, t.n)
    /\ UNCHANGED <<waiting, sessions, count, asked, heard>>

\* on_checkin_reply hears the answer and asks a follow-up, or lets it end.
AskAgain(t) ==
    /\ t.stage = "callback"
    /\ Ask(t.conv, heard[t.conv] \o <<t.n>>, {t})
    /\ UNCHANGED <<sessions, inbox, faults, disturbed>>

LetEnd(t) ==
    /\ t.stage = "callback"
    /\ heard' = [heard EXCEPT ![t.conv] = @ \o <<t.n>>]
    /\ threads' = threads \ {t}
    /\ UNCHANGED <<waiting, sessions, inbox, count, asked, faults, disturbed>>

-----------------------------------------------------------------------------
(* handle                                                                    *)

\* The waiter is looked up, not popped.
HandleMessage_KeepsWaiter(a) ==
    /\ inbox[a] # <<>>
    /\ LET m == inbox[a][1] IN
          /\ threads' = threads \cup {Thread(
                IF m.conv \in waiting[a] THEN "callback" ELSE "respond", a, m.conv, m.n, <<>>)}
    /\ inbox' = [inbox EXCEPT ![a] = Tail(@)]
    /\ UNCHANGED <<waiting, sessions, count, asked, heard, faults, disturbed>>

\* One message of a's inbox.  If the ack fails it stays, to be handled again.
HandleMessage(a) ==
    /\ inbox[a] # <<>>
    /\ LET m == inbox[a][1] IN
          /\ waiting' = [waiting EXCEPT ![a] = @ \ {m.conv}]
          /\ threads' = threads \cup {Thread(
                IF m.conv \in waiting[a] THEN "callback" ELSE "respond", a, m.conv, m.n, <<>>)}
          /\ \/ /\ inbox' = [inbox EXCEPT ![a] = Tail(@)]
                /\ NoFault
             \/ /\ Fault("redeliver", {m.conv})
                /\ UNCHANGED inbox
    /\ UNCHANGED <<sessions, count, asked, heard>>

-----------------------------------------------------------------------------
(* _respond                                                                  *)

Move(t, u) == threads' = (threads \ {t}) \cup {u}

\* The history so far is copied, and the message appended to the copy.
RespondRead(t) ==
    /\ t.stage = "respond"
    /\ Move(t, [t EXCEPT !.stage = "chat", !.history = Append(sessions[t.agent][t.conv], t.n)])
    /\ UNCHANGED <<waiting, sessions, inbox, count, asked, heard, faults, disturbed>>

ChatRaises(t) ==
    /\ t.stage = "chat"
    /\ Fault("chat", {t.conv})
    /\ threads' = threads \ {t}
    /\ UNCHANGED <<waiting, sessions, inbox, count, asked, heard>>

\* The reply is sent before the history is written back.
RespondWrite_AfterSend(t) ==
    /\ \/ t.stage = "chat" /\ count[t.conv] < MaxMessages
       \/ t.stage = "sent"
    /\ LET n == IF t.stage = "chat" THEN count[t.conv] + 1 ELSE t.n IN
          IF t.stage = "chat"
            THEN /\ Move(t, [t EXCEPT !.stage = "sent", !.n = n, !.history = Append(@, n)])
                 /\ count' = [count EXCEPT ![t.conv] = n]
                 /\ Send(t.agent, t.conv, n)
                 /\ UNCHANGED sessions
            ELSE /\ sessions' = [sessions EXCEPT ![t.agent][t.conv] = t.history]
                 /\ threads' = threads \ {t}
                 /\ UNCHANGED <<count, inbox, faults, disturbed>>
    /\ UNCHANGED <<waiting, asked, heard>>

\* The LLM answers; the copy is written back over whatever is there by now.
RespondWrite(t) ==
    /\ t.stage = "chat" /\ count[t.conv] < MaxMessages
    /\ LET n == count[t.conv] + 1 IN
          /\ count' = [count EXCEPT ![t.conv] = n]
          /\ sessions' = [sessions EXCEPT ![t.agent][t.conv] = Append(t.history, n)]
          /\ Move(t, [t EXCEPT !.stage = "reply", !.n = n])
    /\ UNCHANGED <<waiting, inbox, asked, heard, faults, disturbed>>

RespondSend(t) ==
    /\ t.stage = "reply"
    /\ threads' = threads \ {t}
    /\ Send(t.agent, t.conv, t.n)
    /\ UNCHANGED <<waiting, sessions, count, asked, heard>>

-----------------------------------------------------------------------------
\* The process is gone with its _waiting, its _sessions and its threads; the
\* inbox is in Redis.  Check-ins die with the head.
Restart(a) ==
    LET touched == {c \in Convs : count[c] > 0} IN
    /\ touched # {}
    /\ Fault("restart", touched)
    /\ waiting' = [waiting EXCEPT ![a] = {}]
    /\ sessions' = [sessions EXCEPT ![a] = [c \in Convs |-> <<>>]]
    /\ threads' = {t \in threads : t.agent # a}
    /\ UNCHANGED <<inbox, count, asked, heard>>

Run(t) ==
    \/ SendQuestion(t) \/ AskAgain(t) \/ LetEnd(t)
    \/ RespondRead(t) \/ RespondWrite(t) \/ RespondSend(t)

DialogueNext ==
    \/ \E c \in Convs : Start(c)
    \/ \E a \in Agents : HandleMessage(a) \/ Restart(a)
    \/ \E t \in threads : Run(t) \/ ChatRaises(t)

DialogueSpec == DialogueInit /\ [][DialogueNext]_dialogueVars

\* The routers poll, and started threads run.
DialogueFairSpec ==
    /\ DialogueSpec
    /\ \A a \in Agents : WF_dialogueVars(HandleMessage(a))
    /\ WF_dialogueVars(\E t \in threads : Run(t))

-----------------------------------------------------------------------------
(* Properties                                                                *)

Messages == [conv : Convs, n : 1 .. MaxMessages]

DialogueTypeOK ==
    /\ waiting \in [Agents -> SUBSET Convs]
    /\ sessions \in [Agents -> [Convs -> Seq(1 .. MaxMessages)]]
    /\ inbox \in [Agents -> Seq(Messages)]
    /\ \A t \in threads :
          /\ t.stage \in {"ask", "callback", "respond", "chat", "reply"}
          /\ t.agent \in Agents /\ t.conv \in Convs /\ t.n \in 1 .. MaxMessages
    /\ count \in [Convs -> 0 .. MaxMessages]
    /\ asked \in [Convs -> 0 .. MaxQuestions]
    /\ heard \in [Convs -> Seq(1 .. MaxMessages)]
    /\ disturbed \subseteq Convs

Counting(s) == \A i \in DOMAIN s : s[i] = i

\* As long as no failure touches a conversation, both sides hold the same one:
\* every message, in order, none twice.  The responder keeps no lock while the
\* LLM thinks; what protects its history is that the initiator waits for the
\* answer and that the answer leaves after the history was written.
HistoriesAgree ==
    \A c \in Convs \ disturbed : Counting(sessions[Responder][c]) /\ Counting(heard[c])

\* "an incoming message this agent didn't initiate": as long as no failure
\* touches a conversation its initiator never answers it as a stranger's.  After
\* one (a reply received twice, or by a head that restarted) it does, and so
\* does the other side: each answers the other's answers for ever.
NoEcho ==
    \A c \in Convs \ disturbed :
        /\ sessions[Initiator][c] = <<>>
        /\ \A t \in threads : t.conv = c /\ t.agent = Initiator => t.stage \in {"ask", "callback"}

\* A registered on_reply fires once, whatever is redelivered: never more answers
\* heard than questions asked, and nobody waits for an answer already heard.
RepliesOnce ==
    \A c \in Convs :
        LET callbacks == Cardinality({t \in threads : t.conv = c /\ t.stage = "callback"}) IN
        /\ Len(heard[c]) + callbacks <= 2 * asked[c]
        /\ c \in waiting[Initiator] => Len(heard[c]) + callbacks < 2 * asked[c]

\* Every question is answered and its waiter gone, unless a failure touched the
\* conversation.
AnswersCome ==
    \A c \in Convs :
        [](count[c] > 0 => <>(c \in disturbed \/ (Len(heard[c]) = 2 * asked[c] /\ c \notin waiting[Initiator])))

\* A conversation no failure touches is one conversation: both sides hold the same
\* messages and nobody answers an answer (and everything has its type).
Undisturbed == DialogueTypeOK /\ HistoriesAgree /\ NoEcho
=============================================================================
