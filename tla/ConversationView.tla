-------------------------- MODULE ConversationView --------------------------
(****************************************************************************)
(* composer-api/conversations.py: the conversation as it can be rebuilt from  *)
(* what the bus still holds.  collect indexes every message by conv_id and    *)
(* request_id; build_conversation nests the dispatch traffic under the tool   *)
(* call that caused it.  Both are pure: here, operators over Conversation's    *)
(* sink and traffic, read at any moment of any execution.                     *)
(****************************************************************************)
EXTENDS Conversation

\* Every message on the buses, by the request_id that threads it.
ByRequest(rid) == {m \in traffic : m.request = rid /\ rid # NoRequest}

Events(what) == {e \in sink : e.event = what}

\* request_owner: the requests some dispatch event places in a conversation.
Owned == {e.request : e \in Events("dispatch")}

\* calls: the tool calls whose tool_call event is there.
ShownCalls == {e.call : e \in Events("tool_call")}

\* A call's attempts, in its record.
AttemptsOf(c) == {e.request : e \in {d \in Events("dispatch") : d.call = c}}

\* The dispatch events of calls that are not known are skipped.
Orphans_Dropped == {}

\* A dispatch whose tool_call is missing is a step of its own.
Orphans == {e.request : e \in {d \in Events("dispatch") : d.call \notin ShownCalls}}

\* The result shown for a call: that of its tool_result.
ResultsOf(c) == {e.result : e \in {d \in Events("tool_result") : d.call = c}}

\* Requests placed in no conversation we can see.
Unattributed == {m.request : m \in traffic} \ (Owned \cup {NoRequest})

\* A conversation that has any results looks finished.
Status_OfResults == IF Events("tool_result") # {} THEN "answered" ELSE "incomplete"

Status == IF Events("final") # {} THEN "answered" ELSE "incomplete"

\* list_conversations: attempt_count, the attempts nested under a call.
AttemptCount == Cardinality({x \in ShownCalls \X Owned : x[2] \in AttemptsOf(x[1])})

\* The request_ids under which some traffic is shown.
Shown == (UNION {AttemptsOf(c) : c \in ShownCalls}) \cup Orphans \cup Unattributed

-----------------------------------------------------------------------------
(* Properties                                                                *)

\* Whatever two calls of a round overlap, were retried, or lost an event: an
\* attempt is shown under the call that made it, the result next to it is the
\* one that the model was given, and more attempts than calls "means something
\* was retried".
AttributedRight ==
    \A c \in ShownCalls :
        /\ \A rid \in AttemptsOf(c) : <<rid[1], rid[2]>> = c
        /\ ResultsOf(c) \subseteq {reported[c]}
        /\ recorded[c] # "none" => ResultsOf(c) \subseteq {recorded[c]}
        /\ AttemptCount > Cardinality(ShownCalls) => \E d \in Calls : attempt[d] > 1

\* No request with traffic on the bus is hidden, whichever events were not
\* published or have expired: one that a conversation owns is among its attempts
\* or orphans, the others are unattributed.  A message without a request, such as
\* a check-in's reply, is shown nowhere: nothing of it could be looked up.
NothingHidden == \A m \in traffic : m.request # NoRequest => m.request \in Shown

\* A conversation is shown as answered only if it was, and, as long as no event
\* was lost, whenever it was.
StatusIsTrue ==
    /\ Status = "answered" => ends = <<"answer">>
    /\ lost = 0 /\ ends = <<"answer">> => Status = "answered"

\* What the Composer rebuilds from the bus is what happened: attempts under their
\* own calls, no request left out, and the right end.
ViewIsTrue == AttributedRight /\ NothingHidden /\ StatusIsTrue
=============================================================================
