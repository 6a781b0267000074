---------------------------- MODULE QueryFeature ----------------------------
(****************************************************************************)
(* One invocation of a skill that the first responder answers                 *)
(* (skills/query_feature.py, and skills/list_tags.py without the broker):     *)
(* it is dispatched to every worker, those who do not hold the source keep     *)
(* silent, and the coordinator, a worker itself, returns the first answer.    *)
(*                                                                           *)
(* A holder has the source locally or behind a broker, which DataSources      *)
(* looks into.  The inbox and the router are a queue of answers in any order  *)
(* of arrival, which forget drops and a late answer creates again.            *)
(****************************************************************************)
EXTENDS DataSources

CONSTANTS
    Coordinator,   \* the worker whose coordinate() answers
    SendFails,     \* the workers whose Send of an answer may fail
    Holdings       \* what the workers' configuration files may have

ASSUME QueryFeatureAssumption ==
    /\ Coordinator \in Workers /\ SendFails \subseteq Workers
    /\ Holdings \subseteq [Workers -> {"none", "local", "broker", "unreadable"}]

VARIABLES
    holds,       \* find_source on each worker: none, local, broker, unreadable
    contributor, \* each worker's contribute: idle, query, over, raised
    queue,       \* the router's queue for request_id
    coordinator, \* coordinate: off, top of its loop, receive, over
    deadline,    \* has coordinate_timeout passed?
    cancelled,   \* ctx.cancelled.is_set()
    result,      \* none, cancelled, notfound, or the answer returned
    arrived      \* history: the answers that came while it listened, in order

skillVars == <<holds, contributor, queue, coordinator, deadline, cancelled, result, arrived>>
vars == <<dataVars, skillVars>>

Answer(w, status) == [from |-> w, status |-> status]
NoResult == {Answer(Coordinator, s) : s \in {"none", "cancelled", "notfound"}}

Init ==
    /\ DataInit
    /\ holds \in Holdings
    /\ contributor = [w \in Workers |-> "idle"]
    /\ queue = <<>> /\ coordinator = "off"
    /\ deadline = FALSE /\ cancelled = FALSE
    /\ result = Answer(Coordinator, "none")
    /\ arrived = <<>>

-----------------------------------------------------------------------------
(* contribute, on every worker                                               *)

\* The answer goes to the coordinator, also to oneself; a Send that fails says
\* so in a status nobody looks at.
SendAnswer(w, status) ==
    /\ contributor' = [contributor EXCEPT ![w] = "over"]
    /\ \/ /\ queue' = Append(queue, Answer(w, status))
          /\ arrived' = IF deadline /\ coordinator # "receive" THEN arrived ELSE Append(arrived, Answer(w, status))
       \/ w \in SendFails /\ UNCHANGED <<queue, arrived>>
    /\ UNCHANGED <<holds, coordinator, deadline, cancelled, result>>

\* Not mine: nothing is sent.  Otherwise the connector or the broker is asked.
Contribute(w) ==
    /\ contributor[w] = "idle"
    /\ \/ /\ holds[w] = "none"
          /\ contributor' = [contributor EXCEPT ![w] = "over"]
          /\ UNCHANGED <<dataVars, holds, queue, coordinator, deadline, cancelled, result, arrived>>
       \/ /\ holds[w] = "local"
          /\ \E status \in {"ok", "error"} : SendAnswer(w, status)
          /\ UNCHANGED dataVars
       \/ /\ holds[w] = "broker"
          /\ Call(w)
          /\ contributor' = [contributor EXCEPT ![w] = "query"]
          /\ UNCHANGED <<holds, queue, coordinator, deadline, cancelled, result, arrived>>

\* load_local_config raises, outside contribute's try: the head is told, the
\* coordinator is not, and it may be the coordinator itself.
ContributeRaises(w) ==
    /\ contributor[w] = "idle" /\ holds[w] = "unreadable"
    /\ contributor' = [contributor EXCEPT ![w] = "raised"]
    /\ UNCHANGED <<dataVars, holds, queue, coordinator, deadline, cancelled, result, arrived>>

\* query_data_source has returned or raised.
Queried(w) ==
    /\ contributor[w] = "query" /\ client[w] = "over"
    /\ SendAnswer(w, IF outcome[w] = "ok" THEN "ok" ELSE "error")
    /\ UNCHANGED dataVars

-----------------------------------------------------------------------------
(* coordinate, on the coordinator, after its own contribute                  *)

\* coordinate returns; its finally clause forgets the router's queue.
ReturnResult(r) ==
    /\ coordinator' = "over"
    /\ result' = r
    /\ queue' = <<>>

CoordinateBegin ==
    /\ coordinator = "off" /\ contributor[Coordinator] = "over"
    /\ coordinator' = "top"
    /\ UNCHANGED <<dataVars, holds, contributor, queue, deadline, cancelled, result, arrived>>

\* Time passes while receive_for waits.
DeadlinePasses ==
    /\ coordinator = "receive" /\ queue = <<>> /\ ~deadline
    /\ deadline' = TRUE
    /\ UNCHANGED <<dataVars, holds, contributor, queue, coordinator, cancelled, result, arrived>>

\* The top of the loop, and what follows it.
LoopTop ==
    /\ coordinator = "top"
    /\ \/ cancelled /\ ReturnResult(Answer(Coordinator, "cancelled"))
       \/ ~cancelled /\ ~deadline /\ coordinator' = "receive" /\ UNCHANGED <<result, queue>>
       \/ ~cancelled /\ deadline /\ ReturnResult(Answer(Coordinator, "notfound"))
    /\ UNCHANGED <<dataVars, holds, contributor, deadline, cancelled, arrived>>

\* The deadline is looked at once more when an answer is there.
ReceiveAnswer_IfInTime ==
    /\ coordinator = "receive" /\ queue # <<>>
    /\ IF deadline THEN coordinator' = "top" /\ UNCHANGED <<queue, result>>
       ELSE ReturnResult(Head(queue))
    /\ UNCHANGED <<dataVars, holds, contributor, deadline, cancelled, arrived>>

\* The loop goes on until somebody answers ok.
ReceiveAnswer_OnlyOk ==
    /\ coordinator = "receive" /\ queue # <<>>
    /\ IF Head(queue).status = "ok" THEN ReturnResult(Head(queue))
       ELSE coordinator' = "top" /\ queue' = Tail(queue) /\ UNCHANGED result
    /\ UNCHANGED <<dataVars, holds, contributor, deadline, cancelled, arrived>>

\* receive_for finds an answer, the first one: that is it, ok or an error.
ReceiveAnswer ==
    /\ coordinator = "receive" /\ queue # <<>>
    /\ ReturnResult(Head(queue))
    /\ UNCHANGED <<dataVars, holds, contributor, deadline, cancelled, arrived>>

\* ... or its second passes.
ReceiveNothing ==
    /\ coordinator = "receive" /\ queue = <<>>
    /\ coordinator' = "top"
    /\ UNCHANGED <<dataVars, holds, contributor, queue, deadline, cancelled, result, arrived>>

\* skill_cancel: the head has given this attempt up; sooner is as good as now.
Cancel ==
    /\ ~cancelled /\ coordinator \in {"top", "receive"}
    /\ cancelled' = TRUE
    /\ UNCHANGED <<dataVars, holds, contributor, queue, coordinator, deadline, result, arrived>>

-----------------------------------------------------------------------------
CoordinatorStep == CoordinateBegin \/ LoopTop \/ ReceiveAnswer \/ ReceiveNothing

ContributorStep(w) ==
    Contribute(w) \/ ContributeRaises(w) \/ Queried(w) \/ (Querying(w) /\ UNCHANGED skillVars)

Next ==
    \/ \E w \in Workers : ContributorStep(w) \/ (QueryEnds(w) /\ UNCHANGED skillVars)
    \/ (Broker \/ Composer) /\ UNCHANGED skillVars
    \/ CoordinatorStep \/ DeadlinePasses \/ Cancel

Spec == Init /\ [][Next]_vars

-----------------------------------------------------------------------------
(* Properties                                                                *)

TypeOK ==
    /\ entry \in Entries /\ disk \in Entries
    /\ torn \in BOOLEAN /\ up \in BOOLEAN /\ diverged \in BOOLEAN
    /\ persist \in {"no", "open", "write"}
    /\ token \in [Workers -> {"none", "live", "expired"}]
    /\ client \in [Workers -> {"idle", "login", "relogin", "list", "relist", "ask", "reask", "wait", "over"}]
    /\ bearer \in [Workers -> {"none", "live", "expired"}]
    /\ outcome \in [Workers -> {"none", "ok", "query_failed", "login_failed", "unauthorized",
                                "unregistered", "refused", "raised"}]
    /\ busy \subseteq Workers /\ authorizing \subseteq Workers
    /\ backlog \in Seq(Workers)
    /\ running \subseteq Workers /\ Cardinality(running) <= PoolSize
    /\ granted \subseteq Workers /\ excuse \subseteq Workers
    /\ holds \in Holdings
    /\ contributor \in [Workers -> {"idle", "query", "over", "raised"}]
    /\ queue \in Seq([from : Workers, status : {"ok", "error"}])
    /\ arrived \in Seq([from : Workers, status : {"ok", "error"}])
    /\ coordinator \in {"off", "top", "receive", "over"}
    /\ deadline \in BOOLEAN /\ cancelled \in BOOLEAN
    /\ result \in [from : Workers, status : {"none", "cancelled", "notfound", "ok", "error"}]

\* Whoever answers holds the source, and of the answers that came while the
\* coordinator listened the first is returned, be it an error.
FirstAnswer ==
    result \notin NoResult =>
        /\ holds[result.from] \in {"local", "broker"}
        /\ arrived # <<>> => result = arrived[1]

\* "No worker holding data source ... responded" is said only when no answer came
\* up to the end of the last receive_for: a holder that keeps silent was too slow,
\* raised, or lost its Send.
NotFoundRight == result.status = "notfound" => arrived = <<>>

\* A query runs at the data source, and its result reaches a worker, only if the
\* registry allowed that worker at some time after the broker was asked, however
\* the Composer crashes, is changed or loads a file that was cut short.
GrantedOnly ==
    \A w \in Workers :
        w \in running \/ outcome[w] \in {"ok", "query_failed"} => w \in granted

\* A worker that logged in, or whose sources were listed, is turned away only if
\* since then its session expired, its grant went, or the Composer was down or
\* held up by a login.
RefusedRight ==
    \A w \in Workers : outcome[w] \in {"unauthorized", "refused"} => w \in excuse

\* Between two requests, a restart would bring back the registry as it is, as
\* long as no write of the file failed.
DiskAgrees == up /\ persist = "no" /\ ~diverged => ~torn /\ disk = entry

\* What the coordinator answers, it answers rightly: the first answer if one came,
\* "not found" if none did (and everything has its type).
AnswerFound == TypeOK /\ FirstAnswer /\ NotFoundRight

\* The registry decides who gets an answer from a data source: nobody it did not
\* allow does, and nobody it allows is turned away without a cause.
AccessRight == GrantedOnly /\ RefusedRight
=============================================================================
