---------------------------- MODULE SkillBarrier ----------------------------
(****************************************************************************)
(* One invocation of an aggregating skill (skills/sum.py, skills/median.py):  *)
(* every worker Maps its local value into the invocation's own Mapper and     *)
(* then sends the coordinator a ready message; the coordinator, a worker      *)
(* itself, waits for all of them or for its deadline and folds what it        *)
(* gathers.                                                                  *)
(*                                                                           *)
(* The store is Mapper, with the coordinator as its only reader and nothing   *)
(* expiring: a value lives an hour, coordinate 15 seconds.  The inbox and     *)
(* the router are reduced to a queue of ready messages in any arrival         *)
(* order; Messenger and MessageRouter look into them.                        *)
(****************************************************************************)
EXTENDS Mapper, Sequences

CONSTANTS
    Coordinator,   \* the worker whose coordinate() answers
    SendFails      \* may the Send of a ready message fail?

ASSUME BarrierAssumption ==
    /\ Coordinator \in Keys
    /\ Readers = {Coordinator}
    /\ SendFails \in BOOLEAN
    /\ ~MayExpire

Workers == Keys

VARIABLES
    contributor, \* each worker's contribute: idle, map, over, raised
    queue,       \* the router's queue for request_id
    coordinator, \* coordinate: off, wait, aggregate, gather, over
    readyFrom,   \* ready_from
    deadline,    \* has coordinate_timeout passed?
    cancelled,   \* ctx.cancelled.is_set()
    result       \* none, ok, cancelled, map_failed, missing, aggregate_failed

coordVars == <<coordinator, readyFrom, deadline, result>>
vars == <<mapperVars, contributor, queue, coordVars, cancelled>>

Init ==
    /\ MapperInit
    /\ contributor = [w \in Workers |-> "idle"]
    /\ queue = <<>>
    /\ coordinator = "off"
    /\ readyFrom = {}
    /\ deadline = FALSE
    /\ cancelled = FALSE
    /\ result = "none"

-----------------------------------------------------------------------------
(* contribute, on every worker                                               *)

\* The dispatch arrives; the local value is computed and Map called.
Contribute(w) ==
    /\ contributor[w] = "idle"
    /\ contributor' = [contributor EXCEPT ![w] = "map"]
    /\ MapCall(w)
    /\ UNCHANGED <<queue, coordVars, cancelled>>

\* local_numbers() raises: the head is told, the coordinator is not.
ContributeRaises(w) ==
    /\ contributor[w] = "idle"
    /\ contributor' = [contributor EXCEPT ![w] = "raised"]
    /\ UNCHANGED <<mapperVars, queue, coordVars, cancelled>>

Mapping(w) ==
    /\ MapStep(w)
    /\ UNCHANGED <<contributor, queue, coordVars, cancelled>>

Ready(w) == [from |-> w, map_status |-> status[w] = "ok"]

\* Map has returned, and its status goes to the coordinator, also to oneself.
\* Send reports its failure in a status nobody looks at.
SendReady(w) ==
    /\ contributor[w] = "map" /\ writer[w] = "idle"
    /\ contributor' = [contributor EXCEPT ![w] = "over"]
    /\ \/ queue' = Append(queue, Ready(w))
       \/ SendFails /\ UNCHANGED queue
    /\ UNCHANGED <<mapperVars, coordVars, cancelled>>

-----------------------------------------------------------------------------
(* coordinate, on the coordinator, after its own contribute                  *)

\* coordinate returns; its finally clause forgets the router's queue.
ReturnResult(r) ==
    /\ coordinator' = "over"
    /\ result' = r
    /\ queue' = <<>>

CoordinateBegin ==
    /\ coordinator = "off" /\ contributor[Coordinator] = "over"
    /\ coordinator' = "wait"
    /\ UNCHANGED <<mapperVars, contributor, queue, readyFrom, deadline, result, cancelled>>

DeadlinePasses ==
    /\ coordinator = "wait"
    /\ ~deadline
    /\ deadline' = TRUE
    /\ UNCHANGED <<mapperVars, contributor, queue, coordinator, readyFrom, result, cancelled>>

\* One more turn of the loop finds a message.
Receive(m) ==
    \/ /\ ~m.map_status
       /\ ReturnResult("map_failed")
       /\ UNCHANGED readyFrom
    \/ /\ m.map_status
       /\ readyFrom' = readyFrom \cup {m.from}
       /\ queue' = Tail(queue)
       /\ UNCHANGED <<coordinator, result>>

ReceiveReady ==
    /\ coordinator = "wait"
    /\ readyFrom # Workers /\ ~deadline /\ ~cancelled
    /\ queue # <<>>
    /\ Receive(Head(queue))
    /\ UNCHANGED <<mapperVars, contributor, deadline, cancelled>>

\* ctx.cancelled, looked at in every turn of the loop and after it.
SeeCancelled ==
    /\ coordinator = "wait" /\ cancelled
    /\ ReturnResult("cancelled")
    /\ UNCHANGED <<mapperVars, contributor, readyFrom, deadline, cancelled>>

\* At the deadline the coordinator makes do with whoever is ready.
StopWaiting_AnyReady ==
    /\ coordinator = "wait" /\ ~cancelled
    /\ readyFrom = Workers \/ deadline
    /\ coordinator' = "aggregate"
    /\ UNCHANGED <<mapperVars, contributor, queue, readyFrom, deadline, result, cancelled>>

\* The deadline is not looked at.
StopWaiting_NoDeadline ==
    /\ coordinator = "wait" /\ ~cancelled
    /\ readyFrom = Workers
    /\ coordinator' = "aggregate"
    /\ UNCHANGED <<mapperVars, contributor, queue, readyFrom, deadline, result, cancelled>>

\* The loop ends: workers are missing, or the fold begins.
StopWaiting ==
    /\ coordinator = "wait" /\ ~cancelled
    /\ readyFrom = Workers \/ deadline
    /\ \/ /\ readyFrom # Workers
          /\ ReturnResult("missing")
       \/ /\ readyFrom = Workers
          /\ coordinator' = "aggregate"
          /\ UNCHANGED <<queue, result>>
    /\ UNCHANGED <<mapperVars, contributor, readyFrom, deadline, cancelled>>

\* Aggregate: Reduce gathers ...
AggregateBegin ==
    /\ coordinator = "aggregate"
    /\ coordinator' = "gather"
    /\ GatherCall(Coordinator)
    /\ UNCHANGED <<contributor, queue, readyFrom, deadline, result, cancelled>>

Gathering ==
    /\ GatherStep(Coordinator)
    /\ UNCHANGED <<contributor, queue, coordVars, cancelled>>

\* ... and folds; the fold is stored on the global Mapper, which may fail too.
AggregateReturn ==
    /\ coordinator = "gather" /\ reader[Coordinator] = "idle"
    /\ \/ gatherStatus[Coordinator] = "ok" /\ ReturnResult("ok")
       \/ /\ gatherStatus[Coordinator] = "failed" \/ "error" \in Faults
          /\ ReturnResult("aggregate_failed")
    /\ UNCHANGED <<mapperVars, contributor, readyFrom, deadline, cancelled>>

\* skill_cancel: the head has given this attempt up.
Cancel ==
    /\ ~cancelled
    /\ cancelled' = TRUE
    /\ UNCHANGED <<mapperVars, contributor, queue, coordVars>>

-----------------------------------------------------------------------------
CoordinatorStep ==
    \/ ReceiveReady \/ SeeCancelled \/ StopWaiting
    \/ AggregateBegin \/ Gathering \/ AggregateReturn

Next ==
    \/ \E w \in Workers :
          Contribute(w) \/ ContributeRaises(w) \/ Mapping(w) \/ SendReady(w)
    \/ CoordinateBegin \/ DeadlinePasses \/ CoordinatorStep
    \/ Cancel

Spec == Init /\ [][Next]_vars

\* The coordinator's thread runs and time passes; no worker need ever report.
FairSpec == Spec /\ WF_vars(CoordinatorStep) /\ WF_vars(DeadlinePasses)

-----------------------------------------------------------------------------
(* Properties                                                                *)

BarrierTypeOK ==
    /\ MapperTypeOK
    /\ contributor \in [Workers -> {"idle", "map", "over", "raised"}]
    /\ queue \in Seq([from : Workers, map_status : BOOLEAN])
    /\ coordinator \in {"off", "wait", "aggregate", "gather", "over"}
    /\ readyFrom \subseteq Workers
    /\ deadline \in BOOLEAN
    /\ cancelled \in BOOLEAN
    /\ result \in {"none", "ok", "cancelled", "map_failed", "missing", "aggregate_failed"}
    /\ coordinator = "over" <=> result # "none"

\* A successful result is folded from the value of every worker, the one each
\* stored for this invocation, none left out and none made up.
CompleteFold ==
    result = "ok" => \A w \in Workers : /\ maps[w] > 0
                                        /\ gathered[Coordinator][w] = maps[w]

\* The barrier keeps the fold apart from every Map: while the coordinator
\* gathers, and may clean the key list up, no worker is in the middle of one,
\* so the cleanup cannot hide a value (OnlyOverlapHides).
GathersAlone ==
    coordinator = "gather" => \A w \in Workers : writer[w] = "idle" /\ contributor[w] = "over"

\* coordinate ends, whoever does not report: with a result for the head, or
\* because the head has cancelled it.
CoordinateReturns == coordinator = "wait" ~> result # "none"
=============================================================================
