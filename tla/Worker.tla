------------------------------- MODULE Worker -------------------------------
(****************************************************************************)
(* One worker process: worker.start_dispatch, worker.handle_message and the   *)
(* CancellationRegistry and CancellationTokens of cancellation.py.            *)
(*                                                                           *)
(* The router's thread calls _dispatch for one message after the other.  A    *)
(* skill_contribute or skill_coordinate gets a token, which is in the         *)
(* registry before its thread is started, and a thread; a skill_cancel looks  *)
(* its token up.  Both create and forget publish a snapshot of the registry   *)
(* to the activity Mapper, from whichever thread they run on.                 *)
(*                                                                           *)
(* The head sends at most one cancel for a request it dispatched, after the   *)
(* dispatch, and the inbox keeps that order (Messenger).                      *)
(****************************************************************************)
EXTENDS Naturals, Sequences, FiniteSets

CONSTANTS
    Requests,      \* request_ids dispatched to this worker
    Threads,       \* dispatch messages handled, each on a thread of its own
    None,          \* no token, no snapshot
    Redelivered,   \* what may be received twice (Messenger's failed ack)
    MaxCallbacks   \* bound: on_cancel registrations per thread

Kinds == {"skill_contribute", "skill_coordinate", "unknown_skill"}

ASSUME ConstantsAssumption ==
    /\ None \notin Threads \cup Requests \cup Kinds
    /\ "router" \notin Threads
    /\ Redelivered \subseteq {"dispatch", "skill_cancel"}
    /\ MaxCallbacks \in Nat

VARIABLES
    sent,        \* the kind of dispatch sent for each request, or None
    cancelSent,  \* requests whose skill_cancel was sent
    inbox,       \* messages the router has still to receive
    router,      \* what _dispatch is doing: idle, snapshot, publish, fire
    current,     \* the token that step works on, or None
    tokens,      \* CancellationRegistry._tokens: request -> token (its thread)
    thread,      \* each thread: pc, request and kind
    event,       \* CancellationToken.event.is_set()
    callbacks,   \* CancellationToken._callbacks, a count
    asked,       \* history: calls of on_cancel
    ran,         \* history: callbacks started
    snapshots,   \* the snapshot each publisher has taken and not yet written
    published,   \* the activity Mapper's value for this worker
    answers,     \* skill_results each thread gave to global_bus.Send
    cancelled    \* history: requests whose skill_cancel was handled

headVars  == <<sent, cancelSent>>
tokenVars == <<event, callbacks, asked, ran>>
vars == <<headVars, inbox, router, current, tokens, thread, tokenVars, snapshots, published,
          answers, cancelled>>

Publishers == Threads \cup {"router"}

Init ==
    /\ sent = [q \in Requests |-> None]
    /\ cancelSent = {}
    /\ inbox = <<>>
    /\ router = "idle"
    /\ current = None
    /\ tokens = [q \in Requests |-> None]
    /\ thread = [t \in Threads |-> [pc |-> "unborn", request |-> None, kind |-> None]]
    /\ event = [t \in Threads |-> FALSE]
    /\ callbacks = [t \in Threads |-> 0]
    /\ asked = [t \in Threads |-> 0]
    /\ ran = [t \in Threads |-> 0]
    /\ snapshots = [p \in Publishers |-> None]
    /\ published = {}
    /\ answers = [t \in Threads |-> <<>>]
    /\ cancelled = {}

\* How often one Send may be received.
Deliveries(what) == IF what \in Redelivered THEN {1, 2} ELSE {1}

\* The head, seen from here: one dispatch per request, then at most one cancel.
Dispatch(q) ==
    /\ sent[q] = None
    /\ \E k \in Kinds :
          /\ sent' = [sent EXCEPT ![q] = k]
          /\ \E n \in Deliveries("dispatch") :
                inbox' = inbox \o [i \in 1 .. n |-> [type |-> k, request |-> q]]
    /\ UNCHANGED <<cancelSent, router, current, tokens, thread, tokenVars, snapshots, published,
                   answers, cancelled>>

Cancel(q) ==
    /\ sent[q] # None /\ q \notin cancelSent
    /\ cancelSent' = cancelSent \cup {q}
    /\ \E n \in Deliveries("skill_cancel") :
          inbox' = inbox \o [i \in 1 .. n |-> [type |-> "skill_cancel", request |-> q]]
    /\ UNCHANGED <<sent, router, current, tokens, thread, tokenVars, snapshots, published,
                   answers, cancelled>>

-----------------------------------------------------------------------------
(* The registry                                                              *)

InFlight == {q \in Requests : tokens[q] # None}

\* _publish: the snapshot is taken under the lock ...
TakeSnapshot(p) == snapshots' = [snapshots EXCEPT ![p] = InFlight]

\* ... and written by Map without it.
WriteSnapshot(p) ==
    /\ published' = snapshots[p]
    /\ snapshots' = [snapshots EXCEPT ![p] = None]

-----------------------------------------------------------------------------
(* _dispatch, on the router's thread                                         *)

\* registry.create
Create_LateToken(t) ==
    /\ router = "idle" /\ inbox # <<>>
    /\ Head(inbox).type \in Kinds
    /\ thread[t].pc = "unborn"
    /\ inbox' = Tail(inbox)
    /\ router' = "snapshot"
    /\ current' = t
    /\ thread' = [thread EXCEPT ![t] = [pc |-> "created", request |-> Head(inbox).request,
                                        kind |-> Head(inbox).type]]
    /\ UNCHANGED <<headVars, tokens, tokenVars, snapshots, published, answers, cancelled>>

Create(t) ==
    /\ router = "idle" /\ inbox # <<>>
    /\ Head(inbox).type \in Kinds
    /\ thread[t].pc = "unborn"
    /\ inbox' = Tail(inbox)
    /\ router' = "snapshot"
    /\ current' = t
    /\ tokens' = [tokens EXCEPT ![Head(inbox).request] = t]
    /\ thread' = [thread EXCEPT ![t] = [pc |-> "created", request |-> Head(inbox).request,
                                        kind |-> Head(inbox).type]]
    /\ UNCHANGED <<headVars, tokenVars, snapshots, published, answers, cancelled>>

CreateSnapshot ==
    /\ router = "snapshot"
    /\ router' = "publish"
    /\ TakeSnapshot("router")
    /\ UNCHANGED <<headVars, inbox, current, tokens, thread, tokenVars, published, answers, cancelled>>

\* The snapshot is written and the thread started.
Start ==
    /\ router = "publish"
    /\ router' = "idle"
    /\ current' = None
    /\ WriteSnapshot("router")
    /\ thread' = [thread EXCEPT ![current].pc = "run"]
    /\ UNCHANGED <<headVars, inbox, tokens, tokenVars, answers, cancelled>>

\* registry.cancel: look the token up under the lock.
LookUp ==
    /\ router = "idle" /\ inbox # <<>>
    /\ Head(inbox).type = "skill_cancel"
    /\ inbox' = Tail(inbox)
    /\ LET q == Head(inbox).request IN
          \/ /\ tokens[q] # None
             /\ router' = "fire"
             /\ current' = tokens[q]
             /\ UNCHANGED cancelled
          \/ /\ tokens[q] = None
             /\ cancelled' = cancelled \cup {q}
             /\ UNCHANGED <<router, current>>
    /\ UNCHANGED <<headVars, tokens, thread, tokenVars, snapshots, published, answers>>

\* token.cancel: set the event, then start every callback registered so far.
Fire_Again ==
    /\ router = "fire"
    /\ router' = "idle"
    /\ current' = None
    /\ cancelled' = cancelled \cup {thread[current].request}
    /\ event' = [event EXCEPT ![current] = TRUE]
    /\ ran' = [ran EXCEPT ![current] = @ + callbacks[current]]
    /\ UNCHANGED <<headVars, inbox, tokens, thread, callbacks, asked, snapshots, published, answers>>

Fire ==
    /\ router = "fire"
    /\ router' = "idle"
    /\ current' = None
    /\ cancelled' = cancelled \cup {thread[current].request}
    /\ event' = [event EXCEPT ![current] = TRUE]
    /\ ran' = [ran EXCEPT ![current] = IF event[current] THEN @ ELSE @ + callbacks[current]]
    /\ UNCHANGED <<headVars, inbox, tokens, thread, callbacks, asked, snapshots, published, answers>>

-----------------------------------------------------------------------------
(* handle_message, on a thread of its own                                    *)

Goto(t, pc) == thread' = [thread EXCEPT ![t].pc = pc]

\* Give a skill_result for the head to Send.  The thread goes on in the same way
\* if Send raises: to its finally clause.
Answer(t, status) == answers' = [answers EXCEPT ![t] = Append(@, status)]

UnknownSkill(t) ==
    /\ thread[t].pc = "run" /\ thread[t].kind = "unknown_skill"
    /\ Answer(t, "error")
    /\ Goto(t, "forget")
    /\ UNCHANGED <<headVars, inbox, router, current, tokens, tokenVars, snapshots, published, cancelled>>

\* skill.contribute returns.
Contribute(t) ==
    /\ thread[t].pc = "run" /\ thread[t].kind # "unknown_skill"
    /\ Goto(t, IF thread[t].kind = "skill_coordinate" THEN "coordinate" ELSE "forget")
    /\ UNCHANGED <<headVars, inbox, router, current, tokens, tokenVars, snapshots, published,
                   answers, cancelled>>

\* skill.contribute raises: reported, and raised again.
ContributeRaises_GoesOn(t) ==
    /\ thread[t].pc = "run" /\ thread[t].kind # "unknown_skill"
    /\ Answer(t, "error")
    /\ Goto(t, IF thread[t].kind = "skill_coordinate" THEN "coordinate" ELSE "forget")
    /\ UNCHANGED <<headVars, inbox, router, current, tokens, tokenVars, snapshots, published, cancelled>>

ContributeRaises(t) ==
    /\ thread[t].pc = "run" /\ thread[t].kind # "unknown_skill"
    /\ Answer(t, "error")
    /\ Goto(t, "forget")
    /\ UNCHANGED <<headVars, inbox, router, current, tokens, tokenVars, snapshots, published, cancelled>>

\* ctx.on_cancel(fn): kept for later, or started at once if already cancelled.
OnCancel(t) ==
    /\ thread[t].pc \in {"run", "coordinate"}
    /\ asked[t] < MaxCallbacks
    /\ asked' = [asked EXCEPT ![t] = @ + 1]
    /\ \/ /\ event[t]
          /\ ran' = [ran EXCEPT ![t] = @ + 1]
          /\ UNCHANGED callbacks
       \/ /\ ~event[t]
          /\ callbacks' = [callbacks EXCEPT ![t] = @ + 1]
          /\ UNCHANGED ran
    /\ UNCHANGED <<headVars, inbox, router, current, tokens, thread, event, snapshots, published,
                   answers, cancelled>>

\* skill.coordinate returns a result, or raises and is reported.
Coordinate(t) ==
    /\ thread[t].pc = "coordinate"
    /\ \E status \in {"ok", "error"} : Answer(t, status)
    /\ Goto(t, "forget")
    /\ UNCHANGED <<headVars, inbox, router, current, tokens, tokenVars, snapshots, published, cancelled>>

Forget_Untracked(t) ==
    /\ thread[t].pc = "forget"
    /\ Goto(t, "snapshot")
    /\ UNCHANGED <<headVars, inbox, router, current, tokens, tokenVars, snapshots, published, answers,
                   cancelled>>

\* finally: registry.forget(request_id), whatever token is there by now.
Forget(t) ==
    /\ thread[t].pc = "forget"
    /\ tokens' = [tokens EXCEPT ![thread[t].request] = None]
    /\ Goto(t, "snapshot")
    /\ UNCHANGED <<headVars, inbox, router, current, tokenVars, snapshots, published, answers, cancelled>>

ForgetSnapshot(t) ==
    /\ thread[t].pc = "snapshot"
    /\ TakeSnapshot(t)
    /\ Goto(t, "publish")
    /\ UNCHANGED <<headVars, inbox, router, current, tokens, tokenVars, published, answers, cancelled>>

ForgetPublish(t) ==
    /\ thread[t].pc = "publish"
    /\ WriteSnapshot(t)
    /\ Goto(t, "over")
    /\ UNCHANGED <<headVars, inbox, router, current, tokens, tokenVars, answers, cancelled>>

-----------------------------------------------------------------------------
\* Threads are alike: the next one to be born stands for any.
NextThread == CHOOSE t \in Threads : thread[t].pc = "unborn"

RouterStep == (\E t \in Threads : Create(t) /\ t = NextThread) \/ CreateSnapshot \/ Start \/ LookUp \/ Fire

ThreadStep(t) ==
    \/ UnknownSkill(t) \/ Contribute(t) \/ ContributeRaises(t) \/ Coordinate(t)
    \/ Forget(t) \/ ForgetSnapshot(t) \/ ForgetPublish(t)

Next ==
    \/ \E q \in Requests : Dispatch(q) \/ Cancel(q)
    \/ RouterStep
    \/ \E t \in Threads : ThreadStep(t) \/ OnCancel(t)

Spec == Init /\ [][Next]_vars

-----------------------------------------------------------------------------
(* Properties                                                                *)

TypeOK ==
    /\ sent \in [Requests -> Kinds \cup {None}]
    /\ cancelSent \subseteq Requests
    /\ inbox \in Seq([type : Kinds \cup {"skill_cancel"}, request : Requests])
    /\ router \in {"idle", "snapshot", "publish", "fire"}
    /\ current \in Threads \cup {None}
    /\ current = None <=> router = "idle"
    /\ tokens \in [Requests -> Threads \cup {None}]
    /\ thread \in [Threads -> [pc : {"unborn", "created", "run", "coordinate", "forget", "snapshot",
                                     "publish", "over"},
                               request : Requests \cup {None}, kind : Kinds \cup {None}]]
    /\ event \in [Threads -> BOOLEAN]
    /\ callbacks \in [Threads -> 0 .. MaxCallbacks]
    /\ asked \in [Threads -> 0 .. MaxCallbacks]
    /\ ran \in [Threads -> 0 .. MaxCallbacks]
    /\ snapshots \in [Publishers -> (SUBSET Requests) \cup {None}]
    /\ published \subseteq Requests
    /\ answers \in [Threads -> Seq({"ok", "error"})]
    /\ cancelled \subseteq Requests

\* A skill_cancel handled while its request is still being worked on has set
\* the event that work looks at, however close it came behind the dispatch.
CancelNotMissed ==
    \A t \in Threads :
        /\ thread[t].pc \in {"created", "run", "coordinate"}
        /\ thread[t].request \in cancelled
        => event[t]

\* Each on_cancel callback is started exactly once, when the event is set or at
\* its registration if that comes later, and none is started before.
CallbacksOnce ==
    \A t \in Threads : ran[t] = IF event[t] THEN asked[t] ELSE 0

\* A coordinator's dispatch is answered exactly once before its work ends,
\* whatever raises inside the skill; a contributor answers only to report that
\* it failed.
AnsweredOnce ==
    \A t \in Threads :
        LET done == thread[t].pc \in {"forget", "snapshot", "publish", "over"} IN
            IF thread[t].kind = "skill_contribute"
              THEN answers[t] \in {<<>>, <<"error">>}
              ELSE Len(answers[t]) = IF done THEN 1 ELSE 0

\* The registry tracks exactly the dispatches being worked on (and everything
\* has its type).
TracksWork ==
    /\ TypeOK
    /\ \A q \in Requests : tokens[q] # None <=>
          \E t \in Threads : /\ thread[t].request = q
                             /\ thread[t].pc \in {"created", "run", "coordinate", "forget"}
=============================================================================
