---------------------------- MODULE MessageRouter ----------------------------
(****************************************************************************)
(* MessageRouter and the TimeoutWatcher it owns: one polling thread is the   *)
(* only caller of a bus's Receive and hands every message to the callback    *)
(* registered for its key, or queues it; one scanning thread fires the       *)
(* timeouts.  A step is one critical section of the router's lock or of the  *)
(* watcher's lock, or the start of a thread between two of them.             *)
(*                                                                           *)
(* A registration stands for one call of on_key.  Its only user,             *)
(* head.run_skill, watches a key again only after the earlier watch timed    *)
(* out.  Keys are UUIDs: none is used again after forget.                    *)
(****************************************************************************)
EXTENDS Naturals, Sequences, FiniteSets

CONSTANTS
    Keys,       \* request ids
    Msgs,       \* messages that may arrive on the bus
    MsgKey,     \* what key_fn answers for a message
    Regs,       \* calls of on_key
    RegKey,     \* the key each of them watches
    Waiters,    \* threads that call receive_for
    NoKey, NoReg, NoMsg

ASSUME ConstantsAssumption ==
    /\ MsgKey \in [Msgs -> Keys \cup {NoKey}]
    /\ RegKey \in [Regs -> Keys]
    /\ NoKey \notin Keys
    /\ NoReg \notin Regs
    /\ NoMsg \notin Msgs

VARIABLES
    unsent, bus,            \* messages not sent yet; the agent's inbox, oldest first
    ppc, pmsg, pcb,         \* the polling thread: message in hand, callback popped for it
    queues, vivid,          \* _queues: contents, and the keys that have a queue object
    callbacks,              \* _callbacks
    deadlines,              \* the watcher's _deadlines (the registration whose timeout it is)
    rpc, drained,           \* each on_key call: where it is, the message it drained
    handlers,               \* timeout handler threads started and not yet run
    called, timedOut,       \* history: messages a callback ran with; on_timeout calls
    handled,                \* history: messages given to default_handler
    wpc, wkey, received,    \* receive_for: waiting threads; messages they returned
    fpc, gone, dropped,     \* forget: where it is; forgotten keys; messages it dropped
    stopped                 \* stop() was called

busVars    == <<unsent, bus>>
pollVars   == <<ppc, pmsg, pcb, handled>>
tableVars  == <<queues, vivid, callbacks>>
watchVars  == <<deadlines, handlers, timedOut>>
callVars   == <<rpc, drained>>
waitVars   == <<wpc, wkey, received>>
forgetVars == <<fpc, gone, dropped>>
vars == <<busVars, pollVars, tableVars, watchVars, callVars, called, waitVars, forgetVars, stopped>>

Init ==
    /\ unsent = Msgs
    /\ bus = <<>>
    /\ ppc = "receive" /\ pmsg = NoMsg /\ pcb = NoReg
    /\ queues = [k \in Keys |-> <<>>]
    /\ vivid = {}
    /\ callbacks = [k \in Keys |-> NoReg]
    /\ deadlines = [k \in Keys |-> NoReg]
    /\ rpc = [r \in Regs |-> "new"]
    /\ drained = [r \in Regs |-> NoMsg]
    /\ handlers = {}
    /\ called = [r \in Regs |-> {}]
    /\ timedOut = {}
    /\ handled = {}
    /\ wpc = [w \in Waiters |-> "idle"]
    /\ wkey = [w \in Waiters |-> NoKey]
    /\ received = {}
    /\ fpc = [k \in Keys |-> "idle"]
    /\ gone = {}
    /\ dropped = {}
    /\ stopped = FALSE

\* Some agent sends a message to this inbox (module Messenger has the details).
Arrive(m) ==
    /\ m \in unsent
    /\ unsent' = unsent \ {m}
    /\ bus' = Append(bus, m)
    /\ UNCHANGED <<pollVars, tableVars, watchVars, callVars, called, waitVars, forgetVars, stopped>>

-----------------------------------------------------------------------------
(* The polling thread: _run                                                  *)

Receive ==
    /\ ppc = "receive"
    /\ ~stopped
    /\ bus # <<>>
    /\ pmsg' = Head(bus)
    /\ bus' = Tail(bus)
    /\ ppc' = "route"
    /\ UNCHANGED <<unsent, pcb, handled, tableVars, watchVars, callVars, called, waitVars, forgetVars, stopped>>

\* key_fn answered None: default_handler runs on the polling thread itself.
Default ==
    /\ ppc = "route"
    /\ MsgKey[pmsg] = NoKey
    /\ handled' = handled \cup {pmsg}
    /\ pmsg' = NoMsg
    /\ ppc' = "receive"
    /\ UNCHANGED <<pcb, busVars, tableVars, watchVars, callVars, called, waitVars, forgetVars, stopped>>

\* Under the lock: pop the callback of the key, or queue the message.
Route ==
    /\ ppc = "route"
    /\ MsgKey[pmsg] # NoKey
    /\ LET k == MsgKey[pmsg] IN
          \/ /\ callbacks[k] # NoReg
             /\ pcb' = callbacks[k]
             /\ callbacks' = [callbacks EXCEPT ![k] = NoReg]
             /\ ppc' = "cancel"
             /\ UNCHANGED <<queues, vivid, pmsg>>
          \/ /\ callbacks[k] = NoReg
             /\ queues' = [queues EXCEPT ![k] = Append(@, pmsg)]
             /\ vivid' = vivid \cup {k}
             /\ ppc' = "receive"
             /\ pmsg' = NoMsg
             /\ UNCHANGED <<callbacks, pcb>>
    /\ UNCHANGED <<handled, busVars, watchVars, callVars, called, waitVars, forgetVars, stopped>>

\* _watcher.cancel(key), after the router's lock was released.
CancelTimeout ==
    /\ ppc = "cancel"
    /\ deadlines' = [deadlines EXCEPT ![MsgKey[pmsg]] = NoReg]
    /\ ppc' = "spawn"
    /\ UNCHANGED <<pmsg, pcb, handled, busVars, tableVars, handlers, timedOut, callVars, called,
                   waitVars, forgetVars, stopped>>

\* Thread(target=callback, args=(msg,)).start()
Spawn ==
    /\ ppc = "spawn"
    /\ called' = [called EXCEPT ![pcb] = @ \cup {pmsg}]
    /\ ppc' = "receive"
    /\ pmsg' = NoMsg
    /\ pcb' = NoReg
    /\ UNCHANGED <<handled, busVars, tableVars, watchVars, callVars, waitVars, forgetVars, stopped>>

-----------------------------------------------------------------------------
(* on_key                                                                    *)

\* The callers' discipline: one live registration per key at a time.
MayWatch(r) ==
    /\ RegKey[r] \notin gone
    /\ \A q \in Regs \ {r} : RegKey[q] = RegKey[r] =>
          rpc[q] = "new" \/ q \in timedOut

OnKey_NoDrain(r) ==
    /\ rpc[r] = "new"
    /\ MayWatch(r)
    /\ ~stopped
    /\ callbacks' = [callbacks EXCEPT ![RegKey[r]] = r]
    /\ rpc' = [rpc EXCEPT ![r] = "schedule"]
    /\ UNCHANGED <<queues, vivid, drained, busVars, pollVars, watchVars, called, waitVars, forgetVars, stopped>>

\* The queued message is looked at and left in the queue.
OnKey_KeepsMessage(r) ==
    /\ rpc[r] = "new"
    /\ MayWatch(r)
    /\ ~stopped
    /\ LET k == RegKey[r] IN
          \/ /\ queues[k] # <<>>
             /\ drained' = [drained EXCEPT ![r] = Head(queues[k])]
             /\ rpc' = [rpc EXCEPT ![r] = "drained"]
             /\ UNCHANGED callbacks
          \/ /\ queues[k] = <<>>
             /\ callbacks' = [callbacks EXCEPT ![k] = r]
             /\ rpc' = [rpc EXCEPT ![r] = "schedule"]
             /\ UNCHANGED drained
    /\ UNCHANGED <<queues, vivid, busVars, pollVars, watchVars, called, waitVars, forgetVars, stopped>>

\* Under the lock: drain the oldest queued message, or register the callback.
OnKey(r) ==
    /\ rpc[r] = "new"
    /\ MayWatch(r)
    /\ ~stopped
    /\ LET k == RegKey[r] IN
          \/ /\ queues[k] # <<>>
             /\ drained' = [drained EXCEPT ![r] = Head(queues[k])]
             /\ queues' = [queues EXCEPT ![k] = Tail(@)]
             /\ rpc' = [rpc EXCEPT ![r] = "drained"]
             /\ UNCHANGED callbacks
          \/ /\ queues[k] = <<>>
             /\ callbacks' = [callbacks EXCEPT ![k] = r]
             /\ rpc' = [rpc EXCEPT ![r] = "schedule"]
             /\ UNCHANGED <<queues, drained>>
    /\ UNCHANGED <<vivid, busVars, pollVars, watchVars, called, waitVars, forgetVars, stopped>>

\* A drained message: the callback runs at once, no timeout is scheduled.
OnKeyDrained(r) ==
    /\ rpc[r] = "drained"
    /\ called' = [called EXCEPT ![r] = @ \cup {drained[r]}]
    /\ drained' = [drained EXCEPT ![r] = NoMsg]
    /\ rpc' = [rpc EXCEPT ![r] = "done"]
    /\ UNCHANGED <<busVars, pollVars, tableVars, watchVars, waitVars, forgetVars, stopped>>

\* _watcher.schedule(key, ...), after the router's lock was released.
Schedule(r) ==
    /\ rpc[r] = "schedule"
    /\ deadlines' = [deadlines EXCEPT ![RegKey[r]] = r]
    /\ rpc' = [rpc EXCEPT ![r] = "done"]
    /\ UNCHANGED <<drained, busVars, pollVars, tableVars, handlers, timedOut, called, waitVars,
                   forgetVars, stopped>>

-----------------------------------------------------------------------------
(* TimeoutWatcher                                                            *)

\* One scan: every deadline that has passed is deleted and its handler thread
\* started.  Which ones have passed is time's choice.
Scan(late) ==
    /\ ~stopped
    /\ late # {}
    /\ \A k \in late : deadlines[k] # NoReg
    /\ handlers' = handlers \cup {deadlines[k] : k \in late}
    /\ deadlines' = [k \in Keys |-> IF k \in late THEN NoReg ELSE deadlines[k]]
    /\ UNCHANGED <<timedOut, busVars, pollVars, tableVars, callVars, called, waitVars, forgetVars, stopped>>

\* _make_timeout_handler's _handler, on its own thread: only the one that pops
\* a callback under the lock calls on_timeout.
TimeoutHandler_Unchecked(r) ==
    /\ r \in handlers
    /\ handlers' = handlers \ {r}
    /\ callbacks' = [callbacks EXCEPT ![RegKey[r]] = NoReg]
    /\ timedOut' = timedOut \cup {r}
    /\ UNCHANGED <<queues, vivid, deadlines, busVars, pollVars, callVars, called, waitVars, forgetVars, stopped>>

TimeoutHandler_KeepsCallback(r) ==
    /\ r \in handlers
    /\ handlers' = handlers \ {r}
    /\ timedOut' = IF callbacks[RegKey[r]] # NoReg THEN timedOut \cup {r} ELSE timedOut
    /\ UNCHANGED <<tableVars, deadlines, busVars, pollVars, callVars, called, waitVars, forgetVars, stopped>>

TimeoutHandler(r) ==
    /\ r \in handlers
    /\ handlers' = handlers \ {r}
    /\ callbacks' = [callbacks EXCEPT ![RegKey[r]] = NoReg]
    /\ timedOut' = IF callbacks[RegKey[r]] # NoReg THEN timedOut \cup {r} ELSE timedOut
    /\ UNCHANGED <<queues, vivid, deadlines, busVars, pollVars, callVars, called, waitVars, forgetVars, stopped>>

-----------------------------------------------------------------------------
(* receive_for, forget, stop                                                 *)

\* receive_for(key): the queue object is created if it is not there.  No key
\* is both waited for here and watched with on_key (the local and the global
\* router have one use each).
ReceiveFor(w, k) ==
    /\ wpc[w] = "idle"
    /\ k \notin gone
    /\ \A r \in Regs : RegKey[r] # k
    /\ vivid' = vivid \cup {k}
    /\ wpc' = [wpc EXCEPT ![w] = "get"]
    /\ wkey' = [wkey EXCEPT ![w] = k]
    /\ UNCHANGED <<queues, callbacks, received, busVars, pollVars, watchVars, callVars, called,
                   forgetVars, stopped>>

\* q.get returns a message, or raises Empty after the timeout (None).
Get(w) ==
    /\ wpc[w] = "get"
    /\ LET k == wkey[w] IN
          \/ /\ queues[k] # <<>>
             /\ received' = received \cup {Head(queues[k])}
             /\ queues' = [queues EXCEPT ![k] = Tail(@)]
          \/ /\ queues[k] = <<>>
             /\ UNCHANGED <<received, queues>>
    /\ wpc' = [wpc EXCEPT ![w] = "idle"]
    /\ wkey' = [wkey EXCEPT ![w] = NoKey]
    /\ UNCHANGED <<vivid, callbacks, busVars, pollVars, watchVars, callVars, called, forgetVars, stopped>>

\* forget(key), by the thread that waited for it: under the lock, then cancel.
Forget(k) ==
    /\ k \notin gone
    /\ \A w \in Waiters : wkey[w] # k
    /\ dropped' = dropped \cup {queues[k][i] : i \in 1 .. Len(queues[k])}
    /\ queues' = [queues EXCEPT ![k] = <<>>]
    /\ vivid' = vivid \ {k}
    /\ callbacks' = [callbacks EXCEPT ![k] = NoReg]
    /\ gone' = gone \cup {k}
    /\ fpc' = [fpc EXCEPT ![k] = "cancel"]
    /\ UNCHANGED <<busVars, pollVars, watchVars, callVars, called, waitVars, stopped>>

ForgetTimeout(k) ==
    /\ fpc[k] = "cancel"
    /\ deadlines' = [deadlines EXCEPT ![k] = NoReg]
    /\ fpc' = [fpc EXCEPT ![k] = "idle"]
    /\ UNCHANGED <<gone, dropped, handlers, timedOut, busVars, pollVars, tableVars, callVars, called,
                   waitVars, stopped>>

\* stop(): both background threads leave their loops; work in hand is finished.
Stop ==
    /\ ~stopped
    /\ stopped' = TRUE
    /\ UNCHANGED <<busVars, pollVars, tableVars, watchVars, callVars, called, waitVars, forgetVars>>

-----------------------------------------------------------------------------
PollStep == Receive \/ Default \/ Route \/ CancelTimeout \/ Spawn
CallStep(r) == OnKeyDrained(r) \/ Schedule(r)
ScanStep == \E late \in SUBSET Keys : Scan(late)

Next ==
    \/ \E m \in Msgs : Arrive(m)
    \/ PollStep
    \/ ScanStep
    \/ \E r \in Regs : OnKey(r) \/ CallStep(r) \/ TimeoutHandler(r)
    \/ \E w \in Waiters : Get(w) \/ \E k \in Keys : ReceiveFor(w, k)
    \/ \E k \in Keys : Forget(k) \/ ForgetTimeout(k)
    \/ Stop

Spec == Init /\ [][Next]_vars

\* Threads that are started run, the poller polls, and every deadline passes:
\* a scan sooner or later finds it late.
FairSpec ==
    /\ Spec
    /\ WF_vars(PollStep)
    /\ \A k \in Keys : WF_vars(\E late \in SUBSET Keys : k \in late /\ Scan(late))
    /\ \A r \in Regs : WF_vars(CallStep(r)) /\ WF_vars(TimeoutHandler(r))

-----------------------------------------------------------------------------
(* Properties                                                                *)

TypeOK ==
    /\ unsent \subseteq Msgs
    /\ bus \in Seq(Msgs)
    /\ ppc \in {"receive", "route", "cancel", "spawn"}
    /\ pmsg \in Msgs \cup {NoMsg} /\ (ppc # "receive" => pmsg \in Msgs)
    /\ pcb \in Regs \cup {NoReg}  /\ (ppc \in {"cancel", "spawn"} => pcb \in Regs /\ MsgKey[pmsg] \in Keys)
    /\ queues \in [Keys -> Seq(Msgs)]
    /\ vivid \subseteq Keys
    /\ callbacks \in [Keys -> Regs \cup {NoReg}]
    /\ deadlines \in [Keys -> Regs \cup {NoReg}]
    /\ rpc \in [Regs -> {"new", "drained", "schedule", "done"}]
    /\ drained \in [Regs -> Msgs \cup {NoMsg}]
    /\ handlers \subseteq Regs
    /\ called \in [Regs -> SUBSET Msgs]
    /\ timedOut \subseteq Regs
    /\ handled \subseteq Msgs
    /\ wpc \in [Waiters -> {"idle", "get"}]
    /\ wkey \in [Waiters -> Keys \cup {NoKey}]
    /\ \A w \in Waiters : wpc[w] = "get" => wkey[w] \in Keys
    /\ received \subseteq Msgs
    /\ fpc \in [Keys -> {"idle", "cancel"}]
    /\ gone \subseteq Keys
    /\ dropped \subseteq Msgs
    /\ stopped \in BOOLEAN

InHand(r) == pcb = r \/ rpc[r] = "drained"

\* on_key's callback and on_timeout are mutually exclusive: a registration ends
\* in one message or in one timeout, never in both and never in two messages,
\* although the message, the scan, the handler thread and the late schedule of
\* the deadline race.
MutuallyExclusive ==
    \A r \in Regs :
        /\ r \in timedOut => called[r] = {} /\ ~InHand(r)
        /\ \A m, n \in called[r] : m = n

\* A callback is registered only while its queue is empty, and a message is
\* queued only while no callback is: neither waits for the other side for ever.
NoMissedMessage == \A k \in Keys : callbacks[k] # NoReg => queues[k] = <<>>

\* The places a message can be in once it was sent.
Places(m) ==
    {<<"bus", i>> : i \in {i \in 1 .. Len(bus) : bus[i] = m}}
    \cup {<<"poller", 0>> : x \in {x \in {0} : pmsg = m}}
    \cup (UNION {{<<"queue", k, i>> : i \in {i \in 1 .. Len(queues[k]) : queues[k][i] = m}} : k \in Keys})
    \cup {<<"drained", r>> : r \in {r \in Regs : drained[r] = m}}
    \cup {<<"called", r>> : r \in {r \in Regs : m \in called[r]}}
    \cup {<<"out", s>> : s \in {s \in {"handled", "received", "dropped"} :
             m \in CASE s = "handled" -> handled [] s = "received" -> received [] OTHER -> dropped}}

\* No message is dropped for arriving too early or late, and none reaches two
\* waiters: a sent message is in exactly one place, and only forget drops one.
ExactlyOnePlace ==
    \A m \in Msgs : Cardinality(Places(m)) = IF m \in unsent THEN 0 ELSE 1

\* Every registration ends: its callback runs or on_timeout is called (unless
\* the key is forgotten or the router stopped).
EveryWatchEnds ==
    \A r \in Regs : rpc[r] # "new" ~>
        (called[r] # {} \/ r \in timedOut \/ RegKey[r] \in gone \/ stopped)

\* How a registration stands, seen from its caller.
Outcome(r) ==
    CASE rpc[r] = "new" -> "none"
      [] rpc[r] # "new" /\ called[r] # {} -> "answered"
      [] rpc[r] # "new" /\ called[r] = {} /\ r \in timedOut -> "timedOut"
      [] rpc[r] # "new" /\ called[r] = {} /\ r \notin timedOut /\ RegKey[r] \in gone
            /\ callbacks[RegKey[r]] # r /\ ~InHand(r) -> "forgotten"
      [] OTHER -> "waiting"

OneShot == INSTANCE OneShotWait WITH
    outcome <- [r \in Regs |-> Outcome(r)],
    answer  <- called

\* The router implements one-shot watches: through all its queues, locks and
\* threads an on_key call moves only none -> waiting -> one final outcome, and
\* no message answers two calls.
ImplementsOneShot == OneShot!Spec
=============================================================================
