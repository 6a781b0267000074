------------------------ MODULE MessageRouterProofs ------------------------
(****************************************************************************)
(* A watch ends in one message or in one timeout, never in both, for every   *)
(* number of keys, messages, watches and waiting threads.                    *)
(*                                                                           *)
(* The timeout handler does not know whose callback it pops: it asks only    *)
(* whether the key has one.  What saves it is that a watch's timeout is one  *)
(* token - scheduled, a deadline, a handler thread - which is spent when the *)
(* watch times out, and that a key has at most one watch whose token is not  *)
(* spent.                                                                    *)
(****************************************************************************)
EXTENDS MessageRouter, FiniteSetTheorems, TLAPS

\* The type invariant by groups of variables, as the actions change them.
BusTypes     == unsent \subseteq Msgs /\ bus \in Seq(Msgs)
PollTypes    ==
    /\ ppc \in {"receive", "route", "cancel", "spawn"}
    /\ pmsg \in Msgs \cup {NoMsg} /\ (ppc # "receive" => pmsg \in Msgs)
    /\ pcb \in Regs \cup {NoReg}  /\ (ppc \in {"cancel", "spawn"} => pcb \in Regs /\ MsgKey[pmsg] \in Keys)
    /\ handled \subseteq Msgs
TableTypes   ==
    /\ queues \in [Keys -> Seq(Msgs)]
    /\ vivid \subseteq Keys
    /\ callbacks \in [Keys -> Regs \cup {NoReg}]
WatchTypes   ==
    /\ deadlines \in [Keys -> Regs \cup {NoReg}]
    /\ handlers \subseteq Regs
    /\ timedOut \subseteq Regs
CallTypes    ==
    /\ rpc \in [Regs -> {"new", "drained", "schedule", "done"}]
    /\ drained \in [Regs -> Msgs \cup {NoMsg}]
    /\ \A r \in Regs : rpc[r] = "drained" => drained[r] \in Msgs
    /\ called \in [Regs -> SUBSET Msgs]
WaitTypes    ==
    /\ wpc \in [Waiters -> {"idle", "get"}]
    /\ wkey \in [Waiters -> Keys \cup {NoKey}]
    /\ \A w \in Waiters : wpc[w] = "get" => wkey[w] \in Keys
    /\ received \subseteq Msgs
ForgetTypes  ==
    /\ fpc \in [Keys -> {"idle", "cancel"}]
    /\ gone \subseteq Keys
    /\ dropped \subseteq Msgs
    /\ stopped \in BOOLEAN

\* TypeOK, and a call that drained a message has it in hand.
Types == /\ BusTypes /\ PollTypes /\ TableTypes /\ WatchTypes /\ CallTypes /\ WaitTypes /\ ForgetTypes

LEMMA TypesGiveTypeOK == Types => TypeOK
BY DEF Types, TypeOK, BusTypes, PollTypes, TableTypes, WatchTypes, CallTypes, WaitTypes, ForgetTypes

LEMMA InitTypes == Init => Types
<1> SUFFICES ASSUME Init PROVE Types
  OBVIOUS
<1> USE ConstantsAssumption DEF Init
<1>1. BusTypes /\ PollTypes
  BY DEF BusTypes, PollTypes
<1>2. TableTypes /\ WatchTypes
  BY DEF TableTypes, WatchTypes
<1>3. CallTypes
  BY DEF CallTypes
<1>4. WaitTypes /\ ForgetTypes
  BY DEF WaitTypes, ForgetTypes
<1> QED BY <1>1, <1>2, <1>3, <1>4 DEF Types

LEMMA PollKeepsTypes == ASSUME Types, PollStep PROVE Types'
<1> USE ConstantsAssumption DEF Types, busVars, pollVars, tableVars, watchVars, callVars, waitVars, forgetVars
<1>1. CASE Receive
  <2>1. Head(bus) \in Msgs /\ Tail(bus) \in Seq(Msgs)
    BY <1>1 DEF Receive, BusTypes
  <2> QED BY <1>1, <2>1 DEF Receive, BusTypes, PollTypes, TableTypes, WatchTypes, CallTypes, WaitTypes, ForgetTypes
<1>2. CASE Default
  BY <1>2 DEF Default, BusTypes, PollTypes, TableTypes, WatchTypes, CallTypes, WaitTypes, ForgetTypes
<1>3. CASE Route
  <2> DEFINE k == MsgKey[pmsg]
  <2>1. pmsg \in Msgs /\ k \in Keys
    BY <1>3 DEF Route, PollTypes
  <2>2. BusTypes' /\ WatchTypes' /\ CallTypes' /\ WaitTypes' /\ ForgetTypes'
    BY <1>3 DEF Route, BusTypes, WatchTypes, CallTypes, WaitTypes, ForgetTypes
  <2>3. CASE callbacks[k] # NoReg
    BY <1>3, <2>1, <2>2, <2>3 DEF Route, PollTypes, TableTypes
  <2>4. CASE callbacks[k] = NoReg
    <3>1. queues' = [queues EXCEPT ![k] = Append(queues[k], pmsg)]
      BY <1>3, <2>4 DEF Route
    <3>2. Append(queues[k], pmsg) \in Seq(Msgs)
      BY <2>1 DEF TableTypes
    <3> QED BY <1>3, <2>1, <2>2, <2>4, <3>1, <3>2 DEF Route, PollTypes, TableTypes
  <2> QED BY <2>3, <2>4
<1>4. CASE CancelTimeout
  BY <1>4 DEF CancelTimeout, BusTypes, PollTypes, TableTypes, WatchTypes, CallTypes, WaitTypes, ForgetTypes
<1>5. CASE Spawn
  BY <1>5 DEF Spawn, BusTypes, PollTypes, TableTypes, WatchTypes, CallTypes, WaitTypes, ForgetTypes
<1> QED BY <1>1, <1>2, <1>3, <1>4, <1>5 DEF PollStep

LEMMA CallKeepsTypes ==
    ASSUME Types, NEW r \in Regs, OnKey(r) \/ CallStep(r) \/ TimeoutHandler(r)
    PROVE  Types'
<1> USE ConstantsAssumption DEF Types, busVars, pollVars, tableVars, watchVars, callVars, waitVars, forgetVars
<1>1. CASE OnKey(r)
  <2>1. RegKey[r] \in Keys
    OBVIOUS
  <2>2. queues[RegKey[r]] # <<>> =>
          Head(queues[RegKey[r]]) \in Msgs /\ Tail(queues[RegKey[r]]) \in Seq(Msgs)
    BY <2>1 DEF TableTypes
  <2>3. BusTypes' /\ PollTypes' /\ WatchTypes' /\ WaitTypes' /\ ForgetTypes'
    BY <1>1 DEF OnKey, BusTypes, PollTypes, WatchTypes, WaitTypes, ForgetTypes
  <2>4. TableTypes'
    <3>1. CASE queues[RegKey[r]] # <<>>
      <4>1. /\ queues' = [queues EXCEPT ![RegKey[r]] = Tail(queues[RegKey[r]])]
            /\ vivid' = vivid /\ callbacks' = callbacks
        BY <1>1, <3>1 DEF OnKey
      <4> QED BY <4>1, <2>1, <2>2, <3>1 DEF TableTypes
    <3>2. CASE queues[RegKey[r]] = <<>>
      BY <1>1, <2>1, <3>2 DEF OnKey, TableTypes
    <3> QED BY <3>1, <3>2
  <2>5. CallTypes'
    BY <1>1, <2>1, <2>2, SMTT(30) DEF OnKey, CallTypes
  <2> QED BY <2>3, <2>4, <2>5
<1>2. CASE OnKeyDrained(r)
  <2>1. CallTypes'
    BY <1>2 DEF OnKeyDrained, CallTypes
  <2> QED BY <1>2, <2>1 DEF OnKeyDrained, BusTypes, PollTypes, TableTypes, WatchTypes, WaitTypes, ForgetTypes
<1>3. CASE Schedule(r)
  BY <1>3 DEF Schedule, BusTypes, PollTypes, TableTypes, WatchTypes, CallTypes, WaitTypes, ForgetTypes
<1>4. CASE TimeoutHandler(r)
  BY <1>4 DEF TimeoutHandler, BusTypes, PollTypes, TableTypes, WatchTypes, CallTypes, WaitTypes, ForgetTypes
<1> QED BY <1>1, <1>2, <1>3, <1>4 DEF CallStep

LEMMA OtherStepsKeepTypes ==
    ASSUME Types, \/ \E m \in Msgs : Arrive(m)
                  \/ ScanStep
                  \/ \E w \in Waiters : Get(w) \/ \E k \in Keys : ReceiveFor(w, k)
                  \/ \E k \in Keys : Forget(k) \/ ForgetTimeout(k)
                  \/ Stop
    PROVE  Types'
<1> USE ConstantsAssumption DEF Types, busVars, pollVars, tableVars, watchVars, callVars, waitVars, forgetVars
<1>1. ASSUME NEW m \in Msgs, Arrive(m) PROVE Types'
  <2>1. Append(bus, m) \in Seq(Msgs)
    BY <1>1 DEF BusTypes
  <2> QED BY <1>1, <2>1 DEF Arrive, BusTypes, PollTypes, TableTypes, WatchTypes, CallTypes, WaitTypes, ForgetTypes
<1>2. ASSUME NEW late \in SUBSET Keys, Scan(late) PROVE Types'
  <2>1. WatchTypes'
    BY <1>2 DEF Scan, WatchTypes
  <2> QED BY <1>2, <2>1 DEF Scan, BusTypes, PollTypes, TableTypes, CallTypes, WaitTypes, ForgetTypes
<1>3. ASSUME NEW w \in Waiters, Get(w) PROVE Types'
  <2>1. wkey[w] \in Keys
    BY <1>3 DEF Get, WaitTypes
  <2>2. queues[wkey[w]] # <<>> =>
          Head(queues[wkey[w]]) \in Msgs /\ Tail(queues[wkey[w]]) \in Seq(Msgs)
    BY <2>1 DEF TableTypes
  <2>3. TableTypes'
    <3>1. CASE queues[wkey[w]] # <<>>
      <4>1. queues' = [queues EXCEPT ![wkey[w]] = Tail(queues[wkey[w]])]
        BY <1>3, <3>1 DEF Get
      <4> QED BY <1>3, <4>1, <2>1, <2>2, <3>1 DEF Get, TableTypes
    <3>2. CASE queues[wkey[w]] = <<>>
      BY <1>3, <3>2 DEF Get, TableTypes
    <3> QED BY <3>1, <3>2
  <2>4. received' \subseteq Msgs
    BY <1>3, <2>1, <2>2 DEF Get, WaitTypes
  <2>5. WaitTypes'
    BY <1>3, <2>4 DEF Get, WaitTypes
  <2> QED BY <1>3, <2>3, <2>5 DEF Get, BusTypes, PollTypes, WatchTypes, CallTypes, ForgetTypes
<1>4. ASSUME NEW w \in Waiters, NEW k \in Keys, ReceiveFor(w, k) PROVE Types'
  BY <1>4 DEF ReceiveFor, BusTypes, PollTypes, TableTypes, WatchTypes, CallTypes, WaitTypes, ForgetTypes
<1>5. ASSUME NEW k \in Keys, Forget(k) PROVE Types'
  <2>1. queues[k] \in Seq(Msgs) /\ \A i \in 1 .. Len(queues[k]) : queues[k][i] \in Msgs
    BY DEF TableTypes
  <2>2. ForgetTypes'
    BY <1>5, <2>1 DEF Forget, ForgetTypes
  <2>3. TableTypes'
    BY <1>5 DEF Forget, TableTypes
  <2> QED BY <1>5, <2>2, <2>3 DEF Forget, BusTypes, PollTypes, WatchTypes, CallTypes, WaitTypes
<1>6. ASSUME NEW k \in Keys, ForgetTimeout(k) PROVE Types'
  BY <1>6 DEF ForgetTimeout, BusTypes, PollTypes, TableTypes, WatchTypes, CallTypes, WaitTypes, ForgetTypes
<1>7. CASE Stop
  BY <1>7 DEF Stop, BusTypes, PollTypes, TableTypes, WatchTypes, CallTypes, WaitTypes, ForgetTypes
<1> QED BY <1>1, <1>2, <1>3, <1>4, <1>5, <1>6, <1>7 DEF ScanStep

LEMMA StutterKeepsTypes == ASSUME Types, UNCHANGED vars PROVE Types'
BY DEF vars, busVars, pollVars, tableVars, watchVars, callVars, waitVars, forgetVars, Types, BusTypes,
    PollTypes, TableTypes, WatchTypes, CallTypes, WaitTypes, ForgetTypes

LEMMA NextKeepsTypes == Types /\ [Next]_vars => Types'
BY PollKeepsTypes, CallKeepsTypes, OtherStepsKeepTypes, StutterKeepsTypes DEF Next

\* Type correctness of the router and its watcher: among others, a callback
\* about to be started always comes with a message that has a key.
THEOREM TypeCorrect == Spec => []TypeOK
<1>1. Spec => []Types
  BY InitTypes, NextKeepsTypes, PTL DEF Spec
<1> QED BY <1>1, TypesGiveTypeOK, PTL

-----------------------------------------------------------------------------
(* Mutual exclusion                                                          *)

\* A key has at most one watch that has not timed out (the callers' discipline).
OneLive ==
    \A q, r \in Regs :
        q # r /\ RegKey[q] = RegKey[r] /\ rpc[q] # "new" /\ rpc[r] # "new" => q \in timedOut \/ r \in timedOut

\* A watch that may still get its message: nothing has happened to it yet.
Open(r) == rpc[r] \in {"schedule", "done"} /\ r \notin timedOut /\ called[r] = {}

Registered ==
    \A k \in Keys, r \in Regs : callbacks[k] = r => RegKey[r] = k /\ Open(r) /\ pcb # r

Popped == pcb # NoReg => ppc \in {"cancel", "spawn"} /\ Open(pcb)

\* A timeout is scheduled, a deadline, a handler, or spent: one at a time.
OneToken ==
    /\ \A k \in Keys, r \in Regs : deadlines[k] = r =>
          RegKey[r] = k /\ rpc[r] = "done" /\ r \notin handlers \cup timedOut
    /\ \A r \in handlers : rpc[r] = "done" /\ r \notin timedOut

Calls ==
    \A r \in Regs :
        /\ r \in timedOut => rpc[r] = "done" /\ called[r] = {}
        /\ rpc[r] \in {"new", "drained"} => called[r] = {}
        /\ \A m, n \in called[r] : m = n

OneEnd == Types /\ OneLive /\ Registered /\ Popped /\ OneToken /\ Calls

LEMMA OneEndExcludes == OneEnd => MutuallyExclusive
<1> SUFFICES ASSUME OneEnd, NEW r \in Regs
             PROVE  /\ r \in timedOut => called[r] = {} /\ ~InHand(r)
                    /\ \A m, n \in called[r] : m = n
  BY DEF MutuallyExclusive
<1>1. r \in timedOut => called[r] = {} /\ rpc[r] = "done"
  BY DEF OneEnd, Calls
<1>2. r \in timedOut => pcb # r
  BY ConstantsAssumption DEF OneEnd, Popped, Open
<1>3. \A m, n \in called[r] : m = n
  BY DEF OneEnd, Calls
<1> QED BY <1>1, <1>2, <1>3 DEF InHand

LEMMA InitOneEnd == Init => OneEnd
BY InitTypes, ConstantsAssumption
DEF Init, OneEnd, OneLive, Registered, Popped, OneToken, Calls, Open

\* Of a live registration and one whose timeout is not spent, both of one key,
\* only one can be there: the handler pops its own callback or none.
LEMMA HandlerPopsItsOwn ==
    ASSUME OneEnd, NEW r \in handlers, callbacks[RegKey[r]] # NoReg
    PROVE  callbacks[RegKey[r]] = r
<1> DEFINE q == callbacks[RegKey[r]]
<1>1. r \in Regs /\ RegKey[r] \in Keys /\ q \in Regs
  BY ConstantsAssumption DEF OneEnd, Types, WatchTypes, TableTypes
<1>2. RegKey[q] = RegKey[r] /\ rpc[q] # "new" /\ q \notin timedOut
  BY <1>1 DEF OneEnd, Registered, Open
<1>3. rpc[r] # "new" /\ r \notin timedOut
  BY DEF OneEnd, OneToken
<1> QED BY <1>1, <1>2, <1>3 DEF OneEnd, OneLive

LEMMA PollKeepsOneEnd == ASSUME OneEnd, PollStep PROVE OneEnd'
<1> USE ConstantsAssumption DEF busVars, pollVars, tableVars, watchVars, callVars, waitVars, forgetVars
<1>0. Types /\ Types'
  BY PollKeepsTypes DEF OneEnd
<1>1. CASE Receive
  BY <1>0, <1>1, ZenonT(60) DEF Receive, OneEnd, OneLive, Registered, Popped, OneToken, Calls, Open
<1>2. CASE Default
  BY <1>0, <1>2 DEF Default, OneEnd, OneLive, Registered, Popped, OneToken, Calls, Open
<1>3. CASE Route
  <2> DEFINE k == MsgKey[pmsg]
  <2>1. k \in Keys
    BY <1>0, <1>3 DEF Route, Types, PollTypes
  <2>2. OneLive' /\ OneToken' /\ Calls'
    BY <1>3 DEF Route, OneEnd, OneLive, OneToken, Calls
  <2>3. CASE callbacks[k] # NoReg
    <3>1. pcb' = callbacks[k] /\ callbacks' = [callbacks EXCEPT ![k] = NoReg] /\ ppc' = "cancel"
          /\ rpc' = rpc /\ called' = called /\ timedOut' = timedOut
      BY <1>3, <2>3 DEF Route
    <3>2. Registered'
      BY <1>0, <2>1, <3>1 DEF OneEnd, Registered, Open, Types, TableTypes
    <3>3. Popped'
      <4>1. callbacks[k] \in Regs /\ Open(callbacks[k])
        BY <1>0, <2>1, <2>3 DEF OneEnd, Registered, Types, TableTypes
      <4> QED BY <3>1, <4>1 DEF Popped, Open
    <3> QED BY <1>0, <2>2, <3>2, <3>3 DEF OneEnd
  <2>4. CASE callbacks[k] = NoReg
    <3>1. pcb' = pcb /\ callbacks' = callbacks /\ rpc' = rpc /\ called' = called /\ timedOut' = timedOut
      BY <1>3, <2>4 DEF Route
    <3>2. pcb = NoReg
      BY <1>3 DEF Route, OneEnd, Popped
    <3> QED BY <1>0, <2>2, <3>1, <3>2 DEF OneEnd, Registered, Popped, Open
  <2> QED BY <2>3, <2>4
<1>4. CASE CancelTimeout
  <2>1. OneToken'
    BY <1>0, <1>4 DEF CancelTimeout, OneEnd, OneToken, Types, WatchTypes
  <2> QED BY <1>0, <1>4, <2>1 DEF CancelTimeout, OneEnd, OneLive, Registered, Popped, Calls, Open
<1>5. CASE Spawn
  <2>1. pcb \in Regs /\ Open(pcb)
    BY <1>0, <1>5 DEF Spawn, Types, PollTypes, OneEnd, Popped
  <2>2. \A r \in Regs : called'[r] = IF r = pcb THEN {pmsg} ELSE called[r]
    BY <1>0, <1>5, <2>1 DEF Spawn, Types, CallTypes, Open
  <2>3. OneLive' /\ OneToken' /\ Popped'
    BY <1>5 DEF Spawn, OneEnd, OneLive, OneToken, Popped
  <2>4. Registered'
    <3>1. \A k \in Keys : callbacks[k] # NoReg => callbacks[k] \in Regs /\ callbacks[k] # pcb
      BY <1>0 DEF OneEnd, Registered, Types, TableTypes
    <3> QED BY <1>5, <2>2, <3>1 DEF Spawn, OneEnd, Registered, Open
  <2>5. Calls'
    BY <1>5, <2>1, <2>2 DEF Spawn, OneEnd, Calls, Open
  <2> QED BY <1>0, <2>3, <2>4, <2>5 DEF OneEnd
<1> QED BY <1>1, <1>2, <1>3, <1>4, <1>5 DEF PollStep

LEMMA CallKeepsOneEnd ==
    ASSUME OneEnd, NEW r \in Regs, OnKey(r) \/ CallStep(r) \/ TimeoutHandler(r)
    PROVE  OneEnd'
<1> USE ConstantsAssumption DEF busVars, pollVars, tableVars, watchVars, callVars, waitVars, forgetVars
<1>0. Types /\ Types' /\ RegKey[r] \in Keys
  BY CallKeepsTypes DEF OneEnd
<1>1. CASE OnKey(r)
  <2>1. /\ rpc[r] = "new" /\ called[r] = {} /\ r \notin timedOut /\ r \notin handlers /\ pcb # r
        /\ \A k \in Keys : deadlines[k] # r /\ callbacks[k] # r
    BY <1>0, <1>1 DEF OnKey, OneEnd, Calls, OneToken, Popped, Registered, Open
  <2>2. \E x \in {"drained", "schedule"} : rpc' = [rpc EXCEPT ![r] = x]
    BY <1>1 DEF OnKey
  <2>3. \A q \in Regs \ {r} : rpc'[q] = rpc[q]
    BY <1>0, <2>2 DEF Types, CallTypes
  <2>4. rpc'[r] \in {"drained", "schedule"}
    BY <1>0, <2>2 DEF Types, CallTypes
  <2>5. UNCHANGED <<called, timedOut, handlers, deadlines, pcb, ppc>>
    BY <1>1 DEF OnKey
  <2>6. OneLive'
    BY <1>1, <2>3, <2>5 DEF OnKey, MayWatch, OneEnd, OneLive
  <2>7. OneToken'
    BY <1>0, <2>1, <2>3, <2>5 DEF OneEnd, OneToken, Types, WatchTypes
  <2>8. Calls'
    BY <2>1, <2>3, <2>4, <2>5 DEF OneEnd, Calls
  <2>9. Popped'
    BY <1>0, <2>1, <2>3, <2>5 DEF OneEnd, Popped, Open, Types, PollTypes
  <2>10. Registered'
    <3>1. CASE callbacks' = callbacks
      <4>1. ASSUME NEW k \in Keys, NEW q \in Regs, callbacks[k] = q
            PROVE  RegKey[q] = k /\ Open(q)' /\ pcb' # q
        <5>1. q # r /\ RegKey[q] = k /\ Open(q) /\ pcb # q
          BY <2>1, <4>1 DEF OneEnd, Registered
        <5> QED
          BY <2>3, <2>5, <5>1 DEF Open
      <4> QED
        BY <3>1, <4>1 DEF Registered
    <3>2. CASE callbacks' = [callbacks EXCEPT ![RegKey[r]] = r] /\ rpc' = [rpc EXCEPT ![r] = "schedule"]
      <4>1. \A k \in Keys : callbacks'[k] = IF k = RegKey[r] THEN r ELSE callbacks[k]
        BY <1>0, <3>2 DEF Types, TableTypes
      <4>2. rpc'[r] = "schedule"
        BY <1>0, <3>2 DEF Types, CallTypes
      <4>3. Open(r)' /\ pcb' # r
        BY <2>1, <2>5, <4>2 DEF Open
      <4>4. ASSUME NEW k \in Keys, NEW q \in Regs, callbacks'[k] = q
            PROVE  RegKey[q] = k /\ Open(q)' /\ pcb' # q
        <5>1. CASE k = RegKey[r]
          BY <4>1, <4>3, <4>4, <5>1
        <5>2. CASE k # RegKey[r]
          <6>1. callbacks[k] = q /\ q # r
            BY <2>1, <4>1, <4>4, <5>2
          <6> QED BY <2>3, <2>5, <6>1 DEF OneEnd, Registered, Open
        <5> QED BY <5>1, <5>2
      <4> QED BY <4>4 DEF Registered
    <3> QED BY <1>1, <3>1, <3>2 DEF OnKey
  <2> QED BY <1>0, <2>6, <2>7, <2>8, <2>9, <2>10 DEF OneEnd
<1>2. CASE OnKeyDrained(r)
  <2>1. rpc[r] = "drained" /\ called[r] = {} /\ r \notin timedOut
    BY <1>2 DEF OnKeyDrained, OneEnd, Calls
  <2>2. \A q \in Regs : /\ rpc'[q] = IF q = r THEN "done" ELSE rpc[q]
                        /\ called'[q] = IF q = r THEN {drained[r]} ELSE called[q]
    BY <1>0, <1>2, <2>1 DEF OnKeyDrained, Types, CallTypes
  <2>3. UNCHANGED <<timedOut, handlers, deadlines, callbacks, pcb, ppc>>
    BY <1>2 DEF OnKeyDrained
  <2>4. OneLive'
    BY <2>1, <2>2, <2>3 DEF OneEnd, OneLive
  <2>5. OneToken'
    BY <1>0, <2>2, <2>3 DEF OneEnd, OneToken, Types, WatchTypes
  <2>6. Calls'
    BY <2>1, <2>2, <2>3 DEF OneEnd, Calls
  <2>7. Popped'
    BY <1>0, <2>1, <2>2, <2>3 DEF OneEnd, Popped, Open, Types, PollTypes
  <2>8. Registered'
    <3>1. \A k \in Keys : callbacks[k] # r
      BY <2>1 DEF OneEnd, Registered, Open
    <3> QED BY <2>2, <2>3, <3>1 DEF OneEnd, Registered, Open
  <2> QED BY <1>0, <2>4, <2>5, <2>6, <2>7, <2>8 DEF OneEnd
<1>3. CASE Schedule(r)
  <2>1. rpc[r] = "schedule" /\ r \notin timedOut /\ r \notin handlers
    BY <1>3 DEF Schedule, OneEnd, Calls, OneToken
  <2>2. \A q \in Regs : rpc'[q] = IF q = r THEN "done" ELSE rpc[q]
    BY <1>0, <1>3 DEF Schedule, Types, CallTypes
  <2>3. \A k \in Keys : deadlines'[k] = IF k = RegKey[r] THEN r ELSE deadlines[k]
    BY <1>0, <1>3 DEF Schedule, Types, WatchTypes
  <2>4. UNCHANGED <<called, timedOut, handlers, callbacks, pcb, ppc>>
    BY <1>3 DEF Schedule
  <2>5. OneLive'
    BY <2>1, <2>2, <2>4 DEF OneEnd, OneLive
  <2>6. OneToken'
    BY <1>0, <2>1, <2>2, <2>3, <2>4 DEF OneEnd, OneToken, Types, WatchTypes
  <2>7. Calls'
    BY <2>1, <2>2, <2>4 DEF OneEnd, Calls
  <2>8. Popped'
    BY <1>0, <2>1, <2>2, <2>4 DEF OneEnd, Popped, Open, Types, PollTypes
  <2>9. Registered'
    BY <1>0, <2>1, <2>2, <2>4 DEF OneEnd, Registered, Open, Types, TableTypes
  <2> QED BY <1>0, <2>5, <2>6, <2>7, <2>8, <2>9 DEF OneEnd
<1>4. CASE TimeoutHandler(r)
  <2>1. r \in handlers /\ rpc[r] = "done" /\ r \notin timedOut
    BY <1>4 DEF TimeoutHandler, OneEnd, OneToken
  <2>2. handlers' = handlers \ {r} /\ UNCHANGED <<called, rpc, deadlines, pcb, ppc>>
    BY <1>4 DEF TimeoutHandler
  <2>3. \A k \in Keys : callbacks'[k] = IF k = RegKey[r] THEN NoReg ELSE callbacks[k]
    BY <1>0, <1>4 DEF TimeoutHandler, Types, TableTypes
  <2>4. CASE callbacks[RegKey[r]] = NoReg
    <3>1. timedOut' = timedOut
      BY <1>4, <2>4 DEF TimeoutHandler
    <3> QED BY <1>0, <2>2, <2>3, <3>1 DEF OneEnd, OneLive, Registered, Popped, OneToken, Calls, Open
  <2>5. CASE callbacks[RegKey[r]] # NoReg
    <3>1. timedOut' = timedOut \cup {r}
      BY <1>4, <2>5 DEF TimeoutHandler
    <3>2. callbacks[RegKey[r]] = r
      BY <2>1, <2>5, HandlerPopsItsOwn
    <3>3. called[r] = {} /\ pcb # r
      BY <1>0, <2>5, <3>2 DEF OneEnd, Registered, Open
    <3>4. OneLive'
      BY <2>2, <3>1 DEF OneEnd, OneLive
    <3>5. OneToken'
      BY <2>1, <2>2, <3>1 DEF OneEnd, OneToken
    <3>6. Calls'
      BY <2>1, <2>2, <3>1, <3>3 DEF OneEnd, Calls
    <3>7. Popped'
      BY <2>2, <3>1, <3>3 DEF OneEnd, Popped, Open
    <3>8. Registered'
      BY <1>0, <2>2, <2>3, <3>1, <3>2 DEF OneEnd, Registered, Open
    <3> QED BY <1>0, <3>4, <3>5, <3>6, <3>7, <3>8 DEF OneEnd
  <2> QED BY <2>4, <2>5
<1> QED BY <1>1, <1>2, <1>3, <1>4 DEF CallStep

LEMMA OtherStepsKeepOneEnd ==
    ASSUME OneEnd, \/ \E m \in Msgs : Arrive(m)
                   \/ ScanStep
                   \/ \E w \in Waiters : Get(w) \/ \E k \in Keys : ReceiveFor(w, k)
                   \/ \E k \in Keys : Forget(k) \/ ForgetTimeout(k)
                   \/ Stop
    PROVE  OneEnd'
<1> USE ConstantsAssumption DEF busVars, pollVars, tableVars, watchVars, callVars, waitVars, forgetVars
<1>0. Types /\ Types'
  BY OtherStepsKeepTypes DEF OneEnd
<1> DEFINE Ends == UNCHANGED <<ppc, pcb, callbacks, deadlines, handlers, timedOut, rpc, called>>
<1>1. ASSUME Ends PROVE OneEnd'
  BY <1>0, <1>1 DEF OneEnd, OneLive, Registered, Popped, OneToken, Calls, Open
<1>2. ASSUME NEW late \in SUBSET Keys, Scan(late) PROVE OneEnd'
  <2>1. UNCHANGED <<ppc, pcb, callbacks, timedOut, rpc, called>>
    BY <1>2 DEF Scan
  <2>2. OneToken'
    BY <1>0, <1>2, <2>1 DEF Scan, OneEnd, OneToken, Types, WatchTypes
  <2> QED BY <1>0, <2>1, <2>2 DEF OneEnd, OneLive, Registered, Popped, Calls, Open
<1>3. ASSUME NEW k \in Keys, Forget(k) PROVE OneEnd'
  <2>1. \A j \in Keys : callbacks'[j] = IF j = k THEN NoReg ELSE callbacks[j]
    BY <1>0, <1>3 DEF Forget, Types, TableTypes
  <2>2. UNCHANGED <<ppc, pcb, deadlines, handlers, timedOut, rpc, called>>
    BY <1>3 DEF Forget
  <2>3. Registered'
    BY <2>1, <2>2, ConstantsAssumption DEF OneEnd, Registered, Open
  <2> QED BY <1>0, <2>2, <2>3 DEF OneEnd, OneLive, Popped, OneToken, Calls, Open
<1>4. ASSUME NEW k \in Keys, ForgetTimeout(k) PROVE OneEnd'
  <2>1. \A j \in Keys : deadlines'[j] = IF j = k THEN NoReg ELSE deadlines[j]
    BY <1>0, <1>4 DEF ForgetTimeout, Types, WatchTypes
  <2>2. UNCHANGED <<ppc, pcb, callbacks, handlers, timedOut, rpc, called>>
    BY <1>4 DEF ForgetTimeout
  <2>3. OneToken'
    BY <2>1, <2>2 DEF OneEnd, OneToken
  <2> QED BY <1>0, <2>2, <2>3 DEF OneEnd, OneLive, Registered, Popped, Calls, Open
<1>5. (\E m \in Msgs : Arrive(m)) \/ (\E w \in Waiters : Get(w) \/ \E k \in Keys : ReceiveFor(w, k)) \/ Stop
        => Ends
  BY DEF Arrive, Get, ReceiveFor, Stop
<1> QED BY <1>1, <1>2, <1>3, <1>4, <1>5 DEF ScanStep

LEMMA StutterKeepsOneEnd == ASSUME OneEnd, UNCHANGED vars PROVE OneEnd'
<1>1. Types'
  BY StutterKeepsTypes DEF OneEnd
<1> QED BY <1>1 DEF OneEnd, vars, busVars, pollVars, tableVars, watchVars, callVars, waitVars, forgetVars, OneLive, Registered, Popped,
            OneToken, Calls, Open

LEMMA NextKeepsOneEnd == OneEnd /\ [Next]_vars => OneEnd'
BY PollKeepsOneEnd, CallKeepsOneEnd, OtherStepsKeepOneEnd, StutterKeepsOneEnd DEF Next

\* A watch ends in one message or in one timeout, never in both and never in
\* two messages (router.py's promise to run_skill).
THEOREM ExactlyOneEnd == Spec => []MutuallyExclusive
<1>1. Spec => []OneEnd
  BY InitOneEnd, NextKeepsOneEnd, PTL DEF Spec
<1> QED BY <1>1, OneEndExcludes, PTL

-----------------------------------------------------------------------------
(* No missed message                                                         *)

LEMMA NextKeepsNoMissed == Types /\ NoMissedMessage /\ [Next]_vars => NoMissedMessage'
<1> SUFFICES ASSUME Types, NoMissedMessage, [Next]_vars PROVE NoMissedMessage'
  OBVIOUS
<1> USE ConstantsAssumption DEF Types, busVars, pollVars, tableVars, watchVars, callVars, waitVars, forgetVars
<1>1. CASE UNCHANGED <<queues, callbacks>>
  BY <1>1 DEF NoMissedMessage
<1>2. CASE Route
  <2>1. MsgKey[pmsg] \in Keys
    BY <1>2 DEF Route, PollTypes
  <2> QED BY <1>2, <2>1 DEF Route, NoMissedMessage, TableTypes
<1>3. ASSUME NEW r \in Regs, OnKey(r) PROVE NoMissedMessage'
  <2>1. RegKey[r] \in Keys /\ r # NoReg
    OBVIOUS
  <2>2. CASE queues[RegKey[r]] # <<>>
    <3>1. callbacks' = callbacks /\ callbacks[RegKey[r]] = NoReg
      BY <1>3, <2>1, <2>2 DEF OnKey, NoMissedMessage
    <3>2. \A k \in Keys : k # RegKey[r] => queues'[k] = queues[k]
      BY <1>3, <2>1, <2>2 DEF OnKey, TableTypes
    <3> QED BY <3>1, <3>2 DEF NoMissedMessage
  <2>3. CASE queues[RegKey[r]] = <<>>
    BY <1>3, <2>1, <2>3 DEF OnKey, NoMissedMessage, TableTypes
  <2> QED BY <2>2, <2>3
<1>4. ASSUME NEW r \in Regs, TimeoutHandler(r) PROVE NoMissedMessage'
  BY <1>4 DEF TimeoutHandler, NoMissedMessage, TableTypes
<1>5. ASSUME NEW w \in Waiters, Get(w) PROVE NoMissedMessage'
  <2>1. wkey[w] \in Keys /\ callbacks' = callbacks
    BY <1>5 DEF Get, WaitTypes
  <2>2. \A k \in Keys : queues[k] = <<>> => queues'[k] = <<>>
    BY <1>5, <2>1 DEF Get, TableTypes
  <2> QED BY <2>1, <2>2 DEF NoMissedMessage
<1>6. ASSUME NEW k \in Keys, Forget(k) PROVE NoMissedMessage'
  BY <1>6 DEF Forget, NoMissedMessage, TableTypes
<1>7. \/ ScanStep
      \/ \E m \in Msgs : Arrive(m)
      \/ Receive \/ Default \/ CancelTimeout \/ Spawn
      \/ \E r \in Regs : CallStep(r)
      \/ \E w \in Waiters, k \in Keys : ReceiveFor(w, k)
      \/ \E k \in Keys : ForgetTimeout(k)
      \/ Stop
      \/ UNCHANGED vars
      => UNCHANGED <<queues, callbacks>>
  BY DEF ScanStep, Scan, Arrive, Receive, Default, CancelTimeout, Spawn, CallStep, OnKeyDrained, Schedule,
         ReceiveFor, ForgetTimeout, Stop, vars
<1> QED BY <1>1, <1>2, <1>3, <1>4, <1>5, <1>6, <1>7 DEF Next, PollStep

\* A message and a callback of one key never wait for each other: on_key drains
\* before it registers, the poller looks for a callback before it queues.
THEOREM NothingMissed == Spec => []NoMissedMessage
<1>1. Spec => []Types
  BY InitTypes, NextKeepsTypes, PTL DEF Spec
<1>2. Init => NoMissedMessage
  BY DEF Init, NoMissedMessage
<1> QED BY <1>1, <1>2, NextKeepsNoMissed, PTL DEF Spec

-----------------------------------------------------------------------------
(****************************************************************************)
(* The router neither loses nor doubles a message, and so implements         *)
(* one-shot watches: for every number of keys, messages, watches and waiting *)
(* threads.                                                                  *)
(*                                                                           *)
(* The argument: at any time every message has one holder - its sender, the  *)
(* inbox, the polling thread, a queue, a call of on_key, a callback, or one  *)
(* of the ways out - and a step hands it from one holder to another.         *)
(****************************************************************************)

Elements(s) == {s[i] : i \in 1 .. Len(s)}
Distinct(s) == \A i, j \in 1 .. Len(s) : s[i] = s[j] => i = j

LEMMA TailElements ==
    ASSUME NEW S, NEW s \in Seq(S), s # <<>>, Distinct(s)
    PROVE  /\ Head(s) \in Elements(s)
           /\ Distinct(Tail(s))
           /\ \A m : m \in Elements(Tail(s)) <=> m \in Elements(s) /\ m # Head(s)
<1>1. Len(s) \in Nat \ {0} /\ Head(s) = s[1] /\ Len(Tail(s)) = Len(s) - 1
  OBVIOUS
<1>2. \A i \in 1 .. Len(Tail(s)) : Tail(s)[i] = s[i + 1]
  OBVIOUS
<1>3. Head(s) \in Elements(s)
  BY <1>1 DEF Elements
<1>4. Distinct(Tail(s))
  <2> SUFFICES ASSUME NEW i \in 1 .. Len(Tail(s)), NEW j \in 1 .. Len(Tail(s)), Tail(s)[i] = Tail(s)[j]
               PROVE  i = j
    BY DEF Distinct
  <2>1. s[i + 1] = s[j + 1] /\ i + 1 \in 1 .. Len(s) /\ j + 1 \in 1 .. Len(s)
    BY <1>1, <1>2
  <2>2. i + 1 = j + 1
    BY <2>1 DEF Distinct
  <2> QED BY <1>1, <2>2
<1>5. ASSUME NEW m, m \in Elements(Tail(s)) PROVE m \in Elements(s) /\ m # Head(s)
  <2>1. PICK i \in 1 .. Len(Tail(s)) : m = Tail(s)[i]
    BY <1>5 DEF Elements
  <2>2. m = s[i + 1] /\ i + 1 \in 1 .. Len(s) /\ 1 \in 1 .. Len(s) /\ i + 1 # 1
    BY <1>1, <1>2, <2>1
  <2> QED BY <1>1, <2>2 DEF Elements, Distinct
<1>6. ASSUME NEW m, m \in Elements(s), m # Head(s) PROVE m \in Elements(Tail(s))
  <2>1. PICK i \in 1 .. Len(s) : m = s[i]
    BY <1>6 DEF Elements
  <2>2. i - 1 \in 1 .. Len(Tail(s)) /\ (i - 1) + 1 = i
    BY <1>1, <1>6, <2>1
  <2>3. Tail(s)[i - 1] = m
    BY <1>2, <2>1, <2>2
  <2> QED BY <2>2, <2>3 DEF Elements
<1> QED BY <1>3, <1>4, <1>5, <1>6

LEMMA AppendElements ==
    ASSUME NEW S, NEW s \in Seq(S), NEW x \in S
    PROVE  /\ \A m : m \in Elements(Append(s, x)) <=> m \in Elements(s) \/ m = x
           /\ Distinct(s) /\ x \notin Elements(s) => Distinct(Append(s, x))
<1>1. Len(Append(s, x)) = Len(s) + 1 /\ Len(s) \in Nat
  OBVIOUS
<1>2. Append(s, x)[Len(s) + 1] = x /\ \A i \in 1 .. Len(s) : Append(s, x)[i] = s[i]
  OBVIOUS
<1>3. \A i : i \in 1 .. Len(Append(s, x)) <=> i \in 1 .. Len(s) \/ i = Len(s) + 1
  BY <1>1
<1>4. \A m : m \in Elements(Append(s, x)) <=> m \in Elements(s) \/ m = x
  BY <1>2, <1>3 DEF Elements
<1>5. ASSUME Distinct(s), x \notin Elements(s),
             NEW i \in 1 .. Len(Append(s, x)), NEW j \in 1 .. Len(Append(s, x)),
             Append(s, x)[i] = Append(s, x)[j]
      PROVE  i = j
  <2>1. \A n \in 1 .. Len(s) : s[n] # x
    BY <1>5 DEF Elements
  <2> QED BY <1>2, <1>3, <1>5, <2>1 DEF Distinct
<1> QED BY <1>4, <1>5 DEF Distinct

LEMMA EmptyElements == Elements(<<>>) = {} /\ Distinct(<<>>)
BY DEF Elements, Distinct

-----------------------------------------------------------------------------
(* One holder                                                                *)

Holds(h, m) ==
    \/ h = <<"unsent", 0>> /\ m \in unsent
    \/ h = <<"bus", 0>> /\ m \in Elements(bus)
    \/ h = <<"poller", 0>> /\ m = pmsg
    \/ \E k \in Keys : h = <<"queue", k>> /\ m \in Elements(queues[k])
    \/ \E r \in Regs : h = <<"drained", r>> /\ m = drained[r]
    \/ \E r \in Regs : h = <<"called", r>> /\ m \in called[r]
    \/ h = <<"handled", 0>> /\ m \in handled
    \/ h = <<"received", 0>> /\ m \in received
    \/ h = <<"dropped", 0>> /\ m \in dropped

Held(m) == \E h : \A g : Holds(g, m) <=> g = h

OneHolder == \A m \in Msgs : Held(m)

\* A sequence holds a message at one position, and empty hands hold none.
Tidy ==
    /\ Distinct(bus)
    /\ \A k \in Keys : Distinct(queues[k])
    /\ ppc = "receive" <=> pmsg = NoMsg
    /\ \A r \in Regs : rpc[r] # "drained" => drained[r] = NoMsg

Single == OneEnd /\ OneHolder /\ Tidy

LEMMA InitSingle == Init => Single
<1> SUFFICES ASSUME Init PROVE Single
  OBVIOUS
<1>1. OneEnd
  BY InitOneEnd
<1>2. Tidy
  BY EmptyElements, ConstantsAssumption DEF Init, Tidy
<1>3. ASSUME NEW m \in Msgs PROVE \A g : Holds(g, m) <=> g = <<"unsent", 0>>
  <2>1. m # NoMsg
    BY ConstantsAssumption
  <2> QED BY <2>1, EmptyElements DEF Init, Holds
<1> QED BY <1>1, <1>2, <1>3 DEF Single, OneHolder, Held

\* A step hands a message over, or leaves it where it is.
LEMMA HandOver ==
    ASSUME OneHolder, NEW m \in Msgs, NEW x, NEW y, x # y, Holds(x, m), ~Holds(x, m)', Holds(y, m)',
           \A g : g # x /\ g # y => (Holds(g, m)' <=> Holds(g, m))
    PROVE  Held(m)'
<1>1. PICK h : \A g : Holds(g, m) <=> g = h
  BY DEF OneHolder, Held
<1>2. x = h
  BY <1>1
<1>3. \A g : Holds(g, m)' <=> g = y
  BY <1>1, <1>2
<1> QED BY <1>3 DEF Held

LEMMA Stay ==
    ASSUME OneHolder, NEW m \in Msgs, \A g : Holds(g, m)' <=> Holds(g, m)
    PROVE  Held(m)'
<1>1. PICK h : \A g : Holds(g, m) <=> g = h
  BY DEF OneHolder, Held
<1>2. \A g : Holds(g, m)' <=> g = h
  BY <1>1
<1> QED BY <1>2 DEF Held

LEMMA ArriveKeeps == ASSUME Single, NEW m \in Msgs, Arrive(m) PROVE OneHolder' /\ Tidy'
<1> USE ConstantsAssumption DEF busVars, pollVars, tableVars, watchVars, callVars, waitVars, forgetVars
<1>1. /\ unsent' = unsent \ {m} /\ m \in unsent /\ bus' = Append(bus, m)
      /\ UNCHANGED <<ppc, pmsg, queues, rpc, drained, called, handled, received, dropped>>
  BY DEF Arrive
<1>2. bus \in Seq(Msgs) /\ OneHolder /\ Tidy
  BY DEF Single, OneEnd, Types, BusTypes
<1>3. m \notin Elements(bus)
  <2>1. Holds(<<"unsent", 0>>, m) /\ <<"unsent", 0>> # <<"bus", 0>>
    BY <1>1 DEF Holds
  <2>2. ~Holds(<<"bus", 0>>, m)
    BY <1>2, <2>1 DEF OneHolder, Held
  <2> QED BY <2>2 DEF Holds
<1>4. Distinct(bus') /\ \A n : n \in Elements(bus') <=> n \in Elements(bus) \/ n = m
  BY <1>1, <1>2, <1>3, AppendElements DEF Tidy
<1>5. Tidy'
  BY <1>1, <1>2, <1>4 DEF Tidy
<1>6. ASSUME NEW n \in Msgs, n # m PROVE Held(n)'
  <2>1. \A g : Holds(g, n)' <=> Holds(g, n)
    BY <1>1, <1>4, <1>6 DEF Holds
  <2> QED BY <1>2, <2>1, Stay
<1>7. Held(m)'
  <2> DEFINE x == <<"unsent", 0>>
             y == <<"bus", 0>>
  <2>1. x # y /\ Holds(x, m) /\ ~Holds(x, m)' /\ Holds(y, m)'
    BY <1>1, <1>4 DEF Holds
  <2>2. \A g : g # x /\ g # y => (Holds(g, m)' <=> Holds(g, m))
    BY <1>1, <1>4 DEF Holds
  <2> HIDE DEF x, y
  <2> QED BY <1>2, <2>1, <2>2, HandOver
<1> QED BY <1>5, <1>6, <1>7 DEF OneHolder

LEMMA ReceiveKeeps == ASSUME Single, Receive PROVE OneHolder' /\ Tidy'
<1> USE ConstantsAssumption DEF busVars, pollVars, tableVars, watchVars, callVars, waitVars, forgetVars
<1>0. PICK m \in Msgs : m = Head(bus)
  BY DEF Receive, Single, OneEnd, Types, BusTypes
<1>1. /\ bus # <<>> /\ ppc = "receive" /\ ppc' = "route" /\ pmsg' = m /\ m = Head(bus) /\ bus' = Tail(bus)
      /\ UNCHANGED <<unsent, queues, rpc, drained, called, handled, received, dropped>>
  BY <1>0 DEF Receive
<1>2. bus \in Seq(Msgs) /\ OneHolder /\ Tidy
  BY DEF Single, OneEnd, Types, BusTypes
<1>3. m # NoMsg /\ pmsg = NoMsg
  BY <1>1, <1>2 DEF Tidy
<1>4. /\ m \in Elements(bus) /\ Distinct(bus')
      /\ \A n : n \in Elements(bus') <=> n \in Elements(bus) /\ n # m
  BY <1>1, <1>2, TailElements DEF Tidy
<1>5. Tidy'
  BY <1>1, <1>2, <1>3, <1>4 DEF Tidy
<1>6. ASSUME NEW n \in Msgs, n # m PROVE Held(n)'
  <2>1. \A g : Holds(g, n)' <=> Holds(g, n)
    BY <1>1, <1>3, <1>4, <1>6 DEF Holds
  <2> QED BY <1>2, <2>1, Stay
<1>7. Held(m)'
  <2> DEFINE x == <<"bus", 0>>
             y == <<"poller", 0>>
  <2>1. x # y /\ Holds(x, m) /\ ~Holds(x, m)' /\ Holds(y, m)'
    BY <1>1, <1>3, <1>4 DEF Holds
  <2>2. \A g : g # x /\ g # y => (Holds(g, m)' <=> Holds(g, m))
    BY <1>1, <1>3, <1>4 DEF Holds
  <2> HIDE DEF x, y
  <2> QED BY <1>2, <2>1, <2>2, HandOver
<1> QED BY <1>5, <1>6, <1>7, <1>3 DEF OneHolder

LEMMA DefaultKeeps == ASSUME Single, Default PROVE OneHolder' /\ Tidy'
<1> USE ConstantsAssumption DEF busVars, pollVars, tableVars, watchVars, callVars, waitVars, forgetVars
<1>0. PICK m \in Msgs : m = pmsg
  BY DEF Default, Single, OneEnd, Types, PollTypes
<1>1. /\ pmsg = m /\ ppc = "route" /\ ppc' = "receive" /\ pmsg' = NoMsg /\ handled' = handled \cup {m}
      /\ UNCHANGED <<unsent, bus, queues, rpc, drained, called, received, dropped>>
  BY <1>0 DEF Default
<1>2. OneHolder /\ Tidy /\ m # NoMsg
  BY <1>1 DEF Single, OneEnd, Types, PollTypes
<1>5. Tidy'
  BY <1>1, <1>2 DEF Tidy
<1>6. ASSUME NEW n \in Msgs, n # m PROVE Held(n)'
  <2>1. \A g : Holds(g, n)' <=> Holds(g, n)
    BY <1>1, <1>2, <1>6 DEF Holds
  <2> QED BY <1>2, <2>1, Stay
<1>7. Held(m)'
  <2> DEFINE x == <<"poller", 0>>
             y == <<"handled", 0>>
  <2>1. x # y /\ Holds(x, m) /\ ~Holds(x, m)' /\ Holds(y, m)'
    BY <1>1, <1>2 DEF Holds
  <2>2. \A g : g # x /\ g # y => (Holds(g, m)' <=> Holds(g, m))
    BY <1>1, <1>2 DEF Holds
  <2> HIDE DEF x, y
  <2> QED BY <1>2, <2>1, <2>2, HandOver
<1> QED BY <1>5, <1>6, <1>7, <1>2 DEF OneHolder

LEMMA SpawnKeeps == ASSUME Single, Spawn PROVE OneHolder' /\ Tidy'
<1> USE ConstantsAssumption DEF busVars, pollVars, tableVars, watchVars, callVars, waitVars, forgetVars
<1>0. PICK m \in Msgs, c \in Regs : m = pmsg /\ c = pcb
  BY DEF Spawn, Single, OneEnd, Types, PollTypes
<1>1. /\ pmsg = m /\ pcb = c /\ ppc = "spawn" /\ ppc' = "receive" /\ pmsg' = NoMsg
      /\ called' = [called EXCEPT ![c] = called[c] \cup {m}]
      /\ UNCHANGED <<unsent, bus, queues, rpc, drained, handled, received, dropped>>
  BY <1>0 DEF Spawn
<1>2. OneHolder /\ Tidy /\ m # NoMsg
  BY <1>1 DEF Single, OneEnd, Types, PollTypes
<1>3. \A r \in Regs : called'[r] = IF r = c THEN called[r] \cup {m} ELSE called[r]
  BY <1>1 DEF Single, OneEnd, Types, CallTypes
<1>5. Tidy'
  BY <1>1, <1>2 DEF Tidy
<1>6. ASSUME NEW n \in Msgs, n # m PROVE Held(n)'
  <2>1. \A g : Holds(g, n)' <=> Holds(g, n)
    BY <1>1, <1>2, <1>3, <1>6 DEF Holds
  <2> QED BY <1>2, <2>1, Stay
<1>7. Held(m)'
  <2> DEFINE x == <<"poller", 0>>
             y == <<"called", c>>
  <2>1. x # y /\ Holds(x, m) /\ ~Holds(x, m)' /\ Holds(y, m)'
    BY <1>1, <1>2, <1>3 DEF Holds
  <2>2. \A g : g # x /\ g # y => (Holds(g, m)' <=> Holds(g, m))
    BY <1>1, <1>2, <1>3 DEF Holds
  <2> HIDE DEF x, y
  <2> QED BY <1>2, <2>1, <2>2, HandOver
<1> QED BY <1>5, <1>6, <1>7, <1>2 DEF OneHolder

\* Steps that only move callbacks, timeouts and threads.
LEMMA QuietKeeps ==
    ASSUME Single,
           UNCHANGED <<unsent, bus, pmsg, queues, drained, called, handled, received, dropped>>,
           ppc = "receive" <=> ppc' = "receive",
           \A r \in Regs : rpc'[r] # "drained" => drained[r] = NoMsg
    PROVE  OneHolder' /\ Tidy'
<1>1. OneHolder /\ Tidy
  BY DEF Single
<1>2. Tidy'
  BY <1>1 DEF Tidy
<1>3. ASSUME NEW n \in Msgs PROVE Held(n)'
  <2>1. \A g : Holds(g, n)' <=> Holds(g, n)
    BY DEF Holds
  <2> QED BY <1>1, <2>1, Stay
<1> QED BY <1>2, <1>3 DEF OneHolder

LEMMA OnKeyDrainedKeeps == ASSUME Single, NEW r \in Regs, OnKeyDrained(r) PROVE OneHolder' /\ Tidy'
<1> USE ConstantsAssumption DEF busVars, pollVars, tableVars, watchVars, callVars, waitVars, forgetVars
<1>0. PICK m \in Msgs : m = drained[r]
  BY DEF OnKeyDrained, Single, OneEnd, Types, CallTypes
<1>1. /\ m = drained[r] /\ rpc[r] = "drained"
      /\ called' = [called EXCEPT ![r] = called[r] \cup {m}]
      /\ drained' = [drained EXCEPT ![r] = NoMsg]
      /\ rpc' = [rpc EXCEPT ![r] = "done"]
      /\ UNCHANGED <<unsent, bus, ppc, pmsg, queues, handled, received, dropped>>
  BY <1>0 DEF OnKeyDrained
<1>2. OneHolder /\ Tidy /\ m # NoMsg
  BY DEF Single
<1>3. \A q \in Regs : /\ called'[q] = IF q = r THEN called[q] \cup {m} ELSE called[q]
                      /\ drained'[q] = IF q = r THEN NoMsg ELSE drained[q]
                      /\ rpc'[q] = IF q = r THEN "done" ELSE rpc[q]
  BY <1>1 DEF Single, OneEnd, Types, CallTypes
<1>4. /\ m = drained[r] /\ UNCHANGED <<unsent, bus, ppc, pmsg, queues, handled, received, dropped>>
  BY <1>1
<1>5. Tidy'
  BY <1>2, <1>3, <1>4 DEF Tidy
<1>6. ASSUME NEW n \in Msgs, n # m PROVE Held(n)'
  <2>1. \A g : Holds(g, n)' <=> Holds(g, n)
    BY <1>2, <1>3, <1>4, <1>6, ZenonT(60) DEF Holds
  <2> QED BY <1>2, <2>1, Stay
<1>7. Held(m)'
  <2> DEFINE x == <<"drained", r>>
             y == <<"called", r>>
  <2>1. x # y /\ Holds(x, m) /\ ~Holds(x, m)' /\ Holds(y, m)'
    BY <1>2, <1>3, <1>4 DEF Holds
  <2>2. \A g : g # x /\ g # y => (Holds(g, m)' <=> Holds(g, m))
    BY <1>2, <1>3, <1>4, ZenonT(60) DEF Holds
  <2> HIDE DEF x, y
  <2> QED BY <1>2, <2>1, <2>2, HandOver
<1> QED BY <1>5, <1>6, <1>7 DEF OneHolder

LEMMA RouteKeeps == ASSUME Single, Route PROVE OneHolder' /\ Tidy'
<1> USE ConstantsAssumption DEF busVars, pollVars, tableVars, watchVars, callVars, waitVars, forgetVars
<1>0. PICK m \in Msgs, k \in Keys : m = pmsg /\ k = MsgKey[pmsg]
  BY DEF Route, Single, OneEnd, Types, PollTypes
<1>1. /\ pmsg = m /\ ppc = "route"
      /\ UNCHANGED <<unsent, bus, rpc, drained, called, handled, received, dropped>>
  BY <1>0 DEF Route
<1>2. OneHolder /\ Tidy /\ m # NoMsg
  BY DEF Single
<1>3. CASE callbacks[k] # NoReg
  <2>1. ppc' = "cancel" /\ UNCHANGED <<queues, pmsg>>
    BY <1>0, <1>3 DEF Route
  <2> QED BY <1>1, <1>2, <2>1, QuietKeeps DEF Tidy
<1>4. CASE callbacks[k] = NoReg
  <2>1. queues' = [queues EXCEPT ![k] = Append(queues[k], m)] /\ ppc' = "receive" /\ pmsg' = NoMsg
    BY <1>0, <1>4 DEF Route
  <2>2. queues \in [Keys -> Seq(Msgs)] /\ queues[k] \in Seq(Msgs)
    BY DEF Single, OneEnd, Types, TableTypes
  <2>3. m \notin Elements(queues[k])
    <3>1. Holds(<<"poller", 0>>, m) /\ <<"poller", 0>> # <<"queue", k>>
      BY <1>1 DEF Holds
    <3>2. ~Holds(<<"queue", k>>, m)
      BY <1>2, <3>1 DEF OneHolder, Held
    <3> QED BY <3>2 DEF Holds
  <2>4. /\ Distinct(queues'[k])
        /\ \A n : n \in Elements(queues'[k]) <=> n \in Elements(queues[k]) \/ n = m
        /\ \A j \in Keys \ {k} : queues'[j] = queues[j]
    BY <1>2, <2>1, <2>2, <2>3, AppendElements DEF Tidy
  <2>5. Tidy'
    BY <1>1, <1>2, <2>1, <2>4 DEF Tidy
  <2>9. pmsg' = NoMsg
    BY <2>1
  <2>6. ASSUME NEW n \in Msgs, n # m PROVE Held(n)'
    <3>1. \A g : Holds(g, n)' <=> Holds(g, n)
      BY <1>1, <1>2, <2>4, <2>9, <2>6 DEF Holds
    <3> QED BY <1>2, <3>1, Stay
  <2>7. Held(m)'
    <3> DEFINE x == <<"poller", 0>>
               y == <<"queue", k>>
    <3>1. x # y /\ Holds(x, m) /\ ~Holds(x, m)' /\ Holds(y, m)'
      BY <1>1, <1>2, <2>4, <2>9 DEF Holds
    <3>2. \A g : g # x /\ g # y => (Holds(g, m)' <=> Holds(g, m))
      BY <1>1, <1>2, <2>4, <2>9 DEF Holds
    <3> HIDE DEF x, y
    <3> QED BY <1>2, <3>1, <3>2, HandOver
  <2> QED BY <2>5, <2>6, <2>7 DEF OneHolder
<1> QED BY <1>3, <1>4

LEMMA OnKeyKeeps == ASSUME Single, NEW r \in Regs, OnKey(r) PROVE OneHolder' /\ Tidy'
<1> USE ConstantsAssumption DEF busVars, pollVars, tableVars, watchVars, callVars, waitVars, forgetVars
<1>0. PICK k \in Keys : k = RegKey[r]
  OBVIOUS
<1>1. /\ rpc[r] = "new" /\ drained[r] = NoMsg
      /\ rpc \in [Regs -> {"new", "drained", "schedule", "done"}] /\ drained \in [Regs -> Msgs \cup {NoMsg}]
      /\ UNCHANGED <<unsent, bus, ppc, pmsg, called, handled, received, dropped>>
  BY DEF OnKey, Single, Tidy, OneEnd, Types, CallTypes
<1>2. OneHolder /\ Tidy
  BY DEF Single
<1>3. CASE queues[k] # <<>>
  <2>2. queues \in [Keys -> Seq(Msgs)] /\ queues[k] \in Seq(Msgs)
    BY DEF Single, OneEnd, Types, TableTypes
  <2>3. PICK m \in Msgs : m = Head(queues[k])
    BY <1>3, <2>2
  <2>4. /\ rpc' = [rpc EXCEPT ![r] = "drained"]
        /\ drained' = [drained EXCEPT ![r] = m]
        /\ queues' = [queues EXCEPT ![k] = Tail(queues[k])]
    BY <1>0, <1>3, <2>3 DEF OnKey
  <2>8. /\ m \in Elements(queues[k])
        /\ Distinct(queues'[k])
        /\ \A n : n \in Elements(queues'[k]) <=> n \in Elements(queues[k]) /\ n # m
        /\ \A j \in Keys \ {k} : queues'[j] = queues[j]
    BY <1>2, <1>3, <2>2, <2>3, <2>4, TailElements DEF Tidy
  <2>9. \A q \in Regs : /\ rpc'[q] = IF q = r THEN "drained" ELSE rpc[q]
                        /\ drained'[q] = IF q = r THEN m ELSE drained[q]
    BY <1>1, <2>4
  <2>5. Tidy'
    BY <1>1, <1>2, <2>8, <2>9 DEF Tidy
  <2>6. ASSUME NEW n \in Msgs, n # m PROVE Held(n)'
    <3>1. \A g : Holds(g, n)' <=> Holds(g, n)
      BY <1>1, <1>2, <2>8, <2>9, <2>6 DEF Holds
    <3> QED BY <1>2, <3>1, Stay
  <2>7. Held(m)'
    <3> DEFINE x == <<"queue", k>>
               y == <<"drained", r>>
    <3>1. x # y /\ Holds(x, m) /\ ~Holds(x, m)' /\ Holds(y, m)'
      BY <1>1, <1>2, <2>8, <2>9 DEF Holds
    <3>2. \A g : g # x /\ g # y => (Holds(g, m)' <=> Holds(g, m))
      BY <1>1, <1>2, <2>8, <2>9 DEF Holds
    <3> HIDE DEF x, y
    <3> QED BY <1>2, <3>1, <3>2, HandOver
  <2> QED BY <2>5, <2>6, <2>7 DEF OneHolder
<1>4. CASE queues[k] = <<>>
  <2>1. rpc' = [rpc EXCEPT ![r] = "schedule"] /\ UNCHANGED <<queues, drained>>
    BY <1>0, <1>4 DEF OnKey
  <2>2. \A q \in Regs : rpc'[q] # "drained" => drained[q] = NoMsg
    BY <1>1, <1>2, <2>1 DEF Tidy
  <2> QED BY <1>1, <2>1, <2>2, QuietKeeps
<1> QED BY <1>3, <1>4

LEMMA GetKeeps == ASSUME Single, NEW w \in Waiters, Get(w) PROVE OneHolder' /\ Tidy'
<1> USE ConstantsAssumption DEF busVars, pollVars, tableVars, watchVars, callVars, waitVars, forgetVars
<1>0. PICK k \in Keys : k = wkey[w]
  BY DEF Get, Single, OneEnd, Types, WaitTypes
<1>1. UNCHANGED <<unsent, bus, ppc, pmsg, rpc, drained, called, handled, dropped>>
  BY DEF Get
<1>2. OneHolder /\ Tidy
  BY DEF Single
<1>3. CASE queues[k] # <<>>
  <2>2. queues \in [Keys -> Seq(Msgs)] /\ queues[k] \in Seq(Msgs)
    BY DEF Single, OneEnd, Types, TableTypes
  <2>3. PICK m \in Msgs : m = Head(queues[k])
    BY <1>3, <2>2
  <2>4. received' = received \cup {m} /\ queues' = [queues EXCEPT ![k] = Tail(queues[k])]
    BY <1>0, <1>3, <2>3 DEF Get
  <2>8. /\ m \in Elements(queues[k])
        /\ Distinct(queues'[k])
        /\ \A n : n \in Elements(queues'[k]) <=> n \in Elements(queues[k]) /\ n # m
        /\ \A j \in Keys \ {k} : queues'[j] = queues[j]
    BY <1>2, <1>3, <2>2, <2>3, <2>4, TailElements DEF Tidy
  <2>9. received' = received \cup {m}
    BY <2>4
  <2>5. Tidy'
    BY <1>1, <1>2, <2>8 DEF Tidy
  <2>6. ASSUME NEW n \in Msgs, n # m PROVE Held(n)'
    <3>1. \A g : Holds(g, n)' <=> Holds(g, n)
      BY <1>1, <1>2, <2>8, <2>9, <2>6 DEF Holds
    <3> QED BY <1>2, <3>1, Stay
  <2>7. Held(m)'
    <3> DEFINE x == <<"queue", k>>
               y == <<"received", 0>>
    <3>1. x # y /\ Holds(x, m) /\ ~Holds(x, m)' /\ Holds(y, m)'
      BY <1>1, <1>2, <2>8, <2>9 DEF Holds
    <3>2. \A g : g # x /\ g # y => (Holds(g, m)' <=> Holds(g, m))
      BY <1>1, <1>2, <2>8, <2>9 DEF Holds
    <3> HIDE DEF x, y
    <3> QED BY <1>2, <3>1, <3>2, HandOver
  <2> QED BY <2>5, <2>6, <2>7 DEF OneHolder
<1>4. CASE queues[k] = <<>>
  <2>1. UNCHANGED <<queues, received>>
    BY <1>0, <1>4 DEF Get
  <2> QED BY <1>1, <1>2, <2>1, QuietKeeps DEF Tidy
<1> QED BY <1>3, <1>4

LEMMA ForgetKeeps == ASSUME Single, NEW k \in Keys, Forget(k) PROVE OneHolder' /\ Tidy'
<1> USE ConstantsAssumption DEF busVars, pollVars, tableVars, watchVars, callVars, waitVars, forgetVars
<1>1. /\ dropped' = dropped \cup Elements(queues[k])
      /\ queues' = [queues EXCEPT ![k] = <<>>]
      /\ UNCHANGED <<unsent, bus, ppc, pmsg, rpc, drained, called, handled, received>>
  BY DEF Forget, Elements
<1>2. OneHolder /\ Tidy /\ queues \in [Keys -> Seq(Msgs)]
  BY DEF Single, OneEnd, Types, TableTypes
<1>3. \A j \in Keys : queues'[j] = IF j = k THEN <<>> ELSE queues[j]
  BY <1>1, <1>2
<1>4. Elements(queues'[k]) = {} /\ Distinct(queues'[k])
  BY <1>3, EmptyElements
<1>5. Tidy'
  BY <1>1, <1>2, <1>3, <1>4 DEF Tidy
<1>6. ASSUME NEW n \in Msgs, n \notin Elements(queues[k]) PROVE Held(n)'
  <2>1. \A g : Holds(g, n)' <=> Holds(g, n)
    BY <1>1, <1>3, <1>4, <1>6 DEF Holds
  <2> QED BY <1>2, <2>1, Stay
<1>7. ASSUME NEW m \in Msgs, m \in Elements(queues[k]) PROVE Held(m)'
  <2> DEFINE x == <<"queue", k>>
             y == <<"dropped", 0>>
  <2>1. x # y /\ Holds(x, m) /\ ~Holds(x, m)' /\ Holds(y, m)'
    BY <1>1, <1>3, <1>4, <1>7 DEF Holds
  <2>2. \A g : g # x /\ g # y => (Holds(g, m)' <=> Holds(g, m))
    BY <1>1, <1>3, <1>7 DEF Holds
  <2> HIDE DEF x, y
  <2> QED BY <1>2, <2>1, <2>2, HandOver
<1> QED BY <1>5, <1>6, <1>7 DEF OneHolder

LEMMA NextKeepsSingle == Single /\ [Next]_vars => Single'
<1> SUFFICES ASSUME Single, [Next]_vars PROVE Single'
  OBVIOUS
<1> USE DEF busVars, pollVars, tableVars, watchVars, callVars, waitVars, forgetVars
<1>1. OneEnd'
  BY NextKeepsOneEnd DEF Single
<1>2. Tidy
  BY DEF Single
<1>3. CASE UNCHANGED vars
  <2>1. UNCHANGED <<unsent, bus, ppc, pmsg, queues, rpc, drained, called, handled, received, dropped>>
    BY <1>3 DEF vars
  <2> QED BY <1>1, <1>2, <2>1, QuietKeeps DEF Single, Tidy
<1>4. CASE PollStep
  <2>1. CASE CancelTimeout
    <3>1. /\ UNCHANGED <<unsent, bus, pmsg, queues, rpc, drained, called, handled, received, dropped>>
          /\ ppc # "receive" /\ ppc' # "receive"
      BY <2>1 DEF CancelTimeout
    <3> QED BY <1>1, <1>2, <3>1, QuietKeeps DEF Single, Tidy
  <2> QED BY <1>1, <1>4, <2>1, ReceiveKeeps, DefaultKeeps, RouteKeeps, SpawnKeeps DEF PollStep, Single
<1>5. ASSUME NEW r \in Regs, OnKey(r) \/ CallStep(r) \/ TimeoutHandler(r) PROVE Single'
  <2>1. CASE Schedule(r)
    <3>1. /\ UNCHANGED <<unsent, bus, ppc, pmsg, queues, drained, called, handled, received, dropped>>
          /\ rpc[r] = "schedule" /\ rpc' = [rpc EXCEPT ![r] = "done"]
          /\ rpc \in [Regs -> {"new", "drained", "schedule", "done"}]
      BY <2>1 DEF Schedule, Single, OneEnd, Types, CallTypes
    <3>2. \A q \in Regs : rpc'[q] # "drained" => drained[q] = NoMsg
      BY <1>2, <3>1 DEF Tidy
    <3> QED BY <1>1, <3>1, <3>2, QuietKeeps DEF Single
  <2>2. CASE TimeoutHandler(r)
    <3>1. UNCHANGED <<unsent, bus, ppc, pmsg, queues, rpc, drained, called, handled, received, dropped>>
      BY <2>2 DEF TimeoutHandler
    <3> QED BY <1>1, <1>2, <3>1, QuietKeeps DEF Single, Tidy
  <2> QED BY <1>1, <1>5, <2>1, <2>2, OnKeyKeeps, OnKeyDrainedKeeps DEF CallStep, Single
<1>6. ASSUME \/ ScanStep
             \/ \E w \in Waiters : \E k \in Keys : ReceiveFor(w, k)
             \/ \E k \in Keys : ForgetTimeout(k)
             \/ Stop
      PROVE Single'
  <2>1. UNCHANGED <<unsent, bus, ppc, pmsg, queues, rpc, drained, called, handled, received, dropped>>
    BY <1>6 DEF ScanStep, Scan, ReceiveFor, ForgetTimeout, Stop
  <2> QED BY <1>1, <1>2, <2>1, QuietKeeps DEF Single, Tidy
<1>7. ASSUME NEW m \in Msgs, Arrive(m) PROVE Single'
  BY <1>1, <1>7, ArriveKeeps DEF Single
<1>8. ASSUME NEW w \in Waiters, Get(w) PROVE Single'
  BY <1>1, <1>8, GetKeeps DEF Single
<1>9. ASSUME NEW k \in Keys, Forget(k) PROVE Single'
  BY <1>1, <1>9, ForgetKeeps DEF Single
<1> QED BY <1>3, <1>4, <1>5, <1>6, <1>7, <1>8, <1>9 DEF Next

-----------------------------------------------------------------------------
(* Exactly one place                                                         *)

\* Nobody but x has the message.
LEMMA Alone ==
    ASSUME OneHolder, NEW m \in Msgs, NEW x, Holds(x, m)
    PROVE  /\ x # <<"unsent", 0>> => m \notin unsent
           /\ x # <<"bus", 0>> => m \notin Elements(bus)
           /\ x # <<"poller", 0>> => m # pmsg
           /\ \A k \in Keys : x # <<"queue", k>> => m \notin Elements(queues[k])
           /\ \A r \in Regs : x # <<"drained", r>> => m # drained[r]
           /\ \A r \in Regs : x # <<"called", r>> => m \notin called[r]
           /\ x # <<"handled", 0>> => m \notin handled
           /\ x # <<"received", 0>> => m \notin received
           /\ x # <<"dropped", 0>> => m \notin dropped
<1>1. \A g : g # x => ~Holds(g, m)
  BY DEF OneHolder, Held
<1> QED BY <1>1 DEF Holds

Place(p, m) ==
    \/ \E i \in 1 .. Len(bus) : bus[i] = m /\ p = <<"bus", i>>
    \/ pmsg = m /\ p = <<"poller", 0>>
    \/ \E k \in Keys : \E i \in 1 .. Len(queues[k]) : queues[k][i] = m /\ p = <<"queue", k, i>>
    \/ \E r \in Regs : drained[r] = m /\ p = <<"drained", r>>
    \/ \E r \in Regs : m \in called[r] /\ p = <<"called", r>>
    \/ m \in handled /\ p = <<"out", "handled">>
    \/ m \in received /\ p = <<"out", "received">>
    \/ m \in dropped /\ p = <<"out", "dropped">>

LEMMA PlaceIs == ASSUME NEW m, NEW p PROVE p \in Places(m) <=> Place(p, m)
<1> DEFINE B == {<<"bus", i>> : i \in {i \in 1 .. Len(bus) : bus[i] = m}}
           P == {<<"poller", 0>> : x \in {x \in {0} : pmsg = m}}
           Q(k) == {<<"queue", k, i>> : i \in {i \in 1 .. Len(queues[k]) : queues[k][i] = m}}
           U == UNION {Q(k) : k \in Keys}
           D == {<<"drained", r>> : r \in {r \in Regs : drained[r] = m}}
           C == {<<"called", r>> : r \in {r \in Regs : m \in called[r]}}
           O == {<<"out", s>> : s \in {s \in {"handled", "received", "dropped"} :
                   m \in CASE s = "handled" -> handled [] s = "received" -> received [] OTHER -> dropped}}
<1>1. p \in B <=> \E i \in 1 .. Len(bus) : bus[i] = m /\ p = <<"bus", i>>
  OBVIOUS
<1>2. p \in P <=> pmsg = m /\ p = <<"poller", 0>>
  OBVIOUS
<1>3. p \in U <=>
        \E k \in Keys : \E i \in 1 .. Len(queues[k]) : queues[k][i] = m /\ p = <<"queue", k, i>>
  <2>1. p \in U <=> \E k \in Keys : p \in Q(k)
    <3> HIDE DEF Q
    <3> QED OBVIOUS
  <2>2. ASSUME NEW k \in Keys
        PROVE  p \in Q(k) <=> \E i \in 1 .. Len(queues[k]) : queues[k][i] = m /\ p = <<"queue", k, i>>
    OBVIOUS
  <2> HIDE DEF Q
  <2> QED BY <2>1, <2>2
<1>4. p \in D <=> \E r \in Regs : drained[r] = m /\ p = <<"drained", r>>
  OBVIOUS
<1>5. p \in C <=> \E r \in Regs : m \in called[r] /\ p = <<"called", r>>
  OBVIOUS
<1>6. p \in O <=> \/ m \in handled /\ p = <<"out", "handled">>
                  \/ m \in received /\ p = <<"out", "received">>
                  \/ m \in dropped /\ p = <<"out", "dropped">>
  <2> DEFINE W(s) == CASE s = "handled" -> handled [] s = "received" -> received [] OTHER -> dropped
             R == {s \in {"handled", "received", "dropped"} : m \in W(s)}
  <2>1. W("handled") = handled /\ W("received") = received /\ W("dropped") = dropped
    OBVIOUS
  <2>2. O = {<<"out", s>> : s \in R}
    OBVIOUS
  <2> HIDE DEF W, O
  <2>3. \A s : s \in R <=> \/ s = "handled" /\ m \in handled
                           \/ s = "received" /\ m \in received
                           \/ s = "dropped" /\ m \in dropped
    BY <2>1
  <2> HIDE DEF R
  <2>4. p \in O <=> \E s \in R : p = <<"out", s>>
    BY <2>2
  <2> QED BY <2>3, <2>4
<1>7. Places(m) = B \cup P \cup U \cup D \cup C \cup O
  BY DEF Places
<1> HIDE DEF B, P, Q, U, D, C, O
<1>8. p \in Places(m) <=> p \in B \/ p \in P \/ p \in U \/ p \in D \/ p \in C \/ p \in O
  BY <1>7
<1> QED BY <1>1, <1>2, <1>3, <1>4, <1>5, <1>6, <1>8 DEF Place

LEMMA SingleGivesOnePlace == Single => ExactlyOnePlace
<1> SUFFICES ASSUME Single, NEW m \in Msgs
             PROVE  Cardinality(Places(m)) = IF m \in unsent THEN 0 ELSE 1
  BY DEF ExactlyOnePlace
<1>0. OneHolder /\ Tidy
  BY DEF Single
<1>2. PICK x : Holds(x, m)
  BY <1>0 DEF OneHolder, Held
<1>3. CASE m \in unsent
  <2>1. x = <<"unsent", 0>>
    BY <1>0, <1>2, <1>3, Alone
  <2>2. \A q : ~Place(q, m)
    BY <1>0, <1>2, <2>1, Alone DEF Place, Elements
  <2>3. Places(m) = {}
    BY <2>2, PlaceIs
  <2> QED BY <1>3, <2>3, FS_EmptySet
<1>4. ASSUME x = <<"bus", 0>> PROVE Cardinality(Places(m)) = 1
  <2>1. PICK i \in 1 .. Len(bus) : bus[i] = m
    BY <1>2, <1>4 DEF Holds, Elements
  <2>2. \A q : Place(q, m) <=> q = <<"bus", i>>
    BY <1>0, <1>2, <1>4, <2>1, Alone DEF Place, Elements, Tidy, Distinct
  <2>3. Places(m) = {<<"bus", i>>}
    BY <2>2, PlaceIs
  <2> QED BY <2>3, FS_Singleton
<1>5. ASSUME x = <<"poller", 0>> PROVE Cardinality(Places(m)) = 1
  <2>1. \A q : Place(q, m) <=> q = <<"poller", 0>>
    BY <1>0, <1>2, <1>5, Alone DEF Place, Elements, Holds
  <2>2. Places(m) = {<<"poller", 0>>}
    BY <2>1, PlaceIs
  <2> QED BY <2>2, FS_Singleton
<1>6. ASSUME NEW k \in Keys, x = <<"queue", k>> PROVE Cardinality(Places(m)) = 1
  <2>1. PICK i \in 1 .. Len(queues[k]) : queues[k][i] = m
    BY <1>2, <1>6 DEF Holds, Elements
  <2>2. \A j \in Keys : j # k => m \notin Elements(queues[j])
    BY <1>0, <1>2, <1>6, Alone
  <2>3. \A q : Place(q, m) <=> q = <<"queue", k, i>>
    BY <1>0, <1>2, <1>6, <2>1, <2>2, Alone DEF Place, Elements, Tidy, Distinct
  <2>4. Places(m) = {<<"queue", k, i>>}
    BY <2>3, PlaceIs
  <2> QED BY <2>4, FS_Singleton
<1>7. ASSUME NEW r \in Regs, x = <<"drained", r>> PROVE Cardinality(Places(m)) = 1
  <2>1. \A q : Place(q, m) <=> q = <<"drained", r>>
    BY <1>0, <1>2, <1>7, Alone DEF Place, Elements, Holds
  <2>2. Places(m) = {<<"drained", r>>}
    BY <2>1, PlaceIs
  <2> QED BY <2>2, FS_Singleton
<1>8. ASSUME NEW r \in Regs, x = <<"called", r>> PROVE Cardinality(Places(m)) = 1
  <2>1. \A q : Place(q, m) <=> q = <<"called", r>>
    BY <1>0, <1>2, <1>8, Alone DEF Place, Elements, Holds
  <2>2. Places(m) = {<<"called", r>>}
    BY <2>1, PlaceIs
  <2> QED BY <2>2, FS_Singleton
<1>9. ASSUME x = <<"handled", 0>> PROVE Cardinality(Places(m)) = 1
  <2>1. \A q : Place(q, m) <=> q = <<"out", "handled">>
    BY <1>0, <1>2, <1>9, Alone DEF Place, Elements, Holds
  <2>2. Places(m) = {<<"out", "handled">>}
    BY <2>1, PlaceIs
  <2> QED BY <2>2, FS_Singleton
<1>10. ASSUME x = <<"received", 0>> PROVE Cardinality(Places(m)) = 1
  <2>1. \A q : Place(q, m) <=> q = <<"out", "received">>
    BY <1>0, <1>2, <1>10, Alone DEF Place, Elements, Holds
  <2>2. Places(m) = {<<"out", "received">>}
    BY <2>1, PlaceIs
  <2> QED BY <2>2, FS_Singleton
<1>11. ASSUME x = <<"dropped", 0>> PROVE Cardinality(Places(m)) = 1
  <2>1. \A q : Place(q, m) <=> q = <<"out", "dropped">>
    BY <1>0, <1>2, <1>11, Alone DEF Place, Elements, Holds
  <2>2. Places(m) = {<<"out", "dropped">>}
    BY <2>1, PlaceIs
  <2> QED BY <2>2, FS_Singleton
<1>12. CASE m \notin unsent
  BY <1>2, <1>4, <1>5, <1>6, <1>7, <1>8, <1>9, <1>10, <1>11, <1>12 DEF Holds
<1> QED BY <1>3, <1>12

\* The router loses no message and hands none to two waiters: from the moment
\* it is sent a message is in one place (_run, on_key, receive_for, forget).
THEOREM OnePlace == Spec => []ExactlyOnePlace
<1>1. Spec => []Single
  BY InitSingle, NextKeepsSingle, PTL DEF Spec
<1> QED BY <1>1, SingleGivesOnePlace, PTL

-----------------------------------------------------------------------------
(****************************************************************************)
(* MessageRouter implements OneShotWait: initial states map to initial       *)
(* states, and every step of the polling, scanning, handler and calling      *)
(* threads maps to one step of a one-shot watch or to none.                  *)
(****************************************************************************)

Forgets(r) == RegKey[r] \in gone /\ callbacks[RegKey[r]] # r /\ ~InHand(r)

Status(r) ==
    IF rpc[r] = "new" THEN "none"
    ELSE IF called[r] # {} THEN "answered"
    ELSE IF r \in timedOut THEN "timedOut"
    ELSE IF Forgets(r) THEN "forgotten" ELSE "waiting"

LEMMA StatusIsOutcome ==
    ASSUME NEW r \in Regs PROVE Outcome(r) = Status(r) /\ Outcome(r)' = Status(r)'
<1>1. Outcome(r) = Status(r)
  BY DEF Outcome, Status, Forgets
<1>2. Outcome(r)' = Status(r)'
  BY DEF Outcome, Status, Forgets
<1> QED BY <1>1, <1>2

-----------------------------------------------------------------------------
(* The steps of OneShotWait, in terms of Status                              *)

LEMMA StutterStep ==
    ASSUME UNCHANGED called, \A r \in Regs : Status(r)' = Status(r)
    PROVE  UNCHANGED OneShot!waitVars
<1>1. [r \in Regs |-> Outcome(r)]' = [r \in Regs |-> Outcome(r)]
  BY StatusIsOutcome
<1> QED BY <1>1 DEF OneShot!waitVars

\* Only r's outcome changes.
Turns(r, from, to) ==
    /\ Status(r) = from
    /\ Status(r)' = to
    /\ \A q \in Regs \ {r} : Status(q)' = Status(q)

LEMMA TurnsIs ==
    ASSUME NEW r \in Regs, NEW from, NEW to, Turns(r, from, to)
    PROVE  /\ [q \in Regs |-> Outcome(q)][r] = from
           /\ [q \in Regs |-> Outcome(q)]' = [[q \in Regs |-> Outcome(q)] EXCEPT ![r] = to]
<1>1. Outcome(r) = from /\ Outcome(r)' = to /\ \A q \in Regs \ {r} : Outcome(q)' = Outcome(q)
  BY StatusIsOutcome DEF Turns
<1> QED BY <1>1

LEMMA WatchStep ==
    ASSUME NEW r \in Regs, UNCHANGED called, Turns(r, "none", "waiting") PROVE OneShot!Next
<1>1. OneShot!Watch(r)
  BY TurnsIs DEF OneShot!Watch
<1> QED BY <1>1 DEF OneShot!Next

LEMMA TimeOutStep ==
    ASSUME NEW r \in Regs, UNCHANGED called, Turns(r, "waiting", "timedOut") PROVE OneShot!Next
<1>1. OneShot!TimeOut(r)
  BY TurnsIs DEF OneShot!TimeOut
<1> QED BY <1>1 DEF OneShot!Next

LEMMA ForgottenStep ==
    ASSUME NEW r \in Regs, UNCHANGED called, Turns(r, "waiting", "forgotten") PROVE OneShot!Next
<1>1. OneShot!Forgotten(r)
  BY TurnsIs DEF OneShot!Forgotten
<1> QED BY <1>1 DEF OneShot!Next

LEMMA AnswerStep ==
    ASSUME NEW r \in Regs, NEW m \in Msgs, \A q \in Regs : m \notin called[q],
           called' = [called EXCEPT ![r] = {m}], Turns(r, "waiting", "answered")
    PROVE  OneShot!Next
<1>1. OneShot!Answer(r, m)
  BY TurnsIs DEF OneShot!Answer
<1> QED BY <1>1 DEF OneShot!Next

Step == OneShot!Next \/ UNCHANGED OneShot!waitVars

-----------------------------------------------------------------------------
(* The steps of MessageRouter                                                *)

\* What the poller has in hand, or a call drained, answered nobody so far.
LEMMA NotYetCalled ==
    ASSUME Single, NEW m \in Msgs, m = pmsg \/ \E r \in Regs : m = drained[r]
    PROVE  \A q \in Regs : m \notin called[q]
<1>1. OneHolder
  BY DEF Single
<1>2. CASE m = pmsg
  <2>1. Holds(<<"poller", 0>>, m)
    BY <1>2 DEF Holds
  <2> QED BY <1>1, <2>1, Alone
<1>3. ASSUME NEW r \in Regs, m = drained[r] PROVE \A q \in Regs : m \notin called[q]
  <2>1. Holds(<<"drained", r>>, m)
    BY <1>3 DEF Holds
  <2> QED BY <1>1, <2>1, Alone
<1> QED BY <1>2, <1>3

LEMMA SpawnImplements == ASSUME Single, Spawn PROVE Step
<1> USE DEF busVars, pollVars, tableVars, watchVars, callVars, waitVars, forgetVars
<1>1. PICK r \in Regs, m \in Msgs : r = pcb /\ m = pmsg
  BY DEF Spawn, Single, OneEnd, Types, PollTypes
<1>2. /\ called[r] = {} /\ rpc[r] \in {"schedule", "done"} /\ r \notin timedOut
      /\ called \in [Regs -> SUBSET Msgs]
  BY <1>1, ConstantsAssumption DEF Single, OneEnd, Popped, Open, Types, CallTypes
<1>3. called' = [called EXCEPT ![r] = {m}]
  BY <1>1, <1>2 DEF Spawn
<1>4. /\ UNCHANGED <<rpc, timedOut, gone, callbacks>> /\ pcb' = NoReg
      /\ \A q \in Regs \ {r} : called'[q] = called[q]
      /\ called'[r] = {m}
  BY <1>2, <1>3 DEF Spawn
<1>5. Status(r) = "waiting" /\ Status(r)' = "answered"
  BY <1>1, <1>2, <1>4 DEF Status, Forgets, InHand
<1>6. \A q \in Regs \ {r} : Status(q)' = Status(q)
  BY <1>1, <1>4, ConstantsAssumption DEF Status, Forgets, InHand
<1>7. \A q \in Regs : m \notin called[q]
  BY <1>1, NotYetCalled
<1> QED BY <1>3, <1>5, <1>6, <1>7, AnswerStep DEF Step, Turns

LEMMA RouteImplements == ASSUME Single, Route PROVE Step
<1> USE DEF busVars, pollVars, tableVars, watchVars, callVars, waitVars, forgetVars
<1>1. PICK k \in Keys : k = MsgKey[pmsg]
  BY ConstantsAssumption DEF Route, Single, OneEnd, Types, PollTypes
<1>2. UNCHANGED <<rpc, called, timedOut, gone>>
  BY DEF Route
<1>3. CASE callbacks[k] = NoReg
  <2>1. UNCHANGED <<callbacks, pcb>>
    BY <1>1, <1>3 DEF Route
  <2> QED BY <1>2, <2>1, StutterStep DEF Step, Status, Forgets, InHand
<1>4. CASE callbacks[k] # NoReg
  <2>1. PICK r \in Regs : r = callbacks[k]
    BY <1>4 DEF Single, OneEnd, Types, TableTypes
  <2>2. RegKey[r] = k /\ pcb = NoReg
    BY <2>1 DEF Route, Single, OneEnd, Registered, Popped
  <2>3. pcb' = r /\ \A j \in Keys : callbacks'[j] = IF j = k THEN NoReg ELSE callbacks[j]
    BY <1>1, <1>4, <2>1 DEF Route, Single, OneEnd, Types, TableTypes
  <2>4. Status(r)' = Status(r)
    BY <1>2, <2>1, <2>2, <2>3 DEF Status, Forgets, InHand
  <2>5. ASSUME NEW q \in Regs, q # r PROVE Status(q)' = Status(q)
    <3>1. callbacks'[RegKey[q]] = q <=> callbacks[RegKey[q]] = q
      BY <2>1, <2>2, <2>3, <2>5, ConstantsAssumption
    <3>2. pcb # q /\ pcb' # q
      BY <2>2, <2>3, <2>5, ConstantsAssumption
    <3> QED BY <1>2, <3>1, <3>2 DEF Status, Forgets, InHand
  <2> QED BY <1>2, <2>4, <2>5, StutterStep DEF Step
<1> QED BY <1>3, <1>4

LEMMA OnKeyImplements == ASSUME Single, NEW r \in Regs, OnKey(r) PROVE Step
<1> USE DEF busVars, pollVars, tableVars, watchVars, callVars, waitVars, forgetVars
<1>1. /\ rpc[r] = "new" /\ called[r] = {} /\ r \notin timedOut /\ RegKey[r] \notin gone
      /\ UNCHANGED <<called, timedOut, gone, pcb>>
  BY DEF OnKey, MayWatch, Single, OneEnd, Calls
<1>2. /\ rpc'[r] \in {"drained", "schedule"}
      /\ \A q \in Regs \ {r} : rpc'[q] = rpc[q]
  BY DEF OnKey, Single, OneEnd, Types, CallTypes
<1>3. \A q \in Regs \ {r} : rpc[q] # "new" /\ RegKey[q] = RegKey[r] => q \in timedOut
  BY DEF OnKey, MayWatch
<1>4. Status(r) = "none" /\ Status(r)' = "waiting"
  BY <1>1, <1>2 DEF Status, Forgets
<1>5. \A k \in Keys : k # RegKey[r] => callbacks'[k] = callbacks[k]
  BY DEF OnKey, Single, OneEnd, Types, TableTypes
<1>6. ASSUME NEW q \in Regs \ {r} PROVE Status(q)' = Status(q)
  <2>1. CASE RegKey[q] = RegKey[r]
    BY <1>1, <1>2, <1>3, <2>1 DEF Status
  <2>2. CASE RegKey[q] # RegKey[r]
    <3>1. callbacks'[RegKey[q]] = callbacks[RegKey[q]]
      BY <1>5, <2>2, ConstantsAssumption
    <3> QED BY <1>1, <1>2, <3>1 DEF Status, Forgets, InHand
  <2> QED BY <2>1, <2>2
<1> QED BY <1>1, <1>4, <1>6, WatchStep DEF Step, Turns

LEMMA OnKeyDrainedImplements == ASSUME Single, NEW r \in Regs, OnKeyDrained(r) PROVE Step
<1> USE DEF busVars, pollVars, tableVars, watchVars, callVars, waitVars, forgetVars
<1>1. PICK m \in Msgs : m = drained[r]
  BY DEF OnKeyDrained, Single, OneEnd, Types, CallTypes
<1>2. /\ called[r] = {} /\ rpc[r] = "drained" /\ r \notin timedOut
      /\ called \in [Regs -> SUBSET Msgs] /\ rpc \in [Regs -> {"new", "drained", "schedule", "done"}]
  BY DEF OnKeyDrained, Single, OneEnd, Calls, Types, CallTypes
<1>3. called' = [called EXCEPT ![r] = {m}] /\ rpc' = [rpc EXCEPT ![r] = "done"]
  BY <1>1, <1>2 DEF OnKeyDrained
<1>4. /\ UNCHANGED <<timedOut, gone, callbacks, pcb>>
      /\ \A q \in Regs \ {r} : called'[q] = called[q] /\ rpc'[q] = rpc[q]
      /\ called'[r] = {m} /\ rpc'[r] = "done"
  BY <1>2, <1>3 DEF OnKeyDrained
<1>5. Status(r) = "waiting" /\ Status(r)' = "answered"
  BY <1>2, <1>4 DEF Status, Forgets, InHand
<1>6. \A q \in Regs \ {r} : Status(q)' = Status(q)
  BY <1>4 DEF Status, Forgets, InHand
<1>7. \A q \in Regs : m \notin called[q]
  BY <1>1, NotYetCalled
<1> QED BY <1>3, <1>5, <1>6, <1>7, AnswerStep DEF Step, Turns

LEMMA TimeoutHandlerImplements == ASSUME Single, NEW r \in Regs, TimeoutHandler(r) PROVE Step
<1> USE DEF busVars, pollVars, tableVars, watchVars, callVars, waitVars, forgetVars
<1>1. r \in handlers /\ RegKey[r] \in Keys /\ rpc[r] = "done" /\ r \notin timedOut
      /\ UNCHANGED <<rpc, called, gone, pcb>>
  BY ConstantsAssumption DEF TimeoutHandler, Single, OneEnd, OneToken
<1>2. \A k \in Keys : callbacks'[k] = IF k = RegKey[r] THEN NoReg ELSE callbacks[k]
  BY <1>1 DEF TimeoutHandler, Single, OneEnd, Types, TableTypes
<1>3. CASE callbacks[RegKey[r]] = NoReg
  <2>1. timedOut' = timedOut /\ \A k \in Keys : callbacks'[k] = callbacks[k]
    BY <1>2, <1>3 DEF TimeoutHandler
  <2> QED BY <1>1, <2>1, StutterStep, ConstantsAssumption DEF Step, Status, Forgets, InHand
<1>4. CASE callbacks[RegKey[r]] # NoReg
  <2>1. timedOut' = timedOut \cup {r}
    BY <1>4 DEF TimeoutHandler
  <2>2. callbacks[RegKey[r]] = r
    BY <1>1, <1>4, HandlerPopsItsOwn DEF Single
  <2>3. called[r] = {}
    BY <1>1, <2>2 DEF Single, OneEnd, Registered, Open
  <2>4. Status(r) = "waiting" /\ Status(r)' = "timedOut"
    BY <1>1, <2>1, <2>2, <2>3 DEF Status, Forgets
  <2>5. ASSUME NEW q \in Regs \ {r} PROVE Status(q)' = Status(q)
    <3>1. callbacks'[RegKey[q]] = q <=> callbacks[RegKey[q]] = q
      BY <1>2, <2>2, ConstantsAssumption
    <3> QED BY <1>1, <2>1, <3>1 DEF Status, Forgets, InHand
  <2> QED BY <1>1, <2>4, <2>5, TimeOutStep DEF Step, Turns
<1> QED BY <1>3, <1>4

\* Of the watches of one key only the live one can be forgotten.
LEMMA ForgetImplements == ASSUME Single, NEW k \in Keys, Forget(k) PROVE Step
<1> USE DEF busVars, pollVars, tableVars, watchVars, callVars, waitVars, forgetVars
<1>1. UNCHANGED <<rpc, called, timedOut, pcb>> /\ gone' = gone \cup {k} /\ k \notin gone
  BY DEF Forget
<1>2. \A j \in Keys : callbacks'[j] = IF j = k THEN NoReg ELSE callbacks[j]
  BY DEF Forget, Single, OneEnd, Types, TableTypes
<1>3. ASSUME NEW q \in Regs, RegKey[q] # k PROVE Status(q)' = Status(q)
  <2>1. callbacks'[RegKey[q]] = callbacks[RegKey[q]] /\ (RegKey[q] \in gone' <=> RegKey[q] \in gone)
    BY <1>1, <1>2, <1>3, ConstantsAssumption
  <2> QED BY <1>1, <2>1 DEF Status, Forgets, InHand
<1>4. ASSUME NEW q \in Regs, RegKey[q] = k, Status(q)' # Status(q)
      PROVE  Status(q) = "waiting" /\ Status(q)' = "forgotten" /\ rpc[q] # "new" /\ q \notin timedOut
  <2>1. RegKey[q] \notin gone /\ callbacks'[RegKey[q]] = NoReg /\ q # NoReg
    BY <1>1, <1>2, <1>4, ConstantsAssumption
  <2> QED BY <1>1, <1>4, <2>1 DEF Status, Forgets, InHand
<1>5. CASE \A q \in Regs : Status(q)' = Status(q)
  BY <1>1, <1>5, StutterStep DEF Step
<1>6. ASSUME NEW r \in Regs, Status(r)' # Status(r) PROVE Step
  <2>1. RegKey[r] = k
    BY <1>3, <1>6
  <2>2. ASSUME NEW q \in Regs \ {r}, Status(q)' # Status(q) PROVE FALSE
    <3>1. RegKey[q] = k
      BY <1>3, <2>2
    <3>2. rpc[q] # "new" /\ q \notin timedOut /\ rpc[r] # "new" /\ r \notin timedOut
      BY <1>4, <1>6, <2>1, <2>2, <3>1
    <3> QED BY <2>1, <3>1, <3>2 DEF Single, OneEnd, OneLive
  <2>3. Turns(r, "waiting", "forgotten")
    BY <1>4, <1>6, <2>1, <2>2 DEF Turns
  <2> QED BY <1>1, <2>3, ForgottenStep DEF Step
<1> QED BY <1>5, <1>6

\* Steps that touch neither callbacks, calls nor timeouts.
LEMMA OthersImplement ==
    ASSUME Single, UNCHANGED <<called, timedOut, gone, callbacks, pcb>>,
           \A r \in Regs : rpc'[r] = rpc[r] \/ (rpc[r] = "schedule" /\ rpc'[r] = "done")
    PROVE  Step
BY StutterStep DEF Step, Status, Forgets, InHand

LEMMA NextImplements == Single /\ [Next]_vars => [OneShot!Next]_(OneShot!waitVars)
<1> SUFFICES ASSUME Single, [Next]_vars PROVE Step
  BY DEF Step
<1> USE DEF busVars, pollVars, tableVars, watchVars, callVars, waitVars, forgetVars
<1>1. CASE UNCHANGED <<rpc, called, timedOut, gone, callbacks, pcb>>
  BY <1>1, OthersImplement
<1>2. ASSUME NEW r \in Regs, Schedule(r) PROVE Step
  <2>1. \A q \in Regs : rpc'[q] = rpc[q] \/ (rpc[q] = "schedule" /\ rpc'[q] = "done")
    BY <1>2 DEF Schedule, Single, OneEnd, Types, CallTypes
  <2>2. UNCHANGED <<called, timedOut, gone, callbacks, pcb>>
    BY <1>2 DEF Schedule
  <2> QED BY <2>1, <2>2, OthersImplement
<1>3. \/ ScanStep
      \/ \E m \in Msgs : Arrive(m)
      \/ Receive \/ Default \/ CancelTimeout
      \/ \E w \in Waiters : Get(w) \/ \E k \in Keys : ReceiveFor(w, k)
      \/ \E k \in Keys : ForgetTimeout(k)
      \/ Stop
      \/ UNCHANGED vars
      => UNCHANGED <<rpc, called, timedOut, gone, callbacks, pcb>>
  BY DEF ScanStep, Scan, Arrive, Receive, Default, CancelTimeout, Get, ReceiveFor, ForgetTimeout, Stop, vars
<1> QED BY <1>1, <1>2, <1>3, SpawnImplements, RouteImplements, OnKeyImplements, OnKeyDrainedImplements,
           TimeoutHandlerImplements, ForgetImplements DEF Next, PollStep, CallStep

LEMMA InitImplements == Init => OneShot!Init
BY DEF Init, OneShot!Init, Outcome

\* An on_key call, seen from its caller, is a one-shot watch: whatever the
\* threads do, it moves from none to waiting to one outcome, and the message
\* that answers it answers no other call.
THEOREM RouterImplementsOneShot == Spec => ImplementsOneShot
<1>1. Spec => []Single
  BY InitSingle, NextKeepsSingle, PTL DEF Spec
<1>2. Single /\ [Next]_vars => [OneShot!Next]_(OneShot!waitVars)
  BY NextImplements
<1> QED BY <1>1, <1>2, InitImplements, PTL DEF Spec, ImplementsOneShot, OneShot!Spec
=============================================================================
