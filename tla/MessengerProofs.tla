--------------------------- MODULE MessengerProofs ---------------------------
(****************************************************************************)
(* Proofs about Messenger for every set of agents and threads, every bound   *)
(* and every set of faults: its types, at most once, numbers that no two     *)
(* Sends share, in order, nothing stranded, and a TTL on every inbox.        *)
(*                                                                           *)
(* Each has its inductive invariant: OnceInv, NumberInv, OrderInv, FilledInv *)
(* and InboxExpires itself.                                                  *)
(****************************************************************************)
EXTENDS Messenger, TLAPS

-----------------------------------------------------------------------------
(* Types                                                                     *)

\* The steps of the sending threads keep the types of their locals.
LEMMA SenderTypesStep == TypeOK /\ [Next]_vars => SenderTypes'
<1> SUFFICES ASSUME TypeOK, [Next]_vars PROVE SenderTypes'
  OBVIOUS
<1> USE ConstantsAssumption
<1>0. SenderTypes
  BY DEF TypeOK
<1>1. ASSUME NEW t \in Threads, NEW targets \in SUBSET Agents, Begin(t, targets) PROVE SenderTypes'
  BY <1>0, <1>1 DEF SenderTypes, Begin
<1>2. ASSUME NEW t \in Threads, NEW a \in Agents, SendSeq(t, a) PROVE SenderTypes'
  <2>1. tail[a] \in 0 .. MaxSeq
    BY DEF TypeOK, InboxTypes
  <2>2. seq' \in [Threads -> Seqs]
    BY <1>0, <1>2, <2>1 DEF SenderTypes, SendSeq, NextSeq, FallbackSeq, Seqs
  <2> QED
    BY <1>0, <1>2, <2>2 DEF SenderTypes, SendSeq
<1>3. ASSUME NEW t \in Threads, SendHSet(t) \/ SendExpire(t) \/ SendFails(t) \/ SenderCrash(t)
      PROVE  SenderTypes'
  BY <1>0, <1>3 DEF SenderTypes, SendHSet, SendExpire, SendFails, SenderCrash, Advance
<1>4. ASSUME UNCHANGED senderVars PROVE SenderTypes'
  BY <1>0, <1>4 DEF SenderTypes, senderVars
<1> QED
  BY <1>1, <1>2, <1>3, <1>4
  DEF Next, vars, SendStep, ReadStep, Send, Broadcast, ReadHead, ReadTail, EmptyInbox, ReadPayload,
      Ack, Return, PollFails, ReaderCrash, Heartbeat, Expired, ClearScan, ClearDelete

\* Redis commands keep the types of the hashes.
LEMMA InboxTypesStep == TypeOK /\ [Next]_vars => InboxTypes'
<1> SUFFICES ASSUME TypeOK, [Next]_vars PROVE InboxTypes'
  OBVIOUS
<1> USE ConstantsAssumption
<1>0. InboxTypes /\ SenderTypes
  BY DEF TypeOK
<1>1. ASSUME NEW t \in Threads, NEW a \in Agents, SendSeq(t, a) PROVE InboxTypes'
  <2>1. tail' \in [Agents -> 0 .. MaxSeq]
    BY <1>0, <1>1 DEF InboxTypes, SendSeq, NextSeq
  <2> QED
    BY <1>0, <1>1, <2>1 DEF InboxTypes, SendSeq
<1>2. ASSUME NEW t \in Threads, SendHSet(t) PROVE InboxTypes'
  <2>1. [from |-> t, n |-> count[t], seq |-> seq[t]] \in Payload
    BY <1>0 DEF SenderTypes, Payload
  <2>2. msgs' \in [Agents -> [Seqs -> Payload \cup {None}]]
    BY <1>0, <1>2, <2>1 DEF InboxTypes, SenderTypes, SendHSet
  <2> QED
    BY <1>0, <1>2, <2>2 DEF InboxTypes, SendHSet
<1>3. ASSUME NEW t \in Threads, SendExpire(t) PROVE InboxTypes'
  <2>1. Exists(target[t]) \in BOOLEAN
    BY DEF Exists
  <2> QED
    BY <1>0, <1>3, <2>1 DEF InboxTypes, SendExpire
<1>4. ASSUME NEW a \in Agents, Ack(a) PROVE InboxTypes'
  <2>1. rhead[a] + 1 \in 0 .. MaxSeq
    BY <1>4 DEF TypeOK, ReaderTypes, Ack
  <2>2. head' \in [Agents -> 0 .. MaxSeq]
    BY <1>0, <1>4, <2>1 DEF InboxTypes, Ack
  <2> QED
    BY <1>0, <1>4, <2>2 DEF InboxTypes, Ack
<1>5. ASSUME NEW a \in Agents, Return(a) PROVE InboxTypes'
  <2>1. Exists(a) \in BOOLEAN
    BY DEF Exists
  <2> QED
    BY <1>0, <1>5, <2>1 DEF InboxTypes, Return
<1>6. ASSUME NEW a \in Agents, Heartbeat(a) PROVE InboxTypes'
  BY <1>0, <1>6 DEF InboxTypes, Heartbeat
<1>7. ASSUME NEW dead, Emptied(dead) PROVE InboxTypes'
  <2>1. NoPayloads \in [Seqs -> Payload \cup {None}]
    BY DEF NoPayloads
  <2>2. head' \in [Agents -> 0 .. MaxSeq] /\ tail' \in [Agents -> 0 .. MaxSeq]
    BY <1>0, <1>7 DEF InboxTypes, Emptied
  <2> QED
    BY <1>0, <1>7, <2>1, <2>2 DEF InboxTypes, Emptied
<1>8. ASSUME UNCHANGED inboxVars PROVE InboxTypes'
  BY <1>0, <1>8 DEF InboxTypes, inboxVars
<1> QED
  BY <1>1, <1>2, <1>3, <1>4, <1>5, <1>6, <1>7, <1>8
  DEF Next, vars, SendStep, ReadStep, Send, Broadcast, Begin, SendFails, SenderCrash, ReadHead,
      ReadTail, EmptyInbox, ReadPayload, PollFails, ReaderCrash, Expired, ClearScan, ClearDelete

\* Leaving _pollInbox keeps the types of its locals.
LEMMA LeaveType ==
  ASSUME NEW a \in Agents, ReaderTypes, Leave(a), got' \in [Agents -> Seq(Payload)]
  PROVE  ReaderTypes'
<1>1. rhead' \in [Agents -> 0 .. MaxSeq]
  BY ConstantsAssumption DEF ReaderTypes, Leave
<1>2. \A b \in Agents \ {a} : rpc'[b] = rpc[b] /\ rhead'[b] = rhead[b] /\ raw'[b] = raw[b]
  BY DEF ReaderTypes, Leave
<1>3. rpc'[a] = "idle"
  BY DEF ReaderTypes, Leave
<1>4. /\ rpc' \in [Agents -> {"idle", "tail", "empty", "payload", "ack", "return", "unacked"}]
      /\ raw' \in [Agents -> Payload \cup {None}]
  BY DEF ReaderTypes, Leave
<1> QED
  BY <1>1, <1>2, <1>3, <1>4 DEF ReaderTypes

\* The steps of the polling threads keep the types of their locals.
LEMMA ReaderTypesStep == TypeOK /\ [Next]_vars => ReaderTypes'
<1> SUFFICES ASSUME TypeOK, [Next]_vars PROVE ReaderTypes'
  OBVIOUS
<1> USE ConstantsAssumption
<1>0. InboxTypes /\ ReaderTypes
  BY DEF TypeOK
<1>1. ASSUME NEW a \in Agents, ReadHead(a) PROVE ReaderTypes'
  <2>1. head[a] \in 0 .. MaxSeq
    BY <1>0 DEF InboxTypes
  <2> QED
    BY <1>0, <1>1, <2>1 DEF ReaderTypes, ReadHead
<1>2. ASSUME NEW a \in Agents, ReadTail(a) PROVE ReaderTypes'
  <2>1. tail[a] \in 0 .. MaxSeq /\ rhead[a] \in 0 .. MaxSeq
    BY <1>0 DEF InboxTypes, ReaderTypes
  <2> QED
    BY <1>0, <1>2, <2>1 DEF ReaderTypes, ReadTail
<1>3. ASSUME NEW a \in Agents, EmptyInbox(a) \/ PollFails(a) \/ ReaderCrash(a) PROVE ReaderTypes'
  <2>1. got' \in [Agents -> Seq(Payload)]
    BY <1>0, <1>3 DEF ReaderTypes, EmptyInbox, PollFails, ReaderCrash
  <2>2. CASE Leave(a)
    BY <1>0, <2>1, <2>2, LeaveType
  <2>3. CASE rpc' = [rpc EXCEPT ![a] = "tail"] /\ UNCHANGED <<rhead, raw>>
    BY <1>0, <2>1, <2>3 DEF ReaderTypes
  <2> QED
    BY <1>3, <2>2, <2>3 DEF EmptyInbox, PollFails, ReaderCrash
<1>4. ASSUME NEW a \in Agents, ReadPayload(a) PROVE ReaderTypes'
  <2>1. msgs[a][rhead[a] + 1] \in Payload \cup {None}
    BY <1>0 DEF InboxTypes, ReaderTypes, Seqs, FallbackSeq
  <2>2. got' = got /\ rpc[a] = "payload"
    BY <1>4 DEF ReadPayload
  <2>3. CASE Leave(a)
    BY <1>0, <2>2, <2>3, LeaveType DEF ReaderTypes
  <2>4. CASE /\ msgs[a][rhead[a] + 1] # None
             /\ raw' = [raw EXCEPT ![a] = msgs[a][rhead[a] + 1]]
             /\ rpc' = [rpc EXCEPT ![a] = "ack"]
             /\ UNCHANGED rhead
    BY <1>0, <2>1, <2>2, <2>4 DEF ReaderTypes
  <2> QED
    BY <1>4, <2>3, <2>4 DEF ReadPayload
<1>5. ASSUME NEW a \in Agents, Ack(a) PROVE ReaderTypes'
  BY <1>0, <1>5 DEF ReaderTypes, Ack
<1>6. ASSUME NEW a \in Agents, Return(a) PROVE ReaderTypes'
  <2>1. raw[a] \in Payload
    BY <1>0, <1>6 DEF ReaderTypes, Return
  <2>2. got' \in [Agents -> Seq(Payload)]
    BY <1>0, <1>6, <2>1 DEF ReaderTypes, Return
  <2> QED
    BY <1>0, <1>6, <2>2, LeaveType DEF Return
<1>7. ASSUME UNCHANGED readerVars PROVE ReaderTypes'
  BY <1>0, <1>7 DEF ReaderTypes, readerVars
<1> QED
  BY <1>1, <1>2, <1>3, <1>4, <1>5, <1>6, <1>7
  DEF Next, vars, SendStep, ReadStep, Send, Broadcast, Begin, SendSeq, SendHSet, SendExpire,
      SendFails, SenderCrash, Heartbeat, Expired, ClearScan, ClearDelete

\* Every step, failures included, keeps the types.
LEMMA TypeStep == TypeOK /\ [Next]_vars => TypeOK'
<1> SUFFICES ASSUME TypeOK, [Next]_vars PROVE ClearTypes'
  BY SenderTypesStep, InboxTypesStep, ReaderTypesStep DEF TypeOK
<1>1. CASE ClearScan \/ ClearDelete \/ \E a \in Agents : Expired(a)
  BY <1>1 DEF TypeOK, ClearTypes, ClearScan, ClearDelete, Expired, Emptied
<1>2. CASE UNCHANGED clearVars
  BY <1>2 DEF TypeOK, ClearTypes, clearVars
<1> QED
  BY <1>1, <1>2
  DEF Next, vars, SendStep, ReadStep, Send, Broadcast, Begin, SendSeq, SendHSet, SendExpire,
      SendFails, SenderCrash, ReadHead, ReadTail, EmptyInbox, ReadPayload, Ack, Return, PollFails,
      ReaderCrash, Heartbeat

\* The initial inboxes have the right types.
LEMMA TypeInit == Init => TypeOK
<1> SUFFICES ASSUME Init PROVE TypeOK
  OBVIOUS
<1>1. (CHOOSE a \in Agents : TRUE) \in Agents
  BY ConstantsAssumption
<1>2. NoPayloads \in [Seqs -> Payload \cup {None}]
  BY DEF NoPayloads
<1>3. InboxTypes
  BY <1>2, ConstantsAssumption DEF Init, InboxTypes
<1>4. SenderTypes
  BY <1>1, ConstantsAssumption DEF Init, SenderTypes, Seqs, FallbackSeq
<1>5. ReaderTypes
  BY ConstantsAssumption DEF Init, ReaderTypes
<1>6. ClearTypes
  BY Zenon DEF Init, ClearTypes
<1> QED
  BY <1>3, <1>4, <1>5, <1>6 DEF TypeOK

\* Cursors, payload fields and the locals of Send and _pollInbox always have
\* their types: in particular a poller about to ack has a payload in hand and
\* a cursor below the last number handed out.
THEOREM TypeCorrect == Spec => []TypeOK
  BY TypeInit, TypeStep, PTL DEF Spec

-----------------------------------------------------------------------------
(* At most once                                                              *)

\* Steps that neither move a cursor, a payload, a delivery nor a poller, and
\* after which every payload that was settled still is, keep the invariant.
LEMMA OnceFrame ==
  ASSUME TypeOK, OnceInv, SendsOnce',
         UNCHANGED <<head, msgs>>, UNCHANGED readerVars,
         \A a \in Agents, p \in Payload : Written(a, p) => Written(a, p)'
  PROVE  OnceInv'
<1>1. \A a \in Agents : got[a] \in Seq(Payload) /\ raw[a] \in Payload \cup {None}
  BY DEF TypeOK, ReaderTypes
<1>2. \A a \in Agents, s \in Seqs : msgs[a][s] \in Payload \cup {None}
  BY DEF TypeOK, InboxTypes
<1>3. ASSUME NEW a \in Agents PROVE NotAgain(a)'
  <2>1. \A i \in 1 .. Len(got[a]) : got[a][i] \in Payload
    BY <1>1
  <2> QED
    BY <1>1, <1>2, <2>1 DEF OnceInv, NotAgain, Delivered, readerVars
<1>4. ASSUME NEW a \in Agents PROVE OneNumber(a)' /\ BehindCursor(a)'
  BY DEF OnceInv, OneNumber, BehindCursor, Delivered, readerVars
<1>5. RawWhileActing' /\ AtMostOnce'
  BY DEF OnceInv, RawWhileActing, AtMostOnce, readerVars
<1> QED
  BY <1>3, <1>4, <1>5 DEF OnceInv

\* A poller that returns without a message, or reads a cursor.
LEMMA OnceBeforePayload ==
  ASSUME TypeOK, OnceInv, NEW a \in Agents,
         ReadHead(a) \/ ReadTail(a) \/ EmptyInbox(a) \/ PollFails(a) \/ ReaderCrash(a)
         \/ (ReadPayload(a) /\ Leave(a))
  PROVE  OnceInv'
<1>1. UNCHANGED <<head, tail, msgs, ttl>> /\ UNCHANGED <<spc, todo, target, seq, count>> /\ UNCHANGED got
  BY DEF ReadHead, ReadTail, EmptyInbox, PollFails, ReaderCrash, ReadPayload, inboxVars, senderVars
<1>2. \A b \in Agents \ {a} : rpc'[b] = rpc[b] /\ rhead'[b] = rhead[b] /\ raw'[b] = raw[b]
  BY DEF TypeOK, ReaderTypes, ReadHead, ReadTail, EmptyInbox, PollFails, ReaderCrash, ReadPayload, Leave
<1>3. raw'[a] = None /\ rpc'[a] \in {"idle", "tail", "empty", "payload"}
  BY DEF TypeOK, ReaderTypes, OnceInv, RawWhileActing, ReadHead, ReadTail, EmptyInbox, PollFails,
         ReaderCrash, ReadPayload, Leave
<1>4. rpc'[a] # "idle" => (rhead'[a] = head[a] \/ (rpc[a] # "idle" /\ rhead'[a] = rhead[a]))
  BY DEF TypeOK, ReaderTypes, ReadHead, ReadTail, EmptyInbox, PollFails, ReaderCrash, ReadPayload, Leave
<1>5. SendsOnce' /\ AtMostOnce'
  BY <1>1 DEF OnceInv, SendsOnce, AtMostOnce
<1>6. RawWhileActing'
  BY <1>2, <1>3 DEF OnceInv, RawWhileActing
<1>7. ASSUME NEW b \in Agents PROVE NotAgain(b)'
  BY <1>1, <1>2, <1>3 DEF OnceInv, NotAgain, Delivered, Written
<1>8. ASSUME NEW b \in Agents PROVE OneNumber(b)'
  BY <1>1 DEF OnceInv, OneNumber
<1>9. ASSUME NEW b \in Agents PROVE BehindCursor(b)'
  <2>1. BehindCursor(b)
    BY DEF OnceInv
  <2>2. CASE b = a
    BY <1>1, <1>3, <1>4, <2>1, <2>2 DEF BehindCursor, Delivered
  <2>3. CASE b # a
    BY <1>1, <1>2, <2>1, <2>3 DEF BehindCursor, Delivered
  <2> QED
    BY <2>2, <2>3
<1> QED
  BY <1>5, <1>6, <1>7, <1>8, <1>9 DEF OnceInv

\* The poller reads the payload after its cursor: it was not returned before.
LEMMA OnceReadPayload ==
  ASSUME TypeOK, OnceInv, NEW a \in Agents, ReadPayload(a)
  PROVE  OnceInv'
<1>1. CASE Leave(a)
  BY <1>1, OnceBeforePayload
<1>2. CASE /\ msgs[a][rhead[a] + 1] # None
           /\ raw' = [raw EXCEPT ![a] = msgs[a][rhead[a] + 1]]
           /\ rpc' = [rpc EXCEPT ![a] = "ack"]
           /\ UNCHANGED rhead
  <2>1. /\ UNCHANGED <<head, tail, msgs, ttl>> /\ UNCHANGED <<spc, todo, target, seq, count>>
        /\ UNCHANGED got /\ rpc[a] = "payload"
    BY DEF ReadPayload, inboxVars, senderVars
  <2>2. \A b \in Agents \ {a} : rpc'[b] = rpc[b] /\ rhead'[b] = rhead[b] /\ raw'[b] = raw[b]
    BY <1>2 DEF TypeOK, ReaderTypes
  <2>3. raw'[a] = msgs[a][rhead[a] + 1] /\ rpc'[a] = "ack" /\ rhead'[a] = rhead[a]
    BY <1>2 DEF TypeOK, ReaderTypes
  <2>4. rhead[a] \in Int /\ rhead[a] + 1 \in Seqs /\ ~(rhead[a] + 1 <= rhead[a])
    BY ConstantsAssumption DEF TypeOK, ReaderTypes, Seqs, FallbackSeq
  <2>5. ~Delivered(a, msgs[a][rhead[a] + 1])
    BY <1>2, <2>1, <2>4 DEF OnceInv, BehindCursor
  <2>6. SendsOnce' /\ AtMostOnce'
    BY <2>1 DEF OnceInv, SendsOnce, AtMostOnce
  <2>7. RawWhileActing'
    BY <1>2, <2>2, <2>3 DEF OnceInv, RawWhileActing
  <2>8. ASSUME NEW b \in Agents PROVE NotAgain(b)' /\ OneNumber(b)'
    <3>1. NotAgain(b) /\ OneNumber(b)
      BY DEF OnceInv
    <3>2. CASE b = a
      BY <2>1, <2>3, <2>4, <2>5, <3>1, <3>2, <1>2 DEF NotAgain, OneNumber, Delivered, Written
    <3>3. CASE b # a
      BY <2>1, <2>2, <3>1, <3>3 DEF NotAgain, OneNumber, Delivered, Written
    <3> QED
      BY <3>2, <3>3
  <2>9. ASSUME NEW b \in Agents PROVE BehindCursor(b)'
    <3>1. BehindCursor(b) /\ OneNumber(b)
      BY DEF OnceInv
    <3>2. CASE b = a
      BY <2>1, <2>3, <2>4, <3>1, <3>2, <1>2 DEF BehindCursor, OneNumber, Delivered
    <3>3. CASE b # a
      BY <2>1, <2>2, <3>1, <3>3 DEF BehindCursor, Delivered
    <3> QED
      BY <3>2, <3>3
  <2> QED
    BY <2>6, <2>7, <2>8, <2>9 DEF OnceInv
<1> QED
  BY <1>1, <1>2 DEF ReadPayload

\* The ack moves the cursor to the payload in hand.
LEMMA OnceAck ==
  ASSUME TypeOK, OnceInv, "ack" \notin Faults, NEW a \in Agents, Ack(a)
  PROVE  OnceInv'
<1>1. /\ UNCHANGED <<tail, msgs, ttl>> /\ UNCHANGED <<spc, todo, target, seq, count>>
      /\ UNCHANGED <<rhead, raw, got>> /\ rpc[a] = "ack"
  BY DEF Ack, senderVars
<1>2. /\ \A b \in Agents \ {a} : rpc'[b] = rpc[b] /\ head'[b] = head[b]
      /\ rpc'[a] = "return" /\ head'[a] = rhead[a] + 1
  BY DEF TypeOK, ReaderTypes, InboxTypes, Ack
<1>3. SendsOnce' /\ AtMostOnce'
  BY <1>1 DEF OnceInv, SendsOnce, AtMostOnce
<1>4. RawWhileActing'
  BY <1>1, <1>2 DEF OnceInv, RawWhileActing
<1>5. ASSUME NEW b \in Agents PROVE NotAgain(b)' /\ OneNumber(b)'
  BY <1>1 DEF OnceInv, NotAgain, OneNumber, Delivered, Written
<1>6. ASSUME NEW b \in Agents PROVE BehindCursor(b)'
  <2>1. BehindCursor(b)
    BY DEF OnceInv
  <2>2. CASE b = a
    <3>1. rhead[a] \in Int /\ \A s \in Seqs : s \in Int
      BY ConstantsAssumption DEF TypeOK, ReaderTypes, Seqs, FallbackSeq
    <3> QED
      BY <1>1, <1>2, <2>1, <2>2, <3>1 DEF BehindCursor, Delivered
  <2>3. CASE b # a
    BY <1>1, <1>2, <2>1, <2>3 DEF BehindCursor, Delivered
  <2> QED
    BY <2>2, <2>3
<1> QED
  BY <1>3, <1>4, <1>5, <1>6 DEF OnceInv

\* Receive returns the payload in hand, which it had not returned before.
LEMMA OnceReturn ==
  ASSUME TypeOK, OnceInv, NEW a \in Agents, Return(a)
  PROVE  OnceInv'
<1>1. /\ UNCHANGED <<head, tail, msgs>> /\ UNCHANGED <<spc, todo, target, seq, count>>
  BY DEF Return, senderVars
<1>2. rpc[a] = "return" /\ raw[a] # None /\ raw[a] \in Payload
  BY DEF OnceInv, RawWhileActing, Return, TypeOK, ReaderTypes
<1>3. /\ \A b \in Agents \ {a} : rpc'[b] = rpc[b] /\ rhead'[b] = rhead[b] /\ raw'[b] = raw[b] /\ got'[b] = got[b]
      /\ rpc'[a] = "idle" /\ raw'[a] = None /\ got'[a] = Append(got[a], raw[a])
  BY DEF TypeOK, ReaderTypes, Return, Leave
<1>4. got[a] \in Seq(Payload) /\ Len(got[a]) \in Nat
  BY DEF TypeOK, ReaderTypes
<1>5. /\ Len(got'[a]) = Len(got[a]) + 1
      /\ \A i \in 1 .. Len(got[a]) : got'[a][i] = got[a][i]
      /\ got'[a][Len(got[a]) + 1] = raw[a]
  BY <1>2, <1>3, <1>4
<1>7. SendsOnce' /\ RawWhileActing'
  BY <1>1, <1>3 DEF OnceInv, SendsOnce, RawWhileActing
<1>8. AtMostOnce'
  <2> SUFFICES ASSUME NEW b \in Agents, NEW i \in 1 .. Len(got'[b]), NEW j \in 1 .. Len(got'[b]),
                      SameMessage(got'[b][i], got'[b][j])
               PROVE  i = j
    BY DEF AtMostOnce, SameMessage
  <2>1. CASE b # a
    BY <1>3, <2>1 DEF OnceInv, AtMostOnce
  <2>2. CASE b = a
    <3>1. ~Delivered(a, raw[a])
      BY <1>2 DEF OnceInv, NotAgain
    <3>2. \A k \in 1 .. Len(got[a]) : ~SameMessage(got[a][k], raw[a]) /\ ~SameMessage(raw[a], got[a][k])
      BY <3>1 DEF Delivered, SameMessage
    <3>3. CASE i \in 1 .. Len(got[a]) /\ j \in 1 .. Len(got[a])
      BY <1>5, <2>2, <3>3 DEF OnceInv, AtMostOnce
    <3>4. CASE i = Len(got[a]) + 1 /\ j # Len(got[a]) + 1
      BY <1>4, <1>5, <2>2, <3>2, <3>4
    <3>5. CASE j = Len(got[a]) + 1 /\ i # Len(got[a]) + 1
      BY <1>4, <1>5, <2>2, <3>2, <3>5
    <3> QED
      BY <1>4, <1>5, <2>2, <3>3, <3>4, <3>5
  <2> QED
    BY <2>1, <2>2
<1>9. ASSUME NEW b \in Agents PROVE NotAgain(b)' /\ OneNumber(b)'
  <2>1. NotAgain(b) /\ OneNumber(b)
    BY DEF OnceInv
  <2>2. CASE b = a
    <3>1. OneNumber(a)'
      BY <1>1, <2>1, <2>2 DEF OneNumber
    <3>2. \A i \in 1 .. Len(got'[a]) : Written(a, got'[a][i])
      <4>1. \A i \in 1 .. Len(got[a]) : Written(a, got[a][i])
        BY <2>1, <2>2 DEF NotAgain
      <4>2. Written(a, raw[a])
        BY <1>2, <2>1, <2>2 DEF NotAgain
      <4>3. \A i \in 1 .. Len(got'[a]) : i \in 1 .. Len(got[a]) \/ i = Len(got[a]) + 1
        BY <1>4, <1>5
      <4> QED
        BY <1>5, <4>1, <4>2, <4>3
    <3>3. \A p : Written(a, p) => Written(a, p)'
      BY <1>1 DEF Written
    <3>4. \A s \in Seqs : msgs'[a][s] # None => Written(a, msgs'[a][s])
      BY <1>1, <2>1, <2>2 DEF NotAgain
    <3> QED
      BY <1>1, <1>3, <2>2, <3>1, <3>2, <3>3, <3>4 DEF NotAgain, Written
  <2>3. CASE b # a
    BY <1>1, <1>3, <2>1, <2>3 DEF NotAgain, OneNumber, Delivered, Written
  <2> QED
    BY <2>2, <2>3
<1>10. ASSUME NEW b \in Agents PROVE BehindCursor(b)'
  <2>1. BehindCursor(b)
    BY DEF OnceInv
  <2>2. CASE b = a
    <3>1. ASSUME NEW s \in Seqs, msgs[a][s] # None,
                 NEW i \in 1 .. Len(got'[a]), SameMessage(got'[a][i], msgs[a][s])
          PROVE  s <= head[a]
      <4>1. CASE i \in 1 .. Len(got[a])
        BY <1>5, <2>1, <2>2, <3>1, <4>1 DEF BehindCursor, Delivered
      <4>2. CASE i = Len(got[a]) + 1
        BY <1>2, <1>5, <2>1, <2>2, <3>1, <4>2 DEF BehindCursor, SameMessage
      <4> QED
        BY <1>4, <1>5, <4>1, <4>2
    <3> QED
      BY <1>1, <1>3, <2>2, <3>1 DEF BehindCursor, Delivered, SameMessage
  <2>3. CASE b # a
    BY <1>1, <1>3, <2>1, <2>3 DEF BehindCursor, Delivered
  <2> QED
    BY <2>2, <2>3
<1> QED
  BY <1>7, <1>8, <1>9, <1>10 DEF OnceInv

\* Send writes a payload that is nowhere at the recipient yet.
LEMMA OnceHSet ==
  ASSUME TypeOK, OnceInv, NEW t \in Threads, SendHSet(t)
  PROVE  OnceInv'
<1> DEFINE p == [from |-> t, n |-> count[t], seq |-> seq[t]]
           a == target[t]
<1>1. /\ UNCHANGED <<head, todo, target, seq, count>> /\ UNCHANGED <<rpc, rhead, raw, got>>
      /\ spc[t] = "hset"
  BY DEF SendHSet, readerVars
<1>2. a \in Agents /\ seq[t] \in Seqs
  BY DEF TypeOK, SenderTypes
<1>3. /\ spc'[t] = "expire"
      /\ \A u \in Threads \ {t} : spc'[u] = spc[u]
  BY DEF SendHSet, TypeOK, SenderTypes
<1>4. /\ msgs'[a][seq[t]] = p
      /\ \A s \in Seqs \ {seq[t]} : msgs'[a][s] = msgs[a][s]
      /\ \A b \in Agents \ {a} : msgs'[b] = msgs[b]
  BY <1>2 DEF SendHSet, TypeOK, InboxTypes
<1>5. p.from = t /\ p.n = count[t] /\ p \in Payload /\ count[t] \in Int
  BY DEF TypeOK, SenderTypes, Payload
<1>6. \A q : SameMessage(p, q) => ~Written(a, q)
  BY <1>1, <1>5 DEF SameMessage, Written
<1>7. /\ \A s \in Seqs : msgs[a][s] # None => ~SameMessage(p, msgs[a][s])
      /\ raw[a] # None => ~SameMessage(p, raw[a])
      /\ ~Delivered(a, p)
  BY <1>2, <1>6 DEF OnceInv, NotAgain, Delivered, SameMessage
<1>8. ASSUME NEW b \in Agents, NEW q \in Payload, Written(b, q) PROVE Written(b, q)'
  <2>1. q.from \in Threads
    BY DEF Payload
  <2> QED
    BY <1>1, <1>3, <1>8, <2>1 DEF Written
<1>9. Written(a, p)'
  <2>1. a \notin todo[t]
    BY <1>1 DEF OnceInv, SendsOnce
  <2> QED
    BY <1>1, <1>3, <1>5, <2>1 DEF Written
<1>10. SendsOnce' /\ RawWhileActing' /\ AtMostOnce'
  BY <1>1, <1>3 DEF OnceInv, SendsOnce, RawWhileActing, AtMostOnce
<1>11. ASSUME NEW b \in Agents PROVE NotAgain(b)'
  <2>1. /\ got[b] \in Seq(Payload) /\ raw[b] \in Payload \cup {None}
        /\ \A s \in Seqs : msgs[b][s] \in Payload \cup {None}
    BY DEF TypeOK, ReaderTypes, InboxTypes
  <2>2. \A i \in 1 .. Len(got[b]) : got[b][i] \in Payload
    BY <2>1
  <2>3. NotAgain(b)
    BY DEF OnceInv
  <2>4. \A i \in 1 .. Len(got[b]) : Written(b, got[b][i])'
    <3>1. \A i \in 1 .. Len(got[b]) : Written(b, got[b][i])
      BY <2>3 DEF NotAgain
    <3> QED
      BY <1>1, <1>8, <2>2, <3>1 DEF Written
  <2>5. raw[b] # None => Written(b, raw[b])' /\ ~Delivered(b, raw[b])'
    <3>1. raw[b] # None => Written(b, raw[b]) /\ ~Delivered(b, raw[b]) /\ raw[b] \in Payload
      BY <2>1, <2>3 DEF NotAgain
    <3>2. raw[b] # None => Written(b, raw[b])'
      BY <1>1, <1>8, <3>1 DEF Written
    <3> QED
      BY <1>1, <3>1, <3>2 DEF Delivered
  <2>6. \A s \in Seqs : msgs'[b][s] # None => Written(b, msgs[b][s])'
    <3> SUFFICES ASSUME NEW s \in Seqs, msgs'[b][s] # None PROVE Written(b, msgs[b][s])'
      OBVIOUS
    <3>1. CASE b = a /\ s = seq[t]
      BY <1>1, <1>4, <1>9, <3>1 DEF Written
    <3>2. CASE ~(b = a /\ s = seq[t])
      <4>1. msgs'[b][s] = msgs[b][s]
        BY <1>4, <3>2
      <4>2. Written(b, msgs[b][s]) /\ msgs[b][s] \in Payload
        BY <2>1, <2>3, <4>1 DEF NotAgain
      <4> QED
        BY <1>8, <4>1, <4>2 DEF Written
    <3> QED
      BY <3>1, <3>2
  <2> QED
    BY <1>1, <2>4, <2>5, <2>6 DEF NotAgain
<1>12. ASSUME NEW b \in Agents PROVE OneNumber(b)'
  <2>1. OneNumber(b)
    BY DEF OnceInv
  <2> QED
    BY <1>4, <1>7, <2>1, SMTT(30) DEF OneNumber, SameMessage
<1>13. ASSUME NEW b \in Agents PROVE BehindCursor(b)'
  <2>1. BehindCursor(b)
    BY DEF OnceInv
  <2>2. ASSUME NEW s \in Seqs, msgs'[b][s] # None, ~(b = a /\ s = seq[t])
        PROVE  /\ Delivered(b, msgs'[b][s]) => s <= head[b] /\ (rpc[b] # "idle" => s <= rhead[b])
               /\ raw[b] # None /\ SameMessage(msgs'[b][s], raw[b]) =>
                    s = rhead[b] + 1 /\ (rpc[b] = "return" => s <= head[b])
    <3>1. msgs'[b][s] = msgs[b][s]
      BY <1>4, <2>2
    <3> QED
      BY <2>1, <2>2, <3>1 DEF BehindCursor
  <2>3. b = a => ~Delivered(b, msgs'[b][seq[t]]) /\ (raw[b] # None => ~SameMessage(msgs'[b][seq[t]], raw[b]))
    BY <1>4, <1>7
  <2> QED
    BY <1>1, <2>2, <2>3 DEF BehindCursor, Delivered
<1> QED
  BY <1>10, <1>11, <1>12, <1>13 DEF OnceInv

\* A hash that expires or is deleted takes its payloads along with its cursor.
LEMMA OnceEmptied ==
  ASSUME TypeOK, OnceInv, NEW dead, Emptied(dead), UNCHANGED senderVars, UNCHANGED readerVars
  PROVE  OnceInv'
<1>1. UNCHANGED <<spc, todo, target, count>> /\ UNCHANGED <<rpc, rhead, raw, got>>
  BY DEF senderVars, readerVars
<1>2. /\ \A b \in Agents : b \notin dead => msgs'[b] = msgs[b] /\ head'[b] = head[b]
      /\ \A b \in Agents : b \in dead => \A s \in Seqs : msgs'[b][s] = None
  BY DEF Emptied, NoPayloads
<1>3. SendsOnce' /\ RawWhileActing' /\ AtMostOnce'
  BY <1>1 DEF OnceInv, SendsOnce, RawWhileActing, AtMostOnce
<1>4. ASSUME NEW b \in Agents PROVE NotAgain(b)' /\ OneNumber(b)' /\ BehindCursor(b)'
  <2>1. NotAgain(b) /\ OneNumber(b) /\ BehindCursor(b)
    BY DEF OnceInv
  <2>2. CASE b \in dead
    BY <1>1, <1>2, <2>1, <2>2 DEF NotAgain, OneNumber, BehindCursor, Delivered, Written
  <2>3. CASE b \notin dead
    BY <1>1, <1>2, <2>1, <2>3 DEF NotAgain, OneNumber, BehindCursor, Delivered, Written
  <2> QED
    BY <2>2, <2>3
<1> QED
  BY <1>3, <1>4 DEF OnceInv

\* Every step keeps the invariant, unless the write of __head__ can fail.
LEMMA OnceStep ==
  ASSUME "ack" \notin Faults
  PROVE  TypeOK /\ OnceInv /\ [Next]_vars => OnceInv'
<1> SUFFICES ASSUME TypeOK, OnceInv, [Next]_vars PROVE OnceInv'
  OBVIOUS
<1> USE ConstantsAssumption
<1>0. SenderTypes /\ \A p \in Payload : p.from \in Threads /\ p.n \in Int
  BY DEF TypeOK, Payload
<1>1. ASSUME NEW t \in Threads, NEW targets \in SUBSET Agents, Begin(t, targets) PROVE OnceInv'
  <2>1. SendsOnce'
    BY <1>0, <1>1 DEF OnceInv, SendsOnce, Begin, SenderTypes
  <2>2. \A a \in Agents, p \in Payload : Written(a, p) => Written(a, p)'
    BY <1>0, <1>1 DEF Written, Begin, SenderTypes
  <2> QED
    BY <1>1, <2>1, <2>2, OnceFrame DEF Begin, inboxVars
<1>2. ASSUME NEW t \in Threads, NEW a \in Agents, SendSeq(t, a) PROVE OnceInv'
  <2>1. SendsOnce'
    BY <1>0, <1>2 DEF OnceInv, SendsOnce, SendSeq, SenderTypes
  <2>2. \A b \in Agents, p \in Payload : Written(b, p) => Written(b, p)'
    BY <1>0, <1>2 DEF Written, SendSeq, SenderTypes
  <2> QED
    BY <1>2, <2>1, <2>2, OnceFrame DEF SendSeq
<1>3. ASSUME NEW t \in Threads, SendHSet(t) PROVE OnceInv'
  BY <1>3, OnceHSet
<1>4. ASSUME NEW t \in Threads, SendExpire(t) \/ SendFails(t) \/ SenderCrash(t) PROVE OnceInv'
  <2>1. SendsOnce'
    BY <1>0, <1>4 DEF OnceInv, SendsOnce, SendExpire, SendFails, SenderCrash, Advance, SenderTypes
  <2>2. \A b \in Agents, p \in Payload : Written(b, p) => Written(b, p)'
    BY <1>0, <1>4 DEF Written, SendExpire, SendFails, SenderCrash, Advance, SenderTypes
  <2>3. UNCHANGED <<head, msgs>> /\ UNCHANGED readerVars
    BY <1>4 DEF SendExpire, SendFails, SenderCrash, inboxVars
  <2> QED
    BY <2>1, <2>2, <2>3, OnceFrame
<1>5. ASSUME NEW a \in Agents, ReadStep(a) \/ PollFails(a) \/ ReaderCrash(a) PROVE OnceInv'
  BY <1>5, OnceBeforePayload, OnceReadPayload, OnceAck, OnceReturn DEF ReadStep
<1>6. ASSUME UNCHANGED <<head, msgs>>, UNCHANGED senderVars, UNCHANGED readerVars PROVE OnceInv'
  <2>1. SendsOnce' /\ \A a \in Agents, p \in Payload : Written(a, p) => Written(a, p)'
    BY <1>6 DEF OnceInv, SendsOnce, Written, senderVars
  <2> QED
    BY <1>6, <2>1, OnceFrame
<1>7. ASSUME NEW dead, Emptied(dead), UNCHANGED senderVars, UNCHANGED readerVars PROVE OnceInv'
  BY <1>7, OnceEmptied
<1> QED
  BY <1>1, <1>2, <1>3, <1>4, <1>5, <1>6, <1>7
  DEF Next, vars, SendStep, Send, Broadcast, Heartbeat, Expired, ClearScan, ClearDelete, inboxVars

\* The strengthening holds throughout: what a poll in progress has read was not
\* handed out before, and no payload behind the cursor is ever read again.
THEOREM OnceInvariant ==
  ASSUME "ack" \notin Faults
  PROVE  Spec => []OnceInv
<1>1. Init => OnceInv
  BY DEF Init, OnceInv, SendsOnce, RawWhileActing, NotAgain, OneNumber, BehindCursor, AtMostOnce,
         NoPayloads, Delivered
<1>2. TypeOK /\ OnceInv /\ [Next]_vars => OnceInv'
  BY OnceStep
<1> QED
  BY <1>1, <1>2, TypeCorrect, PTL DEF Spec

\* Receive never returns the same message twice, for any number of agents,
\* threads and messages and whatever crashes, expiries, failed commands or
\* clearAll happen, as long as _ack's write of __head__ does not fail.
THEOREM ReceiveAtMostOnce ==
  ASSUME "ack" \notin Faults
  PROVE  Spec => []AtMostOnce
<1>1. OnceInv => AtMostOnce
  BY DEF OnceInv
<1> QED
  BY <1>1, OnceInvariant, PTL

-----------------------------------------------------------------------------
(* In order                                                                  *)

\* What the poller of a holds while no hash was deleted: its copy of the cursor
\* is the cursor itself until the ack, which moves the cursor to the number of
\* the payload in hand; what was returned before has a lower number.
CursorIsAhead(a) ==
    /\ head[a] <= tail[a]
    /\ rpc[a] \in {"tail", "empty", "payload", "ack"} => rhead[a] = head[a]
    /\ rpc[a] \in {"payload", "ack"} => rhead[a] < tail[a]
    /\ rpc[a] = "return" => head[a] = rhead[a] + 1
    /\ raw[a] # None => raw[a].seq = rhead[a] + 1
    /\ \A i \in 1 .. Len(got[a]) :
          got[a][i].seq <= head[a] /\ (rpc[a] = "return" => got[a][i].seq <= rhead[a])

NumberedAsStored(a) == \A s \in Seqs : msgs[a][s] # None => msgs[a][s].seq = s

ReturnedInOrder(a) ==
    \A i, j \in 1 .. Len(got[a]) : i < j => got[a][i].seq < got[a][j].seq

OrderInv ==
    ~deleted => \A a \in Agents : CursorIsAhead(a) /\ NumberedAsStored(a) /\ ReturnedInOrder(a)

\* Numbers: every payload has one HINCRBY handed out, and a number a Send holds
\* is its own and still empty.
NumberInv ==
    ~deleted =>
        /\ \A a \in Agents, s \in 1 .. MaxSeq : msgs[a][s] # None => s <= tail[a]
        /\ \A t \in Threads : spc[t] = "hset" /\ seq[t] <= MaxSeq =>
              /\ seq[t] <= tail[target[t]]
              /\ msgs[target[t]][seq[t]] = None
        /\ \A t, u \in Threads :
              /\ spc[t] = "hset" /\ spc[u] = "hset" /\ seq[t] <= MaxSeq
              /\ target[t] = target[u] /\ seq[t] = seq[u]
              => t = u

\* Every number handed out is filled or about to be.
FilledInv ==
    \A a \in Agents, s \in 1 .. MaxSeq :
        s <= tail[a] /\ msgs[a][s] = None
            => \E t \in Threads : spc[t] = "hset" /\ target[t] = a /\ seq[t] = s

\* Only Send and the lifetime of a hash touch what the numbers speak of.
LEMMA NumbersFrame ==
  ASSUME NumberInv, UNCHANGED <<tail, msgs, deleted>>, UNCHANGED <<target, seq>>,
         \A t \in Threads : spc'[t] = "hset" => spc[t] = "hset"
  PROVE  NumberInv'
BY DEF NumberInv

\* HINCRBY hands out a number above every payload and every number in hand.
LEMMA NumberSendSeq ==
  ASSUME TypeOK, NumberInv, NEW t \in Threads, NEW a \in Agents, SendSeq(t, a)
  PROVE  NumberInv'
<1> SUFFICES ASSUME ~deleted PROVE NumberInv'
  BY DEF NumberInv, SendSeq, clearVars
<1> USE ConstantsAssumption DEF TypeOK, InboxTypes, SenderTypes
<1>1. UNCHANGED <<msgs, deleted>>
  BY DEF SendSeq, clearVars
<1>2. /\ \A u \in Threads \ {t} : target'[u] = target[u] /\ spc'[u] = spc[u] /\ seq'[u] = seq[u]
      /\ target'[t] = a
  BY DEF SendSeq, NextSeq
<1>3. \A b \in Agents : tail[b] \in 0 .. MaxSeq
  OBVIOUS
<1>4. CASE seq'[t] = FallbackSeq /\ UNCHANGED tail
  <2>1. \A b \in Agents, s \in 1 .. MaxSeq : msgs'[b][s] # None => s <= tail'[b]
    BY <1>1, <1>4 DEF NumberInv
  <2>2. \A u \in Threads : spc'[u] = "hset" /\ seq'[u] <= MaxSeq => u # t
    BY <1>4 DEF FallbackSeq
  <2> QED
    BY <1>1, <1>2, <1>4, <2>1, <2>2, ZenonT(60) DEF NumberInv
<1>5. CASE seq'[t] = tail[a] + 1 /\ tail'[a] = tail[a] + 1 /\ \A b \in Agents \ {a} : tail'[b] = tail[b]
  <2>0. ASSUME NEW b \in Agents PROVE tail'[b] \in Int /\ tail[b] \in Int /\ tail[b] <= tail'[b]
    <3>1. tail[b] \in Int /\ tail[a] \in Int
      BY <1>3
    <3>2. CASE b = a
      BY <1>5, <3>1, <3>2
    <3>3. CASE b # a
      BY <1>5, <3>1, <3>3
    <3> QED
      BY <3>2, <3>3
  <2>1. \A b \in Agents, s \in 1 .. MaxSeq : msgs'[b][s] # None => s <= tail'[b]
    <3>1. \A b \in Agents, s \in 1 .. MaxSeq : msgs[b][s] # None => s <= tail[b]
      BY DEF NumberInv
    <3> QED
      BY <1>1, <2>0, <3>1
  <2>2. ASSUME NEW u \in Threads, spc'[u] = "hset", seq'[u] <= MaxSeq
        PROVE  seq'[u] <= tail'[target'[u]] /\ msgs'[target'[u]][seq'[u]] = None
    <3>1. CASE u = t
      <4>1. tail[a] + 1 \in 1 .. MaxSeq /\ ~(tail[a] + 1 <= tail[a])
        BY <1>3, <1>5, <2>2, <3>1
      <4>2. msgs[a][tail[a] + 1] = None
        BY <4>1 DEF NumberInv
      <4>3. target'[u] = a /\ seq'[u] = tail[a] + 1 /\ tail'[a] = tail[a] + 1 /\ tail[a] \in Int
        BY <1>2, <1>3, <1>5, <3>1
      <4> QED
        BY <1>1, <4>2, <4>3
    <3>2. CASE u # t
      <4>1. seq[u] <= tail[target[u]] /\ msgs[target[u]][seq[u]] = None /\ target[u] \in Agents /\ seq[u] \in Int
        BY <1>2, <2>2, <3>2 DEF NumberInv, Seqs, FallbackSeq
      <4>2. target'[u] = target[u] /\ seq'[u] = seq[u] /\ seq[u] <= tail'[target[u]]
        BY <1>2, <2>0, <3>2, <4>1
      <4> QED
        BY <1>1, <4>1, <4>2
    <3> QED
      BY <3>1, <3>2
  <2>3. ASSUME NEW u \in Threads, NEW v \in Threads, spc'[u] = "hset", spc'[v] = "hset",
               seq'[u] <= MaxSeq, target'[u] = target'[v], seq'[u] = seq'[v]
        PROVE  u = v
    <3>1. \A w \in Threads \ {t} : spc[w] = "hset" /\ seq[w] <= MaxSeq => seq[w] <= tail[target[w]]
      BY DEF NumberInv
    <3>2. \A w \in Threads : seq[w] \in Int
      BY DEF Seqs, FallbackSeq
    <3>3. CASE u # t /\ v # t
      BY <1>2, <2>3, <3>3 DEF NumberInv
    <3>4. CASE u = t /\ v # t
      BY <1>2, <1>3, <1>5, <2>3, <3>1, <3>2, <3>4
    <3>5. CASE u # t /\ v = t
      BY <1>2, <1>3, <1>5, <2>3, <3>1, <3>2, <3>5
    <3> QED
      BY <3>3, <3>4, <3>5
  <2> QED
    BY <2>1, <2>2, <2>3 DEF NumberInv
<1> QED
  BY <1>4, <1>5 DEF SendSeq, NextSeq

\* The HSET fills the number of its own Send, and that Send is done with it.
LEMMA NumberSendHSet ==
  ASSUME TypeOK, NumberInv, NEW t \in Threads, SendHSet(t)
  PROVE  NumberInv'
<1> SUFFICES ASSUME ~deleted PROVE NumberInv'
  BY DEF NumberInv, SendHSet, clearVars
<1> USE ConstantsAssumption DEF TypeOK, InboxTypes, SenderTypes
<1>1. UNCHANGED <<tail, target, seq, deleted>> /\ spc[t] = "hset" /\ target[t] \in Agents /\ seq[t] \in Seqs
  BY DEF SendHSet, clearVars
<1>2. spc'[t] # "hset" /\ \A u \in Threads \ {t} : spc'[u] = spc[u]
  BY DEF SendHSet
<1>3. \A b \in Agents, s \in Seqs : ~(b = target[t] /\ s = seq[t]) => msgs'[b][s] = msgs[b][s]
  BY <1>1 DEF SendHSet
<1>4. \A b \in Agents, s \in 1 .. MaxSeq : msgs'[b][s] # None => s <= tail'[b]
  <2>1. \A b \in Agents, s \in 1 .. MaxSeq : msgs[b][s] # None => s <= tail[b]
    BY DEF NumberInv
  <2>2. \A s \in 1 .. MaxSeq : s \in Seqs
    BY DEF Seqs, FallbackSeq
  <2>3. seq[t] <= MaxSeq => seq[t] <= tail[target[t]]
    BY <1>1 DEF NumberInv
  <2> QED
    BY <1>1, <1>3, <2>1, <2>2, <2>3
<1>5. \A u \in Threads : spc'[u] = "hset" /\ seq'[u] <= MaxSeq =>
         seq'[u] <= tail'[target'[u]] /\ msgs'[target'[u]][seq'[u]] = None
  <2> SUFFICES ASSUME NEW u \in Threads, spc'[u] = "hset", seq'[u] <= MaxSeq
               PROVE  seq'[u] <= tail'[target'[u]] /\ msgs'[target'[u]][seq'[u]] = None
    OBVIOUS
  <2>1. u # t /\ spc[u] = "hset" /\ seq[u] \in Seqs /\ target[u] \in Agents
    BY <1>1, <1>2
  <2>2. ~(target[u] = target[t] /\ seq[u] = seq[t])
    BY <1>1, <2>1 DEF NumberInv
  <2> QED
    BY <1>1, <1>3, <2>1, <2>2 DEF NumberInv
<1>6. \A u, v \in Threads :
         spc'[u] = "hset" /\ spc'[v] = "hset" /\ seq'[u] <= MaxSeq /\ target'[u] = target'[v] /\ seq'[u] = seq'[v] => u = v
  BY <1>1, <1>2 DEF NumberInv
<1> QED
  BY <1>4, <1>5, <1>6 DEF NumberInv

\* Every step keeps the numbers apart, with every failure.
LEMMA NumberStep == TypeOK /\ NumberInv /\ [Next]_vars => NumberInv'
<1> SUFFICES ASSUME TypeOK, NumberInv, [Next]_vars PROVE NumberInv'
  OBVIOUS
<1> USE DEF inboxVars, senderVars, readerVars, clearVars
<1>1. ASSUME NEW t \in Threads, NEW targets, Begin(t, targets) PROVE NumberInv'
  BY <1>1, NumbersFrame DEF Begin, TypeOK, SenderTypes
<1>2. ASSUME NEW t \in Threads, SendExpire(t) \/ SendFails(t) \/ SenderCrash(t) PROVE NumberInv'
  <2>1. \A u \in Threads : spc'[u] = "hset" => spc[u] = "hset"
    BY <1>2 DEF SendExpire, SendFails, SenderCrash, Advance, TypeOK, SenderTypes
  <2> QED
    BY <1>2, <2>1, NumbersFrame DEF SendExpire, SendFails, SenderCrash
<1>3. ASSUME NEW a \in Agents, ReadStep(a) \/ PollFails(a) \/ ReaderCrash(a) \/ Heartbeat(a) PROVE NumberInv'
  <2>1. UNCHANGED <<tail, msgs, deleted, target, seq, spc>>
    BY <1>3 DEF ReadStep, ReadHead, ReadTail, EmptyInbox, ReadPayload, Ack, Return, PollFails, ReaderCrash, Heartbeat
  <2> QED
    BY <2>1, NumbersFrame
<1>4. ASSUME deleted' = TRUE PROVE NumberInv'
  BY <1>4 DEF NumberInv
<1>5. CASE UNCHANGED <<tail, msgs, deleted, target, seq, spc>>
  BY <1>5, NumbersFrame
<1> QED
  BY <1>1, <1>2, <1>3, <1>4, <1>5, NumberSendSeq, NumberSendHSet
  DEF Next, vars, SendStep, Send, Broadcast, Expired, ClearScan, ClearDelete, Emptied

\* While the hashes live, a number a Send holds is its own and still empty,
\* for any number of concurrent senders, with crashes and failed commands.
THEOREM NumbersAreOwn == Spec => []NumberInv
<1>1. Init => NumberInv
  BY ConstantsAssumption DEF Init, NumberInv, NoPayloads, Seqs, FallbackSeq
<1>2. TypeOK /\ NumberInv /\ [Next]_vars => NumberInv'
  BY NumberStep
<1> QED
  BY <1>1, <1>2, TypeCorrect, PTL DEF Spec

\* Only the HSET of a Send changes a payload of a hash that lives.
LEMMA NoOverwriteStep ==
  ASSUME TypeOK, NumberInv, [Next]_vars, ~deleted', NEW a \in Agents, NEW s \in 1 .. MaxSeq, msgs[a][s] # None
  PROVE  msgs'[a][s] = msgs[a][s]
<1> USE DEF inboxVars, senderVars, readerVars, clearVars
<1>1. ASSUME NEW t \in Threads, SendHSet(t) PROVE msgs'[a][s] = msgs[a][s]
  <2>1. ~deleted /\ spc[t] = "hset" /\ target[t] \in Agents /\ seq[t] \in Seqs /\ s \in Seqs
    BY <1>1, ConstantsAssumption DEF SendHSet, TypeOK, SenderTypes, Seqs, FallbackSeq
  <2>2. ~(target[t] = a /\ seq[t] = s)
    BY <2>1 DEF NumberInv
  <2> QED
    BY <1>1, <2>1, <2>2 DEF SendHSet, TypeOK, InboxTypes
<1>2. CASE UNCHANGED msgs
  BY <1>2
<1> QED
  BY <1>1, <1>2
  DEF Next, vars, SendStep, Send, Broadcast, Begin, SendSeq, SendExpire, SendFails, SenderCrash, ReadStep,
      ReadHead, ReadTail, EmptyInbox, ReadPayload, Ack, Return, PollFails, ReaderCrash, Heartbeat,
      Expired, ClearScan, ClearDelete, Emptied

\* No Send writes over the payload of another while the hashes live, for any
\* number of concurrent senders and every failure.
THEOREM SendsNeverOverwrite == Spec => NoOverwrite
<1>1. /\ TypeOK /\ NumberInv /\ [Next]_vars
      => (~deleted' => \A a \in Agents, s \in 1 .. MaxSeq : msgs[a][s] # None => msgs'[a][s] = msgs[a][s])
  BY NoOverwriteStep
<1> QED
  BY <1>1, TypeCorrect, NumbersAreOwn, PTL DEF Spec, NoOverwrite

\* Sending only raises the tail and stores payloads under their own numbers.
LEMMA OrderFrame ==
  ASSUME OrderInv, UNCHANGED <<head, deleted>>, UNCHANGED readerVars,
         \A a \in Agents : head[a] <= tail[a] => head'[a] <= tail'[a],
         \A a \in Agents : rhead[a] < tail[a] => rhead[a] < tail'[a],
         \A a \in Agents : NumberedAsStored(a) => NumberedAsStored(a)'
  PROVE  OrderInv'
BY DEF OrderInv, CursorIsAhead, ReturnedInOrder, readerVars

LEMMA OrderSend ==
  ASSUME TypeOK, OrderInv, NEW t \in Threads, SendStep(t)
  PROVE  OrderInv'
<1> USE DEF inboxVars, clearVars
<1>1. /\ UNCHANGED <<head, deleted>> /\ UNCHANGED readerVars
      /\ \A a \in Agents : head[a] \in Int /\ tail[a] \in Int /\ rhead[a] \in Int
  BY DEF SendStep, SendSeq, SendHSet, SendExpire, TypeOK, InboxTypes, ReaderTypes
<1>2. ASSUME NEW b \in Agents PROVE tail'[b] = tail[b] \/ tail'[b] = tail[b] + 1
  BY DEF SendStep, SendSeq, NextSeq, SendHSet, SendExpire, TypeOK, InboxTypes
<1>3. ASSUME NEW b \in Agents, NumberedAsStored(b) PROVE NumberedAsStored(b)'
  <2>1. CASE SendHSet(t)
    <3>1. \A s \in Seqs : msgs'[b][s] = msgs[b][s] \/ (s = seq[t] /\ msgs'[b][s].seq = seq[t])
      BY <2>1 DEF SendHSet, TypeOK, InboxTypes, SenderTypes
    <3> QED
      BY <1>3, <3>1 DEF NumberedAsStored
  <2>2. CASE ~SendHSet(t)
    <3>1. UNCHANGED msgs
      BY <2>2 DEF SendStep, SendSeq, SendExpire
    <3> QED
      BY <1>3, <3>1 DEF NumberedAsStored
  <2> QED
    BY <2>1, <2>2
<1>4. \A b \in Agents : head[b] <= tail[b] => head[b] <= tail'[b]
  BY <1>1, <1>2
<1>5. \A b \in Agents : rhead[b] < tail[b] => rhead[b] < tail'[b]
  BY <1>1, <1>2
<1> QED
  BY <1>1, <1>3, <1>4, <1>5, OrderFrame

\* The poller: it copies the cursor, reads below the tail, moves the cursor
\* past the payload in hand and returns that payload last.
LEMMA OrderRead ==
  ASSUME TypeOK, RawWhileActing, OrderInv, "ack" \notin Faults,
         NEW a \in Agents, ReadStep(a) \/ PollFails(a) \/ ReaderCrash(a)
  PROVE  OrderInv'
<1> SUFFICES ASSUME ~deleted, NEW b \in Agents PROVE CursorIsAhead(b)' /\ NumberedAsStored(b)' /\ ReturnedInOrder(b)'
  <2>1. UNCHANGED deleted
    BY DEF ReadStep, ReadHead, ReadTail, EmptyInbox, ReadPayload, Ack, Return, PollFails, ReaderCrash, clearVars
  <2> QED
    BY <2>1 DEF OrderInv
<1> USE ConstantsAssumption DEF TypeOK, InboxTypes, ReaderTypes, inboxVars
<1>1. UNCHANGED <<tail, msgs>>
  BY DEF ReadStep, ReadHead, ReadTail, EmptyInbox, ReadPayload, Ack, Return, PollFails, ReaderCrash
<1>2. CursorIsAhead(b) /\ NumberedAsStored(b) /\ ReturnedInOrder(b)
  BY DEF OrderInv
<1>3. /\ b # a => rpc'[b] = rpc[b] /\ rhead'[b] = rhead[b] /\ raw'[b] = raw[b] /\ got'[b] = got[b] /\ head'[b] = head[b]
      /\ NumberedAsStored(b)'
  BY <1>1, <1>2 DEF NumberedAsStored, ReadStep, ReadHead, ReadTail, EmptyInbox, ReadPayload, Ack, Return, PollFails,
     ReaderCrash, Leave
<1>4. CASE b # a
  BY <1>1, <1>2, <1>3, <1>4 DEF CursorIsAhead, ReturnedInOrder
<1> SUFFICES ASSUME b = a PROVE CursorIsAhead(a)' /\ ReturnedInOrder(a)'
  BY <1>3, <1>4
<1>5. /\ head[a] \in Int /\ tail[a] \in Int /\ rhead[a] \in Int /\ got[a] \in Seq(Payload) /\ Len(got[a]) \in Nat
      /\ \A i \in 1 .. Len(got[a]) : got[a][i].seq \in Int
  <2>1. \A p \in Payload : p.seq \in Int
    BY DEF Payload, Seqs, FallbackSeq
  <2>2. got[a] \in Seq(Payload)
    OBVIOUS
  <2>3. \A i \in 1 .. Len(got[a]) : got[a][i] \in Payload
    BY <2>2
  <2> QED
    BY <2>1, <2>2, <2>3
<1>6. CASE Leave(a) /\ UNCHANGED <<head, got>>
  <2>1. rpc'[a] = "idle" /\ raw'[a] = None
    BY <1>6 DEF Leave
  <2> QED
    BY <1>1, <1>2, <1>6, <2>1 DEF CursorIsAhead, ReturnedInOrder
<1>7. CASE ReadHead(a)
  <2>1. rpc'[a] = "tail" /\ rhead'[a] = head[a] /\ UNCHANGED <<head, got, raw>> /\ raw[a] = None
    BY <1>7 DEF ReadHead, RawWhileActing
  <2> QED
    BY <1>1, <1>2, <2>1 DEF CursorIsAhead, ReturnedInOrder
<1>8. CASE ReadTail(a)
  <2>1. /\ UNCHANGED <<head, got, raw, rhead>> /\ rpc[a] = "tail"
        /\ rpc'[a] = "empty" \/ (rpc'[a] = "payload" /\ rhead[a] < tail[a])
    BY <1>5, <1>8 DEF ReadTail
  <2> QED
    BY <1>1, <1>2, <2>1 DEF CursorIsAhead, ReturnedInOrder
<1>9. CASE EmptyInbox(a) /\ ~Leave(a)
  <2>1. UNCHANGED <<head, got, raw, rhead>> /\ rpc[a] = "empty" /\ rpc'[a] = "tail"
    BY <1>9 DEF EmptyInbox
  <2> QED
    BY <1>1, <1>2, <2>1 DEF CursorIsAhead, ReturnedInOrder
<1>10. CASE ReadPayload(a) /\ ~Leave(a)
  <2>1. /\ UNCHANGED <<head, got, rhead>> /\ rpc[a] = "payload" /\ rpc'[a] = "ack"
        /\ raw'[a] = msgs[a][rhead[a] + 1] /\ msgs[a][rhead[a] + 1] # None
    BY <1>10 DEF ReadPayload
  <2>2. rhead[a] + 1 \in Seqs
    BY <1>5, <2>1 DEF Seqs, FallbackSeq
  <2>3. raw'[a].seq = rhead[a] + 1
    BY <1>2, <2>1, <2>2 DEF NumberedAsStored
  <2> QED
    BY <1>1, <1>2, <2>1, <2>3 DEF CursorIsAhead, ReturnedInOrder
<1>11. CASE Ack(a)
  <2>1. UNCHANGED <<got, rhead, raw>> /\ rpc[a] = "ack" /\ rpc'[a] = "return" /\ head'[a] = rhead[a] + 1
    BY <1>11 DEF Ack
  <2>2. \A i \in 1 .. Len(got[a]) : got[a][i].seq <= head'[a] /\ got[a][i].seq <= rhead[a]
    BY <1>2, <1>5, <2>1 DEF CursorIsAhead
  <2>3. head'[a] <= tail[a]
    BY <1>2, <1>5, <2>1 DEF CursorIsAhead
  <2>4. raw[a] # None => raw[a].seq = rhead[a] + 1
    BY <1>2 DEF CursorIsAhead
  <2> QED
    BY <1>1, <1>2, <2>1, <2>2, <2>3, <2>4 DEF CursorIsAhead, ReturnedInOrder
<1>12. CASE Return(a)
  <2>1. /\ UNCHANGED head /\ rpc[a] = "return" /\ rpc'[a] = "idle" /\ raw'[a] = None
        /\ raw[a] # None /\ raw[a] \in Payload /\ got'[a] = Append(got[a], raw[a])
    BY <1>12 DEF Return, Leave, RawWhileActing
  <2>2. /\ Len(got'[a]) = Len(got[a]) + 1
        /\ \A i \in 1 .. Len(got[a]) : got'[a][i] = got[a][i]
        /\ got'[a][Len(got[a]) + 1] = raw[a]
    BY <1>5, <2>1
  <2>3. raw[a].seq = rhead[a] + 1 /\ head[a] = rhead[a] + 1
    BY <1>2, <2>1 DEF CursorIsAhead
  <2>4. \A i \in 1 .. Len(got[a]) : got[a][i].seq <= rhead[a] /\ got[a][i].seq <= head[a]
    BY <1>2, <2>1 DEF CursorIsAhead
  <2>5. \A i \in 1 .. Len(got'[a]) : got'[a][i].seq <= head[a]
    <3> SUFFICES ASSUME NEW i \in 1 .. Len(got'[a]) PROVE got'[a][i].seq <= head[a]
      OBVIOUS
    <3>1. CASE i \in 1 .. Len(got[a])
      BY <2>2, <2>4, <3>1
    <3>2. CASE i = Len(got[a]) + 1
      BY <1>5, <2>2, <2>3, <3>2
    <3> QED
      BY <1>5, <2>2, <3>1, <3>2
  <2>6. ReturnedInOrder(a)'
    <3> SUFFICES ASSUME NEW i \in 1 .. Len(got'[a]), NEW j \in 1 .. Len(got'[a]), i < j
                 PROVE  got'[a][i].seq < got'[a][j].seq
      BY DEF ReturnedInOrder
    <3>1. i \in 1 .. Len(got[a])
      BY <1>5, <2>2
    <3>2. CASE j \in 1 .. Len(got[a])
      BY <1>2, <2>2, <3>1, <3>2 DEF ReturnedInOrder
    <3>3. CASE j = Len(got[a]) + 1
      <4>1. got'[a][i].seq <= rhead[a] /\ got'[a][j].seq = rhead[a] + 1 /\ got'[a][i].seq \in Int
        BY <1>5, <2>2, <2>3, <2>4, <3>1, <3>3
      <4> QED
        BY <1>5, <4>1, SMTT(30)
    <3> QED
      BY <1>5, <2>2, <3>2, <3>3
  <2> QED
    BY <1>1, <1>2, <2>1, <2>5, <2>6 DEF CursorIsAhead
<1> QED
  BY <1>6, <1>7, <1>8, <1>9, <1>10, <1>11, <1>12
  DEF ReadStep, EmptyInbox, ReadPayload, PollFails, ReaderCrash

\* Every step keeps the order, unless the write of __head__ can fail.
LEMMA OrderStep ==
  ASSUME "ack" \notin Faults
  PROVE  TypeOK /\ RawWhileActing /\ OrderInv /\ [Next]_vars => OrderInv'
<1> SUFFICES ASSUME TypeOK, RawWhileActing, OrderInv, [Next]_vars PROVE OrderInv'
  OBVIOUS
<1>1. ASSUME UNCHANGED <<head, tail, msgs, deleted>>, UNCHANGED readerVars PROVE OrderInv'
  BY <1>1, OrderFrame DEF NumberedAsStored
<1>2. ASSUME deleted' = TRUE PROVE OrderInv'
  BY <1>2 DEF OrderInv
<1> QED
  BY <1>1, <1>2, OrderSend, OrderRead
  DEF Next, vars, inboxVars, clearVars, Send, Broadcast, Begin, SendFails, SenderCrash, Heartbeat, Expired,
      ClearScan, ClearDelete, Emptied

\* While no hash is deleted in use, messages are returned in the order of their
\* numbers and the head never overtakes the tail, for any number of agents,
\* threads and messages, whatever crashes, failed commands and fallback numbers
\* happen, as long as _ack's write of __head__ does not fail.
THEOREM ReceiveInOrder ==
  ASSUME "ack" \notin Faults
  PROVE  Spec => []InOrder
<1>1. Init => OrderInv
  BY DEF Init, OrderInv, CursorIsAhead, NumberedAsStored, ReturnedInOrder, NoPayloads
<1>2. TypeOK /\ RawWhileActing /\ OrderInv /\ [Next]_vars => OrderInv'
  BY OrderStep
<1>3. OnceInv => RawWhileActing
  BY DEF OnceInv
<1>4. OrderInv => InOrder
  BY DEF OrderInv, CursorIsAhead, ReturnedInOrder, InOrder
<1> QED
  BY <1>1, <1>2, <1>3, <1>4, TypeCorrect, OnceInvariant, PTL DEF Spec

-----------------------------------------------------------------------------
(* Nothing stranded, nothing kept for ever                                   *)

\* A number handed out stays filled or in hand: only Send's own failure or
\* death can leave a hole, and a deletion takes the tail along.
LEMMA FilledStep ==
  ASSUME "hset" \notin Faults, "crash" \notin Faults
  PROVE  TypeOK /\ FilledInv /\ [Next]_vars => FilledInv'
<1> SUFFICES ASSUME TypeOK, FilledInv, [Next]_vars,
                    NEW a \in Agents, NEW s \in 1 .. MaxSeq, s <= tail'[a], msgs'[a][s] = None
             PROVE  \E t \in Threads : spc'[t] = "hset" /\ target'[t] = a /\ seq'[t] = s
  BY DEF FilledInv
<1> USE ConstantsAssumption DEF TypeOK, InboxTypes, SenderTypes, inboxVars, senderVars
<1>0. s \in Seqs /\ tail[a] \in Int
  BY DEF Seqs, FallbackSeq
<1>1. ASSUME NEW t \in Threads, NEW b \in Agents, SendSeq(t, b)
      PROVE  \E u \in Threads : spc'[u] = "hset" /\ target'[u] = a /\ seq'[u] = s
  <2>1. /\ msgs' = msgs /\ spc[t] = "seq" /\ spc'[t] = "hset" /\ target'[t] = b
        /\ \A u \in Threads \ {t} : spc'[u] = spc[u] /\ target'[u] = target[u] /\ seq'[u] = seq[u]
    BY <1>1 DEF SendSeq, NextSeq
  <2>2. CASE s <= tail[a]
    <3>1. PICK u \in Threads : spc[u] = "hset" /\ target[u] = a /\ seq[u] = s
      BY <2>1, <2>2 DEF FilledInv
    <3> QED
      BY <2>1, <3>1
  <2>3. CASE ~(s <= tail[a])
    <3>1. a = b /\ tail'[a] = tail[a] + 1 /\ seq'[t] = tail[a] + 1
      BY <1>0, <1>1, <2>3 DEF SendSeq, NextSeq
    <3>2. seq'[t] = s
      BY <1>0, <2>3, <3>1
    <3> QED
      BY <2>1, <3>1, <3>2
  <2> QED
    BY <2>2, <2>3
<1>2. ASSUME NEW t \in Threads, SendHSet(t)
      PROVE  \E u \in Threads : spc'[u] = "hset" /\ target'[u] = a /\ seq'[u] = s
  <2>1. /\ tail' = tail /\ target' = target /\ seq' = seq
        /\ \A u \in Threads \ {t} : spc'[u] = spc[u]
    BY <1>2 DEF SendHSet
  <2>2. [from |-> t, n |-> count[t], seq |-> seq[t]] \in Payload
    BY DEF Payload
  <2>3. msgs[a][s] = None /\ ~(target[t] = a /\ seq[t] = s)
    BY <1>0, <1>2, <2>2 DEF SendHSet
  <2>4. PICK u \in Threads : spc[u] = "hset" /\ target[u] = a /\ seq[u] = s
    BY <2>1, <2>3 DEF FilledInv
  <2> QED
    BY <2>1, <2>3, <2>4
<1>3. ASSUME UNCHANGED <<tail, msgs, target, seq>>, \A t \in Threads : spc[t] = "hset" => spc'[t] = "hset"
      PROVE  \E u \in Threads : spc'[u] = "hset" /\ target'[u] = a /\ seq'[u] = s
  BY <1>3 DEF FilledInv
<1>4. ASSUME NEW t \in Threads, NEW targets, Begin(t, targets)
      PROVE  \E u \in Threads : spc'[u] = "hset" /\ target'[u] = a /\ seq'[u] = s
  BY <1>3, <1>4 DEF Begin
<1>5. ASSUME NEW t \in Threads, SendExpire(t) \/ SendFails(t) \/ SenderCrash(t)
      PROVE  \E u \in Threads : spc'[u] = "hset" /\ target'[u] = a /\ seq'[u] = s
  BY <1>3, <1>5 DEF SendExpire, SendFails, SenderCrash, Advance
<1>6. ASSUME NEW dead, Emptied(dead), UNCHANGED senderVars
      PROVE  \E u \in Threads : spc'[u] = "hset" /\ target'[u] = a /\ seq'[u] = s
  <2>1. a \notin dead
    BY <1>6 DEF Emptied
  <2>2. tail'[a] = tail[a] /\ msgs'[a] = msgs[a]
    BY <1>6, <2>1 DEF Emptied
  <2> QED
    BY <1>6, <2>2 DEF FilledInv
<1>7. ASSUME UNCHANGED <<tail, msgs>>, UNCHANGED senderVars
      PROVE  \E u \in Threads : spc'[u] = "hset" /\ target'[u] = a /\ seq'[u] = s
  BY <1>3, <1>7
<1> QED
  BY <1>1, <1>2, <1>4, <1>5, <1>6, <1>7
  DEF Next, vars, SendStep, Send, Broadcast, ReadStep, ReadHead, ReadTail, EmptyInbox, ReadPayload, Ack, Return,
      PollFails, ReaderCrash, Heartbeat, Expired, ClearScan, ClearDelete

\* The poller is never parked before a number nobody is about to fill, for any
\* number of agents and threads, whatever else fails, expires or is cleared, as
\* long as no Send dies or loses its HSET.
THEOREM NeverStranded ==
  ASSUME "hset" \notin Faults, "crash" \notin Faults
  PROVE  Spec => []NoStrandedInbox
<1>1. Init => FilledInv
  BY ConstantsAssumption DEF Init, FilledInv
<1>2. TypeOK /\ FilledInv /\ [Next]_vars => FilledInv'
  BY FilledStep
<1>3. TypeOK /\ FilledInv => NoStrandedInbox
  <2> SUFFICES ASSUME TypeOK, FilledInv, NEW a \in Agents, head[a] < tail[a], msgs[a][head[a] + 1] = None
               PROVE  \E t \in Threads : spc[t] = "hset" /\ target[t] = a /\ seq[t] = head[a] + 1
    BY DEF NoStrandedInbox
  <2>1. head[a] + 1 \in 1 .. MaxSeq /\ head[a] + 1 <= tail[a]
    BY ConstantsAssumption DEF TypeOK, InboxTypes
  <2> QED
    BY <2>1 DEF FilledInv
<1> QED
  BY <1>1, <1>2, <1>3, TypeCorrect, PTL DEF Spec

\* A hash is without a TTL only while the Send or the ack that made it so is
\* about to set one.
LEMMA ExpiresStep ==
  ASSUME "hset" \notin Faults, "expire" \notin Faults, "crash" \notin Faults
  PROVE  TypeOK /\ InboxExpires /\ [Next]_vars => InboxExpires'
<1> SUFFICES ASSUME TypeOK, InboxExpires, [Next]_vars, NEW a \in Agents, Exists(a)', ~ttl'[a]
             PROVE  rpc'[a] = "return" \/ \E t \in Threads : spc'[t] \in {"hset", "expire"} /\ target'[t] = a
  BY DEF InboxExpires
<1> DEFINE Goal == rpc'[a] = "return" \/ \E t \in Threads : spc'[t] \in {"hset", "expire"} /\ target'[t] = a
<1> USE DEF inboxVars, senderVars, readerVars
<1>0. InboxTypes /\ SenderTypes /\ ReaderTypes
  BY DEF TypeOK
<1>1. ASSUME NEW t \in Threads, NEW b \in Agents, SendSeq(t, b) PROVE Goal
  <2>1. /\ spc[t] = "seq" /\ spc'[t] = "hset" /\ target'[t] = b /\ UNCHANGED <<head, msgs, ttl, rpc>>
        /\ \A u \in Threads \ {t} : spc'[u] = spc[u] /\ target'[u] = target[u]
    BY <1>0, <1>1 DEF SendSeq, SenderTypes
  <2>2. CASE b = a
    BY <2>1, <2>2
  <2>3. CASE b # a
    <3>1. tail'[a] = tail[a]
      BY <1>0, <1>1, <2>3 DEF SendSeq, NextSeq, InboxTypes
    <3>2. Exists(a) /\ ~ttl[a]
      BY <2>1, <3>1 DEF Exists
    <3> QED
      BY <2>1, <3>2 DEF InboxExpires
  <2> QED
    BY <2>2, <2>3
<1>2. ASSUME NEW t \in Threads, SendHSet(t) PROVE Goal
  <2>1. /\ spc[t] = "hset" /\ spc'[t] = "expire" /\ UNCHANGED <<head, tail, target, ttl, rpc>>
        /\ \A u \in Threads \ {t} : spc'[u] = spc[u]
    BY <1>0, <1>2 DEF SendHSet, SenderTypes
  <2>2. CASE target[t] = a
    BY <2>1, <2>2
  <2>3. CASE target[t] # a
    <3>1. msgs'[a] = msgs[a]
      BY <1>0, <1>2, <2>3 DEF SendHSet, InboxTypes
    <3>2. Exists(a) /\ ~ttl[a]
      BY <2>1, <3>1 DEF Exists
    <3> QED
      BY <2>1, <3>2 DEF InboxExpires
  <2> QED
    BY <2>2, <2>3
<1>3. ASSUME NEW t \in Threads, SendExpire(t) PROVE Goal
  <2>1. /\ spc[t] = "expire" /\ UNCHANGED <<head, tail, msgs, target, rpc>>
        /\ \A u \in Threads \ {t} : spc'[u] = spc[u]
    BY <1>0, <1>3 DEF SendExpire, Advance, SenderTypes
  <2>2. Exists(a)
    BY <2>1 DEF Exists
  <2>3. target[t] # a
    BY <1>0, <1>3, <2>2 DEF SendExpire, InboxTypes
  <2>4. ~ttl[a]
    BY <1>0, <1>3, <2>3 DEF SendExpire, InboxTypes
  <2> QED
    BY <2>1, <2>2, <2>3, <2>4 DEF InboxExpires
<1>4. ASSUME UNCHANGED <<head, tail, msgs, ttl>>, UNCHANGED target, rpc[a] = "return" => rpc'[a] = "return",
             \A t \in Threads : spc[t] \in {"hset", "expire"} => spc'[t] = spc[t]
      PROVE  Goal
  <2>1. Exists(a) /\ ~ttl[a]
    BY <1>4 DEF Exists
  <2> QED
    BY <1>4, <2>1 DEF InboxExpires
<1>5. ASSUME NEW t \in Threads, NEW targets, Begin(t, targets) PROVE Goal
  BY <1>0, <1>4, <1>5 DEF Begin, SenderTypes
<1>6. ASSUME NEW b \in Agents, ReadHead(b) \/ ReadTail(b) \/ EmptyInbox(b) \/ ReadPayload(b) \/ PollFails(b) PROVE Goal
  <2>1. rpc[a] = "return" => rpc'[a] = "return"
    BY <1>0, <1>6 DEF ReadHead, ReadTail, EmptyInbox, ReadPayload, PollFails, Leave, ReaderTypes
  <2> QED
    BY <1>4, <1>6, <2>1 DEF ReadHead, ReadTail, EmptyInbox, ReadPayload, PollFails
<1>7. ASSUME NEW b \in Agents, Ack(b) PROVE Goal
  <2>1. CASE rpc'[a] = "return"
    BY <2>1
  <2>2. CASE rpc'[a] # "return"
    <3>1. head'[a] = head[a] /\ rpc[a] # "return" /\ UNCHANGED <<tail, msgs, ttl, spc, target>>
      BY <1>0, <1>7, <2>2 DEF Ack, ReaderTypes, InboxTypes
    <3>2. Exists(a) /\ ~ttl[a]
      BY <3>1 DEF Exists
    <3> QED
      BY <3>1, <3>2 DEF InboxExpires
  <2> QED
    BY <2>1, <2>2
<1>8. ASSUME NEW b \in Agents, Return(b) PROVE Goal
  <2>1. UNCHANGED <<head, tail, msgs, spc, target>> /\ \A c \in Agents \ {b} : rpc'[c] = rpc[c]
    BY <1>0, <1>8 DEF Return, Leave, ReaderTypes
  <2>2. Exists(a)
    BY <2>1 DEF Exists
  <2>3. CASE rpc[b] = "return"
    <3>1. a # b /\ ttl'[a] = ttl[a]
      BY <1>0, <1>8, <2>2, <2>3 DEF Return, InboxTypes
    <3> QED
      BY <2>1, <2>2, <3>1 DEF InboxExpires
  <2>4. CASE rpc[b] = "unacked"
    <3>1. ttl' = ttl
      BY <1>8, <2>4 DEF Return
    <3> QED
      BY <2>1, <2>2, <2>4, <3>1 DEF InboxExpires
  <2> QED
    BY <1>8, <2>3, <2>4 DEF Return
<1>9. ASSUME NEW b \in Agents, Heartbeat(b) PROVE Goal
  <2>1. UNCHANGED <<head, tail, msgs, spc, target, rpc>>
    BY <1>9 DEF Heartbeat
  <2>2. Exists(a) /\ ~ttl[a]
    BY <1>0, <1>9, <2>1 DEF Heartbeat, InboxTypes, Exists
  <2> QED
    BY <2>1, <2>2 DEF InboxExpires
<1>10. ASSUME NEW dead, Emptied(dead), UNCHANGED senderVars, UNCHANGED readerVars PROVE Goal
  <2>1. CASE a \in dead
    <3>1. head'[a] = 0 /\ tail'[a] = 0 /\ msgs'[a] = NoPayloads
      BY <1>10, <2>1 DEF Emptied
    <3>2. ~Exists(a)'
      BY <3>1 DEF Exists, NoPayloads
    <3> QED
      BY <3>2
  <2>2. CASE a \notin dead
    <3>1. head'[a] = head[a] /\ tail'[a] = tail[a] /\ msgs'[a] = msgs[a] /\ ttl'[a] = ttl[a]
      BY <1>10, <2>2 DEF Emptied
    <3>2. Exists(a) /\ ~ttl[a]
      BY <3>1 DEF Exists
    <3> QED
      BY <1>10, <3>2 DEF InboxExpires
  <2> QED
    BY <2>1, <2>2
<1>11. ASSUME UNCHANGED inboxVars, UNCHANGED senderVars, UNCHANGED readerVars PROVE Goal
  BY <1>4, <1>11
<1> QED
  BY <1>1, <1>2, <1>3, <1>5, <1>6, <1>7, <1>8, <1>9, <1>10, <1>11
  DEF Next, vars, SendStep, ReadStep, Send, Broadcast, SendFails, SenderCrash, ReaderCrash, Expired, ClearScan,
      ClearDelete

\* No inbox is left behind without a TTL, for any number of agents and threads,
\* whatever else fails, expires or is cleared, as long as no process dies in
\* the middle and no HSET or EXPIRE fails.
THEOREM InboxesExpire ==
  ASSUME "hset" \notin Faults, "expire" \notin Faults, "crash" \notin Faults
  PROVE  Spec => []InboxExpires
<1>1. Init => InboxExpires
  BY DEF Init, InboxExpires, Exists, NoPayloads
<1>2. TypeOK /\ InboxExpires /\ [Next]_vars => InboxExpires'
  BY ExpiresStep
<1> QED
  BY <1>1, <1>2, TypeCorrect, PTL DEF Spec
=============================================================================
