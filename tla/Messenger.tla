------------------------------ MODULE Messenger ------------------------------
(****************************************************************************)
(* The per-agent inbox of scarlets.messaging.Messenger.                      *)
(*                                                                           *)
(* An inbox is ONE Redis hash per recipient: a __head__ field (read cursor), *)
(* a __tail__ field (write cursor) and one field per sequence number.  An    *)
(* absent field reads as 0 (cursors) or None (payloads), so the absent hash  *)
(* is the one with both cursors 0 and no payload.                            *)
(*                                                                           *)
(* Every Redis command is one atomic step; Send and Receive are several, and *)
(* the steps of different threads interleave.  Exactly one thread polls an   *)
(* inbox (MessageRouter is the sole caller of Receive).  A payload is known  *)
(* by the sending thread and the ordinal of that thread's call.              *)
(****************************************************************************)
EXTENDS Integers, Sequences, FiniteSets

CONSTANTS
    Agents,     \* agentIds with an inbox on this bus
    Threads,    \* threads that call Send or Broadcast
    MaxSends,   \* bound: calls of Send/Broadcast per thread
    MaxSeq,     \* bound: sequence numbers an inbox hands out
    Faults,     \* which failures may happen (a subset of AllFaults)
    None        \* what HGET answers for an absent payload

AllFaults == {
    "seq",      \* HINCRBY raises: _nextSeq falls back to a millisecond timestamp
    "hset",     \* HSET of the payload raises: Send logs and returns
    "expire",   \* EXPIRE after the HSET (or after the ack) raises
    "ack",      \* HSET of __head__ raises inside _ack
    "poll",     \* a read of _pollInbox raises: it returns None
    "crash",    \* a sending or receiving process dies between two commands
    "ttl",      \* a TTL runs out (owner silent, or SCARLET_DATA_EXPIRY too low)
    "clear" }   \* somebody calls clearAll while the bus is in use

\* int(time.time() * 1000): far above every number HINCRBY hands out.
FallbackSeq == MaxSeq + 1
Seqs        == 1 .. FallbackSeq
Payload     == [from : Threads, n : 0 .. MaxSends, seq : Seqs]
NoPayloads  == [s \in Seqs |-> None]

ASSUME ConstantsAssumption ==
    /\ MaxSends \in Nat
    /\ MaxSeq \in Nat
    /\ Faults \subseteq AllFaults
    /\ Agents # {}
    /\ None \notin Payload

VARIABLES
    head, tail, msgs,               \* the hashes: cursors and payload fields
    ttl,                            \* whether the hash carries a TTL
    spc, todo, target, seq, count,  \* a sending thread: where it is in Send
    rpc, rhead, raw,                \* the polling thread: its locals in _pollInbox
    cpc, doomed,                    \* clearAll: the keys its SCAN returned
    deleted,                        \* history: some hash was deleted in use
    got                             \* history: what Receive returned, per agent

inboxVars  == <<head, tail, msgs, ttl>>
senderVars == <<spc, todo, target, seq, count>>
readerVars == <<rpc, rhead, raw, got>>
clearVars  == <<cpc, doomed, deleted>>
vars       == <<inboxVars, senderVars, readerVars, clearVars>>

\* The Redis key exists: a hash with at least one field.
Exists(a) == head[a] # 0 \/ tail[a] # 0 \/ \E s \in Seqs : msgs[a][s] # None

Init ==
    /\ head   = [a \in Agents |-> 0]
    /\ tail   = [a \in Agents |-> 0]
    /\ msgs   = [a \in Agents |-> NoPayloads]
    /\ ttl    = [a \in Agents |-> FALSE]
    /\ spc    = [t \in Threads |-> "idle"]
    /\ todo   = [t \in Threads |-> {}]
    /\ target = [t \in Threads |-> CHOOSE a \in Agents : TRUE]
    /\ seq    = [t \in Threads |-> FallbackSeq]
    /\ count  = [t \in Threads |-> 0]
    /\ rpc    = [a \in Agents |-> "idle"]
    /\ rhead  = [a \in Agents |-> 0]
    /\ raw    = [a \in Agents |-> None]
    /\ cpc    = "idle"
    /\ doomed = {}
    /\ deleted = FALSE
    /\ got    = [a \in Agents |-> <<>>]

-----------------------------------------------------------------------------
(* Sending                                                                   *)

Begin(t, targets) ==
    /\ spc[t] = "idle"
    /\ count[t] < MaxSends
    /\ count' = [count EXCEPT ![t] = @ + 1]
    /\ todo'  = [todo EXCEPT ![t] = targets]
    /\ spc'   = [spc EXCEPT ![t] = "seq"]
    /\ UNCHANGED <<target, seq, inboxVars, readerVars, clearVars>>

\* Send(targetAgentId, message)
Send(t, a) == Begin(t, {a})

\* Broadcast(message): one Send per agent of the registry snapshot GatherStatus
\* returned, the caller excepted; nothing at all when the snapshot is empty.
Broadcast(t, snapshot) == snapshot # {} /\ Begin(t, snapshot)

\* One Send is over (or its exception was logged): Broadcast goes on.
Advance(t) == spc' = [spc EXCEPT ![t] = IF todo[t] = {} THEN "idle" ELSE "seq"]

\* What _nextSeq returns: an atomic HINCRBY, or the timestamp fallback.
NextSeq_NotAtomic(t, a) ==
    /\ tail' = [tail EXCEPT ![a] = @ + 1]
    /\ seq'  = [seq EXCEPT ![t] = IF tail[a] = 0 THEN 1 ELSE tail[a]]

NextSeq(t, a) ==
    \/ /\ tail[a] < MaxSeq
       /\ tail' = [tail EXCEPT ![a] = @ + 1]
       /\ seq'  = [seq EXCEPT ![t] = tail[a] + 1]
    \/ /\ "seq" \in Faults
       /\ seq' = [seq EXCEPT ![t] = FallbackSeq]
       /\ UNCHANGED tail

SendSeq(t, a) ==
    /\ spc[t] = "seq"
    /\ a \in todo[t]
    /\ NextSeq(t, a)
    /\ todo'   = [todo EXCEPT ![t] = @ \ {a}]
    /\ target' = [target EXCEPT ![t] = a]
    /\ spc'    = [spc EXCEPT ![t] = "hset"]
    /\ UNCHANGED <<count, head, msgs, ttl, readerVars, clearVars>>

SendHSet_NoExpire(t) ==
    /\ spc[t] = "hset"
    /\ msgs' = [msgs EXCEPT ![target[t]][seq[t]] = [from |-> t, n |-> count[t], seq |-> seq[t]]]
    /\ Advance(t)
    /\ UNCHANGED <<todo, target, seq, count, head, tail, ttl, readerVars, clearVars>>

SendHSet(t) ==
    /\ spc[t] = "hset"
    /\ msgs' = [msgs EXCEPT ![target[t]][seq[t]] = [from |-> t, n |-> count[t], seq |-> seq[t]]]
    /\ spc'  = [spc EXCEPT ![t] = "expire"]
    /\ UNCHANGED <<todo, target, seq, count, head, tail, ttl, readerVars, clearVars>>

\* EXPIRE renews an existing key and is a no-op on an absent one.
SendExpire(t) ==
    /\ spc[t] = "expire"
    /\ ttl' = [ttl EXCEPT ![target[t]] = Exists(target[t])]
    /\ Advance(t)
    /\ UNCHANGED <<todo, target, seq, count, head, tail, msgs, readerVars, clearVars>>

\* The HSET or the EXPIRE raised: Send logs "Send failed" and returns normally.
SendFails(t) ==
    /\ \/ spc[t] = "hset"   /\ "hset" \in Faults
       \/ spc[t] = "expire" /\ "expire" \in Faults
    /\ Advance(t)
    /\ UNCHANGED <<todo, target, seq, count, inboxVars, readerVars, clearVars>>

\* The sending process dies; a later call is a call of its restarted self.
SenderCrash(t) ==
    /\ "crash" \in Faults
    /\ spc[t] # "idle"
    /\ spc'  = [spc EXCEPT ![t] = "idle"]
    /\ todo' = [todo EXCEPT ![t] = {}]
    /\ UNCHANGED <<target, seq, count, inboxVars, readerVars, clearVars>>

-----------------------------------------------------------------------------
(* Receiving: _pollInbox on the router's polling thread                      *)

\* _pollInbox returns (or its process is gone): its locals go out of scope.
Leave(a) ==
    /\ rpc'   = [rpc EXCEPT ![a] = "idle"]
    /\ rhead' = [rhead EXCEPT ![a] = 0]
    /\ raw'   = [raw EXCEPT ![a] = None]

\* head = HGET __head__
ReadHead(a) ==
    /\ rpc[a] = "idle"
    /\ rhead' = [rhead EXCEPT ![a] = head[a]]
    /\ rpc'   = [rpc EXCEPT ![a] = "tail"]
    /\ UNCHANGED <<raw, got, inboxVars, senderVars, clearVars>>

\* tail = HGET __tail__; repeated every 100 ms while head >= tail
ReadTail(a) ==
    /\ rpc[a] = "tail"
    /\ rpc'   = [rpc EXCEPT ![a] = IF rhead[a] >= tail[a] THEN "empty" ELSE "payload"]
    /\ UNCHANGED <<rhead, raw, got, inboxVars, senderVars, clearVars>>

\* head >= tail: the deadline has passed (return None) or the tail is read again.
EmptyInbox(a) ==
    /\ rpc[a] = "empty"
    /\ \/ Leave(a)
       \/ rpc' = [rpc EXCEPT ![a] = "tail"] /\ UNCHANGED <<rhead, raw>>
    /\ UNCHANGED <<got, inboxVars, senderVars, clearVars>>

\* HGET of field head+1.  Absent, it is retried (no change) and finally given
\* up: None is returned and the head stays where it is.
ReadPayload(a) ==
    /\ rpc[a] = "payload"
    /\ LET next == msgs[a][rhead[a] + 1] IN
          \/ /\ next # None
             /\ raw' = [raw EXCEPT ![a] = next]
             /\ rpc' = [rpc EXCEPT ![a] = "ack"]
             /\ UNCHANGED rhead
          \/ next = None /\ Leave(a)
    /\ UNCHANGED <<got, inboxVars, senderVars, clearVars>>

\* _ack: HSET __head__.  An exception is swallowed there, and _pollInbox
\* returns the payload all the same.
Ack_NoAdvance(a) ==
    /\ rpc[a] = "ack"
    /\ rpc' = [rpc EXCEPT ![a] = "return"]
    /\ UNCHANGED <<rhead, raw, got, inboxVars, senderVars, clearVars>>

Ack_OneTooFar(a) ==
    /\ rpc[a] = "ack"
    /\ head' = [head EXCEPT ![a] = rhead[a] + 2]
    /\ rpc'  = [rpc EXCEPT ![a] = "return"]
    /\ UNCHANGED <<rhead, raw, got, tail, msgs, ttl, senderVars, clearVars>>

Ack(a) ==
    /\ rpc[a] = "ack"
    /\ \/ /\ head' = [head EXCEPT ![a] = rhead[a] + 1]
          /\ rpc'  = [rpc EXCEPT ![a] = "return"]
       \/ /\ "ack" \in Faults
          /\ rpc' = [rpc EXCEPT ![a] = "unacked"]
          /\ UNCHANGED head
    /\ UNCHANGED <<rhead, raw, got, tail, msgs, ttl, senderVars, clearVars>>

\* _ack's EXPIRE (it may raise too, and is skipped after a failed HSET), then
\* the payload goes to the caller.
Return(a) ==
    /\ \/ rpc[a] = "return" /\ ttl' = [ttl EXCEPT ![a] = Exists(a)]
       \/ rpc[a] = "return" /\ "expire" \in Faults /\ UNCHANGED ttl
       \/ rpc[a] = "unacked" /\ UNCHANGED ttl
    /\ got' = [got EXCEPT ![a] = Append(@, raw[a])]
    /\ Leave(a)
    /\ UNCHANGED <<head, tail, msgs, senderVars, clearVars>>

\* A Redis read raised: _pollInbox logs and returns None.
PollFails(a) ==
    /\ "poll" \in Faults
    /\ rpc[a] \in {"tail", "empty", "payload"}
    /\ Leave(a)
    /\ UNCHANGED <<got, inboxVars, senderVars, clearVars>>

\* The receiving process dies and is restarted: its locals are gone.
ReaderCrash(a) ==
    /\ "crash" \in Faults
    /\ rpc[a] # "idle"
    /\ Leave(a)
    /\ UNCHANGED <<got, inboxVars, senderVars, clearVars>>

-----------------------------------------------------------------------------
(* Lifetime of the hash                                                      *)

Emptied(dead) ==
    /\ head' = [a \in Agents |-> IF a \in dead THEN 0 ELSE head[a]]
    /\ tail' = [a \in Agents |-> IF a \in dead THEN 0 ELSE tail[a]]
    /\ msgs' = [a \in Agents |-> IF a \in dead THEN NoPayloads ELSE msgs[a]]
    /\ ttl'  = [a \in Agents |-> IF a \in dead THEN FALSE ELSE ttl[a]]
    /\ deleted' = TRUE

\* The heartbeat of the owner renews its own inbox.
Heartbeat(a) ==
    /\ ~ttl[a]
    /\ Exists(a)
    /\ ttl' = [ttl EXCEPT ![a] = TRUE]
    /\ UNCHANGED <<head, tail, msgs, senderVars, readerVars, clearVars>>

Expired(a) ==
    /\ "ttl" \in Faults
    /\ ttl[a]
    /\ Emptied({a})
    /\ UNCHANGED <<senderVars, readerVars, cpc, doomed>>

\* clearAll: SCAN <ns>:msg:*, then DEL what the scan returned.
ClearScan ==
    /\ "clear" \in Faults
    /\ cpc = "idle"
    /\ doomed' = {a \in Agents : Exists(a)}
    /\ cpc'    = "delete"
    /\ UNCHANGED <<inboxVars, senderVars, readerVars, deleted>>

ClearDelete ==
    /\ cpc = "delete"
    /\ Emptied(doomed)
    /\ doomed' = {}
    /\ cpc'    = "idle"
    /\ UNCHANGED <<senderVars, readerVars>>

-----------------------------------------------------------------------------
SendStep(t)  == (\E a \in Agents : SendSeq(t, a)) \/ SendHSet(t) \/ SendExpire(t)
ReadStep(a)  == ReadHead(a) \/ ReadTail(a) \/ EmptyInbox(a) \/ ReadPayload(a) \/ Ack(a) \/ Return(a)

Next ==
    \/ \E t \in Threads :
          \/ \E a \in Agents : Send(t, a)
          \/ \E snapshot \in SUBSET Agents : Broadcast(t, snapshot)
          \/ SendStep(t)
          \/ SendFails(t)
          \/ SenderCrash(t)
    \/ \E a \in Agents : ReadStep(a) \/ PollFails(a) \/ ReaderCrash(a) \/ Heartbeat(a) \/ Expired(a)
    \/ ClearScan
    \/ ClearDelete

Spec == Init /\ [][Next]_vars

\* The sending thread runs on once it is in Send, and the router polls for ever.
FairSpec ==
    /\ Spec
    /\ \A t \in Threads : WF_vars(SendStep(t))
    /\ \A a \in Agents  : WF_vars(ReadStep(a))

-----------------------------------------------------------------------------
(* Properties                                                                *)

InboxTypes ==
    /\ head \in [Agents -> 0 .. MaxSeq]
    /\ tail \in [Agents -> 0 .. MaxSeq]
    /\ msgs \in [Agents -> [Seqs -> Payload \cup {None}]]
    /\ ttl  \in [Agents -> BOOLEAN]

SenderTypes ==
    /\ spc    \in [Threads -> {"idle", "seq", "hset", "expire"}]
    /\ todo   \in [Threads -> SUBSET Agents]
    /\ target \in [Threads -> Agents]
    /\ seq    \in [Threads -> Seqs]
    /\ count  \in [Threads -> 0 .. MaxSends]

ReaderTypes ==
    /\ rpc   \in [Agents -> {"idle", "tail", "empty", "payload", "ack", "return", "unacked"}]
    /\ rhead \in [Agents -> 0 .. MaxSeq]
    /\ raw   \in [Agents -> Payload \cup {None}]
    /\ got   \in [Agents -> Seq(Payload)]
    /\ \A a \in Agents :
          /\ rpc[a] \in {"payload", "ack"} => rhead[a] < MaxSeq
          /\ rpc[a] \in {"ack", "return", "unacked"} => raw[a] # None

ClearTypes == cpc \in {"idle", "delete"} /\ doomed \subseteq Agents /\ deleted \in BOOLEAN

TypeOK == InboxTypes /\ SenderTypes /\ ReaderTypes /\ ClearTypes

SameMessage(p, q) == p.from = q.from /\ p.n = q.n

\* Receive hands a message to its caller at most once: whatever crashes,
\* expiries, failed sends or clearAll happen, the single poller never returns
\* the same message twice (it may only if the write of __head__ itself fails).
AtMostOnce ==
    \A a \in Agents : \A i, j \in 1 .. Len(got[a]) :
        SameMessage(got[a][i], got[a][j]) => i = j

\* The strengthening that makes AtMostOnce inductive.  A payload that is
\* somewhere at its recipient will not be written there again; it sits under
\* one number; once returned, it is behind the cursor and behind the copy of
\* the cursor a poll in progress holds.
Written(a, p) ==
    /\ p.n <= count[p.from]
    /\ p.n = count[p.from] =>
          /\ a \notin todo[p.from]
          /\ ~(spc[p.from] = "hset" /\ target[p.from] = a)

Delivered(a, p) == \E i \in 1 .. Len(got[a]) : SameMessage(got[a][i], p)

SendsOnce   == \A t \in Threads : spc[t] = "hset" => target[t] \notin todo[t]

RawWhileActing ==
    \A a \in Agents : rpc[a] # "unacked" /\ (rpc[a] \in {"ack", "return"} <=> raw[a] # None)

NotAgain(a) ==
    /\ \A s \in Seqs : msgs[a][s] # None => Written(a, msgs[a][s])
    /\ raw[a] # None => Written(a, raw[a]) /\ ~Delivered(a, raw[a])
    /\ \A i \in 1 .. Len(got[a]) : Written(a, got[a][i])

OneNumber(a) ==
    \A r, s \in Seqs :
        msgs[a][r] # None /\ msgs[a][s] # None /\ SameMessage(msgs[a][r], msgs[a][s]) => r = s

BehindCursor(a) ==
    \A s \in Seqs : msgs[a][s] # None =>
        /\ Delivered(a, msgs[a][s]) => s <= head[a] /\ (rpc[a] # "idle" => s <= rhead[a])
        /\ raw[a] # None /\ SameMessage(msgs[a][s], raw[a]) =>
              s = rhead[a] + 1 /\ (rpc[a] = "return" => s <= head[a])

OnceInv ==
    /\ SendsOnce
    /\ RawWhileActing
    /\ \A a \in Agents : NotAgain(a) /\ OneNumber(a) /\ BehindCursor(a)
    /\ AtMostOnce

\* As long as no hash is deleted in use, messages are returned in the order of
\* their sequence numbers, so two messages of one thread arrive in the order
\* they were sent (the strict FIFO router.py relies on), and the head never
\* overtakes the tail, which is what the poller takes an empty inbox from.
InOrder ==
    ~deleted => \A a \in Agents :
        /\ head[a] <= tail[a]
        /\ \A i, j \in 1 .. Len(got[a]) : i < j => got[a][i].seq < got[a][j].seq

\* HINCRBY hands every concurrent sender a number of its own: no Send writes
\* over the payload of another while the hashes live.
NoOverwrite ==
    [][~deleted' => \A a \in Agents, s \in 1 .. MaxSeq :
          msgs[a][s] # None => msgs'[a][s] = msgs[a][s]]_vars

\* The reader is never parked before a number nobody is about to fill: if
\* field head+1 is missing below the tail, the Send that took it is under way.
\* Otherwise _pollInbox answers None for ever and later messages are stranded.
NoStrandedInbox ==
    \A a \in Agents :
        head[a] < tail[a] /\ msgs[a][head[a] + 1] = None
            => \E t \in Threads : spc[t] = "hset" /\ target[t] = a /\ seq[t] = head[a] + 1

\* No inbox outlives its traffic for ever: a hash without a TTL is one whose
\* Send or ack is about to set it.
InboxExpires ==
    \A a \in Agents : Exists(a) /\ ~ttl[a] =>
        \/ rpc[a] = "return"
        \/ \E t \in Threads : spc[t] \in {"hset", "expire"} /\ target[t] = a

\* Every Send that is begun is eventually returned by the recipient's Receive,
\* when Redis answers and nobody dies.
SentIsReceived ==
    \A t \in Threads, a \in Agents, n \in 1 .. MaxSends :
        (count[t] = n /\ a \in todo[t])
            ~> \E i \in 1 .. Len(got[a]) : got[a][i].from = t /\ got[a][i].n = n
=============================================================================
