-------------------------- MODULE QueryFeatureProofs --------------------------
(****************************************************************************)
(* Proofs about QueryFeature and the DataSources it asks, for any workers,    *)
(* holdings, sessions, pool and faults: the coordinator answers what came     *)
(* first, the registry decides who gets an answer from a data source, and     *)
(* the file of the registry agrees with it.                                   *)
(*                                                                           *)
(* The two halves share no state but a worker's query, so each has its own    *)
(* inductive invariant: DataInv for the worker, the Composer and the broker,  *)
(* SkillInv for the coordinator and its queue.                                *)
(****************************************************************************)
EXTENDS QueryFeature, FiniteSetTheorems, TLAPS

Tokens   == {"none", "live", "expired"}
Places   == {"idle", "login", "relogin", "list", "relist", "ask", "reask", "wait", "over"}
Outcomes == {"none", "ok", "query_failed", "login_failed", "unauthorized",
             "unregistered", "refused", "raised"}
Answers  == [from : Workers, status : {"ok", "error"}]

\* TypeOK, in two halves.
DataType ==
    /\ entry \in Entries /\ disk \in Entries
    /\ torn \in BOOLEAN /\ up \in BOOLEAN /\ diverged \in BOOLEAN
    /\ persist \in {"no", "open", "write"}
    /\ token \in [Workers -> Tokens]
    /\ client \in [Workers -> Places]
    /\ bearer \in [Workers -> Tokens]
    /\ outcome \in [Workers -> Outcomes]
    /\ busy \subseteq Workers /\ authorizing \subseteq Workers
    /\ backlog \in Seq(Workers)
    /\ running \subseteq Workers /\ IsFiniteSet(running) /\ Cardinality(running) <= PoolSize
    /\ granted \subseteq Workers /\ excuse \subseteq Workers

SkillType ==
    /\ holds \in Holdings
    /\ contributor \in [Workers -> {"idle", "query", "over", "raised"}]
    /\ queue \in Seq(Answers)
    /\ arrived \in Seq(Answers)
    /\ coordinator \in {"off", "top", "receive", "over"}
    /\ deadline \in BOOLEAN /\ cancelled \in BOOLEAN
    /\ result \in [from : Workers, status : {"none", "cancelled", "notfound", "ok", "error"}]

\* Whose request the Composer would grant now, whose query waits or runs, and who
\* has a result, was allowed since it asked.
Granting ==
    /\ \A w \in Workers : bearer[w] # "none" /\ up /\ w \in entry.allowed => w \in granted
    /\ \A i \in DOMAIN backlog : backlog[i] \in granted
    /\ GrantedOnly

\* A worker that has listed its sources, and has no excuse, meets a Composer that
\* knows its session and grants it the source.
Excusing(w) ==
    /\ outcome[w] # "none" => client[w] = "over"
    /\ bearer[w] # "none" => client[w] \in {"wait", "over"}
    /\ w \in authorizing => bearer[w] # "none"
    /\ client[w] = "relist" => token[w] = "live" \/ w \in excuse
    /\ client[w] \in {"ask", "reask", "wait"} /\ w \notin excuse =>
          /\ up /\ busy = {} /\ w \in entry.allowed
          /\ token[w] = "live" /\ bearer[w] \in {"none", "live"}
    /\ outcome[w] \in {"unauthorized", "refused"} => w \in excuse

\* What is being written is what the memory holds.
Filed ==
    /\ DiskAgrees
    /\ persist = "write" => disk = entry
    /\ ~up => persist = "no"

DataInv == Granting /\ (\A w \in Workers : Excusing(w)) /\ Filed

\* Until the coordinator returns, what arrived is what its queue holds, unless its
\* last receive_for found nothing.
Collected ==
    /\ coordinator \in {"off", "top", "receive"} /\ (~deadline \/ coordinator = "receive") =>
          arrived = queue
    /\ coordinator = "off" => ~deadline
    /\ coordinator = "top" /\ deadline => arrived = <<>>
    /\ coordinator # "over" => result = Answer(Coordinator, "none")

Returned ==
    /\ result \notin NoResult => arrived # <<>> /\ result = arrived[1]
    /\ result.status = "notfound" => arrived = <<>> /\ deadline /\ coordinator = "over"

\* Only a holder answers.
Holding ==
    /\ \A w \in Workers : contributor[w] = "query" => holds[w] = "broker"
    /\ \A i \in DOMAIN arrived : holds[arrived[i].from] \in {"local", "broker"}

SkillInv == Collected /\ Returned /\ Holding

-----------------------------------------------------------------------------
(* What the steps of DataSources have in common                              *)

USE DataSourcesAssumption

LEMMA EntryFacts ==
  /\ Unregistered \in Entries /\ Unregistered.allowed = {}
  /\ Entry(Workers) \in Entries /\ Entry(Workers).allowed = Workers
  /\ \A e \in Entries : e.allowed \subseteq Workers
<1>1. \A S \in SUBSET Workers : Entry(S) \in Entries /\ Entry(S).allowed = S
  BY DEF Entries, Entry
<1>2. Unregistered \in Entries /\ Unregistered.allowed = {}
  BY DEF Entries, Unregistered
<1>3. \A e \in Entries : e = Unregistered \/ \E S \in SUBSET Workers : e = Entry(S)
  BY DEF Entries
<1> QED
  BY <1>1, <1>2, <1>3

LEMMA GotoFacts ==
  ASSUME DataType, NEW w \in Workers, NEW where \in Places, Goto(w, where)
  PROVE  /\ client' \in [Workers -> Places]
         /\ client'[w] = where
         /\ \A x \in Workers : x # w => client'[x] = client[x]
BY DEF DataType, Goto

LEMMA EndFacts ==
  ASSUME DataType, NEW w \in Workers, NEW how \in Outcomes, End(w, how)
  PROVE  /\ client' \in [Workers -> Places] /\ client'[w] = "over"
         /\ outcome' \in [Workers -> Outcomes] /\ outcome'[w] = how
         /\ \A x \in Workers : x # w => client'[x] = client[x] /\ outcome'[x] = outcome[x]
<1>1. "over" \in Places
  BY DEF Places
<1>2. Goto(w, "over")
  BY DEF End
<1>3. /\ outcome' \in [Workers -> Outcomes] /\ outcome'[w] = how
      /\ \A x \in Workers : x # w => outcome'[x] = outcome[x]
  BY DEF End, DataType
<1> QED
  BY <1>1, <1>2, <1>3, GotoFacts

\* Reply is End for a worker that waits, and nothing for one that gave up.
LEMMA ReplyFacts ==
  ASSUME DataType, NEW w \in Workers, NEW how \in Outcomes, Reply(w, how)
  PROVE  /\ client' \in [Workers -> Places] /\ outcome' \in [Workers -> Outcomes]
         /\ \A x \in Workers : x # w => client'[x] = client[x] /\ outcome'[x] = outcome[x]
         /\ \/ client[w] = "wait" /\ client'[w] = "over" /\ outcome'[w] = how
            \/ client[w] # "wait" /\ client' = client /\ outcome' = outcome
<1>1. CASE client[w] = "wait"
  BY <1>1, EndFacts DEF Reply
<1>2. CASE client[w] # "wait"
  BY <1>2 DEF Reply, DataType
<1> QED
  BY <1>1, <1>2

\* After a step that records, who asks the broker and is allowed is granted, and
\* who is not allowed, or meets a Composer that does not serve, is excused.
LEMMA Recorded ==
  ASSUME DataType, entry' \in Entries, Record
  PROVE  /\ granted' \subseteq Workers /\ excuse' \subseteq Workers
         /\ granted \subseteq granted' /\ excuse \subseteq excuse'
         /\ \A x \in Workers :
               /\ bearer'[x] # "none" /\ up' /\ x \in entry'.allowed => x \in granted'
               /\ ~up' \/ busy' # {} \/ x \notin entry'.allowed => x \in excuse'
BY EntryFacts DEF Record, DataType

\* A step that leaves a worker alone, and does not take from it what it listed
\* unless it excuses it.
LEMMA ExcuseFrame ==
  ASSUME NEW x \in Workers, Excusing(x),
         client'[x] = client[x], outcome'[x] = outcome[x],
         bearer'[x] = bearer[x], token'[x] = token[x],
         x \in authorizing' => bearer[x] # "none",
         x \in excuse => x \in excuse',
         \/ x \in excuse'
         \/ up' = up /\ entry' = entry /\ (busy = {} => busy' = {})
  PROVE  Excusing(x)'
BY DEF Excusing

-----------------------------------------------------------------------------
(* The type of the data half                                                 *)

\* The steps of the worker, the Composer and the broker.
DataStep ==
    \/ \E w \in Workers : \/ Call(w) \/ Login(w) \/ LoginAnswer(w) \/ Unauthorized(w)
                          \/ List(w) \/ Post(w) \/ RequestRaises(w) \/ GiveUp(w)
                          \/ Receive(w) \/ Authorize(w) \/ QueryEnds(w) \/ Expire(w)
    \/ RunQuery \/ Edit \/ Persist \/ Crash \/ Restart
    \/ UNCHANGED dataVars

LEMMA DataTypeStep ==
  ASSUME DataType, DataStep
  PROVE  DataType'
<1> USE DEF dataVars, storeVars, brokerVars
<1>1. ASSUME NEW w \in Workers, Call(w)  PROVE DataType'
  <2>1. PICK where \in {"login", "list"} : Goto(w, where)
    BY <1>1 DEF Call
  <2>2. client' \in [Workers -> Places]
    BY <2>1, GotoFacts DEF Places
  <2> QED
    BY <1>1, <2>2 DEF Call, DataType
<1>2. ASSUME NEW w \in Workers, Login(w)  PROVE DataType'
  <2>1. granted' \subseteq Workers /\ excuse' \subseteq Workers
    BY <1>2, Recorded DEF Login, DataType
  <2> QED
    BY <1>2, <2>1 DEF Login, DataType
<1>3. ASSUME NEW w \in Workers, LoginAnswer(w)  PROVE DataType'
  <2>1. client' \in [Workers -> Places] /\ outcome' \in [Workers -> Outcomes]
    <3>1. CASE End(w, "login_failed")
      BY <3>1, EndFacts DEF Outcomes
    <3>2. CASE client' = client /\ outcome' = outcome
      BY <3>2 DEF DataType
    <3>3. CASE outcome' = outcome /\ \E where \in {"list", "relist"} : Goto(w, where)
      BY <3>3, GotoFacts DEF Places, DataType
    <3> QED
      BY <1>3, <3>1, <3>2, <3>3 DEF LoginAnswer
  <2>2. token' \in [Workers -> Tokens]
    BY <1>3 DEF LoginAnswer, DataType, Tokens
  <2> QED
    BY <1>3, <2>1, <2>2 DEF LoginAnswer, DataType
<1>4. ASSUME NEW w \in Workers, Unauthorized(w)  PROVE DataType'
  <2>1. client' \in [Workers -> Places] /\ outcome' \in [Workers -> Outcomes]
    <3>1. CASE End(w, "unauthorized")
      BY <3>1, EndFacts DEF Outcomes
    <3>2. CASE outcome' = outcome /\ Goto(w, "relogin")
      BY <3>2, GotoFacts DEF Places, DataType
    <3> QED
      BY <1>4, <3>1, <3>2 DEF Unauthorized
  <2> QED
    BY <1>4, <2>1 DEF Unauthorized, DataType
<1>5. ASSUME NEW w \in Workers, List(w)  PROVE DataType'
  <2>1. client' \in [Workers -> Places] /\ outcome' \in [Workers -> Outcomes]
    <3>1. CASE End(w, "unregistered")
      BY <3>1, EndFacts DEF Outcomes
    <3>2. CASE outcome' = outcome /\ \E where \in {"ask", "reask"} : Goto(w, where)
      BY <3>2, GotoFacts DEF Places, DataType
    <3> QED
      BY <1>5, <3>1, <3>2 DEF List
  <2> QED
    BY <1>5, <2>1 DEF List, DataType
<1>6. ASSUME NEW w \in Workers, Post(w)  PROVE DataType'
  <2>1. client' \in [Workers -> Places]
    BY <1>6, GotoFacts DEF Post, Places
  <2>2. bearer' \in [Workers -> Tokens]
    BY <1>6 DEF Post, DataType
  <2>3. granted' \subseteq Workers /\ excuse' \subseteq Workers
    BY <1>6, Recorded DEF Post, DataType
  <2> QED
    BY <1>6, <2>1, <2>2, <2>3 DEF Post, DataType
<1>7. ASSUME NEW w \in Workers, RequestRaises(w) \/ GiveUp(w)  PROVE DataType'
  <2>1. client' \in [Workers -> Places] /\ outcome' \in [Workers -> Outcomes]
    BY <1>7, EndFacts DEF RequestRaises, GiveUp, Outcomes
  <2> QED
    BY <1>7, <2>1 DEF RequestRaises, GiveUp, DataType
<1>8. ASSUME NEW w \in Workers, Receive(w)  PROVE DataType'
  BY <1>8 DEF Receive, DataType
<1>9. ASSUME NEW w \in Workers, Authorize(w)  PROVE DataType'
  <2>1. client' \in [Workers -> Places] /\ outcome' \in [Workers -> Outcomes]
    <3>1. CASE Reply(w, "refused")
      BY <3>1, ReplyFacts DEF Outcomes
    <3>2. CASE client' = client /\ outcome' = outcome
      BY <3>2 DEF DataType
    <3> QED
      BY <1>9, <3>1, <3>2 DEF Authorize
  <2>2. bearer' \in [Workers -> Tokens] /\ backlog' \in Seq(Workers)
    <3>1. bearer' = [bearer EXCEPT ![w] = "none"] /\ "none" \in Tokens
      BY <1>9 DEF Authorize, Tokens
    <3>2. backlog' = backlog \/ backlog' = Append(backlog, w)
      BY <1>9 DEF Authorize
    <3> QED
      BY <3>1, <3>2 DEF DataType
  <2> QED
    BY <1>9, <2>1, <2>2 DEF Authorize, DataType
<1>10. ASSUME NEW w \in Workers, QueryEnds(w)  PROVE DataType'
  <2>1. client' \in [Workers -> Places] /\ outcome' \in [Workers -> Outcomes]
    BY <1>10, ReplyFacts DEF QueryEnds, Outcomes
  <2>2. running' \subseteq Workers /\ IsFiniteSet(running') /\ Cardinality(running') <= PoolSize
    <3>1. IsFiniteSet(running \ {w}) /\ Cardinality(running \ {w}) = Cardinality(running) - 1
      BY <1>10, FS_RemoveElement DEF QueryEnds, DataType
    <3>2. Cardinality(running) \in Nat
      BY FS_CardinalityType DEF DataType
    <3> QED
      BY <1>10, <3>1, <3>2 DEF QueryEnds, DataType
  <2> QED
    BY <1>10, <2>1, <2>2 DEF QueryEnds, DataType
<1>11. ASSUME NEW w \in Workers, Expire(w)  PROVE DataType'
  <2>1. token' \in [Workers -> Tokens] /\ bearer' \in [Workers -> Tokens]
    BY <1>11 DEF Expire, DataType, Tokens
  <2> QED
    BY <1>11, <2>1 DEF Expire, DataType
<1>12. CASE RunQuery
  <2>1. Head(backlog) \in Workers /\ Tail(backlog) \in Seq(Workers)
    BY <1>12 DEF RunQuery, DataType
  <2>2. IsFiniteSet(running') /\ Cardinality(running') <= PoolSize
    <3>1. /\ IsFiniteSet(running \cup {Head(backlog)})
          /\ Cardinality(running \cup {Head(backlog)}) <= Cardinality(running) + 1
      <4>1. /\ IsFiniteSet(running \cup {Head(backlog)})
            /\ Cardinality(running \cup {Head(backlog)}) =
                 IF Head(backlog) \in running THEN Cardinality(running) ELSE Cardinality(running) + 1
        BY FS_AddElement DEF DataType
      <4>2. Cardinality(running) \in Nat
        BY FS_CardinalityType DEF DataType
      <4> QED
        BY <4>1, <4>2
    <3>2. Cardinality(running) \in Nat
      BY FS_CardinalityType DEF DataType
    <3>3. Cardinality(running \cup {Head(backlog)}) \in Nat
      BY <3>1, FS_CardinalityType
    <3> QED
      BY <1>12, <3>1, <3>2, <3>3 DEF RunQuery
  <2> QED
    BY <1>12, <2>1, <2>2 DEF RunQuery, DataType
<1>13. CASE Edit
  <2>1. entry' \in Entries
    BY <1>13 DEF Edit
  <2>2. granted' \subseteq Workers /\ excuse' \subseteq Workers
    BY <1>13, <2>1, Recorded DEF Edit
  <2> QED
    BY <1>13, <2>1, <2>2 DEF Edit, DataType
<1>14. CASE Persist
  BY <1>14 DEF Persist, DataType
<1>15. CASE Crash
  <2>1. entry' \in Entries
    BY <1>15, EntryFacts DEF Crash
  <2>2. granted' \subseteq Workers /\ excuse' \subseteq Workers
    BY <1>15, <2>1, Recorded DEF Crash
  <2>3. token' \in [Workers -> Tokens] /\ bearer' \in [Workers -> Tokens]
    BY <1>15 DEF Crash, DataType, Tokens
  <2> QED
    BY <1>15, <2>1, <2>2, <2>3 DEF Crash, DataType
<1>16. CASE Restart
  <2>1. entry' \in Entries
    BY <1>16, EntryFacts DEF Restart, Load, DataType
  <2>2. granted' \subseteq Workers /\ excuse' \subseteq Workers
    BY <1>16, <2>1, Recorded DEF Restart
  <2> QED
    BY <1>16, <2>1, <2>2 DEF Restart, DataType
<1>17. CASE UNCHANGED dataVars
  BY <1>17 DEF DataType
<1> QED
  BY <1>1, <1>2, <1>3, <1>4, <1>5, <1>6, <1>7, <1>8, <1>9, <1>10, <1>11, <1>12, <1>13,
     <1>14, <1>15, <1>16, <1>17 DEF DataStep

-----------------------------------------------------------------------------
(* Who gets an answer                                                        *)

\* What grants a worker is kept by a step that leaves the broker's queries alone.
LEMMA GrantFrame ==
  ASSUME DataType, Granting, granted \subseteq granted',
         UNCHANGED <<backlog, running>>,
         \A x \in Workers :
            /\ bearer'[x] # "none" /\ up' /\ x \in entry'.allowed =>
                  \/ x \in granted'
                  \/ bearer[x] # "none" /\ up /\ x \in entry.allowed
            /\ outcome'[x] \in {"ok", "query_failed"} =>
                  x \in granted' \/ outcome[x] \in {"ok", "query_failed"}
  PROVE  Granting'
BY DEF Granting, GrantedOnly

LEMMA GrantingStep ==
  ASSUME DataType, Granting, \A w \in Workers : Excusing(w), DataStep
  PROVE  Granting'
<1> USE DEF dataVars, storeVars, brokerVars
<1>1. ASSUME NEW w \in Workers, Call(w)  PROVE Granting'
  BY <1>1, GrantFrame DEF Call
<1>2. ASSUME NEW w \in Workers, Login(w)  PROVE Granting'
  <2>1. entry' \in Entries
    BY <1>2 DEF Login, DataType
  <2> QED
    BY <1>2, <2>1, Recorded, GrantFrame DEF Login
<1>3. ASSUME NEW w \in Workers, LoginAnswer(w)  PROVE Granting'
  <2>1. \A x \in Workers : outcome'[x] \in {"ok", "query_failed"} => outcome[x] \in {"ok", "query_failed"}
    BY <1>3, EndFacts DEF LoginAnswer, Outcomes
  <2> QED
    BY <1>3, <2>1, GrantFrame DEF LoginAnswer
<1>4. ASSUME NEW w \in Workers, Unauthorized(w)  PROVE Granting'
  <2>1. \A x \in Workers : outcome'[x] \in {"ok", "query_failed"} => outcome[x] \in {"ok", "query_failed"}
    BY <1>4, EndFacts DEF Unauthorized, Outcomes
  <2> QED
    BY <1>4, <2>1, GrantFrame DEF Unauthorized
<1>5. ASSUME NEW w \in Workers, List(w)  PROVE Granting'
  <2>1. \A x \in Workers : outcome'[x] \in {"ok", "query_failed"} => outcome[x] \in {"ok", "query_failed"}
    BY <1>5, EndFacts DEF List, Outcomes
  <2> QED
    BY <1>5, <2>1, GrantFrame DEF List
<1>6. ASSUME NEW w \in Workers, Post(w)  PROVE Granting'
  <2>1. entry' \in Entries
    BY <1>6 DEF Post, DataType
  <2> QED
    BY <1>6, <2>1, Recorded, GrantFrame DEF Post
<1>7. ASSUME NEW w \in Workers, RequestRaises(w) \/ GiveUp(w)  PROVE Granting'
  <2>1. \A x \in Workers : outcome'[x] \in {"ok", "query_failed"} => outcome[x] \in {"ok", "query_failed"}
    BY <1>7, EndFacts DEF RequestRaises, GiveUp, Outcomes
  <2> QED
    BY <1>7, <2>1, GrantFrame DEF RequestRaises, GiveUp
<1>8. ASSUME NEW w \in Workers, Receive(w)  PROVE Granting'
  BY <1>8, GrantFrame DEF Receive
\* The Composer's grant is looked at with the token the broker was asked with.
<1>9. ASSUME NEW w \in Workers, Authorize(w)  PROVE Granting'
  <2>1. \A x \in Workers : bearer'[x] # "none" => bearer[x] # "none"
    BY <1>9 DEF Authorize, DataType
  <2>2. CASE UNCHANGED backlog
    <3>1. \A x \in Workers : outcome'[x] \in {"ok", "query_failed"} => outcome[x] \in {"ok", "query_failed"}
      BY <1>9, ReplyFacts DEF Authorize, Outcomes
    <3> QED
      BY <1>9, <2>1, <2>2, <3>1, GrantFrame DEF Authorize
  <2>3. CASE backlog' = Append(backlog, w) /\ UNCHANGED <<client, outcome>>
              /\ Serving /\ bearer[w] = "live" /\ Allowed(w)
    <3>1. w \in granted
      BY <2>3 DEF Granting, Serving, Allowed
    <3>2. \A i \in DOMAIN backlog' : backlog'[i] \in granted
      <4>1. \A i \in DOMAIN Append(backlog, w) :
               Append(backlog, w)[i] = w \/ (i \in DOMAIN backlog /\ Append(backlog, w)[i] = backlog[i])
        BY DEF DataType
      <4> QED
        BY <2>3, <3>1, <4>1 DEF Granting
    <3> QED
      BY <1>9, <2>1, <2>3, <3>2 DEF Authorize, Granting, GrantedOnly
  <2> QED
    BY <1>9, <2>2, <2>3 DEF Authorize
<1>10. ASSUME NEW w \in Workers, QueryEnds(w)  PROVE Granting'
  <2>1. w \in granted
    BY <1>10 DEF QueryEnds, Granting, GrantedOnly
  <2>2. \A x \in Workers : outcome'[x] \in {"ok", "query_failed"} =>
           x \in granted \/ outcome[x] \in {"ok", "query_failed"}
    BY <1>10, <2>1, ReplyFacts DEF QueryEnds, Outcomes
  <2> QED
    BY <1>10, <2>2 DEF QueryEnds, Granting, GrantedOnly
<1>11. ASSUME NEW w \in Workers, Expire(w)  PROVE Granting'
  <2>1. \A x \in Workers : bearer'[x] # "none" => bearer[x] # "none"
    BY <1>11 DEF Expire, DataType
  <2> QED
    BY <1>11, <2>1, GrantFrame DEF Expire
<1>12. CASE RunQuery
  <2>1. 1 \in DOMAIN backlog /\ Head(backlog) = backlog[1]
    BY <1>12 DEF RunQuery, DataType
  <2>2. \A i \in DOMAIN Tail(backlog) : i + 1 \in DOMAIN backlog /\ Tail(backlog)[i] = backlog[i + 1]
    BY <1>12 DEF RunQuery, DataType
  <2>3. \A i \in DOMAIN backlog' : backlog'[i] \in granted
    BY <1>12, <2>2 DEF RunQuery, Granting
  <2>4. \A x \in running' : x \in granted
    BY <1>12, <2>1 DEF RunQuery, Granting, GrantedOnly, DataType
  <2> QED
    BY <1>12, <2>3, <2>4 DEF RunQuery, Granting, GrantedOnly
<1>13. CASE Edit
  <2>1. entry' \in Entries
    BY <1>13 DEF Edit
  <2> QED
    BY <1>13, <2>1, Recorded, GrantFrame DEF Edit
<1>14. CASE Persist
  BY <1>14, GrantFrame DEF Persist
<1>15. CASE Crash
  <2>1. entry' \in Entries
    BY <1>15, EntryFacts DEF Crash
  <2> QED
    BY <1>15, <2>1, Recorded, GrantFrame DEF Crash
<1>16. CASE Restart
  <2>1. entry' \in Entries
    BY <1>16, EntryFacts DEF Restart, Load, DataType
  <2> QED
    BY <1>16, <2>1, Recorded, GrantFrame DEF Restart
<1>17. CASE UNCHANGED dataVars
  BY <1>17, GrantFrame
<1> QED
  BY <1>1, <1>2, <1>3, <1>4, <1>5, <1>6, <1>7, <1>8, <1>9, <1>10, <1>11, <1>12, <1>13,
     <1>14, <1>15, <1>16, <1>17 DEF DataStep

-----------------------------------------------------------------------------
(* Who is turned away                                                        *)

LEMMA ExcusingStep ==
  ASSUME DataType, \A w \in Workers : Excusing(w), DataStep, NEW x \in Workers
  PROVE  Excusing(x)'
<1> USE DEF dataVars, storeVars, brokerVars
<1>a. Excusing(x)
  OBVIOUS
<1>1. ASSUME NEW w \in Workers, Call(w)  PROVE Excusing(x)'
  <2>1. PICK where \in {"login", "list"} : Goto(w, where)
    BY <1>1 DEF Call
  <2>2. client'[w] \in {"login", "list"} /\ \A y \in Workers : y # w => client'[y] = client[y]
    BY <2>1, GotoFacts DEF Places
  <2>3. CASE x = w
    BY <1>1, <1>a, <2>2, <2>3 DEF Call, Excusing
  <2>4. CASE x # w
    BY <1>1, <1>a, <2>2, <2>4, ExcuseFrame DEF Call, Excusing
  <2> QED
    BY <2>3, <2>4
<1>2. ASSUME NEW w \in Workers, Login(w)  PROVE Excusing(x)'
  <2>1. entry' \in Entries
    BY <1>2 DEF Login, DataType
  <2>2. x \in excuse'
    BY <1>2, <2>1, Recorded DEF Login
  <2> QED
    BY <1>2, <1>a, <2>2, ExcuseFrame DEF Login, Excusing
\* The session is live, and no grant is looked at before the list.
<1>3. ASSUME NEW w \in Workers, LoginAnswer(w)  PROVE Excusing(x)'
  <2>1. CASE x = w /\ End(w, "login_failed") /\ UNCHANGED <<token, excuse>>
    <3>1. client'[w] = "over" /\ outcome'[w] = "login_failed"
      BY <2>1, EndFacts DEF Outcomes
    <3> QED
      BY <1>3, <1>a, <2>1, <3>1 DEF LoginAnswer, Excusing
  <2>2. CASE x # w /\ End(w, "login_failed") /\ UNCHANGED <<token, excuse>>
    <3>1. client'[x] = client[x] /\ outcome'[x] = outcome[x]
      BY <2>2, EndFacts DEF Outcomes
    <3> QED
      BY <1>3, <1>a, <2>2, <3>1, ExcuseFrame DEF LoginAnswer, Excusing
  <2>3. CASE UNCHANGED <<token, client, outcome, excuse>>
    BY <1>3, <1>a, <2>3, ExcuseFrame DEF LoginAnswer, Excusing
  <2>4. ASSUME NEW where \in {"list", "relist"}, Goto(w, where),
               client[w] \in {"login", "relogin"}, UNCHANGED outcome,
               token' = [token EXCEPT ![w] = "live"], excuse' = {y \in excuse : y # w}
        PROVE  Excusing(x)'
    <3>1. client'[w] = where /\ \A y \in Workers : y # w => client'[y] = client[y]
      BY <2>4, GotoFacts DEF Places
    <3>2. CASE x = w
      <4>1. token'[w] = "live"
        BY <2>4 DEF DataType
      <4> QED
        BY <1>3, <1>a, <2>4, <3>1, <3>2, <4>1 DEF LoginAnswer, Excusing
    <3>3. CASE x # w
      <4>1. token'[x] = token[x]
        BY <2>4, <3>3 DEF DataType
      <4> QED
        BY <1>3, <1>a, <2>4, <3>1, <3>3, <4>1, ExcuseFrame DEF LoginAnswer, Excusing
    <3> QED
      BY <3>2, <3>3
  <2> QED
    BY <1>3, <2>1, <2>2, <2>3, <2>4 DEF LoginAnswer
\* A session that was live when the worker listed again has expired since.
<1>4. ASSUME NEW w \in Workers, Unauthorized(w)  PROVE Excusing(x)'
  <2>1. CASE Goto(w, "relogin") /\ UNCHANGED outcome /\ client[w] = "list"
    <3>1. client'[w] = "relogin" /\ \A y \in Workers : y # w => client'[y] = client[y]
      BY <2>1, GotoFacts DEF Places
    <3>2. CASE x = w
      BY <1>4, <1>a, <2>1, <3>1, <3>2 DEF Unauthorized, Excusing
    <3>3. CASE x # w
      BY <1>4, <1>a, <2>1, <3>1, <3>3, ExcuseFrame DEF Unauthorized, Excusing
    <3> QED
      BY <3>2, <3>3
  <2>2. CASE End(w, "unauthorized") /\ client[w] = "relist"
    <3>1. client'[w] = "over" /\ outcome'[w] = "unauthorized"
          /\ \A y \in Workers : y # w => client'[y] = client[y] /\ outcome'[y] = outcome[y]
      BY <2>2, EndFacts DEF Outcomes
    <3>2. CASE x = w
      BY <1>4, <1>a, <2>2, <3>1, <3>2 DEF Unauthorized, Excusing
    <3>3. CASE x # w
      BY <1>4, <1>a, <2>2, <3>1, <3>3, ExcuseFrame DEF Unauthorized, Excusing
    <3> QED
      BY <3>2, <3>3
  <2> QED
    BY <1>4, <2>1, <2>2 DEF Unauthorized
\* Who finds the source listed has a live session and a grant, and the Composer
\* serves.
<1>5. ASSUME NEW w \in Workers, List(w)  PROVE Excusing(x)'
  <2>1. CASE Allowed(w) /\ UNCHANGED outcome /\ \E where \in {"ask", "reask"} : Goto(w, where)
    <3>1. client'[w] \in {"ask", "reask"} /\ \A y \in Workers : y # w => client'[y] = client[y]
      BY <2>1, GotoFacts DEF Places
    <3>2. CASE x = w
      BY <1>5, <1>a, <2>1, <3>1, <3>2 DEF List, Excusing, Serving, Allowed
    <3>3. CASE x # w
      BY <1>5, <1>a, <2>1, <3>1, <3>3, ExcuseFrame DEF List, Excusing
    <3> QED
      BY <3>2, <3>3
  <2>2. CASE End(w, "unregistered")
    <3>1. client'[w] = "over" /\ outcome'[w] = "unregistered"
          /\ \A y \in Workers : y # w => client'[y] = client[y] /\ outcome'[y] = outcome[y]
      BY <2>2, EndFacts DEF Outcomes
    <3>2. CASE x = w
      BY <1>5, <1>a, <2>2, <3>1, <3>2 DEF List, Excusing
    <3>3. CASE x # w
      BY <1>5, <1>a, <2>2, <3>1, <3>3, ExcuseFrame DEF List, Excusing
    <3> QED
      BY <3>2, <3>3
  <2> QED
    BY <1>5, <2>1, <2>2 DEF List
\* The request goes with the token of the worker, which is live or excused.
<1>6. ASSUME NEW w \in Workers, Post(w)  PROVE Excusing(x)'
  <2>1. client'[w] = "wait" /\ \A y \in Workers : y # w => client'[y] = client[y]
    BY <1>6, GotoFacts DEF Post, Places
  <2>2. bearer'[w] = token[w] /\ \A y \in Workers : y # w => bearer'[y] = bearer[y]
    BY <1>6 DEF Post, DataType
  <2>3. excuse \subseteq excuse' /\ entry' = entry
    BY <1>6, Recorded DEF Post, DataType
  <2>4. CASE x = w
    BY <1>6, <1>a, <2>1, <2>2, <2>3, <2>4 DEF Post, Excusing
  <2>5. CASE x # w
    BY <1>6, <1>a, <2>1, <2>2, <2>3, <2>5, ExcuseFrame DEF Post, Excusing
  <2> QED
    BY <2>4, <2>5
<1>7. ASSUME NEW w \in Workers, RequestRaises(w) \/ GiveUp(w)  PROVE Excusing(x)'
  <2>1. client'[w] = "over" /\ outcome'[w] = "raised"
        /\ \A y \in Workers : y # w => client'[y] = client[y] /\ outcome'[y] = outcome[y]
    BY <1>7, EndFacts DEF RequestRaises, GiveUp, Outcomes
  <2>2. CASE x = w
    BY <1>7, <1>a, <2>1, <2>2 DEF RequestRaises, GiveUp, Excusing
  <2>3. CASE x # w
    BY <1>7, <1>a, <2>1, <2>3, ExcuseFrame DEF RequestRaises, GiveUp, Excusing
  <2> QED
    BY <2>2, <2>3
<1>8. ASSUME NEW w \in Workers, Receive(w)  PROVE Excusing(x)'
  BY <1>8, <1>a, ExcuseFrame DEF Receive, Excusing
\* The Composer refuses who still waits only if it is down, busy, or has another
\* session or grant than the list showed.
<1>9. ASSUME NEW w \in Workers, Authorize(w)  PROVE Excusing(x)'
  <2>1. bearer'[w] = "none" /\ \A y \in Workers : y # w => bearer'[y] = bearer[y]
    BY <1>9 DEF Authorize, DataType
  <2>2. CASE x # w
    <3>1. client'[x] = client[x] /\ outcome'[x] = outcome[x]
      BY <1>9, <2>2, ReplyFacts DEF Authorize, Outcomes
    <3> QED
      BY <1>9, <1>a, <2>1, <2>2, <3>1, ExcuseFrame DEF Authorize, Excusing
  <2>3. CASE x = w /\ UNCHANGED <<client, outcome>>
    BY <1>9, <1>a, <2>1, <2>3 DEF Authorize, Excusing
  <2>4. CASE x = w /\ Reply(w, "refused") /\ client[w] = "wait"
              /\ (~up \/ busy # {} \/ (Serving /\ (bearer[w] # "live" \/ ~Allowed(w))))
    <3>1. client'[w] = "over" /\ outcome'[w] = "refused"
      BY <2>4, EndFacts DEF Reply, Outcomes
    <3>2. w \in excuse
      BY <1>9, <1>a, <2>4 DEF Authorize, Excusing, Allowed
    <3> QED
      BY <1>9, <1>a, <2>1, <2>4, <3>1, <3>2 DEF Authorize, Excusing
  <2> QED
    BY <1>9, <2>2, <2>3, <2>4 DEF Authorize, Reply
<1>10. ASSUME NEW w \in Workers, QueryEnds(w)  PROVE Excusing(x)'
  <2>1. PICK how \in {"ok", "query_failed"} : Reply(w, how)
    BY <1>10 DEF QueryEnds
  <2>2. /\ \A y \in Workers : y # w => client'[y] = client[y] /\ outcome'[y] = outcome[y]
        /\ \/ client'[w] = "over" /\ outcome'[w] = how
           \/ client' = client /\ outcome' = outcome
    BY <2>1, ReplyFacts DEF Outcomes
  <2>3. CASE client'[x] = client[x] /\ outcome'[x] = outcome[x]
    BY <1>10, <1>a, <2>3, ExcuseFrame DEF QueryEnds, Excusing
  <2>4. CASE x = w /\ client'[w] = "over" /\ outcome'[w] = how
    BY <1>10, <1>a, <2>4 DEF QueryEnds, Excusing
  <2> QED
    BY <2>2, <2>3, <2>4
<1>11. ASSUME NEW w \in Workers, Expire(w)  PROVE Excusing(x)'
  <2>1. CASE x = w
    <3>1. token'[w] = "expired" /\ w \in excuse' /\ (bearer'[w] # "none" <=> bearer[w] # "none")
      BY <1>11 DEF Expire, DataType
    <3> QED
      BY <1>11, <1>a, <2>1, <3>1 DEF Expire, Excusing
  <2>2. CASE x # w
    <3>1. token'[x] = token[x] /\ bearer'[x] = bearer[x]
      BY <1>11, <2>2 DEF Expire, DataType
    <3> QED
      BY <1>11, <1>a, <2>2, <3>1, ExcuseFrame DEF Expire, Excusing
  <2> QED
    BY <2>1, <2>2
<1>12. CASE RunQuery
  BY <1>12, <1>a, ExcuseFrame DEF RunQuery, Excusing
<1>13. CASE Edit
  <2>1. entry' \in Entries
    BY <1>13 DEF Edit
  <2>2. excuse \subseteq excuse' /\ (x \in excuse' \/ x \in entry'.allowed)
    BY <1>13, <2>1, Recorded DEF Edit
  <2> QED
    BY <1>13, <1>a, <2>2 DEF Edit, Excusing
<1>14. CASE Persist
  BY <1>14, <1>a, ExcuseFrame DEF Persist, Excusing
<1>15. CASE Crash
  <2>1. entry' \in Entries
    BY <1>15, EntryFacts DEF Crash
  <2>2. x \in excuse'
    BY <1>15, <2>1, Recorded DEF Crash
  <2>3. bearer'[x] # "none" <=> bearer[x] # "none"
    BY <1>15 DEF Crash, DataType
  <2> QED
    BY <1>15, <1>a, <2>2, <2>3 DEF Crash, Excusing
<1>16. CASE Restart
  <2>1. entry' \in Entries
    BY <1>16, EntryFacts DEF Restart, Load, DataType
  <2>2. excuse \subseteq excuse'
    BY <1>16, <2>1, Recorded DEF Restart
  <2>3. client[x] \in {"ask", "reask", "wait"} => x \in excuse
    BY <1>16, <1>a DEF Restart, Excusing
  <2> QED
    BY <1>16, <1>a, <2>2, <2>3 DEF Restart, Excusing
<1>17. CASE UNCHANGED dataVars
  BY <1>17, <1>a, ExcuseFrame DEF Excusing
<1> QED
  BY <1>1, <1>2, <1>3, <1>4, <1>5, <1>6, <1>7, <1>8, <1>9, <1>10, <1>11, <1>12, <1>13,
     <1>14, <1>15, <1>16, <1>17 DEF DataStep

-----------------------------------------------------------------------------
(* The file of the registry                                                  *)

LEMMA FiledStep ==
  ASSUME DataType, Filed, DataStep
  PROVE  Filed'
<1> USE DEF dataVars, storeVars, brokerVars, Filed, DiskAgrees
<1>1. CASE UNCHANGED storeVars
  BY <1>1
<1>2. CASE Edit
  BY <1>2 DEF Edit, Serving
<1>3. CASE Persist
  BY <1>3 DEF Persist
<1>4. CASE Crash
  BY <1>4 DEF Crash
<1>5. CASE Restart
  BY <1>5 DEF Restart, Load
<1> QED
  BY <1>1, <1>2, <1>3, <1>4, <1>5
     DEF DataStep, Call, Login, LoginAnswer, Unauthorized, List, Post, RequestRaises, GiveUp,
         Receive, Authorize, QueryEnds, Expire, RunQuery

LEMMA DataInvStep ==
  ASSUME DataType, DataInv, DataStep
  PROVE  DataType' /\ DataInv'
BY DataTypeStep, GrantingStep, ExcusingStep, FiledStep DEF DataInv

-----------------------------------------------------------------------------
(* The coordinator                                                           *)

USE QueryFeatureAssumption

\* The steps of the contributions and of the coordination.
SkillStep ==
    \/ \E w \in Workers : Contribute(w) \/ ContributeRaises(w) \/ Queried(w)
    \/ CoordinatorStep \/ DeadlinePasses \/ Cancel
    \/ UNCHANGED skillVars

LEMMA AnswerFacts ==
  /\ \A w \in Workers, status \in {"ok", "error"} :
        Answer(w, status) \in Answers /\ Answer(w, status).from = w
  /\ \A a \in Answers : a.status \in {"ok", "error"} /\ a.from \in Workers /\ a \notin NoResult
  /\ \A s \in {"none", "cancelled", "notfound"} :
        Answer(Coordinator, s) \in NoResult /\ Answer(Coordinator, s).status = s
BY DEF Answer, Answers, NoResult

LEMMA AppendFacts ==
  ASSUME NEW s \in Seq(Answers), NEW a \in Answers
  PROVE  /\ Append(s, a) \in Seq(Answers) /\ Append(s, a) # <<>>
         /\ s # <<>> => Append(s, a)[1] = s[1]
         /\ \A i \in DOMAIN Append(s, a) :
               \/ Append(s, a)[i] = a
               \/ i \in DOMAIN s /\ Append(s, a)[i] = s[i]
<1> HIDE DEF Answers
<1> QED
  OBVIOUS

LEMMA HeadFacts ==
  ASSUME NEW s \in Seq(Answers), s # <<>>
  PROVE  Head(s) \in Answers /\ Head(s) = s[1] /\ 1 \in DOMAIN s /\ Tail(s) \in Seq(Answers)
<1> HIDE DEF Answers
<1> QED
  OBVIOUS

\* An answer is counted as long as the coordinator may still find it.
LEMMA SendStep ==
  ASSUME SkillType, SkillInv, NEW w \in Workers, NEW status \in {"ok", "error"},
         holds[w] \in {"local", "broker"}, SendAnswer(w, status)
  PROVE  SkillType' /\ SkillInv'
<1> DEFINE a == Answer(w, status)
<1>1. a \in Answers /\ a.from = w
  BY AnswerFacts
<1>2. contributor' \in [Workers -> {"idle", "query", "over", "raised"}]
      /\ \A x \in Workers : contributor'[x] = "query" => contributor[x] = "query"
  BY DEF SendAnswer, SkillType
<1>3. UNCHANGED <<holds, coordinator, deadline, cancelled, result>>
  BY DEF SendAnswer
<1>4. queue \in Seq(Answers) /\ arrived \in Seq(Answers)
  BY DEF SkillType
<1>5. CASE UNCHANGED <<queue, arrived>>
  BY <1>2, <1>3, <1>5 DEF SkillType, SkillInv, Collected, Returned, Holding
<1>6. CASE queue' = Append(queue, a) /\ arrived' = Append(arrived, a)
           /\ ~(deadline /\ coordinator # "receive")
  <2>1. /\ queue' \in Seq(Answers) /\ arrived' \in Seq(Answers) /\ arrived' # <<>>
        /\ arrived # <<>> => arrived'[1] = arrived[1]
        /\ \A i \in DOMAIN arrived' :
              arrived'[i] = a \/ (i \in DOMAIN arrived /\ arrived'[i] = arrived[i])
    BY <1>1, <1>4, <1>6, AppendFacts
  <2>2. SkillType'
    BY <1>2, <1>3, <2>1 DEF SkillType
  <2>3. Collected'
    BY <1>3, <1>6 DEF SkillInv, Collected
  <2>4. Returned'
    BY <1>3, <1>6, <2>1 DEF SkillInv, Returned
  <2>5. Holding'
    BY <1>1, <1>2, <1>3, <2>1 DEF SkillInv, Holding
  <2> QED
    BY <2>2, <2>3, <2>4, <2>5 DEF SkillInv
<1>7. CASE queue' = Append(queue, a) /\ arrived' = arrived /\ deadline /\ coordinator # "receive"
  <2>1. queue' \in Seq(Answers)
    BY <1>1, <1>4, <1>7, AppendFacts
  <2> QED
    BY <1>2, <1>3, <1>4, <1>7, <2>1 DEF SkillType, SkillInv, Collected, Returned, Holding
<1> QED
  BY <1>5, <1>6, <1>7 DEF SendAnswer

LEMMA SkillInvStep ==
  ASSUME SkillType, SkillInv, SkillStep
  PROVE  SkillType' /\ SkillInv'
<1> USE DEF skillVars
<1>0. queue \in Seq(Answers) /\ arrived \in Seq(Answers)
  BY DEF SkillType
<1>1. ASSUME NEW w \in Workers, Contribute(w)  PROVE SkillType' /\ SkillInv'
  <2>1. CASE holds[w] = "local"
    BY <1>1, <2>1, SendStep DEF Contribute
  <2>2. ASSUME NEW where \in {"over", "query"}, where = "query" => holds[w] = "broker",
               contributor' = [contributor EXCEPT ![w] = where],
               UNCHANGED <<holds, queue, coordinator, deadline, cancelled, result, arrived>>
        PROVE  SkillType' /\ SkillInv'
    BY <2>2 DEF SkillType, SkillInv, Collected, Returned, Holding
  <2> QED
    BY <1>1, <2>1, <2>2 DEF Contribute
<1>2. ASSUME NEW w \in Workers, ContributeRaises(w)  PROVE SkillType' /\ SkillInv'
  BY <1>2 DEF ContributeRaises, SkillType, SkillInv, Collected, Returned, Holding
<1>3. ASSUME NEW w \in Workers, Queried(w)  PROVE SkillType' /\ SkillInv'
  <2>1. PICK status \in {"ok", "error"} : SendAnswer(w, status)
    BY <1>3 DEF Queried
  <2>2. holds[w] = "broker"
    BY <1>3 DEF Queried, SkillInv, Holding
  <2> QED
    BY <2>1, <2>2, SendStep
<1>4. CASE CoordinateBegin \/ DeadlinePasses \/ Cancel \/ ReceiveNothing
  <2> USE DEF SkillType, SkillInv, Collected, Returned, Holding
  <2>1. CASE CoordinateBegin
    BY <2>1 DEF CoordinateBegin
  <2>2. CASE DeadlinePasses
    BY <2>2 DEF DeadlinePasses
  <2>3. CASE Cancel
    BY <2>3 DEF Cancel
  <2>4. CASE ReceiveNothing
    BY <2>4 DEF ReceiveNothing
  <2> QED
    BY <1>4, <2>1, <2>2, <2>3, <2>4
\* "Not found" is said after a receive_for that found nothing.
<1>5. CASE LoopTop
  <2>1. <<>> \in Seq(Answers)
    OBVIOUS
  <2>2. result' \in {Answer(Coordinator, "cancelled"), Answer(Coordinator, "notfound"), result}
    BY <1>5 DEF LoopTop, ReturnResult
  <2>3. result' \in [from : Workers, status : {"none", "cancelled", "notfound", "ok", "error"}]
    BY <2>2 DEF SkillType, Answer
  <2>4. SkillType'
    BY <1>5, <2>1, <2>3 DEF LoopTop, ReturnResult, SkillType
  <2>5. Holding'
    BY <1>5 DEF LoopTop, ReturnResult, SkillInv, Holding
  <2>6. Collected' /\ Returned'
    <3>1. CASE cancelled /\ ReturnResult(Answer(Coordinator, "cancelled"))
      BY <1>5, <3>1, AnswerFacts DEF LoopTop, ReturnResult, SkillInv, Collected, Returned
    <3>2. CASE ~deadline /\ coordinator' = "receive" /\ UNCHANGED <<result, queue>>
      BY <1>5, <3>2 DEF LoopTop, SkillInv, Collected, Returned
    <3>3. CASE deadline /\ ReturnResult(Answer(Coordinator, "notfound"))
      BY <1>5, <3>3, AnswerFacts DEF LoopTop, ReturnResult, SkillInv, Collected, Returned
    <3> QED
      BY <1>5, <3>1, <3>2, <3>3 DEF LoopTop
  <2> QED
    BY <2>4, <2>5, <2>6 DEF SkillInv
\* What is returned is what arrived first.
<1>6. CASE ReceiveAnswer
  <2>1. arrived = queue /\ queue # <<>>
    BY <1>6 DEF ReceiveAnswer, SkillInv, Collected
  <2>2. result' = Head(queue) /\ Head(queue) \in Answers /\ Head(queue) = arrived[1]
    BY <1>0, <1>6, <2>1, HeadFacts DEF ReceiveAnswer, ReturnResult
  <2>3. result' \in [from : Workers, status : {"none", "cancelled", "notfound", "ok", "error"}]
    BY <2>2 DEF Answers
  <2>4. <<>> \in Seq(Answers)
    OBVIOUS
  <2>5. SkillType'
    BY <1>6, <2>3, <2>4 DEF ReceiveAnswer, ReturnResult, SkillType
  <2>6. Collected' /\ Holding'
    BY <1>6 DEF ReceiveAnswer, ReturnResult, SkillInv, Collected, Holding
  <2>7. Returned'
    BY <1>6, <2>1, <2>2, AnswerFacts DEF ReceiveAnswer, ReturnResult, Returned
  <2> QED
    BY <2>5, <2>6, <2>7 DEF SkillInv
<1>7. CASE UNCHANGED skillVars
  BY <1>7 DEF SkillType, SkillInv, Collected, Returned, Holding
<1> QED
  BY <1>1, <1>2, <1>3, <1>4, <1>5, <1>6, <1>7 DEF SkillStep, CoordinatorStep

-----------------------------------------------------------------------------
(* The whole                                                                 *)

\* A query is Call, or it waits for the worker's call to be over: every step is a
\* step of each half.
LEMMA StepOfBoth ==
  ASSUME [Next]_vars
  PROVE  DataStep /\ SkillStep
<1>1. CASE UNCHANGED vars
  BY <1>1 DEF vars, DataStep, SkillStep
<1>2. ASSUME NEW w \in Workers, Contribute(w)  PROVE DataStep /\ SkillStep
  BY <1>2 DEF Contribute, DataStep, SkillStep
<1>3. ASSUME NEW w \in Workers, ContributeRaises(w) \/ Queried(w)  PROVE DataStep /\ SkillStep
  BY <1>3 DEF ContributeRaises, Queried, DataStep, SkillStep
<1>4. ASSUME NEW w \in Workers, UNCHANGED skillVars, Querying(w) \/ QueryEnds(w)
      PROVE  DataStep /\ SkillStep
  BY <1>4 DEF Querying, DataStep, SkillStep
<1>5. CASE (Broker \/ Composer) /\ UNCHANGED skillVars
  BY <1>5 DEF Broker, Composer, DataStep, SkillStep
<1>6. CASE CoordinatorStep \/ DeadlinePasses \/ Cancel
  <2>1. UNCHANGED dataVars
    BY <1>6 DEF CoordinatorStep, CoordinateBegin, LoopTop, ReceiveAnswer, ReceiveNothing,
                DeadlinePasses, Cancel
  <2> QED
    BY <1>6, <2>1 DEF DataStep, SkillStep
<1> QED
  BY <1>1, <1>2, <1>3, <1>4, <1>5, <1>6 DEF Next, ContributorStep

LEMMA InitHolds ==
  ASSUME Init
  PROVE  DataType /\ SkillType /\ DataInv /\ SkillInv
<1> USE DEF Init
<1>1. DataType
  <2>1. entry \in Entries /\ disk \in Entries
    BY EntryFacts DEF DataInit
  <2>2. /\ token \in [Workers -> Tokens] /\ client \in [Workers -> Places]
        /\ bearer \in [Workers -> Tokens] /\ outcome \in [Workers -> Outcomes]
    BY DEF DataInit, Tokens, Places, Outcomes
  <2>3. running \subseteq Workers /\ IsFiniteSet(running) /\ Cardinality(running) <= PoolSize
    BY FS_EmptySet DEF DataInit
  <2>4. /\ torn \in BOOLEAN /\ up \in BOOLEAN /\ diverged \in BOOLEAN
        /\ persist \in {"no", "open", "write"}
        /\ busy \subseteq Workers /\ authorizing \subseteq Workers
        /\ granted \subseteq Workers /\ excuse \subseteq Workers
    BY DEF DataInit
  <2>5. backlog \in Seq(Workers)
    BY DEF DataInit
  <2> QED
    BY <2>1, <2>2, <2>3, <2>4, <2>5 DEF DataType
<1>2. DataInv
  <2>1. Granting
    BY DEF DataInit, Granting, GrantedOnly
  <2>2. \A w \in Workers : Excusing(w)
    BY DEF DataInit, Excusing
  <2>3. Filed
    BY DEF DataInit, Filed, DiskAgrees
  <2> QED
    BY <2>1, <2>2, <2>3 DEF DataInv
<1>3. SkillType
  <2>1. queue \in Seq(Answers) /\ arrived \in Seq(Answers)
    OBVIOUS
  <2>2. result \in [from : Workers, status : {"none", "cancelled", "notfound", "ok", "error"}]
    BY DEF Answer
  <2> QED
    BY <2>1, <2>2 DEF SkillType
<1>4. SkillInv
  <2>1. result \in NoResult /\ result.status = "none"
    BY AnswerFacts
  <2> QED
    BY <2>1 DEF SkillInv, Collected, Returned, Holding
<1> QED
  BY <1>1, <1>2, <1>3, <1>4

LEMMA Inductive == Spec => [](DataType /\ SkillType /\ DataInv /\ SkillInv)
<1>1. DataType /\ SkillType /\ DataInv /\ SkillInv /\ [Next]_vars
        => (DataType /\ SkillType /\ DataInv /\ SkillInv)'
  BY StepOfBoth, DataInvStep, SkillInvStep
<1> QED
  BY InitHolds, <1>1, PTL DEF Spec

\* What coordinate returns is the first answer of a holder that came while it
\* listened, and it says that none responded only if none did (query_feature.py,
\* coordinate); and every variable keeps its type.
THEOREM RightAnswer == Spec => []AnswerFound
<1>1. DataType /\ SkillType => TypeOK
  BY DEF DataType, SkillType, TypeOK, Tokens, Places, Outcomes, Answers
<1>2. SkillType /\ SkillInv => FirstAnswer /\ NotFoundRight
  <2> SUFFICES ASSUME SkillType, SkillInv  PROVE FirstAnswer /\ NotFoundRight
    OBVIOUS
  <2>1. arrived \in Seq(Answers)
    BY DEF SkillType
  <2>2. NotFoundRight
    BY DEF SkillInv, Returned, NotFoundRight
  <2>3. ASSUME result \notin NoResult
        PROVE  holds[result.from] \in {"local", "broker"} /\ result = arrived[1]
    <3>1. arrived # <<>> /\ result = arrived[1]
      BY <2>3 DEF SkillInv, Returned
    <3>2. 1 \in DOMAIN arrived
      BY <2>1, <3>1, HeadFacts
    <3> QED
      BY <3>1, <3>2 DEF SkillInv, Holding
  <2> QED
    BY <2>2, <2>3 DEF FirstAnswer
<1>3. DataType /\ SkillType /\ DataInv /\ SkillInv => AnswerFound
  BY <1>1, <1>2 DEF AnswerFound
<1> QED
  BY <1>3, Inductive, PTL

\* No query of a worker the registry did not allow runs or answers, and nobody it
\* allows is turned away without a cause (broker/main.py, _authorized and query;
\* context.py, query_data_source), whatever crashes, expires or is edited.
THEOREM RegistryDecides == Spec => []AccessRight
<1>1. DataType /\ SkillType /\ DataInv /\ SkillInv => AccessRight
  BY DEF DataInv, Granting, Excusing, AccessRight, RefusedRight
<1> QED
  BY <1>1, Inductive, PTL

\* Between two requests the file has what the memory has, unless a write of it
\* failed (data_sources_store.py, _persist and load).
THEOREM FileAgrees == Spec => []DiskAgrees
<1>1. DataType /\ SkillType /\ DataInv /\ SkillInv => DiskAgrees
  BY DEF DataInv, Filed
<1> QED
  BY <1>1, Inductive, PTL
=============================================================================
