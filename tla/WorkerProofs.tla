---------------------------- MODULE WorkerProofs ----------------------------
(****************************************************************************)
(* The registry of a worker tracks the work in hand, no cancel of that work is *)
(* missed, its callbacks start once and a dispatch is answered once, for every *)
(* number of requests and threads.                                           *)
(*                                                                           *)
(* The last two hold whatever is received twice (BaseInv).  The argument for *)
(* the others: a dispatch is received once, so at most one thread ever works *)
(* for a request and the registry's entry is that thread's token from before *)
(* the thread starts until its finally clause; and a skill_cancel is behind  *)
(* its dispatch in the inbox, so the router looks the token up only once it  *)
(* has been there.                                                           *)
(****************************************************************************)
EXTENDS Worker, TLAPS

Messages == [type : Kinds \cup {"skill_cancel"}, request : Requests]

\* The pcs of a thread whose token is in the registry.
Tracked == {"created", "run", "coordinate", "forget"}
Done    == {"forget", "snapshot", "publish", "over"}

\* What holds even if a dispatch is received twice.

\* A publisher about to write has a snapshot in hand.
SnapshotsTaken ==
    /\ router = "publish" => snapshots["router"] \in SUBSET Requests
    /\ \A t \in Threads : thread[t].pc = "publish" => snapshots[t] \in SUBSET Requests

\* A born thread has a request and a kind, a token belongs to the request it is
\* registered for, and the thread the router is about to start is not yet
\* started.
BornForRequest ==
    /\ \A t \in Threads :
          /\ thread[t].pc = "unborn" <=> thread[t].request = None
          /\ thread[t].pc # "unborn" => thread[t].kind \in Kinds
          /\ thread[t].pc = "coordinate" => thread[t].kind = "skill_coordinate"
    /\ \A q \in Requests : tokens[q] # None => thread[tokens[q]].request = q
    /\ router = "fire" => thread[current].request \in Requests
    /\ router \in {"snapshot", "publish"} => thread[current].pc = "created"

\* Before the event is set every callback is kept, and after it every callback
\* was started.
CallbacksKept ==
    \A t \in Threads :
        IF event[t] THEN ran[t] = asked[t] ELSE ran[t] = 0 /\ callbacks[t] = asked[t]

AnswersGiven ==
    \A t \in Threads :
        /\ thread[t].pc \notin Done => answers[t] = <<>>
        /\ thread[t].pc \in Done =>
              \/ answers[t] = <<>> /\ thread[t].kind = "skill_contribute"
              \/ \E status \in {"ok", "error"} :
                    /\ answers[t] = <<status>>
                    /\ thread[t].kind = "skill_contribute" => status = "error"

BaseInv == TypeOK /\ SnapshotsTaken /\ BornForRequest /\ CallbacksKept /\ AnswersGiven

\* What holds if a dispatch is received once.

\* A dispatch in the inbox is the first sign of its request here.
InboxFirst ==
    \A i \in 1 .. Len(inbox) : inbox[i].type \in Kinds =>
        /\ sent[inbox[i].request] # None
        /\ inbox[i].request \notin cancelled
        /\ \A t \in Threads : thread[t].request # inbox[i].request
        /\ \A j \in 1 .. Len(inbox) :
              inbox[j].request = inbox[i].request =>
                  IF inbox[j].type \in Kinds THEN j = i ELSE i < j

\* A request is dispatched before it is worked on or cancelled.
SentFirst ==
    /\ \A t \in Threads : thread[t].request # None => sent[thread[t].request] # None
    /\ \A i \in 1 .. Len(inbox) : sent[inbox[i].request] # None
    /\ \A q \in cancelled \cup cancelSent : sent[q] # None

OneThreadEach ==
    \A t, u \in Threads : thread[t].request = thread[u].request /\ thread[t].request # None => t = u

TokenWhileTracked ==
    /\ \A t \in Threads : thread[t].pc \in Tracked => tokens[thread[t].request] = t
    /\ \A q \in Requests : tokens[q] # None => thread[tokens[q]].pc \in Tracked

DispatchInv == InboxFirst /\ SentFirst /\ OneThreadEach /\ TokenWhileTracked /\ CancelNotMissed

-----------------------------------------------------------------------------
(* The steps, by what they do to the inbox and to the threads                *)

Pcs == {"unborn", "created", "run", "coordinate", "forget", "snapshot", "publish", "over"}
ThreadRecords == [pc : Pcs, request : Requests \cup {None}, kind : Kinds \cup {None}]

LEMMA ThreadShape ==
  ASSUME TypeOK
  PROVE  /\ thread \in [Threads -> ThreadRecords]
         /\ \A t \in Threads : thread[t].pc \in Pcs /\ thread[t].request \in Requests \cup {None}
                               /\ thread[t].kind \in Kinds \cup {None}
BY DEF TypeOK, ThreadRecords, Pcs

\* One thread goes on to another pc.
Moves(t, pc) ==
  /\ thread' \in [Threads -> ThreadRecords]
  /\ thread'[t].pc = pc /\ thread'[t].request = thread[t].request /\ thread'[t].kind = thread[t].kind
  /\ \A u \in Threads \ {t} : thread'[u] = thread[u]

LEMMA GotoMoves ==
  ASSUME TypeOK, NEW t \in Threads, NEW pc \in Pcs, Goto(t, pc)
  PROVE  Moves(t, pc)
BY ThreadShape DEF Goto, Moves, ThreadRecords

\* A thread is born for the request of the message at the head of the inbox.
LEMMA CreateBears ==
  ASSUME TypeOK, NEW t \in Threads, Create(t)
  PROVE  /\ Head(inbox) = inbox[1] /\ Head(inbox) \in Messages /\ Len(inbox) \in Nat \ {0} /\ inbox' = Tail(inbox)
         /\ thread' \in [Threads -> ThreadRecords]
         /\ thread'[t].pc = "created" /\ thread'[t].request = inbox[1].request /\ thread'[t].kind = inbox[1].type
         /\ inbox[1].type \in Kinds /\ inbox[1].request \in Requests
         /\ \A u \in Threads \ {t} : thread'[u] = thread[u]
         /\ tokens' \in [Requests -> Threads \cup {None}]
         /\ tokens'[inbox[1].request] = t
         /\ \A q \in Requests \ {inbox[1].request} : tokens'[q] = tokens[q]
<1>1. /\ inbox \in Seq(Messages) /\ inbox # <<>> /\ inbox' = Tail(inbox)
      /\ tokens \in [Requests -> Threads \cup {None}]
  BY DEF TypeOK, Create, Messages
<1>2. Head(inbox) = inbox[1] /\ inbox[1] \in Messages /\ Len(inbox) \in Nat \ {0}
  BY <1>1
<1>3. inbox[1].type \in Kinds /\ inbox[1].request \in Requests
  BY <1>2 DEF Create, Messages
<1>4. thread' = [thread EXCEPT ![t] = [pc |-> "created", request |-> inbox[1].request, kind |-> inbox[1].type]]
  BY <1>2 DEF Create
<1>5. [pc |-> "created", request |-> inbox[1].request, kind |-> inbox[1].type] \in ThreadRecords
  BY <1>3 DEF ThreadRecords, Pcs
<1>6. tokens' = [tokens EXCEPT ![inbox[1].request] = t]
  BY <1>2 DEF Create
<1> QED
  BY <1>1, <1>2, <1>3, <1>4, <1>5, <1>6, ThreadShape

LEMMA LookUpTakes ==
  ASSUME TypeOK, LookUp
  PROVE  /\ Head(inbox) = inbox[1] /\ Head(inbox).request \in Requests
         /\ Len(inbox) \in Nat \ {0} /\ inbox' = Tail(inbox)
<1>1. inbox \in Seq(Messages) /\ inbox # <<>> /\ inbox' = Tail(inbox)
  BY DEF TypeOK, LookUp, Messages
<1>2. Head(inbox) = inbox[1] /\ inbox[1] \in Messages /\ Len(inbox) \in Nat \ {0}
  BY <1>1
<1> QED
  BY <1>1, <1>2 DEF Messages

\* The thread just created is started.
LEMMA StartMoves ==
  ASSUME TypeOK, Start
  PROVE  current \in Threads /\ Moves(current, "run")
<1>1. current \in Threads
  BY DEF TypeOK, Start
<1>2. thread' = [thread EXCEPT ![current].pc = "run"]
  BY DEF Start
<1> QED
  BY <1>1, <1>2, ThreadShape DEF Moves, ThreadRecords, Pcs

\* Where each step of a thread leads.
LEMMA ThreadMoves ==
  ASSUME TypeOK, NEW t \in Threads, ThreadStep(t)
  PROVE  \E pc \in Tracked \cup {"snapshot", "publish", "over"} : Moves(t, pc) /\ pc # "created"
<1>1. ASSUME NEW pc \in Pcs \ {"unborn", "created"}, Goto(t, pc)
      PROVE  \E p \in Tracked \cup {"snapshot", "publish", "over"} : Moves(t, p) /\ p # "created"
  <2>1. Moves(t, pc)
    BY <1>1, GotoMoves DEF Pcs
  <2> QED
    BY <1>1, <2>1 DEF Pcs, Tracked
<1> QED
  BY <1>1 DEF ThreadStep, UnknownSkill, Contribute, ContributeRaises, Coordinate, Forget, ForgetSnapshot,
              ForgetPublish, Pcs

\* What the head sends is appended, once or twice.
Appends(r, n, m) ==
    /\ r \in Seq(Messages)
    /\ Len(r) = Len(inbox) + n
    /\ \A i \in 1 .. Len(r) : r[i] = IF i <= Len(inbox) THEN inbox[i] ELSE m

LEMMA Appended ==
  ASSUME TypeOK, NEW m \in Messages, NEW n \in {1, 2}
  PROVE  Appends(inbox \o [i \in 1 .. n |-> m], n, m)
<1> DEFINE e == [i \in 1 .. n |-> m]
           r == inbox \o e
<1>0. inbox \in Seq(Messages)
  BY DEF TypeOK, Messages
<1>1. e \in Seq(Messages) /\ Len(e) = n
  <2>1. e \in [1 .. n -> Messages]
    OBVIOUS
  <2>2. n \in Nat
    OBVIOUS
  <2> QED
    BY <2>1, <2>2
<1>2. \A i \in 1 .. n : e[i] = m
  OBVIOUS
<1> HIDE DEF e
<1>3. r \in Seq(Messages) /\ Len(r) = Len(inbox) + n
  BY <1>0, <1>1
<1>4. ASSUME NEW i \in 1 .. Len(r) PROVE r[i] = IF i <= Len(inbox) THEN inbox[i] ELSE m
  <2>1. CASE i <= Len(inbox)
    BY <1>0, <1>1, <1>3, <2>1
  <2>2. CASE ~(i <= Len(inbox))
    <3>1. i - Len(inbox) \in 1 .. n
      BY <1>0, <1>3, <2>2
    <3>2. r[i] = e[i - Len(inbox)]
      BY <1>0, <1>1, <1>3, <2>2
    <3> QED
      BY <2>2, <3>1, <3>2, <1>2
  <2> QED
    BY <2>1, <2>2
<1> HIDE DEF r
<1>5. Appends(r, n, m)
  BY <1>3, <1>4 DEF Appends
<1> QED
  BY <1>5 DEF r, e

LEMMA DispatchAppends ==
  ASSUME TypeOK, NEW q \in Requests, Dispatch(q)
  PROVE  \E n \in Deliveries("dispatch"), k \in Kinds :
            /\ sent[q] = None /\ sent' = [sent EXCEPT ![q] = k]
            /\ inbox' \in Seq(Messages)
            /\ Len(inbox') = Len(inbox) + n
            /\ \A i \in 1 .. Len(inbox') :
                  inbox'[i] = IF i <= Len(inbox) THEN inbox[i] ELSE [type |-> k, request |-> q]
<1>1. PICK k \in Kinds : /\ sent' = [sent EXCEPT ![q] = k]
                         /\ \E n \in Deliveries("dispatch") :
                              inbox' = inbox \o [i \in 1 .. n |-> [type |-> k, request |-> q]]
  BY DEF Dispatch
<1>2. PICK n \in Deliveries("dispatch") : inbox' = inbox \o [i \in 1 .. n |-> [type |-> k, request |-> q]]
  BY <1>1
<1>3. n \in {1, 2}
  BY DEF Deliveries
<1>4. PICK m \in Messages : m = [type |-> k, request |-> q]
  BY DEF Messages
<1>5. inbox' = inbox \o [i \in 1 .. n |-> m]
  BY <1>2, <1>4
<1>6. Appends(inbox \o [i \in 1 .. n |-> m], n, m)
  BY <1>3, Appended
<1>7. Appends(inbox', n, m)
  BY <1>5, <1>6
<1>8. /\ inbox' \in Seq(Messages)
      /\ Len(inbox') = Len(inbox) + n
      /\ \A i \in 1 .. Len(inbox') :
            inbox'[i] = IF i <= Len(inbox) THEN inbox[i] ELSE [type |-> k, request |-> q]
  BY <1>4, <1>7 DEF Appends
<1>9. sent[q] = None
  BY DEF Dispatch
<1> QED
  BY <1>1, <1>8, <1>9

LEMMA CancelAppends ==
  ASSUME TypeOK, NEW q \in Requests, Cancel(q)
  PROVE  \E n \in {1, 2} :
            /\ inbox' \in Seq(Messages)
            /\ Len(inbox') = Len(inbox) + n
            /\ \A i \in 1 .. Len(inbox') :
                  inbox'[i] = IF i <= Len(inbox) THEN inbox[i] ELSE [type |-> "skill_cancel", request |-> q]
<1>1. PICK n \in Deliveries("skill_cancel") :
         inbox' = inbox \o [i \in 1 .. n |-> [type |-> "skill_cancel", request |-> q]]
  BY DEF Cancel
<1>2. n \in {1, 2}
  BY DEF Deliveries
<1>3. PICK m \in Messages : m = [type |-> "skill_cancel", request |-> q]
  BY DEF Messages
<1>4. inbox' = inbox \o [i \in 1 .. n |-> m]
  BY <1>1, <1>3
<1>5. Appends(inbox \o [i \in 1 .. n |-> m], n, m)
  BY <1>2, Appended
<1>6. Appends(inbox', n, m)
  BY <1>4, <1>5
<1> QED
  BY <1>2, <1>6, <1>3 DEF Appends

LEMMA TailShifts ==
  ASSUME NEW S, NEW s \in Seq(S), s # <<>>
  PROVE  /\ Tail(s) \in Seq(S) /\ Len(Tail(s)) = Len(s) - 1 /\ Len(s) \in Nat \ {0}
         /\ \A i \in 1 .. Len(Tail(s)) : Tail(s)[i] = s[i + 1] /\ i + 1 \in 1 .. Len(s)
OBVIOUS

-----------------------------------------------------------------------------
(* What holds whatever is received twice                                     *)

LEMMA BaseInit == Init => BaseInv
<1> SUFFICES ASSUME Init PROVE BaseInv
  OBVIOUS
<1> USE ConstantsAssumption
<1>1. TypeOK
  BY DEF Init, TypeOK, Publishers
<1>2. SnapshotsTaken /\ BornForRequest /\ CallbacksKept /\ AnswersGiven
  BY DEF Init, SnapshotsTaken, BornForRequest, CallbacksKept, AnswersGiven, Done
<1> QED
  BY <1>1, <1>2 DEF BaseInv

\* The type invariant by groups of variables, as the actions change them.
HeadTypes == sent \in [Requests -> Kinds \cup {None}] /\ cancelSent \subseteq Requests /\ inbox \in Seq(Messages)
RouterTypes ==
    /\ router \in {"idle", "snapshot", "publish", "fire"}
    /\ current \in Threads \cup {None}
    /\ current = None <=> router = "idle"
    /\ cancelled \subseteq Requests

RegistryTypes == tokens \in [Requests -> Threads \cup {None}] /\ thread \in [Threads -> ThreadRecords]
TokenTypes ==
    /\ event \in [Threads -> BOOLEAN]
    /\ callbacks \in [Threads -> 0 .. MaxCallbacks]
    /\ asked \in [Threads -> 0 .. MaxCallbacks]
    /\ ran \in [Threads -> 0 .. MaxCallbacks]

MapperTypes ==
    /\ snapshots \in [Publishers -> (SUBSET Requests) \cup {None}]
    /\ published \subseteq Requests

AnswerTypes == answers \in [Threads -> Seq({"ok", "error"})]

LEMMA TypeParts == TypeOK <=> HeadTypes /\ RouterTypes /\ RegistryTypes /\ TokenTypes /\ MapperTypes /\ AnswerTypes
BY DEF TypeOK, HeadTypes, RouterTypes, RegistryTypes, TokenTypes, MapperTypes, AnswerTypes, Messages, ThreadRecords, Pcs

LEMMA TypePartsNext ==
  TypeOK' <=> HeadTypes' /\ RouterTypes' /\ RegistryTypes' /\ TokenTypes' /\ MapperTypes' /\ AnswerTypes'
BY DEF TypeOK, HeadTypes, RouterTypes, RegistryTypes, TokenTypes, MapperTypes, AnswerTypes, Messages, ThreadRecords, Pcs

\* What arrives, and what the router takes, are messages.
LEMMA HeadTypesStep == BaseInv /\ [Next]_vars => HeadTypes'
<1> SUFFICES ASSUME TypeOK, [Next]_vars PROVE HeadTypes'
  BY DEF BaseInv
<1>0. HeadTypes
  BY TypeParts
<1>1. ASSUME NEW q \in Requests, Dispatch(q) PROVE HeadTypes'
  BY <1>0, <1>1, DispatchAppends, ZenonT(60) DEF HeadTypes, Dispatch
<1>2. ASSUME NEW q \in Requests, Cancel(q) PROVE HeadTypes'
  BY <1>0, <1>2, CancelAppends DEF HeadTypes, Cancel
<1>3. ASSUME inbox # <<>>, inbox' = Tail(inbox), UNCHANGED headVars PROVE HeadTypes'
  BY <1>0, <1>3, TailShifts DEF HeadTypes, headVars
<1>4. ASSUME UNCHANGED headVars, UNCHANGED inbox PROVE HeadTypes'
  BY <1>0, <1>4 DEF HeadTypes, headVars
<1> QED
  BY <1>1, <1>2, <1>3, <1>4
  DEF Next, vars, RouterStep, Create, CreateSnapshot, Start, LookUp, Fire, ThreadStep, UnknownSkill, Contribute,
      ContributeRaises, OnCancel, Coordinate, Forget, ForgetSnapshot, ForgetPublish

\* The router works on a token exactly while it is not idle.
LEMMA RouterTypesStep == BaseInv /\ [Next]_vars => RouterTypes'
<1> SUFFICES ASSUME TypeOK, BornForRequest, [Next]_vars PROVE RouterTypes'
  BY DEF BaseInv
<1> USE ConstantsAssumption
<1>0. RouterTypes /\ HeadTypes /\ RegistryTypes
  BY TypeParts
<1>1. ASSUME CreateSnapshot \/ Start \/ \E t \in Threads : Create(t) PROVE RouterTypes'
  BY <1>0, <1>1 DEF RouterTypes, Create, CreateSnapshot, Start
<1>2. ASSUME LookUp PROVE RouterTypes'
  <2>1. Head(inbox).request \in Requests
    BY <1>2, LookUpTakes
  <2> QED
    BY <1>0, <1>2, <2>1 DEF RouterTypes, RegistryTypes, LookUp
<1>3. ASSUME Fire PROVE RouterTypes'
  BY <1>0, <1>3 DEF RouterTypes, Fire, BornForRequest
<1>4. ASSUME UNCHANGED <<router, current, cancelled>> PROVE RouterTypes'
  BY <1>0, <1>4 DEF RouterTypes
<1> QED
  BY <1>1, <1>2, <1>3, <1>4
  DEF Next, vars, RouterStep, Dispatch, Cancel, ThreadStep, UnknownSkill, Contribute, ContributeRaises,
      OnCancel, Coordinate, Forget, ForgetSnapshot, ForgetPublish

LEMMA RegistryTypesStep == BaseInv /\ [Next]_vars => RegistryTypes'
<1> SUFFICES ASSUME TypeOK, [Next]_vars PROVE RegistryTypes'
  BY DEF BaseInv
<1>0. RegistryTypes
  BY TypeParts
<1>1. ASSUME NEW t \in Threads, Create(t) PROVE RegistryTypes'
  BY <1>1, CreateBears DEF RegistryTypes
<1>2. ASSUME Start PROVE RegistryTypes'
  BY <1>0, <1>2, StartMoves DEF RegistryTypes, Moves, Start
<1>3. ASSUME NEW t \in Threads, ThreadStep(t) PROVE RegistryTypes'
  <2>1. tokens' \in [Requests -> Threads \cup {None}]
    BY <1>0, <1>3 DEF RegistryTypes, ThreadStep, UnknownSkill, Contribute, ContributeRaises, Coordinate,
       Forget, ForgetSnapshot, ForgetPublish
  <2> QED
    BY <1>3, <2>1, ThreadMoves DEF RegistryTypes, Moves
<1>4. ASSUME UNCHANGED <<tokens, thread>> PROVE RegistryTypes'
  BY <1>0, <1>4 DEF RegistryTypes
<1> QED
  BY <1>1, <1>2, <1>3, <1>4
  DEF Next, vars, RouterStep, Dispatch, Cancel, CreateSnapshot, LookUp, Fire, OnCancel

\* A callback is counted once when it is registered and once when it is started.
LEMMA CallbacksStep == BaseInv /\ [Next]_vars => TokenTypes' /\ CallbacksKept'
<1> SUFFICES ASSUME TypeOK, CallbacksKept, [Next]_vars PROVE TokenTypes' /\ CallbacksKept'
  BY DEF BaseInv
<1>0. TokenTypes /\ RouterTypes
  BY TypeParts
<1>1. ASSUME Fire PROVE TokenTypes' /\ CallbacksKept'
  <2>1. current \in Threads
    BY <1>0, <1>1 DEF RouterTypes, Fire
  <2>2. ran'[current] = asked[current] /\ \A t \in Threads \ {current} : ran'[t] = ran[t] /\ event'[t] = event[t]
    BY <1>0, <1>1, <2>1 DEF TokenTypes, CallbacksKept, Fire
  <2>3. event'[current] = TRUE /\ UNCHANGED <<callbacks, asked>>
    BY <1>0, <1>1, <2>1 DEF TokenTypes, Fire
  <2>4. ran' \in [Threads -> 0 .. MaxCallbacks]
    <3>1. ran' = [ran EXCEPT ![current] = ran'[current]]
      BY <1>0, <1>1, <2>1 DEF TokenTypes, Fire
    <3>2. asked[current] \in 0 .. MaxCallbacks
      BY <1>0, <2>1 DEF TokenTypes
    <3> QED
      BY <1>0, <2>2, <3>1, <3>2 DEF TokenTypes
  <2>5. event' \in [Threads -> BOOLEAN]
    BY <1>0, <1>1 DEF TokenTypes, Fire
  <2> QED
    BY <1>0, <2>2, <2>3, <2>4, <2>5 DEF TokenTypes, CallbacksKept
<1>2. ASSUME NEW t \in Threads, OnCancel(t) PROVE TokenTypes' /\ CallbacksKept'
  BY <1>0, <1>2, ConstantsAssumption DEF TokenTypes, CallbacksKept, OnCancel
<1>3. ASSUME UNCHANGED tokenVars PROVE TokenTypes' /\ CallbacksKept'
  BY <1>0, <1>3 DEF TokenTypes, CallbacksKept, tokenVars
<1> QED
  BY <1>1, <1>2, <1>3
  DEF Next, vars, RouterStep, Dispatch, Cancel, Create, CreateSnapshot, Start, LookUp, ThreadStep, UnknownSkill,
      Contribute, ContributeRaises, Coordinate, Forget, ForgetSnapshot, ForgetPublish

\* A publisher writes the snapshot it took.
LEMMA SnapshotsStep == BaseInv /\ [Next]_vars => MapperTypes' /\ SnapshotsTaken'
<1> SUFFICES ASSUME TypeOK, BornForRequest, SnapshotsTaken, [Next]_vars PROVE MapperTypes' /\ SnapshotsTaken'
  BY DEF BaseInv
<1>0. MapperTypes
  BY TypeParts
<1>1. InFlight \in SUBSET Requests
  BY DEF InFlight
<1> USE ConstantsAssumption DEF Publishers
<1>2. ASSUME NEW t \in Threads, Create(t) PROVE MapperTypes' /\ SnapshotsTaken'
  <2>1. UNCHANGED <<snapshots, published>> /\ router' # "publish"
    BY <1>2 DEF Create
  <2> QED
    BY <1>0, <1>2, <2>1, CreateBears DEF MapperTypes, SnapshotsTaken
<1>3. ASSUME CreateSnapshot PROVE MapperTypes' /\ SnapshotsTaken'
  BY <1>0, <1>1, <1>3 DEF MapperTypes, SnapshotsTaken, CreateSnapshot, TakeSnapshot
<1>4. ASSUME Start PROVE MapperTypes' /\ SnapshotsTaken'
  <2>1. snapshots["router"] \in SUBSET Requests /\ router' # "publish"
    BY <1>4 DEF SnapshotsTaken, Start
  <2>2. \A t \in Threads : snapshots'[t] = snapshots[t]
    BY <1>0, <1>4 DEF MapperTypes, Start, WriteSnapshot
  <2>3. \A t \in Threads : thread'[t].pc = "publish" => thread[t].pc = "publish"
    BY <1>4, StartMoves DEF Moves
  <2> QED
    BY <1>0, <1>4, <2>1, <2>2, <2>3 DEF MapperTypes, SnapshotsTaken, Start, WriteSnapshot
<1>5. ASSUME NEW t \in Threads, ForgetSnapshot(t) PROVE MapperTypes' /\ SnapshotsTaken'
  <2>1. Moves(t, "publish")
    BY <1>5, GotoMoves DEF ForgetSnapshot, Pcs
  <2>2. snapshots'[t] = InFlight /\ \A p \in Publishers \ {t} : snapshots'[p] = snapshots[p]
    BY <1>0, <1>5 DEF MapperTypes, ForgetSnapshot, TakeSnapshot
  <2>3. \A u \in Threads : thread'[u].pc = "publish" => u = t \/ thread[u].pc = "publish"
    BY <2>1 DEF Moves
  <2>4. MapperTypes'
    BY <1>0, <1>1, <1>5 DEF MapperTypes, ForgetSnapshot, TakeSnapshot
  <2>5. SnapshotsTaken'
    BY <1>1, <1>5, <2>2, <2>3 DEF SnapshotsTaken, ForgetSnapshot
  <2> QED
    BY <2>4, <2>5
<1>6. ASSUME NEW t \in Threads, ForgetPublish(t) PROVE MapperTypes' /\ SnapshotsTaken'
  <2>1. Moves(t, "over")
    BY <1>6, GotoMoves DEF ForgetPublish, Pcs
  <2>2. snapshots[t] \in SUBSET Requests /\ \A p \in Publishers \ {t} : snapshots'[p] = snapshots[p]
    BY <1>0, <1>6 DEF MapperTypes, SnapshotsTaken, ForgetPublish, WriteSnapshot
  <2>3. \A u \in Threads : thread'[u].pc = "publish" => u # t /\ thread[u].pc = "publish"
    BY <2>1 DEF Moves
  <2>4. MapperTypes'
    BY <1>0, <1>6, <2>2 DEF MapperTypes, ForgetPublish, WriteSnapshot
  <2>5. SnapshotsTaken'
    BY <1>6, <2>2, <2>3 DEF SnapshotsTaken, ForgetPublish
  <2> QED
    BY <2>4, <2>5
<1>7. ASSUME UNCHANGED <<snapshots, published>>, router' = "publish" => router = "publish",
             \A t \in Threads : thread'[t].pc = "publish" => thread[t].pc = "publish"
      PROVE  MapperTypes' /\ SnapshotsTaken'
  BY <1>0, <1>7 DEF MapperTypes, SnapshotsTaken
<1>8. ASSUME NEW t \in Threads, UnknownSkill(t) \/ Contribute(t) \/ ContributeRaises(t) \/ Coordinate(t) \/ Forget(t)
      PROVE  MapperTypes' /\ SnapshotsTaken'
  <2>1. \E pc \in Pcs \ {"publish"} : Goto(t, pc)
    BY <1>8 DEF UnknownSkill, Contribute, ContributeRaises, Coordinate, Forget, Pcs
  <2>2. \E pc \in Pcs \ {"publish"} : Moves(t, pc)
    BY <2>1, GotoMoves
  <2>3. \A u \in Threads : thread'[u].pc = "publish" => thread[u].pc = "publish"
    BY <2>2 DEF Moves
  <2> QED
    BY <1>7, <1>8, <2>3 DEF UnknownSkill, Contribute, ContributeRaises, Coordinate, Forget
<1> QED
  BY <1>2, <1>3, <1>4, <1>5, <1>6, <1>7, <1>8
  DEF Next, vars, RouterStep, Dispatch, Cancel, LookUp, Fire, ThreadStep, OnCancel

\* A thread keeps the request it was born for, and only the finally clause
\* takes a token away.
LEMMA BornStep == BaseInv /\ [Next]_vars => BornForRequest'
<1> SUFFICES ASSUME TypeOK, BornForRequest, [Next]_vars PROVE BornForRequest'
  BY DEF BaseInv
<1> USE ConstantsAssumption
<1>0. RouterTypes /\ RegistryTypes /\ HeadTypes
  BY TypeParts
<1>1. ASSUME NEW t \in Threads, Create(t) PROVE BornForRequest'
  <2>1. thread[t].pc = "unborn" /\ router = "idle" /\ router' = "snapshot" /\ current' = t
    BY <1>1 DEF Create
  <2>2. \A q \in Requests : tokens[q] # None => thread[tokens[q]].request = q
    BY DEF BornForRequest
  <2>3. \A q \in Requests : tokens[q] # t
    BY <2>1, <2>2 DEF BornForRequest
  <2>4. ASSUME NEW q \in Requests, tokens'[q] # None PROVE thread'[tokens'[q]].request = q
    BY <1>0, <1>1, <2>2, <2>3, <2>4, CreateBears DEF RegistryTypes
  <2>5. ASSUME NEW u \in Threads
        PROVE  /\ thread'[u].pc = "unborn" <=> thread'[u].request = None
               /\ thread'[u].pc # "unborn" => thread'[u].kind \in Kinds
               /\ thread'[u].pc = "coordinate" => thread'[u].kind = "skill_coordinate"
    BY <1>1, CreateBears DEF BornForRequest
  <2> QED
    BY <1>1, <2>1, <2>4, <2>5, CreateBears DEF BornForRequest
<1>2. ASSUME Start PROVE BornForRequest'
  <2>1. current \in Threads /\ Moves(current, "run") /\ thread[current].pc = "created"
    BY <1>2, StartMoves DEF BornForRequest, Start
  <2>2. \A t \in Threads : thread'[t].request = thread[t].request
    BY <2>1 DEF Moves
  <2> QED
    BY <1>0, <1>2, <2>1, <2>2 DEF BornForRequest, RegistryTypes, Moves, Start
<1>3. ASSUME NEW t \in Threads, ThreadStep(t) PROVE BornForRequest'
  <2>1. PICK pc \in Tracked \cup {"snapshot", "publish", "over"} : Moves(t, pc) /\ pc # "created"
    BY <1>3, ThreadMoves
  <2>2. thread[t].pc \notin {"unborn", "created"} /\ UNCHANGED <<router, current>>
    BY <1>3 DEF ThreadStep, UnknownSkill, Contribute, ContributeRaises, Coordinate, Forget, ForgetSnapshot,
       ForgetPublish
  <2>3. \A u \in Threads : thread'[u].request = thread[u].request /\ thread'[u].kind = thread[u].kind
    BY <2>1 DEF Moves
  <2>4. thread'[t].pc = "coordinate" => thread[t].kind = "skill_coordinate"
    <3>1. CASE Contribute(t)
      BY <1>0, <3>1 DEF Contribute, Goto, RegistryTypes, ThreadRecords
    <3>2. CASE ~Contribute(t)
      <4>1. \E p \in Pcs \ {"coordinate"} : Goto(t, p)
        BY <1>3, <3>2 DEF ThreadStep, UnknownSkill, ContributeRaises, Coordinate, Forget, ForgetSnapshot,
           ForgetPublish, Pcs
      <4> QED
        BY <4>1, GotoMoves DEF Moves
    <3> QED
      BY <3>1, <3>2
  <2>5. \A q \in Requests : tokens'[q] # None => tokens'[q] = tokens[q]
    BY <1>0, <1>3 DEF RegistryTypes, ThreadStep, UnknownSkill, Contribute, ContributeRaises, Coordinate, Forget,
       ForgetSnapshot, ForgetPublish
  <2>6. ASSUME NEW q \in Requests, tokens'[q] # None PROVE thread'[tokens'[q]].request = q
    BY <1>0, <2>3, <2>5, <2>6 DEF BornForRequest, RegistryTypes
  <2>7. ASSUME NEW u \in Threads
        PROVE  /\ thread'[u].pc = "unborn" <=> thread'[u].request = None
               /\ thread'[u].pc # "unborn" => thread'[u].kind \in Kinds
               /\ thread'[u].pc = "coordinate" => thread'[u].kind = "skill_coordinate"
    <3>1. CASE u = t
      BY <2>1, <2>2, <2>3, <2>4, <3>1 DEF BornForRequest, Moves, Tracked
    <3>2. CASE u # t
      BY <2>1, <3>2 DEF BornForRequest, Moves
    <3> QED
      BY <3>1, <3>2
  <2>8. router' = "fire" => thread'[current'].request \in Requests
    BY <1>0, <2>2, <2>3 DEF BornForRequest, RouterTypes
  <2>9. router' \in {"snapshot", "publish"} => thread'[current'].pc = "created"
    BY <1>0, <2>1, <2>2 DEF BornForRequest, RouterTypes, Moves
  <2> QED
    BY <2>6, <2>7, <2>8, <2>9 DEF BornForRequest
<1>4. ASSUME UNCHANGED <<tokens, thread, router, current>> PROVE BornForRequest'
  BY <1>4 DEF BornForRequest
<1>5. ASSUME CreateSnapshot \/ Fire PROVE BornForRequest'
  BY <1>5 DEF BornForRequest, CreateSnapshot, Fire
<1>6. ASSUME LookUp PROVE BornForRequest'
  <2>1. Head(inbox).request \in Requests
    BY <1>6, LookUpTakes
  <2> QED
    BY <1>6, <2>1 DEF BornForRequest, LookUp
<1> QED
  BY <1>1, <1>2, <1>3, <1>4, <1>5, <1>6
  DEF Next, vars, RouterStep, Dispatch, Cancel, OnCancel

\* A thread answers once, on its way to its finally clause.
LEMMA AnswersStep == BaseInv /\ [Next]_vars => AnswerTypes' /\ AnswersGiven'
<1> SUFFICES ASSUME TypeOK, BornForRequest, AnswersGiven, [Next]_vars PROVE AnswerTypes' /\ AnswersGiven'
  BY DEF BaseInv
<1>0. AnswerTypes /\ RegistryTypes
  BY TypeParts
<1>1. ASSUME NEW t \in Threads, NEW status \in {"ok", "error"}, Answer(t, status), Goto(t, "forget"),
             thread[t].pc \in {"run", "coordinate"},
             thread[t].kind = "skill_contribute" => status = "error"
      PROVE  AnswerTypes' /\ AnswersGiven'
  <2>1. Moves(t, "forget")
    BY <1>1, GotoMoves DEF Pcs
  <2>2. answers[t] = <<>>
    BY <1>1 DEF AnswersGiven, Done
  <2>3. answers'[t] = <<status>> /\ \A u \in Threads \ {t} : answers'[u] = answers[u]
    BY <1>0, <1>1, <2>2 DEF AnswerTypes, Answer
  <2>4. AnswerTypes'
    BY <1>0, <1>1 DEF AnswerTypes, Answer
  <2> QED
    BY <1>1, <2>1, <2>3, <2>4 DEF AnswersGiven, Moves, Done
<1>2. ASSUME NEW t \in Threads, Contribute(t) PROVE AnswerTypes' /\ AnswersGiven'
  <2>1. thread[t].kind \in {"skill_contribute", "skill_coordinate"} /\ answers[t] = <<>> /\ UNCHANGED answers
    BY <1>2 DEF Contribute, BornForRequest, AnswersGiven, Done, Kinds
  <2>2. CASE thread[t].kind = "skill_coordinate"
    <3>1. Moves(t, "coordinate")
      BY <1>2, <2>2, GotoMoves DEF Contribute, Pcs
    <3> QED
      BY <1>0, <2>1, <3>1 DEF AnswerTypes, AnswersGiven, Moves, Done
  <2>3. CASE thread[t].kind = "skill_contribute"
    <3>1. Moves(t, "forget")
      BY <1>2, <2>3, GotoMoves DEF Contribute, Pcs
    <3> QED
      BY <1>0, <2>1, <2>3, <3>1 DEF AnswerTypes, AnswersGiven, Moves, Done
  <2> QED
    BY <2>1, <2>2, <2>3
<1>3. ASSUME NEW t \in Threads, NEW pc \in Pcs, Moves(t, pc), UNCHANGED answers,
             pc \in Done <=> thread[t].pc \in Done
      PROVE  AnswerTypes' /\ AnswersGiven'
  BY <1>0, <1>3 DEF AnswerTypes, AnswersGiven, Moves
<1>4. ASSUME NEW t \in Threads, UnknownSkill(t) \/ ContributeRaises(t) PROVE AnswerTypes' /\ AnswersGiven'
  BY <1>1, <1>4 DEF UnknownSkill, ContributeRaises
<1>5. ASSUME NEW t \in Threads, Coordinate(t) PROVE AnswerTypes' /\ AnswersGiven'
  BY <1>1, <1>5 DEF Coordinate, BornForRequest
<1>6. ASSUME NEW t \in Threads, Forget(t) \/ ForgetSnapshot(t) \/ ForgetPublish(t) PROVE AnswerTypes' /\ AnswersGiven'
  <2>1. UNCHANGED answers /\ thread[t].pc \in Done /\ \E pc \in {"snapshot", "publish", "over"} : Goto(t, pc)
    BY <1>6 DEF Forget, ForgetSnapshot, ForgetPublish, Done
  <2> QED
    BY <1>3, <2>1, GotoMoves DEF Done, Pcs
<1>7. ASSUME Start PROVE AnswerTypes' /\ AnswersGiven'
  <2>1. thread[current].pc = "created" /\ UNCHANGED answers
    BY <1>7 DEF BornForRequest, Start
  <2>2. PICK t \in Threads : t = current /\ Moves(t, "run")
    BY <1>7, StartMoves DEF Moves
  <2>3. "run" \in Pcs /\ ("run" \in Done <=> thread[t].pc \in Done)
    BY <2>1, <2>2 DEF Done, Pcs
  <2> QED
    BY <1>3, <2>1, <2>2, <2>3
<1>8. ASSUME NEW t \in Threads, Create(t) PROVE AnswerTypes' /\ AnswersGiven'
  <2>1. thread[t].pc = "unborn" /\ answers' = answers
    BY <1>8 DEF Create
  <2>2. thread'[t].pc \notin Done /\ answers'[t] = <<>>
    BY <1>8, <2>1, CreateBears DEF AnswersGiven, Done
  <2>3. \A u \in Threads \ {t} : thread'[u] = thread[u]
    BY <1>8, CreateBears
  <2>4. AnswerTypes'
    BY <1>0, <2>1 DEF AnswerTypes
  <2> QED
    BY <2>1, <2>2, <2>3, <2>4 DEF AnswersGiven
<1>9. ASSUME UNCHANGED <<answers, thread>> PROVE AnswerTypes' /\ AnswersGiven'
  BY <1>0, <1>9 DEF AnswerTypes, AnswersGiven
<1> QED
  BY <1>2, <1>4, <1>5, <1>6, <1>7, <1>8, <1>9
  DEF Next, vars, RouterStep, Dispatch, Cancel, CreateSnapshot, LookUp, Fire, ThreadStep, OnCancel

LEMMA BaseStep == BaseInv /\ [Next]_vars => BaseInv'
BY HeadTypesStep, RouterTypesStep, RegistryTypesStep, CallbacksStep, SnapshotsStep, BornStep, AnswersStep,
   TypePartsNext DEF BaseInv

\* Types, snapshots, callbacks and answers are as they should be whatever is
\* received twice, for any number of requests and threads.
THEOREM BaseInvariant == Spec => []BaseInv
  BY BaseInit, BaseStep, PTL DEF Spec

\* Every on_cancel callback is started exactly once, at the cancel or at its
\* registration if that comes later, even if dispatches and cancels are
\* received twice.
THEOREM CallbacksStartOnce == Spec => []CallbacksOnce
<1>1. BaseInv => CallbacksOnce
  BY DEF BaseInv, CallbacksKept, CallbacksOnce, TypeOK
<1> QED
  BY <1>1, BaseInvariant, PTL

\* A coordinator's dispatch is answered exactly once before its work ends,
\* whatever raises inside the skill, and a contributor answers only to report
\* that it failed, even if dispatches and cancels are received twice.
THEOREM AnswersOnce == Spec => []AnsweredOnce
<1>1. BaseInv => AnsweredOnce
  <2> SUFFICES ASSUME BaseInv, NEW t \in Threads
               PROVE  IF thread[t].kind = "skill_contribute"
                        THEN answers[t] \in {<<>>, <<"error">>}
                        ELSE Len(answers[t]) = IF thread[t].pc \in Done THEN 1 ELSE 0
    BY DEF AnsweredOnce, Done
  <2>1. CASE thread[t].pc \notin Done
    BY <2>1 DEF BaseInv, AnswersGiven
  <2>2. CASE thread[t].pc \in Done /\ answers[t] = <<>>
    <3>1. thread[t].kind = "skill_contribute"
      BY <2>2 DEF BaseInv, AnswersGiven
    <3> QED
      BY <2>2, <3>1
  <2>3. CASE thread[t].pc \in Done /\ answers[t] # <<>>
    <3>1. PICK status \in {"ok", "error"} :
             answers[t] = <<status>> /\ (thread[t].kind = "skill_contribute" => status = "error")
      BY <2>3 DEF BaseInv, AnswersGiven
    <3> QED
      BY <2>3, <3>1
  <2> QED
    BY <2>1, <2>2, <2>3
<1> QED
  BY <1>1, BaseInvariant, PTL

-----------------------------------------------------------------------------
(* What holds if a dispatch is received once                                 *)

\* Requests, sends and cancels handled stay put, and the inbox is what it was.
LEMMA DispatchFrame ==
  ASSUME BaseInv, DispatchInv, UNCHANGED <<sent, cancelSent, inbox, cancelled>>,
         \A t \in Threads : thread'[t].request = thread[t].request
  PROVE  InboxFirst' /\ SentFirst' /\ OneThreadEach'
BY DEF DispatchInv, InboxFirst, SentFirst, OneThreadEach

\* The head dispatches a request that is new here.
LEMMA DispatchKeeps ==
  ASSUME BaseInv, DispatchInv, "dispatch" \notin Redelivered, NEW q \in Requests, Dispatch(q)
  PROVE  DispatchInv'
<1>1. PICK k \in Kinds :
         /\ sent[q] = None /\ sent' = [sent EXCEPT ![q] = k]
         /\ Len(inbox') = Len(inbox) + 1
         /\ \A i \in 1 .. Len(inbox') :
               inbox'[i] = IF i <= Len(inbox) THEN inbox[i] ELSE [type |-> k, request |-> q]
  BY DispatchAppends, ZenonT(60) DEF BaseInv, Deliveries
<1>2. UNCHANGED <<cancelSent, cancelled, thread, tokens, event>>
  BY DEF Dispatch, tokenVars
<1>3. Len(inbox) \in Nat /\ (\A i \in 1 .. Len(inbox) : inbox[i].request \in Requests) /\ k # None
      /\ sent \in [Requests -> Kinds \cup {None}]
  <2>1. inbox \in Seq(Messages) /\ sent \in [Requests -> Kinds \cup {None}]
    BY DEF BaseInv, TypeOK, Messages
  <2>2. \A i \in 1 .. Len(inbox) : inbox[i] \in Messages
    BY <2>1
  <2> QED
    BY <2>1, <2>2, ConstantsAssumption DEF Messages
<1>4. \A p \in Requests : sent[p] # None => sent'[p] # None /\ p # q
  BY <1>1, <1>3
<1>5. sent'[q] # None
  BY <1>1, <1>3
<1>6. \A i \in 1 .. Len(inbox) : i \in 1 .. Len(inbox') /\ inbox'[i] = inbox[i] /\ inbox[i].request # q
  BY <1>1, <1>3, <1>4 DEF DispatchInv, SentFirst
<1>7. LET e == Len(inbox) + 1 IN e \in 1 .. Len(inbox') /\ inbox'[e].type = k /\ inbox'[e].request = q
  BY <1>1, <1>3
<1>8. \A i \in 1 .. Len(inbox') : i \in 1 .. Len(inbox) \/ i = Len(inbox) + 1
  BY <1>1, <1>3
<1>9. q \notin cancelled /\ \A t \in Threads : thread[t].request # q
  BY <1>1, <1>3, ConstantsAssumption DEF DispatchInv, SentFirst
<1>10. InboxFirst'
  <2> SUFFICES ASSUME NEW i \in 1 .. Len(inbox'), inbox'[i].type \in Kinds
               PROVE  /\ sent'[inbox'[i].request] # None
                      /\ inbox'[i].request \notin cancelled
                      /\ \A t \in Threads : thread[t].request # inbox'[i].request
                      /\ \A j \in 1 .. Len(inbox') :
                            inbox'[j].request = inbox'[i].request =>
                                IF inbox'[j].type \in Kinds THEN j = i ELSE i < j
    BY <1>2 DEF InboxFirst
  <2>1. CASE i \in 1 .. Len(inbox)
    BY <1>3, <1>4, <1>6, <1>7, <1>8, <2>1 DEF DispatchInv, InboxFirst
  <2>2. CASE i = Len(inbox) + 1
    BY <1>5, <1>6, <1>7, <1>8, <1>9, <2>2
  <2> QED
    BY <1>8, <2>1, <2>2
<1>11. SentFirst'
  <2>1. \A t \in Threads : thread[t].request # None => thread[t].request \in Requests
    BY ThreadShape DEF BaseInv
  <2>2. cancelled \cup cancelSent \subseteq Requests
    BY DEF BaseInv, TypeOK
  <2> QED
    BY <1>2, <1>3, <1>4, <1>5, <1>6, <1>7, <1>8, <2>1, <2>2 DEF DispatchInv, SentFirst
<1> QED
  BY <1>2, <1>10, <1>11 DEF DispatchInv, OneThreadEach, TokenWhileTracked, CancelNotMissed

\* The head's cancel goes behind its dispatch.
LEMMA CancelKeeps ==
  ASSUME BaseInv, DispatchInv, NEW q \in Requests, Cancel(q)
  PROVE  DispatchInv'
<1>1. PICK n \in {1, 2} :
         /\ Len(inbox') = Len(inbox) + n
         /\ \A i \in 1 .. Len(inbox') :
               inbox'[i] = IF i <= Len(inbox) THEN inbox[i] ELSE [type |-> "skill_cancel", request |-> q]
  BY CancelAppends DEF BaseInv
<1>2. UNCHANGED <<sent, cancelled, thread, tokens, event>> /\ sent[q] # None /\ cancelSent' = cancelSent \cup {q}
  BY DEF Cancel, tokenVars
<1>3. Len(inbox) \in Nat
  BY DEF BaseInv, TypeOK
<1>4. \A i \in 1 .. Len(inbox) : i \in 1 .. Len(inbox') /\ inbox'[i] = inbox[i]
  BY <1>1, <1>3
<1>5. \A i \in 1 .. Len(inbox') : i \in 1 .. Len(inbox) \/
         (i > Len(inbox) /\ inbox'[i].type \notin Kinds /\ inbox'[i].request = q)
  BY <1>1, <1>3 DEF Kinds
<1>6. InboxFirst'
  <2> SUFFICES ASSUME NEW i \in 1 .. Len(inbox'), inbox'[i].type \in Kinds
               PROVE  /\ sent[inbox'[i].request] # None
                      /\ inbox'[i].request \notin cancelled
                      /\ \A t \in Threads : thread[t].request # inbox'[i].request
                      /\ \A j \in 1 .. Len(inbox') :
                            inbox'[j].request = inbox'[i].request =>
                                IF inbox'[j].type \in Kinds THEN j = i ELSE i < j
    BY <1>2 DEF InboxFirst
  <2>1. i \in 1 .. Len(inbox)
    BY <1>5
  <2> QED
    BY <1>3, <1>4, <1>5, <2>1 DEF DispatchInv, InboxFirst
<1>7. SentFirst'
  BY <1>2, <1>4, <1>5 DEF DispatchInv, SentFirst
<1> QED
  BY <1>2, <1>6, <1>7 DEF DispatchInv, OneThreadEach, TokenWhileTracked, CancelNotMissed

\* The token is in the registry before its thread is started, and no cancel of
\* the request was handled yet.
LEMMA CreateKeeps ==
  ASSUME BaseInv, DispatchInv, NEW t \in Threads, Create(t)
  PROVE  DispatchInv'
<1> DEFINE r == inbox[1].request
<1>1. /\ UNCHANGED <<sent, cancelSent, cancelled, event>> /\ thread[t].pc = "unborn"
  BY DEF Create, headVars, tokenVars
<1>2. /\ inbox' = Tail(inbox) /\ inbox[1].type \in Kinds /\ r \in Requests
      /\ thread'[t].pc = "created" /\ thread'[t].request = r
      /\ \A u \in Threads \ {t} : thread'[u] = thread[u]
      /\ tokens'[r] = t /\ \A q \in Requests \ {r} : tokens'[q] = tokens[q]
      /\ Len(inbox) \in Nat \ {0}
  BY CreateBears DEF BaseInv
<1>3. /\ Len(inbox') = Len(inbox) - 1
      /\ \A i \in 1 .. Len(inbox') : inbox'[i] = inbox[i + 1] /\ i + 1 \in 1 .. Len(inbox) /\ i + 1 # 1
  BY <1>2, TailShifts DEF BaseInv, TypeOK
<1>4. /\ r \notin cancelled /\ sent[r] # None
      /\ \A u \in Threads : thread[u].request # r
      /\ \A j \in 1 .. Len(inbox) : inbox[j].request = r /\ inbox[j].type \in Kinds => j = 1
  <2>1. 1 \in 1 .. Len(inbox)
    BY <1>2
  <2> QED
    BY <1>2, <2>1 DEF DispatchInv, InboxFirst
<1>5. InboxFirst'
  <2> SUFFICES ASSUME NEW i \in 1 .. Len(inbox'), inbox'[i].type \in Kinds
               PROVE  /\ sent[inbox'[i].request] # None
                      /\ inbox'[i].request \notin cancelled
                      /\ \A u \in Threads : thread'[u].request # inbox'[i].request
                      /\ \A j \in 1 .. Len(inbox') :
                            inbox'[j].request = inbox'[i].request =>
                                IF inbox'[j].type \in Kinds THEN j = i ELSE i < j
    BY <1>1 DEF InboxFirst
  <2>1. inbox'[i].request # r
    BY <1>3, <1>4
  <2>2. \A u \in Threads : thread'[u].request # inbox'[i].request
    BY <1>2, <1>3, <2>1 DEF DispatchInv, InboxFirst
  <2>3. ASSUME NEW j \in 1 .. Len(inbox'), inbox'[j].request = inbox'[i].request
        PROVE  IF inbox'[j].type \in Kinds THEN j = i ELSE i < j
    <3>1. IF inbox[j + 1].type \in Kinds THEN j + 1 = i + 1 ELSE i + 1 < j + 1
      BY <1>3, <2>3 DEF DispatchInv, InboxFirst
    <3> QED
      BY <1>2, <1>3, <3>1
  <2> QED
    BY <1>3, <2>2, <2>3 DEF DispatchInv, InboxFirst
<1>6. SentFirst'
  <2>1. \A u \in Threads : thread'[u].request # None => sent[thread'[u].request] # None
    BY <1>2, <1>4 DEF DispatchInv, SentFirst
  <2> QED
    BY <1>1, <1>3, <2>1 DEF DispatchInv, SentFirst
<1>7. OneThreadEach'
  BY <1>2, <1>4 DEF DispatchInv, OneThreadEach
<1>8. TokenWhileTracked'
  <2>1. \A u \in Threads \ {t} : thread[u].pc \in Tracked => thread[u].request \in Requests \ {r}
    BY <1>4, ThreadShape DEF BaseInv, BornForRequest, Tracked
  <2>2. \A q \in Requests : tokens[q] # t
    BY <1>1, ConstantsAssumption DEF DispatchInv, TokenWhileTracked, Tracked
  <2>3. \A u \in Threads : thread'[u].pc \in Tracked => tokens'[thread'[u].request] = u
    BY <1>2, <2>1 DEF DispatchInv, TokenWhileTracked
  <2>4. ASSUME NEW q \in Requests, tokens'[q] # None PROVE thread'[tokens'[q]].pc \in Tracked
    <3>1. CASE q = r
      BY <1>2, <3>1 DEF Tracked
    <3>2. CASE q # r
      <4>1. tokens'[q] = tokens[q] /\ tokens[q] \in Threads \ {t}
        BY <1>2, <2>2, <2>4, <3>2 DEF BaseInv, TypeOK
      <4> QED
        BY <1>2, <2>4, <4>1 DEF DispatchInv, TokenWhileTracked
    <3> QED
      BY <3>1, <3>2
  <2> QED
    BY <2>3, <2>4 DEF TokenWhileTracked
<1>9. CancelNotMissed'
  BY <1>1, <1>2, <1>4 DEF DispatchInv, CancelNotMissed
<1> QED
  BY <1>5, <1>6, <1>7, <1>8, <1>9 DEF DispatchInv

\* A skill_cancel that finds no token has no work to stop, and its dispatch is
\* not in the inbox any more.
LEMMA LookUpKeeps ==
  ASSUME BaseInv, DispatchInv, LookUp
  PROVE  DispatchInv'
<1> DEFINE r == inbox[1].request
<1>1. UNCHANGED <<sent, cancelSent, event, thread, tokens>>
  BY DEF LookUp, headVars, tokenVars
<1>2. /\ Head(inbox) = inbox[1] /\ inbox' = Tail(inbox) /\ r \in Requests /\ Len(inbox) \in Nat \ {0}
      /\ inbox[1].type \notin Kinds
  BY LookUpTakes DEF BaseInv, LookUp, Kinds
<1>3. /\ Len(inbox') = Len(inbox) - 1
      /\ \A i \in 1 .. Len(inbox') : inbox'[i] = inbox[i + 1] /\ i + 1 \in 1 .. Len(inbox) /\ ~(i + 1 < 1)
  BY <1>2, TailShifts DEF BaseInv, TypeOK
<1>4. sent[r] # None /\ 1 \in 1 .. Len(inbox)
  BY <1>2 DEF DispatchInv, SentFirst
<1>5. cancelled' = cancelled \/ (cancelled' = cancelled \cup {r} /\ tokens[r] = None)
  BY <1>2 DEF LookUp
<1>6. InboxFirst'
  <2> SUFFICES ASSUME NEW i \in 1 .. Len(inbox'), inbox'[i].type \in Kinds
               PROVE  /\ sent[inbox'[i].request] # None
                      /\ inbox'[i].request \notin cancelled'
                      /\ \A u \in Threads : thread[u].request # inbox'[i].request
                      /\ \A j \in 1 .. Len(inbox') :
                            inbox'[j].request = inbox'[i].request =>
                                IF inbox'[j].type \in Kinds THEN j = i ELSE i < j
    BY <1>1 DEF InboxFirst
  <2>1. inbox'[i].request # r
    BY <1>2, <1>3, <1>4 DEF DispatchInv, InboxFirst
  <2>2. inbox'[i].request \notin cancelled'
    BY <1>3, <1>5, <2>1 DEF DispatchInv, InboxFirst
  <2>3. ASSUME NEW j \in 1 .. Len(inbox'), inbox'[j].request = inbox'[i].request
        PROVE  IF inbox'[j].type \in Kinds THEN j = i ELSE i < j
    <3>1. IF inbox[j + 1].type \in Kinds THEN j + 1 = i + 1 ELSE i + 1 < j + 1
      BY <1>3, <2>3 DEF DispatchInv, InboxFirst
    <3> QED
      BY <1>2, <1>3, <3>1
  <2> QED
    BY <1>3, <2>2, <2>3 DEF DispatchInv, InboxFirst
<1>7. SentFirst'
  BY <1>1, <1>3, <1>4, <1>5 DEF DispatchInv, SentFirst
<1>8. CancelNotMissed'
  <2> SUFFICES ASSUME NEW t \in Threads, thread[t].pc \in {"created", "run", "coordinate"},
                      thread[t].request \in cancelled'
               PROVE  event[t]
    BY <1>1 DEF CancelNotMissed
  <2>1. tokens[thread[t].request] = t
    BY DEF DispatchInv, TokenWhileTracked, Tracked
  <2>2. thread[t].request \in cancelled
    BY <1>5, <2>1, ConstantsAssumption
  <2> QED
    BY <2>2 DEF DispatchInv, CancelNotMissed
<1> QED
  BY <1>1, <1>6, <1>7, <1>8 DEF DispatchInv, OneThreadEach, TokenWhileTracked

\* The event is set before the cancel counts as handled.
LEMMA FireKeeps ==
  ASSUME BaseInv, DispatchInv, Fire
  PROVE  DispatchInv'
<1>1. /\ UNCHANGED <<sent, cancelSent, inbox, thread, tokens>> /\ current \in Threads
      /\ cancelled' = cancelled \cup {thread[current].request}
      /\ thread[current].request \in Requests /\ thread[current].request # None
  BY ConstantsAssumption DEF Fire, headVars, BaseInv, TypeOK, BornForRequest
<1>2. event'[current] /\ \A t \in Threads : event[t] => event'[t]
  BY <1>1 DEF Fire, BaseInv, TypeOK
<1>3. InboxFirst' /\ SentFirst'
  BY <1>1 DEF DispatchInv, InboxFirst, SentFirst
<1>4. CancelNotMissed'
  <2> SUFFICES ASSUME NEW t \in Threads, thread[t].pc \in {"created", "run", "coordinate"},
                      thread[t].request \in cancelled'
               PROVE  event'[t]
    BY <1>1 DEF CancelNotMissed
  <2>1. CASE thread[t].request \in cancelled
    BY <1>2, <2>1 DEF DispatchInv, CancelNotMissed
  <2>2. CASE thread[t].request = thread[current].request
    BY <1>1, <1>2, <2>2 DEF DispatchInv, OneThreadEach
  <2> QED
    BY <1>1, <2>1, <2>2
<1> QED
  BY <1>1, <1>3, <1>4 DEF DispatchInv, OneThreadEach, TokenWhileTracked

\* A thread is started, works on or publishes; its token stays where it is.
LEMMA MoveKeeps ==
  ASSUME BaseInv, DispatchInv, NEW t \in Threads, NEW pc \in Pcs, Moves(t, pc),
         pc \in Tracked <=> thread[t].pc \in Tracked,
         pc \in {"created", "run", "coordinate"} => thread[t].pc \in {"created", "run", "coordinate"},
         UNCHANGED <<sent, cancelSent, inbox, cancelled, tokens, event>>
  PROVE  DispatchInv'
<1>1. \A u \in Threads : thread'[u].request = thread[u].request /\ (thread'[u].pc \in Tracked <=> thread[u].pc \in Tracked)
  BY DEF Moves
<1>2. TokenWhileTracked'
  <2>1. \A q \in Requests : tokens[q] # None => tokens[q] \in Threads
    BY DEF BaseInv, TypeOK
  <2> QED
    BY <1>1, <2>1 DEF DispatchInv, TokenWhileTracked
<1>3. CancelNotMissed'
  BY <1>1 DEF DispatchInv, CancelNotMissed, Moves
<1> QED
  BY <1>1, <1>2, <1>3, DispatchFrame DEF DispatchInv

\* The finally clause takes its own thread's token away, no other.
LEMMA ForgetKeeps ==
  ASSUME BaseInv, DispatchInv, NEW t \in Threads, Forget(t)
  PROVE  DispatchInv'
<1> DEFINE r == thread[t].request
<1>1. /\ UNCHANGED <<sent, cancelSent, inbox, cancelled, event>> /\ thread[t].pc = "forget"
      /\ tokens' = [tokens EXCEPT ![r] = None]
  BY DEF Forget, headVars, tokenVars
<1>2. Moves(t, "snapshot")
  BY GotoMoves DEF Forget, Pcs, BaseInv
<1>3. r \in Requests /\ r # None
  BY <1>1, ThreadShape DEF BaseInv, BornForRequest
<1>4. tokens'[r] = None /\ \A q \in Requests \ {r} : tokens'[q] = tokens[q] /\ tokens[q] \in Threads \cup {None}
  BY <1>1, <1>3 DEF BaseInv, TypeOK
<1>5. \A u \in Threads : thread'[u].request = thread[u].request
  BY <1>2 DEF Moves
<1>6. TokenWhileTracked'
  <2>1. ASSUME NEW u \in Threads, thread'[u].pc \in Tracked PROVE tokens'[thread'[u].request] = u
    <3>1. u # t /\ thread[u].pc \in Tracked
      BY <1>2, <2>1 DEF Moves, Tracked
    <3>2. thread[u].request \in Requests \ {r}
      BY <1>3, <3>1, ThreadShape DEF BaseInv, BornForRequest, DispatchInv, OneThreadEach, Tracked
    <3> QED
      BY <1>4, <1>5, <3>1, <3>2 DEF DispatchInv, TokenWhileTracked
  <2>2. ASSUME NEW q \in Requests, tokens'[q] # None PROVE thread'[tokens'[q]].pc \in Tracked
    <3>1. q # r /\ tokens'[q] = tokens[q] /\ tokens[q] \in Threads
      BY <1>4, <2>2
    <3>2. tokens[q] # t
      BY <2>2, <3>1 DEF BaseInv, BornForRequest
    <3> QED
      BY <1>2, <2>2, <3>1, <3>2 DEF Moves, DispatchInv, TokenWhileTracked
  <2> QED
    BY <2>1, <2>2 DEF TokenWhileTracked
<1>7. CancelNotMissed'
  BY <1>1, <1>2 DEF Moves, DispatchInv, CancelNotMissed
<1> QED
  BY <1>1, <1>5, <1>6, <1>7, DispatchFrame DEF DispatchInv

LEMMA DispatchStep ==
  ASSUME "dispatch" \notin Redelivered
  PROVE  BaseInv /\ DispatchInv /\ [Next]_vars => DispatchInv'
<1> SUFFICES ASSUME BaseInv, DispatchInv, [Next]_vars PROVE DispatchInv'
  OBVIOUS
<1>0. TypeOK
  BY DEF BaseInv
<1>1. ASSUME Start PROVE DispatchInv'
  <2>1. current \in Threads /\ Moves(current, "run") /\ thread[current].pc = "created"
    BY <1>0, <1>1, StartMoves DEF BaseInv, BornForRequest, Start
  <2>2. UNCHANGED <<sent, cancelSent, inbox, cancelled, tokens, event>>
    BY <1>1 DEF Start, headVars, tokenVars
  <2>3. "run" \in Pcs /\ "run" \in Tracked /\ thread[current].pc \in Tracked
    BY <2>1 DEF Pcs, Tracked
  <2> QED
    BY <2>1, <2>2, <2>3, MoveKeeps
<1>2. ASSUME NEW t \in Threads,
             UnknownSkill(t) \/ Contribute(t) \/ ContributeRaises(t) \/ Coordinate(t) \/ ForgetSnapshot(t) \/ ForgetPublish(t)
      PROVE  DispatchInv'
  <2>1. UNCHANGED <<sent, cancelSent, inbox, cancelled, tokens, event>>
    BY <1>2 DEF UnknownSkill, Contribute, ContributeRaises, Coordinate, ForgetSnapshot, ForgetPublish, headVars, tokenVars
  <2>2. \E pc \in Pcs : /\ Goto(t, pc)
                        /\ pc \in Tracked <=> thread[t].pc \in Tracked
                        /\ pc \in {"created", "run", "coordinate"} => thread[t].pc \in {"created", "run", "coordinate"}
    BY <1>2 DEF UnknownSkill, Contribute, ContributeRaises, Coordinate, ForgetSnapshot, ForgetPublish, Pcs, Tracked
  <2> QED
    BY <1>0, <2>1, <2>2, GotoMoves, MoveKeeps
<1>3. ASSUME UNCHANGED <<sent, cancelSent, inbox, cancelled, tokens, event, thread>> PROVE DispatchInv'
  BY <1>3 DEF DispatchInv, InboxFirst, SentFirst, OneThreadEach, TokenWhileTracked, CancelNotMissed
<1> QED
  BY <1>1, <1>2, <1>3, DispatchKeeps, CancelKeeps, CreateKeeps, LookUpKeeps, FireKeeps, ForgetKeeps
  DEF Next, vars, headVars, tokenVars, RouterStep, CreateSnapshot, ThreadStep, OnCancel

\* As long as no dispatch is received twice: a dispatch in the inbox is the
\* first sign of its request, at most one thread ever works for a request, and
\* the registry's entry is that thread's token.
THEOREM DispatchInvariant ==
  ASSUME "dispatch" \notin Redelivered
  PROVE  Spec => []DispatchInv
<1>1. Init => DispatchInv
  <2> SUFFICES ASSUME Init PROVE DispatchInv
    OBVIOUS
  <2>1. Len(inbox) = 0 /\ cancelled \cup cancelSent = {} /\ \A t \in Threads : thread[t].request = None /\ thread[t].pc = "unborn"
    BY DEF Init
  <2> QED
    BY <2>1 DEF Init, DispatchInv, InboxFirst, SentFirst, OneThreadEach, TokenWhileTracked, Tracked, CancelNotMissed
<1>2. BaseInv /\ DispatchInv /\ [Next]_vars => DispatchInv'
  BY DispatchStep
<1> QED
  BY <1>1, <1>2, BaseInvariant, PTL DEF Spec

\* A skill_cancel handled while its request is still being worked on has set
\* that work's event, for any number of requests and threads, and even if the
\* cancel is received twice.
THEOREM NoCancelMissed ==
  ASSUME "dispatch" \notin Redelivered
  PROVE  Spec => []CancelNotMissed
<1>1. DispatchInv => CancelNotMissed
  BY DEF DispatchInv
<1> QED
  BY <1>1, DispatchInvariant, PTL

\* The registry holds a token for exactly the requests being worked on, and so
\* what it publishes was its workload when the snapshot was taken.
THEOREM RegistryTracksWork ==
  ASSUME "dispatch" \notin Redelivered
  PROVE  Spec => []TracksWork
<1>1. BaseInv /\ DispatchInv => TracksWork
  <2> SUFFICES ASSUME BaseInv, DispatchInv, NEW q \in Requests
               PROVE  tokens[q] # None <=> \E t \in Threads : thread[t].request = q /\ thread[t].pc \in Tracked
    BY DEF TracksWork, BaseInv, Tracked
  <2>1. ASSUME tokens[q] # None PROVE \E t \in Threads : thread[t].request = q /\ thread[t].pc \in Tracked
    <3>1. tokens[q] \in Threads
      BY <2>1 DEF BaseInv, TypeOK
    <3> QED
      BY <2>1, <3>1 DEF BaseInv, BornForRequest, DispatchInv, TokenWhileTracked
  <2>2. ASSUME NEW t \in Threads, thread[t].request = q, thread[t].pc \in Tracked PROVE tokens[q] # None
    BY <2>2, ConstantsAssumption DEF DispatchInv, TokenWhileTracked
  <2> QED
    BY <2>1, <2>2
<1> QED
  BY <1>1, BaseInvariant, DispatchInvariant, PTL
=============================================================================
