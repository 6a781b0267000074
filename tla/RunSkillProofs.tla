--------------------------- MODULE RunSkillProofs ---------------------------
(****************************************************************************)
(* on_result is called at most once, by the attempt started last, for every  *)
(* number of attempts, check-ins, turns and late answers; and the conversation *)
(* behind a check-in (Dialogue) is one and the same to both of its agents.   *)
(*                                                                           *)
(* The argument of the first part: a run is one thread of control.  Every step *)
(* leaves the set of continuations alone, replaces its one member by another, *)
(* or removes it and calls on_result; so run_skill implements Invocation.    *)
(* That of the second: a conversation no failure touched has one message or  *)
(* thread under way, which says what the histories are; and what an on_reply *)
(* may still hear was asked for.                                             *)
(****************************************************************************)
EXTENDS RunSkill, Dialogue, FiniteSetTheorems, TLAPS

\* The type invariant by groups of variables, as the actions change them.
AttemptTypes ==
    /\ phase \in [Attempts -> {"none", "setup", "sent", "local", "armed", "over", "raised"}]
    /\ cancelled \subseteq Attempts
    /\ results \in Seq([attempt : Attempts, result : Results])

RouterTypes ==
    /\ registered \in [Attempts -> BOOLEAN]
    /\ queued \in [Attempts -> Seq(Results)]
    /\ replies \in [Attempts -> 0 .. MaxReplies]

CallTypes == calls \in [Attempts -> [Results -> Nat]]

RoundTypes ==
    /\ rounds \in [Attempts -> 0 .. MaxRounds]
    /\ resolved \in [Attempts -> [Rounds -> BOOLEAN]]
    /\ timer \in [Attempts -> [Rounds -> {"off", "running", "fired"}]]

TalkTypes ==
    /\ opener \in [Attempts -> [Rounds -> {"none", "compose", "sent", "done", "raised"}]]
    /\ talk \in [Attempts -> [Rounds -> {"none", "asked", "deciding", "over"}]]
    /\ turns \in [Attempts -> [Rounds -> Nat]]

LEMMA TypeParts ==
    TypeOK <=> AttemptTypes /\ RouterTypes /\ CallTypes /\ RoundTypes /\ TalkTypes
BY DEF TypeOK, AttemptTypes, RouterTypes, CallTypes, RoundTypes, TalkTypes

LEMMA TypePartsNext ==
    AttemptTypes' /\ RouterTypes' /\ CallTypes' /\ RoundTypes' /\ TalkTypes' => TypeOK'
BY DEF TypeOK, AttemptTypes, RouterTypes, CallTypes, RoundTypes, TalkTypes

\* Changing one entry of a function of functions.
LEMMA Except2 ==
    ASSUME NEW S, NEW T, NEW U, NEW f \in [S -> [T -> U]], NEW s \in S, NEW t \in T, NEW v \in U
    PROVE  [f EXCEPT ![s][t] = v] \in [S -> [T -> U]]
OBVIOUS

LEMMA CheckInUpdates ==
    ASSUME RoundTypes, TalkTypes, NEW n \in Attempts, NEW c \in Rounds
    PROVE  /\ \A v \in Nat : [turns EXCEPT ![n][c] = v] \in [Attempts -> [Rounds -> Nat]]
           /\ \A v \in {"sent", "done", "raised"} : [opener EXCEPT ![n][c] = v]
                 \in [Attempts -> [Rounds -> {"none", "compose", "sent", "done", "raised"}]]
           /\ \A v \in {"asked", "deciding", "over"} : [talk EXCEPT ![n][c] = v]
                 \in [Attempts -> [Rounds -> {"none", "asked", "deciding", "over"}]]
           /\ [timer EXCEPT ![n][c] = "fired"] \in [Attempts -> [Rounds -> {"off", "running", "fired"}]]
<1>1. \A v \in Nat : [turns EXCEPT ![n][c] = v] \in [Attempts -> [Rounds -> Nat]]
  BY Except2 DEF TalkTypes
<1>2. \A v \in {"sent", "done", "raised"} : [opener EXCEPT ![n][c] = v]
                 \in [Attempts -> [Rounds -> {"none", "compose", "sent", "done", "raised"}]]
  BY Except2 DEF TalkTypes
<1>3. \A v \in {"asked", "deciding", "over"} : [talk EXCEPT ![n][c] = v]
                 \in [Attempts -> [Rounds -> {"none", "asked", "deciding", "over"}]]
  BY Except2 DEF TalkTypes
<1>4. [timer EXCEPT ![n][c] = "fired"] \in [Attempts -> [Rounds -> {"off", "running", "fired"}]]
  BY Except2 DEF RoundTypes
<1> QED BY <1>1, <1>2, <1>3, <1>4

\* calls stays a count when a thread is about to call handle.
LEMMA CallHandleType ==
    ASSUME CallTypes, NEW n \in Attempts, NEW r \in Results, CallHandle(n, r)
    PROVE  CallTypes'
<1>1. calls[n][r] + 1 \in Nat
  BY DEF CallTypes
<1>2. [calls EXCEPT ![n][r] = calls[n][r] + 1] \in [Attempts -> [Results -> Nat]]
  BY <1>1, Except2 DEF CallTypes
<1> QED BY <1>2 DEF CallTypes, CallHandle

\* wait_for_reply keeps the router's and the callers' types.
LEMMA WaitForReplyType ==
    ASSUME RouterTypes, CallTypes, NEW n \in Attempts, WaitForReply(n), replies' = replies
    PROVE  RouterTypes' /\ CallTypes'
<1>1. CASE queued[n] # <<>> /\ queued' = [queued EXCEPT ![n] = Tail(@)]
           /\ CallHandle(n, Head(queued[n])) /\ UNCHANGED registered
  <2>1. Head(queued[n]) \in Results /\ Tail(queued[n]) \in Seq(Results)
    BY <1>1 DEF RouterTypes
  <2>2. CallTypes'
    BY <1>1, <2>1, CallHandleType
  <2>3. RouterTypes'
    BY <1>1, <2>1 DEF RouterTypes
  <2> QED BY <2>2, <2>3
<1>2. CASE registered' = [registered EXCEPT ![n] = TRUE] /\ UNCHANGED <<queued, calls>>
  BY <1>2 DEF RouterTypes, CallTypes
<1> QED BY <1>1, <1>2 DEF WaitForReply

LEMMA ResolveByHandleType ==
    ASSUME TypeOK, NEW n \in Attempts, NEW c \in Rounds, ResolveByHandle(n, c)
    PROVE  CallTypes' /\ resolved' \in [Attempts -> [Rounds -> BOOLEAN]]
<1>1. CASE resolved' = [resolved EXCEPT ![n][c] = TRUE] /\ CallHandle(n, "retryable")
  <2>1. [resolved EXCEPT ![n][c] = TRUE] \in [Attempts -> [Rounds -> BOOLEAN]]
    BY Except2 DEF TypeOK
  <2> QED BY <1>1, <2>1, CallHandleType, TypeParts DEF Results
<1>2. CASE UNCHANGED <<resolved, calls>>
  BY <1>2 DEF TypeOK, CallTypes
<1> QED BY <1>1, <1>2 DEF ResolveByHandle

LEMMA ResolveByWaitingType ==
    ASSUME TypeOK, NEW n \in Attempts, NEW c \in Rounds, ResolveByWaiting(n, c), replies' = replies
    PROVE  RouterTypes' /\ CallTypes' /\ resolved' \in [Attempts -> [Rounds -> BOOLEAN]]
<1>1. CASE resolved' = [resolved EXCEPT ![n][c] = TRUE] /\ WaitForReply(n)
  <2>1. [resolved EXCEPT ![n][c] = TRUE] \in [Attempts -> [Rounds -> BOOLEAN]]
    BY Except2 DEF TypeOK
  <2> QED BY <1>1, <2>1, WaitForReplyType, TypeParts
<1>2. CASE UNCHANGED <<resolved, registered, queued, calls>>
  BY <1>2 DEF TypeOK, CallTypes, RouterTypes
<1> QED BY <1>1, <1>2 DEF ResolveByWaiting

\* A call of on_result appends a record of the right shape.
LEMMA OnResultType ==
    ASSUME AttemptTypes, NEW n \in Attempts, NEW r \in Results, OnResult(n, r)
    PROVE  results' \in Seq([attempt : Attempts, result : Results])
<1> DEFINE R == [attempt : Attempts, result : Results]
           x == [attempt |-> n, result |-> r]
<1>1. x \in R
  OBVIOUS
<1>2. results \in Seq(R) /\ results' = Append(results, x)
  BY DEF OnResult, AttemptTypes
<1> HIDE DEF R, x
<1>3. Append(results, x) \in Seq(R)
  BY <1>1, <1>2
<1> QED BY <1>2, <1>3 DEF R

\* The thread of an attempt dies of an exception.
Dies(n) == SetupRaises(n) \/ LocalRaises(n)

\* attempt(), handle() and the local coordinator keep the types.
LEMMA AttemptStepType ==
    ASSUME TypeOK, NEW n \in Attempts,
           \/ NoWorkers(n) \/ Dispatch(n) \/ Arm(n) \/ Dies(n)
           \/ \E r \in Results : LocalCoordinate(n, r) \/ Handle(n, r)
    PROVE  TypeOK'
<1> USE TypeParts, TypePartsNext DEF attemptVars, routerVars, checkVars
<1>1. CASE NoWorkers(n)
  <2>1. results' \in Seq([attempt : Attempts, result : Results])
    BY <1>1, OnResultType DEF NoWorkers, Results
  <2>2. AttemptTypes'
    BY <1>1, <2>1 DEF NoWorkers, AttemptTypes
  <2> QED BY <1>1, <2>2 DEF NoWorkers, RouterTypes, CallTypes, RoundTypes, TalkTypes
<1>2. CASE Dispatch(n) \/ Dies(n)
  BY <1>2 DEF Dispatch, Dies, SetupRaises, LocalRaises, AttemptTypes, RouterTypes, CallTypes, RoundTypes, TalkTypes
<1>3. CASE Arm(n)
  <2>1. RouterTypes' /\ CallTypes'
    BY <1>3, WaitForReplyType DEF Arm
  <2> QED BY <1>3, <2>1 DEF Arm, AttemptTypes, RoundTypes, TalkTypes
<1>4. ASSUME NEW r \in Results, LocalCoordinate(n, r) PROVE TypeOK'
  <2>1. CallTypes'
    BY <1>4, CallHandleType DEF LocalCoordinate
  <2> QED BY <1>4, <2>1 DEF LocalCoordinate, AttemptTypes, RouterTypes, RoundTypes, TalkTypes
<1>5. ASSUME NEW r \in Results, Handle(n, r) PROVE TypeOK'
  <2>1. calls[n][r] - 1 \in Nat
    BY <1>5 DEF Handle, CallTypes
  <2>2. [calls EXCEPT ![n][r] = calls[n][r] - 1] \in [Attempts -> [Results -> Nat]]
    BY <2>1, Except2 DEF CallTypes
  <2>3. CallTypes'
    BY <1>5, <2>2 DEF Handle, CallTypes
  <2>4. AttemptTypes'
    <3>1. CASE OnResult(n, r) /\ UNCHANGED <<phase, cancelled>>
      BY <3>1, OnResultType DEF AttemptTypes
    <3>2. CASE ~(OnResult(n, r) /\ UNCHANGED <<phase, cancelled>>)
      BY <1>5, <3>2 DEF Handle, AttemptTypes
    <3> QED BY <3>1, <3>2
  <2> QED BY <1>5, <2>3, <2>4 DEF Handle, RouterTypes, RoundTypes, TalkTypes
<1> QED BY <1>1, <1>2, <1>3, <1>4, <1>5

\* A reply or a timeout keeps the types.
LEMMA RouterStepType ==
    ASSUME TypeOK, NEW n \in Attempts, Timeout(n) \/ \E r \in Results : Reply(n, r)
    PROVE  TypeOK'
<1> USE TypeParts, TypePartsNext, ConstantsAssumption DEF attemptVars, routerVars, checkVars
<1>1. ASSUME NEW r \in Results, Reply(n, r) PROVE TypeOK'
  <2>1. replies' \in [Attempts -> 0 .. MaxReplies]
    BY <1>1 DEF Reply, RouterTypes
  <2>2. Append(queued[n], r) \in Seq(Results)
    BY <1>1 DEF RouterTypes
  <2>3. RouterTypes'
    BY <1>1, <2>1, <2>2, ZenonT(60) DEF Reply, RouterTypes
  <2>4. CallTypes'
    BY <1>1, CallHandleType DEF Reply, CallTypes
  <2> QED BY <1>1, <2>3, <2>4 DEF Reply, AttemptTypes, RoundTypes, TalkTypes
<1>2. CASE Timeout(n)
  <2>1. AttemptTypes' /\ RouterTypes'
    BY <1>2 DEF Timeout, AttemptTypes, RouterTypes
  <2>2. CASE CallHandle(n, "retryable") /\ UNCHANGED <<rounds, checkVars>>
    BY <2>1, <2>2, CallHandleType DEF RoundTypes, TalkTypes, Results
  <2>3. CASE ~(CallHandle(n, "retryable") /\ UNCHANGED <<rounds, checkVars>>)
    <3> DEFINE c == rounds[n] + 1
    <3>1. c \in Rounds /\ c \in 0 .. MaxRounds
      BY <1>2, <2>3 DEF Timeout, RoundTypes, Rounds
    <3>2. /\ [resolved EXCEPT ![n][c] = FALSE] \in [Attempts -> [Rounds -> BOOLEAN]]
          /\ [timer EXCEPT ![n][c] = "running"] \in [Attempts -> [Rounds -> {"off", "running", "fired"}]]
          /\ [opener EXCEPT ![n][c] = "compose"]
                \in [Attempts -> [Rounds -> {"none", "compose", "sent", "done", "raised"}]]
      BY <3>1, Except2 DEF RoundTypes, TalkTypes
    <3>3. /\ rounds' = [rounds EXCEPT ![n] = c]
          /\ resolved' = [resolved EXCEPT ![n][c] = FALSE]
          /\ timer' = [timer EXCEPT ![n][c] = "running"]
          /\ opener' = [opener EXCEPT ![n][c] = "compose"]
          /\ UNCHANGED <<talk, turns, calls>>
      BY <1>2, <2>3 DEF Timeout
    <3> HIDE DEF c
    <3>4. RoundTypes' /\ TalkTypes' /\ CallTypes'
      BY <3>1, <3>2, <3>3 DEF RoundTypes, TalkTypes, CallTypes
    <3> QED BY <2>1, <3>4
  <2> QED BY <2>2, <2>3
<1> QED BY <1>1, <1>2

\* The check-in conversation keeps the types.
LEMMA CheckInStepType ==
    ASSUME TypeOK, NEW n \in Attempts, NEW c \in Rounds,
           \/ CheckInStep(n, c) \/ CheckInTimeout(n, c) \/ CheckInReply(n, c)
           \/ OpenRaises(n, c) \/ DecideRaises(n, c)
    PROVE  TypeOK'
<1> USE TypeParts, TypePartsNext DEF attemptVars, routerVars, checkVars
<1>0. /\ \A v \in Nat : [turns EXCEPT ![n][c] = v] \in [Attempts -> [Rounds -> Nat]]
      /\ \A v \in {"sent", "done", "raised"} : [opener EXCEPT ![n][c] = v]
            \in [Attempts -> [Rounds -> {"none", "compose", "sent", "done", "raised"}]]
      /\ \A v \in {"asked", "deciding", "over"} : [talk EXCEPT ![n][c] = v]
            \in [Attempts -> [Rounds -> {"none", "asked", "deciding", "over"}]]
      /\ [timer EXCEPT ![n][c] = "fired"] \in [Attempts -> [Rounds -> {"off", "running", "fired"}]]
  BY CheckInUpdates
<1>1. CASE Open(n, c) \/ Opened(n, c) \/ OpenRaises(n, c) \/ FollowUp(n, c)
           \/ CheckInReply(n, c) \/ DecideRaises(n, c)
  <2>1. AttemptTypes' /\ RouterTypes' /\ CallTypes' /\ RoundTypes'
    BY <1>1 DEF Open, Opened, OpenRaises, FollowUp, CheckInReply, DecideRaises,
                AttemptTypes, RouterTypes, CallTypes, RoundTypes
  <2>2. turns[n][c] + 1 \in Nat
    BY DEF TalkTypes
  <2>3. turns' \in [Attempts -> [Rounds -> Nat]]
    <3>1. turns' = turns \/ \E v \in Nat : turns' = [turns EXCEPT ![n][c] = v]
      BY <1>1, <2>2 DEF Open, Opened, OpenRaises, FollowUp, CheckInReply, DecideRaises
    <3>2. turns \in [Attempts -> [Rounds -> Nat]]
      BY DEF TalkTypes
    <3>3. \A v \in Nat : [turns EXCEPT ![n][c] = v] \in [Attempts -> [Rounds -> Nat]]
      BY <1>0
    <3> HIDE TypeParts, TypePartsNext
    <3> QED BY <3>1, <3>2, <3>3
  <2>4. opener' \in [Attempts -> [Rounds -> {"none", "compose", "sent", "done", "raised"}]]
    <3>1. opener' = opener \/ \E v \in {"sent", "done", "raised"} : opener' = [opener EXCEPT ![n][c] = v]
      BY <1>1 DEF Open, Opened, OpenRaises, FollowUp, CheckInReply, DecideRaises
    <3>2. opener \in [Attempts -> [Rounds -> {"none", "compose", "sent", "done", "raised"}]]
      BY DEF TalkTypes
    <3>3. \A v \in {"sent", "done", "raised"} : [opener EXCEPT ![n][c] = v]
            \in [Attempts -> [Rounds -> {"none", "compose", "sent", "done", "raised"}]]
      BY <1>0
    <3> HIDE TypeParts, TypePartsNext
    <3> QED BY <3>1, <3>2, <3>3
  <2>5. talk' \in [Attempts -> [Rounds -> {"none", "asked", "deciding", "over"}]]
    <3>1. talk' = talk \/ \E v \in {"asked", "deciding", "over"} : talk' = [talk EXCEPT ![n][c] = v]
      BY <1>1 DEF Open, Opened, OpenRaises, FollowUp, CheckInReply, DecideRaises
    <3> QED BY <1>0, <3>1 DEF TalkTypes
  <2> QED BY <2>1, <2>3, <2>4, <2>5 DEF TalkTypes
<1>2. CASE DecideWait(n, c)
  <2>1. RouterTypes' /\ CallTypes' /\ resolved' \in [Attempts -> [Rounds -> BOOLEAN]]
    BY <1>2, ResolveByWaitingType DEF DecideWait
  <2> QED BY <1>2, <2>1 DEF DecideWait, AttemptTypes, RoundTypes, TalkTypes
<1>3. CASE DecideRetry(n, c) \/ CheckInTimeout(n, c)
  <2>1. CallTypes' /\ resolved' \in [Attempts -> [Rounds -> BOOLEAN]]
    BY <1>3, ResolveByHandleType DEF DecideRetry, CheckInTimeout
  <2>2. timer' \in [Attempts -> [Rounds -> {"off", "running", "fired"}]]
    BY <1>3, <1>0 DEF DecideRetry, CheckInTimeout, RoundTypes
  <2>3. talk' \in [Attempts -> [Rounds -> {"none", "asked", "deciding", "over"}]]
    BY <1>3, <1>0 DEF DecideRetry, CheckInTimeout, TalkTypes
  <2> QED BY <1>3, <2>1, <2>2, <2>3
          DEF DecideRetry, CheckInTimeout, AttemptTypes, RouterTypes, RoundTypes, TalkTypes
<1> QED BY <1>1, <1>2, <1>3 DEF CheckInStep

LEMMA TypeStep ==
    ASSUME TypeOK, [Next]_vars
    PROVE  TypeOK'
<1>1. CASE UNCHANGED vars
  BY <1>1 DEF TypeOK, vars, attemptVars, routerVars, checkVars
<1>2. CASE Next
  BY <1>2, AttemptStepType, RouterStepType, CheckInStepType DEF Next, Progress, Dies
<1> QED BY <1>1, <1>2

\* Every variable keeps its type in every reachable state of an invocation.
THEOREM TypeCorrect == Spec => []TypeOK
<1>1. Init => TypeOK
  BY ConstantsAssumption DEF Init, TypeOK, Attempts, Rounds, Results
<1>2. TypeOK /\ [Next]_vars => TypeOK'
  BY TypeStep
<1> QED BY <1>1, <1>2, PTL DEF Spec

-----------------------------------------------------------------------------
(* One thread of control                                                     *)

Live == {"setup", "sent", "local"}

\* What it means for each kind of continuation to be present.
Members ==
    /\ \A n \in Attempts : <<"phase", n, 0>> \in Continuations <=> phase[n] \in Live
    /\ \A n \in Attempts : <<"watch", n, 0>> \in Continuations <=> registered[n]
    /\ \A n \in Attempts, r \in Results : <<"handle", n, r>> \in Continuations <=> calls[n][r] > 0
    /\ \A n \in Attempts, c \in Rounds : <<"check-in", n, c>> \in Continuations <=> ~resolved[n][c]
    /\ \A x \in Continuations :
          \/ \E n \in Attempts : x = <<"phase", n, 0>> \/ x = <<"watch", n, 0>>
          \/ \E n \in Attempts, r \in Results : x = <<"handle", n, r>>
          \/ \E n \in Attempts, c \in Rounds : x = <<"check-in", n, c>>

LEMMA MembersHold == Members
<1>1. /\ \A n \in Attempts : <<"phase", n, 0>> \in Continuations <=> phase[n] \in Live
      /\ \A n \in Attempts : <<"watch", n, 0>> \in Continuations <=> registered[n]
  BY DEF Continuations, Live
<1>2. \A n \in Attempts, r \in Results : <<"handle", n, r>> \in Continuations <=> calls[n][r] > 0
  BY DEF Continuations
<1>3. \A n \in Attempts, c \in Rounds : <<"check-in", n, c>> \in Continuations <=> ~resolved[n][c]
  BY DEF Continuations
<1>4. \A x \in Continuations :
          \/ \E n \in Attempts : x = <<"phase", n, 0>> \/ x = <<"watch", n, 0>>
          \/ \E n \in Attempts, r \in Results : x = <<"handle", n, r>>
          \/ \E n \in Attempts, c \in Rounds : x = <<"check-in", n, c>>
  BY DEF Continuations
<1> QED BY <1>1, <1>2, <1>3, <1>4 DEF Members

LEMMA MembersNext == Members'
<1>1. []Members
  BY MembersHold, PTL
<1> QED BY <1>1, PTL

\* A thread that moves on: the one continuation x is replaced by at most y, in
\* the same attempt or a newly started one.
LEMMA MoveKeeps ==
    ASSUME OneContinuation, LatestAttemptAnswers,
           NEW x \in Continuations, NEW n \in Attempts, x[2] = n,
           NEW y, NEW m \in Attempts, y[2] = m, n <= m,
           \A z \in Continuations' : z \in Continuations \ {x} \/ z = y,
           \A k \in Attempts : phase'[k] # "none" => phase[k] # "none" \/ k = m,
           results' = results,
           \A k \in Attempts, r \in Results : calls'[k][r] <= 1
    PROVE  OneContinuation' /\ LatestAttemptAnswers'
<1>1. \A z \in Continuations : z = x
  BY DEF OneContinuation
<1>2. \A z \in Continuations' : z = y
  BY <1>1
<1>3. results = <<>> /\ results' = <<>>
  BY DEF OneContinuation
<1>4. OneContinuation'
  BY <1>2, <1>3 DEF OneContinuation
<1>5. \A k \in Attempts : phase'[k] # "none" => k <= m
  BY ConstantsAssumption DEF LatestAttemptAnswers, Attempts
<1>6. LatestAttemptAnswers'
  BY <1>2, <1>3, <1>5 DEF LatestAttemptAnswers
<1> QED BY <1>4, <1>6

\* A thread that ends: x is gone, and on_result was called by its attempt or,
\* if the thread died, by nobody.
LEMMA EndKeeps ==
    ASSUME OneContinuation, LatestAttemptAnswers, results \in Seq([attempt : Attempts, result : Results]),
           NEW x \in Continuations, NEW n \in Attempts, x[2] = n,
           \A z \in Continuations' : z \in Continuations \ {x},
           \A k \in Attempts : phase'[k] # "none" => phase[k] # "none",
           results' = results \/ \E r \in Results : OnResult(n, r),
           \A k \in Attempts, r \in Results : calls'[k][r] <= 1
    PROVE  OneContinuation' /\ LatestAttemptAnswers' /\ Len(results') <= 1
<1>1. Continuations' = {}
  BY DEF OneContinuation
<1>2. results = <<>>
  BY DEF OneContinuation
<1>3. OneContinuation'
  BY <1>1 DEF OneContinuation
<1>4. \A k \in Attempts : phase'[k] # "none" => k <= n
  BY ConstantsAssumption DEF LatestAttemptAnswers, Attempts
<1>5. results' = <<>> \/ \E r \in Results : results' = <<[attempt |-> n, result |-> r]>>
  BY <1>2 DEF OnResult
<1>6. Len(results') <= 1 /\ \A i \in 1 .. Len(results') : results'[i].attempt = n
  <2>2. ASSUME NEW r \in Results, results' = <<[attempt |-> n, result |-> r]>>
        PROVE  Len(results') = 1 /\ results'[1].attempt = n
    BY <2>2
  <2>3. ASSUME NEW r \in Results, results' = <<[attempt |-> n, result |-> r]>>
        PROVE  Len(results') <= 1 /\ \A i \in 1 .. Len(results') : results'[i].attempt = n
    <3>1. Len(results') = 1 /\ results'[1].attempt = n
      BY <2>2, <2>3
    <3>2. \A i \in 1 .. 1 : i = 1
      OBVIOUS
    <3> QED BY <3>1, <3>2
  <2>4. CASE results' = <<>>
    <3>1. Len(results') = 0
      BY <2>4
    <3>2. 1 .. 0 = {}
      OBVIOUS
    <3> QED BY <3>1, <3>2
  <2> QED BY <1>5, <2>3, <2>4
<1>7. LatestAttemptAnswers'
  BY <1>1, <1>4, <1>6 DEF LatestAttemptAnswers
<1> QED BY <1>3, <1>6, <1>7

\* A step that touches no continuation.
LEMMA QuietKeeps ==
    ASSUME OneContinuation, LatestAttemptAnswers,
           UNCHANGED <<phase, registered, calls, resolved, results>>
    PROVE  OneContinuation' /\ LatestAttemptAnswers'
<1>0. phase' = phase /\ registered' = registered /\ calls' = calls /\ resolved' = resolved
  OBVIOUS
<1>1. \A z \in Continuations' : z \in Continuations
  BY <1>0, MembersHold, MembersNext DEF Members
<1>2. \A z \in Continuations : z \in Continuations'
  BY <1>0, MembersHold, MembersNext DEF Members
<1> QED BY <1>1, <1>2 DEF OneContinuation, LatestAttemptAnswers

\* calls stays below two when the thread of x, which is not in handle, enters it.
LEMMA CallOnce ==
    ASSUME TypeOK, OneContinuation, NEW x \in Continuations,
           NEW n \in Attempts, NEW r \in Results, CallHandle(n, r),
           \A k \in Attempts, q \in Results : x # <<"handle", k, q>>
    PROVE  /\ \A k \in Attempts, q \in Results : calls'[k][q] <= 1
           /\ \A k \in Attempts, q \in Results : calls'[k][q] > 0 => k = n /\ q = r
<1>1. \A k \in Attempts, q \in Results : ~(calls[k][q] > 0)
  <2> SUFFICES ASSUME NEW k \in Attempts, NEW q \in Results, calls[k][q] > 0
               PROVE  FALSE
    OBVIOUS
  <2>1. <<"handle", k, q>> \in Continuations
    BY MembersHold DEF Members
  <2>2. x = <<"handle", k, q>>
    BY <2>1, Zenon DEF OneContinuation
  <2> QED BY <2>2
<1>2. \A k \in Attempts, q \in Results : calls[k][q] = 0
  BY <1>1 DEF TypeOK
<1>3. \A k \in Attempts, q \in Results :
          calls'[k][q] = IF k = n /\ q = r THEN calls[k][q] + 1 ELSE calls[k][q]
  BY DEF CallHandle, TypeOK
<1> QED BY <1>2, <1>3

\* attempt(n) and the thread of a local coordinator.
LEMMA AttemptKeeps ==
    ASSUME TypeOK, OneContinuation, LatestAttemptAnswers, NEW n \in Attempts,
           \/ NoWorkers(n) \/ Dispatch(n) \/ Dies(n)
           \/ \E r \in Results : LocalCoordinate(n, r)
    PROVE  OneContinuation' /\ LatestAttemptAnswers'
<1> DEFINE x == <<"phase", n, 0>>
<1>1. x \in Continuations /\ x[2] = n
  BY MembersHold DEF Members, NoWorkers, Dispatch, Dies, SetupRaises, LocalRaises, LocalCoordinate, Live
<1>2. CASE NoWorkers(n) \/ Dies(n)
  <2>1. /\ registered' = registered /\ calls' = calls /\ resolved' = resolved
        /\ \A k \in Attempts : phase'[k] = phase[k] \/ (k = n /\ phase'[k] \notin Live)
        /\ phase[n] # "none" /\ phase'[n] \notin Live
    BY <1>2 DEF NoWorkers, Dies, SetupRaises, LocalRaises, routerVars, checkVars, TypeOK, Live
  <2>2. \A z \in Continuations' : z \in Continuations \ {x}
    BY <2>1, MembersHold, MembersNext DEF Members
  <2>3. results' = results \/ \E r \in Results : OnResult(n, r)
    BY <1>2 DEF NoWorkers, Dies, SetupRaises, LocalRaises, Results
  <2>4. \A k \in Attempts, r \in Results : calls'[k][r] <= 1
    BY <2>1 DEF OneContinuation
  <2>5. results \in Seq([attempt : Attempts, result : Results])
    BY DEF TypeOK
  <2>6. \A k \in Attempts : phase'[k] # "none" => phase[k] # "none"
    BY <2>1
  <2> HIDE DEF x
  <2> QED BY <1>1, <2>2, <2>3, <2>4, <2>5, <2>6, EndKeeps
<1>3. CASE Dispatch(n)
  <2>1. /\ registered' = registered /\ calls' = calls /\ resolved' = resolved
        /\ \A k \in Attempts : phase'[k] = phase[k] \/ (k = n /\ phase'[k] \in Live)
        /\ phase[n] \in Live
    BY <1>3 DEF Dispatch, routerVars, checkVars, TypeOK, Live
  <2>2. \A z \in Continuations' : z \in Continuations \ {x} \/ z = x
    BY <2>1, MembersHold, MembersNext DEF Members
  <2>3. \A k \in Attempts : phase'[k] # "none" => phase[k] # "none" \/ k = n
    BY <2>1
  <2>4. \A k \in Attempts, r \in Results : calls'[k][r] <= 1
    BY <2>1 DEF OneContinuation
  <2>5. results' = results
    BY <1>3 DEF Dispatch
  <2> HIDE DEF x
  <2> QED BY <1>1, <2>2, <2>3, <2>4, <2>5, MoveKeeps DEF Attempts
<1>4. ASSUME NEW r \in Results, LocalCoordinate(n, r)
      PROVE  OneContinuation' /\ LatestAttemptAnswers'
  <2> DEFINE y == <<"handle", n, r>>
  <2>1. /\ registered' = registered /\ resolved' = resolved /\ results' = results
        /\ CallHandle(n, r)
        /\ \A k \in Attempts : phase'[k] = phase[k] \/ (k = n /\ phase'[k] \notin Live)
        /\ phase[n] # "none" /\ phase'[n] \notin Live
    BY <1>4 DEF LocalCoordinate, routerVars, checkVars, TypeOK, Live
  <2>2. /\ \A k \in Attempts, q \in Results : calls'[k][q] <= 1
        /\ \A k \in Attempts, q \in Results : calls'[k][q] > 0 => k = n /\ q = r
    <3>1. \A k \in Attempts, q \in Results : x # <<"handle", k, q>>
      OBVIOUS
    <3> HIDE DEF x
    <3> QED BY <1>1, <2>1, <3>1, CallOnce
  <2>3. \A z \in Continuations' : z \in Continuations \ {x} \/ z = y
    BY <2>1, <2>2, MembersHold, MembersNext DEF Members
  <2>4. \A k \in Attempts : phase'[k] # "none" => phase[k] # "none" \/ k = n
    BY <2>1
  <2>5. y[2] = n
    OBVIOUS
  <2> HIDE DEF x, y
  <2> QED BY <1>1, <2>1, <2>2, <2>3, <2>4, <2>5, MoveKeeps DEF Attempts
<1> QED BY <1>2, <1>3, <1>4

\* The one continuation is x: whatever else could be present is absent.
LEMMA OnlyOne ==
    ASSUME TypeOK, OneContinuation, NEW x \in Continuations
    PROVE  /\ \A k \in Attempts : phase[k] \in Live => x = <<"phase", k, 0>>
           /\ \A k \in Attempts : registered[k] => x = <<"watch", k, 0>>
           /\ \A k \in Attempts, q \in Results : calls[k][q] > 0 => x = <<"handle", k, q>>
           /\ \A k \in Attempts, c \in Rounds : ~resolved[k][c] => x = <<"check-in", k, c>>
<1>1. \A z \in Continuations : z = x
  BY DEF OneContinuation
<1> QED BY <1>1, MembersHold DEF Members

\* handle(): on_result, or the next attempt.
LEMMA HandleKeeps ==
    ASSUME TypeOK, OneContinuation, LatestAttemptAnswers,
           NEW n \in Attempts, NEW r \in Results, Handle(n, r)
    PROVE  OneContinuation' /\ LatestAttemptAnswers'
<1> DEFINE x == <<"handle", n, r>>
           y == <<"phase", n + 1, 0>>
<1>1. x \in Continuations /\ x[2] = n
  BY MembersHold DEF Members, Handle
<1>2. /\ registered' = registered /\ resolved' = resolved
      /\ \A k \in Attempts, q \in Results :
            calls'[k][q] = IF k = n /\ q = r THEN calls[k][q] - 1 ELSE calls[k][q]
  BY DEF Handle, routerVars, checkVars, TypeOK
<1>3. \A k \in Attempts, q \in Results : calls[k][q] \in Nat /\ calls[k][q] <= 1
  BY DEF OneContinuation, TypeOK
<1>4. \A k \in Attempts, q \in Results :
          calls'[k][q] <= 1 /\ (calls'[k][q] > 0 => calls[k][q] > 0 /\ ~(k = n /\ q = r))
  BY <1>2, <1>3
<1>5. CASE OnResult(n, r) /\ UNCHANGED <<phase, cancelled>>
  <2>1. \A z \in Continuations' : z \in Continuations
    BY <1>2, <1>4, <1>5, MembersHold, MembersNext DEF Members
  <2>2. x \notin Continuations'
    BY <1>4, MembersNext DEF Members
  <2>3. results \in Seq([attempt : Attempts, result : Results])
    BY DEF TypeOK
  <2>4. \A z \in Continuations' : z \in Continuations \ {x}
    BY <2>1, <2>2
  <2>5. \A k \in Attempts : phase'[k] # "none" => phase[k] # "none"
    BY <1>5
  <2> HIDE DEF x
  <2> QED BY <1>1, <1>4, <1>5, <2>3, <2>4, <2>5, EndKeeps
<1>6. CASE n < MaxAttempts /\ phase' = [phase EXCEPT ![n + 1] = "setup"] /\ UNCHANGED results
  <2>1. n + 1 \in Attempts /\ n <= n + 1
    BY <1>6, ConstantsAssumption DEF Attempts
  <2>2. \A k \in Attempts : phase'[k] = IF k = n + 1 THEN "setup" ELSE phase[k]
    BY <1>6 DEF TypeOK
  <2>3. \A z \in Continuations' : z \in Continuations \/ z = y
    <3>1. \A k \in Attempts : phase'[k] \in Live => phase[k] \in Live \/ k = n + 1
      BY <2>2
    <3> QED BY <1>2, <1>4, <3>1, MembersHold, MembersNext DEF Members
  <2>4. x \notin Continuations'
    BY <1>4, MembersNext DEF Members
  <2>5. \A z \in Continuations' : z \in Continuations \ {x} \/ z = y
    BY <2>3, <2>4
  <2>6. \A k \in Attempts : phase'[k] # "none" => phase[k] # "none" \/ k = n + 1
    BY <2>2
  <2>7. y[2] = n + 1
    OBVIOUS
  <2> HIDE DEF x, y
  <2> QED BY <1>1, <1>4, <1>6, <2>1, <2>5, <2>6, <2>7, MoveKeeps
<1> QED BY <1>5, <1>6 DEF Handle

\* The step of a thread in x that waits for the reply, as its whole effect on
\* the continuations: x goes, and a watch or a call of handle comes.
LEMMA WaitKeeps ==
    ASSUME TypeOK, OneContinuation, LatestAttemptAnswers,
           NEW n \in Attempts, NEW x \in Continuations, x[2] = n, WaitForReply(n),
           \A k \in Attempts, q \in Results : x # <<"handle", k, q>>,
           \A k \in Attempts : x # <<"watch", k, 0>>,
           \A k \in Attempts : phase'[k] \in Live => phase[k] \in Live /\ x # <<"phase", k, 0>>,
           \A k \in Attempts : phase'[k] # "none" => phase[k] # "none",
           \A k \in Attempts, c \in Rounds :
               ~resolved'[k][c] => ~resolved[k][c] /\ x # <<"check-in", k, c>>,
           results' = results
    PROVE  OneContinuation' /\ LatestAttemptAnswers'
<1>1. CASE queued[n] # <<>> /\ CallHandle(n, Head(queued[n])) /\ UNCHANGED registered
  <2> DEFINE r == Head(queued[n])
             y == <<"handle", n, r>>
  <2>1. r \in Results
    BY <1>1 DEF TypeOK
  <2>2. /\ \A k \in Attempts, q \in Results : calls'[k][q] <= 1
        /\ \A k \in Attempts, q \in Results : calls'[k][q] > 0 => k = n /\ q = r
    <3> HIDE DEF r
    <3> QED BY <1>1, <2>1, CallOnce DEF r
  <2>3. \A z \in Continuations' : z = y
    <3> HIDE DEF r
    <3> QED BY <1>1, <2>2, OnlyOne, MembersNext DEF Members
  <2>4. y[2] = n
    OBVIOUS
  <2> HIDE DEF y
  <2> QED BY <2>2, <2>3, <2>4, MoveKeeps DEF Attempts
<1>2. CASE registered' = [registered EXCEPT ![n] = TRUE] /\ UNCHANGED <<queued, calls>>
  <2> DEFINE y == <<"watch", n, 0>>
  <2>1. \A k \in Attempts, q \in Results : ~(calls'[k][q] > 0) /\ calls'[k][q] <= 1
    BY <1>2, OnlyOne DEF OneContinuation
  <2>2. \A k \in Attempts : registered'[k] => registered[k] \/ k = n
    BY <1>2 DEF TypeOK
  <2>4. \A z \in Continuations' : z = y
    BY <2>1, <2>2, OnlyOne, MembersNext DEF Members
  <2>5. y[2] = n
    OBVIOUS
  <2> HIDE DEF y
  <2> QED BY <2>1, <2>4, <2>5, MoveKeeps DEF Attempts
<1> QED BY <1>1, <1>2 DEF WaitForReply

\* The step of a thread in x that is about to call handle.
LEMMA CallKeeps ==
    ASSUME TypeOK, OneContinuation, LatestAttemptAnswers,
           NEW n \in Attempts, NEW r \in Results, NEW x \in Continuations, x[2] = n,
           CallHandle(n, r),
           \A k \in Attempts, q \in Results : x # <<"handle", k, q>>,
           phase' = phase, \A k \in Attempts : x # <<"phase", k, 0>>,
           \A k \in Attempts : registered'[k] => registered[k] /\ x # <<"watch", k, 0>>,
           \A k \in Attempts, c \in Rounds :
               ~resolved'[k][c] => ~resolved[k][c] /\ x # <<"check-in", k, c>>,
           results' = results
    PROVE  OneContinuation' /\ LatestAttemptAnswers'
<1> DEFINE y == <<"handle", n, r>>
<1>1. /\ \A k \in Attempts, q \in Results : calls'[k][q] <= 1
      /\ \A k \in Attempts, q \in Results : calls'[k][q] > 0 => k = n /\ q = r
  BY CallOnce
<1>2. \A z \in Continuations' : z = y
  BY <1>1, OnlyOne, MembersNext DEF Members
<1>3. y[2] = n
  OBVIOUS
<1> HIDE DEF y
<1> QED BY <1>1, <1>2, <1>3, MoveKeeps DEF Attempts

\* wait_for_reply at the end of attempt().
LEMMA ArmKeeps ==
    ASSUME TypeOK, OneContinuation, LatestAttemptAnswers, NEW n \in Attempts, Arm(n)
    PROVE  OneContinuation' /\ LatestAttemptAnswers'
<1> DEFINE x == <<"phase", n, 0>>
<1>1. x \in Continuations /\ x[2] = n
  BY MembersHold DEF Members, Arm, Live
<1>2. /\ WaitForReply(n) /\ resolved' = resolved /\ results' = results
      /\ \A k \in Attempts : phase'[k] = IF k = n THEN "armed" ELSE phase[k]
      /\ phase[n] = "sent"
  BY DEF Arm, checkVars, TypeOK
<1>3. /\ \A k \in Attempts : phase'[k] \in Live => phase[k] \in Live /\ x # <<"phase", k, 0>>
      /\ \A k \in Attempts : phase'[k] # "none" => phase[k] # "none"
  BY <1>2 DEF Live
<1>4. \A k \in Attempts, c \in Rounds :
          ~resolved'[k][c] => ~resolved[k][c] /\ x # <<"check-in", k, c>>
  BY <1>2
<1>5. /\ \A k \in Attempts, q \in Results : x # <<"handle", k, q>>
      /\ \A k \in Attempts : x # <<"watch", k, 0>>
  OBVIOUS
<1> HIDE DEF x
<1> QED BY <1>1, <1>2, <1>3, <1>4, <1>5, WaitKeeps

\* A reply or a timeout consumes the watch.
LEMMA RouterKeeps ==
    ASSUME TypeOK, OneContinuation, LatestAttemptAnswers,
           NEW n \in Attempts, Timeout(n) \/ \E r \in Results : Reply(n, r)
    PROVE  OneContinuation' /\ LatestAttemptAnswers'
<1> DEFINE x == <<"watch", n, 0>>
<1>1. CASE ~registered[n]
  BY <1>1, QuietKeeps DEF Timeout, Reply, attemptVars, checkVars
<1>2. CASE registered[n]
  <2>1. x \in Continuations /\ x[2] = n
    BY <1>2, MembersHold DEF Members
  <2>2. /\ phase' = phase /\ results' = results
        /\ \A k \in Attempts : registered'[k] => registered[k] /\ x # <<"watch", k, 0>>
    BY <1>2 DEF Timeout, Reply, attemptVars, TypeOK
  <2>3. /\ \A k \in Attempts, q \in Results : x # <<"handle", k, q>>
        /\ \A k \in Attempts : x # <<"phase", k, 0>>
    OBVIOUS
  <2>4. ASSUME NEW r \in Results, CallHandle(n, r), resolved' = resolved
        PROVE  OneContinuation' /\ LatestAttemptAnswers'
    <3>1. \A k \in Attempts, c \in Rounds :
              ~resolved'[k][c] => ~resolved[k][c] /\ x # <<"check-in", k, c>>
      BY <2>4
    <3> HIDE DEF x
    <3> QED BY <2>1, <2>2, <2>3, <2>4, <3>1, CallKeeps
  <2>5. ASSUME Timeout(n), ~(CallHandle(n, "retryable") /\ UNCHANGED <<rounds, checkVars>>)
        PROVE  OneContinuation' /\ LatestAttemptAnswers'
    <3> DEFINE c == rounds[n] + 1
               y == <<"check-in", n, c>>
    <3>1. calls' = calls /\ resolved' = [resolved EXCEPT ![n][c] = FALSE] /\ c \in Rounds
      BY <2>5, ConstantsAssumption, SMTT(30) DEF Timeout, TypeOK, Rounds
    <3> HIDE DEF c
    <3>2. \A k \in Attempts, d \in Rounds : ~resolved'[k][d] => ~resolved[k][d] \/ (k = n /\ d = c)
      BY <3>1 DEF TypeOK
    <3>3. \A k \in Attempts, q \in Results : calls'[k][q] <= 1
      BY <3>1 DEF OneContinuation
    <3>4. \A z \in Continuations' : z = y
      BY <2>1, <2>2, <3>1, <3>2, OnlyOne, MembersNext DEF Members
    <3>5. y[2] = n
      OBVIOUS
    <3> HIDE DEF x, y
    <3> QED BY <2>1, <2>2, <3>3, <3>4, <3>5, MoveKeeps DEF Attempts
  <2>6. CASE Timeout(n)
    BY <2>4, <2>5, <2>6 DEF Results, checkVars
  <2>7. ASSUME NEW r \in Results, Reply(n, r) PROVE OneContinuation' /\ LatestAttemptAnswers'
    BY <1>2, <2>4, <2>7 DEF Reply, checkVars
  <2> QED BY <2>6, <2>7
<1> QED BY <1>1, <1>2

\* resolve_once: only an unresolved check-in lets its resolver go on.
LEMMA CheckInKeeps ==
    ASSUME TypeOK, OneContinuation, LatestAttemptAnswers,
           NEW n \in Attempts, NEW c \in Rounds,
           \/ CheckInStep(n, c) \/ CheckInTimeout(n, c) \/ CheckInReply(n, c)
           \/ OpenRaises(n, c) \/ DecideRaises(n, c)
    PROVE  OneContinuation' /\ LatestAttemptAnswers'
<1> DEFINE x == <<"check-in", n, c>>
<1>1. ASSUME ~resolved[n][c], resolved' = [resolved EXCEPT ![n][c] = TRUE]
      PROVE  /\ x \in Continuations /\ x[2] = n
             /\ \A k \in Attempts, d \in Rounds :
                   ~resolved'[k][d] => ~resolved[k][d] /\ x # <<"check-in", k, d>>
  BY <1>1, MembersHold DEF Members, TypeOK
<1>2. /\ \A k \in Attempts, q \in Results : x # <<"handle", k, q>>
      /\ \A k \in Attempts : x # <<"phase", k, 0>> /\ x # <<"watch", k, 0>>
  OBVIOUS
<1> HIDE DEF x
<1>3. CASE Open(n, c) \/ Opened(n, c) \/ OpenRaises(n, c) \/ FollowUp(n, c)
           \/ CheckInReply(n, c) \/ DecideRaises(n, c)
  BY <1>3, QuietKeeps DEF Open, Opened, OpenRaises, FollowUp, CheckInReply, DecideRaises,
                          attemptVars, routerVars
<1>4. CASE DecideRetry(n, c) \/ CheckInTimeout(n, c)
  <2>1. phase' = phase /\ registered' = registered /\ results' = results /\ ResolveByHandle(n, c)
    BY <1>4 DEF DecideRetry, CheckInTimeout, attemptVars, routerVars
  <2>2. CASE UNCHANGED <<resolved, calls>>
    BY <2>1, <2>2, QuietKeeps
  <2>3. CASE /\ ~resolved[n][c] /\ resolved' = [resolved EXCEPT ![n][c] = TRUE]
             /\ CallHandle(n, "retryable")
    <3>1. \A k \in Attempts : registered'[k] => registered[k] /\ x # <<"watch", k, 0>>
      BY <1>2, <2>1
    <3> QED BY <1>1, <1>2, <2>1, <2>3, <3>1, CallKeeps DEF Results
  <2> QED BY <2>1, <2>2, <2>3 DEF ResolveByHandle
<1>5. CASE DecideWait(n, c)
  <2>1. phase' = phase /\ results' = results /\ ResolveByWaiting(n, c)
    BY <1>5 DEF DecideWait, attemptVars
  <2>2. CASE UNCHANGED <<resolved, registered, queued, calls>>
    BY <2>1, <2>2, QuietKeeps
  <2>3. CASE /\ ~resolved[n][c] /\ resolved' = [resolved EXCEPT ![n][c] = TRUE]
             /\ WaitForReply(n)
    BY <1>1, <1>2, <2>1, <2>3, WaitKeeps
  <2> QED BY <2>1, <2>2, <2>3 DEF ResolveByWaiting
<1> QED BY <1>3, <1>4, <1>5 DEF CheckInStep

-----------------------------------------------------------------------------
(* The theorems                                                              *)

LEMMA OneThreadInit == Init => OneContinuation /\ LatestAttemptAnswers
<1> SUFFICES ASSUME Init PROVE OneContinuation /\ LatestAttemptAnswers
  OBVIOUS
<1>1. 1 \in Attempts
  BY ConstantsAssumption DEF Attempts
<1>2. /\ \A k \in Attempts : phase[k] \in Live \/ phase[k] # "none" => k = 1
      /\ \A k \in Attempts : ~registered[k]
      /\ \A k \in Attempts, q \in Results : calls[k][q] = 0
      /\ \A k \in Attempts, c \in Rounds : resolved[k][c]
      /\ results = <<>>
  BY DEF Init, Live
<1>3. \A z \in Continuations : z = <<"phase", 1, 0>>
  BY <1>2, MembersHold DEF Members
<1>4. OneContinuation
  BY <1>2, <1>3 DEF OneContinuation
<1>5. \A n \in Attempts : phase[n] # "none" => \A z \in Continuations : n <= z[2]
  BY <1>2, <1>3
<1>6. Len(results) = 0 /\ 1 .. 0 = {}
  BY <1>2
<1>7. LatestAttemptAnswers
  BY <1>5, <1>6 DEF LatestAttemptAnswers
<1> QED BY <1>4, <1>7

LEMMA OneThreadStep ==
    ASSUME TypeOK, OneContinuation, LatestAttemptAnswers, [Next]_vars
    PROVE  OneContinuation' /\ LatestAttemptAnswers'
<1>1. CASE UNCHANGED vars
  BY <1>1, QuietKeeps DEF vars, attemptVars, routerVars, checkVars
<1>2. CASE Next
  BY <1>2, AttemptKeeps, HandleKeeps, ArmKeeps, RouterKeeps, CheckInKeeps DEF Next, Progress, Dies
<1> QED BY <1>1, <1>2

\* Whatever the races, an invocation is one thread of control: a late answer, a
\* late check-in reply or a timer nobody cancelled revives nothing.
THEOREM OneThread == Spec => []OneContinuation
<1>1. Init => TypeOK /\ OneContinuation /\ LatestAttemptAnswers
  BY OneThreadInit, ConstantsAssumption DEF Init, TypeOK, Attempts, Rounds, Results
<1>2. TypeOK /\ OneContinuation /\ LatestAttemptAnswers /\ [Next]_vars
      => (TypeOK /\ OneContinuation /\ LatestAttemptAnswers)'
  BY OneThreadStep, TypeStep
<1> QED BY <1>1, <1>2, PTL DEF Spec

\* Only the attempt started last continues or answers.
THEOREM LatestAnswers == Spec => []LatestAttemptAnswers
<1>1. Init => TypeOK /\ OneContinuation /\ LatestAttemptAnswers
  BY OneThreadInit, ConstantsAssumption DEF Init, TypeOK, Attempts, Rounds, Results
<1>2. TypeOK /\ OneContinuation /\ LatestAttemptAnswers /\ [Next]_vars
      => (TypeOK /\ OneContinuation /\ LatestAttemptAnswers)'
  BY OneThreadStep, TypeStep
<1> QED BY <1>1, <1>2, PTL DEF Spec

\* on_result is called only by a thread of control that is still there.
LEMMA OnResultStep ==
    ASSUME TypeOK, OneContinuation, OnResultOnce, [Next]_vars
    PROVE  OnResultOnce'
<1>1. CASE results' = results
  BY <1>1 DEF OnResultOnce
<1>2. ASSUME NEW n \in Attempts, NEW r, OnResult(n, r), Continuations # {}
      PROVE  OnResultOnce'
  <2>1. results = <<>>
    BY <1>2 DEF OneContinuation
  <2>2. results' = <<[attempt |-> n, result |-> r]>>
    BY <1>2, <2>1 DEF OnResult
  <2>3. Len(results') = 1
    BY <2>2
  <2> QED BY <2>3 DEF OnResultOnce
<1>3. ASSUME NEW n \in Attempts, NoWorkers(n) PROVE OnResultOnce'
  <2>1. <<"phase", n, 0>> \in Continuations
    BY <1>3, MembersHold DEF Members, NoWorkers, Live
  <2> QED BY <1>2, <1>3, <2>1 DEF NoWorkers
<1>4. ASSUME NEW n \in Attempts, NEW r \in Results, Handle(n, r) PROVE OnResultOnce'
  <2>1. <<"handle", n, r>> \in Continuations
    BY <1>4, MembersHold DEF Members, Handle
  <2> QED BY <1>1, <1>2, <1>4, <2>1 DEF Handle
<1>5. CASE UNCHANGED vars
  BY <1>1, <1>5 DEF vars
<1>6. ASSUME NEW n \in Attempts,
             \/ Dispatch(n) \/ Dies(n) \/ Arm(n) \/ Timeout(n)
             \/ \E r \in Results : LocalCoordinate(n, r) \/ Reply(n, r)
             \/ \E c \in Rounds :
                    \/ CheckInStep(n, c) \/ CheckInTimeout(n, c) \/ CheckInReply(n, c)
                    \/ OpenRaises(n, c) \/ DecideRaises(n, c)
      PROVE  OnResultOnce'
  BY <1>1, <1>6 DEF Dispatch, Dies, SetupRaises, LocalRaises, Arm, Timeout, LocalCoordinate, Reply, CheckInStep, Open,
     Opened, FollowUp, DecideWait, DecideRetry, CheckInTimeout, CheckInReply, OpenRaises, DecideRaises
<1> QED BY <1>3, <1>4, <1>5, <1>6 DEF Next, Progress, Dies

\* on_result fires at most once, for any number of attempts, check-ins, turns
\* and replies.
THEOREM OnResultAtMostOnce == Spec => []OnResultOnce
<1>1. Init => OnResultOnce
  BY DEF Init, OnResultOnce
<1>2. TypeOK /\ OneContinuation /\ OnResultOnce /\ [Next]_vars => OnResultOnce'
  BY OnResultStep
<1> QED BY <1>1, <1>2, TypeCorrect, OneThread, PTL DEF Spec

-----------------------------------------------------------------------------
(* run_skill implements Invocation                                           *)

\* An attempt that was not begun has no callback, thread or open check-in.
NotBegun ==
    \A n \in Attempts : phase[n] = "none" =>
        /\ ~registered[n]
        /\ \A r \in Results : calls[n][r] = 0
        /\ \A c \in Rounds : resolved[n][c]

InvocationInv ==
    /\ \E n \in Attempts : IsLatest(n)
    /\ NotBegun
    /\ Raised => Continuations = {} /\ results = <<>>

LatestUnique == \A n \in Attempts : IsLatest(n) => Latest = n

\* There is one latest attempt.
LEMMA LatestHolds == LatestUnique
<1> SUFFICES ASSUME NEW n \in Attempts, IsLatest(n) PROVE Latest = n
  BY DEF LatestUnique
<1>1. Latest \in Attempts /\ IsLatest(Latest)
  BY Zenon DEF Latest
<1>2. n <= Latest /\ Latest <= n
  BY <1>1 DEF IsLatest
<1> QED BY <1>1, <1>2, ConstantsAssumption DEF Attempts

LEMMA LatestNext == LatestUnique'
<1>1. []LatestUnique
  BY LatestHolds, PTL
<1> QED BY <1>1, PTL

\* The latest attempt stays the latest as long as none is begun.
LEMMA LatestStays ==
    ASSUME InvocationInv,
           \A k \in Attempts : phase'[k] = "none" <=> phase[k] = "none"
    PROVE  Latest' = Latest /\ \E n \in Attempts : IsLatest(n)'
<1>1. PICK n \in Attempts : IsLatest(n)
  BY DEF InvocationInv
<1>2. IsLatest(n)'
  BY <1>1 DEF IsLatest
<1>3. Latest = n
  BY <1>1, LatestHolds DEF LatestUnique
<1>4. Latest' = n
  BY <1>2, LatestNext DEF LatestUnique
<1> QED BY <1>2, <1>3, <1>4

\* Who continues the invocation is its latest attempt, and it is still open.
LEMMA ActorIsLatest ==
    ASSUME OneContinuation, LatestAttemptAnswers, InvocationInv,
           NEW n \in Attempts, NEW x \in Continuations, x[2] = n, phase[n] # "none"
    PROVE  Latest = n /\ IsLatest(n) /\ results = <<>> /\ ~Raised
<1>1. IsLatest(n)
  BY DEF IsLatest, LatestAttemptAnswers
<1>2. Latest = n
  BY <1>1, LatestHolds DEF LatestUnique
<1>3. results = <<>>
  BY DEF OneContinuation
<1>4. ~Raised
  BY DEF InvocationInv
<1> QED BY <1>1, <1>2, <1>3, <1>4

\* Once nothing continues the invocation, no step changes how it ended.
LEMMA NothingRevives ==
    ASSUME TypeOK, Continuations = {}, [Next]_vars
    PROVE  UNCHANGED <<attemptVars, registered, calls, resolved, results>>
<1>1. /\ \A k \in Attempts : phase[k] \notin Live /\ ~registered[k]
      /\ \A k \in Attempts, r \in Results : calls[k][r] = 0
      /\ \A k \in Attempts, c \in Rounds : resolved[k][c]
  BY MembersHold DEF Members, TypeOK
<1>2. CASE UNCHANGED vars
  BY <1>2 DEF vars, attemptVars, routerVars, checkVars
<1>3. ASSUME NEW n \in Attempts,
             \/ NoWorkers(n) \/ Dispatch(n) \/ Dies(n) \/ Arm(n) \/ Timeout(n)
             \/ \E r \in Results : LocalCoordinate(n, r) \/ Handle(n, r)
      PROVE  FALSE
  BY <1>1, <1>3 DEF NoWorkers, Dispatch, Dies, SetupRaises, LocalRaises, Arm, Timeout, LocalCoordinate, Handle, Live
<1>4. ASSUME NEW n \in Attempts, NEW r \in Results, Reply(n, r)
      PROVE  UNCHANGED <<attemptVars, registered, calls, resolved, results>>
  BY <1>1, <1>4 DEF Reply, checkVars
<1>5. ASSUME NEW n \in Attempts, NEW c \in Rounds, CheckInTimeout(n, c) \/ DecideRetry(n, c)
      PROVE  UNCHANGED <<attemptVars, registered, calls, resolved, results>>
  BY <1>1, <1>5 DEF CheckInTimeout, DecideRetry, ResolveByHandle, routerVars
<1>6. ASSUME NEW n \in Attempts, NEW c \in Rounds, DecideWait(n, c)
      PROVE  UNCHANGED <<attemptVars, registered, calls, resolved, results>>
  BY <1>1, <1>6 DEF DecideWait, ResolveByWaiting
<1>7. ASSUME NEW n \in Attempts, NEW c \in Rounds,
             \/ Open(n, c) \/ Opened(n, c) \/ OpenRaises(n, c) \/ FollowUp(n, c)
             \/ CheckInReply(n, c) \/ DecideRaises(n, c)
      PROVE  UNCHANGED <<attemptVars, registered, calls, resolved, results>>
  BY <1>7 DEF Open, Opened, OpenRaises, FollowUp, CheckInReply, DecideRaises, routerVars
<1> QED BY <1>2, <1>3, <1>4, <1>5, <1>6, <1>7 DEF Next, Progress, Dies, CheckInStep

LEMMA NotBegunStep ==
    ASSUME TypeOK, NotBegun, [Next]_vars
    PROVE  NotBegun'
<1>1. CASE UNCHANGED vars
  BY <1>1 DEF vars, attemptVars, routerVars, checkVars, NotBegun
\* Only the attempt a step is about changes, and it was begun.
<1>2. ASSUME NEW n \in Attempts, phase[n] # "none",
             \A k \in Attempts : phase'[k] = "none" => phase[k] = "none",
             \A k \in Attempts \ {n} :
                 registered'[k] = registered[k] /\ calls'[k] = calls[k] /\ resolved'[k] = resolved[k]
      PROVE  NotBegun'
  <2>1. ASSUME NEW k \in Attempts, phase'[k] = "none" PROVE k \in Attempts \ {n} /\ phase[k] = "none"
    BY <1>2, <2>1
  <2> QED BY <1>2, <2>1 DEF NotBegun
<1>3. ASSUME NEW n \in Attempts,
             \/ NoWorkers(n) \/ Dispatch(n) \/ Dies(n)
             \/ \E r \in Results : LocalCoordinate(n, r)
      PROVE  NotBegun'
  <2>1. /\ phase[n] # "none"
        /\ \A k \in Attempts : phase'[k] = "none" => phase[k] = "none"
    BY <1>3 DEF NoWorkers, Dispatch, Dies, SetupRaises, LocalRaises, LocalCoordinate, TypeOK
  <2>2. \A k \in Attempts \ {n} :
            registered'[k] = registered[k] /\ calls'[k] = calls[k] /\ resolved'[k] = resolved[k]
    BY <1>3 DEF NoWorkers, Dispatch, Dies, SetupRaises, LocalRaises, LocalCoordinate, CallHandle, routerVars, checkVars, TypeOK
  <2> QED BY <1>2, <2>1, <2>2
<1>4. ASSUME NEW n \in Attempts, WaitForReply(n)
      PROVE  \A k \in Attempts \ {n} : registered'[k] = registered[k] /\ calls'[k] = calls[k]
  BY <1>4 DEF WaitForReply, CallHandle, TypeOK
<1>5. ASSUME NEW n \in Attempts, Arm(n) PROVE NotBegun'
  <2>1. /\ phase[n] # "none"
        /\ \A k \in Attempts : phase'[k] = "none" => phase[k] = "none"
        /\ resolved' = resolved
    BY <1>5 DEF Arm, TypeOK, checkVars
  <2> QED BY <1>2, <1>4, <1>5, <2>1 DEF Arm
<1>6. ASSUME NEW n \in Attempts, Timeout(n) \/ \E r \in Results : Reply(n, r) PROVE NotBegun'
  <2>1. phase[n] # "none" /\ phase' = phase
    BY <1>6 DEF Timeout, Reply, NotBegun, attemptVars
  <2>2. \A k \in Attempts \ {n} :
            registered'[k] = registered[k] /\ calls'[k] = calls[k] /\ resolved'[k] = resolved[k]
    BY <1>6 DEF Timeout, Reply, CallHandle, checkVars, TypeOK
  <2> QED BY <1>2, <2>1, <2>2
<1>7. ASSUME NEW n \in Attempts, NEW c \in Rounds,
             \/ CheckInStep(n, c) \/ CheckInTimeout(n, c) \/ CheckInReply(n, c)
             \/ OpenRaises(n, c) \/ DecideRaises(n, c)
      PROVE  NotBegun'
  <2>1. phase' = phase
    BY <1>7 DEF CheckInStep, Open, Opened, FollowUp, DecideWait, DecideRetry, CheckInTimeout, CheckInReply,
                OpenRaises, DecideRaises, attemptVars
  <2>2. CASE UNCHANGED <<registered, calls, resolved>>
    BY <2>1, <2>2 DEF NotBegun
  <2>3. ASSUME ~resolved[n][c], resolved' = [resolved EXCEPT ![n][c] = TRUE],
               \A k \in Attempts \ {n} : registered'[k] = registered[k] /\ calls'[k] = calls[k]
        PROVE  NotBegun'
    <3>1. phase[n] # "none"
      BY <2>3 DEF NotBegun
    <3>2. \A k \in Attempts \ {n} : resolved'[k] = resolved[k]
      BY <2>3 DEF TypeOK
    <3> QED BY <1>2, <2>1, <2>3, <3>1, <3>2
  <2>4. CASE DecideRetry(n, c) \/ CheckInTimeout(n, c)
    <3>1. ResolveByHandle(n, c) /\ registered' = registered
      BY <2>4 DEF DecideRetry, CheckInTimeout, routerVars
    <3>2. CallHandle(n, "retryable") => \A k \in Attempts \ {n} : calls'[k] = calls[k]
      BY DEF CallHandle, TypeOK
    <3> QED BY <2>2, <2>3, <3>1, <3>2 DEF ResolveByHandle
  <2>5. CASE DecideWait(n, c)
    BY <1>4, <2>2, <2>3, <2>5 DEF DecideWait, ResolveByWaiting
  <2>6. CASE \/ Open(n, c) \/ Opened(n, c) \/ OpenRaises(n, c) \/ FollowUp(n, c)
             \/ CheckInReply(n, c) \/ DecideRaises(n, c)
    BY <2>2, <2>6 DEF Open, Opened, OpenRaises, FollowUp, CheckInReply, DecideRaises, routerVars
  <2> QED BY <1>7, <2>4, <2>5, <2>6 DEF CheckInStep
<1>8. ASSUME NEW n \in Attempts, NEW r \in Results, Handle(n, r) PROVE NotBegun'
  <2>1. /\ registered' = registered /\ resolved' = resolved
        /\ phase[n] # "none"
        /\ calls' = [calls EXCEPT ![n][r] = @ - 1]
    BY <1>8 DEF Handle, routerVars, checkVars, NotBegun
  <2>2. \A k \in Attempts : phase'[k] = "none" => phase[k] = "none"
    BY <1>8 DEF Handle, TypeOK
  <2>3. \A k \in Attempts \ {n} : calls'[k] = calls[k]
    BY <2>1 DEF TypeOK
  <2> QED BY <1>2, <2>1, <2>2, <2>3
<1> QED BY <1>1, <1>3, <1>5, <1>6, <1>7, <1>8 DEF Next, Progress, Dies

\* What the steps of the invocation itself do to Invocation's state.
InvocationStep == [Promise!Next]_(Promise!invocationVars)

LEMMA AnswerRefines ==
    ASSUME InvocationInv, NEW n \in Attempts, NEW r \in Results,
           Latest = n, results = <<>>, ~Raised, OnResult(n, r),
           r # "retryable" \/ n >= MaxAttempts,
           \A k \in Attempts : phase'[k] = phase[k] \/ (phase[k] # "none" /\ phase'[k] = "over"),
           UNCHANGED cancelled
    PROVE  InvocationStep /\ ~Raised'
<1>1. results' = <<[attempt |-> n, result |-> r]>>
  BY DEF OnResult
<1>2. ~Raised' /\ Raised' = Raised
  BY DEF Raised
<1>3. Latest' = Latest
  BY LatestStays
<1>4. r = "retryable" => n = MaxAttempts
  BY ConstantsAssumption DEF Attempts
<1>5. Promise!Answer(r)
  BY <1>1, <1>2, <1>3, <1>4 DEF Promise!Answer, Promise!Open
<1> QED BY <1>2, <1>5 DEF InvocationStep, Promise!Next

LEMMA RetryRefines ==
    ASSUME TypeOK, NEW n \in Attempts, IsLatest(n), Latest = n, results = <<>>, ~Raised, n < MaxAttempts,
           cancelled' = cancelled \cup {n}, phase' = [phase EXCEPT ![n + 1] = "setup"],
           UNCHANGED results
    PROVE  InvocationStep /\ IsLatest(n + 1)' /\ n + 1 \in Attempts /\ ~Raised'
<1>1. n + 1 \in Attempts
  BY ConstantsAssumption DEF Attempts
<1>2. \A k \in Attempts : phase'[k] = IF k = n + 1 THEN "setup" ELSE phase[k]
  BY DEF TypeOK
<1>3. IsLatest(n + 1)'
  BY <1>1, <1>2, ConstantsAssumption DEF IsLatest, Attempts
<1>4. Latest' = n + 1
  BY <1>1, <1>3, LatestNext DEF LatestUnique
<1>5. ~Raised' /\ Raised' = Raised
  BY <1>2 DEF Raised
<1>6. Promise!Retry
  BY <1>4, <1>5 DEF Promise!Retry, Promise!Open
<1> QED BY <1>1, <1>3, <1>5, <1>6 DEF InvocationStep, Promise!Next

LEMMA RaiseRefines ==
    ASSUME TypeOK, InvocationInv, NEW n \in Attempts, Latest = n, results = <<>>, ~Raised, Dies(n)
    PROVE  InvocationStep
<1>1. /\ \A k \in Attempts : phase'[k] = IF k = n THEN "raised" ELSE phase[k]
      /\ phase[n] \in {"setup", "local"} /\ UNCHANGED <<cancelled, results>>
  BY DEF Dies, SetupRaises, LocalRaises, TypeOK
<1>2. Latest' = Latest
  BY <1>1, LatestStays
<1>3. Raised' = TRUE
  BY <1>1 DEF Raised
<1>4. Promise!Raise
  BY <1>1, <1>2, <1>3 DEF Promise!Raise, Promise!Open
<1> QED BY <1>4 DEF InvocationStep, Promise!Next

\* A step its caller does not see.
LEMMA StutterRefines ==
    ASSUME InvocationInv,
           \A k \in Attempts : phase'[k] = phase[k]
                               \/ (phase[k] \notin {"none", "raised"} /\ phase'[k] \notin {"none", "raised"}),
           UNCHANGED <<cancelled, results>>
    PROVE  InvocationStep /\ Raised' = Raised
<1>1. Latest' = Latest
  BY LatestStays
<1>2. Raised' = Raised
  BY DEF Raised
<1> QED BY <1>1, <1>2 DEF InvocationStep, Promise!invocationVars

\* An attempt whose thread dies of an exception was all that continued the invocation.
LEMMA RaiseEnds ==
    ASSUME TypeOK, OneContinuation, NEW n \in Attempts, Dies(n)
    PROVE  Continuations' = {} /\ results' = results
<1> DEFINE x == <<"phase", n, 0>>
<1>1. x \in Continuations
  BY MembersHold DEF Members, Dies, SetupRaises, LocalRaises, Live
<1>2. /\ registered' = registered /\ calls' = calls /\ resolved' = resolved /\ results' = results
      /\ \A k \in Attempts : phase'[k] \in Live => phase[k] \in Live /\ k # n
  BY DEF Dies, SetupRaises, LocalRaises, routerVars, checkVars, TypeOK, Live
<1>3. \A k \in Attempts : x = <<"phase", k, 0>> => k = n
  OBVIOUS
<1>4. /\ \A k \in Attempts : x # <<"watch", k, 0>>
      /\ \A k \in Attempts, r \in Results : x # <<"handle", k, r>>
      /\ \A k \in Attempts, c \in Rounds : x # <<"check-in", k, c>>
  OBVIOUS
<1> HIDE DEF x
<1>5. \A z \in Continuations' : FALSE
  BY <1>1, <1>2, <1>3, <1>4, OnlyOne, MembersNext DEF Members
<1> QED BY <1>2, <1>5

\* The steps that neither answer, nor retry, nor raise.
LEMMA QuietStep ==
    ASSUME TypeOK, NEW n \in Attempts,
           \/ Dispatch(n) \/ Arm(n) \/ Timeout(n)
           \/ \E r \in Results : LocalCoordinate(n, r) \/ Reply(n, r)
           \/ \E c \in Rounds :
                  \/ CheckInStep(n, c) \/ CheckInTimeout(n, c) \/ CheckInReply(n, c)
                  \/ OpenRaises(n, c) \/ DecideRaises(n, c)
    PROVE  /\ \A k \in Attempts :
                 \/ phase'[k] = phase[k]
                 \/ phase[k] \notin {"none", "raised"} /\ phase'[k] \notin {"none", "raised"}
           /\ UNCHANGED <<cancelled, results>>
<1>1. CASE Dispatch(n) \/ Arm(n) \/ \E r \in Results : LocalCoordinate(n, r)
  BY <1>1 DEF Dispatch, Arm, LocalCoordinate, TypeOK
<1>2. CASE Timeout(n) \/ \E r \in Results : Reply(n, r)
  BY <1>2 DEF Timeout, Reply, attemptVars
<1>3. ASSUME NEW c \in Rounds,
             \/ CheckInStep(n, c) \/ CheckInTimeout(n, c) \/ CheckInReply(n, c)
             \/ OpenRaises(n, c) \/ DecideRaises(n, c)
      PROVE  UNCHANGED <<phase, cancelled, results>>
  BY <1>3 DEF CheckInStep, Open, Opened, FollowUp, DecideWait, DecideRetry, CheckInTimeout, CheckInReply,
              OpenRaises, DecideRaises, attemptVars
<1> QED BY <1>1, <1>2, <1>3

LEMMA StepImplements ==
    ASSUME TypeOK, OneContinuation, LatestAttemptAnswers, InvocationInv, [Next]_vars
    PROVE  InvocationStep /\ InvocationInv'
<1>1. NotBegun'
  BY NotBegunStep DEF InvocationInv
<1>2. ASSUME \A k \in Attempts : phase'[k] = "none" <=> phase[k] = "none",
             Raised' => Continuations' = {} /\ results' = <<>>
      PROVE  InvocationInv'
  BY <1>1, <1>2, LatestStays DEF InvocationInv
<1>3. CASE Continuations = {}
  <2>1. phase' = phase /\ cancelled' = cancelled /\ results' = results
        /\ registered' = registered /\ calls' = calls /\ resolved' = resolved
    BY <1>3, NothingRevives DEF attemptVars
  <2>2. InvocationStep /\ Raised' = Raised
    BY <2>1, StutterRefines
  <2>3. \A z \in Continuations' : z \in Continuations
    BY <2>1, MembersHold, MembersNext DEF Members
  <2>4. Raised' => Continuations' = {} /\ results' = <<>>
    BY <1>3, <2>1, <2>2, <2>3 DEF InvocationInv
  <2> QED BY <1>2, <2>1, <2>2, <2>4
<1>4. CASE Continuations # {} /\ UNCHANGED vars
  <2>1. phase' = phase /\ cancelled' = cancelled /\ results' = results
    BY <1>4 DEF vars, attemptVars
  <2>2. InvocationStep /\ Raised' = Raised /\ ~Raised
    BY <1>4, <2>1, StutterRefines DEF InvocationInv
  <2> QED BY <1>2, <2>1, <2>2
<1>5. ASSUME Continuations # {}, NEW n \in Attempts,
             \/ Dispatch(n) \/ Arm(n) \/ Timeout(n)
             \/ \E r \in Results : LocalCoordinate(n, r) \/ Reply(n, r)
             \/ \E c \in Rounds :
                    \/ CheckInStep(n, c) \/ CheckInTimeout(n, c) \/ CheckInReply(n, c)
                    \/ OpenRaises(n, c) \/ DecideRaises(n, c)
      PROVE  InvocationStep /\ InvocationInv'
  <2>1. /\ \A k \in Attempts :
              \/ phase'[k] = phase[k]
              \/ phase[k] \notin {"none", "raised"} /\ phase'[k] \notin {"none", "raised"}
        /\ UNCHANGED <<cancelled, results>>
    BY <1>5, QuietStep
  <2>2. InvocationStep /\ Raised' = Raised /\ ~Raised
    BY <1>5, <2>1, StutterRefines DEF InvocationInv
  <2> QED BY <1>2, <2>1, <2>2
<1>6. ASSUME NEW n \in Attempts, NoWorkers(n) \/ Dies(n)
      PROVE  InvocationStep /\ InvocationInv'
  <2> DEFINE x == <<"phase", n, 0>>
  <2>1. x \in Continuations /\ x[2] = n /\ phase[n] # "none"
    BY <1>6, MembersHold DEF Members, NoWorkers, Dies, SetupRaises, LocalRaises, Live
  <2> HIDE DEF x
  <2>2. Latest = n /\ results = <<>> /\ ~Raised
    BY <2>1, ActorIsLatest
  <2>3. CASE NoWorkers(n)
    <3>1. /\ \A k \in Attempts : phase'[k] = phase[k] \/ (phase[k] # "none" /\ phase'[k] = "over")
          /\ OnResult(n, "final") /\ UNCHANGED cancelled
      BY <2>3 DEF NoWorkers, TypeOK
    <3>2. "final" \in Results /\ "final" # "retryable"
      BY DEF Results
    <3>3. InvocationStep /\ ~Raised'
      BY <2>2, <3>1, <3>2, AnswerRefines
    <3> QED BY <1>2, <3>1, <3>3
  <2>4. CASE Dies(n)
    <3>1. InvocationStep
      BY <2>2, <2>4, RaiseRefines
    <3>2. Continuations' = {} /\ results' = <<>>
      BY <2>2, <2>4, RaiseEnds
    <3>3. \A k \in Attempts : phase'[k] = "none" <=> phase[k] = "none"
      BY <2>4 DEF Dies, SetupRaises, LocalRaises, TypeOK
    <3> QED BY <1>2, <3>1, <3>2, <3>3
  <2> QED BY <1>6, <2>3, <2>4
<1>7. ASSUME NEW n \in Attempts, NEW r \in Results, Handle(n, r)
      PROVE  InvocationStep /\ InvocationInv'
  <2> DEFINE x == <<"handle", n, r>>
  <2>1. x \in Continuations /\ x[2] = n
    BY <1>7, MembersHold DEF Members, Handle
  <2> HIDE DEF x
  <2>2. phase[n] # "none"
    BY <1>7 DEF Handle, InvocationInv, NotBegun
  <2>3. Latest = n /\ IsLatest(n) /\ results = <<>> /\ ~Raised
    BY <2>1, <2>2, ActorIsLatest
  <2>4. CASE (r # "retryable" \/ n >= MaxAttempts) /\ OnResult(n, r) /\ UNCHANGED <<phase, cancelled>>
    <3>1. InvocationStep /\ ~Raised'
      BY <2>3, <2>4, AnswerRefines
    <3> QED BY <1>2, <2>4, <3>1
  <2>5. CASE /\ n < MaxAttempts /\ cancelled' = cancelled \cup {n}
             /\ phase' = [phase EXCEPT ![n + 1] = "setup"] /\ UNCHANGED results
    <3>1. InvocationStep /\ IsLatest(n + 1)' /\ n + 1 \in Attempts /\ ~Raised'
      BY <2>3, <2>5, RetryRefines
    <3> QED BY <1>1, <3>1 DEF InvocationInv
  <2> QED BY <1>7, <2>4, <2>5 DEF Handle
<1> QED BY <1>3, <1>4, <1>5, <1>6, <1>7 DEF Next, Progress, Dies

LEMMA InitImplements == Init => Promise!Init /\ InvocationInv
<1> SUFFICES ASSUME Init PROVE Promise!Init /\ InvocationInv
  OBVIOUS
<1>1. 1 \in Attempts
  BY ConstantsAssumption DEF Attempts
<1>2. /\ \A n \in Attempts : phase[n] = IF n = 1 THEN "setup" ELSE "none"
      /\ cancelled = {} /\ results = <<>>
  BY DEF Init
<1>3. IsLatest(1)
  BY <1>1, <1>2 DEF IsLatest, Attempts
<1>4. Latest = 1
  BY <1>1, <1>3, LatestHolds DEF LatestUnique
<1>5. ~Raised
  BY <1>2 DEF Raised
<1>6. NotBegun
  BY DEF Init, NotBegun
<1> QED BY <1>1, <1>2, <1>3, <1>4, <1>5, <1>6 DEF Promise!Init, InvocationInv

\* run_skill implements Invocation: its caller sees one attempt after another,
\* each superseded one cancelled, and at most one answer, however many attempts,
\* check-ins, timers and late answers race behind it.
THEOREM RunSkillImplementsInvocation == Spec => ImplementsInvocation
<1>1. TypeOK /\ OneContinuation /\ LatestAttemptAnswers /\ InvocationInv /\ [Next]_vars
      => InvocationInv' /\ [Promise!Next]_(Promise!invocationVars)
  BY StepImplements DEF InvocationStep
<1> QED BY <1>1, InitImplements, TypeCorrect, OneThread, LatestAnswers,
           PTL DEF Spec, ImplementsInvocation, Promise!Spec

-----------------------------------------------------------------------------
(* The dialogue behind the check-ins                                         *)

DialogueThreads ==
    [stage : {"ask", "callback", "respond", "chat", "reply"}, agent : Agents, conv : Convs,
     n : 1 .. MaxMessages, history : Seq(1 .. MaxMessages)]

\* DialogueTypeOK, with the threads' histories.
DialogueTypes ==
    /\ waiting \in [Agents -> SUBSET Convs]
    /\ sessions \in [Agents -> [Convs -> Seq(1 .. MaxMessages)]]
    /\ inbox \in [Agents -> Seq(Messages)]
    /\ threads \subseteq DialogueThreads
    /\ count \in [Convs -> 0 .. MaxMessages]
    /\ asked \in [Convs -> 0 .. MaxQuestions]
    /\ heard \in [Convs -> Seq(1 .. MaxMessages)]
    /\ disturbed \subseteq Convs

Numbered(s, k) == Len(s) = k /\ Counting(s)

NoMail(a, c) == \A i \in DOMAIN inbox[a] : inbox[a][i].conv # c

\* The last message of c, and no other of c, is in a's inbox.
LastMail(a, c) ==
    \E i \in DOMAIN inbox[a] :
        /\ inbox[a][i].conv = c /\ inbox[a][i].n = count[c]
        /\ \A j \in DOMAIN inbox[a] : inbox[a][j].conv = c => j = i

Idle(c) == \A t \in threads : t.conv # c

\* One thread works on c, at the last message.
Works(c, stage, a) ==
    \E t \in threads :
        /\ t.stage = stage /\ t.agent = a /\ t.conv = c /\ t.n = count[c]
        /\ stage = "chat" => Numbered(t.history, count[c])
        /\ \A u \in threads : u.conv = c => u = t

\* The last message is a question, and on its way to an answer.
Asking(c) ==
    /\ count[c] > 0 /\ c \in waiting[Initiator]
    /\ Numbered(heard[c], count[c]) /\ Numbered(sessions[Responder][c], count[c] - 1)
    /\ NoMail(Initiator, c)
    /\ \/ NoMail(Responder, c) /\ \/ Works(c, "ask", Initiator)
                                  \/ Works(c, "respond", Responder)
                                  \/ Works(c, "chat", Responder)
       \/ LastMail(Responder, c) /\ Idle(c)

\* It is an answer that the initiator has not heard.
Answering(c) ==
    /\ count[c] > 0
    /\ Numbered(heard[c], count[c] - 1) /\ Numbered(sessions[Responder][c], count[c])
    /\ NoMail(Responder, c)
    /\ \/ NoMail(Initiator, c) /\ Works(c, "reply", Responder) /\ c \in waiting[Initiator]
       \/ LastMail(Initiator, c) /\ Idle(c) /\ c \in waiting[Initiator]
       \/ NoMail(Initiator, c) /\ Works(c, "callback", Initiator) /\ c \notin waiting[Initiator]

\* It has not begun, or was let end.
Resting(c) ==
    /\ Numbered(heard[c], count[c]) /\ Numbered(sessions[Responder][c], count[c])
    /\ NoMail(Initiator, c) /\ NoMail(Responder, c) /\ Idle(c) /\ c \notin waiting[Initiator]

Protocol(c) == sessions[Initiator][c] = <<>> /\ (Asking(c) \/ Answering(c) \/ Resting(c))

DialogueInv ==
    /\ \A c \in Convs \ disturbed : Protocol(c)
    /\ \A c \in Convs : count[c] = 0 => asked[c] = 0 /\ c \notin disturbed
    /\ waiting[Responder] = {}
    /\ IsFiniteSet(threads)
    /\ RepliesOnce

USE DialogueAssumption

LEMMA NumberedFacts ==
  /\ Numbered(<<>>, 0)
  /\ \A s \in Seq(1 .. MaxMessages), k \in Nat :
        Numbered(s, k) => Numbered(Append(s, k + 1), k + 1) /\ Numbered(s \o <<k + 1>>, k + 1)
  /\ \A s \in Seq(1 .. MaxMessages), k \in 1 .. MaxMessages :
        Append(s, k) \in Seq(1 .. MaxMessages) /\ s \o <<k>> \in Seq(1 .. MaxMessages)
        /\ Len(s \o <<k>>) = Len(s) + 1
<1>1. Numbered(<<>>, 0)
  BY DEF Numbered, Counting
<1>2. ASSUME NEW s \in Seq(1 .. MaxMessages), NEW k \in Nat, Numbered(s, k)
      PROVE  Numbered(Append(s, k + 1), k + 1) /\ Numbered(s \o <<k + 1>>, k + 1)
  <2>1. Numbered(Append(s, k + 1), k + 1)
    BY <1>2 DEF Numbered, Counting
  <2>2. Len(s \o <<k + 1>>) = k + 1
    BY <1>2 DEF Numbered
  <2>3. Counting(s \o <<k + 1>>)
    BY <1>2 DEF Numbered, Counting
  <2> QED
    BY <2>1, <2>2, <2>3 DEF Numbered
<1>3. ASSUME NEW s \in Seq(1 .. MaxMessages), NEW k \in 1 .. MaxMessages
      PROVE  Append(s, k) \in Seq(1 .. MaxMessages) /\ s \o <<k>> \in Seq(1 .. MaxMessages)
             /\ Len(s \o <<k>>) = Len(s) + 1
  OBVIOUS
<1> QED
  BY <1>1, <1>2, <1>3

\* A message arrives behind the others, or is lost.
LEMMA SendFacts ==
  ASSUME DialogueTypes, NEW a \in Agents, NEW c \in Convs, NEW n \in 1 .. MaxMessages, Send(a, c, n)
  PROVE  /\ inbox' \in [Agents -> Seq(Messages)] /\ disturbed' \subseteq Convs
         /\ disturbed' \in {disturbed, disturbed \cup {c}}
         /\ \/ /\ inbox'[Other(a)] = Append(inbox[Other(a)], [conv |-> c, n |-> n])
               /\ inbox'[a] = inbox[a] /\ disturbed' = disturbed
            \/ inbox' = inbox /\ c \in disturbed'
<1>1. Other(a) \in Agents /\ Other(a) # a
  BY DEF Other, Agents
<1>2. [conv |-> c, n |-> n] \in Messages
  BY DEF Messages
<1>3. inbox \in [Agents -> Seq(Messages)] /\ disturbed \subseteq Convs
  BY DEF DialogueTypes
<1>4. CASE inbox' = [inbox EXCEPT ![Other(a)] = Append(@, [conv |-> c, n |-> n])] /\ NoFault
  <2>1. Append(inbox[Other(a)], [conv |-> c, n |-> n]) \in Seq(Messages)
    BY <1>1, <1>2, <1>3
  <2> QED
    BY <1>1, <1>3, <1>4, <2>1 DEF NoFault
<1>5. CASE Fault("send", {c}) /\ UNCHANGED inbox
  BY <1>3, <1>5 DEF Fault
<1> QED
  BY <1>4, <1>5 DEF Send

LEMMA MailArrives ==
  ASSUME DialogueTypes, NEW b \in Agents, NEW c \in Convs, NEW n \in 1 .. MaxMessages,
         inbox'[b] = Append(inbox[b], [conv |-> c, n |-> n])
  PROVE  /\ NoMail(b, c) /\ n = count'[c] => LastMail(b, c)'
         /\ \A d \in Convs \ {c} :
               /\ NoMail(b, d) => NoMail(b, d)'
               /\ LastMail(b, d) /\ count'[d] = count[d] => LastMail(b, d)'
<1> DEFINE s == inbox[b]
           m == [conv |-> c, n |-> n]
<1>1. s \in Seq(Messages)
  BY DEF DialogueTypes
<1>2. /\ Append(s, m)[Len(s) + 1] = m /\ Len(s) + 1 \in DOMAIN Append(s, m)
      /\ \A i \in DOMAIN Append(s, m) : i \in DOMAIN s \/ i = Len(s) + 1
      /\ \A i \in DOMAIN s : i \in DOMAIN Append(s, m) /\ Append(s, m)[i] = s[i]
  <2> HIDE DEF m, s
  <2> QED
    BY <1>1
<1>3. m.conv = c /\ m.n = n
  OBVIOUS
<1>4. inbox'[b] = Append(s, m)
  OBVIOUS
<1> HIDE DEF m
<1>5. NoMail(b, c) /\ n = count'[c] => LastMail(b, c)'
  BY <1>2, <1>3, <1>4 DEF NoMail, LastMail
<1>6. ASSUME NEW d \in Convs \ {c}, NoMail(b, d)  PROVE NoMail(b, d)'
  BY <1>2, <1>3, <1>4, <1>6 DEF NoMail
<1>7. ASSUME NEW d \in Convs \ {c}, LastMail(b, d), count'[d] = count[d]  PROVE LastMail(b, d)'
  <2>1. PICK i \in DOMAIN s : /\ s[i].conv = d /\ s[i].n = count[d]
                              /\ \A j \in DOMAIN s : s[j].conv = d => j = i
    BY <1>7 DEF LastMail
  <2>2. i \in DOMAIN Append(s, m) /\ Append(s, m)[i] = s[i]
    BY <1>2
  <2>3. \A j \in DOMAIN Append(s, m) : Append(s, m)[j].conv = d => j = i
    BY <1>2, <1>3, <1>7, <2>1
  <2> QED
    BY <1>4, <1>7, <2>1, <2>2, <2>3 DEF LastMail
<1> QED
  BY <1>5, <1>6, <1>7

LEMMA MailTaken ==
  ASSUME DialogueTypes, NEW b \in Agents, inbox[b] # <<>>, inbox'[b] = Tail(inbox[b]),
         count' = count, NEW c \in Convs, inbox[b][1].conv = c
  PROVE  /\ LastMail(b, c) => NoMail(b, c)'
         /\ \A d \in Convs :
               /\ NoMail(b, d) => NoMail(b, d)'
               /\ d # c /\ LastMail(b, d) => LastMail(b, d)'
<1> DEFINE s == inbox[b]
<1>1. s \in Seq(Messages) /\ s # <<>>
  BY DEF DialogueTypes
<1>2. /\ 1 \in DOMAIN s
      /\ \A i \in DOMAIN Tail(s) : i + 1 \in DOMAIN s /\ i + 1 # 1 /\ Tail(s)[i] = s[i + 1]
      /\ \A i \in DOMAIN s : i # 1 => i - 1 \in DOMAIN Tail(s) /\ Tail(s)[i - 1] = s[i]
      /\ DOMAIN s \subseteq Nat /\ DOMAIN Tail(s) \subseteq Nat
  BY <1>1
<1>3. inbox'[b] = Tail(s)
  OBVIOUS
<1>4. ASSUME LastMail(b, c)  PROVE NoMail(b, c)'
  <2>1. \A j \in DOMAIN s : s[j].conv = c => j = 1
    BY <1>2, <1>4 DEF LastMail
  <2>2. \A i \in DOMAIN Tail(s) : Tail(s)[i].conv # c
    BY <1>2, <2>1
  <2> QED
    BY <1>3, <2>2 DEF NoMail
<1>5. ASSUME NEW d \in Convs, NoMail(b, d)  PROVE NoMail(b, d)'
  BY <1>2, <1>3, <1>5 DEF NoMail
<1>6. ASSUME NEW d \in Convs, d # c, LastMail(b, d)  PROVE LastMail(b, d)'
  <2>1. PICK i \in DOMAIN s : /\ s[i].conv = d /\ s[i].n = count[d]
                              /\ \A j \in DOMAIN s : s[j].conv = d => j = i
    BY <1>6 DEF LastMail
  <2>2. i - 1 \in DOMAIN Tail(s) /\ Tail(s)[i - 1] = s[i]
    BY <1>2, <1>6, <2>1
  <2>3. \A j \in DOMAIN Tail(s) : Tail(s)[j].conv = d => j = i - 1
    BY <1>2, <2>1
  <2> QED
    BY <1>3, <2>1, <2>2, <2>3 DEF LastMail
<1> QED
  BY <1>4, <1>5, <1>6
\* A step that leaves a conversation alone.
LEMMA ProtocolFrame ==
  ASSUME NEW d \in Convs, Protocol(d),
         count'[d] = count[d], heard'[d] = heard[d],
         \A a \in Agents : /\ sessions'[a][d] = sessions[a][d]
                           /\ NoMail(a, d) => NoMail(a, d)'
                           /\ LastMail(a, d) => LastMail(a, d)',
         d \in waiting'[Initiator] <=> d \in waiting[Initiator],
         \A t \in threads \cup threads' : t.conv = d => (t \in threads <=> t \in threads')
  PROVE  Protocol(d)'
<1>1. Initiator \in Agents /\ Responder \in Agents
  BY DEF Agents
<1>2. Idle(d) => Idle(d)'
  BY DEF Idle
<1>3. \A stage, a : Works(d, stage, a) => Works(d, stage, a)'
  <2> SUFFICES ASSUME NEW stage, NEW a, Works(d, stage, a)  PROVE Works(d, stage, a)'
    OBVIOUS
  <2>1. PICK t \in threads :
           /\ t.stage = stage /\ t.agent = a /\ t.conv = d /\ t.n = count[d]
           /\ stage = "chat" => Numbered(t.history, count[d])
           /\ \A u \in threads : u.conv = d => u = t
    BY DEF Works
  <2>2. t \in threads' /\ \A u \in threads' : u.conv = d => u = t
    BY <2>1
  <2> QED
    BY <2>1, <2>2 DEF Works, Numbered, Counting
<1>4. Asking(d) => Asking(d)'
  BY <1>1, <1>2, <1>3 DEF Asking, Numbered, Counting
<1>5. Answering(d) => Answering(d)'
  BY <1>1, <1>2, <1>3 DEF Answering, Numbered, Counting
<1>6. Resting(d) => Resting(d)'
  BY <1>1, <1>2, <1>3 DEF Resting, Numbered, Counting
<1> QED
  BY <1>1, <1>4, <1>5, <1>6 DEF Protocol

\* Where a conversation with a thread is.
LEMMA TurnOf ==
  ASSUME DialogueTypes, NEW c \in Convs, Protocol(c), NEW t \in threads, t.conv = c
  PROVE  /\ \A u \in threads : u.conv = c => u = t
         /\ t.n = count[c] /\ count[c] > 0
         /\ NoMail(Initiator, c) /\ NoMail(Responder, c)
         /\ t.stage \in {"ask", "respond", "chat"} =>
               /\ c \in waiting[Initiator]
               /\ Numbered(heard[c], count[c]) /\ Numbered(sessions[Responder][c], count[c] - 1)
               /\ t.stage = "chat" => Numbered(t.history, count[c])
         /\ t.stage \in {"reply", "callback"} =>
               /\ Numbered(heard[c], count[c] - 1) /\ Numbered(sessions[Responder][c], count[c])
               /\ c \in waiting[Initiator] <=> t.stage = "reply"
         /\ t.agent = IF t.stage \in {"ask", "callback"} THEN Initiator ELSE Responder
<1>1. ~Idle(c)
  BY DEF Idle
<1>2. \A stage, a : Works(c, stage, a) =>
         /\ t.stage = stage /\ t.agent = a /\ t.n = count[c]
         /\ stage = "chat" => Numbered(t.history, count[c])
         /\ \A u \in threads : u.conv = c => u = t
  BY DEF Works
<1>3. CASE Asking(c)
  BY <1>1, <1>2, <1>3 DEF Asking
<1>4. CASE Answering(c)
  BY <1>1, <1>2, <1>4 DEF Answering
<1>5. CASE Resting(c)
  BY <1>1, <1>5 DEF Resting
<1> QED
  BY <1>3, <1>4, <1>5 DEF Protocol

\* A thread takes the place of every other of its conversation.
LEMMA WorksNext ==
  ASSUME NEW c, NEW t, NEW u,
         \A x \in threads : x.conv = c => x = t,
         threads' = (threads \ {t}) \cup {u}, u.conv = c, u.n = count'[c],
         u.stage = "chat" => Numbered(u.history, count'[c])
  PROVE  Works(c, u.stage, u.agent)'
<1>1. u \in threads' /\ \A x \in threads' : x.conv = c => x = u
  OBVIOUS
<1>2. PICK stage, a : stage = u.stage /\ a = u.agent
  OBVIOUS
<1>3. Works(c, stage, a)'
  BY <1>1, <1>2 DEF Works, Numbered, Counting
<1> QED
  BY <1>2, <1>3 DEF Works, Numbered, Counting

LEMMA ThreadType ==
  ASSUME NEW stage \in {"ask", "callback", "respond", "chat", "reply"}, NEW a \in Agents,
         NEW c \in Convs, NEW n \in 1 .. MaxMessages, NEW history \in Seq(1 .. MaxMessages)
  PROVE  /\ Thread(stage, a, c, n, history) \in DialogueThreads
         /\ Thread(stage, a, c, n, history).stage = stage
         /\ Thread(stage, a, c, n, history).agent = a
         /\ Thread(stage, a, c, n, history).conv = c
         /\ Thread(stage, a, c, n, history).n = n
         /\ Thread(stage, a, c, n, history).history = history
BY DEF Thread, DialogueThreads

LEMMA ThreadParts ==
  ASSUME NEW t \in DialogueThreads
  PROVE  /\ t.stage \in {"ask", "callback", "respond", "chat", "reply"}
         /\ t.agent \in Agents /\ t.conv \in Convs /\ t.n \in 1 .. MaxMessages
         /\ t.history \in Seq(1 .. MaxMessages)
         /\ \A stage \in {"ask", "callback", "respond", "chat", "reply"},
               n \in 1 .. MaxMessages, h \in Seq(1 .. MaxMessages) :
               /\ [t EXCEPT !.stage = stage, !.history = h] \in DialogueThreads
               /\ [t EXCEPT !.stage = stage, !.n = n] \in DialogueThreads
BY DEF DialogueThreads

\* What Ask leaves: its question, number n of thread u, is the last message.
Question(c, history, done, n, u) ==
    /\ n = count[c] + 1 /\ asked[c] < MaxQuestions
    /\ u.stage = "ask" /\ u.agent = Initiator /\ u.conv = c /\ u.n = n
    /\ threads' = (threads \ done) \cup {u}
    /\ count' = [count EXCEPT ![c] = n]
    /\ asked' = [asked EXCEPT ![c] = asked[c] + 1]
    /\ heard' = [heard EXCEPT ![c] = history \o <<n>>]
    /\ waiting' = [waiting EXCEPT ![Initiator] = waiting[Initiator] \cup {c}]
    /\ history \o <<n>> \in Seq(1 .. MaxMessages)

LEMMA AskFacts ==
  ASSUME DialogueTypes, NEW c \in Convs, NEW history \in Seq(1 .. MaxMessages), NEW done,
         Ask(c, history, done)
  PROVE  \E n \in 1 .. MaxMessages, u \in DialogueThreads : Question(c, history, done, n, u)
<1>1. count[c] + 1 \in 1 .. MaxMessages /\ asked[c] < MaxQuestions
  BY DEF Ask, DialogueTypes
<1>2. PICK n \in 1 .. MaxMessages : n = count[c] + 1
  BY <1>1
<1>3. Initiator \in Agents /\ <<>> \in Seq(1 .. MaxMessages)
  BY DEF Agents
<1>4. PICK u \in DialogueThreads : u = Thread("ask", Initiator, c, n, <<>>)
  BY <1>2, <1>3, ThreadType
<1>5. u.stage = "ask" /\ u.agent = Initiator /\ u.conv = c /\ u.n = n
  BY <1>4 DEF Thread
<1>6. history \o <<n>> \in Seq(1 .. MaxMessages)
  BY NumberedFacts
<1> QED
  BY <1>1, <1>2, <1>4, <1>5, <1>6 DEF Ask, Question

LEMMA DialogueTypesStep ==
  ASSUME DialogueTypes, [DialogueNext]_dialogueVars
  PROVE  DialogueTypes'
<1> USE DEF dialogueVars
<1>0. Initiator \in Agents /\ threads \subseteq DialogueThreads
  BY DEF Agents, DialogueTypes
<1>1. ASSUME NEW c \in Convs, NEW history \in Seq(1 .. MaxMessages), NEW done,
             Ask(c, history, done), UNCHANGED <<sessions, inbox, faults, disturbed>>
      PROVE  DialogueTypes'
  <2>1. PICK n \in 1 .. MaxMessages, u \in DialogueThreads : Question(c, history, done, n, u)
    BY <1>1, AskFacts
  <2>2. threads' \subseteq DialogueThreads /\ count' \in [Convs -> 0 .. MaxMessages]
    BY <1>0, <2>1 DEF DialogueTypes, Question
  <2>3. asked' \in [Convs -> 0 .. MaxQuestions]
    BY <2>1 DEF DialogueTypes, Question
  <2>4. heard' \in [Convs -> Seq(1 .. MaxMessages)] /\ waiting' \in [Agents -> SUBSET Convs]
    BY <2>1 DEF DialogueTypes, Question
  <2> QED
    BY <1>1, <2>2, <2>3, <2>4 DEF DialogueTypes
<1>2. ASSUME NEW c \in Convs, Start(c)  PROVE DialogueTypes'
  <2>1. <<>> \in Seq(1 .. MaxMessages)
    OBVIOUS
  <2>2. Ask(c, <<>>, {}) /\ UNCHANGED <<sessions, inbox, faults, disturbed>>
    BY <1>2 DEF Start
  <2> QED
    BY <1>1, <2>1, <2>2
<1>3. ASSUME NEW a \in Agents, HandleMessage(a)  PROVE DialogueTypes'
  <2>1. inbox[a][1] \in Messages /\ Tail(inbox[a]) \in Seq(Messages)
    BY <1>3 DEF HandleMessage, DialogueTypes
  <2>2. PICK c \in Convs, n \in 1 .. MaxMessages : c = inbox[a][1].conv /\ n = inbox[a][1].n
    BY <2>1 DEF Messages
  <2>3. PICK stage \in {"callback", "respond"} : threads' = threads \cup {Thread(stage, a, c, n, <<>>)}
    BY <1>3, <2>2 DEF HandleMessage
  <2>4. threads' \subseteq DialogueThreads
    <3>1. <<>> \in Seq(1 .. MaxMessages)
      OBVIOUS
    <3>2. Thread(stage, a, c, n, <<>>) \in DialogueThreads
      BY <3>1, ThreadType
    <3> QED
      BY <1>0, <2>3, <3>2
  <2>5. inbox' \in [Agents -> Seq(Messages)] /\ disturbed' \subseteq Convs
    BY <1>3, <2>1, <2>2 DEF HandleMessage, DialogueTypes, Fault, NoFault
  <2>6. waiting' \in [Agents -> SUBSET Convs]
    BY <1>3 DEF HandleMessage, DialogueTypes
  <2> QED
    BY <1>3, <2>4, <2>5, <2>6 DEF HandleMessage, DialogueTypes
<1>4. ASSUME NEW a \in Agents, Restart(a)  PROVE DialogueTypes'
  <2>1. <<>> \in Seq(1 .. MaxMessages)
    OBVIOUS
  <2>2. sessions' \in [Agents -> [Convs -> Seq(1 .. MaxMessages)]] /\ waiting' \in [Agents -> SUBSET Convs]
    BY <1>4, <2>1 DEF Restart, DialogueTypes
  <2> QED
    BY <1>4, <2>2 DEF Restart, DialogueTypes, Fault
<1>5. ASSUME NEW t \in threads, SendQuestion(t) \/ RespondSend(t)  PROVE DialogueTypes'
  <2>1. inbox' \in [Agents -> Seq(Messages)] /\ disturbed' \subseteq Convs
    BY <1>0, <1>5, ThreadParts, SendFacts DEF SendQuestion, RespondSend
  <2> QED
    BY <1>5, <2>1 DEF SendQuestion, RespondSend, DialogueTypes
<1>6. ASSUME NEW t \in threads, AskAgain(t)  PROVE DialogueTypes'
  <2>1. heard[t.conv] \o <<t.n>> \in Seq(1 .. MaxMessages) /\ t.conv \in Convs
    BY <1>0, ThreadParts, NumberedFacts DEF DialogueTypes
  <2> QED
    BY <1>1, <1>6, <2>1 DEF AskAgain
<1>7. ASSUME NEW t \in threads, LetEnd(t)  PROVE DialogueTypes'
  <2>1. heard[t.conv] \o <<t.n>> \in Seq(1 .. MaxMessages) /\ t.conv \in Convs
    BY <1>0, ThreadParts, NumberedFacts DEF DialogueTypes
  <2> QED
    BY <1>7, <2>1 DEF LetEnd, DialogueTypes
<1>8. ASSUME NEW t \in threads, RespondRead(t)  PROVE DialogueTypes'
  <2>1. t \in DialogueThreads
    BY <1>0
  <2>2. sessions[t.agent][t.conv] \in Seq(1 .. MaxMessages) /\ t.n \in 1 .. MaxMessages
    <3>1. t.agent \in Agents /\ t.conv \in Convs /\ t.n \in 1 .. MaxMessages
      BY <2>1, ThreadParts
    <3> QED
      BY <3>1 DEF DialogueTypes
  <2>3. PICK h \in Seq(1 .. MaxMessages) : h = Append(sessions[t.agent][t.conv], t.n)
    BY <2>2, NumberedFacts
  <2>4. [t EXCEPT !.stage = "chat", !.history = h] \in DialogueThreads
    BY <2>1, ThreadParts
  <2> QED
    BY <1>8, <2>3, <2>4 DEF RespondRead, Move, DialogueTypes
<1>9. ASSUME NEW t \in threads, RespondWrite(t)  PROVE DialogueTypes'
  <2>1. t \in DialogueThreads
    BY <1>0
  <2>2. t.agent \in Agents /\ t.conv \in Convs /\ t.history \in Seq(1 .. MaxMessages)
    BY <2>1, ThreadParts
  <2>3. PICK n \in 1 .. MaxMessages : n = count[t.conv] + 1
    <3>1. count[t.conv] \in 0 .. MaxMessages
      BY <2>2 DEF DialogueTypes
    <3>2. count[t.conv] < MaxMessages
      BY <1>9 DEF RespondWrite
    <3>3. count[t.conv] + 1 \in 1 .. MaxMessages
      BY <3>1, <3>2
    <3> QED
      BY <3>3
  <2>4. [t EXCEPT !.stage = "reply", !.n = n] \in DialogueThreads
    BY <2>1, ThreadParts
  <2>5. Append(t.history, n) \in Seq(1 .. MaxMessages)
    BY <2>2, NumberedFacts
  <2>6. /\ threads' = (threads \ {t}) \cup {[t EXCEPT !.stage = "reply", !.n = n]}
        /\ count' = [count EXCEPT ![t.conv] = n]
        /\ sessions' = [sessions EXCEPT ![t.agent][t.conv] = Append(t.history, n)]
    BY <1>9, <2>3 DEF RespondWrite, Move
  <2>7. sessions' \in [Agents -> [Convs -> Seq(1 .. MaxMessages)]]
    BY <2>2, <2>5, <2>6 DEF DialogueTypes
  <2>8. threads' \subseteq DialogueThreads
    BY <1>0, <2>4, <2>6
  <2>9. count' \in [Convs -> 0 .. MaxMessages]
    <3>1. n \in 0 .. MaxMessages
      OBVIOUS
    <3> QED
      BY <2>2, <2>6, <3>1 DEF DialogueTypes
  <2> QED
    BY <1>9, <2>7, <2>8, <2>9 DEF RespondWrite, DialogueTypes
<1>10. ASSUME NEW t \in threads, ChatRaises(t)  PROVE DialogueTypes'
  <2>1. t.conv \in Convs
    BY <1>0, ThreadParts
  <2> QED
    BY <1>10, <2>1 DEF ChatRaises, DialogueTypes, Fault
<1>11. CASE UNCHANGED dialogueVars
  BY <1>11 DEF DialogueTypes
<1> QED
  BY <1>2, <1>3, <1>4, <1>5, <1>6, <1>7, <1>8, <1>9, <1>10, <1>11 DEF DialogueNext, Run

-----------------------------------------------------------------------------
(* A conversation no failure touches follows the protocol                    *)

LEMMA OtherFacts ==
  /\ Initiator \in Agents /\ Responder \in Agents /\ Initiator # Responder
  /\ Other(Initiator) = Responder /\ Other(Responder) = Initiator
  /\ \A a \in Agents : a = Initiator \/ a = Responder
BY DEF Agents, Other

\* A question that nothing else of its conversation is under way with.
LEMMA QuestionStep ==
  ASSUME DialogueTypes, NEW c \in Convs, NEW history \in Seq(1 .. MaxMessages), NEW done,
         NEW n \in 1 .. MaxMessages, NEW u \in DialogueThreads, Question(c, history, done, n, u),
         UNCHANGED <<sessions, inbox>>,
         \A x \in threads : x \in done <=> x.conv = c,
         NEW d \in Convs, Protocol(d),
         d = c => /\ Numbered(history, count[c]) /\ Numbered(sessions[Responder][c], count[c])
                  /\ NoMail(Initiator, c) /\ NoMail(Responder, c)
  PROVE  Protocol(d)'
<1> USE OtherFacts DEF Question
<1>1. CASE d = c
  <2>1. count[c] \in Nat /\ count'[c] = count[c] + 1 /\ heard'[c] = history \o <<n>>
        /\ c \in waiting'[Initiator]
    <3>1. count[c] \in Nat /\ count'[c] = n
      BY DEF DialogueTypes
    <3>2. heard'[c] = history \o <<n>>
      BY DEF DialogueTypes
    <3>3. c \in waiting'[Initiator]
      BY DEF DialogueTypes
    <3> QED
      BY <3>1, <3>2, <3>3
  <2>2. Numbered(heard'[c], count'[c])
    <3>1. Numbered(history \o <<count[c] + 1>>, count[c] + 1)
      BY <1>1, <2>1, NumberedFacts
    <3> QED
      BY <2>1, <3>1
  <2>3. Numbered(sessions'[Responder][c], count'[c] - 1)
    <3>1. count'[c] - 1 = count[c] /\ sessions' = sessions
      BY <2>1
    <3> QED
      BY <1>1, <3>1
  <2>4. NoMail(Initiator, c)' /\ NoMail(Responder, c)'
    BY <1>1 DEF NoMail
  <2>5. u \in threads' /\ \A x \in threads' : x.conv = c => x = u
    OBVIOUS
  <2>6. Works(c, "ask", Initiator)'
    BY <2>1, <2>5 DEF Works
  <2>7. sessions'[Initiator][c] = <<>>
    BY <1>1 DEF Protocol
  <2> QED
    BY <1>1, <2>1, <2>2, <2>3, <2>4, <2>6, <2>7 DEF Protocol, Asking
<1>2. CASE d # c
  <2>1. count'[d] = count[d] /\ heard'[d] = heard[d]
        /\ (d \in waiting'[Initiator] <=> d \in waiting[Initiator])
    BY <1>2 DEF DialogueTypes
  <2>2. \A a \in Agents : /\ sessions'[a][d] = sessions[a][d]
                          /\ NoMail(a, d) => NoMail(a, d)'
                          /\ LastMail(a, d) => LastMail(a, d)'
    BY <2>1 DEF NoMail, LastMail
  <2>3. \A t \in threads \cup threads' : t.conv = d => (t \in threads <=> t \in threads')
    BY <1>2
  <2> QED
    BY <2>1, <2>2, <2>3, ProtocolFrame
<1> QED
  BY <1>1, <1>2

\* A message that leaves its thread.
LEMMA SendStep ==
  ASSUME DialogueTypes, NEW t \in threads, t.stage \in {"ask", "reply"},
         threads' = threads \ {t}, Send(t.agent, t.conv, t.n),
         UNCHANGED <<waiting, sessions, count, asked, heard>>,
         NEW d \in Convs, d \notin disturbed', Protocol(d)
  PROVE  Protocol(d)'
<1> DEFINE c == t.conv
           b == Other(t.agent)
<1>1. t \in DialogueThreads
  BY DEF DialogueTypes
<1>2. c \in Convs /\ t.agent \in Agents /\ t.n \in 1 .. MaxMessages /\ b \in Agents /\ b # t.agent
  BY <1>1, ThreadParts, OtherFacts
<1>3. \/ /\ inbox'[b] = Append(inbox[b], [conv |-> c, n |-> t.n])
         /\ inbox'[t.agent] = inbox[t.agent]
      \/ inbox' = inbox /\ c \in disturbed'
  BY <1>2, SendFacts
<1>4. CASE d = c
  <2>1. inbox'[b] = Append(inbox[b], [conv |-> c, n |-> t.n]) /\ inbox'[t.agent] = inbox[t.agent]
    BY <1>3, <1>4
  <2>2. /\ \A u \in threads : u.conv = c => u = t
        /\ t.n = count[c] /\ count[c] > 0
        /\ NoMail(Initiator, c) /\ NoMail(Responder, c) /\ c \in waiting[Initiator]
        /\ t.stage = "ask" => /\ t.agent = Initiator
                              /\ Numbered(heard[c], count[c])
                              /\ Numbered(sessions[Responder][c], count[c] - 1)
        /\ t.stage = "reply" => /\ t.agent = Responder
                                /\ Numbered(heard[c], count[c] - 1)
                                /\ Numbered(sessions[Responder][c], count[c])
    BY <1>2, <1>4, TurnOf
  <2>3. NoMail(b, c) /\ NoMail(t.agent, c)
    BY <1>2, <2>2, OtherFacts
  <2>4. LastMail(b, c)'
    BY <1>2, <2>1, <2>2, <2>3, MailArrives
  <2>5. NoMail(t.agent, c)'
    BY <2>1, <2>3 DEF NoMail
  <2>6. Idle(c)'
    BY <2>2 DEF Idle
  <2>7. sessions'[Initiator][c] = <<>>
    BY <1>4 DEF Protocol
  <2>8. CASE t.stage = "ask"
    <3>1. t.agent = Initiator /\ b = Responder
      BY <2>2, <2>8, OtherFacts
    <3>2. LastMail(Responder, c)' /\ NoMail(Initiator, c)'
      BY <2>4, <2>5, <3>1
    <3> QED
      BY <1>4, <2>2, <2>6, <2>7, <2>8, <3>2 DEF Protocol, Asking
  <2>9. CASE t.stage = "reply"
    <3>1. t.agent = Responder /\ b = Initiator
      BY <2>2, <2>9, OtherFacts
    <3>2. LastMail(Initiator, c)' /\ NoMail(Responder, c)'
      BY <2>4, <2>5, <3>1
    <3> QED
      BY <1>4, <2>2, <2>6, <2>7, <2>9, <3>2 DEF Protocol, Answering
  <2> QED
    BY <2>8, <2>9
<1>5. CASE d # c
  <2>1. \A a \in Agents : a = b \/ a = t.agent
    BY <1>2, OtherFacts
  <2>2. NoMail(b, d) => NoMail(b, d)'
    <3>1. CASE inbox' = inbox
      BY <3>1 DEF NoMail
    <3>2. CASE inbox'[b] = Append(inbox[b], [conv |-> c, n |-> t.n])
      BY <1>2, <1>5, <3>2, MailArrives
    <3> QED
      BY <1>3, <3>1, <3>2
  <2>3. LastMail(b, d) => LastMail(b, d)'
    <3>1. CASE inbox' = inbox
      BY <3>1 DEF LastMail
    <3>2. CASE inbox'[b] = Append(inbox[b], [conv |-> c, n |-> t.n])
      BY <1>2, <1>5, <3>2, MailArrives
    <3> QED
      BY <1>3, <3>1, <3>2
  <2>4. /\ NoMail(t.agent, d) => NoMail(t.agent, d)'
        /\ LastMail(t.agent, d) => LastMail(t.agent, d)'
    BY <1>3 DEF NoMail, LastMail
  <2>5. \A a \in Agents : /\ sessions'[a][d] = sessions[a][d]
                          /\ NoMail(a, d) => NoMail(a, d)'
                          /\ LastMail(a, d) => LastMail(a, d)'
    BY <2>1, <2>2, <2>3, <2>4
  <2> QED
    BY <1>5, <2>5, ProtocolFrame
<1> QED
  BY <1>4, <1>5
\* The first message of an inbox is taken up.
LEMMA HandleStep ==
  ASSUME DialogueTypes, DialogueInv, NEW a \in Agents, HandleMessage(a),
         NEW d \in Convs, d \notin disturbed', Protocol(d)
  PROVE  Protocol(d)'
<1>1. inbox[a][1] \in Messages /\ 1 \in DOMAIN inbox[a] /\ inbox[a] # <<>>
  BY DEF HandleMessage, DialogueTypes
<1>2. PICK c \in Convs, n \in 1 .. MaxMessages : c = inbox[a][1].conv /\ n = inbox[a][1].n
  BY <1>1 DEF Messages
<1>3. <<>> \in Seq(1 .. MaxMessages)
  OBVIOUS
<1>4. PICK u \in DialogueThreads :
         /\ u.stage = (IF c \in waiting[a] THEN "callback" ELSE "respond")
         /\ u.agent = a /\ u.conv = c /\ u.n = n /\ threads' = threads \cup {u}
  <2>1. PICK stage \in {"callback", "respond"} :
           stage = IF c \in waiting[a] THEN "callback" ELSE "respond"
    OBVIOUS
  <2>2. threads' = threads \cup {Thread(stage, a, c, n, <<>>)}
    BY <1>2, <2>1 DEF HandleMessage
  <2>3. Thread(stage, a, c, n, <<>>) \in DialogueThreads
    BY <1>3, ThreadType
  <2>4. /\ Thread(stage, a, c, n, <<>>).stage = stage /\ Thread(stage, a, c, n, <<>>).agent = a
        /\ Thread(stage, a, c, n, <<>>).conv = c /\ Thread(stage, a, c, n, <<>>).n = n
    BY DEF Thread
  <2> QED
    BY <2>1, <2>2, <2>3, <2>4
<1>5. /\ UNCHANGED <<sessions, count, asked, heard>>
      /\ waiting' = [waiting EXCEPT ![a] = waiting[a] \ {c}]
      /\ \/ inbox' = [inbox EXCEPT ![a] = Tail(inbox[a])]
         \/ inbox' = inbox /\ c \in disturbed'
  BY <1>2 DEF HandleMessage, Fault
<1>6. ~NoMail(a, c)
  BY <1>1, <1>2 DEF NoMail
<1>7. waiting'[a] = waiting[a] \ {c} /\ \A b \in Agents \ {a} : waiting'[b] = waiting[b]
  BY <1>5 DEF DialogueTypes
<1>8. CASE d = c
  <2>1. inbox'[a] = Tail(inbox[a]) /\ \A b \in Agents \ {a} : inbox'[b] = inbox[b]
    BY <1>5, <1>8 DEF DialogueTypes
  <2>2. LastMail(a, c) => NoMail(a, c)'
    BY <1>1, <1>2, <1>5, <2>1, MailTaken
  <2>3. \A b \in Agents \ {a} : NoMail(b, c) => NoMail(b, c)'
    BY <2>1 DEF NoMail
  <2>4. LastMail(a, c) => n = count[c]
    BY <1>1, <1>2 DEF LastMail
  <2>5. Idle(c) => \A x \in threads' : x.conv = c => x = u
    BY <1>4 DEF Idle
  <2>6. sessions'[Initiator][c] = <<>>
    BY <1>5, <1>8 DEF Protocol
  <2>7. CASE a = Initiator
    <3>1. Answering(c) /\ LastMail(a, c) /\ Idle(c) /\ c \in waiting[a]
      BY <1>6, <1>8, <2>7 DEF Protocol, Asking, Answering, Resting
    <3>2. u.stage = "callback" /\ u.n = count'[c] /\ u \in threads' /\ c \notin waiting'[Initiator]
      BY <1>4, <1>5, <1>7, <2>4, <2>7, <3>1
    <3>3. Works(c, "callback", Initiator)'
      BY <1>4, <2>5, <2>7, <3>1, <3>2 DEF Works
    <3>4. NoMail(Initiator, c)' /\ NoMail(Responder, c)'
      BY <2>2, <2>3, <2>7, <3>1, OtherFacts DEF Answering
    <3> QED
      BY <1>5, <1>8, <2>6, <3>1, <3>2, <3>3, <3>4 DEF Protocol, Answering
  <2>8. CASE a = Responder
    <3>1. Asking(c) /\ LastMail(a, c) /\ Idle(c)
      BY <1>6, <1>8, <2>8 DEF Protocol, Asking, Answering, Resting
    <3>2. u.stage = "respond" /\ u.n = count'[c] /\ u \in threads'
      BY <1>4, <1>5, <2>4, <2>8, <3>1 DEF DialogueInv
    <3>3. Works(c, "respond", Responder)'
      BY <1>4, <2>5, <2>8, <3>1, <3>2 DEF Works
    <3>4. NoMail(Initiator, c)' /\ NoMail(Responder, c)'
      BY <2>2, <2>3, <2>8, <3>1, OtherFacts DEF Asking
    <3>5. c \in waiting'[Initiator]
      BY <1>7, <2>8, <3>1, OtherFacts DEF Asking
    <3> QED
      BY <1>5, <1>8, <2>6, <3>1, <3>3, <3>4, <3>5 DEF Protocol, Asking
  <2> QED
    BY <2>7, <2>8, OtherFacts
<1>9. CASE d # c
  <2>1. d \in waiting'[Initiator] <=> d \in waiting[Initiator]
    BY <1>7, <1>9, OtherFacts
  <2>2. \A b \in Agents : (NoMail(b, d) => NoMail(b, d)') /\ (LastMail(b, d) => LastMail(b, d)')
    <3>1. \A b \in Agents : inbox'[b] = inbox[b] =>
             (NoMail(b, d) => NoMail(b, d)') /\ (LastMail(b, d) => LastMail(b, d)')
      BY <1>5 DEF NoMail, LastMail
    <3>2. inbox'[a] = Tail(inbox[a]) =>
             (NoMail(a, d) => NoMail(a, d)') /\ (LastMail(a, d) => LastMail(a, d)')
      BY <1>1, <1>2, <1>5, <1>9, MailTaken
    <3>3. (inbox'[a] = Tail(inbox[a]) \/ inbox'[a] = inbox[a])
          /\ \A b \in Agents \ {a} : inbox'[b] = inbox[b]
      BY <1>5 DEF DialogueTypes
    <3> QED
      BY <3>1, <3>2, <3>3
  <2>3. \A t \in threads \cup threads' : t.conv = d => (t \in threads <=> t \in threads')
    BY <1>4, <1>9
  <2> QED
    BY <1>5, <2>1, <2>2, <2>3, ProtocolFrame
<1> QED
  BY <1>8, <1>9
\* A step of one conversation's thread that sends nothing, seen from another.
LEMMA OtherConv ==
  ASSUME NEW c, NEW d \in Convs, d # c, Protocol(d), inbox' = inbox,
         count'[d] = count[d], heard'[d] = heard[d], waiting' = waiting,
         \A a \in Agents : sessions'[a][d] = sessions[a][d],
         \A x \in (threads \ threads') \cup (threads' \ threads) : x.conv = c
  PROVE  Protocol(d)'
<1>1. \A a \in Agents : (NoMail(a, d) => NoMail(a, d)') /\ (LastMail(a, d) => LastMail(a, d)')
  BY DEF NoMail, LastMail
<1> QED
  BY <1>1, ProtocolFrame

LEMMA ProtocolStep ==
  ASSUME DialogueTypes, DialogueInv, [DialogueNext]_dialogueVars,
         NEW d \in Convs, d \notin disturbed'
  PROVE  Protocol(d)'
<1> USE DEF dialogueVars
<1>0. Protocol(d) /\ \A t \in threads : t \in DialogueThreads
  <2>1. disturbed \subseteq disturbed'
    BY DEF DialogueNext, Run, Start, HandleMessage, Restart, SendQuestion, RespondSend, Send, AskAgain,
           LetEnd, RespondRead, RespondWrite, ChatRaises, Fault, NoFault
  <2> QED
    BY <2>1 DEF DialogueInv, DialogueTypes
<1>1. ASSUME NEW c \in Convs, Start(c)  PROVE Protocol(d)'
  <2>1. PICK h \in Seq(1 .. MaxMessages), done \in {{}} : h = <<>> /\ done = {}
    <3>1. <<>> \in Seq(1 .. MaxMessages)
      OBVIOUS
    <3> QED
      BY <3>1, Zenon
  <2>2. Ask(c, h, done) /\ UNCHANGED <<sessions, inbox>> /\ count[c] = 0
    BY <1>1, <2>1 DEF Start
  <2>3. PICK n \in 1 .. MaxMessages, u \in DialogueThreads : Question(c, h, done, n, u)
    BY <2>2, AskFacts
  <2>4. Resting(c)
    BY <2>2 DEF DialogueInv, Protocol, Asking, Answering
  <2>5. \A x \in threads : x \in done <=> x.conv = c
    BY <2>1, <2>4 DEF Resting, Idle
  <2>6. /\ Numbered(h, count[c]) /\ Numbered(sessions[Responder][c], count[c])
        /\ NoMail(Initiator, c) /\ NoMail(Responder, c)
    BY <2>1, <2>2, <2>4, NumberedFacts DEF Resting
  <2> QED
    BY <1>0, <2>1, <2>2, <2>3, <2>5, <2>6, QuestionStep
<1>2. ASSUME NEW a \in Agents, HandleMessage(a)  PROVE Protocol(d)'
  BY <1>0, <1>2, HandleStep
\* Who restarts disturbs every conversation that has begun.
<1>3. ASSUME NEW a \in Agents, Restart(a)  PROVE Protocol(d)'
  <2>1. count[d] = 0
    BY <1>3 DEF Restart, Fault, DialogueTypes
  <2>2. Resting(d)
    BY <1>0, <2>1 DEF Protocol, Asking, Answering
  <2>3. Idle(d)' /\ NoMail(Initiator, d)' /\ NoMail(Responder, d)' /\ d \notin waiting'[Initiator]
    BY <1>3, <2>2, OtherFacts DEF Restart, Resting, Idle, NoMail, DialogueTypes
  <2>4. sessions'[Initiator][d] = <<>> /\ sessions'[Responder][d] \in {<<>>, sessions[Responder][d]}
    BY <1>0, <1>3, OtherFacts DEF Restart, DialogueTypes, Protocol
  <2>5. Numbered(sessions'[Responder][d], count'[d])
    BY <1>3, <2>1, <2>2, <2>4, NumberedFacts DEF Restart, Resting
  <2>6. Numbered(heard'[d], count'[d])
    BY <1>3, <2>2 DEF Restart, Resting
  <2> QED
    BY <2>3, <2>4, <2>5, <2>6 DEF Protocol, Resting
<1>4. ASSUME NEW t \in threads, SendQuestion(t) \/ RespondSend(t)  PROVE Protocol(d)'
  <2>1. /\ t.stage \in {"ask", "reply"} /\ threads' = threads \ {t}
        /\ Send(t.agent, t.conv, t.n)
        /\ UNCHANGED <<waiting, sessions, count, asked, heard>>
    BY <1>4 DEF SendQuestion, RespondSend
  <2> QED
    BY <1>0, <2>1, SendStep
<1>5. ASSUME NEW t \in threads, AskAgain(t)  PROVE Protocol(d)'
  <2>1. t.conv \in Convs /\ t.n \in 1 .. MaxMessages
    BY <1>0, ThreadParts
  <2>2. PICK c \in Convs : c = t.conv
    BY <2>1
  <2>3. PICK h \in Seq(1 .. MaxMessages) : h = heard[c] \o <<t.n>>
    BY <2>1, <2>2, NumberedFacts DEF DialogueTypes
  <2>4. Ask(c, h, {t}) /\ UNCHANGED <<sessions, inbox>>
    BY <1>5, <2>2, <2>3 DEF AskAgain
  <2>5. PICK n \in 1 .. MaxMessages, u \in DialogueThreads : Question(c, h, {t}, n, u)
    BY <2>4, AskFacts
  <2>6. CASE c \notin disturbed
    <3>1. Protocol(c) /\ t.stage = "callback"
      BY <1>5, <2>6 DEF DialogueInv, AskAgain
    <3>2. /\ \A x \in threads : x.conv = c => x = t
          /\ t.n = count[c] /\ count[c] > 0 /\ NoMail(Initiator, c) /\ NoMail(Responder, c)
          /\ Numbered(heard[c], count[c] - 1) /\ Numbered(sessions[Responder][c], count[c])
      BY <2>2, <3>1, TurnOf
    <3>3. Numbered(h, count[c])
      <4>1. heard[c] \in Seq(1 .. MaxMessages) /\ count[c] \in Nat
        BY DEF DialogueTypes
      <4>2. PICK k \in Nat : k = count[c] - 1 /\ k + 1 = count[c]
        BY <3>2, <4>1
      <4>3. Numbered(heard[c] \o <<k + 1>>, k + 1)
        BY <3>2, <4>1, <4>2, NumberedFacts
      <4>4. h = heard[c] \o <<k + 1>>
        BY <2>3, <3>2, <4>2
      <4> QED
        BY <4>2, <4>3, <4>4
    <3>4. \A x \in threads : x \in {t} <=> x.conv = c
      BY <2>2, <3>2
    <3> QED
      BY <1>0, <2>4, <2>5, <3>2, <3>3, <3>4, QuestionStep
  <2>7. CASE c \in disturbed
    <3>1. d # c
      BY <1>5, <2>7 DEF AskAgain
    <3>2. /\ count'[d] = count[d] /\ heard'[d] = heard[d] /\ inbox' = inbox /\ sessions' = sessions
          /\ d \in waiting'[Initiator] <=> d \in waiting[Initiator]
      BY <2>4, <2>5, <3>1, OtherFacts DEF Question, DialogueTypes
    <3>3. \A x \in threads \cup threads' : x.conv = d => (x \in threads <=> x \in threads')
      BY <2>2, <2>5, <3>1 DEF Question
    <3>4. \A a \in Agents : (NoMail(a, d) => NoMail(a, d)') /\ (LastMail(a, d) => LastMail(a, d)')
      BY <3>2 DEF NoMail, LastMail
    <3> QED
      BY <1>0, <3>2, <3>3, <3>4, ProtocolFrame
  <2> QED
    BY <2>6, <2>7
<1>6. ASSUME NEW t \in threads, LetEnd(t)  PROVE Protocol(d)'
  <2>1. PICK c \in Convs : c = t.conv
    BY <1>0, ThreadParts
  <2>2. /\ heard' = [heard EXCEPT ![c] = heard[c] \o <<t.n>>] /\ threads' = threads \ {t}
        /\ UNCHANGED <<waiting, sessions, inbox, count, asked, disturbed>> /\ t.stage = "callback"
    BY <1>6, <2>1 DEF LetEnd
  <2>3. CASE d = c
    <3>1. /\ \A x \in threads : x.conv = c => x = t
          /\ t.n = count[c] /\ count[c] > 0 /\ NoMail(Initiator, c) /\ NoMail(Responder, c)
          /\ Numbered(heard[c], count[c] - 1) /\ Numbered(sessions[Responder][c], count[c])
          /\ c \notin waiting[Initiator]
      BY <1>0, <2>1, <2>2, <2>3, TurnOf
    <3>2. heard[c] \in Seq(1 .. MaxMessages) /\ count[c] \in Nat
      BY DEF DialogueTypes
    <3>3. PICK k \in Nat : k = count[c] - 1
      BY <3>1, <3>2
    <3>4. Numbered(heard[c] \o <<k + 1>>, k + 1) /\ heard'[c] = heard[c] \o <<t.n>>
      BY <2>2, <3>1, <3>2, <3>3, NumberedFacts DEF DialogueTypes
    <3>5. Numbered(heard'[c], count'[c])
      <4>1. k + 1 = count[c] /\ k + 1 = t.n /\ count' = count
        BY <2>2, <3>1, <3>2, <3>3
      <4>2. Numbered(heard'[c], count[c])
        BY <3>4, <4>1
      <4> QED
        BY <4>1, <4>2
    <3>6. Idle(c)' /\ NoMail(Initiator, c)' /\ NoMail(Responder, c)'
      BY <2>2, <3>1 DEF Idle, NoMail
    <3>7. Numbered(sessions'[Responder][c], count'[c]) /\ sessions'[Initiator][c] = <<>>
      BY <1>0, <2>2, <2>3, <3>1 DEF Protocol
    <3> QED
      BY <2>2, <2>3, <3>1, <3>5, <3>6, <3>7 DEF Protocol, Resting
  <2>4. CASE d # c
    <3>1. \A x \in (threads \ threads') \cup (threads' \ threads) : x.conv = c
      BY <2>1, <2>2
    <3>2. heard'[d] = heard[d]
      BY <2>2, <2>4 DEF DialogueTypes
    <3> QED
      BY <1>0, <2>2, <2>4, <3>1, <3>2, OtherConv
  <2> QED
    BY <2>3, <2>4
<1>7. ASSUME NEW t \in threads, RespondRead(t)  PROVE Protocol(d)'
  <2>1. PICK c \in Convs : c = t.conv
    BY <1>0, ThreadParts
  <2>2. sessions[t.agent][c] \in Seq(1 .. MaxMessages) /\ t.n \in 1 .. MaxMessages
    <3>1. t.agent \in Agents /\ t.n \in 1 .. MaxMessages
      BY <1>0, ThreadParts
    <3> QED
      BY <3>1 DEF DialogueTypes
  <2>3. PICK h \in Seq(1 .. MaxMessages) : h = Append(sessions[t.agent][c], t.n)
    BY <2>2, NumberedFacts
  <2>4. PICK u : u = [t EXCEPT !.stage = "chat", !.history = h]
    OBVIOUS
  <2>5. u.stage = "chat" /\ u.history = h /\ u.agent = t.agent /\ u.conv = c /\ u.n = t.n
    BY <1>0, <2>1, <2>4 DEF DialogueThreads
  <2>6. /\ threads' = (threads \ {t}) \cup {u} /\ t.stage = "respond"
        /\ UNCHANGED <<waiting, sessions, inbox, count, asked, heard, disturbed>>
    BY <1>7, <2>1, <2>3, <2>4 DEF RespondRead, Move
  <2>7. CASE d = c
    <3>1. /\ \A x \in threads : x.conv = c => x = t
          /\ t.n = count[c] /\ count[c] > 0 /\ NoMail(Initiator, c) /\ NoMail(Responder, c)
          /\ Numbered(heard[c], count[c]) /\ Numbered(sessions[Responder][c], count[c] - 1)
          /\ c \in waiting[Initiator] /\ t.agent = Responder
      BY <1>0, <2>1, <2>6, <2>7, TurnOf
    <3>2. count[c] \in Nat
      BY DEF DialogueTypes
    <3>3. PICK k \in Nat : k = count[c] - 1
      BY <3>1, <3>2
    <3>4. Numbered(Append(sessions[Responder][c], k + 1), k + 1)
      BY <2>2, <3>1, <3>3, NumberedFacts
    <3>5. Numbered(u.history, count'[c])
      BY <2>3, <2>5, <2>6, <3>1, <3>2, <3>3, <3>4
    <3>6. Works(c, u.stage, u.agent)'
      BY <2>5, <2>6, <3>1, <3>5, WorksNext
    <3>7. NoMail(Initiator, c)' /\ NoMail(Responder, c)'
      BY <2>6, <3>1 DEF NoMail
    <3>8. sessions'[Initiator][c] = <<>>
      BY <1>0, <2>6, <2>7 DEF Protocol
    <3>9. Works(c, "chat", Responder)'
      BY <2>5, <3>1, <3>6
    <3> QED
      BY <2>6, <2>7, <3>1, <3>7, <3>8, <3>9 DEF Protocol, Asking
  <2>8. CASE d # c
    <3>1. \A x \in (threads \ threads') \cup (threads' \ threads) : x.conv = c
      BY <2>1, <2>5, <2>6
    <3> QED
      BY <1>0, <2>6, <2>8, <3>1, OtherConv
  <2> QED
    BY <2>7, <2>8
\* The copy that is written back is the history there is.
<1>8. ASSUME NEW t \in threads, RespondWrite(t)  PROVE Protocol(d)'
  <2>1. PICK c \in Convs, a \in Agents : c = t.conv /\ a = t.agent
    BY <1>0, ThreadParts
  <2>2. PICK n \in Nat : n = count[c] + 1
    BY DEF DialogueTypes
  <2>3. PICK u : u = [t EXCEPT !.stage = "reply", !.n = n]
    OBVIOUS
  <2>4. u.stage = "reply" /\ u.agent = a /\ u.conv = c /\ u.n = n
    BY <1>0, <2>1, <2>3 DEF DialogueThreads
  <2>5. /\ threads' = (threads \ {t}) \cup {u} /\ t.stage = "chat"
        /\ count' = [count EXCEPT ![c] = n]
        /\ sessions' = [sessions EXCEPT ![a][c] = Append(t.history, n)]
        /\ UNCHANGED <<waiting, inbox, asked, heard, disturbed>>
    BY <1>8, <2>1, <2>2, <2>3 DEF RespondWrite, Move
  <2>6. /\ count'[c] = n /\ \A x \in Convs \ {c} : count'[x] = count[x]
        /\ sessions'[a][c] = Append(t.history, n)
        /\ \A b \in Agents, x \in Convs : b # a \/ x # c => sessions'[b][x] = sessions[b][x]
    BY <2>5 DEF DialogueTypes
  <2>7. CASE d = c
    <3>1. /\ \A x \in threads : x.conv = c => x = t
          /\ t.n = count[c] /\ count[c] > 0 /\ NoMail(Initiator, c) /\ NoMail(Responder, c)
          /\ Numbered(heard[c], count[c]) /\ Numbered(t.history, count[c])
          /\ c \in waiting[Initiator] /\ a = Responder
      BY <1>0, <2>1, <2>5, <2>7, TurnOf
    <3>2. count[c] \in Nat /\ t.history \in Seq(1 .. MaxMessages)
      <4>1. count[c] \in Nat
        BY DEF DialogueTypes
      <4> QED
        BY <1>0, <4>1, ThreadParts
    <3>3. Numbered(Append(t.history, n), n)
      BY <2>2, <3>1, <3>2, NumberedFacts
    <3>4. Numbered(sessions'[Responder][c], count'[c])
      BY <2>6, <3>1, <3>3
    <3>5. Numbered(heard'[c], count'[c] - 1)
      <4>1. count'[c] - 1 = count[c] /\ heard' = heard
        BY <2>2, <2>5, <2>6, <3>2
      <4> QED
        BY <3>1, <4>1
    <3>6. u \in threads' /\ \A x \in threads' : x.conv = c => x = u
      BY <2>5, <3>1
    <3>7. Works(c, "reply", Responder)'
      BY <2>4, <2>6, <3>1, <3>6 DEF Works
    <3>8. NoMail(Initiator, c)' /\ NoMail(Responder, c)'
      BY <2>5, <3>1 DEF NoMail
    <3>9. sessions'[Initiator][c] = <<>> /\ count'[c] > 0 /\ c \in waiting'[Initiator]
      BY <1>0, <2>2, <2>5, <2>6, <2>7, <3>1, <3>2, OtherFacts DEF Protocol
    <3> QED
      BY <2>7, <3>4, <3>5, <3>7, <3>8, <3>9 DEF Protocol, Answering
  <2>8. CASE d # c
    <3>1. \A x \in (threads \ threads') \cup (threads' \ threads) : x.conv = c
      BY <2>1, <2>4, <2>5
    <3> QED
      BY <1>0, <2>5, <2>6, <2>8, <3>1, OtherConv
  <2> QED
    BY <2>7, <2>8
<1>9. ASSUME NEW t \in threads, ChatRaises(t)  PROVE Protocol(d)'
  <2>1. PICK c \in Convs : c = t.conv
    BY <1>0, ThreadParts
  <2>2. d # c /\ threads' = threads \ {t} /\ UNCHANGED <<waiting, sessions, inbox, count, asked, heard>>
    BY <1>9, <2>1 DEF ChatRaises, Fault
  <2> QED
    BY <1>0, <2>1, <2>2, OtherConv
<1>10. CASE UNCHANGED dialogueVars
  <2>1. \A a \in Agents : (NoMail(a, d) => NoMail(a, d)') /\ (LastMail(a, d) => LastMail(a, d)')
    BY <1>10 DEF NoMail, LastMail
  <2> QED
    BY <1>0, <1>10, <2>1, ProtocolFrame
<1> QED
  BY <1>1, <1>2, <1>3, <1>4, <1>5, <1>6, <1>7, <1>8, <1>9, <1>10 DEF DialogueNext, Run

-----------------------------------------------------------------------------
(* What has a thread or a message has begun                                  *)

LEMMA Begun ==
  ASSUME DialogueTypes, DialogueInv
  PROVE  /\ \A t \in threads : t.conv \in Convs /\ count[t.conv] # 0
         /\ \A a \in Agents : inbox[a] # <<>> => inbox[a][1].conv \in Convs /\ count[inbox[a][1].conv] # 0
<1>1. \A c \in Convs : count[c] = 0 => Resting(c)
  BY DEF DialogueInv, Protocol, Asking, Answering
<1>2. ASSUME NEW t \in threads  PROVE t.conv \in Convs /\ count[t.conv] # 0
  <2>1. t.conv \in Convs
    BY ThreadParts DEF DialogueTypes
  <2> QED
    BY <1>1, <2>1 DEF Resting, Idle
<1>3. ASSUME NEW a \in Agents, inbox[a] # <<>>
      PROVE  inbox[a][1].conv \in Convs /\ count[inbox[a][1].conv] # 0
  <2>1. inbox[a][1] \in Messages /\ 1 \in DOMAIN inbox[a]
    BY <1>3 DEF DialogueTypes
  <2>2. inbox[a][1].conv \in Convs
    BY <2>1 DEF Messages
  <2>3. count[inbox[a][1].conv] = 0 => NoMail(a, inbox[a][1].conv)
    BY <1>1, <2>2, OtherFacts DEF Resting
  <2> QED
    BY <2>1, <2>2, <2>3 DEF NoMail
<1> QED
  BY <1>2, <1>3

LEMMA BegunStep ==
  ASSUME DialogueTypes, DialogueInv, [DialogueNext]_dialogueVars, NEW c \in Convs, count'[c] = 0
  PROVE  asked'[c] = 0 /\ c \notin disturbed'
<1> USE DEF dialogueVars
<1>0. /\ count[c] = 0 => asked[c] = 0 /\ c \notin disturbed
      /\ \A t \in threads : t \in DialogueThreads /\ t.conv \in Convs /\ count[t.conv] # 0
  BY Begun DEF DialogueInv, DialogueTypes
<1>1. ASSUME NEW d \in Convs, NEW h, NEW done, Ask(d, h, done), UNCHANGED disturbed
      PROVE  asked'[c] = 0 /\ c \notin disturbed'
  <2>1. c # d
    BY <1>1 DEF Ask, DialogueTypes
  <2> QED
    BY <1>0, <1>1, <2>1 DEF Ask, DialogueTypes
<1>2. ASSUME NEW d \in Convs, Start(d)  PROVE asked'[c] = 0 /\ c \notin disturbed'
  BY <1>1, <1>2 DEF Start
<1>3. ASSUME NEW a \in Agents, HandleMessage(a)  PROVE asked'[c] = 0 /\ c \notin disturbed'
  BY <1>0, <1>3, Begun DEF HandleMessage, Fault, NoFault
<1>4. ASSUME NEW a \in Agents, Restart(a)  PROVE asked'[c] = 0 /\ c \notin disturbed'
  BY <1>0, <1>4 DEF Restart, Fault
<1>5. ASSUME NEW t \in threads, SendQuestion(t) \/ RespondSend(t)
      PROVE  asked'[c] = 0 /\ c \notin disturbed'
  BY <1>0, <1>5 DEF SendQuestion, RespondSend, Send, Fault, NoFault
<1>6. ASSUME NEW t \in threads, AskAgain(t)  PROVE asked'[c] = 0 /\ c \notin disturbed'
  BY <1>0, <1>1, <1>6 DEF AskAgain
<1>7. ASSUME NEW t \in threads, LetEnd(t) \/ RespondRead(t)
      PROVE  asked'[c] = 0 /\ c \notin disturbed'
  BY <1>0, <1>7 DEF LetEnd, RespondRead
<1>8. ASSUME NEW t \in threads, RespondWrite(t)  PROVE asked'[c] = 0 /\ c \notin disturbed'
  <2>1. UNCHANGED <<asked, disturbed>> /\ count' = [count EXCEPT ![t.conv] = count[t.conv] + 1]
    BY <1>8 DEF RespondWrite
  <2>2. count[c] = 0
    BY <1>0, <2>1 DEF DialogueTypes
  <2> QED
    BY <1>0, <2>1, <2>2
<1>9. ASSUME NEW t \in threads, ChatRaises(t)  PROVE asked'[c] = 0 /\ c \notin disturbed'
  BY <1>0, <1>9 DEF ChatRaises, Fault
<1>10. CASE UNCHANGED dialogueVars
  BY <1>0, <1>10
<1> QED
  BY <1>2, <1>3, <1>4, <1>5, <1>6, <1>7, <1>8, <1>9, <1>10 DEF DialogueNext, Run

LEMMA NeverWaits ==
  ASSUME DialogueTypes, DialogueInv, [DialogueNext]_dialogueVars
  PROVE  waiting'[Responder] = {} /\ IsFiniteSet(threads')
<1>0. waiting \in [Agents -> SUBSET Convs] /\ waiting[Responder] = {} /\ IsFiniteSet(threads)
  BY DEF DialogueInv, DialogueTypes
<1>1. waiting'[Responder] = {}
  BY <1>0, OtherFacts
     DEF DialogueNext, Run, Start, Ask, HandleMessage, Restart, SendQuestion, RespondSend, AskAgain,
         LetEnd, RespondRead, RespondWrite, ChatRaises, dialogueVars
<1>2. \E u : threads' \subseteq threads \cup {u}
  BY DEF DialogueNext, Run, Start, Ask, HandleMessage, Restart, SendQuestion, RespondSend, AskAgain,
         LetEnd, RespondRead, RespondWrite, Move, ChatRaises, dialogueVars
<1>3. PICK u : threads' \subseteq threads \cup {u}
  BY <1>2
<1>4. IsFiniteSet(threads \cup {u})
  BY <1>0, FS_AddElement
<1> QED
  BY <1>1, <1>3, <1>4, FS_Subset

-----------------------------------------------------------------------------
(* A question is answered once                                               *)

CallsOf(c) == {t \in threads : t.conv = c /\ t.stage = "callback"}

\* RepliesOnce, of one conversation.
Answered(c) ==
    /\ Len(heard[c]) + Cardinality(CallsOf(c)) <= 2 * asked[c]
    /\ c \in waiting[Initiator] => Len(heard[c]) + Cardinality(CallsOf(c)) < 2 * asked[c]

LEMMA CallsFinite ==
  ASSUME DialogueTypes, DialogueInv, NEW c \in Convs
  PROVE  /\ IsFiniteSet(CallsOf(c)) /\ Cardinality(CallsOf(c)) \in Nat
         /\ Len(heard[c]) \in Nat /\ asked[c] \in Nat /\ Answered(c)
<1>1. IsFiniteSet(CallsOf(c))
  BY FS_Subset DEF CallsOf, DialogueInv
<1>2. Len(heard[c]) \in Nat /\ asked[c] \in Nat
  BY DEF DialogueTypes
<1>3. Answered(c)
  BY DEF DialogueInv, RepliesOnce, Answered, CallsOf
<1> QED
  BY <1>1, <1>2, <1>3, FS_CardinalityType

\* A step that starts no callback and hears nothing.
LEMMA AnsweredFrame ==
  ASSUME DialogueTypes, DialogueInv, NEW c \in Convs,
         CallsOf(c)' \subseteq CallsOf(c), heard'[c] = heard[c], asked'[c] = asked[c],
         c \in waiting'[Initiator] => c \in waiting[Initiator]
  PROVE  Answered(c)'
<1>1. Cardinality(CallsOf(c)') <= Cardinality(CallsOf(c)) /\ Cardinality(CallsOf(c)') \in Nat
  BY CallsFinite, FS_Subset, FS_CardinalityType
<1>2. /\ Len(heard'[c]) + Cardinality(CallsOf(c)') <= 2 * asked'[c]
      /\ c \in waiting'[Initiator] => Len(heard'[c]) + Cardinality(CallsOf(c)') < 2 * asked'[c]
  BY <1>1, CallsFinite DEF Answered
<1> QED
  BY <1>2 DEF Answered

LEMMA AnsweredStep ==
  ASSUME DialogueTypes, DialogueInv, [DialogueNext]_dialogueVars, NEW d \in Convs
  PROVE  Answered(d)'
<1> USE DEF dialogueVars
<1>0. \A t \in threads : t \in DialogueThreads /\ t.conv \in Convs /\ count[t.conv] # 0
  BY Begun DEF DialogueTypes
<1>1. ASSUME NEW c \in Convs, Start(c)  PROVE Answered(d)'
  <2>1. PICK h \in Seq(1 .. MaxMessages), done \in {{}} : h = <<>> /\ done = {}
    <3>1. <<>> \in Seq(1 .. MaxMessages)
      OBVIOUS
    <3> QED
      BY <3>1, Zenon
  <2>2. Ask(c, h, done) /\ count[c] = 0 /\ asked[c] = 0
    BY <1>1, <2>1 DEF Start, DialogueInv
  <2>3. PICK n \in 1 .. MaxMessages, u \in DialogueThreads : Question(c, h, done, n, u)
    BY <2>2, AskFacts
  <2>4. CallsOf(d)' \subseteq CallsOf(d)
    BY <2>3 DEF CallsOf, Question
  <2>5. CASE d = c
    <3>1. CallsOf(c)' = {}
      BY <1>0, <2>2, <2>4, <2>5 DEF CallsOf
    <3>2. Cardinality(CallsOf(c)') = 0
      BY <3>1, FS_EmptySet
    <3>3. asked'[c] = 1 /\ heard'[c] = h \o <<n>>
      BY <2>2, <2>3 DEF Question, DialogueTypes
    <3>4. Len(heard'[c]) = 1
      BY <2>1, <3>3
    <3> QED
      BY <2>5, <3>2, <3>3, <3>4 DEF Answered
  <2>6. CASE d # c
    <3>1. heard'[d] = heard[d] /\ asked'[d] = asked[d] /\ waiting'[Initiator] = waiting[Initiator] \cup {c}
      BY <2>3, <2>6, OtherFacts DEF Question, DialogueTypes
    <3> QED
      BY <2>4, <2>6, <3>1, AnsweredFrame
  <2> QED
    BY <2>5, <2>6
\* A callback is started for a waiter, which is gone with it.
<1>2. ASSUME NEW a \in Agents, HandleMessage(a)  PROVE Answered(d)'
  <2>1. inbox[a][1] \in Messages
    BY <1>2 DEF HandleMessage, DialogueTypes
  <2>2. PICK c \in Convs : c = inbox[a][1].conv
    BY <2>1 DEF Messages
  <2>3. PICK u : /\ threads' = threads \cup {u} /\ u.conv = c
                 /\ u.stage = "callback" => c \in waiting[a]
    <3>1. PICK stage \in {"callback", "respond"} :
            stage = IF c \in waiting[a] THEN "callback" ELSE "respond"
      OBVIOUS
    <3>2. PICK u : u = Thread(stage, a, c, inbox[a][1].n, <<>>)
      OBVIOUS
    <3>3. threads' = threads \cup {u}
      BY <1>2, <2>2, <3>1, <3>2 DEF HandleMessage
    <3>4. u.conv = c /\ u.stage = stage
      BY <3>2 DEF Thread
    <3>5. u.stage = "callback" => c \in waiting[a]
      BY <3>1, <3>4
    <3> QED
      BY <3>3, <3>4, <3>5
  <2>4. waiting' = [waiting EXCEPT ![a] = waiting[a] \ {c}] /\ UNCHANGED <<asked, heard>>
    BY <1>2, <2>2 DEF HandleMessage
  <2>5. waiting'[a] = waiting[a] \ {c} /\ \A b \in Agents \ {a} : waiting'[b] = waiting[b]
    BY <2>4 DEF DialogueTypes
  <2>6. CASE d = c /\ u.stage = "callback"
    <3>1. c \in waiting[Initiator] /\ c \notin waiting'[Initiator]
      BY <2>3, <2>5, <2>6, OtherFacts DEF DialogueInv
    <3>2. CallsOf(c)' \subseteq CallsOf(c) \cup {u}
      BY <2>3 DEF CallsOf
    <3>3. IsFiniteSet(CallsOf(c)) /\ IsFiniteSet(CallsOf(c) \cup {u})
          /\ Cardinality(CallsOf(c) \cup {u}) <= Cardinality(CallsOf(c)) + 1
      <4>1. IsFiniteSet(CallsOf(c)) /\ Cardinality(CallsOf(c)) \in Nat
        BY CallsFinite, FS_CardinalityType
      <4>2. IsFiniteSet(CallsOf(c) \cup {u})
        BY <4>1, FS_AddElement
      <4>3. Cardinality(CallsOf(c) \cup {u}) =
              IF u \in CallsOf(c) THEN Cardinality(CallsOf(c)) ELSE Cardinality(CallsOf(c)) + 1
        BY <4>1, FS_AddElement
      <4> QED
        BY <4>1, <4>2, <4>3
    <3>4. Cardinality(CallsOf(c)') <= Cardinality(CallsOf(c) \cup {u})
          /\ Cardinality(CallsOf(c)') \in Nat /\ Cardinality(CallsOf(c) \cup {u}) \in Nat
      BY <3>2, <3>3, FS_Subset, FS_CardinalityType
    <3>5. Len(heard[c]) + Cardinality(CallsOf(c)) < 2 * asked[c]
      BY <3>1, CallsFinite DEF Answered
    <3>6. Len(heard'[c]) + Cardinality(CallsOf(c)') <= 2 * asked'[c]
      BY <2>4, <3>3, <3>4, <3>5, CallsFinite
    <3> QED
      BY <2>6, <3>1, <3>6 DEF Answered
  <2>7. CASE ~(d = c /\ u.stage = "callback")
    <3>1. CallsOf(d)' \subseteq CallsOf(d)
      BY <2>3, <2>7 DEF CallsOf
    <3>2. d \in waiting'[Initiator] => d \in waiting[Initiator]
      BY <2>5, OtherFacts
    <3> QED
      BY <2>4, <3>1, <3>2, AnsweredFrame
  <2> QED
    BY <2>6, <2>7
<1>3. ASSUME NEW a \in Agents, Restart(a)  PROVE Answered(d)'
  <2>1. CallsOf(d)' \subseteq CallsOf(d) /\ UNCHANGED <<asked, heard>>
    BY <1>3 DEF Restart, CallsOf
  <2>2. waiting'[Initiator] \subseteq waiting[Initiator]
    BY <1>3, OtherFacts DEF Restart, DialogueTypes
  <2> QED
    BY <2>1, <2>2, AnsweredFrame
\* What was called back is heard.
<1>4. ASSUME NEW t \in threads, AskAgain(t)  PROVE Answered(d)'
  <2>1. PICK c \in Convs : c = t.conv
    BY <1>0
  <2>2. t.n \in 1 .. MaxMessages /\ heard[c] \in Seq(1 .. MaxMessages)
    BY <1>0, ThreadParts DEF DialogueTypes
  <2>3. PICK h \in Seq(1 .. MaxMessages) : h = heard[c] \o <<t.n>>
    BY <2>2, NumberedFacts
  <2>4. Len(h) = Len(heard[c]) + 1
    BY <2>2, <2>3, NumberedFacts
  <2>5. Ask(c, h, {t}) /\ t.stage = "callback"
    BY <1>4, <2>1, <2>3 DEF AskAgain
  <2>6. PICK n \in 1 .. MaxMessages, u \in DialogueThreads : Question(c, h, {t}, n, u)
    BY <2>5, AskFacts
  <2>7. CASE d = c
    <3>1. CallsOf(c)' \subseteq CallsOf(c) \ {t} /\ t \in CallsOf(c)
      BY <2>1, <2>5, <2>6 DEF CallsOf, Question
    <3>2. IsFiniteSet(CallsOf(c) \ {t}) /\ Cardinality(CallsOf(c) \ {t}) = Cardinality(CallsOf(c)) - 1
      BY <3>1, CallsFinite, FS_RemoveElement
    <3>3. Cardinality(CallsOf(c)') <= Cardinality(CallsOf(c)) - 1 /\ Cardinality(CallsOf(c)') \in Nat
      BY <3>1, <3>2, FS_Subset, FS_CardinalityType
    <3>4. asked'[c] = asked[c] + 1 /\ heard'[c] = h \o <<n>>
      BY <2>6 DEF Question, DialogueTypes
    <3>5. Len(heard'[c]) = Len(heard[c]) + 2
      BY <2>2, <2>4, <3>4, NumberedFacts
    <3>8. Len(heard[c]) + Cardinality(CallsOf(c)) <= 2 * asked[c]
      BY CallsFinite DEF Answered
    <3>9. Len(heard[c]) \in Nat /\ Cardinality(CallsOf(c)) \in Nat /\ asked[c] \in Nat
      BY CallsFinite
    <3>6. Len(heard'[c]) + Cardinality(CallsOf(c)') < 2 * asked'[c]
      <4>1. PICK len \in Nat, k \in Nat, q \in Nat :
              len = Len(heard[c]) /\ k = Cardinality(CallsOf(c)) /\ q = asked[c]
        BY <3>9
      <4>2. PICK l \in Nat : l = Cardinality(CallsOf(c)')
        BY <3>3
      <4>3. l <= k - 1 /\ len + k <= 2 * q
        BY <3>3, <3>8, <4>1, <4>2
      <4>4. (len + 2) + l < 2 * (q + 1)
        BY <4>3
      <4>5. Len(heard'[c]) = len + 2 /\ asked'[c] = q + 1
        BY <3>4, <3>5, <4>1
      <4> QED
        BY <4>2, <4>4, <4>5
    <3>7. asked'[c] \in Nat /\ Len(heard'[c]) \in Nat
      BY <3>4, <3>5, CallsFinite
    <3> QED
      BY <2>7, <3>3, <3>6, <3>7 DEF Answered
  <2>8. CASE d # c
    <3>1. CallsOf(d)' \subseteq CallsOf(d)
      BY <2>6 DEF CallsOf, Question
    <3>2. heard'[d] = heard[d] /\ asked'[d] = asked[d] /\ waiting'[Initiator] = waiting[Initiator] \cup {c}
      BY <2>6, <2>8, OtherFacts DEF Question, DialogueTypes
    <3> QED
      BY <2>8, <3>1, <3>2, AnsweredFrame
  <2> QED
    BY <2>7, <2>8
<1>5. ASSUME NEW t \in threads, LetEnd(t)  PROVE Answered(d)'
  <2>1. PICK c \in Convs : c = t.conv
    BY <1>0
  <2>2. t.n \in 1 .. MaxMessages /\ heard[c] \in Seq(1 .. MaxMessages)
    BY <1>0, ThreadParts DEF DialogueTypes
  <2>3. /\ heard' = [heard EXCEPT ![c] = heard[c] \o <<t.n>>] /\ threads' = threads \ {t}
        /\ UNCHANGED <<waiting, asked>> /\ t.stage = "callback"
    BY <1>5, <2>1 DEF LetEnd
  <2>4. CASE d = c
    <3>1. CallsOf(c)' \subseteq CallsOf(c) \ {t} /\ t \in CallsOf(c)
      BY <2>1, <2>3 DEF CallsOf
    <3>2. IsFiniteSet(CallsOf(c) \ {t}) /\ Cardinality(CallsOf(c) \ {t}) = Cardinality(CallsOf(c)) - 1
      BY <3>1, CallsFinite, FS_RemoveElement
    <3>3. Cardinality(CallsOf(c)') <= Cardinality(CallsOf(c)) - 1 /\ Cardinality(CallsOf(c)') \in Nat
      BY <3>1, <3>2, FS_Subset, FS_CardinalityType
    <3>4. heard'[c] = heard[c] \o <<t.n>>
      BY <2>3 DEF DialogueTypes
    <3>5. Len(heard'[c]) = Len(heard[c]) + 1
      BY <2>2, <3>4, NumberedFacts
    <3>6. /\ Len(heard'[c]) + Cardinality(CallsOf(c)') <= 2 * asked'[c]
          /\ c \in waiting'[Initiator] => Len(heard'[c]) + Cardinality(CallsOf(c)') < 2 * asked'[c]
      BY <2>3, <3>3, <3>5, CallsFinite DEF Answered
    <3> QED
      BY <2>4, <3>6 DEF Answered
  <2>5. CASE d # c
    <3>1. CallsOf(d)' \subseteq CallsOf(d)
      BY <2>3 DEF CallsOf
    <3>2. heard'[d] = heard[d]
      BY <2>3, <2>5 DEF DialogueTypes
    <3> QED
      BY <2>3, <3>1, <3>2, AnsweredFrame
  <2> QED
    BY <2>4, <2>5
<1>6. ASSUME NEW t \in threads,
             SendQuestion(t) \/ RespondSend(t) \/ RespondRead(t) \/ RespondWrite(t) \/ ChatRaises(t)
      PROVE  Answered(d)'
  <2>1. UNCHANGED <<waiting, asked, heard>>
    BY <1>6 DEF SendQuestion, RespondSend, RespondRead, RespondWrite, ChatRaises
  <2>2. CASE threads' = threads \ {t}
    <3>1. CallsOf(d)' \subseteq CallsOf(d)
      BY <2>2 DEF CallsOf
    <3> QED
      BY <2>1, <3>1, AnsweredFrame
  <2>3. ASSUME NEW u, u.stage # "callback", threads' = (threads \ {t}) \cup {u}
        PROVE  Answered(d)'
    <3>1. CallsOf(d)' \subseteq CallsOf(d)
      BY <2>3 DEF CallsOf
    <3> QED
      BY <2>1, <3>1, AnsweredFrame
  <2>4. CASE RespondRead(t)
    <3>1. PICK u : u = [t EXCEPT !.stage = "chat", !.history = Append(sessions[t.agent][t.conv], t.n)]
      OBVIOUS
    <3>2. u.stage # "callback" /\ threads' = (threads \ {t}) \cup {u}
      BY <1>0, <2>4, <3>1 DEF RespondRead, Move, DialogueThreads
    <3> QED
      BY <2>3, <3>2
  <2>5. CASE RespondWrite(t)
    <3>1. PICK u : u = [t EXCEPT !.stage = "reply", !.n = count[t.conv] + 1]
      OBVIOUS
    <3>2. u.stage # "callback" /\ threads' = (threads \ {t}) \cup {u}
      BY <1>0, <2>5, <3>1 DEF RespondWrite, Move, DialogueThreads
    <3> QED
      BY <2>3, <3>2
  <2> QED
    BY <1>6, <2>2, <2>4, <2>5 DEF SendQuestion, RespondSend, ChatRaises
<1>7. CASE UNCHANGED dialogueVars
  <2>1. CallsOf(d)' \subseteq CallsOf(d)
    BY <1>7 DEF CallsOf
  <2> QED
    BY <1>7, <2>1, AnsweredFrame
<1> QED
  BY <1>1, <1>2, <1>3, <1>4, <1>5, <1>6, <1>7 DEF DialogueNext, Run

-----------------------------------------------------------------------------
(* The dialogue's theorems                                                   *)

LEMMA DialogueStart == DialogueInit => DialogueTypes /\ DialogueInv
<1> SUFFICES ASSUME DialogueInit  PROVE DialogueTypes /\ DialogueInv
  OBVIOUS
<1> USE DEF DialogueInit
<1>1. DialogueTypes
  <2>1. <<>> \in Seq(1 .. MaxMessages) /\ <<>> \in Seq(Messages)
    OBVIOUS
  <2>2. waiting \in [Agents -> SUBSET Convs] /\ inbox \in [Agents -> Seq(Messages)]
    BY <2>1
  <2>3. sessions \in [Agents -> [Convs -> Seq(1 .. MaxMessages)]]
    BY <2>1
  <2>4. heard \in [Convs -> Seq(1 .. MaxMessages)]
    BY <2>1
  <2>5. count \in [Convs -> 0 .. MaxMessages] /\ asked \in [Convs -> 0 .. MaxQuestions]
    OBVIOUS
  <2> QED
    BY <2>2, <2>3, <2>4, <2>5 DEF DialogueTypes
<1>2. \A c \in Convs : Protocol(c)
  BY OtherFacts, NumberedFacts DEF Protocol, Resting, NoMail, Idle
<1>3. RepliesOnce
  <2>1. \A c \in Convs : CallsOf(c) = {} /\ Len(heard[c]) = 0
    BY DEF CallsOf
  <2>2. \A c \in Convs : Answered(c)
    BY <2>1, FS_EmptySet, OtherFacts, SMTT(30) DEF Answered
  <2> QED
    BY <2>2 DEF RepliesOnce, Answered, CallsOf
<1>4. waiting[Responder] = {} /\ IsFiniteSet(threads)
  BY FS_EmptySet, OtherFacts
<1> QED
  BY <1>1, <1>2, <1>3, <1>4 DEF DialogueInv

LEMMA DialogueHolds == DialogueSpec => [](DialogueTypes /\ DialogueInv)
<1>1. DialogueTypes /\ DialogueInv /\ [DialogueNext]_dialogueVars => (DialogueTypes /\ DialogueInv)'
  <2> SUFFICES ASSUME DialogueTypes, DialogueInv, [DialogueNext]_dialogueVars
               PROVE  DialogueTypes' /\ DialogueInv'
    OBVIOUS
  <2>1. DialogueTypes'
    BY DialogueTypesStep
  <2>2. RepliesOnce'
    BY AnsweredStep DEF RepliesOnce, Answered, CallsOf
  <2>3. \A c \in Convs \ disturbed' : Protocol(c)'
    BY ProtocolStep
  <2> QED
    BY <2>1, <2>2, <2>3, BegunStep, NeverWaits DEF DialogueInv
<1> QED
  BY <1>1, DialogueStart, PTL DEF DialogueSpec

\* As long as no failure touches a conversation, both agents hold the same one, in
\* order and nothing twice, and neither answers an answer (dialogue.py, handle and
\* _respond); and every variable keeps its type.
THEOREM OneConversation == DialogueSpec => []Undisturbed
<1>1. DialogueTypes => DialogueTypeOK
  BY ThreadParts DEF DialogueTypes, DialogueTypeOK
<1>2. DialogueTypes /\ DialogueInv => HistoriesAgree /\ NoEcho
  <2> SUFFICES ASSUME DialogueTypes, DialogueInv, NEW c \in Convs \ disturbed
               PROVE  /\ Counting(sessions[Responder][c]) /\ Counting(heard[c])
                      /\ sessions[Initiator][c] = <<>>
                      /\ \A t \in threads :
                            t.conv = c /\ t.agent = Initiator => t.stage \in {"ask", "callback"}
    BY DEF HistoriesAgree, NoEcho
  <2>1. Protocol(c)
    BY DEF DialogueInv
  <2>2. Counting(sessions[Responder][c]) /\ Counting(heard[c])
    BY <2>1 DEF Protocol, Asking, Answering, Resting, Numbered
  <2>3. \A t \in threads : t.conv = c /\ t.agent = Initiator => t.stage \in {"ask", "callback"}
    BY <2>1, TurnOf
  <2> QED
    BY <2>1, <2>2, <2>3 DEF Protocol
<1>3. DialogueTypes /\ DialogueInv => Undisturbed
  BY <1>1, <1>2 DEF Undisturbed
<1> QED
  BY <1>3, DialogueHolds, PTL

\* An on_reply fires at most once for its question, and no waiter outlives its
\* answer, whatever is lost, repeated, raised or restarted (dialogue.py, start,
\* reply and handle).
THEOREM RepliesAtMostOnce == DialogueSpec => []RepliesOnce
<1>1. DialogueTypes /\ DialogueInv => RepliesOnce
  BY DEF DialogueInv
<1> QED
  BY <1>1, DialogueHolds, PTL
=============================================================================
