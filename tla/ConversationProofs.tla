-------------------------- MODULE ConversationProofs --------------------------
(****************************************************************************)
(* Proofs about Conversation, for any number of turns, calls, attempts and    *)
(* failures: its types, that a turn goes on exactly once, that every call of  *)
(* the transcript has its own result, that a conversation ends once, that     *)
(* the threads together implement ToolLoop, and that what the Composer        *)
(* rebuilds of a conversation (ConversationView) is what happened.            *)
(*                                                                           *)
(* The invariant behind them is ConvInv.  Its heart is ThisRound: the counter *)
(* of the _Joiner is the number of calls of the round without a recorded      *)
(* result, and a call has none before it has reported; so whoever takes the   *)
(* counter to 0 is alone, and the loop that launches the round is over.       *)
(* ViewInv adds that every published event tells a step that was taken.       *)
(****************************************************************************)
EXTENDS ConversationView, FiniteSetTheorems, TLAPS

Pending == {i \in 1 .. InRound : recorded[<<turn, i>>] = "none"}

\* Between rounds, or in the round of the turn that runs.
Between == Len(messages) = turn - 1

Phases ==
    /\ Len(messages) \in {turn - 1, turn}
    /\ Between => pc \in {"chat", "over", "raised"}
    /\ ~Between => /\ turn <= MaxTurns
                   /\ messages[turn].results = <<>>
                   /\ pc \notin {"chat", "over"}
                   /\ next <= InRound
    /\ pc = "over" <=> ends # <<>>
    /\ Len(ends) <= 1
    /\ ends # <<>> => ~stored

StartedOnce == starts = [t \in 1 .. MaxTurns + 1 |-> IF t <= turn THEN 1 ELSE 0]

\* Every round before this turn is complete, with the results that came.
PastRounds ==
    \A t \in 1 .. turn - 1 :
        /\ Len(messages[t].results) = messages[t].calls
        /\ \A i \in 1 .. messages[t].calls :
              /\ messages[t].results[i] = reported[<<t, i>>]
              /\ reported[<<t, i>>] # "none"

\* Calls that were not asked for, or not in this round.
Elsewhere ==
    /\ \A c \in Calls : Active(c) => c[1] = turn /\ ~Between
    /\ \A c \in Calls : c[1] > Len(messages) => flight[c] = "none" /\ recorded[c] = "none"
    /\ ~Between => \A i \in 1 .. MaxCalls : i > InRound => flight[<<turn, i>>] = "none"

\* A call of this round.
CallState(i) ==
    /\ flight[<<turn, i>>] \in {"running", "lost", "reporting"} => recorded[<<turn, i>>] = "none"
    /\ flight[<<turn, i>>] \in {"last", "over"} => recorded[<<turn, i>>] # "none"
    /\ flight[<<turn, i>>] = "reporting" => reported[<<turn, i>>] # "none"
    /\ recorded[<<turn, i>>] # "none" => recorded[<<turn, i>>] = reported[<<turn, i>>]
    /\ pc \in {"announce", "launch", "submit", "raised"} /\ i >= next =>
          flight[<<turn, i>>] = "none" /\ recorded[<<turn, i>>] = "none"
    /\ pc = "submit" /\ i = next => reported[<<turn, i>>] # "none"
    /\ flight[<<turn, i>>] = "last" => pc = "idle" /\ remaining = 0

ThisRound ==
    ~Between =>
        /\ remaining = Cardinality(Pending)
        /\ pc = "advance" => remaining = 0
        /\ \A i \in 1 .. InRound : CallState(i)
        /\ \A i, j \in 1 .. InRound :
              flight[<<turn, i>>] = "last" /\ flight[<<turn, j>>] = "last" => i = j

ConvInv == Phases /\ StartedOnce /\ PastRounds /\ Elsewhere /\ ThisRound

-----------------------------------------------------------------------------
(* Facts of a round                                                          *)

LEMMA RoundFacts ==
  ASSUME TypeOK, ConvInv, ~Between
  PROVE  /\ turn \in 1 .. MaxTurns /\ Len(messages) = turn /\ turn \in DOMAIN messages
         /\ InRound \in 1 .. MaxCalls
         /\ \A i \in 1 .. InRound : <<turn, i>> \in Calls
         /\ MaxCalls \in Nat /\ MaxTurns \in Nat
         /\ next \in 1 .. InRound
<1>1. Len(messages) = turn /\ turn <= MaxTurns /\ turn \in 1 .. MaxTurns + 1 /\ next <= InRound
  BY DEF ConvInv, Phases, TypeOK, Between
<1>2. MaxTurns \in Nat /\ MaxCalls \in Nat
  BY ConversationAssumption
<1> DEFINE Rounds == [calls : 1 .. MaxCalls, results : Seq(Results)]
<1>3. messages \in Seq(Rounds)
  BY DEF TypeOK
<1> HIDE DEF Rounds
<1>4. messages[turn] \in Rounds /\ turn \in DOMAIN messages
  BY <1>1, <1>2, <1>3
<1>5. InRound \in 1 .. MaxCalls
  BY <1>4 DEF Rounds, InRound
<1>6. next \in 1 .. MaxCalls
  BY DEF TypeOK
<1> QED
  BY <1>1, <1>2, <1>4, <1>5, <1>6 DEF Calls, Turns

\* The calls of the round still without a result can be counted.
LEMMA PendingFacts ==
  ASSUME TypeOK, ConvInv, ~Between
  PROVE  /\ IsFiniteSet(Pending)
         /\ remaining = Cardinality(Pending) /\ remaining \in Nat
         /\ remaining = 0 <=> Pending = {}
<1>1. InRound \in Nat
  BY RoundFacts
<1>2. IsFiniteSet(1 .. InRound)
  BY <1>1, FS_Interval
<1>3. IsFiniteSet(Pending)
  BY <1>2, FS_Subset DEF Pending
<1> QED
  BY <1>3, FS_EmptySet, FS_CardinalityType DEF ConvInv, ThisRound

\* A call leaves the pending ones: the counter goes down by one, and reaches 0
\* only if it was the last of them.
LEMMA OneLess ==
  ASSUME TypeOK, ConvInv, ~Between, NEW i \in Pending
  PROVE  /\ remaining \in 1 .. MaxCalls
         /\ remaining - 1 = Cardinality(Pending \ {i})
         /\ remaining = 1 => Pending = {i}
<1>1. IsFiniteSet(Pending) /\ remaining = Cardinality(Pending) /\ remaining \in Nat
  BY PendingFacts
<1>2. Cardinality(Pending \ {i}) = Cardinality(Pending) - 1 /\ IsFiniteSet(Pending \ {i})
  BY <1>1, FS_RemoveElement
<1>3. remaining # 0
  BY PendingFacts
<1>4. remaining = 1 => Pending \ {i} = {}
  BY <1>1, <1>2, FS_EmptySet
<1>5. remaining \in 0 .. MaxCalls /\ MaxCalls \in Nat
  BY ConversationAssumption DEF TypeOK
<1> QED
  BY <1>1, <1>2, <1>3, <1>4, <1>5

-----------------------------------------------------------------------------
(* Types                                                                     *)

USE ConversationAssumption

LEMMA EmitType ==
  ASSUME TypeOK, NEW e, Emit(e) \/ UNCHANGED lost
  PROVE  lost' \in 0 .. MaxLost
BY DEF Emit, TypeOK

\* The loop that launches a round is in it.
LEMMA Launching ==
  ASSUME TypeOK, ConvInv, pc \notin {"chat", "over", "raised"} \/ \E c \in Calls : Active(c)
  PROVE  ~Between
BY DEF ConvInv, Phases, Elsewhere

LEMMA GoOnType ==
  ASSUME TypeOK, ConvInv, pc \in {"launch", "submit"}, GoOn
  PROVE  /\ next' \in 1 .. MaxCalls /\ next' \in 1 .. InRound
         /\ pc' \in {"announce", "idle"}
<1>1. next \in 1 .. InRound /\ InRound \in 1 .. MaxCalls
  BY Launching, RoundFacts
<1> QED
  BY <1>1 DEF GoOn

\* Only an unrecorded call is submitted.
LEMMA SubmitsPending ==
  ASSUME TypeOK, ConvInv
  PROVE  /\ pc = "submit" => next \in Pending
         /\ \A c \in Calls : flight[c] = "reporting" =>
               /\ c[1] = turn /\ c[2] \in Pending /\ c = <<turn, c[2]>>
<1>1. ASSUME pc = "submit" PROVE next \in Pending
  <2>1. ~Between
    BY <1>1, Launching
  <2>2. next \in 1 .. InRound
    BY <2>1, RoundFacts
  <2>3. CallState(next)
    BY <2>1, <2>2 DEF ConvInv, ThisRound
  <2>4. next >= next
    BY <2>2, <2>1, RoundFacts
  <2> QED
    BY <1>1, <2>2, <2>3, <2>4 DEF CallState, Pending
<1>2. ASSUME NEW c \in Calls, flight[c] = "reporting"
      PROVE  c[1] = turn /\ c[2] \in Pending /\ c = <<turn, c[2]>>
  <2>1. ~Between /\ c[1] = turn
    BY <1>2 DEF ConvInv, Elsewhere, Active
  <2>2. c = <<turn, c[2]>> /\ c[2] \in 1 .. MaxCalls
    BY <2>1 DEF Calls
  <2>3. InRound \in 1 .. MaxCalls
    BY <2>1, RoundFacts
  <2>4. c[2] \in 1 .. InRound
    <3> SUFFICES ASSUME c[2] > InRound PROVE FALSE
      BY <2>2, <2>3
    <3> QED
      BY <1>2, <2>1, <2>2 DEF ConvInv, Elsewhere
  <2>5. CallState(c[2])
    BY <2>1, <2>4 DEF ConvInv, ThisRound
  <2> QED
    BY <1>2, <2>1, <2>2, <2>4, <2>5 DEF CallState, Pending
<1> QED
  BY <1>1, <1>2

\* Whoever goes on finds every result of the round.
LEMMA Advancing ==
  ASSUME TypeOK, ConvInv, pc = "advance" \/ \E c \in Calls : flight[c] = "last"
  PROVE  /\ ~Between /\ pc \in {"advance", "idle"}
         /\ pc = "advance" => \A c \in Calls : flight[c] # "last"
         /\ \A i \in 1 .. InRound :
               /\ recorded[<<turn, i>>] \in Results
               /\ recorded[<<turn, i>>] = reported[<<turn, i>>]
               /\ flight[<<turn, i>>] \notin {"running", "lost", "reporting"}
<1>1. ASSUME NEW c \in Calls, flight[c] = "last"
      PROVE  ~Between /\ pc = "idle" /\ remaining = 0
  <2>1. ~Between /\ c[1] = turn
    BY <1>1 DEF ConvInv, Elsewhere, Active
  <2>2. c = <<turn, c[2]>> /\ c[2] \in 1 .. MaxCalls
    BY <2>1 DEF Calls
  <2>3. InRound \in 1 .. MaxCalls
    BY <2>1, RoundFacts
  <2>4. c[2] \in 1 .. InRound
    <3> SUFFICES ASSUME c[2] > InRound PROVE FALSE
      BY <2>2, <2>3
    <3> QED
      BY <1>1, <2>1, <2>2 DEF ConvInv, Elsewhere
  <2>5. CallState(c[2])
    BY <2>1, <2>4 DEF ConvInv, ThisRound
  <2> QED
    BY <1>1, <2>1, <2>2, <2>5 DEF CallState
<1>2. ~Between
  BY <1>1, Launching
<1>3. remaining = 0
  BY <1>1, <1>2 DEF ConvInv, ThisRound
<1>4. Pending = {}
  BY <1>2, <1>3, PendingFacts
<1>5. ASSUME NEW i \in 1 .. InRound
      PROVE  /\ recorded[<<turn, i>>] \in Results
             /\ recorded[<<turn, i>>] = reported[<<turn, i>>]
             /\ flight[<<turn, i>>] \notin {"running", "lost", "reporting"}
  <2>1. <<turn, i>> \in Calls /\ recorded[<<turn, i>>] # "none"
    BY <1>2, <1>4, RoundFacts DEF Pending
  <2>2. CallState(i)
    BY <1>2 DEF ConvInv, ThisRound
  <2> QED
    BY <2>1, <2>2 DEF CallState, TypeOK
<1> QED
  BY <1>1, <1>2, <1>5

\* What the transcript of the round becomes.
LEMMA OrderedType ==
  ASSUME TypeOK, ConvInv, pc = "advance" \/ \E c \in Calls : flight[c] = "last"
  PROVE  /\ Ordered \in Seq(Results) /\ Len(Ordered) = InRound
         /\ \A i \in 1 .. InRound :
               Ordered[i] = reported[<<turn, i>>] /\ reported[<<turn, i>>] # "none"
<1>1. InRound \in Nat /\ \A i \in 1 .. InRound : <<turn, i>> \in Calls
  BY Advancing, RoundFacts
<1>2. \A i \in 1 .. InRound : recorded[<<turn, i>>] \in Results
                               /\ recorded[<<turn, i>>] = reported[<<turn, i>>]
  BY Advancing
<1>3. Ordered \in [1 .. InRound -> Results]
  BY <1>2 DEF Ordered, Current
<1>4. Ordered \in Seq(Results) /\ Len(Ordered) = InRound
  <2> DEFINE R == Results
             n == InRound
             s == Ordered
  <2>1. n \in Nat /\ s \in [1 .. n -> R]
    BY <1>1, <1>3
  <2> HIDE DEF R, n, s
  <2>2. s \in Seq(R) /\ Len(s) = n
    BY <2>1
  <2> QED
    BY <2>2 DEF R, n, s
<1> QED
  BY <1>2, <1>4 DEF Ordered, Current, Results

LEMMA AdvanceTypes ==
  ASSUME TypeOK, ConvInv, AdvanceInline \/ \E c \in Calls : Advance(c)
  PROVE  TypeOK'
<1> USE DEF driverVars, joinerVars, storeVars, busVars
<1>1. NextTurn /\ (pc = "advance" \/ \E c \in Calls : flight[c] = "last")
  BY DEF AdvanceInline, Advance
<1>2. turn \in 1 .. MaxTurns /\ turn \in DOMAIN messages /\ InRound \in 1 .. MaxCalls
  BY <1>1, Advancing, RoundFacts
<1>3. turn' \in 1 .. MaxTurns + 1 /\ turn + 1 \in 1 .. MaxTurns + 1
  BY <1>1, <1>2 DEF NextTurn
<1>4. messages' \in Seq([calls : 1 .. MaxCalls, results : Seq(Results)])
  <2> DEFINE Rounds == [calls : 1 .. MaxCalls, results : Seq(Results)]
             round == [messages[turn] EXCEPT !.results = Ordered]
  <2>1. messages \in Seq(Rounds)
    BY DEF TypeOK
  <2> HIDE DEF Rounds
  <2>2. messages[turn] \in Rounds
    BY <1>2, <2>1
  <2> USE DEF Rounds
  <2>3. round \in Rounds
    BY <1>1, <2>2, OrderedType
  <2>4. messages' = [messages EXCEPT ![turn] = round]
    BY <1>1 DEF NextTurn
  <2> HIDE DEF Rounds, round
  <2>5. messages' \in Seq(Rounds)
    BY <1>2, <2>1, <2>3, <2>4
  <2> QED
    BY <2>5 DEF Rounds
<1>5. starts' \in [1 .. MaxTurns + 1 -> Nat]
  <2>1. starts \in [1 .. MaxTurns + 1 -> Nat]
    BY DEF TypeOK
  <2>2. starts' = [starts EXCEPT ![turn + 1] = starts[turn + 1] + 1]
    BY <1>1 DEF NextTurn
  <2> QED
    BY <1>3, <2>1, <2>2
<1>6. flight' \in [Calls -> {"none", "running", "reporting", "last", "over", "lost"}]
  BY DEF AdvanceInline, Advance, TypeOK
<1>7. onCaller' \in BOOLEAN
  BY DEF AdvanceInline, Advance, TypeOK
<1> QED
  BY <1>1, <1>3, <1>4, <1>5, <1>6, <1>7 DEF NextTurn, TypeOK

LEMMA TypeStep == TypeOK /\ ConvInv /\ [Next]_vars => TypeOK'
<1> SUFFICES ASSUME TypeOK, ConvInv, [Next]_vars PROVE TypeOK'
  OBVIOUS
<1> USE DEF driverVars, joinerVars, storeVars, busVars
<1>1. CASE UNCHANGED vars
  BY <1>1 DEF TypeOK, vars
<1>2. CASE GiveUp \/ Conclude
  <2>1. lost' \in 0 .. MaxLost
    BY <1>2, EmitType DEF GiveUp, Conclude
  <2>2. ends' \in Seq({"answer", "limit"}) /\ stored' = FALSE /\ pc' = "over"
    <3> DEFINE Ends == {"answer", "limit"}
    <3>1. PICK how \in Ends : Finish(how)
      BY <1>2 DEF GiveUp, Conclude
    <3>2. ends \in Seq(Ends)
      BY DEF TypeOK
    <3> HIDE DEF Ends
    <3>3. ends' \in Seq(Ends)
      BY <3>1, <3>2 DEF Finish
    <3> QED
      BY <3>1, <3>3 DEF Finish, Ends
  <2> QED
    BY <1>2, <2>1, <2>2 DEF GiveUp, Conclude, Finish, TypeOK
<1>3. ASSUME NEW n \in 1 .. MaxCalls, Ask(n) PROVE TypeOK'
  <2> DEFINE Rounds == [calls : 1 .. MaxCalls, results : Seq(Results)]
  <2>1. [calls |-> n, results |-> <<>>] \in Rounds
    OBVIOUS
  <2>2. messages \in Seq(Rounds)
    BY DEF TypeOK
  <2> HIDE DEF Rounds
  <2>3. messages' \in Seq(Rounds)
    BY <1>3, <2>1, <2>2 DEF Ask
  <2>4. messages' \in Seq([calls : 1 .. MaxCalls, results : Seq(Results)])
    BY <2>3 DEF Rounds
  <2> QED
    BY <1>3, <2>4 DEF Ask, TypeOK
<1>4. CASE ChatRaises
  BY <1>4 DEF ChatRaises, TypeOK
<1>5. CASE Announce
  <2>1. lost' \in 0 .. MaxLost
    BY <1>5, EmitType DEF Announce
  <2> QED
    BY <1>5, <2>1 DEF Announce, TypeOK
<1>6. CASE FailInline
  <2>1. lost' \in 0 .. MaxLost
    BY <1>6, EmitType DEF FailInline
  <2>2. reported' \in [Calls -> Results \cup {"none"}]
    BY <1>6 DEF FailInline, TypeOK, Results
  <2> QED
    BY <1>6, <2>1, <2>2 DEF FailInline, TypeOK
<1>7. CASE Launch
  <2>1. lost' \in 0 .. MaxLost
    BY <1>7, EmitType DEF Launch, Dispatch
  <2>2. next' \in 1 .. MaxCalls /\ pc' \in {"announce", "idle"}
    BY <1>7, GoOnType DEF Launch
  <2>3. flight' \in [Calls -> {"none", "running", "reporting", "last", "over", "lost"}]
    BY <1>7 DEF Launch, Dispatch, TypeOK
  <2>4. attempt' \in [Calls -> 0 .. MaxAttempts]
    <3>1. attempt \in [Calls -> 0 .. MaxAttempts] /\ 1 \in 0 .. MaxAttempts
      BY DEF TypeOK
    <3> QED
      BY <1>7, <3>1 DEF Launch, Dispatch
  <2> QED
    BY <1>7, <2>1, <2>2, <2>3, <2>4 DEF Launch, Dispatch, TypeOK
<1>8. CASE LaunchRaises
  <2>1. lost' \in 0 .. MaxLost
    BY <1>8, EmitType DEF LaunchRaises
  <2> QED
    BY <1>8, <2>1 DEF LaunchRaises, TypeOK
<1>9. CASE SinkExpires
  BY <1>9 DEF SinkExpires, TypeOK
<1>10. CASE SubmitInline
  <2>1. next \in Pending /\ ~Between
    BY <1>10, SubmitsPending, Launching DEF SubmitInline
  <2>2. remaining' \in 0 .. MaxCalls
    <3>1. remaining \in 1 .. MaxCalls
      BY <2>1, OneLess
    <3>2. remaining' = remaining - 1
      BY <1>10 DEF SubmitInline, Record
    <3> QED
      BY <3>1, <3>2
  <2>3. recorded' \in [Calls -> Results \cup {"none"}]
    <3>1. Current(next) \in Calls
      BY <2>1, RoundFacts DEF Current
    <3> QED
      BY <1>10, <3>1 DEF SubmitInline, Record, TypeOK
  <2>4. next' \in 1 .. MaxCalls /\ pc' \in {"announce", "idle", "advance"}
    <3>1. CASE GoOn
      BY <1>10, <3>1, GoOnType DEF SubmitInline
    <3>2. CASE ~GoOn
      BY <1>10, <3>2 DEF SubmitInline, TypeOK
    <3> QED
      BY <3>1, <3>2
  <2> QED
    BY <1>10, <2>2, <2>3, <2>4 DEF SubmitInline, Record, TypeOK
<1>11. ASSUME NEW c \in Calls, Submit(c) PROVE TypeOK'
  <2>1. c[2] \in Pending /\ ~Between
    BY <1>11, SubmitsPending, Launching DEF Submit, Active
  <2>2. remaining' \in 0 .. MaxCalls
    <3>1. remaining \in 1 .. MaxCalls
      BY <2>1, OneLess
    <3>2. remaining' = remaining - 1
      BY <1>11 DEF Submit, Record
    <3> QED
      BY <3>1, <3>2
  <2>3. /\ recorded' \in [Calls -> Results \cup {"none"}]
        /\ flight' \in [Calls -> {"none", "running", "reporting", "last", "over", "lost"}]
    BY <1>11 DEF Submit, Record, TypeOK
  <2> QED
    BY <1>11, <2>2, <2>3 DEF Submit, Record, TypeOK
<1>12. ASSUME NEW c \in Calls, NEW r \in Results, Report(c, r) PROVE TypeOK'
  <2>1. lost' \in 0 .. MaxLost
    BY <1>12, EmitType DEF Report
  <2> QED
    BY <1>12, <2>1 DEF Report, TypeOK
<1>13. ASSUME NEW c \in Calls, Retry(c) \/ SkillRaises(c) PROVE TypeOK'
  <2>1. lost' \in 0 .. MaxLost
    BY <1>13, EmitType DEF Retry, SkillRaises, Dispatch
  <2>2. flight' \in [Calls -> {"none", "running", "reporting", "last", "over", "lost"}]
    BY <1>13 DEF Retry, SkillRaises, Dispatch, TypeOK
  <2>3. attempt' \in [Calls -> 0 .. MaxAttempts]
    <3>1. attempt \in [Calls -> 0 .. MaxAttempts] /\ 1 \in 0 .. MaxAttempts
      BY DEF TypeOK
    <3> QED
      BY <1>13, <3>1 DEF Retry, SkillRaises, Dispatch
  <2> QED
    BY <1>13, <2>1, <2>2, <2>3 DEF Retry, SkillRaises, Dispatch, TypeOK
<1>14. ASSUME NEW c \in Calls, CheckIn(c) PROVE TypeOK'
  BY <1>14 DEF CheckIn, TypeOK
<1>15. ASSUME NEW rid, CheckInReply(rid) PROVE TypeOK'
  BY <1>15 DEF CheckInReply, TypeOK
<1>16. CASE AdvanceInline \/ \E c \in Calls : Advance(c)
  BY <1>16, AdvanceTypes
<1> QED
  BY <1>1, <1>2, <1>3, <1>4, <1>5, <1>6, <1>7, <1>8, <1>9, <1>10, <1>11, <1>12, <1>13, <1>14, <1>15, <1>16
  DEF Next, Drive, Settle

-----------------------------------------------------------------------------
(* The inductive invariant                                                   *)

LEMMA InvInit == Init => TypeOK /\ ConvInv
<1> SUFFICES ASSUME Init PROVE TypeOK /\ ConvInv
  OBVIOUS
<1>1. TypeOK
  BY DEF Init, TypeOK, Calls, Turns
<1>2. Between /\ messages = <<>> /\ turn = 1 /\ Len(messages) = 0
  BY DEF Init, Between
<1>3. Phases
  BY <1>2 DEF Init, Phases
<1>4. StartedOnce
  BY DEF Init, StartedOnce
<1>5. PastRounds
  BY <1>2 DEF PastRounds
<1>6. Elsewhere
  BY <1>2 DEF Init, Elsewhere, Active
<1>7. ThisRound
  BY <1>2 DEF ThisRound
<1> QED
  BY <1>1, <1>3, <1>4, <1>5, <1>6, <1>7 DEF ConvInv

\* The calls of the rounds before are calls, of an earlier turn.
LEMMA PastCalls ==
  ASSUME TypeOK, ConvInv
  PROVE  /\ \A t \in 1 .. turn - 1 : t \in DOMAIN messages /\ t <= MaxTurns
         /\ \A t \in 1 .. turn - 1 : \A i \in 1 .. messages[t].calls : <<t, i>> \in Calls
<1> DEFINE Rounds == [calls : 1 .. MaxCalls, results : Seq(Results)]
<1>1. messages \in Seq(Rounds) /\ turn \in 1 .. MaxTurns + 1 /\ Len(messages) \in {turn - 1, turn}
  BY DEF TypeOK, ConvInv, Phases
<1> HIDE DEF Rounds
<1>2. \A t \in 1 .. turn - 1 : t \in DOMAIN messages /\ t \in 1 .. MaxTurns /\ messages[t] \in Rounds
  BY <1>1
<1> USE DEF Rounds
<1>3. \A t \in 1 .. turn - 1 : \A i \in 1 .. messages[t].calls : <<t, i>> \in Calls
  BY <1>2 DEF Calls, Turns
<1> QED
  BY <1>2, <1>3

\* The steps that leave the round alone, but may end an attempt of a call.
LEMMA FrameStep ==
  ASSUME TypeOK, ConvInv,
         UNCHANGED <<turn, pc, next, starts, reported, recorded, remaining, messages, stored, ends>>,
         \A c \in Calls : \/ flight'[c] = flight[c]
                          \/ flight[c] = "running" /\ flight'[c] \in {"running", "lost"}
  PROVE  ConvInv'
<1>1. Phases'
  BY DEF ConvInv, Phases, Between, InRound
<1>2. StartedOnce'
  BY DEF ConvInv, StartedOnce
<1>3. PastRounds'
  BY DEF ConvInv, PastRounds
<1>4. Elsewhere'
  <2>1. Elsewhere /\ (Between' <=> Between) /\ InRound' = InRound
    BY DEF ConvInv, Between, InRound
  <2>2. \A c \in Calls : Active(c)' => Active(c)
    BY DEF Active
  <2>3. ASSUME NEW i \in 1 .. MaxCalls, i > InRound, ~Between
        PROVE  flight'[<<turn, i>>] = "none"
    <3>1. <<turn, i>> \in Calls
      BY <2>3, RoundFacts DEF Calls, Turns
    <3> QED
      BY <2>1, <2>3, <3>1 DEF Elsewhere
  <2> QED
    BY <2>1, <2>2, <2>3 DEF Elsewhere
<1>5. ThisRound'
  <2> SUFFICES ASSUME ~Between PROVE ThisRound'
    BY DEF ThisRound, Between
  <2>1. ThisRound /\ InRound' = InRound /\ Pending' = Pending
    BY DEF ConvInv, InRound, Pending
  <2>2. \A i \in 1 .. InRound : <<turn, i>> \in Calls
    BY RoundFacts
  <2>3. ASSUME NEW i \in 1 .. InRound PROVE CallState(i)'
    <3>1. CallState(i)
      BY <2>1 DEF ThisRound
    <3> QED
      BY <2>2, <3>1 DEF CallState
  <2>4. \A i \in 1 .. InRound : flight'[<<turn, i>>] = "last" => flight[<<turn, i>>] = "last"
    BY <2>2
  <2> QED
    BY <2>1, <2>3, <2>4 DEF ThisRound
<1> QED
  BY <1>1, <1>2, <1>3, <1>4, <1>5 DEF ConvInv

\* The steps that only move the thread in do_turn.
LEMMA MoveStep ==
  ASSUME TypeOK, ConvInv,
         <<pc, pc'>> \in {<<"chat", "raised">>, <<"announce", "launch">>, <<"launch", "raised">>},
         UNCHANGED <<turn, next, starts, flight, reported, recorded, remaining, messages, stored, ends>>
  PROVE  ConvInv'
<1>1. Phases'
  BY DEF ConvInv, Phases, Between, InRound
<1>2. StartedOnce' /\ PastRounds' /\ Elsewhere'
  BY DEF ConvInv, StartedOnce, PastRounds, Elsewhere, Between, Active, InRound
<1>3. ThisRound'
  <2> SUFFICES ASSUME ~Between PROVE ThisRound'
    BY DEF ThisRound, Between
  <2>1. ThisRound /\ InRound' = InRound /\ Pending' = Pending
    BY DEF ConvInv, InRound, Pending
  <2>2. pc # "chat"
    BY DEF ConvInv, Phases
  <2>3. ASSUME NEW i \in 1 .. InRound PROVE CallState(i)'
    <3>1. CallState(i)
      BY <2>1 DEF ThisRound
    <3> QED
      BY <2>2, <3>1 DEF CallState
  <2> QED
    BY <2>1, <2>3 DEF ThisRound
<1> QED
  BY <1>1, <1>2, <1>3 DEF ConvInv

LEMMA FailInlineStep == TypeOK /\ ConvInv /\ FailInline => ConvInv'
<1> SUFFICES ASSUME TypeOK, ConvInv, FailInline PROVE ConvInv'
  OBVIOUS
<1> USE DEF driverVars, joinerVars, storeVars, busVars
<1>1. /\ pc = "launch" /\ pc' = "submit"
      /\ reported' = [reported EXCEPT ![<<turn, next>>] = "error"]
      /\ UNCHANGED <<turn, next, starts, flight, recorded, remaining, messages, stored, ends>>
  BY DEF FailInline, Current
<1>2. ~Between /\ next \in 1 .. InRound /\ \A i \in 1 .. InRound : <<turn, i>> \in Calls
  BY <1>1, Launching, RoundFacts
<1>3. Phases'
  BY <1>1, <1>2 DEF ConvInv, Phases, Between, InRound
<1>4. StartedOnce' /\ Elsewhere'
  BY <1>1 DEF ConvInv, StartedOnce, Elsewhere, Between, Active, InRound
<1>5. PastRounds'
  <2>1. turn \in Nat /\ PastRounds
    BY DEF TypeOK, ConvInv
  <2>2. \A t \in 1 .. turn - 1 : \A i : reported'[<<t, i>>] = reported[<<t, i>>] \/ <<t, i>> \notin Calls
    BY <1>1, <2>1 DEF TypeOK
  <2>3. \A t \in 1 .. turn - 1 : \A i \in 1 .. messages[t].calls : <<t, i>> \in Calls
    BY PastCalls
  <2> QED
    BY <1>1, <2>1, <2>2, <2>3 DEF PastRounds
<1>6. ThisRound'
  <2>1. ThisRound /\ InRound' = InRound /\ Pending' = Pending
    BY <1>1 DEF ConvInv, InRound, Pending
  <2>2. ASSUME NEW i \in 1 .. InRound PROVE CallState(i)'
    <3>1. CallState(i) /\ CallState(next) /\ next >= next
      BY <1>2, <2>1, RoundFacts DEF ThisRound
    <3>2. CASE i = next
      <4>1. reported'[<<turn, i>>] = "error"
        BY <1>1, <1>2, <3>2 DEF TypeOK
      <4>2. flight[<<turn, i>>] = "none" /\ recorded[<<turn, i>>] = "none"
        BY <1>1, <3>1, <3>2 DEF CallState
      <4> QED
        BY <1>1, <3>2, <4>1, <4>2 DEF CallState
    <3>3. CASE i # next
      <4>1. reported'[<<turn, i>>] = reported[<<turn, i>>]
        BY <1>1, <1>2, <3>3 DEF TypeOK
      <4> QED
        BY <1>1, <3>1, <3>3, <4>1 DEF CallState
    <3> QED
      BY <3>2, <3>3
  <2> QED
    BY <1>1, <1>2, <2>1, <2>2 DEF ThisRound
<1> QED
  BY <1>3, <1>4, <1>5, <1>6 DEF ConvInv

LEMMA FinishStep == TypeOK /\ ConvInv /\ (GiveUp \/ Conclude) => ConvInv'
<1> SUFFICES ASSUME TypeOK, ConvInv, GiveUp \/ Conclude PROVE ConvInv'
  OBVIOUS
<1> USE DEF driverVars, joinerVars, storeVars, busVars
<1>1. PICK how \in {"answer", "limit"} : Finish(how)
  BY DEF GiveUp, Conclude
<1>2. pc = "chat" /\ Between /\ ends = <<>>
  BY DEF GiveUp, Conclude, ConvInv, Phases
<1>3. /\ pc' = "over" /\ stored' = FALSE /\ ends' = <<how>>
      /\ UNCHANGED <<turn, next, starts, flight, reported, recorded, remaining, messages>>
  BY <1>1, <1>2 DEF Finish
<1>4. Phases'
  BY <1>2, <1>3 DEF ConvInv, Phases, Between, InRound
<1>5. StartedOnce' /\ PastRounds' /\ Elsewhere' /\ ThisRound'
  BY <1>2, <1>3 DEF ConvInv, StartedOnce, PastRounds, Elsewhere, ThisRound, Between, Active, InRound
<1> QED
  BY <1>4, <1>5 DEF ConvInv

LEMMA AskStep ==
  ASSUME TypeOK, ConvInv, NEW n \in 1 .. MaxCalls, Ask(n)
  PROVE  ConvInv'
<1> USE DEF driverVars, joinerVars, storeVars, busVars
<1> DEFINE Rounds == [calls : 1 .. MaxCalls, results : Seq(Results)]
           round == [calls |-> n, results |-> <<>>]
<1>1. /\ pc = "chat" /\ turn <= MaxTurns /\ remaining' = n
      /\ pc' = "announce" /\ next' = 1
      /\ messages' = Append(messages, round)
      /\ UNCHANGED <<turn, starts, flight, reported, recorded, stored, ends>>
  BY DEF Ask
<1>2. Between /\ ends = <<>> /\ Len(messages) = turn - 1 /\ turn \in 1 .. MaxTurns
  BY <1>1 DEF ConvInv, Phases, Between, TypeOK
<1>3. /\ Len(messages') = turn /\ messages'[turn] = round
      /\ \A t \in 1 .. turn - 1 : messages'[t] = messages[t]
  <2>1. messages \in Seq(Rounds) /\ round \in Rounds
    BY DEF TypeOK
  <2> HIDE DEF Rounds, round
  <2> QED
    BY <1>1, <1>2, <2>1
<1>4. ~Between' /\ InRound' = n /\ messages'[turn].results = <<>>
  BY <1>1, <1>2, <1>3 DEF Between, InRound
<1>5. \A i \in 1 .. MaxCalls : /\ <<turn, i>> \in Calls
                               /\ flight[<<turn, i>>] = "none" /\ recorded[<<turn, i>>] = "none"
  <2>1. \A i \in 1 .. MaxCalls : <<turn, i>> \in Calls /\ <<turn, i>>[1] > Len(messages)
    BY <1>2 DEF Calls, Turns
  <2> QED
    BY <2>1 DEF ConvInv, Elsewhere
<1>6. Phases'
  BY <1>1, <1>2, <1>3, <1>4 DEF ConvInv, Phases
<1>7. StartedOnce'
  BY <1>1 DEF ConvInv, StartedOnce
<1>8. PastRounds'
  <2>1. PastRounds /\ UNCHANGED <<turn, reported>>
    BY <1>1 DEF ConvInv
  <2> HIDE DEF round
  <2> QED
    BY <1>3, <2>1 DEF PastRounds
<1>9. Elsewhere'
  <2>1. \A c \in Calls : ~Active(c)
    BY <1>2 DEF ConvInv, Elsewhere
  <2>2. \A c \in Calls : c[1] > turn => flight[c] = "none" /\ recorded[c] = "none"
    BY <1>2 DEF ConvInv, Elsewhere, Calls, Turns
  <2> QED
    BY <1>1, <1>2, <1>3, <1>4, <1>5, <2>1, <2>2 DEF Elsewhere, Active
<1>10. ThisRound'
  <2>1. Pending' = 1 .. n
    BY <1>1, <1>4, <1>5 DEF Pending
  <2>2. remaining' = Cardinality(Pending')
    BY <1>1, <2>1, FS_Interval
  <2>3. ASSUME NEW i \in 1 .. n PROVE CallState(i)'
    BY <1>1, <1>5 DEF CallState
  <2>4. \A i \in 1 .. n : flight'[<<turn, i>>] # "last"
    BY <1>1, <1>5
  <2> QED
    BY <1>1, <1>4, <2>2, <2>3, <2>4 DEF ThisRound
<1> QED
  BY <1>6, <1>7, <1>8, <1>9, <1>10 DEF ConvInv

\* The loop goes on with a later call of the round, or is at its end.
LEMMA GoOnStep ==
  ASSUME TypeOK, ConvInv, pc \in {"launch", "submit"}, GoOn, NEW i \in 1 .. InRound,
         pc' \in {"announce", "launch", "submit", "raised"}, i >= next'
  PROVE  i >= next /\ i # next
BY Launching, RoundFacts DEF GoOn

LEMMA LaunchStep == TypeOK /\ ConvInv /\ Launch => ConvInv'
<1> SUFFICES ASSUME TypeOK, ConvInv, Launch PROVE ConvInv'
  OBVIOUS
<1> USE DEF driverVars, joinerVars, storeVars, busVars
<1>1. /\ pc = "launch" /\ GoOn
      /\ flight' = [flight EXCEPT ![<<turn, next>>] = "running"]
      /\ UNCHANGED <<turn, starts, reported, recorded, remaining, messages, stored, ends>>
  BY DEF Launch, Dispatch, Current
<1>2. ~Between /\ next \in 1 .. InRound /\ \A i \in 1 .. InRound : <<turn, i>> \in Calls
  BY <1>1, Launching, RoundFacts
<1>3. next' \in 1 .. InRound /\ pc' \in {"announce", "idle"}
  BY <1>1, GoOnType
<1>4. ~Between' /\ InRound' = InRound /\ Pending' = Pending
  BY <1>1, <1>2 DEF Between, InRound, Pending
<1>5. Phases'
  BY <1>1, <1>2, <1>3, <1>4, RoundFacts DEF ConvInv, Phases, Between
<1>6. StartedOnce' /\ PastRounds'
  BY <1>1 DEF ConvInv, StartedOnce, PastRounds
<1>7. \A c \in Calls : c # <<turn, next>> => flight'[c] = flight[c]
  BY <1>1 DEF TypeOK
<1>8. Elsewhere'
  <2>1. Elsewhere /\ Len(messages) = turn /\ turn \in 1 .. MaxTurns /\ InRound \in 1 .. MaxCalls
    BY <1>2, RoundFacts DEF ConvInv
  <2>2. \A c \in Calls : Active(c)' => c[1] = turn
    BY <1>2, <1>7, <2>1 DEF Elsewhere, Active
  <2>3. \A c \in Calls : c[1] > Len(messages) => flight'[c] = "none" /\ recorded[c] = "none"
    BY <1>2, <1>7, <2>1 DEF Elsewhere
  <2>4. \A i \in 1 .. MaxCalls : i > InRound => flight'[<<turn, i>>] = "none"
    <3> SUFFICES ASSUME NEW i \in 1 .. MaxCalls, i > InRound PROVE flight'[<<turn, i>>] = "none"
      OBVIOUS
    <3>1. <<turn, i>> \in Calls /\ <<turn, i>> # <<turn, next>>
      BY <1>2, <2>1 DEF Calls, Turns
    <3> QED
      BY <1>2, <1>7, <2>1, <3>1 DEF Elsewhere
  <2> QED
    BY <1>1, <1>4, <2>2, <2>3, <2>4 DEF Elsewhere
<1>9. ThisRound'
  <2>1. ThisRound
    BY DEF ConvInv
  <2>2. ASSUME NEW i \in 1 .. InRound PROVE CallState(i)'
    <3>1. CallState(i) /\ CallState(next) /\ next >= next
      BY <1>2, <2>1, RoundFacts DEF ThisRound
    <3>2. pc' \in {"announce", "launch", "submit", "raised"} /\ i >= next' => i >= next /\ i # next
      BY <1>1, GoOnStep
    <3>3. CASE i = next
      <4>1. recorded[<<turn, i>>] = "none" /\ flight'[<<turn, i>>] = "running"
        BY <1>1, <1>2, <3>1, <3>3 DEF CallState, TypeOK
      <4> QED
        BY <1>1, <1>3, <3>2, <3>3, <4>1 DEF CallState
    <3>4. CASE i # next
      <4>1. flight'[<<turn, i>>] = flight[<<turn, i>>] /\ flight[<<turn, i>>] # "last"
        BY <1>1, <1>2, <1>7, <3>1, <3>4 DEF CallState
      <4> QED
        BY <1>1, <1>3, <3>1, <3>2, <3>4, <4>1 DEF CallState
    <3> QED
      BY <3>3, <3>4
  <2>3. \A i \in 1 .. InRound : flight'[<<turn, i>>] # "last"
    <3> SUFFICES ASSUME NEW i \in 1 .. InRound PROVE flight'[<<turn, i>>] # "last"
      OBVIOUS
    <3>1. CallState(i)
      BY <1>2, <2>1 DEF ThisRound
    <3> QED
      BY <1>1, <1>2, <3>1 DEF CallState, TypeOK
  <2> QED
    BY <1>1, <1>2, <1>3, <1>4, <2>1, <2>2, <2>3 DEF ThisRound
<1> QED
  BY <1>5, <1>6, <1>8, <1>9 DEF ConvInv

LEMMA ReportStep ==
  ASSUME TypeOK, ConvInv, NEW c \in Calls, NEW r \in Results, Report(c, r)
  PROVE  ConvInv'
<1> USE DEF driverVars, joinerVars, storeVars, busVars
<1>1. /\ flight[c] = "running"
      /\ flight' = [flight EXCEPT ![c] = "reporting"]
      /\ reported' = [reported EXCEPT ![c] = r]
      /\ UNCHANGED <<turn, pc, next, starts, recorded, remaining, messages, stored, ends>>
  BY DEF Report
<1>2. ~Between /\ c[1] = turn /\ c = <<turn, c[2]>>
  BY <1>1 DEF ConvInv, Elsewhere, Active, Calls
<1>3. \A i \in 1 .. InRound : <<turn, i>> \in Calls
  BY <1>2, RoundFacts
<1>4. Phases' /\ StartedOnce' /\ ~Between' /\ InRound' = InRound /\ Pending' = Pending
  BY <1>1, <1>2 DEF ConvInv, Phases, StartedOnce, Between, InRound, Pending
<1>5. \A d \in Calls : d # c => flight'[d] = flight[d] /\ reported'[d] = reported[d]
  BY <1>1 DEF TypeOK
<1>6. PastRounds'
  <2>1. turn \in Nat /\ PastRounds
    BY DEF TypeOK, ConvInv
  <2>2. \A t \in 1 .. turn - 1 : \A i \in 1 .. messages[t].calls :
           reported'[<<t, i>>] = reported[<<t, i>>]
    <3> SUFFICES ASSUME NEW t \in 1 .. turn - 1, NEW i \in 1 .. messages[t].calls
                 PROVE  reported'[<<t, i>>] = reported[<<t, i>>]
      OBVIOUS
    <3>1. <<t, i>> \in Calls
      BY PastCalls
    <3>2. t # turn
      BY <2>1
    <3>3. <<t, i>> # <<turn, c[2]>>
      BY <3>2
    <3> QED
      BY <1>2, <1>5, <3>1, <3>3
  <2> QED
    BY <1>1, <2>1, <2>2 DEF PastRounds
<1>7. Elsewhere'
  <2>1. Elsewhere /\ \A d \in Calls : Active(d)' => Active(d)
    BY <1>1, <1>5 DEF ConvInv, Active
  <2>2. \A d \in Calls : flight[d] = "none" => flight'[d] = "none"
    BY <1>1, <1>5
  <2>3. \A i \in 1 .. MaxCalls : <<turn, i>> \in Calls
    BY <1>2, RoundFacts DEF Calls, Turns
  <2> QED
    BY <1>1, <1>2, <1>4, <2>1, <2>2, <2>3 DEF Elsewhere
<1>8. ThisRound'
  <2>1. ThisRound
    BY DEF ConvInv
  <2>2. ASSUME NEW i \in 1 .. InRound PROVE CallState(i)'
    <3>1. CallState(i)
      BY <1>2, <2>1 DEF ThisRound
    <3>2. CASE <<turn, i>> = c
      <4>1. /\ flight'[<<turn, i>>] = "reporting" /\ reported'[<<turn, i>>] = r /\ r # "none"
            /\ recorded[<<turn, i>>] = "none" /\ flight[<<turn, i>>] = "running"
        BY <1>1, <3>1, <3>2 DEF CallState, TypeOK, Results
      <4> QED
        BY <1>1, <3>1, <4>1 DEF CallState
    <3>3. CASE <<turn, i>> # c
      <4>1. flight'[<<turn, i>>] = flight[<<turn, i>>] /\ reported'[<<turn, i>>] = reported[<<turn, i>>]
        BY <1>3, <1>5, <3>3
      <4> QED
        BY <1>1, <3>1, <4>1 DEF CallState
    <3> QED
      BY <3>2, <3>3
  <2>3. \A i \in 1 .. InRound : flight'[<<turn, i>>] = "last" => flight[<<turn, i>>] = "last"
    BY <1>1, <1>3, <1>5 DEF TypeOK
  <2> QED
    BY <1>1, <1>2, <1>4, <2>1, <2>2, <2>3 DEF ThisRound
<1> QED
  BY <1>4, <1>6, <1>7, <1>8 DEF ConvInv

\* What recording call j does to the counter: it stays the number of pending
\* calls.
LEMMA RecordStep ==
  ASSUME TypeOK, ConvInv, ~Between, NEW j \in Pending, Record(<<turn, j>>),
         reported[<<turn, j>>] # "none", UNCHANGED <<turn, messages>>
  PROVE  /\ InRound' = InRound /\ ~Between' /\ j \in 1 .. InRound /\ <<turn, j>> \in Calls
         /\ Pending' = Pending \ {j}
         /\ remaining' = Cardinality(Pending')
         /\ remaining' = 0 <=> IsLast
         /\ recorded'[<<turn, j>>] = reported[<<turn, j>>]
         /\ \A d \in Calls : d # <<turn, j>> => recorded'[d] = recorded[d]
         /\ recorded[<<turn, j>>] = "none"
<1>1. j \in 1 .. InRound /\ <<turn, j>> \in Calls /\ recorded[<<turn, j>>] = "none"
      /\ CallState(j) /\ \A i \in 1 .. InRound : <<turn, i>> \in Calls
  BY RoundFacts DEF Pending, ConvInv, ThisRound
<1>2. InRound' = InRound /\ ~Between'
  BY DEF InRound, Between
<1>3. /\ recorded' = [recorded EXCEPT ![<<turn, j>>] = reported[<<turn, j>>]]
      /\ remaining' = remaining - 1
  BY DEF Record
<1>4. /\ recorded'[<<turn, j>>] = reported[<<turn, j>>]
      /\ \A d \in Calls : d # <<turn, j>> => recorded'[d] = recorded[d]
  BY <1>1, <1>3 DEF TypeOK
<1>5. Pending' = Pending \ {j}
  BY <1>1, <1>2, <1>4 DEF Pending
<1>6. /\ remaining \in 1 .. MaxCalls /\ remaining - 1 = Cardinality(Pending \ {j})
      /\ IsLast <=> remaining = 1
  BY OneLess DEF IsLast
<1>7. remaining' = 0 <=> IsLast
  BY <1>3, <1>6
<1> QED
  BY <1>1, <1>2, <1>3, <1>4, <1>5, <1>6, <1>7

LEMMA SubmitInlineStep == TypeOK /\ ConvInv /\ SubmitInline => ConvInv'
<1> SUFFICES ASSUME TypeOK, ConvInv, SubmitInline PROVE ConvInv'
  OBVIOUS
<1> USE DEF driverVars, joinerVars, storeVars, busVars
<1>1. /\ pc = "submit" /\ Record(<<turn, next>>)
      /\ \/ IsLast /\ pc' = "advance" /\ next' = next
         \/ ~IsLast /\ GoOn
      /\ UNCHANGED <<turn, starts, flight, reported, messages, stored, ends>>
  BY DEF SubmitInline, Current
<1>2. ~Between /\ next \in Pending /\ next \in 1 .. InRound
      /\ \A i \in 1 .. InRound : <<turn, i>> \in Calls
  BY <1>1, Launching, RoundFacts, SubmitsPending
<1>3. reported[<<turn, next>>] # "none" /\ flight[<<turn, next>>] = "none"
  <2>1. CallState(next) /\ next >= next
    BY <1>2, RoundFacts DEF ConvInv, ThisRound
  <2> QED
    BY <1>1, <2>1 DEF CallState
<1>4. /\ InRound' = InRound /\ ~Between'
      /\ remaining' = Cardinality(Pending') /\ (remaining' = 0 <=> IsLast)
      /\ recorded'[<<turn, next>>] = reported[<<turn, next>>]
      /\ \A d \in Calls : d # <<turn, next>> => recorded'[d] = recorded[d]
  BY <1>1, <1>2, <1>3, RecordStep
<1>5. next' \in 1 .. InRound /\ pc' \in {"announce", "idle", "advance"}
  BY <1>1, <1>2, GoOnType
<1>6. Phases'
  BY <1>1, <1>2, <1>4, <1>5, RoundFacts DEF ConvInv, Phases, Between
<1>7. StartedOnce' /\ PastRounds'
  BY <1>1 DEF ConvInv, StartedOnce, PastRounds
<1>8. Elsewhere'
  <2>1. Elsewhere /\ Len(messages) = turn /\ turn \in 1 .. MaxTurns /\ InRound \in 1 .. MaxCalls
    BY <1>2, RoundFacts DEF ConvInv
  <2>2. \A c \in Calls : c[1] > Len(messages) => recorded'[c] = "none"
    BY <1>4, <2>1 DEF Elsewhere
  <2> QED
    BY <1>1, <1>2, <1>4, <2>1, <2>2 DEF Elsewhere, Active
<1>9. ThisRound'
  <2>1. ThisRound
    BY DEF ConvInv
  <2>2. ASSUME NEW i \in 1 .. InRound
        PROVE  CallState(i)' /\ flight'[<<turn, i>>] # "last"
    <3>1. CallState(i)
      BY <1>2, <2>1 DEF ThisRound
    <3>2. pc' \in {"announce", "launch", "submit", "raised"} /\ i >= next' => i >= next /\ i # next
      BY <1>1, GoOnStep
    <3>3. CASE i = next
      BY <1>1, <1>3, <1>4, <1>5, <3>2, <3>3 DEF CallState
    <3>4. CASE i # next
      <4>1. recorded'[<<turn, i>>] = recorded[<<turn, i>>]
        BY <1>2, <1>4, <3>4
      <4>2. flight[<<turn, i>>] # "last"
        BY <1>1, <3>1 DEF CallState
      <4> QED
        BY <1>1, <1>5, <3>1, <3>2, <3>4, <4>1, <4>2 DEF CallState
    <3> QED
      BY <3>3, <3>4
  <2>3. pc' = "advance" => remaining' = 0
    BY <1>1, <1>4, <1>5, GoOnType
  <2> QED
    BY <1>1, <1>2, <1>4, <2>2, <2>3 DEF ThisRound
<1> QED
  BY <1>6, <1>7, <1>8, <1>9 DEF ConvInv

LEMMA SubmitStep ==
  ASSUME TypeOK, ConvInv, NEW c \in Calls, Submit(c)
  PROVE  ConvInv'
<1> USE DEF driverVars, joinerVars, storeVars, busVars
<1> DEFINE j == c[2]
<1>1. /\ flight[c] = "reporting" /\ Record(c)
      /\ flight' = [flight EXCEPT ![c] = IF IsLast THEN "last" ELSE "over"]
      /\ UNCHANGED <<turn, pc, next, starts, reported, messages, stored, ends>>
  BY DEF Submit
<1>2. ~Between /\ j \in Pending /\ c = <<turn, j>> /\ j \in 1 .. InRound
      /\ \A i \in 1 .. InRound : <<turn, i>> \in Calls
  BY <1>1, SubmitsPending, Launching, RoundFacts DEF Active, Pending
<1> HIDE DEF j
<1>3. reported[<<turn, j>>] # "none"
  BY <1>1, <1>2 DEF ConvInv, ThisRound, CallState
<1>4. /\ InRound' = InRound /\ ~Between'
      /\ remaining' = Cardinality(Pending') /\ (remaining' = 0 <=> IsLast)
      /\ recorded'[<<turn, j>>] = reported[<<turn, j>>]
      /\ \A d \in Calls : d # <<turn, j>> => recorded'[d] = recorded[d]
  BY <1>1, <1>2, <1>3, RecordStep
<1>5. /\ flight'[c] = IF IsLast THEN "last" ELSE "over"
      /\ \A d \in Calls : d # <<turn, j>> => flight'[d] = flight[d]
  BY <1>1, <1>2 DEF TypeOK
<1>6. remaining \in 1 .. MaxCalls /\ (IsLast => Pending = {j})
  BY <1>2, OneLess DEF IsLast
<1>7. pc # "advance" /\ \A i \in 1 .. InRound : flight[<<turn, i>>] # "last"
  BY <1>2, <1>6 DEF ConvInv, ThisRound, CallState
\* A loop that has not ended has a pending call of its own.
<1>8. IsLast => pc = "idle"
  <2> SUFFICES ASSUME IsLast, pc # "idle" PROVE FALSE
    OBVIOUS
  <2>1. pc \in {"announce", "launch", "submit", "raised"}
    BY <1>2, <1>7 DEF ConvInv, Phases, TypeOK
  <2>2. CallState(next) /\ next >= next /\ next \in 1 .. InRound
    BY <1>2, RoundFacts DEF ConvInv, ThisRound
  <2>3. next \in Pending /\ flight[<<turn, next>>] = "none"
    BY <2>1, <2>2 DEF CallState, Pending
  <2> QED
    BY <1>1, <1>2, <1>6, <2>3
<1>9. Phases' /\ StartedOnce' /\ PastRounds'
  BY <1>1, <1>2, <1>4 DEF ConvInv, Phases, StartedOnce, PastRounds, Between
<1>10. Elsewhere'
  <2>1. Elsewhere /\ Len(messages) = turn /\ turn \in 1 .. MaxTurns /\ InRound \in 1 .. MaxCalls
    BY <1>2, RoundFacts DEF ConvInv
  <2>2. \A d \in Calls : d[1] > Len(messages) => recorded'[d] = "none" /\ flight'[d] = "none"
    BY <1>2, <1>4, <1>5, <2>1 DEF Elsewhere
  <2>3. \A d \in Calls : Active(d)' => d[1] = turn
    BY <1>2, <1>5, <2>1 DEF Elsewhere, Active
  <2>4. \A i \in 1 .. MaxCalls : i > InRound => flight'[<<turn, i>>] = "none"
    <3> SUFFICES ASSUME NEW i \in 1 .. MaxCalls, i > InRound PROVE flight'[<<turn, i>>] = "none"
      OBVIOUS
    <3>1. <<turn, i>> \in Calls /\ <<turn, i>> # <<turn, j>>
      BY <1>2, <2>1 DEF Calls, Turns
    <3> QED
      BY <1>2, <1>5, <2>1, <3>1 DEF Elsewhere
  <2> QED
    BY <1>1, <1>4, <2>2, <2>3, <2>4 DEF Elsewhere
<1>11. ThisRound'
  <2>1. ThisRound
    BY DEF ConvInv
  <2>2. ASSUME NEW i \in 1 .. InRound
        PROVE  CallState(i)' /\ (flight'[<<turn, i>>] = "last" => i = j)
    <3>1. CallState(i)
      BY <1>2, <2>1 DEF ThisRound
    <3>2. CASE i = j
      <4>1. flight'[<<turn, i>>] \in {"last", "over"} /\ flight[<<turn, i>>] = "reporting"
            /\ (flight'[<<turn, i>>] = "last" => IsLast)
        BY <1>1, <1>2, <1>5, <3>2
      <4>2. recorded'[<<turn, i>>] = reported'[<<turn, i>>] /\ reported'[<<turn, i>>] # "none"
        BY <1>1, <1>3, <1>4, <3>2
      <4> QED
        BY <1>1, <1>4, <1>8, <3>1, <3>2, <4>1, <4>2 DEF CallState
    <3>3. CASE i # j
      <4>1. /\ recorded'[<<turn, i>>] = recorded[<<turn, i>>]
            /\ flight'[<<turn, i>>] = flight[<<turn, i>>]
        BY <1>2, <1>4, <1>5, <3>3
      <4> QED
        BY <1>1, <1>7, <3>1, <4>1 DEF CallState
    <3> QED
      BY <3>2, <3>3
  <2> QED
    BY <1>1, <1>2, <1>4, <1>7, <2>2, ZenonT(60) DEF ThisRound
<1> QED
  BY <1>9, <1>10, <1>11 DEF ConvInv

LEMMA AdvanceStep ==
  ASSUME TypeOK, ConvInv, AdvanceInline \/ \E c \in Calls : Advance(c)
  PROVE  ConvInv'
<1> USE DEF driverVars, joinerVars, storeVars, busVars
<1>1. /\ NextTurn /\ (pc = "advance" \/ \E c \in Calls : flight[c] = "last")
      /\ \/ pc = "advance" /\ flight' = flight
         \/ \E c \in Calls : flight[c] = "last" /\ flight' = [flight EXCEPT ![c] = "over"]
  BY DEF AdvanceInline, Advance
<1>2. ~Between /\ Len(messages) = turn /\ turn \in 1 .. MaxTurns /\ turn \in DOMAIN messages
      /\ InRound \in 1 .. MaxCalls /\ pc # "over"
      /\ \A i \in 1 .. InRound : <<turn, i>> \in Calls
  BY <1>1, Advancing, RoundFacts
<1> DEFINE round == [messages[turn] EXCEPT !.results = Ordered]
<1>3. /\ turn' = turn + 1 /\ pc' = "chat"
      /\ messages' = [messages EXCEPT ![turn] = round]
      /\ starts' = [starts EXCEPT ![turn + 1] = starts[turn + 1] + 1]
      /\ UNCHANGED <<next, reported, recorded, remaining, stored, ends>>
  BY <1>1 DEF NextTurn
<1>4. /\ Len(messages') = turn /\ messages'[turn] = round
      /\ \A t \in 1 .. turn - 1 : messages'[t] = messages[t]
  <2> DEFINE Rounds == [calls : 1 .. MaxCalls, results : Seq(Results)]
  <2>1. messages \in Seq(Rounds)
    BY DEF TypeOK
  <2> HIDE DEF Rounds, round
  <2> QED
    BY <1>2, <1>3, <2>1
<1>5. Between'
  BY <1>2, <1>3, <1>4 DEF Between
<1>6. Phases'
  <2>1. ends = <<>> /\ Len(ends) <= 1
    BY <1>2 DEF ConvInv, Phases
  <2> QED
    BY <1>2, <1>3, <1>4, <1>5, <2>1 DEF Phases
<1>7. StartedOnce'
  <2>1. starts = [t \in 1 .. MaxTurns + 1 |-> IF t <= turn THEN 1 ELSE 0]
    BY DEF ConvInv, StartedOnce
  <2>2. turn + 1 \in 1 .. MaxTurns + 1 /\ starts[turn + 1] = 0
    BY <1>2, <2>1
  <2>3. ASSUME NEW t \in 1 .. MaxTurns + 1
        PROVE  starts'[t] = IF t <= turn + 1 THEN 1 ELSE 0
    BY <1>2, <1>3, <2>1, <2>2
  <2>4. starts' = [t \in 1 .. MaxTurns + 1 |-> IF t <= turn + 1 THEN 1 ELSE 0]
    BY <1>3, <2>1, <2>3
  <2> QED
    BY <1>3, <2>4 DEF StartedOnce
<1>8. PastRounds'
  <2>1. round.results = Ordered /\ round.calls = InRound
    <3> DEFINE Rounds == [calls : 1 .. MaxCalls, results : Seq(Results)]
    <3>1. messages \in Seq(Rounds)
      BY DEF TypeOK
    <3> HIDE DEF Rounds
    <3>2. messages[turn] \in Rounds
      BY <1>2, <3>1
    <3> USE DEF Rounds
    <3> QED
      BY <3>2 DEF InRound
  <2> HIDE DEF round
  <2>2. /\ Len(messages'[turn].results) = messages'[turn].calls
        /\ \A i \in 1 .. messages'[turn].calls :
              messages'[turn].results[i] = reported[<<turn, i>>] /\ reported[<<turn, i>>] # "none"
    BY <1>1, <1>4, <2>1, OrderedType
  <2>3. ASSUME NEW t \in 1 .. turn - 1
        PROVE  /\ Len(messages'[t].results) = messages'[t].calls
               /\ \A i \in 1 .. messages'[t].calls :
                     messages'[t].results[i] = reported[<<t, i>>] /\ reported[<<t, i>>] # "none"
    BY <1>4 DEF ConvInv, PastRounds
  <2>4. turn' - 1 = turn /\ \A t \in 1 .. turn : t = turn \/ t \in 1 .. turn - 1
    BY <1>2, <1>3
  <2> QED
    BY <1>3, <2>2, <2>3, <2>4 DEF PastRounds
<1>9. Elsewhere'
  <2>1. Elsewhere
    BY DEF ConvInv
  <2>2. \A c \in Calls : ~Active(c)'
    <3>1. ASSUME NEW c \in Calls, Active(c) PROVE flight[c] = "last" /\ c[2] \in 1 .. InRound /\ c = <<turn, c[2]>>
      <4>1. c[1] = turn /\ c = <<turn, c[2]>> /\ c[2] \in 1 .. MaxCalls
        BY <2>1, <3>1 DEF Elsewhere, Calls
      <4>2. c[2] \in 1 .. InRound
        <5> SUFFICES ASSUME c[2] > InRound PROVE FALSE
          BY <1>2, <4>1
        <5> QED
          BY <1>2, <2>1, <3>1, <4>1 DEF Elsewhere, Active
      <4> QED
        BY <1>1, <3>1, <4>1, <4>2, Advancing DEF Active
    <3>2. CASE pc = "advance" /\ flight' = flight
      <4>1. \A c \in Calls : flight[c] # "last"
        BY <3>2, Advancing
      <4> QED
        BY <3>1, <3>2, <4>1 DEF Active
    <3>3. ASSUME NEW d \in Calls, flight[d] = "last", flight' = [flight EXCEPT ![d] = "over"]
          PROVE  \A c \in Calls : ~Active(c)'
      <4>1. ASSUME NEW c \in Calls, Active(c) PROVE c = d
        <5>1. /\ c[2] \in 1 .. InRound /\ c = <<turn, c[2]>> /\ flight[c] = "last"
              /\ d[2] \in 1 .. InRound /\ d = <<turn, d[2]>>
          BY <3>1, <3>3, <4>1 DEF Active
        <5>2. c[2] = d[2]
          BY <1>2, <3>3, <5>1 DEF ConvInv, ThisRound
        <5> QED
          BY <5>1, <5>2
      <4> QED
        BY <3>3, <4>1 DEF Active, TypeOK
    <3> QED
      BY <1>1, <3>2, <3>3
  <2>3. \A c \in Calls : flight[c] = "none" => flight'[c] = "none"
    BY <1>1 DEF TypeOK
  <2>4. \A c \in Calls : c[1] > Len(messages') => flight'[c] = "none" /\ recorded'[c] = "none"
    BY <1>2, <1>3, <1>4, <2>1, <2>3 DEF Elsewhere
  <2> QED
    BY <1>5, <2>2, <2>4 DEF Elsewhere
<1>10. ThisRound'
  BY <1>5 DEF ThisRound
<1> QED
  BY <1>6, <1>7, <1>8, <1>9, <1>10 DEF ConvInv

LEMMA InvStep == TypeOK /\ ConvInv /\ [Next]_vars => ConvInv'
<1> SUFFICES ASSUME TypeOK, ConvInv, [Next]_vars PROVE ConvInv'
  OBVIOUS
<1> USE DEF driverVars, joinerVars, storeVars, busVars
<1>1. CASE UNCHANGED vars \/ SinkExpires
  BY <1>1, FrameStep DEF vars, SinkExpires
<1>2. CASE GiveUp \/ Conclude
  BY <1>2, FinishStep
<1>3. ASSUME NEW n \in 1 .. MaxCalls, Ask(n) PROVE ConvInv'
  BY <1>3, AskStep
<1>4. CASE ChatRaises \/ Announce \/ LaunchRaises
  <2>1. <<pc, pc'>> \in {<<"chat", "raised">>, <<"announce", "launch">>, <<"launch", "raised">>}
    BY <1>4 DEF ChatRaises, Announce, LaunchRaises
  <2>2. UNCHANGED <<turn, next, starts, flight, reported, recorded, remaining, messages, stored, ends>>
    BY <1>4 DEF ChatRaises, Announce, LaunchRaises
  <2> QED
    BY <2>1, <2>2, MoveStep
<1>5. CASE FailInline
  BY <1>5, FailInlineStep
<1>6. CASE Launch
  BY <1>6, LaunchStep
<1>7. CASE SubmitInline
  BY <1>7, SubmitInlineStep
<1>8. ASSUME NEW c \in Calls, Submit(c) PROVE ConvInv'
  BY <1>8, SubmitStep
<1>9. ASSUME NEW c \in Calls, NEW r \in Results, Report(c, r) PROVE ConvInv'
  BY <1>9, ReportStep
<1>10. ASSUME NEW c \in Calls, Retry(c) \/ SkillRaises(c) PROVE ConvInv'
  <2>1. /\ flight[c] = "running"
        /\ \/ flight' = [flight EXCEPT ![c] = "running"]
           \/ flight' = [flight EXCEPT ![c] = "lost"]
        /\ UNCHANGED <<turn, pc, next, starts, reported, recorded, remaining, messages, stored, ends>>
    BY <1>10 DEF Retry, SkillRaises, Dispatch
  <2>2. \A d \in Calls : \/ flight'[d] = flight[d]
                         \/ flight[d] = "running" /\ flight'[d] \in {"running", "lost"}
    BY <2>1 DEF TypeOK
  <2> QED
    BY <2>1, <2>2, FrameStep
<1>11. ASSUME NEW c \in Calls, CheckIn(c) PROVE ConvInv'
  BY <1>11, FrameStep DEF CheckIn
<1>12. ASSUME NEW rid, CheckInReply(rid) PROVE ConvInv'
  BY <1>12, FrameStep DEF CheckInReply
<1>13. CASE AdvanceInline \/ \E c \in Calls : Advance(c)
  BY <1>13, AdvanceStep
<1> QED
  BY <1>1, <1>2, <1>3, <1>4, <1>5, <1>6, <1>7, <1>8, <1>9, <1>10, <1>11, <1>12, <1>13
  DEF Next, Drive, Settle

-----------------------------------------------------------------------------
(* The theorems                                                              *)

LEMMA InvHolds == Spec => [](TypeOK /\ ConvInv)
<1>1. TypeOK /\ ConvInv /\ [Next]_vars => (TypeOK /\ ConvInv)'
  BY TypeStep, InvStep
<1> QED
  BY <1>1, InvInit, PTL DEF Spec

\* The variables of a conversation keep their types: whatever the results and
\* the failures, the counter of the _Joiner stays between 0 and the calls of an
\* answer, and the turn within max_turns and the one that gives up.
THEOREM TypeCorrect == Spec => []TypeOK
BY InvHolds, PTL

LEMMA OneDrives ==
  ASSUME TypeOK, ConvInv
  PROVE  AdvancesOnce
<1>1. \A t \in DOMAIN starts : starts[t] <= 1
  BY DEF ConvInv, StartedOnce
<1>2. \A c \in Calls : Active(c) => c[1] = turn
  BY DEF ConvInv, Elsewhere
<1> DEFINE Lasts == {c \in Calls : flight[c] = "last"}
<1>3. CASE Lasts = {}
  BY <1>1, <1>2, <1>3, FS_EmptySet DEF AdvancesOnce
<1>4. ASSUME NEW c \in Calls, flight[c] = "last" PROVE AdvancesOnce
  <2>1. pc = "idle" /\ ~Between
    BY <1>4, Advancing
  <2>2. ASSUME NEW d \in Calls, flight[d] = "last"
        PROVE  d = <<turn, d[2]>> /\ d[2] \in 1 .. InRound
    <3>1. d[1] = turn /\ d = <<turn, d[2]>> /\ d[2] \in 1 .. MaxCalls
      BY <2>2 DEF ConvInv, Elsewhere, Active, Calls
    <3> QED
      BY <2>1, <2>2, <3>1, RoundFacts DEF ConvInv, Elsewhere
  <2>3. \A d \in Calls : flight[d] = "last" => d = c
    <3> SUFFICES ASSUME NEW d \in Calls, flight[d] = "last" PROVE d = c
      OBVIOUS
    <3>1. /\ c = <<turn, c[2]>> /\ c[2] \in 1 .. InRound
          /\ d = <<turn, d[2]>> /\ d[2] \in 1 .. InRound
      BY <1>4, <2>2
    <3>2. c[2] = d[2]
      BY <1>4, <2>1, <3>1 DEF ConvInv, ThisRound
    <3> QED
      BY <3>1, <3>2
  <2>4. Lasts = {c}
    BY <1>4, <2>3
  <2>5. Cardinality(Lasts) = 1
    BY <2>4, FS_Singleton
  <2> QED
    BY <1>1, <1>2, <2>1, <2>5 DEF AdvancesOnce
<1> QED
  BY <1>3, <1>4

\* on_all_results is reached once per round: no turn is started twice, no call
\* of an earlier round is still under way, and at most one thread drives.
THEOREM GoesOnOnce == Spec => []AdvancesOnce
<1>1. TypeOK /\ ConvInv => AdvancesOnce
  BY OneDrives
<1> QED
  BY <1>1, InvHolds, PTL

LEMMA RoundsHoldResults ==
  ASSUME TypeOK, ConvInv
  PROVE  OwnResults
<1> SUFFICES ASSUME NEW t \in DOMAIN messages
             PROVE  \/ t = turn /\ messages[t].results = <<>>
                    \/ /\ Len(messages[t].results) = messages[t].calls
                       /\ \A i \in 1 .. messages[t].calls :
                             /\ messages[t].results[i] = reported[<<t, i>>]
                             /\ reported[<<t, i>>] # "none"
  BY DEF OwnResults
<1>1. Len(messages) \in {turn - 1, turn} /\ turn \in Nat /\ t \in 1 .. Len(messages)
  <2> DEFINE Rounds == [calls : 1 .. MaxCalls, results : Seq(Results)]
  <2>1. messages \in Seq(Rounds)
    BY DEF TypeOK
  <2> HIDE DEF Rounds
  <2> QED
    BY <2>1, SMTT(30) DEF TypeOK, ConvInv, Phases
<1>2. CASE t \in 1 .. turn - 1
  BY <1>2 DEF ConvInv, PastRounds
<1>3. CASE t = turn /\ ~Between
  BY <1>3 DEF ConvInv, Phases
<1> QED
  BY <1>1, <1>2, <1>3 DEF Between

\* The transcript the model reads holds, for each call it asked for, the result
\* of that very call, whichever thread recorded it and in whatever order.
THEOREM ResultsAreOwn == Spec => []OwnResults
<1>1. TypeOK /\ ConvInv => OwnResults
  BY RoundsHoldResults
<1> QED
  BY <1>1, InvHolds, PTL

\* A conversation is ended once, by an on_done or by an exception on the
\* caller's thread, and an on_done leaves nothing running or stored.
THEOREM OneEnd == Spec => []EndsOnce
<1>1. TypeOK /\ ConvInv => EndsOnce
  <2> SUFFICES ASSUME TypeOK, ConvInv PROVE EndsOnce
    OBVIOUS
  <2>1. Len(ends) <= 1 /\ (pc = "raised" => ends = <<>>) /\ Len(ends) \in Nat
    BY DEF ConvInv, Phases, TypeOK
  <2>2. ends # <<>> => ~stored /\ \A c \in Calls : ~Active(c)
    BY DEF ConvInv, Phases, Elsewhere
  <2>3. ends = <<>> => Len(ends) = 0
    OBVIOUS
  <2> QED
    BY <2>1, <2>2, <2>3 DEF EndsOnce
<1> QED
  BY <1>1, InvHolds, PTL

-----------------------------------------------------------------------------
(* The refinement                                                            *)

LEMMA AllAnswered ==
  ASSUME TypeOK, ConvInv, Between, ends = <<>>
  PROVE  Loop!Ready
<1>1. DOMAIN messages = 1 .. turn - 1
  <2> DEFINE Rounds == [calls : 1 .. MaxCalls, results : Seq(Results)]
  <2>1. messages \in Seq(Rounds)
    BY DEF TypeOK
  <2> HIDE DEF Rounds
  <2> QED
    BY <2>1 DEF Between
<1> QED
  BY <1>1 DEF ConvInv, PastRounds, Loop!Ready, Loop!Answered

LEMMA StepRefines ==
  TypeOK /\ ConvInv /\ [Next]_vars =>
      [Loop!Next]_<<messages, IF ends = <<>> THEN "open" ELSE ends[1]>>
<1> SUFFICES ASSUME TypeOK, ConvInv, [Next]_vars
             PROVE  Loop!Next \/ UNCHANGED <<messages, ends>>
  OBVIOUS
<1> USE DEF driverVars, joinerVars, storeVars, busVars
<1>1. ASSUME NEW n \in 1 .. MaxCalls, Ask(n) PROVE Loop!Ask
  <2>1. Between /\ ends = <<>> /\ turn <= MaxTurns
    BY <1>1 DEF Ask, ConvInv, Phases
  <2>2. Len(messages) < MaxTurns
    BY <2>1 DEF Between, TypeOK
  <2>3. messages' = Append(messages, Loop!Round(n, <<>>)) /\ ends' = ends
    BY <1>1 DEF Ask, Loop!Round
  <2> QED
    BY <2>1, <2>2, <2>3, AllAnswered DEF Loop!Ask
<1>2. CASE GiveUp \/ Conclude
  <2>1. Between /\ ends = <<>> /\ UNCHANGED messages /\ Len(messages) = turn - 1
    BY <1>2 DEF GiveUp, Conclude, Finish, ConvInv, Phases, Between
  <2>2. ends' = <<IF Len(messages) < MaxTurns THEN "answer" ELSE "limit">>
    BY <1>2, <2>1 DEF GiveUp, Conclude, Finish, TypeOK
  <2>3. Loop!Conclude
    BY <2>1, <2>2, AllAnswered DEF Loop!Conclude
  <2> QED
    BY <2>3 DEF Loop!Next
<1>3. CASE AdvanceInline \/ \E c \in Calls : Advance(c)
  <2>1. NextTurn /\ (pc = "advance" \/ \E c \in Calls : flight[c] = "last")
    BY <1>3 DEF AdvanceInline, Advance
  <2>2. ~Between /\ ends = <<>> /\ messages[turn].results = <<>> /\ Len(messages) = turn /\ turn \in 1 .. MaxTurns
    BY <2>1, Advancing, RoundFacts DEF ConvInv, Phases
  <2>3. Ordered \in [1 .. messages[turn].calls -> Results]
    <3>1. \A i \in 1 .. InRound : recorded[<<turn, i>>] \in Results
      BY <2>1, Advancing
    <3> QED
      BY <3>1 DEF Ordered, Current, InRound
  <2>4. messages' = [messages EXCEPT ![turn].results = Ordered] /\ ends' = ends
    BY <2>1 DEF NextTurn
  <2>5. messages # <<>>
    BY <2>2
  <2>6. Loop!Answer
    BY <2>2, <2>3, <2>4, <2>5 DEF Loop!Answer
  <2> QED
    BY <2>6 DEF Loop!Next
<1>4. CASE \/ ChatRaises \/ Announce \/ FailInline \/ Launch \/ LaunchRaises
           \/ SubmitInline \/ SinkExpires \/ UNCHANGED vars
  BY <1>4 DEF ChatRaises, Announce, FailInline, Launch, Dispatch, LaunchRaises, SubmitInline, SinkExpires, vars
<1>5. ASSUME NEW c \in Calls, \/ \E r \in Results : Report(c, r)
                              \/ Submit(c) \/ Retry(c) \/ SkillRaises(c) \/ CheckIn(c)
      PROVE  UNCHANGED <<messages, ends>>
  BY <1>5 DEF Report, Submit, Retry, Dispatch, SkillRaises, CheckIn
<1>6. ASSUME NEW rid, CheckInReply(rid) PROVE UNCHANGED <<messages, ends>>
  BY <1>6 DEF CheckInReply
<1> QED
  BY <1>1, <1>2, <1>3, <1>4, <1>5, <1>6 DEF Next, Drive, Settle, Loop!Next

\* A conversation, with all its threads, is the sequential loop of ToolLoop.
THEOREM ImplementsToolLoop == Spec => ImplementsLoop
<1>1. Init => Loop!Init
  BY DEF Init, Loop!Init
<1> QED
  BY <1>1, InvHolds, StepRefines, PTL DEF Spec, ImplementsLoop, Loop!Spec

-----------------------------------------------------------------------------
(* What the Composer rebuilds is what happened                               *)

\* A call has no result before its run_skill reports one, and is on its first
\* attempt until it retries.
Reports ==
    /\ \A c \in Calls : flight[c] = "none" => attempt[c] = 0
    /\ \A c \in Calls : flight[c] = "running" => reported[c] = "none"
    /\ \A c \in Calls : c[1] > Len(messages) => reported[c] = "none"
    /\ \A c \in Calls : recorded[c] # "none" => recorded[c] = reported[c]
    /\ ~Between => \A i \in 1 .. InRound :
          \/ pc \in {"announce", "launch"} /\ i >= next
          \/ pc = "submit" /\ i > next
          => reported[<<turn, i>>] = "none"

\* Every event in the sink is about a step that was taken.
TrueEvent(e) ==
    /\ e.event = "tool_call" => e.call \in Calls
    /\ e.event = "dispatch" =>
          /\ e.call \in Calls
          /\ \E a \in 1 .. MaxAttempts : e.request = Request(e.call, a) /\ (a = 1 \/ a <= attempt[e.call])
    /\ e.event = "tool_result" => e.call \in Calls /\ e.result # "none" /\ e.result = reported[e.call]
    /\ e.event = "final" => ends = <<"answer">>

ViewInv ==
    /\ Reports
    /\ \A e \in sink : TrueEvent(e)
    /\ lost = 0 /\ ends = <<"answer">> => \E e \in sink : e.event = "final"

LEMMA ViewInit == Init => ViewInv
<1> SUFFICES ASSUME Init PROVE ViewInv
  OBVIOUS
<1>1. Between /\ messages = <<>> /\ ends = <<>>
  BY DEF Init, Between
<1>2. Reports
  BY <1>1 DEF Init, Reports
<1>3. \A e \in sink : e.event = "question"
  BY DEF Init, Event
<1>4. \A e \in sink : TrueEvent(e)
  BY <1>3 DEF TrueEvent
<1>5. ends # <<"answer">>
  BY <1>1
<1> QED
  BY <1>2, <1>4, <1>5 DEF ViewInv

\* A step that reports and records nothing, and leaves the loop where it is, or
\* moves it from the announcement of a call to its launch, or out of the loop.
LEMMA ReportsFrame ==
  ASSUME Reports, UNCHANGED <<turn, messages, reported, recorded>>,
         \/ UNCHANGED <<pc, next>>
         \/ pc' \notin {"announce", "launch", "submit"}
         \/ pc = "announce" /\ pc' = "launch" /\ UNCHANGED next,
         \A c \in Calls : \/ flight'[c] = flight[c] /\ attempt'[c] = attempt[c]
                          \/ flight'[c] \notin {"none", "running"}
                          \/ flight[c] = "running" /\ flight'[c] = "running"
  PROVE  Reports'
<1>1. Between' = Between /\ InRound' = InRound
  BY DEF Between, InRound
<1>2. \A c \in Calls : /\ flight'[c] = "none" => attempt'[c] = 0
                       /\ flight'[c] = "running" => reported'[c] = "none"
                       /\ c[1] > Len(messages') => reported'[c] = "none"
                       /\ recorded'[c] # "none" => recorded'[c] = reported'[c]
  BY DEF Reports
<1>3. ASSUME ~Between, NEW i \in 1 .. InRound,
             \/ pc' \in {"announce", "launch"} /\ i >= next'
             \/ pc' = "submit" /\ i > next'
      PROVE  reported'[<<turn, i>>] = "none"
  BY <1>3 DEF Reports
<1> QED
  BY <1>1, <1>2, <1>3 DEF Reports

\* A call that runs is of this round, is unrecorded, and is behind the loop.
LEMMA RunningCall ==
  ASSUME TypeOK, ConvInv, NEW c \in Calls, flight[c] \in {"running", "reporting"}
  PROVE  /\ ~Between /\ c[1] = turn /\ c = <<turn, c[2]>> /\ c[2] \in 1 .. InRound
         /\ recorded[c] = "none"
         /\ pc \in {"announce", "launch", "submit"} => ~(c[2] >= next)
<1>1. ~Between /\ c[1] = turn
  BY DEF ConvInv, Elsewhere, Active
<1>2. c = <<turn, c[2]>> /\ c[2] \in 1 .. MaxCalls
  BY <1>1 DEF Calls
<1>3. InRound \in 1 .. MaxCalls
  BY <1>1, RoundFacts
<1>4. c[2] \in 1 .. InRound
  <2> SUFFICES ASSUME c[2] > InRound PROVE FALSE
    BY <1>2, <1>3
  <2> QED
    BY <1>1, <1>2 DEF ConvInv, Elsewhere
<1>5. CallState(c[2])
  BY <1>1, <1>4 DEF ConvInv, ThisRound
<1> QED
  BY <1>1, <1>2, <1>4, <1>5 DEF CallState

LEMMA LaunchReports == TypeOK /\ ConvInv /\ Reports /\ (Launch \/ FailInline) => Reports'
<1> SUFFICES ASSUME TypeOK, ConvInv, Reports, Launch \/ FailInline PROVE Reports'
  OBVIOUS
<1> USE DEF driverVars, joinerVars, storeVars, busVars
<1> DEFINE current == <<turn, next>>
<1>1. pc = "launch" /\ UNCHANGED <<turn, messages, recorded>>
  BY DEF Launch, FailInline
<1>2. /\ ~Between /\ next \in 1 .. InRound /\ Len(messages) = turn /\ turn \in Nat
      /\ InRound \in Nat /\ \A i \in 1 .. InRound : <<turn, i>> \in Calls
  BY <1>1, Launching, RoundFacts
<1>3. ~Between' /\ InRound' = InRound
  BY <1>1, <1>2 DEF Between, InRound
<1>4. current \in Calls /\ flight[current] = "none" /\ recorded[current] = "none"
  <2>1. CallState(next)
    BY <1>2 DEF ConvInv, ThisRound
  <2> QED
    BY <1>1, <1>2, <2>1 DEF CallState
<1>5. \A i \in 1 .. InRound : i >= next => reported[<<turn, i>>] = "none"
  BY <1>1, <1>2 DEF Reports
<1>6. reported[current] = "none"
  BY <1>2, <1>5
<1>7. CASE Launch
  <2>1. /\ flight' = [flight EXCEPT ![current] = "running"]
        /\ attempt' = [attempt EXCEPT ![current] = 1]
        /\ GoOn /\ UNCHANGED reported
    BY <1>7 DEF Launch, Dispatch, Current
  <2>2. \A c \in Calls : /\ flight'[c] = "none" => attempt'[c] = 0
                         /\ flight'[c] = "running" => reported'[c] = "none"
    <3> SUFFICES ASSUME NEW c \in Calls
                 PROVE  /\ flight'[c] = "none" => attempt'[c] = 0
                        /\ flight'[c] = "running" => reported'[c] = "none"
      OBVIOUS
    <3> HIDE DEF current
    <3>1. CASE c = current
      BY <1>4, <1>6, <2>1, <3>1 DEF TypeOK
    <3>2. CASE c # current
      BY <2>1, <3>2 DEF TypeOK, Reports
    <3> QED
      BY <3>1, <3>2
  <2>3. ASSUME NEW i \in 1 .. InRound, pc' \in {"announce", "launch", "submit"}, i >= next'
        PROVE  reported'[<<turn, i>>] = "none"
    <3>1. next' = next + 1
      BY <2>1, <2>3 DEF GoOn
    <3>2. i >= next
      BY <1>2, <2>3, <3>1
    <3> QED
      BY <1>5, <2>1, <3>2
  <2>4. pc' = "submit" => FALSE
    BY <2>1 DEF GoOn
  <2>5. \A c \in Calls : /\ c[1] > Len(messages') => reported'[c] = "none"
                         /\ recorded'[c] # "none" => recorded'[c] = reported'[c]
    BY <1>1, <2>1 DEF Reports
  <2> QED
    BY <1>1, <1>3, <2>2, <2>3, <2>4, <2>5 DEF Reports
<1>8. CASE FailInline
  <2>1. /\ reported' = [reported EXCEPT ![current] = "error"]
        /\ pc' = "submit" /\ UNCHANGED <<next, flight, attempt>>
    BY <1>8 DEF FailInline, Current
  <2>2. ASSUME NEW c \in Calls
        PROVE  /\ flight'[c] = "none" => attempt'[c] = 0
               /\ flight'[c] = "running" => reported'[c] = "none"
               /\ c[1] > Len(messages') => reported'[c] = "none"
               /\ recorded'[c] # "none" => recorded'[c] = reported'[c]
    <3>1. CASE c = current
      <4>1. c[1] = turn
        BY <3>1
      <4> HIDE DEF current
      <4> QED
        BY <1>1, <1>2, <1>4, <2>1, <3>1, <4>1 DEF Reports
    <3>2. CASE c # current
      <4> HIDE DEF current
      <4>1. reported'[c] = reported[c]
        BY <2>1, <3>2 DEF TypeOK
      <4> QED
        BY <1>1, <2>1, <4>1 DEF Reports
    <3> QED
      BY <3>1, <3>2
  <2>3. ASSUME NEW i \in 1 .. InRound, i > next
        PROVE  reported'[<<turn, i>>] = "none"
    <3>1. reported[<<turn, i>>] = "none" /\ <<turn, i>> # current
      BY <1>2, <1>5, <2>3
    <3> QED
      BY <1>2, <2>1, <3>1 DEF TypeOK
  <2> QED
    BY <1>1, <1>3, <2>1, <2>2, <2>3 DEF Reports
<1> QED
  BY <1>7, <1>8

LEMMA AskReports ==
  ASSUME TypeOK, ConvInv, Reports, NEW n \in 1 .. MaxCalls, Ask(n)
  PROVE  Reports'
<1> USE DEF driverVars, joinerVars, storeVars, busVars
<1> DEFINE Rounds == [calls : 1 .. MaxCalls, results : Seq(Results)]
           round == [calls |-> n, results |-> <<>>]
<1>1. /\ pc = "chat" /\ turn <= MaxTurns /\ pc' = "announce" /\ next' = 1
      /\ messages' = Append(messages, round)
      /\ UNCHANGED <<turn, flight, attempt, reported, recorded>>
  BY DEF Ask
<1>2. Between /\ Len(messages) = turn - 1 /\ turn \in 1 .. MaxTurns
  BY <1>1 DEF ConvInv, Phases, Between, TypeOK
<1>3. Len(messages') = turn /\ messages'[turn] = round
  <2>1. messages \in Seq(Rounds) /\ round \in Rounds
    BY DEF TypeOK
  <2> HIDE DEF Rounds, round
  <2> QED
    BY <1>1, <1>2, <2>1
<1>4. InRound' = n
  BY <1>1, <1>3 DEF InRound
<1>5. \A i \in 1 .. n : reported[<<turn, i>>] = "none"
  <2>1. \A i \in 1 .. MaxCalls : <<turn, i>> \in Calls /\ <<turn, i>>[1] > Len(messages)
    BY <1>2 DEF Calls, Turns
  <2> QED
    BY <2>1 DEF Reports
<1>6. \A c \in Calls : c[1] > Len(messages') => c[1] > Len(messages)
  BY <1>2, <1>3 DEF Calls, Turns
<1> QED
  BY <1>1, <1>4, <1>5, <1>6 DEF Reports

LEMMA ReportReports ==
  ASSUME TypeOK, ConvInv, Reports, NEW c \in Calls, NEW r \in Results, Report(c, r)
  PROVE  Reports'
<1> USE DEF driverVars, joinerVars, storeVars, busVars
<1>1. /\ flight[c] = "running"
      /\ flight' = [flight EXCEPT ![c] = "reporting"]
      /\ reported' = [reported EXCEPT ![c] = r]
      /\ UNCHANGED <<turn, pc, next, attempt, recorded, messages>>
  BY DEF Report
<1>2. /\ ~Between /\ c[1] = turn /\ c = <<turn, c[2]>> /\ c[2] \in 1 .. InRound
      /\ recorded[c] = "none"
      /\ pc \in {"announce", "launch", "submit"} => ~(c[2] >= next)
  BY <1>1, RunningCall
<1>3. /\ Len(messages) = turn /\ turn \in Nat /\ InRound \in Nat /\ next \in 1 .. InRound
      /\ \A i \in 1 .. InRound : <<turn, i>> \in Calls
  BY <1>2, RoundFacts
<1>4. ~Between' /\ InRound' = InRound
  BY <1>1, <1>2 DEF Between, InRound
<1>5. ASSUME NEW d \in Calls
      PROVE  /\ flight'[d] = "none" => attempt'[d] = 0
             /\ flight'[d] = "running" => reported'[d] = "none"
             /\ d[1] > Len(messages') => reported'[d] = "none"
             /\ recorded'[d] # "none" => recorded'[d] = reported'[d]
  <2>1. CASE d = c
    BY <1>1, <1>2, <1>3, <2>1 DEF TypeOK
  <2>2. CASE d # c
    <3>1. reported'[d] = reported[d] /\ flight'[d] = flight[d]
      BY <1>1, <2>2 DEF TypeOK
    <3> QED
      BY <1>1, <3>1 DEF Reports
  <2> QED
    BY <2>1, <2>2
<1>6. ASSUME NEW i \in 1 .. InRound,
             \/ pc \in {"announce", "launch"} /\ i >= next
             \/ pc = "submit" /\ i > next
      PROVE  reported'[<<turn, i>>] = "none"
  <2>1. <<turn, i>> # c /\ reported[<<turn, i>>] = "none"
    <3>1. i # c[2]
      BY <1>2, <1>3, <1>6
    <3>2. reported[<<turn, i>>] = "none"
      BY <1>2, <1>6 DEF Reports
    <3> QED
      BY <1>2, <3>1, <3>2
  <2> QED
    BY <1>1, <1>3, <2>1 DEF TypeOK
<1> QED
  BY <1>1, <1>4, <1>5, <1>6 DEF Reports

LEMMA SubmitReports ==
  ASSUME TypeOK, ConvInv, Reports, SubmitInline \/ \E c \in Calls : Submit(c)
  PROVE  Reports'
<1> USE DEF driverVars, joinerVars, storeVars, busVars
<1>1. /\ UNCHANGED <<turn, attempt, reported, messages>>
      /\ \/ UNCHANGED <<pc, next>>
         \/ pc' \notin {"announce", "launch", "submit"}
         \/ pc = "submit" /\ GoOn
  BY DEF SubmitInline, Submit
<1>2. Between' = Between /\ InRound' = InRound
  BY <1>1 DEF Between, InRound
<1>3. PICK d : recorded' = [recorded EXCEPT ![d] = reported[d]]
  BY DEF SubmitInline, Submit, Record
<1>4. ASSUME NEW c \in Calls PROVE recorded'[c] # "none" => recorded'[c] = reported'[c]
  <2>1. CASE c = d
    BY <1>1, <1>3, <2>1 DEF TypeOK
  <2>2. CASE c # d
    BY <1>1, <1>3, <2>2 DEF TypeOK, Reports
  <2> QED
    BY <2>1, <2>2
<1>5. ASSUME NEW c \in Calls
      PROVE  flight'[c] = flight[c] \/ flight'[c] \notin {"none", "running"}
  BY DEF SubmitInline, Submit, TypeOK
<1>6. ASSUME ~Between, NEW i \in 1 .. InRound,
             \/ pc' \in {"announce", "launch"} /\ i >= next'
             \/ pc' = "submit" /\ i > next'
      PROVE  reported[<<turn, i>>] = "none"
  <2>1. CASE UNCHANGED <<pc, next>>
    BY <1>6, <2>1 DEF Reports
  <2>2. CASE pc = "submit" /\ GoOn
    <3>1. next \in 1 .. InRound /\ InRound \in Nat
      BY <1>6, RoundFacts
    <3>2. i > next
      BY <1>6, <2>2, <3>1 DEF GoOn
    <3> QED
      BY <1>6, <2>2, <3>2 DEF Reports
  <2> QED
    BY <1>1, <1>6, <2>1, <2>2
<1> QED
  BY <1>1, <1>2, <1>4, <1>5, <1>6 DEF Reports

LEMMA AdvanceReports ==
  ASSUME TypeOK, ConvInv, Reports, AdvanceInline \/ \E c \in Calls : Advance(c)
  PROVE  Reports'
<1> USE DEF driverVars, joinerVars, storeVars, busVars
<1>1. NextTurn /\ (pc = "advance" \/ \E c \in Calls : flight[c] = "last")
  BY DEF AdvanceInline, Advance
<1>2. turn \in Nat /\ turn \in DOMAIN messages /\ Len(messages) = turn
  BY <1>1, Advancing, RoundFacts
<1>3. turn' = turn + 1 /\ UNCHANGED <<attempt, reported, recorded>>
  BY <1>1 DEF NextTurn
<1>4. Len(messages') = Len(messages)
  <2> DEFINE Rounds == [calls : 1 .. MaxCalls, results : Seq(Results)]
  <2>1. messages \in Seq(Rounds)
    BY DEF TypeOK
  <2> HIDE DEF Rounds
  <2> QED
    BY <1>1, <1>2, <2>1 DEF NextTurn
<1>5. Between'
  BY <1>2, <1>3, <1>4 DEF Between
<1>6. ASSUME NEW c \in Calls
      PROVE  flight'[c] = flight[c] \/ flight'[c] \notin {"none", "running"}
  BY DEF AdvanceInline, Advance, TypeOK
<1> QED
  BY <1>3, <1>4, <1>5, <1>6 DEF Reports

LEMMA ReportsStep == TypeOK /\ ConvInv /\ Reports /\ [Next]_vars => Reports'
<1> SUFFICES ASSUME TypeOK, ConvInv, Reports, [Next]_vars PROVE Reports'
  OBVIOUS
<1> USE DEF driverVars, joinerVars, storeVars, busVars
<1>1. CASE \/ UNCHANGED vars \/ SinkExpires \/ GiveUp \/ Conclude
           \/ ChatRaises \/ Announce \/ LaunchRaises
  <2>1. UNCHANGED <<turn, messages, reported, recorded, flight, attempt>>
    BY <1>1 DEF vars, SinkExpires, GiveUp, Conclude, Finish, ChatRaises, Announce, LaunchRaises
  <2>2. \/ UNCHANGED <<pc, next>>
        \/ pc' \notin {"announce", "launch", "submit"}
        \/ pc = "announce" /\ pc' = "launch" /\ UNCHANGED next
    BY <1>1 DEF vars, SinkExpires, GiveUp, Conclude, Finish, ChatRaises, Announce, LaunchRaises
  <2> QED
    BY <2>1, <2>2, ReportsFrame
<1>2. ASSUME NEW c \in Calls, Retry(c) \/ SkillRaises(c) PROVE Reports'
  <2>1. /\ flight[c] = "running"
        /\ \/ flight' = [flight EXCEPT ![c] = "running"]
              /\ attempt' = [attempt EXCEPT ![c] = attempt[c] + 1]
           \/ flight' = [flight EXCEPT ![c] = "lost"] /\ UNCHANGED attempt
        /\ UNCHANGED <<turn, pc, next, reported, recorded, messages>>
    BY <1>2 DEF Retry, SkillRaises, Dispatch
  <2>2. ASSUME NEW d \in Calls
        PROVE  \/ flight'[d] = flight[d] /\ attempt'[d] = attempt[d]
               \/ flight'[d] \notin {"none", "running"}
               \/ flight[d] = "running" /\ flight'[d] = "running"
    <3>1. CASE d = c
      BY <2>1, <3>1 DEF TypeOK
    <3>2. CASE d # c
      BY <2>1, <3>2 DEF TypeOK
    <3> QED
      BY <3>1, <3>2
  <2> QED
    BY <2>1, <2>2, ReportsFrame
<1>3. ASSUME NEW c \in Calls, CheckIn(c) PROVE Reports'
  BY <1>3, ReportsFrame DEF CheckIn
<1>4. ASSUME NEW rid, CheckInReply(rid) PROVE Reports'
  BY <1>4, ReportsFrame DEF CheckInReply
<1> QED
  BY <1>1, <1>2, <1>3, <1>4, AskReports, LaunchReports, ReportReports, SubmitReports, AdvanceReports
  DEF Next, Drive, Settle
\* A call keeps its result, and never goes back to an earlier attempt.
Later ==
    /\ \A c \in Calls : attempt[c] <= attempt'[c]
    /\ \A c \in Calls : reported'[c] = reported[c] \/ reported[c] = "none"

\* What an event says stays true.
LEMMA StaysTrue ==
  ASSUME TypeOK, TypeOK', Later, ends' = ends \/ ends = <<>>, NEW e, TrueEvent(e)
  PROVE  TrueEvent(e)'
<1>1. ASSUME e.event = "dispatch"
      PROVE  \E a \in 1 .. MaxAttempts :
                e.request = Request(e.call, a) /\ (a = 1 \/ a <= attempt'[e.call])
  <2>1. e.call \in Calls
    BY <1>1 DEF TrueEvent
  <2>2. PICK a \in 1 .. MaxAttempts :
            e.request = Request(e.call, a) /\ (a = 1 \/ a <= attempt[e.call])
    BY <1>1 DEF TrueEvent
  <2>3. attempt[e.call] <= attempt'[e.call] /\ attempt[e.call] \in Nat /\ attempt'[e.call] \in Nat
    BY <2>1 DEF Later, TypeOK
  <2>4. a = 1 \/ a <= attempt'[e.call]
    BY <2>2, <2>3
  <2> QED
    BY <2>2, <2>4
<1>2. ASSUME e.event = "tool_result"
      PROVE  e.call \in Calls /\ e.result # "none" /\ e.result = reported'[e.call]
  BY <1>2 DEF TrueEvent, Later
<1>3. e.event = "final" => ends' = <<"answer">>
  BY DEF TrueEvent
<1> QED
  BY <1>1, <1>2, <1>3 DEF TrueEvent

\* The end of the conversation stays in the sink until something is lost.
FinalShown == lost = 0 /\ ends = <<"answer">> => \E e \in sink : e.event = "final"

\* A step that publishes one event, or loses it.
LEMMA EmitStep ==
  ASSUME TypeOK, TypeOK', ViewInv, Later, UNCHANGED ends, NEW e, Emit(e), TrueEvent(e)'
  PROVE  (\A d \in sink' : TrueEvent(d)') /\ FinalShown'
<1>1. \A d \in sink' : TrueEvent(d)'
  <2> SUFFICES ASSUME NEW d \in sink' PROVE TrueEvent(d)'
    OBVIOUS
  <2>1. CASE d = e
    BY <2>1
  <2>2. CASE d \in sink
    BY <2>2, StaysTrue DEF ViewInv
  <2> QED
    BY <2>1, <2>2 DEF Emit
<1>2. lost \in Nat
  BY DEF TypeOK
<1>3. FinalShown
  BY DEF ViewInv, FinalShown
<1>4. \/ sink \subseteq sink' /\ lost' = lost
      \/ lost' = lost + 1
  BY DEF Emit
<1> QED
  BY <1>1, <1>2, <1>3, <1>4 DEF FinalShown

\* A step that publishes nothing, and loses nothing or everything.
LEMMA QuietStep ==
  ASSUME TypeOK, TypeOK', ViewInv, Later,
         UNCHANGED ends \/ (ends = <<>> /\ ends' # <<"answer">>),
         UNCHANGED <<sink, lost>> \/ SinkExpires
  PROVE  (\A d \in sink' : TrueEvent(d)') /\ FinalShown'
<1>1. ASSUME NEW d \in sink' PROVE TrueEvent(d)'
  BY <1>1, StaysTrue DEF ViewInv, SinkExpires
<1>2. lost \in Nat
  BY DEF TypeOK
<1>3. FinalShown
  BY DEF ViewInv, FinalShown
<1> QED
  BY <1>1, <1>2, <1>3 DEF FinalShown, SinkExpires

\* A dispatch of attempt a of call c, when the loop or the retry makes it.
LEMMA DispatchTrue ==
  ASSUME TypeOK, TypeOK', ViewInv, Later, UNCHANGED ends, NEW c \in Calls,
         NEW a \in 1 .. MaxAttempts, Emit(DispatchEvent(c, a)), a = 1 \/ attempt'[c] = a
  PROVE  (\A d \in sink' : TrueEvent(d)') /\ FinalShown'
<1>1. PICK e : e = DispatchEvent(c, a) /\ Emit(e)
  OBVIOUS
<1>2. e.event = "dispatch" /\ e.call = c /\ e.request = Request(c, a)
  BY <1>1 DEF DispatchEvent, Event
<1>3. a = 1 \/ a <= attempt'[c]
  OBVIOUS
<1>4. TrueEvent(e)'
  BY <1>2, <1>3 DEF TrueEvent
<1> QED
  BY <1>1, <1>4, EmitStep

LEMMA LaterStep == TypeOK /\ ConvInv /\ Reports /\ [Next]_vars => Later
<1> SUFFICES ASSUME TypeOK, ConvInv, Reports, [Next]_vars PROVE Later
  OBVIOUS
<1> USE DEF driverVars, joinerVars, storeVars, busVars
<1>1. \A c \in Calls : attempt[c] \in Nat /\ attempt[c] <= attempt[c]
  BY DEF TypeOK
<1>2. CASE Launch \/ FailInline
  <2> DEFINE current == <<turn, next>>
  <2>1. ~Between /\ pc = "launch"
    BY <1>2, Launching DEF Launch, FailInline
  <2>2. next \in 1 .. InRound /\ current \in Calls /\ next >= next
    BY <2>1, RoundFacts
  <2>3. flight[current] = "none" /\ reported[current] = "none" /\ attempt[current] = 0
    <3>1. CallState(next)
      BY <2>1, <2>2 DEF ConvInv, ThisRound
    <3> QED
      BY <2>1, <2>2, <3>1 DEF CallState, Reports
  <2>4. /\ \/ UNCHANGED attempt
           \/ attempt' = [attempt EXCEPT ![current] = 1]
        /\ \/ UNCHANGED reported
           \/ reported' = [reported EXCEPT ![current] = "error"]
    BY <1>2 DEF Launch, Dispatch, FailInline, Current
  <2> HIDE DEF current
  <2>5. ASSUME NEW c \in Calls
        PROVE  attempt[c] <= attempt'[c] /\ (reported'[c] = reported[c] \/ reported[c] = "none")
    <3>1. CASE c = current
      BY <1>1, <2>2, <2>3, <2>4, <3>1 DEF TypeOK
    <3>2. CASE c # current
      BY <1>1, <2>4, <3>2 DEF TypeOK
    <3> QED
      BY <3>1, <3>2
  <2> QED
    BY <2>5 DEF Later
<1>3. ASSUME NEW d \in Calls, Retry(d) PROVE Later
  <2>1. attempt' = [attempt EXCEPT ![d] = attempt[d] + 1] /\ UNCHANGED reported
    BY <1>3 DEF Retry, Dispatch
  <2>2. ASSUME NEW c \in Calls PROVE attempt[c] <= attempt'[c]
    <3>1. CASE c = d
      BY <1>1, <2>1, <3>1 DEF TypeOK
    <3>2. CASE c # d
      BY <1>1, <2>1, <3>2 DEF TypeOK
    <3> QED
      BY <3>1, <3>2
  <2> QED
    BY <2>1, <2>2 DEF Later
<1>4. ASSUME NEW d \in Calls, NEW r \in Results, Report(d, r) PROVE Later
  <2>1. /\ flight[d] = "running" /\ reported' = [reported EXCEPT ![d] = r] /\ UNCHANGED attempt
    BY <1>4 DEF Report
  <2>2. reported[d] = "none"
    BY <2>1 DEF Reports
  <2>3. \A c \in Calls : reported'[c] = reported[c] \/ reported[c] = "none"
    BY <2>1, <2>2 DEF TypeOK
  <2> QED
    BY <1>1, <2>1, <2>3 DEF Later
<1>5. ASSUME UNCHANGED <<attempt, reported>> PROVE Later
  BY <1>1, <1>5 DEF Later
<1>6. CASE \/ UNCHANGED vars \/ SinkExpires \/ GiveUp \/ Conclude
           \/ ChatRaises \/ Announce \/ LaunchRaises \/ SubmitInline \/ AdvanceInline
  BY <1>5, <1>6 DEF vars, SinkExpires, GiveUp, Conclude, Finish, ChatRaises, Announce, LaunchRaises,
                    SubmitInline, AdvanceInline, NextTurn
<1>7. ASSUME NEW n \in 1 .. MaxCalls, Ask(n) PROVE Later
  BY <1>5, <1>7 DEF Ask
<1>8. ASSUME NEW c \in Calls, Submit(c) \/ Advance(c) \/ SkillRaises(c) \/ CheckIn(c) PROVE Later
  BY <1>5, <1>8 DEF Submit, Advance, NextTurn, SkillRaises, CheckIn
<1>9. ASSUME NEW rid, CheckInReply(rid) PROVE Later
  BY <1>5, <1>9 DEF CheckInReply
<1> QED
  BY <1>2, <1>3, <1>4, <1>6, <1>7, <1>8, <1>9 DEF Next, Drive, Settle

LEMMA ViewStep == TypeOK /\ ConvInv /\ ViewInv /\ [Next]_vars => ViewInv'
<1> SUFFICES ASSUME TypeOK, ConvInv, ViewInv, [Next]_vars PROVE ViewInv'
  OBVIOUS
<1> USE DEF driverVars, joinerVars, storeVars, busVars
<1>1. Reports' /\ Later /\ TypeOK' /\ ConvInv' /\ Reports
  BY ReportsStep, LaterStep, TypeStep, InvStep DEF ViewInv
<1> DEFINE Goal == (\A e \in sink' : TrueEvent(e)') /\ FinalShown'
<1> SUFFICES Goal
  BY <1>1 DEF ViewInv, FinalShown
<1>2. CASE \/ UNCHANGED vars \/ SinkExpires \/ GiveUp \/ ChatRaises
           \/ SubmitInline \/ AdvanceInline
           \/ LaunchRaises /\ UNCHANGED <<sink, lost>>
  <2>1. UNCHANGED <<sink, lost>> \/ SinkExpires
    BY <1>2 DEF vars, GiveUp, ChatRaises, SubmitInline, AdvanceInline, NextTurn
  <2>2. CASE GiveUp
    <3>1. ends = <<>> /\ ends' = <<"limit">>
      BY <2>2 DEF GiveUp, Finish, ConvInv, Phases
    <3>2. "limit" # "answer" /\ <<"limit">> # <<"answer">>
      OBVIOUS
    <3> QED
      BY <1>1, <2>1, <3>1, <3>2, QuietStep
  <2>3. CASE ~GiveUp
    <3>1. UNCHANGED ends
      BY <1>2, <2>3 DEF vars, SinkExpires, ChatRaises, SubmitInline, AdvanceInline, NextTurn, LaunchRaises
    <3> QED
      BY <1>1, <2>1, <3>1, QuietStep
  <2> QED
    BY <2>2, <2>3
<1>3. CASE Conclude
  <2>1. ends = <<>> /\ ends' = <<"answer">>
    BY <1>3 DEF Conclude, Finish, ConvInv, Phases
  <2>2. PICK e : e = Event("final", NoCall, 0, "none") /\ Emit(e)
    BY <1>3 DEF Conclude
  <2>3. e.event = "final"
    BY <2>2 DEF Event
  <2>4. TrueEvent(e)'
    BY <2>1, <2>3 DEF TrueEvent
  <2>5. ASSUME NEW d \in sink PROVE TrueEvent(d)'
    BY <1>1, <2>1, <2>5, StaysTrue DEF ViewInv
  <2>6. \A d \in sink' : TrueEvent(d)'
    BY <2>2, <2>4, <2>5 DEF Emit
  <2>7. lost \in Nat
    BY DEF TypeOK
  <2>8. lost' = 0 => e \in sink'
    BY <2>2, <2>7 DEF Emit
  <2> QED
    BY <2>3, <2>6, <2>8 DEF FinalShown
<1>4. ASSUME NEW n \in 1 .. MaxCalls, Ask(n) PROVE Goal
  BY <1>1, <1>4, QuietStep DEF Ask
<1>5. CASE Announce \/ FailInline
  <2>1. Current(next) \in Calls
    BY <1>5, Launching, RoundFacts DEF Announce, FailInline, Current
  <2>2. PICK c \in Calls : c = Current(next)
    BY <2>1
  <2>3. CASE Announce
    <3>1. PICK e : e = Event("tool_call", c, 0, "none") /\ Emit(e)
      BY <2>2, <2>3 DEF Announce
    <3>2. e.event = "tool_call" /\ e.call = c
      BY <3>1 DEF Event
    <3>3. TrueEvent(e)'
      BY <3>2 DEF TrueEvent
    <3> QED
      BY <1>1, <2>3, <3>1, <3>3, EmitStep DEF Announce
  <2>4. CASE FailInline
    <3>1. PICK e : e = Event("tool_result", c, 0, "error") /\ Emit(e)
      BY <2>2, <2>4 DEF FailInline
    <3>2. e.event = "tool_result" /\ e.call = c /\ e.result = "error"
      BY <3>1 DEF Event
    <3>3. reported'[c] = "error"
      BY <2>2, <2>4 DEF FailInline, TypeOK
    <3>4. TrueEvent(e)'
      BY <3>2, <3>3 DEF TrueEvent
    <3> QED
      BY <1>1, <2>4, <3>1, <3>4, EmitStep DEF FailInline
  <2> QED
    BY <1>5, <2>3, <2>4
<1>6. CASE Launch \/ (LaunchRaises /\ Emit(DispatchEvent(Current(next), 1)))
  <2>1. Current(next) \in Calls
    BY <1>6, Launching, RoundFacts DEF Launch, LaunchRaises, Current
  <2>2. PICK c \in Calls : c = Current(next)
    BY <2>1
  <2>3. Emit(DispatchEvent(c, 1)) /\ UNCHANGED ends
    BY <1>6, <2>2 DEF Launch, Dispatch, LaunchRaises
  <2>4. 1 \in 1 .. MaxAttempts
    OBVIOUS
  <2> QED
    BY <1>1, <2>3, <2>4, DispatchTrue
<1>7. ASSUME NEW c \in Calls, Retry(c) PROVE Goal
  <2>1. attempt[c] \in 0 .. MaxAttempts
    BY DEF TypeOK
  <2>2. PICK a : a = attempt[c] + 1
    OBVIOUS
  <2>3. a \in 1 .. MaxAttempts
    BY <1>7, <2>1, <2>2 DEF Retry
  <2>4. Emit(DispatchEvent(c, a)) /\ attempt'[c] = a /\ UNCHANGED ends
    BY <1>7, <2>2 DEF Retry, Dispatch, TypeOK
  <2> QED
    BY <1>1, <2>3, <2>4, DispatchTrue
<1>8. ASSUME NEW c \in Calls, NEW r \in Results, Report(c, r) PROVE Goal
  <2>1. PICK e : e = Event("tool_result", c, 0, r) /\ Emit(e)
    BY <1>8 DEF Report
  <2>2. e.event = "tool_result" /\ e.call = c /\ e.result = r /\ r # "none"
    BY <2>1 DEF Event, Results
  <2>3. reported'[c] = r /\ UNCHANGED ends
    BY <1>8 DEF Report, TypeOK
  <2>4. TrueEvent(e)'
    BY <2>2, <2>3 DEF TrueEvent
  <2> QED
    BY <1>1, <2>1, <2>3, <2>4, EmitStep
<1>9. ASSUME NEW c \in Calls, Submit(c) \/ Advance(c) \/ SkillRaises(c) \/ CheckIn(c) PROVE Goal
  BY <1>1, <1>9, QuietStep DEF Submit, Advance, NextTurn, SkillRaises, CheckIn
<1>10. ASSUME NEW rid, CheckInReply(rid) PROVE Goal
  BY <1>1, <1>10, QuietStep DEF CheckInReply
<1>11. LaunchRaises => UNCHANGED <<sink, lost>> \/ Emit(DispatchEvent(Current(next), 1))
  BY DEF LaunchRaises
<1> QED
  BY <1>2, <1>3, <1>4, <1>5, <1>6, <1>7, <1>8, <1>9, <1>10, <1>11 DEF Next, Drive, Settle
\* More attempts than calls are shown only if some call was retried.
LEMMA AttemptsCounted ==
  ASSUME TypeOK, ViewInv, AttemptCount > Cardinality(ShownCalls)
  PROVE  \E d \in Calls : attempt[d] > 1
<1> SUFFICES ASSUME \A d \in Calls : ~(attempt[d] > 1) PROVE FALSE
  OBVIOUS
<1> DEFINE Nested == {x \in ShownCalls \X Owned : x[2] \in AttemptsOf(x[1])}
           call == [x \in Nested |-> x[1]]
<1>1. ShownCalls \subseteq Calls
  BY DEF ShownCalls, Events, ViewInv, TrueEvent
<1>2. IsFiniteSet(ShownCalls)
  <2>1. IsFiniteSet(1 .. MaxTurns) /\ IsFiniteSet(1 .. MaxCalls)
    BY FS_Interval
  <2>2. IsFiniteSet(Calls)
    BY <2>1, FS_Product DEF Calls, Turns
  <2> QED
    BY <1>1, <2>2, FS_Subset
<1>3. ASSUME NEW x \in Nested PROVE x = <<x[1], Request(x[1], 1)>> /\ x[1] \in ShownCalls
  <2>1. PICK e \in sink : e.event = "dispatch" /\ e.call = x[1] /\ e.request = x[2]
    BY DEF AttemptsOf, Events
  <2>2. e.call \in Calls
    BY <2>1 DEF ViewInv, TrueEvent
  <2>3. PICK a \in 1 .. MaxAttempts :
            e.request = Request(e.call, a) /\ (a = 1 \/ a <= attempt[e.call])
    BY <2>1 DEF ViewInv, TrueEvent
  <2>4. a = 1
    BY <2>2, <2>3 DEF TypeOK
  <2>5. x = <<x[1], x[2]>> /\ x[1] \in ShownCalls
    OBVIOUS
  <2> QED
    BY <2>1, <2>3, <2>4, <2>5
<1>4. call \in Injection(Nested, ShownCalls)
  <2>1. ASSUME NEW x \in Nested, NEW y \in Nested, call[x] = call[y] PROVE x = y
    BY <1>3, <2>1
  <2>2. call \in [Nested -> ShownCalls]
    BY <1>3
  <2> QED
    BY <2>1, <2>2 DEF Injection, IsInjective
<1>5. IsFiniteSet(Nested) /\ Cardinality(Nested) <= Cardinality(ShownCalls)
  BY <1>2, <1>4, FS_Injection
<1>6. Cardinality(Nested) \in Nat /\ Cardinality(ShownCalls) \in Nat
  BY <1>2, <1>5, FS_CardinalityType
<1> QED
  BY <1>5, <1>6 DEF AttemptCount

LEMMA ViewShows ==
  ASSUME TypeOK, ConvInv, ViewInv
  PROVE  ViewIsTrue
<1>1. ASSUME NEW c \in ShownCalls PROVE \A rid \in AttemptsOf(c) : <<rid[1], rid[2]>> = c
  <2> SUFFICES ASSUME NEW rid \in AttemptsOf(c) PROVE <<rid[1], rid[2]>> = c
    OBVIOUS
  <2>1. PICK e \in sink : e.event = "dispatch" /\ e.call = c /\ e.request = rid
    BY DEF AttemptsOf, Events
  <2>2. c \in Calls /\ \E a \in 1 .. MaxAttempts : rid = Request(c, a)
    BY <2>1 DEF ViewInv, TrueEvent
  <2>3. rid[1] = c[1] /\ rid[2] = c[2] /\ c = <<c[1], c[2]>>
    BY <2>2 DEF Request, Calls
  <2> QED
    BY <2>3
<1>2. ASSUME NEW c \in ShownCalls
      PROVE  /\ ResultsOf(c) \subseteq {reported[c]}
             /\ recorded[c] # "none" => ResultsOf(c) \subseteq {recorded[c]}
  <2>1. c \in Calls
    BY DEF ShownCalls, Events, ViewInv, TrueEvent
  <2>2. ResultsOf(c) \subseteq {reported[c]}
    BY DEF ResultsOf, Events, ViewInv, TrueEvent
  <2>3. recorded[c] # "none" => recorded[c] = reported[c]
    BY <2>1 DEF ViewInv, Reports
  <2> QED
    BY <2>2, <2>3
<1>3. AttributedRight
  BY <1>1, <1>2, AttemptsCounted DEF AttributedRight
<1>4. NothingHidden
  <2> SUFFICES ASSUME NEW m \in traffic, m.request # NoRequest PROVE m.request \in Shown
    BY DEF NothingHidden
  <2>1. CASE m.request \in Owned
    <3>1. PICK e \in Events("dispatch") : e.request = m.request
      BY <2>1 DEF Owned
    <3>2. CASE e.call \in ShownCalls
      <4>1. m.request \in AttemptsOf(e.call)
        BY <3>1 DEF AttemptsOf
      <4> QED
        BY <3>2, <4>1 DEF Shown
    <3>3. CASE e.call \notin ShownCalls
      <4>1. m.request \in Orphans
        BY <3>1, <3>3 DEF Orphans
      <4> QED
        BY <4>1 DEF Shown
    <3> QED
      BY <3>2, <3>3
  <2>2. CASE m.request \notin Owned
    <3>1. m.request \in Unattributed
      BY <2>2 DEF Unattributed
    <3> QED
      BY <3>1 DEF Shown
  <2> QED
    BY <2>1, <2>2
<1>5. StatusIsTrue
  <2>1. Status = "answered" => \E e \in sink : e.event = "final"
    BY DEF Status, Events
  <2>2. (\E e \in sink : e.event = "final") => Status = "answered"
    BY DEF Status, Events
  <2> QED
    BY <2>1, <2>2 DEF StatusIsTrue, ViewInv, TrueEvent
<1> QED
  BY <1>3, <1>4, <1>5 DEF ViewIsTrue

\* What the Composer rebuilds from the bus is what happened, whichever events
\* were never published or have expired: each attempt is under its own call, the
\* result shown is the one that was given to the model, more attempts than calls
\* mean a retry, no request is left out, and the conversation has its true end.
THEOREM ViewIsRight == Spec => []ViewIsTrue
<1>1. TypeOK /\ ConvInv /\ ViewInv /\ [Next]_vars => ViewInv'
  BY ViewStep
<1>2. TypeOK /\ ConvInv /\ ViewInv => ViewIsTrue
  BY ViewShows
<1> QED
  BY <1>1, <1>2, ViewInit, InvHolds, PTL DEF Spec
=============================================================================
