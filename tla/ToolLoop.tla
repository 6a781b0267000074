------------------------------ MODULE ToolLoop ------------------------------
(****************************************************************************)
(* What head.converse promises: a strictly sequential loop of rounds.  In a   *)
(* round the model asks for calls and gets all their results at once, in the  *)
(* order it asked; only then is it asked again, or has it concluded.          *)
(****************************************************************************)
EXTENDS Naturals, Sequences

CONSTANTS
    MaxTurns,  \* max_turns
    MaxCalls,  \* bound: tool calls in one round
    Results    \* what a tool call may come to

VARIABLES
    transcript, \* one record per round: how many calls, and their results
    outcome     \* open, answer, limit

Round(n, rs) == [calls |-> n, results |-> rs]

Answered(round) == Len(round.results) = round.calls

\* Every round so far was answered: it is the model's turn.
Ready == outcome = "open" /\ \A t \in DOMAIN transcript : Answered(transcript[t])

Init == transcript = <<>> /\ outcome = "open"

Ask ==
    /\ Ready /\ Len(transcript) < MaxTurns
    /\ \E n \in 1 .. MaxCalls : transcript' = Append(transcript, Round(n, <<>>))
    /\ UNCHANGED outcome

Answer ==
    /\ outcome = "open" /\ transcript # <<>>
    /\ LET last == Len(transcript) IN
          /\ transcript[last].results = <<>>
          /\ \E rs \in [1 .. transcript[last].calls -> Results] :
                transcript' = [transcript EXCEPT ![last].results = rs]
    /\ UNCHANGED outcome

Conclude ==
    /\ Ready
    /\ outcome' = (IF Len(transcript) < MaxTurns THEN "answer" ELSE "limit")
    /\ UNCHANGED transcript

Next == Ask \/ Answer \/ Conclude

Spec == Init /\ [][Next]_<<transcript, outcome>>
=============================================================================
