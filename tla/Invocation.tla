----------------------------- MODULE Invocation -----------------------------
(****************************************************************************)
(* What head.run_skill promises its caller, without routers, check-ins or    *)
(* threads: attempts one after another, each superseded one called off by    *)
(* skill_cancel, and one answer, of the attempt that runs - a retryable      *)
(* failure only when no attempt is left.                                     *)
(****************************************************************************)
EXTENDS Naturals, Sequences

CONSTANTS MaxAttempts, Results

VARIABLES
    attempt,    \* the attempt that runs
    cancelled,  \* the attempts whose workers were sent skill_cancel
    answers,    \* what on_result was called with, and by which attempt
    raised      \* the thread of an attempt died of an exception: nobody will answer

invocationVars == <<attempt, cancelled, answers, raised>>

Init == attempt = 1 /\ cancelled = {} /\ answers = <<>> /\ raised = FALSE

Open == answers = <<>> /\ ~raised

Retry ==
    /\ Open /\ attempt < MaxAttempts
    /\ attempt' = attempt + 1
    /\ cancelled' = cancelled \cup {attempt}
    /\ UNCHANGED <<answers, raised>>

Answer(r) ==
    /\ Open
    /\ r = "retryable" => attempt = MaxAttempts
    /\ answers' = <<[attempt |-> attempt, result |-> r]>>
    /\ UNCHANGED <<attempt, cancelled, raised>>

Raise ==
    /\ Open
    /\ raised' = TRUE
    /\ UNCHANGED <<attempt, cancelled, answers>>

Next == Retry \/ Raise \/ \E r \in Results : Answer(r)

Spec == Init /\ [][Next]_invocationVars
=============================================================================
