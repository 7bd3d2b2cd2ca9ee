------------------------------ MODULE AgentRun ------------------------------
(***************************************************************************)
(* What an agent's run promises those who follow it: what it says, in      *)
(* order, until one last event tells how it ended; a cancellation is told  *)
(* apart from a failure, and what was said is never taken back.            *)
(***************************************************************************)
EXTENDS Sequences, SequencesExt

CONSTANTS Contents,   \* events a run may publish before its end
          Causes      \* why a run may stop short, "canceled" among them

VARIABLES log, cause, status

Init == log = <<>> /\ cause = "none" /\ status = "running"

\* One piece of a message may give several events.
Say ==
    /\ status = "running" /\ cause = "none"
    /\ IsStrictPrefix(log, log') /\ log' \in Seq(Contents)
    /\ UNCHANGED <<cause, status>>

Outcome(c) == CASE c = "none" -> "completed" [] c = "canceled" -> "cancelled" [] OTHER -> "failed"

\* The library under the agent stops short; the agent may not have said so yet.
Break(c) ==
    /\ status = "running" /\ cause = "none"
    /\ cause' = c
    /\ UNCHANGED <<log, status>>

Finish ==
    /\ status = "running"
    /\ cause' \in {cause} \cup (IF cause = "none" THEN Causes ELSE {})
    /\ status' = Outcome(cause')
    /\ log' = Append(log, status')

Next == Say \/ (\E c \in Causes : Break(c)) \/ Finish

\* A run that stopped short does not leave its followers waiting.
Told == (cause # "none") ~> (status # "running")

Spec == Init /\ [][Next]_<<log, cause, status>> /\ Told
=============================================================================
