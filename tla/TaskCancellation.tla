-------------------------- MODULE TaskCancellation --------------------------
(***************************************************************************)
(* What the cancellation of tasks promises, whatever carries it: a task is *)
(* cancelled only if somebody asked for it, and an ended task stays ended. *)
(***************************************************************************)
CONSTANT Tasks

VARIABLES state, asked

Init == state = [t \in Tasks |-> "new"] /\ asked = {}

Ask(t) == state[t] # "new" /\ asked' = asked \cup {t} /\ UNCHANGED state

Go(t, from, to) ==
    /\ state[t] \in from
    /\ state' = [state EXCEPT ![t] = to]
    /\ UNCHANGED asked

\* Any number of tasks end together: the process they run in may die.
EndAll(dead) ==
    /\ state' = [t \in Tasks |-> IF t \in dead /\ state[t] # "new" THEN "ended" ELSE state[t]]
    /\ UNCHANGED asked

Next ==
    \/ \E t \in Tasks :
        \/ Ask(t)
        \/ Go(t, {"new"}, "running")
        \/ t \in asked /\ Go(t, {"running"}, "cancelled")
    \/ \E dead \in SUBSET Tasks : EndAll(dead)

Spec == Init /\ [][Next]_<<state, asked>>
=============================================================================
