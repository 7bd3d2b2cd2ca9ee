---------------------------- MODULE ExecutionFeed ---------------------------
(***************************************************************************)
(* What an execution promises its readers, without channels, statuses,     *)
(* contexts or a store: one log that grows until a single outcome closes   *)
(* it, and readers that are handed events of the log in its order, each at *)
(* most once, none from before they attached.  A reader may miss events:   *)
(* the promise is order and uniqueness, not completeness.                  *)
(***************************************************************************)
EXTENDS Integers, Sequences

CONSTANTS
    Readers,
    Content,         \* the event types that end nothing
    Outcomes,        \* completed, failed, cancelled
    LastOf(_),       \* the event type an outcome closes the log with
    Open,            \* the outcome of an execution that has not ended
    Unattached

VARIABLES
    log,             \* the types of the events so far
    outcome,         \* how the execution ended, or Open
    from,            \* per reader: the length of the log when it attached
    have             \* per reader: the positions it was handed

feedVars == <<log, outcome, from, have>>

Init ==
    /\ log = <<>>
    /\ outcome = Open
    /\ from = [r \in Readers |-> Unattached]
    /\ have = [r \in Readers |-> {}]

Emit ==
    /\ outcome = Open
    /\ \E type \in Content : log' = Append(log, type)
    /\ UNCHANGED <<outcome, from, have>>

Finish ==
    /\ outcome = Open
    /\ \E o \in Outcomes : outcome' = o /\ log' = Append(log, LastOf(o))
    /\ UNCHANGED <<from, have>>

Attach(r) ==
    /\ from[r] = Unattached
    /\ from' = [from EXCEPT ![r] = Len(log)]
    /\ UNCHANGED <<log, outcome, have>>

Hand(r) ==
    /\ from[r] # Unattached
    /\ \E n \in (from[r] + 1)..Len(log) :
          /\ \A m \in have[r] : m < n
          /\ have' = [have EXCEPT ![r] = @ \cup {n}]
    /\ UNCHANGED <<log, outcome, from>>

Next ==
    \/ Emit
    \/ Finish
    \/ \E r \in Readers : Attach(r) \/ Hand(r)

Spec == Init /\ [][Next]_feedVars
=============================================================================
