-------------------------- MODULE CancelBroadcast ---------------------------
(***************************************************************************)
(* Cancellation across instances of the application.  Each has a registry  *)
(* of the tasks that run in it and a goroutine that listens to a Redis     *)
(* pub/sub channel; a cancel request reaches any instance, cancels there   *)
(* what it finds, and broadcasts the ID to all.  Pub/sub delivers at most  *)
(* once and only to who is connected; instances crash and restart.         *)
(***************************************************************************)
EXTENDS Naturals, Sequences

CONSTANTS
    Instances, Tasks,
    Requests,        \* cancel requests
    NoTask, NoInstance,
    MaxFaults        \* bound: lost connections and crashes

ASSUME CancelAssumption ==
    NoTask \notin Tasks /\ NoInstance \notin Instances /\ MaxFaults \in Nat

VARIABLES
    task,            \* "new", "running", "unwinding" (its agent returned), "ended"
    ctx,             \* the task's execution context: "live" or "done"
    home,            \* the instance it runs in
    reg,             \* per instance: the tasks in its registry
    up, link,        \* per instance: it runs; it is connected to the channel
    inbox,           \* per instance: payloads its Go channel holds
    sub,             \* per instance: the task whose cancelFunc its listener
                     \* has loaded and is about to call
    req,             \* per request: where it is, at which instance, for what
    asked,           \* history: tasks somebody asked to cancel
    lost,            \* history: tasks whose home a broadcast did not reach
    faults

vars == <<task, ctx, home, reg, up, link, inbox, sub, req, asked, lost, faults>>
taskVars == <<task, ctx, home>>
instVars == <<up, link, faults>>
histVars == <<asked, lost>>

NoReq == [step |-> "new", at |-> NoInstance, task |-> NoTask]

Init ==
    /\ task = [t \in Tasks |-> "new"]
    /\ ctx = [t \in Tasks |-> "live"]
    /\ home = [t \in Tasks |-> NoInstance]
    /\ reg = [i \in Instances |-> {}]
    /\ up = [i \in Instances |-> TRUE] /\ link = [i \in Instances |-> TRUE]
    /\ inbox = [i \in Instances |-> <<>>]
    /\ sub = [i \in Instances |-> NoTask]
    /\ req = [q \in Requests |-> NoReq]
    /\ asked = {} /\ lost = {} /\ faults = 0

-----------------------------------------------------------------------------
(* A task: registered before its agent runs, unregistered after it.        *)

Register(t, i) ==
    /\ task[t] = "new" /\ up[i]
    /\ task' = [task EXCEPT ![t] = "running"]
    /\ home' = [home EXCEPT ![t] = i]
    /\ reg' = [reg EXCEPT ![i] = @ \cup {t}]
    /\ UNCHANGED <<ctx, instVars, inbox, sub, req, histVars>>

AgentReturns(t) ==
    /\ task[t] = "running"
    /\ task' = [task EXCEPT ![t] = "unwinding"]
    /\ UNCHANGED <<ctx, home, reg, instVars, inbox, sub, req, histVars>>

\* Faulty: the entry stays behind.
UnregisterNot(t) ==
    /\ task[t] = "unwinding"
    /\ task' = [task EXCEPT ![t] = "ended"]
    /\ UNCHANGED <<ctx, home, reg, instVars, inbox, sub, req, histVars>>

Unregister(t) ==
    /\ task[t] = "unwinding"
    /\ task' = [task EXCEPT ![t] = "ended"]
    /\ reg' = [reg EXCEPT ![home[t]] = @ \ {t}]
    /\ UNCHANGED <<ctx, home, instVars, inbox, sub, req, histVars>>

-----------------------------------------------------------------------------
(* A cancel request.                                                       *)

Go(q, step) == req' = [req EXCEPT ![q].step = step]

\* Nobody can name a task before it has started.
Ask(q, i, t) ==
    /\ req[q].step = "new" /\ up[i] /\ task[t] # "new"
    /\ req' = [req EXCEPT ![q] = [step |-> "local", at |-> i, task |-> t]]
    /\ asked' = asked \cup {t}
    /\ UNCHANGED <<taskVars, reg, instVars, inbox, sub, lost>>

\* MemoryTaskRegistry.Cancel: LoadAndDelete, then the call of what was loaded.
CancelLocal(q) ==
    LET i == req[q].at t == req[q].task IN
    /\ req[q].step = "local"
    /\ reg' = [reg EXCEPT ![i] = @ \ {t}]
    /\ Go(q, IF t \in reg[i] THEN "call" ELSE "broadcast")
    /\ UNCHANGED <<taskVars, instVars, inbox, sub, histVars>>

CallLocal(q) ==
    /\ req[q].step = "call"
    /\ ctx' = [ctx EXCEPT ![req[q].task] = "done"]
    /\ Go(q, "broadcast")
    /\ UNCHANGED <<task, home, reg, instVars, inbox, sub, histVars>>

\* Faulty: a task that is not found here is reported to be cancelled.
BroadcastNot(q) ==
    /\ req[q].step = "broadcast" /\ Go(q, "answered")
    /\ UNCHANGED <<taskVars, reg, instVars, inbox, sub, histVars>>

\* Redis hands the payload to who is connected, the sender among them.  If the
\* call fails nobody gets it, or all do and only the reply is lost; an error is
\* logged and the answer is success all the same.
Broadcast(q) ==
    LET t == req[q].task IN
    /\ req[q].step = "broadcast" /\ Go(q, "answered")
    /\ \E to \in {{}, {i \in Instances : up[i] /\ link[i]}} :
        /\ inbox' = [i \in Instances |-> IF i \in to THEN Append(inbox[i], t) ELSE inbox[i]]
        /\ lost' = IF home[t] \in to THEN lost ELSE lost \cup {t}
    /\ UNCHANGED <<taskVars, reg, instVars, sub, asked>>

-----------------------------------------------------------------------------
(* The listener of an instance.                                            *)

\* Faulty: a payload cancels whatever the registry holds.
ReceiveAny(i) ==
    /\ up[i] /\ sub[i] = NoTask /\ inbox[i] # <<>>
    /\ inbox' = [inbox EXCEPT ![i] = Tail(@)]
    /\ \E t \in reg[i] : /\ sub' = [sub EXCEPT ![i] = t]
                         /\ reg' = [reg EXCEPT ![i] = @ \ {t}]
    /\ UNCHANGED <<taskVars, instVars, req, histVars>>

\* Faulty: the listener returns after its first message.
ReceiveOnce(i) ==
    LET t == Head(inbox[i]) IN
    /\ up[i] /\ sub[i] = NoTask /\ inbox[i] # <<>>
    /\ t \in reg[i]
    /\ inbox' = [inbox EXCEPT ![i] = Tail(@)]
    /\ reg' = [reg EXCEPT ![i] = @ \ {t}]
    /\ sub' = [sub EXCEPT ![i] = t]
    /\ UNCHANGED <<taskVars, instVars, req, histVars>>

Receive(i) ==
    LET t == Head(inbox[i]) IN
    /\ up[i] /\ sub[i] = NoTask /\ inbox[i] # <<>>
    /\ inbox' = [inbox EXCEPT ![i] = Tail(@)]
    /\ reg' = [reg EXCEPT ![i] = @ \ {t}]
    /\ sub' = IF t \in reg[i] THEN [sub EXCEPT ![i] = t] ELSE sub
    /\ UNCHANGED <<taskVars, instVars, req, histVars>>

CallReceived(i) ==
    /\ sub[i] # NoTask
    /\ ctx' = [ctx EXCEPT ![sub[i]] = "done"]
    /\ sub' = [sub EXCEPT ![i] = NoTask]
    /\ UNCHANGED <<task, home, reg, instVars, inbox, req, histVars>>

\* go-redis reconnects and subscribes again; what was published meanwhile is gone.
Disconnect(i) ==
    /\ up[i] /\ link[i] /\ faults < MaxFaults
    /\ link' = [link EXCEPT ![i] = FALSE] /\ faults' = faults + 1
    /\ UNCHANGED <<taskVars, reg, up, inbox, sub, req, histVars>>

Reconnect(i) ==
    /\ up[i] /\ ~link[i]
    /\ link' = [link EXCEPT ![i] = TRUE]
    /\ UNCHANGED <<taskVars, reg, up, faults, inbox, sub, req, histVars>>

\* A crash ends the tasks of the instance with their registry, their messages
\* and the requests it was serving.
Crash(i) ==
    /\ up[i] /\ faults < MaxFaults
    /\ up' = [up EXCEPT ![i] = FALSE] /\ link' = [link EXCEPT ![i] = FALSE]
    /\ faults' = faults + 1
    /\ task' = [t \in Tasks |-> IF home[t] = i THEN "ended" ELSE task[t]]
    /\ reg' = [reg EXCEPT ![i] = {}]
    /\ inbox' = [inbox EXCEPT ![i] = <<>>] /\ sub' = [sub EXCEPT ![i] = NoTask]
    /\ req' = [q \in Requests |->
                 IF req[q].at = i /\ req[q].step # "answered"
                 THEN [req[q] EXCEPT !.step = "broken"] ELSE req[q]]
    /\ UNCHANGED <<ctx, home, histVars>>

\* The process comes up with empty registries and subscribes before it serves.
Restart(i) ==
    /\ ~up[i]
    /\ up' = [up EXCEPT ![i] = TRUE] /\ link' = [link EXCEPT ![i] = TRUE]
    /\ UNCHANGED <<taskVars, reg, faults, inbox, sub, req, histVars>>

-----------------------------------------------------------------------------
TaskStep(t) == (\E i \in Instances : Register(t, i)) \/ AgentReturns(t) \/ Unregister(t)
RequestStep(q) == CancelLocal(q) \/ CallLocal(q) \/ Broadcast(q)
ListenerStep(i) == Receive(i) \/ CallReceived(i)
Fault(i) == Disconnect(i) \/ Reconnect(i) \/ Crash(i) \/ Restart(i)

Next ==
    \/ \E t \in Tasks : TaskStep(t)
    \/ \E q \in Requests :
        \/ \E i \in Instances, t \in Tasks : Ask(q, i, t)
        \/ RequestStep(q)
    \/ \E i \in Instances : ListenerStep(i) \/ Fault(i)

(***************************************************************************)
(* Goroutines run, and an agent whose context is done returns.  Nothing    *)
(* makes an instance reconnect in time or a broadcast succeed.             *)
(***************************************************************************)
Fairness ==
    /\ \A t \in Tasks : WF_vars(ctx[t] = "done" /\ AgentReturns(t)) /\ WF_vars(Unregister(t))
    /\ \A q \in Requests : WF_vars(RequestStep(q))
    /\ \A i \in Instances : WF_vars(ListenerStep(i))

Spec == Init /\ [][Next]_vars /\ Fairness

-----------------------------------------------------------------------------
\* Types.
CancelTypeOK ==
    /\ task \in [Tasks -> {"new", "running", "unwinding", "ended"}]
    /\ ctx \in [Tasks -> {"live", "done"}]
    /\ home \in [Tasks -> Instances \cup {NoInstance}]
    /\ reg \in [Instances -> SUBSET Tasks]
    /\ up \in [Instances -> BOOLEAN] /\ link \in [Instances -> BOOLEAN]
    /\ inbox \in [Instances -> Seq(Tasks)]
    /\ sub \in [Instances -> Tasks \cup {NoTask}]
    /\ req \in [Requests -> [step: {"new", "local", "call", "broadcast", "answered", "broken"},
                             at: Instances \cup {NoInstance}, task: Tasks \cup {NoTask}]]
    /\ asked \subseteq Tasks /\ lost \subseteq Tasks /\ faults \in Nat

\* Whoever is about to call the cancelFunc of t.
Held(t) ==
    \/ \E i \in Instances : sub[i] = t
    \/ \E q \in Requests : req[q].step = "call" /\ req[q].task = t

\* A registry holds the tasks that run in its instance and no others, save those
\* whose cancelFunc was taken out to be called: a task that runs can always be
\* reached, and one that ended leaves nothing behind.
RegistryIsTrue ==
    /\ \A i \in Instances : \A t \in reg[i] : home[t] = i /\ task[t] \in {"running", "unwinding"}
    /\ \A t \in Tasks : task[t] = "running" =>
         t \in reg[home[t]] \/ Held(t) \/ ctx[t] = "done"

\* What explains that t may run on: its context is done or about to be, or the
\* message is still on its way, or it was lost on the instance t runs in.
Explained(t) ==
    \/ ctx[t] = "done" \/ Held(t) \/ t \in lost
    \/ \E n \in 1..Len(inbox[home[t]]) : inbox[home[t]][n] = t

\* A task that runs on although success was answered for it has one of these
\* explanations, and no other: no cancellation is forgotten by an instance that
\* lives and listens.
AnswerExplained ==
    \A q \in Requests, t \in Tasks :
        req[q].step = "answered" /\ req[q].task = t /\ task[t] = "running" => Explained(t)

\* How a task looks from outside.
State(t) ==
    CASE task[t] = "new" -> "new"
      [] task[t] \in {"unwinding", "ended"} -> "ended"
      [] OTHER -> IF ctx[t] = "done" THEN "cancelled" ELSE "running"

Abstract == INSTANCE TaskCancellation WITH state <- [t \in Tasks |-> State(t)]

\* Only a task somebody asked for is cancelled, however registries, messages and
\* crashes interleave.
ImplementsCancellation == Abstract!Spec

\* Who asks for a cancellation through an instance that lives gets it, unless
\* the broadcast misses the task's instance.
AskedStops ==
    \A q \in Requests, t \in Tasks :
        (req[q].step = "local" /\ req[q].task = t) ~>
            (task[t] = "ended" \/ t \in lost \/ req[q].step = "broken")
=============================================================================
