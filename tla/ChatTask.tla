------------------------------ MODULE ChatTask ------------------------------
(***************************************************************************)
(* One chat request from handler to reply: the request goroutine           *)
(* (ChatHandler.Chat, chatAppService.Chat, executorOrchestrator.Execute    *)
(* and the SSE or blocking adapter), the agent goroutine it launches       *)
(* (executeAgent around an Agent), the task and executor registries, and   *)
(* cancel requests that reach the task registry.  They share the executor  *)
(* of AgentExecutor, whose actions appear here with their callers' guards. *)
(***************************************************************************)
EXTENDS AgentExecutor

CONSTANTS
    RegistryDelay,   \* ticks DelayedUnregister waits (30 s)
    NoChannel

ASSUME TaskAssumption ==
    /\ RegistryDelay \in Nat \ {0}
    /\ NoChannel \notin Subscribers

VARIABLES
    mode,            \* response_mode: "streaming" or "blocking"
    req,             \* where the request goroutine is
    cur,             \* the channel it reads
    reply,           \* what the client was answered
    agent,           \* where the agent goroutine is
    taskReg,         \* the task registry holds this task's cancelFunc
    execReg,         \* the executor registry holds this executor
    regTimer,        \* ticks until the delayed unregister fires; 0: not armed
    canceller        \* "holding": a cancelFunc was loaded, not yet called

reqVars  == <<mode, req, cur, reply>>
regVars  == <<taskReg, execReg, regTimer, canceller>>
taskVars == <<vars, reqVars, agent, regVars>>

TaskInit ==
    /\ Init
    /\ mode \in {"streaming", "blocking"}
    /\ req = "building" /\ cur = NoChannel /\ reply = "none"
    /\ agent = "off"
    /\ taskReg = FALSE /\ execReg = FALSE /\ regTimer = 0
    /\ canceller = "idle"

-----------------------------------------------------------------------------
(* The request goroutine, up to the launch of the agent goroutine.         *)

\* The app, its version, the agent configuration and the model are looked up;
\* any failure is answered at once and nothing was registered yet.
Build ==
    /\ req = "building"
    /\ \/ req' = "built" /\ UNCHANGED reply
       \/ req' = "done" /\ reply' = "rejected"
    /\ UNCHANGED <<vars, mode, cur, agent, regVars>>

\* The execution context: detached from the request only with an event store.
RegisterTask ==
    /\ req = "built"
    /\ SetExecContext(IF hasStore THEN "live" ELSE ctx)
    /\ taskReg' = TRUE
    /\ req' = "registered"
    /\ UNCHANGED <<mode, cur, reply, agent, execReg, regTimer, canceller>>

StartTask ==
    /\ req = "registered"
    /\ Start
    /\ req' = "started"
    /\ UNCHANGED <<mode, cur, reply, agent, regVars>>

\* Faulty: Unregister deferred in Execute instead of the goroutine.
LaunchForgets ==
    /\ req = "started" /\ req' = "launched"
    /\ execReg' = TRUE /\ agent' = "running" /\ taskReg' = FALSE
    /\ UNCHANGED <<vars, mode, cur, reply, regTimer, canceller>>

Launch ==
    /\ req = "started"
    /\ execReg' = TRUE
    /\ agent' = "running"
    /\ req' = "launched"
    /\ UNCHANGED <<vars, mode, cur, reply, taskReg, regTimer, canceller>>

-----------------------------------------------------------------------------
(* The request goroutine as a reader.  A streaming request subscribes once; *)
(* a blocking one drains a channel in Execute, then another in the adapter. *)

Open ==
    /\ req \in {"launched", "drained"}
    /\ \E s \in Subscribers : Subscribe(s) /\ cur' = s
    /\ req' = CASE req = "drained"     -> "awaiting"
                [] mode = "streaming"  -> "reading"
                [] OTHER               -> "draining"
    /\ UNCHANGED <<mode, reply, agent, regVars>>

Read ==
    /\ req \in {"reading", "draining", "awaiting"}
    /\ Receive(cur)
    /\ UNCHANGED <<reqVars, agent, regVars>>

\* Faulty: the stream ends at the close, whatever is still buffered.
StreamEndsAtClose ==
    /\ req = "reading" /\ chst[cur] = "closed"
    /\ req' = "done" /\ reply' = "streamed"
    /\ UNCHANGED <<vars, mode, cur, agent, regVars>>

\* The SSE loop returns when the channel is closed and drained ...
StreamEnds ==
    /\ req = "reading" /\ Drained(cur)
    /\ req' = "done" /\ reply' = "streamed"
    /\ UNCHANGED <<vars, mode, cur, agent, regVars>>

\* ... or when the request's context is done, whatever is still buffered.
StreamLeaves ==
    /\ req = "reading" /\ ctx = "done"
    /\ req' = "done" /\ reply' = "gone"
    /\ UNCHANGED <<vars, mode, cur, agent, regVars>>

\* Execute in blocking mode: wait for the close, then return Err().
ExecuteReturns ==
    /\ req = "draining" /\ Drained(cur)
    /\ IF err # NoError THEN req' = "done" /\ reply' = "error"
                        ELSE req' = "drained" /\ UNCHANGED reply
    /\ UNCHANGED <<vars, mode, cur, agent, regVars>>

\* Faulty: a missing output is not looked for.
BlockingReplyNoCheck ==
    /\ req = "awaiting" /\ Drained(cur)
    /\ req' = "done"
    /\ reply' = IF err # NoError THEN "error" ELSE "success"
    /\ UNCHANGED <<vars, mode, cur, agent, regVars>>

\* BlockingAdapter: the error, the output, or "no output produced".
BlockingReply ==
    /\ req = "awaiting" /\ Drained(cur)
    /\ req' = "done"
    /\ reply' = IF err # NoError THEN "error"
                ELSE IF output = NoOutput THEN "nooutput" ELSE "success"
    /\ UNCHANGED <<vars, mode, cur, agent, regVars>>

\* Faulty: the execution context is derived from the request's in any case.
RequestCtxDoneAttached ==
    /\ CtxDone
    /\ execCtx' = IF execCtx = "live" THEN "done" ELSE execCtx
    /\ UNCHANGED <<reqVars, agent, regVars>>

\* The client goes away, or the request has been answered: net/http ends its
\* context, and with it an execution context derived from it.
RequestCtxDone ==
    /\ CtxDone
    /\ execCtx' = IF execCtx = "live" /\ ~hasStore THEN "done" ELSE execCtx
    /\ UNCHANGED <<reqVars, agent, regVars>>

-----------------------------------------------------------------------------
(* The agent goroutine: executeAgent around the agent.                     *)

AgentPublish(type) ==
    /\ agent = "running"
    /\ Len(emitted) < MaxPublish                               \* bound
    /\ Publish(type)
    /\ UNCHANGED <<reqVars, agent, regVars>>

\* The agent ran to its end and completed the execution itself.
AgentCompletes(out) ==
    /\ agent = "running" /\ agent' = "unwinding"
    /\ Complete(out)
    /\ UNCHANGED <<reqVars, regVars>>

\* Faulty: the stream handler goes on after it has called Fail.
AgentFailsOn(e) ==
    /\ agent = "running"
    /\ Fail(e)
    /\ UNCHANGED <<reqVars, agent, regVars>>

\* The agent returned an error or panicked.  It may have called Fail already;
\* executeAgent's own call then returns early.
AgentFails(e) ==
    /\ agent = "running" /\ agent' = "unwinding"
    /\ Fail(e)
    /\ UNCHANGED <<reqVars, regVars>>

\* Faulty: executeAgent returns without calling Cancel.
AgentCancelledSilently ==
    /\ agent = "running" /\ agent' = "unwinding"
    /\ execCtx = "done"
    /\ UNCHANGED <<vars, reqVars, regVars>>

\* The agent returned context.Canceled, which only a done context produces.
AgentCancelled ==
    /\ agent = "running" /\ agent' = "unwinding"
    /\ execCtx = "done"
    /\ Cancel
    /\ UNCHANGED <<reqVars, regVars>>

AgentReturns ==
    \/ \E out \in Outputs : AgentCompletes(out)
    \/ \E e \in Errors : AgentFails(e)
    \/ AgentCancelled

\* The deferred calls, last one first: DelayedUnregister, then Unregister.
ArmUnregister ==
    /\ agent = "unwinding" /\ agent' = "unregistering"
    /\ regTimer' = RegistryDelay
    /\ UNCHANGED <<vars, reqVars, taskReg, execReg, canceller>>

\* Faulty: the deferred Unregister is missing.
UnregisterNothing ==
    /\ agent = "unregistering" /\ agent' = "gone"
    /\ UNCHANGED <<vars, reqVars, regVars>>

UnregisterTask ==
    /\ agent = "unregistering" /\ agent' = "gone"
    /\ taskReg' = FALSE
    /\ UNCHANGED <<vars, reqVars, execReg, regTimer, canceller>>

-----------------------------------------------------------------------------
(* A cancel request or broadcast: MemoryTaskRegistry.Cancel is a           *)
(* LoadAndDelete followed by the call of what it loaded.  Nobody can name  *)
(* the task before its start event has carried the ID out.                 *)

CancelLoads ==
    /\ emitted # <<>>
    /\ taskReg /\ canceller = "idle"
    /\ taskReg' = FALSE
    /\ canceller' = "holding"
    /\ UNCHANGED <<vars, reqVars, agent, execReg, regTimer>>

CancelCalls ==
    /\ canceller = "holding"
    /\ IF execCtx = "live" THEN ExecCtxDone ELSE UNCHANGED vars
    /\ canceller' = "idle"
    /\ UNCHANGED <<reqVars, agent, taskReg, execReg, regTimer>>

\* Time passes for the stored stream and for the delayed unregister.
Clock ==
    /\ ttl # NoTTL \/ regTimer # 0
    /\ IF ttl # NoTTL THEN Tick ELSE UNCHANGED vars
    /\ regTimer' = IF regTimer = 0 THEN 0 ELSE regTimer - 1
    /\ execReg' = (execReg /\ regTimer # 1)
    /\ UNCHANGED <<reqVars, agent, taskReg, canceller>>

-----------------------------------------------------------------------------
RequestSteps ==
    Build \/ RegisterTask \/ StartTask \/ Launch \/ Open \/ Read
    \/ StreamEnds \/ StreamLeaves \/ ExecuteReturns \/ BlockingReply

TaskNext ==
    \/ RequestSteps
    \/ RequestCtxDone
    \/ \E type \in ContentTypes : AgentPublish(type)
    \/ AgentReturns
    \/ ArmUnregister
    \/ UnregisterTask
    \/ CancelLoads
    \/ CancelCalls
    \/ Clock

(***************************************************************************)
(* Goroutines are scheduled and timers fire.  Nothing makes an agent       *)
(* finish, except that the libraries under it honour a done context; and   *)
(* nothing makes a client cancel or leave.                                 *)
(***************************************************************************)
TaskFairness ==
    /\ WF_taskVars(RequestSteps)
    /\ WF_taskVars(execCtx = "done" /\ AgentReturns)
    /\ WF_taskVars(ArmUnregister)
    /\ WF_taskVars(UnregisterTask)
    /\ WF_taskVars(CancelCalls)
    /\ WF_taskVars(Clock)

TaskSpec == TaskInit /\ [][TaskNext]_taskVars /\ TaskFairness

-----------------------------------------------------------------------------
\* Types of the variables this module adds.
TaskTypeOK ==
    /\ TypeOK
    /\ mode \in {"streaming", "blocking"}
    /\ req \in {"building", "built", "registered", "started", "launched",
                "reading", "draining", "drained", "awaiting", "done"}
    /\ cur \in Subscribers \cup {NoChannel}
    /\ reply \in {"none", "rejected", "streamed", "gone", "error", "nooutput", "success"}
    /\ agent \in {"off", "running", "unwinding", "unregistering", "gone"}
    /\ taskReg \in BOOLEAN /\ execReg \in BOOLEAN
    /\ regTimer \in 0..RegistryDelay
    /\ canceller \in {"idle", "holding"}

\* The callers keep the executor's contract, which none of its methods checks:
\* started once, its context set once, nothing published before the start or
\* after the end.  In Go: no goroutine ever sends on a channel that was closed.
ExecutorContract == Spec

\* A blocking reply tells the outcome the execution really had, although it is
\* read off the executor after two channels were drained, not received.
BlockingReplyTruthful ==
    mode = "blocking" /\ req = "done" =>
        /\ reply = "success"  => status = "completed" /\ output \in Outputs
        /\ reply = "error"    => status = "failed" /\ err \in Errors
        /\ reply = "nooutput" => status = "cancelled"

\* A stream that ends because its channel was closed has told the client how
\* the execution ended, unless that event met a full channel or the execution
\* was cancelled before the handler subscribed.
StreamTellsOutcome ==
    reply = "streamed" =>
        \/ Len(emitted) \in lost[cur]
        \/ status = "cancelled" /\ join[cur] = Len(emitted)
        \/ /\ got[cur] # <<>>
           /\ got[cur][Len(got[cur])].type = emitted[Len(emitted)].type

\* A running agent can be reached: by a reconnect, which finds its executor, and
\* by a cancel, whose cancelFunc is registered or on its way to being called
\* unless the context is done; and a reconnect finds none that has not started.
Reachable ==
    /\ agent = "running" =>
        execReg /\ (taskReg \/ canceller = "holding" \/ execCtx = "done")
    /\ execReg => status # "pending"
    /\ status = "running" /\ ~execReg => agent = "off"

\* With an event store the execution survives its client: nothing but a cancel
\* request ends its context.
DetachedFromClient ==
    hasStore /\ taskReg => execCtx = "live"

\* A cancelled context ends the execution.
CancelledTaskEnds == (agent = "running" /\ execCtx = "done") ~> IsTerminated

\* An ended execution leaves no request waiting: both adapters return.
RequestAnswered == IsTerminated ~> (req = "done")

\* Once a task has ended, both registries forget it for good.
RegistriesForget == IsTerminated ~> [](~taskReg /\ ~execReg)

\* The SSE design: an event is written to the stream when it is broadcast, so
\* the stream of an ended task tells how it ended (no Redis fault in this run).
EndIsStored ==
    hasStore /\ IsTerminated => emitted[Len(emitted)].sid # NoID
=============================================================================
