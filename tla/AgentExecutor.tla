---------------------------- MODULE AgentExecutor ---------------------------
(***************************************************************************)
(* One AgentExecutor (internal/domain/agent/executor/executor_impl.go):    *)
(* the status of an execution, the channels of its subscribers, and the    *)
(* events it broadcasts to them and appends to the event store.            *)
(*                                                                         *)
(* Every method holds the executor's mutex, so each is one action.  The    *)
(* Publish* methods hold it for reading only and could interleave with     *)
(* each other, but a single goroutine calls them (executeAgent's).         *)
(* What the code leaves to its callers is the contract below the methods:  *)
(* ChatTask shows that the orchestrator and the agent goroutine keep it.   *)
(***************************************************************************)
EXTENDS EventStore

CONSTANTS
    Subscribers,     \* the channels calls of Subscribe hand out
    Capacity,        \* the channel capacity (100 in the code)
    ContentTypes,    \* what the Publish* methods send: chunk, tool.call, ...
    Outputs, Errors, \* arguments of Complete and Fail
    NoOutput, NoError,
    MaxPublish       \* bound: no Publish once the log has this many events

TerminalTypes == {"complete", "error", "cancelled"}
EventTypes    == {"start"} \cup ContentTypes \cup TerminalTypes

ASSUME ExecutorAssumption ==
    /\ Capacity \in Nat \ {0}
    /\ MaxPublish \in Nat
    /\ ContentTypes \cap ({"start"} \cup TerminalTypes) = {}
    /\ NoOutput \notin Outputs
    /\ NoError \notin Errors

VARIABLES
    status,          \* e.status
    output, err,     \* e.output, e.err
    reg,             \* e.subscribers
    chst,            \* each channel: "none" (not made yet), "open", "closed"
    buf,             \* each channel's buffered events
    hasStore,        \* e.eventStore # nil
    ctx,             \* the request's context, e.ctx: "live" or "done"
    execCtx,         \* e.execCtx: "nil", "live" or "done"
    emitted,         \* history: every event broadcast so far
    got,             \* history: what was received from each channel
    join,            \* history: the length of the log at Subscribe
    lost             \* history: positions dropped at each full channel

resultVars  == <<status, output, err>>
channelVars == <<reg, chst, buf>>
ctxVars     == <<hasStore, ctx, execCtx>>
logVars     == <<emitted, lost>>
readVars    == <<got, join>>
vars == <<storeVars, resultVars, channelVars, ctxVars, logVars, readVars>>

\* An event: its position in the log (0: made up by Subscribe), type, StreamID.
Event(n, type, sid) == [n |-> n, type |-> type, sid |-> sid]
Synthetic(type) == Event(0, type, NoID)

IsTerminated == status \in {"completed", "failed", "cancelled"}

\* storeCtx: the execution's own context when it has one.
StoreCtx == IF execCtx # "nil" THEN execCtx ELSE ctx

\* A cancelled context makes every call to the store fail.
StoreUsable == hasStore /\ StoreCtx = "live"
Outcomes == IF StoreUsable THEN AppendOutcomes ELSE {"fail"}

-----------------------------------------------------------------------------
Init ==
    /\ StoreInit
    /\ status = "pending" /\ output = NoOutput /\ err = NoError
    /\ reg = {}
    /\ chst = [s \in Subscribers |-> "none"]
    /\ buf = [s \in Subscribers |-> <<>>]
    /\ hasStore \in BOOLEAN /\ ctx = "live" /\ execCtx = "nil"
    /\ emitted = <<>>
    /\ lost = [s \in Subscribers |-> {}]
    /\ got = [s \in Subscribers |-> <<>>]
    /\ join = [s \in Subscribers |-> 0]

-----------------------------------------------------------------------------
\* Faulty: the last free slot is never used.
OfferShy(q, ev) == IF Len(q) + 1 < Capacity THEN Append(q, ev) ELSE q

\* The non-blocking send: an event that finds the channel full is dropped.
HasRoom(q) == Len(q) < Capacity
Offer(q, ev) == IF HasRoom(q) THEN Append(q, ev) ELSE q

\* broadcastEvent: append to the store, then offer to every subscriber.
Broadcast(type, o) ==
    LET n  == Len(emitted) + 1
        ev == Event(n, type, ReturnedID(n, o))
    IN  /\ emitted' = Append(emitted, ev)
        /\ stream' = StreamAfterAppend(n, type, o)
        /\ buf' = [s \in Subscribers |->
                      IF s \in reg THEN Offer(buf[s], ev) ELSE buf[s]]
        /\ lost' = [s \in Subscribers |->
                      IF s \in reg /\ ~HasRoom(buf[s]) THEN lost[s] \cup {n}
                                                       ELSE lost[s]]

Start ==
    /\ status' = "running"
    /\ \E o \in Outcomes : Broadcast("start", o) /\ ttl' = TTLAfterAppend(o)
    /\ UNCHANGED <<output, err, reg, chst, ctxVars, readVars>>

\* PublishChunk, PublishToolCall, ... : they differ in the type only.
Publish(type) ==
    /\ \E o \in Outcomes : Broadcast(type, o) /\ ttl' = TTLAfterAppend(o)
    /\ UNCHANGED <<resultVars, reg, chst, ctxVars, readVars>>

\* The type of the event that announces each terminal status.
TerminalOf(outcome) ==
    CASE outcome = "completed" -> "complete"
      [] outcome = "failed"    -> "error"
      [] outcome = "cancelled" -> "cancelled"

\* Faulty: nothing is closed.
CloseNone == chst' = chst

\* closeAllSubscribers
CloseAll == chst' = [s \in Subscribers |-> IF s \in reg THEN "closed" ELSE chst[s]]

\* What Complete, Fail and Cancel share: the last event, close, SetTTL.
Finish(newStatus) ==
    /\ status' = newStatus
    /\ \E o \in Outcomes, set \in (IF StoreUsable THEN SetTTLOutcomes ELSE {FALSE}) :
          /\ Broadcast(TerminalOf(newStatus), o)
          /\ ttl' = TTLAfterSetTTL(stream', TTLAfterAppend(o), set)
    /\ CloseAll
    /\ UNCHANGED <<reg, ctxVars, readVars>>

\* Faulty: an ended execution is ended again.
EndAgain(newStatus) == Finish(newStatus)

\* A call on an ended execution returns early and changes nothing.
End(newStatus) == ~IsTerminated /\ Finish(newStatus)

Complete(out) ==
    /\ End("completed")
    /\ output' = out
    /\ UNCHANGED err

Fail(e) ==
    /\ End("failed")
    /\ err' = e
    /\ UNCHANGED output

Cancel ==
    /\ End("cancelled")
    /\ UNCHANGED <<output, err>>

-----------------------------------------------------------------------------
\* Faulty: a failure is not replayed, or the start event is replayed as if it
\* were new.
ReplayNoError ==
    CASE status = "running"   -> <<Synthetic("start")>>
      [] status = "completed" -> <<Synthetic("complete")>>
      [] OTHER                -> <<>>
ReplayStart == IF emitted = <<>> THEN <<>> ELSE <<Head(emitted)>>

\* The events a new channel starts with.
Replay ==
    CASE status = "running"   -> <<Synthetic("start")>>
      [] status = "completed" -> <<Synthetic("complete")>>
      [] status = "failed"    -> <<Synthetic("error")>>
      [] OTHER                -> <<>>

Subscribe(s) ==
    /\ chst[s] = "none"
    /\ buf' = [buf EXCEPT ![s] = Replay]
    /\ chst' = [chst EXCEPT ![s] = IF IsTerminated THEN "closed" ELSE "open"]
    /\ reg' = IF IsTerminated THEN reg ELSE reg \cup {s}
    /\ join' = [join EXCEPT ![s] = Len(emitted)]
    /\ UNCHANGED <<storeVars, resultVars, ctxVars, logVars, got>>

\* A subscriber takes the oldest event off its channel.
Receive(s) ==
    /\ buf[s] # <<>>
    /\ buf' = [buf EXCEPT ![s] = Tail(@)]
    /\ got' = [got EXCEPT ![s] = Append(@, Head(buf[s]))]
    /\ UNCHANGED <<storeVars, resultVars, reg, chst, ctxVars, logVars, join>>

\* A receive that reports the channel closed and drained.
Drained(s) == chst[s] = "closed" /\ buf[s] = <<>>

-----------------------------------------------------------------------------
SetExecContext(c) ==
    /\ execCtx' = c
    /\ UNCHANGED <<storeVars, resultVars, channelVars, hasStore, ctx, logVars, readVars>>

\* The request ends, or its client goes away; the execution's context ends with
\* it when it was derived from the request's.
CtxDone ==
    /\ ctx = "live"
    /\ ctx' = "done"
    /\ execCtx' \in {execCtx} \cup (IF execCtx = "live" THEN {"done"} ELSE {})
    /\ UNCHANGED <<storeVars, resultVars, channelVars, hasStore, logVars, readVars>>

\* The execution's context is cancelled.
ExecCtxDone ==
    /\ execCtx = "live"
    /\ execCtx' = "done"
    /\ UNCHANGED <<storeVars, resultVars, channelVars, hasStore, ctx, logVars, readVars>>

\* Time passes for the stored stream.
Tick ==
    /\ StoreTick
    /\ UNCHANGED <<resultVars, channelVars, ctxVars, logVars, readVars>>

-----------------------------------------------------------------------------
(* The callers' contract: Start and SetExecContext once, nothing published *)
(* before the start or after the end.                                      *)

StartOnce == status = "pending" /\ Start

PublishRunning(type) ==
    /\ status = "running"
    /\ Len(emitted) < MaxPublish                               \* bound
    /\ Publish(type)

SetExecContextOnce == execCtx = "nil" /\ \E c \in {"live", ctx} : SetExecContext(c)

Next ==
    \/ StartOnce
    \/ \E type \in ContentTypes : PublishRunning(type)
    \/ \E out \in Outputs : Complete(out)
    \/ \E e \in Errors : Fail(e)
    \/ Cancel
    \/ \E s \in Subscribers : Subscribe(s) \/ Receive(s)
    \/ SetExecContextOnce
    \/ CtxDone
    \/ ExecCtxDone
    \/ Tick

Spec == Init /\ [][Next]_vars

-----------------------------------------------------------------------------
Events == [n : Nat, type : EventTypes, sid : Nat]

\* Every variable stays in its range; the type invariant of this module.
TypeOK ==
    /\ stream \in Seq([id : Nat, type : EventTypes])
    /\ ttl \in Nat
    /\ status \in {"pending", "running", "completed", "failed", "cancelled"}
    /\ output \in Outputs \cup {NoOutput}
    /\ err \in Errors \cup {NoError}
    /\ reg \subseteq Subscribers
    /\ chst \in [Subscribers -> {"none", "open", "closed"}]
    /\ buf \in [Subscribers -> Seq(Events)]
    /\ hasStore \in BOOLEAN
    /\ ctx \in {"live", "done"}
    /\ execCtx \in {"nil", "live", "done"}
    /\ emitted \in Seq(Events)
    /\ got \in [Subscribers -> Seq(Events)]
    /\ join \in [Subscribers -> Nat]
    /\ lost \in [Subscribers -> SUBSET Nat]

\* What a channel has carried so far, read or still waiting.
View(s) == got[s] \o buf[s]

\* The log positions among those (a synthetic event has none).
Seen(s) == {View(s)[i].n : i \in 1..Len(View(s))} \ {0}

\* A channel is closed exactly when the execution has ended: no subscriber can
\* be left blocked on an ended execution, and none is cut off from a live one.
ClosedIffEnded ==
    \A s \in Subscribers :
        chst[s] = "closed" <=> (chst[s] # "none" /\ IsTerminated)

\* At most one terminal event is ever broadcast, it is the last event of the
\* log, and it names the same outcome as the status, the output and the error,
\* whichever of Complete, Fail and Cancel came first.
OneOutcome ==
    /\ \A i \in 1..Len(emitted) :
          emitted[i].type \in TerminalTypes => i = Len(emitted) /\ IsTerminated
    /\ IsTerminated =>
          /\ emitted # <<>>
          /\ emitted[Len(emitted)].type = TerminalOf(status)
    /\ output # NoOutput <=> status = "completed"
    /\ err # NoError <=> status = "failed"

\* A subscriber gets the events of the log in log order, none twice, after at
\* most one synthetic event that comes before all others.
InOrder ==
    \A s \in Subscribers :
        LET v == View(s)
        IN  /\ \A i, j \in 1..Len(v) : i < j => v[i].n < v[j].n
            /\ \A i \in 1..Len(v) : v[i].n # 0 => v[i] = emitted[v[i].n]

\* Nothing broadcast after a subscription is unaccounted for: the subscriber
\* has it, or its full channel dropped it, and never both.
Accounted ==
    \A s \in reg :
        /\ Seen(s) \cup lost[s] = (join[s] + 1)..Len(emitted)
        /\ Seen(s) \cap lost[s] = {}

\* A subscriber that drains its closed channel has seen how the execution ended
\* as its last event, unless its channel was full at that moment or it
\* subscribed after a cancellation (whose event Subscribe does not replay).
DrainedKnowsOutcome ==
    \A s \in Subscribers :
        (Drained(s) /\ Len(emitted) \notin lost[s]
                   /\ (status = "cancelled" => join[s] < Len(emitted)))
        => /\ got[s] # <<>>
           /\ got[s][Len(got[s])].type = emitted[Len(emitted)].type

\* The stored entries are events of the log in log order, under the IDs their
\* live copies carry, and from the oldest surviving entry on no event that was
\* given an ID is missing: what a reconnecting client reads has no hole.
StoredWithoutHole ==
    /\ \A i \in 1..Len(stream) :
          LET e == stream[i]
          IN  /\ e.id \in 1..Len(emitted)
              /\ e.type = emitted[e.id].type
              /\ emitted[e.id].sid \in {e.id, NoID}
              /\ \A j \in 1..(i - 1) : stream[j].id < e.id
    /\ stream # <<>> =>
          \A n \in stream[1].id..Len(emitted) :
              emitted[n].sid # NoID =>
                  \E i \in 1..Len(stream) : stream[i].id = n

\* Once ended, an execution never changes its outcome, broadcasts nothing more
\* and puts nothing into a closed channel (in Go: never panics there).
EndIsFinal ==
    [][IsTerminated =>
          /\ UNCHANGED <<status, output, err, emitted, reg>>
          /\ \A s \in Subscribers :
                chst[s] = "closed" => /\ chst'[s] = "closed"
                                      /\ Len(buf'[s]) <= Len(buf[s])]_vars

\* The executor as the feed its readers see: status, channels, contexts and the
\* store are hidden, synthetic events are no part of the log.
LogView     == [i \in 1..Len(emitted) |-> emitted[i].type]
OutcomeView == IF IsTerminated THEN status ELSE "open"
FromView    == [s \in Subscribers |-> IF chst[s] = "none" THEN -1 ELSE join[s]]
HaveView    == [s \in Subscribers |->
                  {got[s][i].n : i \in 1..Len(got[s])} \ {0}]

Feed == INSTANCE ExecutionFeed WITH
    Readers    <- Subscribers,
    Content    <- {"start"} \cup ContentTypes,
    Outcomes   <- {"completed", "failed", "cancelled"},
    LastOf     <- TerminalOf,
    Open       <- "open",
    Unattached <- -1,
    log        <- LogView,
    outcome    <- OutcomeView,
    from       <- FromView,
    have       <- HaveView

\* The executor implements the feed: one outcome, and every reader is handed the
\* log in order, nothing twice and nothing from before it subscribed.
ImplementsFeed == Feed!Spec
=============================================================================
